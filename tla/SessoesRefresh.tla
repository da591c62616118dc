---------------------------- MODULE SessoesRefresh ----------------------------
(***************************************************************************)
(* Refresh sessions (auth.service.ts), the browsers that hold them in a    *)
(* cookie and ask for a new access token one request at a time             *)
(* (bff-fetch.ts), and the operator who acts as an account of a customer   *)
(* (impersonation.service.ts).                                             *)
(*                                                                         *)
(* A handler revokes and creates rows in separate statements.  A row is    *)
(* marked revoked when its token is rotated or logged out, and deleted     *)
(* when another login, a reset of the password or an operator ends it.     *)
(***************************************************************************)
EXTENDS Naturals, Sequences, FiniteSets

CONSTANTS
    Contas,           \* accounts, of tenants and of the platform
    Operadores,       \* those of the platform
    Navegadores,      \* browsers
    ContaDe,          \* who logs in with each of them
    Pedidos,          \* requests that may run at the same time
    NavegadoresDe,    \* the browsers they come from: one request at a time from each
    Operacoes,        \* what each of them may ask for
    Personificaveis,  \* accounts an operator may act as
    MaxSessoes,       \* bound: rows of AuthRefreshSession
    MaxFalhas,        \* bound: handlers that stop half way, answers lost
    Nulo

Endpoints == {"login", "refresh", "logout", "personificar", "terminarPersonificacao",
              "reset", "desativar", "ativar"}

(* What the constants are (those of the instances are checked).           *)
SessoesAssumption ==
    /\ Operadores \subseteq Contas /\ Personificaveis \subseteq Contas \ Operadores
    /\ ContaDe \in [Navegadores -> Contas]
    /\ NavegadoresDe \in [Pedidos -> SUBSET Navegadores]
    /\ \A p, q \in Pedidos : p # q => NavegadoresDe[p] \cap NavegadoresDe[q] = {}
    /\ Operacoes \in [Pedidos -> SUBSET Endpoints]
    /\ MaxSessoes \in Nat /\ MaxFalhas \in Nat
    /\ Nulo \notin Nat /\ Nulo \notin Contas

(* AuthRefreshSession: revokedAt is null, at most 30 seconds ago or        *)
(* earlier, or the row is deleted.                                         *)
Estados == {"ativa", "recente", "antiga", "apagada"}
SessaoRow == [conta: Contas, estado: Estados]

VARIABLES
    sessao,       \* AuthRefreshSession by createdAt; a token is the position of its row
    cookie,       \* the token each browser has
    ativa,        \* accounts that are active
    personifica,  \* how many ImpersonationSession of each operator are not revoked
    terminados,   \* history: browsers whose session something else has ended
    pedido,
    falhas

vars == <<sessao, cookie, ativa, personifica, terminados, pedido, falhas>>

Tokens == DOMAIN sessao
Livre == [pc |-> "livre"]
Ativas(u) == {t \in Tokens : sessao[t].conta = u /\ sessao[t].estado = "ativa"}

PedidoRow ==
    {Livre}
      \cup [pc: {"refresh.corrida", "refresh.comprometida", "refresh.rodar"}, nav: Navegadores,
            token: Nat \ {0}]
      \cup [pc: {"refresh.conta", "login.apagar", "login.criar", "personificar.plataforma",
                 "personificar.anteriores", "personificar.criar", "terminar.login"},
            nav: Navegadores, conta: Contas]
      \cup [pc: {"reset.apagar"}, conta: Contas]

Init ==
    /\ sessao = <<>>
    /\ cookie = [b \in Navegadores |-> Nulo]
    /\ ativa = Contas
    /\ personifica = [o \in Operadores |-> 0]
    /\ terminados = {}
    /\ pedido = [p \in Pedidos |-> Livre] /\ falhas = 0

Aceita(p, op) == pedido[p] = Livre /\ op \in Operacoes[p]
Segue(p, r) == pedido' = [pedido EXCEPT ![p] = r]
Termina(p) == Segue(p, Livre)
Passa(p, pc) == Segue(p, [pedido[p] EXCEPT !.pc = pc])
PassoConta(pc, b, u) == [pc |-> pc, nav |-> b, conta |-> u]
SemMudar == UNCHANGED <<sessao, cookie, ativa, personifica, terminados, falhas>>

(* The rows of T go to state e. *)
Marca(T, e) == sessao' = [t \in Tokens |-> IF t \in T THEN [sessao[t] EXCEPT !.estado = e] ELSE sessao[t]]
LimpaCookie(b) == cookie' = [cookie EXCEPT ![b] = Nulo]

(* The browsers with a session of the account.                             *)
Com(u) == {b \in Navegadores : cookie[b] # Nulo /\ sessao[cookie[b]].conta = u}

(***************************************************************************)
(* loginTenant, loginPlatform                                              *)
(***************************************************************************)
Login(p, b) ==
    /\ Aceita(p, "login") /\ ContaDe[b] \in ativa
    /\ Segue(p, PassoConta("login.apagar", b, ContaDe[b]))
    /\ SemMudar

(* Fault: the sessions of the account are left. *)
FaltaNaoApaga(p) ==
    /\ pedido[p].pc = "login.apagar"
    /\ Passa(p, "login.criar")
    /\ SemMudar

(* completeLogin: revokeOtherRefreshSessions deletes, so that the use of   *)
(* such a token is not taken for a stolen one ...                          *)
LoginApagar(p) ==
    /\ pedido[p].pc = "login.apagar"
    /\ Marca(Ativas(pedido[p].conta), "apagada")
    /\ terminados' = terminados \cup (Com(pedido[p].conta) \ {pedido[p].nav})
    /\ Passa(p, "login.criar")
    /\ UNCHANGED <<cookie, ativa, personifica, falhas>>

(* Fault: a browser that has a cookie keeps it. *)
FaltaCookieMantido(p) ==
    LET r == pedido[p]
    IN  /\ r.pc = "login.criar" /\ Len(sessao) < MaxSessoes
        /\ sessao' = Append(sessao, [conta |-> r.conta, estado |-> "ativa"])
        /\ cookie' = IF cookie[r.nav] = Nulo THEN [cookie EXCEPT ![r.nav] = Len(sessao) + 1] ELSE cookie
        /\ terminados' = terminados \ {r.nav}
        /\ Termina(p)
        /\ UNCHANGED <<ativa, personifica, falhas>>

(* ... and the new session is created.  The answer that carries its cookie *)
(* may be lost.                                                            *)
LoginCriar(p) ==
    LET r == pedido[p]
    IN  /\ r.pc = "login.criar" /\ Len(sessao) < MaxSessoes
        /\ sessao' = Append(sessao, [conta |-> r.conta, estado |-> "ativa"])
        /\ \/ /\ cookie' = [cookie EXCEPT ![r.nav] = Len(sessao) + 1]
              /\ terminados' = terminados \ {r.nav} /\ UNCHANGED falhas
           \/ /\ falhas < MaxFalhas /\ falhas' = falhas + 1
              /\ terminados' = terminados \cup {r.nav} /\ UNCHANGED cookie
        /\ Termina(p)
        /\ UNCHANGED <<ativa, personifica>>

(***************************************************************************)
(* refreshFromCookie                                                       *)
(***************************************************************************)
RefreshLer(p, b) ==
    LET t == cookie[b]
        e == sessao[t].estado
    IN  /\ Aceita(p, "refresh") /\ t # Nulo /\ e # "apagada"
        /\ Segue(p, [nav |-> b, token |-> t,
                     pc |-> CASE e = "ativa" -> "refresh.rodar"
                              [] e = "recente" -> "refresh.corrida"
                              [] e = "antiga" -> "refresh.comprometida"])
        /\ SemMudar

(* "Sessão expirada ou inválida": the row is gone. *)
RefreshInvalida(p, b) ==
    /\ Aceita(p, "refresh") /\ cookie[b] # Nulo /\ sessao[cookie[b]].estado = "apagada"
    /\ LimpaCookie(b)
    /\ UNCHANGED <<sessao, ativa, personifica, terminados, pedido, falhas>>

(* Revoked at most 30 seconds ago: an access token for the newest active   *)
(* session of the account, whose cookie the browser does not get.          *)
RefreshCorrida(p) ==
    LET u == sessao[pedido[p].token].conta
    IN  /\ pedido[p].pc = "refresh.corrida"
        /\ IF Ativas(u) # {} /\ u \in ativa THEN Termina(p) ELSE Passa(p, "refresh.comprometida")
        /\ SemMudar

(* "Sessão comprometida - todas as sessões foram terminadas" *)
RefreshComprometida(p) ==
    LET u == sessao[pedido[p].token].conta
    IN  /\ pedido[p].pc = "refresh.comprometida"
        /\ Marca(Ativas(u), "recente")
        /\ terminados' = terminados \cup Com(u)
        /\ LimpaCookie(pedido[p].nav) /\ Termina(p)
        /\ UNCHANGED <<ativa, personifica, falhas>>

(* Rotation: the old session is revoked before the new one is created.     *)
(* The update by id fails when the row is gone, and revokes once more one  *)
(* that is revoked.                                                        *)
RefreshRodar(p) ==
    LET r == pedido[p]
    IN  /\ r.pc = "refresh.rodar"
        /\ IF sessao[r.token].estado = "apagada" THEN Termina(p) /\ UNCHANGED sessao
           ELSE /\ Marca({r.token}, "recente")
                /\ Segue(p, PassoConta("refresh.conta", r.nav, sessao[r.token].conta))
        /\ UNCHANGED <<cookie, ativa, personifica, terminados, falhas>>

(* findFirst({ id, active: true }), here and in endImpersonation           *)
RefreshConta(p) ==
    /\ pedido[p].pc = "refresh.conta"
    /\ IF pedido[p].conta \in ativa THEN Passa(p, "login.apagar") /\ UNCHANGED terminados
       ELSE Termina(p) /\ terminados' = terminados \cup {pedido[p].nav}
    /\ UNCHANGED <<sessao, cookie, ativa, personifica, falhas>>

(***************************************************************************)
(* logoutFromCookie                                                        *)
(***************************************************************************)
Sair(b) ==
    /\ IF cookie[b] = Nulo THEN UNCHANGED sessao
       ELSE Marca({cookie[b]} \cap Ativas(sessao[cookie[b]].conta), "recente")
    /\ LimpaCookie(b)

Logout(p, b) ==
    /\ Aceita(p, "logout") /\ cookie[b] # Nulo
    /\ Sair(b)
    /\ UNCHANGED <<ativa, personifica, terminados, pedido, falhas>>

(***************************************************************************)
(* startImpersonation, from the browser of an operator whose access token  *)
(* has not expired                                                         *)
(***************************************************************************)
PersonificarLer(p, b, u) ==
    /\ Aceita(p, "personificar") /\ ContaDe[b] \in Operadores
    /\ u \in Personificaveis \cap ativa
    /\ Segue(p, PassoConta("personificar.plataforma", b, u))
    /\ SemMudar

PersonificarPlataforma(p) ==
    LET o == ContaDe[pedido[p].nav]
    IN  /\ pedido[p].pc = "personificar.plataforma"
        /\ Marca(Ativas(o), "apagada")
        /\ terminados' = terminados \cup Com(o)
        /\ Passa(p, "personificar.anteriores")
        /\ UNCHANGED <<cookie, ativa, personifica, falhas>>

PersonificarAnteriores(p) ==
    /\ pedido[p].pc = "personificar.anteriores"
    /\ personifica' = [personifica EXCEPT ![ContaDe[pedido[p].nav]] = 0]
    /\ Passa(p, "personificar.criar")
    /\ UNCHANGED <<sessao, cookie, ativa, terminados, falhas>>

(* The login that follows ends the customer's own session.                 *)
PersonificarCriar(p) ==
    /\ pedido[p].pc = "personificar.criar"
    /\ personifica' = [personifica EXCEPT ![ContaDe[pedido[p].nav]] = @ + 1]
    /\ Passa(p, "login.apagar")
    /\ UNCHANGED <<sessao, cookie, ativa, terminados, falhas>>

(* endImpersonation: the operator is logged in again; the session of the   *)
(* customer stays.                                                         *)
TerminarPersonificacao(p, b) ==
    /\ Aceita(p, "terminarPersonificacao") /\ ContaDe[b] \in Operadores
    /\ personifica[ContaDe[b]] > 0
    /\ personifica' = [personifica EXCEPT ![ContaDe[b]] = @ - 1]
    /\ Segue(p, PassoConta("terminar.login", b, ContaDe[b]))
    /\ UNCHANGED <<sessao, cookie, ativa, terminados, falhas>>

TerminarLogin(p) ==
    LET r == pedido[p]
    IN  /\ r.pc = "terminar.login"
        /\ IF r.conta \in ativa THEN Passa(p, "login.apagar") /\ UNCHANGED <<sessao, cookie>>
           ELSE Sair(r.nav) /\ Termina(p)
        /\ UNCHANGED <<ativa, personifica, terminados, falhas>>

(***************************************************************************)
(* Operations on an account by others                                      *)
(***************************************************************************)
(* confirmTenantPasswordReset: the transaction writes the password; the    *)
(* sessions are deleted after it.                                          *)
Reset(p, u) ==
    /\ Aceita(p, "reset") /\ u \in ativa
    /\ Segue(p, [pc |-> "reset.apagar", conta |-> u])
    /\ SemMudar

ResetApagar(p) ==
    /\ pedido[p].pc = "reset.apagar"
    /\ Marca(Ativas(pedido[p].conta), "apagada")
    /\ terminados' = terminados \cup Com(pedido[p].conta)
    /\ Termina(p)
    /\ UNCHANGED <<cookie, ativa, personifica, falhas>>

(* UsersService.update ends no session; the next refresh finds the account *)
(* inactive, after it has revoked the token.                               *)
Desativar(p, u) ==
    /\ Aceita(p, "desativar") /\ u \in ativa
    /\ ativa' = ativa \ {u}
    /\ UNCHANGED <<sessao, cookie, personifica, terminados, pedido, falhas>>

Ativar(p, u) ==
    /\ Aceita(p, "ativar") /\ u \notin ativa
    /\ ativa' = ativa \cup {u}
    /\ UNCHANGED <<sessao, cookie, personifica, terminados, pedido, falhas>>

(* The 30 seconds of the tokens revoked so far are over.                   *)
PassarTrinta ==
    /\ \E t \in Tokens : sessao[t].estado = "recente"
    /\ Marca({t \in Tokens : sessao[t].estado = "recente"}, "antiga")
    /\ UNCHANGED <<cookie, ativa, personifica, terminados, pedido, falhas>>

(* A handler stops between two statements.                                 *)
Interromper(p) ==
    /\ pedido[p] # Livre /\ falhas < MaxFalhas
    /\ falhas' = falhas + 1
    /\ terminados' = terminados \cup NavegadoresDe[p]
    /\ Termina(p)
    /\ UNCHANGED <<sessao, cookie, ativa, personifica>>

DoNavegador(p, b) ==
    \/ Login(p, b) \/ RefreshLer(p, b) \/ RefreshInvalida(p, b) \/ Logout(p, b)
    \/ TerminarPersonificacao(p, b)
    \/ \E u \in Contas : PersonificarLer(p, b, u)

Continua(p) ==
    \/ LoginApagar(p) \/ LoginCriar(p)
    \/ RefreshCorrida(p) \/ RefreshComprometida(p) \/ RefreshRodar(p) \/ RefreshConta(p)
    \/ PersonificarPlataforma(p) \/ PersonificarAnteriores(p) \/ PersonificarCriar(p)
    \/ TerminarLogin(p) \/ ResetApagar(p) \/ Interromper(p)

Next ==
    \/ \E p \in Pedidos :
          \/ Continua(p)
          \/ \E b \in NavegadoresDe[p] : DoNavegador(p, b)
          \/ \E u \in Contas : Reset(p, u) \/ Desativar(p, u) \/ Ativar(p, u)
    \/ PassarTrinta

Spec == Init /\ [][Next]_vars

-----------------------------------------------------------------------------
(* Types. *)
TypeOK ==
    /\ sessao \in Seq(SessaoRow)
    /\ cookie \in [Navegadores -> Tokens \cup {Nulo}]
    /\ ativa \subseteq Contas /\ terminados \subseteq Navegadores
    /\ personifica \in [Operadores -> Nat]
    /\ pedido \in [Pedidos -> PedidoRow]
    /\ falhas \in Nat

(* "Uma sessão activa por utilizador: novo login invalida dispositivos     *)
(* anteriores", although the old sessions are deleted and the new one      *)
(* created apart, handlers stop between the two and others end sessions    *)
(* meanwhile -- when one request at a time creates sessions of an account. *)
UmaSessaoPorConta == \A u \in Contas : Cardinality(Ativas(u)) <= 1

(* "Sessão única: termina ... impersonações anteriores do superadmin": an  *)
(* operator acts as one account at a time.                                 *)
PersonificacaoUnica == \A o \in Operadores : personifica[o] <= 1

(* A browser that asks for one refresh at a time keeps a live session: its *)
(* token is dead only when a login elsewhere, a reset, an operator, a      *)
(* failure or a lost answer has ended the session.                         *)
CookieVivo ==
    \A p \in Pedidos : pedido[p] = Livre =>
        \A b \in NavegadoresDe[p] \ terminados :
            cookie[b] # Nulo => sessao[cookie[b]].estado = "ativa"
=============================================================================
