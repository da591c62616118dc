-------------------------- MODULE SessoesRefreshProofs --------------------------
(* Theorems about SessoesRefresh, for every set of accounts, operators,    *)
(* browsers and requests, and every number of sessions and failures.       *)
EXTENDS SessoesRefresh, FiniteSetTheorems, SequenceTheorems, TLAPS

PcsToken == {"refresh.corrida", "refresh.comprometida", "refresh.rodar"}
PcsPersonificar == {"personificar.plataforma", "personificar.anteriores", "personificar.criar"}
PcsConta == {"refresh.conta", "login.apagar", "login.criar", "terminar.login"} \cup PcsPersonificar

(* The accounts a request may create sessions of: those who log in with    *)
(* its browsers, and those it may act as.                                  *)
ContasDe(p) ==
    {ContaDe[b] : b \in NavegadoresDe[p]}
    \cup {u \in Personificaveis : "personificar" \in Operacoes[p]}

(* What a request holds is its own: a browser of its, and an account it    *)
(* may create sessions of.                                                 *)
Dono(p, r) ==
    /\ r.pc \in PcsToken =>
          r.nav \in NavegadoresDe[p] /\ r.token \in Tokens /\ sessao[r.token].conta \in ContasDe(p)
    /\ r.pc \in PcsConta => r.nav \in NavegadoresDe[p] /\ r.conta \in ContasDe(p)
    /\ r.pc \in PcsPersonificar => ContaDe[r.nav] \in Operadores

CookieDono ==
    \A p \in Pedidos : \A b \in NavegadoresDe[p] :
        cookie[b] # Nulo => sessao[cookie[b]].conta \in ContasDe(p)

TypeInv == TypeOK /\ CookieDono /\ \A p \in Pedidos : Dono(p, pedido[p])

-----------------------------------------------------------------------------
(* Rows *)

LEMMA LivreTipo == Livre \in PedidoRow /\ Livre.pc \notin PcsToken /\ Livre.pc \notin PcsConta
BY DEF Livre, PedidoRow, PcsToken, PcsConta, PcsPersonificar

LEMMA LinhaConta ==
    ASSUME NEW pc \in PcsConta, NEW b \in Navegadores, NEW u \in Contas
    PROVE  /\ PassoConta(pc, b, u) \in PedidoRow
           /\ PassoConta(pc, b, u).pc = pc /\ PassoConta(pc, b, u).nav = b
           /\ PassoConta(pc, b, u).conta = u
BY DEF PassoConta, PedidoRow, PcsConta, PcsPersonificar

LEMMA PedidoConta ==
    ASSUME TypeOK, NEW p \in Pedidos, pedido[p].pc \in PcsConta
    PROVE  /\ pedido[p].nav \in Navegadores /\ pedido[p].conta \in Contas
           /\ pedido[p] = PassoConta(pedido[p].pc, pedido[p].nav, pedido[p].conta)
<1>1. pedido[p] \in PedidoRow
  BY DEF TypeOK
<1> QED BY <1>1 DEF PedidoRow, Livre, PcsConta, PcsPersonificar, PassoConta

ComToken(pc, b, t) == [pc |-> pc, nav |-> b, token |-> t]

LEMMA LinhaToken ==
    ASSUME NEW pc \in PcsToken, NEW b \in Navegadores, NEW t \in Nat \ {0}
    PROVE  /\ ComToken(pc, b, t) \in PedidoRow
           /\ ComToken(pc, b, t).pc = pc /\ ComToken(pc, b, t).nav = b /\ ComToken(pc, b, t).token = t
BY DEF ComToken, PedidoRow, PcsToken

LEMMA PedidoToken ==
    ASSUME TypeOK, NEW p \in Pedidos, pedido[p].pc \in PcsToken
    PROVE  /\ pedido[p].nav \in Navegadores /\ pedido[p].token \in Nat \ {0}
           /\ pedido[p] = ComToken(pedido[p].pc, pedido[p].nav, pedido[p].token)
<1>1. pedido[p] \in PedidoRow
  BY DEF TypeOK
<1> QED BY <1>1 DEF PedidoRow, Livre, PcsToken, ComToken

(* Sessions that are neither created nor activated.                        *)
Encolhe ==
    /\ sessao' \in Seq(SessaoRow) /\ Tokens' = Tokens
    /\ \A t \in Tokens : /\ sessao'[t].conta = sessao[t].conta
                         /\ sessao'[t].estado = "ativa" => sessao[t].estado = "ativa"

LEMMA TokensTipo == ASSUME TypeOK PROVE Tokens = 1..Len(sessao) /\ Len(sessao) \in Nat
BY DEF TypeOK, Tokens

LEMMA MarcaEncolhe ==
    ASSUME TypeOK, NEW T, NEW e \in Estados \ {"ativa"}, Marca(T, e)
    PROVE  Encolhe /\ \A t \in T \cap Tokens : sessao'[t].estado = e
<1> DEFINE n == Len(sessao)
           f == [t \in 1..n |-> IF t \in T THEN [sessao[t] EXCEPT !.estado = e] ELSE sessao[t]]
<1>1. n \in Nat /\ Tokens = 1..n /\ sessao' = f
  BY TokensTipo DEF Marca
<1>2. \A t \in 1..n : sessao[t] \in SessaoRow
  BY DEF TypeOK
<1>3. \A t \in 1..n : /\ f[t] \in SessaoRow /\ f[t].conta = sessao[t].conta
                      /\ t \in T => f[t].estado = e
                      /\ t \notin T => f[t] = sessao[t]
  BY <1>2 DEF SessaoRow
<1>4. f \in [1..n -> SessaoRow]
  BY <1>3
<1>5. f \in Seq(SessaoRow) /\ DOMAIN f = 1..n
  <2> HIDE DEF f
  <2> QED BY <1>1, <1>4
<1> HIDE DEF f
<1> QED BY <1>1, <1>3, <1>5 DEF Encolhe, Tokens

LEMMA FicaEncolhe == ASSUME TypeOK, UNCHANGED sessao PROVE Encolhe
BY DEF TypeOK, Encolhe, Tokens

-----------------------------------------------------------------------------
(* A step of a request that neither creates nor activates a session: the   *)
(* request goes on to r, and its browser may lose its cookie.              *)

Passo(p, r) ==
    /\ r \in PedidoRow /\ Segue(p, r) /\ Dono(p, r)
    /\ r.pc = "login.criar" => LoginApagar(p)
    /\ r.pc = "personificar.criar" => PersonificarAnteriores(p)

Menos == Encolhe /\ (UNCHANGED cookie \/ \E b \in Navegadores : LimpaCookie(b))

Resto == /\ ativa' \subseteq Contas /\ terminados' \subseteq Navegadores
         /\ personifica' \in [Operadores -> Nat] /\ falhas' \in Nat

LEMMA TypePasso ==
    ASSUME SessoesAssumption, TypeInv, Menos, Resto, pedido' \in [Pedidos -> PedidoRow],
           \A p \in Pedidos : Dono(p, pedido'[p])
    PROVE  TypeInv'
<1>1. cookie' \in [Navegadores -> Tokens \cup {Nulo}]
      /\ \A b \in Navegadores : cookie'[b] # Nulo => cookie'[b] = cookie[b]
  BY DEF Menos, LimpaCookie, TypeInv, TypeOK
<1>2. TypeOK'
  BY <1>1 DEF Menos, Encolhe, Resto, TypeOK
<1>3. CookieDono'
  <2> SUFFICES ASSUME NEW p \in Pedidos, NEW b \in NavegadoresDe[p], cookie'[b] # Nulo
               PROVE  sessao'[cookie'[b]].conta \in ContasDe(p)
    BY DEF CookieDono, ContasDe
  <2>1. b \in Navegadores
    BY DEF SessoesAssumption
  <2>2. cookie'[b] = cookie[b] /\ cookie[b] \in Tokens
    BY <1>1, <2>1 DEF TypeInv, TypeOK
  <2> QED BY <2>2 DEF TypeInv, CookieDono, Menos, Encolhe
<1>4. \A p \in Pedidos : Dono(p, pedido[p])'
  BY DEF Menos, Encolhe, Dono, ContasDe
<1> QED BY <1>2, <1>3, <1>4 DEF TypeInv

LEMMA SegueTodos ==
    ASSUME TypeInv, NEW p \in Pedidos, NEW r, Passo(p, r)
    PROVE  /\ pedido' \in [Pedidos -> PedidoRow] /\ pedido'[p] = r
           /\ \A o \in Pedidos \ {p} : pedido'[o] = pedido[o]
           /\ \A o \in Pedidos : Dono(o, pedido'[o])
BY DEF Passo, Segue, TypeInv, TypeOK

(* What a step of a request does, but for the creation of a session.       *)
Normal(p) == Menos /\ Resto /\ \E r \in PedidoRow : Passo(p, r)

LEMMA TypeNormal ==
    ASSUME SessoesAssumption, TypeInv, NEW p \in Pedidos, Normal(p) PROVE TypeInv'
<1>1. PICK r \in PedidoRow : Passo(p, r)
  BY DEF Normal
<1> QED BY <1>1, SegueTodos, TypePasso DEF Normal

LEMMA TerminaPasso == ASSUME NEW p \in Pedidos, Termina(p) PROVE Passo(p, Livre)
<1>1. Livre.pc = "livre"
  BY DEF Livre
<1> QED BY <1>1, LivreTipo DEF Passo, Termina, Dono, PcsPersonificar

(* From a request that holds an account to another.                        *)
LEMMA PassaPasso ==
    ASSUME TypeInv, NEW p \in Pedidos, pedido[p].pc \in PcsConta, NEW pc \in PcsConta, Passa(p, pc),
           pc \in PcsPersonificar => pedido[p].pc \in PcsPersonificar,
           pc = "login.criar" => LoginApagar(p),
           pc = "personificar.criar" => PersonificarAnteriores(p)
    PROVE  \E r \in PedidoRow : Passo(p, r)
<1> DEFINE q == pedido[p]
           r == PassoConta(pc, q.nav, q.conta)
<1>1. q = PassoConta(q.pc, q.nav, q.conta) /\ q.nav \in Navegadores /\ q.conta \in Contas
  BY PedidoConta DEF TypeInv
<1>2. [q EXCEPT !.pc = pc] = r
  BY <1>1 DEF PassoConta
<1>3. r \in PedidoRow /\ r.pc = pc /\ r.nav = q.nav /\ r.conta = q.conta
  BY <1>1, LinhaConta
<1>4. Segue(p, r)
  BY <1>2 DEF Passa
<1>5. Dono(p, q)
  BY DEF TypeInv
<1>6. pc \notin PcsToken
  BY DEF PcsConta, PcsToken, PcsPersonificar
<1> HIDE DEF r
<1>7. Dono(p, r)
  BY <1>3, <1>5, <1>6 DEF Dono
<1> QED BY <1>3, <1>4, <1>7 DEF Passo

(* A request that begins with an account.                                  *)
LEMMA ComecaPasso ==
    ASSUME SessoesAssumption, TypeInv, NEW p \in Pedidos, NEW b \in NavegadoresDe[p], NEW u \in ContasDe(p),
           NEW pc \in PcsConta \ {"login.criar", "personificar.criar"}, Segue(p, PassoConta(pc, b, u)),
           pc \in PcsPersonificar => ContaDe[b] \in Operadores
    PROVE  \E r \in PedidoRow : Passo(p, r)
<1> DEFINE r == PassoConta(pc, b, u)
<1>1. b \in Navegadores /\ u \in Contas
  BY DEF SessoesAssumption, ContasDe
<1>2. r \in PedidoRow /\ r.pc = pc /\ r.nav = b /\ r.conta = u
  BY <1>1, LinhaConta
<1>3. pc \notin PcsToken
  BY DEF PcsConta, PcsToken, PcsPersonificar
<1>4. Segue(p, r)
  OBVIOUS
<1> HIDE DEF r
<1> QED BY <1>2, <1>3, <1>4 DEF Passo, Dono

LEMMA SemMudarNormal ==
    ASSUME TypeInv, NEW p \in Pedidos, SemMudar, \E r \in PedidoRow : Passo(p, r)
    PROVE  Normal(p)
BY FicaEncolhe DEF SemMudar, Normal, Menos, Resto, TypeInv, TypeOK

LEMMA ComTipo == ASSUME NEW u PROVE Com(u) \subseteq Navegadores
BY DEF Com

-----------------------------------------------------------------------------
(* The steps *)

LEMMA NormalLogin ==
    ASSUME SessoesAssumption, TypeInv, NEW p \in Pedidos, NEW b \in NavegadoresDe[p], Login(p, b)
    PROVE  Normal(p)
<1>1. ContaDe[b] \in ContasDe(p)
  BY DEF ContasDe
<1>2. "login.apagar" \in PcsConta \ {"login.criar", "personificar.criar"} /\ "login.apagar" \notin PcsPersonificar
  BY DEF PcsConta, PcsPersonificar
<1>3. Segue(p, PassoConta("login.apagar", b, ContaDe[b])) /\ SemMudar
  BY DEF Login
<1> QED BY <1>1, <1>2, <1>3, ComecaPasso, SemMudarNormal

LEMMA NormalLoginApagar ==
    ASSUME SessoesAssumption, TypeInv, NEW p \in Pedidos, LoginApagar(p) PROVE Normal(p)
<1>1. pedido[p].pc \in PcsConta /\ "login.criar" \in PcsConta /\ "login.criar" \notin PcsPersonificar
  BY DEF LoginApagar, PcsConta, PcsPersonificar
<1>2. \E r \in PedidoRow : Passo(p, r)
  BY <1>1, PassaPasso DEF LoginApagar
<1>3. Encolhe
  BY MarcaEncolhe DEF LoginApagar, Estados, TypeInv
<1> QED BY <1>2, <1>3, ComTipo DEF LoginApagar, Normal, Menos, Resto, TypeInv, TypeOK

LEMMA NormalRefreshLer ==
    ASSUME SessoesAssumption, TypeInv, NEW p \in Pedidos, NEW b \in NavegadoresDe[p], RefreshLer(p, b)
    PROVE  Normal(p)
<1> DEFINE t == cookie[b]
           e == sessao[t].estado
           pc == CASE e = "ativa" -> "refresh.rodar" [] e = "recente" -> "refresh.corrida"
                   [] e = "antiga" -> "refresh.comprometida"
           r == ComToken(pc, b, t)
<1>1. b \in Navegadores
  BY DEF SessoesAssumption
<1>2. t \in Tokens /\ t \in Nat \ {0} /\ sessao[t] \in SessaoRow
  BY <1>1, TokensTipo DEF RefreshLer, TypeInv, TypeOK
<1>3. e \in {"ativa", "recente", "antiga"}
  BY <1>2 DEF RefreshLer, SessaoRow, Estados
<1>4. pc \in PcsToken
  BY <1>3 DEF PcsToken
<1>5. Segue(p, r)
  BY DEF RefreshLer, ComToken
<1>6. sessao[t].conta \in ContasDe(p)
  BY <1>1, <1>2 DEF TypeInv, CookieDono, RefreshLer
<1>7. r \in PedidoRow /\ r.pc = pc /\ r.nav = b /\ r.token = t
  <2> HIDE DEF pc, t
  <2> QED BY <1>1, <1>2, <1>4, LinhaToken
<1>8. pc \notin PcsConta
  <2> HIDE DEF pc
  <2> QED BY <1>4 DEF PcsToken, PcsConta, PcsPersonificar
<1>9. pc # "login.criar" /\ pc # "personificar.criar" /\ pc \notin PcsPersonificar
  <2> HIDE DEF pc
  <2> QED BY <1>8 DEF PcsConta, PcsPersonificar
<1> HIDE DEF pc, t, r
<1>10. Passo(p, r)
  BY <1>2, <1>5, <1>6, <1>7, <1>8, <1>9 DEF Passo, Dono
<1> QED BY <1>7, <1>10, SemMudarNormal DEF RefreshLer

LEMMA NormalRefreshInvalida ==
    ASSUME SessoesAssumption, TypeInv, NEW p \in Pedidos, NEW b \in NavegadoresDe[p], RefreshInvalida(p, b)
    PROVE  Normal(p)
<1>1. Termina(p) /\ b \in Navegadores
  BY DEF RefreshInvalida, Aceita, Termina, Segue, TypeInv, TypeOK, SessoesAssumption
<1>2. Encolhe
  BY FicaEncolhe DEF RefreshInvalida, TypeInv
<1> QED BY <1>1, <1>2, TerminaPasso, LivreTipo DEF RefreshInvalida, Normal, Menos, Resto, TypeInv, TypeOK

LEMMA NormalRefreshCorrida ==
    ASSUME SessoesAssumption, TypeInv, NEW p \in Pedidos, RefreshCorrida(p) PROVE Normal(p)
<1> DEFINE q == pedido[p]
           r == ComToken("refresh.comprometida", q.nav, q.token)
<1>1. q.pc \in PcsToken /\ "refresh.comprometida" \in PcsToken
  BY DEF RefreshCorrida, PcsToken
<1>2. q = ComToken(q.pc, q.nav, q.token) /\ q.nav \in Navegadores /\ q.token \in Nat \ {0}
  BY <1>1, PedidoToken DEF TypeInv
<1>3. r \in PedidoRow /\ r.pc = "refresh.comprometida" /\ r.nav = q.nav /\ r.token = q.token
  BY <1>1, <1>2, LinhaToken
<1>4. [q EXCEPT !.pc = "refresh.comprometida"] = r
  BY <1>2 DEF ComToken
<1>5. Dono(p, r)
  BY <1>1, <1>3 DEF Dono, TypeInv, PcsConta, PcsPersonificar
<1>6. CASE Segue(p, r)
  <2>1. Passo(p, r)
    BY <1>3, <1>5, <1>6 DEF Passo
  <2> QED BY <1>3, <2>1, SemMudarNormal DEF RefreshCorrida
<1>7. CASE Termina(p)
  BY <1>7, TerminaPasso, LivreTipo, SemMudarNormal DEF RefreshCorrida
<1> QED BY <1>4, <1>6, <1>7 DEF RefreshCorrida, Passa

LEMMA NormalRefreshComprometida ==
    ASSUME SessoesAssumption, TypeInv, NEW p \in Pedidos, RefreshComprometida(p) PROVE Normal(p)
<1>1. pedido[p].nav \in Navegadores
  BY PedidoToken DEF RefreshComprometida, PcsToken, TypeInv
<1>2. Encolhe
  BY MarcaEncolhe DEF RefreshComprometida, Estados, TypeInv
<1> QED BY <1>1, <1>2, ComTipo, TerminaPasso, LivreTipo
        DEF RefreshComprometida, Normal, Menos, Resto, TypeInv, TypeOK

LEMMA NormalRefreshRodar ==
    ASSUME SessoesAssumption, TypeInv, NEW p \in Pedidos, RefreshRodar(p) PROVE Normal(p)
<1> DEFINE q == pedido[p]
           r == PassoConta("refresh.conta", q.nav, sessao[q.token].conta)
<1>1. q.nav \in NavegadoresDe[p] /\ sessao[q.token].conta \in ContasDe(p)
  BY DEF RefreshRodar, TypeInv, Dono, PcsToken
<1>2. \E t \in PedidoRow : Passo(p, t)
  <2>1. CASE Termina(p)
    BY <2>1, TerminaPasso, LivreTipo
  <2>2. CASE Segue(p, r)
    <3>1. "refresh.conta" \in PcsConta \ {"login.criar", "personificar.criar"}
          /\ "refresh.conta" \notin PcsPersonificar
      BY DEF PcsConta, PcsPersonificar
    <3> QED BY <1>1, <2>2, <3>1, ComecaPasso
  <2> QED BY <2>1, <2>2 DEF RefreshRodar
<1>3. Encolhe
  BY MarcaEncolhe, FicaEncolhe DEF RefreshRodar, Estados, TypeInv
<1> QED BY <1>2, <1>3 DEF RefreshRodar, Normal, Menos, Resto, TypeInv, TypeOK

LEMMA NormalRefreshConta ==
    ASSUME SessoesAssumption, TypeInv, NEW p \in Pedidos, RefreshConta(p) PROVE Normal(p)
<1>1. /\ pedido[p].pc \in PcsConta /\ "login.apagar" \in PcsConta
      /\ "login.apagar" \notin PcsPersonificar /\ "login.apagar" # "login.criar"
  BY DEF RefreshConta, PcsConta, PcsPersonificar
<1>2. \E r \in PedidoRow : Passo(p, r)
  BY <1>1, PassaPasso, TerminaPasso, LivreTipo DEF RefreshConta
<1>3. pedido[p].nav \in Navegadores
  BY <1>1, PedidoConta DEF TypeInv
<1>4. Encolhe
  BY FicaEncolhe DEF RefreshConta, TypeInv
<1> QED BY <1>2, <1>3, <1>4 DEF RefreshConta, Normal, Menos, Resto, TypeInv, TypeOK

LEMMA SairMenos ==
    ASSUME TypeInv, NEW b \in Navegadores, Sair(b) PROVE Menos
<1>1. Encolhe
  BY MarcaEncolhe, FicaEncolhe DEF Sair, Estados, TypeInv
<1> QED BY <1>1 DEF Sair, Menos

LEMMA NormalLogout ==
    ASSUME SessoesAssumption, TypeInv, NEW p \in Pedidos, NEW b \in NavegadoresDe[p], Logout(p, b)
    PROVE  Normal(p)
<1>1. Termina(p) /\ b \in Navegadores
  BY DEF Logout, Aceita, Termina, Segue, TypeInv, TypeOK, SessoesAssumption
<1>2. Menos
  BY <1>1, SairMenos DEF Logout
<1> QED BY <1>1, <1>2, TerminaPasso, LivreTipo DEF Logout, Normal, Resto, TypeInv, TypeOK

LEMMA NormalPersonificarLer ==
    ASSUME SessoesAssumption, TypeInv, NEW p \in Pedidos, NEW b \in NavegadoresDe[p], NEW u \in Contas,
           PersonificarLer(p, b, u)
    PROVE  Normal(p)
<1>1. u \in ContasDe(p) /\ ContaDe[b] \in Operadores
  BY DEF PersonificarLer, ContasDe, Aceita
<1>2. "personificar.plataforma" \in PcsConta \ {"login.criar", "personificar.criar"}
  BY DEF PcsConta, PcsPersonificar
<1>3. Segue(p, PassoConta("personificar.plataforma", b, u)) /\ SemMudar
  BY DEF PersonificarLer
<1> QED BY <1>1, <1>2, <1>3, ComecaPasso, SemMudarNormal

LEMMA NormalPersonificar ==
    ASSUME SessoesAssumption, TypeInv, NEW p \in Pedidos,
           PersonificarPlataforma(p) \/ PersonificarAnteriores(p) \/ PersonificarCriar(p)
    PROVE  Normal(p)
<1>1. /\ pedido[p].pc \in PcsConta /\ pedido[p].pc \in PcsPersonificar
      /\ "personificar.anteriores" \in PcsConta /\ "personificar.criar" \in PcsConta
      /\ "login.apagar" \in PcsConta /\ "login.apagar" \notin PcsPersonificar
  BY DEF PersonificarPlataforma, PersonificarAnteriores, PersonificarCriar, PcsConta, PcsPersonificar
<1>2. \E r \in PedidoRow : Passo(p, r)
  BY <1>1, PassaPasso DEF PersonificarPlataforma, PersonificarAnteriores, PersonificarCriar
<1>3. Encolhe
  BY MarcaEncolhe, FicaEncolhe
     DEF PersonificarPlataforma, PersonificarAnteriores, PersonificarCriar, Estados, TypeInv
<1>4. personifica' \in [Operadores -> Nat]
  BY DEF PersonificarPlataforma, PersonificarAnteriores, PersonificarCriar, TypeInv, TypeOK
<1> QED BY <1>2, <1>3, <1>4, ComTipo
        DEF PersonificarPlataforma, PersonificarAnteriores, PersonificarCriar, Normal, Menos, Resto, TypeInv,
            TypeOK

LEMMA NormalTerminar ==
    ASSUME SessoesAssumption, TypeInv, NEW p \in Pedidos, NEW b \in NavegadoresDe[p],
           TerminarPersonificacao(p, b)
    PROVE  Normal(p)
<1>1. ContaDe[b] \in ContasDe(p)
  BY DEF ContasDe
<1>2. "terminar.login" \in PcsConta \ {"login.criar", "personificar.criar"} /\ "terminar.login" \notin PcsPersonificar
  BY DEF PcsConta, PcsPersonificar
<1>3. Segue(p, PassoConta("terminar.login", b, ContaDe[b]))
  BY DEF TerminarPersonificacao
<1>4. \E r \in PedidoRow : Passo(p, r)
  BY <1>1, <1>2, <1>3, ComecaPasso
<1>5. personifica' \in [Operadores -> Nat]
  <2>1. personifica[ContaDe[b]] \in Nat /\ personifica[ContaDe[b]] > 0
    BY DEF TerminarPersonificacao, TypeInv, TypeOK
  <2>2. personifica[ContaDe[b]] - 1 \in Nat
    BY <2>1
  <2> QED BY <2>2 DEF TerminarPersonificacao, TypeInv, TypeOK
<1>6. Encolhe
  BY FicaEncolhe DEF TerminarPersonificacao, TypeInv
<1> QED BY <1>4, <1>5, <1>6 DEF TerminarPersonificacao, Normal, Menos, Resto, TypeInv, TypeOK

LEMMA NormalTerminarLogin ==
    ASSUME SessoesAssumption, TypeInv, NEW p \in Pedidos, TerminarLogin(p) PROVE Normal(p)
<1>1. /\ pedido[p].pc \in PcsConta /\ "login.apagar" \in PcsConta
      /\ "login.apagar" \notin PcsPersonificar /\ "login.apagar" # "login.criar"
  BY DEF TerminarLogin, PcsConta, PcsPersonificar
<1>2. \E r \in PedidoRow : Passo(p, r)
  BY <1>1, PassaPasso, TerminaPasso, LivreTipo DEF TerminarLogin
<1>3. pedido[p].nav \in Navegadores
  BY <1>1, PedidoConta DEF TypeInv
<1>4. Menos
  <2>1. CASE UNCHANGED <<sessao, cookie>>
    BY <2>1, FicaEncolhe DEF Menos, TypeInv
  <2>2. CASE Sair(pedido[p].nav)
    BY <1>3, <2>2, SairMenos
  <2> QED BY <2>1, <2>2 DEF TerminarLogin
<1> QED BY <1>2, <1>4 DEF TerminarLogin, Normal, Resto, TypeInv, TypeOK

LEMMA NormalReset ==
    ASSUME SessoesAssumption, TypeInv, NEW p \in Pedidos, NEW u \in Contas, Reset(p, u) PROVE Normal(p)
<1> DEFINE r == [pc |-> "reset.apagar", conta |-> u]
<1>1. r \in PedidoRow /\ Segue(p, r)
  BY DEF PedidoRow, Reset
<1>2. Dono(p, r)
  BY DEF Dono, PcsToken, PcsConta, PcsPersonificar
<1>3. Passo(p, r)
  BY <1>1, <1>2 DEF Passo
<1> QED BY <1>1, <1>3, SemMudarNormal DEF Reset

LEMMA NormalResetApagar ==
    ASSUME SessoesAssumption, TypeInv, NEW p \in Pedidos, ResetApagar(p) PROVE Normal(p)
<1>1. Encolhe
  BY MarcaEncolhe DEF ResetApagar, Estados, TypeInv
<1> QED BY <1>1, ComTipo, TerminaPasso, LivreTipo DEF ResetApagar, Normal, Menos, Resto, TypeInv, TypeOK

LEMMA NormalConta ==
    ASSUME SessoesAssumption, TypeInv, NEW p \in Pedidos, NEW u \in Contas, Desativar(p, u) \/ Ativar(p, u)
    PROVE  Normal(p)
<1>1. Termina(p)
  BY DEF Desativar, Ativar, Aceita, Termina, Segue, TypeInv, TypeOK
<1>2. Encolhe
  BY FicaEncolhe DEF Desativar, Ativar, TypeInv
<1> QED BY <1>1, <1>2, TerminaPasso, LivreTipo DEF Desativar, Ativar, Normal, Menos, Resto, TypeInv, TypeOK

LEMMA NormalInterromper ==
    ASSUME SessoesAssumption, TypeInv, NEW p \in Pedidos, Interromper(p) PROVE Normal(p)
<1>1. Encolhe
  BY FicaEncolhe DEF Interromper, TypeInv
<1> QED BY <1>1, TerminaPasso, LivreTipo
        DEF Interromper, Normal, Menos, Resto, TypeInv, TypeOK, SessoesAssumption

(* Every step of a request but the creation of a session.                  *)
LEMMA PassosNormais ==
    ASSUME SessoesAssumption, TypeInv, NEW p \in Pedidos,
           \/ Continua(p) /\ ~LoginCriar(p)
           \/ \E b \in NavegadoresDe[p] : DoNavegador(p, b)
           \/ \E u \in Contas : Reset(p, u) \/ Desativar(p, u) \/ Ativar(p, u)
    PROVE  Normal(p)
<1>1. CASE Continua(p) /\ ~LoginCriar(p)
  BY <1>1, NormalLoginApagar, NormalRefreshCorrida, NormalRefreshComprometida, NormalRefreshRodar,
     NormalRefreshConta, NormalPersonificar, NormalTerminarLogin, NormalResetApagar, NormalInterromper
     DEF Continua
<1>2. ASSUME NEW b \in NavegadoresDe[p], DoNavegador(p, b) PROVE Normal(p)
  BY <1>2, NormalLogin, NormalRefreshLer, NormalRefreshInvalida, NormalLogout, NormalTerminar,
     NormalPersonificarLer DEF DoNavegador
<1> QED BY <1>1, <1>2, NormalReset, NormalConta

(* The creation: the new token is the request's, and its browser's.        *)
LEMMA CriarPasso ==
    ASSUME SessoesAssumption, TypeInv, NEW p \in Pedidos, LoginCriar(p)
    PROVE  /\ sessao' \in Seq(SessaoRow) /\ Tokens' = Tokens \cup {Len(sessao) + 1}
           /\ Len(sessao) + 1 \notin Tokens
           /\ \A t \in Tokens : sessao'[t] = sessao[t]
           /\ sessao'[Len(sessao) + 1] = [conta |-> pedido[p].conta, estado |-> "ativa"]
           /\ pedido[p].nav \in NavegadoresDe[p] /\ pedido[p].conta \in ContasDe(p)
           /\ pedido[p].conta \in Contas
<1> DEFINE q == pedido[p]
           nova == [conta |-> q.conta, estado |-> "ativa"]
<1>1. q.pc \in PcsConta
  BY DEF LoginCriar, PcsConta
<1>2. q.conta \in Contas /\ q.nav \in NavegadoresDe[p] /\ q.conta \in ContasDe(p)
  BY <1>1, PedidoConta DEF TypeInv, Dono
<1>3. nova \in SessaoRow
  BY <1>2 DEF SessaoRow, Estados
<1>4. sessao' = Append(sessao, nova) /\ sessao \in Seq(SessaoRow) /\ Tokens = 1..Len(sessao) /\ Len(sessao) \in Nat
  BY TokensTipo DEF LoginCriar, TypeInv, TypeOK
<1> HIDE DEF nova
<1>5. /\ sessao' \in Seq(SessaoRow) /\ Len(sessao') = Len(sessao) + 1
      /\ \A i \in 1..Len(sessao) : sessao'[i] = sessao[i]
      /\ sessao'[Len(sessao) + 1] = nova
  BY <1>3, <1>4, AppendProperties
<1>6. Tokens' = 1..(Len(sessao) + 1)
  BY <1>5 DEF Tokens
<1> QED BY <1>2, <1>4, <1>5, <1>6 DEF nova

LEMMA TypeLoginCriar ==
    ASSUME SessoesAssumption, TypeInv, NEW p \in Pedidos, LoginCriar(p) PROVE TypeInv'
<1> DEFINE q == pedido[p]
           novo == Len(sessao) + 1
<1>1. q.nav \in NavegadoresDe[p] /\ q.conta \in ContasDe(p)
  BY CriarPasso
<1>2. sessao' \in Seq(SessaoRow) /\ Tokens' = Tokens \cup {novo}
  BY CriarPasso
<1>3. \A t \in Tokens : sessao'[t] = sessao[t]
  BY CriarPasso
<1>4. sessao'[novo] = [conta |-> q.conta, estado |-> "ativa"]
  BY CriarPasso
<1>5. novo \in Nat /\ q.nav \in Navegadores
  BY <1>1, TokensTipo DEF TypeInv, SessoesAssumption
<1>6. \/ cookie' = [cookie EXCEPT ![q.nav] = novo] /\ terminados' = terminados \ {q.nav} /\ UNCHANGED falhas
      \/ UNCHANGED cookie /\ terminados' = terminados \cup {q.nav} /\ falhas' = falhas + 1
  BY DEF LoginCriar
<1>7. pedido' \in [Pedidos -> PedidoRow]
      /\ \A o \in Pedidos : pedido'[o] = IF o = p THEN Livre ELSE pedido[o]
  BY LivreTipo DEF LoginCriar, Termina, Segue, TypeInv, TypeOK
<1>8. cookie' \in [Navegadores -> Tokens' \cup {Nulo}]
  BY <1>5, <1>6, <1>2 DEF TypeInv, TypeOK
<1>9. TypeOK'
  <2>1. UNCHANGED <<ativa, personifica>>
    BY DEF LoginCriar
  <2>2. terminados' \subseteq Navegadores /\ falhas' \in Nat
    BY <1>5, <1>6 DEF TypeInv, TypeOK
  <2> QED BY <1>7, <1>8, <1>2, <2>1, <2>2 DEF TypeInv, TypeOK
<1>10. CookieDono'
  <2> SUFFICES ASSUME NEW o \in Pedidos, NEW b \in NavegadoresDe[o], cookie'[b] # Nulo
               PROVE  sessao'[cookie'[b]].conta \in ContasDe(o)
    BY DEF CookieDono, ContasDe
  <2>1. b \in Navegadores
    BY DEF SessoesAssumption
  <2>2. CASE b = q.nav /\ cookie'[b] = novo
    <3>1. o = p
      BY <1>1, <2>2 DEF SessoesAssumption
    <3> QED BY <1>1, <1>4, <2>2, <3>1
  <2>3. CASE cookie'[b] = cookie[b]
    <3>1. cookie[b] \in Tokens
      BY <2>1, <2>3 DEF TypeInv, TypeOK
    <3> QED BY <1>3, <2>3, <3>1 DEF TypeInv, CookieDono
  <2> QED BY <1>6, <2>1, <2>2, <2>3 DEF TypeInv, TypeOK
<1>11. \A o \in Pedidos : Dono(o, pedido[o])'
  <2> SUFFICES ASSUME NEW o \in Pedidos PROVE Dono(o, pedido[o])'
    OBVIOUS
  <2>1. CASE o = p
    <3>1. pedido'[o].pc = "livre"
      BY <1>7, <2>1 DEF Livre
    <3> QED BY <3>1 DEF Dono, PcsToken, PcsConta, PcsPersonificar
  <2>2. CASE o # p
    <3>1. Dono(o, pedido[o]) /\ pedido'[o] = pedido[o]
      BY <1>7, <2>2 DEF TypeInv
    <3>2. \A t \in Tokens : t \in Tokens' /\ sessao'[t] = sessao[t]
      BY <1>2, <1>3
    <3> QED BY <3>1, <3>2 DEF Dono, ContasDe
  <2> QED BY <2>1, <2>2
<1> QED BY <1>9, <1>10, <1>11 DEF TypeInv

LEMMA TypePassarTrinta == ASSUME SessoesAssumption, TypeInv, PassarTrinta PROVE TypeInv' /\ Encolhe
<1>1. Encolhe
  BY MarcaEncolhe DEF PassarTrinta, Estados, TypeInv
<1> QED BY <1>1, TypePasso DEF PassarTrinta, Menos, Resto, TypeInv, TypeOK

LEMMA TypeInit == ASSUME SessoesAssumption, Init PROVE TypeInv
<1>1. TypeOK
  BY LivreTipo DEF Init, TypeOK, Tokens
<1>2. CookieDono
  BY DEF Init, CookieDono, SessoesAssumption
<1>3. \A p \in Pedidos : Dono(p, pedido[p])
  BY DEF Init, Dono, Livre, PcsToken, PcsConta, PcsPersonificar
<1> QED BY <1>1, <1>2, <1>3 DEF TypeInv

LEMMA TypeParado == ASSUME TypeInv, UNCHANGED vars PROVE TypeInv'
BY DEF vars, TypeInv, TypeOK, CookieDono, Dono, ContasDe, Tokens

(* A step is of a request, normal or the creation of a session, or time.   *)
LEMMA CasosNext ==
    ASSUME SessoesAssumption, TypeInv, [Next]_vars
    PROVE  \/ \E p \in Pedidos : Normal(p) \/ LoginCriar(p)
           \/ PassarTrinta \/ UNCHANGED vars
<1>1. ASSUME NEW p \in Pedidos,
             \/ Continua(p)
             \/ \E b \in NavegadoresDe[p] : DoNavegador(p, b)
             \/ \E u \in Contas : Reset(p, u) \/ Desativar(p, u) \/ Ativar(p, u)
      PROVE  Normal(p) \/ LoginCriar(p)
  BY <1>1, PassosNormais
<1> QED BY <1>1 DEF Next

LEMMA TypeNext == ASSUME SessoesAssumption, TypeInv, [Next]_vars PROVE TypeInv'
BY CasosNext, TypeNormal, TypeLoginCriar, TypePassarTrinta, TypeParado

(* The variables of SessoesRefresh keep their types, for every number of   *)
(* accounts, browsers, requests and sessions.                              *)
THEOREM TypeCorrect == ASSUME SessoesAssumption PROVE Spec => []TypeOK
<1>1. TypeInv => TypeOK
  BY DEF TypeInv
<1> QED BY <1>1, TypeInit, TypeNext, PTL DEF Spec

-----------------------------------------------------------------------------
(* One session per account *)

(* One request at a time creates sessions of an account.                   *)
CriadorUnico == \A p, q \in Pedidos : p # q => ContasDe(p) \cap ContasDe(q) = {}

AtivaDe(t, u) == t \in Tokens /\ sessao[t].estado = "ativa" /\ sessao[t].conta = u

(* A request about to create a session of an account has left it none.     *)
UmaInv ==
    /\ \A u \in Contas : \A s, t \in Tokens : AtivaDe(s, u) /\ AtivaDe(t, u) => s = t
    /\ \A p \in Pedidos : pedido[p].pc = "login.criar" => \A t \in Tokens : ~AtivaDe(t, pedido[p].conta)

LEMMA UmaEncolhe ==
    ASSUME TypeInv, UmaInv, Encolhe
    PROVE  /\ \A u \in Contas : \A s, t \in Tokens' : AtivaDe(s, u)' /\ AtivaDe(t, u)' => s = t
           /\ \A t \in Tokens', u \in Contas : AtivaDe(t, u)' => AtivaDe(t, u)
BY DEF UmaInv, Encolhe, AtivaDe

LEMMA ApagarVazia ==
    ASSUME SessoesAssumption, TypeInv, NEW p \in Pedidos, LoginApagar(p)
    PROVE  \A t \in Tokens : ~AtivaDe(t, pedido[p].conta)'
           /\ pedido'[p].conta = pedido[p].conta /\ pedido[p].conta \in Contas
<1> DEFINE u == pedido[p].conta
<1>1. u \in Contas /\ pedido[p] = PassoConta(pedido[p].pc, pedido[p].nav, u)
  BY PedidoConta DEF LoginApagar, PcsConta, TypeInv
<1>2. [pedido[p] EXCEPT !.pc = "login.criar"].conta = u
  BY <1>1 DEF PassoConta
<1>3. pedido'[p].conta = u
  BY <1>2 DEF LoginApagar, Passa, Segue, TypeInv, TypeOK
<1>4. Encolhe /\ \A t \in Ativas(u) \cap Tokens : sessao'[t].estado = "apagada"
  BY MarcaEncolhe DEF LoginApagar, Estados, TypeInv
<1>5. ASSUME NEW t \in Tokens, sessao'[t].estado = "ativa", sessao'[t].conta = u PROVE FALSE
  <2>1. t \in Ativas(u)
    BY <1>4, <1>5 DEF Encolhe, Ativas
  <2> QED BY <1>4, <1>5, <2>1
<1> QED BY <1>1, <1>3, <1>5 DEF AtivaDe

LEMMA UmaNormal ==
    ASSUME SessoesAssumption, TypeInv, UmaInv, NEW p \in Pedidos, Normal(p) PROVE UmaInv'
<1>1. PICK r \in PedidoRow : Passo(p, r)
  BY DEF Normal
<1>2. Encolhe /\ Tokens' = Tokens
  BY DEF Normal, Menos, Encolhe
<1>3. ASSUME NEW o \in Pedidos, pedido'[o].pc = "login.criar", NEW t \in Tokens'
      PROVE  ~AtivaDe(t, pedido[o].conta)'
  <2>1. CASE o = p
    <3>1. LoginApagar(p)
      BY <1>1, <1>3, <2>1, SegueTodos DEF Passo
    <3> QED BY <1>2, <2>1, <3>1, ApagarVazia DEF AtivaDe
  <2>2. CASE o # p
    <3>1. pedido'[o] = pedido[o]
      BY <1>1, <2>2, SegueTodos
    <3>2. pedido[o].conta \in Contas
      BY <1>3, <3>1, PedidoConta DEF TypeInv, PcsConta
    <3>3. ~AtivaDe(t, pedido[o].conta)
      BY <1>2, <1>3, <3>1 DEF UmaInv
    <3> QED BY <1>2, <3>1, <3>3 DEF AtivaDe, Encolhe
  <2> QED BY <2>1, <2>2
<1> QED BY <1>2, <1>3, UmaEncolhe DEF UmaInv

LEMMA UmaLoginCriar ==
    ASSUME SessoesAssumption, CriadorUnico, TypeInv, UmaInv, NEW p \in Pedidos, LoginCriar(p)
    PROVE  UmaInv'
<1> DEFINE u == pedido[p].conta
           novo == Len(sessao) + 1
<1>1. Tokens' = Tokens \cup {novo} /\ novo \notin Tokens
  BY CriarPasso
<1>2. \A t \in Tokens : sessao'[t] = sessao[t]
  BY CriarPasso
<1>3. sessao'[novo] = [conta |-> u, estado |-> "ativa"]
  BY CriarPasso
<1>4. u \in ContasDe(p)
  BY CriarPasso
<1>5. \A t \in Tokens : ~AtivaDe(t, u)
  BY DEF UmaInv, LoginCriar
<1>6. \A t \in Tokens : \A c : AtivaDe(t, c)' <=> AtivaDe(t, c)
  BY <1>1, <1>2 DEF AtivaDe
<1>7. \A t, c : t = novo => (AtivaDe(t, c)' <=> c = u)
  BY <1>1, <1>3 DEF AtivaDe
<1>8. ASSUME NEW c \in Contas, NEW s \in Tokens', NEW t \in Tokens', AtivaDe(s, c)', AtivaDe(t, c)'
      PROVE  s = t
  <2>1. CASE c = u
    <3>1. s = novo /\ t = novo
      BY <1>1, <1>5, <1>6, <1>8, <2>1
    <3> QED BY <3>1
  <2>2. CASE c # u
    <3>1. s \in Tokens /\ t \in Tokens
      BY <1>1, <1>7, <1>8, <2>2
    <3> QED BY <1>6, <1>8, <3>1 DEF UmaInv
  <2> QED BY <2>1, <2>2
<1>9. ASSUME NEW o \in Pedidos, pedido'[o].pc = "login.criar", NEW t \in Tokens'
      PROVE  ~AtivaDe(t, pedido[o].conta)'
  <2>1. pedido'[p].pc = "livre"
    BY DEF LoginCriar, Termina, Segue, Livre, TypeInv, TypeOK
  <2>2. o # p /\ pedido'[o] = pedido[o]
    BY <1>9, <2>1 DEF LoginCriar, Termina, Segue, TypeInv, TypeOK
  <2>3. pedido[o].conta \in ContasDe(o)
    BY <1>9, <2>2 DEF TypeInv, Dono, PcsConta
  <2>4. pedido[o].conta # u
    BY <1>4, <2>2, <2>3 DEF CriadorUnico
  <2>5. CASE t = novo
    <3>1. sessao'[t].conta = u /\ pedido'[o].conta # u
      BY <1>3, <2>2, <2>4, <2>5
    <3> QED BY <3>1 DEF AtivaDe
  <2>6. CASE t \in Tokens
    <3>1. ~AtivaDe(t, pedido[o].conta)
      BY <1>9, <2>2, <2>6 DEF UmaInv
    <3> QED BY <1>2, <2>2, <2>6, <3>1 DEF AtivaDe
  <2> QED BY <1>1, <2>5, <2>6
<1> QED BY <1>8, <1>9 DEF UmaInv

LEMMA UmaNext ==
    ASSUME SessoesAssumption, CriadorUnico, TypeInv, UmaInv, [Next]_vars PROVE UmaInv'
<1>1. CASE PassarTrinta
  <2>1. Encolhe /\ UNCHANGED pedido
    BY <1>1, TypePassarTrinta DEF PassarTrinta
  <2>2. ASSUME NEW o \in Pedidos, pedido'[o].pc = "login.criar", NEW t \in Tokens'
        PROVE  ~AtivaDe(t, pedido[o].conta)'
    BY <2>1, <2>2 DEF UmaInv, AtivaDe, Encolhe
  <2> QED BY <2>1, <2>2, UmaEncolhe DEF UmaInv
<1>2. CASE UNCHANGED vars
  BY <1>2 DEF vars, UmaInv, AtivaDe, Tokens
<1> QED BY <1>1, <1>2, CasosNext, UmaNormal, UmaLoginCriar

LEMMA UmaCardinal == ASSUME TypeInv, UmaInv PROVE UmaSessaoPorConta
<1> SUFFICES ASSUME NEW u \in Contas PROVE Cardinality(Ativas(u)) <= 1
  BY DEF UmaSessaoPorConta
<1>1. \A s, t \in Ativas(u) : s = t
  BY DEF UmaInv, AtivaDe, Ativas
<1>2. CASE Ativas(u) = {}
  BY <1>2, FS_EmptySet
<1>3. CASE \E t : t \in Ativas(u)
  <2>1. PICK t : t \in Ativas(u)
    BY <1>3
  <2>2. Ativas(u) = {t}
    BY <1>1, <2>1
  <2>3. Cardinality({t}) = 1
    BY FS_Singleton
  <2> QED BY <2>2, <2>3
<1> QED BY <1>2, <1>3

(* "Uma sessão activa por utilizador": with one request at a time that     *)
(* creates sessions of an account, it never has two, whatever refreshes,   *)
(* resets, operators and failures come in between.                         *)
THEOREM SessaoUnica ==
    ASSUME SessoesAssumption, CriadorUnico PROVE Spec => []UmaSessaoPorConta
<1>1. Init => TypeInv /\ UmaInv
  BY TypeInit DEF Init, UmaInv, AtivaDe, Tokens, Livre
<1>2. TypeInv /\ UmaInv /\ [Next]_vars => (TypeInv /\ UmaInv)'
  BY TypeNext, UmaNext
<1>3. TypeInv /\ UmaInv => UmaSessaoPorConta
  BY UmaCardinal
<1> QED BY <1>1, <1>2, <1>3, PTL DEF Spec

-----------------------------------------------------------------------------
(* One impersonation per operator *)

(* One request at a time comes from an operator.                           *)
OperadoresDe(p) == {ContaDe[b] : b \in NavegadoresDe[p]} \cap Operadores
OperadorUnico == \A p, q \in Pedidos : p # q => OperadoresDe(p) \cap OperadoresDe(q) = {}

PersInv ==
    /\ \A o \in Operadores : personifica[o] <= 1
    /\ \A p \in Pedidos : pedido[p].pc = "personificar.criar" => personifica[ContaDe[pedido[p].nav]] = 0

(* The operator of a request that acts as an account. *)
LEMMA PersOperador ==
    ASSUME TypeInv, NEW p \in Pedidos, pedido[p].pc \in PcsPersonificar
    PROVE  ContaDe[pedido[p].nav] \in OperadoresDe(p) /\ ContaDe[pedido[p].nav] \in Operadores
BY DEF TypeInv, Dono, PcsConta, OperadoresDe

LEMMA PersMuda ==
    ASSUME [Next]_vars
    PROVE  \/ UNCHANGED personifica
           \/ \E p \in Pedidos : \/ PersonificarAnteriores(p) \/ PersonificarCriar(p)
                                  \/ \E b \in NavegadoresDe[p] : TerminarPersonificacao(p, b)
<1> USE DEF SemMudar
<1>1. ASSUME NEW p \in Pedidos,
             \/ LoginApagar(p) \/ LoginCriar(p) \/ RefreshCorrida(p) \/ RefreshComprometida(p)
             \/ RefreshRodar(p) \/ RefreshConta(p)
      PROVE  UNCHANGED personifica
  BY <1>1 DEF LoginApagar, LoginCriar, RefreshCorrida, RefreshComprometida, RefreshRodar, RefreshConta
<1>2. ASSUME NEW p \in Pedidos,
             PersonificarPlataforma(p) \/ TerminarLogin(p) \/ ResetApagar(p) \/ Interromper(p)
      PROVE  UNCHANGED personifica
  BY <1>2 DEF PersonificarPlataforma, TerminarLogin, ResetApagar, Interromper
<1>3. ASSUME NEW p \in Pedidos, NEW b \in NavegadoresDe[p],
             \/ Login(p, b) \/ RefreshLer(p, b) \/ RefreshInvalida(p, b) \/ Logout(p, b)
             \/ \E u \in Contas : PersonificarLer(p, b, u)
      PROVE  UNCHANGED personifica
  BY <1>3 DEF Login, RefreshLer, RefreshInvalida, Logout, PersonificarLer
<1>4. ASSUME NEW p \in Pedidos, NEW u \in Contas, Reset(p, u) \/ Desativar(p, u) \/ Ativar(p, u)
      PROVE  UNCHANGED personifica
  BY <1>4 DEF Reset, Desativar, Ativar
<1>5. CASE PassarTrinta \/ UNCHANGED vars
  BY <1>5 DEF PassarTrinta, vars
<1> QED BY <1>1, <1>2, <1>3, <1>4, <1>5 DEF Next, Continua, DoNavegador

(* Who stands before the creation of an impersonation after a step.        *)
LEMMA PersChega ==
    ASSUME SessoesAssumption, TypeInv, [Next]_vars, NEW o \in Pedidos, pedido'[o].pc = "personificar.criar"
    PROVE  PersonificarAnteriores(o) \/ pedido'[o] = pedido[o]
<1>1. ASSUME NEW p \in Pedidos, Normal(p)
      PROVE  PersonificarAnteriores(o) \/ pedido'[o] = pedido[o]
  BY <1>1, SegueTodos DEF Normal, Passo
<1>2. ASSUME NEW p \in Pedidos, LoginCriar(p) PROVE pedido'[o] = pedido[o]
  BY <1>2 DEF LoginCriar, Termina, Segue, Livre, TypeInv, TypeOK
<1>3. CASE PassarTrinta \/ UNCHANGED vars
  BY <1>3 DEF PassarTrinta, vars
<1> QED BY <1>1, <1>2, <1>3, CasosNext

(* The earlier impersonations of the operator of the request are over.     *)
LEMMA PersZera ==
    ASSUME SessoesAssumption, TypeInv, NEW p \in Pedidos, PersonificarAnteriores(p)
    PROVE  personifica'[ContaDe[pedido'[p].nav]] = 0
<1> DEFINE q == pedido[p]
<1>1. q = PassoConta(q.pc, q.nav, q.conta) /\ ContaDe[q.nav] \in Operadores
  BY PedidoConta, PersOperador DEF PersonificarAnteriores, TypeInv, PcsConta, PcsPersonificar
<1>2. [q EXCEPT !.pc = "personificar.criar"].nav = q.nav
  BY <1>1 DEF PassoConta
<1>3. pedido'[p].nav = q.nav
  BY <1>2 DEF PersonificarAnteriores, Passa, Segue, TypeInv, TypeOK
<1> QED BY <1>1, <1>3 DEF PersonificarAnteriores, TypeInv, TypeOK

(* A creation, or an end, is a step of its own.                            *)
LEMMA PersUmDeCadaVez ==
    ASSUME SessoesAssumption, TypeInv, NEW p \in Pedidos,
           PersonificarCriar(p) \/ \E b \in NavegadoresDe[p] : TerminarPersonificacao(p, b)
    PROVE  pedido'[p].pc # "personificar.criar" /\ ~\E o \in Pedidos : PersonificarAnteriores(o)
<1>1. /\ pedido'[p].pc \in {"login.apagar", "terminar.login"}
      /\ \A o \in Pedidos \ {p} : pedido'[o] = pedido[o]
  <2>1. CASE PersonificarCriar(p)
    <3>1. pedido[p] = PassoConta(pedido[p].pc, pedido[p].nav, pedido[p].conta)
      BY <2>1, PedidoConta DEF PersonificarCriar, TypeInv, PcsConta, PcsPersonificar
    <3>2. [pedido[p] EXCEPT !.pc = "login.apagar"].pc = "login.apagar"
      BY <3>1 DEF PassoConta
    <3> QED BY <2>1, <3>2 DEF PersonificarCriar, Passa, Segue, TypeInv, TypeOK
  <2>2. CASE \E b \in NavegadoresDe[p] : TerminarPersonificacao(p, b)
    BY <2>2 DEF TerminarPersonificacao, PassoConta, Segue, TypeInv, TypeOK
  <2> QED BY <2>1, <2>2
<1>2. ASSUME NEW o \in Pedidos, PersonificarAnteriores(o) PROVE FALSE
  <2>1. pedido[o] = PassoConta(pedido[o].pc, pedido[o].nav, pedido[o].conta)
    BY <1>2, PedidoConta DEF PersonificarAnteriores, TypeInv, PcsConta, PcsPersonificar
  <2>2. [pedido[o] EXCEPT !.pc = "personificar.criar"].pc = "personificar.criar"
    BY <2>1 DEF PassoConta
  <2>3. pedido'[o].pc = "personificar.criar" /\ pedido[o].pc = "personificar.anteriores"
    BY <1>2, <2>2 DEF PersonificarAnteriores, Passa, Segue, TypeInv, TypeOK
  <2> QED BY <1>1, <2>3
<1> QED BY <1>1, <1>2

LEMMA PersNext ==
    ASSUME SessoesAssumption, OperadorUnico, TypeInv, PersInv, [Next]_vars PROVE PersInv'
<1>1. ASSUME NEW o \in Pedidos, pedido'[o].pc = "personificar.criar", ~PersonificarAnteriores(o)
      PROVE  /\ pedido'[o] = pedido[o] /\ personifica[ContaDe[pedido[o].nav]] = 0
             /\ ContaDe[pedido[o].nav] \in OperadoresDe(o)
  BY <1>1, PersChega, PersOperador DEF PersInv, PcsPersonificar
<1>2. CASE UNCHANGED personifica
  <2>1. ASSUME NEW o \in Pedidos, PersonificarAnteriores(o), pedido'[o].pc = "personificar.criar"
        PROVE  personifica'[ContaDe[pedido'[o].nav]] = 0
    BY <1>2, <2>1, PersZera
  <2> QED BY <1>1, <1>2, <2>1 DEF PersInv
<1>3. ASSUME NEW p \in Pedidos, PersonificarAnteriores(p) PROVE PersInv'
  <2> DEFINE c == ContaDe[pedido[p].nav]
  <2>1. c \in Operadores /\ personifica' = [personifica EXCEPT ![c] = 0]
    BY <1>3, PersOperador DEF PersonificarAnteriores, PcsPersonificar
  <2>2. ASSUME NEW o \in Pedidos, pedido'[o].pc = "personificar.criar"
        PROVE  personifica'[ContaDe[pedido'[o].nav]] = 0
    <3>1. CASE PersonificarAnteriores(o)
      BY <2>2, <3>1, PersZera
    <3>2. CASE ~PersonificarAnteriores(o)
      <4>1. pedido'[o] = pedido[o] /\ personifica[ContaDe[pedido[o].nav]] = 0
            /\ ContaDe[pedido[o].nav] \in Operadores
        BY <1>1, <2>2, <3>2 DEF OperadoresDe
      <4> QED BY <2>1, <4>1 DEF TypeInv, TypeOK
    <3> QED BY <3>1, <3>2
  <2> QED BY <2>1, <2>2 DEF PersInv, TypeInv, TypeOK
<1>4. ASSUME NEW p \in Pedidos, NEW c \in OperadoresDe(p), NEW n \in {0, 1},
             personifica' = [personifica EXCEPT ![c] = n],
             pedido'[p].pc # "personificar.criar", ~\E o \in Pedidos : PersonificarAnteriores(o)
      PROVE  PersInv'
  <2>1. ASSUME NEW o \in Pedidos, pedido'[o].pc = "personificar.criar"
        PROVE  personifica'[ContaDe[pedido'[o].nav]] = 0
    <3>1. o # p
      BY <1>4, <2>1
    <3>2. pedido'[o] = pedido[o] /\ personifica[ContaDe[pedido[o].nav]] = 0
          /\ ContaDe[pedido[o].nav] \in OperadoresDe(o)
      BY <1>1, <1>4, <2>1
    <3>3. ContaDe[pedido[o].nav] # c
      BY <3>1, <3>2 DEF OperadorUnico
    <3> QED BY <1>4, <3>2, <3>3 DEF TypeInv, TypeOK, OperadoresDe
  <2> QED BY <1>4, <2>1 DEF PersInv, TypeInv, TypeOK
<1>5. ASSUME NEW p \in Pedidos, PersonificarCriar(p) PROVE PersInv'
  <2> DEFINE c == ContaDe[pedido[p].nav]
  <2>1. c \in OperadoresDe(p) /\ c \in Operadores
    BY <1>5, PersOperador DEF PersonificarCriar, PcsPersonificar
  <2>2. personifica[c] = 0
    BY <1>5 DEF PersInv, PersonificarCriar
  <2>3. personifica' = [personifica EXCEPT ![c] = 1]
    BY <1>5, <2>1, <2>2 DEF PersonificarCriar, TypeInv, TypeOK
  <2>4. pedido'[p].pc # "personificar.criar" /\ ~\E o \in Pedidos : PersonificarAnteriores(o)
    BY <1>5, PersUmDeCadaVez
  <2> HIDE DEF c
  <2> QED BY <1>4, <2>1, <2>3, <2>4
<1>6. ASSUME NEW p \in Pedidos, NEW b \in NavegadoresDe[p], TerminarPersonificacao(p, b) PROVE PersInv'
  <2> DEFINE c == ContaDe[b]
  <2>1. c \in OperadoresDe(p) /\ c \in Operadores
    BY <1>6 DEF TerminarPersonificacao, OperadoresDe
  <2>2. personifica[c] = 1
    BY <1>6, <2>1 DEF TerminarPersonificacao, PersInv, TypeInv, TypeOK
  <2>3. personifica' = [personifica EXCEPT ![c] = 0]
    BY <1>6, <2>1, <2>2 DEF TerminarPersonificacao, TypeInv, TypeOK
  <2>4. pedido'[p].pc # "personificar.criar" /\ ~\E o \in Pedidos : PersonificarAnteriores(o)
    BY <1>6, PersUmDeCadaVez
  <2> HIDE DEF c
  <2> QED BY <1>4, <2>1, <2>3, <2>4
<1> QED BY <1>2, <1>3, <1>5, <1>6, PersMuda

(* "Sessão única: termina ... impersonações anteriores do superadmin":     *)
(* with one request at a time from an operator, nobody acts as two         *)
(* accounts.                                                               *)
THEOREM UmaPersonificacao ==
    ASSUME SessoesAssumption, OperadorUnico PROVE Spec => []PersonificacaoUnica
<1>1. Init => TypeInv /\ PersInv
  BY TypeInit DEF Init, PersInv, Livre
<1>2. TypeInv /\ PersInv /\ [Next]_vars => (TypeInv /\ PersInv)'
  BY TypeNext, PersNext
<1>3. PersInv => PersonificacaoUnica
  BY DEF PersInv, PersonificacaoUnica
<1> QED BY <1>1, <1>2, <1>3, PTL DEF Spec
-----------------------------------------------------------------------------
(* The sessions of the browsers *)

(* Between the revocation of the browser's session and its new one. *)
PcsOcupa == {"refresh.conta", "login.apagar", "login.criar"}
Ocupa(r, b) == r.pc \in PcsOcupa /\ r.nav = b

(* No two browsers have the same token, a refresh holds the token of its   *)
(* browser, and a browser whose session nobody else has ended has a live   *)
(* one or a request about to give it one.                                  *)
VivoInv ==
    /\ \A b, c \in Navegadores : cookie[b] # Nulo /\ cookie[b] = cookie[c] => b = c
    /\ \A p \in Pedidos : pedido[p].pc \in PcsToken => cookie[pedido[p].nav] = pedido[p].token
    /\ \A p \in Pedidos : \A b \in NavegadoresDe[p] \ terminados :
          cookie[b] # Nulo => sessao[cookie[b]].estado = "ativa" \/ Ocupa(pedido[p], b)

(* A step that creates no session and changes the state of those of T only.*)
LEMMA VivoPasso ==
    ASSUME SessoesAssumption, TypeInv, VivoInv, NEW p \in Pedidos, NEW r, Segue(p, r),
           r.pc \in PcsToken => cookie'[r.nav] = r.token,
           cookie' = cookie \/ \E b \in NavegadoresDe[p] : LimpaCookie(b),
           terminados \subseteq terminados',
           NEW T, \A t \in Tokens \ T : sessao'[t].estado = sessao[t].estado,
           \A b \in Navegadores \ terminados' : cookie'[b] # Nulo =>
               \/ b \in NavegadoresDe[p] /\ Ocupa(r, b)
               \/ cookie[b] \notin T /\ ~Ocupa(pedido[p], b)
    PROVE  VivoInv'
<1>1. pedido'[p] = r /\ \A o \in Pedidos \ {p} : pedido'[o] = pedido[o]
  BY DEF Segue, TypeInv, TypeOK
<1>2. \A b \in Navegadores : /\ cookie'[b] # Nulo => cookie'[b] = cookie[b]
                             /\ b \notin NavegadoresDe[p] => cookie'[b] = cookie[b]
  BY DEF LimpaCookie, TypeInv, TypeOK
<1>3. \A o \in Pedidos : NavegadoresDe[o] \subseteq Navegadores
  BY DEF SessoesAssumption
<1>4. \A o \in Pedidos \ {p} : NavegadoresDe[o] \cap NavegadoresDe[p] = {}
  BY DEF SessoesAssumption
<1>5. ASSUME NEW b \in Navegadores, NEW c \in Navegadores, cookie'[b] # Nulo, cookie'[b] = cookie'[c]
      PROVE  b = c
  <2>1. cookie'[b] = cookie[b] /\ cookie'[c] = cookie[c]
    BY <1>2, <1>5
  <2> QED BY <1>5, <2>1 DEF VivoInv
<1>6. ASSUME NEW o \in Pedidos \ {p}, pedido[o].pc \in PcsToken
      PROVE  cookie'[pedido[o].nav] = pedido[o].token
  <2>1. pedido[o].nav \in NavegadoresDe[o]
    BY <1>6 DEF TypeInv, Dono
  <2>2. cookie'[pedido[o].nav] = cookie[pedido[o].nav]
    BY <1>2, <1>3, <1>4, <2>1
  <2> QED BY <1>6, <2>2 DEF VivoInv
<1>7. ASSUME NEW o \in Pedidos, NEW b \in NavegadoresDe[o] \ terminados', cookie'[b] # Nulo
      PROVE  sessao'[cookie[b]].estado = "ativa" \/ Ocupa(pedido'[o], b)
  <2>1. b \in Navegadores \ terminados' /\ cookie'[b] = cookie[b] /\ cookie[b] # Nulo
    BY <1>2, <1>3, <1>7
  <2>2. cookie[b] \in Tokens
    BY <2>1 DEF TypeInv, TypeOK
  <2>3. sessao[cookie[b]].estado = "ativa" \/ Ocupa(pedido[o], b)
    BY <1>7, <2>1 DEF VivoInv
  <2>4. CASE o = p /\ Ocupa(r, b)
    BY <1>1, <2>4
  <2>5. CASE cookie[b] \notin T /\ ~Ocupa(pedido[p], b)
    <3>1. sessao'[cookie[b]].estado = sessao[cookie[b]].estado
      BY <2>2, <2>5
    <3>2. Ocupa(pedido[o], b) => pedido'[o] = pedido[o]
      BY <1>1, <2>5
    <3> QED BY <2>3, <3>1, <3>2
  <2>6. b \in NavegadoresDe[p] => o = p
    BY <1>4, <1>7
  <2> QED BY <1>7, <2>1, <2>4, <2>5, <2>6
<1>8. ASSUME NEW o \in Pedidos, pedido'[o].pc \in PcsToken
      PROVE  cookie'[pedido'[o].nav] = pedido'[o].token
  BY <1>1, <1>6, <1>8
<1>9. ASSUME NEW o \in Pedidos, NEW b \in NavegadoresDe[o] \ terminados', cookie'[b] # Nulo
      PROVE  sessao'[cookie'[b]].estado = "ativa" \/ Ocupa(pedido'[o], b)
  <2>1. cookie'[b] = cookie[b]
    BY <1>2, <1>3, <1>9
  <2> QED BY <1>7, <1>9, <2>1
<1> QED BY <1>5, <1>8, <1>9 DEF VivoInv, Ocupa

(* A step that leaves sessions and cookies. *)
LEMMA VivoQuieto ==
    ASSUME SessoesAssumption, TypeInv, VivoInv, NEW p \in Pedidos, NEW r, Segue(p, r),
           UNCHANGED <<sessao, cookie>>, r.pc \in PcsToken => cookie[r.nav] = r.token,
           terminados \subseteq terminados',
           \A b \in NavegadoresDe[p] : Ocupa(pedido[p], b) => Ocupa(r, b) \/ b \in terminados'
    PROVE  VivoInv'
<1>1. \A b \in Navegadores : Ocupa(pedido[p], b) => b \in NavegadoresDe[p]
  BY DEF Ocupa, PcsOcupa, TypeInv, Dono, PcsConta
<1>2. PICK T : T = {}
  OBVIOUS
<1>3. \A b \in Navegadores \ terminados' : cookie'[b] # Nulo =>
               \/ b \in NavegadoresDe[p] /\ Ocupa(r, b)
               \/ cookie[b] \notin T /\ ~Ocupa(pedido[p], b)
  BY <1>1, <1>2
<1>4. \A t \in Tokens \ T : sessao'[t].estado = sessao[t].estado
  OBVIOUS
<1>5. cookie' = cookie /\ (r.pc \in PcsToken => cookie'[r.nav] = r.token)
  OBVIOUS
<1> QED BY <1>3, <1>4, <1>5, VivoPasso

LEMMA MarcaResto ==
    ASSUME TypeOK, NEW T, NEW e, Marca(T, e) PROVE \A t \in Tokens \ T : sessao'[t].estado = sessao[t].estado
BY DEF Marca

(* The other fields stay when a request goes on. *)
LEMMA PassaSessao ==
    ASSUME TypeInv, NEW p \in Pedidos, pedido[p].pc \in PcsConta, NEW pc, NEW r,
           r = [pedido[p] EXCEPT !.pc = pc]
    PROVE  r.pc = pc /\ r.nav = pedido[p].nav /\ r.conta = pedido[p].conta
<1>1. pedido[p] = PassoConta(pedido[p].pc, pedido[p].nav, pedido[p].conta)
  BY PedidoConta DEF TypeInv
<1> QED BY <1>1 DEF PassoConta
(* Requests that begin, or read. *)
LEMMA VivoLer ==
    ASSUME SessoesAssumption, TypeInv, VivoInv, NEW p \in Pedidos, NEW b \in NavegadoresDe[p],
           \/ Login(p, b) \/ RefreshLer(p, b) \/ TerminarPersonificacao(p, b)
           \/ \E u \in Contas : PersonificarLer(p, b, u)
    PROVE  VivoInv'
<1>1. /\ pedido[p].pc = "livre" /\ UNCHANGED <<sessao, cookie, terminados>>
      /\ \E r : Segue(p, r) /\ (r.pc \in PcsToken => cookie[r.nav] = r.token)
  <2>1. CASE Login(p, b)
    <3>1. PassoConta("login.apagar", b, ContaDe[b]).pc \notin PcsToken
      BY DEF PassoConta, PcsToken
    <3> QED BY <2>1, <3>1 DEF Login, SemMudar, Aceita, Livre
  <2>2. CASE RefreshLer(p, b)
    <3>1. PICK pc : Segue(p, [nav |-> b, token |-> cookie[b], pc |-> pc])
      BY <2>2 DEF RefreshLer
    <3> QED BY <2>2, <3>1 DEF RefreshLer, SemMudar, Aceita, Livre
  <2>3. CASE TerminarPersonificacao(p, b)
    <3>1. PassoConta("terminar.login", b, ContaDe[b]).pc \notin PcsToken
      BY DEF PassoConta, PcsToken
    <3> QED BY <2>3, <3>1 DEF TerminarPersonificacao, Aceita, Livre
  <2>4. ASSUME NEW u \in Contas, PersonificarLer(p, b, u)
        PROVE  /\ pedido[p].pc = "livre" /\ UNCHANGED <<sessao, cookie, terminados>>
               /\ \E r : Segue(p, r) /\ (r.pc \in PcsToken => cookie[r.nav] = r.token)
    <3>1. PassoConta("personificar.plataforma", b, u).pc \notin PcsToken
      BY DEF PassoConta, PcsToken
    <3> QED BY <2>4, <3>1 DEF PersonificarLer, SemMudar, Aceita, Livre
  <2> QED BY <2>1, <2>2, <2>3, <2>4
<1>2. \A c : ~Ocupa(pedido[p], c)
  BY <1>1 DEF Ocupa, PcsOcupa
<1> QED BY <1>1, <1>2, VivoQuieto

(* A request that ends, where its browser was not left without a session.  *)
LEMMA VivoTermina ==
    ASSUME SessoesAssumption, TypeInv, VivoInv, NEW p \in Pedidos, Termina(p),
           UNCHANGED <<sessao, cookie>>, terminados \subseteq terminados',
           \A b \in NavegadoresDe[p] : Ocupa(pedido[p], b) => b \in terminados'
    PROVE  VivoInv'
BY LivreTipo, VivoQuieto DEF Termina

LEMMA VivoSegue ==
    ASSUME SessoesAssumption, TypeInv, VivoInv, NEW p \in Pedidos,
           \/ RefreshCorrida(p) \/ RefreshConta(p) \/ PersonificarAnteriores(p) \/ PersonificarCriar(p)
    PROVE  VivoInv'
<1>1. UNCHANGED <<sessao, cookie>> /\ terminados \subseteq terminados'
  BY DEF RefreshCorrida, RefreshConta, PersonificarAnteriores, PersonificarCriar, SemMudar
<1>2. CASE RefreshCorrida(p)
  <2>1. pedido[p].pc = "refresh.corrida" /\ pedido[p].pc \in PcsToken
    BY <1>2 DEF RefreshCorrida, PcsToken
  <2>2. \A b : ~Ocupa(pedido[p], b)
    BY <2>1 DEF Ocupa, PcsOcupa
  <2>3. CASE Termina(p)
    BY <1>1, <2>2, <2>3, VivoTermina
  <2>4. CASE Passa(p, "refresh.comprometida")
    <3>1. PICK r : r = [pedido[p] EXCEPT !.pc = "refresh.comprometida"]
      OBVIOUS
    <3>2. r.nav = pedido[p].nav /\ r.token = pedido[p].token
      BY <2>1, <3>1, PedidoToken DEF ComToken, TypeInv
    <3>3. cookie[r.nav] = r.token
      BY <2>1, <3>2 DEF VivoInv
    <3> QED BY <1>1, <2>2, <2>4, <3>1, <3>3, VivoQuieto DEF Passa
  <2> QED BY <1>2, <2>3, <2>4 DEF RefreshCorrida
<1>3. CASE RefreshConta(p)
  <2>1. pedido[p].pc = "refresh.conta" /\ pedido[p].pc \in PcsConta
    BY <1>3 DEF RefreshConta, PcsConta
  <2>2. CASE Termina(p) /\ terminados' = terminados \cup {pedido[p].nav}
    BY <1>1, <2>2, VivoTermina DEF Ocupa
  <2>3. CASE Passa(p, "login.apagar")
    <3>1. PICK r : r = [pedido[p] EXCEPT !.pc = "login.apagar"]
      OBVIOUS
    <3>2. r.pc = "login.apagar" /\ r.nav = pedido[p].nav
      BY <2>1, <3>1, PassaSessao
    <3>3. r.pc \notin PcsToken /\ \A b : Ocupa(pedido[p], b) => Ocupa(r, b)
      BY <3>2 DEF Ocupa, PcsOcupa, PcsToken
    <3> QED BY <1>1, <2>3, <3>1, <3>3, VivoQuieto DEF Passa
  <2> QED BY <1>3, <2>2, <2>3 DEF RefreshConta
<1>4. CASE PersonificarAnteriores(p) \/ PersonificarCriar(p)
  <2>1. pedido[p].pc \in {"personificar.anteriores", "personificar.criar"}
    BY <1>4 DEF PersonificarAnteriores, PersonificarCriar
  <2>2. \A b : ~Ocupa(pedido[p], b)
    BY <2>1 DEF Ocupa, PcsOcupa
  <2>3. PICK pc \in {"personificar.criar", "login.apagar"} : Passa(p, pc)
    BY <1>4 DEF PersonificarAnteriores, PersonificarCriar
  <2>4. PICK r : r = [pedido[p] EXCEPT !.pc = pc]
    OBVIOUS
  <2>5. r.pc = pc
    BY <2>1, <2>4, PassaSessao DEF PcsConta, PcsPersonificar
  <2>6. r.pc \notin PcsToken
    BY <2>5 DEF PcsToken
  <2> QED BY <1>1, <2>2, <2>3, <2>4, <2>6, VivoQuieto DEF Passa
<1> QED BY <1>2, <1>3, <1>4

LEMMA VivoFora ==
    ASSUME SessoesAssumption, TypeInv, VivoInv, NEW p \in Pedidos,
           \/ \E u \in Contas : Reset(p, u) \/ Desativar(p, u) \/ Ativar(p, u)
           \/ Interromper(p)
    PROVE  VivoInv'
<1>1. CASE Interromper(p)
  BY <1>1, VivoTermina DEF Interromper
<1>2. ASSUME NEW u \in Contas, Reset(p, u) PROVE VivoInv'
  <2>1. [pc |-> "reset.apagar", conta |-> u].pc \notin PcsToken /\ Livre.pc = "livre"
    BY DEF PcsToken, Livre
  <2>2. \A b : ~Ocupa(pedido[p], b)
    BY <1>2, <2>1 DEF Reset, Aceita, Ocupa, PcsOcupa
  <2> QED BY <1>2, <2>1, <2>2, VivoQuieto DEF Reset, SemMudar
<1>3. ASSUME NEW u \in Contas, Desativar(p, u) \/ Ativar(p, u) PROVE VivoInv'
  <2>1. pedido[p] = Livre /\ pedido' = pedido /\ UNCHANGED <<sessao, cookie, terminados>>
    BY <1>3 DEF Desativar, Ativar, Aceita
  <2>2. Termina(p) /\ Livre.pc = "livre"
    BY <2>1 DEF Termina, Segue, TypeInv, TypeOK, Livre
  <2>3. \A b : ~Ocupa(pedido[p], b)
    BY <2>1, <2>2 DEF Ocupa, PcsOcupa
  <2> QED BY <2>1, <2>2, <2>3, VivoTermina
<1> QED BY <1>1, <1>2, <1>3
(* The steps that end sessions. *)
LEMMA VivoLoginApagar ==
    ASSUME SessoesAssumption, TypeInv, VivoInv, NEW p \in Pedidos, LoginApagar(p) PROVE VivoInv'
<1> DEFINE q == pedido[p]
<1>1. q.pc = "login.apagar" /\ q.pc \in PcsConta
  BY DEF LoginApagar, PcsConta
<1>2. PICK r : r = [q EXCEPT !.pc = "login.criar"]
  OBVIOUS
<1>3. r.pc = "login.criar" /\ r.nav = q.nav /\ Segue(p, r)
  BY <1>1, <1>2, PassaSessao DEF LoginApagar, Passa
<1>4. PICK T : T = Ativas(q.conta)
  OBVIOUS
<1>5. \A t \in Tokens \ T : sessao'[t].estado = sessao[t].estado
  BY <1>4, MarcaResto DEF LoginApagar, TypeInv
<1>6. /\ cookie' = cookie /\ terminados' = terminados \cup (Com(q.conta) \ {q.nav})
      /\ r.pc \notin PcsToken
  BY <1>3 DEF LoginApagar, PcsToken
<1>7. ASSUME NEW b \in Navegadores \ terminados', cookie[b] # Nulo
      PROVE  \/ b \in NavegadoresDe[p] /\ Ocupa(r, b)
             \/ cookie[b] \notin T /\ ~Ocupa(q, b)
  <2>1. CASE b = q.nav
    BY <1>1, <1>3, <2>1 DEF Ocupa, PcsOcupa, TypeInv, Dono
  <2>2. CASE b # q.nav
    BY <1>4, <1>6, <1>7, <2>2 DEF Ocupa, Com, Ativas
  <2> QED BY <2>1, <2>2
<1> QED BY <1>3, <1>5, <1>6, <1>7, VivoPasso

LEMMA VivoRodar ==
    ASSUME SessoesAssumption, TypeInv, VivoInv, NEW p \in Pedidos, RefreshRodar(p) PROVE VivoInv'
<1> DEFINE q == pedido[p]
<1>1. /\ q.pc = "refresh.rodar" /\ q.nav \in NavegadoresDe[p] /\ q.nav \in Navegadores
      /\ cookie[q.nav] = q.token /\ \A b : ~Ocupa(q, b)
  BY DEF RefreshRodar, PcsToken, TypeInv, Dono, VivoInv, Ocupa, PcsOcupa, SessoesAssumption
<1>2. cookie' = cookie /\ terminados' = terminados
  BY DEF RefreshRodar
<1>3. CASE Termina(p) /\ UNCHANGED sessao
  BY <1>1, <1>2, <1>3, VivoTermina
<1>4. CASE /\ Marca({q.token}, "recente")
           /\ Segue(p, PassoConta("refresh.conta", q.nav, sessao[q.token].conta))
  <2>1. PICK r : r = PassoConta("refresh.conta", q.nav, sessao[q.token].conta)
    OBVIOUS
  <2>2. r.pc = "refresh.conta" /\ r.nav = q.nav /\ Segue(p, r) /\ r.pc \notin PcsToken
    BY <1>4, <2>1 DEF PassoConta, PcsToken
  <2>3. PICK T : T = {q.token}
    OBVIOUS
  <2>4. \A t \in Tokens \ T : sessao'[t].estado = sessao[t].estado
    BY <1>4, <2>3, MarcaResto DEF TypeInv
  <2>5. ASSUME NEW b \in Navegadores \ terminados', cookie[b] # Nulo
        PROVE  \/ b \in NavegadoresDe[p] /\ Ocupa(r, b)
               \/ cookie[b] \notin T /\ ~Ocupa(q, b)
    <3>1. CASE b = q.nav
      BY <1>1, <2>2, <3>1 DEF Ocupa, PcsOcupa
    <3>2. CASE b # q.nav
      <4>1. cookie[b] # q.token
        BY <1>1, <2>5, <3>2 DEF VivoInv
      <4> QED BY <1>1, <2>3, <4>1
    <3> QED BY <3>1, <3>2
  <2> QED BY <1>2, <2>2, <2>4, <2>5, VivoPasso
<1> QED BY <1>3, <1>4 DEF RefreshRodar

(* All the sessions of an account, and the browsers that have them.        *)
LEMMA VivoConta ==
    ASSUME SessoesAssumption, TypeInv, VivoInv, NEW p \in Pedidos, NEW r, Segue(p, r),
           r.pc \notin PcsToken, \A b : ~Ocupa(pedido[p], b),
           NEW u, NEW e, Marca(Ativas(u), e), terminados' = terminados \cup Com(u),
           cookie' = cookie \/ \E b \in NavegadoresDe[p] : LimpaCookie(b)
    PROVE  VivoInv'
<1>1. PICK T : T = Ativas(u)
  OBVIOUS
<1>2. \A t \in Tokens \ T : sessao'[t].estado = sessao[t].estado
  BY <1>1, MarcaResto DEF TypeInv
<1>3. \A b \in Navegadores : cookie'[b] # Nulo => cookie[b] # Nulo
  BY DEF LimpaCookie, TypeInv, TypeOK
<1>4. \A b \in Navegadores \ terminados' : cookie[b] # Nulo => cookie[b] \notin T
  BY <1>1 DEF Com, Ativas
<1>5. \A b \in Navegadores \ terminados' : cookie'[b] # Nulo => cookie[b] \notin T /\ ~Ocupa(pedido[p], b)
  BY <1>3, <1>4
<1> QED BY <1>2, <1>5, VivoPasso

LEMMA VivoTodas ==
    ASSUME SessoesAssumption, TypeInv, VivoInv, NEW p \in Pedidos,
           RefreshComprometida(p) \/ PersonificarPlataforma(p) \/ ResetApagar(p)
    PROVE  VivoInv'
<1>1. pedido[p].pc \in {"refresh.comprometida", "personificar.plataforma", "reset.apagar"}
  BY DEF RefreshComprometida, PersonificarPlataforma, ResetApagar
<1>2. \A b : ~Ocupa(pedido[p], b)
  BY <1>1 DEF Ocupa, PcsOcupa
<1>3. CASE RefreshComprometida(p)
  <2>1. pedido[p].nav \in NavegadoresDe[p]
    BY <1>3 DEF RefreshComprometida, PcsToken, TypeInv, Dono
  <2>2. Segue(p, Livre)
    BY <1>3 DEF RefreshComprometida, Termina
  <2> QED BY <1>2, <1>3, <2>1, <2>2, LivreTipo, VivoConta DEF RefreshComprometida
<1>4. CASE ResetApagar(p)
  <2>1. Segue(p, Livre)
    BY <1>4 DEF ResetApagar, Termina
  <2> QED BY <1>2, <1>4, <2>1, LivreTipo, VivoConta DEF ResetApagar
<1>5. CASE PersonificarPlataforma(p)
  <2>1. PICK r : r = [pedido[p] EXCEPT !.pc = "personificar.anteriores"]
    OBVIOUS
  <2>2. pedido[p].pc \in PcsConta
    BY <1>5 DEF PersonificarPlataforma, PcsConta, PcsPersonificar
  <2>3. r.pc \notin PcsToken
    BY <2>1, <2>2, PassaSessao DEF PcsToken
  <2>4. Segue(p, r)
    BY <1>5, <2>1 DEF PersonificarPlataforma, Passa
  <2> QED BY <1>2, <1>5, <2>3, <2>4, VivoConta DEF PersonificarPlataforma
<1> QED BY <1>3, <1>4, <1>5
(* A browser that leaves, or whose token is of no use. *)
LEMMA VivoLimpa ==
    ASSUME SessoesAssumption, TypeInv, VivoInv, NEW p \in Pedidos, NEW b \in NavegadoresDe[p],
           \A c : ~Ocupa(pedido[p], c), Termina(p), LimpaCookie(b),
           terminados' = terminados,
           \A t \in Tokens \ {cookie[b]} : sessao'[t].estado = sessao[t].estado
    PROVE  VivoInv'
<1>1. b \in Navegadores
  BY DEF SessoesAssumption
<1>2. PICK T : T = {cookie[b]}
  OBVIOUS
<1>3. ASSUME NEW c \in Navegadores, cookie'[c] # Nulo PROVE cookie[c] \notin T
  <2>1. c # b /\ cookie'[c] = cookie[c]
    BY <1>1, <1>3 DEF LimpaCookie, TypeInv, TypeOK
  <2> QED BY <1>1, <1>2, <1>3, <2>1 DEF VivoInv
<1>4. \A t \in Tokens \ T : sessao'[t].estado = sessao[t].estado
  BY <1>2
<1> QED BY <1>3, <1>4, LivreTipo, VivoPasso DEF Termina

LEMMA VivoSair ==
    ASSUME SessoesAssumption, TypeInv, VivoInv, NEW p \in Pedidos, NEW b \in NavegadoresDe[p],
           \A c : ~Ocupa(pedido[p], c), Termina(p), Sair(b), terminados' = terminados
    PROVE  VivoInv'
<1>1. LimpaCookie(b)
  BY DEF Sair
<1>2. \A t \in Tokens \ {cookie[b]} : sessao'[t].estado = sessao[t].estado
  <2>1. CASE UNCHANGED sessao
    BY <2>1
  <2>2. CASE Marca({cookie[b]} \cap Ativas(sessao[cookie[b]].conta), "recente")
    BY <2>2, MarcaResto DEF TypeInv
  <2> QED BY <2>1, <2>2 DEF Sair
<1> QED BY <1>1, <1>2, VivoLimpa

LEMMA VivoSaidas ==
    ASSUME SessoesAssumption, TypeInv, VivoInv, NEW p \in Pedidos,
           \/ TerminarLogin(p)
           \/ \E b \in NavegadoresDe[p] : RefreshInvalida(p, b) \/ Logout(p, b)
    PROVE  VivoInv'
<1>1. ASSUME NEW b \in NavegadoresDe[p], RefreshInvalida(p, b) \/ Logout(p, b) PROVE VivoInv'
  <2>1. pedido[p] = Livre /\ pedido' = pedido /\ terminados' = terminados
    BY <1>1 DEF RefreshInvalida, Logout, Aceita
  <2>2. Termina(p) /\ Livre.pc = "livre"
    BY <2>1 DEF Termina, Segue, TypeInv, TypeOK, Livre
  <2>3. \A c : ~Ocupa(pedido[p], c)
    BY <2>1, <2>2 DEF Ocupa, PcsOcupa
  <2>4. CASE RefreshInvalida(p, b)
    BY <2>1, <2>2, <2>3, <2>4, VivoLimpa DEF RefreshInvalida
  <2>5. CASE Logout(p, b)
    BY <2>1, <2>2, <2>3, <2>5, VivoSair DEF Logout
  <2> QED BY <1>1, <2>4, <2>5
<1>2. CASE TerminarLogin(p)
  <2>1. pedido[p].pc = "terminar.login" /\ pedido[p].pc \in PcsConta /\ terminados' = terminados
    BY <1>2 DEF TerminarLogin, PcsConta
  <2>2. \A c : ~Ocupa(pedido[p], c)
    BY <2>1 DEF Ocupa, PcsOcupa
  <2>3. CASE Sair(pedido[p].nav) /\ Termina(p)
    BY <2>1, <2>2, <2>3, VivoSair DEF TypeInv, Dono
  <2>4. CASE Passa(p, "login.apagar") /\ UNCHANGED <<sessao, cookie>>
    <3>1. PICK r : r = [pedido[p] EXCEPT !.pc = "login.apagar"]
      OBVIOUS
    <3>2. r.pc \notin PcsToken
      BY <2>1, <3>1, PassaSessao DEF PcsToken
    <3> QED BY <2>1, <2>2, <2>4, <3>1, <3>2, VivoQuieto DEF Passa
  <2> QED BY <1>2, <2>3, <2>4 DEF TerminarLogin
<1> QED BY <1>1, <1>2

(* The new session is the browser's alone, unless the answer is lost.      *)
LEMMA VivoCriar ==
    ASSUME SessoesAssumption, TypeInv, VivoInv, NEW p \in Pedidos, LoginCriar(p) PROVE VivoInv'
<1> DEFINE q == pedido[p]
           novo == Len(sessao) + 1
<1>1. q.nav \in NavegadoresDe[p] /\ q.nav \in Navegadores
  BY CriarPasso DEF SessoesAssumption
<1>2. novo \notin Tokens /\ \A t \in Tokens : sessao'[t] = sessao[t]
  BY CriarPasso
<1>3. sessao'[novo].estado = "ativa"
  <2>1. sessao'[novo] = [conta |-> q.conta, estado |-> "ativa"]
    BY CriarPasso
  <2> QED BY <2>1
<1>4. novo \in Nat /\ novo # Nulo
  BY TokensTipo DEF TypeInv, SessoesAssumption
<1> HIDE DEF novo
<1>5. \/ cookie' = [cookie EXCEPT ![q.nav] = novo] /\ terminados' = terminados \ {q.nav}
      \/ cookie' = cookie /\ terminados' = terminados \cup {q.nav}
  BY DEF LoginCriar, novo
<1>6. \A b \in Navegadores : b # q.nav => cookie'[b] = cookie[b] /\ (b \in terminados' <=> b \in terminados)
  BY <1>5 DEF TypeInv, TypeOK
<1>7. \/ cookie'[q.nav] = novo /\ q.nav \notin terminados'
      \/ cookie'[q.nav] = cookie[q.nav] /\ q.nav \in terminados'
  BY <1>1, <1>5 DEF TypeInv, TypeOK
<1>8. \A b \in Navegadores : cookie[b] \in Tokens \cup {Nulo}
  BY DEF TypeInv, TypeOK
<1>9. pedido'[p] = Livre /\ \A o \in Pedidos \ {p} : pedido'[o] = pedido[o]
  BY DEF LoginCriar, Termina, Segue, TypeInv, TypeOK
<1>10. ASSUME NEW b \in Navegadores, NEW c \in Navegadores, cookie'[b] # Nulo, cookie'[b] = cookie'[c]
       PROVE  b = c
  BY <1>2, <1>4, <1>6, <1>7, <1>8, <1>10 DEF VivoInv
<1>11. ASSUME NEW o \in Pedidos, pedido'[o].pc \in PcsToken
       PROVE  cookie'[pedido'[o].nav] = pedido'[o].token
  <2>1. o # p /\ pedido'[o] = pedido[o]
    BY <1>9, <1>11, LivreTipo
  <2>2. pedido[o].nav \in NavegadoresDe[o]
    BY <1>11, <2>1 DEF TypeInv, Dono
  <2>3. pedido[o].nav # q.nav /\ pedido[o].nav \in Navegadores
    BY <1>1, <2>1, <2>2 DEF SessoesAssumption
  <2> QED BY <1>6, <1>11, <2>1, <2>3 DEF VivoInv
<1>12. ASSUME NEW o \in Pedidos, NEW b \in NavegadoresDe[o] \ terminados', cookie'[b] # Nulo
       PROVE  sessao'[cookie'[b]].estado = "ativa" \/ Ocupa(pedido'[o], b)
  <2>1. CASE b = q.nav
    BY <1>3, <1>7, <1>12, <2>1
  <2>2. CASE b # q.nav
    <3>1. b \in Navegadores
      BY DEF SessoesAssumption
    <3>2. cookie'[b] = cookie[b] /\ b \notin terminados /\ cookie[b] \in Tokens
      BY <1>6, <1>8, <1>12, <2>2, <3>1
    <3>3. sessao[cookie[b]].estado = "ativa" \/ Ocupa(pedido[o], b)
      BY <1>12, <3>2 DEF VivoInv
    <3>4. Ocupa(pedido[o], b) => pedido'[o] = pedido[o]
      BY <1>9, <2>2 DEF Ocupa
    <3> QED BY <1>2, <3>2, <3>3, <3>4
  <2> QED BY <2>1, <2>2
<1> QED BY <1>10, <1>11, <1>12 DEF VivoInv, Ocupa

LEMMA VivoTrinta == ASSUME SessoesAssumption, TypeInv, VivoInv, PassarTrinta PROVE VivoInv'
<1>1. PICK T : T = {t \in Tokens : sessao[t].estado = "recente"}
  OBVIOUS
<1>2. \A t \in Tokens \ T : sessao'[t].estado = sessao[t].estado
  BY <1>1, MarcaResto DEF PassarTrinta, TypeInv
<1>3. UNCHANGED <<cookie, terminados, pedido>>
  BY DEF PassarTrinta
<1>4. \A t \in Tokens : sessao[t].estado = "ativa" => sessao'[t].estado = "ativa"
  BY <1>1, <1>2
<1>5. \A b \in Navegadores : cookie[b] # Nulo => cookie[b] \in Tokens
  BY DEF TypeInv, TypeOK
<1>6. ASSUME NEW p \in Pedidos, NEW b \in NavegadoresDe[p] \ terminados, cookie[b] # Nulo
      PROVE  sessao'[cookie[b]].estado = "ativa" \/ Ocupa(pedido[p], b)
  BY <1>4, <1>5, <1>6 DEF VivoInv, SessoesAssumption
<1> QED BY <1>3, <1>6 DEF VivoInv, Ocupa

LEMMA VivoNext ==
    ASSUME SessoesAssumption, TypeInv, VivoInv, [Next]_vars PROVE VivoInv'
<1>1. ASSUME NEW p \in Pedidos, Continua(p) PROVE VivoInv'
  BY <1>1, VivoLoginApagar, VivoCriar, VivoSegue, VivoTodas, VivoRodar, VivoSaidas, VivoFora DEF Continua
<1>2. ASSUME NEW p \in Pedidos, NEW b \in NavegadoresDe[p], DoNavegador(p, b) PROVE VivoInv'
  BY <1>2, VivoLer, VivoSaidas DEF DoNavegador
<1>3. ASSUME NEW p \in Pedidos, NEW u \in Contas, Reset(p, u) \/ Desativar(p, u) \/ Ativar(p, u) PROVE VivoInv'
  BY <1>3, VivoFora
<1>4. CASE PassarTrinta
  BY <1>4, VivoTrinta
<1>5. CASE UNCHANGED vars
  BY <1>5 DEF vars, VivoInv, Ocupa
<1> QED BY <1>1, <1>2, <1>3, <1>4, <1>5 DEF Next

(* The rotation of refresh tokens never leaves a browser that              *)
(* asks for one refresh at a time with a dead token, unless a login        *)
(* elsewhere, a reset, an operator, a failure or a lost answer has ended   *)
(* its session -- whatever the order of the statements of the handlers.    *)
THEOREM CookieCorrecto ==
    ASSUME SessoesAssumption PROVE Spec => []CookieVivo
<1>1. Init => TypeInv /\ VivoInv
  BY TypeInit, LivreTipo DEF Init, VivoInv, SessoesAssumption
<1>2. TypeInv /\ VivoInv /\ [Next]_vars => (TypeInv /\ VivoInv)'
  BY TypeNext, VivoNext
<1>3. VivoInv => CookieVivo
  <2>1. Livre.pc \notin PcsOcupa
    BY DEF Livre, PcsOcupa
  <2> QED BY <2>1 DEF VivoInv, CookieVivo, Ocupa
<1> QED BY <1>1, <1>2, <1>3, PTL DEF Spec
=============================================================================
