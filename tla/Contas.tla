-------------------------------- MODULE Contas --------------------------------
(***************************************************************************)
(* The accounts of one training provider: invitations, acceptance,         *)
(* editing, removal, provisioned trainers, the removal of a trainer's      *)
(* profile and the erasure of personal data (users.service.ts,             *)
(* users-policy.util.ts, formadores.service.ts, rgpd.service.ts), under    *)
(* the limit of active accounts of the plan (billing.service.ts).          *)
(*                                                                         *)
(* Accounts and invitations are unique by e-mail; their rows have ids, by  *)
(* which handlers write.  An authenticated request updates and deletes by  *)
(* id outside its transaction (prisma-tenant.extension.ts); acceptInvite   *)
(* is public, has no tenant context, and its transaction is a real one.    *)
(***************************************************************************)
EXTENDS Naturals, FiniteSets

CONSTANTS
    Emails,           \* of the accounts of the tenant
    Cargos,           \* roles
    Pedidos,          \* requests that may run at the same time
    Operacoes,        \* what each of them may ask for
    Limites,          \* maxActiveUsers of the plans; Nulo has no maximum
    MaxIds,           \* bound: rows created
    MaxFalhas,        \* bound: requests that stop half way
    Nulo

Endpoints == {"convidar", "cancelar", "aceitar", "ativar", "desativar", "cargo",
              "remover", "provisionar", "removerFormador", "anonimizar"}

Gestores == {"ADMIN", "COORDENADOR_PEDAGOGICO", "COORDENADOR_COMERCIAL",
             "COORDENADOR_FINANCEIRO", "COORDENADOR", "FINANCEIRO"} \cap Cargos

ContaRow == [id: Nat, ativa: BOOLEAN, cargo: Cargos, perfil: BOOLEAN]
ConviteRow == [id: Nat, cargo: Cargos, aceite: BOOLEAN]

(* What the constants are (those of the instances are checked).           *)
ContasAssumption ==
    /\ Operacoes \in [Pedidos -> SUBSET Endpoints]
    /\ Nulo \notin Nat /\ Limites \subseteq Nat \cup {Nulo}
    /\ IsFiniteSet(Emails)
    /\ MaxIds \in Nat /\ MaxFalhas \in Nat
    /\ "FORMADOR" \in Cargos /\ "ADMIN" \in Cargos
    /\ Nulo \notin ContaRow

VARIABLES
    conta,        \* User by e-mail; perfil: it has a FormadorProfile
    convite,      \* TenantInvite by e-mail
    tokens,       \* ids of the accounts that have been a manager's: with an access token
    limite,       \* of the subscription in force
    limites,      \* history: the limits that have been in force
    proximoId,
    pedido,
    falhas

vars == <<conta, convite, tokens, limite, limites, proximoId, pedido, falhas>>
plano == <<limite, limites>>

Livre == [pc |-> "livre"]
Existe(e) == conta[e] # Nulo
Ativas == {e \in Emails : Existe(e) /\ conta[e].ativa}
GestoresAtivos == {e \in Ativas : conta[e].cargo \in Gestores}
Pendente(e) == convite[e] # Nulo /\ ~convite[e].aceite

(* The row a handler read is still there. *)
MesmaConta(e, id) == Existe(e) /\ conta[e].id = id
IdDe(e) == IF Existe(e) THEN conta[e].id ELSE Nulo
MesmoConvite(e, id) == convite[e] # Nulo /\ convite[e].id = id
IdConvite(e) == IF convite[e] = Nulo THEN Nulo ELSE convite[e].id

Pcs == {"convidar.limite", "convidar.convite", "convidar.conta", "reativar.limite",
        "reativar.convite", "reativar.conta", "cancelar", "aceitar.conta", "aceitar.limite",
        "aceitar.gravar", "update.limite", "update.gestor", "update.gravar", "perfil",
        "remover.gestor", "remover.conta", "remover.fim",
        "provisionar.convite", "provisionar.limite", "provisionar.conta", "formador.conta",
        "formador.perfil", "formador.fim", "anonimizar"}

(* What a request holds: the e-mail, the account and the invitation it     *)
(* read, the role and, for an edition, the active flag it writes (Nulo for *)
(* a field the request does not bring), and removesManager.                *)
PedidoRow ==
    {Livre} \cup [pc: Pcs, email: Emails, id: Nat \cup {Nulo}, convite: Nat \cup {Nulo},
                  cargo: Cargos \cup {Nulo}, ativa: BOOLEAN \cup {Nulo}, tira: BOOLEAN]

Init ==
    /\ \E a \in Emails :
          conta = [e \in Emails |-> IF e = a THEN [id |-> 0, ativa |-> TRUE, cargo |-> "ADMIN",
                                                   perfil |-> FALSE]
                                    ELSE Nulo]
    /\ convite = [e \in Emails |-> Nulo]
    /\ tokens = {0}
    /\ limite \in {n \in Limites : n # 0} /\ limites = {limite}
    /\ proximoId = 1
    /\ pedido = [p \in Pedidos |-> Livre] /\ falhas = 0

Aceita(p, op) == pedido[p] = Livre /\ op \in Operacoes[p]
Segue(p, r) == pedido' = [pedido EXCEPT ![p] = r]
Passa(p, pc) == Segue(p, [pedido[p] EXCEPT !.pc = pc])
Termina(p) == Segue(p, Livre)
Comeca(pc, e, id, conv, c) ==
    [pc |-> pc, email |-> e, id |-> id, convite |-> conv, cargo |-> c, ativa |-> Nulo,
     tira |-> FALSE]
Fixo == UNCHANGED <<plano, falhas>>
SemMudar == UNCHANGED <<conta, tokens, convite, proximoId, plano, falhas>>

EhGestor(r) == r # Nulo /\ r.ativa /\ r.cargo = "ADMIN"

(* An access token lasts JWT_EXPIRES and has the role of the login,        *)
(* whatever happens to the account (JwtStrategy.validate): the ids that    *)
(* have been a manager's may still act as one.                             *)
GravaConta(e, r) ==
    /\ conta' = [conta EXCEPT ![e] = r]
    /\ tokens' = tokens \cup IF EhGestor(r) THEN {r.id} ELSE {}
MantemContas == UNCHANGED <<conta, tokens>>
GravaConvite(e, r) == convite' = [convite EXCEPT ![e] = r]
NovoId == proximoId < MaxIds /\ proximoId' = proximoId + 1

(* The transaction of a removal has deleted the invitation and holds its   *)
(* row until it commits: others that write it wait.                        *)
ConviteLivre(e) ==
    \A p \in Pedidos : pedido[p].pc \in {"remover.fim", "formador.perfil", "formador.fim"} =>
        pedido[p].email # e \/ pedido[p].convite = Nulo

(* Fault: one account too many. *)
FaltaMaisUma == limite = Nulo \/ Cardinality(Ativas) <= limite

(* assertUserLimit *)
DentroDoLimite == limite = Nulo \/ Cardinality(Ativas) < limite

PassaLimite(p, de, para) ==
    /\ pedido[p].pc = de
    /\ IF DentroDoLimite THEN Passa(p, para) ELSE Termina(p)
    /\ SemMudar

(* A payment puts another plan in force, or none any more.                 *)
MudarPlano(n) ==
    /\ limite' = n /\ limites' = limites \cup {n} /\ n # limite
    /\ UNCHANGED <<conta, tokens, convite, proximoId, pedido, falhas>>

(***************************************************************************)
(* invite                                                                  *)
(***************************************************************************)
ConvidarLer(p, e, c) ==
    /\ Aceita(p, "convidar")
    /\ e \notin Ativas
    /\ LET pc == IF Existe(e) /\ c # "FORMADOR" THEN "reativar.limite" ELSE "convidar.limite"
       IN  Segue(p, Comeca(pc, e, IdDe(e), Nulo, c))
    /\ SemMudar

(* tenantInvite.upsert: a pending or accepted invitation of this e-mail is *)
(* written over.                                                           *)
ConvidarConvite(p) ==
    LET r == pedido[p]
    IN  /\ r.pc = "convidar.convite" /\ ConviteLivre(r.email)
        /\ IF convite[r.email] = Nulo
           THEN /\ NovoId
                /\ GravaConvite(r.email, [id |-> proximoId, cargo |-> r.cargo, aceite |-> FALSE])
           ELSE /\ GravaConvite(r.email,
                                [convite[r.email] EXCEPT !.cargo = r.cargo, !.aceite = FALSE])
                /\ UNCHANGED proximoId
        /\ IF r.cargo = "FORMADOR" THEN Passa(p, "convidar.conta") ELSE Termina(p)
        /\ Fixo /\ MantemContas

(* A trainer has an inactive account from the invitation on: created, or   *)
(* the one that was read.                                                  *)
ConvidarConta(p) ==
    LET r == pedido[p]
    IN  /\ r.pc = "convidar.conta"
        /\ \/ /\ r.id = Nulo /\ ~Existe(r.email)
              /\ NovoId /\ Segue(p, [r EXCEPT !.pc = "perfil", !.id = proximoId])
              /\ GravaConta(r.email, [id |-> proximoId, ativa |-> FALSE, cargo |-> "FORMADOR",
                                      perfil |-> FALSE])
           \/ /\ r.id # Nulo /\ MesmaConta(r.email, r.id)
              /\ GravaConta(r.email, [conta[r.email] EXCEPT !.ativa = FALSE, !.cargo = "FORMADOR"])
              /\ Passa(p, "perfil") /\ UNCHANGED proximoId
           \/ /\ IF r.id = Nulo THEN Existe(r.email) ELSE ~MesmaConta(r.email, r.id)
              /\ Termina(p) /\ MantemContas /\ UNCHANGED proximoId
        /\ Fixo /\ UNCHANGED convite

(* ensureFormadorProfile; the foreign key refuses an account that is gone. *)
PerfilGravar(p) ==
    LET r == pedido[p]
    IN  /\ r.pc = "perfil"
        /\ IF MesmaConta(r.email, r.id)
           THEN GravaConta(r.email, [conta[r.email] EXCEPT !.perfil = TRUE]) ELSE MantemContas
        /\ Termina(p)
        /\ Fixo /\ UNCHANGED <<convite, proximoId>>

(* reactivateInactiveUser: pending invitations go, then the account that   *)
(* was read is activated with the new role.                                *)
ReativarConvite(p) ==
    LET r == pedido[p]
    IN  /\ r.pc = "reativar.convite" /\ ConviteLivre(r.email)
        /\ convite' = IF Pendente(r.email) THEN [convite EXCEPT ![r.email] = Nulo] ELSE convite
        /\ Passa(p, "reativar.conta")
        /\ Fixo /\ MantemContas /\ UNCHANGED proximoId

ReativarConta(p) ==
    LET r == pedido[p]
    IN  /\ r.pc = "reativar.conta"
        /\ IF MesmaConta(r.email, r.id)
           THEN GravaConta(r.email, [conta[r.email] EXCEPT !.ativa = TRUE, !.cargo = r.cargo])
           ELSE MantemContas
        /\ Termina(p)
        /\ Fixo /\ UNCHANGED <<convite, proximoId>>

(***************************************************************************)
(* cancelInvite.  resendInvite changes only the token, which is left out.  *)
(***************************************************************************)
CancelarLer(p, e) ==
    /\ Aceita(p, "cancelar") /\ Pendente(e)
    /\ Segue(p, Comeca("cancelar", e, Nulo, convite[e].id, Nulo))
    /\ SemMudar

CancelarGravar(p) ==
    LET r == pedido[p]
    IN  /\ r.pc = "cancelar" /\ ConviteLivre(r.email)
        /\ convite' = IF MesmoConvite(r.email, r.convite)
                      THEN [convite EXCEPT ![r.email] = Nulo] ELSE convite
        /\ Termina(p)
        /\ Fixo /\ MantemContas /\ UNCHANGED proximoId

(***************************************************************************)
(* acceptInvite                                                            *)
(***************************************************************************)
AceitarLer(p, e) ==
    /\ Aceita(p, "aceitar") /\ Pendente(e)
    /\ Segue(p, Comeca("aceitar.conta", e, Nulo, convite[e].id, convite[e].cargo))
    /\ SemMudar

AceitarConta(p) ==
    LET r == pedido[p]
    IN  /\ r.pc = "aceitar.conta"
        /\ IF r.email \in Ativas THEN Termina(p)
           ELSE Segue(p, [r EXCEPT !.pc = "aceitar.limite", !.id = IdDe(r.email)])
        /\ SemMudar

(* The transaction writes the account that was read, or creates one, and   *)
(* the invitation by its id: it is undone when either is not there.        *)
AceitarGravar(p) ==
    LET r == pedido[p]
        possivel == /\ MesmoConvite(r.email, r.convite)
                    /\ IF r.id = Nulo THEN ~Existe(r.email) ELSE MesmaConta(r.email, r.id)
    IN  /\ r.pc = "aceitar.gravar" /\ ConviteLivre(r.email)
        /\ IF possivel
           THEN /\ GravaConvite(r.email, [convite[r.email] EXCEPT !.aceite = TRUE])
                /\ IF r.id = Nulo
                   THEN /\ NovoId
                        /\ GravaConta(r.email, [id |-> proximoId, ativa |-> TRUE, cargo |-> r.cargo,
                                                perfil |-> r.cargo = "FORMADOR"])
                   ELSE /\ GravaConta(r.email, [conta[r.email] EXCEPT
                                !.ativa = TRUE, !.cargo = r.cargo, !.perfil = @ \/ r.cargo = "FORMADOR"])
                        /\ UNCHANGED proximoId
           ELSE MantemContas /\ UNCHANGED <<convite, proximoId>>
        /\ Termina(p) /\ Fixo

(***************************************************************************)
(* update: a request brings a role, the active flag, both or neither       *)
(* (cargo and ativa are Nulo when it does not).  A manager does not        *)
(* deactivate the own account nor change the own role.                     *)
(***************************************************************************)
(* removesManager, of the row that was read: only ADMIN is a manager here  *)
(* (isTenantManagerPrismaRole).                                            *)
TiraGestor(e, cargo, ativa) ==
    /\ conta[e].cargo = "ADMIN" /\ conta[e].ativa
    /\ ativa = FALSE \/ cargo \notin {Nulo, "ADMIN"}

(* What a request may bring. *)
Permitido(p, cargo, ativa) ==
    /\ pedido[p] = Livre /\ Operacoes[p] \cap {"ativar", "desativar", "cargo"} # {}
    /\ cargo # Nulo => "cargo" \in Operacoes[p]
    /\ ativa # Nulo => (IF ativa THEN "ativar" ELSE "desativar") \in Operacoes[p]

(* Some manager may send it. *)
PodePedir(e, cargo, ativa) ==
    \E a \in tokens : a = conta[e].id => cargo = Nulo /\ ativa # FALSE

UpdateLer(p, e, cargo, ativa) ==
    /\ Permitido(p, cargo, ativa) /\ Existe(e) /\ PodePedir(e, cargo, ativa)
    /\ LET pc == IF ativa = TRUE /\ ~conta[e].ativa THEN "update.limite" ELSE "update.gestor"
       IN  Segue(p, [Comeca(pc, e, conta[e].id, Nulo, cargo)
                        EXCEPT !.ativa = ativa, !.tira = TiraGestor(e, cargo, ativa)])
    /\ SemMudar

(* Fault: the managers are not counted. *)
FaltaSemContar(e, tira) == TRUE

(* assertManagerSafety: the others are counted by the wider list of roles  *)
(* of the query.                                                           *)
GestorSeguro(e, tira) == tira => GestoresAtivos \ {e} # {}

UpdateGestor(p) ==
    LET r == pedido[p]
    IN  /\ r.pc = "update.gestor"
        /\ IF GestorSeguro(r.email, r.tira) THEN Passa(p, "update.gravar") ELSE Termina(p)
        /\ SemMudar

(* Fault: the role is written although the request does not bring one. *)
FaltaCargoNulo(r) ==
    [conta[r.email] EXCEPT !.cargo = r.cargo, !.ativa = IF r.ativa = Nulo THEN @ ELSE r.ativa]

(* Only the fields of the request are written; a trainer without a profile *)
(* gets one.                                                               *)
Editada(r) ==
    [conta[r.email] EXCEPT !.cargo = IF r.cargo = Nulo THEN @ ELSE r.cargo,
                           !.ativa = IF r.ativa = Nulo THEN @ ELSE r.ativa]

UpdateGravar(p) ==
    LET r == pedido[p]
        nova == Editada(r)
    IN  /\ r.pc = "update.gravar"
        /\ IF MesmaConta(r.email, r.id)
           THEN /\ GravaConta(r.email, nova)
                /\ IF nova.cargo = "FORMADOR" /\ ~nova.perfil THEN Passa(p, "perfil") ELSE Termina(p)
           ELSE Termina(p) /\ MantemContas
        /\ Fixo /\ UNCHANGED <<convite, proximoId>>

(***************************************************************************)
(* removePermanent: the transaction deletes the invitation, the account    *)
(* itself is deleted outside it (and its profile with it), and then the    *)
(* transaction commits.                                                    *)
(***************************************************************************)
RemoverLer(p, e) ==
    /\ Aceita(p, "remover") /\ Existe(e) /\ PodePedir(e, Nulo, FALSE)
    /\ Segue(p, [Comeca("remover.gestor", e, conta[e].id, Nulo, Nulo)
                    EXCEPT !.tira = TiraGestor(e, Nulo, FALSE)])
    /\ SemMudar

RemoverGestor(p) ==
    LET r == pedido[p]
    IN  /\ r.pc = "remover.gestor"
        /\ IF GestorSeguro(r.email, r.tira) THEN Passa(p, "remover.conta") ELSE Termina(p)
        /\ SemMudar

RemoverConta(p) ==
    LET r == pedido[p]
    IN  /\ r.pc = "remover.conta" /\ ConviteLivre(r.email)
        /\ IF MesmaConta(r.email, r.id)
           THEN /\ GravaConta(r.email, Nulo)
                /\ Segue(p, [r EXCEPT !.pc = "remover.fim", !.convite = IdConvite(r.email)])
           ELSE Termina(p) /\ MantemContas
        /\ Fixo /\ UNCHANGED <<convite, proximoId>>

RemoverFim(p) ==
    LET r == pedido[p]
    IN  /\ r.pc \in {"remover.fim", "formador.fim"}
        /\ convite' = IF MesmoConvite(r.email, r.convite)
                      THEN [convite EXCEPT ![r.email] = Nulo] ELSE convite
        /\ Termina(p)
        /\ Fixo /\ MantemContas /\ UNCHANGED proximoId

(***************************************************************************)
(* provisionNewFormadorAccount: an active account for a trainer, with a    *)
(* temporary password.                                                     *)
(***************************************************************************)
ProvisionarLer(p, e) ==
    /\ Aceita(p, "provisionar")
    /\ e \in Ativas => conta[e].cargo = "FORMADOR" /\ ~conta[e].perfil
    /\ Segue(p, Comeca("provisionar.convite", e, IdDe(e), Nulo, "FORMADOR"))
    /\ SemMudar

ProvisionarConvite(p) ==
    LET r == pedido[p]
    IN  /\ r.pc = "provisionar.convite" /\ ConviteLivre(r.email)
        /\ convite' = IF Pendente(r.email) THEN [convite EXCEPT ![r.email] = Nulo] ELSE convite
        /\ Passa(p, "provisionar.limite")
        /\ Fixo /\ MantemContas /\ UNCHANGED proximoId

ProvisionarConta(p) ==
    LET r == pedido[p]
    IN  /\ r.pc = "provisionar.conta"
        /\ \/ /\ r.id = Nulo /\ ~Existe(r.email)
              /\ NovoId /\ Segue(p, [r EXCEPT !.pc = "perfil", !.id = proximoId])
              /\ GravaConta(r.email, [id |-> proximoId, ativa |-> TRUE, cargo |-> "FORMADOR",
                                      perfil |-> FALSE])
           \/ /\ r.id # Nulo /\ MesmaConta(r.email, r.id)
              /\ GravaConta(r.email, [conta[r.email] EXCEPT !.ativa = TRUE, !.cargo = "FORMADOR"])
              /\ Passa(p, "perfil") /\ UNCHANGED proximoId
           \/ /\ IF r.id = Nulo THEN Existe(r.email) ELSE ~MesmaConta(r.email, r.id)
              /\ Termina(p) /\ MantemContas /\ UNCHANGED proximoId
        /\ Fixo /\ UNCHANGED convite

(***************************************************************************)
(* FormadoresService.remove: the profile and the account behind it,        *)
(* whatever role that account has now.  FormandosService.remove is the     *)
(* same code for learners.                                                 *)
(***************************************************************************)
FormadorLer(p, e) ==
    /\ Aceita(p, "removerFormador") /\ Existe(e) /\ conta[e].perfil
    /\ Segue(p, Comeca("formador.conta", e, conta[e].id, Nulo, Nulo))
    /\ SemMudar

FormadorConta(p) ==
    LET r == pedido[p]
    IN  /\ r.pc = "formador.conta" /\ ConviteLivre(r.email)
        /\ IF MesmaConta(r.email, r.id)
           THEN /\ GravaConta(r.email, [conta[r.email] EXCEPT !.ativa = FALSE])
                /\ Segue(p, [r EXCEPT !.pc = "formador.perfil",
                             !.convite = IF Pendente(r.email) /\ convite[r.email].cargo = "FORMADOR"
                                         THEN IdConvite(r.email) ELSE Nulo])
           ELSE Termina(p) /\ MantemContas
        /\ Fixo /\ UNCHANGED <<convite, proximoId>>

FormadorPerfil(p) ==
    LET r == pedido[p]
    IN  /\ r.pc = "formador.perfil"
        /\ IF MesmaConta(r.email, r.id) /\ conta[r.email].perfil
           THEN /\ GravaConta(r.email, [conta[r.email] EXCEPT !.perfil = FALSE])
                /\ Passa(p, "formador.fim")
           ELSE Termina(p) /\ MantemContas
        /\ Fixo /\ UNCHANGED <<convite, proximoId>>

(***************************************************************************)
(* RgpdService.processDelete of a user: the account is left inactive under *)
(* another e-mail, so that this one has none.                              *)
(***************************************************************************)
AnonimizarLer(p, e) ==
    /\ Aceita(p, "anonimizar") /\ Existe(e)
    /\ Segue(p, Comeca("anonimizar", e, conta[e].id, Nulo, Nulo))
    /\ SemMudar

AnonimizarGravar(p) ==
    LET r == pedido[p]
    IN  /\ r.pc = "anonimizar"
        /\ IF MesmaConta(r.email, r.id) THEN GravaConta(r.email, Nulo) ELSE MantemContas
        /\ Termina(p)
        /\ Fixo /\ UNCHANGED <<convite, proximoId>>

(* A request stops between two statements; the transaction it has open is  *)
(* undone, what it wrote outside stays.                                    *)
Interromper(p) ==
    /\ pedido[p] # Livre /\ falhas < MaxFalhas
    /\ falhas' = falhas + 1 /\ Termina(p)
    /\ UNCHANGED <<conta, tokens, convite, proximoId, plano>>

(* assertUserLimit stands before every handler that activates an account.  *)
Limite(p) ==
    \/ PassaLimite(p, "convidar.limite", "convidar.convite")
    \/ PassaLimite(p, "reativar.limite", "reativar.convite")
    \/ PassaLimite(p, "aceitar.limite", "aceitar.gravar")
    \/ PassaLimite(p, "update.limite", "update.gestor")
    \/ PassaLimite(p, "provisionar.limite", "provisionar.conta")

Convites(p) ==
    \/ ConvidarConvite(p) \/ ConvidarConta(p) \/ PerfilGravar(p) \/ ReativarConvite(p)
    \/ ReativarConta(p) \/ CancelarGravar(p) \/ AceitarConta(p) \/ AceitarGravar(p)
    \/ ProvisionarConvite(p) \/ ProvisionarConta(p)
    \/ \E e \in Emails : CancelarLer(p, e) \/ AceitarLer(p, e) \/ ProvisionarLer(p, e)
    \/ \E e \in Emails, c \in Cargos : ConvidarLer(p, e, c)

Edicao(p) ==
    \/ UpdateGestor(p) \/ UpdateGravar(p)
    \/ \E e \in Emails, c \in Cargos \cup {Nulo}, a \in BOOLEAN \cup {Nulo} : UpdateLer(p, e, c, a)

Remocao(p) ==
    \/ RemoverGestor(p) \/ RemoverConta(p) \/ RemoverFim(p)
    \/ FormadorConta(p) \/ FormadorPerfil(p) \/ AnonimizarGravar(p)
    \/ \E e \in Emails : RemoverLer(p, e) \/ FormadorLer(p, e) \/ AnonimizarLer(p, e)

Next ==
    \/ \E p \in Pedidos : Limite(p) \/ Convites(p) \/ Edicao(p) \/ Remocao(p) \/ Interromper(p)
    \/ \E n \in Limites : MudarPlano(n)

Spec == Init /\ [][Next]_vars

-----------------------------------------------------------------------------
(* Types. *)
TypeOK ==
    /\ conta \in [Emails -> ContaRow \cup {Nulo}]
    /\ convite \in [Emails -> ConviteRow \cup {Nulo}]
    /\ tokens \subseteq Nat
    /\ limite \in Limites /\ limites \subseteq Limites
    /\ proximoId \in Nat /\ falhas \in Nat
    /\ pedido \in [Pedidos -> PedidoRow]

(* "Limite de N utilizadores activos do plano atingido": however the other *)
(* requests interleave, there are never more active accounts than some     *)
(* plan in force so far allowed -- with one request at a time that         *)
(* activates accounts, since the count and the activation are apart.       *)
LimiteRespeitado ==
    Nulo \in limites \/ \E n \in limites : Cardinality(Ativas) <= n

(* "Não podes remover o último gestor activo da entidade": the tenant      *)
(* always has a manager.                                                   *)
HaGestor == GestoresAtivos # {}

(* assertManagerSafety counts coordinators and FINANCEIRO too, and         *)
(* protects only ADMIN: users may demote the last ADMIN beside a           *)
(* coordinator, and then remove that one.  What it keeps: while an ADMIN   *)
(* is active, no endpoint of users leaves the tenant without a manager;    *)
(* only the removal of a trainer's profile and the erasure of personal     *)
(* data, which do not count, may -- with one request at a time that edits, *)
(* activates or removes.                                                   *)
EAdmin(e) == e \in Ativas /\ conta[e].cargo = "ADMIN"

AdminProtegido ==
    HaGestor /\ (\E e \in GestoresAtivos : EAdmin(e)) /\ ~HaGestor' =>
        \E p \in Pedidos : pedido[p].pc \in {"formador.conta", "anonimizar"} /\ pedido'[p] # pedido[p]

AdminSempreProtegido == [][AdminProtegido]_vars
=============================================================================
