------------------------------ MODULE ContasProofs ------------------------------
(* Theorems about Contas, for every set of e-mails, roles, plans and       *)
(* requests, and every number of rows and failures.                        *)
EXTENDS Contas, FiniteSetTheorems, TLAPS

Iniciado == [pc: Pcs, email: Emails, id: Nat \cup {Nulo}, convite: Nat \cup {Nulo},
             cargo: Cargos \cup {Nulo}, ativa: BOOLEAN \cup {Nulo}, tira: BOOLEAN]

(* The requests that carry a role to write.                                *)
PcsCargo == {"convidar.limite", "convidar.convite", "reativar.limite", "reativar.convite",
             "reativar.conta", "aceitar.conta", "aceitar.limite", "aceitar.gravar"}

(* Those that may activate an account, ...                                 *)
Ativadores == {"convidar", "aceitar", "ativar", "provisionar"}
PcsAtivar == {"reativar.limite", "reativar.convite", "reativar.conta", "aceitar.conta",
              "aceitar.limite", "aceitar.gravar", "provisionar.convite", "provisionar.limite",
              "provisionar.conta"}
PcsUpdate == {"update.limite", "update.gestor", "update.gravar"}
EditaAtiva(r) == r.ativa # Nulo /\ r.ativa = TRUE
Ativador(r) == r.pc \in PcsAtivar \/ (r.pc \in PcsUpdate /\ EditaAtiva(r))

(* ... and of these, those past the check of the limit.                    *)
Passou(r) ==
    \/ r.pc \in {"reativar.convite", "reativar.conta", "aceitar.gravar", "provisionar.conta"}
    \/ r.pc \in {"update.gestor", "update.gravar"} /\ EditaAtiva(r)

Dono(p, r) ==
    /\ r.pc \in PcsCargo => r.cargo \in Cargos
    /\ Ativador(r) => Operacoes[p] \cap Ativadores # {}

TypeInv == TypeOK /\ limite \in limites /\ \A p \in Pedidos : Dono(p, pedido[p])

(* So many active accounts were allowed at some time.                      *)
Cabe(S) == Nulo \in limites \/ \E n \in limites : Cardinality(S) <= n

-----------------------------------------------------------------------------
(* Rows *)

LEMMA LivreTipo == Livre \in PedidoRow /\ Livre.pc = "livre" /\ (\A p : Dono(p, Livre)) /\ ~Passou(Livre)
BY DEF Livre, PedidoRow, Dono, Passou, Ativador, PcsCargo, PcsAtivar, PcsUpdate

LEMMA PedidoTipo ==
    ASSUME TypeInv, NEW p \in Pedidos, pedido[p].pc \in Pcs
    PROVE  pedido[p] \in Iniciado /\ Dono(p, pedido[p])
<1>1. pedido[p] \in PedidoRow /\ Dono(p, pedido[p])
  BY DEF TypeInv, TypeOK
<1>2. pedido[p] # Livre
  BY LivreTipo DEF Pcs
<1> QED BY <1>1, <1>2 DEF PedidoRow, Iniciado

LEMMA IniciadoCabe == Iniciado \subseteq PedidoRow
BY DEF Iniciado, PedidoRow

LEMMA ComecaTipo ==
    ASSUME NEW pc \in Pcs, NEW e \in Emails, NEW id \in Nat \cup {Nulo}, NEW conv \in Nat \cup {Nulo},
           NEW c \in Cargos \cup {Nulo}
    PROVE  /\ Comeca(pc, e, id, conv, c) \in Iniciado
           /\ Comeca(pc, e, id, conv, c).pc = pc /\ Comeca(pc, e, id, conv, c).email = e
           /\ Comeca(pc, e, id, conv, c).cargo = c /\ ~EditaAtiva(Comeca(pc, e, id, conv, c))
BY DEF Comeca, Iniciado, EditaAtiva

(* An account is written over, created or deleted.                         *)
LEMMA GravaTipo ==
    ASSUME TypeOK, NEW e \in Emails, NEW r \in ContaRow \cup {Nulo}, GravaConta(e, r)
    PROVE  /\ conta' \in [Emails -> ContaRow \cup {Nulo}] /\ tokens' \subseteq Nat
           /\ Ativas' \subseteq Ativas \cup {e}
           /\ (r # Nulo => ~r.ativa \/ e \in Ativas) => Ativas' \subseteq Ativas
<1>1. conta' = [conta EXCEPT ![e] = r] /\ conta' \in [Emails -> ContaRow \cup {Nulo}]
  BY DEF GravaConta, TypeOK
<1>2. tokens' \subseteq Nat
  BY DEF GravaConta, EhGestor, TypeOK, ContaRow
<1>3. \A x \in Emails \ {e} : conta'[x] = conta[x]
  BY <1>1
<1>4. conta'[e] = r
  BY <1>1 DEF TypeOK
<1>5. \A x \in Ativas' : x # e => x \in Ativas
  BY <1>3 DEF Ativas, Existe
<1>6. e \in Ativas' => r # Nulo /\ r.ativa
  BY <1>4 DEF Ativas, Existe
<1> QED BY <1>1, <1>2, <1>5, <1>6

LEMMA Finitas ==
    ASSUME ContasAssumption, NEW S \in SUBSET Emails
    PROVE  IsFiniteSet(S) /\ Cardinality(S) \in Nat
BY FS_Subset, FS_CardinalityType DEF ContasAssumption

LEMMA CabeMenos ==
    ASSUME ContasAssumption, TypeInv, limites \subseteq limites', limites' \subseteq Limites,
           NEW S, NEW T \in SUBSET Emails, S \subseteq T, Cabe(T)
    PROVE  Nulo \in limites' \/ \E n \in limites' : Cardinality(S) <= n
<1>1. CASE Nulo \in limites
  BY <1>1
<1>2. ASSUME Nulo \notin limites', NEW n \in limites, Cardinality(T) <= n
      PROVE  \E m \in limites' : Cardinality(S) <= m
  <2>1. Cardinality(S) \in Nat /\ Cardinality(T) \in Nat
    BY Finitas
  <2>2. Cardinality(S) <= Cardinality(T)
    BY Finitas, FS_Subset
  <2>3. n \in Nat
    BY <1>2 DEF TypeInv, TypeOK, ContasAssumption
  <2>4. Cardinality(S) <= n
    BY <1>2, <2>1, <2>2, <2>3
  <2> QED BY <2>4
<1> QED BY <1>1, <1>2 DEF Cabe

(* The check of the limit leaves room for one more.                        *)
LEMMA LimiteCabe ==
    ASSUME ContasAssumption, TypeInv, DentroDoLimite, NEW e \in Emails
    PROVE  Cabe(Ativas \cup {e})
<1>1. CASE limite = Nulo
  BY <1>1 DEF Cabe, TypeInv
<1>2. CASE limite # Nulo
  <2>1. Ativas \in SUBSET Emails
    BY DEF Ativas
  <2>2. IsFiniteSet(Ativas) /\ Cardinality(Ativas) \in Nat /\ limite \in Nat
    BY <1>2, <2>1, Finitas DEF TypeInv, TypeOK, ContasAssumption
  <2>3. Cardinality(Ativas \cup {e}) = IF e \in Ativas THEN Cardinality(Ativas) ELSE Cardinality(Ativas) + 1
    BY <2>2, FS_AddElement
  <2>4. Cardinality(Ativas) < limite
    BY <1>2 DEF DentroDoLimite
  <2>5. Cardinality(Ativas \cup {e}) <= limite
    BY <2>2, <2>3, <2>4
  <2> QED BY <2>5 DEF Cabe, TypeInv
<1> QED BY <1>1, <1>2

-----------------------------------------------------------------------------
(* What a step of a request does: it goes on to r, and the active accounts *)
(* grow only by the one it was let activate.                               *)

Passo(p, r) ==
    /\ r \in PedidoRow /\ Segue(p, r) /\ Dono(p, r)
    /\ Passou(r) => r.email \in Emails /\ ((Passou(pedido[p]) /\ r.email = pedido[p].email)
                                           \/ Cabe(Ativas \cup {r.email})
                                           \/ r.email \in Ativas)
    /\ \/ Ativas' \subseteq Ativas
       \/ Passou(pedido[p]) /\ Ativas' \subseteq Ativas \cup {pedido[p].email} /\ ~Passou(r)

Resto ==
    /\ conta' \in [Emails -> ContaRow \cup {Nulo}] /\ tokens' \subseteq Nat
    /\ convite' \in [Emails -> ConviteRow \cup {Nulo}]
    /\ proximoId' \in Nat /\ falhas' \in Nat /\ UNCHANGED plano

Normal(p) == Resto /\ \E r \in PedidoRow : Passo(p, r)

LEMMA SegueTodos ==
    ASSUME TypeInv, NEW p \in Pedidos, NEW r, Passo(p, r)
    PROVE  /\ pedido' \in [Pedidos -> PedidoRow] /\ pedido'[p] = r
           /\ \A o \in Pedidos \ {p} : pedido'[o] = pedido[o]
           /\ \A o \in Pedidos : Dono(o, pedido'[o])
BY DEF Passo, Segue, TypeInv, TypeOK

LEMMA TypeNormal == ASSUME ContasAssumption, TypeInv, NEW p \in Pedidos, Normal(p) PROVE TypeInv'
<1>1. PICK r \in PedidoRow : Passo(p, r)
  BY DEF Normal
<1>2. TypeOK' /\ (limite \in limites)'
  BY <1>1, SegueTodos DEF Normal, Resto, TypeInv, TypeOK, plano
<1>3. \A o \in Pedidos : Dono(o, pedido[o])'
  BY <1>1, SegueTodos DEF Dono, Ativador, EditaAtiva
<1> QED BY <1>2, <1>3 DEF TypeInv

LEMMA ContasFicam == ASSUME MantemContas PROVE Ativas' = Ativas
BY DEF MantemContas, Ativas, Existe

(* A request that ends, with fewer active accounts or the one it may       *)
(* activate.                                                               *)
LEMMA TerminaPasso ==
    ASSUME NEW p \in Pedidos, Termina(p),
           Ativas' \subseteq Ativas \/ (Passou(pedido[p]) /\ Ativas' \subseteq Ativas \cup {pedido[p].email})
    PROVE  \E r \in PedidoRow : Passo(p, r)
BY LivreTipo DEF Passo, Termina

(* A request that begins reads only.                                       *)
LEMMA ComecaNormal ==
    ASSUME ContasAssumption, TypeInv, NEW p \in Pedidos, NEW r \in Iniciado, Segue(p, r), Dono(p, r), SemMudar,
           Passou(r) => r.email \in Ativas \/ Cabe(Ativas \cup {r.email})
                        \/ (Passou(pedido[p]) /\ r.email = pedido[p].email)
    PROVE  Normal(p)
<1>1. Ativas' = Ativas
  BY DEF SemMudar, Ativas, Existe
<1>2. r \in PedidoRow /\ r.email \in Emails
  BY IniciadoCabe DEF Iniciado
<1>3. Passo(p, r)
  BY <1>1, <1>2 DEF Passo
<1> QED BY <1>2, <1>3 DEF Normal, Resto, SemMudar, TypeInv, TypeOK, plano

LEMMA TerminaNormal ==
    ASSUME TypeInv, NEW p \in Pedidos, Termina(p), SemMudar PROVE Normal(p)
<1>1. Ativas' = Ativas
  BY DEF SemMudar, Ativas, Existe
<1> QED BY <1>1, TerminaPasso DEF Normal, Resto, SemMudar, TypeInv, TypeOK, plano

LEMMA PassaLinha ==
    ASSUME TypeInv, NEW p \in Pedidos, pedido[p].pc \in Pcs, NEW pc \in Pcs
    PROVE  LET r == [pedido[p] EXCEPT !.pc = pc]
           IN  /\ r \in Iniciado /\ r.pc = pc /\ r.email = pedido[p].email
               /\ r.cargo = pedido[p].cargo /\ r.ativa = pedido[p].ativa
BY PedidoTipo DEF Iniciado

(* A request that goes on keeps what it was let do.                        *)
LEMMA PassaDono ==
    ASSUME TypeInv, NEW p \in Pedidos, pedido[p].pc \in Pcs, NEW pc \in Pcs,
           pc \in PcsCargo => pedido[p].pc \in PcsCargo,
           pc \in PcsAtivar => pedido[p].pc \in PcsAtivar,
           pc \in PcsUpdate => pedido[p].pc \in PcsUpdate
    PROVE  Dono(p, [pedido[p] EXCEPT !.pc = pc])
<1> DEFINE r == [pedido[p] EXCEPT !.pc = pc]
<1>1. r.pc = pc /\ r.cargo = pedido[p].cargo /\ r.ativa = pedido[p].ativa
  BY PassaLinha
<1>2. Dono(p, pedido[p])
  BY DEF TypeInv
<1> HIDE DEF r
<1>3. Dono(p, r)
  BY <1>1, <1>2 DEF Dono, Ativador, EditaAtiva
<1> QED BY <1>3 DEF r

LEMMA NormalPassaLimite ==
    ASSUME ContasAssumption, TypeInv, NEW p \in Pedidos, NEW de \in Pcs, NEW para \in Pcs,
           PassaLimite(p, de, para),
           para \in PcsCargo => de \in PcsCargo,
           para \in PcsAtivar => de \in PcsAtivar,
           para \in PcsUpdate => de \in PcsUpdate
    PROVE  Normal(p)
<1> DEFINE r == [pedido[p] EXCEPT !.pc = para]
<1>1. pedido[p].pc = de /\ SemMudar
  BY DEF PassaLimite
<1>2. CASE DentroDoLimite /\ Segue(p, r)
  <2>1. r \in Iniciado /\ Dono(p, r)
    BY <1>1, PassaLinha, PassaDono
  <2>2. Cabe(Ativas \cup {r.email})
    BY <1>2, <2>1, LimiteCabe DEF Iniciado
  <2> HIDE DEF r
  <2> QED BY <1>1, <1>2, <2>1, <2>2, ComecaNormal
<1>3. CASE Termina(p)
  BY <1>1, <1>3, TerminaNormal
<1> QED BY <1>2, <1>3 DEF PassaLimite, Passa

LEMMA NormalLimite == ASSUME ContasAssumption, TypeInv, NEW p \in Pedidos, Limite(p) PROVE Normal(p)
<1>1. CASE PassaLimite(p, "convidar.limite", "convidar.convite")
  BY <1>1, NormalPassaLimite DEF Pcs, PcsCargo, PcsAtivar, PcsUpdate
<1>2. CASE PassaLimite(p, "reativar.limite", "reativar.convite")
  BY <1>2, NormalPassaLimite DEF Pcs, PcsCargo, PcsAtivar, PcsUpdate
<1>3. CASE PassaLimite(p, "aceitar.limite", "aceitar.gravar")
  BY <1>3, NormalPassaLimite DEF Pcs, PcsCargo, PcsAtivar, PcsUpdate
<1>4. CASE PassaLimite(p, "update.limite", "update.gestor")
  BY <1>4, NormalPassaLimite DEF Pcs, PcsCargo, PcsAtivar, PcsUpdate
<1>5. CASE PassaLimite(p, "provisionar.limite", "provisionar.conta")
  BY <1>5, NormalPassaLimite DEF Pcs, PcsCargo, PcsAtivar, PcsUpdate
<1> QED BY <1>1, <1>2, <1>3, <1>4, <1>5 DEF Limite

(* Ids that are read. *)
LEMMA IdsTipo ==
    ASSUME TypeOK, NEW e \in Emails
    PROVE  /\ IdDe(e) \in Nat \cup {Nulo} /\ IdConvite(e) \in Nat \cup {Nulo}
           /\ Existe(e) => conta[e] \in ContaRow /\ conta[e].id \in Nat /\ conta[e].cargo \in Cargos
           /\ convite[e] # Nulo => convite[e] \in ConviteRow /\ convite[e].id \in Nat
                                   /\ convite[e].cargo \in Cargos
<1>1. Existe(e) => conta[e] \in ContaRow
  BY DEF TypeOK, Existe
<1>2. convite[e] # Nulo => convite[e] \in ConviteRow
  BY DEF TypeOK
<1> QED BY <1>1, <1>2 DEF IdDe, IdConvite, ContaRow, ConviteRow

(* The requests that begin. *)
LEMMA ComecaPedido ==
    ASSUME ContasAssumption, TypeInv, NEW p \in Pedidos, NEW e \in Emails, NEW pc \in Pcs,
           NEW id \in Nat \cup {Nulo}, NEW conv \in Nat \cup {Nulo}, NEW c \in Cargos \cup {Nulo},
           Segue(p, Comeca(pc, e, id, conv, c)), SemMudar,
           pc \in PcsCargo => c \in Cargos,
           pc \in PcsAtivar => Operacoes[p] \cap Ativadores # {},
           pc \notin {"reativar.convite", "reativar.conta", "aceitar.gravar", "provisionar.conta"}
    PROVE  Normal(p)
<1> DEFINE r == Comeca(pc, e, id, conv, c)
<1>1. r \in Iniciado /\ r.pc = pc /\ r.email = e /\ r.cargo = c /\ ~EditaAtiva(r)
  BY ComecaTipo
<1> HIDE DEF r
<1>2. Dono(p, r) /\ ~Passou(r)
  BY <1>1 DEF Dono, Ativador, Passou
<1>3. Segue(p, r)
  BY DEF r
<1> QED BY <1>1, <1>2, <1>3, ComecaNormal

LEMMA NormalLer ==
    ASSUME ContasAssumption, TypeInv, NEW p \in Pedidos, NEW e \in Emails,
           \/ \E c \in Cargos : ConvidarLer(p, e, c)
           \/ CancelarLer(p, e) \/ AceitarLer(p, e) \/ ProvisionarLer(p, e)
           \/ FormadorLer(p, e) \/ AnonimizarLer(p, e)
    PROVE  Normal(p)
<1>0. \A pc \in {"cancelar", "formador.conta", "anonimizar"} :
          /\ pc \in Pcs /\ pc \notin PcsCargo /\ pc \notin PcsAtivar
          /\ pc \notin {"reativar.convite", "reativar.conta", "aceitar.gravar", "provisionar.conta"}
  BY DEF Pcs, PcsCargo, PcsAtivar
<1>1. CASE \E c \in Cargos : ConvidarLer(p, e, c)
  <2>1. PICK c \in Cargos, pc \in {"reativar.limite", "convidar.limite"} :
            Segue(p, Comeca(pc, e, IdDe(e), Nulo, c)) /\ SemMudar /\ "convidar" \in Operacoes[p]
    BY <1>1 DEF ConvidarLer, Aceita
  <2> QED BY <2>1, IdsTipo, ComecaPedido DEF Pcs, Ativadores, TypeInv
<1>2. CASE CancelarLer(p, e)
  <2>1. convite[e].id \in Nat /\ Segue(p, Comeca("cancelar", e, Nulo, convite[e].id, Nulo)) /\ SemMudar
    BY <1>2, IdsTipo DEF CancelarLer, Pendente, TypeInv
  <2> QED BY <1>0, <2>1, ComecaPedido
<1>3. CASE AceitarLer(p, e)
  BY <1>3, IdsTipo, ComecaPedido DEF AceitarLer, Aceita, Pendente, Pcs, Ativadores, TypeInv
<1>4. CASE ProvisionarLer(p, e)
  BY <1>4, IdsTipo, ComecaPedido DEF ProvisionarLer, Aceita, Pcs, PcsCargo, Ativadores, TypeInv, ContasAssumption
<1>5. CASE FormadorLer(p, e)
  <2>1. conta[e].id \in Nat /\ Segue(p, Comeca("formador.conta", e, conta[e].id, Nulo, Nulo)) /\ SemMudar
    BY <1>5, IdsTipo DEF FormadorLer, TypeInv
  <2> QED BY <1>0, <2>1, ComecaPedido
<1>6. CASE AnonimizarLer(p, e)
  <2>1. conta[e].id \in Nat /\ Segue(p, Comeca("anonimizar", e, conta[e].id, Nulo, Nulo)) /\ SemMudar
    BY <1>6, IdsTipo DEF AnonimizarLer, TypeInv
  <2> QED BY <1>0, <2>1, ComecaPedido
<1> QED BY <1>1, <1>2, <1>3, <1>4, <1>5, <1>6

(* Editions and removals that begin: what they write of the active flag.   *)
LEMMA NormalUpdateLer ==
    ASSUME ContasAssumption, TypeInv, NEW p \in Pedidos, NEW e \in Emails,
           NEW cargo \in Cargos \cup {Nulo}, NEW ativa \in BOOLEAN \cup {Nulo},
           UpdateLer(p, e, cargo, ativa)
    PROVE  Normal(p)
<1> DEFINE pc == IF ativa = TRUE /\ ~conta[e].ativa THEN "update.limite" ELSE "update.gestor"
           tira == TiraGestor(e, cargo, ativa)
           c == Comeca(pc, e, conta[e].id, Nulo, cargo)
           r == [c EXCEPT !.ativa = ativa, !.tira = tira]
<1>1. /\ Segue(p, r) /\ SemMudar /\ Existe(e)
      /\ ativa # Nulo /\ ativa = TRUE => "ativar" \in Operacoes[p]
  BY DEF UpdateLer, Permitido
<1>2. conta[e].id \in Nat
  BY <1>1, IdsTipo DEF TypeInv
<1>3. /\ pc \in {"update.limite", "update.gestor"} /\ pc \in Pcs /\ tira \in BOOLEAN
      /\ (ativa = TRUE => pc = "update.limite" \/ conta[e].ativa)
  BY DEF Pcs, TiraGestor
<1> HIDE DEF pc, tira
<1> HIDE DEF c, r
<1>4. c \in Iniciado /\ c.pc = pc /\ c.email = e
  <2>1. conta[e].id \in Nat \cup {Nulo} /\ Nulo \in Nat \cup {Nulo} /\ pc \in Pcs
    BY <1>2, <1>3
  <2>2. /\ Comeca(pc, e, conta[e].id, Nulo, cargo) \in Iniciado
        /\ Comeca(pc, e, conta[e].id, Nulo, cargo).pc = pc
        /\ Comeca(pc, e, conta[e].id, Nulo, cargo).email = e
    BY <2>1 DEF Comeca, Iniciado
  <2> QED BY <2>2 DEF c
<1>5. r \in Iniciado /\ r.pc = pc /\ r.email = e /\ r.ativa = ativa
  BY <1>3, <1>4 DEF Iniciado, r
<1>6. pc \notin PcsCargo /\ pc \notin PcsAtivar
  BY <1>3 DEF PcsCargo, PcsAtivar
<1>7. Dono(p, r)
  BY <1>1, <1>5, <1>6 DEF Dono, Ativador, EditaAtiva, Ativadores
<1>8. Passou(r) => r.email \in Ativas
  BY <1>1, <1>3, <1>5 DEF Passou, EditaAtiva, Ativas
<1> QED BY <1>1, <1>5, <1>7, <1>8, ComecaNormal

LEMMA NormalRemoverLer ==
    ASSUME ContasAssumption, TypeInv, NEW p \in Pedidos, NEW e \in Emails, RemoverLer(p, e)
    PROVE  Normal(p)
<1> DEFINE c == Comeca("remover.gestor", e, conta[e].id, Nulo, Nulo)
           tira == TiraGestor(e, Nulo, FALSE)
           r == [c EXCEPT !.tira = tira]
<1>1. conta[e].id \in Nat \cup {Nulo}
  BY IdsTipo DEF RemoverLer, TypeInv
<1>7. tira \in BOOLEAN
  BY DEF TiraGestor
<1>2. "remover.gestor" \in Pcs /\ "remover.gestor" \notin PcsCargo \cup PcsAtivar \cup PcsUpdate
      /\ "remover.gestor" \notin {"reativar.convite", "reativar.conta", "aceitar.gravar", "provisionar.conta"}
  BY DEF Pcs, PcsCargo, PcsAtivar, PcsUpdate
<1> HIDE DEF tira
<1>3. c \in Iniciado /\ c.pc = "remover.gestor"
  BY <1>1 DEF Comeca, Iniciado, Pcs
<1> HIDE DEF c
<1>4. r \in Iniciado /\ r.pc = "remover.gestor"
  BY <1>7, <1>3 DEF Iniciado
<1>5. Segue(p, r) /\ SemMudar
  BY DEF RemoverLer, c, tira
<1> HIDE DEF r
<1>6. Dono(p, r) /\ ~Passou(r)
  BY <1>2, <1>4 DEF Dono, Ativador, Passou, PcsUpdate
<1> QED BY <1>4, <1>5, <1>6, ComecaNormal

(* The count of the managers, and the account that is read.                *)
LEMMA NormalLeituras ==
    ASSUME ContasAssumption, TypeInv, NEW p \in Pedidos,
           UpdateGestor(p) \/ RemoverGestor(p) \/ AceitarConta(p)
    PROVE  Normal(p)
<1> DEFINE q == pedido[p]
<1>1. CASE Termina(p)
  BY <1>1, TerminaNormal DEF UpdateGestor, RemoverGestor, AceitarConta
<1>2. ASSUME UpdateGestor(p), Passa(p, "update.gravar") PROVE Normal(p)
  <2> DEFINE r == [q EXCEPT !.pc = "update.gravar"]
  <2>1. /\ q.pc = "update.gestor" /\ SemMudar /\ q.pc \in Pcs /\ "update.gravar" \in Pcs
        /\ "update.gravar" \notin PcsCargo /\ "update.gravar" \notin PcsAtivar /\ q.pc \in PcsUpdate
    BY <1>2 DEF UpdateGestor, Pcs, PcsCargo, PcsAtivar, PcsUpdate
  <2>2. r \in Iniciado /\ r.pc = "update.gravar" /\ r.email = q.email /\ r.ativa = q.ativa
    BY <2>1, PassaLinha
  <2>3. Dono(p, r)
    BY <2>1, PassaDono
  <2>4. Segue(p, r)
    BY <1>2 DEF Passa
  <2> HIDE DEF r
  <2>5. Passou(r) => Passou(q)
    BY <2>1, <2>2 DEF Passou, EditaAtiva
  <2> QED BY <2>1, <2>2, <2>3, <2>4, <2>5, ComecaNormal
<1>3. ASSUME RemoverGestor(p), Passa(p, "remover.conta") PROVE Normal(p)
  <2> DEFINE r == [q EXCEPT !.pc = "remover.conta"]
  <2>1. /\ SemMudar /\ q.pc \in Pcs /\ "remover.conta" \in Pcs
        /\ "remover.conta" \notin PcsCargo /\ "remover.conta" \notin PcsAtivar /\ "remover.conta" \notin PcsUpdate
    BY <1>3 DEF RemoverGestor, Pcs, PcsCargo, PcsAtivar, PcsUpdate
  <2>2. r \in Iniciado /\ r.pc = "remover.conta"
    BY <2>1, PassaLinha
  <2>3. Dono(p, r)
    BY <2>1, PassaDono
  <2>4. Segue(p, r)
    BY <1>3 DEF Passa
  <2> HIDE DEF r
  <2>5. ~Passou(r)
    BY <2>2 DEF Passou
  <2> QED BY <2>1, <2>2, <2>3, <2>4, <2>5, ComecaNormal
<1>4. ASSUME AceitarConta(p), Segue(p, [q EXCEPT !.pc = "aceitar.limite", !.id = IdDe(q.email)])
      PROVE  Normal(p)
  <2> DEFINE r == [q EXCEPT !.pc = "aceitar.limite", !.id = IdDe(q.email)]
  <2>1. q.pc \in Pcs /\ q.pc \in PcsCargo /\ q.pc \in PcsAtivar /\ SemMudar /\ "aceitar.limite" \in Pcs
    BY <1>4 DEF AceitarConta, Pcs, PcsCargo, PcsAtivar
  <2>2. q \in Iniciado /\ Dono(p, q)
    BY <2>1, PedidoTipo
  <2>3. IdDe(q.email) \in Nat \cup {Nulo}
    BY <2>2, IdsTipo DEF Iniciado, TypeInv
  <2>4. r \in Iniciado /\ r.pc = "aceitar.limite" /\ r.cargo = q.cargo
    BY <2>1, <2>2, <2>3 DEF Iniciado
  <2>5. Segue(p, r)
    BY <1>4
  <2> HIDE DEF r
  <2>6. Dono(p, r) /\ ~Passou(r)
    BY <2>1, <2>2, <2>4 DEF Dono, Ativador, Passou
  <2> QED BY <2>1, <2>4, <2>5, <2>6, ComecaNormal
<1> QED BY <1>1, <1>2, <1>3, <1>4 DEF UpdateGestor, RemoverGestor, AceitarConta

-----------------------------------------------------------------------------
(* The steps that write *)

LEMMA ContaNormal ==
    ASSUME TypeInv, NEW p \in Pedidos, NEW e \in Emails, NEW row \in ContaRow \cup {Nulo}, GravaConta(e, row),
           Fixo, convite' \in [Emails -> ConviteRow \cup {Nulo}], proximoId' \in Nat,
           NEW r \in PedidoRow, Segue(p, r), Dono(p, r), ~Passou(r),
           \/ row # Nulo => ~row.ativa \/ e \in Ativas
           \/ Passou(pedido[p]) /\ e = pedido[p].email
    PROVE  Normal(p)
<1>1. /\ conta' \in [Emails -> ContaRow \cup {Nulo}] /\ tokens' \subseteq Nat
      /\ Ativas' \subseteq Ativas \cup {e}
      /\ (row # Nulo => ~row.ativa \/ e \in Ativas) => Ativas' \subseteq Ativas
  BY GravaTipo DEF TypeInv
<1>2. Passo(p, r)
  BY <1>1 DEF Passo
<1> QED BY <1>1, <1>2 DEF Normal, Resto, Fixo, TypeInv, TypeOK

LEMMA MantemNormal ==
    ASSUME TypeInv, NEW p \in Pedidos, MantemContas, Fixo, convite' \in [Emails -> ConviteRow \cup {Nulo}],
           proximoId' \in Nat, NEW r \in PedidoRow, Segue(p, r), Dono(p, r),
           Passou(r) => r.email \in Emails /\ Passou(pedido[p]) /\ r.email = pedido[p].email
    PROVE  Normal(p)
<1>1. Ativas' = Ativas
  BY ContasFicam
<1>2. Passo(p, r)
  BY <1>1 DEF Passo
<1> QED BY <1>2 DEF Normal, Resto, Fixo, MantemContas, TypeInv, TypeOK

(* Where a request that has written goes on.                               *)
PcsFim == {"livre", "convidar.conta", "perfil", "remover.fim", "formador.perfil", "formador.fim"}

LEMMA FimDono ==
    ASSUME NEW p, NEW r, r.pc \in PcsFim PROVE Dono(p, r) /\ ~Passou(r)
BY DEF Dono, Passou, Ativador, PcsFim, PcsCargo, PcsAtivar, PcsUpdate

LEMMA TerminaFim == ASSUME NEW p, Termina(p) PROVE Segue(p, Livre) /\ Livre \in PedidoRow /\ Livre.pc \in PcsFim
BY LivreTipo DEF Termina, PcsFim

LEMMA PassaFim ==
    ASSUME TypeInv, NEW p \in Pedidos, pedido[p].pc \in Pcs, NEW pc \in PcsFim \ {"livre"}, Passa(p, pc)
    PROVE  \E r \in PedidoRow : Segue(p, r) /\ r.pc \in PcsFim
<1> DEFINE r == [pedido[p] EXCEPT !.pc = pc]
<1>1. pc \in Pcs
  BY DEF PcsFim, Pcs
<1>2. r \in PedidoRow /\ r.pc \in PcsFim
  BY <1>1, PassaLinha, IniciadoCabe
<1> QED BY <1>2 DEF Passa

LEMMA ConviteTipo ==
    ASSUME TypeInv, NEW e \in Emails, NEW row \in ConviteRow \cup {Nulo}, convite' = [convite EXCEPT ![e] = row]
    PROVE  convite' \in [Emails -> ConviteRow \cup {Nulo}]
BY DEF TypeInv, TypeOK

LEMMA NovoIdTipo == ASSUME TypeInv, NovoId \/ UNCHANGED proximoId PROVE proximoId' \in Nat
BY DEF TypeInv, TypeOK, NovoId

LEMMA NormalConvidarConvite ==
    ASSUME ContasAssumption, TypeInv, NEW p \in Pedidos, ConvidarConvite(p) PROVE Normal(p)
<1> DEFINE q == pedido[p]
           c == convite[q.email]
<1>1. q.pc \in Pcs /\ q.pc \in PcsCargo
  BY DEF ConvidarConvite, Pcs, PcsCargo
<1>2. q.email \in Emails /\ q.cargo \in Cargos
  BY <1>1, PedidoTipo DEF Iniciado, Dono
<1>3. \E row \in ConviteRow : convite' = [convite EXCEPT ![q.email] = row]
  <2>1. CASE c = Nulo
    <3>1. [id |-> proximoId, cargo |-> q.cargo, aceite |-> FALSE] \in ConviteRow
      BY <1>2 DEF ConviteRow, TypeInv, TypeOK
    <3> QED BY <2>1, <3>1 DEF ConvidarConvite, GravaConvite
  <2>2. CASE c # Nulo
    <3>1. c \in ConviteRow
      BY <1>2, <2>2 DEF TypeInv, TypeOK
    <3>2. [c EXCEPT !.cargo = q.cargo, !.aceite = FALSE] \in ConviteRow
      BY <1>2, <3>1 DEF ConviteRow
    <3> QED BY <2>2, <3>2 DEF ConvidarConvite, GravaConvite
  <2> QED BY <2>1, <2>2
<1>4. convite' \in [Emails -> ConviteRow \cup {Nulo}]
  BY <1>2, <1>3, ConviteTipo
<1>5. PICK r \in PedidoRow : Segue(p, r) /\ r.pc \in PcsFim
  BY <1>1, TerminaFim, PassaFim DEF ConvidarConvite, PcsFim
<1>6. proximoId' \in Nat /\ Fixo /\ MantemContas
  BY NovoIdTipo DEF ConvidarConvite
<1> QED BY <1>4, <1>5, <1>6, FimDono, MantemNormal

(* The invitation of an e-mail goes, or stays.                             *)
LEMMA ApagaTipo ==
    ASSUME TypeInv, NEW e \in Emails, NEW B \in BOOLEAN,
           convite' = IF B THEN [convite EXCEPT ![e] = Nulo] ELSE convite
    PROVE  convite' \in [Emails -> ConviteRow \cup {Nulo}]
BY DEF TypeInv, TypeOK

LEMMA NormalApaga ==
    ASSUME ContasAssumption, TypeInv, NEW p \in Pedidos, CancelarGravar(p) \/ RemoverFim(p)
    PROVE  Normal(p)
<1>1. pedido[p].pc \in Pcs
  BY DEF CancelarGravar, RemoverFim, Pcs
<1>2. pedido[p].email \in Emails
  BY <1>1, PedidoTipo DEF Iniciado
<1>3. convite' \in [Emails -> ConviteRow \cup {Nulo}]
  <2>1. MesmoConvite(pedido[p].email, pedido[p].convite) \in BOOLEAN
    BY DEF MesmoConvite
  <2> QED BY <1>2, <2>1, ApagaTipo DEF CancelarGravar, RemoverFim
<1>4. Termina(p) /\ Fixo /\ MantemContas /\ proximoId' \in Nat
  BY DEF CancelarGravar, RemoverFim, TypeInv, TypeOK
<1>5. Segue(p, Livre) /\ Livre \in PedidoRow /\ Dono(p, Livre) /\ ~Passou(Livre)
  BY <1>4, TerminaFim, FimDono
<1> QED BY <1>3, <1>4, <1>5, MantemNormal

(* Pending invitations go before an account is activated.                  *)
LEMMA NormalLimpa ==
    ASSUME ContasAssumption, TypeInv, NEW p \in Pedidos, ReativarConvite(p) \/ ProvisionarConvite(p)
    PROVE  Normal(p)
<1> DEFINE q == pedido[p]
<1>1. PICK de \in {"reativar.convite", "provisionar.convite"}, para \in {"reativar.conta", "provisionar.limite"} :
         q.pc = de /\ Passa(p, para) /\ (para = "reativar.conta" => de = "reativar.convite")
  BY DEF ReativarConvite, ProvisionarConvite
<1>2. q.pc \in Pcs /\ q.pc \in PcsAtivar /\ para \in Pcs /\ para \notin PcsUpdate
      /\ (para \in PcsCargo => q.pc \in PcsCargo)
  BY <1>1 DEF Pcs, PcsCargo, PcsAtivar, PcsUpdate
<1> DEFINE r == [q EXCEPT !.pc = para]
<1>3. r \in Iniciado /\ r.pc = para /\ r.email = q.email
  BY <1>2, PassaLinha
<1>4. Dono(p, r)
  BY <1>2, PassaDono
<1>5. Segue(p, r)
  BY <1>1 DEF Passa
<1> HIDE DEF r
<1>6. Passou(r) => Passou(q)
  BY <1>1, <1>3 DEF Passou
<1>7. convite' \in [Emails -> ConviteRow \cup {Nulo}]
  <2>1. Pendente(q.email) \in BOOLEAN /\ q.email \in Emails
    BY <1>2, PedidoTipo DEF Pendente, Iniciado
  <2> QED BY <2>1, ApagaTipo DEF ReativarConvite, ProvisionarConvite
<1>8. Fixo /\ MantemContas /\ proximoId' \in Nat /\ r \in PedidoRow /\ r.email \in Emails
  BY <1>3, IniciadoCabe DEF ReativarConvite, ProvisionarConvite, TypeInv, TypeOK, Iniciado
<1> QED BY <1>3, <1>4, <1>5, <1>6, <1>7, <1>8, MantemNormal

(* The row of an account with other values.                                *)
LEMMA ContaEditada ==
    ASSUME TypeInv, NEW e \in Emails, Existe(e), NEW c \in Cargos, NEW B \in BOOLEAN
    PROVE  /\ [conta[e] EXCEPT !.ativa = B] \in ContaRow /\ [conta[e] EXCEPT !.ativa = B].ativa = B
           /\ [conta[e] EXCEPT !.ativa = B, !.cargo = c] \in ContaRow
           /\ [conta[e] EXCEPT !.ativa = B, !.cargo = c].ativa = B
           /\ [conta[e] EXCEPT !.perfil = B] \in ContaRow
           /\ [conta[e] EXCEPT !.perfil = B].ativa = conta[e].ativa
           /\ [conta[e] EXCEPT !.ativa = TRUE, !.cargo = c, !.perfil = @ \/ B] \in ContaRow
<1>1. conta[e] \in ContaRow
  BY DEF TypeInv, TypeOK, Existe
<1> QED BY <1>1 DEF ContaRow

LEMMA AtivaEm == ASSUME NEW e \in Emails, Existe(e), conta[e].ativa PROVE e \in Ativas
BY DEF Ativas

LEMMA NormalConvidarConta ==
    ASSUME ContasAssumption, TypeInv, NEW p \in Pedidos, ConvidarConta(p) PROVE Normal(p)
<1> DEFINE q == pedido[p]
           e == q.email
           nova == [id |-> proximoId, ativa |-> FALSE, cargo |-> "FORMADOR", perfil |-> FALSE]
           edit == [conta[e] EXCEPT !.ativa = FALSE, !.cargo = "FORMADOR"]
           s == [q EXCEPT !.pc = "perfil", !.id = proximoId]
<1>1. q.pc \in Pcs /\ Fixo /\ convite' \in [Emails -> ConviteRow \cup {Nulo}] /\ proximoId' \in Nat
  BY NovoIdTipo DEF ConvidarConta, Pcs, TypeInv, TypeOK
<1>2. q \in Iniciado /\ e \in Emails
  BY <1>1, PedidoTipo DEF Iniciado
<1>3. ASSUME NovoId, Segue(p, s), GravaConta(e, nova) PROVE Normal(p)
  <2>1. nova \in ContaRow /\ ~nova.ativa
    BY DEF ContaRow, TypeInv, TypeOK, ContasAssumption
  <2>2. s \in PedidoRow /\ s.pc \in PcsFim
    BY <1>2, IniciadoCabe DEF Iniciado, PcsFim, Pcs, TypeInv, TypeOK
  <2> HIDE DEF nova, s, e
  <2> QED BY <1>1, <1>2, <1>3, <2>1, <2>2, FimDono, ContaNormal
<1>4. ASSUME MesmaConta(e, q.id), GravaConta(e, edit), Passa(p, "perfil") PROVE Normal(p)
  <2>1. edit \in ContaRow /\ ~edit.ativa
    BY <1>2, <1>4, ContaEditada DEF MesmaConta, ContasAssumption
  <2>2. PICK r \in PedidoRow : Segue(p, r) /\ r.pc \in PcsFim
    BY <1>1, <1>4, PassaFim DEF PcsFim
  <2> HIDE DEF edit, e
  <2> QED BY <1>1, <1>2, <1>4, <2>1, <2>2, FimDono, ContaNormal
<1>5. ASSUME Termina(p), MantemContas PROVE Normal(p)
  BY <1>1, <1>5, TerminaFim, FimDono, MantemNormal
<1> QED BY <1>3, <1>4, <1>5 DEF ConvidarConta

LEMMA NormalPerfil ==
    ASSUME ContasAssumption, TypeInv, NEW p \in Pedidos, PerfilGravar(p) \/ FormadorPerfil(p) PROVE Normal(p)
<1> DEFINE q == pedido[p]
           e == q.email
<1>1. q.pc \in Pcs /\ Fixo /\ convite' \in [Emails -> ConviteRow \cup {Nulo}] /\ proximoId' \in Nat
  BY DEF PerfilGravar, FormadorPerfil, Pcs, TypeInv, TypeOK
<1>2. e \in Emails
  BY <1>1, PedidoTipo DEF Iniciado
<1>3. PICK r \in PedidoRow : Segue(p, r) /\ r.pc \in PcsFim
  BY <1>1, TerminaFim, PassaFim DEF PerfilGravar, FormadorPerfil, PcsFim
<1>4. ASSUME NEW B \in BOOLEAN, MesmaConta(e, q.id), GravaConta(e, [conta[e] EXCEPT !.perfil = B])
      PROVE  Normal(p)
  <2> DEFINE edit == [conta[e] EXCEPT !.perfil = B]
  <2> HIDE DEF e
  <2>1. edit \in ContaRow /\ (edit.ativa => e \in Ativas)
    <3>1. Existe(e) /\ \E c \in Cargos : TRUE
      BY <1>4 DEF MesmaConta, ContasAssumption
    <3>2. edit \in ContaRow /\ edit.ativa = conta[e].ativa
      BY <1>2, <3>1, ContaEditada
    <3> QED BY <1>2, <3>1, <3>2, AtivaEm
  <2>2. GravaConta(e, edit)
    BY <1>4
  <2> HIDE DEF edit
  <2> QED BY <1>1, <1>2, <1>3, <2>1, <2>2, FimDono, ContaNormal
<1>5. CASE MantemContas
  BY <1>1, <1>3, <1>5, FimDono, MantemNormal
<1> QED BY <1>4, <1>5 DEF PerfilGravar, FormadorPerfil

LEMMA NormalReativarConta ==
    ASSUME ContasAssumption, TypeInv, NEW p \in Pedidos, ReativarConta(p) PROVE Normal(p)
<1> DEFINE q == pedido[p]
           e == q.email
           edit == [conta[e] EXCEPT !.ativa = TRUE, !.cargo = q.cargo]
<1>1. /\ q.pc \in Pcs /\ q.pc \in PcsCargo /\ Passou(q)
      /\ Fixo /\ convite' \in [Emails -> ConviteRow \cup {Nulo}] /\ proximoId' \in Nat /\ Termina(p)
  BY DEF ReativarConta, Pcs, PcsCargo, Passou, TypeInv, TypeOK
<1>2. e \in Emails /\ q.cargo \in Cargos
  BY <1>1, PedidoTipo DEF Iniciado, Dono
<1>3. Segue(p, Livre) /\ Livre \in PedidoRow /\ Dono(p, Livre) /\ ~Passou(Livre)
  BY <1>1, TerminaFim, FimDono
<1>4. ASSUME MesmaConta(e, q.id), GravaConta(e, edit) PROVE Normal(p)
  <2>1. edit \in ContaRow
    BY <1>2, <1>4, ContaEditada DEF MesmaConta
  <2> HIDE DEF edit
  <2> QED BY <1>1, <1>2, <1>3, <1>4, <2>1, ContaNormal
<1>5. CASE MantemContas
  BY <1>1, <1>3, <1>5, MantemNormal
<1> QED BY <1>4, <1>5 DEF ReativarConta

LEMMA NormalAceitarGravar ==
    ASSUME ContasAssumption, TypeInv, NEW p \in Pedidos, AceitarGravar(p) PROVE Normal(p)
<1> DEFINE q == pedido[p]
           e == q.email
           nova == [id |-> proximoId, ativa |-> TRUE, cargo |-> q.cargo, perfil |-> q.cargo = "FORMADOR"]
           edit == [conta[e] EXCEPT !.ativa = TRUE, !.cargo = q.cargo, !.perfil = @ \/ q.cargo = "FORMADOR"]
<1>1. /\ q.pc \in Pcs /\ q.pc \in PcsCargo /\ Passou(q)
      /\ Fixo /\ proximoId' \in Nat /\ Termina(p)
  BY NovoIdTipo DEF AceitarGravar, Pcs, PcsCargo, Passou
<1>2. e \in Emails /\ q.cargo \in Cargos
  BY <1>1, PedidoTipo DEF Iniciado, Dono
<1>3. Segue(p, Livre) /\ Livre \in PedidoRow /\ Dono(p, Livre) /\ ~Passou(Livre)
  BY <1>1, TerminaFim, FimDono
<1>4. ASSUME MesmoConvite(e, q.convite), GravaConvite(e, [convite[e] EXCEPT !.aceite = TRUE])
      PROVE  convite' \in [Emails -> ConviteRow \cup {Nulo}]
  <2>1. convite[e] \in ConviteRow
    BY <1>2, <1>4 DEF MesmoConvite, TypeInv, TypeOK
  <2>2. [convite[e] EXCEPT !.aceite = TRUE] \in ConviteRow
    BY <2>1 DEF ConviteRow
  <2> QED BY <1>2, <1>4, <2>2, ConviteTipo DEF GravaConvite
<1>5. ASSUME convite' \in [Emails -> ConviteRow \cup {Nulo}], GravaConta(e, nova) PROVE Normal(p)
  <2>1. nova \in ContaRow
    BY <1>2 DEF ContaRow, TypeInv, TypeOK
  <2> HIDE DEF nova
  <2> QED BY <1>1, <1>2, <1>3, <1>5, <2>1, ContaNormal
<1>6. ASSUME convite' \in [Emails -> ConviteRow \cup {Nulo}], MesmaConta(e, q.id), GravaConta(e, edit)
      PROVE  Normal(p)
  <2>1. edit \in ContaRow
    <3>1. (q.cargo = "FORMADOR") \in BOOLEAN
      OBVIOUS
    <3> QED BY <1>2, <1>6, <3>1, ContaEditada DEF MesmaConta
  <2> HIDE DEF edit
  <2> QED BY <1>1, <1>2, <1>3, <1>6, <2>1, ContaNormal
<1>7. CASE MantemContas /\ UNCHANGED convite
  BY <1>1, <1>3, <1>7, MantemNormal DEF TypeInv, TypeOK
<1> QED BY <1>4, <1>5, <1>6, <1>7 DEF AceitarGravar

LEMMA NormalUpdateGravar ==
    ASSUME ContasAssumption, TypeInv, NEW p \in Pedidos, UpdateGravar(p) PROVE Normal(p)
<1> DEFINE q == pedido[p]
           e == q.email
           nova == Editada(q)
<1>1. /\ q.pc \in Pcs /\ q.pc = "update.gravar"
      /\ Fixo /\ proximoId' \in Nat /\ convite' \in [Emails -> ConviteRow \cup {Nulo}]
  BY DEF UpdateGravar, Pcs, TypeInv, TypeOK
<1>2. q \in Iniciado /\ e \in Emails
  BY <1>1, PedidoTipo DEF Iniciado
<1>3. PICK r \in PedidoRow : Segue(p, r) /\ r.pc \in PcsFim
  BY <1>1, TerminaFim, PassaFim DEF UpdateGravar, PcsFim
<1>4. ASSUME MesmaConta(e, q.id), GravaConta(e, nova) PROVE Normal(p)
  <2> DEFINE cargo == IF q.cargo = Nulo THEN conta[e].cargo ELSE q.cargo
             ativa == IF q.ativa = Nulo THEN conta[e].ativa ELSE q.ativa
  <2>1. conta[e] \in ContaRow /\ Existe(e)
    BY <1>2, <1>4, IdsTipo DEF MesmaConta, TypeInv
  <2>2. cargo \in Cargos /\ ativa \in BOOLEAN
    BY <1>2, <2>1 DEF Iniciado, ContaRow
  <2>3. nova = [conta[e] EXCEPT !.cargo = cargo, !.ativa = ativa]
    BY <2>1 DEF Editada, ContaRow
  <2>4. nova \in ContaRow /\ nova.ativa = ativa
    <3> HIDE DEF nova, cargo, ativa
    <3> QED BY <2>1, <2>2, <2>3 DEF ContaRow
  <2>5. ativa => e \in Ativas \/ Passou(q)
    BY <1>1, <1>2, <2>1, AtivaEm DEF Passou, EditaAtiva, Iniciado
  <2>6. (nova # Nulo => ~nova.ativa \/ e \in Ativas) \/ (Passou(q) /\ e = q.email)
    <3> HIDE DEF nova, ativa
    <3> QED BY <2>2, <2>4, <2>5
  <2>7. Dono(p, r) /\ ~Passou(r)
    BY <1>3, FimDono
  <2> HIDE DEF nova
  <2> QED BY <1>1, <1>2, <1>3, <1>4, <2>4, <2>6, <2>7, ContaNormal
<1>5. CASE MantemContas
  BY <1>1, <1>3, <1>5, FimDono, MantemNormal
<1> QED BY <1>4, <1>5 DEF UpdateGravar

LEMMA NormalRemoverConta ==
    ASSUME ContasAssumption, TypeInv, NEW p \in Pedidos, RemoverConta(p) PROVE Normal(p)
<1> DEFINE q == pedido[p]
           e == q.email
           s == [q EXCEPT !.pc = "remover.fim", !.convite = IdConvite(e)]
<1>1. q.pc \in Pcs /\ Fixo /\ proximoId' \in Nat /\ convite' \in [Emails -> ConviteRow \cup {Nulo}]
  BY DEF RemoverConta, Pcs, TypeInv, TypeOK
<1>2. q \in Iniciado /\ e \in Emails
  BY <1>1, PedidoTipo DEF Iniciado
<1>3. ASSUME GravaConta(e, Nulo), Segue(p, s) PROVE Normal(p)
  <2>1. IdConvite(e) \in Nat \cup {Nulo}
    BY <1>2, IdsTipo DEF TypeInv
  <2>2. s \in PedidoRow /\ s.pc \in PcsFim
    BY <1>2, <2>1, IniciadoCabe DEF Iniciado, PcsFim, Pcs
  <2> HIDE DEF s, e
  <2> QED BY <1>1, <1>2, <1>3, <2>2, FimDono, ContaNormal
<1>4. ASSUME Termina(p), MantemContas PROVE Normal(p)
  BY <1>1, <1>4, TerminaFim, FimDono, MantemNormal
<1> QED BY <1>3, <1>4 DEF RemoverConta

LEMMA NormalProvisionarConta ==
    ASSUME ContasAssumption, TypeInv, NEW p \in Pedidos, ProvisionarConta(p) PROVE Normal(p)
<1> DEFINE q == pedido[p]
           e == q.email
           nova == [id |-> proximoId, ativa |-> TRUE, cargo |-> "FORMADOR", perfil |-> FALSE]
           edit == [conta[e] EXCEPT !.ativa = TRUE, !.cargo = "FORMADOR"]
           s == [q EXCEPT !.pc = "perfil", !.id = proximoId]
<1>1. /\ q.pc \in Pcs /\ Passou(q)
      /\ Fixo /\ convite' \in [Emails -> ConviteRow \cup {Nulo}] /\ proximoId' \in Nat
  BY NovoIdTipo DEF ProvisionarConta, Pcs, Passou, TypeInv, TypeOK
<1>2. q \in Iniciado /\ e \in Emails
  BY <1>1, PedidoTipo DEF Iniciado
<1>3. ASSUME Segue(p, s), GravaConta(e, nova) PROVE Normal(p)
  <2>1. nova \in ContaRow
    BY DEF ContaRow, TypeInv, TypeOK, ContasAssumption
  <2>2. s \in PedidoRow /\ s.pc \in PcsFim
    BY <1>2, IniciadoCabe DEF Iniciado, PcsFim, Pcs, TypeInv, TypeOK
  <2>3. Dono(p, s) /\ ~Passou(s) /\ e = q.email
    BY <2>2, FimDono
  <2> HIDE DEF nova, s, e
  <2> QED BY <1>1, <1>2, <1>3, <2>1, <2>2, <2>3, ContaNormal
<1>4. ASSUME MesmaConta(e, q.id), GravaConta(e, edit), Passa(p, "perfil") PROVE Normal(p)
  <2>1. edit \in ContaRow
    BY <1>2, <1>4, ContaEditada DEF MesmaConta, ContasAssumption
  <2>2. PICK r \in PedidoRow : Segue(p, r) /\ r.pc \in PcsFim
    BY <1>1, <1>4, PassaFim DEF PcsFim
  <2>3. Dono(p, r) /\ ~Passou(r) /\ e = q.email
    BY <2>2, FimDono
  <2> HIDE DEF edit, e
  <2> QED BY <1>1, <1>2, <1>4, <2>1, <2>2, <2>3, ContaNormal
<1>5. ASSUME Termina(p), MantemContas PROVE Normal(p)
  BY <1>1, <1>5, TerminaFim, FimDono, MantemNormal
<1> QED BY <1>3, <1>4, <1>5 DEF ProvisionarConta

LEMMA NormalFormadorConta ==
    ASSUME ContasAssumption, TypeInv, NEW p \in Pedidos, FormadorConta(p) PROVE Normal(p)
<1> DEFINE q == pedido[p]
           e == q.email
           edit == [conta[e] EXCEPT !.ativa = FALSE]
           conv == IF Pendente(e) /\ convite[e].cargo = "FORMADOR" THEN IdConvite(e) ELSE Nulo
           s == [q EXCEPT !.pc = "formador.perfil", !.convite = conv]
<1>1. q.pc \in Pcs /\ Fixo /\ proximoId' \in Nat /\ convite' \in [Emails -> ConviteRow \cup {Nulo}]
  BY DEF FormadorConta, Pcs, TypeInv, TypeOK
<1>2. q \in Iniciado /\ e \in Emails
  BY <1>1, PedidoTipo DEF Iniciado
<1>3. ASSUME MesmaConta(e, q.id), GravaConta(e, edit), Segue(p, s) PROVE Normal(p)
  <2>1. conv \in Nat \cup {Nulo}
    BY <1>2, IdsTipo DEF TypeInv
  <2>2. s \in PedidoRow /\ s.pc \in PcsFim
    <3> HIDE DEF conv
    <3> QED BY <1>2, <2>1, IniciadoCabe DEF Iniciado, PcsFim, Pcs
  <2>3. edit \in ContaRow /\ ~edit.ativa
    BY <1>2, <1>3, ContaEditada DEF MesmaConta, ContasAssumption
  <2>4. Segue(p, s) /\ GravaConta(e, edit)
    BY <1>3
  <2> HIDE DEF s, e, edit
  <2> QED BY <1>1, <1>2, <2>2, <2>3, <2>4, FimDono, ContaNormal
<1>4. ASSUME Termina(p), MantemContas PROVE Normal(p)
  BY <1>1, <1>4, TerminaFim, FimDono, MantemNormal
<1> QED BY <1>3, <1>4 DEF FormadorConta

LEMMA NormalAnonimizar ==
    ASSUME ContasAssumption, TypeInv, NEW p \in Pedidos, AnonimizarGravar(p) PROVE Normal(p)
<1>1. /\ pedido[p].pc \in Pcs /\ Termina(p)
      /\ Fixo /\ proximoId' \in Nat /\ convite' \in [Emails -> ConviteRow \cup {Nulo}]
  BY DEF AnonimizarGravar, Pcs, TypeInv, TypeOK
<1>2. pedido[p].email \in Emails
  BY <1>1, PedidoTipo DEF Iniciado
<1>3. Segue(p, Livre) /\ Livre \in PedidoRow /\ Dono(p, Livre) /\ ~Passou(Livre)
  BY <1>1, TerminaFim, FimDono
<1>4. CASE GravaConta(pedido[p].email, Nulo)
  BY <1>1, <1>2, <1>3, <1>4, ContaNormal
<1>5. CASE MantemContas
  BY <1>1, <1>3, <1>5, MantemNormal
<1> QED BY <1>4, <1>5 DEF AnonimizarGravar

LEMMA NormalInterromper ==
    ASSUME ContasAssumption, TypeInv, NEW p \in Pedidos, Interromper(p) PROVE Normal(p)
<1>1. Termina(p) /\ MantemContas
  BY DEF Interromper, MantemContas
<1>2. \E r \in PedidoRow : Passo(p, r)
  BY <1>1, ContasFicam, TerminaPasso
<1> QED BY <1>2 DEF Interromper, Normal, Resto, TypeInv, TypeOK

-----------------------------------------------------------------------------
(* Types, and the limit *)

LEMMA CasosNext ==
    ASSUME ContasAssumption, TypeInv, [Next]_vars
    PROVE  \/ \E p \in Pedidos : Normal(p)
           \/ \E n \in Limites : MudarPlano(n)
           \/ UNCHANGED vars
<1>1. ASSUME NEW p \in Pedidos, Convites(p) PROVE Normal(p)
  BY <1>1, NormalConvidarConvite, NormalConvidarConta, NormalPerfil, NormalLimpa, NormalReativarConta,
     NormalApaga, NormalLeituras, NormalAceitarGravar, NormalProvisionarConta, NormalLer DEF Convites
<1>2. ASSUME NEW p \in Pedidos, Edicao(p) PROVE Normal(p)
  BY <1>2, NormalLeituras, NormalUpdateGravar, NormalUpdateLer DEF Edicao
<1>3. ASSUME NEW p \in Pedidos, Remocao(p) PROVE Normal(p)
  BY <1>3, NormalLeituras, NormalRemoverConta, NormalApaga, NormalFormadorConta, NormalPerfil,
     NormalAnonimizar, NormalRemoverLer, NormalLer DEF Remocao
<1> QED BY <1>1, <1>2, <1>3, NormalLimite, NormalInterromper DEF Next

LEMMA TypeInit == ASSUME ContasAssumption, Init PROVE TypeInv
<1>1. PICK a \in Emails :
         conta = [e \in Emails |-> IF e = a THEN [id |-> 0, ativa |-> TRUE, cargo |-> "ADMIN", perfil |-> FALSE]
                                   ELSE Nulo]
  BY DEF Init
<1>2. [id |-> 0, ativa |-> TRUE, cargo |-> "ADMIN", perfil |-> FALSE] \in ContaRow
  BY DEF ContaRow, ContasAssumption
<1>3. conta \in [Emails -> ContaRow \cup {Nulo}]
  BY <1>1, <1>2
<1>4. TypeOK /\ limite \in limites
  BY <1>3, LivreTipo DEF Init, TypeOK
<1> QED BY <1>4, LivreTipo DEF Init, TypeInv

LEMMA TypeNext == ASSUME ContasAssumption, TypeInv, [Next]_vars PROVE TypeInv'
<1>1. ASSUME NEW n \in Limites, MudarPlano(n) PROVE TypeInv'
  BY <1>1 DEF MudarPlano, TypeInv, TypeOK, Dono, Ativador, EditaAtiva
<1>2. CASE UNCHANGED vars
  BY <1>2 DEF vars, plano, TypeInv, TypeOK, Dono, Ativador, EditaAtiva
<1> QED BY <1>1, <1>2, CasosNext, TypeNormal

(* The variables of Contas keep their types, for every number of accounts, *)
(* requests and plans.                                                     *)
THEOREM TypeCorrect == ASSUME ContasAssumption PROVE Spec => []TypeOK
<1>1. TypeInv => TypeOK
  BY DEF TypeInv
<1> QED BY <1>1, TypeInit, TypeNext, PTL DEF Spec

(* One request at a time activates accounts.                               *)
UmAtivador ==
    \A p, q \in Pedidos :
        p # q => Operacoes[p] \cap Ativadores = {} \/ Operacoes[q] \cap Ativadores = {}

(* Who is past the check of the limit still has room.                      *)
LimiteInv == Cabe(Ativas) /\ \A p \in Pedidos : Passou(pedido[p]) => Cabe(Ativas \cup {pedido[p].email})

LEMMA PassouEmail == ASSUME TypeInv, NEW p \in Pedidos, Passou(pedido[p]) PROVE pedido[p].email \in Emails /\ Ativador(pedido[p])
<1>1. pedido[p].pc \in Pcs
  BY DEF Passou, Pcs
<1> QED BY <1>1, PedidoTipo DEF Passou, Ativador, PcsAtivar, PcsUpdate, Iniciado

LEMMA LimiteNormal ==
    ASSUME ContasAssumption, UmAtivador, TypeInv, LimiteInv, NEW p \in Pedidos, Normal(p) PROVE LimiteInv'
<1>1. PICK r \in PedidoRow : Passo(p, r)
  BY DEF Normal
<1>2. limites' = limites /\ limites \subseteq Limites /\ Ativas \subseteq Emails
  BY DEF Normal, Resto, plano, TypeInv, TypeOK, Ativas
<1>3. ASSUME NEW S, NEW T \in SUBSET Emails, S \subseteq T, Cabe(T) PROVE Nulo \in limites' \/ \E n \in limites' : Cardinality(S) <= n
  BY <1>2, <1>3, CabeMenos
<1>4. CASE Ativas' \subseteq Ativas
  <2>1. Cabe(Ativas)'
    BY <1>2, <1>3, <1>4 DEF LimiteInv, Cabe
  <2>2. ASSUME NEW o \in Pedidos, Passou(pedido'[o]) PROVE Cabe(Ativas \cup {pedido[o].email})'
    <3>1. CASE o = p
      <4>1. pedido'[o] = r
        BY <1>1, <3>1, SegueTodos
      <4>2. r.email \in Emails /\ Cabe(Ativas \cup {r.email})
        <5>1. r.email \in Ativas => Ativas \cup {r.email} = Ativas
          OBVIOUS
        <5> QED BY <1>1, <2>2, <4>1, <5>1 DEF Passo, LimiteInv
      <4>3. Ativas \cup {r.email} \in SUBSET Emails /\ Ativas' \cup {r.email} \subseteq Ativas \cup {r.email}
        BY <1>2, <1>4, <4>2
      <4>4. Nulo \in limites' \/ \E n \in limites' : Cardinality(Ativas' \cup {r.email}) <= n
        BY <1>3, <4>2, <4>3
      <4> QED BY <4>1, <4>4 DEF Cabe
    <3>2. CASE o # p
      <4>1. pedido'[o] = pedido[o]
        BY <1>1, <3>2, SegueTodos
      <4>2. pedido[o].email \in Emails /\ Cabe(Ativas \cup {pedido[o].email})
        BY <2>2, <4>1, PassouEmail DEF LimiteInv
      <4>3. Ativas \cup {pedido[o].email} \in SUBSET Emails
            /\ Ativas' \cup {pedido[o].email} \subseteq Ativas \cup {pedido[o].email}
        BY <1>2, <1>4, <4>2
      <4>4. Nulo \in limites' \/ \E n \in limites' : Cardinality(Ativas' \cup {pedido[o].email}) <= n
        BY <1>3, <4>2, <4>3
      <4> QED BY <4>1, <4>4 DEF Cabe
    <3> QED BY <3>1, <3>2
  <2>3. \A o \in Pedidos : (Passou(pedido[o]))' => Passou(pedido'[o])
    BY DEF Passou, EditaAtiva
  <2> QED BY <2>1, <2>2, <2>3 DEF LimiteInv
<1>5. CASE Passou(pedido[p]) /\ Ativas' \subseteq Ativas \cup {pedido[p].email} /\ ~Passou(r)
  <2>1. pedido[p].email \in Emails /\ Ativador(pedido[p]) /\ Cabe(Ativas \cup {pedido[p].email})
    BY <1>5, PassouEmail DEF LimiteInv
  <2>2. Ativas \cup {pedido[p].email} \in SUBSET Emails
    BY <1>2, <2>1
  <2>3. Cabe(Ativas)'
    BY <1>3, <1>5, <2>1, <2>2 DEF Cabe
  <2>4. ASSUME NEW o \in Pedidos, Passou(pedido'[o]) PROVE FALSE
    <3>1. o # p /\ pedido'[o] = pedido[o]
      BY <1>1, <1>5, <2>4, SegueTodos
    <3>2. Ativador(pedido[o])
      BY <2>4, <3>1, PassouEmail
    <3> QED BY <2>1, <3>1, <3>2 DEF UmAtivador, TypeInv, Dono
  <2>5. \A o \in Pedidos : (Passou(pedido[o]))' => Passou(pedido'[o])
    BY DEF Passou, EditaAtiva
  <2> QED BY <2>3, <2>4, <2>5 DEF LimiteInv
<1> QED BY <1>1, <1>4, <1>5 DEF Passo

LEMMA LimiteNext ==
    ASSUME ContasAssumption, UmAtivador, TypeInv, LimiteInv, [Next]_vars PROVE LimiteInv'
<1>1. ASSUME NEW n \in Limites, MudarPlano(n) PROVE LimiteInv'
  BY <1>1 DEF MudarPlano, LimiteInv, Cabe, Ativas, Existe, Passou, EditaAtiva
<1>2. CASE UNCHANGED vars
  BY <1>2 DEF vars, plano, LimiteInv, Cabe, Ativas, Existe, Passou, EditaAtiva
<1> QED BY <1>1, <1>2, CasosNext, LimiteNormal

LEMMA LimiteInit == ASSUME ContasAssumption, Init PROVE LimiteInv
<1>1. PICK a \in Emails : \A e \in Emails \ {a} : conta[e] = Nulo
  BY DEF Init
<1>2. Ativas \subseteq {a}
  BY <1>1 DEF Ativas, Existe
<1>3. limites = {limite} /\ (limite = Nulo \/ (limite \in Nat /\ limite # 0))
  BY DEF Init, ContasAssumption
<1>4. Cardinality({a}) = 1 /\ IsFiniteSet({a})
  BY FS_Singleton
<1>5. Cardinality(Ativas) \in Nat /\ Cardinality(Ativas) <= 1
  BY <1>2, <1>4, FS_Subset, FS_CardinalityType
<1>6. Cabe(Ativas)
  BY <1>3, <1>5 DEF Cabe
<1> QED BY <1>6, LivreTipo DEF Init, LimiteInv

(* "Limite de N utilizadores activos do plano atingido": with one request  *)
(* at a time that activates accounts, there are never more than a plan in  *)
(* force allowed, whatever others edit, remove and pay meanwhile.          *)
THEOREM LimiteCorrecto ==
    ASSUME ContasAssumption, UmAtivador PROVE Spec => []LimiteRespeitado
<1>1. Init => TypeInv /\ LimiteInv
  BY TypeInit, LimiteInit
<1>2. TypeInv /\ LimiteInv /\ [Next]_vars => (TypeInv /\ LimiteInv)'
  BY TypeNext, LimiteNext
<1>3. LimiteInv => LimiteRespeitado
  BY DEF LimiteInv, LimiteRespeitado, Cabe
<1> QED BY <1>1, <1>2, <1>3, PTL DEF Spec
-----------------------------------------------------------------------------
(* The last manager *)

(* One request at a time does more than cancel invitations. *)
UmQueGere ==
    \A p, o \in Pedidos :
        p # o => Operacoes[p] \subseteq {"cancelar"} \/ Operacoes[o] \subseteq {"cancelar"}

Parados == {"livre", "cancelar"}
OutroFica(e) == GestoresAtivos \ {e} # {}

(* Where the account that was read was inactive, or there was none.        *)
PcsInativa == {"reativar.limite", "reativar.convite", "reativar.conta", "aceitar.limite", "aceitar.gravar"}
PcsConvidar == {"convidar.limite", "convidar.convite", "convidar.conta"}
PcsProvisionar == {"provisionar.convite", "provisionar.limite", "provisionar.conta"}

(* An edition that leaves an ADMIN no ADMIN, or not active. *)
Tira(r) == EAdmin(r.email) /\ ~(Editada(r).ativa /\ Editada(r).cargo = "ADMIN")

(* What a request knows of the account it is about to write, as nobody     *)
(* else writes any.                                                        *)
SabeGestor(r) ==
    /\ r.pc \in PcsInativa => r.email \notin Ativas
    /\ r.pc \in PcsConvidar /\ r.id # Nulo => r.email \notin Ativas
    /\ r.pc \in PcsProvisionar => r.email \notin Ativas \/ conta[r.email].cargo = "FORMADOR"
    /\ r.pc \in {"update.limite", "update.gestor"} /\ Tira(r) => r.tira
    /\ r.pc = "update.gravar" /\ Tira(r) => OutroFica(r.email)
    /\ r.pc = "remover.gestor" /\ EAdmin(r.email) => r.tira
    /\ r.pc = "remover.conta" /\ EAdmin(r.email) => OutroFica(r.email)

GestorInv ==
    \A p \in Pedidos :
        /\ pedido[p].pc \notin Parados => ~(Operacoes[p] \subseteq {"cancelar"})
        /\ SabeGestor(pedido[p])

(* Where a request knows nothing of an account.                            *)
Simples == {"livre", "cancelar", "aceitar.conta", "perfil", "remover.fim", "formador.conta",
            "formador.perfil", "formador.fim", "anonimizar"}

LEMMA SimplesSabe == ASSUME NEW r, r.pc \in Simples PROVE SabeGestor(r) /\ SabeGestor(r)'
BY DEF Simples, SabeGestor, PcsInativa, PcsConvidar, PcsProvisionar

(* What is known of an account depends on the accounts only.               *)
LEMMA MesmasContas ==
    ASSUME conta' = conta
    PROVE  /\ Ativas' = Ativas /\ GestoresAtivos' = GestoresAtivos
           /\ \A r : SabeGestor(r) => SabeGestor(r)'
           /\ AdminProtegido
<1>1. Ativas' = Ativas
  BY DEF Ativas, Existe
<1>2. GestoresAtivos' = GestoresAtivos
  BY <1>1 DEF GestoresAtivos
<1>3. ASSUME NEW r, SabeGestor(r) PROVE SabeGestor(r)'
  <2>1. EAdmin(r.email)' = EAdmin(r.email) /\ OutroFica(r.email)' = OutroFica(r.email)
    BY <1>1, <1>2 DEF EAdmin, OutroFica
  <2>2. Tira(r)' = Tira(r)
    BY <1>1 DEF Tira, EAdmin, Editada
  <2> QED BY <1>1, <1>3, <2>1, <2>2 DEF SabeGestor
<1>4. AdminProtegido
  BY <1>2 DEF AdminProtegido, HaGestor
<1> QED BY <1>1, <1>2, <1>3, <1>4

(* A request that may change accounts is the only one.                     *)
LEMMA GestorPassa ==
    ASSUME UmQueGere, TypeInv, GestorInv, NEW p \in Pedidos, NEW r, Segue(p, r),
           r.pc \notin Parados => ~(Operacoes[p] \subseteq {"cancelar"}),
           SabeGestor(r)', conta' = conta \/ pedido[p].pc \notin Parados
    PROVE  GestorInv'
<1>1. pedido'[p] = r /\ \A o \in Pedidos \ {p} : pedido'[o] = pedido[o]
  BY DEF Segue, TypeInv, TypeOK
<1>2. ASSUME NEW o \in Pedidos \ {p} PROVE SabeGestor(pedido[o])'
  <2>1. PICK s : s = pedido[o]
    OBVIOUS
  <2>2. SabeGestor(s) /\ (s.pc \notin Parados => ~(Operacoes[o] \subseteq {"cancelar"}))
    BY <2>1 DEF GestorInv
  <2>3. SabeGestor(s)'
    <3>1. CASE conta' = conta
      BY <2>2, <3>1, MesmasContas
    <3>2. CASE pedido[p].pc \notin Parados
      <4>1. ~(Operacoes[p] \subseteq {"cancelar"})
        BY <3>2 DEF GestorInv
      <4>2. s.pc \in Parados
        BY <2>2, <4>1 DEF UmQueGere
      <4> QED BY <4>2, SimplesSabe DEF Parados, Simples
    <3> QED BY <3>1, <3>2
  <2>4. pedido'[o] = s
    BY <1>1, <2>1
  <2> QED BY <2>3, <2>4 DEF SabeGestor, Tira, EAdmin, Editada, OutroFica
<1>3. SabeGestor(pedido[p])'
  BY <1>1 DEF SabeGestor, Tira, EAdmin, Editada, OutroFica
<1>4. \A o \in Pedidos : pedido'[o].pc \notin Parados => ~(Operacoes[o] \subseteq {"cancelar"})
  BY <1>1 DEF GestorInv
<1> QED BY <1>2, <1>3, <1>4 DEF GestorInv

(* A step that leaves the accounts.                                        *)
LEMMA GestorQuieto ==
    ASSUME UmQueGere, TypeInv, GestorInv, NEW p \in Pedidos, NEW r, Segue(p, r), conta' = conta,
           r.pc \notin Parados => ~(Operacoes[p] \subseteq {"cancelar"}), SabeGestor(r)
    PROVE  GestorInv' /\ AdminProtegido
BY MesmasContas, GestorPassa

LEMMA GestorTermina ==
    ASSUME UmQueGere, TypeInv, GestorInv, NEW p \in Pedidos, Termina(p), conta' = conta
    PROVE  GestorInv' /\ AdminProtegido
<1>1. Livre.pc \in Simples /\ Livre.pc \in Parados
  BY DEF Livre, Simples, Parados
<1> QED BY <1>1, SimplesSabe, GestorQuieto DEF Termina

(* The other fields stay when a request goes on. *)
LEMMA PassaCampos ==
    ASSUME TypeInv, NEW p \in Pedidos, pedido[p].pc \in Pcs, NEW pc
    PROVE  LET r == [pedido[p] EXCEPT !.pc = pc]
           IN  /\ r.pc = pc /\ r.email = pedido[p].email /\ r.id = pedido[p].id
               /\ r.cargo = pedido[p].cargo /\ r.ativa = pedido[p].ativa /\ r.tira = pedido[p].tira
BY PedidoTipo DEF Iniciado

(* The checks of the limit, and the removal of pending invitations. *)
LEMMA GestorSemSaber ==
    ASSUME UmQueGere, TypeInv, GestorInv, NEW p \in Pedidos,
           \/ Limite(p) \/ ReativarConvite(p) \/ ProvisionarConvite(p) \/ ConvidarConvite(p)
    PROVE  GestorInv' /\ AdminProtegido
<1> DEFINE Antes == {"convidar.limite", "reativar.limite", "aceitar.limite", "update.limite",
                     "provisionar.limite", "reativar.convite", "provisionar.convite", "convidar.convite"}
<1>1. conta' = conta /\ pedido[p].pc \in Antes
  BY DEF Limite, PassaLimite, SemMudar, ReativarConvite, ProvisionarConvite, ConvidarConvite, MantemContas
<1>2. pedido[p].pc \in Pcs /\ pedido[p].pc \notin Parados
  BY <1>1 DEF Pcs, Parados
<1>3. CASE Termina(p)
  BY <1>1, <1>3, GestorTermina
<1>4. ASSUME NEW pc, Passa(p, pc),
             \/ pedido[p].pc \in PcsConvidar /\ pc \in PcsConvidar
             \/ pedido[p].pc \in PcsInativa /\ pc \in PcsInativa
             \/ pedido[p].pc \in PcsProvisionar /\ pc \in PcsProvisionar
             \/ pedido[p].pc = "update.limite" /\ pc = "update.gestor"
      PROVE  GestorInv' /\ AdminProtegido
  <2>1. PICK r : r = [pedido[p] EXCEPT !.pc = pc]
    OBVIOUS
  <2>2. /\ r.pc = pc /\ r.email = pedido[p].email /\ r.id = pedido[p].id
        /\ r.cargo = pedido[p].cargo /\ r.ativa = pedido[p].ativa /\ r.tira = pedido[p].tira
    BY <1>2, <2>1, PassaCampos
  <2>3. SabeGestor(pedido[p]) /\ ~(Operacoes[p] \subseteq {"cancelar"})
    BY <1>2 DEF GestorInv
  <2>4. Tira(r) <=> Tira(pedido[p])
    BY <2>2 DEF Tira, Editada
  <2>5. SabeGestor(r)
    BY <1>4, <2>2, <2>3, <2>4 DEF SabeGestor, PcsConvidar, PcsInativa, PcsProvisionar
  <2>6. Segue(p, r)
    BY <1>4, <2>1 DEF Passa
  <2> QED BY <1>1, <2>3, <2>5, <2>6, GestorQuieto
<1>5. \/ Termina(p)
      \/ \E pc \in {"convidar.convite", "convidar.conta"} : Passa(p, pc) /\ pedido[p].pc \in PcsConvidar
      \/ \E pc \in {"reativar.convite", "aceitar.gravar", "reativar.conta"} : Passa(p, pc) /\ pedido[p].pc \in PcsInativa
      \/ \E pc \in {"provisionar.conta", "provisionar.limite"} : Passa(p, pc) /\ pedido[p].pc \in PcsProvisionar
      \/ Passa(p, "update.gestor") /\ pedido[p].pc = "update.limite"
  BY DEF Limite, PassaLimite, ReativarConvite, ProvisionarConvite, ConvidarConvite, PcsConvidar,
     PcsInativa, PcsProvisionar
<1> QED BY <1>3, <1>4, <1>5 DEF PcsConvidar, PcsInativa, PcsProvisionar
(* Requests that begin. *)
LEMMA GestorLer ==
    ASSUME UmQueGere, TypeInv, GestorInv, NEW p \in Pedidos, NEW e \in Emails,
           \/ \E c \in Cargos : ConvidarLer(p, e, c)
           \/ CancelarLer(p, e) \/ AceitarLer(p, e) \/ ProvisionarLer(p, e)
           \/ FormadorLer(p, e) \/ AnonimizarLer(p, e)
    PROVE  GestorInv' /\ AdminProtegido
<1>1. conta' = conta
  BY DEF ConvidarLer, CancelarLer, AceitarLer, ProvisionarLer, FormadorLer, AnonimizarLer, SemMudar
<1>2. ASSUME NEW c \in Cargos, ConvidarLer(p, e, c) PROVE GestorInv' /\ AdminProtegido
  <2>1. PICK pc \in {"reativar.limite", "convidar.limite"} :
            /\ Segue(p, Comeca(pc, e, IdDe(e), Nulo, c)) /\ e \notin Ativas
            /\ "convidar" \in Operacoes[p]
    BY <1>2 DEF ConvidarLer, Aceita
  <2>2. PICK r : r = Comeca(pc, e, IdDe(e), Nulo, c)
    OBVIOUS
  <2>3. r.pc = pc /\ r.email = e
    BY <2>2 DEF Comeca
  <2>4. SabeGestor(r)
    BY <2>1, <2>3 DEF SabeGestor, PcsProvisionar
  <2> QED BY <1>1, <2>1, <2>2, <2>4, GestorQuieto
<1>3. ASSUME ProvisionarLer(p, e) PROVE GestorInv' /\ AdminProtegido
  <2>1. PICK r : r = Comeca("provisionar.convite", e, IdDe(e), Nulo, "FORMADOR")
    OBVIOUS
  <2>2. r.pc = "provisionar.convite" /\ r.email = e
    BY <2>1 DEF Comeca
  <2>3. SabeGestor(r)
    BY <1>3, <2>2 DEF ProvisionarLer, SabeGestor, PcsConvidar, PcsInativa
  <2> QED BY <1>1, <1>3, <2>1, <2>3, GestorQuieto DEF ProvisionarLer, Aceita
<1>4. ASSUME CancelarLer(p, e) \/ AceitarLer(p, e) \/ FormadorLer(p, e) \/ AnonimizarLer(p, e)
      PROVE  GestorInv' /\ AdminProtegido
  <2>1. PICK r : Segue(p, r) /\ r.pc \in {"cancelar", "aceitar.conta", "formador.conta", "anonimizar"}
                 /\ (r.pc \notin Parados => ~(Operacoes[p] \subseteq {"cancelar"}))
    BY <1>4 DEF CancelarLer, AceitarLer, FormadorLer, AnonimizarLer, Aceita, Comeca, Parados
  <2>2. SabeGestor(r)
    BY <2>1, SimplesSabe DEF Simples
  <2> QED BY <1>1, <2>1, <2>2, GestorQuieto
<1> QED BY <1>2, <1>3, <1>4

(* What is written of the two fields. *)
LEMMA EditadaCampos ==
    ASSUME NEW r, conta[r.email] \in ContaRow
    PROVE  /\ Editada(r).ativa = IF r.ativa = Nulo THEN conta[r.email].ativa ELSE r.ativa
           /\ Editada(r).cargo = IF r.cargo = Nulo THEN conta[r.email].cargo ELSE r.cargo
BY DEF Editada, ContaRow

(* Editions and removals that begin: the row that is read says whether a   *)
(* manager goes.                                                           *)
LEMMA GestorEditar ==
    ASSUME UmQueGere, TypeInv, GestorInv, NEW p \in Pedidos, NEW e \in Emails,
           \/ RemoverLer(p, e)
           \/ \E c \in Cargos \cup {Nulo}, a \in BOOLEAN \cup {Nulo} : UpdateLer(p, e, c, a)
    PROVE  GestorInv' /\ AdminProtegido
<1>1. conta' = conta /\ conta[e] \in ContaRow
  BY IdsTipo DEF UpdateLer, RemoverLer, SemMudar, TypeInv
<1>2. EAdmin(e) => conta[e].ativa /\ conta[e].cargo = "ADMIN"
  BY DEF EAdmin, Ativas
<1>3. ASSUME NEW c \in Cargos \cup {Nulo}, NEW a \in BOOLEAN \cup {Nulo}, UpdateLer(p, e, c, a)
      PROVE  GestorInv' /\ AdminProtegido
  <2>1. PICK pc \in {"update.limite", "update.gestor"}, t \in BOOLEAN :
          /\ t = TiraGestor(e, c, a)
          /\ Segue(p, [Comeca(pc, e, conta[e].id, Nulo, c) EXCEPT !.ativa = a, !.tira = t])
    <3>1. TiraGestor(e, c, a) \in BOOLEAN
      BY DEF TiraGestor
    <3> QED BY <1>3, <3>1 DEF UpdateLer
  <2>2. PICK r : r = [Comeca(pc, e, conta[e].id, Nulo, c) EXCEPT !.ativa = a, !.tira = t]
    OBVIOUS
  <2>3. r.pc = pc /\ r.email = e /\ r.cargo = c /\ r.ativa = a /\ r.tira = t
    BY <2>2 DEF Comeca
  <2>4. Tira(r) => t
    <3>1. ASSUME Tira(r) PROVE a = FALSE \/ c \notin {Nulo, "ADMIN"}
      BY <1>1, <1>2, <2>3, <3>1, EditadaCampos DEF Tira
    <3>2. Tira(r) => EAdmin(e)
      BY <2>3 DEF Tira
    <3> QED BY <1>2, <2>1, <3>1, <3>2 DEF TiraGestor
  <2>5. SabeGestor(r)
    BY <2>3, <2>4 DEF SabeGestor, PcsInativa, PcsConvidar, PcsProvisionar
  <2>6. ~(Operacoes[p] \subseteq {"cancelar"})
    BY <1>3 DEF UpdateLer, Permitido
  <2>7. Segue(p, r)
    BY <2>1, <2>2
  <2> QED BY <1>1, <2>5, <2>6, <2>7, GestorQuieto
<1>4. ASSUME RemoverLer(p, e) PROVE GestorInv' /\ AdminProtegido
  <2>1. PICK t : t = TiraGestor(e, Nulo, FALSE)
    OBVIOUS
  <2>2. PICK r : r = [Comeca("remover.gestor", e, conta[e].id, Nulo, Nulo) EXCEPT !.tira = t]
    OBVIOUS
  <2>3. r.pc = "remover.gestor" /\ r.email = e /\ r.tira = t
    BY <2>2 DEF Comeca
  <2>4. EAdmin(e) => t
    BY <1>2, <2>1 DEF TiraGestor
  <2>5. SabeGestor(r)
    BY <2>3, <2>4 DEF SabeGestor, PcsInativa, PcsConvidar, PcsProvisionar
  <2>6. Segue(p, r) /\ "remover" \in Operacoes[p]
    BY <1>4, <2>1, <2>2 DEF RemoverLer, Aceita
  <2>7. ~(Operacoes[p] \subseteq {"cancelar"})
    BY <2>6
  <2> QED BY <1>1, <2>5, <2>6, <2>7, GestorQuieto
<1> QED BY <1>3, <1>4

(* The count of the managers, and the account an acceptance reads.         *)
LEMMA GestorContar ==
    ASSUME UmQueGere, TypeInv, GestorInv, NEW p \in Pedidos,
           UpdateGestor(p) \/ RemoverGestor(p) \/ AceitarConta(p)
    PROVE  GestorInv' /\ AdminProtegido
<1>1. conta' = conta
  BY DEF UpdateGestor, RemoverGestor, AceitarConta, SemMudar
<1>2. CASE Termina(p)
  BY <1>1, <1>2, GestorTermina
<1>3. pedido[p].pc \in Pcs /\ pedido[p].pc \notin Parados
  BY DEF UpdateGestor, RemoverGestor, AceitarConta, Pcs, Parados
<1>4. SabeGestor(pedido[p]) /\ ~(Operacoes[p] \subseteq {"cancelar"})
  BY <1>3 DEF GestorInv
<1>5. ASSUME NEW pc \in {"update.gravar", "remover.conta"}, Passa(p, pc),
             GestorSeguro(pedido[p].email, pedido[p].tira),
             pedido[p].pc = IF pc = "update.gravar" THEN "update.gestor" ELSE "remover.gestor"
      PROVE  GestorInv' /\ AdminProtegido
  <2>1. PICK r : r = [pedido[p] EXCEPT !.pc = pc]
    OBVIOUS
  <2>2. /\ r.pc = pc /\ r.email = pedido[p].email
        /\ r.cargo = pedido[p].cargo /\ r.ativa = pedido[p].ativa
    BY <1>3, <2>1, PassaCampos
  <2>3. Tira(r) <=> Tira(pedido[p])
    BY <2>2 DEF Tira, Editada
  <2>4. pedido[p].tira => OutroFica(r.email)
    BY <1>5, <2>2 DEF GestorSeguro, OutroFica
  <2>5. SabeGestor(r)
    BY <1>4, <1>5, <2>2, <2>3, <2>4 DEF SabeGestor, PcsInativa, PcsConvidar, PcsProvisionar
  <2> QED BY <1>1, <1>4, <1>5, <2>1, <2>5, GestorQuieto DEF Passa
<1>6. ASSUME AceitarConta(p), ~Termina(p) PROVE GestorInv' /\ AdminProtegido
  <2>1. PICK r : r = [pedido[p] EXCEPT !.pc = "aceitar.limite", !.id = IdDe(pedido[p].email)]
    OBVIOUS
  <2>2. r.pc = "aceitar.limite" /\ r.email = pedido[p].email
    BY <1>3, <2>1, PedidoTipo DEF Iniciado
  <2>3. Segue(p, r) /\ r.email \notin Ativas
    BY <1>6, <2>1, <2>2 DEF AceitarConta
  <2>4. SabeGestor(r)
    BY <2>2, <2>3 DEF SabeGestor, PcsInativa, PcsConvidar, PcsProvisionar
  <2> QED BY <1>1, <1>4, <2>3, <2>4, GestorQuieto
<1> QED BY <1>2, <1>5, <1>6 DEF UpdateGestor, RemoverGestor
(* A write that leaves the account an active ADMIN, or another manager.    *)
LEMMA GravaProtege ==
    ASSUME TypeInv, NEW e \in Emails, NEW row, GravaConta(e, row),
           EAdmin(e) => OutroFica(e) \/ (row # Nulo /\ row.ativa /\ row.cargo = "ADMIN")
    PROVE  HaGestor /\ (\E a \in GestoresAtivos : EAdmin(a)) => HaGestor'
<1>1. /\ conta'[e] = row
      /\ \A x \in Emails \ {e} : conta'[x] = conta[x]
  BY DEF GravaConta, TypeInv, TypeOK
<1>2. ASSUME NEW x \in GestoresAtivos, x # e PROVE HaGestor'
  <2>1. x \in Emails \ {e} /\ conta[x] # Nulo /\ conta[x].ativa /\ conta[x].cargo \in Gestores
    BY <1>2 DEF GestoresAtivos, Ativas, Existe
  <2>2. x \in GestoresAtivos'
    BY <1>1, <2>1 DEF GestoresAtivos, Ativas, Existe
  <2> QED BY <2>2 DEF HaGestor
<1>3. ASSUME NEW a \in GestoresAtivos, EAdmin(a) PROVE HaGestor'
  <2>1. CASE a # e
    BY <1>2, <2>1
  <2>2. CASE a = e /\ OutroFica(e)
    BY <1>2, <2>2 DEF OutroFica
  <2>3. CASE a = e /\ row # Nulo /\ row.ativa /\ row.cargo = "ADMIN"
    <3>1. "ADMIN" \in Gestores
      BY <1>3 DEF GestoresAtivos, EAdmin
    <3>2. e \in GestoresAtivos'
      BY <1>1, <2>3, <3>1 DEF GestoresAtivos, Ativas, Existe
    <3> QED BY <3>2 DEF HaGestor
  <2> QED BY <1>3, <2>1, <2>2, <2>3
<1> QED BY <1>3

LEMMA GestorGrava ==
    ASSUME UmQueGere, TypeInv, GestorInv, NEW p \in Pedidos, NEW r, Segue(p, r), r.pc \in Simples,
           pedido[p].pc \notin Parados, NEW e \in Emails, NEW row, GravaConta(e, row),
           EAdmin(e) => OutroFica(e) \/ (row # Nulo /\ row.ativa /\ row.cargo = "ADMIN")
    PROVE  GestorInv' /\ AdminProtegido
<1>1. ~(Operacoes[p] \subseteq {"cancelar"})
  BY DEF GestorInv
<1>2. SabeGestor(r)'
  BY SimplesSabe
<1>3. GestorInv'
  BY <1>1, <1>2, GestorPassa
<1>4. AdminProtegido
  BY GravaProtege DEF AdminProtegido
<1> QED BY <1>3, <1>4

(* The ones that leave the accounts and go on where nothing is known.      *)
LEMMA GestorSegue ==
    ASSUME UmQueGere, TypeInv, GestorInv, NEW p \in Pedidos, NEW r, Segue(p, r), r.pc \in Simples,
           pedido[p].pc \notin Parados, conta' = conta
    PROVE  GestorInv' /\ AdminProtegido
BY SimplesSabe, GestorQuieto DEF GestorInv

(* Where a request that ends, or goes on after its write, goes.            *)
LEMMA ParaSimples ==
    ASSUME TypeInv, NEW p \in Pedidos, pedido[p].pc \in Pcs,
           \/ Termina(p)
           \/ \E pc \in {"perfil", "formador.fim"} : Passa(p, pc)
           \/ \E id : Segue(p, [pedido[p] EXCEPT !.pc = "perfil", !.id = id])
           \/ \E pc \in {"remover.fim", "formador.perfil"} : \E c :
                  Segue(p, [pedido[p] EXCEPT !.pc = pc, !.convite = c])
    PROVE  \E r : Segue(p, r) /\ r.pc \in Simples
<1>1. CASE Termina(p)
  <2>1. Livre.pc \in Simples
    BY DEF Livre, Simples
  <2> QED BY <1>1, <2>1 DEF Termina
<1>2. ASSUME NEW pc \in {"perfil", "formador.fim"}, Passa(p, pc)
      PROVE  \E r : Segue(p, r) /\ r.pc \in Simples
  <2>1. [pedido[p] EXCEPT !.pc = pc].pc = pc
    BY PedidoTipo DEF Iniciado
  <2> QED BY <1>2, <2>1 DEF Passa, Simples
<1>3. ASSUME NEW id, Segue(p, [pedido[p] EXCEPT !.pc = "perfil", !.id = id])
      PROVE  \E r : Segue(p, r) /\ r.pc \in Simples
  <2>1. [pedido[p] EXCEPT !.pc = "perfil", !.id = id].pc = "perfil"
    BY PedidoTipo DEF Iniciado
  <2> QED BY <1>3, <2>1 DEF Simples
<1>4. ASSUME NEW pc \in {"remover.fim", "formador.perfil"}, NEW c,
             Segue(p, [pedido[p] EXCEPT !.pc = pc, !.convite = c])
      PROVE  \E r : Segue(p, r) /\ r.pc \in Simples
  <2>1. [pedido[p] EXCEPT !.pc = pc, !.convite = c].pc = pc
    BY PedidoTipo DEF Iniciado
  <2> QED BY <1>4, <2>1 DEF Simples
<1> QED BY <1>1, <1>2, <1>3, <1>4
LEMMA EditadaTipo ==
    ASSUME NEW r \in Iniciado, NEW c \in ContaRow, conta[r.email] = c
    PROVE  Editada(r) \in ContaRow
<1> DEFINE cargo == IF r.cargo = Nulo THEN c.cargo ELSE r.cargo
           ativa == IF r.ativa = Nulo THEN c.ativa ELSE r.ativa
<1>1. cargo \in Cargos /\ ativa \in BOOLEAN
  BY DEF Iniciado, ContaRow
<1>2. Editada(r) = [c EXCEPT !.cargo = cargo, !.ativa = ativa]
  BY DEF Editada, ContaRow
<1> HIDE DEF cargo, ativa
<1> QED BY <1>1, <1>2 DEF ContaRow

(* The steps that write an account, where the request knows nothing or     *)
(* the account was not an active one.                                      *)
LEMMA GestorEscreve ==
    ASSUME ContasAssumption, UmQueGere, TypeInv, GestorInv, NEW p \in Pedidos,
           \/ ConvidarConta(p) \/ PerfilGravar(p) \/ ReativarConta(p) \/ AceitarGravar(p)
           \/ UpdateGravar(p) \/ RemoverConta(p) \/ ProvisionarConta(p) \/ FormadorPerfil(p)
    PROVE  GestorInv' /\ AdminProtegido
<1> DEFINE e == pedido[p].email
           De == {"convidar.conta", "perfil", "reativar.conta", "aceitar.gravar", "update.gravar",
                  "remover.conta", "provisionar.conta", "formador.perfil"}
<1>1. pedido[p].pc \in De
  BY DEF ConvidarConta, PerfilGravar, ReativarConta, AceitarGravar, UpdateGravar, RemoverConta,
     ProvisionarConta, FormadorPerfil
<1>2. pedido[p].pc \in Pcs /\ pedido[p].pc \notin Parados
  BY <1>1 DEF Pcs, Parados
<1>3. e \in Emails /\ SabeGestor(pedido[p])
  BY <1>2, PedidoTipo DEF Iniciado, GestorInv
<1>4. PICK r : Segue(p, r) /\ r.pc \in Simples
  <2>1. \/ Termina(p)
        \/ \E pc \in {"perfil", "formador.fim"} : Passa(p, pc)
        \/ \E id : Segue(p, [pedido[p] EXCEPT !.pc = "perfil", !.id = id])
        \/ \E pc \in {"remover.fim", "formador.perfil"} : \E c :
              Segue(p, [pedido[p] EXCEPT !.pc = pc, !.convite = c])
    BY DEF ConvidarConta, PerfilGravar, ReativarConta, AceitarGravar, UpdateGravar, RemoverConta,
       ProvisionarConta, FormadorPerfil
  <2> QED BY <1>2, <2>1, ParaSimples
<1>5. CASE MantemContas
  BY <1>2, <1>4, <1>5, GestorSegue DEF MantemContas
<1>6. ASSUME NEW row, GravaConta(e, row),
             EAdmin(e) => OutroFica(e) \/ (row # Nulo /\ row.ativa /\ row.cargo = "ADMIN")
      PROVE  GestorInv' /\ AdminProtegido
  BY <1>2, <1>3, <1>4, <1>6, GestorGrava
<1>7. ASSUME NEW row, GravaConta(e, row), ~EAdmin(e) PROVE GestorInv' /\ AdminProtegido
  BY <1>6, <1>7
<1>8. CASE \/ ConvidarConta(p) \/ ReativarConta(p) \/ AceitarGravar(p) \/ ProvisionarConta(p)
  <2>1. CASE ConvidarConta(p) /\ ~MantemContas
    <3>1. pedido[p].pc = "convidar.conta" /\ (\E row : GravaConta(e, row))
          /\ (pedido[p].id # Nulo \/ ~Existe(e))
      BY <2>1 DEF ConvidarConta
    <3>2. ~EAdmin(e)
      BY <1>3, <3>1 DEF SabeGestor, PcsConvidar, EAdmin, Ativas
    <3> QED BY <1>7, <3>1, <3>2
  <2>2. CASE ReativarConta(p) /\ ~MantemContas
    <3>1. pedido[p].pc = "reativar.conta" /\ (\E row : GravaConta(e, row))
      BY <2>2 DEF ReativarConta
    <3>2. ~EAdmin(e)
      BY <1>3, <3>1 DEF SabeGestor, PcsInativa, EAdmin
    <3> QED BY <1>7, <3>1, <3>2
  <2>3. CASE AceitarGravar(p) /\ ~MantemContas
    <3>1. pedido[p].pc = "aceitar.gravar" /\ (\E row : GravaConta(e, row))
      BY <2>3 DEF AceitarGravar
    <3>2. ~EAdmin(e)
      BY <1>3, <3>1 DEF SabeGestor, PcsInativa, EAdmin
    <3> QED BY <1>7, <3>1, <3>2
  <2>4. CASE ProvisionarConta(p) /\ ~MantemContas
    <3>1. pedido[p].pc = "provisionar.conta" /\ (\E row : GravaConta(e, row))
      BY <2>4 DEF ProvisionarConta
    <3>2. ~EAdmin(e)
      BY <1>3, <3>1 DEF SabeGestor, PcsProvisionar, EAdmin
    <3> QED BY <1>7, <3>1, <3>2
  <2> QED BY <1>5, <1>8, <2>1, <2>2, <2>3, <2>4
<1>9. CASE PerfilGravar(p) \/ FormadorPerfil(p)
  <2>1. PICK b \in BOOLEAN : MantemContas \/ (Existe(e) /\ GravaConta(e, [conta[e] EXCEPT !.perfil = b]))
    BY <1>9 DEF PerfilGravar, FormadorPerfil, MesmaConta
  <2>2. CASE Existe(e) /\ GravaConta(e, [conta[e] EXCEPT !.perfil = b])
    <3>1. PICK row : row = [conta[e] EXCEPT !.perfil = b]
      OBVIOUS
    <3>2. conta[e] \in ContaRow
      BY <1>3, <2>2 DEF TypeInv, TypeOK, Existe
    <3>3. row # Nulo /\ row.ativa = conta[e].ativa /\ row.cargo = conta[e].cargo
      BY <3>1, <3>2 DEF ContasAssumption, ContaRow
    <3> QED BY <1>6, <2>2, <3>1, <3>3 DEF EAdmin, Ativas
  <2> QED BY <1>5, <2>1, <2>2
<1>10. CASE UpdateGravar(p)
  <2>1. CASE MesmaConta(e, pedido[p].id)
    <3>1. PICK row : row = Editada(pedido[p])
      OBVIOUS
    <3>2. GravaConta(e, row) /\ pedido[p].pc = "update.gravar"
      BY <1>10, <2>1, <3>1 DEF UpdateGravar
    <3>3. conta[e] \in ContaRow
      BY <1>3, <2>1 DEF TypeInv, TypeOK, MesmaConta, Existe
    <3>4. row # Nulo
      BY <1>2, <3>1, <3>3, PedidoTipo, EditadaTipo DEF ContasAssumption
    <3>5. EAdmin(e) => OutroFica(e) \/ (row.ativa /\ row.cargo = "ADMIN")
      BY <1>3, <3>1, <3>2 DEF SabeGestor, Tira
    <3> QED BY <1>6, <3>2, <3>4, <3>5
  <2>2. CASE ~MesmaConta(e, pedido[p].id)
    BY <1>5, <1>10, <2>2 DEF UpdateGravar
  <2> QED BY <2>1, <2>2
<1>11. CASE RemoverConta(p)
  <2>1. MantemContas \/ GravaConta(e, Nulo)
    BY <1>11 DEF RemoverConta
  <2>2. EAdmin(e) => OutroFica(e)
    BY <1>3, <1>11 DEF RemoverConta, SabeGestor
  <2> QED BY <1>5, <1>6, <2>1, <2>2
<1> QED BY <1>8, <1>9, <1>10, <1>11

(* The two that do not count the managers. *)
LEMMA GestorSemContar ==
    ASSUME UmQueGere, TypeInv, GestorInv, NEW p \in Pedidos,
           FormadorConta(p) \/ AnonimizarGravar(p)
    PROVE  GestorInv' /\ AdminProtegido
<1>1. pedido[p].pc \in {"formador.conta", "anonimizar"}
  BY DEF FormadorConta, AnonimizarGravar
<1>2. pedido[p].pc \in Pcs /\ pedido[p].pc \notin Parados
  BY <1>1 DEF Pcs, Parados
<1>3. PICK r : Segue(p, r) /\ r.pc \in {"livre", "formador.perfil"}
  <2>1. CASE Termina(p)
    BY <2>1 DEF Termina, Livre
  <2>2. ASSUME NEW c, Segue(p, [pedido[p] EXCEPT !.pc = "formador.perfil", !.convite = c])
        PROVE  \E r : Segue(p, r) /\ r.pc \in {"livre", "formador.perfil"}
    <3>1. [pedido[p] EXCEPT !.pc = "formador.perfil", !.convite = c].pc = "formador.perfil"
      BY <1>2, PedidoTipo DEF Iniciado
    <3> QED BY <2>2, <3>1
  <2> QED BY <2>1, <2>2 DEF FormadorConta, AnonimizarGravar
<1>4. GestorInv'
  <2>1. SabeGestor(r)'
    BY <1>3, SimplesSabe DEF Simples
  <2>2. ~(Operacoes[p] \subseteq {"cancelar"})
    BY <1>2 DEF GestorInv
  <2> QED BY <1>2, <1>3, <2>1, <2>2, GestorPassa
<1>5. pedido'[p] = r
  BY <1>3 DEF Segue, TypeInv, TypeOK
<1> QED BY <1>1, <1>3, <1>4, <1>5 DEF AdminProtegido
LEMMA GestorFica ==
    ASSUME GestorInv, pedido' = pedido, conta' = conta PROVE GestorInv'
<1>1. ASSUME NEW p \in Pedidos PROVE SabeGestor(pedido[p])'
  <2>1. PICK r : r = pedido[p]
    OBVIOUS
  <2>2. SabeGestor(r)'
    BY <2>1, MesmasContas DEF GestorInv
  <2>3. pedido'[p] = r
    BY <2>1
  <2> QED BY <2>2, <2>3 DEF SabeGestor, Tira, EAdmin, Editada, OutroFica
<1> QED BY <1>1 DEF GestorInv

LEMMA GestorInit == Init => GestorInv
<1>1. Livre.pc = "livre" /\ "livre" \in Parados /\ Livre.pc \in Simples
  BY DEF Livre, Parados, Simples
<1>2. SabeGestor(Livre)
  BY <1>1, SimplesSabe
<1> QED BY <1>1, <1>2 DEF Init, GestorInv

LEMMA GestorNext ==
    ASSUME ContasAssumption, UmQueGere, TypeInv, GestorInv, [Next]_vars
    PROVE  GestorInv' /\ AdminProtegido
<1>1. CASE \E n \in Limites : MudarPlano(n)
  <2>1. pedido' = pedido /\ conta' = conta
    BY <1>1 DEF MudarPlano
  <2>2. \A r : SabeGestor(r) => SabeGestor(r)'
    BY <2>1, MesmasContas
  <2>3. GestorInv'
    BY <2>1, <2>2, GestorFica
  <2> QED BY <2>1, <2>3, MesmasContas
<1>2. CASE UNCHANGED vars
  <2>1. pedido' = pedido /\ conta' = conta
    BY <1>2 DEF vars
  <2> QED BY <2>1, GestorFica, MesmasContas
<1>3. ASSUME NEW p \in Pedidos, Limite(p) PROVE GestorInv' /\ AdminProtegido
  BY <1>3, GestorSemSaber
<1>4. ASSUME NEW p \in Pedidos, Convites(p) PROVE GestorInv' /\ AdminProtegido
  <2>1. CASE ConvidarConvite(p) \/ ReativarConvite(p) \/ ProvisionarConvite(p)
    BY <2>1, GestorSemSaber
  <2>2. CASE ConvidarConta(p) \/ PerfilGravar(p) \/ ReativarConta(p) \/ AceitarGravar(p)
             \/ ProvisionarConta(p)
    BY <2>2, GestorEscreve
  <2>3. CASE CancelarGravar(p)
    BY <2>3, GestorTermina DEF CancelarGravar, MantemContas
  <2>4. CASE AceitarConta(p)
    BY <2>4, GestorContar
  <2>5. CASE \E e \in Emails : \/ CancelarLer(p, e) \/ AceitarLer(p, e) \/ ProvisionarLer(p, e)
                               \/ \E c \in Cargos : ConvidarLer(p, e, c)
    BY <2>5, GestorLer
  <2> QED BY <1>4, <2>1, <2>2, <2>3, <2>4, <2>5 DEF Convites
<1>5. ASSUME NEW p \in Pedidos, Edicao(p) PROVE GestorInv' /\ AdminProtegido
  <2>1. CASE UpdateGestor(p)
    BY <2>1, GestorContar
  <2>2. CASE UpdateGravar(p)
    BY <2>2, GestorEscreve
  <2>3. CASE \E e \in Emails, c \in Cargos \cup {Nulo}, a \in BOOLEAN \cup {Nulo} : UpdateLer(p, e, c, a)
    BY <2>3, GestorEditar
  <2> QED BY <1>5, <2>1, <2>2, <2>3 DEF Edicao
<1>6. ASSUME NEW p \in Pedidos, Remocao(p) PROVE GestorInv' /\ AdminProtegido
  <2>1. CASE RemoverGestor(p)
    BY <2>1, GestorContar
  <2>2. CASE RemoverConta(p) \/ FormadorPerfil(p)
    BY <2>2, GestorEscreve
  <2>3. CASE RemoverFim(p)
    BY <2>3, GestorTermina DEF RemoverFim, MantemContas
  <2>4. CASE FormadorConta(p) \/ AnonimizarGravar(p)
    BY <2>4, GestorSemContar
  <2>5. CASE \E e \in Emails : RemoverLer(p, e)
    BY <2>5, GestorEditar
  <2>6. CASE \E e \in Emails : FormadorLer(p, e) \/ AnonimizarLer(p, e)
    BY <2>6, GestorLer
  <2> QED BY <1>6, <2>1, <2>2, <2>3, <2>4, <2>5, <2>6 DEF Remocao
<1>7. ASSUME NEW p \in Pedidos, Interromper(p) PROVE GestorInv' /\ AdminProtegido
  BY <1>7, GestorTermina DEF Interromper
<1> QED BY <1>1, <1>2, <1>3, <1>4, <1>5, <1>6, <1>7 DEF Next

(* With one request at a time that does more than cancel                   *)
(* invitations, no step takes the last manager away while an ADMIN is one  *)
(* of them, but the removal of a trainer's profile and the erasure of      *)
(* personal data: the guards and the count of assertManagerSafety are      *)
(* enough, whatever the order of the reads and the writes of the others.   *)
THEOREM AdminProtegidoCorrecto ==
    ASSUME ContasAssumption, UmQueGere PROVE Spec => AdminSempreProtegido
<1>1. Init => TypeInv /\ GestorInv
  BY TypeInit, GestorInit
<1>2. TypeInv /\ GestorInv /\ [Next]_vars => (TypeInv /\ GestorInv)' /\ AdminProtegido
  BY TypeNext, GestorNext
<1> QED BY <1>1, <1>2, PTL DEF Spec, AdminSempreProtegido
=============================================================================
