----------------------------- MODULE SistemaProofs -----------------------------
(***************************************************************************)
(* Theorems about Sistema: first about Sigo, the module it extends, for    *)
(* every number of requests, submissions, retries and failures; then about *)
(* all the parts, from the theorems of each.                               *)
(***************************************************************************)
EXTENDS Sistema, FiniteSetTheorems, SequenceTheorems, TLAPS

(* A request that has begun, over k submissions.                           *)
Iniciado(k) ==
    [pc: Pcs, op: Endpoints, n: 1..k, lista: Seq(1..k), resto: 0..MaxTentativas,
     enviada: BOOLEAN, resposta: Estados \cup {"NENHUM", "DISPONIVEL"}, chave: BOOLEAN, forca: BOOLEAN]
PedidoDe(k) == {Livre} \cup Iniciado(k)

(* Requests work on submissions that exist: rows are never deleted.        *)
Total == Len(submissao)
TypeInv == TypeOK /\ pedido \in [Pedidos -> PedidoDe(Total)]

(* The answer a request holds is about the submission, or the certificate. *)
PcsCert == {"cert.linha", "cert.transferir", "cert.gravar"}
RespostaCerta(r) ==
    /\ r.pc = "reconciliar.gravar" => r.resposta \in Estados
    /\ r.pc \in PcsCert => r.resposta \in {"NENHUM", "PENDENTE", "DISPONIVEL"}

(* A request that has a key has it of a file that is there.                *)
Guardado(r) == r.pc \in Pcs => RespostaCerta(r) /\ (r.chave => ficheiro[r.n])
ChaveInv == FicheiroGuardado /\ \A p \in Pedidos : Guardado(pedido[p])

Inv == TypeInv /\ ChaveInv

-----------------------------------------------------------------------------
(* Rows *)

LEMMA PedidoSobe ==
    ASSUME NEW k \in Nat, NEW m \in Nat, k <= m
    PROVE  PedidoDe(k) \subseteq PedidoDe(m)
<1>1. 1..k \subseteq 1..m
  OBVIOUS
<1>2. Seq(1..k) \subseteq Seq(1..m)
  BY <1>1
<1> QED BY <1>1, <1>2 DEF PedidoDe, Iniciado

LEMMA PedidoCabe == ASSUME SigoAssumption, TypeOK PROVE PedidoDe(Total) \subseteq PedidoRow
<1>1. Total \in Nat /\ MaxSubmissoes \in Nat /\ Total <= MaxSubmissoes
  BY DEF TypeOK, Total, SigoAssumption
<1>2. PedidoDe(Total) \subseteq PedidoDe(MaxSubmissoes)
  BY <1>1, PedidoSobe
<1> QED BY <1>2 DEF PedidoDe, Iniciado, PedidoRow

LEMMA LivreNaoTemPc == Livre.pc \notin Pcs /\ Livre \in PedidoDe(Total)
BY DEF Livre, Pcs, PedidoDe

(* What a request that has begun holds.                                    *)
LEMMA PedidoTipo ==
    ASSUME SigoAssumption, TypeInv, NEW p \in Pedidos, pedido[p].pc \in Pcs
    PROVE  /\ pedido[p] \in Iniciado(Total)
           /\ pedido[p].n \in Submissoes /\ pedido[p].n \in 1..MaxSubmissoes
<1>1. pedido[p] \in PedidoDe(Total)
  BY DEF TypeInv
<1>2. pedido[p] # Livre
  BY LivreNaoTemPc
<1>3. Total \in Nat /\ MaxSubmissoes \in Nat /\ Total <= MaxSubmissoes /\ Submissoes = 1..Total
  BY DEF TypeInv, TypeOK, Total, Submissoes, SigoAssumption
<1>4. pedido[p] \in Iniciado(Total)
  BY <1>1, <1>2 DEF PedidoDe
<1>5. pedido[p].n \in 1..Total
  BY <1>4 DEF Iniciado
<1> QED BY <1>3, <1>4, <1>5

LEMMA ComecaTipo ==
    ASSUME SigoAssumption, NEW op \in Endpoints, NEW pc \in Pcs, NEW k \in Nat, NEW n \in 1..k,
           NEW lista \in Seq(1..k)
    PROVE  Comeca(op, pc, n, lista) \in PedidoDe(k) /\ ~Comeca(op, pc, n, lista).chave
BY DEF Comeca, PedidoDe, Iniciado, SigoAssumption, Estados

(* One request goes on to r and the rest stay.                             *)
LEMMA SegueInv ==
    ASSUME SigoAssumption, Inv, NEW p \in Pedidos, NEW r \in PedidoDe(Total), Segue(p, r),
           Total' = Total, TypeOK', UNCHANGED ficheiro, FicheiroGuardado', Guardado(r)
    PROVE  Inv'
<1>1. pedido' \in [Pedidos -> PedidoDe(Total')]
  BY DEF Segue, Inv, TypeInv
<1>2. \A o \in Pedidos : Guardado(pedido[o])'
  BY DEF Segue, Inv, ChaveInv, TypeInv, Guardado
<1> QED BY <1>1, <1>2 DEF Inv, TypeInv, ChaveInv

LEMMA SegueTipo ==
    ASSUME SigoAssumption, TypeInv, NEW p \in Pedidos, NEW r \in PedidoDe(Total), Segue(p, r)
    PROVE  pedido' \in [Pedidos -> PedidoRow]
BY PedidoCabe DEF Segue, TypeInv, TypeOK

(* Steps that change nothing but the request, SIGO's side and the failures. *)
LEMMA SoPedido ==
    ASSUME SigoAssumption, Inv, NEW p \in Pedidos, NEW r \in PedidoDe(Total), Segue(p, r),
           UNCHANGED local, UNCHANGED emitido, falhas' \in Nat, Guardado(r),
           remoto' \in [1..MaxSubmissoes -> {"ausente", "recebida", "aceite", "rejeitada"}]
    PROVE  Inv'
<1>1. TypeOK'
  BY SegueTipo DEF Inv, TypeInv, TypeOK, local
<1>2. Total' = Total /\ UNCHANGED ficheiro /\ FicheiroGuardado'
  BY DEF Inv, ChaveInv, FicheiroGuardado, local, Total
<1> QED BY <1>1, <1>2, SegueInv

LEMMA FalhasTipo == ASSUME TypeOK, SemFalha \/ Falha PROVE falhas' \in Nat
BY DEF TypeOK, SemFalha, Falha

LEMMA TerminaPasso ==
    ASSUME SigoAssumption, Inv, NEW p \in Pedidos, pedido[p].pc \in Pcs, Termina(p)
    PROVE  \E r \in PedidoDe(Total) : Segue(p, r) /\ Guardado(r)
<1> DEFINE q == pedido[p]
           r == Comeca(q.op, IF q.op = "cronReconciliar" THEN "reconciliar.ler" ELSE "cert.contar",
                       Head(q.lista), Tail(q.lista))
<1>1. CASE q.lista = <<>>
  BY <1>1, LivreNaoTemPc DEF Termina, Guardado
<1>2. CASE q.lista # <<>>
  <2>1. Total \in Nat /\ q.op \in Endpoints /\ q.lista \in Seq(1..Total)
    BY PedidoTipo DEF Inv, TypeInv, TypeOK, Total, Iniciado
  <2>2. Head(q.lista) \in 1..Total /\ Tail(q.lista) \in Seq(1..Total)
    BY <1>2, <2>1, HeadTailProperties
  <2>3. r \in PedidoDe(Total) /\ ~r.chave
    BY <2>1, <2>2, ComecaTipo DEF Pcs
  <2>4. Segue(p, r)
    BY <1>2 DEF Termina
  <2>5. r.pc \notin PcsCert /\ r.pc # "reconciliar.gravar"
    BY DEF Comeca, PcsCert
  <2> QED BY <2>3, <2>4, <2>5 DEF Guardado, RespostaCerta
<1> QED BY <1>1, <1>2

LEMMA FimDoSyncPasso ==
    ASSUME SigoAssumption, Inv, NEW p \in Pedidos, pedido[p].pc \in Pcs, FimDoSync(p)
    PROVE  \E r \in PedidoDe(Total) : Segue(p, r) /\ Guardado(r)
<1> DEFINE r == [pedido[p] EXCEPT !.pc = "cert.ler", !.forca = TRUE]
<1>1. CASE Termina(p)
  BY <1>1, TerminaPasso
<1>2. CASE Segue(p, r)
  <2>1. r \in PedidoDe(Total) /\ r.n = pedido[p].n /\ r.chave = pedido[p].chave
    BY PedidoTipo DEF PedidoDe, Iniciado, Pcs, Inv
  <2>2. r.pc = "cert.ler"
    BY PedidoTipo DEF Iniciado, Inv
  <2> QED BY <1>2, <2>1, <2>2 DEF Guardado, Inv, ChaveInv, RespostaCerta, PcsCert
<1> QED BY <1>1, <1>2 DEF FimDoSync

-----------------------------------------------------------------------------
(* The steps *)

LEMMA InvInit == ASSUME SigoAssumption, Init PROVE Inv
BY LivreNaoTemPc, PedidoCabe DEF Init, TabelasVazias, Inv, TypeInv, TypeOK, ChaveInv, Guardado, FicheiroGuardado, Total,
   SigoAssumption, CertificadoRow, PedidoRow, PedidoDe

LEMMA InvSubmeter ==
    ASSUME SigoAssumption, Inv, NEW p \in Pedidos, NEW op \in Endpoints, Submeter(p, op)
    PROVE  Inv'
<1> DEFINE r == Comeca(op, "enviar", Total + 1, <<>>)
           nova == [estado |-> "PENDENTE", enviada |-> FALSE]
<1>1. Total \in Nat /\ submissao \in Seq(SubmissaoRow) /\ Total < MaxSubmissoes
  BY DEF Inv, TypeInv, TypeOK, Total, Submeter
<1>2. Segue(p, r) /\ submissao' = Append(submissao, nova) /\ UNCHANGED <<enviadas, certificado, ficheiro>>
      /\ UNCHANGED <<remoto, emitido, falhas>>
  BY DEF Submeter, Total, MesmaSigo, SemFalha
<1>3. nova \in SubmissaoRow
  BY DEF SubmissaoRow, Estados
<1>4. submissao' \in Seq(SubmissaoRow) /\ Total' = Total + 1 /\ Total' <= MaxSubmissoes
  BY <1>1, <1>2, <1>3 DEF Total, SigoAssumption
<1>5. r \in PedidoDe(Total') /\ ~r.chave
  <2>1. Total' \in Nat /\ Total + 1 \in 1..Total' /\ <<>> \in Seq(1..Total') /\ "enviar" \in Pcs
    BY <1>1, <1>4 DEF Pcs
  <2> QED BY <2>1, ComecaTipo
<1>6. PedidoDe(Total) \subseteq PedidoDe(Total')
  BY <1>1, <1>4, PedidoSobe
<1>7. pedido' \in [Pedidos -> PedidoDe(Total')]
  BY <1>2, <1>5, <1>6 DEF Segue, Inv, TypeInv
<1>8. PedidoDe(Total') \subseteq PedidoRow
  <2>1. PedidoDe(Total') \subseteq PedidoDe(MaxSubmissoes)
    BY <1>1, <1>4, PedidoSobe DEF SigoAssumption
  <2> QED BY <2>1 DEF PedidoDe, Iniciado, PedidoRow
<1>9. TypeOK'
  BY <1>2, <1>4, <1>7, <1>8 DEF Inv, TypeInv, TypeOK, Total
<1>10. ChaveInv'
  <2>1. r.pc = "enviar"
    BY DEF Comeca
  <2>2. Guardado(r)
    BY <1>5, <2>1 DEF Guardado, RespostaCerta, PcsCert
  <2> HIDE DEF r
  <2> QED BY <1>2, <2>2 DEF Segue, Inv, TypeInv, ChaveInv, Guardado, FicheiroGuardado
<1> QED BY <1>7, <1>9, <1>10 DEF Inv, TypeInv

(* A row is written over, never added. *)
LEMMA InvGrava ==
    ASSUME SigoAssumption, Inv, NEW p \in Pedidos, NEW r \in PedidoDe(Total), Segue(p, r),
           NEW n \in Submissoes, NEW row \in SubmissaoRow, submissao' = [submissao EXCEPT ![n] = row],
           enviadas' \in Seq(1..MaxSubmissoes), UNCHANGED <<certificado, ficheiro>>,
           MesmaSigo, SemFalha \/ Falha, Guardado(r)
    PROVE  Inv'
<1>1. submissao' \in Seq(SubmissaoRow) /\ Total' = Total
  BY DEF Inv, TypeInv, TypeOK, Total, Submissoes
<1>2. TypeOK'
  BY <1>1, SegueTipo, FalhasTipo DEF Inv, TypeInv, TypeOK, Total, MesmaSigo
<1>3. FicheiroGuardado'
  BY DEF Inv, ChaveInv, FicheiroGuardado
<1> QED BY <1>1, <1>2, <1>3, SegueInv

(* A step to r that only changes where the request stands.                 *)
LEMMA PassaPasso ==
    ASSUME SigoAssumption, Inv, NEW p \in Pedidos, pedido[p].pc \in Pcs, NEW pc \in Pcs, Passa(p, pc),
           pc # "reconciliar.gravar", pc \notin PcsCert
    PROVE  \E r \in PedidoDe(Total) : Segue(p, r) /\ Guardado(r)
<1> DEFINE r == [pedido[p] EXCEPT !.pc = pc]
<1>1. r \in PedidoDe(Total) /\ r.n = pedido[p].n /\ r.chave = pedido[p].chave
  BY PedidoTipo DEF PedidoDe, Iniciado, Inv
<1>2. r.pc = pc
  BY PedidoTipo DEF Iniciado, Inv
<1> QED BY <1>1, <1>2 DEF Passa, Guardado, Inv, ChaveInv, RespostaCerta

LEMMA RecebeTipo ==
    ASSUME TypeOK, NEW n, Recebe(n) \/ UNCHANGED remoto
    PROVE  remoto' \in [1..MaxSubmissoes -> {"ausente", "recebida", "aceite", "rejeitada"}]
BY DEF TypeOK, Recebe

LEMMA InvEnviar ==
    ASSUME SigoAssumption, Inv, NEW p \in Pedidos,
           EnviarAceite(p) \/ EnviarRecusado(p) \/ EnviarPerdido(p)
    PROVE  Inv'
<1> DEFINE q == pedido[p]
<1>0. q.pc \in Pcs /\ falhas' \in Nat /\ Guardado(q)
  BY FalhasTipo DEF EnviarAceite, EnviarRecusado, EnviarPerdido, Pcs, Inv, TypeInv, ChaveInv
<1>1. CASE EnviarAceite(p)
  <2> DEFINE r == [q EXCEPT !.pc = "submeter.gravar", !.resto = MaxTentativas]
  <2>0. "submeter.gravar" \in Pcs /\ MaxTentativas \in 0..MaxTentativas
    BY DEF Pcs, SigoAssumption
  <2>1. r \in PedidoDe(Total) /\ Guardado(r)
    BY <1>0, <2>0, PedidoTipo DEF PedidoDe, Iniciado, Inv, Guardado, RespostaCerta, PcsCert
  <2>2. Segue(p, r)
    BY <1>1 DEF EnviarAceite
  <2> QED BY <1>0, <1>1, <2>1, <2>2, SoPedido, RecebeTipo DEF EnviarAceite, Inv, TypeInv
<1>2. CASE EnviarRecusado(p)
  <2>1. PICK r \in PedidoDe(Total) : Segue(p, r) /\ Guardado(r)
    BY <1>0, <1>2, TerminaPasso DEF EnviarRecusado
  <2> QED BY <1>0, <1>2, <2>1, SoPedido DEF EnviarRecusado, MesmaSigo, Inv, TypeInv, TypeOK
<1>3. CASE EnviarPerdido(p)
  <2>1. PICK r \in PedidoDe(Total) : Segue(p, r) /\ Guardado(r)
    <3>1. CASE q.resto > 1
      <4> DEFINE r == [q EXCEPT !.resto = @ - 1]
      <4>1. q.resto \in 0..MaxTentativas /\ q.resto - 1 \in 0..MaxTentativas
        BY <1>0, <3>1, PedidoTipo DEF Iniciado, Inv, SigoAssumption
      <4>2. r \in PedidoDe(Total) /\ Guardado(r)
        BY <1>0, <1>3, <4>1, PedidoTipo DEF PedidoDe, Iniciado, Inv, Guardado, RespostaCerta, PcsCert, EnviarPerdido
      <4> QED BY <1>3, <3>1, <4>2 DEF EnviarPerdido
    <3>2. CASE ~(q.resto > 1)
      BY <1>0, <1>3, <3>2, PassaPasso DEF EnviarPerdido, Passa, Pcs, PcsCert
    <3> QED BY <3>1, <3>2
  <2>2. Recebe(q.n) \/ UNCHANGED remoto
    BY <1>3 DEF EnviarPerdido
  <2> QED BY <1>0, <1>3, <2>1, <2>2, SoPedido, RecebeTipo DEF EnviarPerdido, Inv, TypeInv
<1> QED BY <1>1, <1>2, <1>3

LEMMA SubmetidaTipo ==
    ASSUME TypeOK, NEW n \in Submissoes, n \in 1..MaxSubmissoes, Submetida(n)
    PROVE  /\ \E row \in SubmissaoRow : submissao' = [submissao EXCEPT ![n] = row]
           /\ enviadas' \in Seq(1..MaxSubmissoes)
<1>1. [estado |-> "SUBMETIDA", enviada |-> TRUE] \in SubmissaoRow
  BY DEF SubmissaoRow, Estados
<1>2. enviadas' \in Seq(1..MaxSubmissoes)
  BY AppendProperties DEF Submetida, TypeOK
<1> QED BY <1>1, <1>2 DEF Submetida

LEMMA InvSubmeterGravar ==
    ASSUME SigoAssumption, Inv, NEW p \in Pedidos, SubmeterGravar(p) PROVE Inv'
<1> DEFINE q == pedido[p]
<1>1. q.pc \in Pcs /\ q.n \in Submissoes /\ q.n \in 1..MaxSubmissoes
  BY PedidoTipo DEF SubmeterGravar, Pcs, Inv
<1>2. PICK r \in PedidoDe(Total) : Segue(p, r) /\ Guardado(r)
  BY <1>1, TerminaPasso, PassaPasso DEF SubmeterGravar, Pcs, PcsCert
<1>3. /\ \E row \in SubmissaoRow : submissao' = [submissao EXCEPT ![q.n] = row]
      /\ enviadas' \in Seq(1..MaxSubmissoes)
  BY <1>1, SubmetidaTipo DEF SubmeterGravar, Inv, TypeInv
<1> QED BY <1>1, <1>2, <1>3, InvGrava DEF SubmeterGravar

LEMMA InvSubmeterFalhar ==
    ASSUME SigoAssumption, Inv, NEW p \in Pedidos, SubmeterFalhar(p) PROVE Inv'
<1> DEFINE q == pedido[p]
<1>1. q.pc \in Pcs /\ q.n \in Submissoes /\ q.n \in 1..MaxSubmissoes
  BY PedidoTipo DEF SubmeterFalhar, Pcs, Inv
<1>2. PICK r \in PedidoDe(Total) : Segue(p, r) /\ Guardado(r)
  BY <1>1, PassaPasso DEF SubmeterFalhar, Pcs, PcsCert
<1>3. CASE Submetida(q.n)
  <2>1. /\ \E row \in SubmissaoRow : submissao' = [submissao EXCEPT ![q.n] = row]
        /\ enviadas' \in Seq(1..MaxSubmissoes)
    BY <1>1, <1>3, SubmetidaTipo DEF Inv, TypeInv
  <2> QED BY <1>1, <1>2, <2>1, InvGrava DEF SubmeterFalhar
<1>4. CASE UNCHANGED <<submissao, enviadas>>
  <2>1. falhas' \in Nat /\ UNCHANGED local
    BY <1>4, FalhasTipo DEF SubmeterFalhar, local, Inv, TypeInv
  <2> QED BY <1>2, <2>1, SoPedido DEF SubmeterFalhar, MesmaSigo, Inv, TypeInv, TypeOK
<1> QED BY <1>3, <1>4 DEF SubmeterFalhar

(* The row of a submission with another state. *)
LEMMA GravaEstadoTipo ==
    ASSUME TypeOK, NEW n \in Submissoes, NEW e \in Estados, GravaEstado(n, e)
    PROVE  \E row \in SubmissaoRow : submissao' = [submissao EXCEPT ![n] = row]
<1> DEFINE row == [submissao[n] EXCEPT !.estado = e]
<1>1. submissao[n] \in SubmissaoRow
  BY DEF TypeOK, Submissoes
<1>2. row \in SubmissaoRow
  BY <1>1 DEF SubmissaoRow
<1>3. submissao' = [submissao EXCEPT ![n] = row]
  BY DEF GravaEstado
<1> QED BY <1>2, <1>3

LEMMA InvSubmeterErro ==
    ASSUME SigoAssumption, Inv, NEW p \in Pedidos, SubmeterErro(p) PROVE Inv'
<1> DEFINE q == pedido[p]
<1>1. q.pc \in Pcs /\ q.n \in Submissoes /\ "ERRO" \in Estados
  BY PedidoTipo DEF SubmeterErro, Pcs, Inv, Estados
<1>2. PICK r \in PedidoDe(Total) : Segue(p, r) /\ Guardado(r)
  BY <1>1, TerminaPasso DEF SubmeterErro
<1>3. PICK row \in SubmissaoRow : submissao' = [submissao EXCEPT ![q.n] = row]
  BY <1>1, GravaEstadoTipo DEF SubmeterErro, Inv, TypeInv
<1>4. enviadas' \in Seq(1..MaxSubmissoes)
  BY DEF SubmeterErro, Inv, TypeInv, TypeOK
<1> QED BY <1>1, <1>2, <1>3, <1>4, InvGrava DEF SubmeterErro

LEMMA InvReconciliarGravar ==
    ASSUME SigoAssumption, Inv, NEW p \in Pedidos, ReconciliarGravar(p) PROVE Inv'
<1> DEFINE q == pedido[p]
           e == IF q.resposta = "PENDENTE" THEN "SUBMETIDA" ELSE q.resposta
<1>1. q.pc \in Pcs /\ q.n \in Submissoes
  BY PedidoTipo DEF ReconciliarGravar, Pcs, Inv
<1>2. PICK r \in PedidoDe(Total) : Segue(p, r) /\ Guardado(r)
  <2>1. "cert.ler" \in Pcs /\ "cert.ler" # "reconciliar.gravar" /\ "cert.ler" \notin PcsCert
    BY DEF Pcs, PcsCert
  <2>2. Passa(p, "cert.ler") \/ Termina(p)
    BY DEF ReconciliarGravar
  <2> QED BY ONLY SigoAssumption, Inv, p \in Pedidos, <1>1, <2>1, <2>2, TerminaPasso, PassaPasso
<1>3. e \in Estados
  BY <1>1 DEF ReconciliarGravar, Inv, ChaveInv, Guardado, RespostaCerta, Estados
<1>4. PICK row \in SubmissaoRow : submissao' = [submissao EXCEPT ![q.n] = row]
  BY <1>1, <1>3, GravaEstadoTipo DEF ReconciliarGravar, Inv, TypeInv
<1>5. enviadas' \in Seq(1..MaxSubmissoes)
  BY DEF ReconciliarGravar, Inv, TypeInv, TypeOK
<1> QED BY <1>1, <1>2, <1>4, <1>5, InvGrava DEF ReconciliarGravar

LEMMA InvReconciliarLer ==
    ASSUME SigoAssumption, Inv, NEW p \in Pedidos, ReconciliarLer(p) PROVE Inv'
<1> DEFINE q == pedido[p]
           r == [q EXCEPT !.pc = "consultar", !.enviada = submissao[q.n].enviada]
<1>1. q.pc \in Pcs /\ q.n \in Submissoes /\ falhas' \in Nat
  BY PedidoTipo, FalhasTipo DEF ReconciliarLer, Pcs, Inv, TypeInv
<1>2. submissao[q.n].enviada \in BOOLEAN
  <2>1. submissao[q.n] \in SubmissaoRow
    BY <1>1 DEF Inv, TypeInv, TypeOK, Submissoes
  <2> QED BY <2>1 DEF SubmissaoRow
<1>3. r \in PedidoDe(Total) /\ Guardado(r)
  <2>1. q \in Iniciado(Total) /\ Guardado(q)
    BY <1>1, PedidoTipo DEF Inv, ChaveInv
  <2>2. r \in Iniciado(Total) /\ r.pc = "consultar" /\ r.n = q.n /\ r.chave = q.chave
    BY <1>2, <2>1 DEF Iniciado, Pcs
  <2> HIDE DEF r, q
  <2> QED BY <1>1, <2>1, <2>2 DEF PedidoDe, Guardado, RespostaCerta, PcsCert
<1>4. Segue(p, r)
  BY DEF ReconciliarLer
<1> QED BY <1>1, <1>3, <1>4, SoPedido DEF ReconciliarLer, MesmaSigo, Inv, TypeInv, TypeOK

LEMMA InvConsultar ==
    ASSUME SigoAssumption, Inv, NEW p \in Pedidos, Consultar(p) PROVE Inv'
<1> DEFINE q == pedido[p]
           r(e) == [q EXCEPT !.pc = "reconciliar.gravar", !.resposta = e, !.enviada = FALSE]
<1>1. q.pc \in Pcs /\ q.n \in Submissoes /\ falhas' \in Nat
  BY PedidoTipo, FalhasTipo DEF Consultar, Pcs, Inv, TypeInv
<1>2. ASSUME NEW e \in Estados PROVE r(e) \in PedidoDe(Total) /\ Guardado(r(e))
  <2>1. q \in Iniciado(Total) /\ Guardado(q)
    BY <1>1, PedidoTipo DEF Inv, ChaveInv
  <2> DEFINE t == r(e)
  <2>2. /\ t \in Iniciado(Total) /\ t.pc = "reconciliar.gravar" /\ t.resposta = e
        /\ t.n = q.n /\ t.chave = q.chave
    BY <2>1 DEF Iniciado, Pcs
  <2>3. t \in PedidoDe(Total) /\ Guardado(t)
    <3> HIDE DEF t, q
    <3> QED BY <1>1, <2>1, <2>2 DEF PedidoDe, Guardado, RespostaCerta, PcsCert
  <2> QED BY <2>3
<1>3. Resposta(q.n, q.enviada) \subseteq Estados
  <2>1. remoto[q.n] \in {"ausente", "recebida", "aceite", "rejeitada"}
    BY <1>1, PedidoTipo DEF Inv, TypeInv, TypeOK
  <2> QED BY <2>1 DEF Resposta, NaoConhece, Estados
<1>4. \E t \in PedidoDe(Total) : Segue(p, t) /\ Guardado(t)
  <2>1. CASE \E e \in Resposta(q.n, q.enviada) : Segue(p, r(e))
    BY <1>2, <1>3, <2>1
  <2>2. CASE Segue(p, r("ERRO"))
    BY <1>2, <2>2 DEF Estados
  <2>3. CASE Termina(p)
    BY <1>1, <2>3, TerminaPasso
  <2> QED BY <2>1, <2>2, <2>3 DEF Consultar
<1> QED BY <1>1, <1>4, SoPedido DEF Consultar, MesmaSigo, Inv, TypeInv, TypeOK

LEMMA InvCertLer ==
    ASSUME SigoAssumption, Inv, NEW p \in Pedidos, CertLer(p) PROVE Inv'
<1> DEFINE q == pedido[p]
           r == [q EXCEPT !.pc = "cert.linha", !.resposta = emitido[q.n]]
<1>1. q.pc \in Pcs /\ q.n \in 1..MaxSubmissoes /\ falhas' \in Nat
  BY PedidoTipo, FalhasTipo DEF CertLer, Pcs, Inv, TypeInv
<1>2. emitido[q.n] \in {"NENHUM", "PENDENTE", "DISPONIVEL"}
  BY <1>1 DEF Inv, TypeInv, TypeOK
<1>3. r \in PedidoDe(Total) /\ Guardado(r)
  <2>1. q \in Iniciado(Total) /\ Guardado(q)
    BY <1>1, PedidoTipo DEF Inv, ChaveInv
  <2>2. /\ r \in Iniciado(Total) /\ r.pc = "cert.linha" /\ r.resposta = emitido[q.n]
        /\ r.n = q.n /\ r.chave = q.chave
    BY <1>2, <2>1 DEF Iniciado, Pcs, Estados
  <2> HIDE DEF r, q
  <2> QED BY <1>1, <1>2, <2>1, <2>2 DEF PedidoDe, Guardado, RespostaCerta
<1>4. \E t \in PedidoDe(Total) : Segue(p, t) /\ Guardado(t)
  BY <1>1, <1>3, FimDoSyncPasso DEF CertLer
<1> QED BY <1>1, <1>4, SoPedido DEF CertLer, MesmaSigo, Inv, TypeInv, TypeOK

LEMMA InvCertLinha ==
    ASSUME SigoAssumption, Inv, NEW p \in Pedidos, CertLinha(p) PROVE Inv'
<1> DEFINE q == pedido[p]
           chave == certificado[q.n].chave
           pc == IF q.resposta = "DISPONIVEL" /\ (~chave \/ q.forca) THEN "cert.transferir" ELSE "cert.gravar"
           r == [q EXCEPT !.chave = chave, !.pc = pc]
<1>1. q.pc \in Pcs /\ q.n \in 1..MaxSubmissoes /\ falhas' \in Nat
  BY PedidoTipo, FalhasTipo DEF CertLinha, Pcs, Inv, TypeInv
<1>2. chave \in BOOLEAN /\ (chave => ficheiro[q.n])
  BY <1>1 DEF Inv, TypeInv, TypeOK, ChaveInv, FicheiroGuardado, CertificadoRow
<1>3. q.resposta \in {"NENHUM", "PENDENTE", "DISPONIVEL"}
  BY <1>1 DEF CertLinha, Inv, ChaveInv, Guardado, RespostaCerta, PcsCert
<1>4. pc \in PcsCert /\ pc \in Pcs /\ pc # "reconciliar.gravar"
  BY DEF PcsCert, Pcs
<1>5. r \in PedidoDe(Total) /\ r.n = q.n /\ r.chave = chave /\ r.resposta = q.resposta /\ r.pc = pc
  <2> HIDE DEF pc, chave
  <2> QED BY <1>1, <1>2, <1>4, PedidoTipo DEF PedidoDe, Iniciado, Inv
<1>6. Segue(p, r)
  BY DEF CertLinha
<1>7. Guardado(r)
  <2> HIDE DEF pc, chave, r
  <2> QED BY <1>2, <1>3, <1>4, <1>5 DEF Guardado, RespostaCerta
<1> QED BY <1>1, <1>5, <1>6, <1>7, SoPedido DEF CertLinha, MesmaSigo, Inv, TypeInv, TypeOK

(* The key is noted with the file.                                         *)
LEMMA InvCertTransferir ==
    ASSUME SigoAssumption, Inv, NEW p \in Pedidos, CertTransferir(p) PROVE Inv'
<1> DEFINE q == pedido[p]
           r == [q EXCEPT !.pc = "cert.gravar", !.chave = TRUE]
           s == [q EXCEPT !.pc = "cert.gravar"]
<1>1. q.pc \in Pcs /\ q.n \in 1..MaxSubmissoes /\ falhas' \in Nat
  BY PedidoTipo, FalhasTipo DEF CertTransferir, Pcs, Inv, TypeInv
<1>2. q.resposta \in {"NENHUM", "PENDENTE", "DISPONIVEL"} /\ (q.chave => ficheiro[q.n])
  BY <1>1 DEF CertTransferir, Inv, ChaveInv, Guardado, RespostaCerta, PcsCert
<1>3. /\ r \in PedidoDe(Total) /\ r.n = q.n /\ r.resposta = q.resposta /\ r.pc = "cert.gravar"
      /\ s \in PedidoDe(Total) /\ s.n = q.n /\ s.resposta = q.resposta /\ s.pc = "cert.gravar"
      /\ s.chave = q.chave
  BY <1>1, PedidoTipo DEF PedidoDe, Iniciado, Inv, Pcs
<1>4. \E t \in PedidoDe(Total) :
         /\ Segue(p, t) /\ t.n = q.n /\ t.pc = "cert.gravar"
         /\ t.resposta \in {"NENHUM", "PENDENTE", "DISPONIVEL"} /\ (t.chave => ficheiro'[q.n])
  <2>1. CASE ficheiro' = [ficheiro EXCEPT ![q.n] = TRUE] /\ Segue(p, r)
    <3>1. ficheiro'[q.n]
      BY <1>1, <2>1 DEF Inv, TypeInv, TypeOK
    <3> HIDE DEF r, q
    <3> QED BY <1>2, <1>3, <2>1, <3>1
  <2>2. CASE UNCHANGED ficheiro /\ Segue(p, s)
    <3> HIDE DEF s, q
    <3> QED BY <1>2, <1>3, <2>2
  <2> QED BY <2>1, <2>2 DEF CertTransferir, Passa
<1>5. PICK t \in PedidoDe(Total) :
         /\ Segue(p, t) /\ t.n = q.n /\ t.pc = "cert.gravar"
         /\ t.resposta \in {"NENHUM", "PENDENTE", "DISPONIVEL"} /\ (t.chave => ficheiro'[q.n])
  BY <1>4
<1>6. /\ ficheiro' \in [1..MaxSubmissoes -> BOOLEAN]
      /\ \A n \in 1..MaxSubmissoes : ficheiro[n] => ficheiro'[n]
  BY DEF CertTransferir, Inv, TypeInv, TypeOK
<1>7. Total' = Total /\ TypeOK'
  BY <1>1, <1>5, <1>6, SegueTipo DEF CertTransferir, MesmaSigo, Inv, TypeInv, TypeOK, Total
<1>8. FicheiroGuardado'
  BY <1>6 DEF CertTransferir, Inv, ChaveInv, FicheiroGuardado
<1>9. \A o \in Pedidos : Guardado(pedido[o])'
  <2> SUFFICES ASSUME NEW o \in Pedidos, pedido'[o].pc \in Pcs
               PROVE  RespostaCerta(pedido'[o]) /\ (pedido'[o].chave => ficheiro'[pedido'[o].n])
    BY DEF Guardado, RespostaCerta
  <2>1. CASE o = p
    <3>1. pedido'[o] = t
      BY <1>5, <2>1 DEF Segue, Inv, TypeInv
    <3> QED BY <1>5, <3>1 DEF RespostaCerta
  <2>2. CASE o # p
    <3>1. pedido'[o] = pedido[o]
      BY <1>5, <2>2 DEF Segue, Inv, TypeInv
    <3>2. pedido[o].n \in 1..MaxSubmissoes
      BY <3>1, PedidoTipo DEF Inv
    <3> QED BY <1>6, <3>1, <3>2 DEF Inv, ChaveInv, Guardado
  <2> QED BY <2>1, <2>2
<1>10. pedido' \in [Pedidos -> PedidoDe(Total')]
  BY <1>5, <1>7 DEF Segue, Inv, TypeInv
<1> QED BY <1>7, <1>8, <1>9, <1>10 DEF Inv, TypeInv, ChaveInv

LEMMA InvCertGravar ==
    ASSUME SigoAssumption, Inv, NEW p \in Pedidos, CertGravar(p) PROVE Inv'
<1> DEFINE q == pedido[p]
           row == [estado |-> IF q.chave THEN "DISPONIVEL" ELSE q.resposta, chave |-> q.chave]
<1>1. q.pc \in Pcs /\ q.n \in 1..MaxSubmissoes /\ falhas' \in Nat
  BY PedidoTipo, FalhasTipo DEF CertGravar, Pcs, Inv, TypeInv
<1>2. q.resposta \in {"NENHUM", "PENDENTE", "DISPONIVEL"} /\ (q.chave => ficheiro[q.n])
  BY <1>1 DEF CertGravar, Inv, ChaveInv, Guardado, RespostaCerta, PcsCert
<1>3. q.chave \in BOOLEAN
  BY <1>1, PedidoTipo DEF Iniciado, Inv
<1>4. row \in CertificadoRow /\ row.chave = q.chave
  BY <1>2, <1>3 DEF CertificadoRow
<1>5. certificado' = [certificado EXCEPT ![q.n] = row]
  BY DEF CertGravar
<1>6. PICK t \in PedidoDe(Total) : Segue(p, t) /\ Guardado(t)
  BY <1>1, FimDoSyncPasso DEF CertGravar
<1>7. FicheiroGuardado'
  <2> HIDE DEF row, q
  <2> QED BY <1>1, <1>2, <1>4, <1>5 DEF CertGravar, Inv, ChaveInv, FicheiroGuardado, TypeInv, TypeOK
<1>8. TypeOK'
  <2>1. certificado' \in [1..MaxSubmissoes -> CertificadoRow]
    BY <1>1, <1>4, <1>5 DEF Inv, TypeInv, TypeOK
  <2> QED BY <1>1, <1>6, <2>1, SegueTipo DEF CertGravar, MesmaSigo, Inv, TypeInv, TypeOK
<1> QED BY <1>6, <1>7, <1>8, SegueInv DEF CertGravar, Total

(* The lists of a cron job are of submissions that exist.                  *)
LEMMA ListasTipo ==
    ASSUME NEW k \in Nat, NEW T \in SUBSET (1..k), NEW j \in Nat, NEW s \in Ordenacoes(T, j)
    PROVE  s \in Seq(1..k)
<1>1. s \in [1..j -> 1..k]
  BY DEF Ordenacoes
<1> QED BY <1>1

LEMMA CronListas ==
    ASSUME SigoAssumption, TypeOK
    PROVE  /\ ListasReconciliar \subseteq Seq(1..Total)
           /\ Ordenacoes(Aceites, Cardinality(Aceites)) \subseteq Seq(1..Total)
<1>1. Total \in Nat /\ Submissoes = 1..Total
  BY DEF TypeOK, Total, Submissoes
<1>2. \A T \in SUBSET (1..Total) : Cardinality(T) \in Nat
  <2>1. IsFiniteSet(1..Total)
    BY <1>1, FS_Interval
  <2>2. \A T \in SUBSET (1..Total) : IsFiniteSet(T)
    BY <2>1, FS_Subset
  <2> QED BY <2>2, FS_CardinalityType
<1>3. PorDecidir \in SUBSET (1..Total) /\ Aceites \in SUBSET (1..Total)
  BY <1>1 DEF PorDecidir, Aceites
<1>4. Ordenacoes(Aceites, Cardinality(Aceites)) \subseteq Seq(1..Total)
  BY <1>1, <1>2, <1>3, ListasTipo
<1>5. ListasReconciliar \subseteq Seq(1..Total)
  <2> DEFINE k == IF Cardinality(PorDecidir) < Lote THEN Cardinality(PorDecidir) ELSE Lote
  <2>1. k \in Nat
    BY <1>2, <1>3 DEF SigoAssumption
  <2>2. ListasReconciliar \subseteq Ordenacoes(PorDecidir, k)
    BY DEF ListasReconciliar
  <2> HIDE DEF k
  <2> QED BY <1>1, <1>3, <2>1, <2>2, ListasTipo
<1> QED BY <1>4, <1>5

LEMMA CorreInv ==
    ASSUME SigoAssumption, Inv, NEW p \in Pedidos, NEW op \in Endpoints,
           NEW pc \in {"reconciliar.ler", "cert.contar"}, NEW listas \in SUBSET Seq(1..Total),
           Corre(p, op, pc, listas)
    PROVE  Inv'
<1>1. PICK lista \in listas : lista # <<>> /\ Segue(p, Comeca(op, pc, Head(lista), Tail(lista)))
  BY DEF Corre
<1> DEFINE r == Comeca(op, pc, Head(lista), Tail(lista))
<1>2. Total \in Nat /\ Head(lista) \in 1..Total /\ Tail(lista) \in Seq(1..Total)
  BY <1>1, HeadTailProperties DEF Inv, TypeInv, TypeOK, Total
<1>3. pc \in Pcs /\ pc # "reconciliar.gravar" /\ pc \notin PcsCert
  BY DEF Pcs, PcsCert
<1>4. r \in PedidoDe(Total) /\ ~r.chave
  BY <1>2, <1>3, ComecaTipo
<1>5. r.pc = pc
  BY DEF Comeca
<1>6. Guardado(r)
  BY <1>3, <1>4, <1>5 DEF Guardado, RespostaCerta
<1> QED BY <1>1, <1>4, <1>6, SoPedido DEF Corre, MesmaSigo, SemFalha, Inv, TypeInv, TypeOK

LEMMA InvCertContar ==
    ASSUME SigoAssumption, Inv, NEW p \in Pedidos, CertContar(p) PROVE Inv'
<1>1. pedido[p].pc \in Pcs
  BY DEF CertContar, Pcs
<1>2. PICK r \in PedidoDe(Total) : Segue(p, r) /\ Guardado(r)
  BY <1>1, TerminaPasso, PassaPasso DEF CertContar, Pcs, PcsCert
<1> QED BY <1>2, SoPedido DEF CertContar, MesmaSigo, SemFalha, Inv, TypeInv, TypeOK

(* The requests of users that begin without a row of their own.            *)
LEMMA InvPede ==
    ASSUME SigoAssumption, Inv, NEW p \in Pedidos, NEW n \in Submissoes,
           Reconciliar(p, n) \/ Sincronizar(p, n)
    PROVE  Inv'
<1>1. PICK op \in Endpoints, pc \in {"reconciliar.ler", "cert.ler"} : Segue(p, Comeca(op, pc, n, <<>>))
  BY DEF Reconciliar, Sincronizar, Endpoints
<1> DEFINE r == Comeca(op, pc, n, <<>>)
<1>2. Total \in Nat /\ n \in 1..Total /\ <<>> \in Seq(1..Total)
  BY DEF Inv, TypeInv, TypeOK, Total, Submissoes
<1>3. pc \in Pcs /\ pc # "reconciliar.gravar" /\ pc \notin PcsCert
  BY DEF Pcs, PcsCert
<1>4. r \in PedidoDe(Total) /\ ~r.chave
  BY <1>2, <1>3, ComecaTipo
<1>5. r.pc = pc
  BY DEF Comeca
<1>6. Guardado(r)
  BY <1>3, <1>4, <1>5 DEF Guardado, RespostaCerta
<1>7. Segue(p, r)
  BY <1>1
<1> HIDE DEF r
<1> QED BY <1>4, <1>6, <1>7, SoPedido DEF Reconciliar, Sincronizar, MesmaSigo, SemFalha, Inv, TypeInv, TypeOK

LEMMA InvRemoto ==
    ASSUME SigoAssumption, Inv, NEW n \in Submissoes, Decidir(n) \/ Emitir(n)
    PROVE  Inv'
<1>1. TypeOK'
  BY DEF Decidir, Emitir, local, Inv, TypeInv, TypeOK
<1>2. ChaveInv' /\ Total' = Total
  BY DEF Decidir, Emitir, local, Inv, ChaveInv, FicheiroGuardado, Guardado, RespostaCerta, Total
<1> QED BY <1>1, <1>2 DEF Decidir, Emitir, Inv, TypeInv

LEMMA InvInterromper ==
    ASSUME SigoAssumption, Inv, NEW p \in Pedidos, Interromper(p) PROVE Inv'
<1>1. Livre \in PedidoDe(Total) /\ Guardado(Livre) /\ falhas' \in Nat
  BY LivreNaoTemPc, FalhasTipo DEF Guardado, Interromper, Inv, TypeInv
<1> QED BY <1>1, SoPedido DEF Interromper, MesmaSigo, Inv, TypeInv, TypeOK

LEMMA InvNext == ASSUME SigoAssumption, Inv, [Next]_vars PROVE Inv'
<1>1. ASSUME NEW p \in Pedidos, Continua(p) PROVE Inv'
  BY <1>1, InvEnviar, InvSubmeterGravar, InvSubmeterErro, InvReconciliarLer, InvConsultar,
     InvReconciliarGravar, InvCertContar, InvCertLer, InvCertLinha, InvCertTransferir, InvCertGravar
     DEF Continua
<1>2. ASSUME NEW p \in Pedidos, Chega(p) PROVE Inv'
  BY <1>2, InvSubmeter, InvPede DEF Chega
<1>3. ASSUME NEW p \in Pedidos, Cron(p) PROVE Inv'
  BY <1>3, CronListas, CorreInv DEF Cron, CronReconciliar, CronCertificados, Inv, TypeInv, Endpoints
<1>4. ASSUME NEW p \in Pedidos,
             EnviarRecusado(p) \/ EnviarPerdido(p) \/ SubmeterFalhar(p) \/ Interromper(p)
      PROVE  Inv'
  BY <1>4, InvEnviar, InvSubmeterFalhar, InvInterromper
<1>5. CASE UNCHANGED vars
  BY <1>5 DEF vars, Inv, TypeInv, TypeOK, ChaveInv, FicheiroGuardado, Guardado, RespostaCerta, Total
<1> QED BY <1>1, <1>2, <1>3, <1>4, <1>5, InvRemoto DEF Next

LEMMA InvSempre == ASSUME SigoAssumption PROVE Seguranca => []Inv
BY InvInit, InvNext, PTL DEF Seguranca

-----------------------------------------------------------------------------
(* The variables of Sigo keep their types, for every number of requests,   *)
(* submissions, retries and failures.                                      *)
THEOREM TypeCorrect == ASSUME SigoAssumption PROVE Spec => []TypeOK
<1>1. Inv => TypeOK
  BY DEF Inv, TypeInv
<1> QED BY <1>1, InvSempre, PTL DEF Spec

(* syncForTenant: a certificate shown as available has its file, whichever *)
(* requests and cron jobs run at the same time and wherever they stop.     *)
THEOREM CertificadoComFicheiro == ASSUME SigoAssumption PROVE Spec => []FicheiroGuardado
<1>1. Inv => FicheiroGuardado
  BY DEF Inv, ChaveInv
<1> QED BY <1>1, InvSempre, PTL DEF Spec

(* What SIGO has decided stays decided: rows are never deleted, ...        *)
LEMMA LinhasFicam ==
    ASSUME TypeOK, [Next]_vars, NEW n \in Submissoes
    PROVE  n \in Submissoes'
<1>0. submissao \in Seq(SubmissaoRow)
  BY DEF TypeOK
<1>1. ASSUME NEW p \in Pedidos, NEW op \in Endpoints, Submeter(p, op) PROVE n \in Submissoes'
  BY <1>0, <1>1 DEF Submeter, Submissoes
<1>2. ASSUME NEW p \in Pedidos, Chega(p) PROVE n \in Submissoes'
  BY <1>1, <1>2 DEF Chega, Reconciliar, Sincronizar, local, Submissoes
<1>3. ASSUME NEW p \in Pedidos,
             SubmeterGravar(p) \/ SubmeterFalhar(p) \/ SubmeterErro(p) \/ ReconciliarGravar(p)
      PROVE  n \in Submissoes'
  BY <1>0, <1>3
     DEF SubmeterGravar, SubmeterFalhar, SubmeterErro, ReconciliarGravar, Submetida, GravaEstado, Submissoes
<1>4. ASSUME NEW p \in Pedidos, Continua(p) PROVE n \in Submissoes'
  <2>1. CASE EnviarAceite(p) \/ CertContar(p)
    BY <2>1 DEF EnviarAceite, CertContar, local, Submissoes
  <2>2. CASE ReconciliarLer(p) \/ Consultar(p)
    <3>1. CASE ReconciliarLer(p)
      BY <3>1, Zenon DEF ReconciliarLer, local, Submissoes
    <3>2. CASE Consultar(p)
      BY <3>2, Zenon DEF Consultar, local, Submissoes
    <3> QED BY <2>2, <3>1, <3>2
  <2>3. CASE CertLer(p) \/ CertLinha(p)
    <3>1. UNCHANGED submissao
      BY <2>3 DEF CertLer, CertLinha, local
    <3> QED BY <3>1 DEF Submissoes
  <2>4. CASE CertTransferir(p) \/ CertGravar(p)
    <3>1. UNCHANGED submissao
      BY <2>4 DEF CertTransferir, CertGravar
    <3> QED BY <3>1 DEF Submissoes
  <2> QED BY <1>3, <1>4, <2>1, <2>2, <2>3, <2>4 DEF Continua
<1>5. ASSUME NEW p \in Pedidos,
             Cron(p) \/ EnviarRecusado(p) \/ EnviarPerdido(p) \/ Interromper(p)
      PROVE  n \in Submissoes'
  BY <1>5 DEF Cron, CronReconciliar, CronCertificados, Corre, EnviarRecusado, EnviarPerdido,
              Interromper, local, Submissoes
<1>6. CASE UNCHANGED vars \/ \E m \in Submissoes : Decidir(m) \/ Emitir(m)
  BY <1>6 DEF vars, Decidir, Emitir, local, Submissoes
<1> QED BY <1>2, <1>3, <1>4, <1>5, <1>6 DEF Next

(* ... and SIGO gives no second answer.                                    *)
LEMMA RemotoFica ==
    ASSUME TypeOK, [Next]_vars, NEW n \in 1..MaxSubmissoes, remoto[n] \in {"aceite", "rejeitada"}
    PROVE  remoto'[n] = remoto[n]
<1>0. remoto \in [1..MaxSubmissoes -> {"ausente", "recebida", "aceite", "rejeitada"}]
  BY DEF TypeOK
<1>1. ASSUME NEW m, Recebe(m) \/ Decidir(m) PROVE remoto'[n] = remoto[n]
  BY <1>0, <1>1 DEF Recebe, Decidir
<1>2. ASSUME NEW p \in Pedidos, EnviarAceite(p) \/ EnviarPerdido(p) PROVE remoto'[n] = remoto[n]
  BY <1>1, <1>2 DEF EnviarAceite, EnviarPerdido
<1>3. ASSUME NEW p \in Pedidos, Continua(p) PROVE remoto'[n] = remoto[n]
  <2>1. CASE SubmeterGravar(p) \/ SubmeterErro(p) \/ ReconciliarGravar(p)
    BY <2>1 DEF SubmeterGravar, SubmeterErro, ReconciliarGravar, MesmaSigo
  <2>2. CASE ReconciliarLer(p) \/ Consultar(p)
    <3>1. CASE ReconciliarLer(p)
      BY <3>1, Zenon DEF ReconciliarLer, MesmaSigo
    <3>2. CASE Consultar(p)
      BY <3>2, Zenon DEF Consultar, MesmaSigo
    <3> QED BY <2>2, <3>1, <3>2
  <2>3. CASE CertContar(p) \/ CertLer(p) \/ CertLinha(p)
    BY <2>3 DEF CertContar, CertLer, CertLinha, MesmaSigo
  <2>4. CASE CertTransferir(p) \/ CertGravar(p)
    BY <2>4 DEF CertTransferir, CertGravar, MesmaSigo
  <2> QED BY <1>2, <1>3, <2>1, <2>2, <2>3, <2>4 DEF Continua
<1>4. ASSUME NEW p \in Pedidos,
             Chega(p) \/ Cron(p) \/ EnviarRecusado(p) \/ SubmeterFalhar(p) \/ Interromper(p)
      PROVE  remoto'[n] = remoto[n]
  BY <1>4 DEF Chega, Submeter, Reconciliar, Sincronizar, Cron, CronReconciliar, CronCertificados,
              Corre, EnviarRecusado, SubmeterFalhar, Interromper, MesmaSigo
<1>5. CASE UNCHANGED vars \/ \E m \in Submissoes : Emitir(m)
  BY <1>5 DEF vars, Emitir
<1> QED BY <1>1, <1>2, <1>3, <1>4, <1>5 DEF Next

(* DecisaoChega for a submission says that its decision arrives in the     *)
(* end: the form in which TLC checks it and the one with ~> are the same.  *)
LEMMA DecisaoLevaA ==
    ASSUME SigoAssumption, NEW n \in 1..MaxSubmissoes
    PROVE  Seguranca => ([]<>(Decidida(n) => Conhecida(n)) <=> (Decidida(n) ~> Conhecida(n)))
<1>1. Inv => TypeOK
  BY DEF Inv, TypeInv
<1>2. TypeOK /\ [Next]_vars => (Decidida(n) => Decidida(n)')
  BY LinhasFicam, RemotoFica DEF Decidida
<1> QED BY <1>1, <1>2, InvSempre, PTL DEF Seguranca
-----------------------------------------------------------------------------
(* All the parts *)

LEMMA ParteFica == [NextTodas]_todas => parte' = parte
BY DEF NextTodas, OutrasQueSigo, OutrasQueContas, OutrasQueSessoes, OutrasQueComercial,
       OutrasQueCronogramas, OutrasQueFila, todas

(* The part at work behaves as its own specification says, and it is at    *)
(* work from the beginning or never.                                       *)
LEMMA ParteSigo == SpecTodas => \/ Seguranca /\ [](parte = "sigo")
                               \/ [](~(parte = "sigo"))
<1>1. InitTodas /\ parte = "sigo" => Init
  BY DEF InitTodas
<1>2. parte = "sigo" /\ [NextTodas]_todas => (parte = "sigo")' /\ [Next]_vars
  BY DEF NextTodas, OutrasQueSigo, todas, sigoVars, vars
<1>3. ~(parte = "sigo") /\ [NextTodas]_todas => ~(parte = "sigo")'
  BY ParteFica
<1> QED BY <1>1, <1>2, <1>3, PTL DEF SpecTodas, Seguranca

LEMMA ParteGestor == SpecTodas => \/ Gestor!Spec /\ [](parte = "gestor")
                                  \/ [](~(parte = "gestor"))
<1>1. InitTodas /\ parte = "gestor" => Gestor!Init
  BY DEF InitTodas
<1>2. parte = "gestor" /\ [NextTodas]_todas => (parte = "gestor")' /\ [Gestor!Next]_(Gestor!vars)
  BY DEF NextTodas, OutrasQueContas, todas, contasVars, Gestor!vars, Gestor!plano
<1>3. ~(parte = "gestor") /\ [NextTodas]_todas => ~(parte = "gestor")'
  BY ParteFica
<1> QED BY <1>1, <1>2, <1>3, PTL DEF SpecTodas, Gestor!Spec

LEMMA ParteLimite == SpecTodas => \/ Limite!Spec /\ [](parte = "limite")
                                  \/ [](~(parte = "limite"))
<1>1. InitTodas /\ parte = "limite" => Limite!Init
  BY DEF InitTodas
<1>2. parte = "limite" /\ [NextTodas]_todas => (parte = "limite")' /\ [Limite!Next]_(Limite!vars)
  BY DEF NextTodas, OutrasQueContas, todas, contasVars, Limite!vars, Limite!plano
<1>3. ~(parte = "limite") /\ [NextTodas]_todas => ~(parte = "limite")'
  BY ParteFica
<1> QED BY <1>1, <1>2, <1>3, PTL DEF SpecTodas, Limite!Spec

LEMMA ParteNavegacao == SpecTodas => \/ Navegacao!Spec /\ [](parte = "navegacao")
                                     \/ [](~(parte = "navegacao"))
<1>1. InitTodas /\ parte = "navegacao" => Navegacao!Init
  BY DEF InitTodas
<1>2. parte = "navegacao" /\ [NextTodas]_todas => (parte = "navegacao")' /\ [Navegacao!Next]_(Navegacao!vars)
  BY DEF NextTodas, OutrasQueSessoes, todas, sessoesVars, Navegacao!vars
<1>3. ~(parte = "navegacao") /\ [NextTodas]_todas => ~(parte = "navegacao")'
  BY ParteFica
<1> QED BY <1>1, <1>2, <1>3, PTL DEF SpecTodas, Navegacao!Spec

LEMMA ParteCortes == SpecTodas => \/ Cortes!Spec /\ [](parte = "cortes")
                                  \/ [](~(parte = "cortes"))
<1>1. InitTodas /\ parte = "cortes" => Cortes!Init
  BY DEF InitTodas
<1>2. parte = "cortes" /\ [NextTodas]_todas => (parte = "cortes")' /\ [Cortes!Next]_(Cortes!vars)
  BY DEF NextTodas, OutrasQueSessoes, todas, sessoesVars, Cortes!vars
<1>3. ~(parte = "cortes") /\ [NextTodas]_todas => ~(parte = "cortes")'
  BY ParteFica
<1> QED BY <1>1, <1>2, <1>3, PTL DEF SpecTodas, Cortes!Spec

LEMMA ParteFunil == SpecTodas => \/ Funil!Spec /\ [](parte = "funil")
                                 \/ [](~(parte = "funil"))
<1>1. InitTodas /\ parte = "funil" => Funil!Init
  BY DEF InitTodas
<1>2. parte = "funil" /\ [NextTodas]_todas => (parte = "funil")' /\ [Funil!Next]_(Funil!vars)
  BY DEF NextTodas, OutrasQueComercial, todas, comercialVars, Funil!vars
<1>3. ~(parte = "funil") /\ [NextTodas]_todas => ~(parte = "funil")'
  BY ParteFica
<1> QED BY <1>1, <1>2, <1>3, PTL DEF SpecTodas, Funil!Spec

LEMMA ParteImportar == SpecTodas => \/ Importar!Seguranca /\ [](parte = "importar")
                                    \/ [](~(parte = "importar"))
<1>1. InitTodas /\ parte = "importar" => Importar!Init
  BY DEF InitTodas
<1>2. parte = "importar" /\ [NextTodas]_todas => (parte = "importar")' /\ [Importar!Next]_(Importar!vars)
  BY DEF NextTodas, OutrasQueCronogramas, todas, cronogramasVars, Importar!vars
<1>3. ~(parte = "importar") /\ [NextTodas]_todas => ~(parte = "importar")'
  BY ParteFica
<1> QED BY <1>1, <1>2, <1>3, PTL DEF SpecTodas, Importar!Seguranca

LEMMA ParteTrabalhos == SpecTodas => \/ Trabalhos!Seguranca /\ [](parte = "trabalhos")
                                     \/ [](~(parte = "trabalhos"))
<1>1. InitTodas /\ parte = "trabalhos" => Trabalhos!Init
  BY DEF InitTodas
<1>2. parte = "trabalhos" /\ [NextTodas]_todas => (parte = "trabalhos")' /\ [Trabalhos!Next]_(Trabalhos!vars)
  BY DEF NextTodas, OutrasQueCronogramas, todas, cronogramasVars, Trabalhos!vars
<1>3. ~(parte = "trabalhos") /\ [NextTodas]_todas => ~(parte = "trabalhos")'
  BY ParteFica
<1> QED BY <1>1, <1>2, <1>3, PTL DEF SpecTodas, Trabalhos!Seguranca

LEMMA ParteFila == SpecTodas => \/ Fila!Spec /\ [](parte = "fila")
                                \/ [](~(parte = "fila"))
<1>1. InitTodas /\ parte = "fila" => Fila!Init
  BY DEF InitTodas
<1>2. parte = "fila" /\ [NextTodas]_todas => (parte = "fila")' /\ [Fila!Next]_(Fila!vars)
  BY DEF NextTodas, OutrasQueFila, todas, filaVars, Fila!vars, Fila!ambiente, Fila!varsFila, Fila!varsSessao
<1>3. ~(parte = "fila") /\ [NextTodas]_todas => ~(parte = "fila")'
  BY ParteFica
<1> QED BY <1>1, <1>2, <1>3, PTL DEF SpecTodas, Fila!Spec

-----------------------------------------------------------------------------
(* The types of the part at work, whatever requests each of them has.      *)
THEOREM TiposCorrectos == SpecTodas => []TodosTipos
<1>1. SpecTodas => [](parte = "sigo" => TypeOK)
  <2>1. Inv => TypeOK
    BY DEF Inv, TypeInv
  <2>2. Seguranca => []Inv
    BY InvSempre, InstanciasAssumption
  <2> QED BY <2>1, <2>2, ParteSigo, PTL
<1>2. SpecTodas => [](parte = "gestor" => Gestor!TypeOK)
  <2>1. Gestor!Spec => [](Gestor!TypeOK)
    BY Gestor!TypeCorrect, InstanciasAssumption
  <2> QED BY <2>1, ParteGestor, PTL
<1>3. SpecTodas => [](parte = "limite" => Limite!TypeOK)
  <2>1. Limite!Spec => [](Limite!TypeOK)
    BY Limite!TypeCorrect, InstanciasAssumption
  <2> QED BY <2>1, ParteLimite, PTL
<1>4. SpecTodas => [](parte = "navegacao" => Navegacao!TypeOK)
  <2>1. Navegacao!Spec => [](Navegacao!TypeOK)
    BY Navegacao!TypeCorrect, InstanciasAssumption
  <2> QED BY <2>1, ParteNavegacao, PTL
<1>5. SpecTodas => [](parte = "cortes" => Cortes!TypeOK)
  <2>1. Cortes!Spec => [](Cortes!TypeOK)
    BY Cortes!TypeCorrect, InstanciasAssumption
  <2> QED BY <2>1, ParteCortes, PTL
<1>6. SpecTodas => [](parte = "funil" => Funil!TypeOK)
  <2>1. Funil!Spec => [](Funil!TypeOK)
    BY Funil!TypeCorrect, InstanciasAssumption
  <2> QED BY <2>1, ParteFunil, PTL
<1>7. SpecTodas => [](parte = "importar" => Importar!TypeOK)
  <2>1. Importar!Inv => Importar!TypeOK
    BY DEF Importar!Inv
  <2>2. Importar!Seguranca => []Importar!Inv
    BY Importar!InvSempre, InstanciasAssumption
  <2> QED BY <2>1, <2>2, ParteImportar, PTL
<1>8. SpecTodas => [](parte = "trabalhos" => Trabalhos!TypeOK)
  <2>1. Trabalhos!Inv => Trabalhos!TypeOK
    BY DEF Trabalhos!Inv
  <2>2. Trabalhos!Seguranca => []Trabalhos!Inv
    BY Trabalhos!InvSempre, InstanciasAssumption
  <2> QED BY <2>1, <2>2, ParteTrabalhos, PTL
<1>9. SpecTodas => [](parte = "fila" => Fila!TypeOK)
  <2>1. Fila!Spec => [](Fila!TypeOK)
    BY Fila!TypeCorrect, InstanciasAssumption
  <2> QED BY <2>1, ParteFila, PTL
<1> QED BY <1>1, <1>2, <1>3, <1>4, <1>5, <1>6, <1>7, <1>8, <1>9, PTL DEF TodosTipos

(* users-policy.util.ts: active accounts within some limit that was in force, *)
(* where one request activates them.                                       *)
THEOREM LimiteNoSistema ==
    ASSUME Limite!UmAtivador PROVE SpecTodas => []LimiteRespeitado
<1>1. SpecTodas => [](parte = "limite" => Limite!LimiteRespeitado)
  <2>1. Limite!Spec => [](Limite!LimiteRespeitado)
    BY Limite!LimiteCorrecto, InstanciasAssumption
  <2> QED BY <2>1, ParteLimite, PTL
<1> QED BY <1>1, PTL DEF LimiteRespeitado

(* auth.service.ts: one active session for an account, where two requests  *)
(* never create sessions of the same one.                                  *)
THEOREM SessaoNoSistema ==
    ASSUME Navegacao!CriadorUnico, Cortes!CriadorUnico PROVE SpecTodas => []UmaSessaoPorConta
<1>1. SpecTodas => [](parte = "navegacao" => Navegacao!UmaSessaoPorConta)
  <2>1. Navegacao!Spec => [](Navegacao!UmaSessaoPorConta)
    BY Navegacao!SessaoUnica, InstanciasAssumption
  <2> QED BY <2>1, ParteNavegacao, PTL
<1>2. SpecTodas => [](parte = "cortes" => Cortes!UmaSessaoPorConta)
  <2>1. Cortes!Spec => [](Cortes!UmaSessaoPorConta)
    BY Cortes!SessaoUnica, InstanciasAssumption
  <2> QED BY <2>1, ParteCortes, PTL
<1> QED BY <1>1, <1>2, PTL DEF UmaSessaoPorConta

(* auth.service.ts: a browser whose session nobody ended has a live one,   *)
(* whatever is cut short.                                                  *)
THEOREM CookieNoSistema == SpecTodas => []CookieVivo
<1>1. SpecTodas => [](parte = "navegacao" => Navegacao!CookieVivo)
  <2>1. Navegacao!Spec => [](Navegacao!CookieVivo)
    BY Navegacao!CookieCorrecto, InstanciasAssumption
  <2> QED BY <2>1, ParteNavegacao, PTL
<1>2. SpecTodas => [](parte = "cortes" => Cortes!CookieVivo)
  <2>1. Cortes!Spec => [](Cortes!CookieVivo)
    BY Cortes!CookieCorrecto, InstanciasAssumption
  <2> QED BY <2>1, ParteCortes, PTL
<1> QED BY <1>1, <1>2, PTL DEF CookieVivo

(* proposal.service.ts: no company is a customer without an acceptance or a *)
(* registration by hand.                                                   *)
THEOREM ConversaoNoSistema == SpecTodas => []ConversaoAposAceite
<1>1. SpecTodas => [](parte = "funil" => Funil!ConversaoAposAceite)
  <2>1. Funil!Spec => [](Funil!ConversaoAposAceite)
    BY Funil!ConversaoCorrecta, InstanciasAssumption
  <2> QED BY <2>1, ParteFunil, PTL
<1> QED BY <1>1, PTL DEF ConversaoAposAceite

(* proposal.service.ts: the acceptance of a proposal reaches the company.  *)
THEOREM AceiteNoSistema ==
    ASSUME Funil!LeadsUnicos, Funil!UmaDoLead PROVE SpecTodas => []AceiteRegistado
<1>1. SpecTodas => [](parte = "funil" => Funil!AceiteRegistado)
  <2>1. Funil!Spec => [](Funil!AceiteRegistado)
    BY Funil!AceiteCorrecto, InstanciasAssumption
  <2> QED BY <2>1, ParteFunil, PTL
<1> QED BY <1>1, PTL DEF AceiteRegistado

(* cronograma-import-ia.service.ts: an import is there whole or not at all, *)
(* for any number of them.                                                 *)
THEOREM ImportacaoNoSistema == SpecTodas => []ImportacaoInteira
<1>1. SpecTodas => [](parte = "importar" => Importar!ImportacaoInteira)
  <2>1. Importar!Seguranca => [](Importar!ImportacaoInteira)
    BY Importar!InteiraSempre, InstanciasAssumption
  <2> QED BY <2>1, ParteImportar, PTL
<1>2. SpecTodas => [](parte = "trabalhos" => Trabalhos!ImportacaoInteira)
  <2>1. Trabalhos!Seguranca => [](Trabalhos!ImportacaoInteira)
    BY Trabalhos!InteiraSempre, InstanciasAssumption
  <2> QED BY <2>1, ParteTrabalhos, PTL
<1> QED BY <1>1, <1>2, PTL DEF ImportacaoInteira

(* cronograma-import-ia.service.ts: a job is APLICADO after its sessions were *)
(* created.                                                                *)
THEOREM AplicadoNoSistema == SpecTodas => []AplicadoFoiCriado
<1>1. SpecTodas => [](parte = "importar" => Importar!AplicadoFoiCriado)
  <2>1. Importar!Inv => Importar!AplicadoFoiCriado
    BY DEF Importar!Inv
  <2>2. Importar!Seguranca => []Importar!Inv
    BY Importar!InvSempre, InstanciasAssumption
  <2> QED BY <2>1, <2>2, ParteImportar, PTL
<1>2. SpecTodas => [](parte = "trabalhos" => Trabalhos!AplicadoFoiCriado)
  <2>1. Trabalhos!Inv => Trabalhos!AplicadoFoiCriado
    BY DEF Trabalhos!Inv
  <2>2. Trabalhos!Seguranca => []Trabalhos!Inv
    BY Trabalhos!InvSempre, InstanciasAssumption
  <2> QED BY <2>1, <2>2, ParteTrabalhos, PTL
<1> QED BY <1>1, <1>2, PTL DEF AplicadoFoiCriado

(* redis-queue.transport.ts: a call is recorded once, with any overlapping *)
(* workers, where there is no SQS.                                         *)
THEOREM RegistosNoSistema == SpecTodas => []SemRegistosRepetidos
<1>1. SpecTodas => [](parte = "fila" => Fila!SemRegistosRepetidos)
  <2>1. Fila!Spec => [](Fila!SemRegistosRepetidos)
    BY Fila!RegistosCorrectos, InstanciasAssumption
  <2> QED BY <2>1, ParteFila, PTL
<1> QED BY <1>1, PTL DEF SemRegistosRepetidos

(* lms.service.ts: entrances and exits of the portal alternate.            *)
THEOREM EntradasNoSistema ==
    ASSUME Fila!UmPedido, Fila!SoPeloPortal, Fila!SemDuracoes PROVE SpecTodas => []EntradasAlternadas
<1>1. SpecTodas => [](parte = "fila" => Fila!EntradasAlternadas)
  <2>1. Fila!Spec => [](Fila!EntradasAlternadas)
    BY Fila!EntradasCorrectas, InstanciasAssumption
  <2> QED BY <2>1, ParteFila, PTL
<1> QED BY <1>1, PTL DEF EntradasAlternadas

(* sessoes-formacao.service.ts: nobody stays inside a session that ended.  *)
THEOREM PresencaNoSistema ==
    ASSUME Fila!UmPedido, Fila!SoPeloPortal, Fila!SemDuracoes PROVE SpecTodas => []PresencaFechada
<1>1. SpecTodas => [](parte = "fila" => Fila!PresencaFechada)
  <2>1. Fila!Spec => [](Fila!PresencaFechada)
    BY Fila!PresencaCorrecta, InstanciasAssumption
  <2> QED BY <2>1, ParteFila, PTL
<1> QED BY <1>1, PTL DEF PresencaFechada

(* presenca.ts: the time credited is the time inside, for logs of any length. *)
THEOREM TempoNoSistema ==
    ASSUME Fila!UmPedido, Fila!SoPeloPortal, Fila!SemDuracoes PROVE SpecTodas => []TempoConfere
<1>1. SpecTodas => [](parte = "fila" => Fila!TempoConfere)
  <2>1. Fila!Spec => [](Fila!TempoConfere)
    BY Fila!TempoCorrecto, InstanciasAssumption
  <2> QED BY <2>1, ParteFila, PTL
<1> QED BY <1>1, PTL DEF TempoConfere

(* users-policy.util.ts: while an ADMIN is active, no endpoint of users    *)
(* leaves the tenant without a manager, whatever roles its query counts,   *)
(* where one request manages accounts.                                     *)
THEOREM AdminNoSistema ==
    ASSUME Gestor!UmQueGere PROVE SpecTodas => AdminSempreProtegido
<1>1. Gestor!Spec => [][Gestor!AdminProtegido]_(Gestor!vars)
  BY Gestor!AdminProtegidoCorrecto, InstanciasAssumption DEF Gestor!AdminSempreProtegido
<1>2. /\ [NextTodas]_todas /\ parte = "gestor" /\ [Gestor!AdminProtegido]_(Gestor!vars)
      => [parte = "gestor" => Gestor!AdminProtegido]_todas
  BY DEF NextTodas, OutrasQueContas, todas, contasVars, Gestor!vars, Gestor!plano
<1>3. ~(parte = "gestor") => [parte = "gestor" => Gestor!AdminProtegido]_todas
  OBVIOUS
<1> QED BY <1>1, <1>2, <1>3, ParteGestor, PTL DEF SpecTodas, AdminSempreProtegido

(* proposal.service.ts: who answered a proposal is not asked again, where one *)
(* request sends proposals.                                                *)
THEOREM RespostaNoSistema ==
    ASSUME Funil!UmEnvio PROVE SpecTodas => RespostaFica
<1>1. Funil!Spec => [][Funil!Fica]_(Funil!vars)
  BY Funil!RespostaFinal, InstanciasAssumption DEF Funil!RespostaFica
<1>2. /\ [NextTodas]_todas /\ parte = "funil" /\ [Funil!Fica]_(Funil!vars)
      => [parte = "funil" => Funil!Fica]_todas
  BY DEF NextTodas, OutrasQueComercial, todas, comercialVars, Funil!vars
<1>3. ~(parte = "funil") => [parte = "funil" => Funil!Fica]_todas
  OBVIOUS
<1> QED BY <1>1, <1>2, <1>3, ParteFunil, PTL DEF SpecTodas, RespostaFica
=============================================================================
