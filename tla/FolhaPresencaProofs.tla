------------------------- MODULE FolhaPresencaProofs -------------------------
(* Theorems about FolhaPresenca.  The types and PresenteSegueEstado hold   *)
(* for every set of concurrent requests; what the signatures promise,      *)
(* while nobody marks rows beside the one who validates or approves, nor   *)
(* checks in beside the one who approves.                                  *)
EXTENDS FolhaPresenca, TLAPS

-----------------------------------------------------------------------------
(* Rows *)

(* A row as the handlers leave it: typed, and present when it says so.     *)
Coerente(row) == row \in PresencaRow /\ (row.presente <=> row.estado = "PRESENTE")

(* updatePresenca computes a coherent row from a coherent one.             *)
LEMMA AplicarCoerente ==
    ASSUME NEW d \in Dtos, NEW row, Coerente(row)
    PROVE  Coerente(Aplicar(d, row))
<1>1. /\ d.estado \in Estados \cup {Nulo, "omitido"} /\ d.presente \in {"omitido", "sim", "nao"}
      /\ d.motivo \in {"omitido", "nulo", "branco", "texto"}
  BY DEF Dtos
<1>2. \A b \in BOOLEAN : MotivoNovo(d, b) \in BOOLEAN
  BY DEF MotivoNovo
<1>3. /\ row = [presente |-> row.presente, estado |-> row.estado, motivo |-> row.motivo]
      /\ row.presente \in BOOLEAN /\ row.estado \in Estados \cup {Nulo} /\ row.motivo \in BOOLEAN
      /\ row.presente <=> row.estado = "PRESENTE"
  BY DEF Coerente, PresencaRow
<1>4. CASE d.estado = "omitido" /\ d.presente = "omitido"
  <2>1. Aplicar(d, row) = [row EXCEPT !.motivo = MotivoNovo(d, row.motivo)]
    BY <1>4 DEF Aplicar
  <2>2. [row EXCEPT !.motivo = MotivoNovo(d, row.motivo)]
          = [presente |-> row.presente, estado |-> row.estado, motivo |-> MotivoNovo(d, row.motivo)]
    BY <1>3
  <2>3. MotivoNovo(d, row.motivo) \in BOOLEAN
    BY <1>2, <1>3
  <2> QED BY <1>3, <2>1, <2>2, <2>3 DEF Coerente, PresencaRow
<1>5. CASE d.estado = "omitido" /\ d.presente # "omitido"
  <2>1. Aplicar(d, row) =
          [presente |-> d.presente = "sim",
           estado |-> IF d.presente = "sim" THEN "PRESENTE" ELSE "FALTA_INJUSTIFICADA",
           motivo |-> MotivoNovo(d, row.motivo)]
    BY <1>5 DEF Aplicar
  <2>2. MotivoNovo(d, row.motivo) \in BOOLEAN
    BY <1>2, <1>3
  <2>3. CASE d.presente = "sim"
    <3>1. Aplicar(d, row) = [presente |-> TRUE, estado |-> "PRESENTE", motivo |-> MotivoNovo(d, row.motivo)]
      BY <2>1, <2>3
    <3> QED BY <2>2, <3>1 DEF Coerente, PresencaRow, Estados
  <2>4. CASE d.presente # "sim"
    <3>1. Aplicar(d, row) =
            [presente |-> FALSE, estado |-> "FALTA_INJUSTIFICADA", motivo |-> MotivoNovo(d, row.motivo)]
      BY <2>1, <2>4
    <3> QED BY <2>2, <3>1 DEF Coerente, PresencaRow, Estados
  <2> QED BY <2>3, <2>4
<1>6. CASE d.estado # "omitido"
  <2>1. Aplicar(d, row) =
          [presente |-> d.estado = "PRESENTE", estado |-> d.estado,
           motivo |-> MotivoNovo(d, d.estado = "FALTA_JUSTIFICADA" /\ row.motivo)]
    BY <1>6 DEF Aplicar
  <2>2. (d.estado = "FALTA_JUSTIFICADA" /\ row.motivo) \in BOOLEAN
    OBVIOUS
  <2>3. MotivoNovo(d, d.estado = "FALTA_JUSTIFICADA" /\ row.motivo) \in BOOLEAN
    BY <1>2, <2>2
  <2>4. d.estado \in Estados \cup {Nulo}
    BY <1>1, <1>6
  <2> DEFINE t == MotivoNovo(d, d.estado = "FALTA_JUSTIFICADA" /\ row.motivo)
  <2> HIDE DEF t
  <2>5. CASE d.estado = "PRESENTE"
    <3>1. Aplicar(d, row) = [presente |-> TRUE, estado |-> "PRESENTE", motivo |-> t]
      BY <2>1, <2>5 DEF t
    <3> QED BY <2>3, <3>1 DEF Coerente, PresencaRow, Estados, t
  <2>6. CASE d.estado # "PRESENTE"
    <3>1. Aplicar(d, row) = [presente |-> FALSE, estado |-> d.estado, motivo |-> t]
      BY <2>1, <2>6 DEF t
    <3>2. t \in BOOLEAN
      BY <2>3 DEF t
    <3> QED BY <2>4, <2>6, <3>1, <3>2 DEF Coerente, PresencaRow
  <2> QED BY <2>5, <2>6
<1> QED BY <1>4, <1>5, <1>6

LEMMA NovasCoerentes == Coerente(Vazia) /\ Coerente(Presente)
BY NuloAssumption DEF Coerente, Vazia, Presente, PresencaRow, Estados

(* The rows of the sheet, and what a handler writes over one of them.      *)
Linhas(q) ==
    /\ DOMAIN q \subseteq Matriculas
    /\ q = [m \in DOMAIN q |-> q[m]]
    /\ \A m \in DOMAIN q : Coerente(q[m])

LEMMA LinhasUma ==
    ASSUME Linhas(presenca), NEW m \in Matriculas, NEW row, Coerente(row)
    PROVE  Linhas([presenca EXCEPT ![m] = row])
BY DEF Linhas

LEMMA LinhasCompletar ==
    ASSUME Linhas(presenca), NEW lista \in SUBSET Matriculas
    PROVE  Linhas(Completar(lista))
BY NovasCoerentes DEF Linhas, Completar, ComLinha

-----------------------------------------------------------------------------
(* Types.  A handler past the point where it found or created the sheet    *)
(* goes on with the sheet: nothing deletes one.                            *)
PassosComFolha ==
    {"checkin.presenca", "checkin.inserir", "checkin.reabrir", "checkin.gravar",
     "marcar.reabrir", "marcar.gravar", "validar.gravar", "aprovar.gravar",
     "sinc.linhas", "sinc.marcar"}
ComFolha == \A p \in Pedidos : pedido[p].pc \in PassosComFolha => folha # {}

TipoInv == TypeOK /\ PresenteSegueEstado /\ ComFolha

(* What a request that has read holds.                                     *)
LEMMA PedidoTipo ==
    ASSUME TypeOK, NEW p \in Pedidos
    PROVE  /\ pedido[p].pc \in {"checkin.folha", "checkin.presenca", "checkin.criar", "checkin.inserir"} =>
                /\ pedido[p].m \in Matriculas /\ pedido[p].lida \in SUBSET FolhaRow
                /\ pedido[p] = [pc |-> pedido[p].pc, m |-> pedido[p].m, lida |-> pedido[p].lida]
           /\ pedido[p].pc \in {"checkin.reabrir", "checkin.gravar"} =>
                /\ pedido[p].m \in Matriculas
                /\ pedido[p] = [pc |-> pedido[p].pc, m |-> pedido[p].m]
           /\ pedido[p].pc \in {"marcar.reabrir", "marcar.gravar"} =>
                /\ pedido[p].m \in Matriculas /\ pedido[p].dto \in Dtos
                /\ pedido[p] = [pc |-> pedido[p].pc, m |-> pedido[p].m, dto |-> pedido[p].dto]
           /\ pedido[p].pc \in {"criar.gravar", "sinc.folha", "sinc.criar", "sinc.linhas", "sinc.marcar"} =>
                /\ pedido[p].lista \in SUBSET Matriculas
                /\ pedido[p] = [pc |-> pedido[p].pc, lista |-> pedido[p].lista]
<1>1. pedido[p] \in PedidoRow
  BY DEF TypeOK
<1> QED BY <1>1 DEF PedidoRow, Livre

(* A step of a request: the records it may leave behind.                   *)
LEMMA SegueTipo ==
    ASSUME TypeOK, NEW p \in Pedidos, NEW r \in PedidoRow, Segue(p, r)
    PROVE  pedido' \in [Pedidos -> PedidoRow]
BY DEF Segue, TypeOK

LEMMA SegueComFolha ==
    ASSUME TipoInv, NEW p \in Pedidos, NEW r, Segue(p, r),
           folha # {} => folha' # {}, r.pc \in PassosComFolha => folha' # {}
    PROVE  ComFolha'
BY DEF Segue, TipoInv, TypeOK, ComFolha

LEMMA CheckinSegue ==
    ASSUME TypeOK, NEW p \in Pedidos, pedido[p].pc \in {"checkin.folha", "checkin.criar"},
           NEW pc \in {"checkin.presenca", "checkin.criar"}, NEW lida \in SUBSET FolhaRow
    PROVE  LET n == [pedido[p] EXCEPT !.pc = pc, !.lida = lida]
           IN  n \in PedidoRow /\ n.pc = pc
<1> DEFINE r == pedido[p]
           T == [pc: {"checkin.folha", "checkin.presenca", "checkin.criar", "checkin.inserir"},
                 m: Matriculas, lida: SUBSET FolhaRow]
<1>1. r \in T
  BY DEF TypeOK, PedidoRow, Livre
<1> HIDE DEF r
<1>2. [r EXCEPT !.pc = pc, !.lida = lida] \in T /\ [r EXCEPT !.pc = pc, !.lida = lida].pc = pc
  BY <1>1
<1> QED BY <1>2 DEF r, PedidoRow

(* Types of the records, by the program counter.                           *)
LEMMA LivreTipo == Livre \in PedidoRow /\ Livre.pc \notin PassosComFolha
BY DEF PedidoRow, Livre, PassosComFolha
LEMMA CheckinTipo ==
    ASSUME NEW pc \in {"checkin.folha", "checkin.presenca", "checkin.criar", "checkin.inserir"},
           NEW m \in Matriculas, NEW lida \in SUBSET FolhaRow
    PROVE  [pc |-> pc, m |-> m, lida |-> lida] \in PedidoRow
BY DEF PedidoRow
LEMMA GravarTipo ==
    ASSUME NEW pc \in {"checkin.reabrir", "checkin.gravar"}, NEW m \in Matriculas
    PROVE  [pc |-> pc, m |-> m] \in PedidoRow
BY DEF PedidoRow
LEMMA MarcarTipo ==
    ASSUME NEW pc \in {"marcar.reabrir", "marcar.gravar"}, NEW m \in Matriculas, NEW dto \in Dtos
    PROVE  [pc |-> pc, m |-> m, dto |-> dto] \in PedidoRow
BY DEF PedidoRow
LEMMA ListaTipo ==
    ASSUME NEW pc \in {"criar.gravar", "sinc.folha", "sinc.criar", "sinc.linhas", "sinc.marcar"},
           NEW lista \in SUBSET Matriculas
    PROVE  [pc |-> pc, lista |-> lista] \in PedidoRow
BY DEF PedidoRow
LEMMA AssinarTipo ==
    ASSUME NEW pc \in {"validar.gravar", "aprovar.gravar", "terminar.sinc"}
    PROVE  [pc |-> pc] \in PedidoRow
BY DEF PedidoRow
LEMMA TerminarTipo ==
    ASSUME NEW b \in BOOLEAN
    PROVE  [pc |-> "terminar.gravar", lms |-> b] \in PedidoRow
BY DEF PedidoRow

(* The parts of the invariant that speak of the rows, as one.              *)
LEMMA TipoLinhas ==
    TipoInv => /\ Linhas(presenca)
               /\ \E f \in FolhaRow : folha \in {{}, {f}}
               /\ folha = {} => presenca = <<>>
BY DEF TipoInv, TypeOK, PresenteSegueEstado, Linhas, Coerente, ComLinha

LEMMA LinhasTipo ==
    ASSUME Linhas(presenca)
    PROVE  /\ ComLinha \subseteq Matriculas /\ presenca \in [ComLinha -> PresencaRow]
           /\ PresenteSegueEstado
BY DEF PresenteSegueEstado, Linhas, Coerente, ComLinha

(* What is left to show of a step, once its rows and its record are known. *)
LEMMA TipoPasso ==
    ASSUME TipoInv, NEW p \in Pedidos, NEW r \in PedidoRow, Segue(p, r),
           Linhas(presenca)', folha # {} => folha' # {}, r.pc \in PassosComFolha => folha' # {},
           \E f \in FolhaRow : folha' \in {{}, {f}}, folha' = {} => presenca' = <<>>,
           lmsAtivo' = lmsAtivo, teveLms' = teveLms, iniciada' = iniciada,
           terminada' \in BOOLEAN, ativas' = ativas,
           falhas' \in Nat
    PROVE  TipoInv'
<1>1. pedido' \in [Pedidos -> PedidoRow]
  BY SegueTipo DEF TipoInv
<1>2. ComFolha'
  BY SegueComFolha
<1>3. Linhas(presenca)' => (/\ ComLinha \subseteq Matriculas /\ presenca \in [ComLinha -> PresencaRow]
                           /\ PresenteSegueEstado)'
  BY DEF PresenteSegueEstado, Linhas, Coerente, ComLinha
<1> QED BY <1>1, <1>2, <1>3 DEF TipoInv, TypeOK

(* A step that only moves the request on.                                  *)
LEMMA TipoSoPedido ==
    ASSUME TipoInv, NEW p \in Pedidos, NEW r \in PedidoRow, Segue(p, r),
           r.pc \in PassosComFolha => folha # {}, SemMudarSessao, UNCHANGED dados
    PROVE  TipoInv'
<1>1. Linhas(presenca)'
  BY TipoLinhas DEF Linhas, dados
<1>2. UNCHANGED <<folha, presenca, lmsAtivo, teveLms, iniciada, terminada, ativas, falhas>>
  BY DEF SemMudarSessao, dados
<1>3. terminada \in BOOLEAN /\ falhas \in Nat
  BY DEF TipoInv, TypeOK
<1> QED BY ONLY TipoInv, p \in Pedidos, r \in PedidoRow, Segue(p, r), <1>1, <1>2, <1>3,
                r.pc \in PassosComFolha => folha # {}, TipoLinhas, TipoPasso

(* A step that writes the sheet, and one that writes the rows.             *)
LEMMA TipoSoFolha ==
    ASSUME TipoInv, NEW p \in Pedidos, NEW r \in PedidoRow, Segue(p, r),
           NEW f \in FolhaRow, folha' = {f}, SemMudarSessao, UNCHANGED presenca
    PROVE  TipoInv'
<1>1. Linhas(presenca)'
  BY TipoLinhas DEF Linhas
<1>2. UNCHANGED <<lmsAtivo, teveLms, iniciada, terminada, ativas, falhas>> /\ folha' # {}
  BY DEF SemMudarSessao
<1>3. terminada \in BOOLEAN /\ falhas \in Nat
  BY DEF TipoInv, TypeOK
<1> QED BY ONLY TipoInv, p \in Pedidos, r \in PedidoRow, Segue(p, r), <1>1, <1>2, <1>3,
                f \in FolhaRow, folha' = {f}, TipoPasso

LEMMA TipoSoLinhas ==
    ASSUME TipoInv, NEW p \in Pedidos, NEW r \in PedidoRow, Segue(p, r),
           Linhas(presenca)', folha # {}, SemMudarSessao, UNCHANGED folha
    PROVE  TipoInv'
<1>1. UNCHANGED <<folha, lmsAtivo, teveLms, iniciada, terminada, ativas, falhas>>
  BY DEF SemMudarSessao
<1>2. terminada \in BOOLEAN /\ falhas \in Nat
  BY DEF TipoInv, TypeOK
<1> QED BY ONLY TipoInv, p \in Pedidos, r \in PedidoRow, Segue(p, r), <1>1, <1>2,
                Linhas(presenca)', folha # {}, TipoLinhas, TipoPasso

LEMMA AbertaTipo == Aberta \in FolhaRow
BY DEF Aberta, FolhaRow

LEMMA TipoCriar == ASSUME TipoInv, NEW p \in Pedidos, CriarLer(p) \/ CriarGravar(p) PROVE TipoInv'
<1>1. CASE CriarLer(p)
  <2>1. [pc |-> "criar.gravar", lista |-> ativas] \in PedidoRow
    BY ListaTipo DEF TipoInv, TypeOK
  <2> QED BY <1>1, <2>1, TipoSoPedido DEF CriarLer, PassosComFolha
<1>2. CASE CriarGravar(p)
  <2>1. CASE folha = {}
    <3>1. pedido[p].lista \in SUBSET Matriculas
      BY <1>2, PedidoTipo DEF CriarGravar, TipoInv
    <3>2. folha' = {Aberta} /\ presenca' = Completar(pedido[p].lista) /\ Segue(p, Livre) /\ SemMudarSessao
      BY <1>2, <2>1 DEF CriarGravar
    <3>3. Linhas(presenca')
      BY <3>1, <3>2, LinhasCompletar, TipoLinhas
    <3>4. terminada \in BOOLEAN /\ falhas \in Nat /\ folha' # {}
      BY <3>2 DEF TipoInv, TypeOK
    <3>5. Linhas(presenca)'
      BY <3>3 DEF Linhas
    <3> QED BY <3>2, <3>4, <3>5, AbertaTipo, LivreTipo, TipoPasso DEF SemMudarSessao
  <2>2. CASE folha # {}
    BY <1>2, <2>2, LivreTipo, TipoSoPedido DEF CriarGravar
  <2> QED BY <2>1, <2>2
<1> QED BY <1>1, <1>2

LEMMA TipoCheckin == ASSUME TipoInv, NEW p \in Pedidos, Checkin(p) PROVE TipoInv'
<1> DEFINE r == pedido[p]
<1>1. ASSUME NEW m \in Matriculas, CheckinLer(p, m) PROVE TipoInv'
  <2>1. [pc |-> "checkin.folha", m |-> m, lida |-> {}] \in PedidoRow
    BY CheckinTipo
  <2> QED BY <1>1, <2>1, TipoSoPedido DEF CheckinLer, PassosComFolha
<1>2. CASE CheckinFolha(p)
  <2> DEFINE pc == IF folha = {} THEN "checkin.criar" ELSE "checkin.presenca"
  <2> DEFINE n == [r EXCEPT !.pc = pc, !.lida = folha]
  <2>1. folha \in SUBSET FolhaRow
    BY TipoLinhas
  <2>2. n \in PedidoRow /\ n.pc = pc
    BY <1>2, <2>1, CheckinSegue DEF CheckinFolha, TipoInv
  <2>3. pc \in PassosComFolha => folha # {}
    BY DEF PassosComFolha
  <2>4. Segue(p, n)
    BY <1>2 DEF CheckinFolha
  <2> HIDE DEF n, pc
  <2> QED BY <1>2, <2>2, <2>3, <2>4, TipoSoPedido DEF CheckinFolha
<1>3. CASE CheckinCriar(p)
  <2>1. CASE folha = {}
    <3> DEFINE n == [r EXCEPT !.pc = "checkin.presenca", !.lida = {Aberta}]
    <3>1. n \in PedidoRow
      BY <1>3, AbertaTipo, CheckinSegue DEF CheckinCriar, TipoInv
    <3>3. folha' = {Aberta} /\ presenca' = Completar(ativas) /\ SemMudarSessao /\ Segue(p, n)
      BY <1>3, <2>1 DEF CheckinCriar
    <3> HIDE DEF n
    <3>4. terminada \in BOOLEAN /\ falhas \in Nat /\ folha' # {} /\ ativas \in SUBSET Matriculas
      BY <3>3 DEF TipoInv, TypeOK
    <3>5. Linhas(presenca')
      BY <3>3, <3>4, LinhasCompletar, TipoLinhas
    <3>6. Linhas(presenca)'
      BY <3>5 DEF Linhas
    <3> QED BY <3>1, <3>3, <3>4, <3>6, AbertaTipo, TipoPasso DEF SemMudarSessao
  <2>2. CASE folha # {}
    BY <1>3, <2>2, LivreTipo, TipoSoPedido DEF CheckinCriar
  <2> QED BY <2>1, <2>2
<1>4. CASE CheckinPresenca(p)
  <2>1. /\ r.pc = "checkin.presenca" /\ r.m \in Matriculas /\ r.lida \in SUBSET FolhaRow
        /\ r = [pc |-> r.pc, m |-> r.m, lida |-> r.lida]
    BY <1>4, PedidoTipo DEF CheckinPresenca, TipoInv
  <2>2. folha # {}
    BY <2>1 DEF TipoInv, ComFolha, PassosComFolha
  <2>3. [r EXCEPT !.pc = "checkin.inserir"] \in PedidoRow
    BY <2>1, CheckinTipo
  <2>4. \A pc \in {"checkin.reabrir", "checkin.gravar"} : [pc |-> pc, m |-> r.m] \in PedidoRow
    BY <2>1, GravarTipo
  <2>5. \E n \in PedidoRow : Segue(p, n)
    BY <1>4, <2>3, <2>4, LivreTipo DEF CheckinPresenca
  <2> QED BY <1>4, <2>2, <2>5, TipoSoPedido DEF CheckinPresenca
<1>5. CASE CheckinInserir(p)
  <2>1. r.m \in Matriculas /\ folha # {}
    BY <1>5, PedidoTipo DEF CheckinInserir, TipoInv, ComFolha, PassosComFolha
  <2>2. Linhas(presenca)'
    <3>1. CASE r.m \in ComLinha
      BY <1>5, <3>1, TipoLinhas DEF CheckinInserir, Linhas
    <3>2. CASE r.m \notin ComLinha
      <4>1. presenca' = [x \in ComLinha \cup {r.m} |-> IF x = r.m THEN Presente ELSE presenca[x]]
        BY <1>5, <3>2 DEF CheckinInserir
      <4> QED BY <2>1, <4>1, TipoLinhas, NovasCoerentes DEF Linhas, ComLinha
    <3> QED BY <3>1, <3>2
  <2> QED BY <1>5, <2>1, <2>2, LivreTipo, TipoSoLinhas DEF CheckinInserir
<1>6. CASE CheckinReabrir(p)
  <2>1. r.m \in Matriculas /\ r = [pc |-> r.pc, m |-> r.m]
    BY <1>6, PedidoTipo DEF CheckinReabrir, TipoInv
  <2>2. [r EXCEPT !.pc = "checkin.gravar"] \in PedidoRow
    BY <2>1, GravarTipo
  <2> QED BY <1>6, <2>2, AbertaTipo, TipoSoFolha DEF CheckinReabrir, Reabrir
<1>7. CASE CheckinGravar(p)
  <2>1. r.m \in Matriculas /\ folha # {}
    BY <1>7, PedidoTipo DEF CheckinGravar, TipoInv, ComFolha, PassosComFolha
  <2>2. Linhas([presenca EXCEPT ![r.m] = Presente])
    BY <2>1, LinhasUma, NovasCoerentes, TipoLinhas
  <2>3. Linhas(presenca)'
    BY <1>7, <2>2 DEF CheckinGravar, Linhas
  <2> QED BY <1>7, <2>1, <2>3, LivreTipo, TipoSoLinhas DEF CheckinGravar
<1> QED BY <1>1, <1>2, <1>3, <1>4, <1>5, <1>6, <1>7 DEF Checkin

LEMMA TipoMarcar == ASSUME TipoInv, NEW p \in Pedidos, Marcar(p) PROVE TipoInv'
<1> DEFINE r == pedido[p]
<1>1. ASSUME NEW m \in Matriculas, NEW d \in Dtos, MarcarLer(p, m, d) PROVE TipoInv'
  <2>1. PICK pc \in {"marcar.reabrir", "marcar.gravar"} : Segue(p, [pc |-> pc, m |-> m, dto |-> d])
    BY <1>1 DEF MarcarLer
  <2>2. [pc |-> pc, m |-> m, dto |-> d] \in PedidoRow
    BY MarcarTipo
  <2> QED BY <1>1, <2>1, <2>2, TipoSoPedido DEF MarcarLer
<1>2. CASE MarcarReabrir(p)
  <2>1. r.m \in Matriculas /\ r.dto \in Dtos /\ r = [pc |-> r.pc, m |-> r.m, dto |-> r.dto]
    BY <1>2, PedidoTipo DEF MarcarReabrir, TipoInv
  <2>2. [r EXCEPT !.pc = "marcar.gravar"] \in PedidoRow
    BY <2>1, MarcarTipo
  <2> QED BY <1>2, <2>2, AbertaTipo, TipoSoFolha DEF MarcarReabrir, Reabrir
<1>3. CASE MarcarGravar(p)
  <2>1. r.m \in Matriculas /\ r.dto \in Dtos /\ folha # {}
    BY <1>3, PedidoTipo DEF MarcarGravar, TipoInv, ComFolha, PassosComFolha
  <2>2. presenca' = [presenca EXCEPT ![r.m] = Aplicar(r.dto, presenca[r.m])]
    BY <1>3 DEF MarcarGravar
  <2>3. Linhas(presenca)'
    <3>1. CASE r.m \in ComLinha
      <4>1. Coerente(Aplicar(r.dto, presenca[r.m]))
        BY <2>1, <3>1, TipoLinhas, AplicarCoerente DEF Linhas, ComLinha
      <4>2. Linhas([presenca EXCEPT ![r.m] = Aplicar(r.dto, presenca[r.m])])
        BY <2>1, <4>1, LinhasUma, TipoLinhas
      <4> QED BY <2>2, <4>2 DEF Linhas
    <3>2. CASE r.m \notin ComLinha
      BY <2>2, <3>2, TipoLinhas DEF Linhas, ComLinha
    <3> QED BY <3>1, <3>2
  <2> QED BY <1>3, <2>1, <2>3, LivreTipo, TipoSoLinhas DEF MarcarGravar
<1> QED BY <1>1, <1>2, <1>3 DEF Marcar

LEMMA TipoAssinar == ASSUME TipoInv, NEW p \in Pedidos, Assinar(p) PROVE TipoInv'
<1>1. CASE ValidarLer(p)
  <2>1. [pc |-> "validar.gravar"] \in PedidoRow
    BY AssinarTipo
  <2> QED BY <1>1, <2>1, TipoSoPedido DEF ValidarLer
<1>2. CASE ValidarGravar(p)
  <2>1. [validada |-> TRUE, aprovada |-> FALSE, fechada |-> FALSE] \in FolhaRow
    BY DEF FolhaRow
  <2> QED BY <1>2, <2>1, LivreTipo, TipoSoFolha DEF ValidarGravar
<1>3. CASE AprovarLer(p)
  <2>1. [pc |-> "aprovar.gravar"] \in PedidoRow
    BY AssinarTipo
  <2> QED BY <1>3, <2>1, TipoSoPedido DEF AprovarLer
<1>4. CASE AprovarGravar(p)
  <2>1. folha # {}
    BY <1>4 DEF AprovarGravar, TipoInv, ComFolha, PassosComFolha
  <2>2. PICK f \in FolhaRow : folha = {f}
    BY <2>1, TipoLinhas
  <2>3. folha' = {[f EXCEPT !.aprovada = TRUE, !.fechada = TRUE]}
    BY <1>4, <2>2 DEF AprovarGravar
  <2>4. [f EXCEPT !.aprovada = TRUE, !.fechada = TRUE] \in FolhaRow
    BY DEF FolhaRow
  <2> QED BY <1>4, <2>3, <2>4, LivreTipo, TipoSoFolha DEF AprovarGravar
<1> QED BY <1>1, <1>2, <1>3, <1>4 DEF Assinar

LEMMA TipoSincronizar == ASSUME TipoInv, NEW p \in Pedidos, Sincronizar(p) PROVE TipoInv'
<1> DEFINE r == pedido[p]
           lida == [pc |-> "sinc.folha", lista |-> ativas]
<1>0. lida \in PedidoRow /\ lida.pc \notin PassosComFolha
  BY ListaTipo DEF TipoInv, TypeOK, PassosComFolha
<1>1. CASE SincronizarLer(p)
  <2>1. \E n \in PedidoRow : Segue(p, n) /\ n.pc \notin PassosComFolha
    BY <1>0, <1>1, LivreTipo DEF SincronizarLer
  <2> HIDE DEF lida
  <2> QED BY <1>1, <2>1, TipoSoPedido DEF SincronizarLer
<1>2. CASE TerminarLer(p) \/ TerminarGravar(p)
  <2>1. [pc |-> "terminar.sinc"] \in PedidoRow /\ "terminar.sinc" \notin PassosComFolha
    BY AssinarTipo DEF PassosComFolha
  <2>2. CASE TerminarLer(p)
    <3>1. /\ [pc |-> "terminar.gravar", lms |-> lmsAtivo] \in PedidoRow
          /\ "terminar.gravar" \notin PassosComFolha
      BY TerminarTipo DEF TipoInv, TypeOK, PassosComFolha
    <3> QED BY <2>2, <3>1, TipoSoPedido DEF TerminarLer
  <2>3. CASE TerminarGravar(p)
    <3>1. Linhas(presenca)' /\ UNCHANGED <<folha, presenca>>
      BY <2>3, TipoLinhas DEF TerminarGravar, dados, Linhas
    <3>2. falhas \in Nat
      BY DEF TipoInv, TypeOK
    <3>3. \E n \in PedidoRow : Segue(p, n) /\ n.pc \notin PassosComFolha
      BY <2>1, <2>3, LivreTipo DEF TerminarGravar
    <3> QED BY <2>1, <2>3, <3>1, <3>2, <3>3, TipoLinhas, TipoPasso DEF TerminarGravar
  <2> QED BY <1>2, <2>2, <2>3
<1>3. CASE SincronizarFolha(p)
  <2>1. r.pc = "sinc.folha" /\ r.lista \in SUBSET Matriculas /\ r = [pc |-> r.pc, lista |-> r.lista]
    BY <1>3, PedidoTipo DEF SincronizarFolha, TipoInv
  <2>2. \A pc \in {"sinc.criar", "sinc.marcar"} : [r EXCEPT !.pc = pc] \in PedidoRow
                                               /\ [r EXCEPT !.pc = pc].pc = pc
    BY <2>1, ListaTipo
  <2>3. \E n \in PedidoRow : Segue(p, n) /\ (n.pc \in PassosComFolha => folha # {})
    BY <1>3, <2>2 DEF SincronizarFolha, PassosComFolha
  <2> QED BY <1>3, <2>3, TipoSoPedido DEF SincronizarFolha
<1>4. CASE SincronizarCriar(p)
  <2>1. r.lista \in SUBSET Matriculas /\ r = [pc |-> r.pc, lista |-> r.lista]
    BY <1>4, PedidoTipo DEF SincronizarCriar, TipoInv
  <2>2. [r EXCEPT !.pc = "sinc.linhas"] \in PedidoRow
    BY <2>1, ListaTipo
  <2>3. CASE folha = {}
    BY <1>4, <2>2, <2>3, AbertaTipo, TipoSoFolha DEF SincronizarCriar
  <2>4. CASE folha # {}
    BY <1>4, <2>4, LivreTipo, TipoSoPedido DEF SincronizarCriar, dados
  <2> QED BY <2>3, <2>4
<1>5. CASE SincronizarLinhas(p)
  <2>1. /\ r.lista \in SUBSET Matriculas /\ r = [pc |-> r.pc, lista |-> r.lista]
        /\ folha # {}
    BY <1>5, PedidoTipo DEF SincronizarLinhas, TipoInv, ComFolha, PassosComFolha
  <2>2. [r EXCEPT !.pc = "sinc.marcar"] \in PedidoRow
    BY <2>1, ListaTipo
  <2>3. Linhas(Completar(r.lista))
    BY <2>1, LinhasCompletar, TipoLinhas
  <2>4. Linhas(presenca)'
    BY <1>5, <2>3 DEF SincronizarLinhas, Linhas
  <2> QED BY <1>5, <2>1, <2>2, <2>4, TipoSoLinhas DEF SincronizarLinhas
<1>6. ASSUME NEW m \in Matriculas, NEW b \in BOOLEAN, SincronizarMarcar(p, m, b) PROVE TipoInv'
  <2>1. /\ r.lista \in SUBSET Matriculas /\ r = [pc |-> r.pc, lista |-> r.lista]
        /\ r.pc = "sinc.marcar" /\ folha # {}
    BY <1>6, PedidoTipo DEF SincronizarMarcar, TipoInv, ComFolha, PassosComFolha
  <2>2. [r EXCEPT !.lista = r.lista \ {m}] \in PedidoRow
    BY <2>1, ListaTipo
  <2>3. \E n \in PedidoRow : Segue(p, n)
    BY <1>6, <2>2, LivreTipo DEF SincronizarMarcar
  <2>4. Linhas(presenca)'
    <3> DEFINE e == IF b THEN "PRESENTE" ELSE Nulo
    <3>1. CASE m \in ComLinha
      <4>1. Coerente(presenca[m])
        BY <3>1, TipoLinhas DEF Linhas, ComLinha
      <4>2. Coerente([presenca[m] EXCEPT !.presente = b, !.estado = e])
        BY <4>1, NuloAssumption DEF Coerente, PresencaRow, Estados
      <4>3. presenca' = [presenca EXCEPT ![m] = [presenca[m] EXCEPT !.presente = b, !.estado = e]]
        BY <1>6, <3>1, TipoLinhas DEF SincronizarMarcar, Linhas, ComLinha
      <4> HIDE DEF e
      <4>4. Linhas([presenca EXCEPT ![m] = [presenca[m] EXCEPT !.presente = b, !.estado = e]])
        BY <4>2, LinhasUma, TipoLinhas
      <4> QED BY <4>3, <4>4 DEF Linhas
    <3>2. CASE m \notin ComLinha
      BY <1>6, <3>2, TipoLinhas DEF SincronizarMarcar, Linhas
    <3> QED BY <3>1, <3>2
  <2> QED BY <1>6, <2>1, <2>3, <2>4, TipoSoLinhas DEF SincronizarMarcar
<1>7. CASE SincronizarNada(p)
  BY <1>7, LivreTipo, TipoSoPedido DEF SincronizarNada
<1> QED BY <1>1, <1>2, <1>3, <1>4, <1>5, <1>6, <1>7 DEF Sincronizar

LEMMA TipoInicial == Init => TipoInv
<1> SUFFICES ASSUME Init PROVE TipoInv
  OBVIOUS
<1>1. presenca = <<>> /\ DOMAIN presenca = {} /\ folha = {}
  BY DEF Init
<1>2. presenca \in [ComLinha -> PresencaRow] /\ ComLinha = {}
  BY <1>1 DEF ComLinha
<1>3. pedido \in [Pedidos -> PedidoRow]
  BY LivreTipo DEF Init
<1>4. \E f \in FolhaRow : folha \in {{}, {f}}
  BY <1>1, AbertaTipo
<1> QED BY <1>1, <1>2, <1>3, <1>4
        DEF Init, TipoInv, TypeOK, PresenteSegueEstado, ComFolha, PassosComFolha, Livre

LEMMA TipoSegue == ASSUME TipoInv, [Next]_vars PROVE TipoInv'
<1>1. CASE UNCHANGED vars
  BY <1>1 DEF vars, dados, TipoInv, TypeOK, PresenteSegueEstado, ComFolha, ComLinha
<1>2. CASE Iniciar \/ UpdateSessao \/ \E m \in Matriculas : UpdateEstado(m)
  <2>1. /\ lmsAtivo' \in BOOLEAN /\ teveLms' \in BOOLEAN /\ (lmsAtivo' => teveLms')
        /\ iniciada' \in BOOLEAN /\ terminada' \in BOOLEAN
        /\ ativas' \subseteq Matriculas
    <3>1. CASE Iniciar
      BY <3>1 DEF Iniciar, TipoInv, TypeOK
    <3>2. CASE UpdateSessao
      BY <3>2 DEF UpdateSessao, TipoInv, TypeOK
    <3>3. ASSUME NEW m \in Matriculas, UpdateEstado(m)
          PROVE  /\ UNCHANGED <<lmsAtivo, teveLms, iniciada, terminada>>
                 /\ ativas' \subseteq Matriculas
      BY <3>3 DEF UpdateEstado, TipoInv, TypeOK
    <3> QED BY <1>2, <3>1, <3>2, <3>3 DEF TipoInv, TypeOK
  <2>2. UNCHANGED <<folha, presenca, pedido, falhas>>
    BY <1>2 DEF Iniciar, UpdateSessao, UpdateEstado, dados
  <2> QED BY <2>1, <2>2 DEF TipoInv, TypeOK, PresenteSegueEstado, ComFolha, ComLinha
<1>3. ASSUME NEW p \in Pedidos, Falhar(p) PROVE TipoInv'
  <2>1. Linhas(presenca)' /\ UNCHANGED <<folha, presenca>>
    BY <1>3, TipoLinhas DEF Falhar, dados, Linhas
  <2>2. falhas' \in Nat /\ terminada \in BOOLEAN
    BY <1>3 DEF Falhar, TipoInv, TypeOK
  <2> QED BY <1>3, <2>1, <2>2, LivreTipo, TipoLinhas, TipoPasso DEF Falhar
<1> QED BY <1>1, <1>2, <1>3, TipoCriar, TipoCheckin, TipoMarcar, TipoAssinar, TipoSincronizar DEF Next

(* Type correctness, and rows that are present exactly when their state    *)
(* says so, for every number of concurrent requests.                       *)
THEOREM TypeCorrect == Spec => []TypeOK
<1>1. TipoInv => TypeOK
  BY DEF TipoInv
<1> QED BY <1>1, TipoInicial, TipoSegue, PTL DEF Spec

THEOREM PresenteCorrecto == Spec => []PresenteSegueEstado
<1>1. TipoInv => PresenteSegueEstado
  BY DEF TipoInv
<1> QED BY <1>1, TipoInicial, TipoSegue, PTL DEF Spec

-----------------------------------------------------------------------------
(* Signatures.  The inductive invariant adds what the requests in progress *)
(* know: each asked for what it is doing, a signature it is about to write *)
(* is still justified, a row it is about to change belongs to a sheet      *)
(* without signatures, and only in sessions of the LMS does it             *)
(* synchronise.  Validation and approval hold under one hypothesis each on *)
(* what may be asked at the same time, and the invariant says so.          *)
PassosLms == {"sinc.folha", "sinc.criar", "sinc.linhas", "sinc.marcar"}
PassosCheckin ==
    {"checkin.folha", "checkin.presenca", "checkin.criar", "checkin.inserir", "checkin.reabrir",
     "checkin.gravar"}
PassosMarcar == {"marcar.reabrir", "marcar.gravar"}

PedidoPediu(p) ==
    /\ pedido[p].pc \in PassosCheckin => "checkin" \in Operacoes[p]
    /\ pedido[p].pc \in PassosMarcar => "marcar" \in Operacoes[p]
    /\ pedido[p].pc = "validar.gravar" => "validar" \in Operacoes[p]
    /\ pedido[p].pc = "aprovar.gravar" => "aprovar" \in Operacoes[p]
    /\ pedido[p].pc \in PassosLms => teveLms

Completa == ~teveLms => \A m \in ComLinha : Assinalada(presenca[m])
Validada == \E f \in folha : f.validada
SemAprovacao == \A f \in folha : ~f.aprovada

SabeValidar(p) ==
    /\ pedido[p].pc = "validar.gravar" => folha # {} /\ Completa
    /\ pedido[p].pc = "marcar.gravar" => ~Validada

SabeAprovar(p) ==
    /\ pedido[p].pc = "aprovar.gravar" => Validada
    /\ pedido[p].pc = "checkin.presenca" => SemAprovacao \/ \E f \in pedido[p].lida : Assinada(f)
    /\ pedido[p].pc \in {"checkin.gravar", "marcar.gravar"} => SemAprovacao

PedidoSabe(p) ==
    /\ PedidoPediu(p)
    /\ SoMarcaQuemValida => SabeValidar(p)
    /\ SoMudaQuemAprova => SabeAprovar(p)

AssinaturasInv ==
    /\ TipoInv
    /\ SoMarcaQuemValida => ValidadaCompletaSemLms
    /\ SoMudaQuemAprova => AprovadaValidada
    /\ \A p \in Pedidos : PedidoSabe(p)

LEMMA PresenteAssinalada == Assinalada(Presente)
BY DEF Assinalada, Presente, Estados

LEMMA FolhaUma == ASSUME TipoInv PROVE \A f, g \in folha : f = g /\ f \in FolhaRow
BY DEF TipoInv, TypeOK

LEMMA AberturaSemAssinatura == ~Assinada(Aberta) /\ ~Aberta.validada /\ ~Aberta.aprovada
BY DEF Assinada, Aberta

(* The hypotheses are about the constants.                                 *)
LEMMA HipotesesFixas ==
    /\ SoMarcaQuemValida' <=> SoMarcaQuemValida
    /\ SoMudaQuemAprova' <=> SoMudaQuemAprova
BY DEF SoMarcaQuemValida, SoMudaQuemAprova

(* What the two promises say, in these words.                              *)
LEMMA ValidadaDiz ==
    /\ ValidadaCompletaSemLms <=> (Validada => Completa)
    /\ ValidadaCompletaSemLms' <=> (Validada' => Completa')
BY DEF ValidadaCompletaSemLms, ValidadaCompleta, Validada, Completa

(* What a request knows when it begins another step ...                    *)
LEMMA SabeUm ==
    ASSUME TipoInv, NEW p \in Pedidos, NEW r, Segue(p, r)
    PROVE  pedido'[p] = r /\ \A q \in Pedidos : q # p => pedido'[q] = pedido[q]
BY DEF Segue, TipoInv, TypeOK

(* ... of those that promise nothing, ...                                  *)
LEMMA SabeQuieto ==
    ASSUME TipoInv, NEW p \in Pedidos, NEW r, Segue(p, r),
           r.pc \in {"livre", "criar.gravar", "terminar.gravar", "terminar.sinc"}
    PROVE  PedidoSabe(p)'
BY SabeUm DEF PedidoSabe, PedidoPediu, SabeValidar, SabeAprovar, PassosLms, PassosCheckin, PassosMarcar

(* ... of a check-in, ...                                                  *)
LEMMA SabeDoCheckin ==
    ASSUME TipoInv, NEW p \in Pedidos, NEW r, Segue(p, r), "checkin" \in Operacoes[p],
           r.pc \in PassosCheckin,
           r.pc = "checkin.presenca" => SemAprovacao' \/ \E f \in r.lida : Assinada(f),
           SoMudaQuemAprova => (r.pc = "checkin.gravar" => SemAprovacao')
    PROVE  PedidoSabe(p)'
BY SabeUm, HipotesesFixas
   DEF PedidoSabe, PedidoPediu, SabeValidar, SabeAprovar, PassosLms, PassosCheckin, PassosMarcar, Assinada

(* ... of updatePresenca, ...                                              *)
LEMMA SabeDoMarcar ==
    ASSUME TipoInv, NEW p \in Pedidos, NEW r, Segue(p, r), "marcar" \in Operacoes[p],
           r.pc \in PassosMarcar, r.pc = "marcar.gravar" => ~Validada' /\ SemAprovacao'
    PROVE  PedidoSabe(p)'
BY SabeUm DEF PedidoSabe, PedidoPediu, SabeValidar, SabeAprovar, PassosLms, PassosCheckin, PassosMarcar

(* ... and of the synchronisation.                                         *)
LEMMA SabeDoLms ==
    ASSUME TipoInv, NEW p \in Pedidos, NEW r, Segue(p, r), r.pc \in PassosLms, teveLms'
    PROVE  PedidoSabe(p)'
BY SabeUm DEF PedidoSabe, PedidoPediu, SabeValidar, SabeAprovar, PassosLms, PassosCheckin, PassosMarcar

(* What it does to the knowledge of the others: only marking may leave a   *)
(* row without a mark, only validating writes the one signature and only   *)
(* approving the other, and only the two that reopen take a validation     *)
(* away.                                                                   *)
LEMMA SabePasso ==
    ASSUME AssinaturasInv, TipoInv', NEW p \in Pedidos, NEW r, Segue(p, r), PedidoSabe(p)',
           teveLms' = teveLms, folha # {} => folha' # {},
           folha = {} \/ pedido[p].pc = "marcar.gravar" \/ (Completa => Completa'),
           pedido[p].pc = "validar.gravar" \/ (~Validada => ~Validada'),
           pedido[p].pc \in {"checkin.reabrir", "marcar.reabrir"} \/ (Validada => Validada'),
           pedido[p].pc = "aprovar.gravar" \/ (SemAprovacao => SemAprovacao'),
           SoMarcaQuemValida => ValidadaCompletaSemLms',
           SoMudaQuemAprova => AprovadaValidada'
    PROVE  AssinaturasInv'
<1>1. PedidoPediu(p) /\ TipoInv
  BY DEF AssinaturasInv, PedidoSabe
<1>2. ASSUME NEW q \in Pedidos, q # p PROVE PedidoSabe(q)'
  <2>1. pedido'[q] = pedido[q] /\ PedidoSabe(q)
    BY <1>1, <1>2, SabeUm DEF AssinaturasInv
  <2>2. PedidoPediu(q)'
    BY <2>1 DEF PedidoSabe, PedidoPediu
  <2>3. ASSUME SoMarcaQuemValida PROVE SabeValidar(q)'
    <3>1. ASSUME pedido[q].pc = "validar.gravar" PROVE folha' # {} /\ Completa'
      <4>1. folha # {} /\ Completa /\ "validar" \in Operacoes[q]
        BY <2>1, <2>3, <3>1 DEF PedidoSabe, PedidoPediu, SabeValidar
      <4>2. pedido[p].pc # "marcar.gravar"
        BY <1>1, <1>2, <2>3, <4>1 DEF SoMarcaQuemValida, PedidoPediu, PassosMarcar
      <4> QED BY <4>1, <4>2
    <3>2. ASSUME pedido[q].pc = "marcar.gravar" PROVE ~Validada'
      <4>1. ~Validada /\ "marcar" \in Operacoes[q]
        BY <2>1, <2>3, <3>2 DEF PedidoSabe, PedidoPediu, SabeValidar, PassosMarcar
      <4>2. pedido[p].pc # "validar.gravar"
        BY <1>1, <1>2, <2>3, <4>1 DEF SoMarcaQuemValida, PedidoPediu
      <4> QED BY <4>1, <4>2
    <3> QED BY <2>1, <3>1, <3>2 DEF SabeValidar
  <2>4. ASSUME SoMudaQuemAprova PROVE SabeAprovar(q)'
    <3>1. ASSUME pedido[q].pc = "aprovar.gravar" PROVE Validada'
      <4>1. Validada /\ "aprovar" \in Operacoes[q]
        BY <2>1, <2>4, <3>1 DEF PedidoSabe, PedidoPediu, SabeAprovar
      <4>2. pedido[p].pc \notin {"checkin.reabrir", "marcar.reabrir"}
        BY <1>1, <1>2, <2>4, <4>1 DEF SoMudaQuemAprova, PedidoPediu, PassosMarcar, PassosCheckin
      <4> QED BY <4>1, <4>2
    <3>2. ASSUME pedido[q].pc \in {"checkin.presenca", "checkin.gravar", "marcar.gravar"}, SemAprovacao
          PROVE  SemAprovacao'
      <4>1. "checkin" \in Operacoes[q] \/ "marcar" \in Operacoes[q]
        BY <2>1, <3>2 DEF PedidoSabe, PedidoPediu, PassosMarcar, PassosCheckin
      <4>2. pedido[p].pc # "aprovar.gravar"
        BY <1>1, <1>2, <2>4, <4>1 DEF SoMudaQuemAprova, PedidoPediu
      <4> QED BY <3>2, <4>2
    <3>3. SabeAprovar(q)
      BY <2>1, <2>4 DEF PedidoSabe
    <3> QED BY <2>1, <3>1, <3>2, <3>3 DEF SabeAprovar, Assinada
  <2> QED BY <2>2, <2>3, <2>4, HipotesesFixas DEF PedidoSabe
<1> QED BY <1>2, HipotesesFixas DEF AssinaturasInv

(* A step that changes neither the sheet nor the rows.                     *)
LEMMA SabeSoPedido ==
    ASSUME AssinaturasInv, TipoInv', NEW p \in Pedidos, PedidoSabe(p)', NEW r, Segue(p, r),
           teveLms' = teveLms, UNCHANGED dados
    PROVE  AssinaturasInv'
<1>1. (Completa <=> Completa') /\ (Validada <=> Validada') /\ (SemAprovacao <=> SemAprovacao')
      /\ folha' = folha /\ (AprovadaValidada <=> AprovadaValidada')
  BY DEF Completa, Validada, SemAprovacao, AprovadaValidada, dados, ComLinha
<1>2. /\ SoMarcaQuemValida => ValidadaCompletaSemLms'
      /\ SoMudaQuemAprova => AprovadaValidada'
  BY <1>1, ValidadaDiz DEF AssinaturasInv
<1> QED BY <1>1, <1>2, SabePasso

(* A step that opens the sheet, or opens it again.                         *)
LEMMA SabeAberta ==
    ASSUME AssinaturasInv, TipoInv', NEW p \in Pedidos, PedidoSabe(p)', NEW r, Segue(p, r),
           teveLms' = teveLms, folha' = {Aberta},
           \/ folha = {}
           \/ presenca' = presenca /\ pedido[p].pc \in {"checkin.reabrir", "marcar.reabrir"}
    PROVE  AssinaturasInv'
<1>1. ~Validada' /\ SemAprovacao' /\ AprovadaValidada' /\ folha' # {}
  BY AberturaSemAssinatura DEF Validada, SemAprovacao, AprovadaValidada
<1>2. folha = {} => ~Validada
  BY DEF Validada
<1>3. presenca' = presenca => (Completa => Completa')
  BY DEF Completa, ComLinha
<1> QED BY <1>1, <1>2, <1>3, ValidadaDiz, SabePasso

(* A step that changes the rows of the sheet.                              *)
LEMMA SabeLinhas ==
    ASSUME AssinaturasInv, TipoInv', NEW p \in Pedidos, PedidoSabe(p)', NEW r, Segue(p, r),
           teveLms' = teveLms, folha' = folha,
           pedido[p].pc = "marcar.gravar" \/ (Completa => Completa')
    PROVE  AssinaturasInv'
<1>1. (Validada <=> Validada') /\ (SemAprovacao <=> SemAprovacao') /\ (AprovadaValidada <=> AprovadaValidada')
  BY DEF Validada, SemAprovacao, AprovadaValidada
<1>2. ASSUME SoMarcaQuemValida PROVE ValidadaCompletaSemLms'
  <2>1. pedido[p].pc = "marcar.gravar" => ~Validada
    BY <1>2 DEF AssinaturasInv, PedidoSabe, SabeValidar
  <2> QED BY <1>1, <1>2, <2>1, ValidadaDiz DEF AssinaturasInv
<1>3. SoMudaQuemAprova => AprovadaValidada'
  BY <1>1 DEF AssinaturasInv
<1> QED BY <1>1, <1>2, <1>3, SabePasso
LEMMA AssinaturasCriar ==
    ASSUME AssinaturasInv, TipoInv', NEW p \in Pedidos, CriarLer(p) \/ CriarGravar(p)
    PROVE  AssinaturasInv'
<1> USE DEF SemMudarSessao
<1>0. TipoInv
  BY DEF AssinaturasInv
<1>1. CASE CriarLer(p)
  BY <1>0, <1>1, SabeQuieto, SabeSoPedido DEF CriarLer
<1>2. CASE CriarGravar(p)
  <2>1. Segue(p, Livre) /\ teveLms' = teveLms /\ PedidoSabe(p)'
    BY <1>0, <1>2, SabeQuieto DEF CriarGravar, Livre
  <2>2. CASE folha = {}
    <3>1. folha' = {Aberta}
      BY <1>2, <2>2 DEF CriarGravar
    <3> QED BY <2>1, <2>2, <3>1, SabeAberta
  <2>3. CASE folha # {}
    <3>1. UNCHANGED dados
      BY <1>2, <2>3 DEF CriarGravar
    <3> QED BY <2>1, <3>1, SabeSoPedido
  <2> QED BY <2>2, <2>3
<1> QED BY <1>1, <1>2

LEMMA AssinaturasCheckin ==
    ASSUME AssinaturasInv, TipoInv', NEW p \in Pedidos, Checkin(p)
    PROVE  AssinaturasInv'
<1> DEFINE r == pedido[p]
<1> USE DEF SemMudarSessao
<1>0. TipoInv /\ TypeOK /\ PedidoSabe(p)
  BY DEF AssinaturasInv, TipoInv
<1>1. ASSUME NEW m \in Matriculas, CheckinLer(p, m) PROVE AssinaturasInv'
  <2> DEFINE n == [pc |-> "checkin.folha", m |-> m, lida |-> {}]
  <2>1. Segue(p, n) /\ n.pc = "checkin.folha" /\ "checkin" \in Operacoes[p]
        /\ UNCHANGED dados /\ teveLms' = teveLms
    BY <1>1 DEF CheckinLer, Aceita
  <2> HIDE DEF n
  <2>2. PedidoSabe(p)'
    BY <1>0, <2>1, SabeDoCheckin DEF PassosCheckin
  <2> QED BY <2>1, <2>2, SabeSoPedido
<1>a. r.pc \in PassosCheckin => "checkin" \in Operacoes[p]
  BY <1>0 DEF PedidoSabe, PedidoPediu
<1>2. CASE CheckinFolha(p)
  <2> DEFINE pc == IF folha = {} THEN "checkin.criar" ELSE "checkin.presenca"
             n == [r EXCEPT !.pc = pc, !.lida = folha]
  <2>1. n.pc = pc /\ n.lida = folha
    <3>1. r \in [pc: {"checkin.folha", "checkin.presenca", "checkin.criar", "checkin.inserir"},
                 m: Matriculas, lida: SUBSET FolhaRow]
      BY <1>0, <1>2 DEF CheckinFolha, TypeOK, PedidoRow, Livre
    <3> QED BY <3>1
  <2>2. Segue(p, n) /\ UNCHANGED dados /\ teveLms' = teveLms /\ "checkin" \in Operacoes[p]
    BY <1>a, <1>2 DEF CheckinFolha, PassosCheckin
  <2>3. pc \in {"checkin.criar", "checkin.presenca"}
    OBVIOUS
  <2> HIDE DEF n, pc
  <2>4. SemAprovacao' \/ \E f \in n.lida : Assinada(f)
    BY <2>1, <2>2 DEF SemAprovacao, Assinada, dados
  <2>5. PedidoSabe(p)'
    BY <1>0, <2>1, <2>2, <2>3, <2>4, SabeDoCheckin DEF PassosCheckin
  <2> QED BY <2>2, <2>5, SabeSoPedido
<1>3. CASE CheckinCriar(p)
  <2>1. CASE folha = {}
    <3> DEFINE n == [r EXCEPT !.pc = "checkin.presenca", !.lida = {Aberta}]
    <3>1. n.pc = "checkin.presenca"
      <4>1. r \in [pc: {"checkin.folha", "checkin.presenca", "checkin.criar", "checkin.inserir"},
                   m: Matriculas, lida: SUBSET FolhaRow]
        BY <1>0, <1>3 DEF CheckinCriar, TypeOK, PedidoRow, Livre
      <4> QED BY <4>1
    <3>2. Segue(p, n) /\ folha' = {Aberta} /\ teveLms' = teveLms /\ "checkin" \in Operacoes[p]
      BY <1>a, <1>3, <2>1 DEF CheckinCriar, PassosCheckin
    <3> HIDE DEF n
    <3>3. SemAprovacao'
      BY <3>2, AberturaSemAssinatura DEF SemAprovacao
    <3>4. PedidoSabe(p)'
      BY <1>0, <3>1, <3>2, <3>3, SabeDoCheckin DEF PassosCheckin
    <3> QED BY <2>1, <3>2, <3>4, SabeAberta
  <2>2. CASE folha # {}
    <3>1. Segue(p, Livre) /\ UNCHANGED dados /\ teveLms' = teveLms
      BY <1>3, <2>2 DEF CheckinCriar
    <3>2. PedidoSabe(p)'
      BY <1>0, <3>1, SabeQuieto DEF Livre
    <3> QED BY <3>1, <3>2, SabeSoPedido
  <2> QED BY <2>1, <2>2
<1>4. CASE CheckinPresenca(p)
  <2>1. r.pc = "checkin.presenca" /\ "checkin" \in Operacoes[p] /\ UNCHANGED dados /\ teveLms' = teveLms
    BY <1>a, <1>4 DEF CheckinPresenca, PassosCheckin
  <2>2. CASE r.m \notin ComLinha
    <3> DEFINE n == [r EXCEPT !.pc = "checkin.inserir"]
    <3>1. Segue(p, n)
      BY <1>4, <2>2 DEF CheckinPresenca
    <3>2. n.pc = "checkin.inserir"
      <4>1. r = [pc |-> r.pc, m |-> r.m, lida |-> r.lida]
        BY <1>0, <2>1, PedidoTipo
      <4> QED BY <4>1
    <3> HIDE DEF n
    <3>3. PedidoSabe(p)'
      BY <1>0, <2>1, <3>1, <3>2, SabeDoCheckin DEF PassosCheckin
    <3> QED BY <2>1, <3>1, <3>3, SabeSoPedido
  <2>3. CASE r.m \in ComLinha /\ presenca[r.m].presente /\ presenca[r.m].estado = "PRESENTE"
    <3>1. Segue(p, Livre)
      BY <1>4, <2>3 DEF CheckinPresenca
    <3>2. PedidoSabe(p)'
      BY <1>0, <3>1, SabeQuieto DEF Livre
    <3> QED BY <2>1, <3>1, <3>2, SabeSoPedido
  <2>4. CASE r.m \in ComLinha /\ ~(presenca[r.m].presente /\ presenca[r.m].estado = "PRESENTE")
    <3> DEFINE pc == IF \E f \in r.lida : Assinada(f) THEN "checkin.reabrir" ELSE "checkin.gravar"
               n == [pc |-> pc, m |-> r.m]
    <3>1. Segue(p, n) /\ n.pc = pc
      BY <1>4, <2>1, <2>4 DEF CheckinPresenca
    <3>2. /\ pc \in {"checkin.reabrir", "checkin.gravar"}
          /\ pc = "checkin.gravar" => \A f \in r.lida : ~Assinada(f)
      OBVIOUS
    <3> HIDE DEF pc, n
    <3>3. ASSUME SoMudaQuemAprova, pc = "checkin.gravar" PROVE SemAprovacao'
      <4>1. SemAprovacao
        BY <1>0, <2>1, <3>2, <3>3 DEF PedidoSabe, SabeAprovar
      <4> QED BY <2>1, <4>1 DEF SemAprovacao, dados
    <3>4. PedidoSabe(p)'
      BY <1>0, <2>1, <3>1, <3>2, <3>3, SabeDoCheckin DEF PassosCheckin
    <3> QED BY <2>1, <3>1, <3>4, SabeSoPedido
  <2> QED BY <2>2, <2>3, <2>4
<1>5. CASE CheckinInserir(p) \/ CheckinGravar(p)
  <2>1. Segue(p, Livre) /\ folha' = folha /\ teveLms' = teveLms
    BY <1>5 DEF CheckinInserir, CheckinGravar
  <2>2. \A m \in ComLinha' : presenca'[m] = Presente \/ (m \in ComLinha /\ presenca'[m] = presenca[m])
    <3>1. CASE CheckinInserir(p)
      BY <3>1 DEF CheckinInserir, ComLinha
    <3>2. CASE CheckinGravar(p)
      BY <3>2 DEF CheckinGravar, ComLinha
    <3> QED BY <1>5, <3>1, <3>2
  <2>3. Completa => Completa'
    BY <2>1, <2>2, PresenteAssinalada DEF Completa
  <2>4. PedidoSabe(p)'
    BY <1>0, <2>1, SabeQuieto DEF Livre
  <2> QED BY <2>1, <2>3, <2>4, SabeLinhas
<1>6. CASE CheckinReabrir(p)
  <2> DEFINE n == [r EXCEPT !.pc = "checkin.gravar"]
  <2>1. r.pc = "checkin.reabrir" /\ Segue(p, n) /\ folha' = {Aberta} /\ presenca' = presenca
        /\ teveLms' = teveLms /\ "checkin" \in Operacoes[p]
    BY <1>a, <1>6 DEF CheckinReabrir, Reabrir, PassosCheckin
  <2>2. n.pc = "checkin.gravar"
    <3>1. r = [pc |-> r.pc, m |-> r.m]
      BY <1>0, <1>6, PedidoTipo DEF CheckinReabrir
    <3> QED BY <3>1
  <2> HIDE DEF n
  <2>3. SemAprovacao'
    BY <2>1, AberturaSemAssinatura DEF SemAprovacao
  <2>4. PedidoSabe(p)'
    BY <1>0, <2>1, <2>2, <2>3, SabeDoCheckin DEF PassosCheckin
  <2> QED BY <2>1, <2>4, SabeAberta
<1> QED BY <1>1, <1>2, <1>3, <1>4, <1>5, <1>6 DEF Checkin

LEMMA AssinaturasMarcar ==
    ASSUME AssinaturasInv, TipoInv', NEW p \in Pedidos, Marcar(p)
    PROVE  AssinaturasInv'
<1> DEFINE r == pedido[p]
<1> USE DEF SemMudarSessao
<1>0. TipoInv /\ TypeOK /\ PedidoSabe(p)
  BY DEF AssinaturasInv, TipoInv
<1>1. ASSUME NEW m \in Matriculas, NEW d \in Dtos, MarcarLer(p, m, d) PROVE AssinaturasInv'
  <2> DEFINE pc == IF \E f \in folha : Assinada(f) THEN "marcar.reabrir" ELSE "marcar.gravar"
             n == [pc |-> pc, m |-> m, dto |-> d]
  <2>1. Segue(p, n) /\ n.pc = pc /\ UNCHANGED dados /\ teveLms' = teveLms /\ "marcar" \in Operacoes[p]
    BY <1>1 DEF MarcarLer, Aceita
  <2>2. /\ pc \in {"marcar.reabrir", "marcar.gravar"}
        /\ pc = "marcar.gravar" => \A f \in folha : ~Assinada(f)
    OBVIOUS
  <2> HIDE DEF pc, n
  <2>3. pc = "marcar.gravar" => ~Validada' /\ SemAprovacao'
    BY <2>1, <2>2 DEF Validada, SemAprovacao, Assinada, dados
  <2>4. PedidoSabe(p)'
    BY <1>0, <2>1, <2>2, <2>3, SabeDoMarcar DEF PassosMarcar
  <2> QED BY <2>1, <2>4, SabeSoPedido
<1>2. CASE MarcarReabrir(p)
  <2> DEFINE n == [r EXCEPT !.pc = "marcar.gravar"]
  <2>1. r.pc = "marcar.reabrir" /\ Segue(p, n) /\ folha' = {Aberta} /\ presenca' = presenca /\ teveLms' = teveLms
    BY <1>2 DEF MarcarReabrir, Reabrir
  <2>2. n.pc = "marcar.gravar"
    <3>1. r = [pc |-> r.pc, m |-> r.m, dto |-> r.dto]
      BY <1>0, <1>2, PedidoTipo DEF MarcarReabrir
    <3> QED BY <3>1
  <2> HIDE DEF n
  <2>3. ~Validada' /\ SemAprovacao' /\ "marcar" \in Operacoes[p]
    BY <1>0, <2>1, AberturaSemAssinatura DEF Validada, SemAprovacao, PedidoSabe, PedidoPediu, PassosMarcar
  <2>4. PedidoSabe(p)'
    BY <1>0, <2>1, <2>2, <2>3, SabeDoMarcar DEF PassosMarcar
  <2> QED BY <2>1, <2>4, SabeAberta
<1>3. CASE MarcarGravar(p)
  <2>1. r.pc = "marcar.gravar" /\ Segue(p, Livre) /\ folha' = folha /\ teveLms' = teveLms
    BY <1>3 DEF MarcarGravar
  <2>2. PedidoSabe(p)'
    BY <1>0, <2>1, SabeQuieto DEF Livre
  <2> QED BY <2>1, <2>2, SabeLinhas
<1> QED BY <1>1, <1>2, <1>3 DEF Marcar
LEMMA AssinaturasAssinar ==
    ASSUME AssinaturasInv, TipoInv', NEW p \in Pedidos, Assinar(p)
    PROVE  AssinaturasInv'
<1> USE DEF SemMudarSessao
<1>0. TipoInv /\ TypeOK /\ PedidoSabe(p)
  BY DEF AssinaturasInv, TipoInv
<1>1. CASE ValidarLer(p)
  <2> DEFINE n == [pc |-> "validar.gravar"]
  <2>1. Segue(p, n) /\ n.pc = "validar.gravar" /\ "validar" \in Operacoes[p]
        /\ UNCHANGED dados /\ teveLms' = teveLms
    BY <1>1 DEF ValidarLer, Aceita
  <2> HIDE DEF n
  <2>2. folha' # {} /\ Completa'
    BY <1>1 DEF ValidarLer, Completa, dados, ComLinha
  <2>3. PedidoSabe(p)'
    BY <1>0, <2>1, <2>2, SabeUm
    DEF PedidoSabe, PedidoPediu, SabeValidar, SabeAprovar, PassosLms, PassosCheckin, PassosMarcar
  <2> QED BY <2>1, <2>3, SabeSoPedido
<1>2. CASE ValidarGravar(p)
  <2>1. /\ folha' = {[validada |-> TRUE, aprovada |-> FALSE, fechada |-> FALSE]}
        /\ pedido[p].pc = "validar.gravar" /\ Segue(p, Livre) /\ presenca' = presenca /\ teveLms' = teveLms
    BY <1>2 DEF ValidarGravar
  <2>2. folha' # {} /\ Validada' /\ SemAprovacao' /\ AprovadaValidada'
    BY <2>1 DEF Validada, SemAprovacao, AprovadaValidada
  <2>3. Completa => Completa'
    BY <2>1 DEF Completa, ComLinha
  <2>4. SoMarcaQuemValida => ValidadaCompletaSemLms'
    BY <1>0, <2>1, <2>3, ValidadaDiz DEF PedidoSabe, SabeValidar
  <2>5. PedidoSabe(p)'
    BY <1>0, <2>1, SabeQuieto DEF Livre
  <2> QED BY <2>1, <2>2, <2>3, <2>4, <2>5, SabePasso
<1>3. CASE AprovarLer(p)
  <2> DEFINE n == [pc |-> "aprovar.gravar"]
  <2>1. Segue(p, n) /\ n.pc = "aprovar.gravar" /\ "aprovar" \in Operacoes[p]
        /\ UNCHANGED dados /\ teveLms' = teveLms
    BY <1>3 DEF AprovarLer, Aceita
  <2> HIDE DEF n
  <2>2. Validada'
    BY <1>3 DEF AprovarLer, Validada, dados
  <2>3. PedidoSabe(p)'
    BY <1>0, <2>1, <2>2, SabeUm
    DEF PedidoSabe, PedidoPediu, SabeValidar, SabeAprovar, PassosLms, PassosCheckin, PassosMarcar
  <2> QED BY <2>1, <2>3, SabeSoPedido
<1>4. CASE AprovarGravar(p)
  <2>1. /\ folha' = {[f EXCEPT !.aprovada = TRUE, !.fechada = TRUE] : f \in folha}
        /\ pedido[p].pc = "aprovar.gravar" /\ Segue(p, Livre) /\ presenca' = presenca /\ teveLms' = teveLms
    BY <1>4 DEF AprovarGravar
  <2>2. \A f \in folha : [f EXCEPT !.aprovada = TRUE, !.fechada = TRUE].validada = f.validada
    BY <1>0, FolhaUma DEF FolhaRow
  <2>3. (folha # {} => folha' # {}) /\ (Validada <=> Validada')
    BY <2>1, <2>2 DEF Validada
  <2>4. Completa <=> Completa'
    BY <2>1 DEF Completa, ComLinha
  <2>5. SoMarcaQuemValida => ValidadaCompletaSemLms'
    BY <2>3, <2>4, ValidadaDiz DEF AssinaturasInv
  <2>6. ASSUME SoMudaQuemAprova PROVE AprovadaValidada'
    <3>1. Validada
      BY <1>0, <2>1, <2>6 DEF PedidoSabe, SabeAprovar
    <3>2. \A f \in folha : f.validada
      BY <1>0, <3>1, FolhaUma DEF Validada
    <3> QED BY <2>1, <2>2, <3>2 DEF AprovadaValidada
  <2>7. PedidoSabe(p)'
    BY <1>0, <2>1, SabeQuieto DEF Livre
  <2> QED BY <2>1, <2>3, <2>4, <2>5, <2>6, <2>7, SabePasso
<1> QED BY <1>1, <1>2, <1>3, <1>4 DEF Assinar

LEMMA AssinaturasSincronizar ==
    ASSUME AssinaturasInv, TipoInv', NEW p \in Pedidos, Sincronizar(p)
    PROVE  AssinaturasInv'
<1> DEFINE r == pedido[p]
<1> USE DEF SemMudarSessao
<1>0. TipoInv /\ TypeOK /\ PedidoSabe(p)
  BY DEF AssinaturasInv, TipoInv
<1>1. CASE SincronizarLer(p)
  <2>1. UNCHANGED dados /\ teveLms' = teveLms
    BY <1>1 DEF SincronizarLer
  <2>2. CASE lmsAtivo
    <3> DEFINE n == [pc |-> "sinc.folha", lista |-> ativas]
    <3>1. Segue(p, n) /\ n.pc \in PassosLms /\ teveLms'
      BY <1>0, <1>1, <2>1, <2>2 DEF SincronizarLer, TypeOK, PassosLms
    <3> HIDE DEF n
    <3> QED BY <1>0, <2>1, <3>1, SabeDoLms, SabeSoPedido
  <2>3. CASE ~lmsAtivo
    <3>1. Segue(p, Livre)
      BY <1>1, <2>3 DEF SincronizarLer
    <3>2. PedidoSabe(p)'
      BY <1>0, <3>1, SabeQuieto DEF Livre
    <3> QED BY <2>1, <3>1, <3>2, SabeSoPedido
  <2> QED BY <2>2, <2>3
<1>2. CASE TerminarLer(p) \/ TerminarGravar(p)
  <2>1. UNCHANGED dados /\ teveLms' = teveLms
    BY <1>2 DEF TerminarLer, TerminarGravar
  <2>2. \E n : Segue(p, n) /\ n.pc \in {"terminar.gravar", "terminar.sinc", "livre"}
    BY <1>2 DEF TerminarLer, TerminarGravar, Livre
  <2>3. PedidoSabe(p)'
    BY <1>0, <2>2, SabeQuieto
  <2> QED BY <2>1, <2>2, <2>3, SabeSoPedido
<1>3. ASSUME r.pc \in PassosLms PROVE teveLms /\ r = [pc |-> r.pc, lista |-> r.lista]
  BY <1>0, <1>3, PedidoTipo DEF PedidoSabe, PedidoPediu, PassosLms
<1>4. CASE SincronizarFolha(p)
  <2> DEFINE pc == IF folha = {} THEN "sinc.criar" ELSE "sinc.marcar"
             n == [r EXCEPT !.pc = pc]
  <2>1. Segue(p, n) /\ UNCHANGED dados /\ teveLms' /\ teveLms' = teveLms /\ r = [pc |-> r.pc, lista |-> r.lista]
    BY <1>3, <1>4 DEF SincronizarFolha, PassosLms
  <2>2. n.pc \in PassosLms
    BY <2>1 DEF PassosLms
  <2> HIDE DEF n
  <2> QED BY <1>0, <2>1, <2>2, SabeDoLms, SabeSoPedido
<1>5. CASE SincronizarCriar(p)
  <2>1. teveLms' /\ teveLms' = teveLms /\ r = [pc |-> r.pc, lista |-> r.lista]
    BY <1>3, <1>5 DEF SincronizarCriar, PassosLms
  <2>2. CASE folha = {}
    <3> DEFINE n == [r EXCEPT !.pc = "sinc.linhas"]
    <3>1. Segue(p, n) /\ folha' = {Aberta} /\ n.pc \in PassosLms
      BY <1>5, <2>1, <2>2 DEF SincronizarCriar, PassosLms
    <3> HIDE DEF n
    <3> QED BY <1>0, <2>1, <2>2, <3>1, SabeDoLms, SabeAberta
  <2>3. CASE folha # {}
    <3>1. Segue(p, Livre) /\ UNCHANGED dados
      BY <1>5, <2>3 DEF SincronizarCriar, dados
    <3>2. PedidoSabe(p)'
      BY <1>0, <3>1, SabeQuieto DEF Livre
    <3> QED BY <2>1, <3>1, <3>2, SabeSoPedido
  <2> QED BY <2>2, <2>3
<1>6. ASSUME teveLms' PROVE Completa'
  BY <1>6 DEF Completa
<1>7. CASE SincronizarLinhas(p)
  <2> DEFINE n == [r EXCEPT !.pc = "sinc.marcar"]
  <2>1. teveLms' /\ teveLms' = teveLms /\ r = [pc |-> r.pc, lista |-> r.lista]
    BY <1>3, <1>7 DEF SincronizarLinhas, PassosLms
  <2>2. Segue(p, n) /\ folha' = folha /\ n.pc \in PassosLms
    BY <1>7, <2>1 DEF SincronizarLinhas, PassosLms
  <2> HIDE DEF n
  <2> QED BY <1>0, <1>6, <2>1, <2>2, SabeDoLms, SabeLinhas
<1>8. ASSUME NEW m \in Matriculas, NEW b \in BOOLEAN, SincronizarMarcar(p, m, b) PROVE AssinaturasInv'
  <2> DEFINE n == [r EXCEPT !.lista = r.lista \ {m}]
  <2>1. folha' = folha /\ r.pc \in PassosLms /\ teveLms' = teveLms
    BY <1>8 DEF SincronizarMarcar, PassosLms
  <2>2. teveLms' /\ r = [pc |-> r.pc, lista |-> r.lista]
    BY <1>3, <2>1
  <2>3. n.pc \in PassosLms
    BY <2>1, <2>2
  <2>4. Segue(p, IF r.lista = {m} THEN Livre ELSE n)
    BY <1>8 DEF SincronizarMarcar
  <2> HIDE DEF n
  <2>5. \E x : Segue(p, x) /\ PedidoSabe(p)'
    <3>1. CASE r.lista = {m}
      BY <1>0, <2>4, <3>1, SabeQuieto DEF Livre
    <3>2. CASE r.lista # {m}
      BY <1>0, <2>2, <2>3, <2>4, <3>2, SabeDoLms
    <3> QED BY <3>1, <3>2
  <2> QED BY <1>6, <2>1, <2>2, <2>5, SabeLinhas
<1>9. CASE SincronizarNada(p)
  <2>1. Segue(p, Livre) /\ UNCHANGED dados /\ teveLms' = teveLms
    BY <1>9 DEF SincronizarNada
  <2>2. PedidoSabe(p)'
    BY <1>0, <2>1, SabeQuieto DEF Livre
  <2> QED BY <2>1, <2>2, SabeSoPedido
<1> QED BY <1>1, <1>2, <1>4, <1>5, <1>7, <1>8, <1>9 DEF Sincronizar

LEMMA AssinaturasFalhar ==
    ASSUME AssinaturasInv, TipoInv', NEW p \in Pedidos, Falhar(p)
    PROVE  AssinaturasInv'
<1>1. Segue(p, Livre) /\ UNCHANGED dados /\ teveLms' = teveLms /\ TipoInv
  BY DEF Falhar, AssinaturasInv
<1>2. PedidoSabe(p)'
  BY <1>1, SabeQuieto DEF Livre
<1> QED BY <1>1, <1>2, SabeSoPedido

(* The session and the class leave sheet and requests as they are.         *)
LEMMA AssinaturasResto ==
    ASSUME AssinaturasInv, TipoInv', UNCHANGED <<folha, presenca, pedido>>, teveLms => teveLms'
    PROVE  AssinaturasInv'
<1>1. (Completa => Completa') /\ (Validada <=> Validada') /\ (SemAprovacao <=> SemAprovacao')
      /\ (AprovadaValidada <=> AprovadaValidada')
  BY DEF Completa, Validada, SemAprovacao, AprovadaValidada, ComLinha
<1>2. SoMarcaQuemValida => ValidadaCompletaSemLms'
  BY <1>1, ValidadaDiz DEF AssinaturasInv
<1>3. ASSUME NEW p \in Pedidos PROVE PedidoSabe(p)'
  <2>1. PedidoSabe(p) /\ pedido'[p] = pedido[p] /\ folha' = folha
    BY DEF AssinaturasInv
  <2>2. PedidoPediu(p)'
    BY <2>1 DEF PedidoSabe, PedidoPediu
  <2>3. SabeValidar(p) => SabeValidar(p)'
    BY <1>1, <2>1 DEF SabeValidar
  <2>4. SabeAprovar(p) => SabeAprovar(p)'
    BY <1>1, <2>1 DEF SabeAprovar, Assinada
  <2> QED BY <2>1, <2>2, <2>3, <2>4, HipotesesFixas DEF PedidoSabe
<1> QED BY <1>1, <1>2, <1>3, HipotesesFixas DEF AssinaturasInv

LEMMA AssinaturasInicial == Init => AssinaturasInv
<1> SUFFICES ASSUME Init PROVE AssinaturasInv
  OBVIOUS
<1>1. AprovadaValidada /\ ValidadaCompletaSemLms
  BY DEF Init, AprovadaValidada, ValidadaCompletaSemLms, ValidadaCompleta
<1>2. \A p \in Pedidos : pedido[p].pc = "livre"
  BY DEF Init, Livre
<1>3. \A p \in Pedidos : PedidoSabe(p)
  BY <1>2 DEF PedidoSabe, PedidoPediu, SabeValidar, SabeAprovar, PassosLms, PassosCheckin, PassosMarcar
<1> QED BY <1>1, <1>3, TipoInicial DEF AssinaturasInv

LEMMA AssinaturasSegue == ASSUME AssinaturasInv, [Next]_vars PROVE AssinaturasInv'
<1>1. TipoInv'
  BY TipoSegue DEF AssinaturasInv
<1>2. CASE UNCHANGED vars \/ Iniciar \/ UpdateSessao \/ \E m \in Matriculas : UpdateEstado(m)
  <2>1. UNCHANGED <<folha, presenca, pedido>> /\ (teveLms => teveLms')
    BY <1>2 DEF vars, Iniciar, UpdateSessao, UpdateEstado, dados
  <2> QED BY <1>1, <2>1, AssinaturasResto
<1> QED BY <1>1, <1>2, AssinaturasCriar, AssinaturasCheckin, AssinaturasMarcar, AssinaturasAssinar,
           AssinaturasSincronizar, AssinaturasFalhar DEF Next

(* While nobody marks or checks in beside the one who approves, an         *)
(* approval stands on a validation that stands, whatever requests create,  *)
(* validate or synchronise the sheet meanwhile, and whichever stop half    *)
(* way.                                                                    *)
THEOREM AprovacaoCorrecta == ASSUME SoMudaQuemAprova PROVE Spec => []AprovadaValidada
<1>1. AssinaturasInv => AprovadaValidada
  BY DEF AssinaturasInv
<1>2. AssinaturasInv /\ [Next]_vars => AssinaturasInv'
  BY AssinaturasSegue
<1> QED BY <1>1, <1>2, AssinaturasInicial, PTL DEF Spec

(* While nobody marks beside the one who validates, and in sessions        *)
(* without LMS, a validation stands on a complete sheet: check-ins may be  *)
(* as many as one likes.                                                   *)
THEOREM ValidacaoCorrecta == ASSUME SoMarcaQuemValida PROVE Spec => []ValidadaCompletaSemLms
<1>1. AssinaturasInv => ValidadaCompletaSemLms
  BY DEF AssinaturasInv
<1>2. AssinaturasInv /\ [Next]_vars => AssinaturasInv'
  BY AssinaturasSegue
<1> QED BY <1>1, <1>2, AssinaturasInicial, PTL DEF Spec

(* Most steps leave the rows alone ...                                     *)
LEMMA LinhasQuemMuda ==
    ASSUME Next, presenca' # presenca
    PROVE  \E p \in Pedidos :
              \/ CriarGravar(p) \/ CheckinCriar(p) \/ CheckinInserir(p) \/ CheckinGravar(p)
              \/ MarcarGravar(p) \/ SincronizarLinhas(p)
              \/ \E m \in Matriculas, b \in BOOLEAN : SincronizarMarcar(p, m, b)
<1>1. ASSUME NEW p \in Pedidos, Checkin(p)
      PROVE  CheckinCriar(p) \/ CheckinInserir(p) \/ CheckinGravar(p)
  BY <1>1 DEF Checkin, CheckinLer, CheckinFolha, CheckinPresenca, CheckinReabrir, dados
<1>2. ASSUME NEW p \in Pedidos, Marcar(p) PROVE MarcarGravar(p)
  BY <1>2 DEF Marcar, MarcarLer, MarcarReabrir, dados
<1>3. ASSUME NEW p \in Pedidos, Sincronizar(p)
      PROVE  SincronizarLinhas(p) \/ \E m \in Matriculas, b \in BOOLEAN : SincronizarMarcar(p, m, b)
  BY <1>3 DEF Sincronizar, SincronizarLer, TerminarLer, TerminarGravar, SincronizarFolha, SincronizarCriar,
              SincronizarNada, dados
<1>4. ASSUME NEW p \in Pedidos PROVE ~(Assinar(p) \/ CriarLer(p) \/ Falhar(p))
  BY DEF Assinar, ValidarLer, ValidarGravar, AprovarLer, AprovarGravar, CriarLer, Falhar, dados
<1>5. ~(Iniciar \/ UpdateSessao \/ \E m \in Matriculas : UpdateEstado(m))
  BY DEF Iniciar, UpdateSessao, UpdateEstado, dados
<1> QED BY <1>1, <1>2, <1>3, <1>4, <1>5 DEF Next

(* ... and none that changes one finds the sheet approved.                 *)
LEMMA AprovadaPasso ==
    ASSUME SoMudaQuemAprova, AssinaturasInv, Next, ~teveLms,
           NEW f \in folha, f.aprovada, NEW m \in ComLinha
    PROVE  presenca'[m] = presenca[m]
<1> SUFFICES ASSUME presenca' # presenca PROVE presenca'[m] = presenca[m]
  OBVIOUS
<1>0. TipoInv /\ \A p \in Pedidos : PedidoSabe(p)
  BY DEF AssinaturasInv
<1>1. ASSUME NEW p \in Pedidos, CriarGravar(p) \/ CheckinCriar(p) PROVE FALSE
  BY <1>1 DEF CriarGravar, CheckinCriar, dados
<1>2. ASSUME NEW p \in Pedidos, CheckinInserir(p) PROVE presenca'[m] = presenca[m]
  BY <1>2 DEF CheckinInserir, ComLinha
<1>3. ASSUME NEW p \in Pedidos, CheckinGravar(p) \/ MarcarGravar(p) PROVE FALSE
  BY <1>0, <1>3 DEF CheckinGravar, MarcarGravar, PedidoSabe, SabeAprovar, SemAprovacao
<1>4. ASSUME NEW p \in Pedidos, pedido[p].pc \in {"sinc.linhas", "sinc.marcar"} PROVE FALSE
  BY <1>0, <1>4 DEF PedidoSabe, PedidoPediu, PassosLms
<1>5. ASSUME NEW p \in Pedidos,
             SincronizarLinhas(p) \/ \E x \in Matriculas, b \in BOOLEAN : SincronizarMarcar(p, x, b)
      PROVE  FALSE
  BY <1>4, <1>5 DEF SincronizarLinhas, SincronizarMarcar
<1> QED BY <1>1, <1>2, <1>3, <1>5, LinhasQuemMuda

(* While nobody marks or checks in beside the one who approves, and        *)
(* outside the LMS, a row of an approved sheet does not change while the   *)
(* sheet stays approved.                                                   *)
THEOREM AprovadaFixa == ASSUME SoMudaQuemAprova PROVE Spec => AprovadaNaoMuda
<1> DEFINE A == ~teveLms => \A f \in folha, g \in folha' :
                   f.aprovada /\ g.aprovada => \A m \in ComLinha : presenca'[m] = presenca[m]
<1>1. ASSUME AssinaturasInv, [Next]_vars PROVE [A]_vars
  BY <1>1, AprovadaPasso
<1>2. AssinaturasInv /\ [Next]_vars => AssinaturasInv'
  BY AssinaturasSegue
<1> QED BY <1>1, <1>2, AssinaturasInicial, PTL DEF Spec, AprovadaNaoMuda
=============================================================================
