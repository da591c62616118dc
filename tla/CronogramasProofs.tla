---------------------------- MODULE CronogramasProofs ----------------------------
(* Theorems about Cronogramas, for every set of requests, users, classes   *)
(* and bounds, with any number of imports at the same time.                *)
EXTENDS Cronogramas, SequenceTheorems, TLAPS

(* A request that has its class, and one that works on a job.              *)
ComTurma == {"aplicar.contar", "aplicar.apagar", "aplicar.numerar", "aplicar.validar", "aplicar.criar"}
ComTrabalho == {"guardar.gravar", "aplicar.marcar"}

(* Jobs are never deleted from the sequence, and a request that is about   *)
(* to mark its job has created the sessions.                               *)
Certo(r) ==
    r.pc \in Pcs =>
        /\ r.j \in {0} \cup Trabalhos
        /\ r.pc \in ComTurma => r.t \in Turmas
        /\ r.pc \in ComTrabalho => r.j # 0
        /\ r.pc = "aplicar.marcar" => trabalho[r.j].criado

Inv == TypeOK /\ AplicadoFoiCriado /\ \A p \in Pedidos : Certo(pedido[p])

(* What a step may do to the jobs. *)
Evolui ==
    /\ Trabalhos \subseteq Trabalhos'
    /\ \A j \in Trabalhos : trabalho[j].criado => trabalho'[j].criado

-----------------------------------------------------------------------------
(* Rows *)

LEMMA LivreNaoTemPc == Livre.pc \notin Pcs /\ Livre \in PedidoRow
BY DEF Livre, Pcs, PedidoRow

LEMMA TrabalhosTipo ==
    ASSUME CronogramasAssumption, TypeOK
    PROVE  /\ Len(trabalho) \in Nat /\ Len(trabalho) <= MaxTrabalhos /\ MaxTrabalhos \in Nat
           /\ Trabalhos = 1..Len(trabalho) /\ DOMAIN processo = Trabalhos
           /\ trabalho \in [Trabalhos -> TrabalhoRow]
           /\ Trabalhos \subseteq 0..MaxTrabalhos
BY DEF CronogramasAssumption, TypeOK, Trabalhos

LEMMA CronogramasTipo ==
    ASSUME CronogramasAssumption, TypeOK
    PROVE  /\ DOMAIN cronograma \subseteq Cronogramas
           /\ \A c : Existe(c) => c \in Cronogramas
BY DEF CronogramasAssumption, TypeOK, Cronogramas, Existe

(* What a request that has begun holds. *)
LEMMA PedidoTipo ==
    ASSUME TypeOK, NEW p \in Pedidos, pedido[p].pc \in Pcs
    PROVE  /\ pedido[p].c \in Cronogramas /\ pedido[p].j \in 0..MaxTrabalhos
           /\ pedido[p].nums \subseteq Nat /\ pedido[p].base \in Nat
           /\ pedido[p] \in [pc: Pcs, c: Cronogramas, j: 0..MaxTrabalhos, t: Turmas \cup {Nulo},
                             substituir: BOOLEAN \cup {Nulo}, nums: SUBSET Nat, base: Nat,
                             apagou: BOOLEAN]
<1>1. pedido[p] \in PedidoRow /\ pedido[p] # Livre
  BY LivreNaoTemPc DEF TypeOK
<1> QED BY <1>1 DEF PedidoRow

LEMMA ComecaTipo ==
    ASSUME CronogramasAssumption, NEW pc \in Pcs, NEW c \in Cronogramas, NEW j \in 0..MaxTrabalhos
    PROVE  /\ Comeca(pc, c, j) \in PedidoRow
           /\ Comeca(pc, c, j).pc = pc /\ Comeca(pc, c, j).j = j
BY DEF Comeca, PedidoRow, CronogramasAssumption

LEMMA FalhasTipo == ASSUME TypeOK, SemFalha \/ Falha PROVE falhas' \in Nat
BY DEF TypeOK, SemFalha, Falha

-----------------------------------------------------------------------------
(* The jobs *)

LEMMA MesmosTrabalhos ==
    ASSUME Inv, UNCHANGED trabalho
    PROVE  Evolui /\ AplicadoFoiCriado'
BY DEF Inv, Evolui, AplicadoFoiCriado, Trabalhos

LEMMA GravaTrabalhos ==
    ASSUME CronogramasAssumption, Inv, NEW T, NEW e \in {"removido", "DESCARTADO"}, GravaEstado(T, e)
    PROVE  /\ trabalho' \in Seq(TrabalhoRow) /\ Len(trabalho') = Len(trabalho)
           /\ Evolui /\ AplicadoFoiCriado'
<1>1. /\ Len(trabalho) \in Nat /\ Trabalhos = 1..Len(trabalho)
      /\ trabalho \in [Trabalhos -> TrabalhoRow]
  BY TrabalhosTipo DEF Inv
<1>2. \A j \in Trabalhos : LET n == [trabalho[j] EXCEPT !.estado = e, !.texto = FALSE]
                           IN  n \in TrabalhoRow /\ n.criado = trabalho[j].criado /\ n.estado = e
  BY <1>1 DEF TrabalhoRow, Fechados
<1>3. /\ trabalho' \in [Trabalhos -> TrabalhoRow] /\ Trabalhos' = Trabalhos
      /\ \A j \in Trabalhos : trabalho'[j].criado = trabalho[j].criado
      /\ \A j \in Trabalhos : trabalho'[j].estado \in {trabalho[j].estado, e}
  BY <1>1, <1>2 DEF GravaEstado, Trabalhos
<1>4. trabalho' \in Seq(TrabalhoRow) /\ Len(trabalho') = Len(trabalho)
  BY <1>1, <1>3 DEF Trabalhos
<1>5. Evolui /\ AplicadoFoiCriado'
  BY <1>3 DEF Evolui, AplicadoFoiCriado, Inv
<1> QED BY <1>4, <1>5

LEMMA UmTrabalho ==
    ASSUME CronogramasAssumption, Inv, NEW j \in Trabalhos, NEW e \in TrabalhoRow,
           trabalho[j].criado => e.criado, e.estado = "APLICADO" => e.criado,
           trabalho' = [trabalho EXCEPT ![j] = e] \/ UNCHANGED trabalho
    PROVE  /\ trabalho' \in Seq(TrabalhoRow) /\ Len(trabalho') = Len(trabalho)
           /\ Evolui /\ AplicadoFoiCriado'
<1>1. /\ Len(trabalho) \in Nat /\ Trabalhos = 1..Len(trabalho)
      /\ trabalho \in [Trabalhos -> TrabalhoRow] /\ trabalho \in Seq(TrabalhoRow)
  BY TrabalhosTipo DEF Inv, TypeOK
<1>2. CASE UNCHANGED trabalho
  BY <1>1, <1>2, MesmosTrabalhos
<1>3. CASE trabalho' = [trabalho EXCEPT ![j] = e]
  <2>1. /\ trabalho' \in [Trabalhos -> TrabalhoRow] /\ Trabalhos' = Trabalhos
        /\ \A k \in Trabalhos : trabalho'[k] = IF k = j THEN e ELSE trabalho[k]
    BY <1>1, <1>3 DEF Trabalhos
  <2>2. trabalho' \in Seq(TrabalhoRow) /\ Len(trabalho') = Len(trabalho)
    BY <1>1, <2>1 DEF Trabalhos
  <2>3. Evolui /\ AplicadoFoiCriado'
    BY <2>1 DEF Evolui, AplicadoFoiCriado, Inv
  <2> QED BY <2>2, <2>3
<1> QED BY <1>2, <1>3

-----------------------------------------------------------------------------
(* The requests *)

LEMMA CertoFica ==
    ASSUME Evolui, NEW r, Certo(r)
    PROVE  Certo(r)'
BY DEF Evolui, Certo, ComTrabalho

(* One request goes on to r and the rest stay. *)
LEMMA SegueInv ==
    ASSUME CronogramasAssumption, Inv, NEW p \in Pedidos, NEW r \in PedidoRow, Segue(p, r), Certo(r)',
           Evolui, AplicadoFoiCriado',
           pedido' \in [Pedidos -> PedidoRow] => TypeOK'
    PROVE  Inv'
<1>1. pedido' \in [Pedidos -> PedidoRow] /\ pedido'[p] = r
      /\ \A o \in Pedidos \ {p} : pedido'[o] = pedido[o]
  BY DEF Segue, Inv, TypeOK
<1>2. \A o \in Pedidos : Certo(pedido[o])'
  BY <1>1, CertoFica DEF Inv, Certo, Trabalhos
<1> QED BY <1>1, <1>2 DEF Inv

(* A step that changes the request only. *)
LEMMA SoPedido ==
    ASSUME CronogramasAssumption, Inv, NEW p \in Pedidos, NEW r \in PedidoRow, Segue(p, r), Certo(r),
           MesmoPlano, UNCHANGED <<sessao, trabalho, processo>>, falhas' \in Nat
    PROVE  Inv'
<1>1. Evolui /\ AplicadoFoiCriado'
  BY MesmosTrabalhos
<1>2. pedido' \in [Pedidos -> PedidoRow] => TypeOK'
  BY DEF Inv, TypeOK, MesmoPlano
<1>3. Certo(r)'
  BY <1>1, CertoFica
<1> QED BY <1>1, <1>2, <1>3, SegueInv

(* A step that leaves the requests alone. *)
LEMMA PedidosFicam ==
    ASSUME CronogramasAssumption, Inv, UNCHANGED pedido, TypeOK', Evolui, AplicadoFoiCriado'
    PROVE  Inv'
BY CertoFica DEF Inv, Certo, Trabalhos

-----------------------------------------------------------------------------
(* The steps *)

LEMMA InvInit == ASSUME CronogramasAssumption, Init PROVE Inv
<1>1. TypeOK
  BY LivreNaoTemPc DEF Init, TypeOK, CronogramasAssumption
<1>2. AplicadoFoiCriado /\ \A p \in Pedidos : Certo(pedido[p])
  BY LivreNaoTemPc DEF Init, AplicadoFoiCriado, Trabalhos, Certo
<1> QED BY <1>1, <1>2 DEF Inv

LEMMA LinhasTipo ==
    ASSUME NEW c \in Cronogramas, NEW t \in Turmas, NEW N \in SUBSET Nat
    PROVE  Linhas(c, t, N) \subseteq SessaoRow
<1>1. ASSUME NEW n \in N
      PROVE  [c |-> c, t |-> t, n |-> n, irmas |-> N] \in SessaoRow
  <2>1. n \in Nat /\ N \in SUBSET Nat
    OBVIOUS
  <2> HIDE DEF SessaoRow
  <2> QED BY <2>1 DEF SessaoRow
<1> QED BY <1>1 DEF Linhas

LEMMA PlanoInv == ASSUME CronogramasAssumption, Inv, Plano PROVE Inv'
<1>1. CASE CriarCronograma
  <2>1. cronograma' \in Seq({"aberto", "aprovado", "removido"}) /\ Len(cronograma') <= MaxCronogramas
    BY <1>1, AppendProperties DEF CriarCronograma, Inv, TypeOK, CronogramasAssumption
  <2>2. TypeOK' /\ UNCHANGED <<trabalho, pedido>>
    BY <1>1, <2>1 DEF CriarCronograma, Inv, TypeOK
  <2> QED BY <2>2, MesmosTrabalhos, PedidosFicam
<1>2. ASSUME NEW c \in Cronogramas, Aprovar(c)
      PROVE  Inv'
  <2>1. cronograma' \in Seq({"aberto", "aprovado", "removido"}) /\ Len(cronograma') <= MaxCronogramas
    BY <1>2 DEF Aprovar, Existe, Inv, TypeOK, CronogramasAssumption
  <2>2. TypeOK' /\ UNCHANGED <<trabalho, pedido>>
    BY <1>2, <2>1 DEF Aprovar, Inv, TypeOK
  <2> QED BY <2>2, MesmosTrabalhos, PedidosFicam
<1>3. ASSUME NEW c \in Cronogramas, RemoverCronograma(c)
      PROVE  Inv'
  <2>1. cronograma' \in Seq({"aberto", "aprovado", "removido"}) /\ Len(cronograma') <= MaxCronogramas
    BY <1>3 DEF RemoverCronograma, Existe, Inv, TypeOK, CronogramasAssumption
  <2>2. /\ trabalho' \in Seq(TrabalhoRow) /\ Len(trabalho') = Len(trabalho)
        /\ Evolui /\ AplicadoFoiCriado'
    BY <1>3, GravaTrabalhos DEF RemoverCronograma
  <2>3. TypeOK' /\ UNCHANGED pedido
    BY <1>3, <2>1, <2>2 DEF RemoverCronograma, Inv, TypeOK
  <2> QED BY <2>2, <2>3, PedidosFicam
<1>4. ASSUME NEW t \in Turmas, CriarTurma(t) \/ RemoverTurma(t)
      PROVE  Inv'
  <2>1. TypeOK' /\ UNCHANGED <<trabalho, pedido>>
    BY <1>4 DEF CriarTurma, RemoverTurma, Inv, TypeOK
  <2> QED BY <2>1, MesmosTrabalhos, PedidosFicam
<1>5. ASSUME NEW c \in Cronogramas, NEW t \in Turmas, NEW n \in 1..MaxNumero, CriarSessao(c, t, n)
      PROVE  Inv'
  <2>1. {n} \in SUBSET Nat
    BY DEF CronogramasAssumption
  <2>2. TypeOK' /\ UNCHANGED <<trabalho, pedido>>
    BY <1>5, <2>1, LinhasTipo DEF CriarSessao, Inv, TypeOK
  <2> QED BY <2>2, MesmosTrabalhos, PedidosFicam
<1> QED BY <1>1, <1>2, <1>3, <1>4, <1>5 DEF Plano

(* A request that begins. *)
LEMMA ComecaInv ==
    ASSUME CronogramasAssumption, Inv, NEW p \in Pedidos, NEW c \in Cronogramas, NEW j \in {0} \cup Trabalhos,
           NEW r \in PedidoRow, Segue(p, r), r.j = j,
           r.pc \in {"iniciar.descartar", "aplicar.verificar"} \/ (r.pc = "guardar.gravar" /\ j # 0),
           MesmoPlano, UNCHANGED <<sessao, trabalho, processo>>, SemFalha
    PROVE  Inv'
<1>1. Certo(r)
  BY DEF Certo, ComTurma, ComTrabalho
<1> QED BY <1>1, FalhasTipo, SoPedido DEF Inv

LEMMA ChegaInv == ASSUME CronogramasAssumption, Inv, NEW p \in Pedidos, Chega(p) PROVE Inv'
<1>1. /\ Trabalhos \subseteq 0..MaxTrabalhos /\ 0 \in 0..MaxTrabalhos
      /\ DOMAIN cronograma \subseteq Cronogramas
      /\ \A j \in Trabalhos : trabalho[j].c \in Cronogramas /\ j # 0
  BY TrabalhosTipo, CronogramasTipo DEF Inv, TrabalhoRow
<1>2. ASSUME NEW c \in Cronogramas, Iniciar(p, c)
      PROVE  Inv'
  <2> DEFINE r == Comeca("iniciar.descartar", c, 0)
  <2>1. r \in PedidoRow /\ r.pc = "iniciar.descartar" /\ r.j = 0
    BY <1>1, ComecaTipo DEF Pcs
  <2> HIDE DEF r
  <2>2. Segue(p, r) /\ MesmoPlano /\ UNCHANGED <<sessao, trabalho, processo>> /\ SemFalha
    BY <1>2 DEF Iniciar, r
  <2> QED BY <2>1, <2>2, ComecaInv
<1>3. ASSUME NEW c \in Cronogramas, NEW j \in {0} \cup Trabalhos, Aplica(p, c, j),
             MesmoPlano, UNCHANGED <<sessao, trabalho, processo>>, SemFalha
      PROVE  Inv'
  <2>1. PICK t \in Turmas \cup {Nulo}, s \in BOOLEAN \cup {Nulo}, N \in Listas :
           Segue(p, [Comeca("aplicar.verificar", c, j) EXCEPT !.t = t, !.substituir = s, !.nums = N])
    BY <1>3 DEF Aplica
  <2> DEFINE r == [Comeca("aplicar.verificar", c, j) EXCEPT !.t = t, !.substituir = s, !.nums = N]
  <2>2. N \subseteq Nat
    BY DEF CronogramasAssumption
  <2>3. r \in PedidoRow /\ r.pc = "aplicar.verificar" /\ r.j = j
    BY <1>1, <2>2 DEF Comeca, PedidoRow, Pcs
  <2> HIDE DEF r
  <2> QED BY <1>3, <2>1, <2>3, ComecaInv DEF r
<1>4. ASSUME NEW c \in Cronogramas, Aplicar(p, c)
      PROVE  Inv'
  BY <1>3, <1>4 DEF Aplicar
<1>5. ASSUME NEW j \in Trabalhos, AplicarTrabalho(p, j)
      PROVE  Inv'
  BY <1>1, <1>3, <1>5 DEF AplicarTrabalho
<1>6. ASSUME NEW j \in Trabalhos, Guardar(p, j)
      PROVE  Inv'
  <2> DEFINE c == trabalho[j].c
             r == Comeca("guardar.gravar", c, j)
  <2>1. c \in Cronogramas /\ j # 0 /\ j \in 0..MaxTrabalhos
    BY <1>1
  <2>2. Segue(p, r) /\ MesmoPlano /\ UNCHANGED <<sessao, trabalho, processo>> /\ SemFalha
    BY <1>6 DEF Guardar
  <2> HIDE DEF c
  <2>3. r \in PedidoRow /\ r.pc = "guardar.gravar" /\ r.j = j
    BY <2>1, ComecaTipo DEF Pcs
  <2> HIDE DEF r
  <2> QED BY <2>1, <2>2, <2>3, ComecaInv
<1>7. ASSUME NEW j \in Trabalhos, Descartar(p, j)
      PROVE  Inv'
  <2>1. /\ trabalho' \in Seq(TrabalhoRow) /\ Len(trabalho') = Len(trabalho)
        /\ Evolui /\ AplicadoFoiCriado'
    BY <1>7, GravaTrabalhos DEF Descartar
  <2>2. TypeOK' /\ UNCHANGED pedido
    BY <1>7, <2>1 DEF Descartar, Inv, TypeOK, MesmoPlano, SemFalha
  <2> QED BY <2>1, <2>2, PedidosFicam
<1> QED BY <1>2, <1>4, <1>5, <1>6, <1>7 DEF Chega

(* A request that ends, in a step that changes nothing else. *)
LEMMA TerminaInv ==
    ASSUME CronogramasAssumption, Inv, NEW p \in Pedidos, Termina(p), MesmoPlano,
           UNCHANGED <<sessao, trabalho, processo>>, falhas' \in Nat
    PROVE  Inv'
BY LivreNaoTemPc, SoPedido DEF Termina, Certo

(* A request that goes on to pc, having read only. *)
LEMMA PassaInv ==
    ASSUME CronogramasAssumption, Inv, NEW p \in Pedidos, pedido[p].pc \in ComTurma,
           NEW pc \in ComTurma \ {"aplicar.contar"}, Passa(p, pc),
           MesmoPlano, UNCHANGED <<sessao, trabalho, processo>>, SemFalha
    PROVE  Inv'
<1> DEFINE r == [pedido[p] EXCEPT !.pc = pc]
<1>1. pedido[p].pc \in Pcs /\ pc \in Pcs /\ Certo(pedido[p])
  BY DEF ComTurma, Pcs, Inv
<1>2. /\ r \in PedidoRow /\ r.pc = pc /\ r.j = pedido[p].j /\ r.t = pedido[p].t
  BY <1>1, PedidoTipo DEF PedidoRow, Inv
<1>3. Segue(p, r)
  BY DEF Passa
<1> HIDE DEF r
<1>4. Certo(r)
  BY <1>1, <1>2 DEF Certo, ComTurma, ComTrabalho
<1> QED BY <1>2, <1>3, <1>4, SoPedido, FalhasTipo DEF Inv

LEMMA LeituraInv ==
    ASSUME CronogramasAssumption, Inv, NEW p \in Pedidos,
           AplicarContar(p) \/ AplicarRecusar(p) \/ AplicarAceitar(p)
    PROVE  Inv'
<1>1. falhas' \in Nat /\ MesmoPlano /\ UNCHANGED <<sessao, trabalho, processo>> /\ SemFalha
  BY FalhasTipo DEF Inv, AplicarContar, AplicarRecusar, AplicarAceitar
<1>2. CASE Termina(p)
  BY <1>1, <1>2, TerminaInv
<1>3. CASE ~Termina(p)
  <2>1. \/ /\ pedido[p].pc = "aplicar.contar"
           /\ Passa(p, "aplicar.validar") \/ Passa(p, "aplicar.apagar") \/ Passa(p, "aplicar.numerar")
        \/ pedido[p].pc = "aplicar.validar" /\ Passa(p, "aplicar.criar")
    <3>1. CASE AplicarContar(p)
      <4>1. CASE DaTurma(pedido[p].c, pedido[p].t) = {}
        BY <3>1, <4>1 DEF AplicarContar
      <4>2. CASE DaTurma(pedido[p].c, pedido[p].t) # {}
        <5>1. pedido[p].substituir \in BOOLEAN \cup {Nulo} /\ Nulo \notin BOOLEAN
          <6>1. pedido[p].pc \in Pcs
            BY <3>1 DEF AplicarContar, Pcs
          <6> QED BY <6>1, PedidoTipo DEF Inv, CronogramasAssumption
        <5> QED BY <1>3, <3>1, <4>2, <5>1 DEF AplicarContar
      <4> QED BY <4>1, <4>2
    <3>2. CASE AplicarRecusar(p)
      BY <1>3, <3>2 DEF AplicarRecusar
    <3>3. CASE AplicarAceitar(p)
      BY <3>3 DEF AplicarAceitar
    <3> QED BY <3>1, <3>2, <3>3
  <2> QED BY <1>1, <2>1, PassaInv DEF ComTurma
<1> QED BY <1>2, <1>3

(* A request that goes on with another record and has read only. *)
LEMMA NumerarVerificarInv ==
    ASSUME CronogramasAssumption, Inv, NEW p \in Pedidos, AplicarNumerar(p) \/ AplicarVerificar(p)
    PROVE  Inv'
<1>1. falhas' \in Nat /\ MesmoPlano /\ UNCHANGED <<sessao, trabalho, processo>>
  BY FalhasTipo DEF Inv, AplicarNumerar, AplicarVerificar
<1>2. pedido[p].pc \in Pcs /\ Certo(pedido[p])
  BY DEF AplicarNumerar, AplicarVerificar, Pcs, Inv
<1>3. CASE AplicarNumerar(p)
  <2>1. PICK m \in UltimoNumero(DaTurma(pedido[p].c, pedido[p].t)) :
           Segue(p, [pedido[p] EXCEPT !.pc = "aplicar.validar", !.base = m])
    BY <1>3 DEF AplicarNumerar
  <2>2. m \in Nat
    BY DEF UltimoNumero, DaTurma, Inv, TypeOK, SessaoRow
  <2> DEFINE r == [pedido[p] EXCEPT !.pc = "aplicar.validar", !.base = m]
  <2>3. r \in PedidoRow /\ r.pc = "aplicar.validar" /\ r.j = pedido[p].j /\ r.t = pedido[p].t
    BY <1>2, <2>2, PedidoTipo DEF PedidoRow, Pcs, Inv
  <2>4. pedido[p].pc = "aplicar.numerar"
    BY <1>3 DEF AplicarNumerar
  <2> HIDE DEF r
  <2>5. Certo(r)
    BY <1>2, <2>3, <2>4 DEF Certo, ComTurma, ComTrabalho
  <2> QED BY <1>1, <2>1, <2>3, <2>5, SoPedido DEF r
<1>4. CASE AplicarVerificar(p) /\ Termina(p)
  BY <1>1, <1>4, TerminaInv
<1>5. CASE AplicarVerificar(p) /\ ~Termina(p)
  <2>1. PICK t \in TurmaAlvo(pedido[p].t) : Segue(p, [pedido[p] EXCEPT !.pc = "aplicar.contar", !.t = t])
    BY <1>5 DEF AplicarVerificar
  <2>2. t \in Turmas
    BY DEF TurmaAlvo
  <2> DEFINE r == [pedido[p] EXCEPT !.pc = "aplicar.contar", !.t = t]
  <2>3. r \in PedidoRow /\ r.pc = "aplicar.contar" /\ r.j = pedido[p].j /\ r.t = t
    BY <1>2, <2>2, PedidoTipo DEF PedidoRow, Pcs, Inv
  <2> HIDE DEF r
  <2>4. Certo(r)
    BY <1>2, <2>2, <2>3 DEF Certo, ComTrabalho
  <2> QED BY <1>1, <2>1, <2>3, <2>4, SoPedido DEF r
<1> QED BY <1>3, <1>4, <1>5

LEMMA ApagarInv == ASSUME CronogramasAssumption, Inv, NEW p \in Pedidos, AplicarApagar(p) PROVE Inv'
<1>1. pedido[p].pc = "aplicar.apagar" /\ pedido[p].pc \in Pcs /\ Certo(pedido[p])
  BY DEF AplicarApagar, Pcs, Inv
<1>2. PICK r \in PedidoRow : /\ r.pc = "aplicar.validar" /\ r.j = pedido[p].j /\ r.t = pedido[p].t
                             /\ Segue(p, r)
  <2> DEFINE r == [pedido[p] EXCEPT !.pc = "aplicar.validar", !.apagou = TRUE]
  <2>1. r \in PedidoRow /\ r.pc = "aplicar.validar" /\ r.j = pedido[p].j /\ r.t = pedido[p].t
    BY <1>1, PedidoTipo DEF PedidoRow, Pcs, Inv
  <2>2. Segue(p, r)
    BY DEF AplicarApagar
  <2> QED BY <2>1, <2>2
<1>3. /\ MesmoPlano /\ UNCHANGED <<trabalho, processo>> /\ SemFalha
      /\ sessao' \subseteq sessao
  BY DEF AplicarApagar
<1>4. Certo(r)
  BY <1>1, <1>2 DEF Certo, ComTurma, ComTrabalho
<1>5. Evolui /\ AplicadoFoiCriado' /\ Certo(r)'
  BY <1>3, <1>4, MesmosTrabalhos, CertoFica
<1>6. pedido' \in [Pedidos -> PedidoRow] => TypeOK'
  BY <1>3, FalhasTipo DEF Inv, TypeOK, MesmoPlano
<1> QED BY <1>2, <1>3, <1>5, <1>6, SegueInv

LEMMA CriarInv == ASSUME CronogramasAssumption, Inv, NEW p \in Pedidos, AplicarCriar(p) PROVE Inv'
<1> DEFINE q == pedido[p]
           N == Numeros(q)
<1>1. q.pc = "aplicar.criar" /\ q.pc \in Pcs /\ Certo(q)
  BY DEF AplicarCriar, Pcs, Inv
<1>2. q.c \in Cronogramas /\ q.j \in {0} \cup Trabalhos /\ q.t \in Turmas /\ N \in SUBSET Nat
  BY <1>1, PedidoTipo DEF Certo, ComTurma, Numeros, Inv
<1>3. MesmoPlano /\ UNCHANGED processo /\ falhas' \in Nat
  BY FalhasTipo DEF AplicarCriar, Inv
<1>4. CASE Termina(p) /\ UNCHANGED trabalho
  <2>1. sessao' \subseteq SessaoRow
    BY <1>2, LinhasTipo DEF AplicarCriar, Inv, TypeOK
  <2>2. Evolui /\ AplicadoFoiCriado'
    BY <1>4, MesmosTrabalhos
  <2>3. pedido' \in [Pedidos -> PedidoRow] => TypeOK'
    BY <1>3, <1>4, <2>1 DEF Inv, TypeOK, MesmoPlano
  <2> QED BY <1>4, <2>2, <2>3, LivreNaoTemPc, SegueInv DEF Termina, Certo
<1>5. CASE ~(Termina(p) /\ UNCHANGED trabalho)
  <2> DEFINE e == [trabalho[q.j] EXCEPT !.criado = TRUE]
  <2>1. /\ sessao' = sessao \cup Linhas(q.c, q.t, N) /\ q.j # 0
        /\ Segue(p, Comeca("aplicar.marcar", q.c, q.j))
        /\ trabalho' = [trabalho EXCEPT ![q.j].criado = TRUE]
    BY <1>5 DEF AplicarCriar
  <2>2. q.j \in Trabalhos /\ trabalho[q.j] \in TrabalhoRow /\ q.j \in 0..MaxTrabalhos
    BY <1>2, <2>1, TrabalhosTipo DEF Inv
  <2>3. e \in TrabalhoRow /\ e.criado /\ trabalho' = [trabalho EXCEPT ![q.j] = e]
    BY <2>1, <2>2 DEF TrabalhoRow
  <2> HIDE DEF e
  <2>4. trabalho' \in Seq(TrabalhoRow) /\ Len(trabalho') = Len(trabalho) /\ Evolui /\ AplicadoFoiCriado'
    BY <2>2, <2>3, UmTrabalho
  <2>5. PICK r \in PedidoRow : r.pc = "aplicar.marcar" /\ r.j = q.j /\ Segue(p, r)
    BY <1>2, <2>1, <2>2, ComecaTipo DEF Pcs
  <2>6. trabalho'[r.j].criado /\ r.j \in Trabalhos' /\ r.j # 0
    BY <2>1, <2>2, <2>3, <2>4, <2>5, TrabalhosTipo DEF Evolui, Inv
  <2>7. Certo(r)'
    BY <2>5, <2>6 DEF Certo, ComTurma
  <2>8. sessao' \subseteq SessaoRow
    BY <1>2, <2>1, LinhasTipo DEF Inv, TypeOK
  <2>9. pedido' \in [Pedidos -> PedidoRow] => TypeOK'
    BY <1>3, <2>4, <2>8 DEF Inv, TypeOK, MesmoPlano
  <2> QED BY <2>4, <2>5, <2>7, <2>9, SegueInv
<1> QED BY <1>4, <1>5

(* A request that writes one row of the jobs, the last thing it does. *)
LEMMA GravarInv ==
    ASSUME CronogramasAssumption, Inv, NEW p \in Pedidos, GuardarGravar(p) \/ AplicarMarcar(p)
    PROVE  Inv'
<1> DEFINE j == pedido[p].j
           e == IF pedido[p].pc = "guardar.gravar" THEN [trabalho[j] EXCEPT !.estado = "RASCUNHO"]
                ELSE [trabalho[j] EXCEPT !.estado = "APLICADO", !.texto = FALSE]
<1>1. pedido[p].pc \in ComTrabalho /\ pedido[p].pc \in Pcs /\ Certo(pedido[p])
  BY DEF GuardarGravar, AplicarMarcar, ComTrabalho, Pcs, Inv
<1>2. /\ j \in Trabalhos /\ trabalho[j] \in TrabalhoRow
      /\ pedido[p].pc = "aplicar.marcar" => trabalho[j].criado
  BY <1>1, TrabalhosTipo DEF Certo, Inv
<1>3. /\ e \in TrabalhoRow /\ e.criado = trabalho[j].criado
      /\ e.estado = IF pedido[p].pc = "guardar.gravar" THEN "RASCUNHO" ELSE "APLICADO"
  BY <1>2 DEF TrabalhoRow, Activos, Fechados
<1>4. trabalho' = [trabalho EXCEPT ![j] = e] \/ UNCHANGED trabalho
  BY DEF GuardarGravar, AplicarMarcar, Actualiza
<1>5. /\ Termina(p) /\ MesmoPlano /\ UNCHANGED <<sessao, processo>> /\ SemFalha
  BY DEF GuardarGravar, AplicarMarcar
<1>6. pedido[p].pc \in {"guardar.gravar", "aplicar.marcar"}
  BY <1>1 DEF ComTrabalho
<1> HIDE DEF e, j
<1>7. trabalho' \in Seq(TrabalhoRow) /\ Len(trabalho') = Len(trabalho) /\ Evolui /\ AplicadoFoiCriado'
  BY <1>2, <1>3, <1>4, <1>6, UmTrabalho
<1>8. pedido' \in [Pedidos -> PedidoRow] => TypeOK'
  BY <1>5, <1>7, FalhasTipo DEF Inv, TypeOK, MesmoPlano
<1> QED BY <1>5, <1>7, <1>8, LivreNaoTemPc, SegueInv DEF Termina, Certo

LEMMA IniciarInv ==
    ASSUME CronogramasAssumption, Inv, NEW p \in Pedidos, IniciarDescartar(p) \/ IniciarCriar(p)
    PROVE  Inv'
<1>1. pedido[p].pc \in Pcs /\ Certo(pedido[p]) /\ falhas' \in Nat
  BY FalhasTipo DEF IniciarDescartar, IniciarCriar, Pcs, Inv
<1>2. CASE IniciarDescartar(p)
  <2>1. PICK r \in PedidoRow : r.pc = "iniciar.criar" /\ r.j = pedido[p].j /\ Segue(p, r)
    <3> DEFINE r == [pedido[p] EXCEPT !.pc = "iniciar.criar"]
    <3>1. r \in PedidoRow /\ r.pc = "iniciar.criar" /\ r.j = pedido[p].j
      BY <1>1, PedidoTipo DEF PedidoRow, Pcs, Inv
    <3>2. Segue(p, r)
      BY <1>2 DEF IniciarDescartar, Passa
    <3> QED BY <3>1, <3>2
  <2>2. /\ trabalho' \in Seq(TrabalhoRow) /\ Len(trabalho') = Len(trabalho)
        /\ Evolui /\ AplicadoFoiCriado'
    BY <1>2, GravaTrabalhos DEF IniciarDescartar
  <2>3. Certo(r)
    BY <1>1, <2>1 DEF Certo, ComTurma, ComTrabalho
  <2>4. pedido' \in [Pedidos -> PedidoRow] => TypeOK'
    BY <1>1, <1>2, <2>2 DEF IniciarDescartar, Inv, TypeOK, MesmoPlano
  <2> QED BY <2>1, <2>2, <2>3, <2>4, CertoFica, SegueInv
<1>3. CASE IniciarCriar(p)
  <2> DEFINE c == pedido[p].c
             e == [c |-> c, dono |-> UtilizadorDe[p], estado |-> "A_PROCESSAR",
                   texto |-> TRUE, criado |-> FALSE]
  <2>1. c \in Cronogramas /\ Termina(p) /\ MesmoPlano /\ UNCHANGED sessao
    BY <1>1, <1>3, PedidoTipo DEF IniciarCriar, Inv
  <2>2. CASE UNCHANGED <<trabalho, processo>>
    BY <1>1, <2>1, <2>2, TerminaInv
  <2>3. CASE ~UNCHANGED <<trabalho, processo>>
    <3>1. /\ Len(trabalho) < MaxTrabalhos /\ trabalho' = Append(trabalho, e)
          /\ processo' = Append(processo, "ler")
      BY <1>3, <2>3 DEF IniciarCriar
    <3>2. e \in TrabalhoRow /\ ~e.criado /\ e.estado = "A_PROCESSAR"
      BY <2>1 DEF TrabalhoRow, Activos
    <3> HIDE DEF e
    <3>3. /\ Len(trabalho) \in Nat /\ Trabalhos = 1..Len(trabalho) /\ MaxTrabalhos \in Nat
          /\ trabalho \in Seq(TrabalhoRow)
      BY TrabalhosTipo DEF Inv, TypeOK
    <3>4. /\ trabalho' \in Seq(TrabalhoRow) /\ Len(trabalho') = Len(trabalho) + 1
          /\ Trabalhos' = 1..(Len(trabalho) + 1)
          /\ \A j \in Trabalhos : trabalho'[j] = trabalho[j]
          /\ trabalho'[Len(trabalho) + 1] = e
      BY <3>1, <3>2, <3>3, AppendProperties DEF Trabalhos
    <3>5. processo' \in Seq(ProcessoPc) /\ Len(processo') = Len(trabalho')
      BY <3>1, <3>4, AppendProperties DEF Inv, TypeOK, ProcessoPc
    <3>6. Evolui /\ AplicadoFoiCriado'
      <4>1. \A j \in Trabalhos' : j \in Trabalhos \/ j = Len(trabalho) + 1
        BY <3>3, <3>4
      <4> QED BY <3>2, <3>3, <3>4, <4>1 DEF Evolui, AplicadoFoiCriado, Inv
    <3>7. pedido' \in [Pedidos -> PedidoRow] => TypeOK'
      BY <1>1, <2>1, <3>1, <3>3, <3>4, <3>5 DEF Inv, TypeOK, MesmoPlano
    <3> QED BY <2>1, <3>6, <3>7, LivreNaoTemPc, SegueInv DEF Termina, Certo
  <2> QED BY <2>2, <2>3
<1> QED BY <1>2, <1>3

LEMMA ContinuaInv == ASSUME CronogramasAssumption, Inv, NEW p \in Pedidos, Continua(p) PROVE Inv'
BY LeituraInv, NumerarVerificarInv, ApagarInv, CriarInv, GravarInv, IniciarInv DEF Continua

LEMMA ProcessaInv ==
    ASSUME CronogramasAssumption, Inv, NEW j \in Trabalhos, Processa(j) \/ ProcessoFalhar(j)
    PROVE  Inv'
<1> DEFINE e == [trabalho[j] EXCEPT !.estado = IF processo[j] = "rascunho" THEN "RASCUNHO" ELSE "FALHA",
                                    !.texto = FALSE]
<1>1. processo' \in Seq(ProcessoPc) /\ Len(processo') = Len(processo)
  <2>1. \E pc \in ProcessoPc : Processo(j, pc)
    BY DEF Processa, ProcessoLer, ProcessoAnalisar, ProcessoGravar, ProcessoFalhar, ProcessoPc
  <2>2. processo \in Seq(ProcessoPc) /\ DOMAIN processo = Trabalhos
    BY TrabalhosTipo DEF Inv, TypeOK
  <2> QED BY <2>1, <2>2 DEF Processo
<1>2. SoProcesso /\ falhas' \in Nat
  BY FalhasTipo DEF Processa, ProcessoLer, ProcessoAnalisar, ProcessoGravar, ProcessoFalhar, Inv
<1>3. trabalho[j] \in TrabalhoRow
  BY TrabalhosTipo DEF Inv
<1>4. e \in TrabalhoRow /\ e.criado = trabalho[j].criado /\ e.estado # "APLICADO"
  BY <1>3 DEF TrabalhoRow, Activos
<1>5. trabalho' = [trabalho EXCEPT ![j] = e] \/ UNCHANGED trabalho
  BY DEF Processa, ProcessoLer, ProcessoAnalisar, ProcessoGravar, ProcessoFalhar, Actualiza
<1> HIDE DEF e
<1>6. trabalho' \in Seq(TrabalhoRow) /\ Len(trabalho') = Len(trabalho) /\ Evolui /\ AplicadoFoiCriado'
  BY <1>3, <1>4, <1>5, UmTrabalho
<1>7. TypeOK' /\ UNCHANGED pedido
  BY <1>1, <1>2, <1>6 DEF Inv, TypeOK, SoProcesso, MesmoPlano
<1> QED BY <1>6, <1>7, PedidosFicam

LEMMA ReiniciarInv == ASSUME CronogramasAssumption, Inv, Reiniciar PROVE Inv'
<1>1. Evolui /\ AplicadoFoiCriado' /\ UNCHANGED trabalho
  BY MesmosTrabalhos DEF Reiniciar
<1>2. /\ Len(trabalho) \in Nat /\ Trabalhos = 1..Len(trabalho)
  BY TrabalhosTipo DEF Inv
<1>3. processo' \in Seq(ProcessoPc) /\ Len(processo') = Len(trabalho)
  BY <1>2 DEF Reiniciar, ProcessoPc
<1>4. TypeOK'
  BY <1>1, <1>3, FalhasTipo, LivreNaoTemPc DEF Reiniciar, Inv, TypeOK, MesmoPlano
<1>5. \A p \in Pedidos : Certo(pedido[p])'
  BY LivreNaoTemPc DEF Reiniciar, Certo
<1> QED BY <1>1, <1>4, <1>5 DEF Inv

LEMMA InvSegue == ASSUME CronogramasAssumption, Inv, [Next]_vars PROVE Inv'
<1>1. CASE UNCHANGED vars
  BY <1>1 DEF vars, Inv, TypeOK, AplicadoFoiCriado, Certo, Trabalhos
<1>2. ASSUME NEW p \in Pedidos, Interromper(p)
      PROVE  Inv'
  BY <1>2, FalhasTipo, TerminaInv DEF Interromper, Inv
<1> QED BY <1>1, <1>2, PlanoInv, ChegaInv, ContinuaInv, ProcessaInv, ReiniciarInv DEF Next

LEMMA InvSempre == ASSUME CronogramasAssumption PROVE Seguranca => []Inv
BY InvInit, InvSegue, PTL DEF Seguranca

-----------------------------------------------------------------------------
(* Schedules, sessions, jobs and requests keep their types, whatever       *)
(* imports, edits, discards and removals do at the same time.              *)
THEOREM TypeCorrect == ASSUME CronogramasAssumption PROVE Spec => []TypeOK
<1>1. Inv => TypeOK
  BY DEF Inv
<1> QED BY <1>1, InvSempre, PTL DEF Spec

(* A job is APLICADO only if its sessions were created, with any number of *)
(* requests and background processings that write the same column.         *)
THEOREM AplicadoCorrecto == ASSUME CronogramasAssumption PROVE Spec => []AplicadoFoiCriado
<1>1. Inv => AplicadoFoiCriado
  BY DEF Inv
<1> QED BY <1>1, InvSempre, PTL DEF Spec

-----------------------------------------------------------------------------
(* What an import writes stays whole *)

(* The sessions a step leaves are those of whole classes, or of a whole    *)
(* schedule, and those it adds come together.                              *)
MudaInteira ==
    \/ UNCHANGED sessao
    \/ \E c, t, N : sessao' = sessao \cup Linhas(c, t, N)
    \/ \E c, t : sessao' = sessao \ DaTurma(c, t)
    \/ \E c : sessao' = {s \in sessao : s.c # c}
    \/ \E t : sessao' = {s \in sessao : s.t # t}

LEMMA PassoInteiro == ASSUME [Next]_vars PROVE MudaInteira
<1>1. CASE UNCHANGED vars
  BY <1>1 DEF vars, MudaInteira
<1>2. CASE Plano
  BY <1>2 DEF Plano, CriarCronograma, Aprovar, RemoverCronograma, CriarTurma, RemoverTurma, CriarSessao,
     MudaInteira
<1>3. ASSUME NEW p \in Pedidos, Chega(p) \/ Interromper(p)
      PROVE  MudaInteira
  BY <1>3 DEF Chega, Interromper, Iniciar, Aplicar, Guardar, Descartar, AplicarTrabalho, MudaInteira
<1>4. ASSUME NEW p \in Pedidos, Continua(p)
      PROVE  MudaInteira
  BY <1>4 DEF Continua, IniciarDescartar, IniciarCriar, GuardarGravar, AplicarVerificar, AplicarContar,
     AplicarApagar, Substituidas, AplicarNumerar, AplicarRecusar, AplicarAceitar, AplicarCriar,
     AplicarMarcar, MudaInteira
<1>5. ASSUME NEW j \in Trabalhos, Processa(j) \/ ProcessoFalhar(j)
      PROVE  MudaInteira
  BY <1>5 DEF Processa, ProcessoLer, ProcessoAnalisar, ProcessoGravar, ProcessoFalhar, SoProcesso, MudaInteira
<1>6. CASE Reiniciar
  BY <1>6 DEF Reiniciar, MudaInteira
<1> QED BY <1>1, <1>2, <1>3, <1>4, <1>5, <1>6 DEF Next

LEMMA IrmaDaSessao ==
    ASSUME NEW s \in SessaoRow, NEW n \in Nat
    PROVE  LET i == [s EXCEPT !.n = n]
           IN  i \in SessaoRow /\ i.c = s.c /\ i.t = s.t /\ i.n = n /\ i.irmas = s.irmas
BY DEF SessaoRow

LEMMA InteiraSegue ==
    ASSUME TypeOK, ImportacaoInteira, MudaInteira, TypeOK'
    PROVE  ImportacaoInteira'
<1>1. \A s \in sessao : s \in SessaoRow /\ s.irmas \subseteq Nat
  BY DEF TypeOK, SessaoRow
<1>2. CASE UNCHANGED sessao
  BY <1>2 DEF ImportacaoInteira
<1>3. ASSUME NEW c, NEW t, NEW N, sessao' = sessao \cup Linhas(c, t, N)
      PROVE  ImportacaoInteira'
  <2>1. ASSUME NEW s \in Linhas(c, t, N), NEW n \in s.irmas
        PROVE  [s EXCEPT !.n = n] \in Linhas(c, t, N)
    <3>1. PICK m \in N : s = [c |-> c, t |-> t, n |-> m, irmas |-> N]
      BY DEF Linhas
    <3>2. n \in N
      BY <3>1
    <3>3. [s EXCEPT !.n = n] = [c |-> c, t |-> t, n |-> n, irmas |-> N]
      BY <3>1
    <3> QED BY <3>2, <3>3 DEF Linhas
  <2> QED BY <1>3, <2>1 DEF ImportacaoInteira
<1>4. ASSUME NEW c, NEW t, sessao' = sessao \ DaTurma(c, t)
      PROVE  ImportacaoInteira'
  BY <1>1, <1>4, IrmaDaSessao DEF ImportacaoInteira, DaTurma
<1>5. ASSUME NEW c, sessao' = {s \in sessao : s.c # c}
      PROVE  ImportacaoInteira'
  BY <1>1, <1>5, IrmaDaSessao DEF ImportacaoInteira
<1>6. ASSUME NEW t, sessao' = {s \in sessao : s.t # t}
      PROVE  ImportacaoInteira'
  BY <1>1, <1>6, IrmaDaSessao DEF ImportacaoInteira
<1> QED BY <1>2, <1>3, <1>4, <1>5, <1>6 DEF MudaInteira

LEMMA InteiraSempre == ASSUME CronogramasAssumption PROVE Seguranca => []ImportacaoInteira
<1>1. Init => ImportacaoInteira
  BY DEF Init, ImportacaoInteira
<1>2. Inv /\ Inv' /\ ImportacaoInteira /\ [Next]_vars => ImportacaoInteira'
  BY PassoInteiro, InteiraSegue DEF Inv
<1> QED BY <1>1, <1>2, InvSempre, PTL DEF Seguranca

(* A class never has a part of what one import, or one request, created,   *)
(* with any number of imports, sessions created by hand, removals and      *)
(* failures at the same time.                                              *)
THEOREM ImportacaoCorrecta == ASSUME CronogramasAssumption PROVE Spec => []ImportacaoInteira
BY InteiraSempre, PTL DEF Spec
=============================================================================
