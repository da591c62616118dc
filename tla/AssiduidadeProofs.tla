-------------------------- MODULE AssiduidadeProofs --------------------------
(* Theorems about Assiduidade, for every set of sessions, learners,        *)
(* messages, workers and requests, and every transport.                    *)
EXTENDS Assiduidade, TLAPS, FiniteSetTheorems

-----------------------------------------------------------------------------
(* The log *)

(* A non-empty set of naturals has a smallest element: strict inclusion is *)
(* well-founded on the initial segments 0 .. x.                            *)
LEMMA HaMenor ==
    ASSUME NEW S \in SUBSET Nat, S # {}
    PROVE  \E x \in S : \A y \in S : x <= y
<1> DEFINE T == {0 .. x : x \in S}
<1>1. T \subseteq FiniteSubsetsOf(Nat) /\ T # {}
  <2>1. ASSUME NEW x \in S PROVE 0 .. x \in FiniteSubsetsOf(Nat)
    <3>1. x \in Nat /\ 0 .. x \in SUBSET Nat
      OBVIOUS
    <3>2. IsFiniteSet(0 .. x)
      BY <3>1, FS_Interval
    <3> QED BY <3>1, <3>2 DEF FiniteSubsetsOf
  <2> QED BY <2>1
<1>2. \E t \in T : \A u \in T : <<u, t>> \notin StrictSubsetOrdering(Nat)
  <2>1. IsWellFoundedOn(StrictSubsetOrdering(Nat), FiniteSubsetsOf(Nat))
    BY FS_StrictSubsetOrderingWellFounded
  <2> HIDE DEF T
  <2> QED BY <1>1, <2>1, WFMin
<1>3. PICK x \in S : \A y \in S : <<0 .. y, 0 .. x>> \notin StrictSubsetOrdering(Nat)
  BY <1>2
<1>4. ASSUME NEW y \in S, y < x PROVE FALSE
  <2>1. x \in Nat /\ y \in Nat
    OBVIOUS
  <2>2. 0 .. y \in SUBSET Nat /\ 0 .. x \in SUBSET Nat /\ 0 .. y \subseteq 0 .. x
    BY <1>4, <2>1
  <2>3. x \in 0 .. x /\ x \notin 0 .. y
    BY <1>4, <2>1
  <2> QED BY <1>3, <2>2, <2>3 DEF StrictSubsetOrdering
<1> QED BY <1>4

(* A non-empty set of positions of a log has a last one.                   *)
LEMMA HaUltimo ==
    ASSUME NEW n \in Nat, NEW M \in SUBSET (1 .. n), M # {}
    PROVE  \E i \in M : \A j \in M : j <= i
<1> DEFINE S == {k \in 0 .. n : \E i \in M : k = n - i}
<1>1. S \in SUBSET Nat
  OBVIOUS
<1>2. \A i \in M : i \in 1 .. n /\ n - i \in S
  OBVIOUS
<1>3. S # {}
  BY <1>2
<1>4. PICK x \in S : \A y \in S : x <= y
  BY <1>1, <1>3, HaMenor
<1>5. PICK i \in M : x = n - i
  OBVIOUS
<1>6. ASSUME NEW j \in M PROVE j <= i
  <2>1. x <= n - j
    BY <1>2, <1>4
  <2> QED BY <1>2, <1>5, <2>1
<1> QED BY <1>6

(* ultimoJoinAberto looks at a row of the log, the last entrance or exit.  *)
LEMMA UltimoMovimentoNoLog ==
    ASSUME NEW log \in Seq(AcessoRow), UltimoMovimento(log) # 0
    PROVE  /\ UltimoMovimento(log) \in 1 .. Len(log)
           /\ log[UltimoMovimento(log)].evento \in {"join", "leave"}
           /\ \A j \in (UltimoMovimento(log) + 1) .. Len(log) : log[j].evento \notin {"join", "leave"}
<1> DEFINE M == {i \in DOMAIN log : log[i].evento \in {"join", "leave"}}
<1>1. M # {} /\ M \in SUBSET (1 .. Len(log))
  BY DEF UltimoMovimento
<1>2. \E i \in M : \A j \in M : j <= i
  <2>1. Len(log) \in Nat
    OBVIOUS
  <2> HIDE DEF M
  <2> QED BY <1>1, <2>1, HaUltimo
<1>3. UltimoMovimento(log) \in M /\ \A j \in M : j <= UltimoMovimento(log)
  BY <1>1, <1>2 DEF UltimoMovimento
<1> QED BY <1>1, <1>3

(* segundosDesdeUltimoJoin: a natural number or null.                      *)
LEMMA SegundosTipo ==
    ASSUME NEW log \in Seq(AcessoRow), NEW ate \in Nat
    PROVE  SegundosDesdeUltimoJoin(log, ate) \in Nat \cup {Nulo}
<1>1. CASE ~EmSessao(log)
  BY <1>1 DEF SegundosDesdeUltimoJoin
<1>2. CASE EmSessao(log)
  <2>1. log[UltimoMovimento(log)] \in AcessoRow
    BY <1>2, UltimoMovimentoNoLog DEF EmSessao
  <2>2. log[UltimoMovimento(log)].em \in Nat
    BY <2>1 DEF AcessoRow
  <2> QED BY <1>2, <2>2 DEF SegundosDesdeUltimoJoin, SemNegativos
<1> QED BY <1>1, <1>2

(* A new row keeps the type of the logs.                                   *)
LEMMA AcrescentarTipo ==
    ASSUME TypeOK, NEW s \in Sessoes, NEW f \in Formandos, NEW ev \in Eventos,
           NEW d \in Nat \cup {Nulo}, Acrescentar(s, f, ev, d)
    PROVE  acessos' \in [Sessoes -> [Formandos -> Seq(AcessoRow)]]
<1>1. Registo(ev, d) \in AcessoRow
  BY DEF Registo, AcessoRow, TypeOK
<1>2. Append(acessos[s][f], Registo(ev, d)) \in Seq(AcessoRow)
  BY <1>1 DEF TypeOK
<1>3. [acessos[s] EXCEPT ![f] = Append(acessos[s][f], Registo(ev, d))] \in [Formandos -> Seq(AcessoRow)]
  BY <1>2 DEF TypeOK
<1>4. acessos' = [acessos EXCEPT ![s] = [acessos[s] EXCEPT ![f] = Append(acessos[s][f], Registo(ev, d))]]
  BY DEF Acrescentar, TypeOK
<1> QED BY <1>3, <1>4 DEF TypeOK

-----------------------------------------------------------------------------
(* The workers *)

(* What an execution that is not idle holds.                               *)
LEMMA ExecTipo ==
    ASSUME TypeOK, NEW e \in Execucoes, exec[e].pc # "livre"
    PROVE  /\ exec[e].msg \in Mensagens
           /\ exec[e].pc = "gravar" => exec[e].duracao \in Nat \cup {Nulo}
           /\ Conteudo[exec[e].msg].sessao \in Sessoes
           /\ Conteudo[exec[e].msg].formando \in Formandos
           /\ Conteudo[exec[e].msg].evento \in Eventos
           /\ PlataformaMsg(exec[e].msg) \in Plataformas
<1>1. exec[e] \in ExecRow /\ exec[e] # Livre
  BY DEF TypeOK, Livre
<1>2. exec[e].msg \in Mensagens /\ (exec[e].pc = "gravar" => exec[e].duracao \in Nat \cup {Nulo})
  BY <1>1 DEF ExecRow, Livre
<1> QED BY <1>2, FilaAssumption DEF Eventos, PlataformaMsg

LEMMA OcuparTipo ==
    ASSUME TypeOK, NEW e \in Execucoes, NEW m \in Mensagens, Ocupar(e, m)
    PROVE  exec' \in [Execucoes -> ExecRow]
BY DEF Ocupar, TypeOK, ExecRow

LEMMA LibertarTipo ==
    ASSUME TypeOK, NEW e \in Execucoes, Libertar(e)
    PROVE  exec' \in [Execucoes -> ExecRow]
BY DEF Libertar, TypeOK, ExecRow

LEMMA DevolverTipo ==
    ASSUME TypeOK, NEW e \in Execucoes, exec[e].pc # "livre", Devolver(e)
    PROVE  exec' \in [Execucoes -> ExecRow]
<1>1. [pc |-> "apagar", msg |-> exec[e].msg] \in ExecRow
  BY ExecTipo DEF ExecRow
<1>2. Livre \in ExecRow
  BY DEF ExecRow
<1> QED BY <1>1, <1>2 DEF Devolver, Libertar, TypeOK

LEMMA TratadaTipo ==
    ASSUME TypeOK, NEW m \in Mensagens, Tratada(m)
    PROVE  tratadas' \in [Mensagens -> Nat]
BY DEF Tratada, TypeOK

LEMMA FilaTipo == ASSUME TypeOK, Fila PROVE TypeOK'
<1>1. ASSUME NEW m \in Mensagens, Enqueue(m) PROVE TypeOK'
  <2>1. PlataformaMsg(m) \in Plataformas
    BY FilaAssumption DEF PlataformaMsg
  <2>2. fila' \in [Plataformas -> Seq(Mensagens)]
    <3>1. CASE transporte = "redis"
      <4>1. fila' = [fila EXCEPT ![PlataformaMsg(m)] = Append(fila[PlataformaMsg(m)], m)]
        BY <1>1, <3>1 DEF Enqueue
      <4>2. Append(fila[PlataformaMsg(m)], m) \in Seq(Mensagens)
        BY <2>1 DEF TypeOK
      <4> QED BY <4>1, <4>2 DEF TypeOK
    <3>2. CASE transporte # "redis"
      BY <1>1, <3>2 DEF Enqueue, TypeOK
    <3> QED BY <3>1, <3>2
  <2>3. exec' \in [Execucoes -> ExecRow]
    BY <1>1, OcuparTipo DEF Enqueue, TypeOK
  <2> QED BY <1>1, <2>2, <2>3 DEF Enqueue, TypeOK, ambiente, varsSessao
<1>2. ASSUME NEW m \in Mensagens, Expirar(m) PROVE TypeOK'
  <2>1. falhas' \in Nat
    BY <1>2 DEF Expirar, TypeOK
  <2> QED BY <1>2, <2>1 DEF Expirar, TypeOK, ambiente, varsSessao
<1>3. ASSUME NEW e \in Execucoes, RedisRetirar(e) PROVE TypeOK'
  <2>1. LoopDe[e] \in Plataformas
    BY FilaAssumption
  <2>2. Head(fila[LoopDe[e]]) \in Mensagens /\ Tail(fila[LoopDe[e]]) \in Seq(Mensagens)
    BY <1>3, <2>1 DEF RedisRetirar, TypeOK
  <2>3. exec' \in [Execucoes -> ExecRow]
    BY <1>3, <2>2, OcuparTipo DEF RedisRetirar
  <2> QED BY <1>3, <2>1, <2>2, <2>3 DEF RedisRetirar, TypeOK, ambiente, varsSessao
<1>4. ASSUME NEW e \in Execucoes, SqsApagar(e) PROVE TypeOK'
  BY <1>4, LibertarTipo, ExecTipo DEF SqsApagar, TypeOK, ambiente, varsSessao
<1>5. ASSUME NEW e \in Execucoes, Falhar(e) PROVE TypeOK'
  BY <1>5, LibertarTipo DEF Falhar, TypeOK, ambiente, varsSessao
<1>6. ASSUME NEW e \in Execucoes, NEW m \in Mensagens, SqsReceber(e, m) PROVE TypeOK'
  BY <1>6, OcuparTipo DEF SqsReceber, TypeOK, ambiente, varsSessao
<1> QED BY <1>1, <1>2, <1>3, <1>4, <1>5, <1>6 DEF Fila

LEMMA WebhookTipo == ASSUME TypeOK, Webhook PROVE TypeOK'
<1>1. ASSUME NEW e \in Execucoes, TokenRecusado(e) PROVE TypeOK'
  BY <1>1, LibertarTipo DEF TokenRecusado, TypeOK, ambiente, varsSessao
<1>2. ASSUME NEW e \in Execucoes, SessaoNaoEncontrada(e) PROVE TypeOK'
  <2>1. exec[e].pc # "livre" /\ Devolver(e)
    BY <1>2 DEF SessaoNaoEncontrada
  <2> QED BY <1>2, <2>1, DevolverTipo DEF SessaoNaoEncontrada, TypeOK, ambiente, varsSessao
<1>3. ASSUME NEW e \in Execucoes, EmailIncorreto(e) PROVE TypeOK'
  <2>1. exec[e].pc # "livre" /\ Devolver(e) /\ Tratada(exec[e].msg)
    BY <1>3 DEF EmailIncorreto
  <2>2. acessos' \in [Sessoes -> [Formandos -> Seq(AcessoRow)]]
    BY <1>3, <2>1, ExecTipo, AcrescentarTipo DEF EmailIncorreto, Eventos
  <2> QED BY <1>3, <2>1, <2>2, ExecTipo, DevolverTipo, TratadaTipo
          DEF EmailIncorreto, TypeOK, ambiente, varsSessao
<1>4. ASSUME NEW e \in Execucoes, WebhookLer(e) PROVE TypeOK'
  <2> DEFINE c == Conteudo[exec[e].msg]
             d == IF c.evento = "join" THEN Nulo
                  ELSE SegundosDesdeUltimoJoin(acessos[c.sessao][c.formando], relogio)
  <2>1. exec[e].msg \in Mensagens /\ c.sessao \in Sessoes /\ c.formando \in Formandos
    BY <1>4, ExecTipo DEF WebhookLer
  <2>2. d \in Nat \cup {Nulo}
    BY <2>1, SegundosTipo DEF TypeOK
  <2>3. [pc |-> "gravar", msg |-> exec[e].msg, duracao |-> d] \in ExecRow
    BY <2>1, <2>2 DEF ExecRow
  <2>4. exec' \in [Execucoes -> ExecRow]
    BY <1>4, <2>3 DEF WebhookLer, TypeOK
  <2> QED BY <1>4, <2>4 DEF WebhookLer, TypeOK, ambiente, varsSessao
<1>5. ASSUME NEW e \in Execucoes, WebhookGravar(e) PROVE TypeOK'
  <2>1. exec[e].pc = "gravar" /\ Devolver(e) /\ Tratada(exec[e].msg)
    BY <1>5 DEF WebhookGravar
  <2>2. acessos' \in [Sessoes -> [Formandos -> Seq(AcessoRow)]]
    BY <1>5, <2>1, ExecTipo, AcrescentarTipo DEF WebhookGravar
  <2> QED BY <1>5, <2>1, <2>2, ExecTipo, DevolverTipo, TratadaTipo
          DEF WebhookGravar, TypeOK, ambiente, varsSessao
<1> QED BY <1>1, <1>2, <1>3, <1>4, <1>5 DEF Webhook

-----------------------------------------------------------------------------
(* The portal *)

LEMMA PedidoPassoTipo ==
    ASSUME TypeOK, NEW p \in Pedidos, NEW r \in PedidoRow, PedidoPasso(p, r)
    PROVE  pedido' \in [Pedidos -> PedidoRow]
BY DEF PedidoPasso, TypeOK

LEMMA SemPedidoTipo == SemPedido \in PedidoRow
BY DEF PedidoRow

(* What a request that has read holds.                                     *)
LEMMA PedidoTipo ==
    ASSUME TypeOK, NEW p \in Pedidos
    PROVE  /\ pedido[p].pc \in {"validado", "lido"} =>
                /\ pedido[p] \in [pc: {"validado", "lido"}, sessao: Sessoes, formando: Formandos,
                                 evento: {"join", "leave"}, duracao: Nat \cup {Nulo}]
                /\ pedido[p].sessao \in Sessoes /\ pedido[p].formando \in Formandos
                /\ pedido[p].evento \in Eventos /\ pedido[p].duracao \in Nat \cup {Nulo}
           /\ pedido[p].pc = "acessos" => pedido[p].sessao \in Sessoes
           /\ pedido[p].pc = "fechar" =>
                /\ pedido[p] \in [pc: {"fechar"}, sessao: Sessoes,
                                 porFechar: [Formandos -> Nat \cup {Nulo}]]
                /\ pedido[p].sessao \in Sessoes
                /\ pedido[p].porFechar \in [Formandos -> Nat \cup {Nulo}]
<1>1. pedido[p] \in PedidoRow
  BY DEF TypeOK
<1> QED BY <1>1 DEF PedidoRow, SemPedido, Eventos

LEMMA PortalTipo == ASSUME TypeOK, Portal PROVE TypeOK'
<1> USE DEF ambiente, varsFila, UnchangedPortal
<1>1. ASSUME NEW p \in Pedidos, NEW s \in Sessoes, NEW f \in Formandos,
             NEW ev \in {"join", "leave"}, NEW d \in Nat \cup {Nulo}, PortalValidar(p, s, f, ev, d)
      PROVE  TypeOK'
  <2>1. [pc |-> "validado", sessao |-> s, formando |-> f, evento |-> ev, duracao |-> d] \in PedidoRow
    BY DEF PedidoRow
  <2>2. pedido' \in [Pedidos -> PedidoRow]
    BY <1>1, <2>1, PedidoPassoTipo DEF PortalValidar
  <2> QED BY <1>1, <2>2 DEF PortalValidar, TypeOK
<1>2. ASSUME NEW p \in Pedidos, PortalLer(p) PROVE TypeOK'
  <2> DEFINE r == pedido[p]
             log == acessos[r.sessao][r.formando]
             d == IF r.evento = "leave" /\ r.duracao = Nulo
                  THEN SegundosDesdeUltimoJoin(log, relogio) ELSE r.duracao
  <2>1. r.pc = "validado"
    BY <1>2 DEF PortalLer
  <2>2. log \in Seq(AcessoRow) /\ relogio \in Nat
    BY <2>1, PedidoTipo DEF TypeOK
  <2>3. d \in Nat \cup {Nulo}
    BY <2>1, <2>2, SegundosTipo, PedidoTipo
  <2>4. [r EXCEPT !.pc = "lido", !.duracao = d] \in PedidoRow
    <3> HIDE DEF d
    <3> QED BY <2>1, <2>3, PedidoTipo DEF PedidoRow
  <2>5. \E n \in PedidoRow : PedidoPasso(p, n)
    BY <1>2, <2>4, SemPedidoTipo DEF PortalLer
  <2>6. pedido' \in [Pedidos -> PedidoRow]
    BY <2>5, PedidoPassoTipo
  <2> QED BY <1>2, <2>6 DEF PortalLer, TypeOK
<1>3. ASSUME NEW p \in Pedidos, PortalGravar(p) PROVE TypeOK'
  <2>1. acessos' \in [Sessoes -> [Formandos -> Seq(AcessoRow)]]
    BY <1>3, PedidoTipo, AcrescentarTipo DEF PortalGravar
  <2>2. pedido' \in [Pedidos -> PedidoRow]
    BY <1>3, SemPedidoTipo, PedidoPassoTipo DEF PortalGravar
  <2> QED BY <1>3, <2>1, <2>2 DEF PortalGravar, TypeOK
<1>4. ASSUME NEW p \in Pedidos, NEW s \in Sessoes, Iniciar(p, s) PROVE TypeOK'
  BY <1>4 DEF Iniciar, TypeOK
<1>5. ASSUME NEW p \in Pedidos, NEW s \in Sessoes, TerminarLer(p, s) PROVE TypeOK'
  <2>1. [pc |-> "acessos", sessao |-> s] \in PedidoRow
    BY DEF PedidoRow
  <2>2. pedido' \in [Pedidos -> PedidoRow]
    BY <1>5, <2>1, PedidoPassoTipo DEF TerminarLer
  <2> QED BY <1>5, <2>2 DEF TerminarLer, TypeOK
<1>6. ASSUME NEW p \in Pedidos, FecharLer(p) PROVE TypeOK'
  <2> DEFINE s == pedido[p].sessao
             g == [f \in Formandos |-> SegundosDesdeUltimoJoin(acessos[s][f], relogio)]
  <2>1. s \in Sessoes
    BY <1>6, PedidoTipo DEF FecharLer
  <2>2. \A f \in Formandos : SegundosDesdeUltimoJoin(acessos[s][f], relogio) \in Nat \cup {Nulo}
    BY <2>1, SegundosTipo DEF TypeOK
  <2>3. g \in [Formandos -> Nat \cup {Nulo}]
    BY <2>2
  <2>4. [pc |-> "fechar", sessao |-> s, porFechar |-> g] \in PedidoRow
    <3> HIDE DEF g
    <3> QED BY <2>1, <2>3 DEF PedidoRow
  <2>5. pedido' \in [Pedidos -> PedidoRow]
    BY <1>6, <2>4, PedidoPassoTipo DEF FecharLer
  <2> QED BY <1>6, <2>5 DEF FecharLer, TypeOK
<1>7. ASSUME NEW p \in Pedidos, NEW f \in Formandos, FecharPresenca(p, f) PROVE TypeOK'
  <2> DEFINE r == pedido[p]
             g == [r.porFechar EXCEPT ![f] = Nulo]
  <2>1. r.pc = "fechar" /\ r.porFechar[f] # Nulo
    BY <1>7 DEF FecharPresenca
  <2>2. acessos' \in [Sessoes -> [Formandos -> Seq(AcessoRow)]]
    <3>1. r.sessao \in Sessoes /\ r.porFechar[f] \in Nat \cup {Nulo} /\ "leave" \in Eventos
      BY <2>1, PedidoTipo DEF Eventos
    <3> QED BY <1>7, <3>1, AcrescentarTipo DEF FecharPresenca
  <2>3. g \in [Formandos -> Nat \cup {Nulo}]
    BY <2>1, PedidoTipo
  <2>4. [r EXCEPT !.porFechar = g] \in PedidoRow
    <3> HIDE DEF g
    <3> QED BY <2>1, <2>3, PedidoTipo DEF PedidoRow
  <2>5. pedido' \in [Pedidos -> PedidoRow]
    BY <1>7, <2>4, PedidoPassoTipo DEF FecharPresenca
  <2> QED BY <1>7, <2>2, <2>5 DEF FecharPresenca, TypeOK
<1>8. ASSUME NEW p \in Pedidos, TerminarGravar(p) PROVE TypeOK'
  <2>1. pedido' \in [Pedidos -> PedidoRow]
    BY <1>8, SemPedidoTipo, PedidoPassoTipo DEF TerminarGravar
  <2> QED BY <1>8, <2>1 DEF TerminarGravar, TypeOK
<1>9. ASSUME NEW p \in Pedidos, FalharPedido(p) PROVE TypeOK'
  <2>1. pedido' \in [Pedidos -> PedidoRow]
    BY <1>9, SemPedidoTipo, PedidoPassoTipo DEF FalharPedido
  <2> QED BY <1>9, <2>1 DEF FalharPedido, TypeOK
<1> QED BY <1>1, <1>2, <1>3, <1>4, <1>5, <1>6, <1>7, <1>8, <1>9, FilaAssumption, BoundsAssumption DEF Portal

LEMMA InitTipo == Init => TypeOK
BY DEF Init, TypeOK, ExecRow, PedidoRow

LEMMA PassoTipo == ASSUME TypeOK, [Next]_vars PROVE TypeOK'
<1>1. CASE Tick
  BY <1>1 DEF Tick, TypeOK, ambiente, varsFila, varsSessao
<1>2. CASE UNCHANGED vars
  BY <1>2 DEF vars, ambiente, varsFila, varsSessao, TypeOK
<1> QED BY <1>1, <1>2, FilaTipo, WebhookTipo, PortalTipo DEF Next

(* Type correctness.                                                       *)
THEOREM TypeCorrect == Spec => []TypeOK
BY InitTipo, PassoTipo, PTL DEF Spec

-----------------------------------------------------------------------------
(* No message leaves SQS unhandled.  The inductive invariant adds what the *)
(* loop knows when it is about to delete: the handler returned, and it     *)
(* returns either after writing a row or because the tokens are the same.  *)
ApagarDepoisDeTratar ==
    \A e \in Execucoes :
        exec[e].pc = "apagar" /\ ~tokenIgual => tratadas[exec[e].msg] >= 1

EntregaInv == TypeOK /\ ApagarDepoisDeTratar /\ ApagadaFoiTratada

(* Taking a message, and dropping it, promise nothing.                     *)
LEMMA OcuparSegue ==
    ASSUME EntregaInv, TypeOK', NEW e \in Execucoes, NEW m \in Mensagens, Ocupar(e, m),
           UNCHANGED <<tokenIgual, tratadas>>
    PROVE  ApagarDepoisDeTratar'
BY DEF Ocupar, EntregaInv, ApagarDepoisDeTratar, TypeOK

LEMMA LibertarSegue ==
    ASSUME EntregaInv, TypeOK', NEW e \in Execucoes, Libertar(e),
           UNCHANGED <<tokenIgual, tratadas>>
    PROVE  ApagarDepoisDeTratar'
BY DEF Libertar, Livre, EntregaInv, ApagarDepoisDeTratar, TypeOK

(* Handling a message, and going on to delete it if the queue is SQS.      *)
LEMMA TratarSegue ==
    ASSUME EntregaInv, TypeOK', NEW e \in Execucoes, exec[e].pc # "livre",
           Tratada(exec[e].msg), Devolver(e), UNCHANGED <<tokenIgual, apagadas>>
    PROVE  ApagarDepoisDeTratar' /\ ApagadaFoiTratada'
<1>1. exec[e].msg \in Mensagens /\ tratadas \in [Mensagens -> Nat] /\ exec \in [Execucoes -> ExecRow]
  BY ExecTipo DEF EntregaInv, TypeOK
<1>2. tratadas' = [tratadas EXCEPT ![exec[e].msg] = tratadas[exec[e].msg] + 1]
  BY DEF Tratada
<1>3. \A m \in Mensagens : tratadas'[m] \in Nat /\ tratadas'[m] >= tratadas[m]
  BY <1>1, <1>2
<1>4. tratadas'[exec[e].msg] >= 1
  BY <1>1, <1>2
<1>5. ApagadaFoiTratada'
  <2>1. \A m \in apagadas : m \in Mensagens
    BY DEF EntregaInv, TypeOK
  <2> QED BY <1>1, <1>3, <2>1 DEF EntregaInv, ApagadaFoiTratada
<1>6. ASSUME NEW x \in Execucoes, exec'[x].pc = "apagar", ~tokenIgual'
      PROVE  tratadas'[exec'[x].msg] >= 1
  <2>1. CASE x = e
    <3>1. exec'[x] = [pc |-> "apagar", msg |-> exec[e].msg]
      BY <1>1, <1>6, <2>1 DEF Devolver, Libertar, Livre
    <3> QED BY <1>4, <3>1
  <2>2. CASE x # e
    <3>1. exec'[x] = exec[x]
      BY <1>1, <2>2 DEF Devolver, Libertar
    <3>2. exec[x].msg \in Mensagens /\ tratadas[exec[x].msg] >= 1
      BY <1>6, <3>1, ExecTipo DEF EntregaInv, ApagarDepoisDeTratar
    <3> QED BY <1>1, <1>3, <3>1, <3>2
  <2> QED BY <2>1, <2>2
<1> QED BY <1>5, <1>6 DEF ApagarDepoisDeTratar

LEMMA EntregaFila == ASSUME EntregaInv, TypeOK', Fila PROVE EntregaInv'
<1> USE DEF ambiente
<1>1. ASSUME NEW m \in Mensagens, Enqueue(m) PROVE EntregaInv'
  <2>1. ApagarDepoisDeTratar'
    <3>1. CASE exec' = exec
      BY <1>1, <3>1 DEF Enqueue, EntregaInv, ApagarDepoisDeTratar
    <3>2. CASE \E e \in Execucoes : Ocupar(e, m)
      BY <1>1, <3>2, OcuparSegue DEF Enqueue
    <3> QED BY <1>1, <3>1, <3>2 DEF Enqueue
  <2> QED BY <1>1, <2>1 DEF Enqueue, EntregaInv, ApagadaFoiTratada
<1>2. ASSUME NEW m \in Mensagens, Expirar(m) PROVE EntregaInv'
  BY <1>2 DEF Expirar, EntregaInv, ApagarDepoisDeTratar, ApagadaFoiTratada
<1>3. ASSUME NEW e \in Execucoes, RedisRetirar(e) PROVE EntregaInv'
  <2>1. ApagarDepoisDeTratar'
    <3>1. LoopDe[e] \in Plataformas /\ fila[LoopDe[e]] \in Seq(Mensagens)
      BY FilaAssumption DEF EntregaInv, TypeOK
    <3>2. Head(fila[LoopDe[e]]) \in Mensagens
      BY <1>3, <3>1 DEF RedisRetirar
    <3> QED BY <1>3, <3>2, OcuparSegue DEF RedisRetirar
  <2> QED BY <1>3, <2>1 DEF RedisRetirar, EntregaInv, ApagadaFoiTratada
<1>4. ASSUME NEW e \in Execucoes, NEW m \in Mensagens, SqsReceber(e, m) PROVE EntregaInv'
  <2>1. ApagarDepoisDeTratar'
    BY <1>4, OcuparSegue DEF SqsReceber
  <2> QED BY <1>4, <2>1 DEF SqsReceber, EntregaInv, ApagadaFoiTratada
<1>5. ASSUME NEW e \in Execucoes, Falhar(e) PROVE EntregaInv'
  <2>1. ApagarDepoisDeTratar'
    BY <1>5, LibertarSegue DEF Falhar
  <2> QED BY <1>5, <2>1 DEF Falhar, EntregaInv, ApagadaFoiTratada
<1>6. ASSUME NEW e \in Execucoes, SqsApagar(e) PROVE EntregaInv'
  <2>1. ApagarDepoisDeTratar'
    BY <1>6, LibertarSegue DEF SqsApagar
  <2>2. ApagadaFoiTratada'
    BY <1>6 DEF SqsApagar, EntregaInv, ApagarDepoisDeTratar, ApagadaFoiTratada
  <2> QED BY <2>1, <2>2 DEF EntregaInv
<1> QED BY <1>1, <1>2, <1>3, <1>4, <1>5, <1>6 DEF Fila

LEMMA EntregaWebhook == ASSUME EntregaInv, TypeOK', Webhook PROVE EntregaInv'
<1> USE DEF ambiente
<1>1. ASSUME NEW e \in Execucoes, TokenRecusado(e) PROVE EntregaInv'
  <2>1. ApagarDepoisDeTratar'
    BY <1>1, LibertarSegue DEF TokenRecusado
  <2> QED BY <1>1, <2>1 DEF TokenRecusado, EntregaInv, ApagadaFoiTratada
<1>2. ASSUME NEW e \in Execucoes, SessaoNaoEncontrada(e) PROVE EntregaInv'
  <2>1. tokenIgual /\ tokenIgual'
    BY <1>2 DEF SessaoNaoEncontrada, TokenValido
  <2> QED BY <2>1 DEF EntregaInv, ApagarDepoisDeTratar, ApagadaFoiTratada
<1>3. ASSUME NEW e \in Execucoes, EmailIncorreto(e) PROVE EntregaInv'
  BY <1>3, TratarSegue DEF EmailIncorreto, EntregaInv
<1>4. ASSUME NEW e \in Execucoes, WebhookLer(e) PROVE EntregaInv'
  <2>1. ApagarDepoisDeTratar'
    BY <1>4 DEF WebhookLer, EntregaInv, ApagarDepoisDeTratar, TypeOK
  <2> QED BY <1>4, <2>1 DEF WebhookLer, EntregaInv, ApagadaFoiTratada
<1>5. ASSUME NEW e \in Execucoes, WebhookGravar(e) PROVE EntregaInv'
  BY <1>5, TratarSegue DEF WebhookGravar, EntregaInv
<1> QED BY <1>1, <1>2, <1>3, <1>4, <1>5 DEF Webhook

(* The portal and the clock do not touch the queue.                        *)
LEMMA EntregaResto ==
    ASSUME EntregaInv, TypeOK', UNCHANGED <<tokenIgual, enviadas, exec, tratadas, apagadas>>
    PROVE  EntregaInv'
BY DEF EntregaInv, ApagarDepoisDeTratar, ApagadaFoiTratada

LEMMA PortalSemFila ==
    ASSUME Portal \/ Tick \/ UNCHANGED vars
    PROVE  UNCHANGED <<tokenIgual, enviadas, exec, tratadas, apagadas>>
<1> USE DEF ambiente, varsFila, UnchangedPortal
<1>1. ASSUME NEW p \in Pedidos,
             PortalLer(p) \/ PortalGravar(p) \/ FecharLer(p) \/ TerminarGravar(p) \/ FalharPedido(p)
      PROVE  UNCHANGED <<tokenIgual, enviadas, exec, tratadas, apagadas>>
  BY <1>1 DEF PortalLer, PortalGravar, FecharLer, TerminarGravar, FalharPedido
<1>2. ASSUME NEW p \in Pedidos, NEW s \in Sessoes, Iniciar(p, s) \/ TerminarLer(p, s)
      PROVE  UNCHANGED <<tokenIgual, enviadas, exec, tratadas, apagadas>>
  BY <1>2 DEF Iniciar, TerminarLer
<1>3. ASSUME NEW p \in Pedidos, NEW f \in Formandos, FecharPresenca(p, f)
      PROVE  UNCHANGED <<tokenIgual, enviadas, exec, tratadas, apagadas>>
  BY <1>3 DEF FecharPresenca
<1>4. ASSUME NEW p \in Pedidos, NEW s \in Sessoes, NEW f \in DoPortal, NEW ev, NEW d,
             PortalValidar(p, s, f, ev, d)
      PROVE  UNCHANGED <<tokenIgual, enviadas, exec, tratadas, apagadas>>
  BY <1>4 DEF PortalValidar
<1>5. CASE Tick \/ UNCHANGED vars
  BY <1>5 DEF Tick, vars
<1> QED BY <1>1, <1>2, <1>3, <1>4, <1>5 DEF Portal

(* For every number of loops, messages and failures, a message that has    *)
(* left the SQS queue for good was handled by the handler of its platform. *)
THEOREM EntregaCorrecta == Spec => []ApagadaFoiTratada
<1>1. Init => EntregaInv
  BY InitTipo DEF Init, EntregaInv, ApagarDepoisDeTratar, ApagadaFoiTratada, Livre
<1>2. EntregaInv /\ [Next]_vars => EntregaInv'
  <2> SUFFICES ASSUME EntregaInv, [Next]_vars PROVE EntregaInv'
    OBVIOUS
  <2>1. TypeOK'
    BY PassoTipo DEF EntregaInv
  <2> QED BY <2>1, EntregaFila, EntregaWebhook, EntregaResto, PortalSemFila DEF Next
<1>3. EntregaInv => ApagadaFoiTratada
  BY DEF EntregaInv
<1> QED BY <1>1, <1>2, <1>3, PTL DEF Spec

(* What a step may do to the messages posted and to the tokens: nothing    *)
(* takes a message back, and the tokens stay as they are.                  *)
LEMMA EnviadasCrescem ==
    ASSUME [Next]_vars
    PROVE  enviadas \subseteq enviadas' /\ tokenIgual' = tokenIgual
<1>1. CASE Fila
  BY <1>1 DEF Fila, Enqueue, Expirar, RedisRetirar, SqsApagar, Falhar, SqsReceber, ambiente
<1>2. CASE Webhook
  BY <1>2 DEF Webhook, TokenRecusado, SessaoNaoEncontrada, EmailIncorreto, WebhookLer,
              WebhookGravar, ambiente, varsFila
<1>3. CASE Portal
  BY <1>3, PortalSemFila
<1>4. CASE Tick \/ UNCHANGED vars
  BY <1>4, PortalSemFila
<1> QED BY <1>1, <1>2, <1>3, <1>4 DEF Next

(* EntregaEventual for a message says that, once posted, it is handled in  *)
(* the end: the form in which TLC checks it and the one with ~> are the    *)
(* same.                                                                   *)
LEMMA EntregaLevaA ==
    ASSUME NEW m \in Mensagens
    PROVE  Spec => (([]<>TodosLivres => []<>(~tokenIgual /\ m \in enviadas => tratadas[m] >= 1))
                      <=> (~tokenIgual /\ []<>TodosLivres => (m \in enviadas ~> tratadas[m] >= 1)))
<1>1. [Next]_vars => (m \in enviadas => (m \in enviadas)')
  BY EnviadasCrescem
<1>2. [Next]_vars => (tokenIgual => tokenIgual') /\ (~tokenIgual => ~tokenIgual')
  BY EnviadasCrescem
<1> QED BY <1>1, <1>2, PTL DEF Spec

-----------------------------------------------------------------------------
(* A row added to a log *)

(* ultimoJoinAberto finds a movement when there is one.                    *)
LEMMA HaMovimento ==
    ASSUME NEW log \in Seq(AcessoRow), NEW i \in 1 .. Len(log), log[i].evento \in {"join", "leave"}
    PROVE  UltimoMovimento(log) # 0
<1> DEFINE M == {k \in DOMAIN log : log[k].evento \in {"join", "leave"}}
<1>1. i \in M /\ M \in SUBSET (1 .. Len(log))
  OBVIOUS
<1>2. \E k \in M : \A j \in M : j <= k
  <2>1. Len(log) \in Nat
    OBVIOUS
  <2> HIDE DEF M
  <2> QED BY <1>1, <2>1, HaUltimo
<1>3. UltimoMovimento(log) \in M
  BY <1>1, <1>2 DEF UltimoMovimento
<1> QED BY <1>1, <1>3

(* An entrance or an exit becomes the last movement ...                    *)
LEMMA MovimentoAcrescentado ==
    ASSUME NEW log \in Seq(AcessoRow), NEW r \in AcessoRow, r.evento # "alert"
    PROVE  /\ UltimoMovimento(Append(log, r)) = Len(log) + 1
           /\ EmSessao(Append(log, r)) <=> r.evento = "join"
<1>1. PICK novo : novo = Append(log, r)
  OBVIOUS
<1>2. novo \in Seq(AcessoRow) /\ Len(novo) = Len(log) + 1 /\ novo[Len(log) + 1] = r
  BY <1>1
<1>3. Len(log) + 1 \in 1 .. Len(novo)
  BY <1>2
<1>4. r.evento \in {"join", "leave"}
  BY DEF AcessoRow, Eventos
<1>5. UltimoMovimento(novo) # 0
  BY <1>2, <1>3, <1>4, HaMovimento
<1>6. /\ UltimoMovimento(novo) \in 1 .. Len(novo)
      /\ \A j \in (UltimoMovimento(novo) + 1) .. Len(novo) : novo[j].evento \notin {"join", "leave"}
  BY <1>2, <1>5, UltimoMovimentoNoLog
<1>7. UltimoMovimento(novo) = Len(log) + 1
  BY <1>2, <1>4, <1>6
<1> QED BY <1>1, <1>2, <1>7 DEF EmSessao

(* ... and an alert leaves it where it was.                                *)
LEMMA AlertaAcrescentado ==
    ASSUME NEW log \in Seq(AcessoRow), NEW r \in AcessoRow, r.evento = "alert"
    PROVE  /\ UltimoMovimento(Append(log, r)) = UltimoMovimento(log)
           /\ EmSessao(Append(log, r)) <=> EmSessao(log)
<1>1. PICK novo : novo = Append(log, r)
  OBVIOUS
<1>2. Len(novo) = Len(log) + 1 /\ novo[Len(log) + 1] = r /\ DOMAIN novo = 1 .. (Len(log) + 1)
      /\ \A i \in 1 .. Len(log) : novo[i] = log[i]
  BY <1>1
<1>3. {i \in DOMAIN novo : novo[i].evento \in {"join", "leave"}}
        = {i \in DOMAIN log : log[i].evento \in {"join", "leave"}}
  <2>1. \A i \in DOMAIN novo : i \in DOMAIN log \/ i = Len(log) + 1
    BY <1>2
  <2>2. r.evento \notin {"join", "leave"}
    OBVIOUS
  <2> QED BY <1>2, <2>1, <2>2
<1>4. UltimoMovimento(novo) = UltimoMovimento(log)
  <2> DEFINE Maior(S) == IF S = {} THEN 0 ELSE CHOOSE i \in S : \A j \in S : j <= i
             Movimentos(h) == {i \in DOMAIN h : h[i].evento \in {"join", "leave"}}
  <2>1. UltimoMovimento(novo) = Maior(Movimentos(novo)) /\ UltimoMovimento(log) = Maior(Movimentos(log))
    BY DEF UltimoMovimento
  <2>2. Movimentos(novo) = Movimentos(log)
    BY <1>3
  <2> HIDE DEF Maior, Movimentos
  <2> QED BY <2>1, <2>2
<1>5. UltimoMovimento(log) # 0 => novo[UltimoMovimento(log)] = log[UltimoMovimento(log)]
  BY <1>2, UltimoMovimentoNoLog
<1> QED BY <1>1, <1>4, <1>5 DEF EmSessao

(* segundosDesdeUltimoJoin is null exactly outside.                        *)
LEMMA SegundosForaDaSessao ==
    ASSUME NEW log \in Seq(AcessoRow), NEW ate \in Nat
    PROVE  SegundosDesdeUltimoJoin(log, ate) = Nulo <=> ~EmSessao(log)
<1>1. CASE EmSessao(log)
  <2>1. log[UltimoMovimento(log)] \in AcessoRow
    BY <1>1, UltimoMovimentoNoLog DEF EmSessao
  <2>2. log[UltimoMovimento(log)].em \in Nat
    BY <2>1 DEF AcessoRow
  <2>3. SemNegativos(ate - log[UltimoMovimento(log)].em) # Nulo
    BY <2>2 DEF SemNegativos, Nulo
  <2> QED BY <1>1, <2>3 DEF SegundosDesdeUltimoJoin
<1> QED BY <1>1 DEF SegundosDesdeUltimoJoin

(* What a step that writes one row does to the logs.                       *)
LEMMA Acrescentado ==
    ASSUME TypeOK, NEW s \in Sessoes, NEW f \in Formandos, NEW ev, NEW d, Acrescentar(s, f, ev, d)
    PROVE  /\ acessos'[s][f] = Append(acessos[s][f], Registo(ev, d))
           /\ \A t \in Sessoes, g \in Formandos : t # s \/ g # f => acessos'[t][g] = acessos[t][g]
<1>1. acessos' = [acessos EXCEPT ![s] = [acessos[s] EXCEPT ![f] = Append(acessos[s][f], Registo(ev, d))]]
  BY DEF Acrescentar, TypeOK
<1> QED BY <1>1 DEF TypeOK

-----------------------------------------------------------------------------
(* The portal's log *)

(* One learner's entrances and exits alternate.                            *)
Alterna(log) ==
    \A i \in DOMAIN log : log[i].evento = IF i % 2 = 1 THEN "join" ELSE "leave"

LEMMA AlternaUltimo ==
    ASSUME NEW log \in Seq(AcessoRow), Alterna(log)
    PROVE  UltimoMovimento(log) = Len(log) /\ (EmSessao(log) <=> Len(log) % 2 = 1)
<1>1. CASE Len(log) = 0
  <2>1. {i \in DOMAIN log : log[i].evento \in {"join", "leave"}} = {}
    BY <1>1
  <2>2. UltimoMovimento(log) = 0
    BY <2>1 DEF UltimoMovimento
  <2> QED BY <1>1, <2>2 DEF EmSessao
<1>2. CASE Len(log) # 0
  <2>1. Len(log) \in 1 .. Len(log) /\ DOMAIN log = 1 .. Len(log)
    BY <1>2
  <2>2. log[Len(log)].evento = IF Len(log) % 2 = 1 THEN "join" ELSE "leave"
    BY <2>1 DEF Alterna
  <2>3. UltimoMovimento(log) # 0
    BY <2>1, <2>2, HaMovimento
  <2>4. /\ UltimoMovimento(log) \in 1 .. Len(log)
        /\ \A j \in (UltimoMovimento(log) + 1) .. Len(log) : log[j].evento \notin {"join", "leave"}
    BY <2>3, UltimoMovimentoNoLog
  <2>5. UltimoMovimento(log) = Len(log)
    BY <2>1, <2>2, <2>4
  <2> QED BY <2>2, <2>3, <2>5 DEF EmSessao
<1> QED BY <1>1, <1>2

(* An entrance by who is outside, or an exit by who is inside, keeps it.   *)
LEMMA AlternaSempre ==
    ASSUME NEW log \in Seq(AcessoRow), Alterna(log), NEW r \in AcessoRow,
           r.evento = IF EmSessao(log) THEN "leave" ELSE "join"
    PROVE  Alterna(Append(log, r))
<1>1. PICK novo : novo = Append(log, r)
  OBVIOUS
<1>2. novo[Len(log) + 1] = r /\ DOMAIN novo = 1 .. (Len(log) + 1) /\ DOMAIN log = 1 .. Len(log)
      /\ \A i \in 1 .. Len(log) : novo[i] = log[i]
  BY <1>1
<1>3. Len(log) \in Nat /\ (EmSessao(log) <=> Len(log) % 2 = 1)
  BY AlternaUltimo
<1>4. (Len(log) + 1) % 2 = 1 <=> Len(log) % 2 # 1
  BY <1>3
<1>5. r.evento = IF (Len(log) + 1) % 2 = 1 THEN "join" ELSE "leave"
  BY <1>3, <1>4
<1>6. \A i \in DOMAIN novo : i \in DOMAIN log \/ i = Len(log) + 1
  BY <1>2
<1>7. Alterna(novo)
  BY <1>2, <1>5, <1>6 DEF Alterna
<1> QED BY <1>1, <1>7
-----------------------------------------------------------------------------
(* Entrances and exits alternate and an ended session has nobody inside,   *)
(* for learners who register in the portal only, one request at a time,    *)
(* with exits that bring no duration.                                      *)
UmPedido == \A p, q \in Pedidos : p = q
SoPeloPortal == \A m \in Mensagens : Conteudo[m].formando \notin DoPortal
SemDuracoes == DuracoesPedido \subseteq {Nulo}

(* What the request at work knows of the log it is about to write to: it   *)
(* was let in, the session has not ended, and the durations it brings are  *)
(* what the log still says.                                                *)
SabeDoLog(p) ==
    LET r == pedido[p]
    IN  /\ r.pc \in {"validado", "lido"} => r.formando \in DoPortal /\ ~terminada[r.sessao]
        /\ r.pc = "validado" => r.duracao = Nulo
        /\ r.pc = "lido" =>
              /\ EmSessao(acessos[r.sessao][r.formando]) <=> r.evento = "leave"
              /\ r.evento = "leave" =>
                    r.duracao = SegundosDesdeUltimoJoin(acessos[r.sessao][r.formando], relogio)
        /\ r.pc = "fechar" =>
              \A f \in DoPortal :
                  r.porFechar[f] = SegundosDesdeUltimoJoin(acessos[r.sessao][f], relogio)

AlternadaInv ==
    TypeOK /\ EntradasAlternadas /\ PresencaFechada /\ \A p \in Pedidos : SabeDoLog(p)

LEMMA LogTipo ==
    ASSUME TypeOK, NEW s \in Sessoes, NEW f \in Formandos
    PROVE  acessos[s][f] \in Seq(AcessoRow)
BY DEF TypeOK

LEMMA DoPortalTipo == ASSUME NEW f \in DoPortal PROVE f \in Formandos
BY FilaAssumption

LEMMA PortalAlterna ==
    ASSUME AlternadaInv, NEW s \in Sessoes, NEW f \in DoPortal
    PROVE  Alterna(acessos[s][f])
BY DEF AlternadaInv, EntradasAlternadas, Alterna

(* A step that leaves the portal as it is.                                 *)
LEMMA AlternadaLonge ==
    ASSUME AlternadaInv, TypeOK', UNCHANGED <<terminada, pedido, relogio>>,
           \A s \in Sessoes, f \in DoPortal : acessos'[s][f] = acessos[s][f]
    PROVE  AlternadaInv'
<1>1. EntradasAlternadas' /\ PresencaFechada'
  BY DEF AlternadaInv, EntradasAlternadas, PresencaFechada
<1>2. ASSUME NEW p \in Pedidos PROVE SabeDoLog(p)'
  <2>1. pedido[p].pc \in {"lido", "fechar"} => pedido[p].sessao \in Sessoes
    BY PedidoTipo DEF AlternadaInv
  <2>2. SabeDoLog(p)
    BY DEF AlternadaInv
  <2>3. pedido'[p] = pedido[p] /\ relogio' = relogio /\ terminada' = terminada
    OBVIOUS
  <2>4. pedido[p].pc = "lido" =>
          acessos'[pedido[p].sessao][pedido[p].formando] = acessos[pedido[p].sessao][pedido[p].formando]
    BY <2>1, <2>2 DEF SabeDoLog
  <2>5. pedido[p].pc = "fechar" =>
          \A f \in DoPortal : acessos'[pedido[p].sessao][f] = acessos[pedido[p].sessao][f]
    BY <2>1
  <2> QED BY <2>2, <2>3, <2>4, <2>5 DEF SabeDoLog
<1> QED BY <1>1, <1>2 DEF AlternadaInv

(* The webhooks write to the logs of other learners.                       *)
LEMMA WebhookSemPortal ==
    ASSUME SoPeloPortal, TypeOK, Fila \/ Webhook
    PROVE  /\ UNCHANGED <<terminada, pedido, relogio>>
           /\ \A s \in Sessoes, f \in DoPortal : acessos'[s][f] = acessos[s][f]
<1> USE DEF varsSessao
<1>1. ASSUME NEW e \in Execucoes, exec[e].pc # "livre", NEW ev, NEW d,
             Acrescentar(Conteudo[exec[e].msg].sessao, Conteudo[exec[e].msg].formando, ev, d)
      PROVE  \A s \in Sessoes, f \in DoPortal : acessos'[s][f] = acessos[s][f]
  <2>1. /\ exec[e].msg \in Mensagens /\ Conteudo[exec[e].msg].sessao \in Sessoes
        /\ Conteudo[exec[e].msg].formando \in Formandos
    BY <1>1, ExecTipo
  <2>2. Conteudo[exec[e].msg].formando \notin DoPortal
    BY <2>1 DEF SoPeloPortal
  <2>3. \A t \in Sessoes, g \in Formandos :
          g # Conteudo[exec[e].msg].formando => acessos'[t][g] = acessos[t][g]
    BY <1>1, <2>1, Acrescentado
  <2> QED BY <2>2, <2>3, DoPortalTipo
<1>2. ASSUME NEW e \in Execucoes, EmailIncorreto(e) \/ WebhookGravar(e)
      PROVE  /\ UNCHANGED <<terminada, pedido, relogio>>
             /\ \A s \in Sessoes, f \in DoPortal : acessos'[s][f] = acessos[s][f]
  <2>1. CASE EmailIncorreto(e)
    BY <1>1, <2>1 DEF EmailIncorreto
  <2>2. CASE WebhookGravar(e)
    BY <1>1, <2>2 DEF WebhookGravar
  <2> QED BY <1>2, <2>1, <2>2
<1>3. ASSUME NEW e \in Execucoes, TokenRecusado(e) \/ SessaoNaoEncontrada(e) \/ WebhookLer(e)
      PROVE  UNCHANGED <<terminada, pedido, relogio, acessos>>
  BY <1>3 DEF TokenRecusado, SessaoNaoEncontrada, WebhookLer
<1>4. ASSUME NEW m \in Mensagens, Enqueue(m) \/ Expirar(m)
      PROVE  UNCHANGED <<terminada, pedido, relogio, acessos>>
  BY <1>4 DEF Enqueue, Expirar
<1>5. ASSUME NEW e \in Execucoes, RedisRetirar(e) \/ SqsApagar(e) \/ Falhar(e)
      PROVE  UNCHANGED <<terminada, pedido, relogio, acessos>>
  BY <1>5 DEF RedisRetirar, SqsApagar, Falhar
<1>6. ASSUME NEW e \in Execucoes, NEW m \in Mensagens, SqsReceber(e, m)
      PROVE  UNCHANGED <<terminada, pedido, relogio, acessos>>
  BY <1>6 DEF SqsReceber
<1>7. CASE Fila
  BY <1>4, <1>5, <1>6, <1>7 DEF Fila
<1>8. CASE Webhook
  BY <1>2, <1>3, <1>8 DEF Webhook
<1> QED BY <1>7, <1>8

(* One request: what it knows is all there is to know.                     *)
LEMMA AlternadaPedido ==
    ASSUME UmPedido, TypeOK', NEW p \in Pedidos, SabeDoLog(p)', EntradasAlternadas', PresencaFechada'
    PROVE  AlternadaInv'
<1>1. ASSUME NEW q \in Pedidos PROVE SabeDoLog(q)'
  <2>1. q = p
    BY DEF UmPedido
  <2> QED BY <2>1
<1> QED BY <1>1 DEF AlternadaInv

(* The request gives up, or starts: it knows nothing.                      *)
LEMMA AlternadaComeca ==
    ASSUME UmPedido, AlternadaInv, TypeOK', NEW p \in Pedidos, NEW r, PedidoPasso(p, r),
           r.pc \in {"livre", "acessos"}, UNCHANGED <<terminada, acessos>>
    PROVE  AlternadaInv'
<1>1. pedido'[p] = r
  BY DEF PedidoPasso, AlternadaInv, TypeOK
<1>2. SabeDoLog(p)'
  BY <1>1 DEF SabeDoLog
<1>3. EntradasAlternadas' /\ PresencaFechada'
  BY DEF AlternadaInv, EntradasAlternadas, PresencaFechada
<1> QED BY <1>2, <1>3, AlternadaPedido

LEMMA AlternadaValidar ==
    ASSUME UmPedido, SemDuracoes, AlternadaInv, TypeOK', NEW p \in Pedidos, NEW s \in Sessoes,
           NEW f \in DoPortal, NEW ev, NEW d \in {Nulo}, PortalValidar(p, s, f, ev, d)
    PROVE  AlternadaInv'
<1>1. PICK r : r = [pc |-> "validado", sessao |-> s, formando |-> f, evento |-> ev, duracao |-> d]
  OBVIOUS
<1>2. pedido'[p] = r
  BY <1>1 DEF PortalValidar, PedidoPasso, AlternadaInv, TypeOK
<1>3. ~terminada[s] /\ UNCHANGED <<terminada, acessos>>
  BY DEF PortalValidar
<1>4. SabeDoLog(p)'
  BY <1>1, <1>2, <1>3 DEF SabeDoLog
<1>5. EntradasAlternadas' /\ PresencaFechada'
  BY <1>3 DEF AlternadaInv, EntradasAlternadas, PresencaFechada
<1> QED BY <1>4, <1>5, AlternadaPedido

(* registerEvent asks the log whether the learner is inside.               *)
LEMMA AlternadaLer ==
    ASSUME UmPedido, AlternadaInv, TypeOK', NEW p \in Pedidos, PortalLer(p)
    PROVE  AlternadaInv'
<1>1. PICK r : r = pedido[p]
  OBVIOUS
<1>2. PICK log : log = acessos[r.sessao][r.formando]
  OBVIOUS
<1>3. /\ r.pc = "validado" /\ r.sessao \in Sessoes /\ r.formando \in Formandos
      /\ r \in [pc: {"validado", "lido"}, sessao: Sessoes, formando: Formandos,
                evento: {"join", "leave"}, duracao: Nat \cup {Nulo}]
  BY <1>1, PedidoTipo DEF PortalLer, AlternadaInv
<1>4. r.formando \in DoPortal /\ ~terminada[r.sessao] /\ r.duracao = Nulo
  BY <1>1, <1>3 DEF AlternadaInv, SabeDoLog
<1>5. log \in Seq(AcessoRow) /\ Alterna(log)
  BY <1>2, <1>3, <1>4, LogTipo, PortalAlterna DEF AlternadaInv
<1>6. UNCHANGED <<terminada, acessos, relogio>>
  BY DEF PortalLer, UnchangedPortal
<1>7. EntradasAlternadas' /\ PresencaFechada'
  BY <1>6 DEF AlternadaInv, EntradasAlternadas, PresencaFechada
<1>8. CASE ~PortalAceita(r.evento, r.duracao, log)
  <2>1. PedidoPasso(p, SemPedido)
    BY <1>1, <1>2, <1>8 DEF PortalLer
  <2> QED BY <1>6, <2>1, AlternadaComeca DEF SemPedido
<1>9. CASE PortalAceita(r.evento, r.duracao, log)
  <2>1. PICK d : d = IF r.evento = "leave" /\ r.duracao = Nulo
                     THEN SegundosDesdeUltimoJoin(log, relogio) ELSE r.duracao
    OBVIOUS
  <2>2. PICK n : n = [r EXCEPT !.pc = "lido", !.duracao = d]
    OBVIOUS
  <2>3. pedido'[p] = n
    BY <1>1, <1>2, <1>9, <2>1, <2>2 DEF PortalLer, PedidoPasso, AlternadaInv, TypeOK
  <2>4. n.pc = "lido" /\ n.sessao = r.sessao /\ n.formando = r.formando /\ n.evento = r.evento /\ n.duracao = d
    BY <1>3, <2>2
  <2>5. EmSessao(log) <=> r.evento = "leave"
    <3>1. CASE r.evento = "join"
      <4>1. log = <<>> \/ log[Len(log)].evento # "join"
        BY <1>9, <3>1 DEF PortalAceita
      <4>2. UltimoMovimento(log) = Len(log)
        BY <1>5, AlternaUltimo
      <4> QED BY <1>5, <3>1, <4>1, <4>2 DEF EmSessao
    <3>2. CASE r.evento = "leave"
      BY <1>4, <1>9, <3>2 DEF PortalAceita
    <3> QED BY <1>3, <3>1, <3>2
  <2>6. n.evento = "leave" => n.duracao = SegundosDesdeUltimoJoin(log, relogio)
    BY <1>4, <2>1, <2>4
  <2>7. acessos'[n.sessao][n.formando] = log /\ relogio' = relogio /\ terminada'[n.sessao] = terminada[r.sessao]
    BY <1>2, <1>6, <2>4
  <2>8. SabeDoLog(p)'
    BY <1>4, <2>3, <2>4, <2>5, <2>6, <2>7 DEF SabeDoLog
  <2> QED BY <1>7, <2>8, AlternadaPedido
<1> QED BY <1>8, <1>9
(* A row in the portal's log, of the kind its state asks for.              *)
LEMMA AlternadaAcrescentar ==
    ASSUME AlternadaInv, NEW s \in Sessoes, NEW f \in DoPortal, NEW ev \in {"join", "leave"},
           NEW d \in Nat \cup {Nulo}, Acrescentar(s, f, ev, d), UNCHANGED terminada,
           EmSessao(acessos[s][f]) <=> ev = "leave", ev = "join" => ~terminada[s]
    PROVE  /\ EntradasAlternadas' /\ PresencaFechada'
           /\ EmSessao(acessos'[s][f]) <=> ev = "join"
<1>1. PICK log : log = acessos[s][f]
  OBVIOUS
<1>2. PICK r : r = Registo(ev, d)
  OBVIOUS
<1>3. log \in Seq(AcessoRow) /\ r \in AcessoRow /\ r.evento = ev /\ Alterna(log)
  BY <1>1, <1>2, DoPortalTipo, PortalAlterna DEF AlternadaInv, TypeOK, Registo, AcessoRow, Eventos
<1>4. acessos'[s][f] = Append(log, r)
  BY <1>1, <1>2, DoPortalTipo, Acrescentado DEF AlternadaInv
<1>5. \A t \in Sessoes, g \in DoPortal : t # s \/ g # f => acessos'[t][g] = acessos[t][g]
  BY DoPortalTipo, Acrescentado DEF AlternadaInv
<1>6. Alterna(Append(log, r))
  BY <1>1, <1>3, AlternaSempre
<1>7. EmSessao(Append(log, r)) <=> ev = "join"
  BY <1>3, MovimentoAcrescentado
<1>8. \A t \in Sessoes, g \in DoPortal : Alterna(acessos'[t][g])
  BY <1>4, <1>5, <1>6, PortalAlterna
<1>9. EntradasAlternadas'
  BY <1>8 DEF Alterna, EntradasAlternadas
<1>10. PresencaFechada'
  BY <1>4, <1>5, <1>7 DEF AlternadaInv, PresencaFechada
<1> QED BY <1>4, <1>7, <1>9, <1>10

(* registerEvent writes the row.                                           *)
LEMMA AlternadaGravar ==
    ASSUME UmPedido, AlternadaInv, TypeOK', NEW p \in Pedidos, PortalGravar(p)
    PROVE  AlternadaInv'
<1>1. PICK r : r = pedido[p]
  OBVIOUS
<1>2. /\ r.pc = "lido" /\ r.sessao \in Sessoes /\ r.evento \in {"join", "leave"}
      /\ r.duracao \in Nat \cup {Nulo}
  BY <1>1, PedidoTipo DEF PortalGravar, AlternadaInv
<1>3. /\ r.formando \in DoPortal /\ ~terminada[r.sessao]
      /\ EmSessao(acessos[r.sessao][r.formando]) <=> r.evento = "leave"
  BY <1>1, <1>2 DEF AlternadaInv, SabeDoLog
<1>4. Acrescentar(r.sessao, r.formando, r.evento, r.duracao) /\ UNCHANGED terminada
  BY <1>1 DEF PortalGravar
<1>5. EntradasAlternadas' /\ PresencaFechada'
  BY <1>2, <1>3, <1>4, AlternadaAcrescentar
<1>6. pedido'[p] = SemPedido
  BY DEF PortalGravar, PedidoPasso, AlternadaInv, TypeOK
<1>7. SabeDoLog(p)'
  BY <1>6 DEF SabeDoLog, SemPedido
<1> QED BY <1>5, <1>7, AlternadaPedido

(* fecharPresencasAbertasSessao reads who is inside ...                    *)
LEMMA AlternadaFecharLer ==
    ASSUME UmPedido, AlternadaInv, TypeOK', NEW p \in Pedidos, FecharLer(p)
    PROVE  AlternadaInv'
<1>1. PICK s : s = pedido[p].sessao
  OBVIOUS
<1>2. PICK g : g = [f \in Formandos |-> SegundosDesdeUltimoJoin(acessos[s][f], relogio)]
  OBVIOUS
<1>3. PICK r : r = [pc |-> "fechar", sessao |-> s, porFechar |-> g]
  OBVIOUS
<1>4. pedido'[p] = r
  BY <1>1, <1>2, <1>3 DEF FecharLer, PedidoPasso, AlternadaInv, TypeOK
<1>5. UNCHANGED <<terminada, acessos, relogio>>
  BY DEF FecharLer, UnchangedPortal
<1>6. \A f \in DoPortal : g[f] = SegundosDesdeUltimoJoin(acessos[s][f], relogio)
  BY <1>2, DoPortalTipo
<1>7. r.pc = "fechar" /\ r.sessao = s /\ r.porFechar = g
  BY <1>3
<1>8. SabeDoLog(p)'
  BY <1>4, <1>5, <1>6, <1>7 DEF SabeDoLog
<1>9. EntradasAlternadas' /\ PresencaFechada'
  BY <1>5 DEF AlternadaInv, EntradasAlternadas, PresencaFechada
<1> QED BY <1>8, <1>9, AlternadaPedido

(* ... and writes an exit for one of them.                                 *)
LEMMA AlternadaFechar ==
    ASSUME UmPedido, AlternadaInv, TypeOK', NEW p \in Pedidos, NEW f \in Formandos, FecharPresenca(p, f)
    PROVE  AlternadaInv'
<1>1. PICK r : r = pedido[p]
  OBVIOUS
<1>2. PICK g : g = [r.porFechar EXCEPT ![f] = Nulo]
  OBVIOUS
<1>3. PICK n : n = [r EXCEPT !.porFechar = g]
  OBVIOUS
<1>4. PICK s : s = r.sessao
  OBVIOUS
<1>5. /\ r.pc = "fechar" /\ s \in Sessoes /\ r.porFechar \in [Formandos -> Nat \cup {Nulo}]
      /\ r \in [pc: {"fechar"}, sessao: Sessoes, porFechar: [Formandos -> Nat \cup {Nulo}]]
      /\ r.porFechar[f] \in Nat /\ r.porFechar[f] # Nulo
  <2>1. r.pc = "fechar" /\ r.porFechar[f] # Nulo
    BY <1>1 DEF FecharPresenca
  <2>2. /\ r.sessao \in Sessoes /\ r.porFechar \in [Formandos -> Nat \cup {Nulo}]
        /\ r \in [pc: {"fechar"}, sessao: Sessoes, porFechar: [Formandos -> Nat \cup {Nulo}]]
    BY <1>1, <2>1, PedidoTipo DEF AlternadaInv
  <2>3. r.porFechar[f] \in Nat \cup {Nulo}
    BY <2>2
  <2> QED BY <1>4, <2>1, <2>2, <2>3
<1>6. \A h \in DoPortal : r.porFechar[h] = SegundosDesdeUltimoJoin(acessos[s][h], relogio)
  BY <1>1, <1>4, <1>5 DEF AlternadaInv, SabeDoLog
<1>7. Acrescentar(s, f, "leave", r.porFechar[f]) /\ UNCHANGED <<terminada, relogio>>
  BY <1>1, <1>4 DEF FecharPresenca, UnchangedPortal
<1>8. pedido'[p] = n
  BY <1>1, <1>2, <1>3 DEF FecharPresenca, PedidoPasso, AlternadaInv, TypeOK
<1>9. n.pc = "fechar" /\ n.sessao = s /\ n.porFechar = g
  BY <1>3, <1>4, <1>5
<1>10. \A h \in Formandos : g[h] = IF h = f THEN Nulo ELSE r.porFechar[h]
  BY <1>2, <1>5
<1>11. \A h \in DoPortal : h # f => acessos'[s][h] = acessos[s][h]
  BY <1>5, <1>7, DoPortalTipo, Acrescentado DEF AlternadaInv
<1>12. CASE f \in DoPortal
  <2>1. EmSessao(acessos[s][f])
    <3>1. SegundosDesdeUltimoJoin(acessos[s][f], relogio) # Nulo
      BY <1>5, <1>6, <1>12
    <3>2. acessos[s][f] \in Seq(AcessoRow) /\ relogio \in Nat
      BY <1>5 DEF AlternadaInv, TypeOK
    <3> QED BY <3>1, <3>2, SegundosForaDaSessao
  <2>2. EntradasAlternadas' /\ PresencaFechada' /\ ~EmSessao(acessos'[s][f])
    BY <1>5, <1>7, <1>12, <2>1, AlternadaAcrescentar
  <2>3. SegundosDesdeUltimoJoin(acessos'[s][f], relogio') = Nulo
    BY <2>2 DEF SegundosDesdeUltimoJoin
  <2>4. \A h \in DoPortal : g[h] = SegundosDesdeUltimoJoin(acessos'[s][h], relogio')
    BY <1>6, <1>7, <1>10, <1>11, <2>3, DoPortalTipo
  <2>5. SabeDoLog(p)'
    BY <1>8, <1>9, <2>4 DEF SabeDoLog
  <2> QED BY <2>2, <2>5, AlternadaPedido
<1>13. CASE f \notin DoPortal
  <2>1. \A t \in Sessoes, h \in DoPortal : acessos'[t][h] = acessos[t][h]
    BY <1>5, <1>7, <1>13, DoPortalTipo, Acrescentado DEF AlternadaInv
  <2>2. EntradasAlternadas' /\ PresencaFechada'
    BY <1>7, <2>1 DEF AlternadaInv, EntradasAlternadas, PresencaFechada
  <2>3. \A h \in DoPortal : g[h] = SegundosDesdeUltimoJoin(acessos'[s][h], relogio')
    BY <1>5, <1>6, <1>7, <1>10, <1>13, <2>1, DoPortalTipo
  <2>4. SabeDoLog(p)'
    BY <1>8, <1>9, <2>3 DEF SabeDoLog
  <2> QED BY <2>2, <2>4, AlternadaPedido
<1> QED BY <1>12, <1>13

(* terminar writes terminadaEm once everybody is outside.                  *)
LEMMA AlternadaTerminar ==
    ASSUME UmPedido, AlternadaInv, TypeOK', NEW p \in Pedidos, TerminarGravar(p)
    PROVE  AlternadaInv'
<1>1. PICK r : r = pedido[p]
  OBVIOUS
<1>2. r.pc = "fechar" /\ r.sessao \in Sessoes /\ \A f \in Formandos : r.porFechar[f] = Nulo
  BY <1>1, PedidoTipo DEF TerminarGravar, AlternadaInv
<1>3. \A f \in DoPortal : ~EmSessao(acessos[r.sessao][f])
  <2>1. ASSUME NEW f \in DoPortal PROVE ~EmSessao(acessos[r.sessao][f])
    <3>1. SegundosDesdeUltimoJoin(acessos[r.sessao][f], relogio) = Nulo
      BY <1>1, <1>2, DoPortalTipo DEF AlternadaInv, SabeDoLog
    <3>2. acessos[r.sessao][f] \in Seq(AcessoRow) /\ relogio \in Nat
      BY <1>2, DoPortalTipo DEF AlternadaInv, TypeOK
    <3> QED BY <3>1, <3>2, SegundosForaDaSessao
  <2> QED BY <2>1
<1>4. terminada' = [terminada EXCEPT ![r.sessao] = TRUE] /\ acessos' = acessos /\ pedido'[p] = SemPedido
  BY <1>1 DEF TerminarGravar, PedidoPasso, AlternadaInv, TypeOK
<1>5. EntradasAlternadas'
  BY <1>4 DEF AlternadaInv, EntradasAlternadas
<1>6. PresencaFechada'
  BY <1>3, <1>4 DEF AlternadaInv, PresencaFechada, TypeOK
<1>7. SabeDoLog(p)'
  BY <1>4 DEF SabeDoLog, SemPedido
<1> QED BY <1>5, <1>6, <1>7, AlternadaPedido

LEMMA AlternadaPortal ==
    ASSUME UmPedido, SemDuracoes, AlternadaInv, TypeOK', Portal
    PROVE  AlternadaInv'
<1>1. ASSUME NEW p \in Pedidos, NEW s \in Sessoes, Iniciar(p, s) PROVE AlternadaInv'
  BY <1>1, AlternadaLonge DEF Iniciar
<1>2. ASSUME NEW p \in Pedidos, NEW s \in Sessoes, TerminarLer(p, s) PROVE AlternadaInv'
  <2>1. PICK r : r = [pc |-> "acessos", sessao |-> s]
    OBVIOUS
  <2>2. r.pc = "acessos" /\ PedidoPasso(p, r) /\ UNCHANGED <<terminada, acessos>>
    BY <1>2, <2>1 DEF TerminarLer
  <2> QED BY <2>2, AlternadaComeca
<1>3. ASSUME NEW p \in Pedidos, FalharPedido(p) PROVE AlternadaInv'
  <2>1. PedidoPasso(p, SemPedido) /\ UNCHANGED <<terminada, acessos>> /\ SemPedido.pc = "livre"
    BY <1>3 DEF FalharPedido, SemPedido
  <2> QED BY <2>1, AlternadaComeca
<1>4. ASSUME NEW p \in Pedidos, NEW s \in Sessoes, NEW f \in DoPortal, PortalValidar(p, s, f, "join", Nulo)
      PROVE  AlternadaInv'
  BY <1>4, AlternadaValidar
<1>5. ASSUME NEW p \in Pedidos, NEW s \in Sessoes, NEW f \in DoPortal, NEW d \in DuracoesPedido,
             PortalValidar(p, s, f, "leave", d)
      PROVE  AlternadaInv'
  BY <1>5, AlternadaValidar DEF SemDuracoes
<1> QED BY <1>1, <1>2, <1>3, <1>4, <1>5, AlternadaLer, AlternadaGravar, AlternadaFecharLer,
           AlternadaFechar, AlternadaTerminar DEF Portal

(* Time passes while no request is between a read and its write.           *)
LEMMA AlternadaTick == ASSUME AlternadaInv, TypeOK', Tick PROVE AlternadaInv'
<1>1. UNCHANGED <<terminada, pedido, acessos>> /\ \A p \in Pedidos : pedido[p].pc \notin {"lido", "fechar"}
  BY DEF Tick, varsSessao
<1>2. EntradasAlternadas' /\ PresencaFechada'
  BY <1>1 DEF AlternadaInv, EntradasAlternadas, PresencaFechada
<1>3. \A p \in Pedidos : SabeDoLog(p)'
  BY <1>1 DEF AlternadaInv, SabeDoLog
<1> QED BY <1>2, <1>3 DEF AlternadaInv

LEMMA AlternadaInit == Init => AlternadaInv
<1> SUFFICES ASSUME Init PROVE AlternadaInv
  OBVIOUS
<1>1. TypeOK
  BY InitTipo
<1>2. \A s \in Sessoes, f \in DoPortal : acessos[s][f] = <<>> /\ ~terminada[s]
  BY DoPortalTipo DEF Init
<1>3. EntradasAlternadas /\ PresencaFechada
  BY <1>2 DEF EntradasAlternadas, PresencaFechada
<1>4. \A p \in Pedidos : SabeDoLog(p)
  BY DEF Init, SabeDoLog, SemPedido
<1> QED BY <1>1, <1>3, <1>4 DEF AlternadaInv

LEMMA AlternadaPasso ==
    ASSUME UmPedido, SoPeloPortal, SemDuracoes, AlternadaInv, [Next]_vars
    PROVE  AlternadaInv'
<1>1. TypeOK'
  BY PassoTipo DEF AlternadaInv
<1>2. CASE Fila \/ Webhook
  BY <1>1, <1>2, WebhookSemPortal, AlternadaLonge DEF AlternadaInv
<1>3. CASE UNCHANGED vars
  BY <1>1, <1>3, AlternadaLonge DEF vars, varsSessao
<1> QED BY <1>1, <1>2, <1>3, AlternadaPortal, AlternadaTick DEF Next

(* registerEvent: in the portal's log entrances and exits alternate,       *)
(* starting with an entrance.                                              *)
THEOREM EntradasCorrectas ==
    ASSUME UmPedido, SoPeloPortal, SemDuracoes
    PROVE  Spec => []EntradasAlternadas
<1>1. AlternadaInv /\ [Next]_vars => AlternadaInv'
  BY AlternadaPasso
<1>2. AlternadaInv => EntradasAlternadas
  BY DEF AlternadaInv
<1> QED BY <1>1, <1>2, AlternadaInit, PTL DEF Spec

(* terminar: a session that has ended has nobody of the portal inside,     *)
(* whatever failed half way before.                                        *)
THEOREM PresencaCorrecta ==
    ASSUME UmPedido, SoPeloPortal, SemDuracoes
    PROVE  Spec => []PresencaFechada
<1>1. AlternadaInv /\ [Next]_vars => AlternadaInv'
  BY AlternadaPasso
<1>2. AlternadaInv => PresencaFechada
  BY DEF AlternadaInv
<1> QED BY <1>1, <1>2, AlternadaInit, PTL DEF Spec
-----------------------------------------------------------------------------
(* The attendance time of a log with one more row.  The loop over the log  *)
(* is a recursive function: it exists, and its values on the rows the two  *)
(* logs have in common are the same.                                       *)

(* g is the loop's accumulator after each of the first n rows.             *)
EhSoma(g, log, n) ==
    g = [i \in 0 .. n |-> IF i = 0 THEN SomaVazia ELSE Somar(g[i - 1], log[i])]

(* Induction over the length, by the smallest counterexample.              *)
LEMMA HaSoma ==
    ASSUME NEW log \in Seq(AcessoRow)
    PROVE  \E g : EhSoma(g, log, Len(log))
<1> DEFINE S == {n \in Nat : ~\E g : EhSoma(g, log, n)}
<1>1. SUFFICES ASSUME S # {} PROVE FALSE
  OBVIOUS
<1>2. PICK n \in S : \A k \in S : n <= k
  BY <1>1, HaMenor
<1>3. n \in Nat /\ ~\E g : EhSoma(g, log, n)
  OBVIOUS
<1>4. CASE n = 0
  <2>1. PICK g : g = [i \in 0 .. 0 |-> SomaVazia]
    OBVIOUS
  <2>2. g = [i \in 0 .. 0 |-> IF i = 0 THEN SomaVazia ELSE Somar(g[i - 1], log[i])]
    BY <2>1
  <2> QED BY <1>3, <1>4, <2>2 DEF EhSoma
<1>5. CASE n # 0
  <2>1. n - 1 \in Nat /\ n - 1 \notin S
    BY <1>2, <1>3, <1>5
  <2>2. PICK h : EhSoma(h, log, n - 1)
    BY <2>1
  <2>3. \A i \in 0 .. (n - 1) : h[i] = IF i = 0 THEN SomaVazia ELSE Somar(h[i - 1], log[i])
    BY <2>2 DEF EhSoma
  <2>4. PICK g : g = [i \in 0 .. n |-> IF i = n THEN Somar(h[n - 1], log[n]) ELSE h[i]]
    OBVIOUS
  <2>5. \A i \in 0 .. (n - 1) : g[i] = h[i]
    BY <1>3, <2>4
  <2>6. ASSUME NEW i \in 0 .. n
        PROVE  g[i] = IF i = 0 THEN SomaVazia ELSE Somar(g[i - 1], log[i])
    <3>1. CASE i = n
      <4>1. g[n] = Somar(h[n - 1], log[n]) /\ g[n - 1] = h[n - 1]
        BY <1>3, <1>5, <2>4, <2>5
      <4> QED BY <1>5, <3>1, <4>1
    <3>2. CASE i # n
      <4>1. i \in 0 .. (n - 1) /\ (i # 0 => i - 1 \in 0 .. (n - 1))
        BY <1>3, <3>2
      <4> QED BY <2>3, <2>5, <4>1
    <3> QED BY <3>1, <3>2
  <2>7. g = [i \in 0 .. n |-> g[i]]
    BY <2>4
  <2>8. EhSoma(g, log, n)
    BY <2>6, <2>7 DEF EhSoma
  <2> QED BY <1>3, <2>8
<1> QED BY <1>4, <1>5

LEMMA SomaEh ==
    ASSUME NEW log \in Seq(AcessoRow)
    PROVE  \E g : EhSoma(g, log, Len(log)) /\ Soma(log) = g[Len(log)]
<1> DEFINE soma == CHOOSE g : EhSoma(g, log, Len(log))
<1>1. EhSoma(soma, log, Len(log))
  BY HaSoma
<1>2. Soma(log) = soma[Len(log)]
  BY DEF Soma, EhSoma
<1> QED BY <1>1, <1>2

LEMMA SomaDoVazio == Soma(<<>>) = SomaVazia
<1>1. PICK log : log = <<>>
  OBVIOUS
<1>2. log \in Seq(AcessoRow) /\ Len(log) = 0
  BY <1>1
<1>3. PICK g : EhSoma(g, log, Len(log)) /\ Soma(log) = g[Len(log)]
  BY <1>2, SomaEh
<1>4. EhSoma(g, log, 0) /\ Soma(log) = g[0]
  BY <1>2, <1>3
<1>5. g[0] = SomaVazia
  BY <1>4 DEF EhSoma
<1> QED BY <1>1, <1>4, <1>5

LEMMA SomaAcrescentada ==
    ASSUME NEW log \in Seq(AcessoRow), NEW r \in AcessoRow
    PROVE  Soma(Append(log, r)) = Somar(Soma(log), r)
<1>1. PICK novo : novo = Append(log, r)
  OBVIOUS
<1>2. PICK n : n = Len(log)
  OBVIOUS
<1>3. /\ n \in Nat /\ novo \in Seq(AcessoRow) /\ Len(novo) = n + 1 /\ novo[n + 1] = r
      /\ \A i \in 1 .. n : novo[i] = log[i]
  BY <1>1, <1>2
<1>4. PICK g : EhSoma(g, log, n) /\ Soma(log) = g[n]
  BY <1>2, SomaEh
<1>5. PICK h : EhSoma(h, novo, n + 1) /\ Soma(novo) = h[n + 1]
  BY <1>3, SomaEh
<1>6. \A i \in 0 .. n : g[i] = IF i = 0 THEN SomaVazia ELSE Somar(g[i - 1], log[i])
  BY <1>4 DEF EhSoma
<1>7. \A i \in 0 .. (n + 1) : h[i] = IF i = 0 THEN SomaVazia ELSE Somar(h[i - 1], novo[i])
  BY <1>5 DEF EhSoma
<1>8. \A i \in 0 .. n : g[i] = h[i]
  <2> DEFINE S == {i \in 0 .. n : g[i] # h[i]}
  <2>1. SUFFICES ASSUME S # {} PROVE FALSE
    OBVIOUS
  <2>2. S \in SUBSET Nat
    BY <1>3
  <2>3. PICK i \in S : \A k \in S : i <= k
    BY <2>1, <2>2, HaMenor
  <2>4. i \in 0 .. n /\ g[i] # h[i] /\ i \in 0 .. (n + 1)
    BY <1>3
  <2>5. CASE i = 0
    BY <1>6, <1>7, <2>4, <2>5
  <2>6. CASE i # 0
    <3>1. i - 1 \in 0 .. n /\ i \in 1 .. n
      BY <1>3, <2>4, <2>6
    <3>2. g[i - 1] = h[i - 1]
      BY <1>3, <2>3, <3>1
    <3>3. g[i] = Somar(g[i - 1], log[i]) /\ h[i] = Somar(h[i - 1], novo[i])
      BY <1>6, <1>7, <2>4, <2>6
    <3> QED BY <1>3, <2>4, <3>1, <3>2, <3>3
  <2> QED BY <2>5, <2>6
<1>9. n \in 0 .. n /\ n + 1 \in 0 .. (n + 1) /\ n + 1 # 0 /\ (n + 1) - 1 = n
  BY <1>3
<1>10. h[n + 1] = Somar(h[n], r)
  BY <1>3, <1>7, <1>9
<1> QED BY <1>1, <1>4, <1>5, <1>8, <1>9, <1>10
-----------------------------------------------------------------------------
(* The instants somebody was inside                                        *)

Dentro(log, ate) ==
    {t \in 0 .. (ate - 1) :
        \E i \in DOMAIN log :
            /\ log[i].evento = "join" /\ log[i].em <= t
            /\ \A j \in (i + 1) .. Len(log) : log[j].evento = "leave" => log[j].em > t}

LEMMA DentroFinito ==
    ASSUME NEW log \in Seq(AcessoRow), NEW ate \in Nat
    PROVE  /\ IsFiniteSet(Dentro(log, ate))
           /\ TempoEmSessao(log, ate) = Cardinality(Dentro(log, ate))
           /\ TempoEmSessao(log, ate) \in Nat
<1>1. IsFiniteSet(0 .. (ate - 1))
  BY FS_Interval
<1>2. Dentro(log, ate) \subseteq 0 .. (ate - 1)
  BY DEF Dentro
<1>3. IsFiniteSet(Dentro(log, ate))
  BY <1>1, <1>2, FS_Subset
<1>4. TempoEmSessao(log, ate) = Cardinality(Dentro(log, ate))
  BY DEF TempoEmSessao, Dentro
<1>5. Cardinality(Dentro(log, ate)) \in Nat
  BY <1>3, FS_CardinalityType
<1> QED BY <1>3, <1>4, <1>5

(* A row of this instant says nothing of the earlier ones.                 *)
LEMMA TempoAcrescentado ==
    ASSUME NEW log \in Seq(AcessoRow), NEW ate \in Nat, NEW r \in AcessoRow, r.em = ate
    PROVE  TempoEmSessao(Append(log, r), ate) = TempoEmSessao(log, ate)
<1>1. PICK novo : novo = Append(log, r)
  OBVIOUS
<1>2. PICK n : n = Len(log)
  OBVIOUS
<1>3. /\ n \in Nat /\ Len(novo) = n + 1 /\ novo[n + 1] = r /\ DOMAIN novo = 1 .. (n + 1)
      /\ DOMAIN log = 1 .. n /\ \A i \in 1 .. n : novo[i] = log[i]
  BY <1>1, <1>2
<1>4. ASSUME NEW t \in Dentro(log, ate) PROVE t \in Dentro(novo, ate)
  <2>1. t \in 0 .. (ate - 1)
    BY DEF Dentro
  <2>2. PICK i \in 1 .. n :
            /\ log[i].evento = "join" /\ log[i].em <= t
            /\ \A j \in (i + 1) .. n : log[j].evento = "leave" => log[j].em > t
    BY <1>2, <1>3 DEF Dentro
  <2>3. i \in 1 .. (n + 1) /\ novo[i] = log[i]
    BY <1>3
  <2>4. ASSUME NEW j \in (i + 1) .. (n + 1), novo[j].evento = "leave" PROVE novo[j].em > t
    <3>1. CASE j = n + 1
      BY <1>3, <2>1, <3>1
    <3>2. CASE j # n + 1
      <4>1. j \in (i + 1) .. n /\ j \in 1 .. n
        BY <1>3, <3>2
      <4> QED BY <1>3, <2>2, <2>4, <4>1
    <3> QED BY <3>1, <3>2
  <2>5. \E k \in DOMAIN novo :
            /\ novo[k].evento = "join" /\ novo[k].em <= t
            /\ \A j \in (k + 1) .. Len(novo) : novo[j].evento = "leave" => novo[j].em > t
    BY <1>3, <2>2, <2>3, <2>4
  <2> QED BY <2>1, <2>5 DEF Dentro
<1>5. ASSUME NEW t \in Dentro(novo, ate) PROVE t \in Dentro(log, ate)
  <2>1. t \in 0 .. (ate - 1)
    BY DEF Dentro
  <2>2. PICK i \in 1 .. (n + 1) :
            /\ novo[i].evento = "join" /\ novo[i].em <= t
            /\ \A j \in (i + 1) .. (n + 1) : novo[j].evento = "leave" => novo[j].em > t
    BY <1>3 DEF Dentro
  <2>3. i # n + 1
    BY <1>3, <2>1, <2>2
  <2>4. i \in 1 .. n /\ novo[i] = log[i]
    BY <1>3, <2>3
  <2>5. \A j \in (i + 1) .. n : j \in (i + 1) .. (n + 1) /\ novo[j] = log[j]
    BY <1>3, <2>4
  <2>6. \E k \in DOMAIN log :
            /\ log[k].evento = "join" /\ log[k].em <= t
            /\ \A j \in (k + 1) .. Len(log) : log[j].evento = "leave" => log[j].em > t
    BY <1>2, <1>3, <2>2, <2>4, <2>5
  <2> QED BY <2>1, <2>6 DEF Dentro
<1>6. Dentro(novo, ate) = Dentro(log, ate)
  BY <1>4, <1>5
<1>7. novo \in Seq(AcessoRow)
  BY <1>1
<1>8. TempoEmSessao(novo, ate) = Cardinality(Dentro(novo, ate))
  BY <1>7, DentroFinito
<1>9. TempoEmSessao(log, ate) = Cardinality(Dentro(log, ate))
  BY DentroFinito
<1> QED BY <1>1, <1>6, <1>8, <1>9

(* The present instant counts for those inside.                            *)
LEMMA TempoPassa ==
    ASSUME NEW log \in Seq(AcessoRow), NEW ate \in Nat, \A i \in DOMAIN log : log[i].em <= ate
    PROVE  TempoEmSessao(log, ate + 1) = TempoEmSessao(log, ate) + IF EmSessao(log) THEN 1 ELSE 0
<1>1. PICK n : n = Len(log)
  OBVIOUS
<1>2. n \in Nat /\ DOMAIN log = 1 .. n /\ \A i \in 1 .. n : log[i].em \in Nat /\ log[i].em <= ate
  <2>1. n \in Nat /\ DOMAIN log = 1 .. n
    BY <1>1
  <2>2. \A i \in 1 .. n : log[i] \in AcessoRow
    BY <1>1
  <2>3. \A i \in 1 .. n : log[i].em \in Nat
    BY <2>2 DEF AcessoRow
  <2> QED BY <2>1, <2>3
<1>3. \A t \in 0 .. (ate - 1) : t \in Dentro(log, ate + 1) <=> t \in Dentro(log, ate)
  <2>1. \A t \in 0 .. (ate - 1) : t \in 0 .. ((ate + 1) - 1)
    OBVIOUS
  <2> QED BY <2>1 DEF Dentro
<1>4. ate \in Dentro(log, ate + 1) <=> EmSessao(log)
  <2>1. ASSUME ate \in Dentro(log, ate + 1) PROVE EmSessao(log)
    <3>1. PICK i \in 1 .. n :
              /\ log[i].evento = "join"
              /\ \A j \in (i + 1) .. n : log[j].evento = "leave" => log[j].em > ate
      BY <1>1, <1>2, <2>1 DEF Dentro
    <3>2. \A j \in (i + 1) .. n : log[j].evento # "leave"
      <4>1. \A j \in (i + 1) .. n : j \in 1 .. n
        BY <1>2
      <4> QED BY <1>2, <3>1, <4>1
    <3>3. UltimoMovimento(log) # 0
      BY <1>1, <3>1, HaMovimento
    <3>4. PICK u : u = UltimoMovimento(log)
      OBVIOUS
    <3>5. /\ u \in 1 .. n /\ log[u].evento \in {"join", "leave"}
          /\ \A j \in (u + 1) .. n : log[j].evento \notin {"join", "leave"}
      BY <1>1, <3>3, <3>4, UltimoMovimentoNoLog
    <3>6. u \in (i + 1) .. n \/ u = i
      BY <1>2, <3>1, <3>5
    <3>7. log[u].evento = "join"
      BY <3>1, <3>2, <3>5, <3>6
    <3> QED BY <3>3, <3>4, <3>7 DEF EmSessao
  <2>2. ASSUME EmSessao(log) PROVE ate \in Dentro(log, ate + 1)
    <3>1. PICK u : u = UltimoMovimento(log)
      OBVIOUS
    <3>2. /\ u \in 1 .. n /\ log[u].evento = "join"
          /\ \A j \in (u + 1) .. n : log[j].evento \notin {"join", "leave"}
      BY <1>1, <2>2, <3>1, UltimoMovimentoNoLog DEF EmSessao
    <3>3. log[u].em <= ate /\ ate \in 0 .. ((ate + 1) - 1)
      BY <1>2, <3>2
    <3>4. \E i \in DOMAIN log :
              /\ log[i].evento = "join" /\ log[i].em <= ate
              /\ \A j \in (i + 1) .. Len(log) : log[j].evento = "leave" => log[j].em > ate
      BY <1>1, <1>2, <3>2, <3>3
    <3> QED BY <3>3, <3>4 DEF Dentro
  <2> QED BY <2>1, <2>2
<1>5. Dentro(log, ate) \subseteq 0 .. (ate - 1) /\ Dentro(log, ate + 1) \subseteq 0 .. ate /\ ate \notin Dentro(log, ate)
  BY DEF Dentro
<1>6. \A t \in 0 .. ate : t = ate \/ t \in 0 .. (ate - 1)
  OBVIOUS
<1>7. IsFiniteSet(Dentro(log, ate)) /\ TempoEmSessao(log, ate) = Cardinality(Dentro(log, ate))
      /\ TempoEmSessao(log, ate) \in Nat
  BY DentroFinito
<1>8. TempoEmSessao(log, ate + 1) = Cardinality(Dentro(log, ate + 1))
  BY DentroFinito
<1>9. CASE EmSessao(log)
  <2>1. Dentro(log, ate + 1) = Dentro(log, ate) \cup {ate}
    BY <1>3, <1>4, <1>5, <1>6, <1>9
  <2>2. Cardinality(Dentro(log, ate) \cup {ate}) = Cardinality(Dentro(log, ate)) + 1
    BY <1>5, <1>7, FS_AddElement
  <2> QED BY <1>7, <1>8, <1>9, <2>1, <2>2
<1>10. CASE ~EmSessao(log)
  <2>1. Dentro(log, ate + 1) = Dentro(log, ate)
    BY <1>3, <1>4, <1>5, <1>6, <1>10
  <2> QED BY <1>7, <1>8, <1>10, <2>1
<1> QED BY <1>9, <1>10
-----------------------------------------------------------------------------
(* The time the loop counts against the instants inside                    *)

(* The interval the loop has open is the one of ultimoJoinAberto, and it   *)
(* began no later; Exacta: it began at the same instant.                   *)
ContaCerta(log, ate) ==
    /\ \A i \in DOMAIN log : log[i].em <= ate
    /\ Soma(log) \in [desde: Nat \cup {Nulo}, total: Nat]
    /\ Soma(log).desde = Nulo <=> ~EmSessao(log)
    /\ EmSessao(log) => Soma(log).desde <= log[UltimoMovimento(log)].em

Exacta(log) == EmSessao(log) => Soma(log).desde = log[UltimoMovimento(log)].em

(* What a log that keeps its rows' instants and types is counted by.       *)
LEMMA ContaTipo ==
    ASSUME NEW log \in Seq(AcessoRow), NEW ate \in Nat, ContaCerta(log, ate)
    PROVE  /\ Soma(log).total \in Nat /\ Soma(log).desde \in Nat \cup {Nulo}
           /\ EmSessao(log) =>
                 /\ Soma(log).desde \in Nat /\ log[UltimoMovimento(log)].em \in Nat
                 /\ Soma(log).desde <= log[UltimoMovimento(log)].em
                 /\ log[UltimoMovimento(log)].em <= ate
                 /\ SegundosDesdeUltimoJoin(log, ate) = ate - log[UltimoMovimento(log)].em
                 /\ SegundosPresenca(log, ate) = Soma(log).total + (ate - Soma(log).desde)
           /\ ~EmSessao(log) => SegundosPresenca(log, ate) = Soma(log).total
<1>1. Soma(log).total \in Nat /\ Soma(log).desde \in Nat \cup {Nulo}
  BY DEF ContaCerta
<1>2. CASE EmSessao(log)
  <2>1. PICK u : u = UltimoMovimento(log)
    OBVIOUS
  <2>2. u \in 1 .. Len(log)
    BY <1>2, <2>1, UltimoMovimentoNoLog DEF EmSessao
  <2>3. log[u] \in AcessoRow
    BY <2>2
  <2>4. log[u].em \in Nat /\ log[u].em <= ate
    BY <2>2, <2>3 DEF AcessoRow, ContaCerta
  <2>5. Soma(log).desde # Nulo /\ Soma(log).desde <= log[u].em
    BY <1>2, <2>1 DEF ContaCerta
  <2>6. Soma(log).desde \in Nat
    BY <1>1, <2>5
  <2>7. SegundosDesdeUltimoJoin(log, ate) = SemNegativos(ate - log[u].em)
    BY <1>2, <2>1 DEF SegundosDesdeUltimoJoin
  <2>8. SemNegativos(ate - log[u].em) = ate - log[u].em
    BY <2>4 DEF SemNegativos
  <2>9. SegundosPresenca(log, ate) = Soma(log).total + SemNegativos(ate - Soma(log).desde)
    BY <2>5 DEF SegundosPresenca
  <2>10. SemNegativos(ate - Soma(log).desde) = ate - Soma(log).desde
    BY <2>4, <2>5, <2>6 DEF SemNegativos
  <2> QED BY <1>1, <1>2, <2>1, <2>4, <2>5, <2>6, <2>7, <2>8, <2>9, <2>10
<1>3. CASE ~EmSessao(log)
  <2>1. Soma(log).desde = Nulo
    BY <1>3 DEF ContaCerta
  <2>2. SegundosPresenca(log, ate) = Soma(log).total + 0
    BY <2>1 DEF SegundosPresenca
  <2> QED BY <1>1, <1>3, <2>2
<1> QED BY <1>2, <1>3

(* The instants of a log with a row of the present.                        *)
LEMMA InstantesAcrescentados ==
    ASSUME NEW log \in Seq(AcessoRow), NEW ate \in Nat, ContaCerta(log, ate),
           NEW r \in AcessoRow, r.em = ate
    PROVE  /\ \A i \in DOMAIN Append(log, r) : Append(log, r)[i].em <= ate
           /\ r.evento # "alert" => Append(log, r)[UltimoMovimento(Append(log, r))].em = ate
           /\ r.evento = "alert" /\ EmSessao(log) =>
                 Append(log, r)[UltimoMovimento(Append(log, r))] = log[UltimoMovimento(log)]
<1>1. PICK novo : novo = Append(log, r)
  OBVIOUS
<1>2. /\ DOMAIN novo = 1 .. (Len(log) + 1) /\ novo[Len(log) + 1] = r /\ DOMAIN log = 1 .. Len(log)
      /\ Len(log) \in Nat /\ \A i \in 1 .. Len(log) : novo[i] = log[i]
  BY <1>1
<1>3. \A i \in DOMAIN novo : novo[i].em <= ate
  <2>1. \A i \in DOMAIN novo : i \in DOMAIN log \/ i = Len(log) + 1
    BY <1>2
  <2> QED BY <1>2, <2>1 DEF ContaCerta
<1>4. r.evento # "alert" => novo[UltimoMovimento(novo)].em = ate
  BY <1>1, <1>2, MovimentoAcrescentado
<1>5. ASSUME r.evento = "alert", EmSessao(log)
      PROVE  novo[UltimoMovimento(novo)] = log[UltimoMovimento(log)]
  <2>1. UltimoMovimento(novo) = UltimoMovimento(log)
    BY <1>1, <1>5, AlertaAcrescentado
  <2>2. UltimoMovimento(log) \in 1 .. Len(log)
    BY <1>5, UltimoMovimentoNoLog DEF EmSessao
  <2> QED BY <1>2, <2>1, <2>2
<1> QED BY <1>1, <1>3, <1>4, <1>5

(* An entrance of the present: nothing is counted yet.                     *)
LEMMA ContaEntrada ==
    ASSUME NEW log \in Seq(AcessoRow), NEW ate \in Nat, ContaCerta(log, ate),
           NEW r \in AcessoRow, r.em = ate, r.evento = "join"
    PROVE  /\ ContaCerta(Append(log, r), ate)
           /\ SegundosPresenca(Append(log, r), ate) = SegundosPresenca(log, ate)
           /\ ~EmSessao(log) => Exacta(Append(log, r))
<1>1. PICK novo : novo = Append(log, r)
  OBVIOUS
<1>2. novo \in Seq(AcessoRow) /\ EmSessao(novo) /\ novo[UltimoMovimento(novo)].em = ate
      /\ \A i \in DOMAIN novo : novo[i].em <= ate
  BY <1>1, MovimentoAcrescentado, InstantesAcrescentados
<1>3. Soma(novo) = Somar(Soma(log), r)
  BY <1>1, SomaAcrescentada
<1>4. PICK a : a = Soma(log)
  OBVIOUS
<1>5. a \in [desde: Nat \cup {Nulo}, total: Nat] /\ (a.desde = Nulo <=> ~EmSessao(log))
  BY <1>4 DEF ContaCerta
<1>6. CASE a.desde = Nulo
  <2>1. Soma(novo) = [a EXCEPT !.desde = ate]
    BY <1>3, <1>4, <1>6 DEF Somar
  <2>2. Soma(novo) \in [desde: Nat \cup {Nulo}, total: Nat] /\ Soma(novo).desde = ate /\ Soma(novo).total = a.total
    BY <1>5, <2>1
  <2>3. ate # Nulo
    BY DEF Nulo
  <2>4. ContaCerta(novo, ate)
    BY <1>2, <2>2, <2>3 DEF ContaCerta
  <2>5. SegundosPresenca(novo, ate) = a.total + (ate - ate)
    BY <1>2, <2>2, <2>4, ContaTipo
  <2>6. SegundosPresenca(log, ate) = a.total /\ a.total \in Nat
    BY <1>4, <1>5, <1>6, ContaTipo
  <2> QED BY <1>1, <1>2, <2>2, <2>4, <2>5, <2>6 DEF Exacta
<1>7. CASE a.desde # Nulo
  <2>1. Soma(novo) = a
    BY <1>3, <1>4, <1>7 DEF Somar
  <2>2. EmSessao(log) /\ a.desde \in Nat
    BY <1>5, <1>7
  <2>3. a.desde <= ate
    BY <1>4, <2>2, ContaTipo
  <2>4. ContaCerta(novo, ate)
    BY <1>2, <1>5, <1>7, <2>1, <2>3 DEF ContaCerta
  <2>5. SegundosPresenca(novo, ate) = SegundosPresenca(log, ate)
    BY <1>4, <2>1 DEF SegundosPresenca
  <2> QED BY <1>1, <2>2, <2>4, <2>5
<1> QED BY <1>6, <1>7

(* An exit of the present, with the duration since the last entrance: what *)
(* was open is counted, and no more.                                       *)
LEMMA ContaSaida ==
    ASSUME NEW log \in Seq(AcessoRow), NEW ate \in Nat, ContaCerta(log, ate),
           NEW r \in AcessoRow, r.em = ate, r.evento = "leave",
           r.duracao = SegundosDesdeUltimoJoin(log, ate)
    PROVE  /\ ContaCerta(Append(log, r), ate) /\ Exacta(Append(log, r))
           /\ SegundosPresenca(Append(log, r), ate) <= SegundosPresenca(log, ate)
           /\ Exacta(log) => SegundosPresenca(Append(log, r), ate) = SegundosPresenca(log, ate)
<1>1. PICK novo : novo = Append(log, r)
  OBVIOUS
<1>2. novo \in Seq(AcessoRow) /\ ~EmSessao(novo) /\ \A i \in DOMAIN novo : novo[i].em <= ate
  BY <1>1, MovimentoAcrescentado, InstantesAcrescentados
<1>3. Soma(novo) = Somar(Soma(log), r)
  BY <1>1, SomaAcrescentada
<1>4. PICK a : a = Soma(log)
  OBVIOUS
<1>5. a \in [desde: Nat \cup {Nulo}, total: Nat] /\ (a.desde = Nulo <=> ~EmSessao(log))
  BY <1>4 DEF ContaCerta
<1>6. CASE a.desde = Nulo
  <2>1. Soma(novo) = a
    BY <1>3, <1>4, <1>6 DEF Somar
  <2>2. ContaCerta(novo, ate)
    BY <1>2, <1>5, <1>6, <2>1 DEF ContaCerta
  <2>3. SegundosPresenca(novo, ate) = SegundosPresenca(log, ate) /\ SegundosPresenca(log, ate) \in Nat
    <3>1. SegundosPresenca(log, ate) = a.total /\ SegundosPresenca(novo, ate) = a.total /\ a.total \in Nat
      BY <1>2, <1>4, <1>5, <1>6, <2>1, <2>2, ContaTipo
    <3> QED BY <3>1
  <2> QED BY <1>1, <1>2, <2>2, <2>3 DEF Exacta
<1>7. CASE a.desde # Nulo
  <2>1. PICK x : x = log[UltimoMovimento(log)].em
    OBVIOUS
  <2>2. /\ EmSessao(log) /\ a.desde \in Nat /\ a.total \in Nat /\ x \in Nat /\ a.desde <= x /\ x <= ate
        /\ r.duracao = ate - x /\ SegundosPresenca(log, ate) = a.total + (ate - a.desde)
    BY <1>4, <1>5, <1>7, <2>1, ContaTipo
  <2>3. PICK d : d = IF r.duracao > 0 THEN r.duracao ELSE SemNegativos(ate - a.desde)
    OBVIOUS
  <2>4. d \in Nat /\ d <= ate - a.desde /\ (a.desde = x => d = ate - a.desde)
    <3>1. SemNegativos(ate - a.desde) = ate - a.desde
      BY <2>2 DEF SemNegativos
    <3> QED BY <2>2, <2>3, <3>1
  <2>5. Soma(novo) = [desde |-> Nulo, total |-> a.total + d]
    BY <1>3, <1>4, <1>7, <2>3 DEF Somar
  <2>6. a.total + d \in Nat
    BY <2>2, <2>4
  <2>7. ContaCerta(novo, ate)
    BY <1>2, <2>5, <2>6 DEF ContaCerta
  <2>8. SegundosPresenca(novo, ate) = a.total + d
    BY <1>2, <2>5, <2>7, ContaTipo
  <2>9. Exacta(log) => a.desde = x
    BY <1>4, <2>1, <2>2 DEF Exacta
  <2> QED BY <1>1, <1>2, <2>2, <2>4, <2>7, <2>8, <2>9 DEF Exacta
<1> QED BY <1>6, <1>7

(* An alert counts for nothing.                                            *)
LEMMA ContaAlerta ==
    ASSUME NEW log \in Seq(AcessoRow), NEW ate \in Nat, ContaCerta(log, ate),
           NEW r \in AcessoRow, r.em = ate, r.evento = "alert"
    PROVE  /\ ContaCerta(Append(log, r), ate)
           /\ SegundosPresenca(Append(log, r), ate) = SegundosPresenca(log, ate)
<1>1. PICK novo : novo = Append(log, r)
  OBVIOUS
<1>2. /\ EmSessao(novo) <=> EmSessao(log)
      /\ \A i \in DOMAIN novo : novo[i].em <= ate
      /\ EmSessao(log) => novo[UltimoMovimento(novo)] = log[UltimoMovimento(log)]
  BY <1>1, AlertaAcrescentado, InstantesAcrescentados
<1>3. Soma(novo) = Soma(log)
  <2>1. Soma(novo) = Somar(Soma(log), r)
    BY <1>1, SomaAcrescentada
  <2> QED BY <2>1 DEF Somar
<1>4. ContaCerta(novo, ate)
  BY <1>2, <1>3 DEF ContaCerta
<1>5. SegundosPresenca(novo, ate) = SegundosPresenca(log, ate)
  BY <1>3 DEF SegundosPresenca
<1> QED BY <1>1, <1>4, <1>5

(* An instant passes.                                                      *)
LEMMA ContaPassa ==
    ASSUME NEW log \in Seq(AcessoRow), NEW ate \in Nat, ContaCerta(log, ate)
    PROVE  /\ ContaCerta(log, ate + 1)
           /\ SegundosPresenca(log, ate + 1) = SegundosPresenca(log, ate) + IF EmSessao(log) THEN 1 ELSE 0
<1>1. \A i \in DOMAIN log : log[i].em <= ate + 1
  <2>1. \A i \in DOMAIN log : log[i].em \in Nat
    <3>1. \A i \in DOMAIN log : log[i] \in AcessoRow
      OBVIOUS
    <3> QED BY <3>1 DEF AcessoRow
  <2> QED BY <2>1 DEF ContaCerta
<1>2. ContaCerta(log, ate + 1)
  BY <1>1 DEF ContaCerta
<1>3. ate + 1 \in Nat
  OBVIOUS
<1>4. CASE EmSessao(log)
  <2>1. Soma(log).total \in Nat /\ Soma(log).desde \in Nat
    BY <1>4, ContaTipo
  <2>2. SegundosPresenca(log, ate) = Soma(log).total + (ate - Soma(log).desde)
    BY <1>4, ContaTipo
  <2>3. SegundosPresenca(log, ate + 1) = Soma(log).total + ((ate + 1) - Soma(log).desde)
    BY <1>2, <1>3, <1>4, ContaTipo
  <2> QED BY <1>2, <1>4, <2>1, <2>2, <2>3
<1>5. CASE ~EmSessao(log)
  <2>1. SegundosPresenca(log, ate) = Soma(log).total /\ Soma(log).total \in Nat
    BY <1>5, ContaTipo
  <2>2. SegundosPresenca(log, ate + 1) = Soma(log).total
    BY <1>2, <1>3, <1>5, ContaTipo
  <2> QED BY <1>2, <1>5, <2>1, <2>2
<1> QED BY <1>4, <1>5
-----------------------------------------------------------------------------
(* The attendance of who registers in the portal is the time inside: the   *)
(* loop's open interval is the one of the last entrance, so the duration   *)
(* an exit brings is the length of the interval it closes.                 *)
TempoCerto(log, ate) ==
    ContaCerta(log, ate) /\ Exacta(log) /\ SegundosPresenca(log, ate) = TempoEmSessao(log, ate)

TempoInv ==
    AlternadaInv /\ \A s \in Sessoes, f \in DoPortal : TempoCerto(acessos[s][f], relogio)

LEMMA TempoAcrescentar ==
    ASSUME TypeOK, NEW s \in Sessoes, NEW f \in DoPortal, NEW ev \in {"join", "leave"},
           NEW d \in Nat \cup {Nulo}, Acrescentar(s, f, ev, d), UNCHANGED relogio,
           ev = "join" => ~EmSessao(acessos[s][f]),
           ev = "leave" => d = SegundosDesdeUltimoJoin(acessos[s][f], relogio),
           \A t \in Sessoes, g \in DoPortal : TempoCerto(acessos[t][g], relogio)
    PROVE  (\A t \in Sessoes, g \in DoPortal : TempoCerto(acessos[t][g], relogio))'
<1>1. PICK log : log = acessos[s][f]
  OBVIOUS
<1>2. PICK r : r = Registo(ev, d)
  OBVIOUS
<1>3. log \in Seq(AcessoRow) /\ relogio \in Nat /\ f \in Formandos
  BY <1>1, DoPortalTipo DEF TypeOK
<1>4. r \in AcessoRow /\ r.em = relogio /\ r.evento = ev /\ r.duracao = d
  BY <1>2, <1>3 DEF Registo, AcessoRow, Eventos
<1>5. PICK novo : novo = Append(log, r)
  OBVIOUS
<1>6. acessos'[s][f] = novo /\ \A t \in Sessoes, g \in DoPortal : t # s \/ g # f => acessos'[t][g] = acessos[t][g]
  BY <1>1, <1>2, <1>3, <1>5, DoPortalTipo, Acrescentado
<1>7. ContaCerta(log, relogio) /\ Exacta(log) /\ SegundosPresenca(log, relogio) = TempoEmSessao(log, relogio)
  BY <1>1 DEF TempoCerto
<1>8. ContaCerta(novo, relogio) /\ Exacta(novo) /\ SegundosPresenca(novo, relogio) = SegundosPresenca(log, relogio)
  <2>1. CASE ev = "join"
    BY <1>1, <1>3, <1>4, <1>5, <1>7, <2>1, ContaEntrada
  <2>2. CASE ev = "leave"
    BY <1>1, <1>3, <1>4, <1>5, <1>7, <2>2, ContaSaida
  <2> QED BY <2>1, <2>2
<1>9. TempoEmSessao(novo, relogio) = TempoEmSessao(log, relogio)
  BY <1>3, <1>4, <1>5, TempoAcrescentado
<1>10. TempoCerto(novo, relogio)
  BY <1>7, <1>8, <1>9 DEF TempoCerto
<1>11. ASSUME NEW t \in Sessoes, NEW g \in DoPortal PROVE TempoCerto(acessos'[t][g], relogio')
  <2>1. acessos'[t][g] = novo \/ acessos'[t][g] = acessos[t][g]
    BY <1>6
  <2> QED BY <1>10, <2>1
<1> QED BY <1>11

(* A step that writes nothing in the portal's logs.                        *)
LEMMA TempoLonge ==
    ASSUME TempoInv, AlternadaInv', UNCHANGED relogio,
           \A s \in Sessoes, f \in DoPortal : acessos'[s][f] = acessos[s][f]
    PROVE  TempoInv'
<1>1. ASSUME NEW s \in Sessoes, NEW f \in DoPortal PROVE TempoCerto(acessos'[s][f], relogio')
  <2>1. acessos'[s][f] = acessos[s][f] /\ relogio' = relogio /\ TempoCerto(acessos[s][f], relogio)
    BY DEF TempoInv
  <2> QED BY <2>1
<1> QED BY <1>1 DEF TempoInv

LEMMA TempoPortal == ASSUME TempoInv, AlternadaInv', Portal PROVE TempoInv'
<1> USE DEF UnchangedPortal
<1>1. ASSUME NEW p \in Pedidos, PortalGravar(p) PROVE TempoInv'
  <2>1. PICK r : r = pedido[p]
    OBVIOUS
  <2>2. /\ r.pc = "lido" /\ r.sessao \in Sessoes /\ r.evento \in {"join", "leave"}
        /\ r.duracao \in Nat \cup {Nulo}
    BY <1>1, <2>1, PedidoTipo DEF PortalGravar, TempoInv, AlternadaInv
  <2>3. /\ r.formando \in DoPortal /\ (EmSessao(acessos[r.sessao][r.formando]) <=> r.evento = "leave")
        /\ r.evento = "leave" => r.duracao = SegundosDesdeUltimoJoin(acessos[r.sessao][r.formando], relogio)
    BY <2>1, <2>2 DEF TempoInv, AlternadaInv, SabeDoLog
  <2>4. Acrescentar(r.sessao, r.formando, r.evento, r.duracao) /\ UNCHANGED relogio
    BY <1>1, <2>1 DEF PortalGravar
  <2>5. (\A t \in Sessoes, g \in DoPortal : TempoCerto(acessos[t][g], relogio))'
    BY <2>2, <2>3, <2>4, TempoAcrescentar DEF TempoInv, AlternadaInv
  <2> QED BY <2>5 DEF TempoInv
<1>2. ASSUME NEW p \in Pedidos, NEW f \in Formandos, FecharPresenca(p, f) PROVE TempoInv'
  <2>1. PICK r : r = pedido[p]
    OBVIOUS
  <2>2. r.pc = "fechar" /\ r.sessao \in Sessoes /\ r.porFechar \in [Formandos -> Nat \cup {Nulo}]
        /\ r.porFechar[f] # Nulo
    BY <1>2, <2>1, PedidoTipo DEF FecharPresenca, TempoInv, AlternadaInv
  <2>3. Acrescentar(r.sessao, f, "leave", r.porFechar[f]) /\ UNCHANGED relogio
    BY <1>2, <2>1 DEF FecharPresenca
  <2>4. CASE f \in DoPortal
    <3>1. r.porFechar[f] = SegundosDesdeUltimoJoin(acessos[r.sessao][f], relogio)
      BY <2>1, <2>2, <2>4 DEF TempoInv, AlternadaInv, SabeDoLog
    <3>2. r.porFechar[f] \in Nat \cup {Nulo}
      BY <2>2
    <3>3. (\A t \in Sessoes, g \in DoPortal : TempoCerto(acessos[t][g], relogio))'
      BY <2>2, <2>3, <2>4, <3>1, <3>2, TempoAcrescentar DEF TempoInv, AlternadaInv
    <3> QED BY <3>3 DEF TempoInv
  <2>5. CASE f \notin DoPortal
    <3>1. \A t \in Sessoes, g \in DoPortal : acessos'[t][g] = acessos[t][g]
      BY <2>2, <2>3, <2>5, DoPortalTipo, Acrescentado DEF TempoInv, AlternadaInv
    <3> QED BY <2>3, <3>1, TempoLonge
  <2> QED BY <2>4, <2>5
<1>3. ASSUME NEW p \in Pedidos, PortalLer(p) \/ FecharLer(p) \/ TerminarGravar(p) \/ FalharPedido(p)
      PROVE  UNCHANGED <<acessos, relogio>>
  BY <1>3 DEF PortalLer, FecharLer, TerminarGravar, FalharPedido
<1>4. ASSUME NEW p \in Pedidos, NEW s \in Sessoes, Iniciar(p, s) \/ TerminarLer(p, s)
      PROVE  UNCHANGED <<acessos, relogio>>
  BY <1>4 DEF Iniciar, TerminarLer
<1>5. ASSUME NEW p \in Pedidos, NEW s \in Sessoes, NEW f \in DoPortal, NEW ev, NEW d,
             PortalValidar(p, s, f, ev, d)
      PROVE  UNCHANGED <<acessos, relogio>>
  BY <1>5 DEF PortalValidar
<1>6. CASE UNCHANGED <<acessos, relogio>>
  BY <1>6, TempoLonge
<1> QED BY <1>1, <1>2, <1>3, <1>4, <1>5, <1>6 DEF Portal

LEMMA TempoTick == ASSUME TempoInv, AlternadaInv', Tick PROVE TempoInv'
<1>1. acessos' = acessos /\ relogio' = relogio + 1 /\ relogio \in Nat
  BY DEF Tick, TempoInv, AlternadaInv, TypeOK
<1>2. ASSUME NEW s \in Sessoes, NEW f \in DoPortal PROVE TempoCerto(acessos'[s][f], relogio')
  <2>1. PICK log : log = acessos[s][f]
    OBVIOUS
  <2>2. log \in Seq(AcessoRow)
    BY <2>1, DoPortalTipo, LogTipo DEF TempoInv, AlternadaInv
  <2>3. ContaCerta(log, relogio) /\ Exacta(log) /\ SegundosPresenca(log, relogio) = TempoEmSessao(log, relogio)
    BY <2>1 DEF TempoInv, TempoCerto
  <2>4. \A i \in DOMAIN log : log[i].em <= relogio
    BY <2>3 DEF ContaCerta
  <2>5. /\ ContaCerta(log, relogio + 1)
        /\ SegundosPresenca(log, relogio + 1) = SegundosPresenca(log, relogio) + IF EmSessao(log) THEN 1 ELSE 0
    BY <1>1, <2>2, <2>3, ContaPassa
  <2>6. TempoEmSessao(log, relogio + 1) = TempoEmSessao(log, relogio) + IF EmSessao(log) THEN 1 ELSE 0
    BY <1>1, <2>2, <2>4, TempoPassa
  <2>7. TempoCerto(log, relogio + 1)
    BY <2>3, <2>5, <2>6 DEF TempoCerto
  <2> QED BY <1>1, <2>1, <2>7
<1> QED BY <1>2 DEF TempoInv

(* An empty log.                                                           *)
LEMMA ContaVazia ==
    ASSUME NEW ate \in Nat, ate = 0
    PROVE  /\ ContaCerta(<<>>, ate) /\ Exacta(<<>>)
           /\ SegundosPresenca(<<>>, ate) = 0 /\ TempoEmSessao(<<>>, ate) = 0
<1>1. PICK log : log = <<>>
  OBVIOUS
<1>2. log \in Seq(AcessoRow) /\ DOMAIN log = {} /\ Soma(log) = SomaVazia
  BY <1>1, SomaDoVazio
<1>3. ~EmSessao(log)
  <2>1. {i \in DOMAIN log : log[i].evento \in {"join", "leave"}} = {}
    BY <1>2
  <2> QED BY <2>1 DEF EmSessao, UltimoMovimento
<1>4. ContaCerta(log, ate) /\ Exacta(log)
  BY <1>2, <1>3 DEF ContaCerta, Exacta, SomaVazia
<1>5. SegundosPresenca(log, ate) = 0
  <2>1. SegundosPresenca(log, ate) = Soma(log).total
    BY <1>2, <1>3, <1>4, ContaTipo
  <2> QED BY <1>2, <2>1 DEF SomaVazia
<1>6. TempoEmSessao(log, ate) = 0
  <2>1. Dentro(log, ate) = {}
    BY <1>2 DEF Dentro
  <2>2. TempoEmSessao(log, ate) = Cardinality(Dentro(log, ate))
    BY <1>2, DentroFinito
  <2> QED BY <2>1, <2>2, FS_EmptySet
<1> QED BY <1>1, <1>4, <1>5, <1>6

(* calcularSegundosPresencaJoinLeave: with rows whose entrances and exits  *)
(* alternate, and whose durations the service computed, it credits exactly *)
(* the time inside.                                                        *)
THEOREM TempoCorrecto ==
    ASSUME UmPedido, SoPeloPortal, SemDuracoes
    PROVE  Spec => []TempoConfere
<1>1. Init => TempoInv
  <2> SUFFICES ASSUME Init PROVE TempoInv
    OBVIOUS
  <2>1. AlternadaInv
    BY AlternadaInit
  <2>2. ASSUME NEW s \in Sessoes, NEW f \in DoPortal PROVE TempoCerto(acessos[s][f], relogio)
    <3>1. acessos[s][f] = <<>> /\ relogio = 0
      BY DoPortalTipo DEF Init
    <3> QED BY <3>1, ContaVazia DEF TempoCerto
  <2> QED BY <2>1, <2>2 DEF TempoInv
<1>2. TempoInv /\ [Next]_vars => TempoInv'
  <2> SUFFICES ASSUME TempoInv, [Next]_vars PROVE TempoInv'
    OBVIOUS
  <2>1. AlternadaInv'
    BY AlternadaPasso DEF TempoInv
  <2>2. CASE Fila \/ Webhook
    BY <2>1, <2>2, WebhookSemPortal, TempoLonge DEF TempoInv, AlternadaInv
  <2>3. CASE UNCHANGED vars
    BY <2>1, <2>3, TempoLonge DEF vars
  <2> QED BY <2>1, <2>2, <2>3, TempoPortal, TempoTick DEF Next
<1>3. TempoInv => TempoConfere
  BY DEF TempoInv, TempoCerto, TempoConfere
<1> QED BY <1>1, <1>2, <1>3, PTL DEF Spec

-----------------------------------------------------------------------------
(* What the webhooks alone record is never credited with more than the     *)
(* time inside, with one worker for each platform: rows may be lost,       *)
(* repeated or out of order, but the log an exit was computed from is the  *)
(* log it is written to.                                                   *)
UmPorPlataforma == \A e, x \in Execucoes : LoopDe[e] = LoopDe[x] => e = x
SoWebhooks == Pedidos = {}

SabeDaSaida(e) ==
    LET c == Conteudo[exec[e].msg]
    IN  exec[e].pc = "gravar" =>
            /\ PlataformaMsg(exec[e].msg) = LoopDe[e]
            /\ c.evento = "leave" =>
                  exec[e].duracao = SegundosDesdeUltimoJoin(acessos[c.sessao][c.formando], relogio)

TempoLimitado(log, ate) ==
    ContaCerta(log, ate) /\ SegundosPresenca(log, ate) <= TempoEmSessao(log, ate)

LimitadoInv ==
    /\ TypeOK
    /\ \A s \in Sessoes, f \in Formandos : TempoLimitado(acessos[s][f], relogio)
    /\ \A e \in Execucoes : SabeDaSaida(e)

(* Numbers, for the provers.                                               *)
LEMMA TempoNumeros ==
    ASSUME NEW log \in Seq(AcessoRow), NEW ate \in Nat, ContaCerta(log, ate)
    PROVE  SegundosPresenca(log, ate) \in Nat /\ TempoEmSessao(log, ate) \in Nat
<1>1. TempoEmSessao(log, ate) \in Nat
  BY DentroFinito
<1>2. CASE EmSessao(log)
  <2>1. /\ Soma(log).total \in Nat /\ Soma(log).desde \in Nat /\ log[UltimoMovimento(log)].em \in Nat
        /\ Soma(log).desde <= log[UltimoMovimento(log)].em /\ log[UltimoMovimento(log)].em <= ate
        /\ SegundosPresenca(log, ate) = Soma(log).total + (ate - Soma(log).desde)
    BY <1>2, ContaTipo
  <2> QED BY <1>1, <2>1
<1>3. CASE ~EmSessao(log)
  BY <1>1, <1>3, ContaTipo
<1> QED BY <1>2, <1>3

(* A row of the present in one log.                                        *)
LEMMA LimitadoAcrescentar ==
    ASSUME TypeOK, NEW s \in Sessoes, NEW f \in Formandos, NEW ev \in Eventos,
           NEW d \in Nat \cup {Nulo}, Acrescentar(s, f, ev, d), UNCHANGED relogio,
           ev = "leave" => d = SegundosDesdeUltimoJoin(acessos[s][f], relogio),
           \A t \in Sessoes, g \in Formandos : TempoLimitado(acessos[t][g], relogio)
    PROVE  (\A t \in Sessoes, g \in Formandos : TempoLimitado(acessos[t][g], relogio))'
<1>1. PICK log : log = acessos[s][f]
  OBVIOUS
<1>2. PICK r : r = Registo(ev, d)
  OBVIOUS
<1>3. log \in Seq(AcessoRow) /\ relogio \in Nat
  BY <1>1 DEF TypeOK
<1>4. r \in AcessoRow /\ r.em = relogio /\ r.evento = ev /\ r.duracao = d
  BY <1>2, <1>3 DEF Registo, AcessoRow
<1>5. PICK novo : novo = Append(log, r)
  OBVIOUS
<1>6. acessos'[s][f] = novo /\ \A t \in Sessoes, g \in Formandos : t # s \/ g # f => acessos'[t][g] = acessos[t][g]
  BY <1>1, <1>2, <1>5, Acrescentado
<1>7. ContaCerta(log, relogio) /\ SegundosPresenca(log, relogio) <= TempoEmSessao(log, relogio)
  BY <1>1 DEF TempoLimitado
<1>8. ContaCerta(novo, relogio) /\ SegundosPresenca(novo, relogio) <= SegundosPresenca(log, relogio)
  <2>1. SegundosPresenca(log, relogio) \in Nat
    BY <1>3, <1>7, TempoNumeros
  <2>2. CASE ev = "join"
    <3>1. ContaCerta(novo, relogio) /\ SegundosPresenca(novo, relogio) = SegundosPresenca(log, relogio)
      BY <1>3, <1>4, <1>5, <1>7, <2>2, ContaEntrada
    <3> QED BY <2>1, <3>1
  <2>3. CASE ev = "leave"
    BY <1>1, <1>3, <1>4, <1>5, <1>7, <2>3, ContaSaida
  <2>4. CASE ev = "alert"
    <3>1. ContaCerta(novo, relogio) /\ SegundosPresenca(novo, relogio) = SegundosPresenca(log, relogio)
      BY <1>3, <1>4, <1>5, <1>7, <2>4, ContaAlerta
    <3> QED BY <2>1, <3>1
  <2> QED BY <2>2, <2>3, <2>4 DEF Eventos
<1>9. TempoEmSessao(novo, relogio) = TempoEmSessao(log, relogio)
  BY <1>3, <1>4, <1>5, TempoAcrescentado
<1>10. TempoLimitado(novo, relogio)
  <2>1. novo \in Seq(AcessoRow)
    BY <1>3, <1>4, <1>5
  <2>2. SegundosPresenca(log, relogio) \in Nat /\ TempoEmSessao(log, relogio) \in Nat
    BY <1>3, <1>7, TempoNumeros
  <2>3. SegundosPresenca(novo, relogio) \in Nat
    BY <1>3, <1>8, <2>1, TempoNumeros
  <2> QED BY <1>7, <1>8, <1>9, <2>2, <2>3 DEF TempoLimitado
<1>11. ASSUME NEW t \in Sessoes, NEW g \in Formandos PROVE TempoLimitado(acessos'[t][g], relogio')
  <2>1. acessos'[t][g] = novo \/ acessos'[t][g] = acessos[t][g]
    BY <1>6
  <2> QED BY <1>10, <2>1
<1> QED BY <1>11

(* A step that writes no row, of a worker that is not about to write.      *)
LEMMA LimitadoLonge ==
    ASSUME LimitadoInv, TypeOK', UNCHANGED <<acessos, relogio>>,
           \A e \in Execucoes : exec'[e] = exec[e] \/ exec'[e].pc # "gravar"
    PROVE  LimitadoInv'
<1>1. (\A s \in Sessoes, f \in Formandos : TempoLimitado(acessos[s][f], relogio))'
  BY DEF LimitadoInv
<1>2. ASSUME NEW e \in Execucoes PROVE SabeDaSaida(e)'
  <2>1. SabeDaSaida(e) /\ acessos' = acessos /\ relogio' = relogio
    BY DEF LimitadoInv
  <2>2. CASE exec'[e] = exec[e]
    BY <2>1, <2>2 DEF SabeDaSaida
  <2>3. CASE exec'[e].pc # "gravar"
    BY <2>3 DEF SabeDaSaida
  <2> QED BY <2>2, <2>3
<1> QED BY <1>1, <1>2 DEF LimitadoInv

(* The handler writes its row and returns; the others are at work on       *)
(* sessions of other platforms.                                            *)
LEMMA LimitadoGravar ==
    ASSUME UmPorPlataforma, LimitadoInv, TypeOK', NEW e \in Execucoes, NEW c, NEW ev \in Eventos,
           NEW d \in Nat \cup {Nulo}, c = Conteudo[exec[e].msg], exec[e].pc # "livre",
           PlataformaMsg(exec[e].msg) = LoopDe[e], Acrescentar(c.sessao, c.formando, ev, d),
           Devolver(e), UNCHANGED relogio,
           ev = "leave" => d = SegundosDesdeUltimoJoin(acessos[c.sessao][c.formando], relogio)
    PROVE  LimitadoInv'
<1>1. c.sessao \in Sessoes /\ c.formando \in Formandos /\ PlataformaDe[c.sessao] = LoopDe[e]
  BY ExecTipo DEF LimitadoInv, PlataformaMsg
<1>2. (\A s \in Sessoes, f \in Formandos : TempoLimitado(acessos[s][f], relogio))'
  BY <1>1, LimitadoAcrescentar DEF LimitadoInv
<1>3. exec'[e].pc # "gravar" /\ \A x \in Execucoes : x # e => exec'[x] = exec[x]
  BY DEF Devolver, Libertar, Livre, LimitadoInv, TypeOK
<1>4. ASSUME NEW x \in Execucoes PROVE SabeDaSaida(x)'
  <2>1. CASE x = e \/ exec'[x].pc # "gravar"
    BY <1>3, <2>1 DEF SabeDaSaida
  <2>2. CASE x # e /\ exec'[x].pc = "gravar"
    <3>1. PICK b : b = Conteudo[exec[x].msg]
      OBVIOUS
    <3>2. exec'[x] = exec[x] /\ exec[x].pc = "gravar"
      BY <1>3, <2>2
    <3>3. /\ b.sessao \in Sessoes /\ b.formando \in Formandos /\ PlataformaMsg(exec[x].msg) = LoopDe[x]
          /\ PlataformaDe[b.sessao] = LoopDe[x]
          /\ b.evento = "leave" =>
                exec[x].duracao = SegundosDesdeUltimoJoin(acessos[b.sessao][b.formando], relogio)
      BY <3>1, <3>2, ExecTipo DEF LimitadoInv, SabeDaSaida, PlataformaMsg
    <3>4. b.sessao # c.sessao
      BY <1>1, <2>2, <3>3 DEF UmPorPlataforma
    <3>5. acessos'[b.sessao][b.formando] = acessos[b.sessao][b.formando]
      <4>1. TypeOK
        BY DEF LimitadoInv
      <4>2. \A t \in Sessoes, g \in Formandos : t # c.sessao => acessos'[t][g] = acessos[t][g]
        BY <1>1, <4>1, Acrescentado
      <4> QED BY <3>3, <3>4, <4>2
    <3> QED BY <3>1, <3>2, <3>3, <3>5 DEF SabeDaSaida, PlataformaMsg
  <2> QED BY <2>1, <2>2
<1> QED BY <1>2, <1>4 DEF LimitadoInv

LEMMA LimitadoWebhook ==
    ASSUME UmPorPlataforma, LimitadoInv, TypeOK', Webhook
    PROVE  LimitadoInv'
<1>1. ASSUME NEW e \in Execucoes, TokenRecusado(e) PROVE LimitadoInv'
  <2>1. \A x \in Execucoes : exec'[x] = exec[x] \/ exec'[x].pc # "gravar"
    BY <1>1 DEF TokenRecusado, Libertar, Livre, LimitadoInv, TypeOK
  <2> QED BY <1>1, <2>1, LimitadoLonge DEF TokenRecusado
<1>2. ASSUME NEW e \in Execucoes, SessaoNaoEncontrada(e) PROVE LimitadoInv'
  <2>1. \A x \in Execucoes : exec'[x] = exec[x] \/ exec'[x].pc # "gravar"
    BY <1>2 DEF SessaoNaoEncontrada, Devolver, Libertar, Livre, LimitadoInv, TypeOK
  <2> QED BY <1>2, <2>1, LimitadoLonge DEF SessaoNaoEncontrada
<1>3. ASSUME NEW e \in Execucoes, EmailIncorreto(e) PROVE LimitadoInv'
  <2>1. PICK c : c = Conteudo[exec[e].msg]
    OBVIOUS
  <2>2. /\ exec[e].pc = "tratar" /\ PlataformaMsg(exec[e].msg) = LoopDe[e] /\ Devolver(e)
        /\ Acrescentar(c.sessao, c.formando, "alert", Nulo) /\ UNCHANGED relogio
    BY <1>3, <2>1 DEF EmailIncorreto
  <2>3. "alert" \in Eventos /\ Nulo \in Nat \cup {Nulo} /\ "alert" # "leave"
    BY DEF Eventos
  <2> QED BY <2>1, <2>2, <2>3, LimitadoGravar
<1>4. ASSUME NEW e \in Execucoes, WebhookLer(e) PROVE LimitadoInv'
  <2>1. PICK c : c = Conteudo[exec[e].msg]
    OBVIOUS
  <2>2. PICK n : n = [pc |-> "gravar", msg |-> exec[e].msg,
                      duracao |-> IF c.evento = "join" THEN Nulo
                                  ELSE SegundosDesdeUltimoJoin(acessos[c.sessao][c.formando], relogio)]
    OBVIOUS
  <2>3. exec' = [exec EXCEPT ![e] = n] /\ PlataformaMsg(exec[e].msg) = LoopDe[e] /\ UNCHANGED <<acessos, relogio>>
    BY <1>4, <2>1, <2>2 DEF WebhookLer
  <2>4. exec'[e] = n /\ \A x \in Execucoes : x # e => exec'[x] = exec[x]
    BY <2>3 DEF LimitadoInv, TypeOK
  <2>5. n.msg = exec[e].msg /\ (c.evento = "leave" =>
            n.duracao = SegundosDesdeUltimoJoin(acessos[c.sessao][c.formando], relogio))
    BY <2>2
  <2>6. SabeDaSaida(e)'
    BY <2>1, <2>3, <2>4, <2>5 DEF SabeDaSaida, PlataformaMsg
  <2>7. \A x \in Execucoes : x # e => SabeDaSaida(x)'
    BY <2>3, <2>4 DEF LimitadoInv, SabeDaSaida
  <2>8. (\A s \in Sessoes, f \in Formandos : TempoLimitado(acessos[s][f], relogio))'
    BY <2>3 DEF LimitadoInv
  <2> QED BY <2>6, <2>7, <2>8 DEF LimitadoInv
<1>5. ASSUME NEW e \in Execucoes, WebhookGravar(e) PROVE LimitadoInv'
  <2>1. PICK c : c = Conteudo[exec[e].msg]
    OBVIOUS
  <2>2. /\ exec[e].pc = "gravar" /\ Devolver(e) /\ UNCHANGED relogio
        /\ Acrescentar(c.sessao, c.formando, c.evento, exec[e].duracao)
    BY <1>5, <2>1 DEF WebhookGravar
  <2>3. c.evento \in Eventos /\ exec[e].duracao \in Nat \cup {Nulo}
    BY <2>1, <2>2, ExecTipo DEF LimitadoInv
  <2>4. PlataformaMsg(exec[e].msg) = LoopDe[e] /\ (c.evento = "leave" =>
            exec[e].duracao = SegundosDesdeUltimoJoin(acessos[c.sessao][c.formando], relogio))
    BY <2>1, <2>2 DEF LimitadoInv, SabeDaSaida
  <2> QED BY <2>1, <2>2, <2>3, <2>4, LimitadoGravar
<1> QED BY <1>1, <1>2, <1>3, <1>4, <1>5 DEF Webhook

LEMMA LimitadoFila == ASSUME LimitadoInv, TypeOK', Fila PROVE LimitadoInv'
<1>1. ASSUME UNCHANGED <<acessos, relogio>>, exec' = exec PROVE LimitadoInv'
  BY <1>1, LimitadoLonge
<1>2. ASSUME NEW e \in Execucoes, NEW m, Ocupar(e, m) \/ Libertar(e), UNCHANGED <<acessos, relogio>>
      PROVE  LimitadoInv'
  <2>1. \A x \in Execucoes : exec'[x] = exec[x] \/ exec'[x].pc # "gravar"
    BY <1>2 DEF Ocupar, Libertar, Livre, LimitadoInv, TypeOK
  <2> QED BY <1>2, <2>1, LimitadoLonge
<1>3. ASSUME NEW m \in Mensagens, Enqueue(m) \/ Expirar(m) PROVE LimitadoInv'
  BY <1>1, <1>2, <1>3 DEF Enqueue, Expirar
<1>4. ASSUME NEW e \in Execucoes, RedisRetirar(e) \/ SqsApagar(e) \/ Falhar(e) PROVE LimitadoInv'
  BY <1>2, <1>4 DEF RedisRetirar, SqsApagar, Falhar
<1>5. ASSUME NEW e \in Execucoes, NEW m \in Mensagens, SqsReceber(e, m) PROVE LimitadoInv'
  BY <1>2, <1>5 DEF SqsReceber
<1> QED BY <1>3, <1>4, <1>5 DEF Fila

LEMMA LimitadoTick == ASSUME LimitadoInv, TypeOK', Tick PROVE LimitadoInv'
<1>1. /\ acessos' = acessos /\ exec' = exec /\ relogio' = relogio + 1 /\ relogio \in Nat
      /\ \A e \in Execucoes : exec[e].pc # "gravar"
  BY DEF Tick, LimitadoInv, TypeOK, varsFila
<1>2. ASSUME NEW s \in Sessoes, NEW f \in Formandos PROVE TempoLimitado(acessos'[s][f], relogio')
  <2>1. PICK log : log = acessos[s][f]
    OBVIOUS
  <2>2. log \in Seq(AcessoRow)
    BY <2>1, LogTipo DEF LimitadoInv
  <2>3. ContaCerta(log, relogio) /\ SegundosPresenca(log, relogio) <= TempoEmSessao(log, relogio)
    BY <2>1 DEF LimitadoInv, TempoLimitado
  <2>4. \A i \in DOMAIN log : log[i].em <= relogio
    BY <2>3 DEF ContaCerta
  <2>5. /\ ContaCerta(log, relogio + 1)
        /\ SegundosPresenca(log, relogio + 1) = SegundosPresenca(log, relogio) + IF EmSessao(log) THEN 1 ELSE 0
    BY <1>1, <2>2, <2>3, ContaPassa
  <2>6. TempoEmSessao(log, relogio + 1) = TempoEmSessao(log, relogio) + IF EmSessao(log) THEN 1 ELSE 0
    BY <1>1, <2>2, <2>4, TempoPassa
  <2>7. SegundosPresenca(log, relogio) \in Nat /\ TempoEmSessao(log, relogio) \in Nat
    BY <1>1, <2>2, <2>3, TempoNumeros
  <2>8. SegundosPresenca(log, relogio + 1) <= TempoEmSessao(log, relogio + 1)
    BY <2>3, <2>5, <2>6, <2>7
  <2>9. TempoLimitado(log, relogio + 1)
    BY <2>5, <2>8 DEF TempoLimitado
  <2> QED BY <1>1, <2>1, <2>9
<1>3. \A e \in Execucoes : SabeDaSaida(e)'
  BY <1>1 DEF SabeDaSaida
<1> QED BY <1>2, <1>3 DEF LimitadoInv

(* calcularSegundosPresencaJoinLeave credits no more than the time inside, *)
(* whatever the webhooks lose, repeat or bring late.                       *)
THEOREM TempoLimitadoCorrecto ==
    ASSUME UmPorPlataforma, SoWebhooks
    PROVE  Spec => []TempoNaoExcede
<1>1. Init => LimitadoInv
  <2> SUFFICES ASSUME Init PROVE LimitadoInv
    OBVIOUS
  <2>1. TypeOK
    BY InitTipo
  <2>2. ASSUME NEW s \in Sessoes, NEW f \in Formandos PROVE TempoLimitado(acessos[s][f], relogio)
    <3>1. acessos[s][f] = <<>> /\ relogio = 0
      BY DEF Init
    <3> QED BY <3>1, ContaVazia DEF TempoLimitado
  <2>3. \A e \in Execucoes : SabeDaSaida(e)
    BY DEF Init, SabeDaSaida, Livre
  <2> QED BY <2>1, <2>2, <2>3 DEF LimitadoInv
<1>2. LimitadoInv /\ [Next]_vars => LimitadoInv'
  <2> SUFFICES ASSUME LimitadoInv, [Next]_vars PROVE LimitadoInv'
    OBVIOUS
  <2>1. TypeOK'
    BY PassoTipo DEF LimitadoInv
  <2>2. ~Portal
    BY DEF Portal, SoWebhooks
  <2>3. CASE UNCHANGED vars
    BY <2>1, <2>3, LimitadoLonge DEF vars, varsFila
  <2> QED BY <2>1, <2>2, <2>3, LimitadoFila, LimitadoWebhook, LimitadoTick DEF Next
<1>3. LimitadoInv => TempoNaoExcede
  BY DEF LimitadoInv, TempoLimitado, TempoNaoExcede
<1> QED BY <1>1, <1>2, <1>3, PTL DEF Spec

-----------------------------------------------------------------------------
(* With Redis or no transport a call is handled at most once, and gives at *)
(* most one row.  A call still to be handled is in one place: at one       *)
(* position of the list of its platform, or held by one execution.         *)
NaFilaUmaVez ==
    \A k \in Plataformas : \A i \in DOMAIN fila[k] :
        /\ fila[k][i] \in enviadas /\ tratadas[fila[k][i]] = 0 /\ PlataformaMsg(fila[k][i]) = k
        /\ \A j \in DOMAIN fila[k] : fila[k][i] = fila[k][j] => i = j

Espera(m) == m \in enviadas /\ tratadas[m] = 0 /\ \A k \in Plataformas : \A i \in DOMAIN fila[k] : fila[k][i] # m

Tem(e, m) == exec[e].pc # "livre" /\ exec[e].msg = m

EmExecucaoUmaVez ==
    \A e \in Execucoes, m \in Mensagens : Tem(e, m) =>
        /\ exec[e].pc # "apagar" /\ Espera(m)
        /\ exec[e].pc = "gravar" => Conteudo[m].emailCerto
        /\ \A x \in Execucoes : Tem(x, m) => x = e

UmaVez ==
    /\ \A m \in Mensagens : tratadas[m] # 0 => m \in enviadas
    /\ NaFilaUmaVez /\ EmExecucaoUmaVez

(* The rows of a learner who does not use the portal, counted against the  *)
(* calls handled.                                                          *)
Joins(log) == {i \in DOMAIN log : log[i].evento = "join"}
Entrada(m, s, f) ==
    /\ Conteudo[m].sessao = s /\ Conteudo[m].formando = f
    /\ Conteudo[m].evento = "join" /\ Conteudo[m].emailCerto
EntradasTratadas(s, f) == {m \in enviadas : Entrada(m, s, f) /\ tratadas[m] # 0}

Contadas ==
    \A s \in Sessoes, f \in Formandos \ DoPortal :
        Cardinality(Joins(acessos[s][f])) <= Cardinality(EntradasTratadas(s, f))

SoDoPortal == \A p \in Pedidos : pedido[p].pc \in {"validado", "lido"} => pedido[p].formando \in DoPortal

RegistosInv ==
    /\ TypeOK /\ IsFiniteSet(enviadas) /\ SoDoPortal
    /\ transporte # "sqs" => UmaVez /\ Contadas

LEMMA UmaVezLibertar ==
    ASSUME TypeOK, UmaVez, NEW e \in Execucoes, Libertar(e), UNCHANGED <<enviadas, fila, tratadas>>
    PROVE  UmaVez'
<1>1. exec'[e].pc = "livre" /\ \A x \in Execucoes : x # e => exec'[x] = exec[x]
  BY DEF Libertar, Livre, TypeOK
<1>2. \A m \in Mensagens : Espera(m) => Espera(m)'
  BY DEF Espera
<1>3. \A x \in Execucoes, m \in Mensagens : Tem(x, m)' => Tem(x, m) /\ exec'[x] = exec[x]
  BY <1>1 DEF Tem
<1>4. EmExecucaoUmaVez'
  BY <1>2, <1>3 DEF UmaVez, EmExecucaoUmaVez
<1> QED BY <1>4 DEF UmaVez, NaFilaUmaVez

(* A call handled, and the execution free: nobody else had it.             *)
LEMMA UmaVezTratar ==
    ASSUME TypeOK, UmaVez, NEW e \in Execucoes, exec[e].pc # "livre", Libertar(e),
           Tratada(exec[e].msg), UNCHANGED <<enviadas, fila>>
    PROVE  UmaVez'
<1>1. PICK m \in Mensagens : m = exec[e].msg
  BY ExecTipo
<1>2. Tem(e, m) /\ Espera(m) /\ \A x \in Execucoes : Tem(x, m) => x = e
  BY <1>1 DEF Tem, UmaVez, EmExecucaoUmaVez
<1>3. m \in enviadas /\ tratadas[m] = 0 /\ \A k \in Plataformas : \A i \in DOMAIN fila[k] : fila[k][i] # m
  BY <1>2 DEF Espera
<1>4. tratadas'[m] = 1 /\ \A n \in Mensagens : n # m => tratadas'[n] = tratadas[n]
  BY <1>1, <1>3 DEF Tratada, TypeOK
<1>5. exec'[e].pc = "livre" /\ \A x \in Execucoes : x # e => exec'[x] = exec[x]
  BY DEF Libertar, Livre, TypeOK
<1>6. \A n \in Mensagens : tratadas'[n] # 0 => n \in enviadas
  BY <1>3, <1>4 DEF UmaVez
<1>7. NaFilaUmaVez'
  <2>1. \A k \in Plataformas : \A i \in DOMAIN fila[k] : fila[k][i] \in Mensagens /\ fila[k][i] # m
    BY <1>3 DEF TypeOK
  <2>2. \A k \in Plataformas : \A i \in DOMAIN fila[k] : tratadas'[fila[k][i]] = 0
    BY <1>4, <2>1 DEF UmaVez, NaFilaUmaVez
  <2> QED BY <2>2 DEF UmaVez, NaFilaUmaVez
<1>8. EmExecucaoUmaVez'
  <2>1. \A x \in Execucoes, n \in Mensagens : Tem(x, n)' => Tem(x, n) /\ exec'[x] = exec[x] /\ x # e
    BY <1>5 DEF Tem
  <2>2. \A x \in Execucoes, n \in Mensagens : Tem(x, n)' => n # m
    BY <1>2, <2>1
  <2>3. \A n \in Mensagens : Espera(n) /\ n # m => Espera(n)'
    BY <1>4 DEF Espera
  <2> QED BY <2>1, <2>2, <2>3 DEF UmaVez, EmExecucaoUmaVez
<1> QED BY <1>6, <1>7, <1>8 DEF UmaVez

(* A call taken by an idle execution from where nobody else is to find it. *)
LEMMA UmaVezOcupar ==
    ASSUME TypeOK, UmaVez, NEW e \in Execucoes, exec[e] = Livre, NEW m \in Mensagens, Ocupar(e, m),
           UNCHANGED tratadas, NaFilaUmaVez', Espera(m)', \A x \in Execucoes : ~Tem(x, m),
           \A n \in Mensagens : n \in enviadas => n \in enviadas',
           \A n \in Mensagens : Espera(n) /\ n # m => Espera(n)'
    PROVE  UmaVez'
<1>1. exec'[e] = [pc |-> "tratar", msg |-> m] /\ \A x \in Execucoes : x # e => exec'[x] = exec[x]
  BY DEF Ocupar, TypeOK
<1>2. exec'[e].pc = "tratar" /\ exec'[e].msg = m
  BY <1>1
<1>3. \A x \in Execucoes, n \in Mensagens : Tem(x, n)' =>
          (x = e /\ n = m) \/ (x # e /\ n # m /\ Tem(x, n) /\ exec'[x] = exec[x])
  BY <1>1, <1>2 DEF Tem
<1>4. EmExecucaoUmaVez'
  <2>1. \A x \in Execucoes, n \in Mensagens : Tem(x, n)' => \A y \in Execucoes : Tem(y, n)' => y = x
    BY <1>3 DEF UmaVez, EmExecucaoUmaVez
  <2>2. \A x \in Execucoes, n \in Mensagens : Tem(x, n)' =>
            /\ exec'[x].pc # "apagar" /\ Espera(n)'
            /\ exec'[x].pc = "gravar" => Conteudo[n].emailCerto
    BY <1>2, <1>3 DEF UmaVez, EmExecucaoUmaVez
  <2> QED BY <2>1, <2>2 DEF EmExecucaoUmaVez
<1>5. \A n \in Mensagens : tratadas'[n] # 0 => n \in enviadas'
  BY DEF UmaVez
<1> QED BY <1>4, <1>5 DEF UmaVez
(* A call posted: to the end of the list, or to an execution of its own.   *)
LEMMA UmaVezEnqueue ==
    ASSUME TypeOK, UmaVez, NEW m \in Mensagens, Enqueue(m), transporte # "sqs"
    PROVE  UmaVez'
<1>1. m \notin enviadas /\ enviadas' = enviadas \cup {m} /\ tratadas' = tratadas /\ tratadas[m] = 0
  BY DEF Enqueue, UmaVez
<1>2. /\ \A k \in Plataformas : \A i \in DOMAIN fila[k] : fila[k][i] # m
      /\ \A x \in Execucoes : ~Tem(x, m)
  BY <1>1 DEF UmaVez, NaFilaUmaVez, EmExecucaoUmaVez, Espera
<1>3. CASE transporte = "redis"
  <2>1. PICK k0 : k0 = PlataformaMsg(m)
    OBVIOUS
  <2>2. k0 \in Plataformas
    BY <2>1, FilaAssumption DEF PlataformaMsg
  <2>3. fila' = [fila EXCEPT ![k0] = Append(fila[k0], m)] /\ exec' = exec
    BY <1>3, <2>1 DEF Enqueue
  <2>4. fila[k0] \in Seq(Mensagens) /\ Len(fila[k0]) \in Nat
    BY <2>2 DEF TypeOK
  <2>5. /\ DOMAIN fila[k0] = 1 .. Len(fila[k0]) /\ DOMAIN fila'[k0] = 1 .. (Len(fila[k0]) + 1)
        /\ fila'[k0][Len(fila[k0]) + 1] = m /\ \A i \in 1 .. Len(fila[k0]) : fila'[k0][i] = fila[k0][i]
        /\ \A k \in Plataformas : k # k0 => fila'[k] = fila[k]
    BY <2>2, <2>3, <2>4 DEF TypeOK
  <2>6. \A i \in DOMAIN fila'[k0] : i \in DOMAIN fila[k0] \/ i = Len(fila[k0]) + 1
    BY <2>4, <2>5
  <2>7. \A k \in Plataformas : \A i \in DOMAIN fila'[k] :
            (i \in DOMAIN fila[k] /\ fila'[k][i] = fila[k][i])
              \/ (k = k0 /\ i = Len(fila[k0]) + 1 /\ fila'[k][i] = m)
    BY <2>5, <2>6
  <2>8. \A k \in Plataformas : \A i \in DOMAIN fila'[k] :
            /\ fila'[k][i] \in enviadas' /\ tratadas'[fila'[k][i]] = 0 /\ PlataformaMsg(fila'[k][i]) = k
    BY <1>1, <2>1, <2>7 DEF UmaVez, NaFilaUmaVez
  <2>9. \A k \in Plataformas : \A i, j \in DOMAIN fila'[k] : fila'[k][i] = fila'[k][j] => i = j
    BY <1>2, <2>7 DEF UmaVez, NaFilaUmaVez
  <2>10. NaFilaUmaVez'
    BY <2>8, <2>9 DEF NaFilaUmaVez, PlataformaMsg
  <2>11. \A n \in Mensagens : Espera(n) => Espera(n)'
    <3>1. ASSUME NEW n \in Mensagens, Espera(n) PROVE Espera(n)'
      <4>1. n # m /\ n \in enviadas' /\ tratadas'[n] = 0
        BY <1>1, <3>1 DEF Espera
      <4>2. \A k \in Plataformas : \A i \in DOMAIN fila'[k] : fila'[k][i] # n
        BY <2>7, <3>1, <4>1 DEF Espera
      <4> QED BY <4>1, <4>2 DEF Espera
    <3> QED BY <3>1
  <2>12. EmExecucaoUmaVez'
    BY <2>3, <2>11 DEF UmaVez, EmExecucaoUmaVez, Tem
  <2> QED BY <1>1, <2>10, <2>12 DEF UmaVez
<1>4. CASE transporte # "redis"
  <2>1. PICK e \in Execucoes : exec[e] = Livre /\ Ocupar(e, m) /\ UNCHANGED fila
    BY <1>4 DEF Enqueue
  <2>2. NaFilaUmaVez'
    BY <1>1, <2>1 DEF UmaVez, NaFilaUmaVez
  <2>3. Espera(m)' /\ \A n \in Mensagens : Espera(n) /\ n # m => Espera(n)'
    BY <1>1, <1>2, <2>1 DEF Espera
  <2> QED BY <1>1, <1>2, <2>1, <2>2, <2>3, UmaVezOcupar
<1> QED BY <1>3, <1>4

(* rpop: the item is in the list no longer.                                *)
LEMMA UmaVezRetirar ==
    ASSUME TypeOK, UmaVez, NEW e \in Execucoes, RedisRetirar(e)
    PROVE  UmaVez'
<1>1. PICK k0 : k0 = LoopDe[e]
  OBVIOUS
<1>2. PICK m : m = Head(fila[k0])
  OBVIOUS
<1>3. k0 \in Plataformas /\ fila[k0] # <<>> /\ exec[e] = Livre /\ Ocupar(e, m)
      /\ fila' = [fila EXCEPT ![k0] = Tail(fila[k0])] /\ UNCHANGED <<enviadas, tratadas>>
  BY <1>1, <1>2, FilaAssumption DEF RedisRetirar
<1>4. fila[k0] \in Seq(Mensagens) /\ Len(fila[k0]) \in Nat /\ Len(fila[k0]) > 0
  BY <1>3 DEF TypeOK
<1>5. /\ 1 \in DOMAIN fila[k0] /\ m = fila[k0][1] /\ m \in Mensagens
      /\ DOMAIN fila'[k0] = 1 .. (Len(fila[k0]) - 1)
      /\ \A i \in 1 .. (Len(fila[k0]) - 1) : i + 1 \in DOMAIN fila[k0] /\ fila'[k0][i] = fila[k0][i + 1]
      /\ \A k \in Plataformas : k # k0 => fila'[k] = fila[k]
  BY <1>2, <1>3, <1>4 DEF TypeOK
<1>6. m \in enviadas /\ tratadas[m] = 0 /\ PlataformaMsg(m) = k0
      /\ \A j \in DOMAIN fila[k0] : fila[k0][j] = m => j = 1
  BY <1>3, <1>5 DEF UmaVez, NaFilaUmaVez
<1>7. \A k \in Plataformas : \A i \in DOMAIN fila'[k] :
          \E j \in DOMAIN fila[k] : fila'[k][i] = fila[k][j] /\ (k = k0 => j = i + 1) /\ (k # k0 => j = i)
  BY <1>5
<1>8. NaFilaUmaVez'
  <2>1. \A k \in Plataformas : \A i \in DOMAIN fila'[k] :
            /\ fila'[k][i] \in enviadas' /\ tratadas'[fila'[k][i]] = 0 /\ PlataformaMsg(fila'[k][i]) = k
    BY <1>3, <1>7 DEF UmaVez, NaFilaUmaVez
  <2>2. ASSUME NEW k \in Plataformas, NEW i \in DOMAIN fila'[k], NEW j \in DOMAIN fila'[k],
               fila'[k][i] = fila'[k][j]
        PROVE  i = j
    <3>1. CASE k = k0
      <4>1. i \in 1 .. (Len(fila[k0]) - 1) /\ j \in 1 .. (Len(fila[k0]) - 1)
        BY <1>5, <3>1
      <4>2. fila[k0][i + 1] = fila[k0][j + 1] /\ i + 1 \in DOMAIN fila[k0] /\ j + 1 \in DOMAIN fila[k0]
        BY <1>5, <2>2, <3>1, <4>1
      <4>3. i + 1 = j + 1
        BY <1>3, <4>2 DEF UmaVez, NaFilaUmaVez
      <4> QED BY <1>4, <4>1, <4>3
    <3>2. CASE k # k0
      BY <1>5, <2>2, <3>2 DEF UmaVez, NaFilaUmaVez
    <3> QED BY <3>1, <3>2
  <2> QED BY <2>1, <2>2 DEF NaFilaUmaVez, PlataformaMsg
<1>9. \A k \in Plataformas : \A i \in DOMAIN fila'[k] : fila'[k][i] # m
  <2>1. ASSUME NEW i \in DOMAIN fila'[k0] PROVE fila'[k0][i] # m
    <3>1. i \in 1 .. (Len(fila[k0]) - 1) /\ i + 1 # 1
      BY <1>4, <1>5
    <3> QED BY <1>5, <1>6, <3>1
  <2>2. \A k \in Plataformas : \A i \in DOMAIN fila'[k] : PlataformaMsg(fila'[k][i]) = k
    BY <1>7 DEF UmaVez, NaFilaUmaVez
  <2> QED BY <1>6, <2>1, <2>2
<1>10. Espera(m)'
  BY <1>3, <1>6, <1>9 DEF Espera
<1>11. \A n \in Mensagens : Espera(n) => Espera(n)'
  BY <1>3, <1>7 DEF Espera
<1>12. \A x \in Execucoes : ~Tem(x, m)
  BY <1>3, <1>5 DEF UmaVez, EmExecucaoUmaVez, Espera
<1> QED BY <1>3, <1>5, <1>8, <1>10, <1>11, <1>12, UmaVezOcupar

(* The handler has read the log; it keeps its call.                        *)
LEMMA UmaVezLer ==
    ASSUME TypeOK, UmaVez, NEW e \in Execucoes, WebhookLer(e)
    PROVE  UmaVez'
<1> DEFINE c == Conteudo[exec[e].msg]
<1>1. PICK n : exec' = [exec EXCEPT ![e] = n] /\ n.pc = "gravar" /\ n.msg = exec[e].msg
  <2>1. PICK d : d = IF c.evento = "join" THEN Nulo
                     ELSE SegundosDesdeUltimoJoin(acessos[c.sessao][c.formando], relogio)
    OBVIOUS
  <2>2. PICK n : n = [pc |-> "gravar", msg |-> exec[e].msg, duracao |-> d]
    OBVIOUS
  <2>3. exec' = [exec EXCEPT ![e] = n]
    BY <2>1, <2>2 DEF WebhookLer
  <2>4. n.pc = "gravar" /\ n.msg = exec[e].msg
    BY <2>2
  <2> QED BY <2>3, <2>4
<1>2. exec[e].pc = "tratar" /\ Conteudo[exec[e].msg].emailCerto /\ UNCHANGED <<enviadas, fila, tratadas>>
  BY DEF WebhookLer
<1>3. exec'[e] = n /\ \A x \in Execucoes : x # e => exec'[x] = exec[x]
  BY <1>1 DEF TypeOK
<1>4. \A x \in Execucoes, m \in Mensagens : Tem(x, m)' <=> Tem(x, m)
  BY <1>1, <1>2, <1>3 DEF Tem
<1>5. \A m \in Mensagens : Espera(m) => Espera(m)'
  BY <1>2 DEF Espera
<1>6. \A x \in Execucoes, m \in Mensagens : Tem(x, m)' =>
          /\ exec'[x].pc # "apagar"
          /\ exec'[x].pc = "gravar" => Conteudo[m].emailCerto
  BY <1>1, <1>2, <1>3, <1>4 DEF Tem, UmaVez, EmExecucaoUmaVez
<1>7. EmExecucaoUmaVez'
  BY <1>4, <1>5, <1>6 DEF UmaVez, EmExecucaoUmaVez
<1> QED BY <1>2, <1>7 DEF UmaVez, NaFilaUmaVez
LEMMA UmaVezPasso ==
    ASSUME TypeOK, UmaVez, Fila \/ Webhook, transporte # "sqs"
    PROVE  UmaVez'
<1>1. ASSUME NEW e \in Execucoes, exec[e].pc # "livre", Devolver(e), Tratada(exec[e].msg),
             UNCHANGED <<enviadas, fila>>
      PROVE  UmaVez'
  <2>1. Libertar(e)
    BY <1>1 DEF Devolver
  <2> QED BY <1>1, <2>1, UmaVezTratar
<1>2. ASSUME NEW e \in Execucoes, Libertar(e) \/ Devolver(e), UNCHANGED <<enviadas, fila, tratadas>>
      PROVE  UmaVez'
  <2>1. Libertar(e)
    BY <1>2 DEF Devolver
  <2> QED BY <1>2, <2>1, UmaVezLibertar
<1>3. ASSUME NEW e \in Execucoes, EmailIncorreto(e) \/ WebhookGravar(e) PROVE UmaVez'
  BY <1>1, <1>3 DEF EmailIncorreto, WebhookGravar
<1>4. ASSUME NEW e \in Execucoes, TokenRecusado(e) \/ SessaoNaoEncontrada(e) PROVE UmaVez'
  BY <1>2, <1>4 DEF TokenRecusado, SessaoNaoEncontrada
<1>5. ASSUME NEW e \in Execucoes, Falhar(e) \/ SqsApagar(e) PROVE UmaVez'
  BY <1>2, <1>5 DEF Falhar, SqsApagar
<1>6. ASSUME NEW m \in Mensagens, Expirar(m) PROVE UmaVez'
  BY <1>6 DEF Expirar, UmaVez, NaFilaUmaVez, EmExecucaoUmaVez, Espera, Tem
<1>7. \A e \in Execucoes, m \in Mensagens : ~SqsReceber(e, m)
  BY DEF SqsReceber
<1>8. CASE Fila
  BY <1>5, <1>6, <1>7, <1>8, UmaVezEnqueue, UmaVezRetirar DEF Fila
<1>9. CASE Webhook
  BY <1>3, <1>4, <1>9, UmaVezLer DEF Webhook
<1> QED BY <1>8, <1>9

LEMMA JoinsFinitos ==
    ASSUME NEW log \in Seq(AcessoRow)
    PROVE  IsFiniteSet(Joins(log)) /\ Cardinality(Joins(log)) \in Nat
<1>1. Joins(log) \subseteq 1 .. Len(log) /\ IsFiniteSet(1 .. Len(log))
  BY FS_Interval DEF Joins
<1> QED BY <1>1, FS_Subset, FS_CardinalityType

(* An entrance is one more row, any other row is none.                     *)
LEMMA JoinsAcrescentados ==
    ASSUME NEW log \in Seq(AcessoRow), NEW r \in AcessoRow
    PROVE  /\ r.evento = "join" => Cardinality(Joins(Append(log, r))) = Cardinality(Joins(log)) + 1
           /\ r.evento # "join" => Joins(Append(log, r)) = Joins(log)
<1>1. PICK novo : novo = Append(log, r)
  OBVIOUS
<1>2. PICK n : n = Len(log)
  OBVIOUS
<1>3. /\ n \in Nat /\ DOMAIN log = 1 .. n /\ DOMAIN novo = 1 .. (n + 1) /\ novo[n + 1] = r
      /\ \A i \in 1 .. n : novo[i] = log[i]
  BY <1>1, <1>2
<1>4. Joins(log) \subseteq 1 .. n
  BY <1>3 DEF Joins
<1>5. IsFiniteSet(Joins(log))
  BY JoinsFinitos
<1>6. \A i \in 1 .. (n + 1) : i \in 1 .. n \/ i = n + 1
  BY <1>3
<1>7. ASSUME r.evento = "join"
      PROVE  Cardinality(Joins(novo)) = Cardinality(Joins(log)) + 1
  <2>1. Joins(novo) = Joins(log) \cup {n + 1}
    BY <1>3, <1>6, <1>7 DEF Joins
  <2>2. n + 1 \notin Joins(log)
    BY <1>3, <1>4
  <2> QED BY <1>5, <2>1, <2>2, FS_AddElement
<1>8. ASSUME r.evento # "join" PROVE Joins(novo) = Joins(log)
  BY <1>3, <1>6, <1>8 DEF Joins
<1> QED BY <1>1, <1>7, <1>8

(* The calls that count are finitely many, and no fewer after a step.      *)
LEMMA EntradasFinitas ==
    ASSUME IsFiniteSet(enviadas), NEW s, NEW f
    PROVE  IsFiniteSet(EntradasTratadas(s, f)) /\ Cardinality(EntradasTratadas(s, f)) \in Nat
<1>1. EntradasTratadas(s, f) \subseteq enviadas
  BY DEF EntradasTratadas
<1>2. IsFiniteSet(EntradasTratadas(s, f))
  BY <1>1, FS_Subset
<1> QED BY <1>2, FS_CardinalityType

(* A step whose rows are no entrances of such a learner.                   *)
LEMMA ContadasLonge ==
    ASSUME TypeOK, Contadas, IsFiniteSet(enviadas)', IsFiniteSet(enviadas),
           \A m \in enviadas : m \in enviadas' /\ (tratadas[m] # 0 => tratadas'[m] # 0),
           \A s \in Sessoes, f \in Formandos \ DoPortal : Joins(acessos'[s][f]) = Joins(acessos[s][f])
    PROVE  Contadas'
<1>1. ASSUME NEW s \in Sessoes, NEW f \in Formandos \ DoPortal
      PROVE  Cardinality(Joins(acessos'[s][f])) <= Cardinality(EntradasTratadas(s, f)')
  <2>1. PICK A : A = EntradasTratadas(s, f)
    OBVIOUS
  <2>2. PICK B : B = EntradasTratadas(s, f)'
    OBVIOUS
  <2>3. A \subseteq B
    BY <2>1, <2>2 DEF EntradasTratadas, Entrada
  <2>4. IsFiniteSet(A) /\ Cardinality(A) \in Nat
    BY <2>1, EntradasFinitas
  <2>5. IsFiniteSet(B)
    <3>1. B \subseteq enviadas'
      BY <2>2 DEF EntradasTratadas
    <3> QED BY <3>1, FS_Subset
  <2>6. Cardinality(A) <= Cardinality(B) /\ Cardinality(B) \in Nat
    BY <2>3, <2>5, FS_Subset, FS_CardinalityType
  <2>7. Cardinality(Joins(acessos[s][f])) <= Cardinality(A)
    BY <2>1 DEF Contadas
  <2>8. Cardinality(Joins(acessos[s][f])) \in Nat
    BY LogTipo, JoinsFinitos
  <2> QED BY <2>2, <2>4, <2>6, <2>7, <2>8
<1> QED BY <1>1 DEF Contadas
(* An entrance a handler records: one more row, and one more call handled. *)
LEMMA ContadasEntrada ==
    ASSUME TypeOK, UmaVez, Contadas, IsFiniteSet(enviadas), NEW e \in Execucoes, NEW c,
           c = Conteudo[exec[e].msg], exec[e].pc = "gravar", c.evento = "join", NEW d \in Nat \cup {Nulo},
           Acrescentar(c.sessao, c.formando, "join", d), Tratada(exec[e].msg), UNCHANGED enviadas
    PROVE  Contadas'
<1>1. PICK m \in Mensagens : m = exec[e].msg
  BY ExecTipo
<1>2. c.sessao \in Sessoes /\ c.formando \in Formandos
  BY ExecTipo
<1>3. m \in enviadas /\ tratadas[m] = 0 /\ c.emailCerto
  BY <1>1 DEF UmaVez, EmExecucaoUmaVez, Espera, Tem
<1>4. tratadas'[m] = 1 /\ \A n \in Mensagens : n # m => tratadas'[n] = tratadas[n]
  BY <1>1, <1>3 DEF Tratada, TypeOK
<1>5. enviadas \subseteq Mensagens
  BY DEF TypeOK
<1>6. ASSUME NEW s \in Sessoes, NEW f \in Formandos \ DoPortal
      PROVE  Cardinality(Joins(acessos'[s][f])) <= Cardinality(EntradasTratadas(s, f)')
  <2>1. PICK A : A = EntradasTratadas(s, f)
    OBVIOUS
  <2>2. PICK B : B = EntradasTratadas(s, f)'
    OBVIOUS
  <2>3. Cardinality(Joins(acessos[s][f])) <= Cardinality(A)
    BY <2>1 DEF Contadas
  <2>4. IsFiniteSet(A) /\ Cardinality(A) \in Nat /\ Cardinality(Joins(acessos[s][f])) \in Nat
    BY <2>1, EntradasFinitas, LogTipo, JoinsFinitos
  <2>5. CASE c.sessao = s /\ c.formando = f
    <3>1. Cardinality(Joins(acessos'[s][f])) = Cardinality(Joins(acessos[s][f])) + 1
      <4>1. PICK log : log = acessos[s][f]
        OBVIOUS
      <4>2. PICK r : r = Registo("join", d)
        OBVIOUS
      <4>3. log \in Seq(AcessoRow) /\ r \in AcessoRow /\ r.evento = "join"
        BY <4>1, <4>2 DEF TypeOK, Registo, AcessoRow, Eventos
      <4>4. acessos'[s][f] = Append(log, r)
        BY <1>2, <2>5, <4>1, <4>2, Acrescentado
      <4> QED BY <4>1, <4>3, <4>4, JoinsAcrescentados
    <3>2. m \notin A /\ B = A \cup {m}
      <4>1. m \notin A
        BY <1>3, <2>1 DEF EntradasTratadas
      <4>2. m \in B
        BY <1>1, <1>3, <1>4, <2>2, <2>5 DEF EntradasTratadas, Entrada
      <4>3. \A n \in enviadas : n # m => (n \in B <=> n \in A)
        BY <1>4, <1>5, <2>1, <2>2 DEF EntradasTratadas, Entrada
      <4>4. A \subseteq enviadas /\ B \subseteq enviadas
        BY <2>1, <2>2 DEF EntradasTratadas
      <4> QED BY <4>1, <4>2, <4>3, <4>4
    <3>3. Cardinality(B) = Cardinality(A) + 1
      BY <2>4, <3>2, FS_AddElement
    <3> QED BY <2>2, <2>3, <2>4, <3>1, <3>3
  <2>6. CASE ~(c.sessao = s /\ c.formando = f)
    <3>1. acessos'[s][f] = acessos[s][f]
      BY <1>2, <2>6, Acrescentado
    <3>2. B = A
      BY <1>1, <1>3, <1>4, <1>5, <2>1, <2>2, <2>6 DEF EntradasTratadas, Entrada
    <3> QED BY <2>1, <2>2, <2>3, <3>1, <3>2
  <2> QED BY <2>5, <2>6
<1> QED BY <1>6 DEF Contadas

(* Any other row.                                                          *)
LEMMA JoinsDeOutros ==
    ASSUME TypeOK, NEW s \in Sessoes, NEW f \in Formandos, NEW ev \in Eventos,
           NEW d \in Nat \cup {Nulo}, Acrescentar(s, f, ev, d), ev # "join" \/ f \in DoPortal
    PROVE  \A t \in Sessoes, g \in Formandos \ DoPortal : Joins(acessos'[t][g]) = Joins(acessos[t][g])
<1>1. ASSUME NEW t \in Sessoes, NEW g \in Formandos \ DoPortal
      PROVE  Joins(acessos'[t][g]) = Joins(acessos[t][g])
  <2>1. CASE t # s \/ g # f
    BY <2>1, Acrescentado
  <2>2. CASE t = s /\ g = f
    <3>1. PICK log : log = acessos[s][f]
      OBVIOUS
    <3>2. PICK r : r = Registo(ev, d)
      OBVIOUS
    <3>3. log \in Seq(AcessoRow) /\ r \in AcessoRow /\ r.evento # "join"
      BY <2>2, <3>1, <3>2 DEF TypeOK, Registo, AcessoRow
    <3>4. acessos'[s][f] = Append(log, r)
      BY <3>1, <3>2, Acrescentado
    <3> QED BY <2>2, <3>1, <3>3, <3>4, JoinsAcrescentados
  <2> QED BY <2>1, <2>2
<1> QED BY <1>1
LEMMA RegistosFila ==
    ASSUME RegistosInv, Fila
    PROVE  RegistosInv'
<1>1. PICK E : E = enviadas
  OBVIOUS
<1>2. /\ UNCHANGED <<transporte, pedido, tratadas, acessos>>
      /\ enviadas' = E \/ \E m \in Mensagens : enviadas' = E \cup {m}
  BY <1>1 DEF Fila, Enqueue, Expirar, RedisRetirar, SqsApagar, Falhar, SqsReceber, ambiente, varsSessao
<1>3. TypeOK'
  BY FilaTipo DEF RegistosInv
<1>4. IsFiniteSet(enviadas') /\ \A m \in enviadas : m \in enviadas'
  <2>1. IsFiniteSet(E)
    BY <1>1 DEF RegistosInv
  <2> QED BY <1>1, <1>2, <2>1, FS_AddElement
<1>5. SoDoPortal'
  BY <1>2 DEF RegistosInv, SoDoPortal
<1>6. ASSUME transporte # "sqs" PROVE UmaVez' /\ Contadas'
  <2>1. UmaVez'
    BY <1>6, UmaVezPasso DEF RegistosInv
  <2>2. Contadas'
    BY <1>2, <1>4, <1>6, ContadasLonge DEF RegistosInv
  <2> QED BY <2>1, <2>2
<1> QED BY <1>2, <1>3, <1>4, <1>5, <1>6 DEF RegistosInv

LEMMA RegistosWebhook ==
    ASSUME RegistosInv, TypeOK', Webhook
    PROVE  RegistosInv'
<1>1. UNCHANGED <<transporte, pedido, enviadas>>
  BY DEF Webhook, TokenRecusado, SessaoNaoEncontrada, EmailIncorreto, WebhookLer, WebhookGravar,
         ambiente, varsSessao
<1>2. SoDoPortal' /\ IsFiniteSet(enviadas)'
  BY <1>1 DEF RegistosInv, SoDoPortal
<1>3. ASSUME transporte # "sqs" PROVE Contadas'
  <2>1. TypeOK /\ UmaVez /\ Contadas /\ IsFiniteSet(enviadas)
    BY <1>3 DEF RegistosInv
  <2>2. ASSUME NEW e \in Execucoes, exec[e].pc \in {"tratar", "gravar"}, Tratada(exec[e].msg)
        PROVE  \A m \in enviadas : m \in enviadas' /\ (tratadas[m] # 0 => tratadas'[m] # 0)
    <3>1. \A m \in Mensagens : tratadas[m] \in Nat /\ tratadas'[m] \in {tratadas[m], tratadas[m] + 1}
      BY <2>1, <2>2 DEF Tratada, TypeOK
    <3> QED BY <1>1, <2>1, <3>1 DEF TypeOK
  <2>3. ASSUME NEW e \in Execucoes, TokenRecusado(e) \/ SessaoNaoEncontrada(e) \/ WebhookLer(e)
        PROVE  Contadas'
    <3>1. UNCHANGED <<tratadas, acessos>>
      BY <2>3 DEF TokenRecusado, SessaoNaoEncontrada, WebhookLer
    <3> QED BY <1>1, <1>2, <2>1, <3>1, ContadasLonge
  <2>4. ASSUME NEW e \in Execucoes, EmailIncorreto(e) PROVE Contadas'
    <3>1. PICK c : c = Conteudo[exec[e].msg]
      OBVIOUS
    <3>2. exec[e].pc = "tratar" /\ Tratada(exec[e].msg) /\ Acrescentar(c.sessao, c.formando, "alert", Nulo)
      BY <2>4, <3>1 DEF EmailIncorreto
    <3>3. c.sessao \in Sessoes /\ c.formando \in Formandos
      BY <2>1, <3>1, <3>2, ExecTipo
    <3>4. "alert" \in Eventos /\ Nulo \in Nat \cup {Nulo}
      BY DEF Eventos
    <3>5. \A t \in Sessoes, g \in Formandos \ DoPortal : Joins(acessos'[t][g]) = Joins(acessos[t][g])
      BY <2>1, <3>2, <3>3, <3>4, JoinsDeOutros
    <3> QED BY <1>2, <2>1, <2>2, <3>2, <3>5, ContadasLonge
  <2>5. ASSUME NEW e \in Execucoes, WebhookGravar(e) PROVE Contadas'
    <3>1. PICK c : c = Conteudo[exec[e].msg]
      OBVIOUS
    <3>2. PICK d : d = exec[e].duracao
      OBVIOUS
    <3>3. exec[e].pc = "gravar" /\ Tratada(exec[e].msg) /\ Acrescentar(c.sessao, c.formando, c.evento, d)
      BY <2>5, <3>1, <3>2 DEF WebhookGravar
    <3>4. /\ c.sessao \in Sessoes /\ c.formando \in Formandos /\ c.evento \in Eventos
          /\ d \in Nat \cup {Nulo}
      BY <2>1, <3>1, <3>2, <3>3, ExecTipo
    <3>5. CASE c.evento = "join"
      BY <1>1, <2>1, <3>1, <3>3, <3>4, <3>5, ContadasEntrada
    <3>6. CASE c.evento # "join"
      <4>1. \A t \in Sessoes, g \in Formandos \ DoPortal : Joins(acessos'[t][g]) = Joins(acessos[t][g])
        BY <2>1, <3>3, <3>4, <3>6, JoinsDeOutros
      <4> QED BY <1>2, <2>1, <2>2, <3>3, <4>1, ContadasLonge
    <3> QED BY <3>5, <3>6
  <2> QED BY <2>3, <2>4, <2>5 DEF Webhook
<1>4. ASSUME transporte # "sqs" PROVE UmaVez'
  BY <1>4, UmaVezPasso DEF RegistosInv
<1> QED BY <1>1, <1>2, <1>3, <1>4 DEF RegistosInv
(* A step of the portal: it handles no call, and what it writes is an exit *)
(* or a row of a learner of the portal.                                    *)
LEMMA RegistosDoPortal ==
    ASSUME RegistosInv, TypeOK', UNCHANGED <<ambiente, varsFila>>, SoDoPortal',
           \A t \in Sessoes, g \in Formandos \ DoPortal : Joins(acessos'[t][g]) = Joins(acessos[t][g])
    PROVE  RegistosInv'
<1>1. UNCHANGED <<transporte, enviadas, fila, tratadas, exec>>
  BY DEF ambiente, varsFila
<1>2. IsFiniteSet(enviadas)' /\ \A m \in enviadas : m \in enviadas' /\ (tratadas[m] # 0 => tratadas'[m] # 0)
  BY <1>1 DEF RegistosInv
<1>3. UmaVez => UmaVez'
  BY <1>1 DEF UmaVez, NaFilaUmaVez, EmExecucaoUmaVez, Espera, Tem
<1>4. TypeOK /\ Contadas => Contadas'
  BY <1>2, ContadasLonge DEF RegistosInv
<1> QED BY <1>1, <1>2, <1>3, <1>4 DEF RegistosInv

LEMMA RegistosPortal ==
    ASSUME RegistosInv, TypeOK', Portal
    PROVE  RegistosInv'
<1> USE DEF UnchangedPortal
<1>1. TypeOK /\ SoDoPortal
  BY DEF RegistosInv
<1>2. ASSUME NEW p \in Pedidos, NEW n, PedidoPasso(p, n),
             n.pc \in {"validado", "lido"} => n.formando \in DoPortal
      PROVE  SoDoPortal'
  <2>1. pedido'[p] = n /\ \A x \in Pedidos : x # p => pedido'[x] = pedido[x]
    BY <1>1, <1>2 DEF PedidoPasso, TypeOK
  <2> QED BY <1>1, <1>2, <2>1 DEF SoDoPortal
<1>3. ASSUME NEW p \in Pedidos, PedidoPasso(p, SemPedido) PROVE SoDoPortal'
  <2>1. SemPedido.pc = "livre"
    BY DEF SemPedido
  <2> QED BY <1>2, <1>3, <2>1
<1>4. ASSUME NEW p \in Pedidos, NEW s \in Sessoes, NEW f \in DoPortal, NEW ev, NEW d,
             PortalValidar(p, s, f, ev, d)
      PROVE  RegistosInv'
  <2>1. PICK n : n = [pc |-> "validado", sessao |-> s, formando |-> f, evento |-> ev, duracao |-> d]
    OBVIOUS
  <2>2. PedidoPasso(p, n) /\ n.formando \in DoPortal
    BY <1>4, <2>1 DEF PortalValidar
  <2>3. SoDoPortal'
    BY <1>2, <2>2
  <2> QED BY <1>4, <2>3, RegistosDoPortal DEF PortalValidar
<1>5. ASSUME NEW p \in Pedidos, PortalLer(p) PROVE RegistosInv'
  <2>1. PICK d : d = IF pedido[p].evento = "leave" /\ pedido[p].duracao = Nulo
                     THEN SegundosDesdeUltimoJoin(acessos[pedido[p].sessao][pedido[p].formando], relogio)
                     ELSE pedido[p].duracao
    OBVIOUS
  <2>2. PICK n : n = [pedido[p] EXCEPT !.pc = "lido", !.duracao = d]
    OBVIOUS
  <2>3. pedido[p].pc = "validado" /\ (PedidoPasso(p, n) \/ PedidoPasso(p, SemPedido))
    BY <1>5, <2>1, <2>2 DEF PortalLer
  <2>4. n.formando \in DoPortal
    <3>1. pedido[p].formando \in DoPortal
      BY <1>1, <2>3 DEF SoDoPortal
    <3>2. pedido[p] \in [pc: {"validado", "lido"}, sessao: Sessoes, formando: Formandos,
                         evento: {"join", "leave"}, duracao: Nat \cup {Nulo}]
      BY <1>1, <2>3, PedidoTipo
    <3> QED BY <2>2, <3>1, <3>2
  <2>5. SoDoPortal'
    BY <1>2, <1>3, <2>3, <2>4
  <2> QED BY <1>5, <2>5, RegistosDoPortal DEF PortalLer
<1>6. ASSUME NEW p \in Pedidos, PortalGravar(p) PROVE RegistosInv'
  <2>1. PICK r : r = pedido[p]
    OBVIOUS
  <2>2. r.pc = "lido" /\ Acrescentar(r.sessao, r.formando, r.evento, r.duracao)
    BY <1>6, <2>1 DEF PortalGravar
  <2>3. /\ r.sessao \in Sessoes /\ r.formando \in Formandos /\ r.evento \in Eventos
        /\ r.duracao \in Nat \cup {Nulo} /\ r.formando \in DoPortal
    BY <1>1, <2>1, <2>2, PedidoTipo DEF SoDoPortal
  <2>4. \A t \in Sessoes, g \in Formandos \ DoPortal : Joins(acessos'[t][g]) = Joins(acessos[t][g])
    BY <1>1, <2>2, <2>3, JoinsDeOutros
  <2>5. SoDoPortal'
    BY <1>3, <1>6 DEF PortalGravar
  <2> QED BY <1>6, <2>4, <2>5, RegistosDoPortal DEF PortalGravar
<1>7. ASSUME NEW p \in Pedidos, NEW f \in Formandos, FecharPresenca(p, f) PROVE RegistosInv'
  <2>1. PICK r : r = pedido[p]
    OBVIOUS
  <2>2. r.pc = "fechar" /\ Acrescentar(r.sessao, f, "leave", r.porFechar[f])
    BY <1>7, <2>1 DEF FecharPresenca
  <2>3. r.sessao \in Sessoes /\ r.porFechar[f] \in Nat \cup {Nulo} /\ "leave" \in Eventos /\ "leave" # "join"
    BY <1>1, <2>1, <2>2, PedidoTipo DEF Eventos
  <2>4. \A t \in Sessoes, g \in Formandos \ DoPortal : Joins(acessos'[t][g]) = Joins(acessos[t][g])
    BY <1>1, <2>2, <2>3, JoinsDeOutros
  <2>5. PICK n : n = [r EXCEPT !.porFechar = [r.porFechar EXCEPT ![f] = Nulo]]
    OBVIOUS
  <2>6. PedidoPasso(p, n)
    BY <1>7, <2>1, <2>5 DEF FecharPresenca
  <2>7. n.pc = "fechar"
    <3>1. r \in [pc: {"fechar"}, sessao: Sessoes, porFechar: [Formandos -> Nat \cup {Nulo}]]
      BY <1>1, <2>1, <2>2, PedidoTipo
    <3> QED BY <2>5, <3>1
  <2>8. SoDoPortal'
    BY <1>2, <2>6, <2>7
  <2> QED BY <1>7, <2>4, <2>8, RegistosDoPortal DEF FecharPresenca
<1>8. ASSUME NEW p \in Pedidos, TerminarGravar(p) \/ FalharPedido(p) PROVE RegistosInv'
  <2>1. SoDoPortal'
    BY <1>3, <1>8 DEF TerminarGravar, FalharPedido
  <2> QED BY <1>8, <2>1, RegistosDoPortal DEF TerminarGravar, FalharPedido
<1>9. ASSUME NEW p \in Pedidos, FecharLer(p) PROVE RegistosInv'
  <2>1. PICK s : s = pedido[p].sessao
    OBVIOUS
  <2>2. PICK g : g = [f \in Formandos |-> SegundosDesdeUltimoJoin(acessos[s][f], relogio)]
    OBVIOUS
  <2>3. PICK n : n = [pc |-> "fechar", sessao |-> s, porFechar |-> g]
    OBVIOUS
  <2>4. PedidoPasso(p, n)
    BY <1>9, <2>1, <2>2, <2>3 DEF FecharLer
  <2>5. n.pc = "fechar"
    BY <2>3
  <2>6. SoDoPortal'
    BY <1>2, <2>4, <2>5
  <2> QED BY <1>9, <2>6, RegistosDoPortal DEF FecharLer
<1>10. ASSUME NEW p \in Pedidos, NEW s \in Sessoes, Iniciar(p, s) \/ TerminarLer(p, s)
       PROVE  RegistosInv'
  <2>1. SoDoPortal'
    <3>1. PICK n : n = [pc |-> "acessos", sessao |-> s]
      OBVIOUS
    <3>2. n.pc = "acessos"
      BY <3>1
    <3>3. pedido' = pedido \/ PedidoPasso(p, n)
      BY <1>10, <3>1 DEF Iniciar, TerminarLer
    <3> QED BY <1>1, <1>2, <3>2, <3>3 DEF SoDoPortal
  <2> QED BY <1>10, <2>1, RegistosDoPortal DEF Iniciar, TerminarLer
<1> QED BY <1>4, <1>5, <1>6, <1>7, <1>8, <1>9, <1>10 DEF Portal

(* With Redis or no transport the log of a learner who attends by the      *)
(* meeting only has no more entrances than calls said so, whatever fails,  *)
(* and however many drainOne calls overlap.                                *)
THEOREM RegistosCorrectos == Spec => []SemRegistosRepetidos
<1>1. Init => RegistosInv
  <2> SUFFICES ASSUME Init PROVE RegistosInv
    OBVIOUS
  <2>1. TypeOK
    BY InitTipo
  <2>2. IsFiniteSet(enviadas) /\ SoDoPortal
    BY FS_EmptySet DEF Init, SoDoPortal, SemPedido
  <2>3. UmaVez
    BY DEF Init, UmaVez, NaFilaUmaVez, EmExecucaoUmaVez, Tem, Livre
  <2>4. Contadas
    <3>1. ASSUME NEW s \in Sessoes, NEW f \in Formandos \ DoPortal
          PROVE  Cardinality(Joins(acessos[s][f])) <= Cardinality(EntradasTratadas(s, f))
      <4>1. Joins(acessos[s][f]) = {}
        <5>1. acessos[s][f] = <<>>
          BY DEF Init
        <5> QED BY <5>1 DEF Joins
      <4>2. Cardinality(Joins(acessos[s][f])) = 0
        BY <4>1, FS_EmptySet
      <4>3. Cardinality(EntradasTratadas(s, f)) \in Nat
        BY <2>2, EntradasFinitas
      <4> QED BY <4>2, <4>3
    <3> QED BY <3>1 DEF Contadas
  <2> QED BY <2>1, <2>2, <2>3, <2>4 DEF RegistosInv
<1>2. RegistosInv /\ [Next]_vars => RegistosInv'
  <2> SUFFICES ASSUME RegistosInv, [Next]_vars PROVE RegistosInv'
    OBVIOUS
  <2>1. TypeOK'
    BY PassoTipo DEF RegistosInv
  <2>2. CASE Tick \/ UNCHANGED vars
    <3>1. UNCHANGED <<ambiente, varsFila, acessos, pedido>>
      BY <2>2 DEF Tick, vars, varsSessao
    <3>2. SoDoPortal'
      BY <3>1 DEF RegistosInv, SoDoPortal
    <3> QED BY <2>1, <3>1, <3>2, RegistosDoPortal
  <2> QED BY <2>1, <2>2, RegistosFila, RegistosWebhook, RegistosPortal DEF Next
<1>3. RegistosInv => SemRegistosRepetidos
  <2> SUFFICES ASSUME RegistosInv, transporte # "sqs", NEW s \in Sessoes, NEW f \in Formandos \ DoPortal
               PROVE  Cardinality({i \in DOMAIN acessos[s][f] : acessos[s][f][i].evento = "join"})
                        <= Cardinality({m \in enviadas : /\ Conteudo[m].sessao = s /\ Conteudo[m].formando = f
                                                         /\ Conteudo[m].evento = "join" /\ Conteudo[m].emailCerto})
    BY DEF SemRegistosRepetidos
  <2>1. PICK A : A = EntradasTratadas(s, f)
    OBVIOUS
  <2>2. PICK B : B = {m \in enviadas : Entrada(m, s, f)}
    OBVIOUS
  <2>3. A \subseteq B /\ B \subseteq enviadas
    BY <2>1, <2>2 DEF EntradasTratadas
  <2>4. IsFiniteSet(B)
    BY <2>3, FS_Subset DEF RegistosInv
  <2>5. Cardinality(A) <= Cardinality(B) /\ Cardinality(A) \in Nat /\ Cardinality(B) \in Nat
    BY <2>3, <2>4, FS_Subset, FS_CardinalityType
  <2>6. Cardinality(Joins(acessos[s][f])) <= Cardinality(A) /\ Cardinality(Joins(acessos[s][f])) \in Nat
    BY <2>1, LogTipo, JoinsFinitos DEF RegistosInv, Contadas
  <2>7. Cardinality(Joins(acessos[s][f])) <= Cardinality(B)
    BY <2>5, <2>6
  <2> QED BY <2>2, <2>7 DEF Joins, Entrada
<1> QED BY <1>1, <1>2, <1>3, PTL DEF Spec
=============================================================================
