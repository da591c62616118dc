----------------------------- MODULE Assiduidade -----------------------------
(***************************************************************************)
(* Attendance log of online sessions: the webhooks of the meeting          *)
(* platforms, the queue they go through (apps/api/src/queue), the          *)
(* handlers that turn them into AcessoLms rows                             *)
(* (assiduidade.service.ts), the entrances and exits learners register in  *)
(* the portal (lms.service.ts) and the manager or trainer who starts and   *)
(* ends the session (sessoes-formacao.service.ts).                         *)
(*                                                                         *)
(* Every await is an interleaving point: a handler or a request reads the  *)
(* log in one step and appends its row in another.  Sessions of the model  *)
(* have lmsAtivo and their learners an active enrolment.                   *)
(***************************************************************************)
EXTENDS PresencaLms

CONSTANTS
    Plataformas,      \* "zoom", "teams": one queue key and one handler each
    Sessoes,          \* SessaoFormacao
    PlataformaDe,     \* the platform of the meeting of a session
    Formandos,        \* learners, one enrolment (Matricula) each
    Mensagens,        \* calls of the webhooks
    Conteudo,         \* what each of them says
    Execucoes,        \* SQS: the poll loops; Redis: overlapping drainOne calls; sync: requests
    LoopDe,           \* the platform each execution serves
    Transportes,      \* the values of QUEUE_BACKEND considered
    TokensIguais,     \* whether ZOOM_WEBHOOK_TOKEN = TEAMS_WEBHOOK_TOKEN: the cases considered
    DoPortal,         \* learners who register in the portal
    Pedidos,          \* requests of the portal that may run at the same time
    DuracoesPedido,   \* durations a leave request may bring; Nulo when it brings none
    MaxRelogio,       \* bound: instants
    MaxAcessos,       \* bound: portal requests start while the log is shorter than this
    MaxFalhas         \* bound: handlers or requests that fail or are slow

ASSUME FilaAssumption ==
    /\ PlataformaDe \in [Sessoes -> Plataformas]
    /\ LoopDe \in [Execucoes -> Plataformas]
    /\ Conteudo \in [Mensagens -> [sessao: Sessoes, formando: Formandos,
                                   evento: {"join", "leave"}, emailCerto: BOOLEAN]]
    /\ Transportes \subseteq {"sync", "redis", "sqs"}
    /\ TokensIguais \subseteq BOOLEAN
    /\ DoPortal \subseteq Formandos
ASSUME BoundsAssumption ==
    /\ MaxRelogio \in Nat /\ MaxAcessos \in Nat /\ MaxFalhas \in Nat
    /\ DuracoesPedido \subseteq Nat \cup {Nulo}

VARIABLES
    transporte,       \* the QueueTransport of onModuleInit
    tokenIgual,       \* the two tokens of the environment are the same
    enviadas,         \* messages the platforms have posted
    fila,             \* Redis: one list per key, oldest first
    visiveis, emVoo,  \* SQS: the one shared queue; received and not deleted
    apagadas,         \* SQS: deleted
    tratadas,         \* history: times the handler of the message's platform completed
    exec,             \* the executions of the workers
    acessos,          \* AcessoLms, per session and learner, by ocorridoEm
    iniciada, terminada, \* iniciadaEm # null, terminadaEm # null
    pedido,           \* the requests of the portal
    relogio, falhas

varsFila == <<enviadas, fila, visiveis, emVoo, apagadas, tratadas, exec>>
varsSessao == <<iniciada, terminada, pedido>>
ambiente == <<transporte, tokenIgual>>
vars == <<ambiente, varsFila, acessos, varsSessao, relogio, falhas>>

Livre == [pc |-> "livre"]
SemPedido == [pc |-> "livre"]
PlataformaMsg(m) == PlataformaDe[Conteudo[m].sessao]
Registo(evento, duracao) == [evento |-> evento, em |-> relogio, duracao |-> duracao]

(* acessoLms.create *)
Acrescentar(s, f, evento, duracao) ==
    acessos' = [acessos EXCEPT ![s][f] = Append(@, Registo(evento, duracao))]

ExecRow ==
    {Livre} \cup [pc: {"tratar", "apagar"}, msg: Mensagens]
            \cup [pc: {"gravar"}, msg: Mensagens, duracao: Nat \cup {Nulo}]
PedidoRow ==
    {SemPedido}
      \cup [pc: {"validado", "lido"}, sessao: Sessoes, formando: Formandos,
            evento: {"join", "leave"}, duracao: Nat \cup {Nulo}]
      \cup [pc: {"acessos"}, sessao: Sessoes]
      \cup [pc: {"fechar"}, sessao: Sessoes, porFechar: [Formandos -> Nat \cup {Nulo}]]

Init ==
    /\ transporte \in Transportes /\ tokenIgual \in TokensIguais
    /\ enviadas = {} /\ visiveis = {} /\ emVoo = {} /\ apagadas = {}
    /\ fila = [k \in Plataformas |-> <<>>]
    /\ tratadas = [m \in Mensagens |-> 0]
    /\ exec = [e \in Execucoes |-> Livre]
    /\ acessos = [s \in Sessoes |-> [f \in Formandos |-> <<>>]]
    /\ iniciada = [s \in Sessoes |-> FALSE]
    /\ terminada = [s \in Sessoes |-> FALSE]
    /\ pedido = [p \in Pedidos |-> SemPedido]
    /\ relogio = 0 /\ falhas = 0

(***************************************************************************)
(* The queue.  enqueueZoom and enqueueTeams look at no token: the worker   *)
(* does.  Without a transport the webhook is handled by its own request.   *)
(***************************************************************************)
Ocupar(e, m) == exec' = [exec EXCEPT ![e] = [pc |-> "tratar", msg |-> m]]
Libertar(e) == exec' = [exec EXCEPT ![e] = Livre]

Enqueue(m) ==
    /\ m \notin enviadas
    /\ enviadas' = enviadas \cup {m}
    /\ \/ /\ transporte = "redis"
          /\ fila' = [fila EXCEPT ![PlataformaMsg(m)] = Append(@, m)]
          /\ UNCHANGED <<visiveis, exec>>
       \/ /\ transporte = "sqs"
          /\ visiveis' = visiveis \cup {m}
          /\ UNCHANGED <<fila, exec>>
       \/ /\ transporte = "sync"
          /\ \E e \in Execucoes :
                exec[e] = Livre /\ LoopDe[e] = PlataformaMsg(m) /\ Ocupar(e, m)
          /\ UNCHANGED <<fila, visiveis>>
    /\ UNCHANGED <<ambiente, emVoo, apagadas, tratadas, acessos, varsSessao, relogio, falhas>>

(* Fault: the item is read from the list and stays in it. *)
FaltaRedisSemRetirar(e) ==
    /\ transporte = "redis" /\ exec[e] = Livre /\ fila[LoopDe[e]] # <<>>
    /\ Ocupar(e, Head(fila[LoopDe[e]]))
    /\ UNCHANGED <<ambiente, enviadas, fila, visiveis, emVoo, apagadas, tratadas,
                   acessos, varsSessao, relogio, falhas>>

(* RedisQueueTransport.drainOne: rpop takes the item before it is handled; *)
(* the timer starts another call every 500 ms, whatever the earlier ones   *)
(* are still doing.                                                        *)
RedisRetirar(e) ==
    /\ transporte = "redis" /\ exec[e] = Livre /\ fila[LoopDe[e]] # <<>>
    /\ Ocupar(e, Head(fila[LoopDe[e]]))
    /\ fila' = [fila EXCEPT ![LoopDe[e]] = Tail(@)]
    /\ UNCHANGED <<ambiente, enviadas, visiveis, emVoo, apagadas, tratadas,
                   acessos, varsSessao, relogio, falhas>>

(* Fault: the message is deleted as it is received. *)
FaltaSqsApagaAoReceber(e, m) ==
    /\ transporte = "sqs" /\ exec[e] = Livre /\ m \in visiveis
    /\ Ocupar(e, m)
    /\ visiveis' = visiveis \ {m} /\ apagadas' = apagadas \cup {m}
    /\ UNCHANGED <<ambiente, enviadas, fila, emVoo, tratadas, acessos, varsSessao, relogio, falhas>>

(* SqsQueueTransport.pollLoop: every loop receives from the same queue     *)
(* URL, so it may get a message of the other platform.                     *)
SqsReceber(e, m) ==
    /\ transporte = "sqs" /\ exec[e] = Livre /\ m \in visiveis
    /\ Ocupar(e, m)
    /\ visiveis' = visiveis \ {m} /\ emVoo' = emVoo \cup {m}
    /\ UNCHANGED <<ambiente, enviadas, fila, apagadas, tratadas, acessos, varsSessao, relogio, falhas>>

(* VisibilityTimeout: 60.  The message is received again unless deleted;   *)
(* that a handler is still at it is counted as a failure.                  *)
Expirar(m) ==
    /\ m \in emVoo
    /\ emVoo' = emVoo \ {m} /\ visiveis' = visiveis \cup {m}
    /\ IF \A e \in Execucoes : exec[e] = Livre \/ exec[e].msg # m
       THEN falhas' = falhas
       ELSE falhas < MaxFalhas /\ falhas' = falhas + 1
    /\ UNCHANGED <<ambiente, enviadas, fila, apagadas, tratadas, exec, acessos, varsSessao, relogio>>

(* DeleteMessageCommand, once the handler has returned *)
SqsApagar(e) ==
    /\ exec[e].pc = "apagar"
    /\ Libertar(e)
    /\ visiveis' = visiveis \ {exec[e].msg} /\ emVoo' = emVoo \ {exec[e].msg}
    /\ apagadas' = apagadas \cup {exec[e].msg}
    /\ UNCHANGED <<ambiente, enviadas, fila, tratadas, acessos, varsSessao, relogio, falhas>>

(* The handler throws or its process stops.  Redis has no message to give  *)
(* again; SQS does once the visibility timeout is over.                    *)
Falhar(e) ==
    /\ exec[e] # Livre /\ falhas < MaxFalhas
    /\ falhas' = falhas + 1 /\ Libertar(e)
    /\ UNCHANGED <<ambiente, enviadas, fila, visiveis, emVoo, apagadas, tratadas,
                   acessos, varsSessao, relogio>>

(***************************************************************************)
(* handleZoomWebhook and handleTeamsWebhook, the same code but for the     *)
(* token and the column the meeting is looked up by.                       *)
(***************************************************************************)
(* Fault: the token is not compared. *)
FaltaSemToken(k, m) == TRUE

TokenValido(k, m) == PlataformaMsg(m) = k \/ tokenIgual

(* The handler returns: drainOne and the request end, the loop of SQS goes *)
(* on to delete the message.                                               *)
Devolver(e) ==
    IF transporte = "sqs"
    THEN exec' = [exec EXCEPT ![e] = [pc |-> "apagar", msg |-> exec[e].msg]]
    ELSE Libertar(e)

Tratada(m) == tratadas' = [tratadas EXCEPT ![m] = @ + 1]

TokenRecusado(e) ==
    /\ exec[e].pc = "tratar"
    /\ ~TokenValido(LoopDe[e], exec[e].msg)
    /\ Libertar(e)
    /\ UNCHANGED <<ambiente, enviadas, fila, visiveis, emVoo, apagadas, tratadas,
                   acessos, varsSessao, relogio, falhas>>

(* reason: "sessao_nao_encontrada" -- no session of this platform has the  *)
(* meetingId of the other one.                                             *)
SessaoNaoEncontrada(e) ==
    /\ exec[e].pc = "tratar"
    /\ TokenValido(LoopDe[e], exec[e].msg) /\ PlataformaMsg(exec[e].msg) # LoopDe[e]
    /\ Devolver(e)
    /\ UNCHANGED <<ambiente, enviadas, fila, visiveis, emVoo, apagadas, tratadas,
                   acessos, varsSessao, relogio, falhas>>

(* reason: "email_reuniao_incorreto" *)
EmailIncorreto(e) ==
    LET c == Conteudo[exec[e].msg]
    IN  /\ exec[e].pc = "tratar" /\ PlataformaMsg(exec[e].msg) = LoopDe[e]
        /\ ~c.emailCerto
        /\ Acrescentar(c.sessao, c.formando, "alert", Nulo)
        /\ Tratada(exec[e].msg) /\ Devolver(e)
        /\ UNCHANGED <<ambiente, enviadas, fila, visiveis, emVoo, apagadas, varsSessao, relogio, falhas>>

(* An exit looks the entrance up ... *)
WebhookLer(e) ==
    LET c == Conteudo[exec[e].msg]
    IN  /\ exec[e].pc = "tratar" /\ PlataformaMsg(exec[e].msg) = LoopDe[e]
        /\ c.emailCerto
        /\ exec' = [exec EXCEPT ![e] =
                [pc |-> "gravar", msg |-> exec[e].msg,
                 duracao |-> IF c.evento = "join" THEN Nulo
                             ELSE SegundosDesdeUltimoJoin(acessos[c.sessao][c.formando], relogio)]]
        /\ UNCHANGED <<ambiente, enviadas, fila, visiveis, emVoo, apagadas, tratadas,
                       acessos, varsSessao, relogio, falhas>>

(* ... and the row is written, whether or not there was one and whether or *)
(* not the session has ended.                                              *)
WebhookGravar(e) ==
    LET c == Conteudo[exec[e].msg]
    IN  /\ exec[e].pc = "gravar"
        /\ Acrescentar(c.sessao, c.formando, c.evento, exec[e].duracao)
        /\ Tratada(exec[e].msg) /\ Devolver(e)
        /\ UNCHANGED <<ambiente, enviadas, fila, visiveis, emVoo, apagadas, varsSessao, relogio, falhas>>

(***************************************************************************)
(* The portal: LmsService.registerEvent.                                   *)
(***************************************************************************)
PedidoPasso(p, novo) == pedido' = [pedido EXCEPT ![p] = novo]

UnchangedPortal == UNCHANGED <<ambiente, varsFila, iniciada, relogio>>

PortalValidar(p, s, f, evento, d) ==
    /\ pedido[p] = SemPedido /\ Len(acessos[s][f]) < MaxAcessos
    /\ ~terminada[s] /\ (evento = "join" => iniciada[s])
    /\ PedidoPasso(p, [pc |-> "validado", sessao |-> s, formando |-> f, evento |-> evento, duracao |-> d])
    /\ UnchangedPortal /\ UNCHANGED <<terminada, acessos, falhas>>

(* Fault: an entrance is accepted whatever the last row is. *)
FaltaAceitaSempre(evento, d, log) ==
    IF evento = "join" THEN TRUE ELSE d # Nulo \/ EmSessao(log)

(* "Ja existe uma entrada activa": the last row of any kind is looked at,  *)
(* an alert hides the entrance before it.  An exit that brings its         *)
(* duration needs no entrance.                                             *)
PortalAceita(evento, d, log) ==
    IF evento = "join"
    THEN log = <<>> \/ log[Len(log)].evento # "join"
    ELSE d # Nulo \/ EmSessao(log)

PortalLer(p) ==
    LET r == pedido[p]
        log == acessos[r.sessao][r.formando]
    IN  /\ r.pc = "validado"
        /\ PedidoPasso(p,
               IF ~PortalAceita(r.evento, r.duracao, log) THEN SemPedido
               ELSE [r EXCEPT !.pc = "lido",
                              !.duracao = IF r.evento = "leave" /\ r.duracao = Nulo
                                          THEN SegundosDesdeUltimoJoin(log, relogio) ELSE r.duracao])
        /\ UnchangedPortal /\ UNCHANGED <<terminada, acessos, falhas>>

PortalGravar(p) ==
    LET r == pedido[p]
    IN  /\ r.pc = "lido"
        /\ Acrescentar(r.sessao, r.formando, r.evento, r.duracao)
        /\ PedidoPasso(p, SemPedido)
        /\ UnchangedPortal /\ UNCHANGED <<terminada, falhas>>

(***************************************************************************)
(* SessoesFormacaoService.iniciar and terminar.                            *)
(***************************************************************************)
Iniciar(p, s) ==
    /\ pedido[p] = SemPedido
    /\ iniciada' = [iniciada EXCEPT ![s] = TRUE]
    /\ UNCHANGED <<ambiente, varsFila, acessos, terminada, pedido, relogio, falhas>>

TerminarLer(p, s) ==
    /\ pedido[p] = SemPedido
    /\ iniciada[s] /\ ~terminada[s]
    /\ PedidoPasso(p, [pc |-> "acessos", sessao |-> s])
    /\ UnchangedPortal /\ UNCHANGED <<terminada, acessos, falhas>>

(* fecharPresencasAbertasSessao reads every row of the session ...         *)
FecharLer(p) ==
    LET s == pedido[p].sessao
    IN  /\ pedido[p].pc = "acessos"
        /\ PedidoPasso(p, [pc |-> "fechar", sessao |-> s,
               porFechar |-> [f \in Formandos |-> SegundosDesdeUltimoJoin(acessos[s][f], relogio)]])
        /\ UnchangedPortal /\ UNCHANGED <<terminada, acessos, falhas>>

(* ... and writes an exit for each learner inside, one await at a time.    *)
FecharPresenca(p, f) ==
    LET r == pedido[p]
    IN  /\ r.pc = "fechar" /\ r.porFechar[f] # Nulo
        /\ Acrescentar(r.sessao, f, "leave", r.porFechar[f])
        /\ PedidoPasso(p, [r EXCEPT !.porFechar = [r.porFechar EXCEPT ![f] = Nulo]])
        /\ UnchangedPortal /\ UNCHANGED <<terminada, falhas>>

(* Fault: the session is closed before the exits are written. *)
FaltaTerminarAntesDeFechar(p) ==
    LET r == pedido[p]
    IN  /\ r.pc = "fechar"
        /\ terminada' = [terminada EXCEPT ![r.sessao] = TRUE]
        /\ PedidoPasso(p, IF \A f \in Formandos : r.porFechar[f] = Nulo THEN SemPedido ELSE r)
        /\ UnchangedPortal /\ UNCHANGED <<acessos, falhas>>

TerminarGravar(p) ==
    LET r == pedido[p]
    IN  /\ r.pc = "fechar" /\ \A f \in Formandos : r.porFechar[f] = Nulo
        /\ terminada' = [terminada EXCEPT ![r.sessao] = TRUE]
        /\ PedidoPasso(p, SemPedido)
        /\ UnchangedPortal /\ UNCHANGED <<acessos, falhas>>

FalharPedido(p) ==
    /\ pedido[p] # SemPedido /\ falhas < MaxFalhas
    /\ falhas' = falhas + 1
    /\ PedidoPasso(p, SemPedido)
    /\ UnchangedPortal /\ UNCHANGED <<terminada, acessos>>

(* Durations are in whole seconds and a read is followed by its write in   *)
(* milliseconds: no instant passes between the two.                        *)
Tick ==
    /\ relogio < MaxRelogio
    /\ \A e \in Execucoes : exec[e].pc # "gravar"
    /\ \A p \in Pedidos : pedido[p].pc \in {"livre", "validado", "acessos"}
    /\ relogio' = relogio + 1
    /\ UNCHANGED <<ambiente, varsFila, acessos, varsSessao, falhas>>

Fila ==
    \/ \E m \in Mensagens : Enqueue(m) \/ Expirar(m)
    \/ \E e \in Execucoes :
          \/ RedisRetirar(e) \/ SqsApagar(e) \/ Falhar(e)
          \/ \E m \in Mensagens : SqsReceber(e, m)
Webhook ==
    \E e \in Execucoes :
        TokenRecusado(e) \/ SessaoNaoEncontrada(e) \/ EmailIncorreto(e) \/ WebhookLer(e) \/ WebhookGravar(e)
Portal ==
    \E p \in Pedidos :
        \/ PortalLer(p) \/ PortalGravar(p) \/ FecharLer(p) \/ TerminarGravar(p) \/ FalharPedido(p)
        \/ \E f \in Formandos : FecharPresenca(p, f)
        \/ \E s \in Sessoes :
              \/ Iniciar(p, s) \/ TerminarLer(p, s)
              \/ \E f \in DoPortal :
                    \/ PortalValidar(p, s, f, "join", Nulo)
                    \/ \E d \in DuracoesPedido : PortalValidar(p, s, f, "leave", d)

Next == Fila \/ Webhook \/ Portal \/ Tick

Spec == Init /\ [][Next]_vars

(***************************************************************************)
(* Fairness for SQS.  A loop goes on with the message it has (weak).  Of   *)
(* the messages in flight some become visible again while no loop is at    *)
(* work, if such moments keep coming, and the loops, waiting in            *)
(* ReceiveMessage, do not for ever get only what the other platform        *)
(* posted (both strong; which message or loop it is, is not fair).         *)
(***************************************************************************)
TodosLivres == \A e \in Execucoes : exec[e] = Livre

Passo(e) == TokenRecusado(e) \/ SessaoNaoEncontrada(e) \/ EmailIncorreto(e)
            \/ WebhookLer(e) \/ WebhookGravar(e) \/ SqsApagar(e)

ExpirarLivre == TodosLivres /\ \E m \in Mensagens : Expirar(m)
ReceberDoSeu == \E e \in Execucoes, m \in Mensagens : LoopDe[e] = PlataformaMsg(m) /\ SqsReceber(e, m)

FairSpec ==
    /\ Spec
    /\ \A e \in Execucoes : WF_vars(Passo(e))
    /\ SF_vars(ExpirarLivre)
    /\ SF_vars(ReceberDoSeu)

-----------------------------------------------------------------------------
(* Types. *)
TypeOK ==
    /\ transporte \in Transportes /\ tokenIgual \in TokensIguais
    /\ enviadas \subseteq Mensagens /\ visiveis \subseteq Mensagens
    /\ emVoo \subseteq Mensagens /\ apagadas \subseteq Mensagens
    /\ fila \in [Plataformas -> Seq(Mensagens)]
    /\ tratadas \in [Mensagens -> Nat]
    /\ exec \in [Execucoes -> ExecRow]
    /\ acessos \in [Sessoes -> [Formandos -> Seq(AcessoRow)]]
    /\ iniciada \in [Sessoes -> BOOLEAN] /\ terminada \in [Sessoes -> BOOLEAN]
    /\ pedido \in [Pedidos -> PedidoRow]
    /\ relogio \in Nat /\ falhas \in Nat

(* SQS: a message leaves the queue for good only after the handler of its  *)
(* own platform has completed, although every loop receives every message  *)
(* -- as long as the two platforms have tokens of their own.               *)
ApagadaFoiTratada == ~tokenIgual => \A m \in apagadas : tratadas[m] >= 1

(* With at-most-once transports (Redis, none) the log of a learner who     *)
(* attends by the meeting only has no more entrances than calls said so.   *)
SemRegistosRepetidos ==
    transporte # "sqs" =>
        \A s \in Sessoes, f \in Formandos \ DoPortal :
            Cardinality({i \in DOMAIN acessos[s][f] : acessos[s][f][i].evento = "join"})
              <= Cardinality({m \in enviadas : /\ Conteudo[m].sessao = s /\ Conteudo[m].formando = f
                                               /\ Conteudo[m].evento = "join" /\ Conteudo[m].emailCerto})

(* Attendance credited to a learner is never more than the time the log    *)
(* shows them inside, with rows lost, repeated or out of order.            *)
TempoNaoExcede ==
    \A s \in Sessoes, f \in Formandos :
        SegundosPresenca(acessos[s][f], relogio) <= TempoEmSessao(acessos[s][f], relogio)

(* ... and exactly that time for those who register in the portal, as the  *)
(* comment of calcularSegundosPresencaJoinLeave says.                      *)
TempoConfere ==
    \A s \in Sessoes, f \in DoPortal :
        SegundosPresenca(acessos[s][f], relogio) = TempoEmSessao(acessos[s][f], relogio)

(* Nobody who registers in the portal is left inside a session that has    *)
(* ended, even when an earlier request to end it failed half way.          *)
PresencaFechada ==
    \A s \in Sessoes, f \in DoPortal : terminada[s] => ~EmSessao(acessos[s][f])

(* Entrances and exits in the portal alternate, starting with an entrance. *)
EntradasAlternadas ==
    \A s \in Sessoes, f \in DoPortal : \A i \in DOMAIN acessos[s][f] :
        acessos[s][f][i].evento = IF i % 2 = 1 THEN "join" ELSE "leave"

(* SQS: provided the loops are all idle again and again (a handler takes   *)
(* milliseconds, the visibility timeout a minute), every call a platform   *)
(* posts ends up handled, although the other platform's loop may get it    *)
(* first and refuse it, any number of times -- with tokens of their own.   *)
(* What was posted stays posted and the tokens do not change, so this is   *)
(* ~tokenIgual => (m \in enviadas ~> tratadas[m] >= 1), which costs TLC    *)
(* more (EntregaLevaA of AssiduidadeProofs).                               *)
EntregaEventual ==
    []<>TodosLivres =>
        \A m \in Mensagens : []<>(~tokenIgual /\ m \in enviadas => tratadas[m] >= 1)
=============================================================================
