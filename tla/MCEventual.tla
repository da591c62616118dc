------------------------------- MODULE MCEventual -------------------------------
(***************************************************************************)
(* What must eventually happen: the delivery of the webhooks through SQS   *)
(* (Assiduidade, whose constants the configuration gives), what SIGO       *)
(* decides and issues, and the import jobs.  parte says which of them is   *)
(* at work; the variables of the others stay as they are.                  *)
(***************************************************************************)
EXTENDS Assiduidade, TLC

CONSTANTS sz, st, f1, m1, m2, m3, ez, et, Nenhum

DuasPlataformas == {"zoom", "teams"}
DuasSessoes == (sz :> "zoom") @@ (st :> "teams")

(* One process: a loop for each platform.                                  *)
LoopsSqs == (ez :> "zoom") @@ (et :> "teams")

(* The same learner in a session of each platform. *)
Call(s, f, ev, certo) == [sessao |-> s, formando |-> f, evento |-> ev, emailCerto |-> certo]
ConteudoSqs ==
    (m1 :> Call(sz, f1, "join", TRUE)) @@ (m2 :> Call(sz, f1, "leave", TRUE))
    @@ (m3 :> Call(st, f1, "join", FALSE))
SemDuracao == {Nulo}

VARIABLES
    parte,
    submissao, submetidas, certificado, ficheiro, remoto, emitido,
    cronograma, turma, sessao, trabalho, processo,
    tarefa, quebras   \* the requests and the failures of the last two

sigoVars == <<submissao, submetidas, certificado, ficheiro, remoto, emitido>>
cronogramasVars == <<cronograma, turma, sessao, trabalho, processo>>
comuns == <<tarefa, quebras>>
todas == <<parte, vars, sigoVars, cronogramasVars, comuns>>

(* One submission, everything a user may do and both cron jobs. *)
Uma == INSTANCE Sigo WITH
    Pedidos <- {"c1", "c2", "p1"},
    Operacoes <- [c1 |-> {"cronReconciliar"}, c2 |-> {"cronCertificados"},
                  p1 |-> {"submeter", "certificar", "reconciliar", "sincronizar"}],
    Lote <- 1, MaxTentativas <- 2, MaxSubmissoes <- 1, MaxFalhas <- 1,
    enviadas <- submetidas, pedido <- tarefa, falhas <- quebras

(* Two submissions, of which the cron takes one in a turn; a request is    *)
(* sent once, and no statement fails.                                      *)
Duas == INSTANCE Sigo WITH
    Pedidos <- {"c1", "c2", "p1"},
    Operacoes <- [c1 |-> {"cronReconciliar"}, c2 |-> {"cronCertificados"}, p1 |-> {"submeter"}],
    Lote <- 1, MaxTentativas <- 1, MaxSubmissoes <- 2, MaxFalhas <- 0,
    enviadas <- submetidas, pedido <- tarefa, falhas <- quebras

(* An import job, of a user who also edits, applies and discards it.       *)
Trabalhos == INSTANCE Cronogramas WITH
    Pedidos <- {"p1", "p2"},
    Operacoes <- [p1 |-> {"iniciar", "guardar", "aplicarTrabalho"}, p2 |-> {"descartar"}],
    UtilizadorDe <- [p1 |-> "u1", p2 |-> "u1"],
    Turmas <- {1}, Listas <- {{1}}, MaxNumero <- 1,
    MaxCronogramas <- 1, MaxTrabalhos <- 1, MaxFalhas <- 1, Nulo <- Nenhum,
    pedido <- tarefa, falhas <- quebras

ASSUME InstanciasAssumption ==
    Uma!SigoAssumption /\ Duas!SigoAssumption /\ Trabalhos!CronogramasAssumption

SemSigo == /\ submissao = <<>> /\ submetidas = <<>> /\ certificado = <<>> /\ ficheiro = <<>>
           /\ remoto = <<>> /\ emitido = <<>>
SemCronogramas == /\ cronograma = <<>> /\ turma = <<>> /\ sessao = {} /\ trabalho = <<>> /\ processo = <<>>
SemFila == Init /\ tokenIgual = FALSE

InitTodas ==
    \/ parte = "sqs" /\ Init /\ SemSigo /\ SemCronogramas /\ tarefa = <<>> /\ quebras = 0
    \/ parte = "uma" /\ SemFila /\ Uma!Init /\ SemCronogramas
    \/ parte = "duas" /\ SemFila /\ Duas!Init /\ SemCronogramas
    \/ parte = "trabalhos" /\ SemFila /\ SemSigo /\ Trabalhos!Init

OutrasQueFila == UNCHANGED <<parte, sigoVars, cronogramasVars, comuns>>
OutrasQueSigo == UNCHANGED <<parte, vars, cronogramasVars>>
OutrasQueCronogramas == UNCHANGED <<parte, vars, sigoVars>>

NextTodas ==
    \/ parte = "sqs" /\ Next /\ OutrasQueFila
    \/ parte = "uma" /\ Uma!Next /\ OutrasQueSigo
    \/ parte = "duas" /\ Duas!Next /\ OutrasQueSigo
    \/ parte = "trabalhos" /\ Trabalhos!Next /\ OutrasQueCronogramas

(* The fairness each module states, of the part that is at work.           *)
Justica ==
    /\ \A e \in Execucoes : WF_todas(parte = "sqs" /\ Passo(e) /\ OutrasQueFila)
    /\ SF_todas(parte = "sqs" /\ ExpirarLivre /\ OutrasQueFila)
    /\ SF_todas(parte = "sqs" /\ ReceberDoSeu /\ OutrasQueFila)
    /\ \A p \in {"c1", "c2", "p1"} :
          /\ WF_todas(\/ parte = "uma" /\ Uma!Continua(p) /\ OutrasQueSigo
                      \/ parte = "duas" /\ Duas!Continua(p) /\ OutrasQueSigo)
          /\ WF_todas(\/ parte = "uma" /\ Uma!Cron(p) /\ OutrasQueSigo
                      \/ parte = "duas" /\ Duas!Cron(p) /\ OutrasQueSigo)
    /\ \A n \in {1, 2} :
          WF_todas(parte \in {"uma", "duas"} /\ n \in DOMAIN submissao /\ Uma!Decidir(n) /\ OutrasQueSigo)
    /\ \A j \in {1} :
          WF_todas(parte = "trabalhos" /\ j \in DOMAIN trabalho /\ Trabalhos!Processa(j) /\ OutrasQueCronogramas)

SpecTodas == InitTodas /\ [][NextTodas]_todas /\ Justica

-----------------------------------------------------------------------------
(* parte never changes, so each is the property of the module when that    *)
(* part is at work.                                                        *)

(* Sigo: what SIGO decides arrives.                                        *)
DecisaoChega ==
    \A n \in {1, 2} : []<>(/\ parte = "uma" => (Uma!Decidida(n) => Uma!Conhecida(n))
                           /\ parte = "duas" => (Duas!Decidida(n) => Duas!Conhecida(n)))

(* Sigo: a failed transfer of a certificate is made good.                  *)
CertificadoTransferido ==
    \A n \in {1, 2} : []<>(/\ parte = "uma" => ~Uma!AceiteSemPdf(n)
                           /\ parte = "duas" => ~Duas!AceiteSemPdf(n))

(* Cronogramas: the processing of a job ends.                              *)
TrabalhoTermina == []<>(parte = "trabalhos" => ~Trabalhos!Preso(1))
=============================================================================
