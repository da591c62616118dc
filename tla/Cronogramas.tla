------------------------------- MODULE Cronogramas -------------------------------
(***************************************************************************)
(* The schedules (cronogramas) of one training action, the sessions of its *)
(* classes (turmas) and the import of sessions from a document: a job that *)
(* reads the document in the background, and requests that edit, discard   *)
(* or apply what it found (cronograma-import-ia.service.ts,                *)
(* cronogramas.service.ts, turmas.service.ts, sessoes-formacao.service.ts).*)
(*                                                                         *)
(* A session is its schedule, class and number; what is in the draft, the  *)
(* deadlines an import writes and the number of the version are left out.  *)
(***************************************************************************)
EXTENDS Naturals, Sequences, FiniteSets

CONSTANTS
    Pedidos,          \* requests that may run at the same time
    Operacoes,        \* what each of them may do
    UtilizadorDe,     \* the user of each of them
    Turmas,           \* classes that may exist, by codigo
    Listas,           \* the numbers of sessions a document or a request may list
    MaxNumero,        \* bound: numbers of sessions
    MaxCronogramas,   \* bound: schedules ever made
    MaxTrabalhos,     \* bound: import jobs ever made
    MaxFalhas,        \* bound: failed statements and restarts
    Nulo

Endpoints == {"iniciar", "guardar", "descartar", "aplicar", "aplicarTrabalho"}

CronogramasAssumption ==
    /\ Operacoes \in [Pedidos -> SUBSET Endpoints]
    /\ Turmas \subseteq Nat /\ Nulo \notin Turmas /\ Nulo \notin BOOLEAN
    /\ Listas \subseteq SUBSET (Nat \ {0})
    /\ MaxNumero \in Nat /\ MaxCronogramas \in Nat /\ MaxTrabalhos \in Nat /\ MaxFalhas \in Nat

Activos == {"A_PROCESSAR", "RASCUNHO", "FALHA"}
Fechados == {"APLICADO", "DESCARTADO"}

VARIABLES
    cronograma,   \* Cronograma: aberto, aprovado (aprovadoEm) or removido
    turma,        \* Turma: porCriar, existe or removida
    sessao,       \* SessaoFormacao; irmas: the numbers created by the same statement
    trabalho,     \* CronogramaImportJob; criado: its sessions were created
    processo,     \* processJob of each job
    pedido,
    falhas

vars == <<cronograma, turma, sessao, trabalho, processo, pedido, falhas>>

Cronogramas == 1..MaxCronogramas
Trabalhos == DOMAIN trabalho
Existe(c) == c \in DOMAIN cronograma /\ cronograma[c] # "removido"

SessaoRow == [c: Cronogramas, t: Turmas, n: Nat, irmas: SUBSET Nat]
TrabalhoRow ==
    [c: Cronogramas, dono: {UtilizadorDe[p] : p \in Pedidos},
     estado: Activos \cup Fechados \cup {"removido"}, texto: BOOLEAN, criado: BOOLEAN]
ProcessoPc == {"ler", "analisar", "rascunho", "falha", "fim", "perdido"}

(* j: the job, 0 when there is none; t, substituir, nums: the request;     *)
(* base: what its numbers are added to; apagou: it has deleted sessions.   *)
Livre == [pc |-> "livre"]
Pcs == {"iniciar.descartar", "iniciar.criar", "guardar.gravar", "aplicar.verificar", "aplicar.contar",
        "aplicar.apagar", "aplicar.numerar", "aplicar.validar", "aplicar.criar", "aplicar.marcar"}
PedidoRow ==
    {Livre} \cup
    [pc: Pcs, c: Cronogramas, j: 0..MaxTrabalhos, t: Turmas \cup {Nulo}, substituir: BOOLEAN \cup {Nulo},
     nums: SUBSET Nat, base: Nat, apagou: BOOLEAN]

Comeca(pc, c, j) ==
    [pc |-> pc, c |-> c, j |-> j, t |-> Nulo, substituir |-> Nulo, nums |-> {}, base |-> 0, apagou |-> FALSE]

(* An action that was created with no schedule and no class.               *)
Init ==
    /\ cronograma = <<>> /\ turma = [t \in Turmas |-> "porCriar"] /\ sessao = {}
    /\ trabalho = <<>> /\ processo = <<>>
    /\ pedido = [p \in Pedidos |-> Livre] /\ falhas = 0

Aceita(p, op) == pedido[p] = Livre /\ op \in Operacoes[p]
Segue(p, r) == pedido' = [pedido EXCEPT ![p] = r]
Passa(p, pc) == Segue(p, [pedido[p] EXCEPT !.pc = pc])
Termina(p) == Segue(p, Livre)
SemFalha == UNCHANGED falhas
Falha == falhas < MaxFalhas /\ falhas' = falhas + 1
MesmoPlano == UNCHANGED <<cronograma, turma>>

GravaEstado(T, e) ==
    trabalho' = [j \in Trabalhos |->
                    IF j \in T THEN [trabalho[j] EXCEPT !.estado = e, !.texto = FALSE] ELSE trabalho[j]]

(***************************************************************************)
(* Schedules, classes and sessions.  What they read only refuses the       *)
(* request earlier than the unique indexes and the foreign keys do.        *)
(***************************************************************************)
CriarCronograma ==
    /\ Len(cronograma) < MaxCronogramas
    /\ cronograma' = Append(cronograma, "aberto")
    /\ UNCHANGED <<turma, sessao, trabalho, processo, pedido, falhas>>

Aprovar(c) ==
    /\ Existe(c)
    /\ cronograma' = [cronograma EXCEPT ![c] = "aprovado"]
    /\ UNCHANGED <<turma, sessao, trabalho, processo, pedido, falhas>>

(* onDelete: Cascade takes its sessions and its jobs. *)
RemoverCronograma(c) ==
    /\ Existe(c)
    /\ cronograma' = [cronograma EXCEPT ![c] = "removido"]
    /\ sessao' = {s \in sessao : s.c # c}
    /\ GravaEstado({j \in Trabalhos : trabalho[j].c = c}, "removido")
    /\ UNCHANGED <<turma, processo, pedido, falhas>>

CriarTurma(t) ==
    /\ turma[t] = "porCriar"
    /\ turma' = [turma EXCEPT ![t] = "existe"]
    /\ UNCHANGED <<cronograma, sessao, trabalho, processo, pedido, falhas>>

(* Refused while it has approved attendance sheets. *)
RemoverTurma(t) ==
    /\ turma[t] = "existe"
    /\ turma' = [turma EXCEPT ![t] = "removida"]
    /\ sessao' = {s \in sessao : s.t # t}
    /\ UNCHANGED <<cronograma, trabalho, processo, pedido, falhas>>

Livres(c, t, N) == \A s \in sessao : s.c = c /\ s.t = t => s.n \notin N
Linhas(c, t, N) == {[c |-> c, t |-> t, n |-> n, irmas |-> N] : n \in N}

CriarSessao(c, t, n) ==
    /\ Existe(c) /\ turma[t] = "existe" /\ Livres(c, t, {n})
    /\ sessao' = sessao \cup Linhas(c, t, {n})
    /\ UNCHANGED <<cronograma, turma, trabalho, processo, pedido, falhas>>

(***************************************************************************)
(* iniciarJob                                                              *)
(***************************************************************************)
Iniciar(p, c) ==
    /\ Aceita(p, "iniciar")
    /\ Existe(c) /\ cronograma[c] # "aprovado"
    /\ Segue(p, Comeca("iniciar.descartar", c, 0))
    /\ MesmoPlano /\ UNCHANGED <<sessao, trabalho, processo>> /\ SemFalha

ActivosDe(c) == {j \in Trabalhos : trabalho[j].c = c /\ trabalho[j].estado \in Activos}

(* "Um só job activo por cronograma": the active ones are discarded ...    *)
IniciarDescartar(p) ==
    /\ pedido[p].pc = "iniciar.descartar"
    /\ GravaEstado(ActivosDe(pedido[p].c), "DESCARTADO")
    /\ Passa(p, "iniciar.criar")
    /\ MesmoPlano /\ UNCHANGED <<sessao, processo>> /\ SemFalha

(* ... and the new one is created, which processJob takes.                 *)
IniciarCriar(p) ==
    LET c == pedido[p].c
    IN  /\ pedido[p].pc = "iniciar.criar"
        /\ \/ /\ Existe(c) /\ Len(trabalho) < MaxTrabalhos
              /\ trabalho' = Append(trabalho, [c |-> c, dono |-> UtilizadorDe[p], estado |-> "A_PROCESSAR",
                                               texto |-> TRUE, criado |-> FALSE])
              /\ processo' = Append(processo, "ler")
           \/ ~Existe(c) /\ UNCHANGED <<trabalho, processo>>
        /\ Termina(p)
        /\ MesmoPlano /\ UNCHANGED sessao /\ SemFalha

(***************************************************************************)
(* guardarRascunho and descartarJob, of the user's own jobs                *)
(***************************************************************************)
Proprio(p, j) == trabalho[j].dono = UtilizadorDe[p] /\ trabalho[j].estado # "removido"

Guardar(p, j) ==
    /\ Aceita(p, "guardar") /\ Proprio(p, j)
    /\ trabalho[j].estado \in {"RASCUNHO", "FALHA"}
    /\ Segue(p, Comeca("guardar.gravar", trabalho[j].c, j))
    /\ MesmoPlano /\ UNCHANGED <<sessao, trabalho, processo>> /\ SemFalha

(* An update by id: nothing is left to update when the job was removed.    *)
Actualiza(j, e) ==
    IF trabalho[j].estado = "removido" THEN UNCHANGED trabalho
    ELSE trabalho' = [trabalho EXCEPT ![j] = e]

GuardarGravar(p) ==
    LET j == pedido[p].j
    IN  /\ pedido[p].pc = "guardar.gravar"
        /\ Actualiza(j, [trabalho[j] EXCEPT !.estado = "RASCUNHO"])
        /\ Termina(p)
        /\ MesmoPlano /\ UNCHANGED <<sessao, processo>> /\ SemFalha

(* With the other active jobs the user has on the schedule. *)
Descartar(p, j) ==
    /\ Aceita(p, "descartar") /\ Proprio(p, j)
    /\ GravaEstado({k \in ActivosDe(trabalho[j].c) : Proprio(p, k)}, "DESCARTADO")
    /\ MesmoPlano /\ UNCHANGED <<sessao, processo, pedido>> /\ SemFalha

(***************************************************************************)
(* aplicarJob, and aplicar, which may also be called without a job         *)
(***************************************************************************)
Aplica(p, c, j) ==
    \E t \in Turmas \cup {Nulo}, s \in BOOLEAN \cup {Nulo}, N \in Listas :
       Segue(p, [Comeca("aplicar.verificar", c, j) EXCEPT !.t = t, !.substituir = s, !.nums = N])

AplicarTrabalho(p, j) ==
    /\ Aceita(p, "aplicarTrabalho") /\ Proprio(p, j)
    /\ trabalho[j].estado \notin Fechados
    /\ Aplica(p, trabalho[j].c, j)
    /\ MesmoPlano /\ UNCHANGED <<sessao, trabalho, processo>> /\ SemFalha

Aplicar(p, c) ==
    /\ Aceita(p, "aplicar") /\ c \in DOMAIN cronograma
    /\ Aplica(p, c, 0)
    /\ MesmoPlano /\ UNCHANGED <<sessao, trabalho, processo>> /\ SemFalha

(* The class that was asked for, or the first one of the action. *)
TurmaAlvo(t) ==
    LET existem == {u \in Turmas : turma[u] = "existe"}
    IN  IF t # Nulo THEN {t} \cap existem
        ELSE {u \in existem : \A v \in existem : u <= v}

AplicarVerificar(p) ==
    LET r == pedido[p]
    IN  /\ r.pc = "aplicar.verificar"
        /\ \/ /\ Existe(r.c) /\ cronograma[r.c] # "aprovado"
              /\ \E t \in TurmaAlvo(r.t) : Segue(p, [r EXCEPT !.pc = "aplicar.contar", !.t = t])
           \/ /\ ~Existe(r.c) \/ cronograma[r.c] = "aprovado" \/ TurmaAlvo(r.t) = {}
              /\ Termina(p)
        /\ MesmoPlano /\ UNCHANGED <<sessao, trabalho, processo>> /\ SemFalha

DaTurma(c, t) == {s \in sessao : s.c = c /\ s.t = t}

(* existentesTurma *)
AplicarContar(p) ==
    LET r == pedido[p]
    IN  /\ r.pc = "aplicar.contar"
        /\ IF DaTurma(r.c, r.t) = {} THEN Passa(p, "aplicar.validar")
           ELSE CASE r.substituir = TRUE  -> Passa(p, "aplicar.apagar")
                  [] r.substituir = FALSE -> Passa(p, "aplicar.numerar")
                  [] r.substituir = Nulo  -> Termina(p)
        /\ MesmoPlano /\ UNCHANGED <<sessao, trabalho, processo>> /\ SemFalha

(* Fault: only the sessions whose numbers are imported are replaced. *)
FaltaApagarSoRepetidas(r) == {s \in DaTurma(r.c, r.t) : s.n \in r.nums}
Substituidas(r) == DaTurma(r.c, r.t)

AplicarApagar(p) ==
    LET r == pedido[p]
    IN  /\ r.pc = "aplicar.apagar"
        /\ sessao' = sessao \ Substituidas(r)
        /\ Segue(p, [r EXCEPT !.pc = "aplicar.validar", !.apagou = TRUE])
        /\ MesmoPlano /\ UNCHANGED <<trabalho, processo>> /\ SemFalha

(* _max, 0 when there is none: the one element of this set. *)
UltimoNumero(S) == {m \in {0} \cup {s.n : s \in S} : \A s \in S : s.n <= m}

AplicarNumerar(p) ==
    LET r == pedido[p]
    IN  /\ r.pc = "aplicar.numerar"
        /\ \E m \in UltimoNumero(DaTurma(r.c, r.t)) :
              Segue(p, [r EXCEPT !.pc = "aplicar.validar", !.base = m])
        /\ MesmoPlano /\ UNCHANGED <<sessao, trabalho, processo>> /\ SemFalha

(* Trainers and modules of another course, hours that do not fit the       *)
(* course and were not confirmed, an end before the start, numbers twice.  *)
AplicarRecusar(p) ==
    /\ pedido[p].pc = "aplicar.validar"
    /\ Termina(p)
    /\ MesmoPlano /\ UNCHANGED <<sessao, trabalho, processo>> /\ SemFalha

AplicarAceitar(p) ==
    /\ pedido[p].pc = "aplicar.validar"
    /\ Passa(p, "aplicar.criar")
    /\ MesmoPlano /\ UNCHANGED <<sessao, trabalho, processo>> /\ SemFalha

Numeros(r) == {r.base + n : n \in r.nums}
Criaveis(r) ==
    /\ Existe(r.c) /\ turma[r.t] = "existe"
    /\ Livres(r.c, r.t, Numeros(r))

(* Fault: a number that is already used is not an error, and the job goes  *)
(* on as if it had been applied.                                           *)
FaltaErroIgnorado(p) ==
    LET r == pedido[p]
    IN  /\ r.pc = "aplicar.criar"
        /\ sessao' = IF Criaveis(r) THEN sessao \cup Linhas(r.c, r.t, Numeros(r)) ELSE sessao
        /\ IF r.j = 0 THEN Termina(p) /\ UNCHANGED trabalho
           ELSE /\ Segue(p, Comeca("aplicar.marcar", r.c, r.j))
                /\ trabalho' = [trabalho EXCEPT ![r.j].criado = @ \/ Criaveis(r)]
        /\ MesmoPlano /\ UNCHANGED processo /\ SemFalha

(* createMany, one statement: every row or an exception. *)
AplicarCriar(p) ==
    LET r == pedido[p]
    IN  /\ r.pc = "aplicar.criar"
        /\ \A n \in Numeros(r) : n <= MaxNumero
        /\ \/ /\ Criaveis(r)
              /\ sessao' = sessao \cup Linhas(r.c, r.t, Numeros(r))
              /\ IF r.j = 0 THEN Termina(p) /\ UNCHANGED trabalho
                 ELSE /\ Segue(p, Comeca("aplicar.marcar", r.c, r.j))
                      /\ trabalho' = [trabalho EXCEPT ![r.j].criado = TRUE]
           \/ ~Criaveis(r) /\ Termina(p) /\ UNCHANGED <<sessao, trabalho>>
        /\ MesmoPlano /\ UNCHANGED processo /\ SemFalha

AplicarMarcar(p) ==
    LET j == pedido[p].j
    IN  /\ pedido[p].pc = "aplicar.marcar"
        /\ Actualiza(j, [trabalho[j] EXCEPT !.estado = "APLICADO", !.texto = FALSE])
        /\ Termina(p)
        /\ MesmoPlano /\ UNCHANGED <<sessao, processo>> /\ SemFalha

(***************************************************************************)
(* processJob, in the background of the server                             *)
(***************************************************************************)
Processo(j, pc) == processo' = [processo EXCEPT ![j] = pc]
SoProcesso == MesmoPlano /\ UNCHANGED <<sessao, pedido>>

ProcessoLer(j) ==
    /\ processo[j] = "ler"
    /\ Processo(j, IF trabalho[j].estado = "A_PROCESSAR" /\ trabalho[j].texto THEN "analisar" ELSE "fim")
    /\ SoProcesso /\ UNCHANGED trabalho /\ SemFalha

(* Fault: a document that cannot be read ends the job with no word of it. *)
FaltaErroCalado(j) ==
    /\ processo[j] = "analisar"
    /\ \E pc \in {"rascunho", "fim"} : Processo(j, pc)
    /\ SoProcesso /\ UNCHANGED trabalho /\ SemFalha

(* The parsers, then the model: sessions are found or an exception is      *)
(* thrown, also when the model does not answer in time.                    *)
ProcessoAnalisar(j) ==
    /\ processo[j] = "analisar"
    /\ \E pc \in {"rascunho", "falha"} : Processo(j, pc)
    /\ SoProcesso /\ UNCHANGED trabalho /\ SemFalha

(* RASCUNHO or FALHA, by id: whatever the job has become.                  *)
ProcessoGravar(j) ==
    /\ processo[j] \in {"rascunho", "falha"}
    /\ Actualiza(j, [trabalho[j] EXCEPT !.estado = IF processo[j] = "rascunho" THEN "RASCUNHO" ELSE "FALHA",
                                        !.texto = FALSE])
    /\ Processo(j, "fim")
    /\ SoProcesso /\ SemFalha

Processa(j) == ProcessoLer(j) \/ ProcessoAnalisar(j) \/ ProcessoGravar(j)

(* The draft that cannot be written is a failure, and one that cannot be   *)
(* written, or read, is lost.                                              *)
ProcessoFalhar(j) ==
    /\ processo[j] \notin {"fim", "perdido"}
    /\ Processo(j, IF processo[j] \in {"analisar", "rascunho"} THEN "falha" ELSE "perdido")
    /\ SoProcesso /\ UNCHANGED trabalho /\ Falha

(***************************************************************************)
(* Statements that fail, and the server that starts again                  *)
(***************************************************************************)
Interromper(p) ==
    /\ pedido[p] # Livre
    /\ Termina(p) /\ Falha
    /\ MesmoPlano /\ UNCHANGED <<sessao, trabalho, processo>>

(* Nobody takes up the jobs that were being processed. *)
Reiniciar ==
    /\ Falha
    /\ pedido' = [p \in Pedidos |-> Livre]
    /\ processo' = [j \in Trabalhos |-> IF processo[j] = "fim" THEN "fim" ELSE "perdido"]
    /\ MesmoPlano /\ UNCHANGED <<sessao, trabalho>>

Plano ==
    \/ CriarCronograma
    \/ \E c \in Cronogramas : Aprovar(c) \/ RemoverCronograma(c)
    \/ \E t \in Turmas : CriarTurma(t) \/ RemoverTurma(t)
    \/ \E c \in Cronogramas, t \in Turmas, n \in 1..MaxNumero : CriarSessao(c, t, n)

Chega(p) ==
    \/ \E c \in Cronogramas : Iniciar(p, c) \/ Aplicar(p, c)
    \/ \E j \in Trabalhos : Guardar(p, j) \/ Descartar(p, j) \/ AplicarTrabalho(p, j)

Continua(p) ==
    \/ IniciarDescartar(p) \/ IniciarCriar(p) \/ GuardarGravar(p)
    \/ AplicarVerificar(p) \/ AplicarContar(p) \/ AplicarApagar(p) \/ AplicarNumerar(p)
    \/ AplicarRecusar(p) \/ AplicarAceitar(p) \/ AplicarCriar(p) \/ AplicarMarcar(p)

Next ==
    \/ Plano
    \/ \E p \in Pedidos : Chega(p) \/ Continua(p) \/ Interromper(p)
    \/ \E j \in Trabalhos : Processa(j) \/ ProcessoFalhar(j)
    \/ Reiniciar

(* The event loop goes on with a job it has begun. *)
Justica == \A j \in 1..MaxTrabalhos : WF_vars(j \in Trabalhos /\ Processa(j))

Seguranca == Init /\ [][Next]_vars
Spec == Seguranca /\ Justica

-----------------------------------------------------------------------------
(* Types. *)
TypeOK ==
    /\ cronograma \in Seq({"aberto", "aprovado", "removido"}) /\ Len(cronograma) <= MaxCronogramas
    /\ turma \in [Turmas -> {"porCriar", "existe", "removida"}]
    /\ sessao \subseteq SessaoRow
    /\ trabalho \in Seq(TrabalhoRow) /\ Len(trabalho) <= MaxTrabalhos
    /\ processo \in Seq(ProcessoPc) /\ Len(processo) = Len(trabalho)
    /\ pedido \in [Pedidos -> PedidoRow] /\ falhas \in Nat

(* The sessions of an import are all there or none is: whatever other      *)
(* imports, sessions created by hand, removals and failures come between   *)
(* its statements, a class never has a part of a document's schedule.      *)
ImportacaoInteira ==
    \A s \in sessao : \A n \in s.irmas : [s EXCEPT !.n = n] \in sessao

(* A job that is APLICADO had its sessions created, although discards,     *)
(* edits, other applications and the background write the same column and  *)
(* any statement may fail.                                                 *)
AplicadoFoiCriado == \A j \in Trabalhos : trabalho[j].estado = "APLICADO" => trabalho[j].criado

Preso(j) == j \in Trabalhos /\ trabalho[j].estado = "A_PROCESSAR" /\ processo[j] # "perdido"

(* "devolve de imediato (A_PROCESSAR)" and the client polls: every job     *)
(* leaves A_PROCESSAR, readable document or not, unless the server or the  *)
(* database lost its processing (Preso ~> ~Preso).                         *)
TrabalhoTermina == \A j \in 1..MaxTrabalhos : []<>~Preso(j)

(* An import that is refused ("Revise o preview e confirme para aplicar.") *)
(* has not deleted the sessions it was to replace.                         *)
RecusaNaoApaga == [][\A p \in Pedidos : AplicarRecusar(p) => ~pedido[p].apagou]_vars
=============================================================================
