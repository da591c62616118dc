---------------------------------- MODULE Sigo ----------------------------------
(***************************************************************************)
(* Training actions submitted to SIGO, the platform of the state, over     *)
(* HTTP: submission, reconciliation with what SIGO decided, transfer of    *)
(* the certificates it issues, and the two cron jobs that do the last two  *)
(* for everybody (sigo-integration.service.ts,                             *)
(* sigo-certificates.service.ts, sigo-http.util.ts,                        *)
(* sigo-scheduler.service.ts).                                             *)
(*                                                                         *)
(* Every request waits for SIGO between what it reads and what it writes,  *)
(* and writes by id whatever the row has become.  A submission has one     *)
(* certificate.                                                            *)
(***************************************************************************)
EXTENDS Naturals, Sequences, FiniteSets

CONSTANTS
    Pedidos,         \* requests and cron jobs that may run at the same time
    Operacoes,       \* what each of them may do
    Lote,            \* submissions the cron takes in a turn ("take: 50")
    MaxTentativas,   \* times a request is sent (maxRetries + 1)
    MaxSubmissoes,   \* bound: rows of SigoSubmissao
    MaxFalhas        \* bound: failures of the network, of SIGO and of handlers

Endpoints == {"submeter", "certificar", "reconciliar", "sincronizar", "cronReconciliar",
              "cronCertificados"}

(* What the constants are (those of the instances are checked).           *)
SigoAssumption ==
    /\ Operacoes \in [Pedidos -> SUBSET Endpoints]
    /\ Lote \in Nat \ {0} /\ MaxTentativas \in Nat \ {0}
    /\ MaxSubmissoes \in Nat /\ MaxFalhas \in Nat

Estados == {"PENDENTE", "SUBMETIDA", "ACEITE", "REJEITADA", "ERRO"}
SubmissaoRow == [estado: Estados, enviada: BOOLEAN]
CertificadoRow == [estado: {"NENHUM", "PENDENTE", "DISPONIVEL"}, chave: BOOLEAN]

VARIABLES
    submissao,    \* SigoSubmissao; enviada: it has SIGO's reference and submittedAt
    enviadas,     \* the rows with submittedAt, in its order
    certificado,  \* SigoCertificadoFormando; chave: it has a storageKey
    ficheiro,     \* whether the PDF is in the storage
    remoto,       \* SIGO: what it has made of each submission
    emitido,      \* SIGO: the state of its certificate
    pedido,
    falhas

local == <<submissao, enviadas, certificado, ficheiro>>
vars == <<submissao, enviadas, certificado, ficheiro, remoto, emitido, pedido, falhas>>

Submissoes == DOMAIN submissao
Livre == [pc |-> "livre"]
Pcs == {"enviar", "submeter.gravar", "submeter.erro", "reconciliar.ler", "consultar",
        "reconciliar.gravar", "cert.contar", "cert.ler", "cert.linha", "cert.transferir",
        "cert.gravar"}

(* op: what was asked for; n: the submission; lista: those a cron job has  *)
(* left; resto: times the request may still be sent; enviada: the          *)
(* reference read is SIGO's; resposta: its answer; chave: the storageKey;  *)
(* forca: forceDownload.                                                   *)
PedidoRow ==
    {Livre} \cup
    [pc: Pcs, op: Endpoints, n: 1..MaxSubmissoes, lista: Seq(1..MaxSubmissoes), resto: 0..MaxTentativas,
     enviada: BOOLEAN, resposta: Estados \cup {"NENHUM", "DISPONIVEL"}, chave: BOOLEAN, forca: BOOLEAN]

Comeca(op, pc, n, lista) ==
    [pc |-> pc, op |-> op, n |-> n, lista |-> lista, resto |-> MaxTentativas, enviada |-> FALSE,
     resposta |-> "PENDENTE", chave |-> FALSE, forca |-> op = "sincronizar"]

TabelasVazias ==
    /\ submissao = <<>> /\ enviadas = <<>>
    /\ certificado = [n \in 1..MaxSubmissoes |-> [estado |-> "NENHUM", chave |-> FALSE]]
    /\ ficheiro = [n \in 1..MaxSubmissoes |-> FALSE]
    /\ remoto = [n \in 1..MaxSubmissoes |-> "ausente"]
    /\ emitido = [n \in 1..MaxSubmissoes |-> "NENHUM"]

Init == TabelasVazias /\ pedido = [p \in Pedidos |-> Livre] /\ falhas = 0

Aceita(p, op) == pedido[p] = Livre /\ op \in Operacoes[p]
Segue(p, r) == pedido' = [pedido EXCEPT ![p] = r]
Passa(p, pc) == Segue(p, [pedido[p] EXCEPT !.pc = pc])
MesmaSigo == UNCHANGED <<remoto, emitido>>
SemFalha == UNCHANGED falhas
Falha == falhas < MaxFalhas /\ falhas' = falhas + 1

(* A cron job goes on to its next submission, whatever became of this one. *)
Termina(p) ==
    LET r == pedido[p]
    IN  Segue(p, IF r.lista = <<>> THEN Livre
                 ELSE Comeca(r.op, IF r.op = "cronReconciliar" THEN "reconciliar.ler" ELSE "cert.contar",
                             Head(r.lista), Tail(r.lista)))

GravaEstado(n, e) == submissao' = [submissao EXCEPT ![n].estado = e]

(***************************************************************************)
(* submitAcaoInternal, also the first part of certificarAcao               *)
(***************************************************************************)
Submeter(p, op) ==
    /\ op \in {"submeter", "certificar"} /\ Aceita(p, op)
    /\ Len(submissao) < MaxSubmissoes
    /\ submissao' = Append(submissao, [estado |-> "PENDENTE", enviada |-> FALSE])
    /\ Segue(p, Comeca(op, "enviar", Len(submissao) + 1, <<>>))
    /\ UNCHANGED <<enviadas, certificado, ficheiro>> /\ MesmaSigo /\ SemFalha

Recebe(n) == remoto' = [remoto EXCEPT ![n] = IF @ = "ausente" THEN "recebida" ELSE @]

EnviarAceite(p) ==
    /\ pedido[p].pc = "enviar"
    /\ Recebe(pedido[p].n)
    /\ Segue(p, [pedido[p] EXCEPT !.pc = "submeter.gravar", !.resto = MaxTentativas])
    /\ UNCHANGED <<local, emitido>> /\ SemFalha

(* Not 2xx: BadRequestException, and the row stays as it is.               *)
EnviarRecusado(p) ==
    /\ pedido[p].pc = "enviar"
    /\ Termina(p)
    /\ UNCHANGED local /\ MesmaSigo /\ Falha

(* The request, or its answer, is lost; sigoHttpRequest sends it again.    *)
EnviarPerdido(p) ==
    LET r == pedido[p]
    IN  /\ r.pc = "enviar"
        /\ Segue(p, IF r.resto > 1 THEN [r EXCEPT !.resto = @ - 1] ELSE [r EXCEPT !.pc = "submeter.erro"])
        /\ Recebe(r.n) \/ UNCHANGED remoto
        /\ UNCHANGED <<local, emitido>> /\ Falha

(* The reference of SIGO, SUBMETIDA and submittedAt. *)
Submetida(n) ==
    /\ submissao' = [submissao EXCEPT ![n] = [estado |-> "SUBMETIDA", enviada |-> TRUE]]
    /\ enviadas' = Append(enviadas, n)

SubmeterGravar(p) ==
    LET r == pedido[p]
    IN  /\ r.pc = "submeter.gravar"
        /\ Submetida(r.n)
        /\ IF r.op = "certificar" THEN Passa(p, "reconciliar.ler") ELSE Termina(p)
        /\ UNCHANGED <<certificado, ficheiro>> /\ MesmaSigo /\ SemFalha

(* The update of the row fails, or the record in the audit log after it:   *)
(* the catch takes either for a failed submission.                         *)
SubmeterFalhar(p) ==
    LET r == pedido[p]
    IN  /\ r.pc = "submeter.gravar"
        /\ Submetida(r.n) \/ UNCHANGED <<submissao, enviadas>>
        /\ Passa(p, "submeter.erro")
        /\ UNCHANGED <<certificado, ficheiro>> /\ MesmaSigo /\ Falha

SubmeterErro(p) ==
    /\ pedido[p].pc = "submeter.erro"
    /\ GravaEstado(pedido[p].n, "ERRO")
    /\ Termina(p)
    /\ UNCHANGED <<enviadas, certificado, ficheiro>> /\ MesmaSigo /\ SemFalha

(***************************************************************************)
(* reconcileForTenant                                                      *)
(***************************************************************************)
Reconciliar(p, n) ==
    /\ Aceita(p, "reconciliar")
    /\ Segue(p, Comeca("reconciliar", "reconciliar.ler", n, <<>>))
    /\ UNCHANGED local /\ MesmaSigo /\ SemFalha

ReconciliarLer(p) ==
    LET r == pedido[p]
    IN  /\ r.pc = "reconciliar.ler"
        /\ Segue(p, [r EXCEPT !.pc = "consultar", !.enviada = submissao[r.n].enviada])
        /\ UNCHANGED local /\ MesmaSigo /\ SemFalha

(* parseSigoRemoteStatus.  SIGO may not know a submission by the reference *)
(* it was sent with, and one it has not received it does not know: not 2xx *)
(* is taken for ERRO.                                                      *)
NaoConhece(enviada) == IF enviada THEN {} ELSE {"ERRO"}
Resposta(n, enviada) ==
    CASE remoto[n] = "aceite"    -> {"ACEITE"} \cup NaoConhece(enviada)
      [] remoto[n] = "rejeitada" -> {"REJEITADA"} \cup NaoConhece(enviada)
      [] remoto[n] = "recebida"  -> {"PENDENTE", "SUBMETIDA"} \cup NaoConhece(enviada)
      [] remoto[n] = "ausente"   -> {"ERRO"}

(* fetchRemoteStatus *)
Consultar(p) ==
    LET r == pedido[p]
    IN  /\ r.pc = "consultar"
        /\ \/ /\ \E e \in Resposta(r.n, r.enviada) :
                    Segue(p, [r EXCEPT !.pc = "reconciliar.gravar", !.resposta = e, !.enviada = FALSE])
              /\ SemFalha
           \/ /\ Segue(p, [r EXCEPT !.pc = "reconciliar.gravar", !.resposta = "ERRO", !.enviada = FALSE])
              /\ Falha
           \/ Termina(p) /\ Falha
        /\ UNCHANGED local /\ MesmaSigo

ReconciliarGravar(p) ==
    LET r == pedido[p]
    IN  /\ r.pc = "reconciliar.gravar"
        /\ GravaEstado(r.n, IF r.resposta = "PENDENTE" THEN "SUBMETIDA" ELSE r.resposta)
        /\ IF r.resposta = "ACEITE" THEN Passa(p, "cert.ler") ELSE Termina(p)
        /\ UNCHANGED <<enviadas, certificado, ficheiro>> /\ MesmaSigo /\ SemFalha

(***************************************************************************)
(* syncForTenant, asked for by a user, after an acceptance or by the cron. *)
(* certificarAcao runs it once more, with forceDownload.                   *)
(***************************************************************************)
Sincronizar(p, n) ==
    /\ Aceita(p, "sincronizar")
    /\ Segue(p, Comeca("sincronizar", "cert.ler", n, <<>>))
    /\ UNCHANGED local /\ MesmaSigo /\ SemFalha

FimDoSync(p) ==
    LET r == pedido[p]
    IN  IF r.op = "certificar" /\ ~r.forca THEN Segue(p, [r EXCEPT !.pc = "cert.ler", !.forca = TRUE])
        ELSE Termina(p)

(* The list of certificates of an accepted submission. *)
CertLer(p) ==
    LET r == pedido[p]
    IN  /\ r.pc = "cert.ler"
        /\ \/ /\ SemFalha
              /\ IF submissao[r.n].estado # "ACEITE" \/ emitido[r.n] = "NENHUM" THEN FimDoSync(p)
                 ELSE Segue(p, [r EXCEPT !.pc = "cert.linha", !.resposta = emitido[r.n]])
           \/ Falha /\ FimDoSync(p)
        /\ UNCHANGED local /\ MesmaSigo

CertLinha(p) ==
    LET r == pedido[p]
        chave == certificado[r.n].chave
    IN  /\ r.pc = "cert.linha"
        /\ Segue(p, [r EXCEPT !.chave = chave,
                              !.pc = IF r.resposta = "DISPONIVEL" /\ (~chave \/ r.forca)
                                     THEN "cert.transferir" ELSE "cert.gravar"])
        /\ UNCHANGED local /\ MesmaSigo /\ SemFalha

(* Fault: the key is noted before the file is there. *)
FaltaChaveAntes(p) ==
    LET r == pedido[p]
    IN  /\ r.pc = "cert.transferir"
        /\ Segue(p, [r EXCEPT !.pc = "cert.gravar", !.chave = TRUE])
        /\ \/ ficheiro' = [ficheiro EXCEPT ![r.n] = TRUE] /\ SemFalha
           \/ Falha /\ UNCHANGED ficheiro
        /\ UNCHANGED <<submissao, enviadas, certificado>> /\ MesmaSigo

(* downloadRemoteCertificado and putObject; a failure leaves the key read. *)
CertTransferir(p) ==
    LET r == pedido[p]
    IN  /\ r.pc = "cert.transferir"
        /\ \/ /\ ficheiro' = [ficheiro EXCEPT ![r.n] = TRUE] /\ SemFalha
              /\ Segue(p, [r EXCEPT !.pc = "cert.gravar", !.chave = TRUE])
           \/ Falha /\ Passa(p, "cert.gravar") /\ UNCHANGED ficheiro
        /\ UNCHANGED <<submissao, enviadas, certificado>> /\ MesmaSigo

(* The upsert writes what was read and listed before the download.         *)
CertGravar(p) ==
    LET r == pedido[p]
    IN  /\ r.pc = "cert.gravar"
        /\ certificado' = [certificado EXCEPT ![r.n] =
                              [estado |-> IF r.chave THEN "DISPONIVEL" ELSE r.resposta, chave |-> r.chave]]
        /\ FimDoSync(p)
        /\ UNCHANGED <<submissao, enviadas, ficheiro>> /\ MesmaSigo /\ SemFalha

(***************************************************************************)
(* The cron jobs                                                           *)
(***************************************************************************)
Corre(p, op, pc, listas) ==
    /\ Aceita(p, op)
    /\ \E lista \in listas :
          lista # <<>> /\ Segue(p, Comeca(op, pc, Head(lista), Tail(lista)))
    /\ UNCHANGED local /\ MesmaSigo /\ SemFalha

(* The submissions of T, k of them, in any order. *)
Ordenacoes(T, k) == {s \in [1..k -> T] : \A i, j \in 1..k : s[i] = s[j] => i = j}

(* Fault: only SUBMETIDA is asked for. *)
FaltaSoSubmetidas == {n \in Submissoes : submissao[n].estado = "SUBMETIDA"}

PorDecidir == {n \in Submissoes : submissao[n].estado \in {"SUBMETIDA", "PENDENTE"}}

(* orderBy submittedAt asc: null comes last. *)
Antes(n, m) == \E i \in DOMAIN enviadas : enviadas[i] = n /\ \A j \in 1..i : enviadas[j] # m

ListasReconciliar ==
    LET k == IF Cardinality(PorDecidir) < Lote THEN Cardinality(PorDecidir) ELSE Lote
    IN  {s \in Ordenacoes(PorDecidir, k) :
            /\ \A i, j \in 1..k : i < j => ~Antes(s[j], s[i])
            /\ \A n \in PorDecidir : (\A i \in 1..k : s[i] # n) => \A i \in 1..k : ~Antes(n, s[i])}

(* reconciliarPendentes *)
CronReconciliar(p) == Corre(p, "cronReconciliar", "reconciliar.ler", ListasReconciliar)

(* sincronizarCertificadosAceites: all the accepted ones, when there are   *)
(* no more than the 30 it takes, by reconciledAt (in any order here).      *)
Aceites == {n \in Submissoes : submissao[n].estado = "ACEITE"}

CronCertificados(p) ==
    Corre(p, "cronCertificados", "cert.contar", Ordenacoes(Aceites, Cardinality(Aceites)))

(* Fault: what SIGO has not issued is tried again, not what failed. *)
FaltaContarPendentes(n) == certificado[n].estado = "PENDENTE"

SemPdf(n) == certificado[n].estado = "DISPONIVEL" /\ ~certificado[n].chave

CertContar(p) ==
    /\ pedido[p].pc = "cert.contar"
    /\ IF SemPdf(pedido[p].n) THEN Passa(p, "cert.ler") ELSE Termina(p)
    /\ UNCHANGED local /\ MesmaSigo /\ SemFalha

(***************************************************************************)
(* SIGO, and handlers that stop half way                                   *)
(***************************************************************************)
Decidir(n) ==
    /\ remoto[n] = "recebida"
    /\ \E d \in {"aceite", "rejeitada"} : remoto' = [remoto EXCEPT ![n] = d]
    /\ UNCHANGED <<local, emitido, pedido, falhas>>

Emitir(n) ==
    /\ remoto[n] = "aceite" /\ emitido[n] # "DISPONIVEL"
    /\ \E e \in {"PENDENTE", "DISPONIVEL"} \ {emitido[n]} : emitido' = [emitido EXCEPT ![n] = e]
    /\ UNCHANGED <<local, remoto, pedido, falhas>>

Interromper(p) ==
    /\ pedido[p] # Livre
    /\ Segue(p, Livre) /\ Falha
    /\ UNCHANGED local /\ MesmaSigo

Continua(p) ==
    \/ EnviarAceite(p) \/ SubmeterGravar(p) \/ SubmeterErro(p) \/ ReconciliarLer(p)
    \/ Consultar(p) \/ ReconciliarGravar(p)
    \/ CertContar(p) \/ CertLer(p) \/ CertLinha(p) \/ CertTransferir(p) \/ CertGravar(p)

Chega(p) ==
    \/ \E op \in Endpoints : Submeter(p, op)
    \/ \E n \in Submissoes : Reconciliar(p, n) \/ Sincronizar(p, n)

Cron(p) == CronReconciliar(p) \/ CronCertificados(p)

Next ==
    \/ \E p \in Pedidos : Continua(p) \/ Chega(p) \/ Cron(p)
                            \/ EnviarRecusado(p) \/ EnviarPerdido(p) \/ SubmeterFalhar(p)
                            \/ Interromper(p)
    \/ \E n \in Submissoes : Decidir(n) \/ Emitir(n)

(* A handler that has begun goes on, the cron jobs come back, and SIGO     *)
(* decides on what it has received.                                        *)
Justica ==
    /\ \A p \in Pedidos : WF_vars(Continua(p)) /\ WF_vars(Cron(p))
    /\ \A n \in 1..MaxSubmissoes : WF_vars(n \in Submissoes /\ Decidir(n))

Seguranca == Init /\ [][Next]_vars
Spec == Seguranca /\ Justica

-----------------------------------------------------------------------------
(* Types. *)
TypeOK ==
    /\ submissao \in Seq(SubmissaoRow) /\ Len(submissao) <= MaxSubmissoes
    /\ enviadas \in Seq(1..MaxSubmissoes)
    /\ certificado \in [1..MaxSubmissoes -> CertificadoRow]
    /\ ficheiro \in [1..MaxSubmissoes -> BOOLEAN]
    /\ remoto \in [1..MaxSubmissoes -> {"ausente", "recebida", "aceite", "rejeitada"}]
    /\ emitido \in [1..MaxSubmissoes -> {"NENHUM", "PENDENTE", "DISPONIVEL"}]
    /\ pedido \in [Pedidos -> PedidoRow] /\ falhas \in Nat

Decidida(n) == n \in Submissoes /\ remoto[n] \in {"aceite", "rejeitada"}
Decisao(n) == IF remoto[n] = "aceite" THEN "ACEITE" ELSE "REJEITADA"
Conhecida(n) == n \in Submissoes /\ submissao[n].estado \in {Decisao(n), "ERRO"}
AceiteSemPdf(n) ==
    /\ n \in Submissoes /\ submissao[n].estado = "ACEITE"
    /\ certificado[n] = [estado |-> "DISPONIVEL", chave |-> FALSE]

(* "Reconcilia submissões SIGO pendentes": what SIGO has decided arrives,  *)
(* although late answers overwrite newer ones, requests are refused after  *)
(* the row was created and the cron takes a few at a time -- unless a      *)
(* failed answer has made the submission an ERRO, which nobody asks again. *)
(* What SIGO has decided stays decided, so this is Decidida ~> Conhecida   *)
(* (DecisaoLevaA of SistemaProofs).                                        *)
DecisaoChega == \A n \in 1..MaxSubmissoes : []<>(Decidida(n) => Conhecida(n))

(* An accepted submission whose available certificate could not be         *)
(* transferred does not stay so: it is transferred later, unless a late    *)
(* answer takes the submission or the certificate out of the cron's hands. *)
(* P ~> ~P is []<>~P.                                                      *)
CertificadoTransferido == \A n \in 1..MaxSubmissoes : []<>~AceiteSemPdf(n)

(* A certificate shown as available for download has its file: whatever    *)
(* stopped, failed or ran at the same time, the key is written only after  *)
(* the file.                                                               *)
FicheiroGuardado == \A n \in 1..MaxSubmissoes : certificado[n].chave => ficheiro[n]
=============================================================================
