------------------------------ MODULE Faturacao ------------------------------
(***************************************************************************)
(* Invoicing of one tenant: apps/api/src/faturas/faturas.service.ts.       *)
(*                                                                         *)
(* Every HTTP request is a process that runs one handler of the service;   *)
(* `pedido[p]` holds its program counter and the values it read.  A step   *)
(* ends where the handler awaits the database or the tax authority (AT),   *)
(* so what was read before an await may be stale after it.                 *)
(*                                                                         *)
(* Statements are the unit of atomicity, also inside                       *)
(* `$transaction(async (tx) => ...)`: the tenant-scope extension           *)
(* (prisma-tenant.extension.ts) answers findUnique({id}) and update({id})  *)
(* of the scoped models SerieFaturacao and FaturaComercial through the     *)
(* root client, outside the transaction, so each of them commits alone.    *)
(* Updates with nested writes and unscoped models stay in the transaction. *)
(***************************************************************************)
EXTENDS Naturals, FiniteSets

CONSTANTS
    Faturas,        \* rows of FaturaComercial the instance may create
    Series,         \* rows of SerieFaturacao (all of them ativo: no code clears it)
    SeriesFT,       \* those of tipo FT
    NotaDe,         \* NotaDe[s]: the NC series with the codigo of the FT series s
    Propostas,      \* proposals in estado ACEITE
    Totais,         \* totals (valorCentavos + ivaCentavos) a document may have
    Codigos,        \* AT validation codes
    CodigoDaAt,     \* CodigoDaAt[s]: the code AT gives to series s
    Nenhum,         \* null in a reference or code column
    Pedidos,        \* concurrent HTTP requests
    Operacoes,      \* Operacoes[p]: the endpoints the client of request p calls
    AutoSerie,      \* AT_SERIES_AUTO_REGISTER = 1 or AT_SERIES_MODE # disabled
    Interrupcoes,   \* may the process die, or a statement fail, between two steps?
    MaxNumero       \* bound: emissions stop when proximoNumero reaches it

ASSUME SeriesAssumption ==
    /\ Series # {}
    /\ SeriesFT \subseteq Series
    /\ NotaDe \in [SeriesFT -> Series \ SeriesFT]
ASSUME CodigosAssumption ==
    /\ CodigoDaAt \in [Series -> Codigos]
    /\ Nenhum \notin Codigos \cup Faturas \cup Propostas

Endpoints ==
    {"create", "faturarProposta", "update", "emitir", "comunicarAt", "reenviarAt", "anular",
     "notaCredito", "comunicarSerie", "updateSerie", "updateConfig"}

ASSUME PedidosAssumption ==
    /\ Operacoes \in [Pedidos -> SUBSET Endpoints]
    /\ AutoSerie \in BOOLEAN
    /\ Interrupcoes \in BOOLEAN
    /\ MaxNumero \in Nat
ASSUME TotaisAssumption == Totais \in SUBSET Nat /\ 0 \notin Totais

VARIABLES
    fatura,         \* FaturaComercial rows
    serie,          \* SerieFaturacao rows
    config,         \* ConfigFaturacaoTenant: the fields that gate communication
    comunicacoes,   \* FaturaComunicacaoAt: outcomes logged for each fatura
    atRegistados,   \* AT: documents registered, as <<serie, numero>>
    atAnulados,     \* AT: registered documents whose status is "A"
    pedido          \* the requests in progress

vars == <<fatura, serie, config, comunicacoes, atRegistados, atAnulados, pedido>>

-----------------------------------------------------------------------------
(* Rows *)

Estados == {"INEXISTENTE", "RASCUNHO", "EMITIDA", "COMUNICADA_AT", "ANULADA"}

FaturaRow ==
    [estado: Estados, serie: Series, numero: Nat, codigo: Codigos \cup {Nenhum},
     total: Nat, assinado: Nat, anterior: Nat,
     ref: Faturas \cup {Nenhum}, proposta: Propostas \cup {Nenhum}]

SerieRow ==
    [proximoNumero: Nat \ {0}, codigo: Codigos \cup {Nenhum},
     estadoAt: {"PENDENTE", "REGISTADA"}, numInicial: Nat]

ConfigRow == [licenca: BOOLEAN, ativa: BOOLEAN, automatica: BOOLEAN]

PassosEmissao ==
    {"emitir.serie", "emitir.ler", "emitir.anterior", "emitir.gravarSerie", "emitir.gravarFatura"}
PassosSerie == {"serie.at", "serie.gravar"}
PassosDocumento ==
    {"emitir.auto", "com.at", "com.gravar", "com.log", "anular.at", "anular.resposta", "anular.gravar"}
PassosNota == {"nc.procurar", "nc.criar"}
Passos ==
    PassosEmissao \cup PassosSerie \cup PassosDocumento \cup PassosNota
      \cup {"livre", "update.gravar", "proposta.criar", "updateSerie.gravar", "config.gravar"}

(* The local variables of a handler; fields a handler does not use keep    *)
(* the values of Livre.                                                    *)
PedidoRow ==
    [pc: Passos, emite: BOOLEAN, f: Faturas \cup {Nenhum}, s: Series, q: Propostas \cup {Nenhum},
     numero: Nat, total: Nat, codigo: Codigos \cup {Nenhum}, anterior: Nat,
     ok: BOOLEAN, marcar: BOOLEAN, config: ConfigRow]

ConfigInicial == [licenca |-> FALSE, ativa |-> FALSE, automatica |-> FALSE]

Livre ==
    [pc |-> "livre", emite |-> FALSE, f |-> Nenhum, s |-> CHOOSE s \in Series : TRUE, q |-> Nenhum,
     numero |-> 0, total |-> 0, codigo |-> Nenhum, anterior |-> 0,
     ok |-> FALSE, marcar |-> FALSE, config |-> ConfigInicial]

Init ==
    /\ fatura = [f \in Faturas |->
                   [estado |-> "INEXISTENTE", serie |-> CHOOSE s \in Series : TRUE, numero |-> 0,
                    codigo |-> Nenhum, total |-> 0, assinado |-> 0, anterior |-> 0,
                    ref |-> Nenhum, proposta |-> Nenhum]]
    /\ serie = [s \in Series |->
                  [proximoNumero |-> 1, codigo |-> Nenhum, estadoAt |-> "PENDENTE", numInicial |-> 0]]
    /\ config \in {c \in ConfigRow : c.ativa => c.licenca}
    /\ comunicacoes = [f \in Faturas |-> {}]
    /\ atRegistados = {}
    /\ atAnulados = {}
    /\ pedido = [p \in Pedidos |-> Livre]

-----------------------------------------------------------------------------
(* Helpers *)

(* The request p is at step pc of its handler. *)
Em(p, pc) == pedido[p].pc = pc

(* A request that is not running takes a call of the endpoint op. *)
Aceita(p, op) == Em(p, "livre") /\ op \in Operacoes[p]

(* The handler of p goes on with the local variables r. *)
Segue(p, r) == pedido' = [pedido EXCEPT ![p] = r]

(* The handler of p returns or throws. *)
Termina(p) == Segue(p, Livre)

(* estado in ["EMITIDA", "COMUNICADA_AT"], and with "ANULADA": documents   *)
(* that took a number of their series.                                     *)
EmVigor(f) == fatura[f].estado \in {"EMITIDA", "COMUNICADA_AT"}
Emitida(f) == EmVigor(f) \/ fatura[f].estado = "ANULADA"

ComunicacaoPermitida(c) == c.licenca /\ c.ativa

SerieRegistada(s) == serie[s].estadoAt = "REGISTADA" /\ serie[s].codigo # Nenhum

(* The document AT identifies by series and number. *)
Documento(r) == <<r.s, r.numero>>

(* Fault: annulled documents are left out of the chain. *)
FaltaNumerosEmVigor(s, f) ==
    {fatura[g].numero : g \in {h \in Faturas \ {f} : fatura[h].serie = s /\ EmVigor(h)}}

(* The numbers of the other emitted documents of the series.               *)
NumerosEmitidos(s, f) ==
    {fatura[g].numero : g \in {h \in Faturas \ {f} : fatura[h].serie = s /\ Emitida(h)}}

-----------------------------------------------------------------------------
(* Drafts *)

(* Fault: an estado the enum does not have. *)
FaltaInserir(f, s, t, ref, q) ==
    fatura' = [fatura EXCEPT ![f] =
        [fatura[f] EXCEPT !.estado = "PENDENTE", !.serie = s, !.total = t, !.ref = ref, !.proposta = q]]

(* createFaturaInternal: a RASCUNHO with its lines and totals.             *)
Inserir(f, s, t, ref, q) ==
    fatura' = [fatura EXCEPT ![f] =
        [fatura[f] EXCEPT !.estado = "RASCUNHO", !.serie = s, !.total = t, !.ref = ref, !.proposta = q]]

(* create: nothing that it reads can change what it inserts.               *)
Create(f, s, t) ==
    /\ \E p \in Pedidos : Aceita(p, "create")
    /\ fatura[f].estado = "INEXISTENTE"
    /\ Inserir(f, s, t, Nenhum, Nenhum)
    /\ UNCHANGED <<serie, config, comunicacoes, atRegistados, atAnulados, pedido>>

(* createFromProposta, up to the check that the proposal has no invoice.   *)
FaturarPropostaLer(p, q, s, t) ==
    /\ Aceita(p, "faturarProposta")
    /\ \A f \in Faturas : fatura[f].proposta # q
    /\ Segue(p, [Livre EXCEPT !.pc = "proposta.criar", !.q = q, !.s = s, !.total = t])
    /\ UNCHANGED <<fatura, serie, config, comunicacoes, atRegistados, atAnulados>>

(* Fault: propostaId without @unique. *)
FaltaFaturarSemUnico(p) ==
    /\ Em(p, "proposta.criar")
    /\ Termina(p)
    /\ UNCHANGED <<serie, config, comunicacoes, atRegistados, atAnulados>>
    /\ \E f \in Faturas : /\ fatura[f].estado = "INEXISTENTE"
                         /\ Inserir(f, pedido[p].s, pedido[p].total, Nenhum, pedido[p].q)

(* createFromProposta, the insert; propostaId is @unique, so it fails when *)
(* another request inserted first.                                         *)
FaturarPropostaCriar(p) ==
    /\ Em(p, "proposta.criar")
    /\ Termina(p)
    /\ UNCHANGED <<serie, config, comunicacoes, atRegistados, atAnulados>>
    /\ \/ /\ \A f \in Faturas : fatura[f].proposta # pedido[p].q
          /\ \E f \in Faturas :
                /\ fatura[f].estado = "INEXISTENTE"
                /\ Inserir(f, pedido[p].s, pedido[p].total, Nenhum, pedido[p].q)
       \/ /\ \E f \in Faturas : fatura[f].proposta = pedido[p].q
          /\ UNCHANGED fatura

(* Fault: emitted invoices may be edited. *)
FaltaUpdateEmitida(p, f, t) ==
    /\ Aceita(p, "update")
    /\ fatura[f].estado \notin {"INEXISTENTE", "ANULADA"}
    /\ Segue(p, [Livre EXCEPT !.pc = "update.gravar", !.f = f, !.total = t])
    /\ UNCHANGED <<fatura, serie, config, comunicacoes, atRegistados, atAnulados>>

(* update, the read: only drafts; t is the total of the lines in the dto,  *)
(* or of the lines just read.                                              *)
UpdateLer(p, f, t) ==
    /\ Aceita(p, "update")
    /\ fatura[f].estado = "RASCUNHO"
    /\ Segue(p, [Livre EXCEPT !.pc = "update.gravar", !.f = f, !.total = t])
    /\ UNCHANGED <<fatura, serie, config, comunicacoes, atRegistados, atAnulados>>

(* update, the transaction: deleteMany of the lines and update with nested *)
(* create; where: { id }, estado is not tested again.                      *)
UpdateGravar(p) ==
    /\ Em(p, "update.gravar")
    /\ fatura' = [fatura EXCEPT ![pedido[p].f].total = pedido[p].total]
    /\ Termina(p)
    /\ UNCHANGED <<serie, config, comunicacoes, atRegistados, atAnulados>>

-----------------------------------------------------------------------------
(* Emission *)

(* Fault: the test of RASCUNHO is missing. *)
FaltaEmitirEmitida(p, f) ==
    /\ Aceita(p, "emitir")
    /\ fatura[f].estado \notin {"INEXISTENTE", "ANULADA"}
    /\ Segue(p, [Livre EXCEPT !.pc = "emitir.serie", !.emite = TRUE, !.f = f, !.s = fatura[f].serie,
                              !.total = fatura[f].total])
    /\ UNCHANGED <<fatura, serie, config, comunicacoes, atRegistados, atAnulados>>

(* emitir, the first read: only drafts; the totals it signs and the        *)
(* configuration it uses for automatic communication are read here.        *)
EmitirLer(p, f) ==
    /\ Aceita(p, "emitir")
    /\ fatura[f].estado = "RASCUNHO"
    /\ Segue(p, [Livre EXCEPT !.pc = "emitir.serie", !.emite = TRUE, !.f = f, !.s = fatura[f].serie,
                              !.total = fatura[f].total,
                              !.marcar = ComunicacaoPermitida(config) /\ config.automatica])
    /\ UNCHANGED <<fatura, serie, config, comunicacoes, atRegistados, atAnulados>>

(* ensureSerieComunicadaAt: registers the series with AT when it is not.   *)
EnsureSerieComunicadaAt(p) ==
    /\ Em(p, "emitir.serie")
    /\ LET s == pedido[p].s
           inicial == IF serie[s].numInicial = 0 THEN serie[s].proximoNumero ELSE serie[s].numInicial
       IN  \/ /\ SerieRegistada(s) \/ ~AutoSerie
              /\ Segue(p, [pedido[p] EXCEPT !.pc = "emitir.ler"])
           \/ /\ ~SerieRegistada(s) /\ AutoSerie
              /\ Segue(p, [pedido[p] EXCEPT !.pc = "serie.at", !.numero = inicial])
    /\ UNCHANGED <<fatura, serie, config, comunicacoes, atRegistados, atAnulados>>

(* Fault: a series without code still emits. *)
FaltaLerSerieSemCodigo(p) ==
    /\ Em(p, "emitir.ler")
    /\ serie[pedido[p].s].proximoNumero <= MaxNumero
    /\ Segue(p, [pedido[p] EXCEPT !.pc = "emitir.anterior",
                                  !.numero = serie[pedido[p].s].proximoNumero,
                                  !.codigo = serie[pedido[p].s].codigo])
    /\ UNCHANGED <<fatura, serie, config, comunicacoes, atRegistados, atAnulados>>

(* emitir, first statement of the transaction: the number and the code;    *)
(* without a code it throws.                                               *)
LerSerie(p) ==
    /\ Em(p, "emitir.ler")
    /\ LET s == pedido[p].s
       IN  \/ /\ serie[s].codigo # Nenhum
              /\ serie[s].proximoNumero <= MaxNumero
              /\ Segue(p, [pedido[p] EXCEPT !.pc = "emitir.anterior",
                                            !.numero = serie[s].proximoNumero,
                                            !.codigo = serie[s].codigo])
           \/ /\ serie[s].codigo = Nenhum
              /\ Termina(p)
    /\ UNCHANGED <<fatura, serie, config, comunicacoes, atRegistados, atAnulados>>

(* emitir, ultimaEmitida: the document with the highest number, to whose   *)
(* signature this one chains; 0 (an empty hash) when there is none.        *)
LerAnterior(p) ==
    /\ Em(p, "emitir.anterior")
    /\ \E n \in NumerosEmitidos(pedido[p].s, pedido[p].f) \cup {0} :
          /\ \A m \in NumerosEmitidos(pedido[p].s, pedido[p].f) : m <= n
          /\ Segue(p, [pedido[p] EXCEPT !.pc = "emitir.gravarSerie", !.anterior = n])
    /\ UNCHANGED <<fatura, serie, config, comunicacoes, atRegistados, atAnulados>>

(* Faults: the number is not advanced; it is advanced by two. *)
FaltaProximoIgual(p) ==
    /\ Em(p, "emitir.gravarSerie")
    /\ serie' = [serie EXCEPT ![pedido[p].s].proximoNumero = pedido[p].numero]
    /\ Segue(p, [pedido[p] EXCEPT !.pc = "emitir.gravarFatura"])
    /\ UNCHANGED <<fatura, config, comunicacoes, atRegistados, atAnulados>>

FaltaProximoSalta(p) ==
    /\ Em(p, "emitir.gravarSerie")
    /\ serie' = [serie EXCEPT ![pedido[p].s].proximoNumero = pedido[p].numero + 2]
    /\ Segue(p, [pedido[p] EXCEPT !.pc = "emitir.gravarFatura"])
    /\ UNCHANGED <<fatura, config, comunicacoes, atRegistados, atAnulados>>

(* emitir, tx.serieFaturacao.update({ proximoNumero: numero + 1 }).        *)
GravarProximoNumero(p) ==
    /\ Em(p, "emitir.gravarSerie")
    /\ serie' = [serie EXCEPT ![pedido[p].s].proximoNumero = pedido[p].numero + 1]
    /\ Segue(p, [pedido[p] EXCEPT !.pc = "emitir.gravarFatura"])
    /\ UNCHANGED <<fatura, config, comunicacoes, atRegistados, atAnulados>>

(* emitir, tx.faturaComercial.update: number, ATCUD, signature, EMITIDA.   *)
GravarEmissao(p) ==
    /\ Em(p, "emitir.gravarFatura")
    /\ LET r == pedido[p]
       IN  /\ fatura' = [fatura EXCEPT ![r.f] =
                [fatura[r.f] EXCEPT !.estado = "EMITIDA", !.numero = r.numero, !.codigo = r.codigo,
                                    !.assinado = r.total, !.anterior = r.anterior]]
           /\ IF r.marcar
              THEN Segue(p, [r EXCEPT !.pc = "emitir.auto"])
              ELSE Termina(p)
    /\ UNCHANGED <<serie, config, comunicacoes, atRegistados, atAnulados>>

-----------------------------------------------------------------------------
(* Communication of documents to AT *)

(* buildDocumentoAtInput after loadFaturaParaComunicacaoAt.                *)
ComDocumento(f, marcar) ==
    [Livre EXCEPT !.pc = "com.at", !.f = f, !.s = fatura[f].serie, !.numero = fatura[f].numero,
                  !.marcar = marcar]

(* tentarComunicacaoAutomatica after the emission; errors are swallowed.   *)
ComunicarAutomatica(p) ==
    /\ Em(p, "emitir.auto")
    /\ IF pedido[p].f \in Faturas /\ EmVigor(pedido[p].f)
       THEN Segue(p, ComDocumento(pedido[p].f, TRUE))
       ELSE Termina(p)
    /\ UNCHANGED <<fatura, serie, config, comunicacoes, atRegistados, atAnulados>>

(* comunicarAt *)
ComunicarAt(p, f) ==
    /\ Aceita(p, "comunicarAt")
    /\ EmVigor(f)
    /\ ComunicacaoPermitida(config)
    /\ Segue(p, ComDocumento(f, TRUE))
    /\ UNCHANGED <<fatura, serie, config, comunicacoes, atRegistados, atAnulados>>

(* Fault: an annulled invoice may be sent again, and is marked. *)
FaltaReenviarAnulada(p, f) ==
    /\ Aceita(p, "reenviarAt")
    /\ Emitida(f)
    /\ ComunicacaoPermitida(config)
    /\ Segue(p, ComDocumento(f, TRUE))
    /\ UNCHANGED <<fatura, serie, config, comunicacoes, atRegistados, atAnulados>>

(* reenviarAt: marks the invoice only if it was EMITIDA when read.         *)
ReenviarAt(p, f) ==
    /\ Aceita(p, "reenviarAt")
    /\ EmVigor(f)
    /\ ComunicacaoPermitida(config)
    /\ Segue(p, ComDocumento(f, fatura[f].estado = "EMITIDA"))
    /\ UNCHANGED <<fatura, serie, config, comunicacoes, atRegistados, atAnulados>>

(* AT, RegisterInvoice: a new document is registered, and the answer may   *)
(* be lost (NETWORK); a duplicate, or any document, may be refused.        *)
AtRegistarDocumento(p) ==
    /\ Em(p, "com.at")
    /\ \/ /\ Documento(pedido[p]) \notin atRegistados
          /\ atRegistados' = atRegistados \cup {Documento(pedido[p])}
          /\ \E ok \in BOOLEAN : Segue(p, [pedido[p] EXCEPT !.pc = "com.gravar", !.ok = ok])
       \/ /\ Segue(p, [pedido[p] EXCEPT !.pc = "com.gravar", !.ok = FALSE])
          /\ UNCHANGED atRegistados
    /\ UNCHANGED <<fatura, serie, config, comunicacoes, atAnulados>>

(* Fault: the outcome is not tested. *)
FaltaMarcarSempre(p) ==
    /\ Em(p, "com.gravar")
    /\ pedido[p].marcar
    /\ fatura' = [fatura EXCEPT ![pedido[p].f].estado = "COMUNICADA_AT"]
    /\ Segue(p, [pedido[p] EXCEPT !.pc = "com.log"])
    /\ UNCHANGED <<serie, config, comunicacoes, atRegistados, atAnulados>>

(* executarComunicacaoAt: on success the update of estado, which commits   *)
(* alone; estado is not tested again.                                      *)
MarcarComunicada(p) ==
    /\ Em(p, "com.gravar")
    /\ pedido[p].ok /\ pedido[p].marcar
    /\ fatura' = [fatura EXCEPT ![pedido[p].f].estado = "COMUNICADA_AT"]
    /\ Segue(p, [pedido[p] EXCEPT !.pc = "com.log"])
    /\ UNCHANGED <<serie, config, comunicacoes, atRegistados, atAnulados>>

(* Fault: only failures are logged. *)
FaltaRegistarSoErros(p) ==
    /\ \/ Em(p, "com.log")
       \/ Em(p, "com.gravar") /\ ~(pedido[p].ok /\ pedido[p].marcar)
    /\ comunicacoes' = [comunicacoes EXCEPT ![pedido[p].f] = @ \cup ({pedido[p].ok} \ {TRUE})]
    /\ Termina(p)
    /\ UNCHANGED <<fatura, serie, config, atRegistados, atAnulados>>

(* executarComunicacaoAt: the log row commits with the transaction.        *)
RegistarComunicacao(p) ==
    /\ \/ Em(p, "com.log")
       \/ Em(p, "com.gravar") /\ ~(pedido[p].ok /\ pedido[p].marcar)
    /\ comunicacoes' = [comunicacoes EXCEPT ![pedido[p].f] = @ \cup {pedido[p].ok}]
    /\ Termina(p)
    /\ UNCHANGED <<fatura, serie, config, atRegistados, atAnulados>>

-----------------------------------------------------------------------------
(* Annulment and credit notes *)

(* anular, the read: a communicated document is annulled at AT first.      *)
AnularLer(p, f) ==
    /\ Aceita(p, "anular")
    /\ EmVigor(f)
    /\ fatura[f].estado = "COMUNICADA_AT" => ComunicacaoPermitida(config)
    /\ Segue(p, [Livre EXCEPT !.pc = IF fatura[f].estado = "COMUNICADA_AT"
                                     THEN "anular.at" ELSE "anular.gravar",
                              !.f = f, !.s = fatura[f].serie, !.numero = fatura[f].numero])
    /\ UNCHANGED <<fatura, serie, config, comunicacoes, atRegistados, atAnulados>>

(* AT, ChangeInvoiceStatus "A": applied to a registered document, the      *)
(* answer may be lost; or refused.                                         *)
AtAnularDocumento(p) ==
    /\ Em(p, "anular.at")
    /\ \/ /\ Documento(pedido[p]) \in atRegistados
          /\ atAnulados' = atAnulados \cup {Documento(pedido[p])}
          /\ \E ok \in BOOLEAN : Segue(p, [pedido[p] EXCEPT !.pc = "anular.resposta", !.ok = ok])
       \/ /\ Segue(p, [pedido[p] EXCEPT !.pc = "anular.resposta", !.ok = FALSE])
          /\ UNCHANGED atAnulados
    /\ UNCHANGED <<fatura, serie, config, comunicacoes, atRegistados>>

(* anular, the answer: logged; a refusal throws.                           *)
AnularResposta(p) ==
    /\ Em(p, "anular.resposta")
    /\ comunicacoes' = [comunicacoes EXCEPT ![pedido[p].f] = @ \cup {pedido[p].ok}]
    /\ IF pedido[p].ok
       THEN Segue(p, [pedido[p] EXCEPT !.pc = "anular.gravar"])
       ELSE Termina(p)
    /\ UNCHANGED <<fatura, serie, config, atRegistados, atAnulados>>

(* anular, the update to ANULADA; no FaturaPedidoAnulacao is pending, no   *)
(* code creates one.                                                       *)
AnularGravar(p) ==
    /\ Em(p, "anular.gravar")
    /\ fatura' = [fatura EXCEPT ![pedido[p].f].estado = "ANULADA"]
    /\ Termina(p)
    /\ UNCHANGED <<serie, config, comunicacoes, atRegistados, atAnulados>>

(* A credit note of f that is still in force. *)
NotaActiva(g, f) ==
    /\ fatura[g].ref = f
    /\ fatura[g].estado \in {"RASCUNHO", "EMITIDA", "COMUNICADA_AT"}
    /\ fatura[g].serie \notin SeriesFT

(* criarNotaCredito, the read of the original.                             *)
NotaCreditoLer(p, f) ==
    /\ Aceita(p, "notaCredito")
    /\ EmVigor(f)
    /\ fatura[f].serie \in SeriesFT
    /\ Segue(p, [Livre EXCEPT !.pc = "nc.procurar", !.f = f, !.s = NotaDe[fatura[f].serie],
                              !.total = fatura[f].total])
    /\ UNCHANGED <<fatura, serie, config, comunicacoes, atRegistados, atAnulados>>

(* Fault: an active credit note is not looked for. *)
FaltaNotaSemProcurar(p) ==
    /\ Em(p, "nc.procurar")
    /\ Segue(p, [pedido[p] EXCEPT !.pc = "nc.criar"])
    /\ UNCHANGED <<fatura, serie, config, comunicacoes, atRegistados, atAnulados>>

(* criarNotaCredito, ncExistente: throws when one is active.               *)
NotaCreditoProcurar(p) ==
    /\ Em(p, "nc.procurar")
    /\ IF \E g \in Faturas : NotaActiva(g, pedido[p].f)
       THEN Termina(p)
       ELSE Segue(p, [pedido[p] EXCEPT !.pc = "nc.criar"])
    /\ UNCHANGED <<fatura, serie, config, comunicacoes, atRegistados, atAnulados>>

(* criarNotaCredito, the insert; no constraint limits the references.      *)
NotaCreditoCriar(p) ==
    /\ Em(p, "nc.criar")
    /\ \E g \in Faturas :
          /\ fatura[g].estado = "INEXISTENTE"
          /\ Inserir(g, pedido[p].s, pedido[p].total, pedido[p].f, Nenhum)
    /\ Termina(p)
    /\ UNCHANGED <<serie, config, comunicacoes, atRegistados, atAnulados>>

-----------------------------------------------------------------------------
(* Series and configuration *)

(* comunicarSerieAt (comunicarTodasSeriesAt calls it series by series);    *)
(* returns at once when the series is registered.                          *)
ComunicarSerieAt(p, s) ==
    /\ Aceita(p, "comunicarSerie")
    /\ config.licenca
    /\ ~SerieRegistada(s)
    /\ Segue(p, [Livre EXCEPT !.pc = "serie.at", !.s = s,
                              !.numero = IF serie[s].numInicial = 0
                                         THEN serie[s].proximoNumero ELSE serie[s].numInicial])
    /\ UNCHANGED <<fatura, serie, config, comunicacoes, atRegistados, atAnulados>>

(* AT, registarSerie: refused, or accepted with the code of the series, or *)
(* accepted with a code the parser does not recognise.                     *)
AtRegistarSerie(p) ==
    /\ Em(p, "serie.at")
    /\ \E ok \in BOOLEAN, c \in {Nenhum, CodigoDaAt[pedido[p].s]} :
          Segue(p, [pedido[p] EXCEPT !.pc = "serie.gravar", !.ok = ok, !.codigo = c])
    /\ UNCHANGED <<fatura, serie, config, comunicacoes, atRegistados, atAnulados>>

(* comunicarSerieInterno, after the answer; called by emitir it goes on    *)
(* with the transaction, a refusal throws.                                 *)
GravarSerieAt(p) ==
    /\ Em(p, "serie.gravar")
    /\ LET r == pedido[p]
       IN  /\ serie' = IF r.ok /\ r.codigo # Nenhum
                       THEN [serie EXCEPT ![r.s] = [serie[r.s] EXCEPT !.codigo = r.codigo,
                                                                      !.estadoAt = "REGISTADA",
                                                                      !.numInicial = r.numero]]
                       ELSE serie
           /\ IF r.ok /\ r.emite
              THEN Segue(p, [r EXCEPT !.pc = "emitir.ler"])
              ELSE Termina(p)
    /\ UNCHANGED <<fatura, config, comunicacoes, atRegistados, atAnulados>>

(* updateSerie, up to the count of numbered documents: c is the code of    *)
(* the dto, `presente` whether the dto has one.                            *)
UpdateSerieLer(p, s, presente, c) ==
    /\ Aceita(p, "updateSerie")
    /\ presente => \A f \in Faturas : ~(fatura[f].serie = s /\ fatura[f].numero # 0)
    /\ ~presente => c = Nenhum
    /\ Segue(p, [Livre EXCEPT !.pc = "updateSerie.gravar", !.s = s, !.codigo = c])
    /\ UNCHANGED <<fatura, serie, config, comunicacoes, atRegistados, atAnulados>>

(* updateSerie, the update: an absent or empty code writes null.           *)
UpdateSerieGravar(p) ==
    /\ Em(p, "updateSerie.gravar")
    /\ LET r == pedido[p]
       IN  serie' = [serie EXCEPT ![r.s] =
               [serie[r.s] EXCEPT !.codigo = r.codigo,
                                  !.estadoAt = IF r.codigo # Nenhum THEN "REGISTADA"
                                               ELSE serie[r.s].estadoAt]]
    /\ Termina(p)
    /\ UNCHANGED <<fatura, config, comunicacoes, atRegistados, atAnulados>>

(* Fault: communication is activated without the licence. *)
FaltaConfigSemLicenca(p, c) ==
    /\ Aceita(p, "updateConfig")
    /\ config.licenca => c.licenca
    /\ Segue(p, [Livre EXCEPT !.pc = "config.gravar", !.config = c])
    /\ UNCHANGED <<fatura, serie, config, comunicacoes, atRegistados, atAnulados>>

(* applyConfigUpdate, up to the checks: the row it will write is computed  *)
(* from the one it read; communication needs the licence.                  *)
UpdateConfigLer(p, c) ==
    /\ Aceita(p, "updateConfig")
    /\ config.licenca => c.licenca
    /\ c.ativa => c.licenca
    /\ Segue(p, [Livre EXCEPT !.pc = "config.gravar", !.config = c])
    /\ UNCHANGED <<fatura, serie, config, comunicacoes, atRegistados, atAnulados>>

(* applyConfigUpdate, the update: all the fields are written.              *)
UpdateConfigGravar(p) ==
    /\ Em(p, "config.gravar")
    /\ config' = pedido[p].config
    /\ Termina(p)
    /\ UNCHANGED <<fatura, serie, comunicacoes, atRegistados, atAnulados>>

-----------------------------------------------------------------------------
(* The process dies or a statement fails: what was committed stays.        *)
Interromper(p) ==
    /\ Interrupcoes
    /\ ~Em(p, "livre")
    /\ Termina(p)
    /\ UNCHANGED <<fatura, serie, config, comunicacoes, atRegistados, atAnulados>>

(* The first step of a handler. *)
Chamada(p) ==
    \/ \E q \in Propostas, s \in SeriesFT, t \in Totais : FaturarPropostaLer(p, q, s, t)
    \/ \E f \in Faturas, t \in Totais : UpdateLer(p, f, t)
    \/ \E f \in Faturas : \/ EmitirLer(p, f)
                          \/ ComunicarAt(p, f)
                          \/ ReenviarAt(p, f)
                          \/ AnularLer(p, f)
                          \/ NotaCreditoLer(p, f)
    \/ \E s \in Series : ComunicarSerieAt(p, s)
    \/ \E s \in Series, presente \in BOOLEAN, c \in Codigos \cup {Nenhum} :
          UpdateSerieLer(p, s, presente, c)
    \/ \E c \in ConfigRow : UpdateConfigLer(p, c)

(* A later step of a handler, or AT's. *)
Passo(p) ==
    \/ FaturarPropostaCriar(p)
    \/ UpdateGravar(p)
    \/ EnsureSerieComunicadaAt(p)
    \/ LerSerie(p)
    \/ LerAnterior(p)
    \/ GravarProximoNumero(p)
    \/ GravarEmissao(p)
    \/ ComunicarAutomatica(p)
    \/ AtRegistarDocumento(p)
    \/ MarcarComunicada(p)
    \/ RegistarComunicacao(p)
    \/ AtAnularDocumento(p)
    \/ AnularResposta(p)
    \/ AnularGravar(p)
    \/ NotaCreditoProcurar(p)
    \/ NotaCreditoCriar(p)
    \/ AtRegistarSerie(p)
    \/ GravarSerieAt(p)
    \/ UpdateSerieGravar(p)
    \/ UpdateConfigGravar(p)

Next ==
    \/ \E f \in Faturas, s \in Series, t \in Totais : Create(f, s, t)
    \/ \E p \in Pedidos : Chamada(p) \/ Passo(p) \/ Interromper(p)

Spec == Init /\ [][Next]_vars
-----------------------------------------------------------------------------
(* Properties *)

(* Every row and every local variable of a handler has its type.           *)
TypeOK ==
    /\ fatura \in [Faturas -> FaturaRow]
    /\ serie \in [Series -> SerieRow]
    /\ config \in ConfigRow
    /\ comunicacoes \in [Faturas -> SUBSET BOOLEAN]
    /\ atRegistados \subseteq Series \X Nat
    /\ atAnulados \subseteq Series \X Nat
    /\ pedido \in [Pedidos -> PedidoRow]

(* At most one request emits: one person, one tab.                         *)
Emissores == {p \in Pedidos : "emitir" \in Operacoes[p]}
EmissorUnico == \A a, b \in Emissores : a = b

(* emitir: two documents of a series never share a number, although the    *)
(* number is read, and written back, by separate statements.               *)
NumeracaoUnica ==
    \A f, g \in Faturas :
        (f # g /\ fatura[f].numero # 0 /\ fatura[f].serie = fatura[g].serie)
          => fatura[f].numero # fatura[g].numero

(* emitir: the signature of a document chains to the document emitted just *)
(* before it in its series, annulled or not.                               *)
CadeiaHash ==
    \A f \in Faturas : Emitida(f) =>
        /\ fatura[f].anterior < fatura[f].numero
        /\ fatura[f].anterior # 0 =>
              \E g \in Faturas : /\ fatura[g].serie = fatura[f].serie
                                 /\ fatura[g].numero = fatura[f].anterior
        /\ \A g \in Faturas :
              fatura[g].serie = fatura[f].serie =>
                  ~(fatura[f].anterior < fatura[g].numero /\ fatura[g].numero < fatura[f].numero)

(* executarComunicacaoAt: an invoice shown as COMUNICADA_AT is a document  *)
(* that AT registered, with the number it has now.                         *)
ComunicadaExisteNaAt ==
    \A f \in Faturas : fatura[f].estado = "COMUNICADA_AT" =>
        <<fatura[f].serie, fatura[f].numero>> \in atRegistados

(* What makes NumeracaoUnica and ComunicadaExisteNaAt inductive when one   *)
(* request emits.  A row has a number exactly when it left RASCUNHO, below *)
(* the next number of its series; the invoice an emission works on is      *)
(* still a draft, and from the moment the emission read proximoNumero      *)
(* nobody else advances it; a request that talks to AT about a document    *)
(* holds the number the document has, and a success it holds is true.      *)
NumeroSeEmitida ==
    \A f \in Faturas : fatura[f].numero = 0 <=> fatura[f].estado \in {"INEXISTENTE", "RASCUNHO"}
NumeroAbaixoDoProximo ==
    \A f \in Faturas : fatura[f].numero < serie[fatura[f].serie].proximoNumero
Emitindo(p) ==
    \/ pedido[p].pc \in PassosEmissao
    \/ pedido[p].pc \in PassosSerie /\ pedido[p].emite
EmissaoEmCurso(p) ==
    LET r == pedido[p] IN
    /\ Emitindo(p) => /\ p \in Emissores
                      /\ r.emite /\ r.f \in Faturas
                      /\ r.s = fatura[r.f].serie /\ fatura[r.f].estado = "RASCUNHO"
    /\ r.pc \in {"emitir.anterior", "emitir.gravarSerie"} => r.numero = serie[r.s].proximoNumero
    /\ r.pc = "emitir.gravarFatura" =>
          /\ r.numero # 0 /\ r.numero < serie[r.s].proximoNumero
          /\ \A g \in Faturas : fatura[g].serie = r.s => fatura[g].numero < r.numero
    /\ r.pc \in {"emitir.anterior", "emitir.gravarSerie", "emitir.gravarFatura"} => r.numero <= MaxNumero
DocumentoEmCurso(p) ==
    LET r == pedido[p] IN
    /\ r.pc \in PassosDocumento => r.f \in Faturas /\ fatura[r.f].numero # 0
    /\ r.pc \in PassosDocumento \ {"emitir.auto"} =>
          r.s = fatura[r.f].serie /\ r.numero = fatura[r.f].numero
    /\ r.pc = "com.gravar" /\ r.ok => Documento(r) \in atRegistados
EmissaoInv ==
    /\ NumeroSeEmitida
    /\ NumeroAbaixoDoProximo
    /\ \A p \in Pedidos : EmissaoEmCurso(p) /\ DocumentoEmCurso(p)
    /\ NumeracaoUnica
    /\ ComunicadaExisteNaAt

(* executarComunicacaoAt: a successful communication is in the log of the  *)
(* invoice, or the transaction that writes it is about to commit.          *)
ComunicadaTemRegisto ==
    \A f \in Faturas : fatura[f].estado = "COMUNICADA_AT" =>
        \/ TRUE \in comunicacoes[f]
        \/ \E p \in Pedidos : Em(p, "com.log") /\ pedido[p].f = f /\ pedido[p].ok

(* emitir: no number of a series is lost; those below proximoNumero belong *)
(* to a document or to the emission that is about to write it.             *)
NumeracaoSemLacunas ==
    \A s \in Series : \A n \in 1 .. (serie[s].proximoNumero - 1) :
        \/ \E f \in Faturas : fatura[f].serie = s /\ fatura[f].numero = n
        \/ \E p \in Pedidos : /\ Em(p, "emitir.gravarFatura")
                              /\ pedido[p].s = s /\ pedido[p].numero = n

(* emitir: an emitted document has an ATCUD, although updateSerie may      *)
(* clear the code of the series during the emission.                       *)
EmitidaComAtcud == \A f \in Faturas : Emitida(f) => fatura[f].codigo # Nenhum

(* applyConfigUpdate: communication is never active without the licence,   *)
(* although concurrent updates overwrite each other.                       *)
AtivaComLicenca == config.ativa => config.licenca

(* createFromProposta: a proposal is invoiced once.                        *)
PropostaUmaFatura ==
    \A f, g \in Faturas :
        (fatura[f].proposta # Nenhum /\ fatura[f].proposta = fatura[g].proposta) => f = g

(* criarNotaCredito: an invoice has at most one active credit note.        *)
NotaCreditoUnica ==
    \A f, g, h \in Faturas : (NotaActiva(g, f) /\ NotaActiva(h, f)) => g = h

(* update and emitir: the totals of an emitted document are the ones that  *)
(* were signed; the billing history is immutable.                          *)
AssinaturaConfere == \A f \in Faturas : Emitida(f) => fatura[f].total = fatura[f].assinado

(* emitir: a number, once given, is never taken back or changed.           *)
NumeroNuncaMuda ==
    [][\A f \in Faturas : fatura[f].numero # 0 => fatura'[f].numero = fatura[f].numero]_vars

(* anular: an annulled document stays annulled.                            *)
AnuladaParaSempre ==
    [][\A f \in Faturas : fatura[f].estado = "ANULADA" => fatura'[f].estado = "ANULADA"]_vars

(* updateSerie: the validation code of a series with emitted documents is  *)
(* not changed.                                                            *)
CodigoFixoAposEmissao ==
    [][\A s \in Series :
          (serie[s].codigo # Nenhum /\ \E f \in Faturas : fatura[f].serie = s /\ fatura[f].numero # 0)
            => serie'[s].codigo = serie[s].codigo]_vars

(* The book of each series: its numbered rows.                             *)
Lancamentos ==
    [s \in Series |-> {<<fatura[f].numero, f>> :
                         f \in {g \in Faturas : fatura[g].serie = s /\ fatura[g].numero # 0}}]

(* emitir implements LivroFiscal: the book of a series is append-only and  *)
(* its numbers grow.                                                       *)
Livro == INSTANCE LivroFiscal WITH
    Documentos <- Faturas, Numeros <- 1 .. MaxNumero, livro <- Lancamentos

EmissaoImplementaLivro == Livro!SpecLivro
=============================================================================
