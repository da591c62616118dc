# NexiForma in TLA+

A verification development of NexiForma, the back office of a training
provider: a NestJS API (`apps/api`) over PostgreSQL through Prisma
(`packages/database`), a Next.js client (`apps/web`) and shared code
(`packages/shared`). The modules here model the eight parts where a wrong order
of steps does lasting harm: the numbering and communication of invoices, the log
of attendance at online sessions, the signed attendance sheet, the accounts of a
provider and their limit, refresh sessions and impersonation, submissions to
SIGO, the way from a lead to a customer, and the import of schedules. Names of operators and states are
those of the source.

## 1. Inventory

The API keeps all its state in PostgreSQL; Redis or SQS holds the queue of
webhooks. Every HTTP request runs one asynchronous handler, so any two requests
interleave at each `await`, and a deploy or a crash may stop a handler at any of
them.

| component | state | operations | interacts with | hard behaviour |
|---|---|---|---|---|
| faturas | `FaturaComercial`, `SerieFaturacao`, `ConfigFaturacaoTenant`, `FaturaComunicacaoAt` | create, createFromProposta, update, emitir, comunicarAt, reenviarAt, anular, criarNotaCredito, series and configuration | AT web services, propostas | numbers read and written by separate statements, hash chain, lost answers of AT, crash between statements |
| at-integration | documents and series at the tax authority | register, annul, register a series | called by faturas | answers lost, duplicates refused |
| prisma-tenant-extension | none | rewrites queries | every service | moves statements out of transactions |
| queue, assiduidade (webhooks) | Redis lists or an SQS queue, `AcessoLms` | enqueue, drainOne, pollLoop, handleZoomWebhook, handleTeamsWebhook | lms-presenca, sessoes | at-most-once or at-least-once delivery, two loops on one queue, reordering |
| lms-presenca | `AcessoLms` | registerEvent, fecharPresencasAbertasSessao, computation of the time | sessoes-formacao, assiduidade | check-then-act on the log, two origins of rows |
| sessoes-formacao | `SessaoFormacao` | iniciar, terminar, update | lms, assiduidade | an end made of several commits |
| folhas-presenca | `FolhaPresenca`, `Presenca` | create, checkin, updatePresenca, validarFormador, aprovarGestor, LMS synchronisation | sessoes-formacao, matriculas | signatures over rows that others write |
| users, formadores, rgpd, billing | `User`, `TenantInvite`, `FormadorProfile`, `TenantSubscription` | invite, cancelInvite, acceptInvite, update, removePermanent, provisionNewFormadorAccount, removal of a trainer, processDelete | auth (access tokens), Stripe (plan in force) | limits counted before they are used, one row written by seven handlers, transactions that are not |
| auth, web | `AuthRefreshSession`, the cookie of each browser | login, refreshFromCookie, logout, reset of the password | control-plane, web client | rotation in two statements, parallel refresh, grace period, reuse |
| control-plane | `ImpersonationSession`, tenants | startImpersonation, endImpersonation; operator actions | auth | one request ends the sessions of two accounts |
| sigo | `SigoSubmissao`, `SigoCertificadoFormando`, PDFs | submitAcao, certificarAcao, reconcile, syncForTenant, two cron jobs | the SIGO platform, storage | answers lost, late or failed, retries, cron beside users |
| crm, propostas, entidades-cliente | `LeadComercial`, `PropostaComercial`, `EntidadeCliente` | lead to proposal, send, accept or reject by a link, complete the registration | mail, VIES, faturas | a customer who answers while staff edit, states read before an e-mail |
| cronogramas, turmas | `Cronograma`, `CronogramaImportJob`, `Turma`, `SessaoFormacao` | create, aprovar, remove, iniciarJob, processJob, guardarRascunho, descartarJob, aplicarJob, aplicar | sessoes-formacao, the language model | a job in the background and four requests write one column, sessions deleted before their replacements are looked at |
| the rest | see `PROJECT.json` | mostly single-row updates, files, mail, reports | | |

What makes each right: no number of a series is used twice, lost or changed, and
what is shown as communicated exists at AT (faturas); a message leaves the queue
only once handled, and nobody is credited time they were not there (queue,
lms-presenca); the signatures of a sheet stand on the rows they were given for
(folhas-presenca); the limit of the plan and the last manager survive every
interleaving (accounts); an account has one live session, and a browser that
does nothing wrong keeps it (auth); what SIGO decides arrives (sigo); only a
company that accepted a proposal becomes a customer, and its acceptance is not
lost (crm); a class has all the sessions of an import or none, and an import
ends (cronogramas).

**Atomicity.** `prisma-tenant.extension.ts` answers `findUnique({ where: { id }
})`, `update` and `delete` by id of tenant-scoped models through the *root*
client, even when they are called on the `tx` of `$transaction(async (tx) =>
...)`. Such a statement commits on its own; creates, `updateMany`, nested writes
and unscoped models stay in the transaction. The actions of `Faturacao`,
`FolhaPresenca` and `Contas` have that granularity: the two updates of `emitir`,
for example, are two steps, the log row of a communication commits after the
state of the invoice, and `removePermanent` deletes the account while its
transaction still holds the deleted invitation. `acceptInvite` is public and has
no tenant context: its transaction is a real one, and one step.

## 2. Modules

| module | models | proofs |
|---|---|---|
| `LivroFiscal` | abstract: the append-only numbering of a series | |
| `Faturacao` | `faturas.service.ts` with AT as environment; refines `LivroFiscal` | `FaturacaoProofs` |
| `PresencaLms` | the pure functions of `packages/shared/src/lms/presenca.ts`, with a reference definition of the time | (in `AssiduidadeProofs`) |
| `Assiduidade` | queue transports, webhook handlers, portal, start and end of a session; extends `PresencaLms` | `AssiduidadeProofs` |
| `FolhaPresenca` | the attendance sheet and its writers | `FolhaPresencaProofs` |
| `Contas` | accounts, invitations and the limit of the plan | `ContasProofs` |
| `SessoesRefresh` | refresh sessions, browsers, impersonation | `SessoesRefreshProofs` |
| `Sigo` | submissions, reconciliation, certificates and cron jobs, with SIGO as environment | (in `SistemaProofs`) |
| `Comercial` | leads, proposals, the answer of the customer, the registration | `ComercialProofs` |
| `Cronogramas` | schedules, classes, their sessions and the import of sessions | `CronogramasProofs` |
| `Sistema` | the components that share no state, side by side: `Sigo`, two instances of `Contas`, two of `SessoesRefresh`, one of `Comercial`, two of `Cronogramas`, one of `Assiduidade` | `SistemaProofs` |
| `MCEventual` | `Assiduidade` over SQS, two instances of `Sigo` and one of `Cronogramas` in one specification, with their fairness | |
| `MCSistema`, `MCFaturacao`, `MCFolhaPresenca`, `MCContas`, `MCCronogramas` | values of the constants for TLC | |

Each concurrent request is an element of `Pedidos` (of `Execucoes` for queue
workers) with a program counter and the values it has read. An action is what a
handler does from one `await` on the database or on AT to the next. An action
named `...Ler` reads and checks; one named `...Gravar` writes what was decided
then. Operators named `Falta...` are faults that no specification uses: each
stands before the operator it would replace, and shows that a property is lost
when the code has that bug.

### Faturacao

`fatura` holds the rows with the fields the properties tell apart: `estado`
(`INEXISTENTE` is a row not created yet), series, number (0 is null), the total
and the total that was signed, the number of the document whose hash was
chained (`anterior`, 0 for an empty hash), the referenced invoice and the
proposal. `serie` holds `proximoNumero`, the validation code and its state at AT.
`comunicacoes` is the set of outcomes logged. `atRegistados` and `atAnulados` are
the books of AT. Amounts are small numbers; SOAP, encryption, addresses and PDF
are left out. The emission is six steps: read the draft, make sure the series is
registered, read the series, find the previous document, advance the series,
write the document. Automatic communication follows with the configuration read
at the start.

### PresencaLms and Assiduidade

`acessos` is the log of each learner in each session, ordered by `ocorridoEm`,
which the database fills as the row is written. Time is in instants of one unit
up to `MaxRelogio`. An execution is an SQS poll loop, one of the overlapping
`drainOne` calls of Redis, or the webhook's own request when there is no queue.
The Zoom and Teams handlers are the same code but for the token and the column
the meeting is looked up by, so one set of actions stands for both. Sessions of
the model have `lmsAtivo`, and every learner an active enrolment; the handlers'
early returns for strangers write nothing and are not steps.

Three abstractions: no instant passes between the read of an exit and its write
(milliseconds against whole seconds); a receipt handle of SQS that is older than
the last reception still deletes the message; and the transport is fixed from
the start (the moment before Redis has connected behaves as `sync`).

### FolhaPresenca

One sheet (they are keyed by session and class and no handler touches two):
`folha` is `{}` or one row of three flags, `presenca` a function on the
enrolments that have a row. Whether the LMS minutes reach the limit is a
nondeterministic choice (`SincronizarMarcar`). `iniciada`, `terminada`,
`lmsAtivo` and `ativas` are the session and the class as the handlers see them;
`teveLms` is a history variable.

### Contas

`conta` and `convite` are functions on e-mails, which are unique in both tables;
rows carry ids because handlers write by id what they read by e-mail, and a row
deleted and created again must not be taken for the first one. `perfil` is the
trainer's profile. `limite` is the maximum of the plan in force, and
`MudarPlano` is all that the model keeps of payments. `tokens` holds the accounts
that were ever an active ADMIN: `JwtStrategy.validate` trusts the role of the
token, so a manager who was deactivated may act until the token expires.
`assertUserLimit` (`PassaLimite`) is a step of its own before each of the five
handlers that activate an account; `assertManagerSafety` (`UpdateGestor`,
`RemoverGestor`) a step between the read and the write. A PATCH of `update`
brings a role, the active flag, both or neither, and writes only what it brings
(`UpdateLer`, `Editada`). `resendInvite` changes
only a token and is left out; `FormandosService.remove` is the same code as
`FormadoresService.remove`.

The code does three things the properties step around, and the model shows all
of them. Two requests that have both counted the accounts exceed the limit, so
`LimiteRespeitado` has one activator. Two edits that have both counted the
managers remove the last one, so `AdminSempreProtegido` has one editor. And the
query of `assertManagerSafety` (users-policy.util.ts:60) counts coordinators and
FINANCEIRO as managers, although only the loss of an ADMIN is guarded: the last
ADMIN may be demoted or removed beside a coordinator, and that coordinator then by
whoever holds a token of an ADMIN of before, until no manager is left, all through
`users` and one request at a time. So "the tenant has a manager" (`HaGestor`) is not
kept by `users` alone: with COORDENADOR among `Cargos` and without
`removerFormador`, TLC breaks it with invitations and edits only. What the
code does keep is that the *step* that leaves no manager is not one of `users` while
an ADMIN is active: `AdminSempreProtegido`, checked in `sistema` with a
coordinator among the roles. `contas_v_gestor` is the other way of losing the last
manager, that of `FormadoresService.remove`, which does not count at all.

### SessoesRefresh

`sessao` is the table in the order of creation and a token is the position of its
row; a row is revoked (`recente` for thirty seconds, `antiga` after
`PassarTrinta`) or deleted. `cookie` is what each browser holds. A browser sends
one request at a time, which is what the single-flight of `bff-fetch.ts` does
for refreshes; a request that waited for a refresh uses its result and is not a
step. Every login, rotation and end of an impersonation goes through
`completeLogin`: `LoginApagar`, then `LoginCriar`, whose answer may be lost.
`terminados` is a history variable: the browsers whose session something else
has ended.

What the model shows and no property claims: a login of the operator as a
customer ends the customer's own session, and the end of the impersonation leaves
the session it had created; a refresh of an account that is inactive
has already revoked the token when it finds out, and the browser keeps a dead
cookie; two logins of one account at the same moment may both stay.

### Sigo

`submissao` is the table in the order of creation, `enviadas` the order of
`submittedAt`, `remoto` and `emitido` what SIGO made of each submission and of its
certificate, `ficheiro` whether the PDF is in the storage. Each request waits for SIGO
between a read and a write, and the write (`SubmeterGravar`, `ReconciliarGravar`,
`CertGravar`) is by id whatever the row has become. `sigoHttpRequest` repeats a
request up to `MaxTentativas` times; since submission is a POST, the platform may
receive it more than once, which `Recebe` makes idempotent, as the reference
sent with it allows. `Resposta` is `parseSigoRemoteStatus` on what SIGO may say.

Abstractions: one certificate per submission; at most 30 accepted submissions,
so that the second cron job sees them all; the HTTP mode (in SOAP mode a fault of the
service makes the submission REJEITADA). A failure of the update of the row, or of
the audit log after it, is `SubmeterFalhar`: the catch writes ERRO over a
submission that SIGO has received, and that a cron job may have found accepted in
the meantime. Two things the
properties exclude because the code does them: an answer that is not 2xx makes
the row an ERRO that no cron job asks about again, and a certificate SIGO issues
after the acceptance was synchronised has no row and is never transferred
unless a user asks.

### Comercial

`registo` is the status in the metadata of the company, `lead` and `proposta` the
rows, `apagadas` the ids of deleted proposals (ids are not used twice). A company
is identified by its NIF. `aceites`, `diretos` and `editadas` are history: who has
accepted, who was registered by hand, and which proposals had their state
written by an edit of the staff. The answer of the customer is five statements
without a transaction: `AceitarGravar`, `AceitarEntidade`, `AceitarRegisto`,
`AceitarLeads` (the leads to associate are read) and `AceitarLigar` (they are written
by id, whatever has become of them).

What the model shows and no property claims: a process that dies between the
first and the third of them leaves an accepted proposal whose company cannot
complete its registration, and a second click answers "already accepted"; a
second acceptance, of another proposal, takes a `cliente` back to
`pendente_completar` if it read the status before the completion;
`resolverOuCriarEntidade` writes `prospecto` over a status it read before VIES
answered; `PropostasService.update` writes back the state it read; of two
sends in flight the later one puts an answered proposal back to ENVIADA.
`criarProposta` of the CRM is the same step as `PropostasService.create`, and
`atualizarProposta` of the CRM changes no state.

### Cronogramas

`cronograma` and `trabalho` are the tables in the order of creation, `turma` the
classes by `codigo`, `sessao` the set of sessions, each its schedule, class and number.
`irmas` (the numbers created by the same statement) and `criado` (a job whose
sessions were created) are history. `processo` is `processJob` of each job, which
runs in the server after the answer to the client; `perdido` is one the server or the
database gave up. `aplicar` is a request of up to six statements: verify, count,
delete or number, validate, create; the last one is one `createMany`, so the unique
index and the foreign keys make it all or nothing. `criado` is set in that step,
and the deadlines the handler writes after it are left out. The
draft is left out too: what a document holds is a choice in `Listas`, and whether it can be
read, or is refused, is another.

What the model shows and no property claims: a job that is discarded while it
is read comes back as a draft, since the background writes by id ("Um só job
activo por cronograma" is true only of the moment `iniciarJob` runs); a job
the server was reading when it stopped stays in `A_PROCESSAR`; a job applied
twice at once may create its sessions twice, under other numbers.

## 3. Runs

Deadlock checking is off in all of them: the instances are bounded (rows, clock,
failures) and a system where everything is done, with nobody asking for more, is
a legitimate end.

| run | instance | shows |
|---|---|---|
| `fat_emissao` | 2 invoices, FT and NC series, 2 requests, one of which emits and communicates while the other communicates and annuls; the process may stop anywhere | unique and final numbers, hash chain, communicated means registered at AT, `LivroFiscal` is implemented |
| `fat_documentos` | 3 documents, one client of documents, one of credit notes, both invoice 2 proposals | emitted totals are the signed ones, one active credit note, one invoice per proposal, annulment is final |
| `fat_series` | 2 invoices, an emitter and a client of series, both write the configuration, no automatic registration, no failures | ATCUD on every document, no lost number, communicated implies logged, no active communication without the licence |
| `fat_v_reemissao` | 2 emitters, 1 draft | *violated*: the emitted document gets a second number |
| `fat_v_codigo` | 1 client | *violated*: a PATCH without a code clears the code |
| `folha_assinaturas` | 2 enrolments, one request at a time, every endpoint, 2 failures | approval stands on validation, validation on marked rows, approved rows do not change |
| `folha_v_lms` | the same, sessions with LMS | *violated*: the synchronisation unmarks rows of a validated sheet |
| `folha_v_aprovar` | 2 requests | *violated*: approval without a standing validation |
| `sistema` | nine instances, below | safety of six components that share no state with each other |
| `eventual` | four instances, below, fair | what must happen in the end, and the delivery of SQS |
| `contas_v_gestor` | 2 accounts, one request at a time | *violated*: the removal of a trainer's profile deactivates the last manager |
| `crono_v_recusa` | 1 class, one request at a time | *violated*: an import that is refused has deleted the sessions it was to replace |

In `sistema` and `eventual` the variable `parte` says which instance is at work;
the variables of the other components stay as they began, and each property is about its
own parts. The state space is the sum of the parts (1,412,990 distinct states
in `sistema`, 133,825 in `eventual`), not their product. `Sistema` is written for
every value of the constants of its instances (one record each) and every set
`Partes` of them, and `MCSistema` gives the values:

| run | part | module and instance | properties |
|---|---|---|---|
| `sistema` | `gestor` | `Contas`: 2 e-mails, the roles ADMIN, COORDENADOR and FORMADOR, every operation but that of provisioned trainers by one request at a time beside the cancellation of invitations, limit 2 | `AdminSempreProtegido` |
| | `limite` | `Contas`: one request that activates beside one that deactivates and removes, plans of 1 and 2, 1 failure | `LimiteRespeitado` |
| | `navegacao` | `SessoesRefresh`: an operator and a customer with a browser each, resets and deactivations beside them, 3 sessions | `UmaSessaoPorConta`, `CookieVivo` |
| | `cortes` | the same, 2 sessions, 1 failure or lost answer | the same |
| | `funil` | `Comercial`: a company, its lead, a proposal; staff beside the customer, 1 failure | `ConversaoAposAceite`, `AceiteRegistado`, `RespostaFica` |
| | `fila` | `Assiduidade`: 1 session, a portal learner and a Zoom learner, 3 instants, Redis with two overlapping drains or no queue, 1 failure | `SemRegistosRepetidos`, `PresencaFechada`, `EntradasAlternadas`, `TempoConfere` |
| | `importar` | `Cronogramas`: 1 class, 2 requests that import at the same time, sessions created by hand, removals | `ImportacaoInteira`, `AplicadoFoiCriado` |
| | `trabalhos` | `Cronogramas`: an import job that is edited and applied by one request and discarded by another, 1 failure or restart | the same |
| | `sigo` | `Sigo`: 1 submission, both cron jobs, every request of a user, 1 failure, requests sent twice | `FicheiroGuardado` |
| `eventual` | `sqs` | `Assiduidade`: 2 platforms, 2 loops on the one queue, 3 messages, 2 failures, equal tokens or not | `ApagadaFoiTratada`, `TempoNaoExcede`, `EntregaEventual` |
| | `uma` | `Sigo`: 1 submission, both cron jobs, every request of a user, 1 failure, requests sent twice | `DecisaoChega`, `CertificadoTransferido` |
| | `duas` | `Sigo`: 2 submissions of which the cron takes one in a turn, no failures | the same |
| | `trabalhos` | `Cronogramas`: a job that is edited and applied, by one request, and discarded by another, 1 failure or restart | `TrabalhoTermina` |

**Why these bounds.** Two documents are needed for two numbers to collide and
for a chain to skip one; with `MaxNumero` 3 the series goes on after an aborted
emission. Three rows are an invoice and two credit notes. Two loops, with
messages of both platforms, are the shared queue of `SqsQueueTransport`; two
failures give a message a lost and a late execution. Two enrolments tell "some
row" from "every row". One log of three or four rows is an interval, a
re-entrance and a duplicate. Two accounts are a manager and another one, who may
become the only manager; three sessions are a rotation and a login after
another; two submissions with a cron job that takes one are a queue where one
may wait for ever; one proposal is enough for two handlers to write it. Two
requests are what it takes for one import to come between the statements of
another, and lists of one and two numbers to overlap in part.

**One at a time, or several?** Several properties are kept only when the
requests that could break them do not overlap, because the handlers test a row
they read earlier and write with `where: { id }`. The runs above say which
clients they have. `CadeiaHash`, `NumeracaoUnica` and `EmissaoInv` (of the proofs) need a
single emitter; `AssinaturaConfere`, `AnuladaParaSempre` and `NotaCreditoUnica` a
single client of documents and one of credit notes; `EntradasAlternadas`,
`PresencaFechada` and `TempoConfere` a single portal request at a time;
`TempoNaoExcede` a single execution per platform; those of
the sheet what `SoMarcaQuemValida` and `SoMudaQuemAprova` say (nobody marks rows
beside the one who validates; nobody marks or checks in beside the one who
approves), of which the run has the case of one request; `LimiteRespeitado` a single
request that activates accounts, `AdminSempreProtegido` a single editor,
`UmaSessaoPorConta` a single creator of sessions of an account,
`PersonificacaoUnica` one request at a time from an operator, `AceiteRegistado` and
`RespostaFica` a single maker of proposals from leads and a single sender.
`ConversaoAposAceite`, `FicheiroGuardado`, `ImportacaoInteira` and
`AplicadoFoiCriado` need nothing of the kind. With more
clients TLC breaks each of the others. `TempoNaoExcede`, for one: two workers
of a platform that hold two exits of a learner both compute them from the same
entrance, and when another entrance is written between the two rows the same
interval is counted twice. The overlapping `drainOne` calls of Redis, or two
processes on SQS, are such workers. `TempoConfere` also keeps the portal and
the meeting apart: a learner who enters by both is credited too little, because
`segundosDesdeUltimoJoin` counts from the last entrance, the sum from the first,
and the sum prefers the stored duration. Where the repository says the opposite of what happens, a
violation run records it. `NumeracaoSemLacunas` holds only without failures:
`emitir` advances the series before it writes the document.

**Fairness.** Only `eventual` has it. `DecisaoChega` and `CertificadoTransferido` need that
a handler that has begun goes on unless it fails (weak fairness of `Continua`:
`await` returns), each cron job comes back (weak fairness of `Cron`: the
scheduler fires every 15 and 30 minutes), and SIGO decides in the end on what it
has received. `TrabalhoTermina` needs that the event loop goes on with a job it has
begun (weak fairness of `Processa`); the call of the language model has a timeout in the
code. `Justica` of `MCEventual` is that of the modules, for the part at work.
Failures are at most `MaxFalhas`, and users' requests, interruptions and the
issue of certificates are not fair.

The four liveness properties are leads-to properties written with `[]<>`, for which TLC
needs no tableau: all of them, with the fairness, are one search of the state graph,
where the ten leads-to formulas are ten. What is written says the same. `P ~> ~P` is
`[]<>~P` (`CertificadoTransferido`, `TrabalhoTermina`), and `P ~> Q` is
`[]<>(P => Q)` where a step keeps `P`, which `DecisaoLevaA` of `SistemaProofs` proves for
`DecisaoChega` (SIGO gives one answer) and `EntregaLevaA` of `AssiduidadeProofs` for
`EntregaEventual` (what was posted stays posted, the tokens do not change).

`EntregaEventual` needs more. A loop that has a
message goes on with it (weak fairness: `await` returns). Of the messages in flight
one becomes visible again when the loops are idle (`ExpirarLivre`, strong, since idle
moments come and go), as SQS promises after the visibility timeout. And the loops do
not for ever receive only what the other platform posted (`ReceberDoSeu`, strong): they wait in
`ReceiveMessage` independently and SQS picks among them. Neither says which message
or which loop: what a loop of its own platform receives is handled and deleted, so those
that stay behind become fewer. The property itself
assumes that the loops are idle again and again, which a handler of
milliseconds against a timeout of a minute justifies, and that the platforms have
different tokens. With equal tokens the handler of the other platform accepts
the call, finds no session, and the message is deleted; `ApagadaFoiTratada`
has the same premise. Failures are at most `MaxFalhas`.

## 4. Findings

1. `emitir` tests `RASCUNHO` on a row read before the registration of the series
   and updates by id: two requests re-emit a document (`fat_v_reemissao`).
2. `updateSerie` writes `null` when the request carries no code
   (`fat_v_codigo`).
3. The LMS synchronisation rewrites rows under a standing validation
   (`folha_v_lms`).
4. `aprovarGestor` writes on a validation that may be gone (`folha_v_aprovar`).
5. `FormadoresService.remove` deactivates the account behind a profile without
   the test that keeps a manager (`contas_v_gestor`).
6. `aplicar` deletes the sessions an import replaces before the tests that may
   refuse it (`crono_v_recusa`).

## 5. Proofs

TLAPS proves the following for every value of the constants, from the named
assumptions of the modules. `Contas`, `SessoesRefresh`, `Sigo`, `Comercial` and `Cronogramas` state
theirs as definitions (`ContasAssumption` ...), because one specification holds
several instances of them: the theorems take them as hypotheses, and TLC
evaluates them for the instances (`InstanciasAssumption`).

**FaturacaoProofs.** `TypeCorrect`: `TypeOK`, with any requests. Under
`EmissorUnico` (at most one request emits; the others may do anything else, and
anything may stop anywhere): `EmissaoCorrecta`, `NumeracaoCorrecta`,
`ComunicacaoCorrecta`, `NumeroFixo`, and `EmissaoRefina`, that every step maps to
a step of `LivroFiscal` or a stutter. Neither `NumeracaoUnica` nor
`ComunicadaExisteNaAt` is inductive. `EmissaoInv` adds: a row has a number
exactly when it left `RASCUNHO`; numbers are below `proximoNumero`; the invoice of a
running emission is still a draft, the number it read is still `proximoNumero`
until it advances it, and above every number of the series after; a request
that talks to AT about a document holds the number the document has, and a
success it holds is true. The single emitter is what makes the third part
inductive.

A second part is about any requests, several emitters included, and
wherever they stop: `PropostaCorrecta` (`PropostaUmaFatura` is inductive because
the insertion tests the unique column again), `LicencaCorrecta` (the invariant
adds that a configuration about to be written is active only with the licence)
and `AtcudCorrecto`. The last one needs that an emission past the read of its
series holds a code, whatever `updateSerie` does to the series since, that a
request that talks to AT does it about a document with a code, and that no step
takes a code from a document.

The last part rests on `EmissaoInv`:

- `RegistoCorrecto`, with any requests, needs `~Interrupcoes`: the row of the log
  commits after the state of the invoice, and a process that stops between the two
  leaves a communicated invoice without it.
- `SemLacunas`, with a single emitter, needs `~Interrupcoes` for the same reason:
  `emitir` advances the series before it writes the document.
- `CadeiaCorrecta`, with a single emitter and any failure. `CadeiaInv` adds that an
  emission past the look for the previous document holds the one with the greatest number
  of the series, or none: an emission that stops loses a number, and the chain
  passes over it.
- `AssinaturaCorrecta` adds `SoOEmissorEdita`: an `update` that read a draft writes
  by id what may have been emitted since, unless the same request does both. The invariant
  says that an edit in progress is of a draft and that an emission holds the
  total the draft has.
- `AnuladaCorrecta` adds `SoUmMudaOEstado` (who communicates documents is who annuls them): a
  communication writes the state by id when AT answers. `EstadoInv` says that a document
  being communicated is in force.
- `NotaCorrecta` adds `UmFazNotas` too: `NotasInv` says that a note about to be inserted
  finds no active one; nothing revives an annulled note, since an annulled
  document stays annulled.

**AssiduidadeProofs.** `TypeCorrect`, and `EntregaCorrecta`: `ApagadaFoiTratada`
for any number of platforms, loops and messages, with redelivery. The invariant
adds that a loop about to delete a message holds one that was handled, or one
whose handler accepted a token of the other platform. The types need that a
learner's log with an entrance has a last movement, which is proved from the
finiteness of the set of its positions.

`RegistosCorrectos`: `SemRegistosRepetidos` for any number of overlapping
workers, failures and portal requests. The invariant (`UmaVez`) says that without SQS a
call is in one place, once in the list of its platform or held by one
execution, and handled at most once; `Contadas` counts the entrances of a log against
the calls handled, by an induction on the steps that adds one element to both
finite sets.

`EntradasCorrectas`, `PresencaCorrecta` and `TempoCorrecto` have three hypotheses:
`UmPedido`, one portal request at a time; `SoPeloPortal`, the learners in question have no
calls of the meeting (see above for those who use both); `SemDuracoes`, an exit
brings no duration, which the service would write unchecked. Any number
of webhooks of other learners run beside them. `AlternadaInv` is that the
request at work knows the log it is about to write: it was let in, the session
has not ended, and the durations it brings are what the log still says.

`TempoCorrecto` and `TempoLimitadoCorrecto` are about the sum over the log, for logs of any
length: a sum kept by the loop of the code on one side, and on the other the number
of instants at which some entrance has no exit after it. The sum is a recursive function.
The library's induction theorems cannot be used, so what it needs (that it is
defined for every log, and what one more row does to it: `HaSoma`, `SomaEh`,
`SomaAcrescentada`) is proved from the smallest counterexample, which the
provers do find. `TempoAcrescentado` and `TempoPassa` say the same of the
reference: what a row, or an instant, does to the set of instants inside.
`TempoInv` keeps the two equal row by row, since the duration an exit stores is the
length of the open interval. `TempoLimitadoCorrecto` keeps the first below the
second for logs the webhooks write, where entrances repeat and exits come without one, under
`UmPorPlataforma` (one execution per platform) and `SoWebhooks` (no portal
requests, which may bring any duration): the log an exit was computed from is
the one it is written to.

**FolhaPresencaProofs.** With any number of concurrent requests: `TypeCorrect`,
`PresenteCorrecto` (the strengthening says that a request past the creation of
the sheet has a sheet). The signatures have a hypothesis each, on what may be asked
beside them: `ValidacaoCorrecta` that nobody else marks rows beside the one who
validates (`SoMarcaQuemValida`), `AprovacaoCorrecta` and `AprovadaFixa` that nobody else
marks rows or checks in beside the one who approves (`SoMudaQuemAprova`); the
rest (openings, other validations, the end of the session and its synchronisation,
check-ins beside a validation) may run at any moment and any number of times.
`AssinaturasInv` is inductive under neither: it says what holds under each, with
what the requests know at each program counter (`PedidoSabe`). A validation about to be
written has a sheet with every row marked, and one about to mark a row a sheet without
validation; an approval about to be written finds the sheet validated, and a
row about to change finds it unapproved. `SabePasso` says once what a step may
do to the knowledge of the others, and by whom: only marking leaves a row without
a mark, only the two that reopen take a validation away.

A check-in decides to reopen the sheet on the sheet it read, and a validation that
comes in between survives the change: `ValidacaoCorrecta` covers that race, and
shows that the validation stays complete, because what a check-in writes is a mark.

**ContasProofs.** `TypeCorrect`, with any requests. `LimiteCorrecto`, under
`UmAtivador` (one request may activate accounts; the others deactivate, remove and
cancel at any moment): `LimiteInv` adds that a request past `assertUserLimit` still
finds an account less than some limit that has been in force, which the others
can only keep so, and that the row it is about to activate is the one it read.
`AdminProtegidoCorrecto`, under `UmQueGere` (one request does more than
cancel invitations), is `AdminSempreProtegido`: no endpoint of users takes the last
manager away while an ADMIN is one of them, for any roles, coordinators included. `GestorInv` adds
what a request past `assertManagerSafety` knows of the account it is about to
deactivate, demote or remove: it is not an active ADMIN, or another manager
stays. It does not say that a manager is always left: with coordinators counted as managers,
as the query does, the last ADMIN may go and the coordinator after, since nothing
protects one. The hypothesis cannot be weaker: beside a request that does everything, each
endpoint but the cancellation of invitations breaks the property in TLC. That null
is no account (`ContasAssumption`) tells "no row was read" from a row.

**SessoesRefreshProofs.** `TypeCorrect`, with any requests. `SessaoUnica`, under
`CriadorUnico` (two requests never create sessions of the same account): a
request about to create a session has left the account none (`UmaInv`).
`UmaPersonificacao`, under `OperadorUnico`: a request about to create an
impersonation has left the operator none (`PersInv`). `CookieCorrecto`, with any
requests: what keeps a cookie alive is that whoever ends its session says so
(`terminados`), or is the request of the same browser that will replace it.
`VivoInv` says the last for every program counter between the revocation and the new
cookie.

**SistemaProofs.** About `Sigo`, with any requests, cron jobs and failures: `TypeCorrect`,
`CertificadoComFicheiro`, and the lemmas that rows stay and decisions are final. The invariant adds that a request that holds a key
holds one whose file is stored, since it read it from a row or has just stored it.

About `Sistema`, for any parts and any values of their constants, the properties of
the run `sistema`. The part at work does not change (`ParteFica`), and while one is at work
a behaviour of `Sistema` is a behaviour of its module: the lemmas `ParteGestor`, `ParteFila`
and so on say that a behaviour of `SpecTodas` is one of the module's `Spec` with that part at
work throughout, or one where it never is, each because the initial predicate and
the next-state relation of `Sistema` imply those of the instance and the variables
of the module are among its own. Each theorem then follows from the theorem of the
module, instantiated (`TiposCorrectos`, `LimiteNoSistema`, `CookieNoSistema` ...), under
the hypothesis that one has about requests. `HipotesesAssumption` of `MCSistema` has TLC
check that the instances of the run satisfy all of these.

**ComercialProofs.** With any requests: `TypeCorrect` and `ConversaoCorrecta`, whose
invariant adds what each handler knows of the company it is about to write: it
has accepted, or is registered. `RespostaFinal`, under `UmEnvio`: the
invariant adds that a send that read RASCUNHO finds a proposal nobody has
answered, unless an edit has written its state or it was deleted.
`AceiteCorrecto`, under `LeadsUnicos` and `UmaDoLead` (no two leads of one company; one
request makes proposals from leads): `AceiteInv` follows an acceptance through its
five statements, and says that a request about to write `prospecto` over a company
it asked VIES about works for a lead that had no company, so nobody can have accepted one.

**CronogramasProofs.** With any requests, imports and failures: `TypeCorrect`;
`AplicadoCorrecto`, whose invariant adds that a request about to mark its job has
created the sessions, and that jobs never leave the table; and
`ImportacaoCorrecta`, for which a lemma says what a step may do to the sessions (`MudaInteira`):
add the rows of one statement, or remove those of a class or of a schedule.

`EmissaoInv` and `PersonificacaoUnica` are proved and not repeated in a run. Every
invariant and action property that a run checks is stated by a theorem about the
specification of that run, or by one about the module whose instance the run has
(`ApagadaFoiTratada` and `TempoNaoExcede` of `eventual`). Only model-checked:
`EntregaEventual`, `DecisaoChega`, `CertificadoTransferido` and `TrabalhoTermina`, which
are liveness under fairness.

## 6. Not modelled

`PROJECT.json` lists every component with its reason: I/O and formatting (PDF,
SAF-T, exports, mail, calendars), read-only views, generated code, services kept
outside (Stripe, Cognito, meeting platforms), and single-row editing. Tenant
isolation is a filter on every query and is not visible in models of one tenant.

## 7. Plan

What is left, in order of importance:

1. The hypotheses about requests as weak as they can be: two clients of documents
   of which one only communicates, credit notes beside the annulment of the invoice.
2. `FechoSessao`: the end of a session as a composition of `Assiduidade` and
   `FolhaPresenca` with the summaries that are frozen when signed.
3. `Certificados` (number and revocation), `Matriculas` (capacity of a class),
   sharing the atomicity rules above.
4. Lockout, the tokens of e-mails and the confirmation of an address (`auth`);
   suspension of a tenant (`control-plane`).
5. The attempts of quizzes and the progress in the contents of the LMS, which
   decide on a row read before.
