---------------------------- MODULE FolhaPresenca ----------------------------
(***************************************************************************)
(* The attendance sheet of one class in one session: opened by hand, by a  *)
(* learner's check-in or by the LMS synchronisation; marked, validated by  *)
(* the trainer and approved by the manager                                 *)
(* (folhas-presenca.service.ts, assiduidade.service.ts).  Sheets are keyed *)
(* by (sessaoId, turmaId) and no handler touches two, so one is modelled.  *)
(*                                                                         *)
(* Inside $transaction the updates by id of a sheet or of a row go to the  *)
(* root client (prisma-tenant.extension.ts) and commit on their own: the   *)
(* two updates of a handler are two steps.  Creates stay in the            *)
(* transaction.                                                            *)
(***************************************************************************)
EXTENDS Naturals, FiniteSets

CONSTANTS
    Matriculas,     \* enrolments of the class
    Pedidos,        \* requests that may run at the same time
    Operacoes,      \* what each of them may ask for
    MaxFalhas,      \* bound: requests that stop half way
    Nulo            \* null

Endpoints == {"criar", "checkin", "marcar", "validar", "aprovar", "sincronizar", "terminar"}

ASSUME FolhaAssumption == Operacoes \in [Pedidos -> SUBSET Endpoints] /\ MaxFalhas \in Nat

Estados == {"PRESENTE", "FALTA_JUSTIFICADA", "FALTA_INJUSTIFICADA"}
ASSUME NuloAssumption == Nulo \notin Estados

(* Presenca.  motivo: motivoJustificacao holds text.                       *)
PresencaRow == [presente: BOOLEAN, estado: Estados \cup {Nulo}, motivo: BOOLEAN]
Vazia == [presente |-> FALSE, estado |-> Nulo, motivo |-> FALSE]

(* FolhaPresenca: validadaFormadorEm, aprovadaGestorEm, fechadaEm # null.  *)
FolhaRow == [validada: BOOLEAN, aprovada: BOOLEAN, fechada: BOOLEAN]
Aberta == [validada |-> FALSE, aprovada |-> FALSE, fechada |-> FALSE]

(* UpdatePresencaDto: what the request sends of estado, presente and       *)
(* motivoJustificacao; "omitido" is undefined.  A request without any of   *)
(* them sends minutosEfetivos or validado.                                 *)
Dtos == [estado: Estados \cup {Nulo, "omitido"}, presente: {"omitido", "sim", "nao"},
         motivo: {"omitido", "nulo", "branco", "texto"}]

VARIABLES
    lmsAtivo,             \* of the session
    teveLms,              \* history: lmsAtivo has been true
    iniciada, terminada,  \* iniciadaEm # null, terminadaEm # null
    ativas,               \* enrolments in state ATIVA
    folha,                \* {} or the one sheet
    presenca,             \* the rows of the sheet: a function on the enrolments that have one
    pedido,
    falhas

vars == <<lmsAtivo, teveLms, iniciada, terminada, ativas, folha, presenca, pedido, falhas>>
dados == <<folha, presenca>>

Livre == [pc |-> "livre"]

PedidoRow ==
    {Livre}
      \cup [pc: {"checkin.folha", "checkin.presenca", "checkin.criar", "checkin.inserir"}, m: Matriculas,
            lida: SUBSET FolhaRow]
      \cup [pc: {"checkin.reabrir", "checkin.gravar"}, m: Matriculas]
      \cup [pc: {"marcar.reabrir", "marcar.gravar"}, m: Matriculas, dto: Dtos]
      \cup [pc: {"criar.gravar", "sinc.folha", "sinc.criar", "sinc.linhas", "sinc.marcar"},
            lista: SUBSET Matriculas]
      \cup [pc: {"validar.gravar", "aprovar.gravar", "terminar.sinc"}]
      \cup [pc: {"terminar.gravar"}, lms: BOOLEAN]

Init ==
    /\ lmsAtivo \in BOOLEAN /\ teveLms = lmsAtivo
    /\ iniciada = FALSE /\ terminada = FALSE
    /\ ativas \in SUBSET Matriculas
    /\ folha = {} /\ presenca = <<>>
    /\ pedido = [p \in Pedidos |-> Livre]
    /\ falhas = 0

Aceita(p, op) == pedido[p] = Livre /\ op \in Operacoes[p]
Segue(p, r) == pedido' = [pedido EXCEPT ![p] = r]
SemMudarSessao == UNCHANGED <<lmsAtivo, teveLms, iniciada, terminada, ativas, falhas>>

(* Rows of the sheet, and the effect of createMany with skipDuplicates.    *)
ComLinha == DOMAIN presenca
Completar(lista) ==
    [m \in ComLinha \cup lista |-> IF m \in ComLinha THEN presenca[m] ELSE Vazia]

(* Fault: only an approved sheet counts as signed. *)
FaltaSoAprovada(f) == f.aprovada

(* folhaUpdate, reopen: the sheet as read has been validated or approved.  *)
Assinada(f) == f.validada \/ f.aprovada
Reabrir == folha' = {Aberta}

(***************************************************************************)
(* The session and the class, as the handlers of the sheet see them.       *)
(***************************************************************************)
Iniciar ==
    /\ ~iniciada /\ iniciada' = TRUE
    /\ UNCHANGED <<lmsAtivo, teveLms, terminada, ativas, dados, pedido, falhas>>

UpdateSessao ==
    /\ lmsAtivo' = ~lmsAtivo /\ teveLms' = TRUE
    /\ UNCHANGED <<iniciada, terminada, ativas, dados, pedido, falhas>>

UpdateEstado(m) ==
    /\ ativas' = IF m \in ativas THEN ativas \ {m} ELSE ativas \cup {m}
    /\ UNCHANGED <<lmsAtivo, teveLms, iniciada, terminada, dados, pedido, falhas>>

(***************************************************************************)
(* create                                                                  *)
(***************************************************************************)
CriarLer(p) ==
    /\ Aceita(p, "criar")
    /\ iniciada /\ folha = {} /\ ativas # {}
    /\ Segue(p, [pc |-> "criar.gravar", lista |-> ativas])
    /\ SemMudarSessao /\ UNCHANGED dados

(* Another request may have created it: the unique key rejects this one.   *)
CriarGravar(p) ==
    /\ pedido[p].pc = "criar.gravar"
    /\ IF folha = {} THEN folha' = {Aberta} /\ presenca' = Completar(pedido[p].lista)
                     ELSE UNCHANGED dados
    /\ Segue(p, Livre)
    /\ SemMudarSessao

(***************************************************************************)
(* checkinFormandoNaSessao, from the portal or from a QR code              *)
(***************************************************************************)
CheckinLer(p, m) ==
    /\ Aceita(p, "checkin")
    /\ iniciada /\ ~terminada /\ m \in ativas
    /\ Segue(p, [pc |-> "checkin.folha", m |-> m, lida |-> {}])
    /\ SemMudarSessao /\ UNCHANGED dados

CheckinFolha(p) ==
    LET r == pedido[p]
    IN  /\ r.pc = "checkin.folha"
        /\ Segue(p, [r EXCEPT !.pc = IF folha = {} THEN "checkin.criar" ELSE "checkin.presenca",
                              !.lida = folha])
        /\ SemMudarSessao /\ UNCHANGED dados

CheckinCriar(p) ==
    LET r == pedido[p]
    IN  /\ r.pc = "checkin.criar"
        /\ IF folha = {}
           THEN /\ folha' = {Aberta} /\ presenca' = Completar(ativas)
                /\ Segue(p, [r EXCEPT !.pc = "checkin.presenca", !.lida = {Aberta}])
           ELSE UNCHANGED dados /\ Segue(p, Livre)
        /\ SemMudarSessao

(* A row that does not exist is created whatever the state of the sheet;   *)
(* one that exists reopens the sheet if the sheet read before was signed.  *)
CheckinPresenca(p) ==
    LET r == pedido[p]
    IN  /\ r.pc = "checkin.presenca"
        /\ \/ /\ r.m \notin ComLinha
              /\ Segue(p, [r EXCEPT !.pc = "checkin.inserir"])
           \/ /\ r.m \in ComLinha /\ presenca[r.m].presente /\ presenca[r.m].estado = "PRESENTE"
              /\ Segue(p, Livre)
           \/ /\ r.m \in ComLinha /\ ~(presenca[r.m].presente /\ presenca[r.m].estado = "PRESENTE")
              /\ Segue(p, [pc |-> IF \E f \in r.lida : Assinada(f) THEN "checkin.reabrir"
                                  ELSE "checkin.gravar", m |-> r.m])
        /\ SemMudarSessao /\ UNCHANGED dados

Presente == [presente |-> TRUE, estado |-> "PRESENTE", motivo |-> FALSE]

CheckinInserir(p) ==
    LET m == pedido[p].m
    IN  /\ pedido[p].pc = "checkin.inserir"
        /\ presenca' = IF m \in ComLinha THEN presenca
                       ELSE [x \in ComLinha \cup {m} |-> IF x = m THEN Presente ELSE presenca[x]]
        /\ Segue(p, Livre)
        /\ SemMudarSessao /\ UNCHANGED folha

CheckinReabrir(p) ==
    /\ pedido[p].pc = "checkin.reabrir"
    /\ Reabrir
    /\ Segue(p, [pedido[p] EXCEPT !.pc = "checkin.gravar"])
    /\ SemMudarSessao /\ UNCHANGED presenca

CheckinGravar(p) ==
    /\ pedido[p].pc = "checkin.gravar"
    /\ presenca' = [presenca EXCEPT ![pedido[p].m] = Presente]
    /\ Segue(p, Livre)
    /\ SemMudarSessao /\ UNCHANGED folha

(***************************************************************************)
(* updatePresenca                                                          *)
(***************************************************************************)
(* dto.motivoJustificacao ?? presenca.motivoJustificacao is not blank      *)
MotivoIndicado(d, row) ==
    d.motivo = "texto" \/ (d.motivo \in {"omitido", "nulo"} /\ row.motivo)

MotivoNovo(d, motivo) == IF d.motivo = "omitido" THEN motivo ELSE d.motivo = "texto"

(* Fault: the deprecated field `presente` leaves the state as it is. *)
FaltaAplicarSoPresente(d, row) ==
    IF d.estado = "omitido" THEN [row EXCEPT !.presente = d.presente = "sim"]
    ELSE [presente |-> d.estado = "PRESENTE", estado |-> d.estado,
          motivo |-> MotivoNovo(d, d.estado = "FALTA_JUSTIFICADA" /\ row.motivo)]

(* The fields of `data`, in the order the code assigns them *)
Aplicar(d, row) ==
    CASE d.estado = "omitido" /\ d.presente = "omitido" ->
            [row EXCEPT !.motivo = MotivoNovo(d, row.motivo)]
      [] d.estado = "omitido" /\ d.presente # "omitido" ->
            [presente |-> d.presente = "sim",
             estado |-> IF d.presente = "sim" THEN "PRESENTE" ELSE "FALTA_INJUSTIFICADA",
             motivo |-> MotivoNovo(d, row.motivo)]
      [] OTHER ->
            [presente |-> d.estado = "PRESENTE", estado |-> d.estado,
             motivo |-> MotivoNovo(d, d.estado = "FALTA_JUSTIFICADA" /\ row.motivo)]

MarcarLer(p, m, d) ==
    /\ Aceita(p, "marcar")
    /\ folha # {} /\ m \in ComLinha
    /\ d.estado = "FALTA_JUSTIFICADA" => MotivoIndicado(d, presenca[m])
    /\ Segue(p, [pc |-> IF \E f \in folha : Assinada(f) THEN "marcar.reabrir" ELSE "marcar.gravar",
                 m |-> m, dto |-> d])
    /\ SemMudarSessao /\ UNCHANGED dados

(* Fault: the row is written first and the sheet reopened afterwards. *)
FaltaMarcarPrimeiro(p) ==
    /\ pedido[p].pc = "marcar.reabrir"
    /\ presenca' = [presenca EXCEPT ![pedido[p].m] = Aplicar(pedido[p].dto, @)]
    /\ Segue(p, [pedido[p] EXCEPT !.pc = "marcar.gravar"])
    /\ SemMudarSessao /\ UNCHANGED folha

MarcarReabrir(p) ==
    /\ pedido[p].pc = "marcar.reabrir"
    /\ Reabrir
    /\ Segue(p, [pedido[p] EXCEPT !.pc = "marcar.gravar"])
    /\ SemMudarSessao /\ UNCHANGED presenca

MarcarGravar(p) ==
    LET r == pedido[p]
    IN  /\ r.pc = "marcar.gravar"
        /\ presenca' = [presenca EXCEPT ![r.m] = Aplicar(r.dto, @)]
        /\ Segue(p, Livre)
        /\ SemMudarSessao /\ UNCHANGED folha

(***************************************************************************)
(* validarFormador, aprovarGestor                                          *)
(***************************************************************************)
Assinalada(row) == row.estado \in Estados /\ (row.estado = "FALTA_JUSTIFICADA" => row.motivo)

ValidarLer(p) ==
    /\ Aceita(p, "validar")
    /\ folha # {} /\ \A m \in ComLinha : Assinalada(presenca[m])
    /\ Segue(p, [pc |-> "validar.gravar"])
    /\ SemMudarSessao /\ UNCHANGED dados

ValidarGravar(p) ==
    /\ pedido[p].pc = "validar.gravar"
    /\ folha' = {[validada |-> TRUE, aprovada |-> FALSE, fechada |-> FALSE]}
    /\ Segue(p, Livre)
    /\ SemMudarSessao /\ UNCHANGED presenca

(* Fault: a sheet nobody validated can be approved. *)
FaltaAprovarSemValidar(p) ==
    /\ Aceita(p, "aprovar")
    /\ \E f \in folha : ~f.aprovada
    /\ Segue(p, [pc |-> "aprovar.gravar"])
    /\ SemMudarSessao /\ UNCHANGED dados

AprovarLer(p) ==
    /\ Aceita(p, "aprovar")
    /\ \E f \in folha : f.validada /\ ~f.aprovada
    /\ Segue(p, [pc |-> "aprovar.gravar"])
    /\ SemMudarSessao /\ UNCHANGED dados

AprovarGravar(p) ==
    /\ pedido[p].pc = "aprovar.gravar"
    /\ folha' = {[f EXCEPT !.aprovada = TRUE, !.fechada = TRUE] : f \in folha}
    /\ Segue(p, Livre)
    /\ SemMudarSessao /\ UNCHANGED presenca

(***************************************************************************)
(* sincronizarSessaoInterno: asked for by the manager, and the last thing  *)
(* terminar does.  The sheet and its rows are created by two statements.   *)
(***************************************************************************)
TerminarLer(p) ==
    /\ Aceita(p, "terminar")
    /\ iniciada /\ ~terminada
    /\ Segue(p, [pc |-> "terminar.gravar", lms |-> lmsAtivo])
    /\ SemMudarSessao /\ UNCHANGED dados

TerminarGravar(p) ==
    /\ pedido[p].pc = "terminar.gravar"
    /\ terminada' = TRUE
    /\ Segue(p, IF pedido[p].lms THEN [pc |-> "terminar.sinc"] ELSE Livre)
    /\ UNCHANGED <<lmsAtivo, teveLms, iniciada, ativas, dados, falhas>>

SincronizarLer(p) ==
    /\ Aceita(p, "sincronizar") \/ pedido[p].pc = "terminar.sinc"
    /\ Segue(p, IF lmsAtivo THEN [pc |-> "sinc.folha", lista |-> ativas] ELSE Livre)
    /\ SemMudarSessao /\ UNCHANGED dados

SincronizarFolha(p) ==
    LET r == pedido[p]
    IN  /\ r.pc = "sinc.folha"
        /\ Segue(p, [r EXCEPT !.pc = IF folha = {} THEN "sinc.criar" ELSE "sinc.marcar"])
        /\ SemMudarSessao /\ UNCHANGED dados

(* Fault: the rows are written before their sheet. *)
FaltaLinhasPrimeiro(p) ==
    LET r == pedido[p]
    IN  /\ r.pc = "sinc.criar"
        /\ presenca' = Completar(r.lista)
        /\ Segue(p, [r EXCEPT !.pc = "sinc.linhas"])
        /\ SemMudarSessao /\ UNCHANGED folha

SincronizarCriar(p) ==
    LET r == pedido[p]
    IN  /\ r.pc = "sinc.criar"
        /\ IF folha = {} THEN folha' = {Aberta} /\ Segue(p, [r EXCEPT !.pc = "sinc.linhas"])
                         ELSE folha' = folha /\ Segue(p, Livre)
        /\ SemMudarSessao /\ UNCHANGED presenca

SincronizarLinhas(p) ==
    LET r == pedido[p]
    IN  /\ r.pc = "sinc.linhas"
        /\ presenca' = Completar(r.lista)
        /\ Segue(p, [r EXCEPT !.pc = "sinc.marcar"])
        /\ SemMudarSessao /\ UNCHANGED folha

(* One enrolment at a time: present if the minutes of the LMS reach the    *)
(* limit, nothing marked otherwise.  The signatures are not looked at.     *)
SincronizarMarcar(p, m, presente) ==
    LET r == pedido[p]
    IN  /\ r.pc = "sinc.marcar" /\ m \in r.lista
        /\ presenca' = IF m \notin ComLinha THEN presenca
                       ELSE [presenca EXCEPT ![m].presente = presente,
                                             ![m].estado = IF presente THEN "PRESENTE" ELSE Nulo]
        /\ Segue(p, IF r.lista = {m} THEN Livre ELSE [r EXCEPT !.lista = @ \ {m}])
        /\ SemMudarSessao /\ UNCHANGED folha

SincronizarNada(p) ==
    /\ pedido[p].pc = "sinc.marcar" /\ pedido[p].lista = {}
    /\ Segue(p, Livre)
    /\ SemMudarSessao /\ UNCHANGED dados

(* The request stops between two awaits.                                   *)
Falhar(p) ==
    /\ pedido[p] # Livre /\ falhas < MaxFalhas
    /\ falhas' = falhas + 1
    /\ Segue(p, Livre)
    /\ UNCHANGED <<lmsAtivo, teveLms, iniciada, terminada, ativas, dados>>

Checkin(p) ==
    \/ \E m \in Matriculas : CheckinLer(p, m)
    \/ CheckinFolha(p) \/ CheckinCriar(p) \/ CheckinPresenca(p)
    \/ CheckinInserir(p) \/ CheckinReabrir(p) \/ CheckinGravar(p)
Marcar(p) ==
    \/ \E m \in Matriculas, d \in Dtos : MarcarLer(p, m, d)
    \/ MarcarReabrir(p) \/ MarcarGravar(p)
Assinar(p) == ValidarLer(p) \/ ValidarGravar(p) \/ AprovarLer(p) \/ AprovarGravar(p)
Sincronizar(p) ==
    \/ TerminarLer(p) \/ TerminarGravar(p) \/ SincronizarLer(p) \/ SincronizarFolha(p)
    \/ SincronizarCriar(p) \/ SincronizarLinhas(p) \/ SincronizarNada(p)
    \/ \E m \in Matriculas, presente \in BOOLEAN : SincronizarMarcar(p, m, presente)

Next ==
    \/ Iniciar \/ UpdateSessao
    \/ \E m \in Matriculas : UpdateEstado(m)
    \/ \E p \in Pedidos :
          CriarLer(p) \/ CriarGravar(p) \/ Checkin(p) \/ Marcar(p) \/ Assinar(p)
          \/ Sincronizar(p) \/ Falhar(p)

Spec == Init /\ [][Next]_vars

-----------------------------------------------------------------------------
(* Types; the rows belong to a sheet, which exists at most once. *)
TypeOK ==
    /\ lmsAtivo \in BOOLEAN /\ teveLms \in BOOLEAN /\ (lmsAtivo => teveLms)
    /\ iniciada \in BOOLEAN /\ terminada \in BOOLEAN
    /\ ativas \subseteq Matriculas
    /\ \E f \in FolhaRow : folha \in {{}, {f}}
    /\ ComLinha \subseteq Matriculas /\ presenca \in [ComLinha -> PresencaRow]
    /\ folha = {} => presenca = <<>>
    /\ pedido \in [Pedidos -> PedidoRow]
    /\ falhas \in Nat

(* A row counts as present exactly when its state says so, whoever wrote   *)
(* it last: trainer, learner, or LMS.                                      *)
PresenteSegueEstado ==
    \A m \in ComLinha : presenca[m].presente <=> presenca[m].estado = "PRESENTE"

(* While one request validates, no other marks rows ...                    *)
SoMarcaQuemValida ==
    \A p, q \in Pedidos : p # q /\ "validar" \in Operacoes[p] => "marcar" \notin Operacoes[q]

(* ... and while one approves, no other marks rows or checks in: what the  *)
(* signatures promise, they promise then.                                  *)
SoMudaQuemAprova ==
    \A p, q \in Pedidos :
        p # q /\ "aprovar" \in Operacoes[p] => Operacoes[q] \cap {"marcar", "checkin"} = {}

(* The manager's approval stands on a trainer's validation that still      *)
(* stands.                                                                 *)
AprovadaValidada == \A f \in folha : f.aprovada => f.validada

(* A sheet with a standing validation has every row marked, and a reason   *)
(* for each justified absence ...                                          *)
ValidadaCompleta ==
    \A f \in folha : f.validada => \A m \in ComLinha : Assinalada(presenca[m])

(* ... in sessions the LMS has never synchronised.                         *)
ValidadaCompletaSemLms == ~teveLms => ValidadaCompleta

(* In those, a row an approved sheet has does not change while the sheet   *)
(* stays approved: whoever changes one has taken the approval away first,  *)
(* and still has when the request stops between the two updates.           *)
AprovadaNaoMuda ==
    [][~teveLms =>
         \A f \in folha, g \in folha' :
            f.aprovada /\ g.aprovada => \A m \in ComLinha : presenca'[m] = presenca[m]]_vars
=============================================================================
