-------------------------------- MODULE Comercial --------------------------------
(***************************************************************************)
(* From a lead to a customer: leads, proposals, the answer of the customer *)
(* by the link of the e-mail, and the registration that may be completed   *)
(* after it (leads.service.ts, proposal.service.ts, propostas.service.ts,  *)
(* entidades-cliente.service.ts, entidade-cliente-registo.util.ts).        *)
(*                                                                         *)
(* No handler has a transaction over what it reads: it writes by id.  What *)
(* is edited without touching a state (contents, prices) is left out, and  *)
(* so are custom fields, web hooks and notifications.                      *)
(***************************************************************************)
EXTENDS Naturals, FiniteSets

CONSTANTS
    Clientes,     \* companies, by NIF
    Leads,
    NifDe,        \* the company of each lead
    Propostas,
    Pedidos,      \* requests that may run at the same time
    Operacoes,    \* what each of them may ask for
    MaxFalhas,    \* bound: requests that stop half way
    Nulo

Endpoints == {"criarLead", "editarLead", "perderLead", "converter", "propostaDoLead", "proposta",
              "enviar", "editarProposta", "removerProposta", "aceitar", "rejeitar", "registarCliente"}

Registos == {"prospecto", "pendente_completar", "cliente"}
LeadRow == [estado: {"ABERTO", "CONVERTIDO", "PERDIDO"}, ligado: BOOLEAN]
PropostaEstados == {"RASCUNHO", "ENVIADA", "ACEITE", "REJEITADA", "CANCELADA"}
PropostaRow == [cliente: Clientes, estado: PropostaEstados]
Respostas == {"ACEITE", "REJEITADA"}

(* What the constants are (those of the instances are checked).           *)
ComercialAssumption ==
    /\ NifDe \in [Leads -> Clientes]
    /\ Operacoes \in [Pedidos -> SUBSET Endpoints]
    /\ MaxFalhas \in Nat
    /\ Nulo \notin Registos \cup LeadRow \cup PropostaRow

VARIABLES
    registo,    \* EntidadeCliente by NIF: metadata.registoCliente.status
    lead,       \* LeadComercial; ligado: it has an entidadeClienteId
    proposta,   \* PropostaComercial
    apagadas,   \* ids of proposals that were deleted: they do not come back
    aceites,    \* history: companies that have accepted a proposal
    diretos,    \* history: companies registered as customers without one
    editadas,   \* history: proposals whose state an edition has written
    pedido,
    falhas

vars == <<registo, lead, proposta, apagadas, aceites, diretos, editadas, pedido, falhas>>
historia == <<aceites, diretos, editadas>>

Livre == [pc |-> "livre"]
PedidoRow ==
    {Livre}
      \cup [pc: {"lead.gravar"}, lead: Leads, estado: {"ABERTO", "CONVERTIDO"}]
      \cup [pc: {"lead.perder", "converter.entidade", "converter.cliente", "converter.lead",
                 "vies", "entidade.gravar", "entidade.ligar"},
            lead: Leads, estado: Registos \cup {Nulo}]
      \cup [pc: {"proposta.criar"}, cliente: Clientes]
      \cup [pc: {"enviar", "editar", "remover", "aceitar", "rejeitar"}, proposta: Propostas,
            estado: PropostaEstados]
      \cup [pc: {"aceitar.entidade", "aceitar.registo", "aceitar.leads"}, cliente: Clientes]
      \cup [pc: {"aceitar.ligar"}, leads: SUBSET Leads]

Init ==
    /\ registo = [c \in Clientes |-> Nulo]
    /\ lead = [l \in Leads |-> Nulo]
    /\ proposta = [q \in Propostas |-> Nulo] /\ apagadas = {}
    /\ aceites = {} /\ diretos = {} /\ editadas = {}
    /\ pedido = [p \in Pedidos |-> Livre] /\ falhas = 0

Aceita(p, op) == pedido[p] = Livre /\ op \in Operacoes[p]
Segue(p, r) == pedido' = [pedido EXCEPT ![p] = r]
Passa(p, pc) == Segue(p, [pedido[p] EXCEPT !.pc = pc])
Termina(p) == Segue(p, Livre)
SemMudar == UNCHANGED <<registo, lead, proposta, apagadas, historia, falhas>>
SoLead == UNCHANGED <<registo, proposta, apagadas, historia, falhas>>
SoRegisto == UNCHANGED <<lead, proposta, apagadas, historia, falhas>>

ComLead(pc, l, e) == [pc |-> pc, lead |-> l, estado |-> e]
ComProposta(pc, q) == [pc |-> pc, proposta |-> q, estado |-> proposta[q].estado]
ComCliente(pc, c) == [pc |-> pc, cliente |-> c]
ComLeads(S) == [pc |-> "aceitar.ligar", leads |-> S]
Existe(q) == proposta[q] # Nulo

(***************************************************************************)
(* Leads: create, update, marcarPerdido                                    *)
(***************************************************************************)
CriarLead(p, l) ==
    /\ Aceita(p, "criarLead") /\ lead[l] = Nulo
    /\ \E ligado \in {FALSE} \cup {registo[NifDe[l]] # Nulo} :
          lead' = [lead EXCEPT ![l] = [estado |-> "ABERTO", ligado |-> ligado]]
    /\ SoLead /\ UNCHANGED pedido

(* "Lead fechado"; CONVERTIDO is only written to a lead with a company.    *)
EditarLeadLer(p, l, e) ==
    /\ Aceita(p, "editarLead") /\ lead[l] # Nulo
    /\ lead[l].estado = "ABERTO" /\ (e = "CONVERTIDO" => lead[l].ligado)
    /\ Segue(p, ComLead("lead.gravar", l, e))
    /\ SemMudar

EditarLeadGravar(p) ==
    LET r == pedido[p]
    IN  /\ r.pc = "lead.gravar"
        /\ lead' = [lead EXCEPT ![r.lead].estado = r.estado]
        /\ SoLead /\ Termina(p)

PerderLeadLer(p, l) ==
    /\ Aceita(p, "perderLead") /\ lead[l] # Nulo /\ lead[l].estado # "CONVERTIDO"
    /\ Segue(p, ComLead("lead.perder", l, Nulo))
    /\ SemMudar

PerderLeadGravar(p) ==
    LET r == pedido[p]
    IN  /\ r.pc = "lead.perder"
        /\ lead' = [lead EXCEPT ![r.lead].estado = "PERDIDO"]
        /\ SoLead /\ Termina(p)

(***************************************************************************)
(* converterEntidade                                                       *)
(***************************************************************************)
ConverterLer(p, l) ==
    /\ Aceita(p, "converter") /\ lead[l] # Nulo
    /\ lead[l].estado # "PERDIDO" /\ lead[l].ligado
    /\ Segue(p, ComLead("converter.entidade", l, Nulo))
    /\ SemMudar

(* Fault: a company that has accepted nothing is taken too. *)
FaltaConverterProspecto(c) == registo[c] \in {"prospecto", "pendente_completar"}

(* entidadeRegistoPendenteCompletar *)
PorCompletar(c) == registo[c] = "pendente_completar"

ConverterEntidade(p) ==
    /\ pedido[p].pc = "converter.entidade"
    /\ IF PorCompletar(NifDe[pedido[p].lead]) THEN Passa(p, "converter.cliente") ELSE Termina(p)
    /\ SemMudar

ConverterCliente(p) ==
    /\ pedido[p].pc = "converter.cliente"
    /\ registo' = [registo EXCEPT ![NifDe[pedido[p].lead]] = "cliente"]
    /\ Passa(p, "converter.lead")
    /\ SoRegisto

ConverterLead(p) ==
    LET r == pedido[p]
    IN  /\ r.pc = "converter.lead"
        /\ lead' = [lead EXCEPT ![r.lead] = [estado |-> "CONVERTIDO", ligado |-> TRUE]]
        /\ SoLead /\ Termina(p)

(***************************************************************************)
(* Proposals: from a lead (LeadsService.criarProposta), or for a company   *)
(* that exists                                                             *)
(***************************************************************************)
PropostaDoLeadLer(p, l) ==
    /\ Aceita(p, "propostaDoLead") /\ lead[l] # Nulo /\ lead[l].estado # "PERDIDO"
    /\ Segue(p, IF lead[l].ligado THEN ComCliente("proposta.criar", NifDe[l])
                ELSE ComLead("vies", l, Nulo))
    /\ SemMudar

(* resolverOuCriarEntidade, after VIES has confirmed the number            *)
EntidadeLer(p) ==
    LET r == pedido[p]
    IN  /\ r.pc = "vies"
        /\ Segue(p, ComLead("entidade.gravar", r.lead, registo[NifDe[r.lead]]))
        /\ SemMudar

(* The company is created as a prospect, unless another request has done   *)
(* it meanwhile, or one that was a prospect is made a prospect once more.  *)
EntidadeGravar(p) ==
    LET r == pedido[p]
        c == NifDe[r.lead]
    IN  /\ r.pc = "entidade.gravar"
        /\ IF r.estado = Nulo /\ registo[c] # Nulo THEN Termina(p) /\ UNCHANGED registo
           ELSE /\ Passa(p, "entidade.ligar")
                /\ registo' = IF r.estado \in {Nulo, "prospecto"}
                              THEN [registo EXCEPT ![c] = "prospecto"] ELSE registo
        /\ SoRegisto

EntidadeLigar(p) ==
    LET l == pedido[p].lead
    IN  /\ pedido[p].pc = "entidade.ligar"
        /\ lead' = [lead EXCEPT ![l].ligado = TRUE]
        /\ Segue(p, ComCliente("proposta.criar", NifDe[l]))
        /\ SoLead

(* PropostasService.create, and criarProposta of the CRM *)
Proposta(p, c) ==
    /\ Aceita(p, "proposta") /\ registo[c] # Nulo
    /\ Segue(p, ComCliente("proposta.criar", c))
    /\ SemMudar

PropostaCriar(p, q) ==
    /\ pedido[p].pc = "proposta.criar" /\ ~Existe(q) /\ q \notin apagadas
    /\ proposta' = [proposta EXCEPT ![q] = [cliente |-> pedido[p].cliente, estado |-> "RASCUNHO"]]
    /\ Termina(p)
    /\ UNCHANGED <<registo, lead, apagadas, historia, falhas>>

(* Handlers that read a proposal and write it by id: the update of one     *)
(* that is gone fails.                                                     *)
Ler(p, op, pc, q, estados) ==
    /\ Aceita(p, op) /\ Existe(q) /\ proposta[q].estado \in estados
    /\ Segue(p, ComProposta(pc, q))
    /\ SemMudar

Grava(p, e) ==
    LET q == pedido[p].proposta
    IN  /\ proposta' = IF Existe(q) THEN [proposta EXCEPT ![q].estado = e] ELSE proposta
        /\ UNCHANGED <<lead, registo, apagadas, diretos, falhas>>

(* enviarProposta, before and after the PDF and the e-mail *)
EnviarLer(p, q) == Ler(p, "enviar", "enviar", q, PropostaEstados \ {"CANCELADA"})

(* Fault: a proposal that is sent again is ENVIADA again. *)
FaltaReenvio(e) == e \in {"RASCUNHO", "ENVIADA"}

(* "Primeiro envio: RASCUNHO -> ENVIADA. Reenvios mantêm o estado actual", *)
(* by the state that was read.                                             *)
PrimeiroEnvio(e) == e = "RASCUNHO"

EnviarGravar(p) ==
    LET r == pedido[p]
    IN  /\ r.pc = "enviar"
        /\ IF PrimeiroEnvio(r.estado) THEN Grava(p, "ENVIADA")
           ELSE UNCHANGED <<proposta, lead, registo, apagadas, diretos, falhas>>
        /\ Termina(p) /\ UNCHANGED <<aceites, editadas>>

(* PropostasService.update writes the state it is given, or else the one   *)
(* it read.                                                                *)
EditarLer(p, q, e) ==
    /\ Aceita(p, "editarProposta") /\ Existe(q)
    /\ Segue(p, [ComProposta("editar", q) EXCEPT !.estado = IF e = Nulo THEN @ ELSE e])
    /\ SemMudar

EditarGravar(p) ==
    /\ pedido[p].pc = "editar"
    /\ Grava(p, pedido[p].estado)
    /\ editadas' = editadas \cup {pedido[p].proposta}
    /\ Termina(p) /\ UNCHANGED aceites

(* PropostasService.remove; whether it is invoiced is left open.           *)
RemoverLer(p, q) == Ler(p, "removerProposta", "remover", q, PropostaEstados)

RemoverGravar(p) ==
    LET q == pedido[p].proposta
    IN  /\ pedido[p].pc = "remover"
        /\ proposta' = [proposta EXCEPT ![q] = Nulo] /\ apagadas' = apagadas \cup {q}
        /\ Termina(p)
        /\ UNCHANGED <<registo, lead, historia, falhas>>

(***************************************************************************)
(* The answer of the customer: finalizarAceite, finalizarRejeicao          *)
(***************************************************************************)
AceitarLer(p, q) == Ler(p, "aceitar", "aceitar", q, {"ENVIADA"})

AceitarGravar(p) ==
    LET q == pedido[p].proposta
    IN  /\ pedido[p].pc = "aceitar"
        /\ Grava(p, "ACEITE") /\ UNCHANGED editadas
        /\ IF Existe(q)
           THEN /\ aceites' = aceites \cup {proposta[q].cliente}
                /\ Segue(p, ComCliente("aceitar.entidade", proposta[q].cliente))
           ELSE Termina(p) /\ UNCHANGED aceites

AceitarEntidade(p) ==
    /\ pedido[p].pc = "aceitar.entidade"
    /\ Passa(p, IF registo[pedido[p].cliente] = "cliente" THEN "aceitar.leads" ELSE "aceitar.registo")
    /\ SemMudar

(* Fault: the state of the registration is left. *)
FaltaSemRegisto(c) == UNCHANGED registo

MarcaPendente(c) == registo' = [registo EXCEPT ![c] = "pendente_completar"]

AceitarRegisto(p) ==
    /\ pedido[p].pc = "aceitar.registo"
    /\ MarcaPendente(pedido[p].cliente)
    /\ Passa(p, "aceitar.leads")
    /\ SoRegisto

(* converterLeadsAssociados: the open leads of the company are read, and   *)
(* updateMany writes those rows, whatever state they have by then.         *)
LeadsDe(c) == {l \in Leads : lead[l] # Nulo /\ lead[l].estado = "ABERTO" /\ NifDe[l] = c}

AceitarLeads(p) ==
    LET leads == LeadsDe(pedido[p].cliente)
    IN  /\ pedido[p].pc = "aceitar.leads"
        /\ IF leads = {} THEN Termina(p) ELSE Segue(p, ComLeads(leads))
        /\ SemMudar

AceitarLigar(p) ==
    /\ pedido[p].pc = "aceitar.ligar"
    /\ lead' = [l \in Leads |-> IF lead[l] # Nulo /\ l \in pedido[p].leads
                                THEN [lead[l] EXCEPT !.ligado = TRUE] ELSE lead[l]]
    /\ SoLead /\ Termina(p)

RejeitarLer(p, q) == Ler(p, "rejeitar", "rejeitar", q, {"ENVIADA"})

RejeitarGravar(p) ==
    /\ pedido[p].pc = "rejeitar"
    /\ Grava(p, "REJEITADA")
    /\ Termina(p) /\ UNCHANGED <<aceites, editadas>>

(* EntidadesClienteService.create *)
RegistarCliente(p, c) ==
    /\ Aceita(p, "registarCliente") /\ registo[c] = Nulo
    /\ registo' = [registo EXCEPT ![c] = "cliente"] /\ diretos' = diretos \cup {c}
    /\ UNCHANGED <<lead, proposta, apagadas, aceites, editadas, pedido, falhas>>

Interromper(p) ==
    /\ pedido[p] # Livre /\ falhas < MaxFalhas
    /\ falhas' = falhas + 1 /\ Termina(p)
    /\ UNCHANGED <<registo, lead, proposta, apagadas, historia>>

DoLead(p) ==
    \/ EditarLeadGravar(p) \/ PerderLeadGravar(p)
    \/ ConverterEntidade(p) \/ ConverterCliente(p) \/ ConverterLead(p)
    \/ EntidadeLer(p) \/ EntidadeGravar(p) \/ EntidadeLigar(p)
    \/ \E l \in Leads :
          \/ CriarLead(p, l) \/ PerderLeadLer(p, l) \/ ConverterLer(p, l) \/ PropostaDoLeadLer(p, l)
          \/ \E e \in {"ABERTO", "CONVERTIDO"} : EditarLeadLer(p, l, e)
    \/ \E c \in Clientes : RegistarCliente(p, c) \/ Proposta(p, c)

DaProposta(p) ==
    \/ EnviarGravar(p) \/ EditarGravar(p) \/ RemoverGravar(p)
    \/ AceitarGravar(p) \/ AceitarEntidade(p) \/ AceitarRegisto(p)
    \/ AceitarLeads(p) \/ AceitarLigar(p) \/ RejeitarGravar(p)
    \/ \E q \in Propostas :
          \/ PropostaCriar(p, q) \/ EnviarLer(p, q) \/ RemoverLer(p, q)
          \/ AceitarLer(p, q) \/ RejeitarLer(p, q)
          \/ \E e \in PropostaEstados \cup {Nulo} : EditarLer(p, q, e)

Next == \E p \in Pedidos : DoLead(p) \/ DaProposta(p) \/ Interromper(p)

Spec == Init /\ [][Next]_vars

-----------------------------------------------------------------------------
(* Types. *)
TypeOK ==
    /\ registo \in [Clientes -> Registos \cup {Nulo}]
    /\ lead \in [Leads -> LeadRow \cup {Nulo}]
    /\ proposta \in [Propostas -> PropostaRow \cup {Nulo}] /\ apagadas \subseteq Propostas
    /\ aceites \subseteq Clientes /\ diretos \subseteq Clientes
    /\ editadas \subseteq Propostas
    /\ pedido \in [Pedidos -> PedidoRow] /\ falhas \in Nat

(* "A conversão em cliente só é possível após aceite da proposta": a       *)
(* company that was not registered as a customer becomes one, or is asked  *)
(* to complete the registration, only when it has accepted a proposal,     *)
(* whatever other requests write between the checks and the writes.        *)
ConversaoAposAceite ==
    \A c \in Clientes :
        registo[c] \in {"pendente_completar", "cliente"} => c \in aceites \cup diretos

(* An acceptance is not lost: a company that has accepted can complete its *)
(* registration, or has done it, once no request is at work -- if none has *)
(* stopped half way, no two leads are of one company and one request at a  *)
(* time makes proposals from leads (VIES answers before the company is     *)
(* written over).                                                          *)
AceiteRegistado ==
    (falhas = 0 /\ \A p \in Pedidos : pedido[p] = Livre) =>
        \A c \in aceites : registo[c] \in {"pendente_completar", "cliente"}

Respondida(q) == Existe(q) /\ proposta[q].estado \in Respostas

(* An answered proposal whose state the provider's staff has not edited    *)
(* does not wait for an answer again, although it may be sent once more    *)
(* while the customer answers -- with one request at a time that sends.    *)
Fica ==
    \A q \in Propostas \ editadas' : (Respondida(q) /\ Existe(q)') => Respondida(q)'

RespostaFica == [][Fica]_vars
=============================================================================
