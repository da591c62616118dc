---------------------------- MODULE ComercialProofs ----------------------------
(* Theorems about Comercial, for every set of companies, leads, proposals  *)
(* and requests, whatever each of them may ask for.                        *)
EXTENDS Comercial, TLAPS

PcsLead == {"lead.gravar", "lead.perder", "converter.entidade", "converter.cliente",
            "converter.lead", "vies", "entidade.gravar", "entidade.ligar"}
PcsCliente == {"proposta.criar", "aceitar.entidade", "aceitar.registo", "aceitar.leads"}
PcsProposta == {"enviar", "editar", "remover", "aceitar", "rejeitar"}

(* A request works on a lead that exists: leads are not deleted.           *)
LeadsExistem ==
    \A p \in Pedidos : pedido[p].pc \in PcsLead => lead[pedido[p].lead] # Nulo

TypeInv == TypeOK /\ LeadsExistem

-----------------------------------------------------------------------------
(* Types *)

(* What a request holds, by where it stands.                               *)
LEMMA PedidoTipo ==
    ASSUME TypeOK, NEW p \in Pedidos
    PROVE  /\ pedido[p].pc \in PcsLead =>
                 /\ pedido[p].lead \in Leads
                 /\ pedido[p].pc = "lead.gravar" => pedido[p].estado \in {"ABERTO", "CONVERTIDO"}
                 /\ pedido[p].pc # "lead.gravar" => pedido[p].estado \in Registos \cup {Nulo}
                 /\ pedido[p] = ComLead(pedido[p].pc, pedido[p].lead, pedido[p].estado)
           /\ pedido[p].pc \in PcsCliente =>
                 /\ pedido[p].cliente \in Clientes
                 /\ pedido[p] = ComCliente(pedido[p].pc, pedido[p].cliente)
           /\ pedido[p].pc \in PcsProposta =>
                 pedido[p].proposta \in Propostas /\ pedido[p].estado \in PropostaEstados
           /\ pedido[p].pc = "aceitar.ligar" => pedido[p].leads \subseteq Leads
<1>1. pedido[p] \in PedidoRow
  BY DEF TypeOK
<1> QED BY <1>1 DEF PedidoRow, Livre, ComLead, ComCliente, PcsLead, PcsCliente, PcsProposta

(* Only one request changes at a time.                                     *)
LEMMA SegueTipo ==
    ASSUME TypeOK, NEW p \in Pedidos, NEW r \in PedidoRow, Segue(p, r)
    PROVE  /\ pedido' \in [Pedidos -> PedidoRow] /\ pedido'[p] = r
           /\ \A o \in Pedidos \ {p} : pedido'[o] = pedido[o]
BY DEF Segue, TypeOK

LEMMA LivreTipo == Livre \in PedidoRow /\ Livre.pc \notin PcsLead
BY DEF Livre, PedidoRow, PcsLead

LEMMA LinhaLeads ==
    ASSUME NEW S \in SUBSET Leads
    PROVE  /\ ComLeads(S) \in PedidoRow /\ ComLeads(S).pc = "aceitar.ligar" /\ ComLeads(S).leads = S
           /\ ComLeads(S).pc \notin PcsLead \cup PcsProposta \cup PcsCliente
BY DEF ComLeads, PedidoRow, PcsLead, PcsProposta, PcsCliente

LEMMA TypeInit == ASSUME ComercialAssumption, Init PROVE TypeInv
BY DEF Init, TypeOK, TypeInv, LeadsExistem, PcsLead, PedidoRow, Livre, ComercialAssumption

(* A step of one request keeps LeadsExistem when leads stay.               *)
LEMMA MantemLeads ==
    ASSUME TypeInv, NEW p \in Pedidos, NEW r \in PedidoRow, Segue(p, r),
           \A l \in Leads : lead[l] # Nulo => lead'[l] # Nulo,
           r.pc \in PcsLead => lead[r.lead] # Nulo /\ r.lead \in Leads
    PROVE  LeadsExistem'
BY SegueTipo, PedidoTipo DEF LeadsExistem, TypeInv

(* The requests that only read. *)
LEMMA TypeLer ==
    ASSUME TypeInv, NEW p \in Pedidos, NEW r \in PedidoRow, Segue(p, r), SemMudar,
           r.pc \in PcsLead => lead[r.lead] # Nulo /\ r.lead \in Leads
    PROVE  TypeInv'
<1>1. LeadsExistem'
  BY MantemLeads DEF SemMudar
<1>2. TypeOK'
  BY SegueTipo DEF TypeInv, TypeOK, SemMudar, historia
<1> QED BY <1>1, <1>2 DEF TypeInv

LEMMA LinhaLead ==
    ASSUME NEW l \in Leads, NEW pc \in PcsLead \ {"lead.gravar"}, NEW e \in Registos \cup {Nulo}
    PROVE  ComLead(pc, l, e) \in PedidoRow /\ ComLead(pc, l, e).lead = l /\ ComLead(pc, l, e).pc = pc
BY DEF ComLead, PedidoRow, PcsLead

LEMMA LinhaCliente ==
    ASSUME NEW c \in Clientes, NEW pc \in PcsCliente
    PROVE  ComCliente(pc, c) \in PedidoRow /\ ComCliente(pc, c).pc \notin PcsLead
BY DEF ComCliente, PedidoRow, PcsCliente, PcsLead

LEMMA LinhaProposta ==
    ASSUME TypeOK, NEW q \in Propostas, Existe(q), NEW pc \in PcsProposta
    PROVE  /\ ComProposta(pc, q) \in PedidoRow /\ ComProposta(pc, q).pc \notin PcsLead
           /\ \A e \in PropostaEstados : [ComProposta(pc, q) EXCEPT !.estado = e] \in PedidoRow
           /\ \A e \in PropostaEstados : [ComProposta(pc, q) EXCEPT !.estado = e].pc = pc
<1>1. proposta[q].estado \in PropostaEstados
  BY DEF TypeOK, Existe, PropostaRow
<1> QED BY <1>1 DEF ComProposta, PedidoRow, PcsProposta, PcsLead

(* A request writes a lead and ends. *)
LEMMA EscreverLead ==
    ASSUME ComercialAssumption, TypeInv, NEW p \in Pedidos, NEW l \in Leads, NEW r \in LeadRow,
           lead' = [lead EXCEPT ![l] = r], SoLead, Termina(p)
    PROVE  TypeInv'
<1>1. r # Nulo
  BY DEF ComercialAssumption
<1>2. \A k \in Leads : lead[k] # Nulo => lead'[k] # Nulo
  BY <1>1 DEF TypeInv, TypeOK
<1>3. LeadsExistem'
  BY <1>2, MantemLeads, LivreTipo DEF Termina
<1>4. TypeOK'
  BY SegueTipo, LivreTipo DEF Termina, SoLead, historia, TypeInv, TypeOK
<1> QED BY <1>3, <1>4 DEF TypeInv

(* The leads. *)
LEMMA TypeLead ==
    ASSUME ComercialAssumption, TypeInv, NEW p \in Pedidos,
           \/ \E l \in Leads :
                 \/ CriarLead(p, l) \/ PerderLeadLer(p, l)
                 \/ \E e \in {"ABERTO", "CONVERTIDO"} : EditarLeadLer(p, l, e)
           \/ EditarLeadGravar(p) \/ PerderLeadGravar(p)
    PROVE  TypeInv'
<1>1. ASSUME NEW l \in Leads, CriarLead(p, l) PROVE TypeInv'
  <2>1. PICK ligado \in BOOLEAN :
            lead' = [lead EXCEPT ![l] = [estado |-> "ABERTO", ligado |-> ligado]]
    BY <1>1, Zenon DEF CriarLead
  <2>2. [estado |-> "ABERTO", ligado |-> ligado] \in LeadRow
    BY DEF LeadRow
  <2>3. TypeOK'
    BY <1>1, <2>1, <2>2 DEF CriarLead, SoLead, historia, TypeOK, TypeInv
  <2>4. [estado |-> "ABERTO", ligado |-> ligado] # Nulo
    BY <2>2, ComercialAssumption DEF ComercialAssumption
  <2> QED BY <1>1, <2>1, <2>3, <2>4, PedidoTipo DEF CriarLead, SoLead, TypeInv, LeadsExistem, TypeOK
<1>2. ASSUME NEW l \in Leads, NEW e \in {"ABERTO", "CONVERTIDO"}, EditarLeadLer(p, l, e) PROVE TypeInv'
  <2>1. ComLead("lead.gravar", l, e) \in PedidoRow /\ ComLead("lead.gravar", l, e).lead = l
    BY DEF ComLead, PedidoRow
  <2> QED BY <1>2, <2>1, TypeLer DEF EditarLeadLer
<1>3. ASSUME EditarLeadGravar(p) PROVE TypeInv'
  <2>1. lead[pedido[p].lead] \in LeadRow /\ pedido[p].lead \in Leads
    BY <1>3, PedidoTipo DEF EditarLeadGravar, TypeInv, TypeOK, LeadsExistem, PcsLead
  <2>2. pedido[p].estado \in {"ABERTO", "CONVERTIDO"}
    BY <1>3, PedidoTipo DEF EditarLeadGravar, TypeInv, PcsLead
  <2>3. [lead[pedido[p].lead] EXCEPT !.estado = pedido[p].estado] \in LeadRow
    BY <2>1, <2>2 DEF LeadRow
  <2> QED BY <1>3, <2>1, <2>3, EscreverLead DEF EditarLeadGravar
<1>4. ASSUME NEW l \in Leads, PerderLeadLer(p, l) PROVE TypeInv'
  <2>1. ComLead("lead.perder", l, Nulo) \in PedidoRow /\ ComLead("lead.perder", l, Nulo).lead = l
    BY LinhaLead DEF PcsLead
  <2> QED BY <1>4, <2>1, TypeLer DEF PerderLeadLer
<1>5. ASSUME PerderLeadGravar(p) PROVE TypeInv'
  <2>1. lead[pedido[p].lead] \in LeadRow /\ pedido[p].lead \in Leads
    BY <1>5, PedidoTipo DEF PerderLeadGravar, TypeInv, TypeOK, LeadsExistem, PcsLead
  <2>2. [lead[pedido[p].lead] EXCEPT !.estado = "PERDIDO"] \in LeadRow
    BY <2>1 DEF LeadRow
  <2> QED BY <1>5, <2>1, <2>2, EscreverLead DEF PerderLeadGravar
<1> QED BY <1>1, <1>2, <1>3, <1>4, <1>5

(* A request writes the register of a company. *)
LEMMA EscreverRegisto ==
    ASSUME TypeInv, NEW p \in Pedidos, NEW r \in PedidoRow, Segue(p, r), SoRegisto,
           registo' \in [Clientes -> Registos \cup {Nulo}],
           r.pc \in PcsLead => lead[r.lead] # Nulo /\ r.lead \in Leads
    PROVE  TypeInv'
<1>1. LeadsExistem'
  BY MantemLeads DEF SoRegisto
<1>2. TypeOK'
  BY SegueTipo DEF SoRegisto, historia, TypeInv, TypeOK
<1> QED BY <1>1, <1>2 DEF TypeInv

(* The same place of the program further on, with the same lead.           *)
LEMMA PassaLead ==
    ASSUME TypeInv, NEW p \in Pedidos, pedido[p].pc \in PcsLead \ {"lead.gravar"},
           NEW pc \in PcsLead \ {"lead.gravar"}
    PROVE  /\ [pedido[p] EXCEPT !.pc = pc] \in PedidoRow
           /\ [pedido[p] EXCEPT !.pc = pc].pc = pc
           /\ [pedido[p] EXCEPT !.pc = pc].lead = pedido[p].lead
           /\ pedido[p].lead \in Leads /\ lead[pedido[p].lead] \in LeadRow
           /\ lead[pedido[p].lead] # Nulo
<1>1. /\ pedido[p].lead \in Leads /\ pedido[p].estado \in Registos \cup {Nulo}
      /\ pedido[p] = ComLead(pedido[p].pc, pedido[p].lead, pedido[p].estado)
  BY PedidoTipo DEF TypeInv
<1>2. [pedido[p] EXCEPT !.pc = pc] = ComLead(pc, pedido[p].lead, pedido[p].estado)
  BY <1>1 DEF ComLead
<1>3. lead[pedido[p].lead] # Nulo
  BY DEF TypeInv, LeadsExistem
<1>4. lead[pedido[p].lead] \in LeadRow
  BY <1>1, <1>3 DEF TypeInv, TypeOK
<1> QED BY <1>1, <1>2, <1>3, <1>4, LinhaLead

LEMMA PassaCliente ==
    ASSUME TypeInv, NEW p \in Pedidos, pedido[p].pc \in PcsCliente, NEW pc \in PcsCliente
    PROVE  /\ [pedido[p] EXCEPT !.pc = pc] = ComCliente(pc, pedido[p].cliente)
           /\ [pedido[p] EXCEPT !.pc = pc] \in PedidoRow
           /\ [pedido[p] EXCEPT !.pc = pc].pc \notin PcsLead
           /\ pedido[p].cliente \in Clientes
<1>1. pedido[p].cliente \in Clientes /\ pedido[p] = ComCliente(pedido[p].pc, pedido[p].cliente)
  BY PedidoTipo DEF TypeInv
<1>2. [pedido[p] EXCEPT !.pc = pc] = ComCliente(pc, pedido[p].cliente)
  BY <1>1 DEF ComCliente
<1> QED BY <1>1, <1>2, LinhaCliente

(* converterEntidade *)
LEMMA TypeConverter ==
    ASSUME ComercialAssumption, TypeInv, NEW p \in Pedidos,
           \/ \E l \in Leads : ConverterLer(p, l)
           \/ ConverterEntidade(p) \/ ConverterCliente(p) \/ ConverterLead(p)
    PROVE  TypeInv'
<1>1. ASSUME NEW l \in Leads, ConverterLer(p, l) PROVE TypeInv'
  <2>1. /\ ComLead("converter.entidade", l, Nulo) \in PedidoRow
        /\ ComLead("converter.entidade", l, Nulo).lead = l
    BY LinhaLead DEF PcsLead
  <2> QED BY <1>1, <2>1, TypeLer DEF ConverterLer
<1>2. ASSUME ConverterEntidade(p) PROVE TypeInv'
  <2>1. CASE Passa(p, "converter.cliente")
    BY <1>2, <2>1, PassaLead, TypeLer DEF ConverterEntidade, Passa, PcsLead
  <2>2. CASE Termina(p)
    BY <1>2, <2>2, LivreTipo, TypeLer DEF ConverterEntidade, Termina
  <2> QED BY <1>2, <2>1, <2>2 DEF ConverterEntidade
<1>3. ASSUME ConverterCliente(p) PROVE TypeInv'
  <2>1. /\ [pedido[p] EXCEPT !.pc = "converter.lead"] \in PedidoRow
        /\ [pedido[p] EXCEPT !.pc = "converter.lead"].lead = pedido[p].lead
        /\ pedido[p].lead \in Leads /\ lead[pedido[p].lead] # Nulo
    BY <1>3, PassaLead DEF ConverterCliente, PcsLead
  <2>2. registo' \in [Clientes -> Registos \cup {Nulo}]
    BY <1>3, <2>1 DEF ConverterCliente, TypeInv, TypeOK, Registos
  <2> QED BY <1>3, <2>1, <2>2, EscreverRegisto DEF ConverterCliente, Passa
<1>4. ASSUME ConverterLead(p) PROVE TypeInv'
  <2>1. pedido[p].lead \in Leads
    BY <1>4, PassaLead DEF ConverterLead, PcsLead
  <2>2. [estado |-> "CONVERTIDO", ligado |-> TRUE] \in LeadRow
    BY DEF LeadRow
  <2> QED BY <1>4, <2>1, <2>2, EscreverLead DEF ConverterLead
<1> QED BY <1>1, <1>2, <1>3, <1>4

(* The proposal of a lead, and its company. *)
LEMMA TypePropostaDoLead ==
    ASSUME ComercialAssumption, TypeInv, NEW p \in Pedidos,
           \/ \E l \in Leads : PropostaDoLeadLer(p, l)
           \/ EntidadeLer(p) \/ EntidadeGravar(p) \/ EntidadeLigar(p)
    PROVE  TypeInv'
<1>1. ASSUME NEW l \in Leads, PropostaDoLeadLer(p, l) PROVE TypeInv'
  <2>1. NifDe[l] \in Clientes
    BY DEF ComercialAssumption
  <2>2. CASE Segue(p, ComCliente("proposta.criar", NifDe[l]))
    BY <1>1, <2>1, <2>2, LinhaCliente, TypeLer DEF PropostaDoLeadLer, PcsCliente
  <2>3. CASE Segue(p, ComLead("vies", l, Nulo))
    <3>1. ComLead("vies", l, Nulo) \in PedidoRow /\ ComLead("vies", l, Nulo).lead = l
      BY LinhaLead DEF PcsLead
    <3> QED BY <1>1, <2>3, <3>1, TypeLer DEF PropostaDoLeadLer
  <2> QED BY <1>1, <2>2, <2>3 DEF PropostaDoLeadLer
<1>2. ASSUME EntidadeLer(p) PROVE TypeInv'
  <2> DEFINE k == pedido[p].lead
  <2>1. k \in Leads /\ lead[k] # Nulo /\ pedido[p] = ComLead("vies", k, pedido[p].estado)
    BY <1>2, PassaLead, PedidoTipo DEF EntidadeLer, PcsLead, TypeInv
  <2>2. registo[NifDe[k]] \in Registos \cup {Nulo}
    BY <2>1 DEF ComercialAssumption, TypeInv, TypeOK
  <2>3. /\ ComLead("entidade.gravar", k, registo[NifDe[k]]) \in PedidoRow
        /\ ComLead("entidade.gravar", k, registo[NifDe[k]]).lead = k
    BY <2>1, <2>2, LinhaLead DEF PcsLead
  <2> QED BY <1>2, <2>1, <2>3, TypeLer DEF EntidadeLer
<1>3. ASSUME EntidadeGravar(p) PROVE TypeInv'
  <2>1. registo' \in [Clientes -> Registos \cup {Nulo}]
    <3>1. \/ registo' = registo
          \/ registo' = [registo EXCEPT ![NifDe[pedido[p].lead]] = "prospecto"]
      BY <1>3 DEF EntidadeGravar
    <3> QED BY <3>1 DEF TypeInv, TypeOK, Registos
  <2>2. CASE Termina(p)
    BY <1>3, <2>1, <2>2, LivreTipo, EscreverRegisto DEF EntidadeGravar, Termina
  <2>3. CASE Passa(p, "entidade.ligar")
    BY <1>3, <2>1, <2>3, PassaLead, EscreverRegisto DEF EntidadeGravar, Passa, PcsLead
  <2> QED BY <1>3, <2>2, <2>3 DEF EntidadeGravar
<1>4. ASSUME EntidadeLigar(p) PROVE TypeInv'
  <2> DEFINE k == pedido[p].lead
  <2>1. k \in Leads /\ lead[k] \in LeadRow
    BY <1>4, PassaLead DEF EntidadeLigar, PcsLead
  <2>2. [lead[k] EXCEPT !.ligado = TRUE] \in LeadRow
    BY <2>1 DEF LeadRow
  <2>3. NifDe[k] \in Clientes
    BY <2>1 DEF ComercialAssumption
  <2>4. /\ ComCliente("proposta.criar", NifDe[k]) \in PedidoRow
        /\ ComCliente("proposta.criar", NifDe[k]).pc \notin PcsLead
    BY <2>3, LinhaCliente DEF PcsCliente
  <2>5. lead' = [lead EXCEPT ![k] = [lead[k] EXCEPT !.ligado = TRUE]]
    BY <1>4, <2>1 DEF EntidadeLigar, TypeInv, TypeOK
  <2>6. [lead[k] EXCEPT !.ligado = TRUE] # Nulo
    BY <2>2 DEF ComercialAssumption
  <2>7. TypeOK'
    BY <1>4, <2>1, <2>2, <2>4, <2>5, SegueTipo DEF EntidadeLigar, SoLead, historia, TypeInv, TypeOK
  <2>8. \A m \in Leads : lead[m] # Nulo => lead'[m] # Nulo
    BY <2>1, <2>5, <2>6 DEF TypeInv, TypeOK
  <2>9. LeadsExistem'
    BY <1>4, <2>4, <2>8, MantemLeads DEF EntidadeLigar
  <2> QED BY <2>7, <2>9 DEF TypeInv
<1> QED BY <1>1, <1>2, <1>3, <1>4

(* A request writes a proposal, and leads and companies stay.              *)
LEMMA EscreverProposta ==
    ASSUME TypeInv, NEW p \in Pedidos, NEW r \in PedidoRow, Segue(p, r), r.pc \notin PcsLead,
           UNCHANGED <<registo, lead, diretos, falhas>>,
           proposta' \in [Propostas -> PropostaRow \cup {Nulo}], apagadas' \subseteq Propostas,
           aceites' \subseteq Clientes, editadas' \subseteq Propostas
    PROVE  TypeInv'
<1>1. LeadsExistem'
  BY MantemLeads
<1>2. TypeOK'
  BY SegueTipo DEF TypeInv, TypeOK
<1> QED BY <1>1, <1>2 DEF TypeInv

LEMMA GravaTipo ==
    ASSUME TypeInv, NEW p \in Pedidos, pedido[p].pc \in PcsProposta, NEW e \in PropostaEstados,
           Grava(p, e)
    PROVE  proposta' \in [Propostas -> PropostaRow \cup {Nulo}]
<1>1. pedido[p].proposta \in Propostas
  BY PedidoTipo DEF TypeInv
<1>2. CASE Existe(pedido[p].proposta)
  <2>1. proposta[pedido[p].proposta] \in PropostaRow
    BY <1>1, <1>2 DEF Existe, TypeInv, TypeOK
  <2>2. [proposta[pedido[p].proposta] EXCEPT !.estado = e] \in PropostaRow
    BY <2>1 DEF PropostaRow
  <2> QED BY <1>1, <1>2, <2>2 DEF Grava, TypeInv, TypeOK
<1>3. CASE ~Existe(pedido[p].proposta)
  BY <1>3 DEF Grava, TypeInv, TypeOK
<1> QED BY <1>2, <1>3

(* Proposals, from their creation to their removal. *)
LEMMA TypeProposta ==
    ASSUME ComercialAssumption, TypeInv, NEW p \in Pedidos,
           \/ \E c \in Clientes : Proposta(p, c)
           \/ \E q \in Propostas :
                 \/ PropostaCriar(p, q) \/ EnviarLer(p, q) \/ RemoverLer(p, q)
                 \/ \E e \in PropostaEstados \cup {Nulo} : EditarLer(p, q, e)
           \/ EnviarGravar(p) \/ EditarGravar(p) \/ RemoverGravar(p)
    PROVE  TypeInv'
<1>1. ASSUME NEW c \in Clientes, Proposta(p, c) PROVE TypeInv'
  BY <1>1, LinhaCliente, TypeLer DEF Proposta, PcsCliente
<1>2. ASSUME NEW q \in Propostas, PropostaCriar(p, q) PROVE TypeInv'
  <2>1. pedido[p].cliente \in Clientes
    BY <1>2, PedidoTipo DEF PropostaCriar, PcsCliente, TypeInv
  <2>2. [cliente |-> pedido[p].cliente, estado |-> "RASCUNHO"] \in PropostaRow
    BY <2>1 DEF PropostaRow, PropostaEstados
  <2> QED BY <1>2, <2>2, LivreTipo, EscreverProposta DEF PropostaCriar, Termina, historia, TypeInv, TypeOK
<1>3. ASSUME NEW q \in Propostas, EnviarLer(p, q) PROVE TypeInv'
  BY <1>3, LinhaProposta, TypeLer DEF EnviarLer, Ler, PcsProposta, TypeInv
<1>4. ASSUME EnviarGravar(p) PROVE TypeInv'
  <2>1. proposta' \in [Propostas -> PropostaRow \cup {Nulo}]
    BY <1>4, GravaTipo DEF EnviarGravar, PcsProposta, PropostaEstados, TypeInv, TypeOK
  <2>2. UNCHANGED <<lead, registo, apagadas, diretos, falhas, aceites, editadas>> /\ Segue(p, Livre)
    BY <1>4 DEF EnviarGravar, Termina, Grava
  <2> QED BY <2>1, <2>2, LivreTipo, EscreverProposta DEF TypeInv, TypeOK
<1>5. ASSUME NEW q \in Propostas, NEW e \in PropostaEstados \cup {Nulo}, EditarLer(p, q, e) PROVE TypeInv'
  <2> DEFINE r == [ComProposta("editar", q) EXCEPT !.estado = IF e = Nulo THEN @ ELSE e]
  <2>1. r \in PedidoRow /\ r.pc \notin PcsLead
    <3>1. Existe(q) /\ ComProposta("editar", q).estado \in PropostaEstados
      BY <1>5, LinhaProposta DEF EditarLer, ComProposta, Existe, TypeInv, TypeOK, PropostaRow
    <3>2. PICK x \in PropostaEstados : r = [ComProposta("editar", q) EXCEPT !.estado = x]
      BY <3>1
    <3> QED BY <3>1, <3>2, LinhaProposta DEF PcsProposta, PcsLead, TypeInv
  <2> QED BY <1>5, <2>1, TypeLer DEF EditarLer
<1>6. ASSUME EditarGravar(p) PROVE TypeInv'
  <2>1. pedido[p].proposta \in Propostas /\ pedido[p].estado \in PropostaEstados
    BY <1>6, PedidoTipo DEF EditarGravar, PcsProposta, TypeInv
  <2>2. proposta' \in [Propostas -> PropostaRow \cup {Nulo}]
    BY <1>6, <2>1, GravaTipo DEF EditarGravar, PcsProposta
  <2>3. UNCHANGED <<lead, registo, apagadas, diretos, falhas, aceites>> /\ Segue(p, Livre)
    BY <1>6 DEF EditarGravar, Termina, Grava
  <2>4. editadas' \subseteq Propostas
    BY <1>6, <2>1 DEF EditarGravar, TypeInv, TypeOK
  <2> QED BY <2>2, <2>3, <2>4, LivreTipo, EscreverProposta DEF TypeInv, TypeOK
<1>7. ASSUME NEW q \in Propostas, RemoverLer(p, q) PROVE TypeInv'
  BY <1>7, LinhaProposta, TypeLer DEF RemoverLer, Ler, PcsProposta, TypeInv
<1>8. ASSUME RemoverGravar(p) PROVE TypeInv'
  <2>1. pedido[p].proposta \in Propostas
    BY <1>8, PedidoTipo DEF RemoverGravar, PcsProposta, TypeInv
  <2> QED BY <1>8, <2>1, LivreTipo, EscreverProposta DEF RemoverGravar, Termina, historia, TypeInv, TypeOK
<1> QED BY <1>1, <1>2, <1>3, <1>4, <1>5, <1>6, <1>7, <1>8

(* The answer of the customer. *)
LEMMA TypeResposta ==
    ASSUME ComercialAssumption, TypeInv, NEW p \in Pedidos,
           \/ \E q \in Propostas : AceitarLer(p, q) \/ RejeitarLer(p, q)
           \/ AceitarGravar(p) \/ AceitarEntidade(p) \/ AceitarRegisto(p) \/ AceitarLeads(p)
           \/ AceitarLigar(p) \/ RejeitarGravar(p)
    PROVE  TypeInv'
<1>1. ASSUME NEW q \in Propostas, AceitarLer(p, q) \/ RejeitarLer(p, q) PROVE TypeInv'
  BY <1>1, LinhaProposta, TypeLer DEF AceitarLer, RejeitarLer, Ler, PcsProposta, TypeInv
<1>2. ASSUME AceitarGravar(p) PROVE TypeInv'
  <2> DEFINE k == pedido[p].proposta
  <2>1. k \in Propostas
    BY <1>2, PedidoTipo DEF AceitarGravar, PcsProposta, TypeInv
  <2>2. proposta' \in [Propostas -> PropostaRow \cup {Nulo}]
    BY <1>2, GravaTipo DEF AceitarGravar, PcsProposta, PropostaEstados
  <2>3. UNCHANGED <<registo, lead, diretos, falhas, apagadas, editadas>>
    BY <1>2 DEF AceitarGravar, Grava
  <2>4. CASE Existe(k)
    <3>1. proposta[k].cliente \in Clientes
      BY <2>1, <2>4 DEF Existe, TypeInv, TypeOK, PropostaRow
    <3>2. /\ ComCliente("aceitar.entidade", proposta[k].cliente) \in PedidoRow
          /\ ComCliente("aceitar.entidade", proposta[k].cliente).pc \notin PcsLead
      BY <3>1, LinhaCliente DEF PcsCliente
    <3>3. aceites' \subseteq Clientes
      BY <1>2, <2>4, <3>1 DEF AceitarGravar, TypeInv, TypeOK
    <3> QED BY <1>2, <2>2, <2>3, <2>4, <3>2, <3>3, EscreverProposta DEF AceitarGravar, TypeInv, TypeOK
  <2>5. CASE ~Existe(k)
    BY <1>2, <2>2, <2>3, <2>5, LivreTipo, EscreverProposta DEF AceitarGravar, Termina, TypeInv, TypeOK
  <2> QED BY <2>4, <2>5
<1>3. ASSUME AceitarEntidade(p) PROVE TypeInv'
  <2>1. PICK pc \in {"aceitar.leads", "aceitar.registo"} : Passa(p, pc)
    BY <1>3, Zenon DEF AceitarEntidade
  <2> QED BY <1>3, <2>1, PassaCliente, TypeLer DEF AceitarEntidade, Passa, PcsCliente
<1>4. ASSUME AceitarRegisto(p) PROVE TypeInv'
  <2>1. registo' \in [Clientes -> Registos \cup {Nulo}]
    BY <1>4 DEF AceitarRegisto, MarcaPendente, TypeInv, TypeOK, Registos
  <2> QED BY <1>4, <2>1, PassaCliente, EscreverRegisto DEF AceitarRegisto, Passa, PcsCliente
<1>5. ASSUME AceitarLeads(p) PROVE TypeInv'
  <2>1. PICK r \in PedidoRow : Segue(p, r) /\ r.pc \notin PcsLead
    BY <1>5, LinhaLeads, LivreTipo DEF AceitarLeads, LeadsDe, Termina
  <2> QED BY <1>5, <2>1, TypeLer DEF AceitarLeads
<1>6. ASSUME RejeitarGravar(p) PROVE TypeInv'
  <2>1. proposta' \in [Propostas -> PropostaRow \cup {Nulo}]
    BY <1>6, GravaTipo DEF RejeitarGravar, PcsProposta, PropostaEstados
  <2> QED BY <1>6, <2>1, LivreTipo, EscreverProposta DEF RejeitarGravar, Termina, Grava, TypeInv, TypeOK
<1>7. ASSUME AceitarLigar(p) PROVE TypeInv'
  <2>1. ASSUME NEW l \in Leads
        PROVE  lead'[l] \in LeadRow \cup {Nulo} /\ (lead[l] # Nulo => lead'[l] # Nulo)
    <3>1. lead[l] # Nulo => lead[l] \in LeadRow
      BY DEF TypeInv, TypeOK
    <3>2. lead[l] # Nulo => [lead[l] EXCEPT !.ligado = TRUE] \in LeadRow
      BY <3>1 DEF LeadRow
    <3>3. lead'[l] = lead[l] \/ (lead[l] # Nulo /\ lead'[l] = [lead[l] EXCEPT !.ligado = TRUE])
      BY <1>7 DEF AceitarLigar
    <3> QED BY <3>1, <3>2, <3>3 DEF ComercialAssumption
  <2>2. lead' \in [Leads -> LeadRow \cup {Nulo}]
    BY <1>7, <2>1 DEF AceitarLigar
  <2>3. LeadsExistem'
    BY <1>7, <2>1, MantemLeads, LivreTipo DEF AceitarLigar, Termina
  <2>4. TypeOK'
    BY <1>7, <2>2, SegueTipo, LivreTipo DEF AceitarLigar, Termina, SoLead, historia, TypeInv, TypeOK
  <2> QED BY <2>3, <2>4 DEF TypeInv
<1> QED BY <1>1, <1>2, <1>3, <1>4, <1>5, <1>6, <1>7

LEMMA TypeResto ==
    ASSUME TypeInv, NEW p \in Pedidos,
           (\E c \in Clientes : RegistarCliente(p, c)) \/ Interromper(p)
    PROVE  TypeInv'
<1>1. ASSUME NEW c \in Clientes, RegistarCliente(p, c) PROVE TypeInv'
  BY <1>1 DEF RegistarCliente, TypeInv, TypeOK, LeadsExistem, Registos
<1>2. ASSUME Interromper(p) PROVE TypeInv'
  <2>1. LeadsExistem'
    BY <1>2, LivreTipo, MantemLeads DEF Interromper, Termina
  <2>2. TypeOK'
    BY <1>2, LivreTipo, SegueTipo DEF Interromper, Termina, historia, TypeInv, TypeOK
  <2> QED BY <2>1, <2>2 DEF TypeInv
<1> QED BY <1>1, <1>2

LEMMA TypeStep == ASSUME ComercialAssumption, TypeInv, [Next]_vars PROVE TypeInv'
<1>1. ASSUME NEW p \in Pedidos, DoLead(p) PROVE TypeInv'
  BY <1>1, TypeLead, TypeConverter, TypePropostaDoLead, TypeProposta, TypeResto DEF DoLead
<1>2. ASSUME NEW p \in Pedidos, DaProposta(p) PROVE TypeInv'
  BY <1>2, TypeProposta, TypeResposta DEF DaProposta
<1>3. ASSUME NEW p \in Pedidos, Interromper(p) PROVE TypeInv'
  BY <1>3, TypeResto
<1>4. CASE UNCHANGED vars
  BY <1>4 DEF vars, TypeInv, TypeOK, LeadsExistem
<1> QED BY <1>1, <1>2, <1>3, <1>4 DEF Next

(* Every row, and what every request holds, keeps its type; a request      *)
(* works on a lead that exists.                                            *)
THEOREM TypeCorrect == ASSUME ComercialAssumption PROVE Spec => []TypeOK
<1>1. Init => TypeInv
  BY TypeInit
<1>2. TypeInv /\ [Next]_vars => TypeInv'
  BY TypeStep
<1>3. TypeInv => TypeOK
  BY DEF TypeInv
<1> QED BY <1>1, <1>2, <1>3, PTL DEF Spec

-----------------------------------------------------------------------------
(* Only a company that accepted a proposal becomes a customer *)

(* What a request past its check knows of its company.                     *)
PedidoAceite ==
    \A p \in Pedidos :
        /\ pedido[p].pc = "converter.cliente" => NifDe[pedido[p].lead] \in aceites \cup diretos
        /\ pedido[p].pc \in {"aceitar.entidade", "aceitar.registo"} => pedido[p].cliente \in aceites

ConversaoInv == TypeInv /\ ConversaoAposAceite /\ PedidoAceite

LEMMA ConversaoInit == ASSUME ComercialAssumption, Init PROVE ConversaoInv
<1>1. TypeInv
  BY TypeInit
<1> QED BY <1>1 DEF ConversaoInv, ConversaoAposAceite, PedidoAceite, Init, Livre, ComercialAssumption,
             Registos

(* Where a request knows something. *)
Sabem == {"converter.cliente", "aceitar.entidade", "aceitar.registo"}

(* A step that leaves companies and their history keeps it, when it takes  *)
(* no request there.                                                       *)
LEMMA ConversaoQuieta ==
    ASSUME ConversaoInv, NEW p \in Pedidos, NEW r, Segue(p, r), r.pc \notin Sabem,
           registo' = registo, aceites \subseteq aceites', diretos \subseteq diretos'
    PROVE  ConversaoAposAceite' /\ PedidoAceite'
<1>1. ConversaoAposAceite'
  BY DEF ConversaoInv, ConversaoAposAceite
<1>2. pedido'[p] = r /\ \A o \in Pedidos \ {p} : pedido'[o] = pedido[o]
  BY DEF Segue, ConversaoInv, TypeInv, TypeOK
<1>3. PedidoAceite'
  BY <1>2 DEF ConversaoInv, PedidoAceite, Sabem
<1> QED BY <1>1, <1>3

LEMMA ConversaoLead ==
    ASSUME ComercialAssumption, ConversaoInv, NEW p \in Pedidos, DoLead(p)
    PROVE  ConversaoAposAceite' /\ PedidoAceite'
<1> DEFINE Bem == ConversaoAposAceite' /\ PedidoAceite'
<1>l. Livre.pc \notin Sabem
  BY DEF Livre, Sabem
<1>1. ASSUME NEW l \in Leads, NEW e \in {"ABERTO", "CONVERTIDO"}, EditarLeadLer(p, l, e) PROVE Bem
  BY <1>1, ConversaoQuieta DEF EditarLeadLer, ComLead, SemMudar, historia, Sabem
<1>2. ASSUME EditarLeadGravar(p) \/ PerderLeadGravar(p) \/ ConverterLead(p) PROVE Bem
  BY <1>2, <1>l, ConversaoQuieta DEF EditarLeadGravar, PerderLeadGravar, ConverterLead, SoLead,
     historia, Termina
<1>3. ASSUME NEW l \in Leads, PerderLeadLer(p, l) \/ ConverterLer(p, l) PROVE Bem
  BY <1>3, ConversaoQuieta DEF PerderLeadLer, ConverterLer, ComLead, SemMudar, historia, Sabem
<1>4. ASSUME NEW l \in Leads, CriarLead(p, l) PROVE Bem
  BY <1>4 DEF CriarLead, SoLead, historia, ConversaoInv, ConversaoAposAceite, PedidoAceite
<1>5. ASSUME ConverterEntidade(p) PROVE Bem
  <2> DEFINE c == NifDe[pedido[p].lead]
  <2>1. /\ c \in Clientes
        /\ [pedido[p] EXCEPT !.pc = "converter.cliente"].lead = pedido[p].lead
    BY <1>5, PassaLead DEF ConverterEntidade, ConversaoInv, PcsLead, ComercialAssumption
  <2>2. CASE Termina(p)
    BY <1>5, <2>2, <1>l, ConversaoQuieta DEF ConverterEntidade, Termina, SemMudar, historia
  <2>3. CASE PorCompletar(c) /\ Passa(p, "converter.cliente")
    <3>1. c \in aceites \cup diretos
      BY <2>1, <2>3 DEF PorCompletar, ConversaoInv, ConversaoAposAceite
    <3>2. UNCHANGED <<registo, aceites, diretos>>
      BY <1>5 DEF ConverterEntidade, SemMudar, historia
    <3>3. /\ pedido'[p] = [pedido[p] EXCEPT !.pc = "converter.cliente"]
          /\ \A o \in Pedidos \ {p} : pedido'[o] = pedido[o]
      BY <2>3 DEF Passa, Segue, ConversaoInv, TypeInv, TypeOK
    <3>4. pedido'[p].pc = "converter.cliente"
      BY <1>5, <3>3, PassaLead DEF ConverterEntidade, ConversaoInv, PcsLead
    <3>5. PedidoAceite'
      BY <2>1, <3>1, <3>2, <3>3, <3>4 DEF PedidoAceite, ConversaoInv
    <3> QED BY <3>2, <3>5 DEF ConversaoInv, ConversaoAposAceite
  <2> QED BY <1>5, <2>2, <2>3 DEF ConverterEntidade
<1>6. ASSUME ConverterCliente(p) PROVE Bem
  <2> DEFINE c == NifDe[pedido[p].lead]
  <2>1. c \in aceites \cup diretos
    BY <1>6 DEF ConverterCliente, ConversaoInv, PedidoAceite
  <2>2. /\ registo' = [registo EXCEPT ![c] = "cliente"]
        /\ UNCHANGED <<aceites, diretos>>
    BY <1>6 DEF ConverterCliente, SoRegisto, historia
  <2>3. ConversaoAposAceite'
    BY <2>1, <2>2 DEF ConversaoInv, ConversaoAposAceite, TypeInv, TypeOK
  <2>4. /\ pedido'[p].pc = "converter.lead"
        /\ \A o \in Pedidos \ {p} : pedido'[o] = pedido[o]
    BY <1>6, PassaLead DEF ConverterCliente, Passa, Segue, ConversaoInv, TypeInv, TypeOK, PcsLead
  <2>5. PedidoAceite'
    BY <2>2, <2>4 DEF PedidoAceite, ConversaoInv
  <2> QED BY <2>3, <2>5
<1>7. ASSUME NEW l \in Leads, PropostaDoLeadLer(p, l) PROVE Bem
  <2>1. PICK r : Segue(p, r) /\ r.pc \notin Sabem
    BY <1>7 DEF PropostaDoLeadLer, ComLead, ComCliente, Sabem
  <2> QED BY <1>7, <2>1, ConversaoQuieta DEF PropostaDoLeadLer, SemMudar, historia
<1>8. ASSUME EntidadeLer(p) \/ EntidadeLigar(p) PROVE Bem
  <2>1. PICK r : Segue(p, r) /\ r.pc \notin Sabem
    BY <1>8 DEF EntidadeLer, EntidadeLigar, ComLead, ComCliente, Sabem
  <2> QED BY <1>8, <2>1, ConversaoQuieta DEF EntidadeLer, EntidadeLigar, SemMudar, SoLead, historia
<1>9. ASSUME EntidadeGravar(p) PROVE Bem
  <2>1. UNCHANGED <<aceites, diretos>>
    BY <1>9 DEF EntidadeGravar, SoRegisto, historia
  <2>2. \A c \in Clientes : registo'[c] = registo[c] \/ registo'[c] = "prospecto"
    BY <1>9 DEF EntidadeGravar, ConversaoInv, TypeInv, TypeOK
  <2>3. ConversaoAposAceite'
    BY <2>1, <2>2 DEF ConversaoInv, ConversaoAposAceite
  <2>4. pedido'[p].pc \notin Sabem
    <3>1. CASE Termina(p)
      BY <3>1, <1>l DEF Termina, Segue, ConversaoInv, TypeInv, TypeOK
    <3>2. CASE Passa(p, "entidade.ligar")
      BY <1>9, <3>2, PassaLead DEF EntidadeGravar, Passa, Segue, ConversaoInv, TypeInv, TypeOK,
         PcsLead, Sabem
    <3> QED BY <1>9, <3>1, <3>2 DEF EntidadeGravar
  <2>5. \A o \in Pedidos \ {p} : pedido'[o] = pedido[o]
    BY <1>9 DEF EntidadeGravar, Termina, Passa, Segue, ConversaoInv, TypeInv, TypeOK
  <2>6. PedidoAceite'
    BY <2>1, <2>4, <2>5 DEF PedidoAceite, ConversaoInv, Sabem
  <2> QED BY <2>3, <2>6
<1>10. ASSUME NEW c \in Clientes, RegistarCliente(p, c) PROVE Bem
  BY <1>10 DEF RegistarCliente, ConversaoInv, ConversaoAposAceite, PedidoAceite, TypeInv, TypeOK
<1>11. ASSUME NEW c \in Clientes, Proposta(p, c) PROVE Bem
  BY <1>11, ConversaoQuieta DEF Proposta, ComCliente, SemMudar, historia, Sabem
<1> QED BY <1>1, <1>2, <1>3, <1>4, <1>5, <1>6, <1>7, <1>8, <1>9, <1>10, <1>11 DEF DoLead

LEMMA ConversaoProposta ==
    ASSUME ComercialAssumption, ConversaoInv, NEW p \in Pedidos, DaProposta(p)
    PROVE  ConversaoAposAceite' /\ PedidoAceite'
<1> DEFINE Bem == ConversaoAposAceite' /\ PedidoAceite'
<1>l. Livre.pc \notin Sabem
  BY DEF Livre, Sabem
<1>1. ASSUME NEW q \in Propostas, PropostaCriar(p, q) PROVE Bem
  BY <1>1, <1>l, ConversaoQuieta DEF PropostaCriar, Termina, historia
<1>2. ASSUME NEW q \in Propostas,
             \/ EnviarLer(p, q) \/ RemoverLer(p, q) \/ AceitarLer(p, q) \/ RejeitarLer(p, q)
      PROVE  Bem
  BY <1>2, ConversaoQuieta DEF EnviarLer, RemoverLer, AceitarLer, RejeitarLer, Ler, ComProposta,
     SemMudar, historia, Sabem
<1>3. ASSUME NEW q \in Propostas, NEW e \in PropostaEstados \cup {Nulo}, EditarLer(p, q, e) PROVE Bem
  BY <1>3, ConversaoQuieta DEF EditarLer, ComProposta, SemMudar, historia, Sabem
<1>4. ASSUME EnviarGravar(p) \/ EditarGravar(p) \/ RejeitarGravar(p) PROVE Bem
  BY <1>4, <1>l, ConversaoQuieta DEF EnviarGravar, EditarGravar, RejeitarGravar, Grava, Termina
<1>5. ASSUME RemoverGravar(p) PROVE Bem
  BY <1>5, <1>l, ConversaoQuieta DEF RemoverGravar, Termina, historia
<1>6. ASSUME AceitarGravar(p) PROVE Bem
  <2> DEFINE k == pedido[p].proposta
  <2>1. UNCHANGED <<registo, diretos>> /\ aceites \subseteq aceites'
    BY <1>6 DEF AceitarGravar, Grava
  <2>2. CASE Existe(k)
    <3>1. /\ pedido'[p] = ComCliente("aceitar.entidade", proposta[k].cliente)
          /\ proposta[k].cliente \in aceites'
          /\ \A o \in Pedidos \ {p} : pedido'[o] = pedido[o]
      BY <1>6, <2>2 DEF AceitarGravar, Segue, ConversaoInv, TypeInv, TypeOK
    <3>2. PedidoAceite'
      BY <2>1, <3>1 DEF PedidoAceite, ConversaoInv, ComCliente
    <3> QED BY <2>1, <3>2 DEF ConversaoInv, ConversaoAposAceite
  <2>3. CASE ~Existe(k)
    BY <1>6, <2>1, <2>3, <1>l, ConversaoQuieta DEF AceitarGravar, Termina
  <2> QED BY <2>2, <2>3
<1>7. ASSUME AceitarEntidade(p) PROVE Bem
  <2>1. PICK pc \in {"aceitar.leads", "aceitar.registo"} : Passa(p, pc)
    BY <1>7, Zenon DEF AceitarEntidade
  <2>2. /\ pedido'[p] = ComCliente(pc, pedido[p].cliente)
        /\ \A o \in Pedidos \ {p} : pedido'[o] = pedido[o]
    BY <1>7, <2>1, PassaCliente DEF AceitarEntidade, Passa, Segue, PcsCliente, ConversaoInv, TypeInv, TypeOK
  <2>3. pedido[p].cliente \in aceites /\ UNCHANGED <<registo, aceites, diretos>>
    BY <1>7 DEF AceitarEntidade, ConversaoInv, PedidoAceite, SemMudar, historia
  <2>4. PedidoAceite'
    BY <2>2, <2>3 DEF PedidoAceite, ConversaoInv, ComCliente
  <2> QED BY <2>3, <2>4 DEF ConversaoInv, ConversaoAposAceite
<1>8. ASSUME AceitarRegisto(p) PROVE Bem
  <2>1. pedido[p].cliente \in aceites /\ UNCHANGED <<aceites, diretos>>
    BY <1>8 DEF AceitarRegisto, ConversaoInv, PedidoAceite, SoRegisto, historia
  <2>2. ConversaoAposAceite'
    BY <1>8, <2>1 DEF AceitarRegisto, MarcaPendente, ConversaoInv, ConversaoAposAceite, TypeInv, TypeOK
  <2>3. /\ pedido'[p] = ComCliente("aceitar.leads", pedido[p].cliente)
        /\ \A o \in Pedidos \ {p} : pedido'[o] = pedido[o]
    BY <1>8, PassaCliente DEF AceitarRegisto, Passa, Segue, PcsCliente, ConversaoInv, TypeInv, TypeOK
  <2>4. PedidoAceite'
    BY <2>1, <2>3 DEF PedidoAceite, ConversaoInv, ComCliente
  <2> QED BY <2>2, <2>4
<1>9. ASSUME AceitarLeads(p) PROVE Bem
  <2>1. PICK r : Segue(p, r) /\ r.pc \notin Sabem
    BY <1>9, <1>l DEF AceitarLeads, ComLeads, Sabem, Termina
  <2> QED BY <1>9, <2>1, ConversaoQuieta DEF AceitarLeads, SemMudar, historia
<1>10. ASSUME AceitarLigar(p) PROVE Bem
  BY <1>10, <1>l, ConversaoQuieta DEF AceitarLigar, SoLead, historia, Termina
<1> QED BY <1>1, <1>2, <1>3, <1>4, <1>5, <1>6, <1>7, <1>8, <1>9, <1>10 DEF DaProposta

LEMMA ConversaoStep == ASSUME ComercialAssumption, ConversaoInv, [Next]_vars PROVE ConversaoInv'
<1>1. TypeInv'
  BY TypeStep DEF ConversaoInv
<1>2. ASSUME NEW p \in Pedidos, Interromper(p) PROVE ConversaoAposAceite' /\ PedidoAceite'
  <2>1. Livre.pc \notin Sabem
    BY DEF Livre, Sabem
  <2> QED BY <1>2, <2>1, ConversaoQuieta DEF Interromper, Termina, historia
<1>3. CASE UNCHANGED vars
  BY <1>1, <1>3 DEF vars, ConversaoInv, ConversaoAposAceite, PedidoAceite
<1> QED BY <1>1, <1>2, <1>3, ConversaoLead, ConversaoProposta DEF Next, ConversaoInv

(* A company becomes a customer only by accepting a proposal, or by being  *)
(* registered as one: whatever is stale when a request writes, the request *)
(* checked a state that only an acceptance gives, and acceptances stay.    *)
THEOREM ConversaoCorrecta == ASSUME ComercialAssumption PROVE Spec => []ConversaoAposAceite
<1>1. Init => ConversaoInv
  BY ConversaoInit
<1>2. ConversaoInv /\ [Next]_vars => ConversaoInv'
  BY ConversaoStep
<1>3. ConversaoInv => ConversaoAposAceite
  BY DEF ConversaoInv
<1> QED BY <1>1, <1>2, <1>3, PTL DEF Spec

-----------------------------------------------------------------------------
(* An answered proposal is not open again *)

(* One request at a time sends proposals. *)
UmEnvio ==
    \A p, o \in Pedidos : "enviar" \in Operacoes[p] /\ "enviar" \in Operacoes[o] => p = o

(* What a request that works on a proposal nobody has edited knows of it:  *)
(* one about to be sent for the first time has not been sent meanwhile,    *)
(* one about to be answered has; a proposal that is gone does not come     *)
(* back.                                                                   *)
SabeProposta(p) ==
    LET q == pedido[p].proposta
    IN  /\ pedido[p].pc = "enviar" => "enviar" \in Operacoes[p]
        /\ pedido[p].pc \in PcsProposta => Existe(q) \/ q \in apagadas
        /\ pedido[p].pc \in PcsProposta /\ Existe(q) /\ q \notin editadas =>
              /\ pedido[p].pc = "enviar" /\ pedido[p].estado = "RASCUNHO"
                    => proposta[q].estado = "RASCUNHO"
              /\ pedido[p].pc \in {"aceitar", "rejeitar"} => proposta[q].estado # "RASCUNHO"

EnvioInv == TypeInv /\ \A p \in Pedidos : SabeProposta(p)

LEMMA EnvioInit == ASSUME ComercialAssumption, Init PROVE EnvioInv
<1>1. TypeInv
  BY TypeInit
<1> QED BY <1>1 DEF EnvioInv, SabeProposta, Init, Livre, PcsProposta

(* A step that leaves the proposals, and works on none. *)
LEMMA EnvioQuieto ==
    ASSUME EnvioInv, NEW p \in Pedidos, NEW r, Segue(p, r), r.pc \notin PcsProposta,
           UNCHANGED <<proposta, apagadas, editadas>>
    PROVE  Fica /\ \A o \in Pedidos : SabeProposta(o)'
<1>1. Fica
  BY DEF Fica, Respondida, Existe
<1>2. pedido'[p] = r /\ \A o \in Pedidos \ {p} : pedido'[o] = pedido[o]
  BY DEF Segue, EnvioInv, TypeInv, TypeOK
<1>3. SabeProposta(p)'
  BY <1>2 DEF SabeProposta, PcsProposta
<1>4. ASSUME NEW o \in Pedidos \ {p} PROVE SabeProposta(o)'
  BY <1>2 DEF SabeProposta, EnvioInv, Existe
<1> QED BY <1>1, <1>3, <1>4

(* A step that begins to work on a proposal that exists. *)
LEMMA EnvioLer ==
    ASSUME EnvioInv, NEW p \in Pedidos, NEW q \in Propostas, NEW r, Segue(p, r), Existe(q),
           r.proposta = q, r.pc = "enviar" => "enviar" \in Operacoes[p] /\ r.estado = proposta[q].estado,
           r.pc \in {"aceitar", "rejeitar"} => proposta[q].estado = "ENVIADA",
           UNCHANGED <<proposta, apagadas, editadas>>
    PROVE  Fica /\ \A o \in Pedidos : SabeProposta(o)'
<1>1. Fica
  BY DEF Fica, Respondida, Existe
<1>2. pedido'[p] = r /\ \A o \in Pedidos \ {p} : pedido'[o] = pedido[o]
  BY DEF Segue, EnvioInv, TypeInv, TypeOK
<1>3. SabeProposta(p)'
  BY <1>2 DEF SabeProposta, Existe
<1>4. ASSUME NEW o \in Pedidos \ {p} PROVE SabeProposta(o)'
  BY <1>2 DEF SabeProposta, EnvioInv, Existe
<1> QED BY <1>1, <1>3, <1>4

(* A step that writes the state e to a proposal and works on it no more.   *)
LEMMA EnvioGravar ==
    ASSUME ComercialAssumption, UmEnvio, EnvioInv, NEW p \in Pedidos, pedido[p].pc \in PcsProposta,
           NEW e \in PropostaEstados, Grava(p, e), NEW r, Segue(p, r), r.pc \notin PcsProposta,
           \/ e \in Respostas /\ pedido[p].pc \in {"aceitar", "rejeitar"} /\ editadas' = editadas
           \/ /\ e = "ENVIADA" /\ pedido[p].pc = "enviar" /\ pedido[p].estado = "RASCUNHO"
              /\ editadas' = editadas
           \/ editadas' = editadas \cup {pedido[p].proposta}
    PROVE  Fica /\ \A o \in Pedidos : SabeProposta(o)'
<1> DEFINE q == pedido[p].proposta
<1>1. q \in Propostas
  BY PedidoTipo DEF EnvioInv, TypeInv
<1>2. pedido'[p] = r /\ \A o \in Pedidos \ {p} : pedido'[o] = pedido[o]
  BY DEF Segue, EnvioInv, TypeInv, TypeOK
<1>3. /\ apagadas' = apagadas /\ \A k \in Propostas \ {q} : proposta'[k] = proposta[k]
      /\ ~Existe(q) => proposta'[q] = proposta[q]
  BY <1>1 DEF Grava, EnvioInv, TypeInv, TypeOK
<1>4. Existe(q) => proposta'[q].estado = e /\ proposta'[q] # Nulo
  <2> SUFFICES ASSUME Existe(q) PROVE proposta'[q].estado = e /\ proposta'[q] # Nulo
    OBVIOUS
  <2>1. proposta[q] \in PropostaRow
    BY <1>1 DEF Existe, EnvioInv, TypeInv, TypeOK
  <2>2. proposta'[q] = [proposta[q] EXCEPT !.estado = e]
    BY <1>1 DEF Grava, EnvioInv, TypeInv, TypeOK
  <2>3. [proposta[q] EXCEPT !.estado = e] \in PropostaRow
    BY <2>1 DEF PropostaRow
  <2> QED BY <2>1, <2>2, <2>3 DEF PropostaRow, ComercialAssumption
<1>5. /\ pedido[p].pc = "enviar" => "enviar" \in Operacoes[p]
      /\ Existe(q) /\ q \notin editadas /\ pedido[p].pc = "enviar" /\ pedido[p].estado = "RASCUNHO"
            => proposta[q].estado = "RASCUNHO"
  BY DEF EnvioInv, SabeProposta
<1>6. Fica
  <2> SUFFICES ASSUME NEW k \in Propostas \ editadas', Respondida(k), Existe(k)'
               PROVE  Respondida(k)'
    BY DEF Fica
  <2>1. CASE k # q
    BY <2>1, <1>3 DEF Respondida, Existe
  <2>2. CASE k = q
    BY <2>2, <1>4, <1>5 DEF Respondida, Existe, Respostas
  <2> QED BY <2>1, <2>2
<1>7. SabeProposta(p)'
  BY <1>2 DEF SabeProposta, PcsProposta
<1>8. ASSUME NEW o \in Pedidos \ {p} PROVE SabeProposta(o)'
  <2> DEFINE k == pedido[o].proposta
  <2>1. SabeProposta(o)
    BY DEF EnvioInv
  <2>2. pedido[o].pc \in PcsProposta => k \in Propostas
    BY PedidoTipo DEF EnvioInv, TypeInv
  <2>3. CASE k # q
    BY <1>2, <1>3, <2>1, <2>2, <2>3 DEF SabeProposta, Existe
  <2>4. CASE k = q
    <3>1. SabeProposta(p)
      BY DEF EnvioInv
    <3> QED BY <1>2, <1>3, <1>4, <2>1, <2>2, <2>4, <3>1 DEF SabeProposta, Existe, UmEnvio, Respostas
  <2> QED BY <2>3, <2>4
<1> QED BY <1>6, <1>7, <1>8

LEMMA EnvioLead ==
    ASSUME EnvioInv, NEW p \in Pedidos, DoLead(p)
    PROVE  Fica /\ \A o \in Pedidos : SabeProposta(o)'
<1> DEFINE Bem == Fica /\ \A o \in Pedidos : SabeProposta(o)'
<1>l. Livre.pc \notin PcsProposta
  BY DEF Livre, PcsProposta
<1>1. ASSUME UNCHANGED <<pedido, proposta, apagadas, editadas>> PROVE Bem
  BY <1>1 DEF Fica, Respondida, Existe, SabeProposta, EnvioInv
<1>2. ASSUME NEW l \in Leads, CriarLead(p, l) PROVE Bem
  BY <1>1, <1>2 DEF CriarLead, SoLead, historia
<1>3. ASSUME NEW c \in Clientes, RegistarCliente(p, c) PROVE Bem
  BY <1>1, <1>3 DEF RegistarCliente
<1>4. ASSUME NEW c \in Clientes, Proposta(p, c) PROVE Bem
  BY <1>4, EnvioQuieto DEF Proposta, ComCliente, SemMudar, historia, PcsProposta
<1>5. ASSUME NEW l \in Leads,
             \/ PerderLeadLer(p, l) \/ ConverterLer(p, l)
             \/ \E e \in {"ABERTO", "CONVERTIDO"} : EditarLeadLer(p, l, e)
      PROVE  Bem
  BY <1>5, EnvioQuieto DEF PerderLeadLer, ConverterLer, EditarLeadLer, ComLead, SemMudar, historia,
     PcsProposta
<1>6. ASSUME NEW l \in Leads, PropostaDoLeadLer(p, l) PROVE Bem
  <2>1. PICK r : Segue(p, r) /\ r.pc \notin PcsProposta
    BY <1>6 DEF PropostaDoLeadLer, ComLead, ComCliente, PcsProposta
  <2> QED BY <1>6, <2>1, EnvioQuieto DEF PropostaDoLeadLer, SemMudar, historia
<1>7. ASSUME EditarLeadGravar(p) \/ PerderLeadGravar(p) \/ ConverterLead(p) PROVE Bem
  BY <1>7, <1>l, EnvioQuieto DEF EditarLeadGravar, PerderLeadGravar, ConverterLead, SoLead, historia,
     Termina
<1>8. ASSUME \/ ConverterEntidade(p) \/ ConverterCliente(p) \/ EntidadeLer(p) \/ EntidadeGravar(p)
             \/ EntidadeLigar(p)
      PROVE  Bem
  <2>1. pedido[p].pc \in PcsLead \ {"lead.gravar"}
    BY <1>8 DEF ConverterEntidade, ConverterCliente, EntidadeLer, EntidadeGravar, EntidadeLigar, PcsLead
  <2>2. \A pc \in PcsLead \ {"lead.gravar"} : [pedido[p] EXCEPT !.pc = pc].pc = pc
    BY <2>1, PassaLead DEF EnvioInv
  <2>3. \/ Termina(p)
        \/ \E pc \in {"converter.cliente", "converter.lead", "entidade.ligar"} : Passa(p, pc)
        \/ Segue(p, ComLead("entidade.gravar", pedido[p].lead, registo[NifDe[pedido[p].lead]]))
        \/ Segue(p, ComCliente("proposta.criar", NifDe[pedido[p].lead]))
    BY <1>8 DEF ConverterEntidade, ConverterCliente, EntidadeLer, EntidadeGravar, EntidadeLigar
  <2>4. PICK r : Segue(p, r) /\ r.pc \notin PcsProposta
    <3>1. CASE \E pc \in {"converter.cliente", "converter.lead", "entidade.ligar"} : Passa(p, pc)
      <4>1. PICK pc \in {"converter.cliente", "converter.lead", "entidade.ligar"} : Passa(p, pc)
        BY <3>1
      <4>2. pc \in PcsLead \ {"lead.gravar"} /\ pc \notin PcsProposta
        BY DEF PcsLead, PcsProposta
      <4> QED BY <2>2, <4>1, <4>2 DEF Passa
    <3> QED BY <2>3, <3>1, <1>l DEF Termina, ComLead, ComCliente, PcsProposta
  <2>5. UNCHANGED <<proposta, apagadas, editadas>>
    BY <1>8 DEF ConverterEntidade, ConverterCliente, EntidadeLer, EntidadeGravar, EntidadeLigar, SemMudar,
       SoRegisto, SoLead, historia
  <2> QED BY <2>4, <2>5, EnvioQuieto
<1> QED BY <1>2, <1>3, <1>4, <1>5, <1>6, <1>7, <1>8 DEF DoLead

LEMMA EnvioProposta ==
    ASSUME ComercialAssumption, UmEnvio, EnvioInv, NEW p \in Pedidos, DaProposta(p)
    PROVE  Fica /\ \A o \in Pedidos : SabeProposta(o)'
<1> DEFINE Bem == Fica /\ \A o \in Pedidos : SabeProposta(o)'
<1>l. Livre.pc \notin PcsProposta
  BY DEF Livre, PcsProposta
<1>1. ASSUME NEW q \in Propostas, PropostaCriar(p, q) PROVE Bem
  <2>1. /\ ~Existe(q) /\ q \notin apagadas /\ UNCHANGED <<apagadas, editadas>>
        /\ \A k \in Propostas \ {q} : proposta'[k] = proposta[k]
    BY <1>1 DEF PropostaCriar, historia, EnvioInv, TypeInv, TypeOK
  <2>2. Fica
    BY <2>1 DEF Fica, Respondida, Existe
  <2>3. pedido'[p] = Livre /\ \A o \in Pedidos \ {p} : pedido'[o] = pedido[o]
    BY <1>1 DEF PropostaCriar, Termina, Segue, EnvioInv, TypeInv, TypeOK
  <2>4. ASSUME NEW o \in Pedidos PROVE SabeProposta(o)'
    <3>1. CASE o = p
      BY <2>3, <3>1, <1>l DEF SabeProposta, PcsProposta
    <3>2. CASE o # p
      <4>1. SabeProposta(o) /\ (pedido[o].pc \in PcsProposta => pedido[o].proposta \in Propostas \ {q})
        BY <2>1, PedidoTipo DEF EnvioInv, SabeProposta, TypeInv
      <4> QED BY <2>1, <2>3, <3>2, <4>1 DEF SabeProposta, Existe
    <3> QED BY <3>1, <3>2
  <2> QED BY <2>2, <2>4
<1>2. ASSUME NEW q \in Propostas,
             \/ EnviarLer(p, q) \/ RemoverLer(p, q) \/ AceitarLer(p, q) \/ RejeitarLer(p, q)
             \/ \E e \in PropostaEstados \cup {Nulo} : EditarLer(p, q, e)
      PROVE  Bem
  BY <1>2, EnvioLer DEF EnviarLer, RemoverLer, AceitarLer, RejeitarLer, EditarLer, Ler, Aceita,
     ComProposta, SemMudar, historia
<1>3. ASSUME EnviarGravar(p) PROVE Bem
  <2>1. Segue(p, Livre) /\ UNCHANGED <<editadas, apagadas>>
    BY <1>3 DEF EnviarGravar, Termina, Grava
  <2>2. CASE pedido[p].estado = "RASCUNHO"
    BY <1>3, <2>1, <2>2, <1>l, EnvioGravar DEF EnviarGravar, PrimeiroEnvio, PcsProposta, PropostaEstados
  <2>3. CASE pedido[p].estado # "RASCUNHO"
    BY <1>3, <2>1, <2>3, <1>l, EnvioQuieto DEF EnviarGravar, PrimeiroEnvio
  <2> QED BY <2>2, <2>3
<1>4. ASSUME EditarGravar(p) PROVE Bem
  <2>1. pedido[p].estado \in PropostaEstados
    BY <1>4, PedidoTipo DEF EditarGravar, PcsProposta, EnvioInv, TypeInv
  <2> QED BY <1>4, <2>1, <1>l, EnvioGravar DEF EditarGravar, Termina, PcsProposta
<1>5. ASSUME RejeitarGravar(p) PROVE Bem
  BY <1>5, <1>l, EnvioGravar DEF RejeitarGravar, Termina, PcsProposta, PropostaEstados, Respostas
<1>6. ASSUME AceitarGravar(p) PROVE Bem
  <2>1. PICK r : Segue(p, r) /\ r.pc \notin PcsProposta
    BY <1>6, <1>l DEF AceitarGravar, Termina, ComCliente, PcsProposta
  <2> QED BY <1>6, <2>1, EnvioGravar DEF AceitarGravar, PcsProposta, PropostaEstados, Respostas
<1>7. ASSUME AceitarEntidade(p) \/ AceitarRegisto(p) PROVE Bem
  <2>1. PICK pc \in {"aceitar.leads", "aceitar.registo"} : Passa(p, pc)
    BY <1>7, Zenon DEF AceitarEntidade, AceitarRegisto
  <2>2. [pedido[p] EXCEPT !.pc = pc] = ComCliente(pc, pedido[p].cliente)
    BY <1>7, PassaCliente DEF AceitarEntidade, AceitarRegisto, PcsCliente, EnvioInv
  <2>3. UNCHANGED <<proposta, apagadas, editadas>>
    BY <1>7 DEF AceitarEntidade, AceitarRegisto, SemMudar, SoRegisto, historia
  <2> QED BY <2>1, <2>2, <2>3, EnvioQuieto DEF Passa, ComCliente, PcsProposta
<1>8. ASSUME AceitarLeads(p) \/ AceitarLigar(p) PROVE Bem
  <2>1. PICK r : Segue(p, r) /\ r.pc \notin PcsProposta
    BY <1>8, <1>l DEF AceitarLeads, AceitarLigar, ComLeads, Termina, PcsProposta
  <2> QED BY <1>8, <2>1, EnvioQuieto DEF AceitarLeads, AceitarLigar, SoLead, SemMudar, historia
<1>9. ASSUME RemoverGravar(p) PROVE Bem
  <2> DEFINE q == pedido[p].proposta
  <2>0. q \in Propostas
    BY <1>9, PedidoTipo DEF RemoverGravar, PcsProposta, EnvioInv, TypeInv
  <2>1. /\ proposta'[q] = Nulo /\ apagadas' = apagadas \cup {q} /\ UNCHANGED editadas
        /\ \A k \in Propostas \ {q} : proposta'[k] = proposta[k]
    BY <1>9, <2>0 DEF RemoverGravar, historia, EnvioInv, TypeInv, TypeOK
  <2>2. Fica
    BY <2>1 DEF Fica, Respondida, Existe
  <2>3. pedido'[p] = Livre /\ \A o \in Pedidos \ {p} : pedido'[o] = pedido[o]
    BY <1>9 DEF RemoverGravar, Termina, Segue, EnvioInv, TypeInv, TypeOK
  <2>4. ASSUME NEW o \in Pedidos PROVE SabeProposta(o)'
    <3>1. CASE o = p
      BY <2>3, <3>1, <1>l DEF SabeProposta, PcsProposta
    <3>2. CASE o # p
      <4>1. SabeProposta(o) /\ (pedido[o].pc \in PcsProposta => pedido[o].proposta \in Propostas)
        BY PedidoTipo DEF EnvioInv, TypeInv
      <4> QED BY <2>1, <2>3, <3>2, <4>1 DEF SabeProposta, Existe
    <3> QED BY <3>1, <3>2
  <2> QED BY <2>2, <2>4
<1> QED BY <1>1, <1>2, <1>3, <1>4, <1>5, <1>6, <1>7, <1>8, <1>9 DEF DaProposta

LEMMA EnvioStep ==
    ASSUME ComercialAssumption, UmEnvio, EnvioInv, [Next]_vars
    PROVE  EnvioInv' /\ [Fica]_vars
<1>1. TypeInv'
  BY TypeStep DEF EnvioInv
<1>2. ASSUME NEW p \in Pedidos, Interromper(p) PROVE Fica /\ \A o \in Pedidos : SabeProposta(o)'
  <2>1. Livre.pc \notin PcsProposta
    BY DEF Livre, PcsProposta
  <2> QED BY <1>2, <2>1, EnvioQuieto DEF Interromper, Termina, historia
<1>3. CASE UNCHANGED vars
  BY <1>1, <1>3 DEF vars, EnvioInv, SabeProposta, Existe
<1> QED BY <1>1, <1>2, <1>3, EnvioLead, EnvioProposta DEF Next, EnvioInv

(* An answer is final for everyone but the staff who edit the state: when  *)
(* one request at a time sends proposals, the state a first sending read   *)
(* is still the state it overwrites.                                       *)
THEOREM RespostaFinal == ASSUME ComercialAssumption, UmEnvio PROVE Spec => RespostaFica
<1>1. Init => EnvioInv
  BY EnvioInit
<1>2. EnvioInv /\ [Next]_vars => EnvioInv'
  BY EnvioStep
<1>3. EnvioInv /\ [Next]_vars => [Fica]_vars
  BY EnvioStep
<1> QED BY <1>1, <1>2, <1>3, PTL DEF Spec, RespostaFica
-----------------------------------------------------------------------------
(* An acceptance is not lost *)

(* No two leads are of one company. *)
LeadsUnicos == \A l, k \in Leads : NifDe[l] = NifDe[k] => l = k

(* One request at a time makes proposals from leads. *)
UmaDoLead ==
    \A p, o \in Pedidos :
        "propostaDoLead" \in Operacoes[p] /\ "propostaDoLead" \in Operacoes[o] => p = o

Completam == {"pendente_completar", "cliente"}
Acompanham == {"aceitar.entidade", "aceitar.registo"}
DoVies == {"vies", "entidade.gravar"}
ComEntidade == {"converter.entidade", "converter.cliente", "converter.lead", "entidade.ligar"}

ComRegisto(c) == registo[c] # Nulo
Ligado(l) == lead[l] # Nulo /\ lead[l].ligado

(* A prospect is the company of a lead that has it, or is about to.        *)
ProspectoTemLead ==
    \A c \in Clientes : registo[c] = "prospecto" =>
        \E l \in Leads :
            /\ NifDe[l] = c /\ lead[l] # Nulo
            /\ lead[l].ligado \/ \E p \in Pedidos : pedido[p].pc = "entidade.ligar" /\ pedido[p].lead = l

(* The company of a lead that has one, of a proposal and of an acceptance. *)
TemRegisto ==
    /\ \A l \in Leads : Ligado(l) => ComRegisto(NifDe[l])
    /\ \A q \in Propostas : Existe(q) => ComRegisto(proposta[q].cliente)
    /\ \A c \in aceites : ComRegisto(c)

(* What a request knows of its company: one that asks VIES works for a     *)
(* lead that had none, so the company is not a prospect, and nobody else   *)
(* makes it one.                                                           *)
SabeLinha(p, r) ==
    /\ r.pc \in PcsCliente => ComRegisto(r.cliente)
    /\ r.pc \in ComEntidade => ComRegisto(NifDe[r.lead])
    /\ r.pc \in DoVies \cup {"entidade.ligar"} => "propostaDoLead" \in Operacoes[p]
    /\ r.pc \in DoVies => registo[NifDe[r.lead]] # "prospecto"
    /\ r.pc = "entidade.gravar" =>
          r.estado # "prospecto" /\ (r.estado # Nulo => ComRegisto(NifDe[r.lead]))
    /\ r.pc = "aceitar.ligar" => \A l \in r.leads : ComRegisto(NifDe[l])

SabeRegisto(p) == SabeLinha(p, pedido[p])

(* An acceptance is registered, or the request that received it is about   *)
(* to do it.                                                               *)
AceiteSegue ==
    \A c \in aceites :
        \/ registo[c] \in Completam
        \/ \E p \in Pedidos : pedido[p].pc \in Acompanham /\ pedido[p].cliente = c

AceiteParte == ProspectoTemLead /\ TemRegisto /\ AceiteSegue /\ \A p \in Pedidos : SabeRegisto(p)

AceiteInv == TypeInv /\ (falhas = 0 => AceiteParte)

LEMMA AceiteInit == ASSUME ComercialAssumption, Init PROVE AceiteInv
<1>1. TypeInv
  BY TypeInit
<1>2. \A p \in Pedidos : SabeRegisto(p)
  BY DEF SabeRegisto, SabeLinha, Init, Livre, PcsCliente, ComEntidade, DoVies
<1>3. ProspectoTemLead /\ TemRegisto /\ AceiteSegue
  BY DEF Init, ProspectoTemLead, TemRegisto, AceiteSegue, Ligado, Existe, ComercialAssumption, Registos
<1> QED BY <1>1, <1>2, <1>3 DEF AceiteInv, AceiteParte

(* What a step of a request without failures does to companies: it         *)
(* completes them, or makes a prospect of one that nobody had registered.  *)
RegistoSegue(p) ==
    \A c \in Clientes :
        \/ registo'[c] = registo[c] \/ registo'[c] \in Completam
        \/ /\ registo[c] = Nulo /\ registo'[c] = "prospecto"
           /\ pedido'[p].pc = "entidade.ligar" /\ pedido'[p].lead \in Leads
           /\ NifDe[pedido'[p].lead] = c /\ lead[pedido'[p].lead] # Nulo

(* A lead that has a company keeps it, and only gets one that exists.      *)
LeadsSeguem ==
    \A l \in Leads :
        /\ lead[l] # Nulo => lead'[l] # Nulo
        /\ Ligado(l) => Ligado(l)'
        /\ Ligado(l)' => Ligado(l) \/ ComRegisto(NifDe[l])

PropostasSeguem ==
    \A q \in Propostas :
        proposta'[q] # Nulo =>
            \/ Existe(q) /\ proposta'[q].cliente = proposta[q].cliente
            \/ proposta'[q].cliente \in Clientes /\ ComRegisto(proposta'[q].cliente)

AceitesSeguem(p) ==
    \A c \in aceites' :
        \/ c \in aceites
        \/ c \in Clientes /\ ComRegisto(c) /\ pedido'[p].pc \in Acompanham /\ pedido'[p].cliente = c

(* What the request was about to do, it does. *)
Larga(p) ==
    /\ pedido[p].pc = "entidade.ligar" => lead'[pedido[p].lead].ligado
    /\ pedido[p].pc \in Acompanham =>
          \/ registo'[pedido[p].cliente] \in Completam
          \/ pedido'[p].pc \in Acompanham /\ pedido'[p].cliente = pedido[p].cliente

PassoAceite(p) ==
    /\ \A o \in Pedidos \ {p} : pedido'[o] = pedido[o]
    /\ RegistoSegue(p) /\ LeadsSeguem /\ PropostasSeguem /\ AceitesSeguem(p) /\ Larga(p)
    /\ SabeRegisto(p)'
LEMMA AceitePassa ==
    ASSUME ComercialAssumption, UmaDoLead, TypeInv, AceiteParte, NEW p \in Pedidos, PassoAceite(p)
    PROVE  AceiteParte'
<1>1. ASSUME NEW c \in Clientes, ComRegisto(c) PROVE ComRegisto(c)'
  BY <1>1 DEF PassoAceite, RegistoSegue, ComRegisto, Completam, ComercialAssumption, Registos
<1>2. \A o \in Pedidos \ {p} : pedido'[o] = pedido[o]
  BY DEF PassoAceite
<1>3. \A l \in Leads : NifDe[l] \in Clientes
  BY DEF ComercialAssumption
<1>4. ProspectoTemLead'
  <2> SUFFICES ASSUME NEW c \in Clientes, registo'[c] = "prospecto"
               PROVE  \E l \in Leads :
                          /\ NifDe[l] = c /\ lead'[l] # Nulo
                          /\ \/ lead'[l].ligado
                             \/ \E o \in Pedidos : pedido'[o].pc = "entidade.ligar" /\ pedido'[o].lead = l
    BY DEF ProspectoTemLead
  <2>1. \A l \in Leads : lead[l] # Nulo => lead'[l] # Nulo /\ (lead[l].ligado => lead'[l].ligado)
    BY DEF PassoAceite, LeadsSeguem, Ligado
  <2>2. CASE registo'[c] = registo[c]
    <3>1. PICK l \in Leads :
              /\ NifDe[l] = c /\ lead[l] # Nulo
              /\ lead[l].ligado \/ \E o \in Pedidos : pedido[o].pc = "entidade.ligar" /\ pedido[o].lead = l
      BY <2>2 DEF AceiteParte, ProspectoTemLead
    <3>2. pedido[p].pc = "entidade.ligar" => lead'[pedido[p].lead].ligado
      BY DEF PassoAceite, Larga
    <3>3. lead[l].ligado \/ \E o \in Pedidos : pedido[o].pc = "entidade.ligar" /\ pedido[o].lead = l
      BY <3>1
    <3>4. \/ lead'[l].ligado
          \/ \E o \in Pedidos : pedido'[o].pc = "entidade.ligar" /\ pedido'[o].lead = l
      BY <1>2, <2>1, <3>1, <3>2, <3>3
    <3> QED BY <2>1, <3>1, <3>4
  <2>3. CASE registo'[c] # registo[c]
    <3>1. /\ pedido'[p].pc = "entidade.ligar" /\ pedido'[p].lead \in Leads
          /\ NifDe[pedido'[p].lead] = c /\ lead[pedido'[p].lead] # Nulo
      BY <2>3 DEF PassoAceite, RegistoSegue, Completam
    <3> QED BY <2>1, <3>1
  <2> QED BY <2>2, <2>3
<1>5. TemRegisto'
  <2>1. ASSUME NEW l \in Leads, Ligado(l)' PROVE ComRegisto(NifDe[l])'
    <3>1. ComRegisto(NifDe[l])
      BY <2>1 DEF PassoAceite, LeadsSeguem, AceiteParte, TemRegisto
    <3> QED BY <1>1, <1>3, <3>1
  <2>2. ASSUME NEW q \in Propostas, proposta'[q] # Nulo PROVE registo'[proposta'[q].cliente] # Nulo
    <3>1. Existe(q) => proposta[q].cliente \in Clientes /\ ComRegisto(proposta[q].cliente)
      BY DEF AceiteParte, TemRegisto, Existe, TypeInv, TypeOK, PropostaRow
    <3>2. proposta'[q].cliente \in Clientes /\ ComRegisto(proposta'[q].cliente)
      BY <2>2, <3>1 DEF PassoAceite, PropostasSeguem
    <3> DEFINE c == proposta'[q].cliente
    <3>3. c \in Clientes /\ ComRegisto(c)
      BY <3>2
    <3>4. \A d \in Clientes : registo[d] # Nulo => registo'[d] # Nulo
      BY <1>1 DEF ComRegisto
    <3> QED BY <3>3, <3>4 DEF ComRegisto
  <2>3. ASSUME NEW c \in aceites' PROVE ComRegisto(c)'
    <3>1. c \in Clientes /\ ComRegisto(c)
      BY DEF PassoAceite, AceitesSeguem, AceiteParte, TemRegisto, TypeInv, TypeOK
    <3> QED BY <1>1, <3>1
  <2> QED BY <2>1, <2>2, <2>3 DEF TemRegisto, Existe, ComRegisto
<1>6. AceiteSegue'
  <2> SUFFICES ASSUME NEW c \in aceites'
               PROVE  \/ registo'[c] \in Completam
                      \/ \E o \in Pedidos : pedido'[o].pc \in Acompanham /\ pedido'[o].cliente = c
    BY DEF AceiteSegue
  <2>1. CASE c \notin aceites
    BY <2>1 DEF PassoAceite, AceitesSeguem
  <2>2. CASE c \in aceites /\ registo[c] \in Completam
    BY <2>2 DEF PassoAceite, RegistoSegue, TypeInv, TypeOK, Completam, ComercialAssumption, Registos
  <2>3. CASE c \in aceites /\ registo[c] \notin Completam
    <3>1. PICK o \in Pedidos : pedido[o].pc \in Acompanham /\ pedido[o].cliente = c
      BY <2>3 DEF AceiteParte, AceiteSegue
    <3>2. CASE o = p
      BY <3>1, <3>2 DEF PassoAceite, Larga
    <3>3. CASE o # p
      BY <1>2, <3>1, <3>3
    <3> QED BY <3>2, <3>3
  <2> QED BY <2>1, <2>2, <2>3
<1>7. ASSUME NEW o \in Pedidos PROVE SabeRegisto(o)'
  <2>1. CASE o = p
    BY <2>1 DEF PassoAceite
  <2>2. CASE o # p
    <3> DEFINE r == pedido[o]
    <3>1. pedido'[o] = r /\ SabeRegisto(o)
      BY <1>2, <2>2 DEF AceiteParte
    <3>2. r.pc \in PcsCliente => r.cliente \in Clientes
      BY PedidoTipo DEF TypeInv
    <3>3. r.pc \in PcsLead => NifDe[r.lead] \in Clientes
      BY <1>3, PedidoTipo DEF TypeInv
    <3>4. ASSUME r.pc \in DoVies PROVE registo'[NifDe[r.lead]] # "prospecto"
      <4> DEFINE c == NifDe[r.lead]
      <4>1. c \in Clientes /\ registo[c] # "prospecto" /\ "propostaDoLead" \in Operacoes[o]
        BY <3>1, <3>3, <3>4 DEF SabeRegisto, SabeLinha, DoVies, PcsLead
      <4>2. pedido'[p].pc = "entidade.ligar" => "propostaDoLead" \in Operacoes[p]
        BY DEF PassoAceite, SabeRegisto, SabeLinha
      <4>3. pedido'[p].pc # "entidade.ligar"
        BY <2>2, <4>1, <4>2 DEF UmaDoLead
      <4> QED BY <4>1, <4>3 DEF PassoAceite, RegistoSegue, Completam
    <3>5. r.pc \in PcsCliente => registo'[r.cliente] # Nulo
      BY <1>1, <3>1, <3>2 DEF SabeRegisto, SabeLinha, ComRegisto
    <3>6. r.pc \in ComEntidade => registo'[NifDe[r.lead]] # Nulo
      BY <1>1, <3>1, <3>3 DEF SabeRegisto, SabeLinha, ComRegisto, ComEntidade, PcsLead
    <3>7. r.pc = "entidade.gravar" /\ r.estado # Nulo => registo'[NifDe[r.lead]] # Nulo
      BY <1>1, <3>1, <3>3 DEF SabeRegisto, SabeLinha, ComRegisto, PcsLead
    <3>8. r.pc = "aceitar.ligar" => \A l \in r.leads : registo'[NifDe[l]] # Nulo
      <4>1. r.pc = "aceitar.ligar" => r.leads \subseteq Leads
        BY PedidoTipo DEF TypeInv
      <4> QED BY <1>1, <1>3, <3>1, <4>1 DEF SabeRegisto, SabeLinha, ComRegisto
    <3> QED BY <3>1, <3>4, <3>5, <3>6, <3>7, <3>8 DEF SabeRegisto, SabeLinha, ComRegisto
  <2> QED BY <2>1, <2>2
<1> QED BY <1>4, <1>5, <1>6, <1>7 DEF AceiteParte
(* Companies, leads, proposals and acceptances that stay. *)
LEMMA AceiteFica ==
    ASSUME NEW p \in Pedidos
    PROVE  /\ registo' = registo => RegistoSegue(p)
           /\ lead' = lead => LeadsSeguem
           /\ proposta' = proposta => PropostasSeguem
           /\ aceites' = aceites => AceitesSeguem(p)
<1>1. registo' = registo => RegistoSegue(p)
  BY DEF RegistoSegue
<1>2. lead' = lead => LeadsSeguem
  BY DEF LeadsSeguem, Ligado
<1>3. proposta' = proposta => PropostasSeguem
  BY DEF PropostasSeguem, Existe
<1>4. aceites' = aceites => AceitesSeguem(p)
  BY DEF AceitesSeguem
<1> QED BY <1>1, <1>2, <1>3, <1>4

LEMMA UmSegue ==
    ASSUME TypeInv, NEW p \in Pedidos, NEW r, Segue(p, r)
    PROVE  pedido'[p] = r /\ \A o \in Pedidos \ {p} : pedido'[o] = pedido[o]
BY DEF Segue, TypeInv, TypeOK

(* Where a request knows nothing of a company. *)
Ignora(r) == r.pc \notin PcsCliente \cup ComEntidade \cup DoVies \cup {"aceitar.ligar"}

LEMMA IgnoraLinha ==
    ASSUME NEW p \in Pedidos, NEW r, Ignora(r)
    PROVE  SabeLinha(p, r) /\ SabeLinha(p, r)'
BY DEF Ignora, SabeLinha, ComEntidade, DoVies

LEMMA LivreIgnora == Ignora(Livre)
BY DEF Ignora, Livre, PcsCliente, ComEntidade, DoVies

(* A step that leaves the companies.                                       *)
LEMMA AceiteSemRegisto ==
    ASSUME TypeInv, AceiteParte, NEW p \in Pedidos, NEW r, Segue(p, r), SabeLinha(p, r),
           pedido[p].pc \notin Acompanham \cup {"entidade.ligar"},
           registo' = registo, LeadsSeguem, PropostasSeguem, AceitesSeguem(p)
    PROVE  PassoAceite(p)
<1>1. pedido'[p] = r /\ \A o \in Pedidos \ {p} : pedido'[o] = pedido[o]
  BY UmSegue
<1>2. SabeRegisto(p)'
  BY <1>1 DEF SabeRegisto, SabeLinha, ComRegisto
<1>3. Larga(p)
  BY DEF Larga
<1> QED BY <1>1, <1>2, <1>3, AceiteFica DEF PassoAceite

(* A step that only reads. *)
LEMMA AceiteLe ==
    ASSUME TypeInv, AceiteParte, NEW p \in Pedidos, NEW r, Segue(p, r), SabeLinha(p, r),
           pedido[p].pc \notin Acompanham \cup {"entidade.ligar"}, SemMudar
    PROVE  PassoAceite(p)
BY AceiteSemRegisto, AceiteFica DEF SemMudar, historia

(* Requests that begin.                                                    *)
LEMMA AceiteComeca ==
    ASSUME ComercialAssumption, LeadsUnicos, UmaDoLead, TypeInv, AceiteParte, NEW p \in Pedidos,
           \/ \E l \in Leads :
                 \/ PerderLeadLer(p, l) \/ ConverterLer(p, l) \/ PropostaDoLeadLer(p, l)
                 \/ \E e \in {"ABERTO", "CONVERTIDO"} : EditarLeadLer(p, l, e)
           \/ \E c \in Clientes : Proposta(p, c)
           \/ \E q \in Propostas :
                 \/ EnviarLer(p, q) \/ RemoverLer(p, q) \/ AceitarLer(p, q) \/ RejeitarLer(p, q)
                 \/ \E e \in PropostaEstados \cup {Nulo} : EditarLer(p, q, e)
    PROVE  PassoAceite(p)
<1>1. pedido[p] = Livre => pedido[p].pc \notin Acompanham \cup {"entidade.ligar"}
  BY DEF Livre, Acompanham
<1>2. ASSUME NEW l \in Leads,
             PerderLeadLer(p, l) \/ \E e \in {"ABERTO", "CONVERTIDO"} : EditarLeadLer(p, l, e)
      PROVE  PassoAceite(p)
  <2>1. PICK r : Segue(p, r) /\ Ignora(r)
    BY <1>2 DEF PerderLeadLer, EditarLeadLer, ComLead, Ignora, PcsCliente, ComEntidade, DoVies
  <2>2. pedido[p] = Livre /\ SemMudar
    BY <1>2 DEF PerderLeadLer, EditarLeadLer, Aceita
  <2> QED BY <1>1, <2>1, <2>2, IgnoraLinha, AceiteLe
<1>3. ASSUME NEW l \in Leads, ConverterLer(p, l) PROVE PassoAceite(p)
  <2> DEFINE r == ComLead("converter.entidade", l, Nulo)
  <2>1. ComRegisto(NifDe[l])
    BY <1>3 DEF ConverterLer, AceiteParte, TemRegisto, Ligado
  <2>2. SabeLinha(p, r)
    BY <2>1 DEF SabeLinha, ComLead, PcsCliente, DoVies
  <2> QED BY <1>1, <1>3, <2>2, AceiteLe DEF ConverterLer, Aceita
<1>4. ASSUME NEW l \in Leads, PropostaDoLeadLer(p, l) PROVE PassoAceite(p)
  <2>1. lead[l] # Nulo /\ pedido[p] = Livre /\ "propostaDoLead" \in Operacoes[p] /\ SemMudar
    BY <1>4 DEF PropostaDoLeadLer, Aceita
  <2>2. CASE lead[l].ligado
    <3> DEFINE r == ComCliente("proposta.criar", NifDe[l])
    <3>1. ComRegisto(NifDe[l])
      BY <2>1, <2>2 DEF AceiteParte, TemRegisto, Ligado
    <3>2. SabeLinha(p, r)
      BY <3>1 DEF SabeLinha, ComCliente, ComEntidade, DoVies
    <3> QED BY <1>1, <1>4, <2>1, <2>2, <3>2, AceiteLe DEF PropostaDoLeadLer
  <2>3. CASE ~lead[l].ligado
    <3> DEFINE r == ComLead("vies", l, Nulo)
    <3>1. NifDe[l] \in Clientes
      BY DEF ComercialAssumption
    <3>2. ASSUME registo[NifDe[l]] = "prospecto" PROVE FALSE
      <4>1. PICK k \in Leads :
                /\ NifDe[k] = NifDe[l] /\ lead[k] # Nulo
                /\ lead[k].ligado \/ \E o \in Pedidos : pedido[o].pc = "entidade.ligar" /\ pedido[o].lead = k
        BY <3>1, <3>2 DEF AceiteParte, ProspectoTemLead
      <4>2. k = l
        BY <4>1 DEF LeadsUnicos
      <4>3. PICK o \in Pedidos : pedido[o].pc = "entidade.ligar"
        BY <2>3, <4>1, <4>2
      <4>4. "propostaDoLead" \in Operacoes[o]
        BY <4>3 DEF AceiteParte, SabeRegisto, SabeLinha
      <4>5. o = p
        BY <2>1, <4>4 DEF UmaDoLead
      <4> QED BY <2>1, <4>3, <4>5 DEF Livre
    <3>3. SabeLinha(p, r)
      BY <2>1, <3>2 DEF SabeLinha, ComLead, PcsCliente, ComEntidade
    <3> QED BY <1>1, <1>4, <2>1, <2>3, <3>3, AceiteLe DEF PropostaDoLeadLer
  <2> QED BY <2>2, <2>3
<1>5. ASSUME NEW c \in Clientes, Proposta(p, c) PROVE PassoAceite(p)
  <2> DEFINE r == ComCliente("proposta.criar", c)
  <2>1. SabeLinha(p, r)
    BY <1>5 DEF Proposta, SabeLinha, ComCliente, ComEntidade, DoVies, ComRegisto
  <2> QED BY <1>1, <1>5, <2>1, AceiteLe DEF Proposta, Aceita
<1>6. ASSUME NEW q \in Propostas,
             \/ EnviarLer(p, q) \/ RemoverLer(p, q) \/ AceitarLer(p, q) \/ RejeitarLer(p, q)
             \/ \E e \in PropostaEstados \cup {Nulo} : EditarLer(p, q, e)
      PROVE  PassoAceite(p)
  <2>1. PICK r : Segue(p, r) /\ r.pc \in PcsProposta
    <3>1. ASSUME NEW e \in PropostaEstados \cup {Nulo}, EditarLer(p, q, e)
          PROVE  \E r : Segue(p, r) /\ r.pc \in PcsProposta
      <4> DEFINE r == [ComProposta("editar", q) EXCEPT !.estado = IF e = Nulo THEN @ ELSE e]
      <4>1. r.pc \in PcsProposta
        BY DEF ComProposta, PcsProposta
      <4>2. Segue(p, r)
        BY <3>1 DEF EditarLer
      <4> QED BY <4>1, <4>2
    <3> QED BY <1>6, <3>1 DEF EnviarLer, RemoverLer, AceitarLer, RejeitarLer, Ler, ComProposta, PcsProposta
  <2>2. pedido[p] = Livre /\ SemMudar
    BY <1>6 DEF EnviarLer, RemoverLer, AceitarLer, RejeitarLer, EditarLer, Ler, Aceita
  <2>3. Ignora(r)
    BY <2>1 DEF Ignora, PcsProposta, PcsCliente, ComEntidade, DoVies
  <2> QED BY <1>1, <2>1, <2>2, <2>3, IgnoraLinha, AceiteLe
<1> QED BY <1>2, <1>3, <1>4, <1>5, <1>6
(* The leads a step writes: created, or of another state, or given the     *)
(* company they are of.                                                    *)
LEMMA AceiteLeads1 ==
    ASSUME ComercialAssumption, TypeInv, NEW l \in Leads, NEW r \in LeadRow,
           lead' = [lead EXCEPT ![l] = r],
           Ligado(l) => r.ligado, r.ligado => Ligado(l) \/ ComRegisto(NifDe[l])
    PROVE  LeadsSeguem
BY DEF LeadsSeguem, Ligado, TypeInv, TypeOK, ComercialAssumption

(* The leads, and the companies of those who convert them. *)
LEMMA AceiteLead ==
    ASSUME ComercialAssumption, UmaDoLead, TypeInv, AceiteParte, NEW p \in Pedidos,
           \/ EditarLeadGravar(p) \/ PerderLeadGravar(p)
           \/ ConverterEntidade(p) \/ ConverterCliente(p) \/ ConverterLead(p)
           \/ \E l \in Leads : CriarLead(p, l)
           \/ \E c \in Clientes : RegistarCliente(p, c)
    PROVE  PassoAceite(p)
<1>1. ASSUME EditarLeadGravar(p) \/ PerderLeadGravar(p) PROVE PassoAceite(p)
  <2> DEFINE k == pedido[p].lead
  <2>1. pedido[p].pc \in {"lead.gravar", "lead.perder"}
    BY <1>1 DEF EditarLeadGravar, PerderLeadGravar
  <2>2. k \in Leads /\ lead[k] # Nulo /\ lead[k] \in LeadRow
    BY <2>1, PedidoTipo DEF TypeInv, TypeOK, LeadsExistem, PcsLead
  <2>3. pedido[p].pc = "lead.gravar" => pedido[p].estado \in {"ABERTO", "CONVERTIDO"}
    BY PedidoTipo DEF TypeInv, PcsLead
  <2>4. PICK e \in {"ABERTO", "CONVERTIDO", "PERDIDO"} : lead' = [lead EXCEPT ![k].estado = e]
    BY <1>1, <2>3 DEF EditarLeadGravar, PerderLeadGravar
  <2> DEFINE r == [lead[k] EXCEPT !.estado = e]
  <2>5. r \in LeadRow /\ r.ligado = lead[k].ligado
    BY <2>2 DEF LeadRow
  <2>6. lead' = [lead EXCEPT ![k] = r]
    BY <2>2, <2>4 DEF TypeInv, TypeOK
  <2>7. LeadsSeguem
    BY <2>2, <2>5, <2>6, AceiteLeads1 DEF Ligado
  <2>8. Segue(p, Livre) /\ UNCHANGED <<registo, proposta, aceites>>
    BY <1>1 DEF EditarLeadGravar, PerderLeadGravar, SoLead, historia, Termina
  <2> QED BY <2>1, <2>7, <2>8, LivreIgnora, IgnoraLinha, AceiteFica, AceiteSemRegisto DEF Acompanham
<1>2. ASSUME ConverterEntidade(p) PROVE PassoAceite(p)
  <2> DEFINE r == [pedido[p] EXCEPT !.pc = "converter.cliente"]
  <2>1. pedido[p].pc = "converter.entidade" /\ SemMudar
    BY <1>2 DEF ConverterEntidade
  <2>2. r.pc = "converter.cliente" /\ r.lead = pedido[p].lead
    BY <2>1, PassaLead DEF PcsLead
  <2>3. SabeLinha(p, r)
    BY <2>1, <2>2 DEF AceiteParte, SabeRegisto, SabeLinha, PcsCliente, ComEntidade, DoVies
  <2>4. Segue(p, Livre) \/ Segue(p, r)
    BY <1>2 DEF ConverterEntidade, Termina, Passa
  <2> QED BY <2>1, <2>3, <2>4, LivreIgnora, IgnoraLinha, AceiteLe DEF Acompanham
<1>3. ASSUME ConverterCliente(p) PROVE PassoAceite(p)
  <2> DEFINE r == [pedido[p] EXCEPT !.pc = "converter.lead"]
  <2> DEFINE c == NifDe[pedido[p].lead]
  <2>1. pedido[p].pc = "converter.cliente"
    BY <1>3 DEF ConverterCliente
  <2>2. r.pc = "converter.lead" /\ r.lead = pedido[p].lead /\ pedido[p].lead \in Leads
    BY <2>1, PassaLead DEF PcsLead
  <2>3. c \in Clientes /\ "cliente" # Nulo
    BY <2>2 DEF ComercialAssumption, Registos
  <2>4. pedido'[p] = r /\ \A o \in Pedidos \ {p} : pedido'[o] = pedido[o]
    BY <1>3, UmSegue DEF ConverterCliente, Passa
  <2>5. \A d \in Clientes : registo'[d] = IF d = c THEN "cliente" ELSE registo[d]
    BY <1>3 DEF ConverterCliente, TypeInv, TypeOK
  <2>6. RegistoSegue(p)
    BY <2>5 DEF RegistoSegue, Completam
  <2>7. SabeRegisto(p)'
    BY <2>2, <2>3, <2>4, <2>5 DEF SabeRegisto, SabeLinha, ComRegisto, PcsCliente, DoVies
  <2>8. Larga(p)
    BY <2>1 DEF Larga, Acompanham
  <2>9. UNCHANGED <<lead, proposta, aceites>>
    BY <1>3 DEF ConverterCliente, SoRegisto, historia
  <2> QED BY <2>4, <2>6, <2>7, <2>8, <2>9, AceiteFica DEF PassoAceite
<1>4. ASSUME ConverterLead(p) PROVE PassoAceite(p)
  <2> DEFINE k == pedido[p].lead
  <2> DEFINE r == [estado |-> "CONVERTIDO", ligado |-> TRUE]
  <2>1. pedido[p].pc = "converter.lead" /\ lead' = [lead EXCEPT ![k] = r]
    BY <1>4 DEF ConverterLead
  <2>2. k \in Leads /\ r \in LeadRow
    BY <2>1, PassaLead DEF PcsLead, LeadRow
  <2>3. ComRegisto(NifDe[k])
    BY <2>1 DEF AceiteParte, SabeRegisto, SabeLinha, ComEntidade
  <2>4. LeadsSeguem
    BY <2>1, <2>2, <2>3, AceiteLeads1
  <2>5. Segue(p, Livre) /\ UNCHANGED <<registo, proposta, aceites>>
    BY <1>4 DEF ConverterLead, SoLead, historia, Termina
  <2> QED BY <2>1, <2>4, <2>5, LivreIgnora, IgnoraLinha, AceiteFica, AceiteSemRegisto DEF Acompanham
<1>5. ASSUME NEW l \in Leads, CriarLead(p, l) PROVE PassoAceite(p)
  <2>1. PICK ligado \in BOOLEAN :
            /\ lead' = [lead EXCEPT ![l] = [estado |-> "ABERTO", ligado |-> ligado]]
            /\ ligado => registo[NifDe[l]] # Nulo
    BY <1>5 DEF CriarLead
  <2>2. [estado |-> "ABERTO", ligado |-> ligado] \in LeadRow
    BY DEF LeadRow
  <2>3. lead[l] = Nulo /\ pedido[p] = Livre /\ UNCHANGED <<registo, proposta, aceites, pedido>>
    BY <1>5 DEF CriarLead, Aceita, SoLead, historia
  <2>4. LeadsSeguem
    BY <2>1, <2>2, <2>3, AceiteLeads1 DEF Ligado, ComRegisto
  <2>5. SabeRegisto(p)'
    BY <2>3, LivreIgnora, IgnoraLinha DEF SabeRegisto
  <2>6. Larga(p)
    BY <2>3 DEF Larga, Livre, Acompanham
  <2> QED BY <2>3, <2>4, <2>5, <2>6, AceiteFica DEF PassoAceite
<1>6. ASSUME NEW c \in Clientes, RegistarCliente(p, c) PROVE PassoAceite(p)
  <2>1. /\ pedido[p] = Livre /\ registo' = [registo EXCEPT ![c] = "cliente"]
        /\ UNCHANGED <<lead, proposta, aceites, pedido>>
    BY <1>6 DEF RegistarCliente, Aceita
  <2>2. RegistoSegue(p)
    BY <2>1 DEF RegistoSegue, Completam, TypeInv, TypeOK
  <2>3. SabeRegisto(p)'
    BY <2>1, LivreIgnora, IgnoraLinha DEF SabeRegisto
  <2>4. Larga(p)
    BY <2>1 DEF Larga, Livre, Acompanham
  <2> QED BY <2>1, <2>2, <2>3, <2>4, AceiteFica DEF PassoAceite
<1> QED BY <1>1, <1>2, <1>3, <1>4, <1>5, <1>6
(* The company of a lead that had none. *)
LEMMA AceiteEntidade ==
    ASSUME ComercialAssumption, UmaDoLead, TypeInv, AceiteParte, NEW p \in Pedidos,
           EntidadeLer(p) \/ EntidadeGravar(p) \/ EntidadeLigar(p)
    PROVE  PassoAceite(p)
<1> DEFINE k == pedido[p].lead
<1> DEFINE c == NifDe[k]
<1>1. pedido[p].pc \in {"vies", "entidade.gravar", "entidade.ligar"}
  BY DEF EntidadeLer, EntidadeGravar, EntidadeLigar
<1>2. /\ k \in Leads /\ c \in Clientes /\ lead[k] # Nulo /\ lead[k] \in LeadRow
      /\ "propostaDoLead" \in Operacoes[p]
  <2>1. k \in Leads /\ lead[k] # Nulo /\ lead[k] \in LeadRow
    BY <1>1, PassaLead DEF PcsLead
  <2>2. "propostaDoLead" \in Operacoes[p]
    BY <1>1 DEF AceiteParte, SabeRegisto, SabeLinha, DoVies
  <2> QED BY <2>1, <2>2 DEF ComercialAssumption
<1>3. SabeLinha(p, pedido[p])
  BY DEF AceiteParte, SabeRegisto
<1>4. ASSUME EntidadeLer(p) PROVE PassoAceite(p)
  <2> DEFINE r == ComLead("entidade.gravar", k, registo[c])
  <2>1. pedido[p].pc = "vies" /\ Segue(p, r) /\ SemMudar
    BY <1>4 DEF EntidadeLer
  <2>2. SabeLinha(p, r)
    BY <1>2, <1>3, <2>1 DEF SabeLinha, ComLead, ComRegisto, PcsCliente, ComEntidade, DoVies
  <2> QED BY <2>1, <2>2, AceiteLe DEF Acompanham
<1>5. ASSUME EntidadeGravar(p) PROVE PassoAceite(p)
  <2> DEFINE r == [pedido[p] EXCEPT !.pc = "entidade.ligar"]
  <2>1. pedido[p].pc = "entidade.gravar" /\ UNCHANGED <<lead, proposta, aceites>>
    BY <1>5 DEF EntidadeGravar, SoRegisto, historia
  <2>2. r.pc = "entidade.ligar" /\ r.lead = k
    BY <2>1, PassaLead DEF PcsLead
  <2>3. pedido[p].estado # "prospecto" /\ (pedido[p].estado # Nulo => registo[c] # Nulo)
    BY <1>3, <2>1 DEF SabeLinha, ComRegisto
  <2>4. CASE pedido[p].estado = Nulo /\ registo[c] # Nulo
    <3>1. Segue(p, Livre) /\ registo' = registo
      BY <1>5, <2>4 DEF EntidadeGravar, Termina
    <3> QED BY <2>1, <3>1, LivreIgnora, IgnoraLinha, AceiteFica, AceiteSemRegisto DEF Acompanham
  <2>5. CASE ~(pedido[p].estado = Nulo /\ registo[c] # Nulo)
    <3>1. /\ Segue(p, r)
          /\ registo' = IF pedido[p].estado \in {Nulo, "prospecto"}
                        THEN [registo EXCEPT ![c] = "prospecto"] ELSE registo
      BY <1>5, <2>5 DEF EntidadeGravar, Passa
    <3>2. pedido'[p] = r /\ \A o \in Pedidos \ {p} : pedido'[o] = pedido[o]
      BY <3>1, UmSegue
    <3>3. \A d \in Clientes \ {c} : registo'[d] = registo[d]
      BY <3>1 DEF TypeInv, TypeOK
    <3>4. \/ registo'[c] = registo[c] /\ registo[c] # Nulo
          \/ registo[c] = Nulo /\ registo'[c] = "prospecto"
      BY <1>2, <2>3, <2>5, <3>1 DEF TypeInv, TypeOK
    <3>5. RegistoSegue(p)
      BY <1>2, <2>2, <3>2, <3>3, <3>4 DEF RegistoSegue
    <3>6. registo'[c] # Nulo
      BY <3>4 DEF ComercialAssumption, Registos
    <3>7. SabeRegisto(p)'
      BY <1>2, <2>2, <3>2, <3>6 DEF SabeRegisto, SabeLinha, ComRegisto, PcsCliente, DoVies
    <3>8. Larga(p)
      BY <2>1 DEF Larga, Acompanham
    <3> QED BY <2>1, <3>2, <3>5, <3>7, <3>8, AceiteFica DEF PassoAceite
  <2> QED BY <2>4, <2>5
<1>6. ASSUME EntidadeLigar(p) PROVE PassoAceite(p)
  <2> DEFINE r == ComCliente("proposta.criar", c)
  <2>1. /\ pedido[p].pc = "entidade.ligar" /\ lead' = [lead EXCEPT ![k].ligado = TRUE]
        /\ Segue(p, r) /\ UNCHANGED <<registo, proposta, aceites>>
    BY <1>6 DEF EntidadeLigar, SoLead, historia
  <2>2. ComRegisto(c)
    BY <1>3, <2>1 DEF SabeLinha, ComEntidade
  <2>3. [lead[k] EXCEPT !.ligado = TRUE] \in LeadRow /\ [lead[k] EXCEPT !.ligado = TRUE].ligado
    BY <1>2 DEF LeadRow
  <2>4. lead' = [lead EXCEPT ![k] = [lead[k] EXCEPT !.ligado = TRUE]]
    BY <1>2, <2>1 DEF TypeInv, TypeOK
  <2>5. LeadsSeguem
    BY <1>2, <2>2, <2>3, <2>4, AceiteLeads1
  <2>6. pedido'[p] = r /\ \A o \in Pedidos \ {p} : pedido'[o] = pedido[o]
    BY <2>1, UmSegue
  <2>7. SabeRegisto(p)'
    BY <2>1, <2>2, <2>6 DEF SabeRegisto, SabeLinha, ComCliente, ComRegisto, ComEntidade, DoVies
  <2>8. lead'[k].ligado
    BY <1>2, <2>3, <2>4 DEF TypeInv, TypeOK
  <2>9. Larga(p)
    BY <2>1, <2>8 DEF Larga, Acompanham
  <2> QED BY <2>1, <2>5, <2>6, <2>7, <2>9, AceiteFica DEF PassoAceite
<1> QED BY <1>4, <1>5, <1>6

(* The state of a proposal does not say whose it is.                       *)
LEMMA GravaMesmoCliente ==
    ASSUME TypeInv, NEW p \in Pedidos, pedido[p].pc \in PcsProposta, NEW e \in PropostaEstados, Grava(p, e)
    PROVE  PropostasSeguem /\ registo' = registo /\ lead' = lead
<1> DEFINE k == pedido[p].proposta
<1>1. k \in Propostas
  BY PedidoTipo DEF TypeInv
<1>2. \A q \in Propostas \ {k} : proposta'[q] = proposta[q]
  BY <1>1 DEF Grava, TypeInv, TypeOK
<1>3. CASE Existe(k)
  <2>1. proposta[k] \in PropostaRow
    BY <1>1, <1>3 DEF Existe, TypeInv, TypeOK
  <2>2. proposta'[k] = [proposta[k] EXCEPT !.estado = e]
    BY <1>1, <1>3 DEF Grava, TypeInv, TypeOK
  <2>3. proposta'[k].cliente = proposta[k].cliente
    BY <2>1, <2>2 DEF PropostaRow
  <2> QED BY <1>2, <1>3, <2>3 DEF PropostasSeguem, Existe, Grava
<1>4. CASE ~Existe(k)
  BY <1>4, AceiteFica DEF Grava
<1> QED BY <1>3, <1>4

(* The proposals, but the acceptance. *)
LEMMA AceiteProposta ==
    ASSUME ComercialAssumption, TypeInv, AceiteParte, NEW p \in Pedidos,
           \/ \E q \in Propostas : PropostaCriar(p, q)
           \/ EnviarGravar(p) \/ EditarGravar(p) \/ RejeitarGravar(p) \/ RemoverGravar(p)
    PROVE  PassoAceite(p)
<1>1. ASSUME NEW q \in Propostas, PropostaCriar(p, q) PROVE PassoAceite(p)
  <2>1. /\ pedido[p].pc = "proposta.criar" /\ Segue(p, Livre)
        /\ proposta' = [proposta EXCEPT ![q] = [cliente |-> pedido[p].cliente, estado |-> "RASCUNHO"]]
        /\ UNCHANGED <<registo, lead, aceites>>
    BY <1>1 DEF PropostaCriar, Termina, historia
  <2>2. pedido[p].cliente \in Clientes /\ ComRegisto(pedido[p].cliente)
    BY <2>1, PedidoTipo DEF PcsCliente, TypeInv, AceiteParte, SabeRegisto, SabeLinha
  <2>3. PropostasSeguem
    BY <2>1, <2>2 DEF PropostasSeguem, Existe, TypeInv, TypeOK
  <2> QED BY <2>1, <2>3, LivreIgnora, IgnoraLinha, AceiteFica, AceiteSemRegisto DEF Acompanham
<1>2. ASSUME EnviarGravar(p) \/ EditarGravar(p) \/ RejeitarGravar(p) PROVE PassoAceite(p)
  <2>1. /\ pedido[p].pc \in {"enviar", "editar", "rejeitar"} /\ Segue(p, Livre) /\ aceites' = aceites
    BY <1>2 DEF EnviarGravar, EditarGravar, RejeitarGravar, Termina
  <2>2. pedido[p].pc \in PcsProposta /\ pedido[p].estado \in PropostaEstados
    BY <2>1, PedidoTipo DEF PcsProposta, TypeInv
  <2>3. UNCHANGED <<registo, lead, proposta>> \/ \E e \in PropostaEstados : Grava(p, e)
    BY <1>2, <2>2 DEF EnviarGravar, EditarGravar, RejeitarGravar, PropostaEstados
  <2>4. PropostasSeguem /\ LeadsSeguem /\ registo' = registo
    BY <2>2, <2>3, GravaMesmoCliente, AceiteFica
  <2>5. AceitesSeguem(p)
    BY <2>1, AceiteFica
  <2>6. pedido[p].pc \notin Acompanham \cup {"entidade.ligar"}
    BY <2>1 DEF Acompanham
  <2> QED BY <2>1, <2>4, <2>5, <2>6, LivreIgnora, IgnoraLinha, AceiteSemRegisto
<1>3. ASSUME RemoverGravar(p) PROVE PassoAceite(p)
  <2>1. /\ pedido[p].pc = "remover" /\ Segue(p, Livre) /\ UNCHANGED <<registo, lead, aceites>>
        /\ proposta' = [proposta EXCEPT ![pedido[p].proposta] = Nulo]
    BY <1>3 DEF RemoverGravar, Termina, historia
  <2>2. PropostasSeguem
    BY <2>1 DEF PropostasSeguem, Existe, TypeInv, TypeOK
  <2> QED BY <2>1, <2>2, LivreIgnora, IgnoraLinha, AceiteFica, AceiteSemRegisto DEF Acompanham
<1> QED BY <1>1, <1>2, <1>3
(* The acceptance, from the answer to the registration. *)
LEMMA AceiteResposta ==
    ASSUME ComercialAssumption, TypeInv, AceiteParte, NEW p \in Pedidos,
           \/ AceitarGravar(p) \/ AceitarEntidade(p) \/ AceitarRegisto(p)
           \/ AceitarLeads(p) \/ AceitarLigar(p)
    PROVE  PassoAceite(p)
<1> DEFINE c == pedido[p].cliente
<1>1. pedido[p].pc \in PcsCliente => c \in Clientes /\ ComRegisto(c)
  BY PedidoTipo DEF TypeInv, AceiteParte, SabeRegisto, SabeLinha
<1>2. ASSUME AceitarGravar(p) PROVE PassoAceite(p)
  <2> DEFINE k == pedido[p].proposta
  <2>1. pedido[p].pc = "aceitar" /\ Grava(p, "ACEITE") /\ "ACEITE" \in PropostaEstados
    BY <1>2 DEF AceitarGravar, PropostaEstados
  <2>2. PropostasSeguem /\ registo' = registo /\ lead' = lead /\ k \in Propostas
    BY <2>1, GravaMesmoCliente, PedidoTipo DEF PcsProposta, TypeInv
  <2>3. CASE Existe(k)
    <3> DEFINE d == proposta[k].cliente
    <3> DEFINE r == ComCliente("aceitar.entidade", d)
    <3>1. d \in Clientes /\ ComRegisto(d)
      BY <2>2, <2>3 DEF Existe, TypeInv, TypeOK, PropostaRow, AceiteParte, TemRegisto
    <3>2. Segue(p, r) /\ aceites' = aceites \cup {d}
      BY <1>2, <2>3 DEF AceitarGravar
    <3>3. r.pc = "aceitar.entidade" /\ r.cliente = d /\ pedido'[p] = r
      BY <3>2, UmSegue DEF ComCliente
    <3>4. AceitesSeguem(p)
      BY <3>1, <3>2, <3>3 DEF AceitesSeguem, Acompanham
    <3>5. SabeLinha(p, r)
      BY <3>1, <3>3 DEF SabeLinha, ComEntidade, DoVies
    <3> QED BY <2>1, <2>2, <3>2, <3>4, <3>5, AceiteFica, AceiteSemRegisto DEF Acompanham
  <2>4. CASE ~Existe(k)
    <3>1. Segue(p, Livre) /\ aceites' = aceites
      BY <1>2, <2>4 DEF AceitarGravar, Termina
    <3> QED BY <2>1, <2>2, <3>1, LivreIgnora, IgnoraLinha, AceiteFica, AceiteSemRegisto DEF Acompanham
  <2> QED BY <2>3, <2>4
<1>3. ASSUME AceitarEntidade(p) PROVE PassoAceite(p)
  <2> DEFINE pc == IF registo[c] = "cliente" THEN "aceitar.leads" ELSE "aceitar.registo"
  <2>1. pedido[p].pc = "aceitar.entidade" /\ Passa(p, pc) /\ UNCHANGED <<registo, lead, proposta, aceites>>
    BY <1>3 DEF AceitarEntidade, SemMudar, historia
  <2>2. pc \in {"aceitar.leads", "aceitar.registo"}
    OBVIOUS
  <2>3. [pedido[p] EXCEPT !.pc = pc] = ComCliente(pc, c)
    BY <2>1, <2>2, PassaCliente DEF PcsCliente
  <2>4. /\ pedido'[p] = ComCliente(pc, c) /\ \A o \in Pedidos \ {p} : pedido'[o] = pedido[o]
    BY <2>1, <2>3, UmSegue DEF Passa
  <2>5. ComCliente(pc, c).pc = pc /\ ComCliente(pc, c).cliente = c
    BY DEF ComCliente
  <2>6. SabeRegisto(p)'
    BY <1>1, <2>1, <2>2, <2>4, <2>5 DEF SabeRegisto, SabeLinha, ComRegisto, PcsCliente, ComEntidade, DoVies
  <2>7. Larga(p)
    BY <2>1, <2>4, <2>5 DEF Larga, Completam, Acompanham
  <2> QED BY <2>1, <2>4, <2>6, <2>7, AceiteFica DEF PassoAceite
<1>4. ASSUME AceitarRegisto(p) PROVE PassoAceite(p)
  <2>1. /\ pedido[p].pc = "aceitar.registo" /\ Passa(p, "aceitar.leads")
        /\ registo' = [registo EXCEPT ![c] = "pendente_completar"] /\ UNCHANGED <<lead, proposta, aceites>>
    BY <1>4 DEF AceitarRegisto, MarcaPendente, SoRegisto, historia
  <2>2. c \in Clientes
    BY <1>1, <2>1 DEF PcsCliente
  <2>3. [pedido[p] EXCEPT !.pc = "aceitar.leads"] = ComCliente("aceitar.leads", c)
    BY <2>1, PassaCliente DEF PcsCliente
  <2>4. /\ pedido'[p] = ComCliente("aceitar.leads", c) /\ \A o \in Pedidos \ {p} : pedido'[o] = pedido[o]
    BY <2>1, <2>3, UmSegue DEF Passa
  <2>5. \A d \in Clientes : registo'[d] = IF d = c THEN "pendente_completar" ELSE registo[d]
    BY <2>1 DEF TypeInv, TypeOK
  <2>6. RegistoSegue(p)
    BY <2>5 DEF RegistoSegue, Completam
  <2>7. registo'[c] = "pendente_completar" /\ registo'[c] # Nulo
    BY <2>2, <2>5 DEF ComercialAssumption, Registos
  <2>8. SabeRegisto(p)'
    BY <2>4, <2>7 DEF SabeRegisto, SabeLinha, ComCliente, ComRegisto, PcsCliente, ComEntidade, DoVies
  <2>9. Larga(p)
    BY <2>1, <2>7 DEF Larga, Completam
  <2> QED BY <2>1, <2>4, <2>6, <2>8, <2>9, AceiteFica DEF PassoAceite
<1>5. ASSUME AceitarLeads(p) PROVE PassoAceite(p)
  <2> DEFINE leads == LeadsDe(c)
  <2>1. pedido[p].pc = "aceitar.leads" /\ UNCHANGED <<registo, lead, proposta, aceites>>
    BY <1>5 DEF AceitarLeads, SemMudar, historia
  <2>2. CASE Segue(p, Livre)
    BY <2>1, <2>2, LivreIgnora, IgnoraLinha, AceiteFica, AceiteSemRegisto DEF Acompanham
  <2>3. CASE Segue(p, ComLeads(leads))
    <3>1. ComRegisto(c) /\ leads \subseteq Leads /\ \A l \in leads : NifDe[l] = c
      BY <1>1, <2>1 DEF PcsCliente, LeadsDe
    <3>2. SabeLinha(p, ComLeads(leads))
      BY <3>1 DEF ComLeads, SabeLinha, PcsCliente, ComEntidade, DoVies
    <3> QED BY <2>1, <2>3, <3>2, AceiteFica, AceiteSemRegisto DEF Acompanham
  <2> QED BY <1>5, <2>2, <2>3 DEF AceitarLeads, Termina
<1>6. ASSUME AceitarLigar(p) PROVE PassoAceite(p)
  <2>1. pedido[p].pc = "aceitar.ligar" /\ Segue(p, Livre) /\ UNCHANGED <<registo, proposta, aceites>>
    BY <1>6 DEF AceitarLigar, SoLead, historia, Termina
  <2>2. \A l \in pedido[p].leads : ComRegisto(NifDe[l])
    BY <2>1 DEF AceiteParte, SabeRegisto, SabeLinha
  <2>3. ASSUME NEW l \in Leads
        PROVE  /\ lead[l] # Nulo => lead'[l] # Nulo
               /\ Ligado(l) => Ligado(l)'
               /\ Ligado(l)' => Ligado(l) \/ ComRegisto(NifDe[l])
    <3>1. lead[l] # Nulo => lead[l] \in LeadRow /\ [lead[l] EXCEPT !.ligado = TRUE] \in LeadRow
      BY DEF TypeInv, TypeOK, LeadRow
    <3>2. \/ lead'[l] = lead[l]
          \/ lead[l] # Nulo /\ l \in pedido[p].leads /\ lead'[l] = [lead[l] EXCEPT !.ligado = TRUE]
      BY <1>6 DEF AceitarLigar
    <3>3. CASE lead'[l] = lead[l]
      BY <3>3 DEF Ligado
    <3>4. CASE lead[l] # Nulo /\ l \in pedido[p].leads /\ lead'[l] = [lead[l] EXCEPT !.ligado = TRUE]
      <4>1. lead'[l] # Nulo /\ lead'[l].ligado
        BY <3>1, <3>4 DEF ComercialAssumption, LeadRow
      <4> QED BY <2>2, <3>4, <4>1 DEF Ligado
    <3> QED BY <3>2, <3>3, <3>4
  <2>4. LeadsSeguem
    BY <2>3 DEF LeadsSeguem
  <2> QED BY <2>1, <2>4, LivreIgnora, IgnoraLinha, AceiteFica, AceiteSemRegisto DEF Acompanham
<1> QED BY <1>2, <1>3, <1>4, <1>5, <1>6

LEMMA AceiteStep ==
    ASSUME ComercialAssumption, LeadsUnicos, UmaDoLead, AceiteInv, [Next]_vars
    PROVE  AceiteInv'
<1>1. TypeInv /\ TypeInv'
  BY TypeStep DEF AceiteInv
<1>2. ASSUME NEW p \in Pedidos, Interromper(p), falhas' = 0 PROVE FALSE
  BY <1>1, <1>2 DEF Interromper, TypeInv, TypeOK
<1>3. ASSUME NEW p \in Pedidos, DoLead(p), AceiteParte PROVE AceiteParte'
  BY <1>1, <1>3, AceiteComeca, AceiteLead, AceiteEntidade, AceitePassa DEF DoLead
<1>4. ASSUME NEW p \in Pedidos, DaProposta(p), AceiteParte PROVE AceiteParte'
  BY <1>1, <1>4, AceiteComeca, AceiteProposta, AceiteResposta, AceitePassa DEF DaProposta
<1>5. ASSUME NEW p \in Pedidos, DoLead(p) PROVE falhas' = falhas
  BY <1>5 DEF DoLead, EditarLeadGravar, PerderLeadGravar, ConverterEntidade, ConverterCliente,
     ConverterLead, EntidadeLer, EntidadeGravar, EntidadeLigar, CriarLead, PerderLeadLer, ConverterLer,
     PropostaDoLeadLer, EditarLeadLer, RegistarCliente, Proposta, SemMudar, SoLead, SoRegisto
<1>6. ASSUME NEW p \in Pedidos, DaProposta(p) PROVE falhas' = falhas
  BY <1>6 DEF DaProposta, EnviarGravar, EditarGravar, RemoverGravar, AceitarGravar, AceitarEntidade,
     AceitarRegisto, AceitarLeads, AceitarLigar, RejeitarGravar, PropostaCriar, EnviarLer, RemoverLer, AceitarLer,
     RejeitarLer, EditarLer, Ler, Grava, SemMudar, SoLead, SoRegisto
<1>7. CASE UNCHANGED vars
  BY <1>1, <1>7 DEF vars, AceiteInv, AceiteParte, ProspectoTemLead, TemRegisto, AceiteSegue, SabeRegisto,
     SabeLinha, ComRegisto, Ligado, Existe
<1> QED BY <1>1, <1>2, <1>3, <1>4, <1>5, <1>6, <1>7 DEF Next, AceiteInv

(* An acceptance is registered once the requests have ended, if none has   *)
(* stopped half way: nobody who asks VIES about a company overwrites its   *)
(* registration, because the only one who may works for a lead that had no *)
(* company.                                                                *)
THEOREM AceiteCorrecto ==
    ASSUME ComercialAssumption, LeadsUnicos, UmaDoLead PROVE Spec => []AceiteRegistado
<1>1. Init => AceiteInv
  BY AceiteInit
<1>2. AceiteInv /\ [Next]_vars => AceiteInv'
  BY AceiteStep
<1>3. AceiteInv => AceiteRegistado
  BY DEF AceiteInv, AceiteParte, AceiteSegue, AceiteRegistado, Livre, Acompanham, Completam
<1> QED BY <1>1, <1>2, <1>3, PTL DEF Spec
=============================================================================
