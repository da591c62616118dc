-------------------------------- MODULE Sistema --------------------------------
(***************************************************************************)
(* The components that share no state, side by side: parte says which of   *)
(* them is at work, and the variables of the others stay as they began.    *)
(* Sigo is the module extended; the others are instances, each with the    *)
(* constants of a record of its own, so that a module may be there twice,  *)
(* with other requests.  pedido and falhas are those of the part at work.  *)
(* The instances are of the modules with the theorems, which SistemaProofs *)
(* needs.                                                                  *)
(***************************************************************************)
EXTENDS Sigo

CONSTANTS
    Partes,        \* the parts considered
    DeGestor, DeLimite, DeNavegacao, DeCortes, DeFunil, DeImportar, DeTrabalhos, DeFila,
                   \* the constants of each instance
    Nenhum

VARIABLES
    parte,
    conta, convite, tokens, limite, limites, proximoId,
    sessao, cookie, ativa, personifica, terminados,
    registo, lead, proposta, removidas, aceites, diretos, editadas,
    cronograma, turma, marcada, trabalho, processo,
    transporte, tokenIgual, recebidas, fila, visiveis, emVoo, apagadas, tratadas, exec,
    acessos, iniciada, terminada, relogio

sigoVars == <<submissao, enviadas, certificado, ficheiro, remoto, emitido>>
contasVars == <<conta, convite, tokens, limite, limites, proximoId>>
sessoesVars == <<sessao, cookie, ativa, personifica, terminados>>
comercialVars == <<registo, lead, proposta, removidas, aceites, diretos, editadas>>
cronogramasVars == <<cronograma, turma, marcada, trabalho, processo>>
filaVars == <<transporte, tokenIgual, recebidas, fila, visiveis, emVoo, apagadas, tratadas, exec,
              acessos, iniciada, terminada, relogio>>
todas == <<parte, sigoVars, contasVars, sessoesVars, comercialVars, cronogramasVars, filaVars,
           pedido, falhas>>

(* Accounts, for those who edit them, ... *)
Gestor == INSTANCE ContasProofs WITH
    Emails <- DeGestor.emails, Cargos <- DeGestor.cargos, Pedidos <- DeGestor.pedidos,
    Operacoes <- DeGestor.operacoes, Limites <- DeGestor.limites,
    MaxIds <- DeGestor.maxIds, MaxFalhas <- DeGestor.maxFalhas, Nulo <- Nenhum

(* ... and for those who activate them, against the limit of the plan. *)
Limite == INSTANCE ContasProofs WITH
    Emails <- DeLimite.emails, Cargos <- DeLimite.cargos, Pedidos <- DeLimite.pedidos,
    Operacoes <- DeLimite.operacoes, Limites <- DeLimite.limites,
    MaxIds <- DeLimite.maxIds, MaxFalhas <- DeLimite.maxFalhas, Nulo <- Nenhum

(* The sessions of the browsers, ... *)
Navegacao == INSTANCE SessoesRefreshProofs WITH
    Contas <- DeNavegacao.contas, Operadores <- DeNavegacao.operadores,
    Navegadores <- DeNavegacao.navegadores, ContaDe <- DeNavegacao.contaDe,
    Pedidos <- DeNavegacao.pedidos, NavegadoresDe <- DeNavegacao.navegadoresDe,
    Operacoes <- DeNavegacao.operacoes, Personificaveis <- DeNavegacao.personificaveis,
    MaxSessoes <- DeNavegacao.maxSessoes, MaxFalhas <- DeNavegacao.maxFalhas,
    Nulo <- Nenhum

(* ... and with what cuts a request short. *)
Cortes == INSTANCE SessoesRefreshProofs WITH
    Contas <- DeCortes.contas, Operadores <- DeCortes.operadores,
    Navegadores <- DeCortes.navegadores, ContaDe <- DeCortes.contaDe,
    Pedidos <- DeCortes.pedidos, NavegadoresDe <- DeCortes.navegadoresDe,
    Operacoes <- DeCortes.operacoes, Personificaveis <- DeCortes.personificaveis,
    MaxSessoes <- DeCortes.maxSessoes, MaxFalhas <- DeCortes.maxFalhas, Nulo <- Nenhum

(* The funnel of sales. *)
Funil == INSTANCE ComercialProofs WITH
    Clientes <- DeFunil.clientes, Leads <- DeFunil.leads, NifDe <- DeFunil.nifDe,
    Propostas <- DeFunil.propostas, Pedidos <- DeFunil.pedidos,
    Operacoes <- DeFunil.operacoes, MaxFalhas <- DeFunil.maxFalhas, Nulo <- Nenhum,
    apagadas <- removidas

(* Imports of the sessions of a class, ... *)
Importar == INSTANCE CronogramasProofs WITH
    Pedidos <- DeImportar.pedidos, Operacoes <- DeImportar.operacoes,
    UtilizadorDe <- DeImportar.utilizadorDe, Turmas <- DeImportar.turmas,
    Listas <- DeImportar.listas, MaxNumero <- DeImportar.maxNumero,
    MaxCronogramas <- DeImportar.maxCronogramas, MaxTrabalhos <- DeImportar.maxTrabalhos,
    MaxFalhas <- DeImportar.maxFalhas, Nulo <- Nenhum, sessao <- marcada

(* ... and the jobs that prepare them. *)
Trabalhos == INSTANCE CronogramasProofs WITH
    Pedidos <- DeTrabalhos.pedidos, Operacoes <- DeTrabalhos.operacoes,
    UtilizadorDe <- DeTrabalhos.utilizadorDe, Turmas <- DeTrabalhos.turmas,
    Listas <- DeTrabalhos.listas, MaxNumero <- DeTrabalhos.maxNumero,
    MaxCronogramas <- DeTrabalhos.maxCronogramas,
    MaxTrabalhos <- DeTrabalhos.maxTrabalhos, MaxFalhas <- DeTrabalhos.maxFalhas,
    Nulo <- Nenhum, sessao <- marcada

(* The webhooks of the meetings and the portal. *)
Fila == INSTANCE AssiduidadeProofs WITH
    Plataformas <- DeFila.plataformas, Sessoes <- DeFila.sessoes,
    PlataformaDe <- DeFila.plataformaDe, Formandos <- DeFila.formandos,
    Mensagens <- DeFila.mensagens, Conteudo <- DeFila.conteudo, Execucoes <- DeFila.execucoes,
    LoopDe <- DeFila.loopDe, Transportes <- DeFila.transportes,
    TokensIguais <- DeFila.tokensIguais, DoPortal <- DeFila.doPortal,
    Pedidos <- DeFila.pedidos, DuracoesPedido <- DeFila.duracoesPedido,
    MaxRelogio <- DeFila.maxRelogio, MaxAcessos <- DeFila.maxAcessos,
    MaxFalhas <- DeFila.maxFalhas, enviadas <- recebidas

(* What the other modules ask of their constants. *)
ASSUME InstanciasAssumption ==
    /\ Gestor!ContasAssumption /\ Limite!ContasAssumption
    /\ Navegacao!SessoesAssumption /\ Cortes!SessoesAssumption
    /\ Funil!ComercialAssumption
    /\ Importar!CronogramasAssumption /\ Trabalhos!CronogramasAssumption
    /\ Fila!FilaAssumption /\ Fila!BoundsAssumption
    /\ SigoAssumption

SemContas == conta = <<>> /\ convite = <<>> /\ tokens = {} /\ limite = 0 /\ limites = {} /\ proximoId = 0
SemSessoes == sessao = <<>> /\ cookie = <<>> /\ ativa = {} /\ personifica = <<>> /\ terminados = {}
SemComercial == /\ registo = <<>> /\ lead = <<>> /\ proposta = <<>> /\ removidas = {}
                /\ aceites = {} /\ diretos = {} /\ editadas = {}
SemCronogramas == /\ cronograma = <<>> /\ turma = <<>> /\ marcada = {} /\ trabalho = <<>>
                  /\ processo = <<>>
SemFila == /\ transporte = "sync" /\ tokenIgual = FALSE /\ recebidas = {} /\ fila = <<>>
           /\ visiveis = {} /\ emVoo = {} /\ apagadas = {} /\ tratadas = <<>> /\ exec = <<>>
           /\ acessos = <<>> /\ iniciada = {} /\ terminada = {} /\ relogio = 0

SoSigo == SemContas /\ SemSessoes /\ SemComercial /\ SemCronogramas /\ SemFila
SoContas == TabelasVazias /\ SemSessoes /\ SemComercial /\ SemCronogramas /\ SemFila
SoSessoes == TabelasVazias /\ SemContas /\ SemComercial /\ SemCronogramas /\ SemFila
SoComercial == TabelasVazias /\ SemContas /\ SemSessoes /\ SemCronogramas /\ SemFila
SoCronogramas == TabelasVazias /\ SemContas /\ SemSessoes /\ SemComercial /\ SemFila
SoFila == TabelasVazias /\ SemContas /\ SemSessoes /\ SemComercial /\ SemCronogramas

InitTodas ==
    /\ parte \in Partes
    /\ \/ parte = "sigo"      /\ Init           /\ SoSigo
       \/ parte = "gestor"    /\ Gestor!Init    /\ SoContas
       \/ parte = "limite"    /\ Limite!Init    /\ SoContas
       \/ parte = "navegacao" /\ Navegacao!Init /\ SoSessoes
       \/ parte = "cortes"    /\ Cortes!Init    /\ SoSessoes
       \/ parte = "funil"     /\ Funil!Init     /\ SoComercial
       \/ parte = "importar"  /\ Importar!Init  /\ SoCronogramas
       \/ parte = "trabalhos" /\ Trabalhos!Init /\ SoCronogramas
       \/ parte = "fila"      /\ Fila!Init      /\ SoFila

OutrasQueSigo == UNCHANGED <<parte, contasVars, sessoesVars, comercialVars, cronogramasVars, filaVars>>
OutrasQueContas == UNCHANGED <<parte, sigoVars, sessoesVars, comercialVars, cronogramasVars, filaVars>>
OutrasQueSessoes == UNCHANGED <<parte, sigoVars, contasVars, comercialVars, cronogramasVars, filaVars>>
OutrasQueComercial == UNCHANGED <<parte, sigoVars, contasVars, sessoesVars, cronogramasVars, filaVars>>
OutrasQueCronogramas == UNCHANGED <<parte, sigoVars, contasVars, sessoesVars, comercialVars, filaVars>>
OutrasQueFila == UNCHANGED <<parte, sigoVars, contasVars, sessoesVars, comercialVars, cronogramasVars>>

NextTodas ==
    \/ parte = "sigo"      /\ Next           /\ OutrasQueSigo
    \/ parte = "gestor"    /\ Gestor!Next    /\ OutrasQueContas
    \/ parte = "limite"    /\ Limite!Next    /\ OutrasQueContas
    \/ parte = "navegacao" /\ Navegacao!Next /\ OutrasQueSessoes
    \/ parte = "cortes"    /\ Cortes!Next    /\ OutrasQueSessoes
    \/ parte = "funil"     /\ Funil!Next     /\ OutrasQueComercial
    \/ parte = "importar"  /\ Importar!Next  /\ OutrasQueCronogramas
    \/ parte = "trabalhos" /\ Trabalhos!Next /\ OutrasQueCronogramas
    \/ parte = "fila"      /\ Fila!Next      /\ OutrasQueFila

SpecTodas == InitTodas /\ [][NextTodas]_todas

-----------------------------------------------------------------------------
(* Every component's types. *)
TodosTipos ==
    /\ parte = "sigo" => TypeOK
    /\ parte = "gestor" => Gestor!TypeOK
    /\ parte = "limite" => Limite!TypeOK
    /\ parte = "navegacao" => Navegacao!TypeOK
    /\ parte = "cortes" => Cortes!TypeOK
    /\ parte = "funil" => Funil!TypeOK
    /\ parte = "importar" => Importar!TypeOK
    /\ parte = "trabalhos" => Trabalhos!TypeOK
    /\ parte = "fila" => Fila!TypeOK

(* Contas: the limit of active accounts of some plan in force.             *)
LimiteRespeitado == parte = "limite" => Limite!LimiteRespeitado

(* Contas: while an ADMIN is active, the endpoints of users keep a manager *)
(* of the tenant.                                                          *)
AdminSempreProtegido == [][parte = "gestor" => Gestor!AdminProtegido]_todas

(* SessoesRefresh: one active session per account.                         *)
UmaSessaoPorConta ==
    /\ parte = "navegacao" => Navegacao!UmaSessaoPorConta
    /\ parte = "cortes" => Cortes!UmaSessaoPorConta

(* SessoesRefresh: a session nobody ended is alive.                        *)
CookieVivo ==
    /\ parte = "navegacao" => Navegacao!CookieVivo
    /\ parte = "cortes" => Cortes!CookieVivo

(* Comercial: only a company that accepted a proposal becomes a customer.  *)
ConversaoAposAceite == parte = "funil" => Funil!ConversaoAposAceite

(* Comercial: an acceptance is not lost.                                   *)
AceiteRegistado == parte = "funil" => Funil!AceiteRegistado

(* Comercial: an answered proposal is not open again.                      *)
RespostaFica == [][parte = "funil" => Funil!Fica]_todas

(* Cronogramas: a class has no part of an import.                          *)
ImportacaoInteira ==
    /\ parte = "importar" => Importar!ImportacaoInteira
    /\ parte = "trabalhos" => Trabalhos!ImportacaoInteira

(* Cronogramas: an applied job had its sessions created.                   *)
AplicadoFoiCriado ==
    /\ parte = "importar" => Importar!AplicadoFoiCriado
    /\ parte = "trabalhos" => Trabalhos!AplicadoFoiCriado

(* Assiduidade: a call of a webhook is recorded once without SQS.          *)
SemRegistosRepetidos == parte = "fila" => Fila!SemRegistosRepetidos

(* Assiduidade: a learner of the portal is not inside twice.               *)
EntradasAlternadas == parte = "fila" => Fila!EntradasAlternadas

(* Assiduidade: nobody is inside a session that has ended.                 *)
PresencaFechada == parte = "fila" => Fila!PresencaFechada

(* PresencaLms: the time credited is the time inside.                      *)
TempoConfere == parte = "fila" => Fila!TempoConfere
=============================================================================
