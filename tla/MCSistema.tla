------------------------------- MODULE MCSistema -------------------------------
(***************************************************************************)
(* Sistema with a small instance of every part.  The constants of Sigo are *)
(* in the configuration: one submission, everything a user may do and both *)
(* cron jobs.                                                              *)
(***************************************************************************)
EXTENDS Sistema, Integers

Certificacao ==
    [c1 |-> {"cronReconciliar"}, c2 |-> {"cronCertificados"},
     p1 |-> {"submeter", "certificar", "reconciliar", "sincronizar"}]

Dois == {"p1", "p2"}

QuaseTodosDeContas == {"convidar", "aceitar", "ativar", "desativar", "cargo", "remover",
                       "removerFormador", "anonimizar"}

(* Accounts, every operation but that of provisioned trainers, by one      *)
(* request at a time but the cancellation of invitations.  A coordinator   *)
(* is a manager that nothing protects.                                     *)
ContasEditadas ==
    [emails |-> {"a1", "a2"}, cargos |-> {"ADMIN", "COORDENADOR", "FORMADOR"}, pedidos |-> Dois,
     operacoes |-> [p1 |-> QuaseTodosDeContas, p2 |-> {"cancelar"}],
     limites |-> {2}, maxIds |-> 3, maxFalhas |-> 0]

(* Those who activate against those who deactivate. *)
ContasActivadas ==
    [emails |-> {"a1", "a2"}, cargos |-> {"ADMIN", "FORMADOR"}, pedidos |-> Dois,
     operacoes |-> [p1 |-> {"desativar", "remover"},
                    p2 |-> {"convidar", "aceitar", "ativar", "provisionar"}],
     limites |-> {1, 2}, maxIds |-> 3, maxFalhas |-> 1]

(* An operator with one browser, a customer's user with another, and what  *)
(* others do to their accounts ...                                         *)
DoisNavegadores ==
    [contas |-> {"u", "op"}, operadores |-> {"op"}, navegadores |-> {"b1", "b2"},
     contaDe |-> [b1 |-> "op", b2 |-> "u"], pedidos |-> Dois,
     navegadoresDe |-> [p1 |-> {"b1", "b2"}, p2 |-> {}],
     operacoes |-> [p1 |-> {"login", "refresh", "logout", "personificar", "terminarPersonificacao"},
                    p2 |-> {"reset", "desativar", "ativar"}],
     personificaveis |-> {"u"}, maxSessoes |-> 3, maxFalhas |-> 0]

(* ... with fewer sessions, and a failure.                                 *)
ComFalha == [DoisNavegadores EXCEPT !.maxSessoes = 2, !.maxFalhas = 1]

(* A company, its lead and a proposal; staff, and the customer. *)
UmaEmpresa ==
    [clientes |-> {"c1"}, leads |-> {"l1"}, nifDe |-> [l1 |-> "c1"], propostas |-> {"q1"},
     pedidos |-> Dois,
     operacoes |->
        [p1 |-> {"criarLead", "editarLead", "perderLead", "converter", "propostaDoLead", "proposta",
                 "enviar", "editarProposta", "removerProposta", "registarCliente"},
         p2 |-> {"aceitar", "rejeitar", "converter", "registarCliente"}],
     maxFalhas |-> 1]

(* A class, and two requests that import its sessions at the same time.    *)
DuasImportacoes ==
    [pedidos |-> Dois, operacoes |-> [p \in Dois |-> {"aplicar"}],
     utilizadorDe |-> [p \in Dois |-> "u1"], turmas |-> {1}, listas |-> {{1}, {1, 2}},
     maxNumero |-> 3, maxCronogramas |-> 1, maxTrabalhos |-> 0, maxFalhas |-> 0]

(* An import job, of a user who also edits, applies and discards it.       *)
UmTrabalho ==
    [pedidos |-> Dois,
     operacoes |-> [p1 |-> {"iniciar", "guardar", "aplicarTrabalho"}, p2 |-> {"descartar"}],
     utilizadorDe |-> [p \in Dois |-> "u1"], turmas |-> {1}, listas |-> {{1}},
     maxNumero |-> 1, maxCronogramas |-> 1, maxTrabalhos |-> 1, maxFalhas |-> 1]

(* Two overlapping deliveries of Zoom's calls about f2, while f1 registers *)
(* in the portal, with no duration (-1, the null of PresencaLms); the      *)
(* queue of Redis or none.                                                 *)
DoisCanais ==
    [plataformas |-> {"zoom", "teams"}, sessoes |-> {"sz"}, plataformaDe |-> [sz |-> "zoom"],
     formandos |-> {"f1", "f2"}, doPortal |-> {"f1"}, mensagens |-> {"m1", "m2"},
     conteudo |->
        [m \in {"m1", "m2"} |-> [sessao |-> "sz", formando |-> "f2", emailCerto |-> TRUE,
                                 evento |-> IF m = "m1" THEN "join" ELSE "leave"]],
     execucoes |-> {"e1", "e2"}, loopDe |-> [e \in {"e1", "e2"} |-> "zoom"],
     transportes |-> {"redis", "sync"}, tokensIguais |-> {FALSE}, pedidos |-> {"p1"},
     duracoesPedido |-> {-1}, maxRelogio |-> 2, maxAcessos |-> 4, maxFalhas |-> 1]

-----------------------------------------------------------------------------
(* These instances are among those the theorems of SistemaProofs are       *)
(* about.                                                                  *)
ASSUME HipotesesAssumption ==
    /\ Gestor!UmQueGere /\ Limite!UmAtivador
    /\ Navegacao!CriadorUnico /\ Cortes!CriadorUnico
    /\ Funil!UmEnvio /\ Funil!LeadsUnicos /\ Funil!UmaDoLead
    /\ Fila!UmPedido /\ Fila!SoPeloPortal /\ Fila!SemDuracoes
=============================================================================
