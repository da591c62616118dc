-------------------------------- MODULE MCContas --------------------------------
(* Contas for the run contas_v_gestor: one request at a time.              *)
EXTENDS Contas

OperacoesGestor == [p1 |-> {"convidar", "aceitar", "cargo", "removerFormador"}]
=============================================================================
