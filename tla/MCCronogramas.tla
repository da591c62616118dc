------------------------------ MODULE MCCronogramas ------------------------------
(* Cronogramas for the run crono_v_recusa: one request at a time.          *)
EXTENDS Cronogramas

OperacoesImportar == [p1 |-> {"aplicar"}]
UtilizadorImportar == [p1 |-> "u1"]
=============================================================================
