----------------------------- MODULE MCFaturacao -----------------------------
(* Instances of Faturacao for TLC: an FT and an NC series of one year.     *)
EXTENDS Faturacao, TLC

CONSTANTS f1, f2, f3, p1, p2, q1, q2, cAT

MCSeries == {"FT", "NC"}
MCSeriesFT == {"FT"}
MCNotaDe == [s \in MCSeriesFT |-> "NC"]
MCCodigoDaAt == [s \in MCSeries |-> cAT]

(* One emitter beside another client of the documents.                     *)
OperacoesEmissao ==
    (p1 :> {"create", "emitir", "comunicarAt"}) @@
    (p2 :> {"create", "comunicarAt", "anular"})

(* One client of the documents and another of credit notes; both invoice   *)
(* the proposals, and there are no other invoices.                         *)
OperacoesDocumentos ==
    (p1 :> {"update", "emitir", "reenviarAt", "anular", "faturarProposta"}) @@
    (p2 :> {"notaCredito", "faturarProposta"})

(* One emitter, another client registers the series and edits its code;    *)
(* both write the configuration.                                           *)
OperacoesSeries ==
    (p1 :> {"create", "emitir", "updateConfig"}) @@
    (p2 :> {"comunicarSerie", "updateSerie", "updateConfig"})

(* Two emitters.                                                           *)
DoisEmissores == [p \in {p1, p2} |-> {"create", "emitir"}]

(* One client that emits and edits the series.                             *)
UmCliente == (p1 :> {"create", "emitir", "updateSerie"})

(* Interchangeable rows; requests are not, they call different endpoints.  *)
SimetriaFaturas == Permutations(Faturas)
=============================================================================
