--------------------------- MODULE MCFolhaPresenca ---------------------------
(* Small instances of FolhaPresenca.                                       *)
EXTENDS FolhaPresenca, TLC

CONSTANTS m1, m2, p1, p2

(* One request at a time, of every kind                                    *)
UmPedido == p1 :> Endpoints
(* Two at the same time                                                    *)
DoisPedidos == (p1 :> {"criar", "marcar"}) @@ (p2 :> {"validar", "aprovar"})
SimetriaMatriculas == Permutations({m1, m2})
=============================================================================
