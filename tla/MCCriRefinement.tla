--------------------------- MODULE MCCriRefinement ---------------------------
(* The same instances, with the history variable the refinement needs. *)
EXTENDS CriRefinement, MCCri
=============================================================================
