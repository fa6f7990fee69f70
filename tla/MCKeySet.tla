------------------------------ MODULE MCKeySet ------------------------------
(* KeySet with two processes of each plugin. *)
EXTENDS KeySet, TLC

CONSTANTS k1, k2, j1, j2

MCProcs == {k1, k2, j1, j2}
MCSetOf == [p \in MCProcs |-> IF p \in {k1, k2} THEN "encryption"
                                                ELSE "serviceaccount"]

\* One key for every place that can hold one.
MCKeys == 1 .. 8
=============================================================================
