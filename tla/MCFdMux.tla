------------------------------ MODULE MCFdMux ------------------------------
(* FdMux with model values; see the cfgs for the sizes. *)
EXTENDS FdMux, TLC

Symmetry ==
  Permutations(Requesters) \cup Permutations(Handlers) \cup Permutations(Data)
=============================================================================
