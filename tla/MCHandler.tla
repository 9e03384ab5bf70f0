----------------------------- MODULE MCHandler -----------------------------
(* Instances of Handler for TLC.  The bounds are in the cfg files.          *)
EXTENDS Handler, TLC

Symmetry == Permutations(Requests) \cup Permutations(Targets)
=============================================================================
