------------------------------ MODULE MCFrames ------------------------------
(* Instances of Frames for TLC.  The bounds are in the cfg file.             *)
EXTENDS Frames

Symmetry == Permutations(ChildIds)
=============================================================================
