---------------------------- MODULE MCNavigation ----------------------------
(* Instances of Navigation for TLC.  The bounds are in the cfg files.        *)
EXTENDS Navigation
=============================================================================
