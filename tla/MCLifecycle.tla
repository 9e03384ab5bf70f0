---------------------------- MODULE MCLifecycle ----------------------------
(* Instances of Lifecycle for TLC.  The bounds are in the cfg file.          *)
EXTENDS Lifecycle
=============================================================================
