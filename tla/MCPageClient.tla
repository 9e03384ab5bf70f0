---------------------------- MODULE MCPageClient ----------------------------
(* Instances of PageClient for TLC.  The bounds are in the cfg file.         *)
EXTENDS PageClient
=============================================================================
