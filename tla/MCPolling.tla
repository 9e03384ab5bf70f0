------------------------------ MODULE MCPolling -----------------------------
(* Instances of Polling for TLC.  Noise and the bounds are in the cfg files; *)
(* no symmetry, since liveness is checked.                                   *)
EXTENDS Polling
=============================================================================
