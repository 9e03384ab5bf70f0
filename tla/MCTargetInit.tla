---------------------------- MODULE MCTargetInit ----------------------------
(* Instances of TargetInit for TLC.  The chains of the cfg files are shorter *)
(* than the code's: a step looks only at whether a chain has ended, and at   *)
(* the method of a response, which the last two of `worlds` share.           *)
EXTENDS TargetInit
=============================================================================
