---------------------------- MODULE MCEnsureFile ----------------------------
(* The instance of EnsureFile for TLC: two processes, one pid to spare. *)
EXTENDS EnsureFile
=============================================================================
