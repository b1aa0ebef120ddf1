----------------------------- MODULE MCSetupUser -----------------------------
(* An instance of SetupUser for TLC. *)
EXTENDS SetupUser

\* Enough for a stale group, a fresh gid and one that is another group's.
IdRange == 300..302
=============================================================================
