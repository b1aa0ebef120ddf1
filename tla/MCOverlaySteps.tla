---------------------------- MODULE MCOverlaySteps ----------------------------
(* The instance of OverlaySteps for TLC. *)
EXTENDS OverlaySteps, TLC

\* Threads are interchangeable, and so are pids and names.
Symmetry == Permutations(Thread) \cup Permutations(Name) \cup Permutations(Pid)
=============================================================================
