---------------------------- MODULE MCDeadLetter ----------------------------
(* Small instances of DeadLetter. *)
EXTENDS DeadLetter, TLC

Symmetry == Permutations(Procs) \cup Permutations(Attempts) \cup Permutations(Ids)
=============================================================================
