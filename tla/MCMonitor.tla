----------------------------- MODULE MCMonitor -----------------------------
(* Instances of Monitor for TLC.  The tasks are alike, and so are the      *)
(* THREADs: the safety run takes them up to a permutation.                 *)
EXTENDS Monitor, TLC

Alike == Permutations(Tasks) \cup Permutations(Threads)
=============================================================================
