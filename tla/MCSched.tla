------------------------------ MODULE MCSched -------------------------------
(* Sched with interchangeable applications *)
EXTENDS Sched, TLC

Symm == Permutations(App)
=============================================================================
