---------------------------- MODULE MCSemaphore -----------------------------
(* Semaphore with interchangeable applications *)
EXTENDS Semaphore, TLC

Symm == Permutations(App)
=============================================================================
