----------------------------- MODULE MCScheduler -----------------------------
(* Instances of the scheduler for TLC. *)
EXTENDS Scheduler, TLC

Symmetry == Permutations(Coroutines)
=============================================================================
