---------------------------- MODULE MCScheduler -----------------------------
(* The scheduler for TLC.                                                  *)
EXTENDS Scheduler, TLC

TaskSymmetry == Permutations(Addr)
=============================================================================
