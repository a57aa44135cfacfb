------------------------------ MODULE MCScheduler ------------------------------
(***************************************************************************)
(* Scheduler for TLC.  Requests are interchangeable model values: only the *)
(* order in which they are submitted matters, and that is in the queue.    *)
(***************************************************************************)
EXTENDS Scheduler, TLC

RequestSymmetry == Permutations(Requests)
=============================================================================
