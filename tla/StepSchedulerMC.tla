-------------------------- MODULE StepSchedulerMC --------------------------
(***************************************************************************)
(* StepScheduler for TLC: the identities of tasks are interchangeable.     *)
(***************************************************************************)
EXTENDS StepScheduler, TLC

Symmetry == Permutations(Tasks)
=============================================================================
