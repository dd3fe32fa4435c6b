-------------------------- MODULE PendingActionsMC --------------------------
(* PendingActions for TLC. *)
EXTENDS PendingActions, TLC
=============================================================================
