------------------------- MODULE AgentRecoveryMC -------------------------
(* Small instances of AgentRecovery. *)
EXTENDS AgentRecovery

Either == {TRUE, FALSE}
Yes    == {TRUE}
No     == {FALSE}
==========================================================================
