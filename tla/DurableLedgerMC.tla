-------------------------- MODULE DurableLedgerMC --------------------------
(* Finite instances of DurableLedger. *)
EXTENDS DurableLedger, TLC

CONSTANTS p1, p2

TwoProducers == {p1, p2}
OneProducer  == {p1}
=============================================================================
