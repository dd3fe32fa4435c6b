--------------------------- MODULE SqliteLedgerMC ---------------------------
(* Finite instances of SqliteLedger. *)
EXTENDS SqliteLedger, TLC

CONSTANTS p1, p2

TwoProducers == {p1, p2}
Symmetry     == Permutations(TwoProducers)
=============================================================================
