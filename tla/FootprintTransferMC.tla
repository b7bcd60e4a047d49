------------------------- MODULE FootprintTransferMC -------------------------
(* Small instances of FootprintTransfer for TLC.                           *)
EXTENDS FootprintTransfer, TLC

(* Assets, and requests of one kind, are interchangeable.                  *)
Symmetric ==
    Permutations(Asset) \cup Permutations(Initiator) \cup Permutations(Reader)

=============================================================================
