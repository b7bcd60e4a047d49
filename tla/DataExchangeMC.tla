--------------------------- MODULE DataExchangeMC ---------------------------
(* Small instances of DataExchange for TLC.                                *)
EXTENDS DataExchange, TLC

ExactIds == {<<c, c>> : c \in Consumer}

(* The ids the provider may give to the assets of one month.               *)
MonthAssets == [month : Month, year : Year, stamp : 0 .. MaxStamp]

(* Requests of the provider and of the consumer are interchangeable.       *)
RequestSymmetry == Permutations(Request) \cup Permutations(Initiator)

=============================================================================
