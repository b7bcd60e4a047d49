------------------------- MODULE DataModelVerifierMC -------------------------
(* Small instances of DataModelVerifier for TLC.                           *)
EXTENDS DataModelVerifier

(* A month whose text is no ISO date, in a leap year, and two whose is; in *)
(* October Europe's clocks go back.                                        *)
Months == {[year |-> 2024, month |-> 2], [year |-> 2023, month |-> 10],
           [year |-> 2023, month |-> 12]}

UTC == [standard |-> 0, saving |-> 60, summer |-> {}]

(* Summer time from the last Sunday of March to that of October, 01:00 UTC.*)
Berlin ==
    [standard |-> 60, saving |-> 60,
     summer |-> {[from |-> Midnight(2023, 3, 26) + 60, to |-> Midnight(2023, 10, 29) + 60],
                 [from |-> Midnight(2024, 3, 31) + 60, to |-> Midnight(2024, 10, 27) + 60]}]

Zones == {UTC, Berlin}
OnlyUTC == {UTC}

(* The days on both sides of both ends of a month.                         *)
EdgeDays ==
    [p \in Period |->
        {Midnight(p.year, p.month, 1) - Day, Midnight(p.year, p.month, 1),
         Midnight(p.year, p.month + 1, 1) - Day, Midnight(p.year, p.month + 1, 1)}]

Defects == {{}, {"mass"}, {"unknown"}}

=============================================================================
