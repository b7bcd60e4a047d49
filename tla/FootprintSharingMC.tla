------------------------- MODULE FootprintSharingMC -------------------------
(* Small instances of FootprintSharing for TLC.                            *)
EXTENDS FootprintSharing, TLC

(* Client ids none of which is a prefix of another.                        *)
ExactIds == {<<c, c>> : c \in Consumer}

(* Requests are interchangeable; so are companies with exact ids.          *)
RequestSymmetry == Permutations(Request)
FullSymmetry == Permutations(Request) \cup Permutations(Consumer)

=============================================================================
