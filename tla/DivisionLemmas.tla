--------------------------- MODULE DivisionLemmas ---------------------------
(***************************************************************************)
(* Facts about Math.ceil(n / c), the number of parts of at most c that n   *)
(* things are cut into: rows into chunks, a listing into pages.            *)
(***************************************************************************)
EXTENDS Integers, TLAPS

(* The quotient rounded down.                                              *)
LEMMA Quotient ==
    ASSUME NEW a \in Nat, NEW c \in Nat \ {0}
    PROVE  a \div c \in Nat /\ (a \div c) * c <= a /\ a < (a \div c) * c + c
  OBVIOUS

(* A step of its own for the provers: the products are not linear.         *)
LEMMA TimesKeepsOrder ==
    ASSUME NEW a \in Nat, NEW b \in Nat, NEW c \in Nat, a <= b
    PROVE  a * c <= b * c
  OBVIOUS

(* Before the last part there is something left, after it there is not.    *)
LEMMA Ceiling ==
    ASSUME NEW n \in Nat, NEW c \in Nat \ {0}, NEW k \in Nat
    PROVE  /\ (n + c - 1) \div c \in Nat
           /\ k < (n + c - 1) \div c => k * c < n
           /\ k = (n + c - 1) \div c => n <= k * c
<1> DEFINE q == (n + c - 1) \div c
<1>1. q \in Nat /\ q * c <= n + c - 1 /\ n + c - 1 < q * c + c
  BY Quotient
<1>2. ASSUME k < q PROVE k * c < n
  <2>1. (k + 1) * c <= q * c
    BY <1>1, <1>2, TimesKeepsOrder
  <2>2. (k + 1) * c = k * c + c /\ k * c \in Nat /\ q * c \in Nat
    BY <1>1
  <2> HIDE DEF q
  <2>3. QED
    BY <1>1, <2>1, <2>2
<1>3. ASSUME k = q PROVE n <= k * c
  BY <1>1, <1>3
<1>4. QED
  BY <1>1, <1>2, <1>3

=============================================================================
