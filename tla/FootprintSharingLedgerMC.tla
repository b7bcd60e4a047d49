---------------------- MODULE FootprintSharingLedgerMC ----------------------
(* A small instance of FootprintSharingLedger for TLC.                     *)
EXTENDS FootprintSharingLedger, SequencesExt

ExactIds == {<<c, c>> : c \in Consumer}

(***************************************************************************)
(* Temporal properties rule out TLC's symmetry.  Requests and companies    *)
(* are interchangeable all the same, so one initial state of each kind is  *)
(* enough: how many requests are about each company, the first being about *)
(* most.                                                                   *)
(***************************************************************************)
AboutCompany(c) == {r \in Request : share[r].consumer = c}

OneOfEachKind ==
    \E requests \in {SetToSeq(Request)}, companies \in {SetToSeq(Consumer)} :
        /\ \A i, j \in DOMAIN companies :
              i <= j => Cardinality(AboutCompany(companies[i]))
                          >= Cardinality(AboutCompany(companies[j]))
        /\ \A m, n \in DOMAIN requests, i, j \in DOMAIN companies :
              /\ share[requests[m]].consumer = companies[i]
              /\ share[requests[n]].consumer = companies[j]
              /\ m <= n
              => i <= j

SymmetricInit == Init /\ OneOfEachKind

SymmetricFairSpec == SymmetricInit /\ [][Next]_vars /\ Fairness

=============================================================================
