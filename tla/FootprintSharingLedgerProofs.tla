--------------------- MODULE FootprintSharingLedgerProofs ---------------------
(***************************************************************************)
(* The proof that FootprintSharing implements AccessLedger, for every set  *)
(* of companies, months and requests, and any faults, provided lookups are *)
(* exact.  Each step of a handler is a step of the ledger or leaves the    *)
(* ledger alone.                                                           *)
(***************************************************************************)
EXTENDS FootprintSharingLedger, FootprintSharingProofs

(* No client id, month or year is the beginning of another.                *)
ExactLookup == \A s, t \in Share : Like(s, t) <=> s = t

-----------------------------------------------------------------------------
(* How the mapping moves.                                                  *)

(* A handler that moves on moves the ledger's request to its stage.        *)
LEMMA PhaseMoves ==
    ASSUME TypeOK, NEW r \in Request, NEW label \in PC, pc' = [pc EXCEPT ![r] = label]
    PROVE  phaseBar' = [phaseBar EXCEPT ![r] = PhaseOf(label)]
  BY DEF phaseBar, TypeOK

(* A step inside a stage of the handler is none of the ledger's.           *)
LEMMA PhaseStays ==
    ASSUME TypeOK, NEW r \in Request, NEW label \in PC, pc' = [pc EXCEPT ![r] = label],
           PhaseOf(label) = PhaseOf(pc[r])
    PROVE  phaseBar' = phaseBar
  BY DEF phaseBar, TypeOK

(* Grants are read off the contract definitions.                           *)
LEMMA GrantsStay == UNCHANGED contracts => UNCHANGED grantsBar
  BY DEF grantsBar

(* A contract definition made is a grant added.                            *)
LEMMA GrantMade ==
    ASSUME TypeOK, NEW r \in Request, asset[r] \in AssetId, PutContract(r)
    PROVE  grantsBar' = [grantsBar EXCEPT ![asset[r]] = share[r]]
<1> DEFINE made == [share |-> share[r], policy |-> r]
<1>1. made \in Contract /\ made # Absent /\ made.share = share[r]
  BY SentinelAssumption DEF TypeOK, Contract
<1>2. contracts' = [contracts EXCEPT ![asset[r]] = made]
  BY DEF PutContract
<1> HIDE DEF made
<1>3. QED
  BY <1>1, <1>2 DEF grantsBar, TypeOK

(* A contract definition deleted is a grant withdrawn.                     *)
LEMMA GrantGone ==
    ASSUME TypeOK, NEW id \in AssetId, contracts' = [contracts EXCEPT ![id] = Absent]
    PROVE  grantsBar' = [grantsBar EXCEPT ![id] = Absent]
  BY DEF grantsBar, TypeOK

(* A definition grants what its selector names, and lookups find grants.   *)
LEMMA GrantIsContract ==
    ASSUME TypeOK, NEW id \in AssetId
    PROVE  /\ grantsBar[id] = Absent <=> contracts[id] = Absent
           /\ contracts[id] # Absent => grantsBar[id] = contracts[id].share
  BY SentinelAssumption DEF grantsBar, TypeOK, Contract

(* An exact lookup finds the grants of the share and no others.            *)
LEMMA LookupFindsGrants ==
    ASSUME TypeOK, ExactLookup, NEW s \in Share
    PROVE  Matches(s) = Ledger!Granted(s)
<1>1. ASSUME NEW id \in AssetId
      PROVE  id \in Matches(s) <=> grantsBar[id] = s
  <2>1. CASE contracts[id] = Absent
    BY <2>1, GrantIsContract, SentinelAssumption DEF Matches
  <2>2. CASE contracts[id] # Absent
    <3>1. contracts[id].share \in Share
      BY <2>2 DEF TypeOK, Contract
    <3>2. QED
      BY <2>2, <3>1, GrantIsContract DEF Matches, ExactLookup
  <2>3. QED
    BY <2>1, <2>2
<1>2. QED
  BY <1>1 DEF Matches, Ledger!Granted

(* What a handler answers is what the ledger's request is told.            *)
LEMMA AnswerIsAnswered ==
    ASSUME TypeOK, NEW r \in Request, NEW code, Answer(r, code)
    PROVE  Ledger!Answered(r, code)
<1>1. phaseBar' = [phaseBar EXCEPT ![r] = "done"]
  BY PhaseMoves DEF Answer, PC, PhaseOf
<1>2. QED
  BY <1>1 DEF Answer, Ledger!Answered

(* The end of the process is an outage.                                    *)
LEMMA CrashIsOutage ==
    ASSUME TypeOK, Crash, UNCHANGED <<contracts, share, todo>>
    PROVE  Ledger!Outage
<1>1. \A r \in Request : r \in InFlight <=> phaseBar[r] \notin {"idle", "done"}
  BY DEF TypeOK, PC, InFlight, phaseBar, PhaseOf
<1>2. phaseBar' = [r \in Request |-> IF r \in InFlight THEN "done" ELSE phaseBar[r]]
  BY DEF Crash, TypeOK, phaseBar, PhaseOf
<1>3. InFlight = {r \in Request : phaseBar[r] \notin {"idle", "done"}}
  BY <1>1 DEF InFlight
<1>4. QED
  BY <1>2, <1>3, GrantsStay DEF Crash, Ledger!Outage

(* Where the request is, in the ledger's words.                            *)
LEMMA PhaseOfRequest ==
    ASSUME TypeOK, NEW r \in Request
    PROVE  /\ phaseBar[r] = PhaseOf(pc[r])
           /\ pc[r] = "new" => phaseBar[r] = "idle"
           /\ pc[r] \in {"check", "createAsset", "createPolicy", "createContract"} =>
                 phaseBar[r] = "share"
           /\ pc[r] = "find" => phaseBar[r] = "unshare"
           /\ pc[r] \in {"deleteContract", "blank", "deleteAsset"} =>
                 phaseBar[r] = "withdrawing"
  BY DEF phaseBar, PhaseOf

(* Initial states map to initial states.                                   *)
LEMMA LedgerInit == Init => Ledger!Init
  BY DEF Init, Ledger!Init, grantsBar, phaseBar, PhaseOf

-----------------------------------------------------------------------------
(***************************************************************************)
(* A request that works on, unseen, leaves the ledger alone; one that      *)
(* fails with the contract definitions as they were is a failure there.    *)
(***************************************************************************)
LEMMA WorkingUnseen ==
    ASSUME TypeOK, NEW r \in Request, NEW label \in PC, Goto(r, label),
           PhaseOf(label) = PhaseOf(pc[r]),
           UNCHANGED <<contracts, share, todo>>
    PROVE  UNCHANGED Ledger!vars
  BY PhaseStays, GrantsStay DEF Goto, Ledger!vars

(* A request that fails fails in the ledger.                               *)
LEMMA FailingIsFail ==
    ASSUME TypeOK, NEW r \in Request, pc[r] \notin {"new", "done"}, Answer(r, "failed"),
           UNCHANGED <<contracts, share, todo>>
    PROVE  Ledger!Fail(r)
<1>1. phaseBar[r] \in {"share", "unshare", "withdrawing"}
  BY PhaseOfRequest DEF TypeOK, PC
<1>2. QED
  BY <1>1, AnswerIsAnswered, GrantsStay DEF Ledger!Fail

(***************************************************************************)
(* The end of a round of the loop over definitions: the last one confirms, *)
(* any other goes on unseen.                                               *)
(***************************************************************************)
LEMMA NextContractIsConfirm ==
    ASSUME TypeOK, NEW r \in Request, pc[r] \in {"blank", "deleteAsset"}, NextContract(r),
           UNCHANGED <<contracts, share, todo>>
    PROVE  Ledger!Confirm(r) \/ UNCHANGED Ledger!vars
<1>1. CASE todo[r] = {} /\ Answer(r, "revoked")
  BY <1>1, PhaseOfRequest, AnswerIsAnswered, GrantsStay DEF Ledger!Confirm
<1>2. CASE Goto(r, "deleteContract")
  BY <1>2, WorkingUnseen DEF PC, PhaseOf
<1>3. QED
  BY <1>1, <1>2 DEF NextContract

(***************************************************************************)
(* One step of FootprintSharing.                                           *)
(***************************************************************************)
LEMMA LedgerStep ==
    ASSUME ExactLookup
    PROVE  ConnectorInv /\ [Next]_vars => [Ledger!Next]_(Ledger!vars)
<1> SUFFICES ASSUME ConnectorInv, [Next]_vars PROVE [Ledger!Next]_(Ledger!vars)
  OBVIOUS
<1> DEFINE Goal == [Ledger!Next]_(Ledger!vars)
<1>0. TypeOK
  BY DEF ConnectorInv
<1> USE <1>0
<1>a. \A r \in Request : share[r] \in Share /\ pc[r] \in PC /\ todo[r] \subseteq AssetId
  BY DEF TypeOK
<1>1. ASSUME NEW r \in Request, StartShare(r) PROVE Goal
  <2>1. phaseBar' = [phaseBar EXCEPT ![r] = "share"]
    BY <1>1, PhaseMoves DEF StartShare, Goto, PC, PhaseOf
  <2>2. Ledger!Ask(r)
    BY <1>1, <2>1, PhaseOfRequest, GrantsStay DEF StartShare, Goto, connector, Ledger!Ask
  <2>3. QED
    BY <2>2 DEF Ledger!Next
<1>2. ASSUME NEW r \in Request, StartUnshare(r) PROVE Goal
  <2>1. phaseBar' = [phaseBar EXCEPT ![r] = "unshare"]
    BY <1>2, PhaseMoves DEF StartUnshare, Goto, PC, PhaseOf
  <2>2. Ledger!Ask(r)
    BY <1>2, <2>1, PhaseOfRequest, GrantsStay DEF StartUnshare, Goto, connector, Ledger!Ask
  <2>3. QED
    BY <2>2 DEF Ledger!Next
<1>3. ASSUME NEW r \in Request, Reject(r) PROVE Goal
  <2>1. Ledger!Reject(r)
    BY <1>3, PhaseOfRequest, AnswerIsAnswered, GrantsStay DEF Reject, connector, Ledger!Reject
  <2>2. QED
    BY <2>1 DEF Ledger!Next
<1>4. ASSUME NEW r \in Request, ShareCheck(r) PROVE Goal
  <2>1. CASE Matches(share[r]) # {} /\ Answer(r, "alreadyShared")
    <3>1. Ledger!Granted(share[r]) # {}
      BY <2>1, <1>a, LookupFindsGrants
    <3>2. Ledger!Refuse(r)
      BY <1>4, <2>1, <3>1, PhaseOfRequest, AnswerIsAnswered, GrantsStay
         DEF ShareCheck, connector, Ledger!Refuse
    <3>3. QED
      BY <3>2 DEF Ledger!Next
  <2>2. CASE Goto(r, "createAsset")
    BY <1>4, <2>2, WorkingUnseen DEF ShareCheck, connector, PC, PhaseOf
  <2>3. QED
    BY <1>4, <2>1, <2>2 DEF ShareCheck
<1>5. ASSUME NEW r \in Request, QueryFails(r) PROVE Goal
  BY <1>5, FailingIsFail DEF QueryFails, connector, Ledger!Next
<1>6. ASSUME NEW r \in Request, CreateAsset(r) PROVE Goal
  <2>1. CASE Goto(r, "createPolicy")
    BY <1>6, <2>1, WorkingUnseen DEF CreateAsset, PC, PhaseOf
  <2>2. CASE Answer(r, "failed")
    BY <1>6, <2>2, FailingIsFail DEF CreateAsset, Ledger!Next
  <2>3. QED
    BY <1>6, <2>1, <2>2 DEF CreateAsset
<1>7. ASSUME NEW r \in Request, CreateAssetFails(r) \/ CreatePolicyFails(r) PROVE Goal
  BY <1>7, FailingIsFail DEF CreateAssetFails, CreatePolicyFails, Ledger!Next
<1>8. ASSUME NEW r \in Request, CreatePolicy(r) PROVE Goal
  BY <1>8, WorkingUnseen DEF CreatePolicy, PC, PhaseOf
<1>9. ASSUME NEW r \in Request, NEW code \in {"shared", "failed"},
             pc[r] = "createContract", PutContract(r), Answer(r, code),
             UNCHANGED <<share, todo>>
      PROVE  Goal
  <2>1. asset[r] \in AssetId /\ contracts[asset[r]] = Absent
    BY <1>9 DEF ConnectorInv, HolderInv, TypeOK, Working, Holding
  <2>2. grantsBar[asset[r]] = Absent
    BY <2>1, GrantIsContract
  <2>3. grantsBar' = [grantsBar EXCEPT ![asset[r]] = share[r]]
    BY <1>9, <2>1, GrantMade
  <2>4. Ledger!Grant(r)
    BY <1>9, <2>1, <2>2, <2>3, PhaseOfRequest, AnswerIsAnswered DEF Ledger!Grant
  <2>5. QED
    BY <2>4 DEF Ledger!Next
<1>10. ASSUME NEW r \in Request, CreateContract(r) PROVE Goal
  BY <1>9, <1>10 DEF CreateContract
<1>11. ASSUME NEW r \in Request, CreateContractFails(r) PROVE Goal
  <2>1. CASE PutContract(r)
    BY <1>9, <1>11, <2>1 DEF CreateContractFails
  <2>2. CASE UNCHANGED contracts
    BY <1>11, <2>2, FailingIsFail DEF CreateContractFails, Ledger!Next
  <2>3. QED
    BY <1>11, <2>1, <2>2 DEF CreateContractFails
<1>12. ASSUME NEW r \in Request, DetachedStep(r) PROVE Goal
  <2>1. CASE Crash
    BY <1>12, <2>1, CrashIsOutage
       DEF DetachedStep, DetachedDelete, DetachedDeleteFails, Ledger!Next
  <2>2. CASE UNCHANGED <<pc, reply>>
    BY <1>12, <2>2, GrantsStay
       DEF DetachedStep, DetachedDelete, DetachedDeleteFails, Ledger!vars, phaseBar
  <2>3. QED
    BY <1>12, <2>1, <2>2 DEF DetachedStep, DetachedDelete, DetachedDeleteFails
<1>13. ASSUME NEW r \in Request, FindContracts(r) PROVE Goal
  <2>1. todo' = [todo EXCEPT ![r] = Ledger!Granted(share[r])]
    BY <1>13, <1>a, LookupFindsGrants DEF FindContracts
  <2>2. CASE Matches(share[r]) = {} /\ Answer(r, "notFound")
    <3>1. Ledger!Find(r)
      BY <1>13, <1>a, <2>1, <2>2, LookupFindsGrants, PhaseOfRequest, AnswerIsAnswered, GrantsStay
         DEF FindContracts, connector, Ledger!Find
    <3>2. QED
      BY <3>1 DEF Ledger!Next
  <2>3. CASE Matches(share[r]) # {} /\ Goto(r, "deleteContract")
    <3>1. phaseBar' = [phaseBar EXCEPT ![r] = "withdrawing"]
      BY <2>3, PhaseMoves DEF Goto, PC, PhaseOf
    <3>2. Ledger!Find(r)
      BY <1>13, <1>a, <2>1, <2>3, <3>1, LookupFindsGrants, PhaseOfRequest, GrantsStay
         DEF FindContracts, Goto, connector, Ledger!Find
    <3>3. QED
      BY <3>2 DEF Ledger!Next
  <2>4. QED
    BY <1>13, <2>2, <2>3 DEF FindContracts
<1>14. ASSUME NEW r \in Request, DeleteContract(r) PROVE Goal
  <2>1. PICK id \in todo[r] :
          \/ /\ contracts[id] # Absent
             /\ contracts' = [contracts EXCEPT ![id] = Absent]
             /\ todo' = [todo EXCEPT ![r] = @ \ {id}]
             /\ Goto(r, "blank")
          \/ /\ Answer(r, "failed")
             /\ UNCHANGED <<contracts, todo>>
    BY <1>14 DEF DeleteContract
  <2>2. id \in AssetId
    BY <1>a
  <2>3. CASE Goto(r, "blank")
    <3>1. phaseBar' = phaseBar /\ reply' = reply
      BY <1>14, <2>3, PhaseStays DEF DeleteContract, Goto, PC, PhaseOf
    <3>2. /\ grantsBar' = [grantsBar EXCEPT ![id] = Absent]
          /\ grantsBar[id] # Absent
          /\ todo' = [todo EXCEPT ![r] = @ \ {id}]
      BY <1>14, <2>1, <2>2, <2>3, GrantGone, GrantIsContract DEF Goto, Answer, DeleteContract, TypeOK
    <3>3. Ledger!Withdraw(r)
      BY <1>14, <2>2, <3>1, <3>2, PhaseOfRequest DEF DeleteContract, Ledger!Withdraw
    <3>4. QED
      BY <3>3 DEF Ledger!Next
  <2>4. CASE Answer(r, "failed") /\ UNCHANGED <<contracts, todo>>
    BY <1>14, <2>4, FailingIsFail DEF DeleteContract, Ledger!Next
  <2>5. QED
    BY <2>1, <2>3, <2>4
<1>15. ASSUME NEW r \in Request, DeleteContractFails(r) PROVE Goal
  <2>1. PICK id \in todo[r] : contracts' \in {contracts, [contracts EXCEPT ![id] = Absent]}
    BY <1>15 DEF DeleteContractFails
  <2>2. id \in AssetId
    BY <1>a
  <2>3. CASE UNCHANGED contracts
    BY <1>15, <2>3, FailingIsFail DEF DeleteContractFails, Ledger!Next
  <2>4. CASE contracts' = [contracts EXCEPT ![id] = Absent] /\ contracts[id] # Absent
    <3>1. grantsBar' = [grantsBar EXCEPT ![id] = Absent] /\ grantsBar[id] # Absent
      BY <2>2, <2>4, GrantGone, GrantIsContract
    <3>2. Ledger!Withdraw(r)
      BY <1>15, <2>2, <3>1, PhaseOfRequest, AnswerIsAnswered
         DEF DeleteContractFails, Ledger!Withdraw
    <3>3. QED
      BY <3>2 DEF Ledger!Next
  <2>5. CASE contracts' = [contracts EXCEPT ![id] = Absent] /\ contracts[id] = Absent
    <3>1. UNCHANGED contracts
      BY <2>2, <2>5 DEF TypeOK
    <3>2. QED
      BY <2>3, <3>1
  <2>6. QED
    BY <2>1, <2>3, <2>4, <2>5
<1>16. ASSUME NEW r \in Request, BlankAsset(r) PROVE Goal
  BY <1>16, WorkingUnseen DEF BlankAsset, PC, PhaseOf
<1>17. ASSUME NEW r \in Request, BlankAssetFails(r) PROVE Goal
  BY <1>17, NextContractIsConfirm DEF BlankAssetFails, Ledger!Next
<1>18. ASSUME NEW r \in Request, DeleteAsset(r) \/ DeleteAssetFails(r) PROVE Goal
  BY <1>18, NextContractIsConfirm DEF DeleteAsset, DeleteAssetFails, Ledger!Next
<1>19. ASSUME NEW id \in AssetId, Negotiate(id) PROVE Goal
  BY <1>19, GrantsStay DEF Negotiate, Ledger!vars, phaseBar
<1>20. CASE Restart
  BY <1>20, CrashIsOutage DEF Restart, connector, Ledger!Next
<1>21. CASE UNCHANGED vars
  BY <1>21, GrantsStay DEF vars, Ledger!vars, phaseBar
<1>22. QED
  BY <1>1, <1>2, <1>3, <1>4, <1>5, <1>6, <1>7, <1>8, <1>10, <1>11, <1>12, <1>13,
     <1>14, <1>15, <1>16, <1>17, <1>18, <1>19, <1>20, <1>21
     DEF Next, Start, ShareStep, UnshareStep

(***************************************************************************)
(* The sharing API keeps the ledger's promises.                            *)
(***************************************************************************)
THEOREM SharingImplementsLedger ==
    ASSUME ExactLookup
    PROVE  Spec => ImplementsLedger
<1>1. ConnectorInv /\ [Next]_vars => [Ledger!Next]_(Ledger!vars)
  BY LedgerStep
<1>2. Spec => []ConnectorInv
  BY ConnectorInit, ConnectorStep, PTL DEF Spec
<1>3. QED
  BY LedgerInit, <1>1, <1>2, PTL DEF Spec, ImplementsLedger, Ledger!Spec

=============================================================================
