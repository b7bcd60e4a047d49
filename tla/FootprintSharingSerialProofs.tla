--------------------- MODULE FootprintSharingSerialProofs ---------------------
(***************************************************************************)
(* Proofs about FootprintSharing when requests do not overlap.  Two runs   *)
(* show what the code does not keep: concurrent shares make two contract   *)
(* definitions of one month, an unshare takes the definition of another    *)
(* month.  Here is that nothing else breaks these properties: they hold,   *)
(* for any faults and crashes, if requests come one at a time, the second  *)
(* with exact lookups.                                                     *)
(***************************************************************************)
EXTENDS FootprintSharingLedgerProofs, FiniteSetTheorems

OneAtATime == MaxInFlight = 1

(* A lookup finds at least what it looks for.                              *)
LookupFindsOwn == \A s \in Share : Like(s, s)

AtMostOne == \A q, r \in InFlight : q = r

(* A share that has passed its check is still the first of its kind.       *)
FirstOfItsKind ==
    \A r \in Request : pc[r] \in {"createAsset", "createPolicy", "createContract"} =>
        \A id \in AssetId : contracts[id] # Absent => contracts[id].share # share[r]

(* What an unshare has still to delete is its own.                         *)
TodoIsOwn ==
    \A r \in Request : pc[r] \in {"deleteContract", "blank", "deleteAsset"} =>
        \A id \in todo[r] : contracts[id] # Absent => contracts[id].share = share[r]

SerialInv == TypeOK /\ AtMostOne /\ FirstOfItsKind /\ OneContractPerShare

-----------------------------------------------------------------------------
(* Only four steps touch a contract definition.                            *)
LEMMA ContractFrame ==
    [Next]_vars =>
        \/ UNCHANGED contracts
        \/ \E r \in Request :
              \/ CreateContract(r) \/ CreateContractFails(r)
              \/ DeleteContract(r) \/ DeleteContractFails(r)
  BY DEF Next, vars, connector, Start, ShareStep, UnshareStep, DetachedStep,
         StartShare, StartUnshare, Reject, ShareCheck, QueryFails, CreateAsset,
         CreateAssetFails, CreatePolicy, CreatePolicyFails, DetachedDelete,
         DetachedDeleteFails, FindContracts, BlankAsset, BlankAssetFails, DeleteAsset,
         DeleteAssetFails, Negotiate, Restart

(* What a request is about never changes.                                  *)
LEMMA ShareStays == [Next]_vars => UNCHANGED share
  BY DEF Next, vars, connector, Start, ShareStep, UnshareStep, DetachedStep,
         StartShare, StartUnshare, Reject, ShareCheck, QueryFails, CreateAsset,
         CreateAssetFails, CreatePolicy, CreatePolicyFails, CreateContract,
         CreateContractFails, DetachedDelete, DetachedDeleteFails, FindContracts,
         DeleteContract, DeleteContractFails, BlankAsset, BlankAssetFails, DeleteAsset,
         DeleteAssetFails, Negotiate, Restart

(* A handler gets to a stage from the one before, or has been there.       *)
LEMMA StageFrame ==
    ASSUME TypeOK, [Next]_vars, NEW r \in Request
    PROVE  /\ pc'[r] \in {"createAsset", "createPolicy", "createContract"} =>
                 \/ pc[r] \in {"createAsset", "createPolicy", "createContract"}
                 \/ Matches(share[r]) = {} /\ UNCHANGED contracts
           /\ pc'[r] \in {"deleteContract", "blank", "deleteAsset"} =>
                 \/ /\ pc[r] \in {"deleteContract", "blank", "deleteAsset"}
                    /\ todo'[r] \subseteq todo[r]
                 \/ todo'[r] = Matches(share[r]) /\ UNCHANGED contracts
           /\ r \in InFlight' =>
                 \/ r \in InFlight
                 \/ /\ Cardinality(InFlight) < MaxInFlight
                    /\ \A q \in Request \ {r} : pc'[q] = pc[q]
<1> DEFINE Goal ==
           /\ pc'[r] \in {"createAsset", "createPolicy", "createContract"} =>
                 \/ pc[r] \in {"createAsset", "createPolicy", "createContract"}
                 \/ Matches(share[r]) = {} /\ UNCHANGED contracts
           /\ pc'[r] \in {"deleteContract", "blank", "deleteAsset"} =>
                 \/ /\ pc[r] \in {"deleteContract", "blank", "deleteAsset"}
                    /\ todo'[r] \subseteq todo[r]
                 \/ todo'[r] = Matches(share[r]) /\ UNCHANGED contracts
           /\ r \in InFlight' =>
                 \/ r \in InFlight
                 \/ /\ Cardinality(InFlight) < MaxInFlight
                    /\ \A q \in Request \ {r} : pc'[q] = pc[q]
<1> USE DEF TypeOK, InFlight
<1>1. ASSUME NEW q \in Request, Start(q) PROVE Goal
  BY <1>1 DEF Start, StartShare, StartUnshare, Reject, Goto, Answer
<1>2. ASSUME NEW q \in Request, ShareCheck(q) \/ QueryFails(q) PROVE Goal
  BY <1>2 DEF ShareCheck, QueryFails, Goto, Answer, connector
<1>3. ASSUME NEW q \in Request, CreateAsset(q) \/ CreateAssetFails(q) PROVE Goal
  BY <1>3 DEF CreateAsset, CreateAssetFails, Goto, Answer
<1>4. ASSUME NEW q \in Request, CreatePolicy(q) \/ CreatePolicyFails(q) PROVE Goal
  BY <1>4 DEF CreatePolicy, CreatePolicyFails, Goto, Answer
<1>5. ASSUME NEW q \in Request, CreateContract(q) \/ CreateContractFails(q) PROVE Goal
  BY <1>5 DEF CreateContract, CreateContractFails, Answer
<1>6. ASSUME Crash, UNCHANGED todo PROVE Goal
  BY <1>6 DEF Crash
<1>7. ASSUME NEW q \in Request, DetachedStep(q) PROVE Goal
  BY <1>6, <1>7 DEF DetachedStep, DetachedDelete, DetachedDeleteFails
<1>8. ASSUME NEW q \in Request, FindContracts(q) PROVE Goal
  BY <1>8 DEF FindContracts, Goto, Answer, connector
<1>9. ASSUME NEW q \in Request, DeleteContract(q) \/ DeleteContractFails(q) PROVE Goal
  BY <1>9 DEF DeleteContract, DeleteContractFails, Goto, Answer
<1>10. ASSUME NEW q \in Request, BlankAsset(q) PROVE Goal
  BY <1>10 DEF BlankAsset, Goto
<1>11. ASSUME NEW q \in Request,
              BlankAssetFails(q) \/ DeleteAsset(q) \/ DeleteAssetFails(q)
       PROVE  Goal
  BY <1>11 DEF BlankAssetFails, DeleteAsset, DeleteAssetFails, NextContract, Goto, Answer
<1>12. ASSUME NEW id \in AssetId, Negotiate(id) PROVE Goal
  BY <1>12 DEF Negotiate
<1>13. CASE Restart
  BY <1>6, <1>13 DEF Restart
<1>14. CASE UNCHANGED vars
  BY <1>14 DEF vars
<1>15. QED
  BY <1>1, <1>2, <1>3, <1>4, <1>5, <1>7, <1>8, <1>9, <1>10, <1>11, <1>12, <1>13, <1>14
     DEF Next, ShareStep, UnshareStep

(* Requests taken up one at a time do not overlap.                         *)
LEMMA NoOverlap ==
    ASSUME OneAtATime, TypeOK, AtMostOne, [Next]_vars
    PROVE  AtMostOne'
<1>1. Cardinality(InFlight) < 1 => InFlight = {}
  <2>1. PICK S : IsFiniteSet(S) /\ InFlight \subseteq S
    <3>1. CASE InFlight = {}
      BY <3>1, FS_EmptySet
    <3>2. ASSUME NEW r \in InFlight PROVE InFlight \subseteq {r} /\ IsFiniteSet({r})
      BY FS_Singleton DEF AtMostOne
    <3>3. QED
      BY <3>1, <3>2
  <2>2. IsFiniteSet(InFlight) /\ Cardinality(InFlight) \in Nat
    BY <2>1, FS_Subset, FS_CardinalityType
  <2>3. QED
    BY <2>2, FS_EmptySet
<1>2. CASE InFlight' \subseteq InFlight
  BY <1>2 DEF AtMostOne
<1>3. ASSUME NEW r \in InFlight' \ InFlight PROVE AtMostOne'
  <2>1. InFlight = {}
    BY <1>1, <1>3, StageFrame DEF OneAtATime, InFlight
  <2>2. \A q \in Request \ {r} : pc'[q] = pc[q]
    BY <1>3, StageFrame DEF InFlight
  <2>3. QED
    BY <2>1, <2>2 DEF AtMostOne, InFlight
<1>4. QED
  BY <1>2, <1>3

-----------------------------------------------------------------------------
(* A definition is made by the request in flight, which has checked.       *)
LEMMA SerialStep ==
    ASSUME OneAtATime, LookupFindsOwn
    PROVE  SerialInv /\ [Next]_vars => SerialInv'
<1> SUFFICES ASSUME SerialInv, [Next]_vars PROVE SerialInv'
  OBVIOUS
<1>0. TypeOK' /\ AtMostOne' /\ UNCHANGED share
  BY TypeStep, NoOverlap, ShareStays DEF SerialInv
<1>1. FirstOfItsKind'
  <2> SUFFICES ASSUME NEW r \in Request,
                      pc'[r] \in {"createAsset", "createPolicy", "createContract"},
                      NEW id \in AssetId, contracts'[id] # Absent
               PROVE  contracts'[id].share # share[r]
    BY <1>0 DEF FirstOfItsKind
  <2>1. CASE Matches(share[r]) = {} /\ UNCHANGED contracts
    BY <2>1, LookupFindsOwn DEF Matches, LookupFindsOwn, SerialInv, TypeOK
  <2>2. CASE pc[r] \in {"createAsset", "createPolicy", "createContract"}
    <3>1. ASSUME NEW q \in Request,
                 \/ CreateContract(q) \/ CreateContractFails(q)
                 \/ DeleteContract(q) \/ DeleteContractFails(q)
          PROVE  FALSE
      <4>1. q \in InFlight /\ r \in InFlight
        BY <2>2, <3>1
           DEF InFlight, CreateContract, CreateContractFails, DeleteContract, DeleteContractFails
      <4>2. q = r
        BY <4>1 DEF SerialInv, AtMostOne
      <4>3. QED
        BY <2>2, <3>1, <4>2
           DEF CreateContract, CreateContractFails, DeleteContract, DeleteContractFails,
               Answer, SerialInv, TypeOK
    <3>2. UNCHANGED contracts
      BY <3>1, ContractFrame
    <3>3. QED
      BY <2>2, <3>2 DEF SerialInv, FirstOfItsKind
  <2>3. QED
    BY <2>1, <2>2, StageFrame DEF SerialInv
<1>2. OneContractPerShare'
  <2>1. CASE UNCHANGED contracts
    BY <2>1 DEF SerialInv, OneContractPerShare
  <2>2. ASSUME NEW r \in Request, pc[r] = "createContract", PutContract(r)
        PROVE  OneContractPerShare'
    <3>1. /\ asset[r] \in AssetId
          /\ contracts' = [contracts EXCEPT ![asset[r]] =
                              [share |-> share[r], policy |-> r]]
      BY <2>2 DEF PutContract, SerialInv, TypeOK, Working
    <3>2. \A id \in AssetId : contracts[id] # Absent => contracts[id].share # share[r]
      BY <2>2 DEF SerialInv, FirstOfItsKind
    <3>3. QED
      BY <3>1, <3>2 DEF OneContractPerShare, SerialInv, TypeOK
  <2>3. ASSUME NEW r \in Request, CreateContract(r) \/ CreateContractFails(r)
        PROVE  OneContractPerShare'
    BY <2>1, <2>2, <2>3 DEF CreateContract, CreateContractFails
  <2>4. ASSUME NEW r \in Request, DeleteContract(r) \/ DeleteContractFails(r)
        PROVE  OneContractPerShare'
    <3>1. \A id \in AssetId : contracts'[id] \in {contracts[id], Absent}
      BY <2>4 DEF DeleteContract, DeleteContractFails, SerialInv, TypeOK
    <3>2. QED
      BY <3>1 DEF SerialInv, OneContractPerShare
  <2>5. QED
    BY <2>1, <2>3, <2>4, ContractFrame
<1>3. QED
  BY <1>0, <1>1, <1>2 DEF SerialInv

(* Nothing is in flight or shared at the start.                            *)
LEMMA SerialInit == Init => SerialInv
  BY TypeInit
     DEF Init, SerialInv, AtMostOne, InFlight, FirstOfItsKind, OneContractPerShare

(***************************************************************************)
(* A month is shared with a company once, if requests come one at a time:  *)
(* whatever fails, the definition whose creation failed with effect        *)
(* included, the next share finds what is there.                           *)
(***************************************************************************)
THEOREM SerialSharesOnce ==
    ASSUME OneAtATime, LookupFindsOwn
    PROVE  Spec => []OneContractPerShare
<1>1. SerialInv => OneContractPerShare
  BY DEF SerialInv
<1>2. SerialInv /\ [Next]_vars => SerialInv'
  BY SerialStep
<1>3. QED
  BY <1>1, <1>2, SerialInit, PTL DEF Spec

-----------------------------------------------------------------------------
UnshareInv == TypeOK /\ AtMostOne /\ TodoIsOwn

(* What an exact lookup found is still the request's own or is gone.       *)
LEMMA UnshareInvStep ==
    ASSUME OneAtATime, ExactLookup
    PROVE  UnshareInv /\ [Next]_vars => UnshareInv'
<1> SUFFICES ASSUME UnshareInv, [Next]_vars PROVE UnshareInv'
  OBVIOUS
<1>0. TypeOK' /\ AtMostOne' /\ UNCHANGED share
  BY TypeStep, NoOverlap, ShareStays DEF UnshareInv
<1>1. TodoIsOwn'
  <2> SUFFICES ASSUME NEW r \in Request,
                      pc'[r] \in {"deleteContract", "blank", "deleteAsset"},
                      NEW id \in todo'[r], contracts'[id] # Absent
               PROVE  contracts'[id].share = share[r]
    BY <1>0 DEF TodoIsOwn
  <2>1. CASE todo'[r] = Matches(share[r]) /\ UNCHANGED contracts
    <3>1. id \in AssetId /\ contracts[id] # Absent /\ Like(share[r], contracts[id].share)
      BY <2>1 DEF Matches
    <3>2. contracts[id].share \in Share /\ share[r] \in Share
      BY <3>1 DEF UnshareInv, TypeOK, Contract
    <3>3. QED
      BY <2>1, <3>1, <3>2, ExactLookup DEF ExactLookup
  <2>2. CASE /\ pc[r] \in {"deleteContract", "blank", "deleteAsset"}
             /\ todo'[r] \subseteq todo[r]
    <3>0. id \in todo[r] /\ id \in AssetId
      BY <2>2 DEF UnshareInv, TypeOK
    <3>1. CASE UNCHANGED contracts
      BY <2>2, <3>0, <3>1 DEF UnshareInv, TodoIsOwn
    <3>2. ASSUME NEW q \in Request, CreateContract(q) \/ CreateContractFails(q)
          PROVE  FALSE
      <4>1. q \in InFlight /\ r \in InFlight /\ pc[q] = "createContract"
        BY <2>2, <3>2 DEF InFlight, CreateContract, CreateContractFails
      <4>2. QED
        BY <2>2, <4>1 DEF UnshareInv, AtMostOne
    <3>3. ASSUME NEW q \in Request, DeleteContract(q) \/ DeleteContractFails(q)
          PROVE  contracts'[id] \in {contracts[id], Absent}
      BY <3>0, <3>3 DEF DeleteContract, DeleteContractFails, UnshareInv, TypeOK
    <3>4. contracts'[id] = contracts[id]
      BY <3>1, <3>2, <3>3, ContractFrame
    <3>5. QED
      BY <2>2, <3>0, <3>4 DEF UnshareInv, TodoIsOwn
  <2>3. QED
    BY <2>1, <2>2, StageFrame DEF UnshareInv
<1>2. QED
  BY <1>0, <1>1 DEF UnshareInv

(***************************************************************************)
(* An unshare deletes the definitions of its own company and month only,   *)
(* if lookups are exact and requests come one at a time.  (The second is   *)
(* needed too: between the lookup and the delete, two other requests could *)
(* take a definition away and put one of another company under its id.)    *)
(***************************************************************************)
THEOREM SerialUnsharesOwn ==
    ASSUME OneAtATime, ExactLookup
    PROVE  Spec => UnshareOnlyTarget
<1>1. Init => UnshareInv
  BY TypeInit DEF Init, UnshareInv, AtMostOne, InFlight, TodoIsOwn
<1>2. UnshareInv /\ [Next]_vars => UnshareInv'
  BY UnshareInvStep
<1>3. UnshareInv /\ [Next]_vars =>
        [\A id \in AssetId :
           contracts[id] # Absent /\ contracts'[id] = Absent =>
             \E r \in Request :
               pc[r] = "deleteContract" /\ share[r] = contracts[id].share]_vars
  <2> SUFFICES ASSUME UnshareInv, [Next]_vars, NEW id \in AssetId,
                      contracts[id] # Absent, contracts'[id] = Absent
               PROVE  \E r \in Request :
                        pc[r] = "deleteContract" /\ share[r] = contracts[id].share
    OBVIOUS
  <2>1. ASSUME NEW r \in Request, CreateContract(r) \/ CreateContractFails(r)
        PROVE  FALSE
    BY <2>1, SentinelAssumption
       DEF CreateContract, CreateContractFails, PutContract, UnshareInv, TypeOK, Contract
  <2>2. ASSUME NEW r \in Request, DeleteContract(r) \/ DeleteContractFails(r)
        PROVE  pc[r] = "deleteContract" /\ share[r] = contracts[id].share
    <3>1. pc[r] = "deleteContract" /\ id \in todo[r]
      BY <2>2 DEF DeleteContract, DeleteContractFails, UnshareInv, TypeOK
    <3>2. QED
      BY <3>1 DEF UnshareInv, TodoIsOwn
  <2>3. QED
    BY <2>1, <2>2, ContractFrame
<1>4. QED
  BY <1>1, <1>2, <1>3, PTL DEF Spec, UnshareOnlyTarget

===============================================================================
