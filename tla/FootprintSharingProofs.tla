------------------------ MODULE FootprintSharingProofs ------------------------
(***************************************************************************)
(* Proofs about FootprintSharing, for every set of companies, months,      *)
(* requests, every bound and every set of calls that may fail.             *)
(***************************************************************************)
EXTENDS FootprintSharing, TLAPS

(***************************************************************************)
(* TypeOK is inductive: the connector's objects and the requests keep      *)
(* their shape.  One step per action of Next.                              *)
(***************************************************************************)
LEMMA TypeStep == TypeOK /\ [Next]_vars => TypeOK'
<1> SUFFICES ASSUME TypeOK, [Next]_vars PROVE TypeOK'
  OBVIOUS
<1> USE SentinelAssumption, BoundAssumption
<1>1. ASSUME NEW r \in Request, StartShare(r) PROVE TypeOK'
  BY <1>1 DEF TypeOK, StartShare, Goto, connector, PC, Reply, Working
<1>2. ASSUME NEW r \in Request, StartUnshare(r) PROVE TypeOK'
  BY <1>2 DEF TypeOK, StartUnshare, Goto, connector, PC, Reply, Working
<1>3. ASSUME NEW r \in Request, Reject(r) PROVE TypeOK'
  BY <1>3 DEF TypeOK, Reject, Answer, connector, PC, Reply, Working
<1>4. ASSUME NEW r \in Request, ShareCheck(r) PROVE TypeOK'
  <2>1. CASE Matches(share[r]) # {}
    BY <1>4, <2>1 DEF TypeOK, ShareCheck, Answer, connector, PC, Reply, Working
  <2>2. CASE Matches(share[r]) = {}
    <3>1. PICK now \in 0 .. MaxStamp :
            /\ clock' = now
            /\ asset' = [asset EXCEPT ![r] =
                 [month |-> share[r].month, year |-> share[r].year, stamp |-> now]]
      BY <1>4, <2>2 DEF ShareCheck
    <3>2. [month |-> share[r].month, year |-> share[r].year, stamp |-> now] \in AssetId
      <4>1. share[r] \in Share
        BY DEF TypeOK
      <4>2. QED
        BY <4>1 DEF Share, AssetId
    <3>3. /\ asset' \in [Request -> AssetId \cup {Absent}]
          /\ \A q \in Request : asset'[q] = asset[q] \/ asset'[q] \in AssetId
          /\ asset'[r] \in AssetId
      BY <3>1, <3>2 DEF TypeOK
    <3>4. pc' \in [Request -> PC] /\ \A q \in Request \ {r} : pc'[q] = pc[q]
      BY <1>4, <2>2 DEF ShareCheck, Goto, TypeOK, PC
    <3>5. QED
      BY <1>4, <2>2, <3>1, <3>3, <3>4 DEF TypeOK, ShareCheck, Goto, connector, PC, Reply, Working
  <2>3. QED
    BY <2>1, <2>2
<1>5. ASSUME NEW r \in Request, QueryFails(r) PROVE TypeOK'
  BY <1>5 DEF TypeOK, QueryFails, Fault, CanFail, Answer, connector, PC, Reply, Working
<1>6. ASSUME NEW r \in Request, CreateAsset(r) PROVE TypeOK'
  BY <1>6 DEF TypeOK, CreateAsset, Goto, Answer, PC, Reply, Working
<1>7. ASSUME NEW r \in Request, CreateAssetFails(r) PROVE TypeOK'
  BY <1>7 DEF TypeOK, CreateAssetFails, Fault, CanFail, Answer, PC, Reply, Working
<1>8. ASSUME NEW r \in Request, CreatePolicy(r) PROVE TypeOK'
  BY <1>8 DEF TypeOK, CreatePolicy, Goto, PC, Reply, Working
<1>9. ASSUME NEW r \in Request, CreatePolicyFails(r) PROVE TypeOK'
  BY <1>9 DEF TypeOK, CreatePolicyFails, Fault, CanFail, Answer, PC, Reply, Working
<1>10. ASSUME NEW r \in Request, CreateContract(r) PROVE TypeOK'
  BY <1>10 DEF TypeOK, CreateContract, PutContract, Answer, PC, Reply, Working, Contract
<1>11. ASSUME NEW r \in Request, CreateContractFails(r) PROVE TypeOK'
  BY <1>11 DEF TypeOK, CreateContractFails, PutContract, Fault, CanFail, Answer, PC, Reply, Working, Contract
<1>12. ASSUME NEW r \in Request, DetachedDelete(r) PROVE TypeOK'
  BY <1>12 DEF TypeOK, DetachedDelete, Crash, PC, Reply, Working
<1>13. ASSUME NEW r \in Request, DetachedDeleteFails(r) PROVE TypeOK'
  BY <1>13 DEF TypeOK, DetachedDeleteFails, Crash, Fault, CanFail, PC, Reply, Working
<1>14. ASSUME NEW r \in Request, FindContracts(r) PROVE TypeOK'
  BY <1>14 DEF TypeOK, FindContracts, Matches, Goto, Answer, connector, PC, Reply, Working
<1>15. ASSUME NEW r \in Request, DeleteContract(r) PROVE TypeOK'
  BY <1>15 DEF TypeOK, DeleteContract, Goto, Answer, PC, Reply, Working
<1>16. ASSUME NEW r \in Request, DeleteContractFails(r) PROVE TypeOK'
  BY <1>16 DEF TypeOK, DeleteContractFails, Fault, CanFail, Answer, PC, Reply, Working
<1>17. ASSUME NEW r \in Request, BlankAsset(r) PROVE TypeOK'
  BY <1>17 DEF TypeOK, BlankAsset, Goto, PC, Reply, Working
<1>18. ASSUME NEW r \in Request, BlankAssetFails(r) PROVE TypeOK'
  BY <1>18 DEF TypeOK, BlankAssetFails, NextContract, Goto, Answer, Fault, CanFail, PC, Reply, Working
<1>19. ASSUME NEW r \in Request, DeleteAsset(r) PROVE TypeOK'
  BY <1>19 DEF TypeOK, DeleteAsset, NextContract, Goto, Answer, PC, Reply, Working
<1>20. ASSUME NEW r \in Request, DeleteAssetFails(r) PROVE TypeOK'
  BY <1>20 DEF TypeOK, DeleteAssetFails, NextContract, Goto, Answer, Fault, CanFail, PC, Reply, Working
<1>21. ASSUME NEW id \in AssetId, Negotiate(id) PROVE TypeOK'
  BY <1>21 DEF TypeOK, Negotiate
<1>22. CASE Restart
  BY <1>22 DEF TypeOK, Restart, Crash, Fault, CanFail, connector, PC, Reply, Working
<1>23. CASE UNCHANGED vars
  BY <1>23 DEF TypeOK, vars
<1>24. QED
  BY <1>1, <1>2, <1>3, <1>4, <1>5, <1>6, <1>7, <1>8, <1>9, <1>10, <1>11, <1>12,
     <1>13, <1>14, <1>15, <1>16, <1>17, <1>18, <1>19, <1>20, <1>21, <1>22, <1>23
     DEF Next, Start, ShareStep, UnshareStep, DetachedStep

(* The initial states have the right types.                                *)
LEMMA TypeInit == Init => TypeOK
  BY SentinelAssumption, BoundAssumption DEF Init, TypeOK, PC, Reply, Working

(* The types hold in every reachable state.                                *)
THEOREM TypeCorrect == Spec => []TypeOK
  BY TypeInit, TypeStep, PTL DEF Spec

-----------------------------------------------------------------------------
(***************************************************************************)
(* The inductive invariant behind ContractBacked.  A contract definition   *)
(* and its asset are created and removed by several steps, so the          *)
(* invariant has to say who is in between: a request that holds an asset   *)
(* is the only one, and the asset is not listed meanwhile.                 *)
(***************************************************************************)

(* What a request knows of the asset it holds.                             *)
HolderInv ==
    \A r \in Request :
        /\ pc[r] \in Holding => contracts[asset[r]] = Absent
        /\ pc[r] \in {"createPolicy", "createContract"} => assets[asset[r]] = share[r]
        /\ pc[r] = "createContract" => r \in policies
        /\ pc[r] = "blank" => assets[asset[r]] \in Share
        /\ pc[r] = "deleteAsset" => assets[asset[r]] = Blank

(* No two requests hold one asset.                                         *)
ExclusiveInv ==
    \A q, r \in Request :
        pc[q] \in Holding /\ pc[r] \in Holding /\ asset[q] = asset[r] => q = r

(* Only a finished request has a rollback under way.                       *)
DetachedInv == \A r \in detached : pc[r] = "done"

ConnectorInv ==
    /\ TypeOK
    /\ ContractBacked
    /\ HolderInv
    /\ ExclusiveInv
    /\ DetachedInv

(* Nothing is shared at the start.                                         *)
LEMMA ConnectorInit == Init => ConnectorInv
  BY TypeInit DEF Init, ConnectorInv, ContractBacked, HolderInv, ExclusiveInv, DetachedInv, Holding

(* Every step keeps it.  One step per action of Next.                      *)
LEMMA ConnectorStep == ConnectorInv /\ [Next]_vars => ConnectorInv'
<1> SUFFICES ASSUME ConnectorInv, [Next]_vars PROVE ConnectorInv'
  OBVIOUS
<1> USE SentinelAssumption
<1>0. TypeOK'
  BY TypeStep DEF ConnectorInv
<1> DEFINE Rest == ContractBacked /\ HolderInv /\ ExclusiveInv /\ DetachedInv
<1> USE DEF ConnectorInv, TypeOK, ContractBacked, HolderInv, ExclusiveInv,
            DetachedInv, Working, Holding, Contract
<1>1. ASSUME NEW r \in Request, StartShare(r) PROVE Rest'
  BY <1>1, <1>0 DEF StartShare, Goto, connector
<1>2. ASSUME NEW r \in Request, StartUnshare(r) PROVE Rest'
  BY <1>2, <1>0 DEF StartUnshare, Goto, connector
<1>3. ASSUME NEW r \in Request, Reject(r) PROVE Rest'
  BY <1>3, <1>0 DEF Reject, Answer, connector
<1>4. ASSUME NEW r \in Request, ShareCheck(r) PROVE Rest'
  BY <1>4, <1>0 DEF ShareCheck, Goto, Answer, connector
<1>5. ASSUME NEW r \in Request, QueryFails(r) PROVE Rest'
  BY <1>5, <1>0 DEF QueryFails, Fault, Answer, connector
<1>6. ASSUME NEW r \in Request, CreateAsset(r) PROVE Rest'
  BY <1>6, <1>0 DEF CreateAsset, Goto, Answer, connector
<1>7. ASSUME NEW r \in Request, CreateAssetFails(r) PROVE Rest'
  BY <1>7, <1>0 DEF CreateAssetFails, Answer, connector
<1>8. ASSUME NEW r \in Request, CreatePolicy(r) PROVE Rest'
  BY <1>8, <1>0 DEF CreatePolicy, Goto, connector
<1>9. ASSUME NEW r \in Request, CreatePolicyFails(r) PROVE Rest'
  BY <1>9, <1>0 DEF CreatePolicyFails, Answer, connector
<1>10. ASSUME NEW r \in Request, CreateContract(r) PROVE Rest'
  BY <1>10, <1>0 DEF CreateContract, PutContract, Answer, connector
<1>11. ASSUME NEW r \in Request, CreateContractFails(r) PROVE Rest'
  BY <1>11, <1>0 DEF CreateContractFails, PutContract, Answer, connector
<1>12. ASSUME NEW r \in Request, DetachedDelete(r) PROVE Rest'
  BY <1>12, <1>0 DEF DetachedDelete, Crash, InFlight, InUse, connector
<1>13. ASSUME NEW r \in Request, DetachedDeleteFails(r) PROVE Rest'
  BY <1>13, <1>0 DEF DetachedDeleteFails, Crash, InFlight, InUse, connector
<1>14. ASSUME NEW r \in Request, FindContracts(r) PROVE Rest'
  BY <1>14, <1>0 DEF FindContracts, Goto, Answer, connector
<1>15. ASSUME NEW r \in Request, DeleteContract(r) PROVE Rest'
  BY <1>15, <1>0 DEF DeleteContract, Goto, Answer, connector
<1>16. ASSUME NEW r \in Request, DeleteContractFails(r) PROVE Rest'
  BY <1>16, <1>0 DEF DeleteContractFails, Answer, connector
<1>17. ASSUME NEW r \in Request, BlankAsset(r) PROVE Rest'
  BY <1>17, <1>0 DEF BlankAsset, Goto, connector
<1>18. ASSUME NEW r \in Request, BlankAssetFails(r) PROVE Rest'
  BY <1>18, <1>0 DEF BlankAssetFails, NextContract, Goto, Answer, connector
<1>19. ASSUME NEW r \in Request, DeleteAsset(r) PROVE Rest'
  BY <1>19, <1>0 DEF DeleteAsset, NextContract, Goto, Answer, connector
<1>20. ASSUME NEW r \in Request, DeleteAssetFails(r) PROVE Rest'
  BY <1>20, <1>0 DEF DeleteAssetFails, NextContract, Goto, Answer, connector
<1>21. ASSUME NEW id \in AssetId, Negotiate(id) PROVE Rest'
  BY <1>21 DEF Negotiate
<1>22. CASE Restart
  <2>1. \A r \in Request : pc'[r] \notin Holding
    BY <1>22 DEF Restart, Crash, InFlight, PC
  <2>2. UNCHANGED <<assets, contracts, policies>> /\ detached' = {}
    BY <1>22 DEF Restart, Crash, connector
  <2>3. ContractBacked'
    BY <2>2
  <2>4. HolderInv' /\ ExclusiveInv'
    BY <2>1
  <2>5. DetachedInv'
    BY <2>2
  <2>6. QED
    BY <1>0, <2>3, <2>4, <2>5
<1>23. CASE UNCHANGED vars
  BY <1>23 DEF vars
<1>24. QED
  BY <1>0, <1>1, <1>2, <1>3, <1>4, <1>5, <1>6, <1>7, <1>8, <1>9, <1>10, <1>11, <1>12, <1>13, <1>14, <1>15, <1>16, <1>17, <1>18, <1>19, <1>20, <1>21, <1>22, <1>23
     DEF Next, Start, ShareStep, UnshareStep, DetachedStep

(* ContractBacked holds in every reachable state, whatever fails.          *)
THEOREM ContractsBacked == Spec => []ContractBacked
<1>1. ConnectorInv => ContractBacked
  BY DEF ConnectorInv
<1>2. QED
  BY <1>1, ConnectorInit, ConnectorStep, PTL DEF Spec

-----------------------------------------------------------------------------
(***************************************************************************)
(* ReadableIsRevocable, when no call fails but lookups and asset deletes.  *)
(* Inductive: every live asset, readable or not, is listed or held; and no *)
(* rollback ever starts, so nothing ends the process.                      *)
(***************************************************************************)
OnlyHarmlessFaults == Faulty \subseteq {"query", "deleteAsset"}

LiveInv == \A id \in AssetId : Live(id) => contracts[id] # Absent \/ \E r \in Request : Holds(r, id)

RevocableInv ==
    /\ ConnectorInv
    /\ LiveInv
    /\ detached = {}

(* Nothing can be read at the start.                                       *)
LEMMA RevocableInit == Init => RevocableInv
  BY ConnectorInit, SentinelAssumption DEF Init, RevocableInv, LiveInv, Live

(* Every step keeps it, while only harmless calls fail.                    *)
LEMMA RevocableStep ==
    ASSUME OnlyHarmlessFaults
    PROVE  RevocableInv /\ [Next]_vars => RevocableInv'
<1> SUFFICES ASSUME RevocableInv, [Next]_vars PROVE RevocableInv'
  OBVIOUS
<1>0. ConnectorInv'
  BY ConnectorStep DEF RevocableInv
<1>1. ASSUME NEW call, CanFail(call) PROVE call \in {"query", "deleteAsset"}
  BY <1>1, OnlyHarmlessFaults DEF OnlyHarmlessFaults, CanFail
<1> DEFINE Rest == LiveInv /\ detached = {}
<1> USE SentinelAssumption
        DEF RevocableInv, ConnectorInv, TypeOK, HolderInv, ExclusiveInv, LiveInv,
            Live, Holds, Holding, Working, Contract
<1>2. ASSUME NEW r \in Request, StartShare(r) PROVE Rest'
  BY <1>2, <1>0 DEF StartShare, Goto, connector
<1>3. ASSUME NEW r \in Request, StartUnshare(r) PROVE Rest'
  BY <1>3, <1>0 DEF StartUnshare, Goto, connector
<1>4. ASSUME NEW r \in Request, Reject(r) PROVE Rest'
  BY <1>4, <1>0 DEF Reject, Answer, connector
<1>5. ASSUME NEW r \in Request, ShareCheck(r) PROVE Rest'
  BY <1>5, <1>0 DEF ShareCheck, Goto, Answer, connector
<1>6. ASSUME NEW r \in Request, QueryFails(r) PROVE Rest'
  BY <1>6, <1>0 DEF QueryFails, Fault, Answer, connector
<1>7. ASSUME NEW r \in Request, FindContracts(r) PROVE Rest'
  BY <1>7, <1>0 DEF FindContracts, Goto, Answer, connector
<1>8. ASSUME NEW r \in Request, CreateAsset(r) PROVE Rest'
  BY <1>8, <1>0 DEF CreateAsset, Goto, Answer, connector
<1>9. ASSUME NEW r \in Request, CreatePolicy(r) PROVE Rest'
  BY <1>9, <1>0 DEF CreatePolicy, Goto, connector
<1>10. ASSUME NEW r \in Request, CreateContract(r) PROVE Rest'
  BY <1>10, <1>0 DEF CreateContract, PutContract, Answer, connector
<1>11. ASSUME NEW r \in Request, DeleteContract(r) PROVE Rest'
  BY <1>11, <1>0 DEF DeleteContract, Goto, Answer, connector
<1>12. ASSUME NEW r \in Request, BlankAsset(r) PROVE Rest'
  BY <1>12, <1>0 DEF BlankAsset, Goto, connector
<1>13. ASSUME NEW r \in Request, DeleteAsset(r) PROVE Rest'
  BY <1>13, <1>0 DEF DeleteAsset, NextContract, Goto, Answer, connector
<1>14. ASSUME NEW r \in Request, DeleteAssetFails(r) PROVE Rest'
  BY <1>14, <1>0 DEF DeleteAssetFails, NextContract, Goto, Answer, connector
<1>15. ASSUME NEW r \in Request PROVE ~ CreateAssetFails(r)
  BY <1>1 DEF CreateAssetFails, Fault
<1>16. ASSUME NEW r \in Request PROVE ~ CreatePolicyFails(r)
  BY <1>1 DEF CreatePolicyFails, Fault
<1>17. ASSUME NEW r \in Request PROVE ~ CreateContractFails(r)
  BY <1>1 DEF CreateContractFails, Fault
<1>18. ASSUME NEW r \in Request PROVE ~ DeleteContractFails(r)
  BY <1>1 DEF DeleteContractFails, Fault
<1>19. ASSUME NEW r \in Request PROVE ~ BlankAssetFails(r)
  BY <1>1 DEF BlankAssetFails, Fault
<1>20. ASSUME NEW r \in Request PROVE ~ DetachedStep(r)
  BY DEF DetachedStep, DetachedDelete, DetachedDeleteFails
<1>21. ASSUME NEW id \in AssetId, Negotiate(id) PROVE Rest'
  BY <1>21 DEF Negotiate
<1>22. ~ Restart
  BY <1>1 DEF Restart, Fault
<1>23. CASE UNCHANGED vars
  BY <1>23, <1>0 DEF vars
<1>24. QED
  BY <1>0, <1>2, <1>3, <1>4, <1>5, <1>6, <1>7, <1>8, <1>9, <1>10, <1>11, <1>12, <1>13, <1>14, <1>15, <1>16, <1>17, <1>18, <1>19, <1>20, <1>21, <1>22, <1>23
     DEF Next, Start, ShareStep, UnshareStep

(* With those faults only, what can be read can be revoked.                *)
THEOREM RevocableAssets ==
    ASSUME OnlyHarmlessFaults
    PROVE  Spec => []ReadableIsRevocable
<1>1. RevocableInv => ReadableIsRevocable
  BY DEF RevocableInv, LiveInv, ReadableIsRevocable
<1>2. RevocableInv /\ [Next]_vars => RevocableInv'
  BY RevocableStep
<1>3. QED
  BY <1>1, <1>2, RevocableInit, PTL DEF Spec

-----------------------------------------------------------------------------
(***************************************************************************)
(* RevokedIsBlank, when the call that blanks an asset does not fail; any   *)
(* other call may, and the process may stop.                               *)
(***************************************************************************)
BlankingWorks == "updateAsset" \notin Faulty

RevokedInv == ConnectorInv /\ RevokedIsBlank

(* Only six steps touch an asset or the record of what is revoked.         *)
LEMMA AssetFrame ==
    [Next]_vars =>
        \/ UNCHANGED <<assets, revoked>>
        \/ \E r \in Request :
              \/ CreateAsset(r) \/ CreateAssetFails(r)
              \/ BlankAsset(r) \/ BlankAssetFails(r)
              \/ DeleteAsset(r) \/ DeleteAssetFails(r)
  BY DEF Next, vars, connector, Start, ShareStep, UnshareStep, DetachedStep,
         StartShare, StartUnshare, Reject, ShareCheck, QueryFails, CreatePolicy,
         CreatePolicyFails, CreateContract, CreateContractFails, DetachedDelete,
         DetachedDeleteFails, FindContracts, DeleteContract, DeleteContractFails,
         Negotiate, Restart

(* Every step keeps RevokedIsBlank, while blanking works.                  *)
LEMMA RevokedStep ==
    ASSUME BlankingWorks
    PROVE  RevokedInv /\ [Next]_vars => RevokedInv'
<1> SUFFICES ASSUME RevokedInv, [Next]_vars PROVE RevokedInv'
  OBVIOUS
<1>0. ConnectorInv'
  BY ConnectorStep DEF RevokedInv
<1> USE DEF RevokedInv, ConnectorInv, TypeOK, HolderInv, RevokedIsBlank, Working
<1>1. CASE UNCHANGED <<assets, revoked>>
  BY <1>0, <1>1
<1>2. ASSUME NEW r \in Request, CreateAsset(r) PROVE RevokedIsBlank'
  BY <1>2 DEF CreateAsset
<1>3. ASSUME NEW r \in Request, CreateAssetFails(r) PROVE RevokedIsBlank'
  BY <1>3 DEF CreateAssetFails
<1>4. ASSUME NEW r \in Request, BlankAsset(r) PROVE RevokedIsBlank'
  BY <1>4 DEF BlankAsset
<1>5. ASSUME NEW r \in Request PROVE ~ BlankAssetFails(r)
  BY BlankingWorks DEF BlankingWorks, BlankAssetFails, Fault, CanFail
<1>6. ASSUME NEW r \in Request, DeleteAsset(r) PROVE RevokedIsBlank'
  BY <1>6 DEF DeleteAsset, NextContract
<1>7. ASSUME NEW r \in Request, DeleteAssetFails(r) PROVE RevokedIsBlank'
  BY <1>7 DEF DeleteAssetFails, NextContract
<1>8. QED
  BY AssetFrame, <1>0, <1>1, <1>2, <1>3, <1>4, <1>5, <1>6, <1>7

(* What has been revoked gives nothing any more.                           *)
THEOREM RevokedStaysBlank ==
    ASSUME BlankingWorks
    PROVE  Spec => []RevokedIsBlank
<1>1. Init => RevokedInv
  BY ConnectorInit DEF Init, RevokedInv, RevokedIsBlank
<1>2. RevokedInv /\ [Next]_vars => RevokedInv'
  BY RevokedStep
<1>3. RevokedInv => RevokedIsBlank
  BY DEF RevokedInv
<1>4. QED
  BY <1>1, <1>2, <1>3, PTL DEF Spec

-----------------------------------------------------------------------------
(***************************************************************************)
(* What a consumer sees of a step: assets and contract definitions are     *)
(* added or removed, never both and never one put in the place of another. *)
(***************************************************************************)
OnlyAdds ==
    \A id \in AssetId :
        /\ Live(id) => assets'[id] = assets[id]
        /\ contracts[id] # Absent => contracts'[id] = contracts[id]

OnlyRemoves ==
    \A id \in AssetId :
        /\ Live(id)' => assets'[id] = assets[id]
        /\ contracts'[id] # Absent => contracts'[id] = contracts[id]

(* Every step of the provider does one or the other.                       *)
LEMMA AddsOrRemoves ==
    ASSUME ConnectorInv, [Next]_vars
    PROVE  OnlyAdds \/ OnlyRemoves
<1> USE SentinelAssumption
        DEF ConnectorInv, TypeOK, HolderInv, Working, Holding, Live, OnlyAdds, OnlyRemoves
<1>1. ASSUME NEW r \in Request, CreateAsset(r) \/ CreateAssetFails(r)
      PROVE  OnlyAdds
  BY <1>1 DEF CreateAsset, CreateAssetFails
<1>2. ASSUME NEW r \in Request, CreateContract(r) \/ CreateContractFails(r)
      PROVE  OnlyAdds
  BY <1>2 DEF CreateContract, CreateContractFails, PutContract
<1>3. ASSUME NEW r \in Request, DeleteContract(r) \/ DeleteContractFails(r)
      PROVE  OnlyRemoves
  BY <1>3 DEF DeleteContract, DeleteContractFails
<1>4. ASSUME NEW r \in Request, BlankAsset(r) \/ BlankAssetFails(r)
      PROVE  OnlyRemoves
  BY <1>4 DEF BlankAsset, BlankAssetFails
<1>5. ASSUME NEW r \in Request, DeleteAsset(r) \/ DeleteAssetFails(r)
      PROVE  OnlyRemoves
  BY <1>5 DEF DeleteAsset, DeleteAssetFails
<1>6. CASE UNCHANGED <<assets, contracts>>
  BY <1>6
<1>7. \/ UNCHANGED <<assets, contracts>>
      \/ \E r \in Request :
            \/ CreateAsset(r) \/ CreateAssetFails(r)
            \/ CreateContract(r) \/ CreateContractFails(r)
            \/ DeleteContract(r) \/ DeleteContractFails(r)
            \/ BlankAsset(r) \/ BlankAssetFails(r)
            \/ DeleteAsset(r) \/ DeleteAssetFails(r)
  BY DEF Next, vars, connector, Start, ShareStep, UnshareStep, DetachedStep,
         StartShare, StartUnshare, Reject, ShareCheck, QueryFails, CreatePolicy,
         CreatePolicyFails, DetachedDelete, DetachedDeleteFails, FindContracts,
         Negotiate, Restart
<1>8. QED
  BY <1>1, <1>2, <1>3, <1>4, <1>5, <1>6, <1>7

-----------------------------------------------------------------------------
(* The stages, as the provers read them.                                   *)
LEMMA Stages ==
    /\ Stage["new"] = 0 /\ Stage["check"] = 1 /\ Stage["createAsset"] = 2
    /\ Stage["createPolicy"] = 3 /\ Stage["createContract"] = 4 /\ Stage["find"] = 5
    /\ Stage["blank"] = 6 /\ Stage["deleteAsset"] = 7 /\ Stage["deleteContract"] = 8
    /\ Stage["done"] = 9
  BY DEF Stage

(* A request other than the one that makes a call stays where it is; the   *)
(* end of the process is the last stage of all.                            *)
Advances(r) ==
    pc'[r] # pc[r] \/ todo'[r] # todo[r] =>
        /\ \/ /\ Stage[pc[r]] < Stage[pc'[r]]
              /\ pc[r] # "find" => todo'[r] = todo[r]
           \/ todo'[r] \subseteq todo[r] /\ todo'[r] # todo[r]
        /\ pc'[r] = "deleteContract" => todo'[r] # {}

(* Each call of a handler advances it.  One step per action of Next.       *)
LEMMA AdvanceStep ==
    ASSUME TypeOK, [Next]_vars, NEW r \in Request
    PROVE  Advances(r)
<1> USE Stages DEF TypeOK, Advances
<1>1. ASSUME NEW q \in Request, Start(q) PROVE Advances(r)
  BY <1>1 DEF Start, StartShare, StartUnshare, Reject, Goto, Answer
<1>2. ASSUME NEW q \in Request, ShareCheck(q) \/ QueryFails(q) PROVE Advances(r)
  BY <1>2 DEF ShareCheck, QueryFails, Goto, Answer
<1>3. ASSUME NEW q \in Request, CreateAsset(q) \/ CreateAssetFails(q) PROVE Advances(r)
  BY <1>3 DEF CreateAsset, CreateAssetFails, Goto, Answer
<1>4. ASSUME NEW q \in Request, CreatePolicy(q) \/ CreatePolicyFails(q) PROVE Advances(r)
  BY <1>4 DEF CreatePolicy, CreatePolicyFails, Goto, Answer
<1>5. ASSUME NEW q \in Request, CreateContract(q) \/ CreateContractFails(q)
      PROVE  Advances(r)
  BY <1>5 DEF CreateContract, CreateContractFails, Answer
<1>6. ASSUME Crash, UNCHANGED todo PROVE Advances(r)
  <2>1. pc[r] \in PC \ {"done"} => Stage[pc[r]] < 9
    BY DEF PC
  <2>2. QED
    BY <1>6, <2>1 DEF Crash, InFlight
<1>7. ASSUME NEW q \in Request, DetachedStep(q) PROVE Advances(r)
  BY <1>6, <1>7 DEF DetachedStep, DetachedDelete, DetachedDeleteFails
<1>8. ASSUME NEW q \in Request, FindContracts(q) PROVE Advances(r)
  BY <1>8 DEF FindContracts, Goto, Answer
<1>9. ASSUME NEW q \in Request, DeleteContract(q) \/ DeleteContractFails(q)
      PROVE  Advances(r)
  BY <1>9 DEF DeleteContract, DeleteContractFails, Goto, Answer
<1>10. ASSUME NEW q \in Request, BlankAsset(q) PROVE Advances(r)
  BY <1>10 DEF BlankAsset, Goto
<1>11. ASSUME NEW q \in Request, pc[q] \in {"blank", "deleteAsset"}, NextContract(q),
              UNCHANGED todo
       PROVE  Advances(r)
  BY <1>11 DEF NextContract, Goto, Answer
<1>12. ASSUME NEW q \in Request, BlankAssetFails(q) \/ DeleteAsset(q) \/ DeleteAssetFails(q)
       PROVE  Advances(r)
  BY <1>11, <1>12 DEF BlankAssetFails, DeleteAsset, DeleteAssetFails
<1>13. ASSUME NEW id \in AssetId, Negotiate(id) PROVE Advances(r)
  BY <1>13 DEF Negotiate
<1>14. CASE Restart
  BY <1>6, <1>14 DEF Restart
<1>15. CASE UNCHANGED vars
  BY <1>15 DEF vars
<1>16. QED
  BY <1>1, <1>2, <1>3, <1>4, <1>5, <1>7, <1>8, <1>9, <1>10, <1>12, <1>13, <1>14, <1>15
     DEF Next, ShareStep, UnshareStep

(* No handler goes in circles, whatever fails.                             *)
THEOREM NoHandlerCircles == Spec => HandlersAdvance
<1>1. TypeOK /\ [Next]_vars => \A r \in Request : Advances(r)
  BY AdvanceStep
<1>2. TypeOK /\ [Next]_vars =>
        [\A r \in Request : pc'[r] # pc[r] \/ todo'[r] # todo[r] =>
           /\ \/ /\ Stage[pc[r]] < Stage[pc'[r]]
                 /\ pc[r] # "find" => todo'[r] = todo[r]
              \/ todo'[r] \subseteq todo[r] /\ todo'[r] # todo[r]
           /\ pc'[r] = "deleteContract" => todo'[r] # {}]_vars
  BY <1>1 DEF Advances
<1>3. QED
  BY <1>2, TypeInit, TypeStep, PTL DEF Spec, HandlersAdvance

=============================================================================
