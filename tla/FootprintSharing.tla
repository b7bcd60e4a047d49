-------------------------- MODULE FootprintSharing --------------------------
(***************************************************************************)
(* The provider side of the SFC backend: the handlers of POST and DELETE   *)
(* /emissions (share and unshare a month of footprints with a company),    *)
(* running concurrently over the provider's own EDC connector.             *)
(*                                                                         *)
(* Sharing is a sequence of connector calls: look for a contract           *)
(* definition, create an asset, a policy and a contract definition.        *)
(* Unsharing looks contract definitions up and, for each, deletes it,      *)
(* blanks its asset and deletes the asset.  Node runs one handler at a     *)
(* time but switches at every await, so each call is one action.           *)
(*                                                                         *)
(* Reads done before the first connector call (body validation, fetching   *)
(* and verifying the data source, the company lookups) change nothing: a   *)
(* request that fails there is Reject, one that passes starts here.        *)
(***************************************************************************)
EXTENDS Integers, FiniteSets

CONSTANTS
    Consumer,      \* companies the provider can share with
    IdPrefix,      \* <<c, d>>: the client id of c is a prefix of the id of d
    Month, Year,
    Request,       \* HTTP requests, each used once
    MaxInFlight,   \* requests handled at a time (bound)
    MaxStamp,      \* milliseconds the clock runs for (bound)
    Faulty,        \* the connector calls that may fail, and "process"
    MaxFaults,     \* faults in a behaviour (bound)
    Absent,        \* no such object
    Blank          \* an asset whose properties and address are overwritten

(***************************************************************************)
(* What is shared: the selector of a contract definition and the           *)
(* properties of an asset, the provider (owner) being fixed.               *)
(***************************************************************************)
Share == [consumer : Consumer, month : Month, year : Year]

(***************************************************************************)
(* The asset id is `${month}-${year}_$${+now}`: no company in it.  The     *)
(* contract definition of a share has the id of its asset.  A policy is    *)
(* named by the request that creates it.                                   *)
(***************************************************************************)
AssetId == [month : Month, year : Year, stamp : 0 .. MaxStamp]
Contract == [share : Share, policy : Request]

Call == {"query", "createAsset", "createPolicy", "createContract",
         "deleteContract", "updateAsset", "deleteAsset", "deletePolicy",
         "process"}

ASSUME SentinelAssumption ==
    /\ Absent \notin Share \cup AssetId \cup Contract
    /\ Blank \notin Share
    /\ Absent # Blank

ASSUME BoundAssumption ==
    /\ Month \subseteq 1 .. 12
    /\ Year \subseteq Nat
    /\ MaxStamp \in Nat
    /\ MaxFaults \in Nat
    /\ MaxInFlight \in Nat
    /\ Faulty \subseteq Call

VARIABLES
    assets,      \* AssetId -> Share, Blank or Absent
    contracts,   \* AssetId -> Contract or Absent
    policies,    \* policies that exist
    agreements,  \* assets a consumer has a contract agreement for
    clock,       \* the wall clock, in milliseconds
    pc,          \* where the handler of each request is
    share,       \* what each request is about
    asset,       \* the asset a request is working on
    todo,        \* contract definitions an unshare still has to delete
    reply,       \* what each request was answered
    detached,    \* requests whose rollback has an un-awaited deletePolicy
    faults,      \* faults so far
    revoked      \* history: assets an unshare is done with, not made anew

connector == <<assets, contracts, policies, agreements>>
vars == <<assets, contracts, policies, agreements, clock, pc, share, asset,
          todo, reply, detached, faults, revoked>>

PC == {"new", "check", "createAsset", "createPolicy", "createContract",
       "find", "deleteContract", "blank", "deleteAsset", "done"}
Working == {"createAsset", "createPolicy", "createContract", "blank", "deleteAsset"}
Holding == {"createPolicy", "createContract", "blank", "deleteAsset"}
Reply == {"none", "shared", "revoked", "alreadyShared", "notFound",
          "rejected", "failed", "reset"}

Init ==
    /\ assets = [id \in AssetId |-> Absent]
    /\ contracts = [id \in AssetId |-> Absent]
    /\ policies = {}
    /\ agreements = {}
    /\ clock = 0
    /\ pc = [r \in Request |-> "new"]
    /\ share \in [Request -> Share]
    /\ asset = [r \in Request |-> Absent]
    /\ todo = [r \in Request |-> {}]
    /\ reply = [r \in Request |-> "none"]
    /\ detached = {}
    /\ faults = 0
    /\ revoked = {}

-----------------------------------------------------------------------------
(* What the connector holds.                                               *)

(* The text of m is a prefix of the text of n: months 1 and 10, 11, 12.    *)
DecimalPrefix(m, n) == \E k \in 0 .. 4 : m = n \div (10 ^ k)

(***************************************************************************)
(* The lookup filters with LIKE '%month' SFCEQEQ m '%' on the text         *)
(* "owner...o,month...m,year...y,sharedWith...c": each value is matched as *)
(* a prefix of what is stored.                                             *)
(***************************************************************************)
Like(wanted, stored) ==
    /\ <<wanted.consumer, stored.consumer>> \in IdPrefix
    /\ DecimalPrefix(wanted.month, stored.month)
    /\ DecimalPrefix(wanted.year, stored.year)

Matches(s) ==
    {id \in AssetId : contracts[id] # Absent /\ Like(s, contracts[id].share)}

Live(id) == assets[id] \in Share

(* A contract definition offers every asset its selector matches.          *)
Offered(id) ==
    /\ Live(id)
    /\ \E c \in AssetId : contracts[c] # Absent /\ contracts[c].share = assets[id]

InUse(policy) ==
    \E id \in AssetId : contracts[id] # Absent /\ contracts[id].policy = policy

InFlight == {r \in Request : pc[r] \notin {"new", "done"}}

-----------------------------------------------------------------------------
(* Steps shared by the handlers.                                           *)

CanFail(call) == call \in Faulty /\ faults < MaxFaults
Fault(call) == CanFail(call) /\ faults' = faults + 1

Goto(r, label) ==
    /\ pc' = [pc EXCEPT ![r] = label]
    /\ UNCHANGED reply

Answer(r, code) ==
    /\ pc' = [pc EXCEPT ![r] = "done"]
    /\ reply' = [reply EXCEPT ![r] = code]

(* The process dies: requests in flight are cut off, detached calls lost.  *)
Crash ==
    /\ pc' = [r \in Request |-> IF r \in InFlight THEN "done" ELSE pc[r]]
    /\ reply' = [r \in Request |-> IF r \in InFlight THEN "reset" ELSE reply[r]]
    /\ detached' = {}

-----------------------------------------------------------------------------
(* Sharing.                                                                *)

StartShare(r) ==
    /\ pc[r] = "new"
    /\ Cardinality(InFlight) < MaxInFlight
    /\ Goto(r, "check")
    /\ UNCHANGED <<connector, clock, share, asset, todo, detached, faults, revoked>>

Reject(r) ==
    /\ pc[r] = "new"
    /\ Answer(r, "rejected")
    /\ UNCHANGED <<connector, clock, share, asset, todo, detached, faults, revoked>>

(***************************************************************************)
(* ensureFootprintHasNotBeenShared, then the asset id is stamped with the  *)
(* time, without an await in between.  A share and an unshare take a dozen *)
(* calls: the millisecond an asset was stamped in is over when it has been *)
(* unshared.                                                               *)
(***************************************************************************)
ShareCheck(r) ==
    /\ pc[r] = "check"
    /\ \/ /\ Matches(share[r]) # {}
          /\ Answer(r, "alreadyShared")
          /\ UNCHANGED <<asset, clock>>
       \/ /\ Matches(share[r]) = {}
          /\ \E now \in {clock, clock + 1} \cap (0 .. MaxStamp) :
                /\ \A id \in revoked : id.stamp < now
                /\ clock' = now
                /\ asset' = [asset EXCEPT ![r] =
                     [month |-> share[r].month, year |-> share[r].year, stamp |-> now]]
          /\ Goto(r, "createAsset")
    /\ UNCHANGED <<connector, share, todo, detached, faults, revoked>>

QueryFails(r) ==
    /\ pc[r] \in {"check", "find"}
    /\ Fault("query")
    /\ Answer(r, "failed")
    /\ UNCHANGED <<connector, clock, share, asset, todo, detached, revoked>>

(* Mutant: an id that is taken is taken over.                              *)
OverwriteAsset(r) ==
    /\ pc[r] = "createAsset"
    /\ assets' = [assets EXCEPT ![asset[r]] = share[r]]
    /\ Goto(r, "createPolicy")
    /\ UNCHANGED <<contracts, policies, agreements, clock, share, asset, todo,
                   detached, faults, revoked>>

(* An id that is taken (two shares in one millisecond) is refused.         *)
CreateAsset(r) ==
    /\ pc[r] = "createAsset"
    /\ \/ /\ assets[asset[r]] = Absent
          /\ assets' = [assets EXCEPT ![asset[r]] = share[r]]
          /\ revoked' = revoked \ {asset[r]}
          /\ Goto(r, "createPolicy")
       \/ /\ assets[asset[r]] # Absent
          /\ Answer(r, "failed")
          /\ UNCHANGED <<assets, revoked>>
    /\ UNCHANGED <<contracts, policies, agreements, clock, share, asset, todo,
                   detached, faults>>

(* The asset may have been created all the same; rollback leaves it.       *)
CreateAssetFails(r) ==
    /\ pc[r] = "createAsset"
    /\ Fault("createAsset")
    /\ \/ UNCHANGED <<assets, revoked>>
       \/ /\ assets[asset[r]] = Absent
          /\ assets' = [assets EXCEPT ![asset[r]] = share[r]]
          /\ revoked' = revoked \ {asset[r]}
    /\ Answer(r, "failed")
    /\ UNCHANGED <<contracts, policies, agreements, clock, share, asset, todo,
                   detached>>

CreatePolicy(r) ==
    /\ pc[r] = "createPolicy"
    /\ policies' = policies \cup {r}
    /\ Goto(r, "createContract")
    /\ UNCHANGED <<assets, contracts, agreements, clock, share, asset, todo,
                   detached, faults, revoked>>

(* rollback tests results.newId, never set: the asset stays.               *)
CreatePolicyFails(r) ==
    /\ pc[r] = "createPolicy"
    /\ Fault("createPolicy")
    /\ policies' \in {policies, policies \cup {r}}
    /\ Answer(r, "failed")
    /\ UNCHANGED <<assets, contracts, agreements, clock, share, asset, todo,
                   detached, revoked>>

(* Mutant: the policy id is read from an answer that does not have one.    *)
PutContractUnguarded(r) ==
    contracts' = [contracts EXCEPT ![asset[r]] = [share |-> share[r], policy |-> Absent]]

(* The selector names the share, not the asset.                            *)
PutContract(r) ==
    contracts' = [contracts EXCEPT ![asset[r]] = [share |-> share[r], policy |-> r]]

CreateContract(r) ==
    /\ pc[r] = "createContract"
    /\ PutContract(r)
    /\ Answer(r, "shared")
    /\ UNCHANGED <<assets, policies, agreements, clock, share, asset, todo,
                   detached, faults, revoked>>

(* rollback starts deletePolicy and does not wait for it.                  *)
CreateContractFails(r) ==
    /\ pc[r] = "createContract"
    /\ Fault("createContract")
    /\ PutContract(r) \/ UNCHANGED contracts
    /\ detached' = detached \cup {r}
    /\ Answer(r, "failed")
    /\ UNCHANGED <<assets, policies, agreements, clock, share, asset, todo, revoked>>

(***************************************************************************)
(* The detached deletePolicy.  The connector refuses to delete a policy in *)
(* use, and nobody catches the rejection: it ends the process.             *)
(***************************************************************************)
DetachedDelete(r) ==
    /\ r \in detached
    /\ \/ /\ ~ InUse(r)
          /\ policies' = policies \ {r}
          /\ detached' = detached \ {r}
          /\ UNCHANGED <<pc, reply>>
       \/ /\ InUse(r)
          /\ Crash
          /\ UNCHANGED policies
    /\ UNCHANGED <<assets, contracts, agreements, clock, share, asset, todo,
                   faults, revoked>>

DetachedDeleteFails(r) ==
    /\ r \in detached
    /\ Fault("deletePolicy")
    /\ Crash
    /\ \/ UNCHANGED policies
       \/ ~ InUse(r) /\ policies' = policies \ {r}
    /\ UNCHANGED <<assets, contracts, agreements, clock, share, asset, todo, revoked>>

-----------------------------------------------------------------------------
(* Unsharing.                                                              *)

StartUnshare(r) ==
    /\ pc[r] = "new"
    /\ Cardinality(InFlight) < MaxInFlight
    /\ Goto(r, "find")
    /\ UNCHANGED <<connector, clock, share, asset, todo, detached, faults, revoked>>

FindContracts(r) ==
    /\ pc[r] = "find"
    /\ todo' = [todo EXCEPT ![r] = Matches(share[r])]
    /\ \/ Matches(share[r]) = {} /\ Answer(r, "notFound")
       \/ Matches(share[r]) # {} /\ Goto(r, "deleteContract")
    /\ UNCHANGED <<connector, clock, share, asset, detached, faults, revoked>>

(* Mutant: the asset goes first and its definition is left for later.      *)
DeleteAssetFirst(r) ==
    /\ pc[r] = "deleteContract"
    /\ \E id \in todo[r] :
          /\ contracts[id] # Absent
          /\ asset' = [asset EXCEPT ![r] = id]
          /\ todo' = [todo EXCEPT ![r] = @ \ {id}]
          /\ Goto(r, "blank")
    /\ UNCHANGED <<connector, clock, share, detached, faults, revoked>>

(* A definition that is gone by now makes the whole request fail.          *)
DeleteContract(r) ==
    /\ pc[r] = "deleteContract"
    /\ \E id \in todo[r] :
          \/ /\ contracts[id] # Absent
             /\ contracts' = [contracts EXCEPT ![id] = Absent]
             /\ asset' = [asset EXCEPT ![r] = id]
             /\ todo' = [todo EXCEPT ![r] = @ \ {id}]
             /\ Goto(r, "blank")
          \/ /\ contracts[id] = Absent
             /\ Answer(r, "failed")
             /\ UNCHANGED <<contracts, asset, todo>>
    /\ UNCHANGED <<assets, policies, agreements, clock, share, detached, faults,
                   revoked>>

DeleteContractFails(r) ==
    /\ pc[r] = "deleteContract"
    /\ Fault("deleteContract")
    /\ \E id \in todo[r] : contracts' \in {contracts, [contracts EXCEPT ![id] = Absent]}
    /\ Answer(r, "failed")
    /\ UNCHANGED <<assets, policies, agreements, clock, share, asset, todo,
                   detached, revoked>>

(* Mutant: the loop returns after its first definition.                    *)
OnlyFirstContract(r) ==
    /\ revoked' = revoked \cup {asset[r]}
    /\ Answer(r, "revoked")

(* Mutant: the loop does not notice that it has no more definitions.       *)
NoLastContract(r) ==
    /\ revoked' = revoked \cup {asset[r]}
    /\ Goto(r, "deleteContract")

(* deleteAssetById returned, whatever happened in it: go round the loop.   *)
NextContract(r) ==
    /\ revoked' = revoked \cup {asset[r]}
    /\ \/ todo[r] = {} /\ Answer(r, "revoked")
       \/ todo[r] # {} /\ Goto(r, "deleteContract")

(* Mutant: the asset is deleted without being overwritten first.           *)
DeleteUnblanked(r) ==
    /\ pc[r] = "blank"
    /\ Goto(r, "deleteAsset")
    /\ UNCHANGED <<connector, clock, share, asset, todo, detached, faults, revoked>>

BlankAsset(r) ==
    /\ pc[r] = "blank"
    /\ assets' = [assets EXCEPT ![asset[r]] = Blank]
    /\ Goto(r, "deleteAsset")
    /\ UNCHANGED <<contracts, policies, agreements, clock, share, asset, todo,
                   detached, faults, revoked>>

(* An error of the update skips the delete and is swallowed.               *)
BlankAssetFails(r) ==
    /\ pc[r] = "blank"
    /\ Fault("updateAsset")
    /\ assets' \in {assets, [assets EXCEPT ![asset[r]] = Blank]}
    /\ NextContract(r)
    /\ UNCHANGED <<contracts, policies, agreements, clock, share, asset, todo,
                   detached>>

(* An asset with an agreement is not deleted; the error is swallowed.      *)
DeleteAsset(r) ==
    /\ pc[r] = "deleteAsset"
    /\ \/ asset[r] \notin agreements /\ assets' = [assets EXCEPT ![asset[r]] = Absent]
       \/ asset[r] \in agreements /\ UNCHANGED assets
    /\ NextContract(r)
    /\ UNCHANGED <<contracts, policies, agreements, clock, share, asset, todo,
                   detached, faults>>

DeleteAssetFails(r) ==
    /\ pc[r] = "deleteAsset"
    /\ Fault("deleteAsset")
    /\ \/ UNCHANGED assets
       \/ asset[r] \notin agreements /\ assets' = [assets EXCEPT ![asset[r]] = Absent]
    /\ NextContract(r)
    /\ UNCHANGED <<contracts, policies, agreements, clock, share, asset, todo,
                   detached>>

-----------------------------------------------------------------------------
(* The environment.                                                        *)

(* A consumer's connector negotiates an agreement for an asset on offer.   *)
Negotiate(id) ==
    /\ Offered(id)
    /\ id \notin agreements
    /\ agreements' = agreements \cup {id}
    /\ UNCHANGED <<assets, contracts, policies, clock, pc, share, asset, todo,
                   reply, detached, faults, revoked>>

(* The process is stopped with requests in flight, and started again.      *)
Restart ==
    /\ InFlight # {}
    /\ Fault("process")
    /\ Crash
    /\ UNCHANGED <<connector, clock, share, asset, todo, revoked>>

-----------------------------------------------------------------------------
ShareStep(r) ==
    \/ ShareCheck(r) \/ QueryFails(r)
    \/ CreateAsset(r) \/ CreateAssetFails(r)
    \/ CreatePolicy(r) \/ CreatePolicyFails(r)
    \/ CreateContract(r) \/ CreateContractFails(r)

UnshareStep(r) ==
    \/ FindContracts(r)
    \/ DeleteContract(r) \/ DeleteContractFails(r)
    \/ BlankAsset(r) \/ BlankAssetFails(r)
    \/ DeleteAsset(r) \/ DeleteAssetFails(r)

DetachedStep(r) == DetachedDelete(r) \/ DetachedDeleteFails(r)

Start(r) == StartShare(r) \/ StartUnshare(r) \/ Reject(r)

Next ==
    \/ \E r \in Request : Start(r) \/ ShareStep(r) \/ UnshareStep(r) \/ DetachedStep(r)
    \/ \E id \in AssetId : Negotiate(id)
    \/ Restart

Spec == Init /\ [][Next]_vars

(* Every connector call comes back, with an answer or an error.            *)
Fairness == \A r \in Request : WF_vars(ShareStep(r)) /\ WF_vars(UnshareStep(r))

FairSpec == Spec /\ Fairness

-----------------------------------------------------------------------------
(* Correctness.                                                            *)

(* Types: the connector's objects and every request keep their shape, and  *)
(* a handler that uses its asset has one.                                  *)
TypeOK ==
    /\ assets \in [AssetId -> Share \cup {Absent, Blank}]
    /\ contracts \in [AssetId -> Contract \cup {Absent}]
    /\ policies \subseteq Request
    /\ agreements \subseteq AssetId
    /\ clock \in 0 .. MaxStamp
    /\ pc \in [Request -> PC]
    /\ share \in [Request -> Share]
    /\ asset \in [Request -> AssetId \cup {Absent}]
    /\ todo \in [Request -> SUBSET AssetId]
    /\ reply \in [Request -> Reply]
    /\ detached \subseteq Request
    /\ faults \in 0 .. MaxFaults
    /\ revoked \subseteq AssetId
    /\ \A r \in Request : pc[r] \in Working => asset[r] \in AssetId

(* r's handler has made or unlisted asset id and is not finished with it.  *)
Holds(r, id) ==
    /\ pc[r] \in Holding
    /\ asset[r] = id

(***************************************************************************)
(* A contract definition always stands for its own asset, live and with    *)
(* the same selector, and for a policy that exists: no order of shares,    *)
(* unshares, rollbacks and crashes leaves one dangling (the order of the   *)
(* deletes in unshareFootprint and the un-awaited deletePolicy are what    *)
(* could).                                                                 *)
(***************************************************************************)
ContractBacked ==
    \A id \in AssetId : contracts[id] # Absent =>
        /\ assets[id] = contracts[id].share
        /\ contracts[id].policy \in policies

(***************************************************************************)
(* An asset that a consumer can read or negotiate is one that unshare      *)
(* finds: it has its own contract definition, or a request in flight is    *)
(* still working on it.  unshareFootprint starts from contract             *)
(* definitions, so an asset without one can never be withdrawn again.      *)
(***************************************************************************)
ReadableIsRevocable ==
    \A id \in AssetId : Live(id) /\ (id \in agreements \/ Offered(id)) =>
        contracts[id] # Absent \/ \E r \in Request : Holds(r, id)

(***************************************************************************)
(* Once unshareFootprint has gone past an asset, the asset gives nothing   *)
(* any more, even to a company that holds an agreement for it: it is       *)
(* deleted, or left blank when the agreement forbids deleting it.          *)
(***************************************************************************)
RevokedIsBlank == \A id \in revoked : assets[id] \in {Absent, Blank}

(***************************************************************************)
(* ShipmentAlreadyShared exists so that a month is shared with a company   *)
(* once: no two contract definitions for one share.                        *)
(***************************************************************************)
OneContractPerShare ==
    \A i, j \in AssetId :
        contracts[i] # Absent /\ contracts[j] # Absent /\ i # j =>
            contracts[i].share # contracts[j].share

(***************************************************************************)
(* A contract definition disappears only by an unshare of that very        *)
(* company, month and year.                                                *)
(***************************************************************************)
UnshareOnlyTarget ==
    [][\A id \in AssetId :
          contracts[id] # Absent /\ contracts'[id] = Absent =>
              \E r \in Request :
                  pc[r] = "deleteContract" /\ share[r] = contracts[id].share]_vars

(* The stages of a handler, those of the loop of an unshare in the order   *)
(* in which they use a contract definition up.                             *)
Stage == [new |-> 0, check |-> 1, createAsset |-> 2, createPolicy |-> 3,
          createContract |-> 4, find |-> 5, blank |-> 6, deleteAsset |-> 7,
          deleteContract |-> 8, done |-> 9]

(***************************************************************************)
(* No handler goes in circles, whatever fails and whoever deletes the      *)
(* definitions it is looping over: each of its calls brings it to a later  *)
(* stage or leaves it one definition less, and it goes round the loop only *)
(* with a definition left to delete.  That much of EveryRequestAnswered    *)
(* needs no fairness.                                                      *)
(***************************************************************************)
HandlersAdvance ==
    [][\A r \in Request : pc'[r] # pc[r] \/ todo'[r] # todo[r] =>
          /\ \/ /\ Stage[pc[r]] < Stage[pc'[r]]
                /\ pc[r] # "find" => todo'[r] = todo[r]
             \/ todo'[r] \subseteq todo[r] /\ todo'[r] # todo[r]
          /\ pc'[r] = "deleteContract" => todo'[r] # {}]_vars

(***************************************************************************)
(* Every request taken up is answered, or cut off by the end of the        *)
(* process: no error path of the handlers, the swallowed ones and the      *)
(* loop over definitions that others delete included, leaves a client      *)
(* waiting.                                                                *)
(***************************************************************************)
EveryRequestAnswered ==
    \A r \in Request : pc[r] # "new" ~> reply[r] # "none"

=============================================================================
