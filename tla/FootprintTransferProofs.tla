------------------------ MODULE FootprintTransferProofs ------------------------
(***************************************************************************)
(* Proofs about FootprintTransfer, for every set of assets, initiate       *)
(* requests and readers, any limit on the polls and any faults.            *)
(***************************************************************************)
EXTENDS FootprintTransfer, TLAPS

(* The handler works through its list of assets.                           *)
Loop == {"lookup", "negotiate", "poll", "relookup", "transfer"}

(***************************************************************************)
(* Under the job's key there is a job: a reader takes its assetIds without *)
(* looking.                                                                *)
(***************************************************************************)
JobInv == cache[Job] \in JobValue \cup {Nothing}

(***************************************************************************)
(* Before its turn has come an asset has neither a negotiation nor a       *)
(* transfer of the request: what the request starts later replaces         *)
(* nothing.                                                                *)
(***************************************************************************)
Ahead(q) ==
    \A a \in Asset :
        pc[q] \in {"new", "catalog"} \/ (pc[q] \in Loop /\ a \in todo[q]) =>
            /\ transfer[q][a] = "none"
            /\ a \notin current[q] \/ pc[q] = "negotiate" => nego[q][a] = "none"

(* In the loop one asset is being worked on; past the negotiation there is *)
(* an agreement for it.                                                    *)
Underway(q) ==
    /\ pc[q] \in {"new", "catalog", "lookup"} => current[q] = {}
    /\ pc[q] \in Loop \ {"lookup"} => \E a \in todo[q] : current[q] = {a}
    /\ pc[q] \in {"relookup", "transfer"} => \A a \in current[q] : HasAgreement(a)

(* What the request has found and has no longer to do is transferred.      *)
Achieved(q) ==
    /\ pc[q] \in Loop \cup {"storeJob", "expireJob"} =>
          \A a \in found[q] \ todo[q] : transfer[q][a] # "none"
    /\ pc[q] \in {"storeJob", "expireJob"} => todo[q] = {}
    /\ reply[q] = "initiated" =>
          pc[q] = "done" /\ \A a \in found[q] : transfer[q][a] # "none"

LoopInv == \A q \in Initiator : Ahead(q) /\ Underway(q) /\ Achieved(q)

TransferInv ==
    /\ TypeOK
    /\ JobInv
    /\ LoopInv
    /\ TransferUnderAgreement
    /\ JobIsTransferred

-----------------------------------------------------------------------------
(***************************************************************************)
(* Types are kept; with JobInv, since a reader copies the assets of the    *)
(* job.  One step per action of Next.                                      *)
(***************************************************************************)
LEMMA TypeStep == TypeOK /\ JobInv /\ [Next]_vars => TypeOK' /\ JobInv'
<1> SUFFICES ASSUME TypeOK, JobInv, [Next]_vars PROVE TypeOK' /\ JobInv'
  OBVIOUS
<1> USE TransferAssumption DEF TypeOK, JobInv, JobValue, Key, PC, Negotiation, Transfer
<1>1. ASSUME NEW q \in Initiator, Initiate(q) PROVE TypeOK' /\ JobInv'
  BY <1>1 DEF Initiate, Goto, redis, readers
<1>2. ASSUME NEW q \in Initiator, FetchCatalogs(q) PROVE TypeOK' /\ JobInv'
  BY <1>2 DEF FetchCatalogs, Goto, Answer, Offered, redis, readers
<1>3. ASSUME NEW q \in Initiator, LookupAgreement(q) PROVE TypeOK' /\ JobInv'
  <2>1. PICK a \in todo[q] : current' = [current EXCEPT ![q] = {a}]
    BY <1>3 DEF LookupAgreement
  <2>2. pc' \in [Initiator -> PC] /\ reply' = reply
    BY <1>3 DEF LookupAgreement, Goto
  <2>3. current' \in [Initiator -> SUBSET Asset]
    BY <2>1
  <2>4. QED
    BY <1>3, <2>2, <2>3 DEF LookupAgreement, redis, readers
<1>4. ASSUME NEW q \in Initiator, Negotiate(q) PROVE TypeOK' /\ JobInv'
  BY <1>4 DEF Negotiate, StartNegotiation, Goto, redis, readers
<1>5. ASSUME NEW q \in Initiator, Poll(q) PROVE TypeOK' /\ JobInv'
  <2>1. CASE Goto(q, "relookup") /\ UNCHANGED polls
    BY <1>5, <2>1 DEF Poll, Goto, redis, readers
  <2>2. CASE Answer(q, "unavailable") /\ UNCHANGED polls
    BY <1>5, <2>2 DEF Poll, Answer, redis, readers
  <2>3. CASE /\ polls[q] < MaxPolls
             /\ polls' = [polls EXCEPT ![q] = @ + 1]
             /\ UNCHANGED <<pc, reply>>
    <3>1. polls[q] + 1 \in 0 .. MaxPolls
      BY <2>3
    <3>2. polls' \in [Initiator -> 0 .. MaxPolls]
      BY <2>3, <3>1
    <3>3. QED
      BY <1>5, <2>3, <3>2 DEF Poll, redis, readers
  <2>4. QED
    BY <1>5, <2>1, <2>2, <2>3 DEF Poll
<1>6. ASSUME NEW q \in Initiator, LookupAgain(q) PROVE TypeOK' /\ JobInv'
  BY <1>6 DEF LookupAgain, Goto, redis, readers
<1>7. ASSUME NEW q \in Initiator, StartTransfer(q) PROVE TypeOK' /\ JobInv'
  <2>1. PICK a \in current[q] : AcceptTransfer(q, a) /\ todo' = [todo EXCEPT ![q] = @ \ {a}]
    BY <1>7 DEF StartTransfer
  <2>2. pc' \in [Initiator -> PC] /\ reply' = reply
    BY <1>7 DEF StartTransfer, Goto
  <2>3. todo' \in [Initiator -> SUBSET Asset]
    BY <2>1
  <2>4. transfer' \in [Initiator -> [Asset -> Transfer]]
    BY <2>1 DEF AcceptTransfer
  <2>5. QED
    BY <1>7, <2>2, <2>3, <2>4 DEF StartTransfer, redis, readers
<1>8. ASSUME NEW q \in Initiator, StoreJob(q) PROVE TypeOK' /\ JobInv'
  BY <1>8 DEF StoreJob, Set, Goto, readers
<1>9. ASSUME NEW q \in Initiator, ExpireJob(q) PROVE TypeOK' /\ JobInv'
  BY <1>9 DEF ExpireJob, Expire, Answer, readers
<1>10. ASSUME NEW q \in Initiator, ConnectorFails(q) PROVE TypeOK' /\ JobInv'
  <2>1. nego' \in [Initiator -> [Asset -> Negotiation]]
    <3>1. CASE UNCHANGED nego
      BY <3>1
    <3>2. ASSUME NEW a \in current[q], StartNegotiation(q, a)
          PROVE  nego' \in [Initiator -> [Asset -> Negotiation]]
      BY <3>2 DEF StartNegotiation
    <3>3. QED
      BY <1>10, <3>1, <3>2 DEF ConnectorFails
  <2>2. transfer' \in [Initiator -> [Asset -> Transfer]]
    <3>1. CASE UNCHANGED transfer
      BY <3>1
    <3>2. ASSUME NEW a \in current[q], AcceptTransfer(q, a)
          PROVE  transfer' \in [Initiator -> [Asset -> Transfer]]
      BY <3>2 DEF AcceptTransfer
    <3>3. QED
      BY <1>10, <3>1, <3>2 DEF ConnectorFails
  <2>3. UNCHANGED <<offer, redis, found, todo, current, polls, readers>>
    BY <1>10 DEF ConnectorFails
  <2>4. Fault("connector") /\ Answer(q, "failed")
    BY <1>10 DEF ConnectorFails
  <2>5. QED
    BY <2>1, <2>2, <2>3, <2>4 DEF Fault, CanFail, Answer, redis, readers
<1>11. ASSUME NEW q \in Initiator, RedisFails(q) PROVE TypeOK' /\ JobInv'
  BY <1>11 DEF RedisFails, Fault, CanFail, Answer, redis, readers
<1>12. ASSUME NEW q \in Initiator, NEW a \in Asset, Fetch(q, a) PROVE TypeOK' /\ JobInv'
  BY <1>12 DEF Fetch, At, Become, redis, initiators, readers
<1>13. ASSUME NEW q \in Initiator, NEW a \in Asset, FetchBlank(q, a) PROVE TypeOK' /\ JobInv'
  BY <1>13 DEF FetchBlank, At, Become, redis, initiators, readers
<1>14. ASSUME NEW q \in Initiator, NEW a \in Asset, StoreData(q, a) PROVE TypeOK' /\ JobInv'
  BY <1>14 DEF StoreData, At, Become, Set, initiators, readers
<1>15. ASSUME NEW q \in Initiator, NEW a \in Asset, ExpireData(q, a) PROVE TypeOK' /\ JobInv'
  BY <1>15 DEF ExpireData, At, Become, Expire, initiators, readers
<1>16. ASSUME NEW q \in Initiator, NEW a \in Asset, StoreDataForGood(q, a) PROVE TypeOK' /\ JobInv'
  BY <1>16 DEF StoreDataForGood, At, Become, Set, Fault, CanFail, initiators, readers
<1>17. ASSUME NEW q \in Initiator, NEW a \in Asset, CallbackFails(q, a) PROVE TypeOK' /\ JobInv'
  BY <1>17 DEF CallbackFails, Become, Fault, CanFail, redis, initiators, readers
<1>18. ASSUME NEW g \in Reader, GetData(g) PROVE TypeOK' /\ JobInv'
  BY <1>18 DEF GetData, redis, initiators
<1>19. ASSUME NEW g \in Reader, ReadJob(g) PROVE TypeOK' /\ JobInv'
  BY <1>19 DEF ReadJob, Respond, redis, initiators
<1>20. ASSUME NEW g \in Reader, ReadAsset(g) PROVE TypeOK' /\ JobInv'
  <2>1. PICK a \in need[g] : need' = [need EXCEPT ![g] = @ \ {a}]
    BY <1>20 DEF ReadAsset
  <2>2. need' \in [Reader -> SUBSET Asset]
    BY <2>1
  <2>3. CASE UNCHANGED <<rpc, answer>>
    BY <1>20, <2>2, <2>3 DEF ReadAsset, redis, initiators
  <2>4. CASE Respond(g, "notInitiated")
    BY <1>20, <2>2, <2>4 DEF ReadAsset, Respond, redis, initiators
  <2>5. CASE Respond(g, "data")
    BY <1>20, <2>2, <2>5 DEF ReadAsset, Respond, redis, initiators
  <2>6. QED
    BY <1>20, <2>3, <2>4, <2>5 DEF ReadAsset
<1>21. ASSUME NEW g \in Reader, ReadFails(g) PROVE TypeOK' /\ JobInv'
  BY <1>21 DEF ReadFails, Respond, Fault, CanFail, redis, initiators
<1>22. CASE ProvidersShare
  BY <1>22 DEF ProvidersShare, Offered, redis, initiators, readers
<1>23. CASE ProvidersWithdraw
  BY <1>23 DEF ProvidersWithdraw, Offered, redis, initiators, readers
<1>24. ASSUME NEW q \in Initiator, NEW a \in Asset, NegotiationMoves(q, a) PROVE TypeOK' /\ JobInv'
  BY <1>24 DEF NegotiationMoves, redis, initiators, readers
<1>25. ASSUME NEW q \in Initiator, NEW a \in Asset, Receive(q, a) PROVE TypeOK' /\ JobInv'
  BY <1>25 DEF Receive, At, Become, redis, initiators, readers
<1>26. ASSUME NEW q \in Initiator, NEW a \in Asset, TransferDies(q, a) PROVE TypeOK' /\ JobInv'
  BY <1>26 DEF TransferDies, At, Become, redis, initiators, readers
<1>27. ASSUME NEW k \in Key, KeyExpires(k) PROVE TypeOK' /\ JobInv'
  BY <1>27 DEF KeyExpires, initiators, readers
<1>28. CASE Restart
  BY <1>28 DEF Restart, Fault, CanFail, redis, InFlight
<1>29. CASE UNCHANGED vars
  BY <1>29 DEF vars
<1>30. QED
  BY <1>1, <1>2, <1>3, <1>4, <1>5, <1>6, <1>7, <1>8, <1>9, <1>10, <1>11, <1>12, <1>13, <1>14, <1>15, <1>16, <1>17, <1>18, <1>19, <1>20, <1>21, <1>22, <1>23, <1>24, <1>25, <1>26, <1>27, <1>28, <1>29
     DEF Next, InitiateStep, CallbackStep, ReadStep, Environment

(* The types hold at the start.                                            *)
LEMMA TypeInit == Init => TypeOK /\ JobInv
  BY TransferAssumption DEF Init, TypeOK, JobInv, Key, PC, Negotiation, Transfer

-----------------------------------------------------------------------------
(* Only three steps touch a negotiation.                                   *)
LEMMA NegotiationFrame ==
    [Next]_vars =>
        \/ UNCHANGED nego
        \/ \E q \in Initiator : Negotiate(q) \/ ConnectorFails(q)
        \/ \E q \in Initiator, a \in Asset : NegotiationMoves(q, a)
  BY DEF Next, vars, initiators, readers, redis, InitiateStep, CallbackStep, ReadStep,
         Environment, Initiate, FetchCatalogs, LookupAgreement, Poll, LookupAgain,
         StartTransfer, StoreJob, ExpireJob, RedisFails, Fetch, FetchBlank, StoreData,
         ExpireData, StoreDataForGood, CallbackFails, GetData, ReadJob, ReadAsset,
         ReadFails, ProvidersShare, ProvidersWithdraw, Receive, TransferDies,
         KeyExpires, Restart

(* An agreement, once made, stays: a request that negotiates replaces no   *)
(* negotiation of its own.                                                 *)
LEMMA AgreementStays ==
    ASSUME TransferInv, [Next]_vars, NEW a \in Asset, HasAgreement(a)
    PROVE  HasAgreement(a)'
<1> USE DEF TransferInv, TypeOK
<1>1. PICK p \in Initiator : nego[p][a] \in {"agreed", "finalized", "void"}
  BY DEF HasAgreement
<1>2. SUFFICES nego'[p][a] \in {"agreed", "finalized", "void"}
  BY DEF HasAgreement
<1>3. CASE UNCHANGED nego
  BY <1>1, <1>3
<1>4. ASSUME NEW q \in Initiator, pc[q] = "negotiate",
             NEW b \in current[q], StartNegotiation(q, b)
      PROVE  nego'[p][a] \in {"agreed", "finalized", "void"}
  <2>1. b \in todo[q] /\ b \in Asset
    BY <1>4 DEF LoopInv, Underway, Loop
  <2>2. nego[q][b] = "none"
    BY <1>4, <2>1 DEF LoopInv, Ahead, Loop
  <2>3. QED
    BY <1>1, <1>4, <2>1, <2>2 DEF StartNegotiation
<1>5. ASSUME NEW q \in Initiator, Negotiate(q)
      PROVE  nego'[p][a] \in {"agreed", "finalized", "void"}
  BY <1>4, <1>5 DEF Negotiate
<1>6. ASSUME NEW q \in Initiator, ConnectorFails(q)
      PROVE  nego'[p][a] \in {"agreed", "finalized", "void"}
  BY <1>3, <1>4, <1>6 DEF ConnectorFails
<1>7. ASSUME NEW q \in Initiator, NEW b \in Asset, NegotiationMoves(q, b)
      PROVE  nego'[p][a] \in {"agreed", "finalized", "void"}
  <2>1. PICK to \in {"agreed", "terminated", "finalized", "void"} :
          /\ nego[q][b] \in {"pending", "agreed"}
          /\ nego[q][b] = "agreed" => to \in {"finalized", "void"}
          /\ nego' = [nego EXCEPT ![q] = [@ EXCEPT ![b] = to]]
    BY <1>7 DEF NegotiationMoves
  <2>2. QED
    BY <1>1, <2>1
<1>8. QED
  BY <1>3, <1>5, <1>6, <1>7, NegotiationFrame

(* Only nine steps touch a transfer.                                       *)
LEMMA TransferFrame ==
    [Next]_vars =>
        \/ UNCHANGED transfer
        \/ \E q \in Initiator : StartTransfer(q) \/ ConnectorFails(q)
        \/ \E q \in Initiator, a \in Asset :
              \/ CallbackStep(q, a)
              \/ Receive(q, a) \/ TransferDies(q, a)
        \/ Restart
  BY DEF Next, vars, initiators, readers, redis, InitiateStep, ReadStep,
         Environment, Initiate, FetchCatalogs, LookupAgreement, Negotiate, Poll, LookupAgain,
         StoreJob, ExpireJob, RedisFails, GetData, ReadJob, ReadAsset,
         ReadFails, ProvidersShare, ProvidersWithdraw, NegotiationMoves, KeyExpires

(* What has been started is never "none" again; only the request's own     *)
(* handler starts one, for the asset it is working on, and goes on.        *)
LEMMA TransferStays ==
    ASSUME TypeOK, [Next]_vars, NEW q \in Initiator, NEW a \in Asset
    PROVE  /\ transfer[q][a] # "none" => transfer'[q][a] # "none"
           /\ transfer[q][a] = "none" /\ transfer'[q][a] # "none" =>
                 pc[q] = "transfer" /\ a \in current[q] /\ pc'[q] # "transfer"
<1> DEFINE Goal ==
           /\ transfer[q][a] # "none" => transfer'[q][a] # "none"
           /\ transfer[q][a] = "none" /\ transfer'[q][a] # "none" =>
                 pc[q] = "transfer" /\ a \in current[q] /\ pc'[q] # "transfer"
<1> USE DEF TypeOK
<1>1. CASE UNCHANGED transfer
  BY <1>1
<1>2. ASSUME NEW p \in Initiator, pc[p] = "transfer", pc'[p] # "transfer",
             NEW b \in current[p], AcceptTransfer(p, b)
      PROVE  Goal
  BY <1>2 DEF AcceptTransfer
<1>3. ASSUME NEW p \in Initiator, StartTransfer(p) PROVE Goal
  BY <1>2, <1>3 DEF StartTransfer, Goto
<1>4. ASSUME NEW p \in Initiator, ConnectorFails(p) PROVE Goal
  BY <1>1, <1>2, <1>4 DEF ConnectorFails, Answer
<1>5. ASSUME NEW p \in Initiator, NEW b \in Asset,
             NEW stage \in Transfer \ {"none"},
             transfer[p][b] # "none", Become(p, b, stage)
      PROVE  Goal
  BY <1>5 DEF Become
<1>6. ASSUME NEW p \in Initiator, NEW b \in Asset,
             CallbackStep(p, b) \/ Receive(p, b) \/ TransferDies(p, b)
      PROVE  Goal
  BY <1>5, <1>6 DEF CallbackStep, Receive, TransferDies, Fetch, FetchBlank, StoreData,
                    ExpireData, StoreDataForGood, CallbackFails, At, Transfer
<1>7. CASE Restart
  BY <1>7 DEF Restart, Callback
<1>8. QED
  BY <1>1, <1>3, <1>4, <1>6, <1>7, TransferFrame

(* The same of negotiations.                                               *)
LEMMA NegotiationStays ==
    ASSUME TypeOK, [Next]_vars, NEW q \in Initiator, NEW a \in Asset,
           nego[q][a] = "none", nego'[q][a] # "none"
    PROVE  pc[q] = "negotiate" /\ a \in current[q] /\ pc'[q] # "negotiate"
<1> DEFINE Goal == pc[q] = "negotiate" /\ a \in current[q] /\ pc'[q] # "negotiate"
<1> USE DEF TypeOK
<1>1. CASE UNCHANGED nego
  BY <1>1
<1>2. ASSUME NEW p \in Initiator, pc[p] = "negotiate", pc'[p] # "negotiate",
             NEW b \in current[p], StartNegotiation(p, b)
      PROVE  Goal
  BY <1>2 DEF StartNegotiation
<1>3. ASSUME NEW p \in Initiator, Negotiate(p) PROVE Goal
  BY <1>2, <1>3 DEF Negotiate, Goto
<1>4. ASSUME NEW p \in Initiator, ConnectorFails(p) PROVE Goal
  BY <1>1, <1>2, <1>4 DEF ConnectorFails, Answer
<1>5. ASSUME NEW p \in Initiator, NEW b \in Asset, NegotiationMoves(p, b) PROVE Goal
  BY <1>5 DEF NegotiationMoves
<1>6. QED
  BY <1>1, <1>3, <1>4, <1>5, NegotiationFrame

(* Only the handlers' steps and restarts touch the handlers' state.        *)
LEMMA HandlerFrame ==
    [Next]_vars =>
        \/ UNCHANGED initiators
        \/ \E q \in Initiator : Initiate(q) \/ InitiateStep(q)
        \/ Restart
  BY DEF Next, vars, initiators, CallbackStep, ReadStep, Environment,
         Fetch, FetchBlank, StoreData, ExpireData, StoreDataForGood, CallbackFails,
         GetData, ReadJob, ReadAsset, ReadFails, ProvidersShare, ProvidersWithdraw,
         NegotiationMoves, Receive, TransferDies, KeyExpires

(***************************************************************************)
(* LoopInv is kept: by the request's own steps, one by one, and by the     *)
(* steps of all others, which move its negotiations and transfers on but   *)
(* start none.                                                             *)
(***************************************************************************)
LEMMA LoopStep == TransferInv /\ [Next]_vars => LoopInv'
<1> SUFFICES ASSUME TransferInv, [Next]_vars, NEW q \in Initiator
             PROVE  Ahead(q)' /\ Underway(q)' /\ Achieved(q)'
  BY DEF LoopInv
<1> DEFINE Rest == Ahead(q)' /\ Underway(q)' /\ Achieved(q)'
<1>0. /\ TypeOK /\ TypeOK'
      /\ Ahead(q) /\ Underway(q) /\ Achieved(q)
  BY TypeStep DEF TransferInv, LoopInv
<1>a. \A a \in Asset : HasAgreement(a) => HasAgreement(a)'
  BY AgreementStays
<1>t. \A a \in Asset :
        /\ transfer[q][a] # "none" => transfer'[q][a] # "none"
        /\ transfer[q][a] = "none" /\ transfer'[q][a] # "none" =>
              pc[q] = "transfer" /\ a \in current[q] /\ pc'[q] # "transfer"
  BY <1>0, TransferStays
<1>n. \A a \in Asset : nego[q][a] = "none" /\ nego'[q][a] # "none" =>
        pc[q] = "negotiate" /\ a \in current[q] /\ pc'[q] # "negotiate"
  BY <1>0, NegotiationStays
<1>s. /\ todo[q] \subseteq Asset /\ current[q] \subseteq Asset /\ found[q] \subseteq Asset
      /\ pc[q] \in PC
  BY <1>0 DEF TypeOK
<1>1. CASE /\ pc'[q] = pc[q] /\ todo'[q] = todo[q] /\ current'[q] = current[q]
           /\ found'[q] = found[q] /\ reply'[q] = reply[q]
  BY <1>0, <1>a, <1>t, <1>n, <1>s, <1>1 DEF Ahead, Underway, Achieved, Loop
<1>2. CASE Initiate(q)
  BY <1>0, <1>2 DEF Initiate, Goto, TypeOK, Ahead, Underway, Achieved, Loop
<1>3. CASE FetchCatalogs(q)
  BY <1>0, <1>3 DEF FetchCatalogs, Goto, Answer, TypeOK, Ahead, Underway, Achieved, Loop
<1>4. CASE LookupAgreement(q)
  BY <1>0, <1>4, <1>a DEF LookupAgreement, Goto, TypeOK, Ahead, Underway, Achieved, Loop
<1>5. CASE Negotiate(q)
  BY <1>0, <1>5, <1>n DEF Negotiate, Goto, TypeOK, Ahead, Underway, Achieved, Loop
<1>6. CASE Poll(q)
  BY <1>0, <1>6, <1>a DEF Poll, Goto, Answer, TypeOK, Ahead, Underway, Achieved, Loop, HasAgreement
<1>7. CASE LookupAgain(q)
  BY <1>0, <1>7, <1>a DEF LookupAgain, Goto, TypeOK, Ahead, Underway, Achieved, Loop
<1>8. CASE StartTransfer(q)
  BY <1>0, <1>8, <1>t DEF StartTransfer, AcceptTransfer, Goto, TypeOK, Ahead, Underway, Achieved, Loop
<1>9. CASE StoreJob(q)
  BY <1>0, <1>9 DEF StoreJob, Goto, TypeOK, Ahead, Underway, Achieved, Loop
<1>10. CASE ExpireJob(q)
  BY <1>0, <1>10 DEF ExpireJob, Answer, TypeOK, Ahead, Underway, Achieved, Loop
<1>11. CASE ConnectorFails(q) \/ RedisFails(q)
  BY <1>0, <1>11 DEF ConnectorFails, RedisFails, Answer, TypeOK, Ahead, Underway, Achieved, Loop
<1>12. CASE Restart
  BY <1>0, <1>12, <1>1, <1>t DEF Restart, InFlight, TypeOK, Ahead, Underway, Achieved, Loop
<1>13. ASSUME NEW p \in Initiator \ {q}, Initiate(p) \/ InitiateStep(p) PROVE Rest
  BY <1>0, <1>1, <1>13 DEF InitiateStep, Initiate, FetchCatalogs, LookupAgreement, Negotiate,
      Poll, LookupAgain, StartTransfer, StoreJob, ExpireJob, ConnectorFails, RedisFails,
      Goto, Answer, TypeOK
<1>14. CASE UNCHANGED initiators
  BY <1>1, <1>14 DEF initiators
<1>15. QED
  BY <1>2, <1>3, <1>4, <1>5, <1>6, <1>7, <1>8, <1>9, <1>10, <1>11, <1>12, <1>13, <1>14,
     HandlerFrame DEF InitiateStep

(* Only six steps write to a key or set it to expire.                      *)
LEMMA RedisFrame ==
    [Next]_vars =>
        \/ UNCHANGED redis
        \/ \E q \in Initiator : StoreJob(q) \/ ExpireJob(q)
        \/ \E q \in Initiator, a \in Asset :
              StoreData(q, a) \/ ExpireData(q, a) \/ StoreDataForGood(q, a)
        \/ \E k \in Key : KeyExpires(k)
  BY DEF Next, vars, initiators, readers, redis, InitiateStep, CallbackStep, ReadStep,
         Environment, Initiate, FetchCatalogs, LookupAgreement, Negotiate, Poll,
         LookupAgain, StartTransfer, ConnectorFails, RedisFails, Fetch, FetchBlank,
         CallbackFails, GetData, ReadJob, ReadAsset, ReadFails, ProvidersShare,
         ProvidersWithdraw, NegotiationMoves, Receive, TransferDies, Restart

(* Every step keeps the invariant.                                         *)
LEMMA TransferInvStep == TransferInv /\ [Next]_vars => TransferInv'
<1> SUFFICES ASSUME TransferInv, [Next]_vars PROVE TransferInv'
  OBVIOUS
<1>1. TypeOK' /\ JobInv'
  BY TypeStep DEF TransferInv
<1>2. LoopInv'
  BY LoopStep
<1>3. TransferUnderAgreement'
  <2> SUFFICES ASSUME NEW q \in Initiator, NEW a \in Asset, transfer'[q][a] # "none"
               PROVE  HasAgreement(a)'
    BY DEF TransferUnderAgreement
  <2>1. CASE transfer[q][a] # "none"
    BY <2>1, AgreementStays DEF TransferInv, TransferUnderAgreement
  <2>2. CASE transfer[q][a] = "none"
    <3>1. pc[q] = "transfer" /\ a \in current[q]
      BY <2>2, TransferStays DEF TransferInv
    <3>2. HasAgreement(a)
      BY <3>1 DEF TransferInv, LoopInv, Underway
    <3>3. QED
      BY <3>2, AgreementStays
  <2>3. QED
    BY <2>1, <2>2
<1>4. JobIsTransferred'
  <2>1. \A q \in Initiator, a \in Asset : transfer[q][a] # "none" => transfer'[q][a] # "none"
    BY TransferStays DEF TransferInv
  <2>2. \A q \in Initiator : reply'[q] = "initiated" =>
           \A a \in found'[q] : transfer'[q][a] # "none"
    BY <1>2 DEF LoopInv, Achieved
  <2>3. ASSUME cache'[Job] # Nothing, NEW a \in cache'[Job].assetIds
        PROVE  \E q \in Initiator : transfer'[q][a] # "none"
    <3>0. a \in Asset
      BY <1>1, <2>3 DEF JobInv, JobValue
    <3>1. CASE cache'[Job] = cache[Job]
      BY <2>1, <2>3, <3>0, <3>1 DEF TransferInv, JobIsTransferred
    <3>2. ASSUME NEW q \in Initiator, StoreJob(q)
          PROVE  transfer'[q][a] # "none"
      <4>1. a \in found[q]
        BY <2>3, <3>2 DEF StoreJob, Set, TransferInv, TypeOK, Key
      <4>2. transfer[q][a] # "none"
        BY <3>2, <4>1 DEF StoreJob, TransferInv, LoopInv, Achieved
      <4>3. QED
        BY <2>1, <3>0, <4>2
    <3>3. ASSUME NEW q \in Initiator, NEW b \in Asset, StoreData(q, b) \/ StoreDataForGood(q, b)
          PROVE  cache'[Job] = cache[Job]
      BY <3>3, TransferAssumption DEF StoreData, StoreDataForGood, Set, TransferInv, TypeOK, Key
    <3>4. ASSUME NEW k \in Key, KeyExpires(k)
          PROVE  cache'[Job] = cache[Job]
      BY <2>3, <3>4 DEF KeyExpires, TransferInv, TypeOK, Key
    <3>5. ASSUME NEW q \in Initiator, NEW b \in Asset, ExpireJob(q) \/ ExpireData(q, b)
          PROVE  cache'[Job] = cache[Job]
      BY <3>5 DEF ExpireJob, ExpireData, Expire
    <3>6. CASE UNCHANGED redis
      BY <3>1, <3>6 DEF redis
    <3>7. QED
      BY <3>0, <3>1, <3>2, <3>3, <3>4, <3>5, <3>6, RedisFrame
  <2>4. QED
    BY <2>2, <2>3 DEF JobIsTransferred
<1>5. QED
  BY <1>1, <1>2, <1>3, <1>4 DEF TransferInv

(* The invariant holds at the start.                                       *)
LEMMA TransferInit == Init => TransferInv
<1> SUFFICES ASSUME Init PROVE TransferInv
  OBVIOUS
<1>1. TypeOK /\ JobInv
  BY TypeInit
<1>2. LoopInv
  BY DEF Init, LoopInv, Ahead, Underway, Achieved, Loop
<1>3. TransferUnderAgreement /\ JobIsTransferred
  BY DEF Init, TransferUnderAgreement, JobIsTransferred, Key
<1>4. QED
  BY <1>1, <1>2, <1>3 DEF TransferInv

(* The invariant of the transfer.                                          *)
LEMMA TransferInvariant == Spec => []TransferInv
  BY TransferInit, TransferInvStep, PTL DEF Spec

(* The types, and the limit of the wait, hold whatever fails.              *)
THEOREM TransferTypes == Spec => []TypeOK
<1>1. TransferInv => TypeOK
  BY DEF TransferInv
<1>2. QED
  BY <1>1, TransferInvariant, PTL

(* No transfer is started without an agreement for its asset.              *)
THEOREM TransfersUnderAgreement == Spec => []TransferUnderAgreement
<1>1. TransferInv => TransferUnderAgreement
  BY DEF TransferInv
<1>2. QED
  BY <1>1, TransferInvariant, PTL

(* A job in the cache, or answered, has all its transfers started.         *)
THEOREM JobsAreTransferred == Spec => []JobIsTransferred
<1>1. TransferInv => JobIsTransferred
  BY DEF TransferInv
<1>2. QED
  BY <1>1, TransferInvariant, PTL

-----------------------------------------------------------------------------
(***************************************************************************)
(* CachedExpires, as long as no storeItem is cut off between its SET and   *)
(* its EXPIRE and EXPIRE is sent.  The four steps that do that:            *)
(***************************************************************************)
LosesExpiry ==
    \/ \E q \in Initiator : RedisFails(q)
    \/ \E q \in Initiator, a \in Asset :
          StoreDataForGood(q, a) \/ (At(q, a, "expire") /\ CallbackFails(q, a))
    \/ Restart /\ BetweenSetAndExpire

(* Redis answers, tokens outlive their callback, and the process is not    *)
(* stopped between a SET and its EXPIRE.                                   *)
StoresComplete == Faulty \cap {"redis", "token", "cut"} = {}

(* Then none of the four steps is taken.                                   *)
LEMMA StoresKeepExpiry ==
    ASSUME StoresComplete
    PROVE  ~ LosesExpiry
  BY DEF StoresComplete, LosesExpiry, RedisFails, StoreDataForGood, CallbackFails, Restart,
         Fault, CanFail, At

(* Every step that does not lose an expiry keeps CachedExpires.            *)
LEMMA CachedStep ==
    ASSUME TransferInv, CachedExpires, [Next]_vars, ~ LosesExpiry
    PROVE  CachedExpires'
<1> SUFFICES ASSUME NEW k \in Key, cache'[k] # Nothing, k \notin ttl'
             PROVE  \/ k = Job /\ \E q \in Initiator : pc'[q] = "expireJob"
                    \/ k \in Asset /\ \E q \in Initiator : transfer'[q][k] = "expire"
  BY DEF CachedExpires
<1> DEFINE Goal == \/ k = Job /\ \E q \in Initiator : pc'[q] = "expireJob"
                   \/ k \in Asset /\ \E q \in Initiator : transfer'[q][k] = "expire"
<1> USE TransferAssumption DEF TransferInv, TypeOK, Key
(* A storeItem between SET and EXPIRE stays there until its EXPIRE.        *)
<1>1. ASSUME NEW q \in Initiator, pc[q] = "expireJob"
      PROVE  pc'[q] = "expireJob" \/ ExpireJob(q)
  <2>1. ASSUME NEW p \in Initiator, Initiate(p) \/ InitiateStep(p)
        PROVE  p = q => ExpireJob(q)
    BY <1>1, <2>1 DEF InitiateStep, Initiate, FetchCatalogs, LookupAgreement, Negotiate,
        Poll, LookupAgain, StartTransfer, StoreJob, ConnectorFails, LosesExpiry
  <2>2. ASSUME NEW p \in Initiator \ {q}, Initiate(p) \/ InitiateStep(p)
        PROVE  pc'[q] = pc[q]
    BY <2>2 DEF InitiateStep, Initiate, FetchCatalogs, LookupAgreement, Negotiate,
        Poll, LookupAgain, StartTransfer, StoreJob, ExpireJob, ConnectorFails,
        RedisFails, Goto, Answer
  <2>3. ~ Restart
    BY <1>1 DEF LosesExpiry, BetweenSetAndExpire
  <2>4. QED
    BY <1>1, <2>1, <2>2, <2>3, HandlerFrame DEF initiators
<1>2. ASSUME NEW q \in Initiator, NEW a \in Asset, transfer[q][a] = "expire"
      PROVE  transfer'[q][a] = "expire" \/ ExpireData(q, a)
  <2>1. ASSUME NEW p \in Initiator, NEW b \in current[p], pc[p] = "transfer", AcceptTransfer(p, b)
        PROVE  transfer'[q][a] = "expire"
    <3>1. transfer[p][b] = "none"
      <4>0. PICK c \in todo[p] : current[p] = {c}
        BY <2>1 DEF LoopInv, Underway, Loop
      <4>1. b \in todo[p] /\ b \in Asset
        BY <4>0
      <4>2. QED
        BY <2>1, <4>1 DEF LoopInv, Ahead, Loop
    <3>2. QED
      BY <1>2, <2>1, <3>1 DEF AcceptTransfer
  <2>2. ASSUME NEW p \in Initiator, StartTransfer(p) \/ ConnectorFails(p)
        PROVE  transfer'[q][a] = "expire"
    BY <1>2, <2>1, <2>2 DEF StartTransfer, ConnectorFails
  <2>3. ASSUME NEW p \in Initiator, NEW b \in Asset,
               CallbackStep(p, b) \/ Receive(p, b) \/ TransferDies(p, b)
        PROVE  transfer'[q][a] = "expire" \/ ExpireData(q, a)
    <3>1. ASSUME NEW stage, Become(p, b, stage), transfer[p][b] # "expire"
          PROVE  transfer'[q][a] = "expire"
      BY <1>2, <3>1 DEF Become
    <3>2. CASE ExpireData(p, b)
      BY <1>2, <3>2 DEF ExpireData, Become
    <3>3. ~ (transfer[p][b] = "expire" /\ CallbackFails(p, b)) /\ ~ StoreDataForGood(p, b)
      BY DEF LosesExpiry, At
    <3>4. CASE Receive(p, b) \/ TransferDies(p, b)
      BY <3>1, <3>4 DEF Receive, TransferDies, At
    <3>5. CASE Fetch(p, b) \/ FetchBlank(p, b) \/ StoreData(p, b)
      BY <3>1, <3>5 DEF Fetch, FetchBlank, StoreData, At
    <3>6. CASE CallbackFails(p, b)
      BY <3>1, <3>3, <3>6 DEF CallbackFails
    <3>7. QED
      BY <2>3, <3>2, <3>3, <3>4, <3>5, <3>6 DEF CallbackStep
  <2>4. ~ Restart
    BY <1>2 DEF LosesExpiry, BetweenSetAndExpire, At
  <2>5. QED
    BY <1>2, <2>2, <2>3, <2>4, TransferFrame
(* What was on its way to its expiry still is.                             *)
<1>3. ASSUME cache[k] # Nothing, k \notin ttl,
             ~ \E q \in Initiator : k = Job /\ ExpireJob(q),
             ~ \E q \in Initiator : k \in Asset /\ ExpireData(q, k)
      PROVE  Goal
  BY <1>1, <1>2, <1>3 DEF CachedExpires
<1>4. CASE UNCHANGED redis
  <2>1. cache[k] # Nothing /\ k \notin ttl
    BY <1>4 DEF redis
  <2>2. ASSUME NEW q \in Initiator, ExpireJob(q) PROVE k # Job
    BY <1>4, <2>1, <2>2 DEF ExpireJob, Expire, redis
  <2>3. ASSUME NEW q \in Initiator, k \in Asset PROVE ~ ExpireData(q, k)
    BY <1>4, <2>1 DEF ExpireData, Expire, redis
  <2>4. QED
    BY <1>3, <2>1, <2>2, <2>3
<1>5. ASSUME NEW q \in Initiator, StoreJob(q) PROVE Goal
  <2>1. CASE k = Job
    BY <1>5, <2>1 DEF StoreJob, Goto
  <2>2. CASE k # Job
    <3>1. cache[k] # Nothing /\ k \notin ttl /\ UNCHANGED transfer
      BY <1>5, <2>2 DEF StoreJob, Set
    <3>2. QED
      BY <2>2, <3>1 DEF CachedExpires
  <2>3. QED
    BY <2>1, <2>2
<1>6. ASSUME NEW q \in Initiator, ExpireJob(q) PROVE Goal
  <2>1. UNCHANGED <<cache, transfer>> /\ k # Job /\ k \notin ttl
    BY <1>6 DEF ExpireJob, Expire
  <2>2. QED
    BY <2>1 DEF CachedExpires
<1>7. ASSUME NEW q \in Initiator, NEW a \in Asset, StoreData(q, a) PROVE Goal
  <2>1. CASE k = a
    BY <1>7, <2>1 DEF StoreData, Become
  <2>2. CASE k # a
    <3>1. cache[k] # Nothing /\ k \notin ttl
      BY <1>7, <2>2 DEF StoreData, Set
    <3>2. UNCHANGED pc /\ \A p \in Initiator, b \in Asset :
            transfer[p][b] = "expire" => transfer'[p][b] = "expire"
      BY <1>7 DEF StoreData, Become, initiators
    <3>3. QED
      BY <3>1, <3>2 DEF CachedExpires
  <2>3. QED
    BY <2>1, <2>2
<1>8. ASSUME NEW q \in Initiator, NEW a \in Asset, ExpireData(q, a) PROVE Goal
  <2>1. UNCHANGED <<cache, pc>> /\ k # a /\ k \notin ttl
    BY <1>8 DEF ExpireData, Expire, initiators
  <2>2. \A p \in Initiator : k \in Asset => transfer'[p][k] = transfer[p][k]
    BY <1>8, <2>1 DEF ExpireData, Become
  <2>3. QED
    BY <2>1, <2>2 DEF CachedExpires
<1>9. ASSUME NEW q \in Initiator, NEW a \in Asset PROVE ~ StoreDataForGood(q, a)
  BY DEF LosesExpiry
<1>10. ASSUME NEW x \in Key, KeyExpires(x) PROVE Goal
  <2>1. cache[k] # Nothing /\ k \notin ttl /\ UNCHANGED <<pc, transfer>>
    BY <1>10 DEF KeyExpires, initiators
  <2>2. QED
    BY <2>1 DEF CachedExpires
<1>11. QED
  BY <1>4, <1>5, <1>6, <1>7, <1>8, <1>9, <1>10, RedisFrame

(***************************************************************************)
(* If Redis answers, tokens outlive their callback and the process is not  *)
(* stopped between a SET and its EXPIRE, nothing stays in the cache for    *)
(* good, whatever stores of one key run side by side and whatever else     *)
(* fails: only those three keep a value past its time.                     *)
(***************************************************************************)
THEOREM CachedValuesExpire ==
    ASSUME StoresComplete
    PROVE  Spec => []CachedExpires
<1>1. Init => CachedExpires
  BY DEF Init, CachedExpires
<1>2. TransferInv /\ CachedExpires /\ [Next]_vars => CachedExpires'
  BY StoresKeepExpiry, CachedStep
<1>3. QED
  BY <1>1, <1>2, TransferInvariant, PTL DEF Spec

-----------------------------------------------------------------------------
(* The stages, as the provers read them.                                   *)
LEMMA Stages ==
    /\ Stage["new"] = 0 /\ Stage["catalog"] = 1 /\ Stage["lookup"] = 2
    /\ Stage["negotiate"] = 3 /\ Stage["poll"] = 4 /\ Stage["relookup"] = 5
    /\ Stage["transfer"] = 6 /\ Stage["storeJob"] = 7 /\ Stage["expireJob"] = 8
    /\ Stage["done"] = 9
  BY DEF Stage

(* What a step does to a request, if it does anything.                     *)
Advances(q) ==
    <<pc[q], todo[q], polls[q]>>' # <<pc[q], todo[q], polls[q]>> =>
        /\ \/ /\ Stage[pc[q]] < Stage[pc'[q]]
              /\ pc[q] # "catalog" => todo'[q] = todo[q]
           \/ todo'[q] \subseteq todo[q] /\ todo'[q] # todo[q]
           \/ /\ pc'[q] = pc[q] /\ todo'[q] = todo[q]
              /\ polls[q] < polls'[q] /\ polls'[q] <= MaxPolls
        /\ pc'[q] = "lookup" => todo'[q] # {}
        /\ pc'[q] \in {"negotiate", "poll", "relookup", "transfer"} =>
              current'[q] # {}

(* Each call of a request advances it: the asset under way is one of those *)
(* still to transfer.  One step per action of InitiateStep.                *)
LEMMA AdvanceStep ==
    ASSUME TransferInv, [Next]_vars, NEW q \in Initiator
    PROVE  Advances(q)
<1>0. /\ TypeOK /\ Underway(q)
      /\ pc[q] \in {"negotiate", "poll", "relookup", "transfer"} =>
            \E a \in todo[q] : current[q] = {a}
  BY DEF TransferInv, LoopInv, Underway, Loop
<1> USE <1>0, Stages, TransferAssumption DEF TypeOK, Advances
<1>1. CASE pc'[q] = pc[q] /\ todo'[q] = todo[q] /\ polls'[q] = polls[q]
  BY <1>1
<1>2. CASE Initiate(q)
  BY <1>2 DEF Initiate, Goto
<1>3. CASE FetchCatalogs(q)
  BY <1>3 DEF FetchCatalogs, Goto, Answer
<1>4. CASE LookupAgreement(q)
  BY <1>4 DEF LookupAgreement, Goto
<1>5. CASE Negotiate(q)
  BY <1>5 DEF Negotiate, Goto
<1>6. CASE Poll(q)
  BY <1>6 DEF Poll, Goto, Answer
<1>7. CASE LookupAgain(q)
  <2>1. /\ pc[q] = "relookup" /\ pc'[q] = "transfer"
        /\ UNCHANGED <<todo, current>>
    BY <1>7 DEF LookupAgain, Goto
  <2>2. current'[q] # {}
    BY <2>1
  <2>3. QED
    BY <2>1, <2>2
<1>8. CASE StartTransfer(q)
  <2>1. PICK a \in current[q] :
           /\ todo' = [todo EXCEPT ![q] = @ \ {a}]
           /\ \/ todo[q] # {a} /\ pc' = [pc EXCEPT ![q] = "lookup"]
              \/ pc' = [pc EXCEPT ![q] = "storeJob"]
    BY <1>8 DEF StartTransfer, Goto
  <2>2. a \in todo[q]
    BY <1>8 DEF StartTransfer
  <2>3. todo'[q] = todo[q] \ {a} /\ pc'[q] \in {"lookup", "storeJob"}
    BY <2>1
  <2>4. pc'[q] = "lookup" => todo[q] # {a}
    BY <2>1
  <2>5. QED
    BY <2>2, <2>3, <2>4
<1>9. CASE StoreJob(q)
  BY <1>9 DEF StoreJob, Goto
<1>10. CASE ExpireJob(q)
  BY <1>10 DEF ExpireJob, Answer
<1>11. CASE ConnectorFails(q) \/ RedisFails(q)
  <2>1. /\ pc[q] \in PC \ {"new", "done"} /\ pc'[q] = "done"
        /\ UNCHANGED todo
    BY <1>11 DEF ConnectorFails, RedisFails, Answer, PC
  <2>2. QED
    BY <2>1 DEF PC
<1>12. CASE Restart
  <2>1. /\ \/ pc'[q] = pc[q]
           \/ pc[q] \in PC \ {"new", "done"} /\ pc'[q] = "done"
        /\ UNCHANGED <<todo, polls>>
    BY <1>12 DEF Restart, InFlight
  <2>2. CASE pc'[q] = pc[q]
    BY <1>1, <2>1, <2>2
  <2>3. CASE pc[q] \in PC \ {"new", "done"} /\ pc'[q] = "done"
    BY <2>1, <2>3 DEF PC
  <2>4. QED
    BY <2>1, <2>2, <2>3
<1>13. ASSUME NEW p \in Initiator \ {q}, Initiate(p) \/ InitiateStep(p)
       PROVE  Advances(q)
  BY <1>1, <1>13
     DEF InitiateStep, Initiate, FetchCatalogs, LookupAgreement, Negotiate, Poll,
         LookupAgain, StartTransfer, StoreJob, ExpireJob, ConnectorFails, RedisFails,
         Goto, Answer
<1>14. CASE UNCHANGED initiators
  BY <1>1, <1>14 DEF initiators
<1>15. QED
  BY <1>2, <1>3, <1>4, <1>5, <1>6, <1>7, <1>8, <1>9, <1>10, <1>11, <1>12, <1>13, <1>14,
     HandlerFrame DEF InitiateStep

(* No request goes in circles or is left without an asset to go on with.   *)
THEOREM NoInitiateCircles == Spec => InitiateAdvances
<1>1. TransferInv /\ [Next]_vars => \A q \in Initiator : Advances(q)
  BY AdvanceStep
<1>2. TransferInv /\ [Next]_vars =>
        [\A q \in Initiator :
           <<pc[q], todo[q], polls[q]>>' # <<pc[q], todo[q], polls[q]>> =>
             /\ \/ /\ Stage[pc[q]] < Stage[pc'[q]]
                   /\ pc[q] # "catalog" => todo'[q] = todo[q]
                \/ todo'[q] \subseteq todo[q] /\ todo'[q] # todo[q]
                \/ /\ pc'[q] = pc[q] /\ todo'[q] = todo[q]
                   /\ polls[q] < polls'[q] /\ polls'[q] <= MaxPolls
             /\ pc'[q] = "lookup" => todo'[q] # {}
             /\ pc'[q] \in {"negotiate", "poll", "relookup", "transfer"} =>
                   current'[q] # {}]_vars
  BY <1>1 DEF Advances
<1>3. QED
  BY <1>2, TransferInvariant, PTL DEF Spec, InitiateAdvances

================================================================================
