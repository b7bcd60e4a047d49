-------------------------- MODULE FootprintTransfer --------------------------
(***************************************************************************)
(* The consumer side of the SFC backend, for one month: initiating the     *)
(* transfer of every asset shared for it, the callbacks of the connector   *)
(* that bring the data, and reading the data of the job, all concurrent    *)
(* over one connector and one Redis.                                       *)
(*                                                                         *)
(* Jobs of different months have different keys and meet nowhere, so one   *)
(* is enough.  Node switches handlers at every await: each call to the     *)
(* connector or to Redis is one action.                                    *)
(***************************************************************************)
EXTENDS Integers, FiniteSets

CONSTANTS
    Asset,        \* assets providers may share for the month
    Initiator,    \* initiate requests, each used once
    Reader,       \* requests for the job's data, each used once
    Job,          \* the job key, "YYYY-MM"
    MaxPolls,     \* 30 in the code
    Faulty,       \* what may go wrong
    MaxFaults,    \* faults in a behaviour (bound)
    Data,         \* the emissions of an asset
    Nothing       \* no value under a key

(* What is cached under the job: the ids of its assets.                    *)
JobValue == [assetIds : SUBSET Asset]

ASSUME TransferAssumption ==
    /\ Job \notin Asset
    /\ Nothing \notin JobValue \cup {Data}
    /\ Data \notin JobValue
    /\ MaxPolls \in Nat
    /\ MaxFaults \in Nat
    /\ Faulty \subseteq {"connector", "redis", "fetch", "token", "process", "cut"}

Key == Asset \cup {Job}

VARIABLES
    offer,       \* Asset -> "unshared", "offered" or "withdrawn" by its provider
    nego,        \* Initiator -> Asset -> its contract negotiation
    transfer,    \* Initiator -> Asset -> its transfer and the callback of it
    cache,       \* Key -> a JobValue, Data or Nothing
    ttl,         \* keys that expire
    pc,          \* Initiator -> where the handler is
    found,       \* Initiator -> the assets of the catalogs
    todo,        \* Initiator -> assets still to transfer, the current one included
    current,     \* Initiator -> set of the one asset being transferred, or {}
    polls,       \* Initiator -> seconds waited for the negotiation
    reply,       \* Initiator -> what it was answered
    rpc,         \* Reader -> where the handler is
    need,        \* Reader -> assets still to be read
    answer,      \* Reader -> what it was answered
    faults       \* faults so far

initiators == <<pc, found, todo, current, polls, reply>>
readers == <<rpc, need, answer>>
redis == <<cache, ttl>>
vars == <<offer, nego, transfer, cache, ttl, pc, found, todo, current, polls,
          reply, rpc, need, answer, faults>>

PC == {"new", "catalog", "lookup", "negotiate", "poll", "relookup", "transfer",
       "storeJob", "expireJob", "done"}

(* A negotiation that was agreed leaves an agreement even if it ends badly.*)
Negotiation == {"none", "pending", "agreed", "finalized", "terminated", "void"}
Completed == {"finalized", "terminated", "void"}

(* "started" at the connector, then the stages of its callback's handler.  *)
Transfer == {"none", "started", "fetch", "store", "expire", "stored", "failed"}
Callback == {"fetch", "store", "expire"}

Init ==
    /\ offer \in [Asset -> {"unshared", "offered"}]
    /\ nego = [q \in Initiator |-> [a \in Asset |-> "none"]]
    /\ transfer = [q \in Initiator |-> [a \in Asset |-> "none"]]
    /\ cache = [k \in Key |-> Nothing]
    /\ ttl = {}
    /\ pc = [q \in Initiator |-> "new"]
    /\ found = [q \in Initiator |-> {}]
    /\ todo = [q \in Initiator |-> {}]
    /\ current = [q \in Initiator |-> {}]
    /\ polls = [q \in Initiator |-> 0]
    /\ reply = [q \in Initiator |-> "none"]
    /\ rpc = [g \in Reader |-> "new"]
    /\ need = [g \in Reader |-> {}]
    /\ answer = [g \in Reader |-> "none"]
    /\ faults = 0

-----------------------------------------------------------------------------
CanFail(what) == what \in Faulty /\ faults < MaxFaults
Fault(what) == CanFail(what) /\ faults' = faults + 1

Goto(q, label) ==
    /\ pc' = [pc EXCEPT ![q] = label]
    /\ UNCHANGED reply

Answer(q, code) ==
    /\ pc' = [pc EXCEPT ![q] = "done"]
    /\ reply' = [reply EXCEPT ![q] = code]

(* Agreements are looked up by asset id alone, and any of them is taken.   *)
HasAgreement(a) ==
    \E q \in Initiator : nego[q][a] \in {"agreed", "finalized", "void"}

Offered == {a \in Asset : offer[a] = "offered"}

(* storeItem: SET, which drops the key's expiry, and then EXPIRE.          *)
Set(k, value) ==
    /\ cache' = [cache EXCEPT ![k] = value]
    /\ ttl' = ttl \ {k}

(* Mutant: the expiry is forgotten.                                        *)
ExpireNot(k) == UNCHANGED <<cache, ttl>>

Expire(k) ==
    /\ ttl' = IF cache[k] = Nothing THEN ttl ELSE ttl \cup {k}
    /\ UNCHANGED cache

-----------------------------------------------------------------------------
(* Initiating the transfer of a month.                                     *)

Initiate(q) ==
    /\ pc[q] = "new"
    /\ Goto(q, "catalog")
    /\ UNCHANGED <<offer, nego, transfer, redis, found, todo, current, polls,
                   readers, faults>>

(* The catalogs of all connected providers, filtered by month.             *)
FetchCatalogs(q) ==
    /\ pc[q] = "catalog"
    /\ found' = [found EXCEPT ![q] = Offered]
    /\ todo' = [todo EXCEPT ![q] = Offered]
    /\ \/ Offered = {} /\ Answer(q, "notFound")
       \/ Offered # {} /\ Goto(q, "lookup")
    /\ UNCHANGED <<offer, nego, transfer, redis, current, polls, readers, faults>>

(* The next asset: reuse an agreement for it, or negotiate.                *)
LookupAgreement(q) ==
    /\ pc[q] = "lookup"
    /\ \E a \in todo[q] :
          /\ current' = [current EXCEPT ![q] = {a}]
          /\ \/ HasAgreement(a) /\ Goto(q, "transfer")
             \/ ~ HasAgreement(a) /\ Goto(q, "negotiate")
    /\ UNCHANGED <<offer, nego, transfer, redis, found, todo, polls, readers, faults>>

StartNegotiation(q, a) ==
    nego' = [nego EXCEPT ![q] = [@ EXCEPT ![a] = "pending"]]

Negotiate(q) ==
    /\ pc[q] = "negotiate"
    /\ \E a \in current[q] : StartNegotiation(q, a)
    /\ polls' = [polls EXCEPT ![q] = 0]
    /\ Goto(q, "poll")
    /\ UNCHANGED <<offer, transfer, redis, found, todo, current, readers, faults>>

(* Mutant: one second too many.                                            *)
PollOnceMore(q) ==
    /\ pc[q] = "poll"
    /\ \E a \in current[q] :
          \/ nego[q][a] = "finalized" /\ Goto(q, "relookup") /\ UNCHANGED polls
          \/ nego[q][a] \notin Completed /\ polls' = [polls EXCEPT ![q] = @ + 1]
             /\ polls[q] <= MaxPolls /\ UNCHANGED <<pc, reply>>
    /\ UNCHANGED <<offer, nego, transfer, redis, found, todo, current, readers, faults>>

(* Mutant: any end of the negotiation will do.                             *)
PollUntilCompleted(q) ==
    /\ pc[q] = "poll"
    /\ \E a \in current[q] :
          \/ nego[q][a] \in Completed /\ Goto(q, "relookup")
          \/ nego[q][a] \notin Completed /\ Answer(q, "unavailable")
    /\ UNCHANGED <<offer, nego, transfer, redis, found, todo, current, polls,
                   readers, faults>>

(* Mutant: a negotiation that ends badly is tried again.                   *)
PollAndRetry(q) ==
    /\ pc[q] = "poll"
    /\ \E a \in current[q] :
          \/ nego[q][a] = "finalized" /\ Goto(q, "relookup")
          \/ nego[q][a] \in Completed \ {"finalized"} /\ Goto(q, "negotiate")
          \/ nego[q][a] \notin Completed /\ Answer(q, "unavailable")
    /\ UNCHANGED <<offer, nego, transfer, redis, found, todo, current, polls,
                   readers, faults>>

(* Ask for the state once a second, MaxPolls times after the first.        *)
Poll(q) ==
    /\ pc[q] = "poll"
    /\ \E a \in current[q] :
          \/ /\ nego[q][a] = "finalized"
             /\ Goto(q, "relookup")
             /\ UNCHANGED polls
          \/ /\ nego[q][a] \in Completed \ {"finalized"}
             /\ Answer(q, "unavailable")
             /\ UNCHANGED polls
          \/ /\ nego[q][a] \notin Completed
             /\ polls[q] < MaxPolls
             /\ polls' = [polls EXCEPT ![q] = @ + 1]
             /\ UNCHANGED <<pc, reply>>
          \/ /\ nego[q][a] \notin Completed
             /\ polls[q] = MaxPolls
             /\ Answer(q, "unavailable")
             /\ UNCHANGED polls
    /\ UNCHANGED <<offer, nego, transfer, redis, found, todo, current, readers, faults>>

(* The agreement's id is used "as string", whether there is one or not.    *)
LookupAgain(q) ==
    /\ pc[q] = "relookup"
    /\ Goto(q, "transfer")
    /\ UNCHANGED <<offer, nego, transfer, redis, found, todo, current, polls,
                   readers, faults>>

AcceptTransfer(q, a) ==
    transfer' = [transfer EXCEPT ![q] = [@ EXCEPT ![a] = "started"]]

(* Mutant: an error of the connector is swallowed.                         *)
StartTransferQuietly(q) ==
    /\ pc[q] = "transfer"
    /\ \E a \in current[q] :
          /\ AcceptTransfer(q, a) \/ UNCHANGED transfer
          /\ todo' = [todo EXCEPT ![q] = @ \ {a}]
          /\ \/ todo[q] # {a} /\ Goto(q, "lookup")
             \/ todo[q] = {a} /\ Goto(q, "storeJob")
    /\ current' = [current EXCEPT ![q] = {}]
    /\ UNCHANGED <<offer, nego, redis, found, polls, readers, faults>>

StartTransfer(q) ==
    /\ pc[q] = "transfer"
    /\ \E a \in current[q] :
          /\ AcceptTransfer(q, a)
          /\ todo' = [todo EXCEPT ![q] = @ \ {a}]
          /\ \/ todo[q] # {a} /\ Goto(q, "lookup")
             \/ todo[q] = {a} /\ Goto(q, "storeJob")
    /\ current' = [current EXCEPT ![q] = {}]
    /\ UNCHANGED <<offer, nego, redis, found, polls, readers, faults>>

(* cacheAssetIds, once every transfer has been started.                    *)
StoreJob(q) ==
    /\ pc[q] = "storeJob"
    /\ Set(Job, [assetIds |-> found[q]])
    /\ Goto(q, "expireJob")
    /\ UNCHANGED <<offer, nego, transfer, found, todo, current, polls, readers, faults>>

ExpireJob(q) ==
    /\ pc[q] = "expireJob"
    /\ Expire(Job)
    /\ Answer(q, "initiated")
    /\ UNCHANGED <<offer, nego, transfer, found, todo, current, polls, readers, faults>>

(* A connector call fails, having had its effect or not.                   *)
ConnectorFails(q) ==
    /\ Fault("connector")
    /\ \/ /\ pc[q] \in {"catalog", "lookup", "negotiate", "poll", "relookup", "transfer"}
          /\ UNCHANGED <<nego, transfer>>
       \/ /\ pc[q] = "negotiate"
          /\ \E a \in current[q] : StartNegotiation(q, a)
          /\ UNCHANGED transfer
       \/ /\ pc[q] = "transfer"
          /\ \E a \in current[q] : AcceptTransfer(q, a)
          /\ UNCHANGED nego
    /\ Answer(q, "failed")
    /\ UNCHANGED <<offer, redis, found, todo, current, polls, readers>>

(* A Redis command fails before it has an effect.                          *)
RedisFails(q) ==
    /\ Fault("redis")
    /\ pc[q] \in {"storeJob", "expireJob"}
    /\ Answer(q, "failed")
    /\ UNCHANGED <<offer, nego, transfer, redis, found, todo, current, polls, readers>>

-----------------------------------------------------------------------------
(* The callback: the connector hands over an endpoint and a token.         *)

At(q, a, stage) == transfer[q][a] = stage
Become(q, a, stage) == transfer' = [transfer EXCEPT ![q] = [@ EXCEPT ![a] = stage]]

Receive(q, a) ==
    /\ At(q, a, "started")
    /\ Become(q, a, "fetch")
    /\ UNCHANGED <<offer, nego, redis, initiators, readers, faults>>

(* Mutant: the transfer's asset is not recognised, and the call is ignored.*)
FetchNothing(q, a) ==
    /\ At(q, a, "fetch")
    /\ Become(q, a, "stored")
    /\ UNCHANGED <<offer, nego, redis, initiators, readers, faults>>

(* Ask which asset the transfer is for, take the token's expiry and get    *)
(* the data: two reads, nothing changes between them.                      *)
Fetch(q, a) ==
    /\ At(q, a, "fetch")
    /\ Become(q, a, "store")
    /\ UNCHANGED <<offer, nego, redis, initiators, readers, faults>>

(* The asset was blanked before its transfer got a data address.           *)
FetchBlank(q, a) ==
    /\ At(q, a, "fetch")
    /\ offer[a] = "withdrawn"
    /\ Become(q, a, "failed")
    /\ UNCHANGED <<offer, nego, redis, initiators, readers, faults>>

StoreData(q, a) ==
    /\ At(q, a, "store")
    /\ Set(a, Data)
    /\ Become(q, a, "expire")
    /\ UNCHANGED <<offer, nego, initiators, readers, faults>>

ExpireData(q, a) ==
    /\ At(q, a, "expire")
    /\ Expire(a)
    /\ Become(q, a, "stored")
    /\ UNCHANGED <<offer, nego, initiators, readers, faults>>

(* The seconds left, rounded, were 0 or less: EXPIRE is never sent.        *)
StoreDataForGood(q, a) ==
    /\ At(q, a, "store")
    /\ Fault("token")
    /\ Set(a, Data)
    /\ Become(q, a, "stored")
    /\ UNCHANGED <<offer, nego, initiators, readers>>

(* An unknown transfer, a source without data, an error of the connector.  *)
CallbackFails(q, a) ==
    /\ \/ transfer[q][a] = "fetch" /\ Fault("fetch")
       \/ transfer[q][a] \in {"store", "expire"} /\ Fault("redis")
    /\ Become(q, a, "failed")
    /\ UNCHANGED <<offer, nego, redis, initiators, readers>>

-----------------------------------------------------------------------------
(* Reading the data of the job.                                            *)

Respond(g, code) ==
    /\ rpc' = [rpc EXCEPT ![g] = "done"]
    /\ answer' = [answer EXCEPT ![g] = code]

GetData(g) ==
    /\ rpc[g] = "new"
    /\ rpc' = [rpc EXCEPT ![g] = "job"]
    /\ UNCHANGED <<offer, nego, transfer, redis, initiators, need, answer, faults>>

ReadJob(g) ==
    /\ rpc[g] = "job"
    /\ \/ /\ cache[Job] = Nothing
          /\ Respond(g, "notInitiated")
          /\ UNCHANGED need
       \/ /\ cache[Job] # Nothing
          /\ need' = [need EXCEPT ![g] = cache[Job].assetIds]
          /\ rpc' = [rpc EXCEPT ![g] = "assets"]
          /\ UNCHANGED answer
    /\ UNCHANGED <<offer, nego, transfer, redis, initiators, faults>>

(* Promise.all: the reads run side by side, one miss fails the lot.        *)
ReadAsset(g) ==
    /\ rpc[g] = "assets"
    /\ \E a \in need[g] :
          /\ need' = [need EXCEPT ![g] = @ \ {a}]
          /\ \/ cache[a] = Nothing /\ Respond(g, "notInitiated")
             \/ cache[a] # Nothing /\ need[g] = {a} /\ Respond(g, "data")
             \/ cache[a] # Nothing /\ need[g] # {a} /\ UNCHANGED <<rpc, answer>>
    /\ UNCHANGED <<offer, nego, transfer, redis, initiators, faults>>

ReadFails(g) ==
    /\ rpc[g] \in {"job", "assets"}
    /\ Fault("redis")
    /\ Respond(g, "failed")
    /\ UNCHANGED <<offer, nego, transfer, redis, initiators, need>>

-----------------------------------------------------------------------------
(* The environment: providers, both connectors, Redis and the process.     *)

(* Assets come on offer; one withdrawn half way comes back when its month  *)
(* is shared again.                                                        *)
ProvidersShare ==
    /\ \E new \in (SUBSET (Asset \ Offered)) \ {{}} :
          offer' = [a \in Asset |-> IF a \in new THEN "offered" ELSE offer[a]]
    /\ UNCHANGED <<nego, transfer, redis, initiators, readers, faults>>

ProvidersWithdraw ==
    /\ \E old \in (SUBSET Offered) \ {{}} :
          offer' = [a \in Asset |-> IF a \in old THEN "withdrawn" ELSE offer[a]]
    /\ UNCHANGED <<nego, transfer, redis, initiators, readers, faults>>

(* A negotiation moves on, or is terminated, or hangs where it is.         *)
NegotiationMoves(q, a) ==
    /\ \E to \in Negotiation :
          /\ \/ nego[q][a] = "pending" /\ offer[a] = "offered" /\ to = "agreed"
             \/ nego[q][a] = "pending" /\ to = "terminated"
             \/ nego[q][a] = "agreed" /\ to \in {"finalized", "void"}
          /\ nego' = [nego EXCEPT ![q] = [@ EXCEPT ![a] = to]]
    /\ UNCHANGED <<offer, transfer, redis, initiators, readers, faults>>

(* The connectors give up a transfer: the asset was blanked meanwhile, the *)
(* agreement is void.                                                      *)
TransferDies(q, a) ==
    /\ At(q, a, "started")
    /\ offer[a] = "withdrawn" \/ \E p \in Initiator : nego[p][a] = "void"
    /\ Become(q, a, "failed")
    /\ UNCHANGED <<offer, nego, redis, initiators, readers, faults>>

KeyExpires(k) ==
    /\ k \in ttl
    /\ cache' = [cache EXCEPT ![k] = Nothing]
    /\ ttl' = ttl \ {k}
    /\ UNCHANGED <<offer, nego, transfer, initiators, readers, faults>>

InFlight == {q \in Initiator : pc[q] \notin {"new", "done"}}

(* A storeItem between its two commands.                                   *)
BetweenSetAndExpire ==
    \E q \in Initiator : pc[q] = "expireJob" \/ \E a \in Asset : At(q, a, "expire")

(* The process is stopped and started again: every handler is cut off, one *)
(* between SET and EXPIRE too if "cut" is among what may go wrong.         *)
Restart ==
    /\ InFlight # {} \/ \E q \in Initiator, a \in Asset : transfer[q][a] \in Callback
    /\ Fault("process")
    /\ BetweenSetAndExpire => "cut" \in Faulty
    /\ pc' = [q \in Initiator |-> IF q \in InFlight THEN "done" ELSE pc[q]]
    /\ reply' = [q \in Initiator |-> IF q \in InFlight THEN "reset" ELSE reply[q]]
    /\ transfer' = [q \in Initiator |-> [a \in Asset |->
            IF transfer[q][a] \in Callback THEN "failed" ELSE transfer[q][a]]]
    /\ rpc' = [g \in Reader |-> IF rpc[g] = "new" THEN "new" ELSE "done"]
    /\ answer' = [g \in Reader |->
            IF rpc[g] \in {"new", "done"} THEN answer[g] ELSE "reset"]
    /\ UNCHANGED <<offer, nego, redis, found, todo, current, polls, need>>

-----------------------------------------------------------------------------
InitiateStep(q) ==
    \/ FetchCatalogs(q) \/ LookupAgreement(q) \/ Negotiate(q) \/ Poll(q)
    \/ LookupAgain(q) \/ StartTransfer(q) \/ StoreJob(q) \/ ExpireJob(q)
    \/ ConnectorFails(q) \/ RedisFails(q)

CallbackStep(q, a) ==
    \/ Fetch(q, a) \/ FetchBlank(q, a)
    \/ StoreData(q, a) \/ ExpireData(q, a)
    \/ StoreDataForGood(q, a) \/ CallbackFails(q, a)

ReadStep(g) == ReadJob(g) \/ ReadAsset(g) \/ ReadFails(g)

Environment ==
    \/ ProvidersShare \/ ProvidersWithdraw
    \/ \E q \in Initiator, a \in Asset :
          NegotiationMoves(q, a) \/ Receive(q, a) \/ TransferDies(q, a)
    \/ \E k \in Key : KeyExpires(k)
    \/ Restart

Next ==
    \/ \E q \in Initiator : Initiate(q) \/ InitiateStep(q)
    \/ \E q \in Initiator, a \in Asset : CallbackStep(q, a)
    \/ \E g \in Reader : GetData(g) \/ ReadStep(g)
    \/ Environment

Spec == Init /\ [][Next]_vars

(***************************************************************************)
(* Calls come back, and the connector posts the callback of every transfer *)
(* it does not give up.  Nothing is assumed of negotiations: they may hang.*)
(***************************************************************************)
Fairness ==
    /\ \A q \in Initiator : WF_vars(InitiateStep(q))
    /\ \A q \in Initiator, a \in Asset :
          /\ WF_vars(CallbackStep(q, a))
          /\ WF_vars(Receive(q, a) \/ TransferDies(q, a))
    /\ \A g \in Reader : WF_vars(ReadStep(g))

FairSpec == Spec /\ Fairness

-----------------------------------------------------------------------------
(* Correctness.                                                            *)

(* Types; and the wait for a negotiation never exceeds its limit.          *)
TypeOK ==
    /\ offer \in [Asset -> {"unshared", "offered", "withdrawn"}]
    /\ nego \in [Initiator -> [Asset -> Negotiation]]
    /\ transfer \in [Initiator -> [Asset -> Transfer]]
    /\ cache \in [Key -> JobValue \cup {Data, Nothing}]
    /\ ttl \subseteq Key
    /\ pc \in [Initiator -> PC]
    /\ found \in [Initiator -> SUBSET Asset]
    /\ todo \in [Initiator -> SUBSET Asset]
    /\ current \in [Initiator -> SUBSET Asset]
    /\ polls \in [Initiator -> 0 .. MaxPolls]
    /\ reply \in [Initiator -> {"none", "notFound", "unavailable", "failed",
                                "initiated", "reset"}]
    /\ rpc \in [Reader -> {"new", "job", "assets", "done"}]
    /\ need \in [Reader -> SUBSET Asset]
    /\ answer \in [Reader -> {"none", "notInitiated", "data", "failed", "reset"}]
    /\ faults \in 0 .. MaxFaults

(***************************************************************************)
(* A transfer is only ever started under an agreement for its asset,       *)
(* although the agreement is looked up, waited for with a limit, and used  *)
(* "as string" without looking: no timeout, termination, failed call or    *)
(* concurrent request gets past the negotiation.                           *)
(***************************************************************************)
TransferUnderAgreement ==
    \A q \in Initiator, a \in Asset : transfer[q][a] # "none" => HasAgreement(a)

(***************************************************************************)
(* The job in the cache lists only assets whose transfer was started, and  *)
(* a request that answers with the job id has itself started the transfer  *)
(* of everything it found: a request that fails half way publishes no job. *)
(***************************************************************************)
JobIsTransferred ==
    /\ cache[Job] # Nothing =>
          \A a \in cache[Job].assetIds : \E q \in Initiator : transfer[q][a] # "none"
    /\ \A q \in Initiator : reply[q] = "initiated" =>
          \A a \in found[q] : transfer[q][a] # "none"

(***************************************************************************)
(* Nothing stays in the cache for good: a value without an expiry is one   *)
(* whose storeItem is between SET and EXPIRE, whatever other stores of the *)
(* same key run beside it.  It speaks of stores that are completed: a      *)
(* failing EXPIRE, a process stopped between the two commands and a token  *)
(* that has run out (faults "redis", "cut" and "token") keep a value.      *)
(***************************************************************************)
CachedExpires ==
    \A k \in Key : cache[k] # Nothing /\ k \notin ttl =>
        \/ k = Job /\ \E q \in Initiator : pc[q] = "expireJob"
        \/ k \in Asset /\ \E q \in Initiator : transfer[q][k] = "expire"

(* The stages of an initiate request.                                      *)
Stage == [new |-> 0, catalog |-> 1, lookup |-> 2, negotiate |-> 3, poll |-> 4,
          relookup |-> 5, transfer |-> 6, storeJob |-> 7, expireJob |-> 8, done |-> 9]

(***************************************************************************)
(* No initiate request goes in circles or gets stuck, however negotiations *)
(* end and whatever fails: each of its calls brings it to a later stage,   *)
(* leaves it one asset less, or is one more of its MaxPolls polls, and it  *)
(* is never at a call without an asset to make it for.                     *)
(***************************************************************************)
InitiateAdvances ==
    [][\A q \in Initiator : <<pc[q], todo[q], polls[q]>>' # <<pc[q], todo[q], polls[q]>> =>
          /\ \/ /\ Stage[pc[q]] < Stage[pc'[q]]
                /\ pc[q] # "catalog" => todo'[q] = todo[q]
             \/ todo'[q] \subseteq todo[q] /\ todo'[q] # todo[q]
             \/ /\ pc'[q] = pc[q] /\ todo'[q] = todo[q]
                /\ polls[q] < polls'[q] /\ polls'[q] <= MaxPolls
          /\ pc'[q] = "lookup" => todo'[q] # {}
          /\ pc'[q] \in {"negotiate", "poll", "relookup", "transfer"} =>
                current'[q] # {}]_vars

(***************************************************************************)
(* Every initiate request is answered although negotiations may hang       *)
(* for ever: the wait is bounded.                                          *)
(***************************************************************************)
InitiateAnswered == \A q \in Initiator : pc[q] # "new" ~> pc[q] = "done"

(***************************************************************************)
(* Of a transfer that was started, the data gets into the cache or the     *)
(* callback is known to have failed.                                       *)
(***************************************************************************)
DataArrives ==
    \A q \in Initiator, a \in Asset :
        transfer[q][a] = "started" ~> cache[a] = Data \/ transfer[q][a] = "failed"

=============================================================================
