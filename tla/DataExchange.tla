---------------------------- MODULE DataExchange ----------------------------
(***************************************************************************)
(* A provider and a consumer together, each with its backend and its       *)
(* connector: what the consumer finds in the catalog, may negotiate and    *)
(* can fetch is what the handlers of FootprintSharing have made of the     *)
(* provider's connector by then, unshares in the middle included.          *)
(*                                                                         *)
(* The two backends share nothing.  They meet in the connectors: in the    *)
(* catalog, in an agreement, which both sides record in one step, and in   *)
(* the data address a transfer is given when the provider's connector      *)
(* starts it.  Readers of the cache change nothing and are left out.       *)
(***************************************************************************)
EXTENDS FootprintTransfer

CONSTANTS
    Me,                                \* the consumer, as a company
    Consumer, IdPrefix, Month, Year,
    Request, MaxInFlight, MaxStamp,
    ProviderFaulty, MaxProviderFaults,
    Absent, Blank

VARIABLES
    assets, contracts, policies, agreements, clock,
    ppc, share, asset, ptodo, preply, detached, pfaults, revoked,
    address      \* Initiator -> Asset -> "none", "data" or "blank"

P == INSTANCE FootprintSharing WITH
    Faulty <- ProviderFaulty, MaxFaults <- MaxProviderFaults,
    pc <- ppc, todo <- ptodo, reply <- preply, faults <- pfaults

providerVars == <<assets, contracts, policies, agreements, clock, ppc, share,
                  asset, ptodo, preply, detached, pfaults, revoked>>
exchangeVars == <<vars, providerVars, address>>

ASSUME ExchangeAssumption ==
    /\ Me \in Consumer
    /\ Asset = P!AssetId
    /\ P!SentinelAssumption
    /\ P!BoundAssumption

ExchangeInit ==
    /\ Init
    /\ P!Init
    /\ offer = [a \in Asset |-> "unshared"]
    /\ address = [q \in Initiator |-> [a \in Asset |-> "none"]]

-----------------------------------------------------------------------------
(* The catalog is asked for the assets shared with the consumer.           *)
InCatalog(a) == P!Offered(a) /\ assets[a].consumer = Me

(* What the provider's connector offers now; what it once did not before.  *)
OfferOf(a, now) ==
    CASE now -> "offered"
      [] ~ now /\ offer[a] = "unshared" -> "unshared"
      [] OTHER -> "withdrawn"

ProviderOffers == offer' = [a \in Asset |-> OfferOf(a, InCatalog(a)')]

(* The provider's backend moves; agreements are not its doing.             *)
ProviderStep ==
    /\ P!Next
    /\ UNCHANGED agreements
    /\ ProviderOffers
    /\ UNCHANGED <<nego, transfer, redis, initiators, readers, faults, address>>

(* Mutant: an offer seen in the catalog is good for ever.                  *)
AgreeToOldOffer(q, a) ==
    /\ nego[q][a] = "pending"
    /\ agreements' = agreements \cup {a}
    /\ nego' = [nego EXCEPT ![q] = [@ EXCEPT ![a] = "agreed"]]
    /\ UNCHANGED <<offer, transfer, redis, initiators, readers, faults, address,
                   assets, contracts, policies, clock, ppc, share, asset, ptodo,
                   preply, detached, pfaults, revoked>>

(* Both connectors agree on an asset that is on offer at that moment.      *)
Agree(q, a) ==
    /\ nego[q][a] = "pending"
    /\ InCatalog(a)
    /\ \/ P!Negotiate(a)
       \/ a \in agreements /\ UNCHANGED providerVars
    /\ nego' = [nego EXCEPT ![q] = [@ EXCEPT ![a] = "agreed"]]
    /\ UNCHANGED <<offer, transfer, redis, initiators, readers, faults, address>>

(* The provider's connector looks the data address up and hands over a     *)
(* token for it.                                                           *)
ProviderStarts(q, a) ==
    /\ At(q, a, "started")
    /\ address[q][a] = "none"
    /\ address' = [address EXCEPT ![q] =
                     [@ EXCEPT ![a] = IF P!Live(a) THEN "data" ELSE "blank"]]
    /\ UNCHANGED <<vars, providerVars>>

(* Mutant: the answer of a blank address is taken for data.                *)
DeliverAnything(q, a) ==
    /\ address[q][a] # "none"
    /\ Receive(q, a) \/ Fetch(q, a)

(* The callback gets what the address of its transfer gives.               *)
Deliver(q, a) ==
    \/ address[q][a] # "none" /\ Receive(q, a)
    \/ address[q][a] = "data" /\ Fetch(q, a)
    \/ address[q][a] = "blank" /\ FetchBlank(q, a)

NegotiationEnds(q, a) ==
    /\ NegotiationMoves(q, a)
    /\ nego'[q][a] # "agreed"

(* The consumer's own steps leave the provider alone.                      *)
Alone(step) == step /\ UNCHANGED <<providerVars, address>>

InitiatorStep(q) == Alone(InitiateStep(q))

TransferStep(q, a) ==
    Alone(\/ Deliver(q, a) \/ TransferDies(q, a)
          \/ StoreData(q, a) \/ ExpireData(q, a) \/ StoreDataForGood(q, a)
          \/ CallbackFails(q, a))

Expiry(k) == Alone(KeyExpires(k))

ConsumerStep ==
    \/ \E q \in Initiator : InitiatorStep(q) \/ Alone(Initiate(q))
    \/ \E q \in Initiator, a \in Asset :
          TransferStep(q, a) \/ Alone(NegotiationEnds(q, a))
    \/ \E k \in Key : Expiry(k)
    \/ Alone(Restart)

ExchangeNext ==
    \/ ProviderStep
    \/ ConsumerStep
    \/ \E q \in Initiator, a \in Asset : Agree(q, a) \/ ProviderStarts(q, a)

ExchangeSpec == ExchangeInit /\ [][ExchangeNext]_exchangeVars

-----------------------------------------------------------------------------
(* Correctness.                                                            *)

(***************************************************************************)
(* The consumer does in the composition what FootprintTransfer says, with  *)
(* a real provider for the environment that module assumed: what is proved *)
(* or checked of it alone holds here.  (The provider's part, P!Spec, is    *)
(* proved as well; checking it would take as long again.)                  *)
(***************************************************************************)
ConsumerPlaysItsPart == Spec

(***************************************************************************)
(* A transfer that the provider's connector starts after unshareFootprint  *)
(* is done with the asset gets no data, although the consumer holds an     *)
(* agreement and its backend reuses it without looking at the catalog      *)
(* again.                                                                  *)
(***************************************************************************)
NoDataAfterRevocation ==
    [][\A q \in Initiator, a \in Asset :
          address[q][a] = "none" /\ address'[q][a] = "data" => a \notin revoked]_address

(***************************************************************************)
(* A company is only ever given data that was shared with it.  No asset id *)
(* names a company, ids are freed by an unshare and may be taken again,    *)
(* and a transfer is started under any agreement for the id: neither the   *)
(* selector nor the policy is looked at again by then.                     *)
(***************************************************************************)
OnlyOwnData ==
    [][\A q \in Initiator, a \in Asset :
          address[q][a] = "none" /\ address'[q][a] = "data" =>
              assets[a].consumer = Me]_address

(* Data of an asset that the provider's connector has given out and the    *)
(* consumer has not stored yet.                                            *)
OnItsWay(a) ==
    \E q \in Initiator :
        address[q][a] = "data" /\ transfer[q][a] \in {"started", "fetch", "store"}

Gone(a) == cache[a] = Nothing /\ ~ OnItsWay(a)

(***************************************************************************)
(* Once an unshare is done with an asset, what was on its way of it has    *)
(* come and what was cached has expired, it is gone for good: no request   *)
(* the consumer makes after that, no agreement its connector has kept and  *)
(* no late callback brings the data into its cache again.                  *)
(***************************************************************************)
GoneForGood ==
    [][\A a \in revoked \cap revoked' : Gone(a) => Gone(a)']_exchangeVars

=============================================================================
