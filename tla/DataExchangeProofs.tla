-------------------------- MODULE DataExchangeProofs --------------------------
(***************************************************************************)
(* Proofs about DataExchange, for every number of requests on either side. *)
(* The provider's lemmas are those of FootprintSharingProofs with the      *)
(* names the exchange gives its constants and variables; the consumer's    *)
(* those of FootprintTransferProofs.                                       *)
(***************************************************************************)
EXTENDS DataExchange, FootprintTransferProofs

PP == INSTANCE FootprintSharingProofs WITH
    Faulty <- ProviderFaulty, MaxFaults <- MaxProviderFaults,
    pc <- ppc, todo <- ptodo, reply <- preply, faults <- pfaults

(* The assumptions on the provider's constants, as its proofs name them.   *)
LEMMA ProviderAssumptions == PP!SentinelAssumption /\ PP!BoundAssumption
  BY ExchangeAssumption
     DEF P!SentinelAssumption, PP!SentinelAssumption, P!BoundAssumption, PP!BoundAssumption,
         P!Share, PP!Share, P!AssetId, PP!AssetId, P!Contract, PP!Contract, P!Call, PP!Call

(* The two instances say the same.                                         *)
LEMMA SameOffers ==
    ASSUME NEW a
    PROVE  /\ P!Offered(a) <=> PP!Offered(a)
           /\ P!Live(a) <=> PP!Live(a)
           /\ P!AssetId = PP!AssetId
  BY DEF P!Offered, PP!Offered, P!Live, PP!Live, P!AssetId, PP!AssetId, P!Share, PP!Share

(* P! and PP! are one specification: FootprintSharing, and its proofs.     *)
LEMMA SameInit == P!Init <=> PP!Init
  BY DEF P!Init, PP!Init, P!Share, PP!Share, P!AssetId, PP!AssetId

(* Likewise its variables.                                                 *)
LEMMA SameVars == P!vars = PP!vars
  BY DEF P!vars, PP!vars

(* Likewise a share, step by step.                                         *)
LEMMA SameShareStep == \A r : P!ShareStep(r) <=> PP!ShareStep(r)
<1> SUFFICES ASSUME NEW r PROVE P!ShareStep(r) <=> PP!ShareStep(r)
  OBVIOUS
<1> USE DEF P!Goto, PP!Goto, P!Answer, PP!Answer, P!Fault, PP!Fault, P!CanFail, PP!CanFail,
            P!connector, PP!connector
<1>1. P!ShareCheck(r) <=> PP!ShareCheck(r)
  BY DEF P!ShareCheck, PP!ShareCheck, P!Matches, PP!Matches, P!AssetId, PP!AssetId,
         P!Like, PP!Like, P!DecimalPrefix, PP!DecimalPrefix
<1>2. P!QueryFails(r) <=> PP!QueryFails(r)
  BY DEF P!QueryFails, PP!QueryFails
<1>3. P!CreateAsset(r) <=> PP!CreateAsset(r)
  BY DEF P!CreateAsset, PP!CreateAsset
<1>4. P!CreateAssetFails(r) <=> PP!CreateAssetFails(r)
  BY DEF P!CreateAssetFails, PP!CreateAssetFails
<1>5. P!CreatePolicy(r) <=> PP!CreatePolicy(r)
  BY DEF P!CreatePolicy, PP!CreatePolicy
<1>6. P!CreatePolicyFails(r) <=> PP!CreatePolicyFails(r)
  BY DEF P!CreatePolicyFails, PP!CreatePolicyFails
<1>7. P!CreateContract(r) <=> PP!CreateContract(r)
  BY DEF P!CreateContract, PP!CreateContract, P!PutContract, PP!PutContract
<1>8. P!CreateContractFails(r) <=> PP!CreateContractFails(r)
  BY DEF P!CreateContractFails, PP!CreateContractFails, P!PutContract, PP!PutContract
<1>9. QED
  BY <1>1, <1>2, <1>3, <1>4, <1>5, <1>6, <1>7, <1>8 DEF P!ShareStep, PP!ShareStep

(* Likewise an unshare.                                                    *)
LEMMA SameUnshareStep == \A r : P!UnshareStep(r) <=> PP!UnshareStep(r)
<1> SUFFICES ASSUME NEW r PROVE P!UnshareStep(r) <=> PP!UnshareStep(r)
  OBVIOUS
<1> USE DEF P!Goto, PP!Goto, P!Answer, PP!Answer, P!Fault, PP!Fault, P!CanFail, PP!CanFail,
            P!connector, PP!connector, P!NextContract, PP!NextContract
<1>1. P!FindContracts(r) <=> PP!FindContracts(r)
  BY DEF P!FindContracts, PP!FindContracts, P!Matches, PP!Matches, P!AssetId, PP!AssetId,
         P!Like, PP!Like, P!DecimalPrefix, PP!DecimalPrefix
<1>2. P!DeleteContract(r) <=> PP!DeleteContract(r)
  BY DEF P!DeleteContract, PP!DeleteContract
<1>3. P!DeleteContractFails(r) <=> PP!DeleteContractFails(r)
  BY DEF P!DeleteContractFails, PP!DeleteContractFails
<1>4. P!BlankAsset(r) <=> PP!BlankAsset(r)
  BY DEF P!BlankAsset, PP!BlankAsset
<1>5. P!BlankAssetFails(r) <=> PP!BlankAssetFails(r)
  BY DEF P!BlankAssetFails, PP!BlankAssetFails
<1>6. P!DeleteAsset(r) <=> PP!DeleteAsset(r)
  BY DEF P!DeleteAsset, PP!DeleteAsset
<1>7. P!DeleteAssetFails(r) <=> PP!DeleteAssetFails(r)
  BY DEF P!DeleteAssetFails, PP!DeleteAssetFails
<1>8. QED
  BY <1>1, <1>2, <1>3, <1>4, <1>5, <1>6, <1>7 DEF P!UnshareStep, PP!UnshareStep

(* Likewise its next-state relation.                                       *)
LEMMA SameNext == P!Next <=> PP!Next
<1> USE DEF P!Goto, PP!Goto, P!Answer, PP!Answer, P!Fault, PP!Fault, P!CanFail, PP!CanFail,
            P!connector, PP!connector, P!Crash, PP!Crash
<1>0. P!InFlight = PP!InFlight
  BY DEF P!InFlight, PP!InFlight
<1>1. ASSUME NEW r PROVE P!Start(r) <=> PP!Start(r)
  BY <1>0 DEF P!Start, PP!Start, P!StartShare, PP!StartShare, P!StartUnshare, PP!StartUnshare,
         P!Reject, PP!Reject, P!Cardinality, PP!Cardinality
<1>2. ASSUME NEW r PROVE P!DetachedStep(r) <=> PP!DetachedStep(r)
  BY <1>0 DEF P!DetachedStep, PP!DetachedStep, P!DetachedDelete, PP!DetachedDelete,
         P!DetachedDeleteFails, PP!DetachedDeleteFails, P!InUse, PP!InUse,
         P!AssetId, PP!AssetId
<1>3. ASSUME NEW id PROVE P!Negotiate(id) <=> PP!Negotiate(id)
  BY SameOffers DEF P!Negotiate, PP!Negotiate
<1>4. P!Restart <=> PP!Restart
  BY <1>0 DEF P!Restart, PP!Restart
<1>5. P!AssetId = PP!AssetId
  BY DEF P!AssetId, PP!AssetId
<1>6. QED
  BY <1>1, <1>2, <1>3, <1>4, <1>5, SameShareStep, SameUnshareStep DEF P!Next, PP!Next

-----------------------------------------------------------------------------
(***************************************************************************)
(* The invariant of the composition: those of its parts, and that the      *)
(* offers the consumer's part speaks of are what the provider's connector  *)
(* has in its catalog.                                                     *)
(***************************************************************************)
OfferInv == \A a \in Asset : offer[a] = "offered" <=> InCatalog(a)

AddressOK == address \in [Initiator -> [Asset -> {"none", "data", "blank"}]]

ExchangeInv ==
    /\ TransferInv
    /\ PP!ConnectorInv
    /\ OfferInv
    /\ AddressOK

(* What the provider does in a step of the exchange is a step of its own.  *)
LEMMA ProviderPart == [ExchangeNext]_exchangeVars => [PP!Next]_(PP!vars)
<1> SUFFICES ASSUME [ExchangeNext]_exchangeVars PROVE [P!Next]_(P!vars)
  BY SameNext DEF P!vars, PP!vars
<1> USE ExchangeAssumption DEF providerVars, P!vars
<1>1. CASE ProviderStep
  BY <1>1 DEF ProviderStep
<1>2. CASE ConsumerStep
  BY <1>2 DEF ConsumerStep, Alone, InitiatorStep, TransferStep, Expiry
<1>3. ASSUME NEW q \in Initiator, NEW a \in Asset, Agree(q, a) PROVE [P!Next]_(P!vars)
  BY <1>3 DEF Agree, P!Next
<1>4. ASSUME NEW q \in Initiator, NEW a \in Asset, ProviderStarts(q, a)
      PROVE  [P!Next]_(P!vars)
  BY <1>4 DEF ProviderStarts
<1>5. CASE UNCHANGED exchangeVars
  BY <1>5 DEF exchangeVars
<1>6. QED
  BY <1>1, <1>2, <1>3, <1>4, <1>5 DEF ExchangeNext

(* The catalog grows or it shrinks.                                        *)
LEMMA CatalogStep ==
    ASSUME PP!ConnectorInv, [PP!Next]_(PP!vars)
    PROVE  \/ \A a \in Asset : InCatalog(a) => InCatalog(a)'
           \/ \A a \in Asset : InCatalog(a)' => InCatalog(a)
<1>1. PP!OnlyAdds \/ PP!OnlyRemoves
  BY PP!AddsOrRemoves, ProviderAssumptions
<1>2. CASE PP!OnlyAdds
  <2> SUFFICES ASSUME NEW a \in Asset, InCatalog(a) PROVE InCatalog(a)'
    OBVIOUS
  <2>1. PICK c \in PP!AssetId :
          contracts[c] # Absent /\ contracts[c].share = assets[a]
    BY SameOffers DEF InCatalog, PP!Offered
  <2>2. contracts'[c] = contracts[c] /\ assets'[a] = assets[a] /\ PP!Live(a)
    BY <1>2, <2>1, SameOffers, ExchangeAssumption DEF PP!OnlyAdds, InCatalog, PP!Offered
  <2>3. QED
    BY <2>1, <2>2, SameOffers DEF InCatalog, P!Offered, P!Live, PP!Live, P!Share, PP!Share
<1>3. CASE PP!OnlyRemoves
  <2> SUFFICES ASSUME NEW a \in Asset, InCatalog(a)' PROVE InCatalog(a)
    OBVIOUS
  <2>1. PICK c \in P!AssetId :
          contracts'[c] # Absent /\ contracts'[c].share = assets'[a]
    BY DEF InCatalog, P!Offered
  <2>2. contracts'[c] = contracts[c] /\ assets'[a] = assets[a] /\ P!Live(a)'
    BY <1>3, <2>1, SameOffers, ExchangeAssumption
       DEF PP!OnlyRemoves, InCatalog, P!Offered, P!Live, PP!Live, P!Share, PP!Share
  <2>3. QED
    BY <2>1, <2>2 DEF InCatalog, P!Offered, P!Live
<1>4. QED
  BY <1>1, <1>2, <1>3

(* What a provider makes of its catalog is what FootprintTransfer lets     *)
(* providers do.                                                           *)
LEMMA ProviderIsEnvironment ==
    ASSUME ExchangeInv, ProviderStep
    PROVE  [Next]_vars
<1> DEFINE Env == ProvidersShare \/ ProvidersWithdraw \/ UNCHANGED vars
<1>1. /\ offer' = [a \in Asset |-> OfferOf(a, InCatalog(a)')]
      /\ UNCHANGED <<nego, transfer, redis, initiators, readers, faults>>
  BY DEF ProviderStep, ProviderOffers
<1>2. /\ offer \in [Asset -> {"unshared", "offered", "withdrawn"}]
      /\ \A a \in Asset : offer[a] = "offered" <=> InCatalog(a)
  BY DEF ExchangeInv, TransferInv, TypeOK, OfferInv
<1>3. ASSUME \A a \in Asset : InCatalog(a) => InCatalog(a)'
      PROVE  Env
  <2> DEFINE new == {a \in Asset : InCatalog(a)' /\ offer[a] # "offered"}
  <2>1. \A a \in Asset : offer'[a] = IF a \in new THEN "offered" ELSE offer[a]
    BY <1>1, <1>2, <1>3 DEF OfferOf
  <2>2. offer' = [a \in Asset |-> IF a \in new THEN "offered" ELSE offer[a]]
    BY <1>1, <2>1
  <2>3. CASE new = {}
    BY <1>1, <1>2, <2>2, <2>3 DEF vars, redis, initiators, readers
  <2>4. CASE new # {}
    BY <1>1, <2>2, <2>4 DEF ProvidersShare, Offered
  <2>5. QED
    BY <2>3, <2>4
<1>4. ASSUME \A a \in Asset : InCatalog(a)' => InCatalog(a)
      PROVE  Env
  <2> DEFINE old == {a \in Asset : ~ InCatalog(a)' /\ offer[a] = "offered"}
  <2>1. \A a \in Asset : offer'[a] = IF a \in old THEN "withdrawn" ELSE offer[a]
    BY <1>1, <1>2, <1>4 DEF OfferOf
  <2>2. offer' = [a \in Asset |-> IF a \in old THEN "withdrawn" ELSE offer[a]]
    BY <1>1, <2>1
  <2>3. CASE old = {}
    BY <1>1, <1>2, <2>2, <2>3 DEF vars, redis, initiators, readers
  <2>4. CASE old # {}
    BY <1>1, <2>2, <2>4 DEF ProvidersWithdraw, Offered
  <2>5. QED
    BY <2>3, <2>4
<1>5. [PP!Next]_(PP!vars)
  BY ProviderPart DEF ExchangeNext
<1>6. Env
  BY <1>3, <1>4, <1>5, CatalogStep DEF ExchangeInv
<1>7. QED
  BY <1>6 DEF Next, Environment

(* What the consumer does in a step of the exchange is a step of its own.  *)
LEMMA ConsumerPart ==
    ASSUME ExchangeInv, [ExchangeNext]_exchangeVars
    PROVE  [Next]_vars
<1>1. CASE ProviderStep
  BY <1>1, ProviderIsEnvironment
<1>2. ASSUME NEW q \in Initiator, InitiatorStep(q) \/ Alone(Initiate(q))
      PROVE  Next
  BY <1>2 DEF InitiatorStep, Alone, Next
<1>3. ASSUME NEW q \in Initiator, NEW a \in Asset,
             TransferStep(q, a) \/ Alone(NegotiationEnds(q, a))
      PROVE  Next
  BY <1>3 DEF TransferStep, Alone, NegotiationEnds, Deliver, Next, CallbackStep, Environment
<1>4. ASSUME NEW k \in Key, Expiry(k) PROVE Next
  BY <1>4 DEF Expiry, Alone, Next, Environment
<1>5. CASE Alone(Restart)
  BY <1>5 DEF Alone, Next, Environment
<1>6. ASSUME NEW q \in Initiator, NEW a \in Asset, Agree(q, a) PROVE Next
  <2>1. nego[q][a] = "pending" /\ offer[a] = "offered"
    BY <1>6 DEF Agree, ExchangeInv, OfferInv
  <2>2. NegotiationMoves(q, a)
    BY <1>6, <2>1 DEF Agree, NegotiationMoves, Negotiation
  <2>3. QED
    BY <2>2 DEF Next, Environment
<1>7. ASSUME NEW q \in Initiator, NEW a \in Asset, ProviderStarts(q, a) PROVE UNCHANGED vars
  BY <1>7 DEF ProviderStarts
<1>8. CASE UNCHANGED exchangeVars
  BY <1>8 DEF exchangeVars
<1>9. QED
  BY <1>1, <1>2, <1>3, <1>4, <1>5, <1>6, <1>7, <1>8 DEF ExchangeNext, ConsumerStep

(* The offers stay those of the catalog.                                   *)
LEMMA OfferStep ==
    ASSUME OfferInv, [ExchangeNext]_exchangeVars
    PROVE  OfferInv'
<1>1. CASE ProviderStep
  BY <1>1 DEF ProviderStep, ProviderOffers, OfferOf, OfferInv
<1>2. ASSUME UNCHANGED <<offer, assets, contracts>> PROVE OfferInv'
  BY <1>2 DEF OfferInv, InCatalog, P!Offered, P!Live
<1>3. ASSUME NEW q \in Initiator, NEW a \in Asset, Agree(q, a) \/ ProviderStarts(q, a)
      PROVE  UNCHANGED <<offer, assets, contracts>>
  BY <1>3 DEF Agree, ProviderStarts, P!Negotiate, providerVars, vars
<1>4. CASE ConsumerStep
  <2>1. UNCHANGED <<assets, contracts>>
    BY <1>4 DEF ConsumerStep, InitiatorStep, TransferStep, Expiry, Alone, providerVars
  <2>2. ASSUME NEW q \in Initiator, InitiatorStep(q) \/ Alone(Initiate(q))
        PROVE  UNCHANGED offer
    BY <2>2 DEF InitiatorStep, Alone, InitiateStep, Initiate, FetchCatalogs,
         LookupAgreement, Negotiate, Poll, LookupAgain, StartTransfer, StoreJob,
         ExpireJob, ConnectorFails, RedisFails
  <2>3. ASSUME NEW q \in Initiator, NEW a \in Asset,
               TransferStep(q, a) \/ Alone(NegotiationEnds(q, a))
        PROVE  UNCHANGED offer
    BY <2>3 DEF TransferStep, Alone, NegotiationEnds, Deliver, Receive, Fetch, FetchBlank,
         TransferDies, StoreData, ExpireData, StoreDataForGood, CallbackFails, NegotiationMoves
  <2>4. UNCHANGED offer
    BY <1>4, <2>2, <2>3
       DEF ConsumerStep, Alone, Expiry, KeyExpires, Restart
  <2>5. QED
    BY <1>2, <2>1, <2>4
<1>5. CASE UNCHANGED exchangeVars
  BY <1>2, <1>5 DEF exchangeVars, vars, providerVars
<1>6. QED
  BY <1>1, <1>2, <1>3, <1>4, <1>5 DEF ExchangeNext

(* What an address gives is one of three things, and settled when its      *)
(* transfer is started.                                                    *)
LEMMA AddressStep ==
    ASSUME AddressOK, [ExchangeNext]_exchangeVars
    PROVE  /\ AddressOK'
           /\ \A q \in Initiator, a \in Asset :
                 address[q][a] = "none" /\ address'[q][a] = "data" =>
                     P!Live(a) /\ At(q, a, "started")
<1> USE DEF AddressOK
<1>1. ASSUME NEW q \in Initiator, NEW a \in Asset, ProviderStarts(q, a)
      PROVE  /\ AddressOK'
             /\ \A p \in Initiator, b \in Asset :
                   address[p][b] = "none" /\ address'[p][b] = "data" =>
                       P!Live(b) /\ At(p, b, "started")
  BY <1>1 DEF ProviderStarts
<1>2. CASE UNCHANGED address
  BY <1>2
<1>3. QED
  BY <1>1, <1>2
     DEF ExchangeNext, ProviderStep, ConsumerStep, Agree, InitiatorStep, TransferStep,
         Expiry, Alone, exchangeVars

(* The invariant of the composition, from those of its parts.              *)
LEMMA ExchangeInvInit == ExchangeInit => ExchangeInv
<1> SUFFICES ASSUME ExchangeInit PROVE ExchangeInv
  OBVIOUS
<1>1. TransferInv
  BY TransferInit DEF ExchangeInit
<1>2. PP!ConnectorInv
  BY PP!ConnectorInit, ProviderAssumptions, SameInit DEF ExchangeInit
<1>3. OfferInv
  BY ExchangeAssumption
     DEF ExchangeInit, OfferInv, InCatalog, P!Offered, P!Live, P!Init, P!SentinelAssumption
<1>4. AddressOK
  BY DEF ExchangeInit, AddressOK
<1>5. QED
  BY <1>1, <1>2, <1>3, <1>4 DEF ExchangeInv

(* Each step keeps it.                                                     *)
LEMMA ExchangeInvStep == ExchangeInv /\ [ExchangeNext]_exchangeVars => ExchangeInv'
<1> SUFFICES ASSUME ExchangeInv, [ExchangeNext]_exchangeVars PROVE ExchangeInv'
  OBVIOUS
<1>1. TransferInv'
  BY ConsumerPart, TransferInvStep DEF ExchangeInv
<1>2. PP!ConnectorInv'
  BY ProviderPart, ProviderAssumptions, PP!ConnectorStep DEF ExchangeInv
<1>3. OfferInv'
  BY OfferStep DEF ExchangeInv
<1>4. AddressOK'
  BY AddressStep DEF ExchangeInv
<1>5. QED
  BY <1>1, <1>2, <1>3, <1>4 DEF ExchangeInv

(* The invariant of the exchange.                                          *)
LEMMA ExchangeInvariant == ExchangeSpec => []ExchangeInv
  BY ExchangeInvInit, ExchangeInvStep, PTL DEF ExchangeSpec

-----------------------------------------------------------------------------
(***************************************************************************)
(* The exchange implements the specifications of its two parts: initial    *)
(* states are initial states of each, and each step is a step or a stutter *)
(* of each.                                                                *)
(***************************************************************************)
THEOREM PartsArePlayed == ExchangeSpec => ConsumerPlaysItsPart /\ P!Spec
<1>1. ExchangeInit => Init /\ P!Init
  BY DEF ExchangeInit
<1>2. ExchangeInv /\ [ExchangeNext]_exchangeVars => [Next]_vars
  BY ConsumerPart
<1>3. [ExchangeNext]_exchangeVars => [P!Next]_(P!vars)
  BY ProviderPart, SameNext DEF P!vars, PP!vars
<1>4. QED
  BY <1>1, <1>2, <1>3, ExchangeInvariant, PTL
     DEF ConsumerPlaysItsPart, Spec, P!Spec, ExchangeSpec

(* In the exchange too a transfer has an agreement, here one that both     *)
(* connectors have made while the asset was on offer.                      *)
THEOREM ExchangeUnderAgreement == ExchangeSpec => []TransferUnderAgreement
<1>1. ExchangeInv => TransferUnderAgreement
  BY DEF ExchangeInv, TransferInv
<1>2. QED
  BY <1>1, ExchangeInvariant, PTL

-----------------------------------------------------------------------------
(* If blanking works, what is revoked stays without its data.              *)
LEMMA RevokedStaysBlank ==
    ASSUME PP!BlankingWorks
    PROVE  ExchangeInv /\ PP!RevokedIsBlank /\ [ExchangeNext]_exchangeVars =>
               PP!RevokedIsBlank'
<1>1. PP!RevokedInv /\ [PP!Next]_(PP!vars) => PP!RevokedInv'
  BY PP!RevokedStep, ProviderAssumptions
<1>2. QED
  BY <1>1, ProviderPart DEF ExchangeInv, PP!RevokedInv

(***************************************************************************)
(* If the call that blanks an asset does not fail, a transfer started      *)
(* after the asset was revoked is given no data, whatever else fails and   *)
(* whatever agreement it is started under.                                 *)
(***************************************************************************)
THEOREM NothingAfterRevocation ==
    ASSUME PP!BlankingWorks
    PROVE  ExchangeSpec => NoDataAfterRevocation
<1>1. ExchangeInit => PP!RevokedIsBlank
  BY SameInit DEF ExchangeInit, PP!Init, PP!RevokedIsBlank
<1>2. ExchangeInv /\ PP!RevokedIsBlank /\ [ExchangeNext]_exchangeVars => PP!RevokedIsBlank'
  BY RevokedStaysBlank
<1>3. ASSUME ExchangeInv, PP!RevokedIsBlank, [ExchangeNext]_exchangeVars,
             NEW q \in Initiator, NEW a \in Asset,
             address[q][a] = "none", address'[q][a] = "data"
      PROVE  a \notin revoked
  <2>1. PP!Live(a)
    BY <1>3, AddressStep, SameOffers DEF ExchangeInv
  <2>2. QED
    BY <1>3, <2>1, ProviderAssumptions
       DEF PP!Live, PP!RevokedIsBlank, PP!SentinelAssumption
<1>4. ExchangeInv /\ PP!RevokedIsBlank /\ [ExchangeNext]_exchangeVars =>
        [\A q \in Initiator, a \in Asset :
           address[q][a] = "none" /\ address'[q][a] = "data" => a \notin revoked]_address
  BY <1>3
<1>5. QED
  BY <1>1, <1>2, <1>4, ExchangeInvariant, PTL DEF ExchangeSpec, NoDataAfterRevocation

-----------------------------------------------------------------------------
(***************************************************************************)
(* Gone for good.  A transfer has no data address before it is started,    *)
(* and data waiting to be stored came from an address that gave data.      *)
(***************************************************************************)
WayInv ==
    \A q \in Initiator, a \in Asset :
        /\ At(q, a, "none") => address[q][a] = "none"
        /\ At(q, a, "store") => address[q][a] = "data"

(* An address is given once, to a transfer that waits for it.              *)
LEMMA AddressOnce ==
    ASSUME AddressOK, [ExchangeNext]_exchangeVars, NEW q \in Initiator, NEW a \in Asset
    PROVE  \/ address'[q][a] = address[q][a]
           \/ address[q][a] = "none" /\ At(q, a, "started") /\ UNCHANGED transfer
<1>1. CASE UNCHANGED address
  BY <1>1
<1>2. ASSUME NEW p \in Initiator, NEW b \in Asset, ProviderStarts(p, b)
      PROVE  \/ address'[q][a] = address[q][a]
             \/ address[q][a] = "none" /\ At(q, a, "started") /\ UNCHANGED transfer
  BY <1>2 DEF ProviderStarts, AddressOK, vars
<1>3. QED
  BY <1>1, <1>2
     DEF ExchangeNext, ProviderStep, ConsumerStep, Agree, InitiatorStep, TransferStep,
         Expiry, Alone, exchangeVars

(* Only the data of an address gets as far as being stored.                *)
LEMMA FetchedFromData ==
    ASSUME TypeOK, [ExchangeNext]_exchangeVars, NEW q \in Initiator, NEW a \in Asset,
           ~ At(q, a, "store"), At(q, a, "store")'
    PROVE  address[q][a] = "data"
<1>0. transfer \in [Initiator -> [Asset -> Transfer]]
  BY DEF TypeOK
<1>1. ~ UNCHANGED transfer
  BY DEF At
<1>a. ASSUME NEW p \in Initiator, NEW b, NEW stage \in Transfer \ {"store"}
      PROVE  ~ Become(p, b, stage)
  BY <1>0, <1>a DEF Become, At
<1>2. ASSUME NEW p \in Initiator, InitiatorStep(p) \/ Alone(Initiate(p)) PROVE FALSE
  <2>1. \E b \in current[p] : Become(p, b, "started")
    BY <1>1, <1>2 DEF AcceptTransfer, Become, InitiatorStep, Alone, InitiateStep,
         Initiate, FetchCatalogs, LookupAgreement, Negotiate, Poll, LookupAgain,
         StartTransfer, StoreJob, ExpireJob, ConnectorFails, RedisFails
  <2>2. QED
    BY <1>a, <2>1 DEF Transfer
<1>3. ASSUME NEW p \in Initiator, NEW b \in Asset, TransferStep(p, b)
      PROVE  address[q][a] = "data"
  <2>1. address[p][b] = "data" /\ Become(p, b, "store")
    BY <1>3, <1>a
       DEF TransferStep, Alone, Deliver, Receive, Fetch, FetchBlank, TransferDies, StoreData,
           ExpireData, StoreDataForGood, CallbackFails, Transfer
  <2>2. QED
    BY <1>0, <2>1 DEF Become, At
<1>4. ASSUME NEW p \in Initiator, NEW b \in Asset,
             Alone(NegotiationEnds(p, b)) \/ Agree(p, b) \/ ProviderStarts(p, b)
      PROVE  FALSE
  BY <1>1, <1>4 DEF Alone, NegotiationEnds, NegotiationMoves, Agree, ProviderStarts, vars
<1>5. ~ Alone(Restart)
  BY DEF Alone, Restart, Callback, At
<1>6. ~ ProviderStep /\ ~ UNCHANGED exchangeVars /\ \A k \in Key : ~ Expiry(k)
  BY <1>1 DEF ProviderStep, exchangeVars, vars, Expiry, Alone, KeyExpires
<1>7. QED
  BY <1>2, <1>3, <1>4, <1>5, <1>6 DEF ExchangeNext, ConsumerStep

(* Both parts of WayInv are kept.                                          *)
LEMMA WayStep ==
    ASSUME ExchangeInv, WayInv, [ExchangeNext]_exchangeVars
    PROVE  WayInv'
<1> SUFFICES ASSUME NEW q \in Initiator, NEW a \in Asset
             PROVE  /\ At(q, a, "none")' => address'[q][a] = "none"
                    /\ At(q, a, "store")' => address'[q][a] = "data"
  BY DEF WayInv
<1>1. \/ address'[q][a] = address[q][a]
      \/ address[q][a] = "none" /\ At(q, a, "started") /\ UNCHANGED transfer
  BY AddressOnce DEF ExchangeInv
<1>2. At(q, a, "none")' => At(q, a, "none")
  BY ConsumerPart, TransferStays DEF ExchangeInv, TransferInv, At
<1>3. At(q, a, "store")' => address[q][a] = "data"
  BY FetchedFromData DEF ExchangeInv, TransferInv, WayInv
<1>4. QED
  BY <1>1, <1>2, <1>3 DEF WayInv, At

(* A transfer that is past storing its data stays there.                   *)
LEMMA PastStoring ==
    ASSUME TypeOK, [Next]_vars, NEW q \in Initiator, NEW a \in Asset, LoopInv,
           transfer[q][a] \in {"expire", "stored", "failed"}
    PROVE  transfer'[q][a] \in {"expire", "stored", "failed"}
<1> DEFINE Past == transfer'[q][a] \in {"expire", "stored", "failed"}
<1> USE DEF TypeOK
<1>1. CASE UNCHANGED transfer
  BY <1>1
<1>2. ASSUME NEW p \in Initiator, NEW b \in current[p], pc[p] = "transfer",
             AcceptTransfer(p, b)
      PROVE  Past
  <2>1. PICK c \in todo[p] : current[p] = {c}
    BY <1>2 DEF LoopInv, Underway, Loop
  <2>2. transfer[p][b] = "none"
    BY <1>2, <2>1 DEF LoopInv, Ahead, Loop
  <2>3. QED
    BY <1>2, <2>2 DEF AcceptTransfer
<1>3. ASSUME NEW p \in Initiator, StartTransfer(p) \/ ConnectorFails(p) PROVE Past
  BY <1>1, <1>2, <1>3 DEF StartTransfer, ConnectorFails
<1>4. ASSUME NEW p \in Initiator, NEW b \in Asset,
             CallbackStep(p, b) \/ Receive(p, b) \/ TransferDies(p, b)
      PROVE  Past
  <2>1. \E stage \in Transfer :
          /\ Become(p, b, stage)
          /\ transfer[p][b] \in {"expire", "stored", "failed"} =>
                stage \in {"expire", "stored", "failed"}
    BY <1>4 DEF CallbackStep, Receive, TransferDies, Fetch, FetchBlank, StoreData,
                ExpireData, StoreDataForGood, CallbackFails, At, Transfer
  <2>2. QED
    BY <2>1 DEF Become
<1>5. CASE Restart
  BY <1>5 DEF Restart, Callback
<1>6. QED
  BY <1>1, <1>3, <1>4, <1>5, TransferFrame

(* A cache entry appears only by storing what was waiting to be stored.    *)
LEMMA CacheFills ==
    ASSUME TypeOK, [Next]_vars, NEW a \in Asset, cache[a] = Nothing, cache'[a] # Nothing
    PROVE  \E q \in Initiator : At(q, a, "store")
<1> USE TransferAssumption DEF TypeOK, Key
<1>1. ASSUME NEW q \in Initiator, StoreJob(q) \/ ExpireJob(q) PROVE FALSE
  BY <1>1 DEF StoreJob, ExpireJob, Set, Expire
<1>2. ASSUME NEW q \in Initiator, NEW b \in Asset,
             StoreData(q, b) \/ ExpireData(q, b) \/ StoreDataForGood(q, b)
      PROVE  At(q, a, "store")
  BY <1>2 DEF StoreData, ExpireData, StoreDataForGood, Set, Expire
<1>3. ASSUME NEW k \in Key, KeyExpires(k) PROVE FALSE
  BY <1>3 DEF KeyExpires
<1>4. QED
  BY <1>1, <1>2, <1>3, RedisFrame DEF redis

(***************************************************************************)
(* If the call that blanks an asset does not fail, data that was revoked   *)
(* and is neither cached nor on its way does not come back, whatever       *)
(* agreements the consumer has kept and whatever else fails.               *)
(***************************************************************************)
THEOREM GoneStaysGone ==
    ASSUME PP!BlankingWorks
    PROVE  ExchangeSpec => GoneForGood
<1>1. ExchangeInit => WayInv /\ PP!RevokedIsBlank
  BY SameInit DEF ExchangeInit, Init, WayInv, At, PP!Init, PP!RevokedIsBlank
<1>2. ExchangeInv /\ PP!RevokedIsBlank /\ [ExchangeNext]_exchangeVars => PP!RevokedIsBlank'
  BY RevokedStaysBlank
<1>3. ASSUME ExchangeInv, WayInv, PP!RevokedIsBlank, [ExchangeNext]_exchangeVars,
             NEW a \in Asset, a \in revoked, Gone(a)
      PROVE  Gone(a)'
  <2>1. cache'[a] = Nothing
    <3>1. ASSUME NEW q \in Initiator, At(q, a, "store") PROVE FALSE
      BY <1>3, <3>1 DEF WayInv, Gone, OnItsWay, At
    <3>2. QED
      BY <1>3, <3>1, ConsumerPart, CacheFills DEF ExchangeInv, TransferInv, Gone
  <2>2. ASSUME NEW q \in Initiator, address'[q][a] = "data",
               transfer'[q][a] \in {"started", "fetch", "store"}
        PROVE  FALSE
    <3>1. address[q][a] # "none"
      BY <1>3, <2>2, AddressStep, SameOffers, ProviderAssumptions
         DEF ExchangeInv, PP!Live, PP!RevokedIsBlank, PP!SentinelAssumption
    <3>2. address[q][a] = "data"
      BY <1>3, <2>2, <3>1, AddressOnce DEF ExchangeInv
    <3>3. transfer[q][a] \in {"expire", "stored", "failed"}
      BY <1>3, <3>2 DEF Gone, OnItsWay, WayInv, At, ExchangeInv, TransferInv, TypeOK, Transfer
    <3>4. QED
      BY <1>3, <2>2, <3>3, ConsumerPart, PastStoring DEF ExchangeInv, TransferInv
  <2>3. QED
    BY <2>1, <2>2 DEF Gone, OnItsWay
<1>4. ExchangeInv /\ WayInv /\ PP!RevokedIsBlank /\ [ExchangeNext]_exchangeVars =>
        [\A a \in revoked \cap revoked' : Gone(a) => Gone(a)']_exchangeVars
  <2>1. ASSUME ExchangeInv, WayInv, PP!RevokedIsBlank, [ExchangeNext]_exchangeVars
        PROVE  \A a \in revoked \cap revoked' : Gone(a) => Gone(a)'
    <3>1. revoked \subseteq Asset
      BY <2>1, ExchangeAssumption, SameOffers
         DEF ExchangeInv, PP!ConnectorInv, PP!TypeOK
    <3>2. QED
      BY <1>3, <2>1, <3>1
  <2>2. QED
    BY <2>1
<1>5. QED
  BY <1>1, <1>2, <1>4, WayStep, ExchangeInvariant, PTL DEF ExchangeSpec, GoneForGood

-----------------------------------------------------------------------------
(***************************************************************************)
(* Whose data it is.  An agreement is made while the asset is the          *)
(* consumer's, the connector deletes no asset that has one, and takes no   *)
(* id twice: until the asset is blanked it stays the consumer's.           *)
(***************************************************************************)
RecordedInv == \A a \in Asset : HasAgreement(a) => a \in agreements

AgreedIsOwn ==
    \A a \in agreements : assets[a] # Absent /\ (P!Live(a) => assets[a].consumer = Me)

OwnInv == RecordedInv /\ AgreedIsOwn

(* A request that agrees is one whose connector recorded it; no other step *)
(* of the consumer makes an agreement.                                     *)
LEMMA NewAgreement ==
    ASSUME TypeOK, [ExchangeNext]_exchangeVars, NEW a \in Asset, HasAgreement(a)'
    PROVE  HasAgreement(a) \/ \E q \in Initiator : Agree(q, a)
<1> DEFINE Agreed == {"agreed", "finalized", "void"}
<1> SUFFICES ASSUME NEW q \in Initiator, nego'[q][a] \in Agreed, nego[q][a] \notin Agreed
             PROVE  Agree(q, a)
  BY DEF HasAgreement
<1> USE DEF TypeOK
<1>1. ASSUME NEW p \in Initiator, InitiatorStep(p) \/ Alone(Initiate(p)) PROVE FALSE
  <2>1. UNCHANGED nego \/ \E b \in current[p] : StartNegotiation(p, b)
    BY <1>1 DEF InitiatorStep, Alone, InitiateStep, Initiate, FetchCatalogs, LookupAgreement,
         Negotiate, Poll, LookupAgain, StartTransfer, StoreJob, ExpireJob, ConnectorFails,
         RedisFails
  <2>2. nego'[q][a] \in {nego[q][a], "pending"}
    <3>1. CASE UNCHANGED nego
      BY <3>1
    <3>2. ASSUME NEW b \in current[p], StartNegotiation(p, b)
          PROVE  nego'[q][a] \in {nego[q][a], "pending"}
      BY <3>2 DEF StartNegotiation
    <3>3. QED
      BY <2>1, <3>1, <3>2
  <2>3. QED
    BY <2>2
<1>2. ASSUME NEW p \in Initiator, NEW b \in Asset, Alone(NegotiationEnds(p, b))
      PROVE  FALSE
  <2>1. PICK to \in Negotiation :
           /\ nego' = [nego EXCEPT ![p] = [@ EXCEPT ![b] = to]]
           /\ to \in Agreed => to = "agreed" \/ nego[p][b] = "agreed"
    BY <1>2 DEF Alone, NegotiationEnds, NegotiationMoves
  <2>2. to # "agreed"
    BY <1>2, <2>1 DEF Alone, NegotiationEnds
  <2>3. QED
    BY <2>1, <2>2
<1>3. ASSUME NEW p \in Initiator, NEW b \in Asset, TransferStep(p, b) PROVE UNCHANGED nego
  BY <1>3 DEF TransferStep, Alone, Deliver, Receive, Fetch, FetchBlank, TransferDies,
              StoreData, ExpireData, StoreDataForGood, CallbackFails
<1>4. ~ ConsumerStep
  BY <1>1, <1>2, <1>3
     DEF ConsumerStep, Expiry, Alone, KeyExpires, Restart
<1>5. ASSUME NEW p \in Initiator, NEW b \in Asset, Agree(p, b) PROVE Agree(q, a)
  BY <1>5 DEF Agree
<1>6. ASSUME NEW p \in Initiator, NEW b \in Asset PROVE ~ ProviderStarts(p, b)
  BY DEF ProviderStarts, vars
<1>7. ~ ProviderStep /\ ~ UNCHANGED exchangeVars
  BY DEF ProviderStep, exchangeVars, vars
<1>8. QED
  BY <1>4, <1>5, <1>6, <1>7 DEF ExchangeNext

(* No step of the provider takes an agreed asset from under the consumer.  *)
LEMMA ProviderKeepsAgreed ==
    ASSUME PP!ConnectorInv, AgreedIsOwn, [PP!Next]_(PP!vars), NEW a \in agreements
    PROVE  assets'[a] # Absent /\ (P!Live(a)' => assets'[a].consumer = Me)
<1> USE ExchangeAssumption, SameOffers
        DEF AgreedIsOwn, P!Live, P!SentinelAssumption, PP!ConnectorInv, PP!TypeOK, PP!Working
<1>1. CASE UNCHANGED assets
  BY <1>1
<1>2. ASSUME NEW r \in Request, PP!CreateAsset(r) PROVE assets'[a] = assets[a]
  BY <1>2 DEF PP!CreateAsset
<1>3. ASSUME NEW r \in Request, PP!CreateAssetFails(r) PROVE assets'[a] = assets[a]
  BY <1>3 DEF PP!CreateAssetFails
<1>4. ASSUME NEW r \in Request, PP!BlankAsset(r) \/ PP!BlankAssetFails(r)
      PROVE  assets'[a] \in {assets[a], Blank}
  BY <1>4 DEF PP!BlankAsset, PP!BlankAssetFails
<1>5. ASSUME NEW r \in Request, PP!DeleteAsset(r) \/ PP!DeleteAssetFails(r)
      PROVE  assets'[a] = assets[a]
  BY <1>5 DEF PP!DeleteAsset, PP!DeleteAssetFails
<1>6. assets'[a] \in {assets[a], Blank}
  BY <1>1, <1>2, <1>3, <1>4, <1>5, PP!AssetFrame, ProviderAssumptions
<1>7. QED
  BY <1>6

(* Both are kept by every step.                                            *)
LEMMA OwnStep == ExchangeInv /\ OwnInv /\ [ExchangeNext]_exchangeVars => OwnInv'
<1> SUFFICES ASSUME ExchangeInv, OwnInv, [ExchangeNext]_exchangeVars PROVE OwnInv'
  OBVIOUS
<1>1. \/ UNCHANGED agreements
      \/ \E q \in Initiator, a \in Asset :
            /\ Agree(q, a)
            /\ agreements' = agreements \cup {a}
            /\ UNCHANGED assets
  BY DEF ExchangeNext, ProviderStep, ConsumerStep, InitiatorStep, TransferStep, Expiry, Alone,
         Agree, P!Negotiate, ProviderStarts, providerVars, exchangeVars
<1>2. RecordedInv'
  <2> SUFFICES ASSUME NEW a \in Asset, HasAgreement(a)' PROVE a \in agreements'
    BY DEF RecordedInv
  <2>1. CASE HasAgreement(a)
    BY <1>1, <2>1 DEF OwnInv, RecordedInv
  <2>2. ASSUME NEW q \in Initiator, Agree(q, a) PROVE a \in agreements'
    BY <2>2 DEF Agree, P!Negotiate, providerVars
  <2>3. QED
    BY <2>1, <2>2, NewAgreement DEF ExchangeInv, TransferInv
<1>3. AgreedIsOwn'
  <2> SUFFICES ASSUME NEW a \in agreements'
               PROVE  assets'[a] # Absent /\ (P!Live(a)' => assets'[a].consumer = Me)
    BY DEF AgreedIsOwn
  <2>1. CASE a \in agreements
    BY <2>1, ProviderPart, ProviderKeepsAgreed DEF ExchangeInv, OwnInv
  <2>2. ASSUME NEW q \in Initiator, Agree(q, a), UNCHANGED assets
        PROVE  assets'[a] # Absent /\ (P!Live(a)' => assets'[a].consumer = Me)
    BY <2>2, ExchangeAssumption DEF Agree, InCatalog, P!Offered, P!Live, P!SentinelAssumption
  <2>3. QED
    BY <1>1, <2>1, <2>2
<1>4. QED
  BY <1>2, <1>3 DEF OwnInv

(* A company is only ever given data that was shared with it, whatever the *)
(* provider's calls, its own and the processes do.                         *)
THEOREM NobodyElsesData == ExchangeSpec => OnlyOwnData
<1>1. ExchangeInit => OwnInv
  BY DEF ExchangeInit, Init, P!Init, OwnInv, RecordedInv, AgreedIsOwn, HasAgreement
<1>2. ASSUME ExchangeInv, OwnInv, [ExchangeNext]_exchangeVars,
             NEW q \in Initiator, NEW a \in Asset,
             address[q][a] = "none", address'[q][a] = "data"
      PROVE  assets[a].consumer = Me
  <2>1. P!Live(a) /\ At(q, a, "started")
    BY <1>2, AddressStep DEF ExchangeInv
  <2>2. HasAgreement(a)
    BY <1>2, <2>1 DEF At, ExchangeInv, TransferInv, TransferUnderAgreement
  <2>3. QED
    BY <1>2, <2>1, <2>2 DEF OwnInv, RecordedInv, AgreedIsOwn
<1>3. ExchangeInv /\ OwnInv /\ [ExchangeNext]_exchangeVars =>
        [\A q \in Initiator, a \in Asset :
           address[q][a] = "none" /\ address'[q][a] = "data" =>
               assets[a].consumer = Me]_address
  BY <1>2
<1>4. QED
  BY <1>1, <1>3, OwnStep, ExchangeInvariant, PTL DEF ExchangeSpec, OnlyOwnData

-----------------------------------------------------------------------------
(* Nothing stays in the consumer's cache for good, with any number of      *)
(* requests for one asset, if Redis answers, tokens outlive their callback *)
(* and no process is stopped between the SET and the EXPIRE of a value.    *)
THEOREM ExchangeValuesExpire ==
    ASSUME StoresComplete
    PROVE  ExchangeSpec => []CachedExpires
<1>1. ExchangeInit => CachedExpires
  BY DEF ExchangeInit, Init, CachedExpires
<1>2. ExchangeInv /\ CachedExpires /\ [ExchangeNext]_exchangeVars => CachedExpires'
  BY ConsumerPart, CachedStep, StoresKeepExpiry DEF ExchangeInv
<1>3. QED
  BY <1>1, <1>2, ExchangeInvariant, PTL DEF ExchangeSpec

===================================================================================
