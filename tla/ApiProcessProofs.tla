--------------------------- MODULE ApiProcessProofs ---------------------------
(***************************************************************************)
(* Proofs about ApiProcess, for every set of companies, months, requests,  *)
(* listings and keys, and any faults, of Keycloak's calls too.             *)
(***************************************************************************)
EXTENDS ApiProcess, FootprintSharingLedgerProofs, DivisionLemmas, SequenceTheorems,
        FiniteSetTheorems

(***************************************************************************)
(* The process may end for reasons that FootprintSharing does not have,    *)
(* and with no request in flight: what the connector holds stays backed.   *)
(***************************************************************************)
LEMMA CrashKeepsConnector ==
    ASSUME ConnectorInv, Crash, faults' \in 0 .. MaxFaults,
           UNCHANGED <<connector, clock, share, asset, todo, revoked>>
    PROVE  ConnectorInv'
<1>1. TypeOK'
  BY DEF ConnectorInv, TypeOK, Crash, connector, PC, Reply, Working
<1>2. \A r \in Request : pc'[r] \notin Holding
  BY DEF Crash, InFlight, PC, ConnectorInv, TypeOK, Holding
<1>3. ContractBacked'
  BY DEF ConnectorInv, ContractBacked, connector
<1>4. HolderInv' /\ ExclusiveInv'
  BY <1>2 DEF HolderInv, ExclusiveInv, Holding
<1>5. DetachedInv'
  BY DEF Crash, DetachedInv
<1>6. QED
  BY <1>1, <1>3, <1>4, <1>5 DEF ConnectorInv

(* Each step of the process is a step of the sharing handlers or an end of *)
(* the process.                                                            *)
LEMMA SharingFrame ==
    ASSUME ConnectorInv, [ApiNext]_apiVars
    PROVE  \/ [Next]_vars
           \/ /\ Crash
              /\ faults' \in 0 .. MaxFaults
              /\ UNCHANGED <<connector, clock, share, asset, todo, revoked>>
<1> DEFINE Goal == \/ [Next]_vars
                   \/ /\ Crash
                      /\ faults' \in 0 .. MaxFaults
                      /\ UNCHANGED <<connector, clock, share, asset, todo, revoked>>
<1>0. faults \in 0 .. MaxFaults
  BY DEF ConnectorInv, TypeOK
<1>1. ASSUME NEW r \in Request, AcceptShare(r) \/ AcceptUnshare(r) \/ SharingGoesOn(r)
      PROVE  Goal
  BY <1>1 DEF AcceptShare, AcceptUnshare, SharingGoesOn, Next, Start, DetachedStep
<1>2. ASSUME NEW id \in AssetId, Negotiate(id) PROVE Goal
  BY <1>2 DEF Next
<1>3. ASSUME NEW l \in Lister, AcceptListing(l) \/ ListStep(l) PROVE Goal
  BY <1>3 DEF AcceptListing, StartListing, ListStep, ListAssets, QueryDefinitions, ListingFails
<1>4. CASE StartupStep \/ TokenStep
  BY <1>4 DEF StartupStep, TokenStep
<1>5. ASSUME NEW r \in Request, RollbackEndsProcess(r) PROVE Goal
  BY <1>5 DEF RollbackEndsProcess, Next, DetachedStep
<1>6. CASE KeycloakEndsProcess
  BY <1>0, <1>6, BoundAssumption DEF KeycloakEndsProcess, K!InitFails
<1>7. CASE Stop
  BY <1>0, <1>7, BoundAssumption DEF Stop, Fault, CanFail
<1>8. CASE UNCHANGED apiVars
  BY <1>8 DEF apiVars
<1>9. QED
  BY <1>1, <1>2, <1>3, <1>4, <1>5, <1>6, <1>7, <1>8 DEF ApiNext

(* Hence every step of the process keeps what FootprintSharing promises.   *)
LEMMA ApiConnectorStep == ConnectorInv /\ [ApiNext]_apiVars => ConnectorInv'
  BY SharingFrame, ConnectorStep, CrashKeepsConnector

(***************************************************************************)
(* A contract definition keeps its asset and its policy in a process that  *)
(* lists, verifies tokens and ends for reasons of Keycloak's.              *)
(***************************************************************************)
THEOREM ApiContractsBacked == ApiSpec => []ContractBacked
<1>1. ApiInit => ConnectorInv
  BY ConnectorInit DEF ApiInit
<1>2. ConnectorInv => ContractBacked
  BY DEF ConnectorInv
<1>3. QED
  BY <1>1, <1>2, ApiConnectorStep, PTL DEF ApiSpec

(***************************************************************************)
(* If blanking does not fail, what has been revoked gives nothing, also    *)
(* when the process ends between an unshare's calls for Keycloak's reasons.*)
(***************************************************************************)
THEOREM ApiRevokedStaysBlank ==
    ASSUME BlankingWorks
    PROVE  ApiSpec => []RevokedIsBlank
<1>1. ApiInit => RevokedInv
  BY ConnectorInit DEF ApiInit, Init, RevokedInv, RevokedIsBlank
<1>2. RevokedInv /\ [ApiNext]_apiVars => RevokedInv'
  <2> SUFFICES ASSUME RevokedInv, [ApiNext]_apiVars PROVE RevokedInv'
    OBVIOUS
  <2>1. CASE [Next]_vars
    BY <2>1, RevokedStep
  <2>2. CASE Crash /\ UNCHANGED <<connector, clock, share, asset, todo, revoked>>
    BY <2>2, ApiConnectorStep DEF RevokedInv, RevokedIsBlank, connector
  <2>3. QED
    BY <2>1, <2>2, SharingFrame DEF RevokedInv
<1>3. RevokedInv => RevokedIsBlank
  BY DEF RevokedInv
<1>4. QED
  BY <1>1, <1>2, <1>3, PTL DEF ApiSpec

(***************************************************************************)
(* Where lookups are exact the process keeps the ledger's promises: behind *)
(* the token check, beside listings, and when it ends in the middle of     *)
(* them (an outage of the ledger, whatever the reason).                    *)
(***************************************************************************)
THEOREM ApiImplementsLedger ==
    ASSUME ExactLookup
    PROVE  ApiSpec => ImplementsLedger
<1>1. ConnectorInv /\ [ApiNext]_apiVars => [Ledger!Next]_(Ledger!vars)
  <2> SUFFICES ASSUME ConnectorInv, [ApiNext]_apiVars PROVE [Ledger!Next]_(Ledger!vars)
    OBVIOUS
  <2>1. CASE [Next]_vars
    BY <2>1, LedgerStep
  <2>2. CASE Crash /\ UNCHANGED <<connector, clock, share, asset, todo, revoked>>
    BY <2>2, CrashIsOutage DEF connector, Ledger!Next, ConnectorInv
  <2>3. QED
    BY <2>1, <2>2, SharingFrame
<1>2. ApiInit => ConnectorInv /\ Ledger!Init
  BY ConnectorInit, LedgerInit DEF ApiInit
<1>3. QED
  BY <1>1, <1>2, ApiConnectorStep, PTL DEF ApiSpec, ImplementsLedger, Ledger!Spec

(* No handler goes in circles in such a process: it only ends early.       *)
THEOREM ApiNoHandlerCircles == ApiSpec => HandlersAdvance
<1>1. ConnectorInv /\ [ApiNext]_apiVars => \A r \in Request : Advances(r)
  <2> SUFFICES ASSUME ConnectorInv, [ApiNext]_apiVars
               PROVE  \A r \in Request : Advances(r)
    OBVIOUS
  <2>1. CASE [Next]_vars
    BY <2>1, AdvanceStep DEF ConnectorInv
  <2>2. CASE Crash /\ UNCHANGED todo
    BY <2>2 DEF Crash, InFlight, Advances, Stage, ConnectorInv, TypeOK, PC
  <2>3. QED
    BY <2>1, <2>2, SharingFrame
<1>2. ConnectorInv /\ [ApiNext]_apiVars =>
        [\A r \in Request : pc'[r] # pc[r] \/ todo'[r] # todo[r] =>
           /\ \/ /\ Stage[pc[r]] < Stage[pc'[r]]
                 /\ pc[r] # "find" => todo'[r] = todo[r]
              \/ todo'[r] \subseteq todo[r] /\ todo'[r] # todo[r]
           /\ pc'[r] = "deleteContract" => todo'[r] # {}]_vars
  BY <1>1 DEF Advances
<1>3. ApiInit => ConnectorInv
  BY ConnectorInit DEF ApiInit
<1>4. QED
  BY <1>2, <1>3, ApiConnectorStep, PTL DEF ApiSpec, HandlersAdvance

-----------------------------------------------------------------------------
(***************************************************************************)
(* The key.  A token that verifies is signed with a key, so a process that *)
(* verifies one has the key; the key only goes with the process and all    *)
(* its handlers.                                                           *)
(***************************************************************************)
KeyInv == K!TypeOK /\ ServedWithKey

(* No token verifies without a key, of another realm or too old.           *)
LEMMA VerifiedHasKey ==
    ASSUME K!TypeOK, K!Verified(Provider)
    PROVE  publicKey # NoKey
  BY KeyAssumption DEF K!TypeOK, K!Verified

(* The end of the process: no handler behind the middleware is left.       *)
LEMMA NoneLeft ==
    ASSUME TypeOK, ListingTypeOK, Crash, CutListings
    PROVE  /\ \A r \in Request :
                 pc'[r] \notin {"check", "createAsset", "createPolicy", "createContract"}
           /\ \A l \in Lister : lpc'[l] \notin {"assets", "definitions"}
<1>1. \A r \in Request : pc'[r] \notin {"check", "createAsset", "createPolicy", "createContract"}
  BY DEF Crash, InFlight, TypeOK, PC
<1>2. \A l \in Lister : lpc'[l] \notin {"assets", "definitions"}
  BY DEF CutListings, Over
<1>3. QED
  BY <1>1, <1>2

(* Handlers that go on do not get behind the middleware.                   *)
LEMMA NoneEnters ==
    ASSUME TypeOK, NEW r \in Request, AcceptUnshare(r) \/ SharingGoesOn(r),
           NEW q \in Request,
           pc'[q] \in {"check", "createAsset", "createPolicy", "createContract"}
    PROVE  pc[q] \in {"check", "createAsset", "createPolicy", "createContract"}
<1> USE DEF TypeOK
<1>1. CASE AcceptUnshare(r) \/ Reject(r)
  BY <1>1 DEF AcceptUnshare, StartUnshare, Reject, Goto, Answer
<1>2. CASE ShareStep(r)
  BY <1>2 DEF ShareStep, ShareCheck, QueryFails, CreateAsset, CreateAssetFails,
              CreatePolicy, CreatePolicyFails, CreateContract, CreateContractFails,
              Goto, Answer
<1>3. CASE UnshareStep(r)
  BY <1>3 DEF UnshareStep, FindContracts, DeleteContract, DeleteContractFails,
              BlankAsset, BlankAssetFails, DeleteAsset, DeleteAssetFails,
              NextContract, Goto, Answer
<1>4. CASE ~ InUse(r) /\ DetachedDelete(r)
  BY <1>4 DEF DetachedDelete
<1>5. QED
  BY <1>1, <1>2, <1>3, <1>4 DEF SharingGoesOn

-----------------------------------------------------------------------------
(***************************************************************************)
(* The listing.  What was defined at the first read has been seen, because *)
(* a definition has its asset.                                             *)
(***************************************************************************)
SeenInv ==
    \A l \in Lister : lpc[l] = "definitions" =>
        \A id \in defined[l] : \E a \in seen[l] : a.id = id

ApiInv == ConnectorInv /\ ListingTypeOK /\ SeenInv /\ KeyInv

(* What a listing reads of an asset that is not blanked.                   *)
LEMMA LiveMetaData ==
    ASSUME TypeOK, NEW id \in AssetId, Live(id)
    PROVE  MetaDataOf(id) \in MetaData /\ MetaDataOf(id).id = id
  BY DEF TypeOK, Live, MetaDataOf, MetaData, Share

(* Listings keep their types and SeenInv beside every other step.          *)
LEMMA ListingStep ==
    ASSUME ConnectorInv, ListingTypeOK, SeenInv, [ApiNext]_apiVars
    PROVE  ListingTypeOK' /\ SeenInv'
<1> DEFINE Goal == ListingTypeOK' /\ SeenInv'
<1> USE DEF ListingTypeOK, SeenInv
<1>1. CASE UNCHANGED listers
  BY <1>1 DEF listers
<1>2. ASSUME NEW l \in Lister, AcceptListing(l) PROVE Goal
  BY <1>2 DEF AcceptListing, StartListing
<1>3. ASSUME NEW l \in Lister, ListAssets(l) PROVE Goal
  <2> DEFINE now == {MetaDataOf(id) : id \in {i \in AssetId : Live(i)}}
  <2>1. now \subseteq MetaData
    BY LiveMetaData DEF ConnectorInv
  <2>2. ASSUME NEW id \in Defined PROVE \E a \in now : a.id = id
    <3>1. Live(id)
      BY <2>2 DEF Defined, Live, ConnectorInv, ContractBacked, TypeOK, Contract
    <3>2. QED
      BY <2>2, <3>1, LiveMetaData DEF Defined, ConnectorInv
  <2>3. Defined \subseteq AssetId
    BY DEF Defined
  <2>4. /\ seen' = [seen EXCEPT ![l] = now]
        /\ defined' = [defined EXCEPT ![l] = Defined]
        /\ lpc' = [lpc EXCEPT ![l] = "definitions"]
        /\ UNCHANGED listed
    BY <1>3 DEF ListAssets
  <2> HIDE DEF now
  <2>5. QED
    BY <2>1, <2>2, <2>3, <2>4
<1>4. ASSUME NEW ls \in SUBSET Lister, NEW how \in {"done", "failed"}, Over(ls, how),
             listed' \in [Lister -> SUBSET MetaData]
      PROVE  Goal
  BY <1>4 DEF Over
<1>5. ASSUME NEW l \in Lister, QueryDefinitions(l) PROVE Goal
  <2>1. listed' \in [Lister -> SUBSET MetaData]
    BY <1>5 DEF QueryDefinitions, Keep
  <2>2. QED
    BY <1>4, <1>5, <2>1 DEF QueryDefinitions
<1>6. ASSUME NEW l \in Lister, ListingFails(l) PROVE Goal
  BY <1>4, <1>6 DEF ListingFails
<1>7. CASE CutListings
  <2>1. PICK ls \in SUBSET Lister : Over(ls, "failed")
    BY <1>7 DEF CutListings
  <2>2. QED
    BY <1>4, <1>7, <2>1 DEF CutListings
<1>8. QED
  BY <1>1, <1>2, <1>3, <1>5, <1>6, <1>7
     DEF ApiNext, apiVars, ListStep, StartupStep, TokenStep, RollbackEndsProcess, Reboot,
         KeycloakEndsProcess, Stop

(* Keys keep their types, and what was let in has its key, in every step.  *)
LEMMA KeyStep ==
    ASSUME ConnectorInv, ListingTypeOK, KeyInv, [ApiNext]_apiVars
    PROVE  KeyInv'
<1> USE KeyAssumption DEF KeyInv
<1>0. TypeOK /\ TypeOK' /\ faults' \in 0 .. MaxFaults
  BY ApiConnectorStep DEF ConnectorInv, TypeOK
<1>1. K!TypeOK'
  <2>1. CASE UNCHANGED keys
    BY <1>0, <2>1 DEF keys, K!TypeOK
  <2>2. CASE StartupStep \/ TokenStep
    BY <1>0, <2>2 DEF StartupStep, TokenStep, K!TypeOK, K!AdminAuth, K!FetchKey,
                      K!Login, K!TokenExpires, K!Rotate
  <2>3. CASE K!Boot /\ UNCHANGED <<signing, token>>
    BY <1>0, <2>3 DEF K!Boot, K!TypeOK
  <2>4. QED
    BY <2>1, <2>2, <2>3 DEF ApiNext, apiVars, RollbackEndsProcess, Reboot,
                            KeycloakEndsProcess, K!InitFails, Stop
<1>2. ServedWithKey'
  <2>1. ASSUME NEW r \in Request, AcceptUnshare(r) \/ SharingGoesOn(r),
               UNCHANGED <<listers, keys>>
        PROVE  ServedWithKey'
    BY <1>0, <2>1, NoneEnters DEF ServedWithKey, listers, keys
  <2>2. ASSUME NEW r \in Request, AcceptShare(r), UNCHANGED keys PROVE ServedWithKey'
    BY <2>2, VerifiedHasKey DEF AcceptShare, ServedWithKey, keys
  <2>3. ASSUME NEW l \in Lister, AcceptListing(l), UNCHANGED keys PROVE ServedWithKey'
    BY <2>3, VerifiedHasKey DEF AcceptListing, ServedWithKey, keys
  <2>4. ASSUME NEW l \in Lister, ListStep(l), UNCHANGED keys PROVE ServedWithKey'
    <3>1. UNCHANGED pc /\ \A m \in Lister :
             lpc'[m] \in {"assets", "definitions"} => lpc[m] \in {"assets", "definitions"}
      BY <2>4 DEF ListStep, ListAssets, QueryDefinitions, ListingFails, Over, vars, ListingTypeOK
    <3>2. QED
      BY <2>4, <3>1 DEF ServedWithKey, keys
  <2>5. ASSUME NEW id \in AssetId, Negotiate(id), UNCHANGED <<listers, keys>>
        PROVE  ServedWithKey'
    BY <2>5 DEF Negotiate, ServedWithKey, listers, keys
  <2>6. CASE StartupStep \/ TokenStep
    <3>1. UNCHANGED <<pc, lpc>>
      BY <2>6 DEF StartupStep, TokenStep, vars, listers
    <3>2. publicKey' = NoKey => publicKey = NoKey
      BY <2>6 DEF StartupStep, TokenStep, K!TypeOK, K!AdminAuth, K!FetchKey,
                  K!Login, K!TokenExpires, K!Rotate
    <3>3. QED
      BY <3>1, <3>2 DEF ServedWithKey
  <2>7. CASE Crash /\ CutListings
    BY <1>0, <2>7, NoneLeft DEF ServedWithKey
  <2>8. ASSUME NEW r \in Request, RollbackEndsProcess(r) PROVE ServedWithKey'
    BY <2>7, <2>8 DEF RollbackEndsProcess, Reboot, DetachedDelete, DetachedDeleteFails
  <2>9. CASE KeycloakEndsProcess \/ Stop
    BY <2>7, <2>9 DEF KeycloakEndsProcess, Stop, Reboot
  <2>10. CASE UNCHANGED apiVars
    BY <2>10 DEF apiVars, vars, listers, keys, ServedWithKey
  <2>11. QED
    BY <2>1, <2>2, <2>3, <2>4, <2>5, <2>6, <2>8, <2>9, <2>10 DEF ApiNext
<1>3. QED
  BY <1>1, <1>2

(* The invariant, from the parts.                                          *)
LEMMA ApiInvInit == ApiInit => ApiInv
<1> SUFFICES ASSUME ApiInit PROVE ApiInv
  OBVIOUS
<1>1. ConnectorInv
  BY ConnectorInit DEF ApiInit
<1>2. ListingTypeOK /\ SeenInv
  BY DEF ApiInit, ListingInit, ListingTypeOK, SeenInv
<1>3. KeyInv
  BY BoundAssumption DEF ApiInit, Init, ListingInit, KeyInv, K!Init, K!TypeOK, ServedWithKey
<1>4. QED
  BY <1>1, <1>2, <1>3 DEF ApiInv

(* The invariant of the process.                                           *)
LEMMA ApiInvariant == ApiSpec => []ApiInv
<1>1. ApiInv /\ [ApiNext]_apiVars => ApiInv'
  BY ApiConnectorStep, ListingStep, KeyStep DEF ApiInv
<1>2. QED
  BY <1>1, ApiInvInit, PTL DEF ApiSpec

(* Types of the connector, the handlers, the listings and the key.         *)
THEOREM ApiTypes == ApiSpec => []ApiTypeOK
<1>1. ApiInv => ApiTypeOK
  BY DEF ApiInv, KeyInv, ConnectorInv, ApiTypeOK
<1>2. QED
  BY <1>1, ApiInvariant, PTL

(* Nothing behind authMiddleware is served by a process without the key.   *)
THEOREM OnlyServedWithKey == ApiSpec => []ServedWithKey
<1>1. ApiInv => ServedWithKey
  BY DEF ApiInv, KeyInv
<1>2. QED
  BY <1>1, ApiInvariant, PTL

-----------------------------------------------------------------------------
(* A listing is answered only where the definitions are queried.           *)
LEMMA AnswersAtQuery ==
    ASSUME ListingTypeOK, [ApiNext]_apiVars, NEW l \in Lister,
           lpc[l] = "definitions", lpc'[l] = "done"
    PROVE  QueryDefinitions(l)
<1> USE DEF ListingTypeOK
<1>1. ASSUME NEW m \in Lister, ListStep(m) PROVE QueryDefinitions(l)
  BY <1>1 DEF ListStep, ListAssets, QueryDefinitions, ListingFails, Over
<1>2. ASSUME NEW m \in Lister PROVE ~ AcceptListing(m)
  BY DEF AcceptListing, StartListing
<1>3. ~ CutListings
  BY DEF CutListings, Over
<1>4. ~ UNCHANGED listers
  BY DEF listers
<1>5. QED
  BY <1>1, <1>2, <1>3, <1>4
     DEF ApiNext, apiVars, StartupStep, TokenStep, RollbackEndsProcess, Reboot,
         KeycloakEndsProcess, Stop

(* What it answers is what it has seen and what is defined now.            *)
LEMMA AnswersSeen ==
    ASSUME ListingTypeOK, [ApiNext]_apiVars, NEW l \in Lister,
           lpc[l] = "definitions", lpc'[l] = "done"
    PROVE  listed'[l] = {a \in seen[l] : a.id \in Defined}
<1>1. QueryDefinitions(l)
  BY AnswersAtQuery
<1>2. QED
  BY <1>1 DEF QueryDefinitions, Keep, ListingTypeOK

(* What a listing gives out is shared when it is given out.                *)
THEOREM ListingsAreShared == ApiSpec => ListedIsShared
<1>1. ApiInv /\ [ApiNext]_apiVars =>
         [\A l \in Lister : lpc[l] = "definitions" /\ lpc'[l] = "done" =>
            \A a \in listed'[l] : contracts[a.id] # Absent /\ Live(a.id)]_listers
  <2> SUFFICES ASSUME ApiInv, [ApiNext]_apiVars, NEW l \in Lister,
                      lpc[l] = "definitions", lpc'[l] = "done", NEW a \in listed'[l]
               PROVE  contracts[a.id] # Absent /\ Live(a.id)
    OBVIOUS
  <2>1. a.id \in Defined
    BY AnswersSeen DEF ApiInv
  <2>2. QED
    BY <2>1 DEF Defined, Live, ApiInv, ConnectorInv, ContractBacked, TypeOK, Contract
<1>2. QED
  BY <1>1, ApiInvariant, PTL DEF ApiSpec, ListedIsShared

(* What is shared from the first read to the second is in the listing.     *)
THEOREM ListingsMissNothing == ApiSpec => NothingMissed
<1>1. ApiInv /\ [ApiNext]_apiVars =>
         [\A l \in Lister : lpc[l] = "definitions" /\ lpc'[l] = "done" =>
            defined[l] \cap Defined \subseteq {a.id : a \in listed'[l]}]_listers
  <2> SUFFICES ASSUME ApiInv, [ApiNext]_apiVars, NEW l \in Lister,
                      lpc[l] = "definitions", lpc'[l] = "done",
                      NEW id \in defined[l] \cap Defined
               PROVE  \E a \in listed'[l] : a.id = id
    OBVIOUS
  <2>1. PICK a \in seen[l] : a.id = id
    BY DEF ApiInv, SeenInv
  <2>2. a \in listed'[l]
    BY <2>1, AnswersSeen DEF ApiInv
  <2>3. QED
    BY <2>1, <2>2
<1>2. QED
  BY <1>1, ApiInvariant, PTL DEF ApiSpec, NothingMissed

-----------------------------------------------------------------------------
(***************************************************************************)
(* paginate, for listings and pages of every size: a page holds the items  *)
(* that follow those of the pages before it, in their order; all pages are *)
(* full but the last, which is not empty and holds the rest; beyond it     *)
(* pages are empty, and a number from there is sent back to the first.     *)
(***************************************************************************)
THEOREM PagesAreTheListing ==
    ASSUME NEW S, NEW items \in Seq(S), NEW perPage \in Nat \ {0},
           NEW page \in Nat \ {0}
    PROVE  LET pages == TotalPages(Len(items), perPage)
               before == (page - 1) * perPage
           IN  /\ page <= pages =>
                    /\ before < Len(items)
                    /\ Len(Page(items, page, perPage)) =
                         IF page < pages THEN perPage ELSE Len(items) - before
                    /\ \A i \in 1 .. Len(Page(items, page, perPage)) :
                         Page(items, page, perPage)[i] = items[before + i]
               /\ page > pages =>
                    /\ Page(items, page, perPage) = <<>>
                    /\ CurrentPage(items, page, perPage) = pages + 1
<1> DEFINE size == Len(items)
           pages == TotalPages(size, perPage)
           before == (page - 1) * perPage
           last == page * perPage
           end == IF last < size THEN last ELSE size
<1>1. /\ size \in Nat /\ before \in Nat /\ last \in Nat /\ last = before + perPage
      /\ page - 1 \in Nat
  OBVIOUS
<1>2. /\ pages \in Nat
      /\ page - 1 < pages => before < size
      /\ page < pages => last < size
      /\ page = pages => size <= last
  BY <1>1, Ceiling DEF TotalPages, CeilDiv
<1>3. ASSUME page > pages PROVE size <= before
  <2>1. size <= pages * perPage
    BY <1>1, <1>2, Ceiling DEF TotalPages, CeilDiv
  <2>2. pages * perPage <= before
    <3> HIDE DEF pages
    <3>1. pages <= page - 1
      BY <1>1, <1>2, <1>3
    <3>2. QED
      BY <1>1, <1>2, <3>1, TimesKeepsOrder
  <2>3. pages * perPage \in Nat
    BY <1>2
  <2> HIDE DEF pages, size, before
  <2>4. QED
    BY <1>1, <2>1, <2>2, <2>3
<1>4. Page(items, page, perPage) = SubSeq(items, before + 1, end)
  BY DEF Page
<1> HIDE DEF pages, before, last
<1>5. end \in Nat /\ end <= size
  BY <1>1
<1>6. ASSUME page <= pages
      PROVE  /\ before < size
             /\ Len(Page(items, page, perPage)) =
                  IF page < pages THEN perPage ELSE size - before
             /\ \A i \in 1 .. Len(Page(items, page, perPage)) :
                  Page(items, page, perPage)[i] = items[before + i]
  <2>1. before < size /\ before < end
    BY <1>1, <1>2, <1>6
  <2>2. \A i \in before + 1 .. end : items[i] \in S
    BY <1>1, <1>5
  <2>3. /\ Len(SubSeq(items, before + 1, end)) = end - before
        /\ \A i \in 1 .. end - before :
              SubSeq(items, before + 1, end)[i] = items[before + i]
    <3>1. before + 1 \in Int /\ end \in Int /\ before + 1 <= end
      BY <1>1, <1>5, <2>1
    <3>2. /\ Len(SubSeq(items, before + 1, end)) = end - (before + 1) + 1
          /\ \A i \in 1 .. end - (before + 1) + 1 :
                SubSeq(items, before + 1, end)[i] = items[before + 1 + i - 1]
      BY <2>2, <3>1, SubSeqProperties
    <3>3. QED
      BY <1>1, <1>5, <3>2
  <2>4. end - before = IF page < pages THEN perPage ELSE size - before
    BY <1>1, <1>2, <1>6
  <2>5. QED
    BY <1>4, <2>1, <2>3, <2>4
<1>7. ASSUME page > pages
      PROVE  /\ Page(items, page, perPage) = <<>>
             /\ CurrentPage(items, page, perPage) = pages + 1
  <2>1. end < before + 1
    BY <1>1, <1>3, <1>5, <1>7
  <2>2. Page(items, page, perPage) = <<>>
    BY <1>1, <1>4, <1>5, <2>1, SubSeqEmpty
  <2>3. CurrentPage(items, page, perPage) = pages + 1
    BY <1>2, <1>7 DEF CurrentPage, pages
  <2>4. QED
    BY <2>2, <2>3
<1>8. QED
  BY <1>6, <1>7 DEF pages, before

-----------------------------------------------------------------------------
(***************************************************************************)
(* A listing is finite, so it has pages: a step of the provider makes one  *)
(* asset live at the most, and a listing is read off the live assets.      *)
(* (Nothing bounds the years a share may name.)                            *)
(***************************************************************************)
LiveAssets == {id \in AssetId : Live(id)}

FiniteInv ==
    /\ IsFiniteSet(LiveAssets)
    /\ \A l \in Lister : IsFiniteSet(seen[l]) /\ IsFiniteSet(listed[l])

(* A step of the process makes at most one asset live.                     *)
LEMMA OneMoreLive ==
    ASSUME ConnectorInv, [ApiNext]_apiVars, IsFiniteSet(LiveAssets)
    PROVE  IsFiniteSet(LiveAssets')
<1> USE DEF LiveAssets, Live
<1>1. CASE UNCHANGED assets
  BY <1>1
<1>2. ASSUME NEW r \in Request, asset[r] \in AssetId,
             \E value : assets' \in {assets, [assets EXCEPT ![asset[r]] = value]}
      PROVE  IsFiniteSet(LiveAssets')
  <2>1. LiveAssets' \subseteq LiveAssets \cup {asset[r]}
    BY <1>2 DEF ConnectorInv, TypeOK
  <2>2. QED
    BY <2>1, FS_AddElement, FS_Subset
<1>3. ASSUME NEW r \in Request,
             \/ CreateAsset(r) \/ CreateAssetFails(r)
             \/ BlankAsset(r) \/ BlankAssetFails(r)
             \/ DeleteAsset(r) \/ DeleteAssetFails(r)
      PROVE  IsFiniteSet(LiveAssets')
  <2>1. asset[r] \in AssetId
    BY <1>3 DEF ConnectorInv, TypeOK, Working, CreateAsset, CreateAssetFails,
                BlankAsset, BlankAssetFails, DeleteAsset, DeleteAssetFails
  <2>2. \E value : assets' \in {assets, [assets EXCEPT ![asset[r]] = value]}
    BY <1>3 DEF CreateAsset, CreateAssetFails, BlankAsset, BlankAssetFails,
                DeleteAsset, DeleteAssetFails
  <2>3. QED
    BY <1>2, <2>1, <2>2
<1>4. UNCHANGED assets
      \/ \E r \in Request :
            \/ CreateAsset(r) \/ CreateAssetFails(r)
            \/ BlankAsset(r) \/ BlankAssetFails(r)
            \/ DeleteAsset(r) \/ DeleteAssetFails(r)
  BY SharingFrame, AssetFrame DEF connector
<1>5. QED
  BY <1>1, <1>3, <1>4

(* What is read of finitely many assets is finite.                         *)
LEMMA FiniteMetaData ==
    ASSUME IsFiniteSet(LiveAssets)
    PROVE  IsFiniteSet({MetaDataOf(id) : id \in LiveAssets})
<1> DEFINE T == {MetaDataOf(id) : id \in LiveAssets}
           f == [id \in LiveAssets |-> MetaDataOf(id)]
<1>1. f \in Surjection(LiveAssets, T)
  <2>1. f \in [LiveAssets -> T] /\ \A t \in T : \E id \in LiveAssets : f[id] = t
    OBVIOUS
  <2> HIDE DEF f, T
  <2>2. QED
    BY <2>1 DEF Surjection
<1> HIDE DEF f
<1>2. QED
  BY <1>1, FS_Surjection

(* Listings stay finite beside every other step.                           *)
LEMMA FiniteStep ==
    ASSUME ConnectorInv, ListingTypeOK, FiniteInv, [ApiNext]_apiVars
    PROVE  FiniteInv'
<1> DEFINE Goal == \A l \in Lister : IsFiniteSet(seen'[l]) /\ IsFiniteSet(listed'[l])
<1> USE DEF ListingTypeOK, FiniteInv
<1>0. IsFiniteSet(LiveAssets')
  BY OneMoreLive
<1>1. ASSUME UNCHANGED <<seen, listed>> PROVE Goal
  <2>1. \A l \in Lister : seen'[l] = seen[l] /\ listed'[l] = listed[l]
    BY <1>1
  <2>2. QED
    BY <2>1, Zenon
<1>2. ASSUME NEW l \in Lister, ListAssets(l) PROVE Goal
  <2>1. /\ seen' = [seen EXCEPT ![l] = {MetaDataOf(id) : id \in LiveAssets}]
        /\ UNCHANGED listed
    BY <1>2 DEF ListAssets, LiveAssets
  <2>2. QED
    BY <2>1, FiniteMetaData
<1>3. ASSUME NEW ls, NEW how, Over(ls, how) PROVE \A l \in Lister : IsFiniteSet(seen'[l])
  BY <1>3, FS_EmptySet DEF Over
<1>4. ASSUME NEW l \in Lister, QueryDefinitions(l) PROVE Goal
  <2>1. /\ listed' = [listed EXCEPT ![l] = {a \in seen[l] : a.id \in Defined}]
        /\ Over({l}, "done")
    BY <1>4 DEF QueryDefinitions, Keep
  <2>2. IsFiniteSet({a \in seen[l] : a.id \in Defined})
    BY FS_Subset
  <2>3. QED
    BY <1>3, <2>1, <2>2
<1>5. ASSUME NEW l \in Lister, ListingFails(l) PROVE Goal
  <2>1. \A m \in Lister : listed'[m] = listed[m]
    BY <1>5 DEF ListingFails
  <2>2. \A m \in Lister : IsFiniteSet(seen'[m])
    BY <1>3, <1>5 DEF ListingFails
  <2>3. QED
    BY <2>1, <2>2, Zenon
<1>6. ASSUME CutListings PROVE Goal
  <2>1. \A m \in Lister : listed'[m] = listed[m]
    BY <1>6 DEF CutListings
  <2>2. \A m \in Lister : IsFiniteSet(seen'[m])
    BY <1>3, <1>6 DEF CutListings
  <2>3. QED
    BY <2>1, <2>2, Zenon
<1>7. ASSUME NEW l \in Lister, AcceptListing(l) PROVE Goal
  BY <1>1, <1>7 DEF AcceptListing, StartListing
<1>8. Goal
  BY <1>1, <1>2, <1>4, <1>5, <1>6, <1>7
     DEF ApiNext, apiVars, listers, ListStep, StartupStep, TokenStep,
         RollbackEndsProcess, Reboot, KeycloakEndsProcess, Stop
<1>9. QED
  BY <1>0, <1>8

(* A listing is finite in every reachable state.                           *)
LEMMA ListingsFinite == ApiSpec => []FiniteInv
<1>1. ApiInit => FiniteInv
  <2> SUFFICES ASSUME ApiInit PROVE FiniteInv
    OBVIOUS
  <2>1. LiveAssets = {}
    BY SentinelAssumption DEF ApiInit, Init, LiveAssets, Live
  <2>2. QED
    BY <2>1, FS_EmptySet DEF ApiInit, ListingInit, FiniteInv
<1>2. ApiInv /\ FiniteInv /\ [ApiNext]_apiVars => FiniteInv'
  BY FiniteStep DEF ApiInv
<1>3. QED
  BY <1>1, <1>2, ApiInvariant, PTL DEF ApiSpec

(* In whatever order they are listed, the pages are the listing.           *)
THEOREM PagesOfListings == ApiSpec => []PagesPartitionListing
<1>1. FiniteInv => PagesPartitionListing
  <2> SUFFICES ASSUME FiniteInv, NEW l \in Lister, NEW items \in SetToSeqs(listed[l]),
                      NEW perPage \in 1 .. 3
               PROVE  LET pages == TotalPages(Len(items), perPage)
                          before(page) == (page - 1) * perPage
                      IN  /\ \A page \in 1 .. pages :
                               /\ before(page) < Len(items)
                               /\ Len(Page(items, page, perPage)) =
                                     IF page < pages THEN perPage
                                     ELSE Len(items) - before(page)
                               /\ \A i \in 1 .. Len(Page(items, page, perPage)) :
                                     Page(items, page, perPage)[i] = items[before(page) + i]
                          /\ Page(items, pages + 1, perPage) = <<>>
                          /\ CurrentPage(items, pages + 2, perPage) = pages + 1
    BY DEF PagesPartitionListing
  <2> DEFINE pages == TotalPages(Len(items), perPage)
  <2>1. items \in Seq(listed[l])
    <3>1. Cardinality(listed[l]) \in Nat
      BY FS_CardinalityType DEF FiniteInv
    <3>2. items \in [1 .. Cardinality(listed[l]) -> listed[l]]
      BY DEF SetToSeqs
    <3>3. QED
      BY <3>1, <3>2
  <2>2. perPage \in Nat \ {0}
    OBVIOUS
  <2>3. pages \in Nat
    BY <2>1, <2>2, Ceiling DEF TotalPages, CeilDiv
  <2>4. \A page \in 1 .. pages :
           /\ (page - 1) * perPage < Len(items)
           /\ Len(Page(items, page, perPage)) =
                 IF page < pages THEN perPage ELSE Len(items) - (page - 1) * perPage
           /\ \A i \in 1 .. Len(Page(items, page, perPage)) :
                 Page(items, page, perPage)[i] = items[(page - 1) * perPage + i]
    <3> TAKE page \in 1 .. pages
    <3>1. page \in Nat \ {0} /\ page <= pages
      BY <2>3
    <3>2. QED
      BY <2>1, <2>2, <3>1, PagesAreTheListing
  <2>5. Page(items, pages + 1, perPage) = <<>>
    <3>1. pages + 1 \in Nat \ {0} /\ pages + 1 > pages
      BY <2>3
    <3> HIDE DEF pages
    <3>2. QED
      BY <2>1, <2>2, <3>1, PagesAreTheListing DEF pages
  <2>6. CurrentPage(items, pages + 2, perPage) = pages + 1
    <3>1. pages + 2 \in Nat \ {0} /\ pages + 2 > pages
      BY <2>3
    <3>2. QED
      BY <2>1, <2>2, <3>1, PagesAreTheListing
  <2>7. QED
    BY <2>4, <2>5, <2>6
<1>2. QED
  BY <1>1, ListingsFinite, PTL

=============================================================================
