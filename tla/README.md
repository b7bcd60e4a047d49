# Verification of the SFC backend

TLA+ models of the SFC backend (`src/`), TLC configurations that check them on
small instances, and proofs that TLAPS checks for every instance. Paths below are
relative to the repository.

The backend is a Koa API (TypeScript) that every member of the network runs
next to an Eclipse Dataspace connector (EDC) of its own, a Redis and a Keycloak. As
a *provider*, a member shares a month of carbon footprints with another company and
revokes it again; as a *consumer*, it initiates the transfer of a month's footprints
from all providers and reads the data once the connector has delivered it. Node runs
one handler at a time, and any other handler may run at each `await`. All lasting
state is outside the process, in the connector and in Redis, and no operation on
either is transactional. That is where this code is hard: an operation is a sequence
of remote calls, each of which may fail, and others run between any two of them.

## Inventory

| Component | Code | State | Operations | Modelled |
|---|---|---|---|---|
| Footprint sharing | `sfc-dataspace.ts`, `edc-client.ts`, `edc-builder.ts`, usecases `share-footprint`, `delete-fooprint` | the connector's assets, policies, contract definitions, agreements | `shareAsset`, `rollback`, `unshareFootprint`, `deleteAsset`, lookups | yes: `FootprintSharing` |
| Footprint transfer | `edc-transfer-service.ts`, `initiate-data-transfer-by-month.ts`, `auth-token-callback.ts`, `get-emissions.ts`, `cache-service.ts` | negotiations and transfers in the connector; job and data in Redis with expiry | initiate by month, negotiate and wait, callback, read the job | yes: `FootprintTransfer` |
| Data model verification | `data-model-verifier.ts`, `data-converter.ts`, `share-footprint-schema.ts`, `errors/index.ts` | none (per call) | CSV or JSON rows against a schema for a month, in chunks | yes: `DataModelVerifier`, `MonthWindow` |
| Footprint parsing | `sfc-dataspace.ts` `parseRawData`, `types.ts` | none | rows to emissions | partly: `DataModelVerifier` |
| Listings, pagination | `list-shared-assets.ts`, `retrieve-footprint-meta.ts`, `paginate.ts` | none | read assets and contract definitions, or catalogs; cut into pages | partly: `FootprintListing` (the provider's listing) |
| Usage metrics | `retrieve-usage-metrics.ts` | none | counts over the same reads | partly: `FootprintListing` (the provider's half) |
| Authentication | `keycloak-admin-client.ts`, `keycloak-client.ts`, `generate-token.ts`, `auth.ts` | the realm's public key, fetched once by detached calls | verify a token, sign in | yes: `KeycloakKey`, `ApiProcess` |
| Data source access | `data-source-service.ts` | none | one HTTP or S3 read | yes: `Fetch`, `FetchFails` of `DataModelVerifier` |
| Network directory | `sfc-api.ts` | none | profile, list of companies | partly: reads; their failures are `Reject` and `ListingFails` |
| HTTP server, errors | `app.ts`, `helpers.ts`, `errors/index.ts` | none | routes, answers, uncaught rejections | partly: answers and the end of the process |
| Connector launcher | `src/connector` | none of its own | builds the EDC image | no: a build file |

How they interact:

- The provider's handlers meet only in the connector. A contract definition has the
  id of its asset, but its *selector* names the share (owner, month, year, company),
  so it offers every asset with these properties. Lookups filter contract definitions
  with a `LIKE` over the text of that selector.
- A consumer sees an asset in a provider's catalog if a contract definition offers it,
  negotiates an agreement for it, and keeps the agreement when the contract definition
  is gone. This is why unsharing overwrites ("blanks") the asset before it deletes it:
  the connector refuses to delete an asset that has an agreement.
- The handlers of one process share its life. Nobody awaits the `deletePolicy` of a
  rollback nor the two calls of the `KeycloakAdmin` constructor: a rejection of any of
  them ends the process, with shares, unshares and listings in flight, and the next
  process starts without a key. `DELETE /emissions/sent` is the one emissions route
  without `authMiddleware`; the SFC unit checks its token in `getMyProfile`, so it works
  in a process that has no key yet, and can be cut off by the startup calls.
- The consumer's connector answers a started transfer with a callback to the API
  (`ReceiverController`), which fetches the data and stores it in Redis under the asset
  id, with the expiry of the token. `initiate` stores the list of asset ids under the
  month. A reader takes the list and then each asset.

Hard behaviours, by line in `PROJECT.json` ("hazards"): checks that are awaits away
from what they guard; failures between the calls of an operation with a rollback that
is partial and in part not awaited; swallowed errors; a bounded wait for something that
goes on afterwards; two-command stores; callbacks in any order; text matching that is
not closed at the end.

What makes each component correct:

- *Sharing*: a contract definition always has its asset and policy; what can be read
  can be revoked; what was revoked gives nothing; a month is shared once with a company;
  an unshare touches only its target; each answer is true; each request ends.
- *Transfer*: no transfer without an agreement; a job lists only what is on its way;
  nothing stays cached for good; requests end although negotiations hang; a transfer
  that was started delivers or fails.
- *Verification*: chunks neither skip nor repeat rows, errors name the file's rows, the
  month window agrees with the calendar, what was validated is what is delivered.
- *Listings*: what is listed is shared when it is given out, nothing shared all along is
  missed, the pages are the listing; a metric counts the companies it names.
- *Authentication*: what is behind it runs only in a process that has the realm's key,
  and a process does not stay without one.
- *Provider and consumer together*: each is the environment the other's model assumes;
  an unshare ends what the consumer can get, and what is gone stays gone; a company
  is given no data but what was shared with it.

## Modules

| Module | What it is |
|---|---|
| `FootprintSharing` | the provider's handlers over its connector, one action per connector call |
| `AccessLedger` | abstract: a ledger of grants, and when each answer is true of it |
| `FootprintSharingLedger` | the refinement mapping from `FootprintSharing` to `AccessLedger` |
| `FootprintSharingProofs` | theorems about `FootprintSharing` |
| `FootprintSharingLedgerProofs` | its refinement of `AccessLedger`, proved |
| `FootprintSharingSerialProofs` | what it keeps when requests do not overlap |
| `FootprintTransfer` | the consumer's handlers, callbacks and readers over connector and Redis |
| `FootprintListing` | the provider's listing and metrics, read beside `FootprintSharing`'s handlers; pages |
| `KeycloakKey` | the key tokens are verified with: startup, tokens, rotation, the end of the process |
| `ApiProcess` | composes `FootprintSharing`, `FootprintListing` and `KeycloakKey` in one process |
| `DataExchange` | composes a provider (`FootprintSharing`) and a consumer (`FootprintTransfer`) through their connectors |
| `MonthWindow` | the dates a month's file may have, as JavaScript computes them |
| `DataModelVerifier` | a source fetched, verified in chunks, in one or two passes, and delivered |
| `FootprintTransferProofs`, `DataExchangeProofs`, `ApiProcessProofs`, `DataModelVerifierProofs` | theorems about these four |
| `DivisionLemmas` | what `Math.ceil(n / c)` is, for chunks and for pages |
| `FootprintSharingMC`, `FootprintSharingLedgerMC`, `FootprintTransferMC`, `ApiProcessMC`, `DataExchangeMC`, `DataModelVerifierMC` | definitions that instances of these need for TLC |

### FootprintSharing

State: `assets`, `contracts`, `policies`, `agreements` are the connector's objects;
`pc`, `share`, `asset`, `todo`, `reply` are the local variables of each request's
handler; `detached` holds the requests whose rollback has called `deletePolicy`
without awaiting it; `clock` is `Date.now()`, which stamps asset ids; `faults` counts
the faults so far; `revoked` is history and nothing reads it but the properties and
the timing assumption below.

| Code | Actions |
|---|---|
| `ShareFootprintUsecase.execute` up to the first connector call | `StartShare`, `Reject` |
| `ensureFootprintHasNotBeenShared`, `assetInput` | `ShareCheck`, `QueryFails` |
| `createAsset`, `createPolicy`, `createContractDefinitions` in `shareAsset` | `CreateAsset`, `CreatePolicy`, `CreateContract` and their `...Fails` (with `rollback`) |
| the un-awaited `deletePolicy` of `rollback` | `DetachedDelete`, `DetachedDeleteFails` |
| `unshareFootprint`, `deleteAssetById`, `EdcClient.deleteAsset` | `StartUnshare`, `FindContracts`, `DeleteContract`, `BlankAsset`, `DeleteAsset`, their `...Fails`, `NextContract` |
| a consumer's connector, the container runtime | `Negotiate`, `Restart` |

A call that fails (`Fault`) may or may not have had its effect. A handler of Node
turns the error into an answer; an error nobody awaits ends the process (`Crash`),
and with it all requests in flight.

Assumptions that are not in the code. *Timing*: `ShareCheck` takes a stamp later than
those of the assets an unshare has finished with. Sharing and unsharing an asset takes
a dozen HTTP calls, so the millisecond it was stamped in is over by then; two shares in
one millisecond are allowed, and the second is refused by the connector. *Connector*:
it refuses an asset id that is taken, the deletion of an asset with an agreement and of
a policy in use; these are the documented rules of the EDC management API and what
`deleteAsset` in the code is written for.

### AccessLedger

A grant gives one company one month; sharing adds one; unsharing notes all grants of
its share, withdraws them one by one and confirms when none it noted is left; an answer
"already shared", "not found" or "revoked" is true of the ledger at a moment while the
request was open; a request may fail at any point and leave what it did. The mapping
reads the ledger off the contract definitions and hides assets, policies, agreements
and the stages of the handlers.

### FootprintTransfer

State: `offer` is what providers do with each asset, `nego` and `transfer` are the
connector's negotiations and transfers (per request and asset; the stages of a
transfer's callback handler are states of `transfer`), `cache` and `ttl` are Redis, the
rest are local variables of the handlers. One month: jobs of different months share no
key and no asset.

| Code | Actions |
|---|---|
| `InitiateDataTransferByMonth.execute`, `retrieveCatalogByMonth` | `Initiate`, `FetchCatalogs` |
| `initiateTransferProcess`, `getContractAgreementId` | `LookupAgreement`, `LookupAgain` |
| `startContractNegotiation`, `waitForContractNegotiationToComplete` | `Negotiate`, `Poll` |
| `initiateTransfer`, `startTransferOnAllAssets` | `StartTransfer` |
| `cacheAssetIds`, `storeItem` | `StoreJob`, `ExpireJob` |
| `ReceiverController`, `AuthTokenCallbackUsecase`, `fetchCarbonFootprint` | `Receive`, `Fetch`, `FetchBlank`, `StoreData`, `ExpireData`, `StoreDataForGood`, `CallbackFails` |
| `GetEmissionsUsecase` | `GetData`, `ReadJob`, `ReadAsset`, `ReadFails` |
| errors of the connector and of Redis | `ConnectorFails`, `RedisFails` |
| providers, connectors, Redis, container runtime | `ProvidersShare`, `ProvidersWithdraw`, `NegotiationMoves`, `TransferDies`, `KeyExpires`, `Restart` |

The order of an initiate request's assets is free (the order of catalogs is not
specified), and the seconds of the poll are counted, not timed. A token that expires in
less than half a second makes the rounded expiry 0, and `storeItem` then sends no
`EXPIRE` (`StoreDataForGood`, fault "token"). `Restart` may come between the `SET` and the
`EXPIRE` of a store (`BetweenSetAndExpire`) where "cut" is among the faults: the value then
stays.

An asset withdrawn half way (its definition is gone, the asset is not) comes on offer
again when its month is shared again, so `ProvidersShare` takes withdrawn assets too.

### FootprintListing

`fetchSharedFootprintsMetaData` reads the provider's assets (`ListAssets`) and then its
contract definitions (`QueryDefinitions`), and keeps the assets that have one (`Keep`).
`seen` is what the first read brought; `defined`, which only a property reads, is which
assets had a definition by then. A blanked asset has no owner and is not read. The
metrics are operators over the same answer; every asset's owner is the provider. `Page`,
`TotalPages` and `CurrentPage` are `paginate`, over the listing in any one order.

### KeycloakKey and ApiProcess

`startup` is the pair of detached calls of the constructor (`AdminAuth`, `FetchKey`);
`publicKey` is the process's key, `signing` the realm's, and a token is the key it is
signed with, or `Bad` (of another realm, or too old). A missing key makes a PEM of the
text "undefined", under which no token verifies. `InitFails` is the rejection nobody
catches: `Boot`. `FetchKey` takes the realm's current key; the code takes the first RS256
key the realm lists. A realm that lists none leaves the key undefined without an error,
and the process keyless for good: a matter of the realm's configuration, left out, which
`KeyArrives` assumes away.

`ApiProcess` puts `Verified` in front of shares and listings and not of unshares
(`AcceptShare`, `AcceptListing`, `AcceptUnshare`), and makes each end of the process
(`RollbackEndsProcess`, `KeycloakEndsProcess`, `Stop`) end all of it: handlers, listings
and the key (`Reboot`). A request that is refused is `Reject`; a listing that is refused
has not started.

### DataExchange

The consumer's variables are those of `FootprintTransfer`, the provider's are those of
`FootprintSharing` (`P!`, with its handlers' variables under names of their own). They
meet in three places. `offer` follows the provider's connector after each of its steps
(`ProviderOffers`); an agreement is recorded on both sides in one step (`Agree`), and
only for an asset on offer at that moment; the provider's connector looks up the data
address when it starts a transfer (`ProviderStarts`), and what the callback gets is what
that address gave (`Deliver`). The last is the EDC protocol, which is not in this
repository. Left out: readers of the cache (they change nothing). `OnItsWay` is data the
provider's connector has given out and the consumer has not stored yet; `GoneForGood` is
about an asset of which there is none, neither on its way nor cached.

### DataModelVerifier and MonthWindow

State: the input (`source`, the month, the zone of the process, and whether the caller
shares or asks for a validation), the fetch (`Fetch`, `FetchFails`), the loop of `verifyDataModel` (`chunk`, `errors`,
`values`), the pass (`strict`), and the outcome. `Refuse` and `Convert` are
`convertRawDataToJSON`, `ValidateChunk` is `_runValidationAsync` (which never waits, so
chunks follow one another), `EndFirstPass` and `EndSecondPass` are the ends of
`verifyDataModel` in `verifyDataModel` itself and in `validateDataModelAndWarning`,
`Deliver` is `parseRawData` on the same data at the consumer. Of the schema the model
keeps the window of unloading dates in full; its other rules are the set of fields a row
breaks. `MonthWindow` follows `dataModelSchema`: the month's start is an ISO date and UTC;
its end is built from a text that is an ISO date only for months of two digits and local
time otherwise, and moved by `setMonth` and `setMilliseconds` in local time. A zone is its
standard offset and its summers: `Offset` is what JavaScript adds to an instant, `Instant`
how it gets back from a local time, which where clocks change is twice or never. October
2023 in Berlin begins at UTC+2 and ends at UTC+1, so its window ends an hour into
November: at 2023-11-01T00:59:59.999Z.

## Runs

| Run | Instance | Shows |
|---|---|---|
| `sharing_race` | 4 requests, 2 companies, months 1 and 2, 2 stamps, lookups and asset deletes may fail once | `TypeOK`; `ReadableIsRevocable`: what a consumer can read or negotiate has a contract definition, or a request in flight works on it; `RevokedIsBlank` |
| `sharing_faults` | 3 requests, 2 companies, 3 stamps, any two faults, under fairness, initial states up to the names of requests and companies | `ImplementsLedger`; `HandlersAdvance`: each call of a handler brings it nearer to its end; `EveryRequestAnswered` |
| `api_process` | 2 requests, a listing, 1 company, 2 keys, any two faults (a rollback whose own call fails takes two), of Keycloak too | `ContractBacked`: a contract definition has its asset and its policy; `ListedIsShared` and `NothingMissed` of the listing's two reads; `PagesPartitionListing` for pages of 1 to 3; `ServedWithKey`; `KeyArrives`; `ApiTypeOK` |
| `transfer_faults` | 1 initiate request of 2 assets, a reader, 3 polls, 2 faults of any kind, under fairness | `TypeOK` (with the bound of the wait); `JobIsTransferred`; `InitiateAdvances`: each call of an initiate request, each poll included, brings it nearer to its end; `InitiateAnswered`; `DataArrives` |
| `exchange` | a provider with 3 requests, 2 companies and one asset id, a consumer that asks for it twice, one fault of connector, callback or process | `ConsumerPlaysItsPart`: the consumer of the composition implements `FootprintTransfer`'s specification; `NoDataAfterRevocation`; `GoneForGood`: revoked data that is neither cached nor on its way stays away; `CachedExpires` and `TransferUnderAgreement` with two requests for one asset; `OnlyOwnData`: the data a transfer gives a company was shared with it, also when the month is shared with another company in the same millisecond |
| `data_chunks` | files of 0 to 3 rows, chunks of 2, February of a leap year, October and December, UTC and Berlin with its summer time | `TypeOK`; `RowsReported`; `EveryRowChecked`; `UnloadedInMonth`; `WarningIsExact` |

Runs that show where the code breaks a promise it makes (expected violations; the
sentences they break are quoted in "findings"):

| Run | Shows |
|---|---|
| `month_prefix_unshare` | unsharing January revokes October: `LIKE '%monthSFCEQEQ1%'` |
| `double_share` | two concurrent shares of a month both succeed |
| `swallowed_blanking` | the update that blanks an asset fails, the unshare is answered 200, the asset stays readable and no later unshare reaches it |
| `orphan_asset` | a share fails after its asset was created; the next share's selector offers that asset too, and no unshare reaches it |
| `companies_shared` | a provider that has shared with two companies is told it has shared with one |
| `flag_delivered` | a row whose `verification` is `'0'`, false to the schema, is delivered as true |

Bounds and why they are enough. The handlers of sharing meet pairwise, over one asset
or one share: two of each kind and a third and fourth to finish what they leave cover a
share racing a share, an unshare racing either, and a later request on the remains. Two
companies and two months tell apart what a request is about; months 1 and 2 match
exactly, and 1 and 10 by prefix, so exact and fuzzy lookups are both run.
`MaxStamp` leaves room for a stamp per share where liveness is checked. Two faults
(one in `sharing_race` and `exchange`) interrupt an operation at every point and fail its rollback, with every
other request going on. One asset is enough for retries, which work asset by asset;
two are needed for a request that fails half way. `MaxPolls` stands for 30: the loop's
decisions are the same at its last poll. The two halves of a transfer are bounded
apart: `transfer_faults` has two assets and one request, `exchange` one asset and two
requests, and three of the provider (each is a share or an unshare). It has two companies
and one stamp, so that the ids of their assets meet: two shares for different companies
past their checks together, of which the second takes the id when an unshare has freed it.
A share that comes after the unshare takes a later stamp, so a new id; that, and more
requests, is left to the proof of `NobodyElsesData`. Two shares
that race give a listing of two assets, which pages of 1, 2 and 3 cut with and
without a partial page. `CHECK_DEADLOCK FALSE` is set everywhere: each
request is used once and the system stops when all are done.

Three rows in chunks of two give a full and a partial chunk, and each row is on either side
of each end of the month; a month with one digit and one with two take the two ways a
date is parsed; in October clocks change. `UnloadedInMonth` is about zones from UTC to the
east, and months at whose ends clocks do not change (`Steady`). West of UTC it does not
hold: October and December lose their last day, the other months take in the first day of
the next. East of it the code is off by a day in one case, which the property names: where
clocks are set back during a month of two digits (`setBack`; October in Europe), the first
day of the next month is accepted. (The image runs in UTC.)

Symmetry: requests (and companies, when lookups are exact) are interchangeable in the
runs that check invariants and, in `exchange`, properties of steps (`[][A]_v`, and the
consumer's specification, which has no fairness), none of which names a request; TLC's
symmetry is used nowhere liveness is checked. `sharing_faults` starts instead from one initial state of each kind
(`OneOfEachKind`: how many requests are about each company), since requests and
companies are interchangeable.

`CachedExpires` is checked, and proved, only while Redis answers, tokens outlive their
callback and the process is not stopped between `SET` and `EXPIRE`: the faults "redis",
"token" and "cut" are not among those of `exchange`. Each of the three does leave a value
for good (the hazards list says where), so what the property shows is that interleaved
stores of one key do not. `transfer_faults` has all three. `ConsumerPlaysItsPart` is what
makes the two halves one: `FootprintTransfer` is checked against providers that do
anything with their offers, and the composition shows that real providers do no more.

Fairness. `EveryRequestAnswered` and `InitiateAnswered` assume that a call made by a
handler comes back, with an answer or an error: HTTP clients and Redis do, and Node
resumes the handler. `DataArrives` assumes that the connector posts the callback of a
transfer or gives the transfer up. Nothing is assumed of negotiations, which may hang
for ever, nor of consumers, providers or restarts. `KeyArrives` assumes that Keycloak
answers, with a key or an error, and that the container is started again when its process ends; the number of failures is
bounded.

## Proofs

Each theorem holds for every value of the constants under the named assumptions of the
module it is about (bounds are naturals, sentinels are not values) and those listed here.
TLC has checked the invariants below on an instance too.

### FootprintSharing (`FootprintSharingProofs`, `FootprintSharingLedgerProofs`)

For every set of companies, months, years and requests, every `IdPrefix` (also where
lookups are fuzzy), every bound and every set of calls that may fail:

- `TypeCorrect`: `Spec => []TypeOK`.
- `ContractsBacked`: `Spec => []ContractBacked`. It is not inductive. The invariant is
  `ConnectorInv`: a request that has created its asset and not its contract definition
  still has that asset, live, with its own share, no contract definition under it, and
  its policy once created (`HolderInv`); no two requests work on one asset
  (`ExclusiveInv`); a detached rollback's policy is named by a request that is done, so
  no handler is about to use it (`DetachedInv`). An unshare deletes the contract
  definition before it touches the asset, and a policy in use is not deleted.
- `RevocableAssets`: if only lookups and asset deletes may fail
  (`OnlyHarmlessFaults`), `Spec => []ReadableIsRevocable`. The runs
  `swallowed_blanking` and `orphan_asset` show that the assumption is needed.
- `RevokedStaysBlank`: if the blanking call does not fail (`BlankingWorks`), whatever
  else does, `Spec => []RevokedIsBlank`.
- `SharingImplementsLedger`: where lookups are exact (`ExactLookup`: no client id, month
  or year in use is the beginning of another), `Spec => ImplementsLedger`. The lemmas say
  what each call does to the ledger; the one that needs exactness is
  `LookupFindsGrants`. Months 1 and 10 together do not satisfy it, and
  `month_prefix_unshare` shows that the handlers then break the ledger's promise. It uses
  `ConnectorInv`: an id that is free for a new asset has no contract definition, so the
  contract definition made under it adds a grant and replaces none.
- `NoHandlerCircles`: `Spec => HandlersAdvance`. Every step of a handler brings it to a
  later stage or leaves it one contract definition less, so, as what it has to delete is
  fixed when it has looked it up, it takes finitely many. This is the half of
  `EveryRequestAnswered` that needs no fairness; that calls come back is the other.

### Requests that do not overlap (`FootprintSharingSerialProofs`)

What the violations of `double_share` and `month_prefix_unshare` rest on, by proving that
without it they do not happen, whatever fails and wherever the process stops:

- `SerialSharesOnce`: if requests come one at a time (`OneAtATime`) and a lookup finds at
  least what it looks for (`LookupFindsOwn`), `Spec => []OneContractPerShare`. The
  invariant (`SerialInv`): a share past its check is still the first of its kind. A
  definition whose creation failed with effect is found by the next check.
- `SerialUnsharesOwn`: if requests come one at a time and lookups are exact,
  `Spec => UnshareOnlyTarget`. The invariant (`UnshareInv`): what an unshare has still to
  delete is its own or is gone. Exact lookups alone are not enough: with four requests at
  once, between an unshare's lookup and its delete a second unshare can delete the
  definition and the asset, and a share of another company that has the same stamp can
  take the id.

### FootprintTransfer (`FootprintTransferProofs`)

For every set of requests, readers and assets, any limit of the wait, any faults,
restarts, hanging negotiations and providers that do as they like with their offers:

- `TransferTypes`, with the limit of the wait; `TransfersUnderAgreement`;
  `JobsAreTransferred`. Neither of the last two is inductive. `TransferInv` adds, for
  each request (`LoopInv`): what is ahead of the loop has no negotiation and no
  transfer yet, so what the request starts later overwrites nothing; the asset in
  hand has its agreement once the negotiation is past; what is behind the loop has its
  transfer started; and a request that was told "initiated" has started them all. It adds
  of the cache (`JobInv`) that what is under a job's key is a job.
- `CachedValuesExpire`: if Redis answers, tokens outlive their callback and the process
  is not stopped between a `SET` and its `EXPIRE` (`StoresComplete`: none of "redis",
  "token" and "cut" is among the faults), whatever else fails and wherever else the process
  stops, `Spec => []CachedExpires`. The steps it assumes away are in the specification, and
  each leaves a value for good (`LosesExpiry` lists them); the lemma `CachedStep` is that
  there is no other, stores of one key that run side by side included.
- `NoInitiateCircles`: `Spec => InitiateAdvances`, the half of `InitiateAnswered` that
  needs no fairness: a request polls `MaxPolls` times at the most for each asset and has
  finitely many assets, and it is never at a call without an asset to make it for.

### DataExchange (`DataExchangeProofs`)

- `PartsArePlayed`: `ExchangeSpec => ConsumerPlaysItsPart /\ P!Spec`, the refinement of
  both parts' specifications (TLC checks the consumer's; the provider's would take as
  long again). It is what lets the theorems about either part speak of the
  composition: `ExchangeUnderAgreement`, `NothingAfterRevocation`, `GoneStaysGone` and
  `ExchangeValuesExpire` use the invariants of both parts. The composition's own
  invariant (`ExchangeInv`) is that `offer`, the consumer's view, is what the provider's
  connector has in its catalog (`OfferInv`). The step that needs care is a provider's step
  of the connector: `FootprintTransfer` lets providers share or withdraw, not both at
  once, and `AddsOrRemoves` is that a call of the provider's handlers never does both.
- `NothingAfterRevocation`: if the blanking call does not fail,
  `ExchangeSpec => NoDataAfterRevocation`, whatever agreements consumers keep.
- `GoneStaysGone`: under the same assumption, `ExchangeSpec => GoneForGood`. It needs that
  an address is given once, to a transfer that waits for it (`AddressOnce`), and that what
  is waiting to be stored came from an address that gave data (`WayInv`).
- `NobodyElsesData`: `ExchangeSpec => OnlyOwnData`, with no assumption. Nothing checks
  whose an asset is when a transfer starts, and no id names a company. What keeps it
  (`OwnInv`): every agreement the consumer's connector has is recorded at the provider's
  (`RecordedInv`); it was made while the asset was on offer to this company; and the
  provider's connector neither deletes an asset that has an agreement nor takes an id
  that is taken, so until it is blanked the asset stays this company's (`AgreedIsOwn`).
  It rests on those two rules of the connector, and on asset ids of different providers
  being different: the exchange has one provider.
- `ExchangeValuesExpire`: `ExchangeSpec => []CachedExpires` under `StoresComplete`, as
  above: Redis answers, tokens outlive their callback, no process is stopped between `SET`
  and `EXPIRE`.

### ApiProcess (`ApiProcessProofs`)

For any number of sharing requests and listings in one process, any faults and any end
of the process:

- `ApiContractsBacked` carries `ConnectorInv` over: a step of the process is a step of
  the sharing handlers or an end of the process (`SharingFrame`), also for Keycloak's
  reasons, which `FootprintSharing` does not have (`CrashKeepsConnector`).
- `ApiRevokedStaysBlank` (if the blanking call does not fail) and `ApiImplementsLedger`
  (where lookups are exact) carry over the same way: an end of the process touches no
  asset, and is an outage of the ledger whatever its reason. `ApiNoHandlerCircles` is
  `NoHandlerCircles` in such a process.
- `ListingsAreShared` and `ListingsMissNothing` of the two reads of a listing. The
  invariant (`SeenInv`): whatever had a definition at the first read has been seen,
  because a contract definition has its asset.
- `OnlyServedWithKey`: the key only goes with the process, and with it all handlers.
- `ApiTypes`.
- `PagesAreTheListing`: `paginate`, for listings and pages of every size: a page holds the
  items after those of the pages before it, only the last is short and it is not empty,
  there is nothing beyond, and a number from beyond is sent back to the first empty page.
- `PagesOfListings`: `ApiSpec => []PagesPartitionListing`, for listings of every reachable
  state in any order. That takes an invariant of its own (`FiniteInv`): nothing bounds the
  years a share may name, so that a listing has a last page at all is because the process
  starts with nothing shared and a step makes one asset live at the most (`OneMoreLive`).

### DataModelVerifier (`DataModelVerifierProofs`)

For every chunk size, number of rows, month, set of dates and of faults of a row:

- `VerifierTypes`, `WrongRowsReported`, `AcceptedRowsChecked`, `WarningsAreExact`.
  The invariant: after some chunks of a pass the errors are exactly those of the
  rows so far (`ErrorsInv`, with `Checked` the number of rows in these chunks) and, as long
  as there are none, the values are these rows (`ValuesInv`); a second pass
  runs only on a file the first accepted, so what it finds is unknown fields
  (`PassInv`). That the chunks end with the file is arithmetic (`DivisionLemmas`).
- `UnloadingDatesInMonth`: for dates that are days (`WholeDays`: multiples of 24 hours)
  `Spec => []UnloadedInMonth`, in every month of every year and every zone from UTC to
  the east whose clocks do not change within a day of either end of the month, daylight
  saving included, with the exception the property names. It rests on `WindowEnds`: the
  end of the window is midnight UTC of the next month's first day, less the offset there
  and, in a month of two digits, plus the offset at the month's start.
  `WholeDays` is needed: east of UTC, a month whose text is no ISO date ends some hours
  early.

### What stays with TLC

All liveness, which these provers do not do: `EveryRequestAnswered`, `InitiateAnswered`,
`DataArrives`, `KeyArrives` (of the first two the step towards the
end is proved, see above). The runs that expect a violation: what they show needs
one behaviour, which TLC gives.

## What is not modelled

The content of messages and their wording, the schema of footprints, the connector's
default limit on queries (listings and lookups are taken to stay below it; `NothingMissed`
fails where they do not, as its mutant shows), passwords, and which error of the network
directory is answered. The consumer's listing and the consumer's half of the metrics are
one read of the catalogs of all providers, which `FetchCatalogs` is, without a month, put
into pages that `FootprintListing` has: no state and no order of steps of their own. In
`FootprintTransfer`, which provider an asset belongs to is left out: asset ids of
different providers are taken to differ, though only their millisecond makes them
differ. The contents of the data, and so whether an older callback's data or an older
job replaces a newer, are left out: every asset has one `Data`, and nothing in the code
or its documents says which should win. The connector launcher is a build file.

## Plan

Modelled, in this order: `FootprintSharing` with its ledger; `FootprintTransfer`;
`MonthWindow` and `DataModelVerifier`; `KeycloakKey`, `FootprintListing` and `ApiProcess`;
`DataExchange`. Proved: every invariant and every action property of a passing run, and
both refinements. `ReadableIsRevocable` is not carried over to `ApiProcess`: Keycloak can
end a process while an unshare that began before the key was there is between deleting
the contract definition and blanking the asset. The instances start with an empty
connector, so this takes an earlier end of the process, which the theorem's assumption on
faults leaves out; a proof would rest on that. A second provider in `DataExchange` would
show what two assets with one id do to the consumer's agreements and cache.
