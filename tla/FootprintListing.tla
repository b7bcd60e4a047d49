-------------------------- MODULE FootprintListing --------------------------
(***************************************************************************)
(* GET /emissions/sent and the provider's half of GET /emissions/metrics:  *)
(* what the provider shares, read from the connector while shares and      *)
(* unshares run.  fetchSharedFootprintsMetaData reads the assets, then the *)
(* contract definitions, and keeps the assets that have a definition.      *)
(* What comes before (profile, body of the query) only reads.              *)
(***************************************************************************)
EXTENDS FootprintSharing, Sequences, SequencesExt

CONSTANT Lister      \* requests for a listing or for metrics, each used once

VARIABLES
    lpc,       \* Lister -> where the handler is
    seen,      \* Lister -> the assets read: their ids and properties
    listed,    \* Lister -> the metadata answered
    defined    \* history: Lister -> assets that had a definition at first read

listers == <<lpc, seen, listed, defined>>

MetaData == [id : AssetId, sharedWith : Consumer, month : Month, year : Year]

ListingInit ==
    /\ lpc = [l \in Lister |-> "new"]
    /\ seen = [l \in Lister |-> {}]
    /\ listed = [l \in Lister |-> {}]
    /\ defined = [l \in Lister |-> {}]

-----------------------------------------------------------------------------
Defined == {id \in AssetId : contracts[id] # Absent}

(* The properties of an asset, as the listing gives them out.              *)
MetaDataOf(id) ==
    [id |-> id, sharedWith |-> assets[id].consumer,
     month |-> assets[id].month, year |-> assets[id].year]

StartListing(l) ==
    /\ lpc[l] = "new"
    /\ lpc' = [lpc EXCEPT ![l] = "assets"]
    /\ UNCHANGED <<vars, seen, listed, defined>>

(* Assets of the provider: a blanked one has lost its owner.               *)
ListAssets(l) ==
    /\ lpc[l] = "assets"
    /\ seen' = [seen EXCEPT ![l] = {MetaDataOf(id) : id \in {i \in AssetId : Live(i)}}]
    /\ defined' = [defined EXCEPT ![l] = Defined]
    /\ lpc' = [lpc EXCEPT ![l] = "definitions"]
    /\ UNCHANGED <<vars, listed>>

(* The handlers of ls are over; what they held is gone.                    *)
Over(ls, how) ==
    /\ lpc' = [l \in Lister |-> IF l \in ls THEN how ELSE lpc[l]]
    /\ seen' = [l \in Lister |-> IF l \in ls THEN {} ELSE seen[l]]
    /\ defined' = [l \in Lister |-> IF l \in ls THEN {} ELSE defined[l]]

(* Mutant: every asset there is is listed.                                 *)
KeepAll(assetIds, records) == records

(* Mutant: the connector gives out one definition and no more.             *)
KeepOne(assetIds, records) ==
    {a \in records : assetIds # {} /\ a.id = CHOOSE id \in assetIds : TRUE}

Keep(assetIds, records) == {a \in records : a.id \in assetIds}

QueryDefinitions(l) ==
    /\ lpc[l] = "definitions"
    /\ listed' = [listed EXCEPT ![l] = Keep(Defined, seen[l])]
    /\ Over({l}, "done")
    /\ UNCHANGED vars

(* An error of a read is the answer.                                       *)
ListingFails(l) ==
    /\ lpc[l] \in {"assets", "definitions"}
    /\ Over({l}, "failed")
    /\ UNCHANGED <<vars, listed>>

(* The process ends.                                                       *)
CutListings ==
    /\ Over({l \in Lister : lpc[l] \in {"assets", "definitions"}}, "failed")
    /\ UNCHANGED listed

ListStep(l) == ListAssets(l) \/ QueryDefinitions(l) \/ ListingFails(l)

-----------------------------------------------------------------------------
(* Pages.                                                                  *)

CeilDiv(n, d) == (n + d - 1) \div d

(* Mutant: the last page is lost unless it is full.                        *)
FullPages(total, perPage) == total \div perPage

TotalPages(total, perPage) == CeilDiv(total, perPage)

(* slice(startIndex, endIndex): clipped to the sequence.                   *)
Page(items, page, perPage) ==
    LET first == (page - 1) * perPage + 1
        last == page * perPage
    IN  SubSeq(items, first, IF last < Len(items) THEN last ELSE Len(items))

CurrentPage(items, page, perPage) ==
    LET beyond == TotalPages(Len(items), perPage) + 1
    IN  IF page < beyond THEN page ELSE beyond

-----------------------------------------------------------------------------
(* Metrics.                                                                *)

(* Every asset is the provider's own.                                      *)
Owner(record) == "provider"

TotalCompaniesSharedWith(l) == Cardinality({Owner(a) : a \in listed[l]})

-----------------------------------------------------------------------------
(* Correctness.                                                            *)

ListingTypeOK ==
    /\ lpc \in [Lister -> {"new", "assets", "definitions", "done", "failed"}]
    /\ seen \in [Lister -> SUBSET MetaData]
    /\ listed \in [Lister -> SUBSET MetaData]
    /\ defined \in [Lister -> SUBSET AssetId]

(***************************************************************************)
(* What a listing gives out is shared when it is given out: the asset      *)
(* still has its contract definition and has not been blanked, although    *)
(* the assets were read some calls ago and unshares ran since.             *)
(***************************************************************************)
ListedIsShared ==
    [][\A l \in Lister : lpc[l] = "definitions" /\ lpc'[l] = "done" =>
          \A a \in listed'[l] : contracts[a.id] # Absent /\ Live(a.id)]_listers

(***************************************************************************)
(* A footprint that was shared before the first read and still is at the   *)
(* second is in the listing: no share or unshare of another footprint that *)
(* comes in between hides it.                                              *)
(***************************************************************************)
NothingMissed ==
    [][\A l \in Lister : lpc[l] = "definitions" /\ lpc'[l] = "done" =>
          defined[l] \cap Defined \subseteq {a.id : a \in listed'[l]}]_listers

(***************************************************************************)
(* Whatever the order of a listing and the size of its pages, the pages    *)
(* put one after the other are the listing: all are full but the last,     *)
(* which is not empty and holds the rest, and each begins where the one    *)
(* before it ends.  The page after the last is empty and is where any      *)
(* later page number is sent back to.                                      *)
(***************************************************************************)
PagesPartitionListing ==
    \A l \in Lister : \A items \in SetToSeqs(listed[l]) : \A perPage \in 1 .. 3 :
        LET pages == TotalPages(Len(items), perPage)
            before(page) == (page - 1) * perPage
        IN  /\ \A page \in 1 .. pages :
                 /\ before(page) < Len(items)
                 /\ Len(Page(items, page, perPage)) =
                       IF page < pages THEN perPage ELSE Len(items) - before(page)
                 /\ \A i \in 1 .. Len(Page(items, page, perPage)) :
                       Page(items, page, perPage)[i] = items[before(page) + i]
            /\ Page(items, pages + 1, perPage) = <<>>
            /\ CurrentPage(items, pages + 2, perPage) = pages + 1

(***************************************************************************)
(* The metrics tell the provider with how many companies it shares.        *)
(***************************************************************************)
CompaniesSharedWith ==
    \A l \in Lister :
        TotalCompaniesSharedWith(l) = Cardinality({a.sharedWith : a \in listed[l]})

=============================================================================
