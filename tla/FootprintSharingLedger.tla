------------------------ MODULE FootprintSharingLedger ------------------------
(***************************************************************************)
(* FootprintSharing implements AccessLedger: the grants are the contract   *)
(* definitions, a token is the id of one.  Everything else (assets,        *)
(* policies, agreements, the stages of a handler) is hidden.               *)
(***************************************************************************)
EXTENDS FootprintSharing

(* A contract definition grants the share its selector names.              *)
grantsBar ==
    [id \in AssetId |-> IF contracts[id] = Absent THEN Absent ELSE contracts[id].share]

PhaseOf(label) ==
    CASE label = "new" -> "idle"
      [] label \in {"check", "createAsset", "createPolicy", "createContract"} -> "share"
      [] label = "find" -> "unshare"
      [] label \in {"deleteContract", "blank", "deleteAsset"} -> "withdrawing"
      [] OTHER -> "done"

phaseBar == [r \in Request |-> PhaseOf(pc[r])]

Ledger == INSTANCE AccessLedger WITH
    Token <- AssetId, None <- Absent,
    grants <- grantsBar, want <- share, phase <- phaseBar, owed <- todo

(***************************************************************************)
(* The sharing API keeps the ledger's promises, provided no client id is a *)
(* prefix of another and no month or year of another (with the fuzzy       *)
(* lookup it does not: see the run on months 1 and 10): every answer is    *)
(* true of the contract definitions at one moment while the request was    *)
(* open, and "revoked" comes only after every definition found for the     *)
(* share is gone, whatever calls fail and whatever runs beside it.         *)
(***************************************************************************)
ImplementsLedger == Ledger!Spec

=============================================================================
