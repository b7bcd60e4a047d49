----------------------------- MODULE ApiProcess -----------------------------
(***************************************************************************)
(* One process of a provider's backend: the sharing handlers and the       *)
(* listings behind authMiddleware, the unshare route, which has none (the  *)
(* SFC unit checks its token instead), and the key fetched at startup.     *)
(* They share the process: an error nobody catches, in a detached          *)
(* deletePolicy or in the startup calls, cuts all of them off.             *)
(***************************************************************************)
EXTENDS FootprintListing

CONSTANTS
    Provider,      \* the client of Keycloak its users are
    RealmKey, NoKey, Bad

ASSUME KeyAssumption ==
    /\ NoKey \notin RealmKey
    /\ Bad \notin RealmKey \cup {NoKey}

VARIABLES signing, startup, publicKey, token

keys == <<signing, startup, publicKey, token>>

(* Both parts count the same faults.                                       *)
K == INSTANCE KeycloakKey WITH Client <- {Provider}

apiVars == <<vars, listers, keys>>

ApiInit == Init /\ ListingInit /\ K!Init

-----------------------------------------------------------------------------
(* Routes behind authMiddleware; who is refused there is answered 401.     *)

AcceptShare(r) == K!Verified(Provider) /\ StartShare(r)

AcceptListing(l) == K!Verified(Provider) /\ StartListing(l)

(* DELETE /emissions/sent.                                                 *)
AcceptUnshare(r) == StartUnshare(r)

(* The process ends, and is started again.                                 *)
Reboot == K!Boot /\ CutListings

SharingGoesOn(r) ==
    \/ Reject(r) \/ ShareStep(r) \/ UnshareStep(r)
    \/ ~ InUse(r) /\ DetachedDelete(r)

(* A detached deletePolicy is refused, or fails otherwise.                 *)
RollbackEndsProcess(r) ==
    /\ \/ InUse(r) /\ DetachedDelete(r)
       \/ DetachedDeleteFails(r)
    /\ Reboot
    /\ UNCHANGED <<signing, token>>

KeycloakEndsProcess ==
    /\ K!InitFails
    /\ Crash
    /\ CutListings
    /\ UNCHANGED <<connector, clock, share, asset, todo, revoked>>

Stop ==
    /\ Fault("process")
    /\ Crash
    /\ Reboot
    /\ UNCHANGED <<connector, clock, share, asset, todo, revoked,
                   signing, token>>

StartupStep ==
    /\ K!AdminAuth \/ K!FetchKey
    /\ UNCHANGED <<vars, listers>>

TokenStep ==
    /\ \/ K!Login(Provider) \/ K!TokenExpires(Provider)
       \/ \E k \in RealmKey : K!Rotate(k)
    /\ UNCHANGED <<vars, listers>>

ApiNext ==
    \/ /\ \/ \E r \in Request : AcceptShare(r) \/ AcceptUnshare(r) \/ SharingGoesOn(r)
          \/ \E id \in AssetId : Negotiate(id)
       /\ UNCHANGED <<listers, keys>>
    \/ /\ \E l \in Lister : AcceptListing(l) \/ ListStep(l)
       /\ UNCHANGED keys
    \/ StartupStep \/ TokenStep
    \/ \E r \in Request : RollbackEndsProcess(r)
    \/ KeycloakEndsProcess
    \/ Stop

ApiSpec == ApiInit /\ [][ApiNext]_apiVars

(* Keycloak answers the startup calls, with a key or an error.             *)
ApiFairness == WF_apiVars(StartupStep \/ KeycloakEndsProcess)

ApiFairSpec == ApiSpec /\ ApiFairness

-----------------------------------------------------------------------------
(* Correctness.                                                            *)

(* Types of the parts.                                                     *)
ApiTypeOK == TypeOK /\ ListingTypeOK /\ K!TypeOK

(***************************************************************************)
(* What goes on behind authMiddleware goes on in a process that has the    *)
(* realm's key: neither a request that came before the key nor one that    *)
(* outlived its process is served.                                         *)
(***************************************************************************)
ServedWithKey ==
    publicKey = NoKey =>
        /\ \A r \in Request :
              pc[r] \notin {"check", "createAsset", "createPolicy", "createContract"}
        /\ \A l \in Lister : lpc[l] \notin {"assets", "definitions"}

(* A process without a key gets one: see KeycloakKey.                      *)
KeyArrives == K!KeyArrives

=============================================================================
