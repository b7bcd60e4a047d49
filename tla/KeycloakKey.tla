----------------------------- MODULE KeycloakKey -----------------------------
(***************************************************************************)
(* How an SFC backend comes to trust tokens.  The constructor of           *)
(* KeycloakAdmin starts two calls to Keycloak and cannot wait for them:    *)
(* log in as administrator, then read the realm's RS256 key.  The server   *)
(* listens meanwhile.  Every route behind authMiddleware verifies its      *)
(* token with the key there is by then, or with none.                      *)
(***************************************************************************)
EXTENDS Naturals

CONSTANTS
    Client,       \* who may ask for tokens
    RealmKey,     \* the RS256 keys the realm may have
    NoKey,        \* publicKey is undefined
    Bad,          \* a token the realm did not sign, or one that is too old
    MaxFaults     \* faults in a behaviour (bound)

VARIABLES
    signing,      \* the key the realm signs with
    startup,      \* the detached calls of the constructor: "auth", "keys", "over"
    publicKey,    \* the key the process verifies with
    token,        \* Client -> the key its token is signed with, or Bad
    faults        \* faults so far

vars == <<signing, startup, publicKey, token, faults>>

Init ==
    /\ signing \in RealmKey
    /\ startup = "auth"
    /\ publicKey = NoKey
    /\ token = [c \in Client |-> Bad]
    /\ faults = 0

-----------------------------------------------------------------------------
(* A new process: what the old one knew is gone.                           *)
Boot ==
    /\ startup' = "auth"
    /\ publicKey' = NoKey

AdminAuth ==
    /\ startup = "auth"
    /\ startup' = "keys"
    /\ UNCHANGED <<signing, publicKey, token, faults>>

(* The realm's RS256 key.  A realm that lists none leaves publicKey        *)
(* undefined without an error; that is a matter of the realm's             *)
(* configuration and is left out.                                          *)
FetchKey ==
    /\ startup = "keys"
    /\ startup' = "over"
    /\ publicKey' = signing
    /\ UNCHANGED <<signing, token, faults>>

(* Mutant: the rejection is caught and forgotten.                          *)
InitFailsQuietly ==
    /\ startup # "over"
    /\ faults < MaxFaults
    /\ faults' = faults + 1
    /\ startup' = "over"
    /\ UNCHANGED <<signing, publicKey, token>>

(* Nobody catches a rejection of the constructor's calls: the process ends *)
(* and is started again.                                                   *)
InitFails ==
    /\ startup # "over"
    /\ faults < MaxFaults
    /\ faults' = faults + 1
    /\ Boot
    /\ UNCHANGED <<signing, token>>

(* POST /token: Keycloak signs with the key of the day.  A refusal or an   *)
(* outage (InvalidCredentials, AccountNotSetup,                            *)
(* KeyCloakCouldNotGenerateToken) changes nothing.                         *)
Login(c) ==
    /\ token' = [token EXCEPT ![c] = signing]
    /\ UNCHANGED <<signing, startup, publicKey, faults>>

TokenExpires(c) ==
    /\ token' = [token EXCEPT ![c] = Bad]
    /\ UNCHANGED <<signing, startup, publicKey, faults>>

(* The realm gets a new key; tokens it signed before stay as they are.     *)
Rotate(k) ==
    /\ signing' = k
    /\ UNCHANGED <<startup, publicKey, token, faults>>

(* Mutant: without a key there is nothing to compare the token with.       *)
TrustEarly(c) == publicKey \in {NoKey, token[c]}

(* verifyToken: a missing key makes a PEM of "undefined", which refuses    *)
(* every token.                                                            *)
Verified(c) == publicKey = token[c]

-----------------------------------------------------------------------------
Startup == AdminAuth \/ FetchKey \/ InitFails

Next ==
    \/ Startup
    \/ \E c \in Client : Login(c) \/ TokenExpires(c)
    \/ \E k \in RealmKey : Rotate(k)

Spec == Init /\ [][Next]_vars

(* Keycloak answers, with what was asked for or with an error.             *)
Fairness == WF_vars(Startup)

-----------------------------------------------------------------------------
TypeOK ==
    /\ signing \in RealmKey
    /\ startup \in {"auth", "keys", "over"}
    /\ publicKey \in RealmKey \cup {NoKey}
    /\ token \in [Client -> RealmKey \cup {Bad}]
    /\ faults \in 0 .. MaxFaults

(***************************************************************************)
(* A process that has no key does not stay without: either its detached    *)
(* startup calls bring one, or it ends and the next process tries again,   *)
(* if the realm has an RS256 key (see FetchKey).                           *)
(* Nobody awaits those calls, and a server without a key answers           *)
(* "invalid token" to everyone.                                            *)
(***************************************************************************)
KeyArrives == publicKey = NoKey ~> publicKey # NoKey

=============================================================================
