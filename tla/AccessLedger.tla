---------------------------- MODULE AccessLedger ----------------------------
(***************************************************************************)
(* What the sharing API promises, without the connector: a ledger of       *)
(* grants.  A grant gives one company one month of footprints.  Sharing    *)
(* adds a grant, unsharing withdraws those it found, and each answer is    *)
(* true of the ledger at a moment between the request and the answer.      *)
(* A request may always fail, having done all, part or nothing of its work *)
(* (a grant it made stays, a grant it withdrew stays withdrawn).           *)
(***************************************************************************)
CONSTANTS Share, Token, Request, None

VARIABLES
    grants,    \* Token -> the share granted under it, or None
    want,      \* Request -> the share the request is about
    phase,     \* Request -> where the request is
    owed,      \* Request -> tokens an unshare has still to withdraw
    reply      \* Request -> the answer

vars == <<grants, want, phase, owed, reply>>

Init ==
    /\ grants = [t \in Token |-> None]
    /\ want \in [Request -> Share]
    /\ phase = [r \in Request |-> "idle"]
    /\ owed = [r \in Request |-> {}]
    /\ reply = [r \in Request |-> "none"]

Answered(r, code) ==
    /\ phase' = [phase EXCEPT ![r] = "done"]
    /\ reply' = [reply EXCEPT ![r] = code]

Granted(s) == {t \in Token : grants[t] = s}

(* A request arrives.                                                      *)
Ask(r) ==
    /\ phase[r] = "idle"
    /\ \E kind \in {"share", "unshare"} : phase' = [phase EXCEPT ![r] = kind]
    /\ UNCHANGED <<grants, want, owed, reply>>

(* It is bad, and nothing is done.                                         *)
Reject(r) ==
    /\ phase[r] = "idle"
    /\ Answered(r, "rejected")
    /\ UNCHANGED <<grants, want, owed>>

(* The share is granted; the answer may still be lost.                     *)
Grant(r) ==
    /\ phase[r] = "share"
    /\ \E t \in Token :
          /\ grants[t] = None
          /\ grants' = [grants EXCEPT ![t] = want[r]]
    /\ \E code \in {"shared", "failed"} : Answered(r, code)
    /\ UNCHANGED <<want, owed>>

(* It is granted already.                                                  *)
Refuse(r) ==
    /\ phase[r] = "share"
    /\ Granted(want[r]) # {}
    /\ Answered(r, "alreadyShared")
    /\ UNCHANGED <<grants, want, owed>>

(* An unshare takes note of every grant there is for its share, or of none.*)
Find(r) ==
    /\ phase[r] = "unshare"
    /\ owed' = [owed EXCEPT ![r] = Granted(want[r])]
    /\ \/ /\ Granted(want[r]) = {}
          /\ Answered(r, "notFound")
       \/ /\ Granted(want[r]) # {}
          /\ phase' = [phase EXCEPT ![r] = "withdrawing"]
          /\ UNCHANGED reply
    /\ UNCHANGED <<grants, want>>

(* It withdraws one of them; when it does not get to know, it gives up.    *)
Withdraw(r) ==
    /\ phase[r] = "withdrawing"
    /\ \E t \in owed[r] :
          /\ grants[t] # None
          /\ grants' = [grants EXCEPT ![t] = None]
          /\ \/ /\ owed' = [owed EXCEPT ![r] = @ \ {t}]
                /\ UNCHANGED <<phase, reply>>
             \/ /\ Answered(r, "failed")
                /\ UNCHANGED owed
    /\ UNCHANGED want

(* "Revoked" means that every grant found has been withdrawn.              *)
Confirm(r) ==
    /\ phase[r] = "withdrawing"
    /\ owed[r] = {}
    /\ Answered(r, "revoked")
    /\ UNCHANGED <<grants, want, owed>>

Fail(r) ==
    /\ phase[r] \in {"share", "unshare", "withdrawing"}
    /\ Answered(r, "failed")
    /\ UNCHANGED <<grants, want, owed>>

(* The service goes down: every open request is cut off.                   *)
Outage ==
    LET open == {r \in Request : phase[r] \notin {"idle", "done"}}
    IN  /\ phase' = [r \in Request |-> IF r \in open THEN "done" ELSE phase[r]]
        /\ reply' = [r \in Request |-> IF r \in open THEN "reset" ELSE reply[r]]
        /\ UNCHANGED <<grants, want, owed>>

Next ==
    \/ \E r \in Request :
          \/ Ask(r) \/ Reject(r)
          \/ Grant(r) \/ Refuse(r)
          \/ Find(r) \/ Withdraw(r) \/ Confirm(r)
          \/ Fail(r)
    \/ Outage

Spec == Init /\ [][Next]_vars

=============================================================================
