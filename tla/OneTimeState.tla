---------------------------- MODULE OneTimeState ----------------------------
(***************************************************************************)
(* What the login promises of its OAuth states: an issued state is         *)
(* redeemed at most once, and only within Ttl of its issue.  It may also   *)
(* be lost without having been redeemed (the user then logs in again).     *)
(***************************************************************************)
EXTENDS Integers

CONSTANTS States, Ttl, None

VARIABLES
    now,
    issuedAt,    \* when each state was issued, or None
    outstanding, \* issued states that may still be redeemed
    redeemed     \* states that were redeemed

Init ==
    /\ now = 0
    /\ issuedAt = [s \in States |-> None]
    /\ outstanding = {}
    /\ redeemed = {}

Issue(s) ==
    /\ issuedAt[s] = None
    /\ issuedAt' = [issuedAt EXCEPT ![s] = now]
    /\ outstanding' = outstanding \cup {s}
    /\ UNCHANGED <<now, redeemed>>

Redeem(s) ==
    /\ s \in outstanding \ redeemed
    /\ now <= issuedAt[s] + Ttl
    /\ outstanding' = outstanding \ {s}
    /\ redeemed' = redeemed \cup {s}
    /\ UNCHANGED <<now, issuedAt>>

Lose ==
    /\ outstanding' \subseteq outstanding
    /\ UNCHANGED <<now, issuedAt, redeemed>>

Advance ==
    /\ now' = now + 1
    /\ UNCHANGED <<issuedAt, outstanding, redeemed>>

Next ==
    \/ \E s \in States : Issue(s) \/ Redeem(s)
    \/ Lose
    \/ Advance

Spec == Init /\ [][Next]_<<now, issuedAt, outstanding, redeemed>>
=============================================================================
