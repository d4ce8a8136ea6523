---------------------------- MODULE TokenHandout ----------------------------
(***************************************************************************)
(* What one request of POST /api/github-token promises, whatever other     *)
(* requests, logins and administrators do meanwhile: it hands out a token  *)
(* only once it has found its user whitelisted and with a token and has    *)
(* then tried to record this; the token was stored for that user while it  *)
(* ran, or is one it stored; and once it has judged its user it gives no   *)
(* answer before the attempt to record the judgement.                      *)
(***************************************************************************)
CONSTANTS Grants, None

VARIABLES
    account, \* the user's account: "absent", "pending" or "whitelisted"
    stored,  \* the user's access token, or None
    stage,   \* of the request: "idle", "open", "granted" or "denied"
    offer,   \* the token it may hand out
    entry,   \* its audit entry: "none", "success", "failure" or "lost"
    answer   \* its answer: "none", "token" or "refused"

user    == <<account, stored>>
session == <<stage, offer, entry, answer>>

Init ==
    /\ account \in {"absent", "pending", "whitelisted"}
    /\ stored \in Grants \cup {None}
    /\ stage = "idle" /\ offer = None /\ entry = "none" /\ answer = "none"

Begin ==
    /\ stage = "idle" /\ stage' = "open"
    /\ entry' = "none" /\ answer' = "none"
    /\ UNCHANGED <<user, offer>>

Grant ==
    /\ stage = "open" /\ account = "whitelisted" /\ stored # None
    /\ stage' = "granted" /\ offer' = stored
    /\ UNCHANGED <<user, entry, answer>>

Deny ==
    /\ stage = "open" /\ (account # "whitelisted" \/ stored = None)
    /\ stage' = "denied"
    /\ UNCHANGED <<user, offer, entry, answer>>

End(reply) == stage' = "idle" /\ offer' = None /\ answer' = reply

\* The entry is made, or the attempt fails.
RecordGrant ==
    /\ stage = "granted" /\ entry = "none"
    /\ entry' \in {"success", "lost"}
    /\ UNCHANGED <<user, stage, offer, answer>>

RecordDenial ==
    /\ stage = "denied"
    /\ entry' \in {"failure", "lost"}
    /\ End("refused")
    /\ UNCHANGED user

Recorded == stage = "granted" /\ entry # "none"

\* The request takes the token that is stored by now.
Retake ==
    /\ Recorded /\ stored # None
    /\ offer' = stored
    /\ UNCHANGED <<user, stage, entry, answer>>

\* The request stores a new token; if it does not learn of it, it keeps its own or fails.
Replace ==
    /\ Recorded /\ account # "absent"
    /\ stored' \in Grants
    /\ \/ offer' \in {offer, stored'} /\ UNCHANGED <<stage, answer>>
       \/ End("refused")
    /\ UNCHANGED <<account, entry>>

HandOut ==
    /\ Recorded /\ offer # None
    /\ End("token")
    /\ UNCHANGED <<user, entry>>

\* An error before the judgement, or after its record.
Fail ==
    /\ stage = "open" \/ Recorded
    /\ End("refused")
    /\ UNCHANGED <<user, entry>>

\* A login, or another request; an account made by a login is not yet whitelisted.
StoredByOthers ==
    /\ stored' \in Grants
    /\ account' = IF account = "absent" THEN "pending" ELSE account
    /\ UNCHANGED session

\* A deleted account takes its token with it.
Administer ==
    /\ account' \in {"absent", "pending", "whitelisted"}
    /\ stored' = IF account' = "absent" THEN None ELSE stored
    /\ UNCHANGED session

Next ==
    \/ Begin \/ Grant \/ Deny \/ RecordGrant \/ RecordDenial
    \/ Retake \/ Replace \/ HandOut \/ Fail
    \/ StoredByOthers \/ Administer

Spec == Init /\ [][Next]_<<user, session>>
=============================================================================
