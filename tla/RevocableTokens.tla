--------------------------- MODULE RevocableTokens ---------------------------
(***************************************************************************)
(* What the service promises of its JWTs.  A success is justified by what  *)
(* was true at moments of the request itself: the JWT was not revoked, its *)
(* user was whitelisted, the account existed.  A revoked jti stays revoked *)
(* until its JWT has expired for good, and a JWT expires for good only     *)
(* when no request still has to ask whether it is revoked.  Anything may   *)
(* be refused.                                                             *)
(*                                                                         *)
(* The whitelist is asked for whatever is granted, but for protectNoList,  *)
(* which is there to leave it out, and for what Waived excuses.            *)
(***************************************************************************)
CONSTANTS
    Users, Tokens, Requests, None,
    Waived \* operations that grant a JWT without asking whether the user is whitelisted

VARIABLES
    users,   \* the accounts: "absent", "pending" or "whitelisted"
    jwts,    \* the JWTs signed so far, each with its jti and its user
    revoked, \* jtis that are known to be revoked
    expired, \* jtis that no request may come with any more
    open,    \* requests under way
    asked,   \* what each request asks for, with which jti or for which user
    seen,    \* the facts that each request has seen
    answer   \* what each request was answered

tokens  == <<users, jwts, revoked, expired>>
session == <<open, asked, seen, answer>>

BearerOps == {"protect", "protectNoList", "refresh", "revoke"}

\* What a request must have seen before it is let through or given a JWT.
Promised(op) ==
    CASE op = "protect"               -> {"valid", "listed"}
      [] op = "protectNoList"         -> {"valid"}
      [] op = "refresh"               -> {"valid", "listed", "exists"}
      [] op \in {"callback", "issue"} -> {"listed", "exists"}
      [] OTHER                        -> {}

Needs(op) == IF op \in Waived THEN Promised(op) \ {"listed"} ELSE Promised(op)

Holds(fact, j, u) ==
    \/ fact = "valid"  /\ j \notin revoked
    \/ fact = "listed" /\ users[u] = "whitelisted"
    \/ fact = "exists" /\ users[u] # "absent"

Nothing == [op |-> "none", jti |-> None, sub |-> None]

Init ==
    /\ users \in [Users -> {"absent", "pending", "whitelisted"}]
    /\ jwts = {} /\ revoked = {} /\ expired = {}
    /\ open = {}
    /\ asked = [r \in Requests |-> Nothing]
    /\ seen = [r \in Requests |-> {}]
    /\ answer = [r \in Requests |-> "none"]

Ask(r, op, j, u) == asked' = [asked EXCEPT ![r] = [op |-> op, jti |-> j, sub |-> u]]

\* A request comes with a JWT that has not expired for good, or names a user or a jti.
Begin(r) ==
    /\ r \notin open
    /\ open' = open \cup {r}
    /\ \/ \E op \in BearerOps, t \in jwts :
            t.jti \notin expired /\ Ask(r, op, t.jti, t.sub)
       \/ \E op \in {"issue", "callback", "delist"}, u \in Users : Ask(r, op, None, u)
       \/ \E j \in Tokens : Ask(r, "status", j, None)
    /\ answer' = [answer EXCEPT ![r] = "none"]
    /\ UNCHANGED <<tokens, seen>>

See(r) ==
    /\ r \in open
    /\ \E fact \in Needs(asked[r].op) :
         /\ Holds(fact, asked[r].jti, asked[r].sub)
         /\ seen' = [seen EXCEPT ![r] = @ \cup {fact}]
    /\ UNCHANGED <<tokens, open, asked, answer>>

End(r, reply) ==
    /\ open' = open \ {r}
    /\ answer' = [answer EXCEPT ![r] = reply]
    /\ asked' = [asked EXCEPT ![r] = Nothing]
    /\ seen' = [seen EXCEPT ![r] = {}]

Accept(r) ==
    /\ r \in open /\ asked[r].op \in {"protect", "protectNoList"}
    /\ Needs(asked[r].op) \subseteq seen[r]
    /\ End(r, "ACCEPTED")
    /\ UNCHANGED tokens

\* The new JWT belongs to the user of the request and has a jti of its own.
Sign(r) ==
    /\ r \in open /\ asked[r].op \in {"refresh", "callback", "issue"}
    /\ Needs(asked[r].op) \subseteq seen[r]
    /\ \E t \in jwts' :
         /\ t.sub = asked[r].sub /\ \A old \in jwts : old.jti # t.jti
         /\ jwts' = jwts \cup {t}
    /\ End(r, "TOKEN")
    /\ UNCHANGED <<users, revoked, expired>>

\* A revocation may take effect and yet be reported as a failure.
Revoke(r) ==
    /\ r \in open /\ asked[r].op = "revoke"
    /\ revoked' = revoked \cup {asked[r].jti}
    /\ End(r, "REVOKED") \/ End(r, "refused")
    /\ UNCHANGED <<users, jwts, expired>>

Report(r) ==
    /\ r \in open /\ asked[r].op = "status"
    /\ End(r, IF asked[r].jti \in revoked THEN "REVOKED" ELSE "NOT_REVOKED")
    /\ UNCHANGED tokens

Delist(r) ==
    /\ r \in open /\ asked[r].op = "delist"
    /\ users[asked[r].sub] # "absent"
    /\ users' = [users EXCEPT ![asked[r].sub] = "pending"]
    /\ End(r, "DELISTED")
    /\ UNCHANGED <<jwts, revoked, expired>>

\* The first login of a user makes an account that is not yet whitelisted.
Register(r) ==
    /\ r \in open /\ asked[r].op = "callback"
    /\ users[asked[r].sub] = "absent"
    /\ users' = [users EXCEPT ![asked[r].sub] = "pending"]
    /\ End(r, "refused")
    /\ UNCHANGED <<jwts, revoked, expired>>

\* At once, or at any time later.
Refuse(r) == End(r, "refused") /\ UNCHANGED tokens

Administer ==
    /\ UNCHANGED <<session, jwts, revoked, expired>>
    /\ users' \in [Users -> {"absent", "pending", "whitelisted"}]

Expire ==
    /\ UNCHANGED <<session, users, jwts, revoked>>
    /\ expired \subseteq expired' /\ expired' \subseteq {t.jti : t \in jwts}
    /\ \A r \in open :
          asked[r].jti \in expired' \ expired =>
             asked[r].op = "status" \/ "valid" \in seen[r]

Forget ==
    /\ UNCHANGED <<session, users, jwts, expired>>
    /\ revoked' \subseteq revoked /\ revoked \ revoked' \subseteq expired

Next ==
    \/ \E r \in Requests :
         \/ Begin(r) \/ See(r) \/ Refuse(r)
         \/ Accept(r) \/ Sign(r) \/ Revoke(r) \/ Report(r) \/ Delist(r) \/ Register(r)
    \/ Administer \/ Expire \/ Forget

Spec == Init /\ [][Next]_<<tokens, session>>
=============================================================================
