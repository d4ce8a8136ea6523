---------------------------- MODULE TokenService ----------------------------
(***************************************************************************)
(* Issuing, checking, refreshing and revoking JWTs.  Every request handler *)
(* of the Node process is split at its awaited database calls: between two *)
(* steps of one request any other request, the OAuth callback, the         *)
(* administrator or the cleanup job may run.                               *)
(*                                                                         *)
(* Requests is the set of request slots (each serves one request after     *)
(* another), Tokens the supply of random jtis, and time is a counter.      *)
(***************************************************************************)
EXTENDS Integers, FiniteSets

CONSTANTS
    Users,          \* user ids
    Tokens,         \* jtis: the values randomUUID may return
    Requests,       \* request slots
    Operations,     \* the operations clients ask for
    Lifetime,       \* JWT_EXPIRES_IN
    ClockTolerance, \* JWT_CLOCK_TOLERANCE_SECONDS
    Retention,      \* retention of revoked_tokens rows past the token's expiry
    RequestSpan,    \* longest time between the start of a handler and its answer
    MaxTime,        \* bound of the clock
    None            \* absence of a user or of a jti

ASSUME TimeAssumption ==
    /\ {Lifetime, ClockTolerance, Retention, RequestSpan, MaxTime} \subseteq Nat
    /\ ClockTolerance + RequestSpan <= Retention

ASSUME NoneAssumption == None \notin Users \cup Tokens

ASSUME FiniteAssumption == IsFiniteSet(Tokens) /\ IsFiniteSet(Requests)

ASSUME OperationsAssumption ==
    Operations \subseteq {"protect", "protectNoList", "refresh", "revoke",
                          "issue", "callback", "delist", "status"}

VARIABLES
    now,           \* the clock
    users,         \* users table: whether the row exists, and isWhitelisted
    jwts,          \* every JWT signed so far (the clients keep them)
    revokedTokens, \* revoked_tokens table
    req,           \* the state of each request slot
    acked,         \* history: jtis whose revocation was reported as a success
    late,          \* history: slots whose JWT was acked before their request began
    listed         \* history: slots whose user was whitelisted at some moment of
                   \* their request

vars == <<now, users, jwts, revokedTokens, req, acked, late, listed>>

-----------------------------------------------------------------------------
(* Data                                                                    *)

Account == {"absent", "pending", "whitelisted"}

\* The claims that matter: jti, sub and exp.
JWT == [jti : Tokens, sub : Users, exp : Nat]

RevokedToken == [jti : Tokens, tokenExpiresAt : Nat]

\* Operations that are given a JWT.  protect is verifyJWTMiddleware and protectNoList
\* is verifyJWTWithoutWhitelistCheck.
BearerOps == {"protect", "protectNoList", "refresh", "revoke"}

\* issue is GET /api/token, callback the end of GET /auth/github/callback, delist
\* revokeAllUserTokens, status GET /api/token/revocation-status.
Op == BearerOps \cup {"issue", "callback", "delist", "status", "none"}

MintingOps == {"refresh", "issue", "callback"}

\* The database call a request awaits ("accept" and "sign" await nothing any more: the
\* result of the last read is in hand and the handler is about to resume).
Awaited == {"revocation", "whitelist", "existence", "lookup", "create",
            "upsert", "delist", "status"}
PC == Awaited \cup {"idle", "accept", "sign", "done"}

Reply == {"none", "ACCEPTED", "TOKEN", "REVOKED", "NOT_REVOKED", "DELISTED",
          "EXPIRED_TOKEN", "INVALID_TOKEN", "TOKEN_REVOKED", "USER_NOT_FOUND",
          "WHITELIST_REVOKED", "REVOCATION_FAILED", "NO_TOKEN", "INTERNAL_ERROR"}

Request == [op : Op, pc : PC, jti : Tokens \cup {None}, sub : Users \cup {None},
            exp : Nat, began : Nat, reply : Reply]

TypeOK ==
    /\ now \in Nat
    /\ users \in [Users -> Account]
    /\ jwts \subseteq JWT
    /\ revokedTokens \subseteq RevokedToken
    /\ req \in [Requests -> Request]
    /\ acked \subseteq Tokens
    /\ late \subseteq Requests
    /\ listed \subseteq Requests

-----------------------------------------------------------------------------
(* Helpers                                                                 *)

Active(r) == req[r].pc \notin {"idle", "done"}

IsRevoked(j) == \E row \in revokedTokens : row.jti = j

\* verifyJWT: jsonwebtoken rejects from exp + clockTolerance on.
Verifies(t) == now < t.exp + ClockTolerance

Fresh == {j \in Tokens : \A t \in jwts : t.jti # j}

\* The requests that may still sign a JWT.
Minting == {r \in Requests : Active(r) /\ req[r].op \in MintingOps}

\* Bounds: a request that may sign a JWT starts only while a jti is left for it and the
\* clock may still show the JWT to expire.
RoomForToken == now + Lifetime < MaxTime /\ Cardinality(Minting) < Cardinality(Fresh)

Goto(r, pc) == req' = [req EXCEPT ![r].pc = pc]

\* A handler that has ended: what was answered and, after a success, what was asked.
Ended(op, code) == [op |-> IF code \in {"ACCEPTED", "TOKEN"} THEN op ELSE "none",
                    pc |-> "done", jti |-> None, sub |-> None,
                    exp |-> 0, began |-> 0, reply |-> code]

Answer(r, code) == req' = [req EXCEPT ![r] = Ended(req[r].op, code)]

\* A new request arrives in slot r.
Begin(r, op, pc, j, u, exp) ==
    /\ ~Active(r)
    /\ op \in Operations
    /\ op \in MintingOps => RoomForToken
    /\ req' = [req EXCEPT ![r] = [op |-> op, pc |-> pc, jti |-> j, sub |-> u,
                                  exp |-> exp, began |-> now, reply |-> "none"]]
    /\ late' = IF j \in acked THEN late \cup {r} ELSE late \ {r}
    /\ listed' = IF u \in Users /\ users[u] = "whitelisted"
                 THEN listed \cup {r} ELSE listed \ {r}
    /\ UNCHANGED <<now, users, jwts, revokedTokens, acked>>

\* A request that never reaches the database.
Refuse(r, op, code) ==
    /\ ~Active(r)
    /\ op \in Operations
    /\ req' = [req EXCEPT ![r] = Ended(op, code)]
    /\ late' = late \ {r}
    /\ listed' = listed \ {r}
    /\ UNCHANGED <<now, users, jwts, revokedTokens, acked>>

-----------------------------------------------------------------------------
(* Requests that carry a JWT                                               *)

\* The synchronous head of the handler: verifyJWT, then the first database call.
PresentToken(r) ==
    \E op \in BearerOps, t \in jwts :
        IF Verifies(t)
        THEN Begin(r, op, IF op = "revoke" THEN "lookup" ELSE "revocation",
                   t.jti, t.sub, t.exp)
        ELSE Refuse(r, op, IF op = "revoke" THEN "REVOCATION_FAILED" ELSE "EXPIRED_TOKEN")

PresentMalformedToken(r) ==
    \E op \in BearerOps :
        Refuse(r, op, IF op = "revoke" THEN "REVOCATION_FAILED" ELSE "INVALID_TOKEN")

\* A variant of AfterRevocation: refresh without the whitelist check.
AfterRevocationMutant(op) == IF op = "protect" THEN "whitelist" ELSE
                             IF op = "refresh" THEN "existence" ELSE "accept"

\* Where a bearer request goes when its token is not in revoked_tokens.
AfterRevocation(op) == IF op = "protectNoList" THEN "accept" ELSE "whitelist"

\* The read of revoked_tokens by the middlewares and by refreshJWT.
CheckRevocation(r) ==
    /\ req[r].pc = "revocation"
    /\ IF IsRevoked(req[r].jti) THEN Answer(r, "TOKEN_REVOKED")
                                ELSE Goto(r, AfterRevocation(req[r].op))
    /\ UNCHANGED <<now, users, jwts, revokedTokens, acked, late, listed>>

\* The read of the user row by verifyJWTMiddleware and by refreshJWT.
CheckWhitelist(r) ==
    /\ req[r].pc = "whitelist"
    /\ CASE users[req[r].sub] = "absent" -> Answer(r, "USER_NOT_FOUND")
         [] users[req[r].sub] = "pending" -> Answer(r, "WHITELIST_REVOKED")
         [] OTHER -> Goto(r, IF req[r].op = "refresh" THEN "existence" ELSE "accept")
    /\ UNCHANGED <<now, users, jwts, revokedTokens, acked, late, listed>>

\* The middleware resumes after its last read and calls next().
Accept(r) ==
    /\ req[r].pc = "accept"
    /\ Answer(r, "ACCEPTED")
    /\ UNCHANGED <<now, users, jwts, revokedTokens, acked, late, listed>>

-----------------------------------------------------------------------------
(* Signing                                                                 *)

\* GET /api/token?userId=u
RequestToken(r) == \E u \in Users : Begin(r, "issue", "existence", None, u, 0)

\* The OAuth callback of GitHub user u, once the tokens are exchanged.
OAuthCallback(r) == \E u \in Users : Begin(r, "callback", "upsert", None, u, 0)

\* A variant of UpsertUser that refuses only the user whose account it has just created.
UpsertUserMutant(r) ==
    LET u == req[r].sub IN
    /\ req[r].pc = "upsert"
    /\ users' = [users EXCEPT ![u] = IF @ = "absent" THEN "pending" ELSE @]
    /\ IF users[u] # "absent" THEN Goto(r, "existence")
                               ELSE Answer(r, "WHITELIST_REVOKED")
    /\ UNCHANGED <<now, jwts, revokedTokens, acked, late, listed>>

\* user.upsert creates the row with isWhitelisted = false and returns the row.
UpsertUser(r) ==
    LET u == req[r].sub IN
    /\ req[r].pc = "upsert"
    /\ users' = [users EXCEPT ![u] = IF @ = "absent" THEN "pending" ELSE @]
    /\ IF users'[u] = "whitelisted" THEN Goto(r, "existence")
                                    ELSE Answer(r, "WHITELIST_REVOKED")
    /\ UNCHANGED <<now, jwts, revokedTokens, acked, late, listed>>

\* generateJWT reads the user row again.  A missing row is a 404 for GET /api/token,
\* an unmapped error (500) under refreshJWT, a page without token in the callback.
ReadUser(r) ==
    /\ req[r].pc = "existence"
    /\ IF users[req[r].sub] # "absent" THEN Goto(r, "sign")
       ELSE Answer(r, CASE req[r].op = "issue" -> "USER_NOT_FOUND"
                        [] req[r].op = "callback" -> "NO_TOKEN"
                        [] OTHER -> "INTERNAL_ERROR")
    /\ UNCHANGED <<now, users, jwts, revokedTokens, acked, late, listed>>

\* generateJWT resumes: signJWT with a fresh jti, expiring Lifetime from now.
Sign(r) ==
    /\ req[r].pc = "sign"
    /\ \E j \in Fresh :
         jwts' = jwts \cup {[jti |-> j, sub |-> req[r].sub, exp |-> now + Lifetime]}
    /\ Answer(r, "TOKEN")
    /\ UNCHANGED <<now, users, revokedTokens, acked, late, listed>>

-----------------------------------------------------------------------------
(* Revocation                                                              *)

\* revokeToken finds the row of an earlier revocation, or goes on to create one.
LookupRevocation(r) ==
    /\ req[r].pc = "lookup"
    /\ \/ /\ IsRevoked(req[r].jti)
          /\ Answer(r, "REVOKED")
          /\ acked' = acked \cup {req[r].jti}
       \/ /\ ~IsRevoked(req[r].jti)
          /\ Goto(r, "create")
          /\ UNCHANGED acked
    /\ UNCHANGED <<now, users, jwts, revokedTokens, late, listed>>

\* A variant of CreateRevocation that looks for the row again when the insert throws.
CreateRevocationMutant(r) ==
    /\ req[r].pc = "create"
    /\ \/ /\ ~IsRevoked(req[r].jti)
          /\ revokedTokens' = revokedTokens \cup {[jti |-> req[r].jti,
                                                  tokenExpiresAt |-> req[r].exp]}
          /\ acked' = acked \cup {req[r].jti}
          /\ Answer(r, "REVOKED")
       \/ /\ IsRevoked(req[r].jti)
          /\ Goto(r, "lookup")
          /\ UNCHANGED <<revokedTokens, acked>>
    /\ UNCHANGED <<now, users, jwts, late, listed>>

NewRow(r) == [jti |-> req[r].jti, tokenExpiresAt |-> req[r].exp]

\* revokedToken.create; the unique index on jti makes a second insert throw.
CreateRevocation(r) ==
    /\ req[r].pc = "create"
    /\ \/ /\ ~IsRevoked(req[r].jti)
          /\ revokedTokens' = revokedTokens \cup {NewRow(r)}
          /\ acked' = acked \cup {req[r].jti}
          /\ Answer(r, "REVOKED")
       \/ /\ IsRevoked(req[r].jti)
          /\ Answer(r, "REVOCATION_FAILED")
          /\ UNCHANGED <<revokedTokens, acked>>
    /\ UNCHANGED <<now, users, jwts, late, listed>>

\* The insert commits but the connection fails before the result arrives.
CreateRevocationUnconfirmed(r) ==
    /\ req[r].pc = "create"
    /\ ~IsRevoked(req[r].jti)
    /\ revokedTokens' = revokedTokens \cup {NewRow(r)}
    /\ Answer(r, "REVOCATION_FAILED")
    /\ UNCHANGED <<now, users, jwts, acked, late, listed>>

\* revokeAllUserTokens(u)
RevokeAllUserTokens(r) == \E u \in Users : Begin(r, "delist", "delist", None, u, 0)

\* user.update throws when the row does not exist.
Delist(r) ==
    LET u == req[r].sub IN
    /\ req[r].pc = "delist"
    /\ IF users[u] = "absent"
       THEN Answer(r, "REVOCATION_FAILED") /\ UNCHANGED users
       ELSE Answer(r, "DELISTED") /\ users' = [users EXCEPT ![u] = "pending"]
    /\ UNCHANGED <<now, jwts, revokedTokens, acked, late, listed>>

\* GET /api/token/revocation-status?jti=j
RequestStatus(r) == \E j \in Tokens : Begin(r, "status", "status", j, None, 0)

ReadStatus(r) ==
    /\ req[r].pc = "status"
    /\ Answer(r, IF IsRevoked(req[r].jti) THEN "REVOKED" ELSE "NOT_REVOKED")
    /\ UNCHANGED <<now, users, jwts, revokedTokens, acked, late, listed>>

-----------------------------------------------------------------------------
(* A database call that throws                                             *)

\* A variant of FaultReply: the middlewares and the status route fail open.
FaultReplyMutant(op, pc) ==
    CASE pc = "revocation" /\ op # "refresh" -> "ACCEPTED"
      [] pc = "status" -> "NOT_REVOKED"
      [] OTHER -> "INTERNAL_ERROR"

\* What each handler makes of the exception: isTokenRevoked fails closed, revokeToken
\* and revokeAllUserTokens report a failure, the callback shows the page without token.
FaultReply(op, pc) ==
    CASE pc = "revocation" /\ op # "refresh" -> "TOKEN_REVOKED"
      [] pc \in {"lookup", "create", "delist"} -> "REVOCATION_FAILED"
      [] pc = "existence" /\ op = "callback" -> "NO_TOKEN"
      [] OTHER -> "INTERNAL_ERROR"

\* A variant of DatabaseFault: the exception leaves the request without an answer.
UnhandledFault(r) == req[r].pc \in Awaited /\ Goto(r, "unhandled")
                     /\ UNCHANGED <<now, users, jwts, revokedTokens, acked, late, listed>>

DatabaseFault(r) ==
    /\ req[r].pc \in Awaited
    /\ Answer(r, FaultReply(req[r].op, req[r].pc))
    /\ UNCHANGED <<now, users, jwts, revokedTokens, acked, late, listed>>

-----------------------------------------------------------------------------
(* The administrator, the cleanup job and time                             *)

\* An administrator edits users directly in the database.
AdminSetsAccount(u, status) ==
    /\ users[u] # status
    /\ users' = [users EXCEPT ![u] = status]
    /\ listed' = IF status # "whitelisted" THEN listed
                 ELSE listed \cup {r \in Requests : Active(r) /\ req[r].sub = u}
    /\ UNCHANGED <<now, jwts, revokedTokens, req, acked, late>>

ExpiredBefore(cutoff) == {row \in revokedTokens : row.tokenExpiresAt < cutoff}

\* A variant of Cleanup that deletes the rows of expired tokens, without retention.
CleanupMutant ==
    /\ revokedTokens' = {row \in revokedTokens : row.tokenExpiresAt > now}
    /\ UNCHANGED <<now, users, jwts, req, acked, late, listed>>

\* The script is run with --retention=Retention or more, and takes the time before it sends
\* its statement; --dry-run only counts.
Cutoffs == 0 .. (now - Retention)

\* cleanupExpiredRevokedTokens: one deleteMany; if it throws, it has deleted all or nothing.
Cleanup ==
    /\ \E cutoff \in Cutoffs :
         revokedTokens' = revokedTokens \ ExpiredBefore(cutoff)
    /\ UNCHANGED <<now, users, jwts, req, acked, late, listed>>

\* No request is left unanswered for longer than RequestSpan.
Tick ==
    /\ now < MaxTime
    /\ \A r \in Requests : Active(r) => now < req[r].began + RequestSpan
    /\ now' = now + 1
    /\ UNCHANGED <<users, jwts, revokedTokens, req, acked, late, listed>>

-----------------------------------------------------------------------------
Init ==
    /\ now = 0
    /\ users \in [Users -> Account]
    /\ jwts = {}
    /\ revokedTokens = {}
    /\ req = [r \in Requests |->
                [op |-> "none", pc |-> "idle", jti |-> None, sub |-> None,
                 exp |-> 0, began |-> 0, reply |-> "none"]]
    /\ acked = {}
    /\ late = {}
    /\ listed = {}

\* A client sends a request.
Arrive(r) ==
    \/ PresentToken(r)
    \/ PresentMalformedToken(r)
    \/ RequestToken(r)
    \/ OAuthCallback(r)
    \/ RevokeAllUserTokens(r)
    \/ RequestStatus(r)

\* One step of the handler that serves r.
Serve(r) ==
    \/ CheckRevocation(r)
    \/ CheckWhitelist(r)
    \/ Accept(r)
    \/ UpsertUser(r)
    \/ ReadUser(r)
    \/ Sign(r)
    \/ LookupRevocation(r)
    \/ CreateRevocation(r)
    \/ CreateRevocationUnconfirmed(r)
    \/ Delist(r)
    \/ ReadStatus(r)
    \/ DatabaseFault(r)

Next ==
    \/ \E r \in Requests : Arrive(r) \/ Serve(r)
    \/ \E u \in Users, status \in Account : AdminSetsAccount(u, status)
    \/ Cleanup
    \/ Tick

Spec == Init /\ [][Next]_vars

-----------------------------------------------------------------------------
(* Properties                                                              *)

\* A JWT whose revocation was reported as a success before a request began never lets
\* that request through: neither middleware accepts it, and POST /api/token does not
\* refresh it, whatever the interleaving with other revocations, with database errors
\* and with the cleanup job.
AckedNeverAccepted ==
    \A r \in Requests :
        r \in late => req[r].reply \notin {"ACCEPTED", "TOKEN"}

\* verifyJWTMiddleware lets a request through, and refreshJWT and the OAuth callback sign
\* a JWT, only when the user was whitelisted at some moment of that very request.
ListedDuringRequest ==
    \A r \in Requests :
        /\ req[r].op \in {"protect", "refresh", "callback"}
        /\ req[r].reply \in {"ACCEPTED", "TOKEN"}
        => r \in listed

\* Every way to a JWT is for whitelisted users, GET /api/token as the callback and the
\* refresh: who is given one was whitelisted at some moment of the request.
TokensOnlyForListed ==
    \A r \in Requests :
        req[r].op \in MintingOps /\ req[r].reply = "TOKEN" => r \in listed

\* A status request that begins after a revocation was reported answers "not revoked"
\* only once the row was cleaned up, when no JWT with that jti can verify any more.
StatusAgreesWithRevocation ==
    [][\A r \in Requests :
          /\ req[r].pc = "status"
          /\ req'[r].reply = "NOT_REVOKED"
          /\ r \in late
          => \A t \in jwts : t.jti = req[r].jti => ~Verifies(t)]_vars

\* The cleanup job deletes a revoked_tokens row only when neither a new verification nor
\* a request that verified the JWT earlier and is still going to read the table needs it.
CleanupKeepsNeededRows ==
    [][\A row \in revokedTokens \ revokedTokens' :
          /\ \A t \in jwts : t.jti = row.jti => ~Verifies(t)
          /\ \A r \in Requests : ~(req[r].pc = "revocation" /\ req[r].jti = row.jti)]_vars

\* The inductive invariant behind the safety properties.

\* A request's fields fit the place its handler has reached.
WellFormed(r) ==
    /\ req[r].op \in Operations \cup {"none"}
    /\ req[r].pc = "revocation" => req[r].op \in {"protect", "protectNoList", "refresh"}
    /\ req[r].pc = "whitelist" => req[r].op \in {"protect", "refresh"}
    /\ req[r].pc \in {"lookup", "create"} => req[r].op = "revoke"
    /\ req[r].pc \in {"existence", "sign"} => req[r].op \in MintingOps
    /\ req[r].pc = "accept" => req[r].op \in {"protect", "protectNoList"}
    /\ req[r].pc = "upsert" => req[r].op = "callback"
    /\ req[r].pc = "delist" => req[r].op = "delist"
    /\ req[r].pc = "status" => req[r].op = "status"
    /\ req[r].op \in {"issue", "callback", "delist"} => req[r].jti = None
    /\ req[r].pc \in {"revocation", "lookup", "create", "status"} => req[r].jti \in Tokens
    /\ req[r].pc \in {"revocation", "whitelist", "existence", "sign", "upsert", "delist"} =>
          req[r].sub \in Users
    /\ req[r].pc # "done" => req[r].reply = "none"

\* A request that still has to read or write revoked_tokens holds a JWT that verified
\* when it began, at most RequestSpan ago.
VerifiedRecently(r) ==
    req[r].pc \in {"revocation", "lookup", "create"} =>
        /\ [jti |-> req[r].jti, sub |-> req[r].sub, exp |-> req[r].exp] \in jwts
        /\ req[r].began < req[r].exp + ClockTolerance
        /\ now <= req[r].began + RequestSpan

\* A request that began after the acknowledgement cannot have passed the revocation check.
Stopped(r) ==
    r \in late =>
        /\ req[r].pc \in {"revocation", "lookup", "create", "status", "done"}
        /\ req[r].pc # "done" => req[r].jti \in acked
        /\ req[r].reply \notin {"ACCEPTED", "TOKEN"}

\* Past the whitelist check, the user has been seen whitelisted during the request.
Listed(r) ==
    /\ Active(r) /\ req[r].sub \in Users /\ users[req[r].sub] = "whitelisted" =>
          r \in listed
    /\ /\ req[r].op \in {"protect", "refresh", "callback"}
       /\ \/ req[r].pc \in {"accept", "existence", "sign"}
          \/ req[r].reply \in {"ACCEPTED", "TOKEN"}
       => r \in listed

\* Each jti belongs to one JWT, and each row carries the expiry of its JWT.
RowsMatchTokens ==
    /\ \A s, t \in jwts : s.jti = t.jti => s = t
    /\ \A row \in revokedTokens :
          \E t \in jwts : t.jti = row.jti /\ t.exp = row.tokenExpiresAt

\* An acknowledged revocation is in the table until its JWT is past the retention.
AckedDurable ==
    \A j \in acked :
        \E t \in jwts : t.jti = j /\ (IsRevoked(j) \/ t.exp + Retention < now)

TypeInv == TypeOK /\ \A r \in Requests : WellFormed(r)

RevocationInv ==
    /\ RowsMatchTokens
    /\ AckedDurable
    /\ \A r \in Requests : VerifiedRecently(r) /\ Stopped(r)

WhitelistInv == \A r \in Requests : Listed(r)

\* A jti is left for every request that may still sign a JWT.
JtisLeft == Cardinality(Minting) <= Cardinality(Fresh)

IndInv == TypeInv /\ RevocationInv /\ WhitelistInv /\ JtisLeft

\* No request waits for anything but its database call or the event loop, also at the
\* bound of the jtis.
NeverStuck == \A r \in Requests : Active(r) => ENABLED Serve(r)

\* The steps that a handler is from its answer at most.
StepsLeft ==
    [idle |-> 0, done |-> 0, accept |-> 1, sign |-> 1, create |-> 1, delist |-> 1,
     status |-> 1, existence |-> 2, lookup |-> 2, whitelist |-> 3, upsert |-> 3,
     revocation |-> 4]

\* Every step of a request brings its answer nearer: no error, lost race or change of the
\* user sends a handler back or leaves it without an end.  As no request is ever stuck, each
\* is answered once its database calls settle.
RequestsAdvance ==
    [][\A r \in Requests :
          Active(r) /\ req'[r] # req[r]
          => /\ req'[r].pc \in DOMAIN StepsLeft
             /\ StepsLeft[req'[r].pc] < StepsLeft[req[r].pc]]_vars

-----------------------------------------------------------------------------
(* The promise that this service keeps                                     *)

\* What the handler has seen when it gets to a place.
Seen(r) ==
    {fact \in {"valid", "listed", "exists"} :
       \/ /\ fact = "valid" /\ req[r].op \in {"protect", "protectNoList", "refresh"}
          /\ req[r].pc \in {"whitelist", "accept", "existence", "sign"}
       \/ /\ fact = "listed" /\ req[r].op \in {"protect", "refresh", "callback"}
          /\ req[r].pc \in {"accept", "existence", "sign"}
       \/ fact = "exists" /\ req[r].pc = "sign"}

\* An answer, as far as the promise tells answers apart.
Outcome(reply) ==
    IF reply \in {"none", "ACCEPTED", "TOKEN", "REVOKED", "NOT_REVOKED", "DELISTED"}
    THEN reply ELSE "refused"

\* What is asked of r; of a request that has ended nothing is left.
Asked(r) ==
    [op |-> IF Active(r) THEN req[r].op ELSE "none", jti |-> req[r].jti, sub |-> req[r].sub]

RevokedJtis == {row.jti : row \in revokedTokens}

\* Past its retention a JWT needs no row any more.
ExpiredJtis == {t.jti : t \in {t \in jwts : t.exp + Retention < now}}

Open == {r \in Requests : Active(r)}
AllAsked == [r \in Requests |-> Asked(r)]
AllSeen == [r \in Requests |-> Seen(r)]
Answers == [r \in Requests |-> Outcome(req[r].reply)]

\* GET /api/token asks only whether the account exists: wherever clients ask for it, the
\* promise has to waive the whitelist for it, and for nothing else.
Promise == INSTANCE RevocableTokens WITH
    Waived <- Operations \cap {"issue"},
    revoked <- RevokedJtis, expired <- ExpiredJtis, open <- Open,
    asked <- AllAsked, seen <- AllSeen, answer <- Answers

\* Although every handler reads and writes in steps of its own, between which others run,
\* the service behaves as if each success were decided by facts that held during the
\* request, and each revocation took effect at once and for good; without GET /api/token it
\* does so with no waiver.
ImplementsRevocableTokens == Promise!Spec
=============================================================================
