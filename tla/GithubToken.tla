---------------------------- MODULE GithubToken ----------------------------
(***************************************************************************)
(* The GitHub tokens of one user: stored by the OAuth callback, handed to  *)
(* services and refreshed by POST /api/github-token.  A request is split   *)
(* at its awaited calls, so that other requests, logins and the            *)
(* administrator run in between.  The refresh runs in a read-committed     *)
(* transaction: its read takes no lock, its write takes effect when it     *)
(* commits.                                                                *)
(*                                                                         *)
(* GitHub is external: a grant is an access token with its refresh token,  *)
(* and a refresh token works until a refresh replaces it.                  *)
(***************************************************************************)
EXTENDS Integers, FiniteSets

CONSTANTS
    Requests,       \* request slots of POST /api/github-token
    Logins,         \* slots of the OAuth callback
    Grants,         \* the grants GitHub can issue
    AccessLifetime, \* expires_in of an expiring grant
    Threshold,      \* GITHUB_TOKEN_REFRESH_THRESHOLD_SECONDS
    RequestSpan,    \* longest time between the start of a handler and its answer
    MaxTime,        \* bound of the clock
    AdminSettings,  \* what the administrator makes of the user's account
    Rotations,      \* whether a refresh replaces the refresh token: some of TRUE, FALSE
    Faults,         \* whether database and network calls may fail
    None

ASSUME TimeAssumption ==
    /\ {AccessLifetime, Threshold, RequestSpan, MaxTime} \subseteq Nat
    /\ 2 * RequestSpan <= Threshold

\* A grant outlives the request that obtains it (GitHub: eight hours).
ASSUME LifetimeAssumption == RequestSpan < AccessLifetime

ASSUME SwitchAssumption ==
    /\ Rotations \subseteq BOOLEAN /\ Faults \in BOOLEAN
    /\ AdminSettings \subseteq {"absent", "pending", "whitelisted"}

ASSUME NoneAssumption == None \notin Grants \cup Nat

VARIABLES
    now,
    row,         \* the user's row: account, both tokens and their form, recorded expiry
    issued,      \* GitHub: grants issued so far
    live,        \* GitHub: grants whose refresh token still works
    grantExpiry, \* GitHub: when the access token of a grant expires
    req,         \* the state of each request slot
    login,       \* the state of each callback slot
    stale,       \* slots that hold the id of a row deleted meanwhile
    degraded,    \* history: slots whose refresh failed
    abandoned    \* history: refresh tokens spent by a refresh that was not stored

vars == <<now, row, issued, live, grantExpiry, req, login, stale, degraded, abandoned>>

-----------------------------------------------------------------------------
(* Data                                                                    *)

Grant == Grants \cup {None}
Time  == Nat \cup {None}

\* Tokens stored before version 1.2 are plain text until a migration has encrypted them.
Form == {"encrypted", "plaintext"}

User == [account : {"absent", "pending", "whitelisted"}, access : Grant,
         refresh : Grant, form : Form, expires : Time]

\* What a request awaits: the user row, the audit insert, the read of the transaction,
\* GitHub, GitHub's response, the write of the transaction, the decryption.
Awaited == {"user", "audit", "tx", "github", "response", "write", "decrypt"}

Code == {"none", "OK", "USER_NOT_FOUND", "USER_NOT_WHITELISTED", "TOKEN_NOT_AVAILABLE",
         "TOKEN_REFRESH_FAILED", "INTERNAL_ERROR"}

\* access (stored in this form), refresh and expires are the handler's variables, held the
\* refresh token read in the transaction; grant, newRefresh (None when the response has no
\* refresh token) and newExpires are the outcome of the refresh.
Request == [pc : Awaited \cup {"idle", "done"}, verdict : Code, access : Grant,
            refresh : Grant, form : Form, expires : Time, held : Grant, grant : Grant,
            newRefresh : Grant, newExpires : Time,
            audit : {"none", "success", "failure", "lost"}, began : Nat]

Login == [pc : {"idle", "profile", "upsert"}, grant : Grant, refresh : Grant,
          expires : Time, began : Nat]

TypeOK ==
    /\ now \in Nat
    /\ row \in User
    /\ issued \subseteq Grants
    /\ live \subseteq Grants
    /\ grantExpiry \in [Grants -> Time]
    /\ req \in [Requests -> Request]
    /\ login \in [Logins -> Login]
    /\ stale \subseteq Requests
    /\ degraded \subseteq Requests
    /\ abandoned \subseteq Grants

-----------------------------------------------------------------------------
(* Helpers                                                                 *)

Active(r) == req[r].pc \notin {"idle", "done"}

\* isTokenExpiringSoon: a token without expiry is not expiring.
ExpiringSoon(e) == e # None /\ e - now <= Threshold

\* Bound: enough grants are left for every request under way.
RoomForGrant ==
    Cardinality({r \in Requests : Active(r)}) < Cardinality(Grants \ issued)

Goto(r, pc) == req' = [req EXCEPT ![r].pc = pc]

\* The variables of a handler outside its calls.
Handler(pc, verdict, audit, began) ==
    [pc |-> pc, verdict |-> verdict, access |-> None, refresh |-> None, form |-> "encrypted",
     expires |-> None, held |-> None, grant |-> None, newRefresh |-> None, newExpires |-> None,
     audit |-> audit, began |-> began]

\* The answer; only the verdict and the audit row remain of the request.
Answer(r, code) ==
    req' = [req EXCEPT ![r] = Handler("done", code, req[r].audit, 0)]

\* A variant of RefreshFailed that serves the token also when it has expired.
RefreshFailedMutant(r) == Goto(r, "decrypt") /\ degraded' = degraded \cup {r}

\* The catch around the transaction: the error is logged, the token read first is served
\* unless its recorded expiry has passed.
RefreshFailed(r) ==
    /\ IF req[r].expires # None /\ now > req[r].expires
       THEN Answer(r, "TOKEN_REFRESH_FAILED")
       ELSE Goto(r, "decrypt")
    /\ degraded' = degraded \cup {r}

-----------------------------------------------------------------------------
(* POST /api/github-token                                                  *)

\* The service is authenticated and names the user by its id or by its GitHub id.
Arrive(r) ==
    /\ ~Active(r)
    /\ RoomForGrant
    /\ req' = [req EXCEPT ![r] = Handler("user", "none", "none", now)]
    /\ stale' = stale \ {r}
    /\ degraded' = degraded \ {r}
    /\ UNCHANGED <<now, row, issued, live, grantExpiry, login, abandoned>>

Verdict ==
    CASE row.account = "absent"  -> "USER_NOT_FOUND"
      [] row.account = "pending" -> "USER_NOT_WHITELISTED"
      [] row.account = "whitelisted" ->
           IF row.access = None THEN "TOKEN_NOT_AVAILABLE" ELSE "OK"

ReadUser(r) ==
    /\ req[r].pc = "user"
    /\ req' = [req EXCEPT ![r] = [@ EXCEPT !.pc = "audit", !.verdict = Verdict,
                                          !.access = row.access,
                                          !.refresh = row.refresh, !.form = row.form,
                                          !.expires = row.expires]]
    /\ UNCHANGED <<now, row, issued, live, grantExpiry, login, stale, degraded, abandoned>>

\* logServiceAccess swallows the failure of its insert.  The user_id column is a UUID: for
\* an unknown user named by GitHub id the handler passes "github:<id>" and the insert
\* always fails.
AuditOutcomes(r) ==
    {IF req[r].verdict = "OK" THEN "success" ELSE "failure"}
        \cup (IF Faults \/ req[r].verdict = "USER_NOT_FOUND" THEN {"lost"} ELSE {})

\* A variant of NeedsRefresh that refreshes tokens only once they have expired.
NeedsRefreshMutant(r) ==
    req[r].expires # None /\ now >= req[r].expires /\ req[r].refresh # None

NeedsRefresh(r) == ExpiringSoon(req[r].expires) /\ req[r].refresh # None

AuditAccess(r) ==
    /\ req[r].pc = "audit"
    /\ \E outcome \in AuditOutcomes(r) :
         IF req[r].verdict # "OK"
         THEN req' = [req EXCEPT ![r] = Handler("done", req[r].verdict, outcome, 0)]
         ELSE req' = [req EXCEPT ![r] = [@ EXCEPT
                         !.audit = outcome,
                         !.pc = IF NeedsRefresh(r) THEN "tx" ELSE "decrypt"]]
    /\ UNCHANGED <<now, row, issued, live, grantExpiry, login, stale, degraded, abandoned>>

\* The transaction reads the row again: a refresh that another request completed in the
\* meantime is used as it is.  Decrypting a refresh token stored as plain text throws.
ReadInTransaction(r) ==
    /\ req[r].pc = "tx"
    /\ IF r \in stale \/ row.refresh = None
          \/ (ExpiringSoon(row.expires) /\ row.form = "plaintext")
       THEN RefreshFailed(r)
       ELSE /\ IF ExpiringSoon(row.expires)
               THEN req' = [req EXCEPT ![r] = [@ EXCEPT !.pc = "github",
                                                       !.held = row.refresh]]
               ELSE req' = [req EXCEPT ![r] = [@ EXCEPT !.pc = "decrypt",
                                                       !.access = row.access,
                                                       !.form = row.form,
                                                       !.expires = row.expires]]
            /\ UNCHANGED degraded
    /\ UNCHANGED <<now, row, issued, live, grantExpiry, login, stale, abandoned>>

\* GitHub handles the refresh: it rejects a refresh token that was used before.
RefreshAtGithub(r) ==
    /\ req[r].pc = "github"
    /\ \/ /\ req[r].held \in live
          /\ \E g \in Grants \ issued, rotates \in Rotations :
               /\ issued' = issued \cup {g}
               /\ live' = IF rotates THEN (live \ {req[r].held}) \cup {g} ELSE live
               /\ grantExpiry' = [grantExpiry EXCEPT ![g] = now + AccessLifetime]
               /\ req' = [req EXCEPT ![r] = [@ EXCEPT !.pc = "response", !.grant = g,
                                                      !.newRefresh = IF rotates THEN g
                                                                     ELSE None]]
          /\ UNCHANGED degraded
       \/ /\ req[r].held \notin live
          /\ RefreshFailed(r)
          /\ UNCHANGED <<issued, live, grantExpiry>>
    /\ UNCHANGED <<now, row, login, stale, abandoned>>

\* The response arrives: calculateTokenExpiration counts from here.
ReceiveTokens(r) ==
    /\ req[r].pc = "response"
    /\ req' = [req EXCEPT ![r] = [@ EXCEPT !.pc = "write",
                                          !.newExpires = now + AccessLifetime]]
    /\ UNCHANGED <<now, row, issued, live, grantExpiry, login, stale, degraded, abandoned>>

\* A variant of Refreshed that keeps the old refresh token.
RefreshedMutant(r) ==
    [account |-> row.account, access |-> req[r].grant, refresh |-> req[r].held,
     form |-> "encrypted", expires |-> req[r].newExpires]

\* The row after the update of the transaction: without a new refresh token in the
\* response the one read in the transaction is written back.
Refreshed(r) ==
    [account |-> row.account, access |-> req[r].grant,
     refresh |-> IF req[r].newRefresh = None THEN req[r].held ELSE req[r].newRefresh,
     form |-> "encrypted", expires |-> req[r].newExpires]

\* A variant of CommitRefresh that takes no notice of a row that is gone.
CommitRefreshMutant(r) ==
    /\ req[r].pc = "write"
    /\ row' = IF r \in stale THEN row ELSE Refreshed(r)
    /\ req' = [req EXCEPT ![r] = [@ EXCEPT !.pc = "decrypt", !.access = req[r].grant,
                                          !.form = "encrypted",
                                          !.expires = req[r].newExpires]]
    /\ UNCHANGED <<now, issued, live, grantExpiry, login, stale, degraded, abandoned>>

\* The transaction updates the row and commits; without a row the update throws.
CommitRefresh(r) ==
    /\ req[r].pc = "write"
    /\ \/ /\ r \notin stale
          /\ row' = Refreshed(r)
          /\ req' = [req EXCEPT ![r] = [@ EXCEPT !.pc = "decrypt",
                                                !.access = req[r].grant,
                                                !.form = "encrypted",
                                                !.expires = req[r].newExpires]]
          /\ UNCHANGED <<degraded, abandoned>>
       \/ /\ r \in stale
          /\ RefreshFailed(r)
          /\ abandoned' = abandoned \cup {req[r].held}
          /\ UNCHANGED row
    /\ UNCHANGED <<now, issued, live, grantExpiry, login, stale>>

\* The commit takes effect but its confirmation is lost.
CommitUnconfirmed(r) ==
    /\ Faults
    /\ req[r].pc = "write"
    /\ r \notin stale
    /\ row' = Refreshed(r)
    /\ RefreshFailed(r)
    /\ UNCHANGED <<now, issued, live, grantExpiry, login, stale, abandoned>>

\* The token is decrypted and sent; decrypting plain text throws.
SendToken(r) ==
    /\ req[r].pc = "decrypt"
    /\ Answer(r, IF req[r].form = "encrypted" THEN "OK" ELSE "INTERNAL_ERROR")
    /\ UNCHANGED <<now, row, issued, live, grantExpiry, login, stale, degraded, abandoned>>

\* A variant of HandlerFault without the outer catch.
HandlerFaultMutant(r) ==
    /\ Faults
    /\ req[r].pc \in {"user", "decrypt"}
    /\ Goto(r, "unhandled")
    /\ UNCHANGED <<now, row, issued, live, grantExpiry, login, stale, degraded, abandoned>>

\* The read of the user or the decryption throws.
HandlerFault(r) ==
    /\ Faults
    /\ req[r].pc \in {"user", "decrypt"}
    /\ Answer(r, "INTERNAL_ERROR")
    /\ UNCHANGED <<now, row, issued, live, grantExpiry, login, stale, degraded, abandoned>>

\* The transaction fails: its read, the request to GitHub, GitHub's response, its write or
\* its time limit.  What GitHub has done is not undone.
TransactionFault(r) ==
    /\ Faults
    /\ req[r].pc \in {"tx", "github", "response", "write"}
    /\ RefreshFailed(r)
    /\ abandoned' = IF req[r].pc \in {"response", "write"}
                    THEN abandoned \cup {req[r].held} ELSE abandoned
    /\ UNCHANGED <<now, row, issued, live, grantExpiry, login, stale>>

-----------------------------------------------------------------------------
(* GET /auth/github/callback, once the OAuth state is validated            *)

\* GitHub exchanges the code for a grant, expiring (with a refresh token) or not.
ExchangeCode(l) ==
    /\ login[l].pc = "idle"
    /\ RoomForGrant
    /\ \E g \in Grants \ issued, expiring \in BOOLEAN :
         /\ issued' = issued \cup {g}
         /\ live' = IF expiring THEN live \cup {g} ELSE live
         /\ grantExpiry' =
              [grantExpiry EXCEPT ![g] = IF expiring THEN now + AccessLifetime ELSE None]
         /\ login' = [login EXCEPT ![l] =
              [pc |-> "profile", grant |-> g, refresh |-> IF expiring THEN g ELSE None,
               expires |-> None, began |-> now]]
    /\ UNCHANGED <<now, row, req, stale, degraded, abandoned>>

\* The user's profile arrives, and the expiry is computed only now.
FetchProfile(l) ==
    /\ login[l].pc = "profile"
    /\ login' = [login EXCEPT ![l] = [@ EXCEPT
         !.pc = "upsert",
         !.expires = IF login[l].refresh = None THEN None ELSE now + AccessLifetime]]
    /\ UNCHANGED <<now, row, issued, live, grantExpiry, req, stale, degraded, abandoned>>

EndLogin(l) ==
    login' = [login EXCEPT ![l] = [pc |-> "idle", grant |-> None, refresh |-> None,
                                   expires |-> None, began |-> 0]]

StoreGrant(l) ==
    /\ login[l].pc = "upsert"
    /\ row' = [account |-> IF row.account = "absent" THEN "pending" ELSE row.account,
               access |-> login[l].grant, refresh |-> login[l].refresh, form |-> "encrypted",
               expires |-> login[l].expires]
    /\ EndLogin(l)
    /\ UNCHANGED <<now, issued, live, grantExpiry, req, stale, degraded, abandoned>>

LoginFault(l) ==
    /\ Faults
    /\ login[l].pc # "idle"
    /\ EndLogin(l)
    /\ UNCHANGED <<now, row, issued, live, grantExpiry, req, stale, degraded, abandoned>>

-----------------------------------------------------------------------------
(* The administrator and time                                              *)

\* An administrator sets or removes the whitelist flag, creates the row (without tokens)
\* or deletes it.
AdminSetsAccount(account) ==
    /\ account # row.account
    /\ row' = IF account = "absent"
              THEN [account |-> account, access |-> None, refresh |-> None,
                    form |-> "encrypted", expires |-> None]
              ELSE [row EXCEPT !.account = account]
    /\ stale' = IF account = "absent"
                THEN stale \cup {r \in Requests : Active(r) /\ req[r].pc # "user"}
                ELSE stale
    /\ UNCHANGED <<now, issued, live, grantExpiry, req, login, degraded, abandoned>>

\* No handler runs for longer than RequestSpan.
Tick ==
    /\ now < MaxTime
    /\ \A r \in Requests : Active(r) => now < req[r].began + RequestSpan
    /\ \A l \in Logins : login[l].pc # "idle" => now < login[l].began + RequestSpan
    /\ now' = now + 1
    /\ UNCHANGED <<row, issued, live, grantExpiry, req, login, stale, degraded, abandoned>>

-----------------------------------------------------------------------------
\* Nothing is under way.
InitIdle ==
    /\ now = 0
    /\ req = [r \in Requests |-> Handler("idle", "none", "none", 0)]
    /\ login = [l \in Logins |-> [pc |-> "idle", grant |-> None, refresh |-> None,
                                  expires |-> None, began |-> 0]]
    /\ stale = {}
    /\ degraded = {}
    /\ abandoned = {}

Init ==
    /\ InitIdle
    /\ row \in [account : {"absent", "whitelisted"}, access : {None}, refresh : {None},
                form : {"encrypted"}, expires : {None}]
    /\ issued = {}
    /\ live = {}
    /\ grantExpiry = [g \in Grants |-> None]

Serve(r) ==
    \/ ReadUser(r)
    \/ AuditAccess(r)
    \/ ReadInTransaction(r)
    \/ RefreshAtGithub(r)
    \/ ReceiveTokens(r)
    \/ CommitRefresh(r)
    \/ CommitUnconfirmed(r)
    \/ SendToken(r)
    \/ HandlerFault(r)
    \/ TransactionFault(r)

LogIn(l) == ExchangeCode(l) \/ FetchProfile(l) \/ StoreGrant(l) \/ LoginFault(l)

Next ==
    \/ \E r \in Requests : Arrive(r) \/ Serve(r)
    \/ \E l \in Logins : LogIn(l)
    \/ \E account \in AdminSettings : AdminSetsAccount(account)
    \/ Tick

Spec == Init /\ [][Next]_vars

-----------------------------------------------------------------------------
(* Properties                                                              *)

Refreshing(r) == req[r].pc \in {"response", "write"}

\* The stored refresh token works at GitHub, is being replaced by a request that holds its
\* successor, or was spent by a refresh that failed after GitHub had done its part: no
\* interleaving of refreshes and logins alone stores a dead refresh token for good.
StoredRefreshTokenUsable ==
    row.refresh # None =>
        \/ row.refresh \in live
        \/ row.refresh \in abandoned
        \/ \E r \in Requests : Refreshing(r) /\ req[r].held = row.refresh

\* A service never receives an access token that GitHub no longer accepts, unless the
\* refresh failed (or the token came without a refresh token and never expires).
ServedTokenUnexpired ==
    [][\A r \in Requests :
          /\ req[r].pc = "decrypt" /\ req'[r].verdict = "OK" /\ req'[r].pc = "done"
          /\ r \notin degraded
          /\ grantExpiry[req[r].access] # None
          => now < grantExpiry[req[r].access]]_vars

\* A failed refresh never makes an expired token last: what is served instead had not
\* expired, by the expiry read with it, longer ago than a handler runs.
DegradedTokenRecent ==
    [][\A r \in Requests :
          /\ req[r].pc = "decrypt" /\ req'[r].verdict = "OK" /\ req'[r].pc = "done"
          /\ r \in degraded /\ req[r].expires # None
          => now <= req[r].expires + RequestSpan]_vars

\* The calls that a request may still await, its answer included.
StepsLeft ==
    [idle |-> 0, done |-> 0, decrypt |-> 1, write |-> 2, response |-> 3, github |-> 4,
     tx |-> 5, audit |-> 6, user |-> 7]

\* Every step of a request brings its answer nearer: a lost race for the refresh token, a
\* failed refresh and a row deleted meanwhile send no request back to an earlier call.
RequestsAdvance ==
    [][\A r \in Requests :
          Active(r) /\ req'[r] # req[r]
          => /\ req'[r].pc \in DOMAIN StepsLeft
             /\ StepsLeft[req'[r].pc] < StepsLeft[req[r].pc]]_vars

\* The inductive invariant behind these.

\* Handlers stay within RequestSpan.
SpanInv ==
    /\ \A r \in Requests : Active(r) =>
          req[r].began <= now /\ now <= req[r].began + RequestSpan
    /\ \A l \in Logins : login[l].pc # "idle" =>
          login[l].began <= now /\ now <= login[l].began + RequestSpan

\* A request whose refresh failed goes straight to its answer, with a token that had not
\* expired when it began.
DegradedInv ==
    \A r \in degraded :
        /\ req[r].pc \in {"decrypt", "done"}
        /\ req[r].pc = "decrypt" /\ req[r].expires # None => req[r].began <= req[r].expires

\* Only grants that GitHub has issued are about; what is refreshed is one of them.
IssuedInv ==
    /\ live \subseteq issued
    /\ {row.access, row.refresh} \subseteq issued \cup {None}
    /\ \A r \in Requests : {req[r].access, req[r].refresh, req[r].held, req[r].grant,
                            req[r].newRefresh} \subseteq issued \cup {None}
    /\ \A r \in Requests : req[r].pc = "github" \/ Refreshing(r) => req[r].held # None
    /\ \A l \in Logins : {login[l].grant, login[l].refresh} \subseteq issued \cup {None}

\* The recorded expiry of a grant is at most one request later than the true one; a grant
\* without refresh token never expires.
Sound(access, refresh, expires) ==
    /\ access # None
    /\ refresh = None => expires = None /\ grantExpiry[access] = None
    /\ refresh # None => /\ expires \in Nat /\ grantExpiry[access] \in Nat
                        /\ expires <= grantExpiry[access] + RequestSpan

\* The new grant of a handler that began then.
NewGrant(grant, began) ==
    /\ grant # None
    /\ grantExpiry[grant] \in Nat /\ began + AccessLifetime <= grantExpiry[grant]

RequestSound(r) ==
    /\ req[r].pc = "audit" /\ req[r].verdict = "OK" =>
          Sound(req[r].access, req[r].refresh, req[r].expires)
    /\ Refreshing(r) => NewGrant(req[r].grant, req[r].began)
    /\ req[r].pc = "write" => Sound(req[r].grant, req[r].held, req[r].newExpires)
    /\ req[r].pc = "decrypt" /\ r \notin degraded =>
          /\ req[r].access # None
          /\ grantExpiry[req[r].access] # None =>
                req[r].began + RequestSpan < grantExpiry[req[r].access]

LoginSound(l) ==
    /\ login[l].pc = "profile" =>
          IF login[l].refresh = None
          THEN login[l].grant # None /\ grantExpiry[login[l].grant] = None
          ELSE NewGrant(login[l].grant, login[l].began)
    /\ login[l].pc = "upsert" => Sound(login[l].grant, login[l].refresh, login[l].expires)

SoundInv ==
    /\ IF row.access = None THEN row.refresh = None
                            ELSE Sound(row.access, row.refresh, row.expires)
    /\ \A r \in Requests : RequestSound(r)
    /\ \A l \in Logins : LoginSound(l)

\* A refresh token that nobody but its receiver has seen: neither the row nor a request
\* that may use it.
Unseen(token) ==
    token \in live /\ row.refresh # token /\ \A r \in Requests : req[r].held # token

\* The refresh tokens on their way into the row, each on one way only.
UnseenInv ==
    /\ \A r \in Requests : Refreshing(r) /\ req[r].newRefresh # None =>
          /\ Unseen(req[r].newRefresh)
          /\ \A q \in Requests \ {r} :
                Refreshing(q) => req[q].newRefresh # req[r].newRefresh
          /\ \A l \in Logins : login[l].refresh # req[r].newRefresh
    /\ \A l \in Logins : login[l].refresh # None =>
          /\ Unseen(login[l].refresh)
          /\ \A m \in Logins \ {l} : login[m].refresh # login[l].refresh

\* Where GitHub keeps refresh tokens, they all work; where it replaces them, a refresh
\* brings a new one.
UsableInv ==
    /\ UnseenInv
    /\ StoredRefreshTokenUsable
    /\ FALSE \in Rotations =>
          /\ row.refresh # None => row.refresh \in live
          /\ \A r \in Requests : req[r].held # None => req[r].held \in live
    /\ FALSE \notin Rotations =>
          \A r \in Requests : Refreshing(r) => req[r].newRefresh # None

\* Whoever is about to store or to retake a token has one.
Sourced ==
    /\ row.refresh # None => row.access # None
    /\ \A r \in Requests : Refreshing(r) => req[r].grant # None
    /\ \A l \in Logins : login[l].pc # "idle" => login[l].grant # None

\* A request goes on only with a token of a whitelisted user, and after the audit insert;
\* the row whose id it holds exists unless it was deleted meanwhile.
HandoutInv ==
    \A r \in Requests :
        /\ Active(r) /\ req[r].verdict = "OK" /\ r \notin stale => row.account # "absent"
        /\ req[r].pc = "user" => req[r].verdict = "none" /\ req[r].audit = "none"
        /\ req[r].pc = "audit" => req[r].verdict # "none" /\ req[r].audit = "none"
        /\ req[r].pc = "audit" /\ req[r].verdict = "OK" => req[r].access # None
        /\ Active(r) /\ req[r].pc \notin {"user", "audit"} =>
              req[r].verdict = "OK" /\ req[r].audit # "none" /\ req[r].access # None

IndInv ==
    /\ TypeOK /\ SpanInv /\ DegradedInv /\ IssuedInv /\ SoundInv /\ HandoutInv
    /\ Rotations # BOOLEAN => UsableInv

-----------------------------------------------------------------------------
(* The promise that this route keeps                                       *)

Stage(r) ==
    IF ~Active(r) THEN "idle"
    ELSE IF req[r].verdict = "none" THEN "open"
    ELSE IF req[r].verdict = "OK" THEN "granted" ELSE "denied"

Reply(r) ==
    IF req[r].pc # "done" THEN "none"
    ELSE IF req[r].verdict = "OK" THEN "token" ELSE "refused"

Offer(r) == IF Stage(r) = "granted" THEN req[r].access ELSE None

Promise(r) == INSTANCE TokenHandout WITH
    account <- row.account, stored <- row.access, stage <- Stage(r), offer <- Offer(r),
    entry <- req[r].audit, answer <- Reply(r)

PromiseBegins == \A r \in Requests : Promise(r)!Init
PromiseKept ==
    \A r \in Requests : [Promise(r)!Next]_<<Promise(r)!user, Promise(r)!session>>

\* Tokens are handed out as TokenHandout allows: by a request that has seen its user
\* whitelisted and has tried to record it, although the account may change, another request
\* may refresh the token and the row may be deleted and made anew while it runs.
ImplementsTokenHandout == PromiseBegins /\ [][PromiseKept]_vars
=============================================================================
