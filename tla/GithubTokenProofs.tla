-------------------------- MODULE GithubTokenProofs --------------------------
(***************************************************************************)
(* Proofs about GithubToken, for every number of requests, logins and      *)
(* grants, and every lifetime and threshold that the assumptions admit:    *)
(* what a service receives still works at GitHub unless its refresh        *)
(* failed, a failed refresh hands out nothing old, and concurrent          *)
(* refreshes and logins leave a refresh token that works.                  *)
(***************************************************************************)
EXTENDS GithubToken, TLAPS

-----------------------------------------------------------------------------
(* What a step makes of a request                                          *)

\* Only the request r changes, and it remains a request.
OnlyRequest(r) ==
    /\ req' \in [Requests -> Request]
    /\ \A q \in Requests \ {r} : req'[q] = req[q]

LEMMA OneRequest ==
    ASSUME TypeOK, NEW r \in Requests, NEW x \in Request, req' = [req EXCEPT ![r] = x]
    PROVE  OnlyRequest(r) /\ req'[r] = x
BY DEF TypeOK, OnlyRequest

Empty(x) ==
    /\ x.access = None /\ x.refresh = None /\ x.expires = None /\ x.held = None
    /\ x.grant = None /\ x.newRefresh = None /\ x.newExpires = None

Audit == {"none", "success", "failure", "lost"}

LEMMA HandlerFields ==
    ASSUME NEW pc \in Awaited \cup {"idle", "done"}, NEW verdict \in Code, NEW audit \in Audit,
           NEW began \in Nat
    PROVE  /\ Handler(pc, verdict, audit, began) \in Request
           /\ Handler(pc, verdict, audit, began).pc = pc
           /\ Handler(pc, verdict, audit, began).verdict = verdict
           /\ Handler(pc, verdict, audit, began).began = began
           /\ Handler(pc, verdict, audit, began).audit = audit
           /\ Empty(Handler(pc, verdict, audit, began))
BY DEF Handler, Request, Empty, Audit, Grant, Form, Time

LEMMA HandlerStep ==
    ASSUME TypeOK, NEW r \in Requests, NEW pc \in Awaited \cup {"idle", "done"},
           NEW verdict \in Code, NEW audit \in Audit, NEW began \in Nat,
           req' = [req EXCEPT ![r] = Handler(pc, verdict, audit, began)]
    PROVE  /\ OnlyRequest(r) /\ Empty(req'[r])
           /\ req'[r].pc = pc /\ req'[r].verdict = verdict /\ req'[r].began = began
           /\ req'[r].audit = audit
<1>1. Handler(pc, verdict, audit, began) \in Request
  BY HandlerFields
<1>2. OnlyRequest(r) /\ req'[r] = Handler(pc, verdict, audit, began)
  BY <1>1, OneRequest
<1> QED BY <1>2, HandlerFields

\* The request has ended.
Answered(r) == OnlyRequest(r) /\ req'[r].pc = "done" /\ Empty(req'[r])

LEMMA AnswerStep ==
    ASSUME TypeOK, NEW r \in Requests, NEW code \in Code, Answer(r, code)
    PROVE  Answered(r) /\ req'[r].verdict = code /\ req'[r].audit = req[r].audit
<1>1. req[r].audit \in Audit
  BY DEF TypeOK, Request, Audit
<1>2. "done" \in Awaited \cup {"idle", "done"} /\ 0 \in Nat
  OBVIOUS
<1>3. req' = [req EXCEPT ![r] = Handler("done", code, req[r].audit, 0)]
  BY DEF Answer
<1> DEFINE x == Handler("done", code, req[r].audit, 0)
<1>4. /\ x \in Request /\ x.pc = "done" /\ x.verdict = code /\ x.audit = req[r].audit
      /\ Empty(x)
  BY SMTT(30), <1>1, <1>2, HandlerFields
<1> HIDE DEF x
<1>5. OnlyRequest(r) /\ req'[r] = x
  BY <1>3, <1>4, OneRequest DEF x
<1> QED BY <1>4, <1>5 DEF Answered

\* The request ends without a token, and its audit entry stays.
Unserved(r) == req'[r].verdict # "OK" /\ req'[r].audit = req[r].audit

\* The request keeps the values it has, but for its pc.
Kept(r) ==
    /\ req'[r].verdict = req[r].verdict /\ req'[r].access = req[r].access
    /\ req'[r].refresh = req[r].refresh /\ req'[r].form = req[r].form
    /\ req'[r].expires = req[r].expires /\ req'[r].held = req[r].held
    /\ req'[r].grant = req[r].grant /\ req'[r].newRefresh = req[r].newRefresh
    /\ req'[r].newExpires = req[r].newExpires /\ req'[r].audit = req[r].audit
    /\ req'[r].began = req[r].began

LEMMA GotoStep ==
    ASSUME TypeOK, NEW r \in Requests, NEW pc \in Awaited, Goto(r, pc)
    PROVE  OnlyRequest(r) /\ req'[r].pc = pc /\ Kept(r)
<1>1. req[r] \in Request
  BY DEF TypeOK
<1>2. [req[r] EXCEPT !.pc = pc] \in Request
  BY <1>1 DEF Request
<1>3. req' = [req EXCEPT ![r] = [req[r] EXCEPT !.pc = pc]]
  BY DEF Goto
<1>4. OnlyRequest(r) /\ req'[r] = [req[r] EXCEPT !.pc = pc]
  BY <1>2, <1>3, OneRequest
<1> QED BY <1>1, <1>4 DEF Kept, Request

\* A failed refresh ends the request, or leaves it with the token it has read first.
LEMMA RefreshFailedStep ==
    ASSUME TypeOK, NEW r \in Requests, RefreshFailed(r)
    PROVE  /\ OnlyRequest(r) /\ degraded' = degraded \cup {r}
           /\ \/ Answered(r) /\ Unserved(r)
              \/ /\ req'[r].pc = "decrypt" /\ Kept(r)
                 /\ req[r].expires = None \/ now <= req[r].expires
<1>1. req[r].expires \in Time /\ now \in Nat
  BY DEF TypeOK, Request
<1>2. CASE req[r].expires # None /\ now > req[r].expires
  <2>1. Answer(r, "TOKEN_REFRESH_FAILED") /\ "TOKEN_REFRESH_FAILED" \in Code
    BY <1>2 DEF RefreshFailed, Code
  <2> QED BY <2>1, AnswerStep DEF RefreshFailed, Answered, Unserved
<1>3. CASE ~(req[r].expires # None /\ now > req[r].expires)
  <2>1. Goto(r, "decrypt") /\ "decrypt" \in Awaited
    BY <1>3 DEF RefreshFailed, Awaited
  <2>2. req[r].expires = None \/ now <= req[r].expires
    BY <1>1, <1>3 DEF Time
  <2> QED BY <2>1, <2>2, GotoStep DEF RefreshFailed
<1> QED BY <1>2, <1>3

LEMMA ArriveStep ==
    ASSUME TypeOK, NEW r \in Requests, Arrive(r)
    PROVE  /\ OnlyRequest(r) /\ req'[r].pc = "user" /\ Empty(req'[r]) /\ req'[r].began = now
           /\ req'[r].verdict = "none" /\ req'[r].audit = "none"
           /\ ~Active(r) /\ degraded' = degraded \ {r} /\ stale' = stale \ {r}
<1>1. now \in Nat /\ "user" \in Awaited /\ "none" \in Code /\ "none" \in Audit
  BY DEF TypeOK, Awaited, Code, Audit
<1>2. "user" \in Awaited \cup {"idle", "done"}
  BY <1>1
<1>3. req' = [req EXCEPT ![r] = Handler("user", "none", "none", now)]
  BY DEF Arrive
<1>4. /\ OnlyRequest(r) /\ req'[r].pc = "user" /\ Empty(req'[r]) /\ req'[r].began = now
      /\ req'[r].verdict = "none" /\ req'[r].audit = "none"
  BY <1>1, <1>2, <1>3, HandlerStep
<1> QED BY <1>4 DEF Arrive

LEMMA ReadUserStep ==
    ASSUME TypeOK, NEW r \in Requests, ReadUser(r)
    PROVE  /\ OnlyRequest(r) /\ req[r].pc = "user" /\ req'[r].pc = "audit"
           /\ req'[r].verdict = Verdict /\ req'[r].access = row.access
           /\ req'[r].refresh = row.refresh /\ req'[r].expires = row.expires
           /\ req'[r].held = req[r].held /\ req'[r].grant = req[r].grant
           /\ req'[r].newRefresh = req[r].newRefresh /\ req'[r].began = req[r].began
           /\ req'[r].audit = req[r].audit
<1> DEFINE x == [req[r] EXCEPT !.pc = "audit", !.verdict = Verdict, !.access = row.access,
                               !.refresh = row.refresh, !.form = row.form,
                               !.expires = row.expires]
<1>1. req[r] \in Request /\ row \in User /\ Verdict \in Code
  BY DEF TypeOK, Verdict, Code, User
<1>2. x \in Request
  BY <1>1 DEF Request, User, Awaited
<1>3. req' = [req EXCEPT ![r] = x]
  BY DEF ReadUser
<1>4. OnlyRequest(r) /\ req'[r] = x
  BY <1>2, <1>3, OneRequest
<1>5. req[r].pc = "user"
  BY DEF ReadUser
<1> QED BY <1>1, <1>4, <1>5 DEF Request

\* After the audit row the request is refused, refreshes, or sends what it has read.
LEMMA AuditStep ==
    ASSUME TypeOK, NEW r \in Requests, AuditAccess(r)
    PROVE  /\ OnlyRequest(r) /\ req[r].pc = "audit"
           /\ req'[r].verdict = req[r].verdict
           /\ req'[r].audit \in {IF req[r].verdict = "OK" THEN "success" ELSE "failure", "lost"}
           /\ \/ Answered(r) /\ req[r].verdict # "OK"
              \/ /\ req[r].verdict = "OK"
                 /\ req'[r].pc = IF NeedsRefresh(r) THEN "tx" ELSE "decrypt"
                 /\ req'[r].access = req[r].access
                 /\ req'[r].refresh = req[r].refresh /\ req'[r].expires = req[r].expires
                 /\ req'[r].held = req[r].held /\ req'[r].grant = req[r].grant
                 /\ req'[r].newRefresh = req[r].newRefresh /\ req'[r].began = req[r].began
<1>1. req[r] \in Request /\ req[r].verdict \in Code /\ req[r].pc = "audit"
  BY DEF TypeOK, Request, AuditAccess
<1>2. PICK outcome \in AuditOutcomes(r) :
         IF req[r].verdict # "OK"
         THEN req' = [req EXCEPT ![r] = Handler("done", req[r].verdict, outcome, 0)]
         ELSE req' = [req EXCEPT ![r] = [@ EXCEPT
                         !.audit = outcome,
                         !.pc = IF NeedsRefresh(r) THEN "tx" ELSE "decrypt"]]
  BY DEF AuditAccess
<1>3. /\ outcome \in Audit
      /\ outcome \in {IF req[r].verdict = "OK" THEN "success" ELSE "failure", "lost"}
  BY DEF AuditOutcomes, Audit
<1>4. CASE req[r].verdict # "OK"
  <2>1. req' = [req EXCEPT ![r] = Handler("done", req[r].verdict, outcome, 0)]
    BY <1>2, <1>4
  <2>2. "done" \in Awaited \cup {"idle", "done"} /\ 0 \in Nat
    OBVIOUS
  <2> DEFINE x == Handler("done", req[r].verdict, outcome, 0)
  <2>3. /\ x \in Request /\ x.pc = "done" /\ x.verdict = req[r].verdict
        /\ x.audit = outcome /\ Empty(x)
    BY <1>1, <1>3, <2>2, HandlerFields
  <2> HIDE DEF x
  <2>4. OnlyRequest(r) /\ req'[r] = x
    BY <2>1, <2>3, OneRequest DEF x
  <2> QED BY <1>1, <1>3, <1>4, <2>3, <2>4 DEF Answered
<1>5. CASE req[r].verdict = "OK"
  <2> DEFINE pc == IF NeedsRefresh(r) THEN "tx" ELSE "decrypt"
             x == [req[r] EXCEPT !.audit = outcome, !.pc = pc]
  <2>1. pc \in Awaited
    BY DEF Awaited
  <2>2. req' = [req EXCEPT ![r] = x]
    BY <1>2, <1>5
  <2> HIDE DEF pc
  <2>3. x \in Request
    BY <1>1, <1>3, <2>1 DEF Request, Audit
  <2>4. OnlyRequest(r) /\ req'[r] = x
    BY <2>2, <2>3, OneRequest
  <2>5. req'[r].pc = pc /\ req'[r].audit = outcome
    BY <1>1, <2>4 DEF Request
  <2> QED BY <1>1, <1>3, <1>5, <2>4, <2>5 DEF Request, pc
<1> QED BY <1>4, <1>5

\* The refresh of this request has failed; what is left to do is to answer.
Failed(r) ==
    /\ OnlyRequest(r) /\ degraded' = degraded \cup {r}
    /\ \/ Answered(r) /\ Unserved(r)
       \/ /\ req'[r].pc = "decrypt" /\ Kept(r)
          /\ req[r].expires = None \/ now <= req[r].expires

\* The transaction fails, hands out the token it has read, or goes on to refresh it.
LEMMA TransactionStep ==
    ASSUME TypeOK, NEW r \in Requests, ReadInTransaction(r)
    PROVE  /\ req[r].pc = "tx"
           /\ \/ Failed(r)
              \/ /\ OnlyRequest(r) /\ degraded' = degraded /\ row.refresh # None
                 /\ row.form = "encrypted"
                 /\ req'[r].pc = "github" /\ req'[r].held = row.refresh
                 /\ req'[r].verdict = req[r].verdict /\ req'[r].access = req[r].access
                 /\ req'[r].refresh = req[r].refresh /\ req'[r].expires = req[r].expires
                 /\ req'[r].grant = req[r].grant
                 /\ req'[r].newRefresh = req[r].newRefresh /\ req'[r].began = req[r].began
                 /\ req'[r].audit = req[r].audit
              \/ /\ OnlyRequest(r) /\ degraded' = degraded /\ row.refresh # None
                 /\ ~ExpiringSoon(row.expires)
                 /\ req'[r].pc = "decrypt" /\ req'[r].held = req[r].held
                 /\ req'[r].verdict = req[r].verdict /\ req'[r].access = row.access
                 /\ req'[r].refresh = req[r].refresh /\ req'[r].expires = row.expires
                 /\ req'[r].grant = req[r].grant
                 /\ req'[r].newRefresh = req[r].newRefresh /\ req'[r].began = req[r].began
                 /\ req'[r].audit = req[r].audit
<1>1. req[r] \in Request /\ row \in User /\ req[r].pc = "tx"
  BY DEF TypeOK, ReadInTransaction
<1>2. CASE r \in stale \/ row.refresh = None
           \/ (ExpiringSoon(row.expires) /\ row.form = "plaintext")
  <2>1. RefreshFailed(r)
    BY <1>2 DEF ReadInTransaction
  <2> QED BY <1>1, <2>1, RefreshFailedStep DEF Failed
<1>3. CASE ~(r \in stale \/ row.refresh = None
             \/ (ExpiringSoon(row.expires) /\ row.form = "plaintext"))
  <2>1. CASE ExpiringSoon(row.expires)
    <3> DEFINE x == [req[r] EXCEPT !.pc = "github", !.held = row.refresh]
    <3>1. x \in Request
      BY <1>1 DEF Request, User, Awaited
    <3>2. req' = [req EXCEPT ![r] = x] /\ degraded' = degraded
      BY <1>3, <2>1 DEF ReadInTransaction
    <3>3. OnlyRequest(r) /\ req'[r] = x
      BY <3>1, <3>2, OneRequest
    <3>4. /\ req'[r].pc = "github" /\ req'[r].held = row.refresh
          /\ req'[r].verdict = req[r].verdict /\ req'[r].access = req[r].access
          /\ req'[r].refresh = req[r].refresh /\ req'[r].expires = req[r].expires
          /\ req'[r].grant = req[r].grant
          /\ req'[r].newRefresh = req[r].newRefresh /\ req'[r].began = req[r].began
          /\ req'[r].audit = req[r].audit
      BY <1>1, <3>3 DEF Request
    <3> HIDE DEF x
    <3>5. row.form = "encrypted"
      BY <1>1, <1>3, <2>1 DEF User, Form
    <3> QED BY <1>1, <1>3, <3>2, <3>3, <3>4, <3>5
  <2>2. CASE ~ExpiringSoon(row.expires)
    <3> DEFINE x == [req[r] EXCEPT !.pc = "decrypt", !.access = row.access,
                                   !.form = row.form, !.expires = row.expires]
    <3>1. x \in Request
      BY <1>1 DEF Request, User, Awaited
    <3>2. req' = [req EXCEPT ![r] = x] /\ degraded' = degraded
      BY <1>3, <2>2 DEF ReadInTransaction
    <3>3. OnlyRequest(r) /\ req'[r] = x
      BY <3>1, <3>2, OneRequest
    <3>4. /\ req'[r].pc = "decrypt" /\ req'[r].held = req[r].held
          /\ req'[r].verdict = req[r].verdict /\ req'[r].access = row.access
          /\ req'[r].refresh = req[r].refresh /\ req'[r].expires = row.expires
          /\ req'[r].grant = req[r].grant
          /\ req'[r].newRefresh = req[r].newRefresh /\ req'[r].began = req[r].began
          /\ req'[r].audit = req[r].audit
      BY <1>1, <3>3 DEF Request
    <3> HIDE DEF x
    <3> QED BY <1>1, <1>3, <2>2, <3>2, <3>3, <3>4
  <2> QED BY <2>1, <2>2
<1> QED BY <1>2, <1>3

\* GitHub refuses the refresh token, or issues a new grant.
Issues(g, expiry) ==
    /\ issued' = issued \cup {g}
    /\ grantExpiry' = [grantExpiry EXCEPT ![g] = expiry]

LEMMA RefreshStep ==
    ASSUME TypeOK, NEW r \in Requests, RefreshAtGithub(r)
    PROVE  /\ req[r].pc = "github"
           /\ \/ Failed(r) /\ UNCHANGED <<issued, live, grantExpiry>>
              \/ \E g \in Grants \ issued, rotates \in Rotations :
                    /\ req[r].held \in live
                    /\ OnlyRequest(r) /\ degraded' = degraded /\ req'[r].pc = "response"
                    /\ Issues(g, now + AccessLifetime)
                    /\ live' = IF rotates THEN (live \ {req[r].held}) \cup {g} ELSE live
                    /\ req'[r].grant = g
                    /\ req'[r].newRefresh = IF rotates THEN g ELSE None
                    /\ req'[r].verdict = req[r].verdict /\ req'[r].access = req[r].access
                    /\ req'[r].refresh = req[r].refresh /\ req'[r].expires = req[r].expires
                    /\ req'[r].held = req[r].held /\ req'[r].began = req[r].began
                    /\ req'[r].audit = req[r].audit
<1>1. req[r] \in Request /\ req[r].pc = "github"
  BY DEF TypeOK, RefreshAtGithub
<1>2. CASE req[r].held \notin live
  <2>1. RefreshFailed(r) /\ UNCHANGED <<issued, live, grantExpiry>>
    BY <1>2 DEF RefreshAtGithub
  <2> QED BY <1>1, <2>1, RefreshFailedStep DEF Failed
<1>3. CASE req[r].held \in live
  <2>1. PICK g \in Grants \ issued, rotates \in Rotations :
           /\ Issues(g, now + AccessLifetime)
           /\ live' = IF rotates THEN (live \ {req[r].held}) \cup {g} ELSE live
           /\ req' = [req EXCEPT ![r] = [req[r] EXCEPT !.pc = "response", !.grant = g,
                                         !.newRefresh = IF rotates THEN g ELSE None]]
    BY <1>3 DEF RefreshAtGithub, Issues
  <2>2. degraded' = degraded
    BY <1>3 DEF RefreshAtGithub
  <2> DEFINE token == IF rotates THEN g ELSE None
             x == [req[r] EXCEPT !.pc = "response", !.grant = g, !.newRefresh = token]
  <2>3. token \in Grant
    BY DEF Grant
  <2>4. req' = [req EXCEPT ![r] = x]
    BY <2>1
  <2> HIDE DEF token
  <2>5. x \in Request
    BY <1>1, <2>3 DEF Request, Grant, Awaited
  <2>6. OnlyRequest(r) /\ req'[r] = x
    BY <2>4, <2>5, OneRequest
  <2>7. /\ req'[r].pc = "response" /\ req'[r].grant = g /\ req'[r].newRefresh = token
        /\ req'[r].verdict = req[r].verdict /\ req'[r].access = req[r].access
        /\ req'[r].refresh = req[r].refresh /\ req'[r].expires = req[r].expires
        /\ req'[r].held = req[r].held /\ req'[r].began = req[r].began
        /\ req'[r].audit = req[r].audit
    BY <1>1, <2>6 DEF Request
  <2> QED BY <1>1, <1>3, <2>1, <2>2, <2>6, <2>7 DEF token
<1> QED BY <1>2, <1>3

LEMMA ReceiveStep ==
    ASSUME TypeOK, NEW r \in Requests, ReceiveTokens(r)
    PROVE  /\ OnlyRequest(r) /\ req[r].pc = "response" /\ req'[r].pc = "write"
           /\ req'[r].newExpires = now + AccessLifetime
           /\ req'[r].verdict = req[r].verdict /\ req'[r].access = req[r].access
           /\ req'[r].refresh = req[r].refresh /\ req'[r].expires = req[r].expires
           /\ req'[r].held = req[r].held /\ req'[r].grant = req[r].grant
           /\ req'[r].newRefresh = req[r].newRefresh /\ req'[r].began = req[r].began
           /\ req'[r].audit = req[r].audit
<1> DEFINE x == [req[r] EXCEPT !.pc = "write", !.newExpires = now + AccessLifetime]
<1>1. req[r] \in Request /\ now + AccessLifetime \in Nat /\ req[r].pc = "response"
  BY TimeAssumption DEF TypeOK, ReceiveTokens
<1>2. x \in Request
  BY <1>1 DEF Request, Awaited, Time
<1>3. req' = [req EXCEPT ![r] = x]
  BY DEF ReceiveTokens
<1>4. OnlyRequest(r) /\ req'[r] = x
  BY <1>2, <1>3, OneRequest
<1> QED BY <1>1, <1>4 DEF Request

\* A commit that is confirmed, and one of a row deleted meanwhile.
LEMMA CommitStep ==
    ASSUME TypeOK, NEW r \in Requests, CommitRefresh(r)
    PROVE  /\ req[r].pc = "write"
           /\ \/ /\ Failed(r) /\ row' = row /\ abandoned' = abandoned \cup {req[r].held}
              \/ /\ OnlyRequest(r) /\ row' = Refreshed(r) /\ UNCHANGED <<degraded, abandoned>>
                 /\ req'[r].pc = "decrypt" /\ req'[r].access = req[r].grant
                 /\ req'[r].expires = req[r].newExpires
                 /\ req'[r].verdict = req[r].verdict /\ req'[r].refresh = req[r].refresh
                 /\ req'[r].held = req[r].held /\ req'[r].grant = req[r].grant
                 /\ req'[r].newRefresh = req[r].newRefresh /\ req'[r].began = req[r].began
                 /\ req'[r].audit = req[r].audit
<1>1. req[r] \in Request /\ req[r].pc = "write"
  BY DEF TypeOK, CommitRefresh
<1>2. CASE r \in stale
  <2>1. RefreshFailed(r) /\ row' = row /\ abandoned' = abandoned \cup {req[r].held}
    BY <1>2 DEF CommitRefresh
  <2> QED BY <1>1, <2>1, RefreshFailedStep DEF Failed
<1>3. CASE r \notin stale
  <2> DEFINE x == [req[r] EXCEPT !.pc = "decrypt", !.access = req[r].grant,
                                 !.form = "encrypted", !.expires = req[r].newExpires]
  <2>1. x \in Request
    BY <1>1 DEF Request, Awaited, Form
  <2>2. /\ req' = [req EXCEPT ![r] = x]
        /\ row' = Refreshed(r) /\ UNCHANGED <<degraded, abandoned>>
    BY <1>3 DEF CommitRefresh
  <2>3. OnlyRequest(r) /\ req'[r] = x
    BY <2>1, <2>2, OneRequest
  <2>4. /\ req'[r].pc = "decrypt" /\ req'[r].access = req[r].grant
        /\ req'[r].expires = req[r].newExpires
        /\ req'[r].verdict = req[r].verdict /\ req'[r].refresh = req[r].refresh
        /\ req'[r].held = req[r].held /\ req'[r].grant = req[r].grant
        /\ req'[r].newRefresh = req[r].newRefresh /\ req'[r].began = req[r].began
        /\ req'[r].audit = req[r].audit
    BY <1>1, <2>3 DEF Request
  <2> HIDE DEF x
  <2> QED BY <1>1, <2>2, <2>3, <2>4
<1> QED BY <1>2, <1>3

\* The actions that only answer, or only fail.
LEMMA SendStep ==
    ASSUME TypeOK, NEW r \in Requests, SendToken(r) \/ HandlerFault(r)
    PROVE  /\ Answered(r) /\ degraded' = degraded /\ req[r].pc \in {"user", "decrypt"}
           /\ req'[r].audit = req[r].audit
           /\ req'[r].verdict = "OK" => req[r].pc = "decrypt"
<1>1. PICK code \in Code : Answer(r, code) /\ (code = "OK" => req[r].pc = "decrypt")
  BY DEF SendToken, HandlerFault, Code
<1> QED BY <1>1, AnswerStep DEF SendToken, HandlerFault

LEMMA FaultStep ==
    ASSUME TypeOK, NEW r \in Requests, TransactionFault(r) \/ CommitUnconfirmed(r)
    PROVE  Failed(r) /\ req[r].pc \in {"tx", "github", "response", "write"}
BY RefreshFailedStep DEF TransactionFault, CommitUnconfirmed, Failed

-----------------------------------------------------------------------------
(* What a step makes of a login                                            *)

OnlyLogin(l) ==
    /\ login' \in [Logins -> Login]
    /\ \A m \in Logins \ {l} : login'[m] = login[m]

LEMMA OneLogin ==
    ASSUME TypeOK, NEW l \in Logins, NEW x \in Login, login' = [login EXCEPT ![l] = x]
    PROVE  OnlyLogin(l) /\ login'[l] = x
BY DEF TypeOK, OnlyLogin

\* The callback has ended.
Ended(l) == OnlyLogin(l) /\ login'[l].pc = "idle" /\ login'[l].grant = None
                         /\ login'[l].refresh = None

LEMMA EndStep ==
    ASSUME TypeOK, NEW l \in Logins, EndLogin(l)
    PROVE  Ended(l)
<1> DEFINE x == [pc |-> "idle", grant |-> None, refresh |-> None, expires |-> None,
                 began |-> 0]
<1>1. x \in Login
  BY DEF Login, Grant, Time
<1>2. login' = [login EXCEPT ![l] = x]
  BY DEF EndLogin
<1>3. OnlyLogin(l) /\ login'[l] = x
  BY <1>1, <1>2, OneLogin
<1> QED BY <1>3 DEF Ended

LEMMA ExchangeStep ==
    ASSUME TypeOK, NEW l \in Logins, ExchangeCode(l)
    PROVE  \E g \in Grants \ issued, expiring \in BOOLEAN :
              /\ OnlyLogin(l) /\ login[l].pc = "idle"
              /\ Issues(g, IF expiring THEN now + AccessLifetime ELSE None)
              /\ live' = IF expiring THEN live \cup {g} ELSE live
              /\ login'[l].pc = "profile" /\ login'[l].grant = g /\ login'[l].began = now
              /\ login'[l].refresh = IF expiring THEN g ELSE None
<1>1. PICK g \in Grants \ issued, expiring \in BOOLEAN :
         /\ Issues(g, IF expiring THEN now + AccessLifetime ELSE None)
         /\ live' = IF expiring THEN live \cup {g} ELSE live
         /\ login' = [login EXCEPT ![l] =
              [pc |-> "profile", grant |-> g, refresh |-> IF expiring THEN g ELSE None,
               expires |-> None, began |-> now]]
  BY DEF ExchangeCode, Issues
<1> DEFINE token == IF expiring THEN g ELSE None
           x == [pc |-> "profile", grant |-> g, refresh |-> token, expires |-> None,
                 began |-> now]
<1>2. token \in Grant /\ now \in Nat /\ login[l].pc = "idle"
  BY DEF Grant, TypeOK, ExchangeCode
<1>3. login' = [login EXCEPT ![l] = x]
  BY <1>1
<1> HIDE DEF token
<1>4. x \in Login
  BY <1>2 DEF Login, Grant, Time
<1>5. OnlyLogin(l) /\ login'[l] = x
  BY <1>3, <1>4, OneLogin
<1>6. /\ login'[l].pc = "profile" /\ login'[l].grant = g /\ login'[l].began = now
      /\ login'[l].refresh = token
  BY <1>5
<1> QED BY <1>1, <1>2, <1>5, <1>6 DEF token

LEMMA FetchStep ==
    ASSUME TypeOK, NEW l \in Logins, FetchProfile(l)
    PROVE  /\ OnlyLogin(l) /\ login[l].pc = "profile" /\ login'[l].pc = "upsert"
           /\ login'[l].grant = login[l].grant /\ login'[l].refresh = login[l].refresh
           /\ login'[l].expires = IF login[l].refresh = None THEN None
                                                             ELSE now + AccessLifetime
           /\ login'[l].began = login[l].began
<1> DEFINE e == IF login[l].refresh = None THEN None ELSE now + AccessLifetime
           x == [login[l] EXCEPT !.pc = "upsert", !.expires = e]
<1>1. e \in Time /\ login[l] \in Login /\ login[l].pc = "profile"
  BY TimeAssumption DEF TypeOK, Time, FetchProfile
<1>2. login' = [login EXCEPT ![l] = x]
  BY DEF FetchProfile
<1> HIDE DEF e
<1>3. x \in Login
  BY <1>1 DEF Login
<1>4. OnlyLogin(l) /\ login'[l] = x
  BY <1>2, <1>3, OneLogin
<1>5. /\ login'[l].pc = "upsert" /\ login'[l].grant = login[l].grant
      /\ login'[l].refresh = login[l].refresh /\ login'[l].expires = e
      /\ login'[l].began = login[l].began
  BY <1>1, <1>4 DEF Login
<1> QED BY <1>1, <1>4, <1>5 DEF e

-----------------------------------------------------------------------------
(* The handlers at a glance                                                *)

\* Whatever a request does, it answers, or its refresh fails, or it goes on.
LEMMA ServeStep ==
    ASSUME TypeOK, NEW r \in Requests, Serve(r)
    PROVE  /\ UNCHANGED <<now, login, stale>> /\ OnlyRequest(r) /\ Active(r)
           /\ \/ Answered(r) /\ degraded' = degraded
              \/ Failed(r) /\ req[r].pc # "decrypt"
              \/ /\ req[r].pc # "decrypt" /\ degraded' = degraded
                 /\ req'[r].pc \in Awaited /\ req'[r].began = req[r].began
<1>0. \A q \in Requests : Failed(q) => OnlyRequest(q)
  BY DEF Failed
<1>1. CASE ReadUser(r)
  BY <1>1, ReadUserStep DEF ReadUser, Active, Awaited
<1>2. CASE AuditAccess(r)
  <2>1. UNCHANGED <<now, login, stale>> /\ degraded' = degraded
    BY <1>2 DEF AuditAccess
  <2> QED BY <1>2, <2>1, AuditStep DEF Active, Awaited
<1>3. CASE ReadInTransaction(r)
  <2>1. UNCHANGED <<now, login, stale>>
    BY <1>3 DEF ReadInTransaction
  <2> QED BY <1>0, <1>3, <2>1, TransactionStep DEF Active, Awaited
<1>4. CASE RefreshAtGithub(r)
  <2>1. UNCHANGED <<now, login, stale>>
    BY <1>4 DEF RefreshAtGithub
  <2> QED BY <1>0, <1>4, <2>1, RefreshStep DEF Active, Awaited
<1>5. CASE ReceiveTokens(r)
  BY <1>5, ReceiveStep DEF ReceiveTokens, Active, Awaited
<1>6. CASE CommitRefresh(r)
  <2>1. UNCHANGED <<now, login, stale>>
    BY <1>6 DEF CommitRefresh
  <2> QED BY <1>0, <1>6, <2>1, CommitStep DEF Active, Awaited
<1>7. CASE SendToken(r) \/ HandlerFault(r)
  <2>1. UNCHANGED <<now, login, stale>>
    BY <1>7 DEF SendToken, HandlerFault
  <2> QED BY <1>7, <2>1, SendStep DEF Active, Answered
<1>8. CASE TransactionFault(r) \/ CommitUnconfirmed(r)
  <2>1. UNCHANGED <<now, login, stale>>
    BY <1>8 DEF TransactionFault, CommitUnconfirmed
  <2> QED BY <1>0, <1>8, <2>1, FaultStep DEF Active
<1> QED BY <1>1, <1>2, <1>3, <1>4, <1>5, <1>6, <1>7, <1>8 DEF Serve

LEMMA LogInStep ==
    ASSUME TypeOK, NEW l \in Logins, LogIn(l)
    PROVE  /\ UNCHANGED <<now, req, stale, degraded, abandoned>> /\ OnlyLogin(l)
           /\ \/ Ended(l)
              \/ login[l].pc = "idle" /\ login'[l].began = now
              \/ login[l].pc # "idle" /\ login'[l].began = login[l].began
<1>1. CASE ExchangeCode(l)
  BY <1>1, ExchangeStep DEF ExchangeCode
<1>2. CASE FetchProfile(l)
  BY <1>2, FetchStep DEF FetchProfile
<1>3. CASE StoreGrant(l) \/ LoginFault(l)
  <2>1. UNCHANGED <<now, req, stale, degraded, abandoned>> /\ EndLogin(l)
    BY <1>3 DEF StoreGrant, LoginFault
  <2> QED BY <2>1, EndStep DEF Ended
<1> QED BY <1>1, <1>2, <1>3 DEF LogIn

-----------------------------------------------------------------------------
(* The parts of the invariant that hold whatever the row holds             *)

LEMMA TypeInit == InitIdle => req \in [Requests -> Request] /\ login \in [Logins -> Login]
<1> SUFFICES ASSUME InitIdle PROVE req \in [Requests -> Request] /\ login \in [Logins -> Login]
  OBVIOUS
<1>1. /\ "idle" \in Awaited \cup {"idle", "done"} /\ "none" \in Code /\ "none" \in Audit
      /\ 0 \in Nat
  BY DEF Code, Audit
<1>2. Handler("idle", "none", "none", 0) \in Request
  BY <1>1, HandlerFields
<1>3. [pc |-> "idle", grant |-> None, refresh |-> None, expires |-> None, began |-> 0] \in Login
  BY DEF Login, Grant, Time
<1> QED BY <1>2, <1>3 DEF InitIdle

\* The update of the transaction and the callback write rows.
LEMMA RefreshedFields ==
    ASSUME TypeOK, NEW r \in Requests
    PROVE  /\ Refreshed(r) \in User
           /\ Refreshed(r).account = row.account /\ Refreshed(r).access = req[r].grant
           /\ Refreshed(r).refresh = IF req[r].newRefresh = None THEN req[r].held
                                                                 ELSE req[r].newRefresh
           /\ Refreshed(r).form = "encrypted" /\ Refreshed(r).expires = req[r].newExpires
BY DEF TypeOK, Refreshed, User, Request, Form

LEMMA StoredFields ==
    ASSUME TypeOK, NEW l \in Logins, StoreGrant(l)
    PROVE  /\ row' \in User /\ row'.access = login[l].grant
           /\ row'.refresh = login[l].refresh /\ row'.form = "encrypted"
           /\ row'.expires = login[l].expires
BY DEF TypeOK, StoreGrant, User, Login, Form

LEMMA AccountFields ==
    ASSUME TypeOK, NEW account \in AdminSettings, AdminSetsAccount(account)
    PROVE  /\ row' \in User /\ row'.account = account
           /\ row'.access = IF account = "absent" THEN None ELSE row.access
           /\ \/ row'.access = None /\ row'.refresh = None /\ row'.expires = None
                 /\ row'.form = "encrypted"
              \/ row'.access = row.access /\ row'.refresh = row.refresh
                 /\ row'.expires = row.expires /\ row'.form = row.form
<1>1. account \in {"absent", "pending", "whitelisted"} /\ row \in User
  BY SwitchAssumption DEF TypeOK
<1>2. CASE account = "absent"
  BY <1>2 DEF AdminSetsAccount, User, Grant, Form, Time
<1>3. CASE account # "absent"
  BY <1>1, <1>3 DEF AdminSetsAccount, User, Grant, Form, Time
<1> QED BY <1>2, <1>3

\* Every request is typed, whoever acts.
LEMMA IssueTyped ==
    ASSUME TypeOK, NEW g \in Grants, NEW expiry \in Time, Issues(g, expiry)
    PROVE  issued' \subseteq Grants /\ grantExpiry' \in [Grants -> Time]
BY DEF TypeOK, Issues

LEMMA TypeStep == TypeOK /\ IssuedInv /\ [Next]_vars => TypeOK'
<1> SUFFICES ASSUME TypeOK, IssuedInv, [Next]_vars PROVE TypeOK'
  OBVIOUS
<1> USE DEF TypeOK
<1>t. now + AccessLifetime \in Nat /\ Nat \subseteq Time /\ None \in Time
  BY TimeAssumption DEF Time
<1>1. ASSUME NEW r \in Requests, Arrive(r) PROVE TypeOK'
  BY <1>1, ArriveStep DEF Arrive, OnlyRequest
<1>2. ASSUME NEW r \in Requests, Serve(r) PROVE TypeOK'
  <2>1. /\ UNCHANGED <<now, login, stale>> /\ req' \in [Requests -> Request]
        /\ degraded' \subseteq Requests
    BY <1>2, ServeStep DEF OnlyRequest, Failed
  <2>2. CASE ReadUser(r) \/ AuditAccess(r) \/ ReadInTransaction(r) \/ ReceiveTokens(r)
             \/ SendToken(r) \/ HandlerFault(r)
    <3>1. UNCHANGED <<row, issued, live, grantExpiry, abandoned>>
      BY <2>2 DEF ReadUser, AuditAccess, ReadInTransaction, ReceiveTokens, SendToken,
                  HandlerFault
    <3> QED BY <2>1, <3>1
  <2>3. CASE RefreshAtGithub(r)
    <3>1. row' = row /\ abandoned' = abandoned
      BY <2>3 DEF RefreshAtGithub
    <3>2. CASE UNCHANGED <<issued, live, grantExpiry>>
      BY <2>1, <3>1, <3>2
    <3>3. ASSUME NEW g \in Grants \ issued, NEW rotates \in Rotations,
                 Issues(g, now + AccessLifetime),
                 live' = IF rotates THEN (live \ {req[r].held}) \cup {g} ELSE live
          PROVE  TypeOK'
      <4>1. issued' \subseteq Grants /\ grantExpiry' \in [Grants -> Time]
        BY <1>t, <3>3, IssueTyped
      <4> QED BY <2>1, <3>1, <3>3, <4>1
    <3> QED BY <2>3, <3>2, <3>3, RefreshStep
  <2>4. CASE CommitRefresh(r) \/ CommitUnconfirmed(r) \/ TransactionFault(r)
    <3>1. UNCHANGED <<issued, live, grantExpiry>>
      BY <2>4 DEF CommitRefresh, CommitUnconfirmed, TransactionFault
    <3>2. row' \in User
      BY <2>4, RefreshedFields DEF CommitRefresh, CommitUnconfirmed, TransactionFault
    <3>3. req[r].pc \in {"response", "write"} => req[r].held \in Grants
      BY DEF IssuedInv, Refreshing
    <3>4. abandoned' \subseteq Grants
      BY <2>4, <3>3 DEF CommitRefresh, CommitUnconfirmed, TransactionFault
    <3> QED BY <2>1, <3>1, <3>2, <3>4
  <2> QED BY <1>2, <2>2, <2>3, <2>4 DEF Serve
<1>3. ASSUME NEW l \in Logins, LogIn(l) PROVE TypeOK'
  <2>1. UNCHANGED <<now, req, stale, degraded, abandoned>> /\ login' \in [Logins -> Login]
    BY <1>3, LogInStep DEF OnlyLogin
  <2>2. CASE ExchangeCode(l)
    <3>1. row' = row
      BY <2>2 DEF ExchangeCode
    <3>2. PICK g \in Grants \ issued, expiring \in BOOLEAN :
             /\ Issues(g, IF expiring THEN now + AccessLifetime ELSE None)
             /\ live' = IF expiring THEN live \cup {g} ELSE live
      BY <2>2, ExchangeStep
    <3>3. (IF expiring THEN now + AccessLifetime ELSE None) \in Time
      BY <1>t
    <3>4. issued' \subseteq Grants /\ grantExpiry' \in [Grants -> Time]
      BY <3>2, <3>3, IssueTyped
    <3> QED BY <2>1, <3>1, <3>2, <3>4
  <2>3. CASE FetchProfile(l) \/ LoginFault(l)
    <3>1. UNCHANGED <<row, issued, live, grantExpiry>>
      BY <2>3 DEF FetchProfile, LoginFault
    <3> QED BY <2>1, <3>1
  <2>4. CASE StoreGrant(l)
    <3>1. UNCHANGED <<issued, live, grantExpiry>> /\ row' \in User
      BY <2>4, StoredFields DEF StoreGrant
    <3> QED BY <2>1, <3>1
  <2> QED BY <1>3, <2>2, <2>3, <2>4 DEF LogIn
<1>4. ASSUME NEW account \in AdminSettings, AdminSetsAccount(account) PROVE TypeOK'
  <2>1. row' \in User
    BY <1>4, AccountFields
  <2> QED BY <1>4, <2>1 DEF AdminSetsAccount
<1>5. CASE Tick
  BY <1>5 DEF Tick
<1>6. CASE UNCHANGED vars
  BY <1>6 DEF vars
<1> QED BY <1>1, <1>2, <1>3, <1>4, <1>5, <1>6 DEF Next

LEMMA SpanStep == TypeOK /\ SpanInv /\ [Next]_vars => SpanInv'
<1> SUFFICES ASSUME TypeOK, SpanInv, [Next]_vars PROVE SpanInv'
  OBVIOUS
<1>t. /\ now \in Nat /\ RequestSpan \in Nat
      /\ \A r \in Requests : req[r].began \in Nat
      /\ \A l \in Logins : login[l].began \in Nat
  BY TimeAssumption DEF TypeOK, Request, Login
<1>1. ASSUME NEW r \in Requests, Arrive(r) PROVE SpanInv'
  <2>1. OnlyRequest(r) /\ req'[r].began = now /\ UNCHANGED <<now, login>>
    BY <1>1, ArriveStep DEF Arrive
  <2> QED BY <1>t, <2>1 DEF SpanInv, OnlyRequest, Active
<1>2. ASSUME NEW r \in Requests, Serve(r) PROVE SpanInv'
  <2>1. /\ UNCHANGED <<now, login>> /\ OnlyRequest(r) /\ Active(r)
        /\ Active(r)' => req'[r].began = req[r].began
    BY <1>2, ServeStep DEF Failed, Answered, Active, Kept
  <2> QED BY <1>t, <2>1 DEF SpanInv, OnlyRequest, Active
<1>3. ASSUME NEW l \in Logins, LogIn(l) PROVE SpanInv'
  BY <1>3, <1>t, LogInStep DEF SpanInv, OnlyLogin, Ended, Active
<1>4. ASSUME NEW account \in AdminSettings, AdminSetsAccount(account) PROVE SpanInv'
  BY <1>4 DEF AdminSetsAccount, SpanInv, Active
<1>5. CASE Tick
  BY <1>5, <1>t DEF Tick, SpanInv, Active
<1>6. CASE UNCHANGED vars
  BY <1>6 DEF vars, SpanInv, Active
<1> QED BY <1>1, <1>2, <1>3, <1>4, <1>5, <1>6 DEF Next

LEMMA DegradedStep == TypeOK /\ SpanInv /\ DegradedInv /\ [Next]_vars => DegradedInv'
<1> SUFFICES ASSUME TypeOK, SpanInv, DegradedInv, [Next]_vars PROVE DegradedInv'
  OBVIOUS
<1>1. ASSUME NEW r \in Requests, Arrive(r) PROVE DegradedInv'
  BY <1>1, ArriveStep DEF DegradedInv, OnlyRequest, TypeOK
<1>2. ASSUME NEW r \in Requests, Serve(r) PROVE DegradedInv'
  <2>1. OnlyRequest(r) /\ Active(r)
    BY <1>2, ServeStep
  <2>2. req[r].began \in Nat /\ now \in Nat /\ req[r].expires \in Time /\ req[r].began <= now
    BY <2>1 DEF TypeOK, Request, SpanInv
  <2>3. ASSUME NEW q \in degraded, q # r
        PROVE  /\ req'[q].pc \in {"decrypt", "done"}
               /\ req'[q].pc = "decrypt" /\ req'[q].expires # None
                    => req'[q].began <= req'[q].expires
    BY <2>1, <2>3 DEF DegradedInv, OnlyRequest, TypeOK
  <2>4. CASE Answered(r) /\ degraded' = degraded
    BY <2>3, <2>4 DEF Answered, DegradedInv
  <2>5. CASE Failed(r)
    <3>1. \/ req'[r].pc = "done"
          \/ req'[r].pc = "decrypt" /\ req'[r].expires = req[r].expires
             /\ req'[r].began = req[r].began
             /\ (req[r].expires = None \/ now <= req[r].expires)
      BY <2>5 DEF Failed, Answered, Kept
    <3>2. req'[r].pc = "decrypt" /\ req'[r].expires # None => req'[r].began <= req'[r].expires
      BY <2>2, <3>1 DEF Time
    <3>3. degraded' = degraded \cup {r}
      BY <2>5 DEF Failed
    <3> QED BY <2>3, <3>1, <3>2, <3>3 DEF DegradedInv
  <2>6. CASE req[r].pc # "decrypt" /\ degraded' = degraded
    <3>1. r \notin degraded
      BY <2>1, <2>6 DEF DegradedInv, Active
    <3> QED BY <2>3, <2>6, <3>1 DEF DegradedInv
  <2> QED BY <1>2, <2>4, <2>5, <2>6, ServeStep
<1>3. CASE UNCHANGED <<req, degraded>>
  BY <1>3 DEF DegradedInv
<1>4. UNCHANGED <<req, degraded>> \/ \E r \in Requests : Arrive(r) \/ Serve(r)
  BY LogInStep DEF Next, AdminSetsAccount, Tick, vars
<1> QED BY <1>1, <1>2, <1>3, <1>4

-----------------------------------------------------------------------------
(* Only grants that GitHub has issued are about                            *)

\* The grants a request and a login hold.
RequestIssued(r, set) ==
    /\ req[r].access \in set \cup {None} /\ req[r].refresh \in set \cup {None}
    /\ req[r].held \in set \cup {None} /\ req[r].grant \in set \cup {None}
    /\ req[r].newRefresh \in set \cup {None}
    /\ req[r].pc = "github" \/ Refreshing(r) => req[r].held # None

LoginIssued(l, set) ==
    login[l].grant \in set \cup {None} /\ login[l].refresh \in set \cup {None}

RowIssued(set) == row.access \in set \cup {None} /\ row.refresh \in set \cup {None}

LEMMA IssuedParts ==
    IssuedInv <=> /\ live \subseteq issued
                  /\ RowIssued(issued)
                  /\ \A r \in Requests : RequestIssued(r, issued)
                  /\ \A l \in Logins : LoginIssued(l, issued)
BY DEF IssuedInv, RequestIssued, LoginIssued, RowIssued

\* With more grants issued, what nobody touches still holds issued ones.
LEMMA IssuedFrame ==
    ASSUME IssuedInv, issued \subseteq issued', live' \subseteq issued',
           RowIssued(issued)',
           \A r \in Requests : req'[r] = req[r] \/ RequestIssued(r, issued)',
           \A l \in Logins : login'[l] = login[l] \/ LoginIssued(l, issued)'
    PROVE  IssuedInv'
<1>1. ASSUME NEW r \in Requests PROVE RequestIssued(r, issued)'
  BY IssuedParts DEF RequestIssued, Refreshing
<1>2. ASSUME NEW l \in Logins PROVE LoginIssued(l, issued)'
  BY IssuedParts DEF LoginIssued
<1> QED BY <1>1, <1>2 DEF IssuedInv, RequestIssued, LoginIssued, RowIssued

\* A request whose refresh fails, or that answers, brings no grant.
LEMMA FailedIssued ==
    ASSUME TypeOK, IssuedInv, NEW r \in Requests, Failed(r) \/ Answered(r), issued' = issued
    PROVE  RequestIssued(r, issued)'
<1>1. RequestIssued(r, issued)
  BY IssuedParts
<1> QED BY <1>1 DEF Failed, Answered, Empty, Kept, RequestIssued, Refreshing

LEMMA IssuedStep == TypeOK /\ IssuedInv /\ [Next]_vars => IssuedInv'
<1> SUFFICES ASSUME TypeOK, IssuedInv, [Next]_vars PROVE IssuedInv'
  OBVIOUS
<1>t. /\ RowIssued(issued) /\ live \subseteq issued
      /\ \A r \in Requests : RequestIssued(r, issued)
      /\ \A l \in Logins : LoginIssued(l, issued)
  BY IssuedParts
<1>1. ASSUME NEW r \in Requests, Arrive(r) PROVE IssuedInv'
  <2>1. OnlyRequest(r) /\ req'[r].pc = "user" /\ Empty(req'[r])
    BY <1>1, ArriveStep
  <2>2. RequestIssued(r, issued)' /\ RowIssued(issued)'
    BY <1>1, <1>t, <2>1 DEF Empty, RequestIssued, Refreshing, Arrive, RowIssued
  <2>3. UNCHANGED <<issued, live, login>>
    BY <1>1 DEF Arrive
  <2>4. \A q \in Requests : req'[q] = req[q] \/ RequestIssued(q, issued)'
    BY <2>1, <2>2 DEF OnlyRequest
  <2>5. \A l \in Logins : login'[l] = login[l] \/ LoginIssued(l, issued)'
    BY <2>3
  <2> QED BY <1>t, <2>2, <2>3, <2>4, <2>5, IssuedFrame
<1>2. ASSUME NEW r \in Requests, Serve(r) PROVE IssuedInv'
  <2>1. login' = login /\ OnlyRequest(r) /\ RequestIssued(r, issued)
    BY <1>2, <1>t, ServeStep
  <2>f. ASSUME issued \subseteq issued', live' \subseteq issued', RowIssued(issued)',
               RequestIssued(r, issued)'
        PROVE  IssuedInv'
    <3>1. \A q \in Requests : req'[q] = req[q] \/ RequestIssued(q, issued)'
      BY <2>1, <2>f DEF OnlyRequest
    <3>2. \A l \in Logins : login'[l] = login[l] \/ LoginIssued(l, issued)'
      BY <2>1
    <3> QED BY <2>f, <3>1, <3>2, IssuedFrame
  <2>2. CASE ReadUser(r)
    <3>1. UNCHANGED <<issued, live, row>>
      BY <2>2 DEF ReadUser
    <3>2. RequestIssued(r, issued)' /\ RowIssued(issued)'
      BY <1>t, <2>1, <2>2, <3>1, ReadUserStep DEF RequestIssued, RowIssued, Refreshing
    <3> QED BY <1>t, <2>f, <3>1, <3>2
  <2>3. CASE AuditAccess(r)
    <3>1. UNCHANGED <<issued, live, row>>
      BY <2>3 DEF AuditAccess
    <3>2. RequestIssued(r, issued)'
      BY <2>1, <2>3, <3>1, AuditStep, FailedIssued DEF RequestIssued, Refreshing
    <3> QED BY <1>t, <2>f, <3>1, <3>2 DEF RowIssued
  <2>4. CASE ReadInTransaction(r)
    <3>1. UNCHANGED <<issued, live, row>>
      BY <2>4 DEF ReadInTransaction
    <3>2. RequestIssued(r, issued)'
      BY <1>t, <2>1, <2>4, <3>1, TransactionStep, FailedIssued
         DEF RequestIssued, RowIssued, Refreshing
    <3> QED BY <1>t, <2>f, <3>1, <3>2 DEF RowIssued
  <2>5. CASE RefreshAtGithub(r)
    <3>1. row' = row
      BY <2>5 DEF RefreshAtGithub
    <3>2. CASE Failed(r) /\ UNCHANGED <<issued, live, grantExpiry>>
      <4>1. RequestIssued(r, issued)'
        BY <3>2, FailedIssued
      <4> QED BY <1>t, <2>f, <3>1, <3>2, <4>1 DEF RowIssued
    <3>3. CASE ~(Failed(r) /\ UNCHANGED <<issued, live, grantExpiry>>)
      <4>1. PICK g \in Grants \ issued, rotates \in Rotations :
               /\ Issues(g, now + AccessLifetime) /\ req[r].pc = "github"
               /\ live' = IF rotates THEN (live \ {req[r].held}) \cup {g} ELSE live
               /\ req'[r].grant = g
               /\ req'[r].newRefresh = IF rotates THEN g ELSE None
               /\ req'[r].access = req[r].access
               /\ req'[r].refresh = req[r].refresh /\ req'[r].held = req[r].held
        BY <2>5, <3>3, RefreshStep
      <4>2. issued' = issued \cup {g}
        BY <4>1 DEF Issues
      <4>3. RequestIssued(r, issued)' /\ RowIssued(issued)' /\ live' \subseteq issued'
        BY <1>t, <2>1, <3>1, <4>1, <4>2 DEF RequestIssued, RowIssued, Refreshing
      <4> QED BY <2>f, <4>2, <4>3
    <3> QED BY <3>2, <3>3
  <2>6. CASE ReceiveTokens(r)
    <3>1. UNCHANGED <<issued, live, row>>
      BY <2>6 DEF ReceiveTokens
    <3>2. RequestIssued(r, issued)'
      BY <2>1, <2>6, <3>1, ReceiveStep DEF RequestIssued, Refreshing
    <3> QED BY <1>t, <2>f, <3>1, <3>2 DEF RowIssued
  <2>7. CASE CommitRefresh(r) \/ CommitUnconfirmed(r) \/ TransactionFault(r)
    <3>1. UNCHANGED <<issued, live>> /\ (row' = row \/ row' = Refreshed(r))
      BY <2>7 DEF CommitRefresh, CommitUnconfirmed, TransactionFault
    <3>2. RowIssued(issued)'
      BY <1>t, <2>1, <3>1, RefreshedFields DEF RowIssued, RequestIssued
    <3>3. RequestIssued(r, issued)'
      BY <2>1, <2>7, <3>1, CommitStep, FaultStep, FailedIssued
         DEF RequestIssued, Refreshing
    <3> QED BY <1>t, <2>f, <3>1, <3>2, <3>3
  <2>8. CASE SendToken(r) \/ HandlerFault(r)
    <3>1. UNCHANGED <<issued, live, row>>
      BY <2>8 DEF SendToken, HandlerFault
    <3>2. RequestIssued(r, issued)'
      BY <2>8, <3>1, SendStep, FailedIssued
    <3> QED BY <1>t, <2>f, <3>1, <3>2 DEF RowIssued
  <2> QED BY <1>2, <2>2, <2>3, <2>4, <2>5, <2>6, <2>7, <2>8 DEF Serve
<1>3. ASSUME NEW l \in Logins, LogIn(l) PROVE IssuedInv'
  <2>1. req' = req /\ OnlyLogin(l) /\ LoginIssued(l, issued)
    BY <1>3, <1>t, LogInStep
  <2>f. ASSUME issued \subseteq issued', live' \subseteq issued', RowIssued(issued)',
               LoginIssued(l, issued)'
        PROVE  IssuedInv'
    <3>1. \A m \in Logins : login'[m] = login[m] \/ LoginIssued(m, issued)'
      BY <2>1, <2>f DEF OnlyLogin
    <3>2. \A r \in Requests : req'[r] = req[r] \/ RequestIssued(r, issued)'
      BY <2>1
    <3> QED BY <2>f, <3>1, <3>2, IssuedFrame
  <2>2. CASE ExchangeCode(l)
    <3>1. PICK g \in Grants \ issued, expiring \in BOOLEAN :
             /\ Issues(g, IF expiring THEN now + AccessLifetime ELSE None)
             /\ live' = IF expiring THEN live \cup {g} ELSE live
             /\ login'[l].grant = g
             /\ login'[l].refresh = IF expiring THEN g ELSE None
      BY <2>2, ExchangeStep
    <3>2. issued' = issued \cup {g} /\ row' = row
      BY <2>2, <3>1 DEF Issues, ExchangeCode
    <3>3. LoginIssued(l, issued)' /\ RowIssued(issued)' /\ live' \subseteq issued'
      BY <1>t, <3>1, <3>2 DEF LoginIssued, RowIssued
    <3> QED BY <2>f, <3>2, <3>3
  <2>3. CASE FetchProfile(l)
    <3>1. UNCHANGED <<issued, live, row>>
      BY <2>3 DEF FetchProfile
    <3> QED BY <1>t, <2>1, <2>3, <2>f, <3>1, FetchStep DEF LoginIssued, RowIssued
  <2>4. CASE StoreGrant(l) \/ LoginFault(l)
    <3>1. UNCHANGED <<issued, live>> /\ Ended(l) /\ (row' = row \/ StoreGrant(l))
      BY <2>4, EndStep DEF StoreGrant, LoginFault
    <3>2. LoginIssued(l, issued)' /\ RowIssued(issued)'
      BY <1>t, <2>1, <3>1, StoredFields DEF LoginIssued, RowIssued, Ended
    <3> QED BY <1>t, <2>f, <3>1, <3>2
  <2> QED BY <1>3, <2>2, <2>3, <2>4 DEF LogIn
<1>4. ASSUME NEW account \in AdminSettings, AdminSetsAccount(account) PROVE IssuedInv'
  <2>1. UNCHANGED <<issued, live, req, login>>
    BY <1>4 DEF AdminSetsAccount
  <2>2. RowIssued(issued)'
    BY <1>4, <1>t, <2>1, AccountFields DEF RowIssued
  <2> QED BY <1>t, <2>1, <2>2 DEF IssuedInv, RowIssued, Refreshing
<1>5. CASE UNCHANGED <<issued, live, row, req, login>>
  BY <1>5 DEF IssuedInv, Refreshing
<1> QED BY <1>1, <1>2, <1>3, <1>4, <1>5 DEF Next, Tick, vars

-----------------------------------------------------------------------------
(* What the recorded expiries are worth                                    *)

GrantsKept == \A h \in issued : grantExpiry'[h] = grantExpiry[h]

LEMMA IssueKeeps ==
    ASSUME TypeOK, NEW g \in Grants \ issued, NEW expiry, Issues(g, expiry)
    PROVE  GrantsKept /\ grantExpiry'[g] = expiry
BY DEF TypeOK, Issues, GrantsKept

RowSound == IF row.access = None THEN row.refresh = None
                                 ELSE Sound(row.access, row.refresh, row.expires)

\* What nobody touches stays sound.
LEMMA SoundFrame ==
    ASSUME IssuedInv, SoundInv, GrantsKept, RowSound',
           \A r \in Requests : \/ req'[r] = req[r] /\ (r \in degraded' <=> r \in degraded)
                               \/ RequestSound(r)',
           \A l \in Logins : login'[l] = login[l] \/ LoginSound(l)'
    PROVE  SoundInv'
<1>1. ASSUME NEW r \in Requests PROVE RequestSound(r)'
  <2>1. CASE req'[r] = req[r] /\ (r \in degraded' <=> r \in degraded)
    <3>1. RequestSound(r) /\ RequestIssued(r, issued)
      BY IssuedParts DEF SoundInv
    <3>2. /\ req[r].access # None => grantExpiry'[req[r].access] = grantExpiry[req[r].access]
          /\ req[r].grant # None => grantExpiry'[req[r].grant] = grantExpiry[req[r].grant]
      BY <3>1 DEF RequestIssued, GrantsKept
    <3> QED BY <2>1, <3>1, <3>2 DEF RequestSound, Sound, NewGrant, Refreshing
  <2> QED BY <2>1
<1>2. ASSUME NEW l \in Logins PROVE LoginSound(l)'
  <2>1. CASE login'[l] = login[l]
    <3>1. LoginSound(l) /\ LoginIssued(l, issued)
      BY IssuedParts DEF SoundInv
    <3>2. login[l].grant # None => grantExpiry'[login[l].grant] = grantExpiry[login[l].grant]
      BY <3>1 DEF LoginIssued, GrantsKept
    <3> QED BY <2>1, <3>1, <3>2 DEF LoginSound, Sound, NewGrant
  <2> QED BY <2>1
<1> QED BY <1>1, <1>2 DEF SoundInv, RowSound

LEMMA RowKeptSound ==
    ASSUME IssuedInv, SoundInv, GrantsKept, row' = row
    PROVE  RowSound'
<1>1. RowSound /\ RowIssued(issued)
  BY IssuedParts DEF SoundInv, RowSound
<1>2. row.access # None => grantExpiry'[row.access] = grantExpiry[row.access]
  BY <1>1 DEF RowIssued, GrantsKept
<1> QED BY <1>1, <1>2 DEF RowSound, Sound

\* A recorded expiry that is not near leaves the token good for the whole request.
LEMMA NotSoon ==
    ASSUME TypeOK, SpanInv, NEW r \in Requests, Active(r),
           NEW access, NEW refresh, NEW expires, Sound(access, refresh, expires),
           refresh = None \/ ~ExpiringSoon(expires)
    PROVE  /\ access # None
           /\ grantExpiry[access] # None => req[r].began + RequestSpan < grantExpiry[access]
<1>1. /\ now \in Nat /\ req[r].began \in Nat /\ req[r].began <= now
      /\ RequestSpan \in Nat /\ Threshold \in Nat /\ 2 * RequestSpan <= Threshold
  BY TimeAssumption DEF TypeOK, Request, SpanInv
<1>2. CASE refresh = None
  BY <1>2 DEF Sound
<1>3. CASE refresh # None
  <2>1. /\ expires \in Nat /\ grantExpiry[access] \in Nat
        /\ expires <= grantExpiry[access] + RequestSpan
    BY <1>3 DEF Sound
  <2>2. expires # None
    BY <2>1, NoneAssumption
  <2>3. expires - now > Threshold
    BY <1>1, <1>3, <2>1, <2>2 DEF ExpiringSoon
  <2>4. req[r].began + RequestSpan < grantExpiry[access]
    BY <1>1, <2>1, <2>3
  <2> QED BY <2>4 DEF Sound
<1> QED BY <1>2, <1>3

\* An expiry computed by a handler from the answer of GitHub.
LEMMA Computed ==
    ASSUME NEW grant, NEW refresh \in Grants, NEW began \in Nat, now \in Nat,
           began <= now, now <= began + RequestSpan, NewGrant(grant, began)
    PROVE  Sound(grant, refresh, now + AccessLifetime)
<1>1. RequestSpan \in Nat /\ AccessLifetime \in Nat /\ grantExpiry[grant] \in Nat
      /\ began + AccessLifetime <= grantExpiry[grant]
  BY TimeAssumption DEF NewGrant
<1>2. /\ now + AccessLifetime \in Nat
      /\ now + AccessLifetime <= grantExpiry[grant] + RequestSpan
  BY <1>1
<1> QED BY <1>1, <1>2, NoneAssumption DEF Sound, NewGrant

LEMMA FailedSound ==
    ASSUME NEW r \in Requests, Failed(r) \/ Answered(r)
    PROVE  RequestSound(r)'
<1>1. req'[r].pc = "done" \/ (req'[r].pc = "decrypt" /\ r \in degraded')
  BY DEF Failed, Answered
<1> QED BY <1>1 DEF RequestSound, Refreshing

LEMMA SoundServe ==
    ASSUME TypeOK, SpanInv, DegradedInv, IssuedInv, SoundInv, NEW r \in Requests, Serve(r)
    PROVE  SoundInv'
<1>1. /\ login' = login /\ OnlyRequest(r) /\ Active(r) /\ now' = now /\ RequestSound(r)
      /\ RequestIssued(r, issued) /\ RowSound /\ req[r] \in Request /\ row \in User
  BY ServeStep, IssuedParts DEF SoundInv, RowSound, TypeOK
<1>2. /\ now \in Nat /\ req[r].began \in Nat /\ RequestSpan \in Nat /\ AccessLifetime \in Nat
      /\ req[r].began <= now /\ now <= req[r].began + RequestSpan
  BY <1>1, TimeAssumption DEF TypeOK, Request, SpanInv
<1>3. \A q \in Requests \ {r} : q \in degraded' <=> q \in degraded
  BY ServeStep DEF Failed
<1>f. ASSUME GrantsKept, RowSound', RequestSound(r)' PROVE SoundInv'
  <2>1. \A q \in Requests : \/ req'[q] = req[q] /\ (q \in degraded' <=> q \in degraded)
                            \/ RequestSound(q)'
    BY <1>1, <1>3, <1>f DEF OnlyRequest
  <2>2. \A l \in Logins : login'[l] = login[l] \/ LoginSound(l)'
    BY <1>1
  <2> QED BY <1>f, <2>1, <2>2, SoundFrame
<1>g. UNCHANGED grantExpiry => GrantsKept
  BY DEF GrantsKept
<1>r. UNCHANGED <<grantExpiry, row>> => RowSound'
  BY <1>g, RowKeptSound
<1>4. CASE ReadUser(r)
  <2>1. UNCHANGED <<grantExpiry, row, degraded>>
    BY <1>4 DEF ReadUser
  <2>2. (row.account = "whitelisted" /\ row.access # None) \/ Verdict # "OK"
    BY <1>1 DEF Verdict, User
  <2>3. RequestSound(r)'
    BY <1>1, <1>4, <2>1, <2>2, ReadUserStep DEF RequestSound, Refreshing, RowSound, Sound
  <2> QED BY <1>f, <1>g, <1>r, <2>1, <2>3
<1>5. CASE AuditAccess(r)
  <2>1. UNCHANGED <<grantExpiry, row, degraded>>
    BY <1>5 DEF AuditAccess
  <2>2. CASE Answered(r)
    BY <1>f, <1>g, <1>r, <2>1, <2>2, FailedSound
  <2>3. CASE ~Answered(r)
    <3>1. /\ req[r].verdict = "OK" /\ req[r].pc = "audit"
          /\ req'[r].pc = IF NeedsRefresh(r) THEN "tx" ELSE "decrypt"
          /\ req'[r].access = req[r].access /\ req'[r].began = req[r].began
      BY <1>5, <2>3, AuditStep
    <3>2. Sound(req[r].access, req[r].refresh, req[r].expires)
      BY <1>1, <3>1 DEF RequestSound
    <3>3. ~NeedsRefresh(r) => /\ req[r].access # None
                              /\ grantExpiry[req[r].access] # None =>
                                   req[r].began + RequestSpan < grantExpiry[req[r].access]
      BY <1>1, <3>2, NotSoon DEF NeedsRefresh
    <3>4. RequestSound(r)'
      BY <2>1, <3>1, <3>3 DEF RequestSound, Refreshing
    <3> QED BY <1>f, <1>g, <1>r, <2>1, <3>4
  <2> QED BY <2>2, <2>3
<1>6. CASE ReadInTransaction(r)
  <2>1. UNCHANGED <<grantExpiry, row>>
    BY <1>6 DEF ReadInTransaction
  <2>2. CASE Failed(r)
    BY <1>f, <1>g, <1>r, <2>1, <2>2, FailedSound
  <2>3. CASE ~Failed(r) /\ req'[r].pc = "github"
    <3>1. RequestSound(r)'
      BY <2>3 DEF RequestSound, Refreshing
    <3> QED BY <1>f, <1>g, <1>r, <2>1, <3>1
  <2>4. CASE ~Failed(r) /\ req'[r].pc # "github"
    <3>1. /\ req'[r].pc = "decrypt" /\ row.refresh # None /\ ~ExpiringSoon(row.expires)
          /\ req'[r].access = row.access /\ req'[r].began = req[r].began
      BY <1>6, <2>4, TransactionStep
    <3>2. Sound(row.access, row.refresh, row.expires)
      BY <1>1, <3>1 DEF RowSound
    <3>3. /\ row.access # None
          /\ grantExpiry[row.access] # None =>
               req[r].began + RequestSpan < grantExpiry[row.access]
      BY <1>1, <3>1, <3>2, NotSoon
    <3>4. RequestSound(r)'
      BY <2>1, <3>1, <3>3 DEF RequestSound, Refreshing
    <3> QED BY <1>f, <1>g, <1>r, <2>1, <3>4
  <2> QED BY <2>2, <2>3, <2>4
<1>7. CASE RefreshAtGithub(r)
  <2>1. row' = row
    BY <1>7 DEF RefreshAtGithub
  <2>2. CASE Failed(r) /\ UNCHANGED <<issued, live, grantExpiry>>
    BY <1>f, <1>g, <1>r, <2>1, <2>2, FailedSound
  <2>3. CASE ~(Failed(r) /\ UNCHANGED <<issued, live, grantExpiry>>)
    <3>1. PICK g \in Grants \ issued :
             /\ Issues(g, now + AccessLifetime) /\ req'[r].pc = "response"
             /\ req'[r].grant = g /\ req'[r].began = req[r].began
      BY <1>7, <2>3, RefreshStep
    <3>2. GrantsKept /\ grantExpiry'[g] = now + AccessLifetime
      BY <3>1, IssueKeeps
    <3>3. g # None /\ now + AccessLifetime \in Nat
          /\ req[r].began + AccessLifetime <= now + AccessLifetime
      BY <1>2, NoneAssumption
    <3>4. RequestSound(r)'
      BY <3>1, <3>2, <3>3 DEF RequestSound, Refreshing, NewGrant
    <3> QED BY <1>f, <2>1, <3>2, <3>4, RowKeptSound
  <2> QED BY <2>2, <2>3
<1>8. CASE ReceiveTokens(r)
  <2>1. UNCHANGED <<grantExpiry, row, degraded>>
    BY <1>8 DEF ReceiveTokens
  <2>2. /\ req[r].pc = "response" /\ req'[r].pc = "write" /\ req'[r].held = req[r].held
        /\ req'[r].newExpires = now + AccessLifetime /\ req'[r].grant = req[r].grant
        /\ req'[r].began = req[r].began
    BY <1>8, ReceiveStep
  <2>3. NewGrant(req[r].grant, req[r].began) /\ req[r].held \in Grants
    BY <1>1, <2>2 DEF RequestSound, Refreshing, RequestIssued, TypeOK
  <2>4. Sound(req[r].grant, req[r].held, now + AccessLifetime)
    BY <1>2, <2>3, Computed
  <2>5. RequestSound(r)'
    BY <2>1, <2>2, <2>3, <2>4 DEF RequestSound, Refreshing, NewGrant, Sound
  <2> QED BY <1>f, <1>g, <1>r, <2>1, <2>5
<1>9. ASSUME CommitRefresh(r) \/ CommitUnconfirmed(r) \/ TransactionFault(r) PROVE SoundInv'
  <2>1. UNCHANGED grantExpiry
    BY <1>9 DEF CommitRefresh, CommitUnconfirmed, TransactionFault
  <2>2. ASSUME row' = Refreshed(r), req[r].pc = "write" PROVE RowSound'
    <3>1. Sound(req[r].grant, req[r].held, req[r].newExpires) /\ req[r].held # None
      BY <1>1, <2>2 DEF RequestSound, RequestIssued, Refreshing
    <3>2. row'.access = req[r].grant /\ row'.expires = req[r].newExpires /\ row'.refresh # None
      BY <2>2, <3>1, RefreshedFields
    <3> QED BY <2>1, <3>1, <3>2 DEF RowSound, Sound
  <2>3. CASE Failed(r)
    <3>1. row' = row \/ (row' = Refreshed(r) /\ req[r].pc = "write")
      BY <1>9 DEF CommitRefresh, CommitUnconfirmed, TransactionFault
    <3> QED BY <1>f, <1>g, <1>r, <2>1, <2>2, <2>3, <3>1, FailedSound
  <2>4. CASE ~Failed(r)
    <3>1. /\ req[r].pc = "write" /\ row' = Refreshed(r) /\ req'[r].pc = "decrypt"
          /\ req'[r].access = req[r].grant /\ req'[r].began = req[r].began
      BY <1>9, <2>4, CommitStep, FaultStep
    <3>2. NewGrant(req[r].grant, req[r].began)
      BY <1>1, <3>1 DEF RequestSound, Refreshing
    <3>3. req[r].began + RequestSpan < grantExpiry[req[r].grant]
      BY <1>2, <3>2, LifetimeAssumption DEF NewGrant
    <3>4. RequestSound(r)'
      BY <2>1, <3>1, <3>2, <3>3 DEF RequestSound, Refreshing, NewGrant
    <3> QED BY <1>f, <1>g, <2>1, <2>2, <3>1, <3>4
  <2> QED BY <2>3, <2>4
<1>10. CASE SendToken(r) \/ HandlerFault(r)
  <2>1. UNCHANGED <<grantExpiry, row>> /\ RequestSound(r)'
    BY <1>10, SendStep, FailedSound DEF SendToken, HandlerFault
  <2> QED BY <1>f, <1>g, <1>r, <2>1
<1> QED BY <1>4, <1>5, <1>6, <1>7, <1>8, <1>9, <1>10 DEF Serve

LEMMA SoundLogIn ==
    ASSUME TypeOK, SpanInv, IssuedInv, SoundInv, NEW l \in Logins, LogIn(l)
    PROVE  SoundInv'
<1>1. /\ UNCHANGED <<req, degraded>> /\ OnlyLogin(l) /\ now \in Nat /\ LoginSound(l) /\ RowSound
      /\ login[l] \in Login /\ RequestSpan \in Nat /\ AccessLifetime \in Nat
  BY LogInStep, TimeAssumption DEF SoundInv, RowSound, TypeOK
<1>f. ASSUME GrantsKept, RowSound', LoginSound(l)' PROVE SoundInv'
  <2>1. \A q \in Requests : \/ req'[q] = req[q] /\ (q \in degraded' <=> q \in degraded)
                            \/ RequestSound(q)'
    BY <1>1
  <2>2. \A m \in Logins : login'[m] = login[m] \/ LoginSound(m)'
    BY <1>1, <1>f DEF OnlyLogin
  <2> QED BY <1>f, <2>1, <2>2, SoundFrame
<1>g. UNCHANGED grantExpiry => GrantsKept
  BY DEF GrantsKept
<1>2. CASE ExchangeCode(l)
  <2>1. PICK g \in Grants \ issued, expiring \in BOOLEAN :
           /\ Issues(g, IF expiring THEN now + AccessLifetime ELSE None)
           /\ login'[l].pc = "profile" /\ login'[l].grant = g /\ login'[l].began = now
           /\ login'[l].refresh = IF expiring THEN g ELSE None
    BY <1>2, ExchangeStep
  <2>2. /\ GrantsKept
        /\ grantExpiry'[g] = IF expiring THEN now + AccessLifetime ELSE None
    BY <2>1, IssueKeeps
  <2>3. g # None /\ now + AccessLifetime \in Nat
    BY <1>1, NoneAssumption
  <2>4. LoginSound(l)'
    BY <2>1, <2>2, <2>3 DEF LoginSound, NewGrant
  <2>5. row' = row
    BY <1>2 DEF ExchangeCode
  <2> QED BY <1>f, <2>2, <2>4, <2>5, RowKeptSound
<1>3. CASE FetchProfile(l)
  <2>1. UNCHANGED <<grantExpiry, row>>
    BY <1>3 DEF FetchProfile
  <2>2. /\ login[l].pc = "profile" /\ login'[l].pc = "upsert"
        /\ login'[l].grant = login[l].grant /\ login'[l].refresh = login[l].refresh
        /\ login'[l].expires = IF login[l].refresh = None THEN None ELSE now + AccessLifetime
    BY <1>3, FetchStep
  <2>3. CASE login[l].refresh = None
    BY <1>1, <1>f, <1>g, <2>1, <2>2, <2>3, RowKeptSound DEF LoginSound, Sound
  <2>4. CASE login[l].refresh # None
    <3>1. /\ NewGrant(login[l].grant, login[l].began) /\ login[l].refresh \in Grants
          /\ login[l].began \in Nat
          /\ login[l].began <= now /\ now <= login[l].began + RequestSpan
      BY <1>1, <2>2, <2>4 DEF LoginSound, Login, Grant, SpanInv
    <3>2. Sound(login[l].grant, login[l].refresh, now + AccessLifetime)
      BY <1>1, <3>1, Computed
    <3>3. LoginSound(l)'
      BY <2>1, <2>2, <2>4, <3>2 DEF LoginSound, Sound
    <3> QED BY <1>f, <1>g, <2>1, <3>3, RowKeptSound
  <2> QED BY <2>3, <2>4
<1>4. CASE StoreGrant(l)
  <2>1. grantExpiry' = grantExpiry /\ login[l].pc = "upsert" /\ login'[l].pc = "idle"
    BY <1>4, EndStep DEF StoreGrant, Ended
  <2>2. /\ Sound(login[l].grant, login[l].refresh, login[l].expires)
        /\ row'.access = login[l].grant /\ row'.refresh = login[l].refresh
        /\ row'.expires = login[l].expires
    BY <1>1, <1>4, <2>1, StoredFields DEF LoginSound
  <2>3. RowSound' /\ LoginSound(l)'
    BY <2>1, <2>2 DEF RowSound, Sound, LoginSound
  <2> QED BY <1>f, <1>g, <2>1, <2>3
<1>5. CASE LoginFault(l)
  <2>1. UNCHANGED <<grantExpiry, row>> /\ login'[l].pc = "idle"
    BY <1>5, EndStep DEF LoginFault, Ended
  <2>2. LoginSound(l)'
    BY <2>1 DEF LoginSound
  <2> QED BY <1>f, <1>g, <2>1, <2>2, RowKeptSound
<1> QED BY <1>2, <1>3, <1>4, <1>5 DEF LogIn

LEMMA SoundStep ==
    TypeOK /\ SpanInv /\ DegradedInv /\ IssuedInv /\ SoundInv /\ [Next]_vars => SoundInv'
<1> SUFFICES ASSUME TypeOK, SpanInv, DegradedInv, IssuedInv, SoundInv, [Next]_vars
             PROVE  SoundInv'
  OBVIOUS
<1>g. UNCHANGED grantExpiry => GrantsKept
  BY DEF GrantsKept
<1>1. ASSUME NEW r \in Requests, Arrive(r) PROVE SoundInv'
  <2>1. OnlyRequest(r) /\ req'[r].pc = "user" /\ degraded' = degraded \ {r}
        /\ UNCHANGED <<grantExpiry, row, login>>
    BY <1>1, ArriveStep DEF Arrive
  <2>2. RequestSound(r)'
    BY <2>1 DEF RequestSound, Refreshing
  <2>3. \A q \in Requests : \/ req'[q] = req[q] /\ (q \in degraded' <=> q \in degraded)
                            \/ RequestSound(q)'
    BY <2>1, <2>2 DEF OnlyRequest
  <2> QED BY <1>g, <2>1, <2>3, SoundFrame, RowKeptSound
<1>2. ASSUME NEW account \in AdminSettings, AdminSetsAccount(account) PROVE SoundInv'
  <2>1. UNCHANGED <<grantExpiry, req, login, degraded>>
    BY <1>2 DEF AdminSetsAccount
  <2>2. RowSound
    BY DEF SoundInv, RowSound
  <2>3. RowSound'
    BY <1>2, <2>1, <2>2, AccountFields DEF RowSound, Sound
  <2> QED BY <1>g, <2>1, <2>3, SoundFrame
<1>3. CASE UNCHANGED <<grantExpiry, row, req, login, degraded>>
  BY <1>3, <1>g, SoundFrame, RowKeptSound
<1> QED BY <1>1, <1>2, <1>3, SoundServe, SoundLogIn DEF Next, Tick, vars

-----------------------------------------------------------------------------
(* The stored refresh token stays usable                                   *)

\* GitHub either always replaces the refresh token or never.
OneRotation == Rotations # BOOLEAN

LEMMA RotationKind ==
    ASSUME OneRotation, NEW rotates \in Rotations
    PROVE  rotates <=> FALSE \notin Rotations
<1>1. Rotations \subseteq BOOLEAN
  BY SwitchAssumption
<1> QED BY <1>1 DEF OneRotation

\* The steps that bring no refresh token into play: what is held is dropped, kept or read
\* from the row, and a refresh ends only when its token is spent or no longer stored.
Quiet ==
    /\ live' = live /\ abandoned \subseteq abandoned'
    /\ row'.refresh \in {row.refresh, None}
    /\ \A r \in Requests :
          /\ req'[r].held \in {req[r].held, row.refresh, None}
          /\ Refreshing(r)' => /\ Refreshing(r) /\ req'[r].held = req[r].held
                              /\ req'[r].newRefresh = req[r].newRefresh
          /\ Refreshing(r) /\ ~Refreshing(r)' => req[r].held \in abandoned'
    /\ \A l \in Logins : login'[l].refresh \in {login[l].refresh, None}

LEMMA QuietUsable ==
    ASSUME IssuedInv, UsableInv, Quiet
    PROVE  UsableInv'
<1> USE DEF Quiet
<1>1. UnseenInv'
  <2>1. ASSUME NEW n, n # None, Unseen(n) PROVE Unseen(n)'
    BY <2>1 DEF Unseen
  <2>2. ASSUME NEW r \in Requests, Refreshing(r)', req'[r].newRefresh # None
        PROVE  /\ Unseen(req[r].newRefresh)' /\ req'[r].newRefresh = req[r].newRefresh
               /\ \A q \in Requests \ {r} :
                     Refreshing(q)' => req'[q].newRefresh # req'[r].newRefresh
               /\ \A l \in Logins : login'[l].refresh # req'[r].newRefresh
    BY <2>2 DEF UsableInv, UnseenInv, Unseen
  <2>3. ASSUME NEW l \in Logins, login'[l].refresh # None
        PROVE  /\ Unseen(login[l].refresh)' /\ login'[l].refresh = login[l].refresh
               /\ \A m \in Logins \ {l} : login'[m].refresh # login'[l].refresh
    BY <2>3 DEF UsableInv, UnseenInv, Unseen
  <2> QED BY <2>2, <2>3 DEF UnseenInv, Unseen
<1>2. StoredRefreshTokenUsable'
  BY DEF UsableInv, StoredRefreshTokenUsable
<1>3. FALSE \in Rotations => /\ row'.refresh # None => row'.refresh \in live'
                             /\ \A r \in Requests : req'[r].held # None => req'[r].held \in live'
  BY DEF UsableInv
<1>4. FALSE \notin Rotations => \A r \in Requests : Refreshing(r)' => req'[r].newRefresh # None
  BY DEF UsableInv
<1> QED BY <1>1, <1>2, <1>3, <1>4 DEF UsableInv

\* A request that neither begins nor continues a refresh.
LEMMA QuietRequest ==
    ASSUME NEW r \in Requests, OnlyRequest(r), live' = live, abandoned \subseteq abandoned',
           row'.refresh \in {row.refresh, None}, login' = login,
           req'[r].held \in {req[r].held, row.refresh, None},
           Refreshing(r)' => /\ Refreshing(r) /\ req'[r].held = req[r].held
                             /\ req'[r].newRefresh = req[r].newRefresh,
           Refreshing(r) /\ ~Refreshing(r)' => req[r].held \in abandoned'
    PROVE  Quiet
BY DEF Quiet, OnlyRequest, Refreshing

LEMMA FailedQuiet ==
    ASSUME NEW r \in Requests, Failed(r) \/ Answered(r)
    PROVE  /\ OnlyRequest(r) /\ ~Refreshing(r)'
           /\ req'[r].held \in {req[r].held, row.refresh, None}
BY DEF Failed, Answered, Empty, Kept, Refreshing

\* GitHub issues a grant for a refresh.
LEMMA IssueUsable ==
    ASSUME TypeOK, OneRotation, IssuedInv, UsableInv, NEW r \in Requests,
           NEW g \in Grants \ issued, NEW rotates \in Rotations,
           req[r].held \in live, req[r].pc = "github",
           OnlyRequest(r), req'[r].pc = "response", req'[r].held = req[r].held,
           req'[r].newRefresh = IF rotates THEN g ELSE None,
           live' = IF rotates THEN (live \ {req[r].held}) \cup {g} ELSE live,
           UNCHANGED <<row, login, abandoned>>
    PROVE  UsableInv'
<1>1. /\ g # None /\ live \subseteq issued /\ RowIssued(issued)
      /\ \A q \in Requests : RequestIssued(q, issued)
      /\ \A l \in Logins : LoginIssued(l, issued)
  BY IssuedParts, NoneAssumption
<1>2. \A q \in Requests : req'[q].held = req[q].held
  BY DEF OnlyRequest
<1>3. \A q \in Requests \ {r} : /\ Refreshing(q)' <=> Refreshing(q)
                                /\ req'[q].newRefresh = req[q].newRefresh
  BY DEF OnlyRequest, Refreshing
<1>4. ~Refreshing(r) /\ Refreshing(r)'
  BY DEF Refreshing
<1>5. ASSUME NEW n, Unseen(n) PROVE Unseen(n)' /\ n # g
  BY <1>1, <1>2, <1>5 DEF Unseen
<1>6. rotates => Unseen(g)'
  BY <1>1, <1>2 DEF Unseen, RowIssued, RequestIssued
<1>7. UnseenInv'
  <2>1. ASSUME NEW q \in Requests, Refreshing(q)', req'[q].newRefresh # None
        PROVE  /\ (Unseen(req[q].newRefresh)' /\ req'[q].newRefresh = req[q].newRefresh)
                  \/ (Unseen(g)' /\ req'[q].newRefresh = g)
               /\ \A p \in Requests \ {q} :
                     Refreshing(p)' => req'[p].newRefresh # req'[q].newRefresh
               /\ \A l \in Logins : login'[l].refresh # req'[q].newRefresh
    <3>1. CASE q = r
      <4>1. rotates /\ req'[q].newRefresh = g
        BY <2>1, <3>1
      <4>2. \A p \in Requests \ {q} : Refreshing(p)' => req'[p].newRefresh # g
        BY <1>1, <1>3, <3>1 DEF RequestIssued
      <4>3. \A l \in Logins : login'[l].refresh # g
        BY <1>1 DEF LoginIssued
      <4> QED BY <1>6, <4>1, <4>2, <4>3
    <3>2. CASE q # r
      <4>1. Refreshing(q) /\ req'[q].newRefresh = req[q].newRefresh
        BY <1>3, <2>1, <3>2
      <4>2. /\ Unseen(req[q].newRefresh)
            /\ \A p \in Requests \ {q} : Refreshing(p) => req[p].newRefresh # req[q].newRefresh
            /\ \A l \in Logins : login[l].refresh # req[q].newRefresh
        BY <2>1, <4>1 DEF UsableInv, UnseenInv
      <4>3. Unseen(req[q].newRefresh)' /\ req[q].newRefresh # g
        BY <1>5, <4>1, <4>2
      <4>4. \A p \in Requests \ {q} : Refreshing(p)' => req'[p].newRefresh # req'[q].newRefresh
        BY <1>3, <2>1, <4>1, <4>2, <4>3
      <4> QED BY <4>1, <4>2, <4>3, <4>4
    <3> QED BY <3>1, <3>2
  <2>2. ASSUME NEW l \in Logins, login'[l].refresh # None
        PROVE  /\ Unseen(login[l].refresh)'
               /\ \A m \in Logins \ {l} : login'[m].refresh # login'[l].refresh
    BY <1>5, <2>2 DEF UsableInv, UnseenInv
  <2> QED BY <2>1, <2>2 DEF UnseenInv, Unseen
<1>8. StoredRefreshTokenUsable'
  <2> SUFFICES ASSUME row.refresh # None, row.refresh \notin abandoned
               PROVE  \/ row.refresh \in live'
                      \/ \E q \in Requests : Refreshing(q)' /\ req'[q].held = row.refresh
    BY DEF StoredRefreshTokenUsable
  <2>1. CASE row.refresh \in live
    BY <1>2, <1>4, <2>1
  <2>2. ASSUME NEW q \in Requests, Refreshing(q), req[q].held = row.refresh
        PROVE  Refreshing(q)' /\ req'[q].held = row.refresh
    BY <1>2, <1>3, <1>4, <2>2
  <2> QED BY <2>1, <2>2 DEF UsableInv, StoredRefreshTokenUsable
<1>9. FALSE \in Rotations => live' = live
  BY RotationKind
<1>10. FALSE \in Rotations => /\ row'.refresh # None => row'.refresh \in live'
                              /\ \A q \in Requests : req'[q].held # None => req'[q].held \in live'
  BY <1>2, <1>9 DEF UsableInv
<1>11. FALSE \notin Rotations => \A q \in Requests : Refreshing(q)' => req'[q].newRefresh # None
  BY <1>1, <1>3, RotationKind DEF UsableInv
<1> QED BY <1>7, <1>8, <1>10, <1>11 DEF UsableInv

\* The new row, whose refresh token has had one way in only.
LEMMA RowReplaced ==
    ASSUME UsableInv, live' = live, abandoned' = abandoned,
           row'.refresh = None \/ row'.refresh \in live,
           \A q \in Requests : req'[q].held \in {req[q].held, None},
           \A q \in Requests : Refreshing(q)' =>
              /\ Refreshing(q) /\ req'[q].newRefresh = req[q].newRefresh
              /\ req[q].newRefresh # None => req[q].newRefresh # row'.refresh,
           \A l \in Logins : login'[l].refresh # None =>
              /\ login'[l].refresh = login[l].refresh /\ login[l].refresh # row'.refresh
    PROVE  UsableInv'
<1>1. ASSUME NEW n, Unseen(n), n # None, n # row'.refresh PROVE Unseen(n)'
  BY <1>1 DEF Unseen
<1>2. UnseenInv'
  <2>1. ASSUME NEW q \in Requests, Refreshing(q)', req'[q].newRefresh # None
        PROVE  /\ Unseen(req[q].newRefresh)' /\ req'[q].newRefresh = req[q].newRefresh
               /\ \A p \in Requests \ {q} :
                     Refreshing(p)' => req'[p].newRefresh # req'[q].newRefresh
               /\ \A l \in Logins : login'[l].refresh # req'[q].newRefresh
    <3>1. /\ Refreshing(q) /\ req'[q].newRefresh = req[q].newRefresh
          /\ req[q].newRefresh # row'.refresh
      BY <2>1
    <3>2. /\ Unseen(req[q].newRefresh)
          /\ \A p \in Requests \ {q} : Refreshing(p) => req[p].newRefresh # req[q].newRefresh
          /\ \A l \in Logins : login[l].refresh # req[q].newRefresh
      BY <2>1, <3>1 DEF UsableInv, UnseenInv
    <3>3. \A p \in Requests \ {q} : Refreshing(p)' => req'[p].newRefresh # req'[q].newRefresh
      BY <3>1, <3>2
    <3>4. \A l \in Logins : login'[l].refresh # req'[q].newRefresh
      BY <2>1, <3>1, <3>2
    <3>5. Unseen(req[q].newRefresh)'
      BY <1>1, <2>1, <3>1, <3>2
    <3> QED BY <3>1, <3>3, <3>4, <3>5
  <2>2. ASSUME NEW l \in Logins, login'[l].refresh # None
        PROVE  /\ Unseen(login[l].refresh)' /\ login'[l].refresh = login[l].refresh
               /\ \A m \in Logins \ {l} : login'[m].refresh # login'[l].refresh
    <3>1. /\ login'[l].refresh = login[l].refresh /\ login[l].refresh # row'.refresh
          /\ Unseen(login[l].refresh)
          /\ \A m \in Logins \ {l} : login[m].refresh # login[l].refresh
      BY <2>2 DEF UsableInv, UnseenInv
    <3>2. Unseen(login[l].refresh)'
      BY <1>1, <2>2, <3>1
    <3> QED BY <2>2, <3>1, <3>2
  <2> QED BY <2>1, <2>2 DEF UnseenInv, Unseen
<1>3. StoredRefreshTokenUsable'
  BY DEF StoredRefreshTokenUsable
<1>4. FALSE \in Rotations => /\ row'.refresh # None => row'.refresh \in live'
                             /\ \A q \in Requests : req'[q].held # None => req'[q].held \in live'
  BY DEF UsableInv
<1>5. FALSE \notin Rotations => \A q \in Requests : Refreshing(q)' => req'[q].newRefresh # None
  BY DEF UsableInv
<1> QED BY <1>2, <1>3, <1>4, <1>5 DEF UsableInv

LEMMA UsableServe ==
    ASSUME TypeOK, OneRotation, IssuedInv, UsableInv, NEW r \in Requests, Serve(r)
    PROVE  UsableInv'
<1>1. login' = login /\ OnlyRequest(r) /\ RequestIssued(r, issued)
  BY ServeStep, IssuedParts
<1>2. CASE ReadUser(r)
  <2>1. UNCHANGED <<row, live, abandoned>>
    BY <1>2 DEF ReadUser
  <2>2. Quiet
    BY <1>1, <1>2, <2>1, ReadUserStep, QuietRequest DEF Refreshing
  <2> QED BY <2>2, QuietUsable
<1>3. CASE AuditAccess(r)
  <2>1. UNCHANGED <<row, live, abandoned>>
    BY <1>3 DEF AuditAccess
  <2>2. /\ ~Refreshing(r) /\ ~Refreshing(r)'
        /\ req'[r].held \in {req[r].held, row.refresh, None}
    BY <1>3, AuditStep DEF Answered, Empty, Refreshing
  <2>3. Quiet
    BY <1>1, <2>1, <2>2, QuietRequest
  <2> QED BY <2>3, QuietUsable
<1>4. CASE ReadInTransaction(r)
  <2>1. UNCHANGED <<row, live, abandoned>>
    BY <1>4 DEF ReadInTransaction
  <2>2. /\ ~Refreshing(r) /\ ~Refreshing(r)'
        /\ req'[r].held \in {req[r].held, row.refresh, None}
    BY <1>4, TransactionStep, FailedQuiet DEF Refreshing
  <2>3. Quiet
    BY <1>1, <2>1, <2>2, QuietRequest
  <2> QED BY <2>3, QuietUsable
<1>5. CASE RefreshAtGithub(r)
  <2>1. UNCHANGED <<row, abandoned>> /\ req[r].pc = "github"
    BY <1>5 DEF RefreshAtGithub
  <2>2. CASE Failed(r) /\ UNCHANGED <<issued, live, grantExpiry>>
    <3>1. /\ ~Refreshing(r) /\ ~Refreshing(r)'
          /\ req'[r].held \in {req[r].held, row.refresh, None}
      BY <2>1, <2>2, FailedQuiet DEF Refreshing
    <3>2. Quiet
      BY <1>1, <2>1, <2>2, <3>1, QuietRequest
    <3> QED BY <3>2, QuietUsable
  <2>3. CASE ~(Failed(r) /\ UNCHANGED <<issued, live, grantExpiry>>)
    <3>1. PICK g \in Grants \ issued, rotates \in Rotations :
             /\ req[r].held \in live /\ req'[r].pc = "response"
             /\ live' = IF rotates THEN (live \ {req[r].held}) \cup {g} ELSE live
             /\ req'[r].newRefresh = IF rotates THEN g ELSE None
             /\ req'[r].held = req[r].held
      BY <1>5, <2>3, RefreshStep
    <3> QED BY <1>1, <2>1, <3>1, IssueUsable
  <2> QED BY <2>2, <2>3
<1>6. CASE ReceiveTokens(r)
  <2>1. UNCHANGED <<row, live, abandoned>>
    BY <1>6 DEF ReceiveTokens
  <2>2. Quiet
    BY <1>1, <1>6, <2>1, ReceiveStep, QuietRequest DEF Refreshing
  <2> QED BY <2>2, QuietUsable
<1>7. CASE SendToken(r) \/ HandlerFault(r)
  <2>1. UNCHANGED <<row, live, abandoned>>
    BY <1>7 DEF SendToken, HandlerFault
  <2>2. /\ ~Refreshing(r) /\ ~Refreshing(r)'
        /\ req'[r].held \in {req[r].held, row.refresh, None}
    BY <1>7, SendStep, FailedQuiet DEF Refreshing
  <2>3. Quiet
    BY <1>1, <2>1, <2>2, QuietRequest
  <2> QED BY <2>3, QuietUsable
<1>8. ASSUME Failed(r), row' = row, live' = live,
             abandoned' = IF req[r].pc \in {"response", "write"}
                          THEN abandoned \cup {req[r].held} ELSE abandoned
      PROVE  UsableInv'
  <2>1. /\ ~Refreshing(r)' /\ req'[r].held \in {req[r].held, row.refresh, None}
        /\ abandoned \subseteq abandoned'
        /\ Refreshing(r) => req[r].held \in abandoned'
    BY <1>8, FailedQuiet DEF Refreshing
  <2>2. Quiet
    BY <1>1, <1>8, <2>1, QuietRequest
  <2> QED BY <2>2, QuietUsable
<1>9. ASSUME row' = Refreshed(r), req[r].pc = "write", live' = live, abandoned' = abandoned,
             req'[r].held \in {req[r].held, None}, ~Refreshing(r)'
      PROVE  UsableInv'
  <2>1. /\ Refreshing(r) /\ req[r].held # None
        /\ row'.refresh = IF req[r].newRefresh = None THEN req[r].held ELSE req[r].newRefresh
    BY <1>1, <1>9, RefreshedFields DEF Refreshing, RequestIssued
  <2>2. req[r].newRefresh # None => Unseen(req[r].newRefresh)
    BY <2>1 DEF UsableInv, UnseenInv
  <2>3. req[r].newRefresh = None => req[r].held \in live
    BY <2>1 DEF UsableInv
  <2>4. row'.refresh \in live
    BY <2>1, <2>2, <2>3 DEF Unseen
  <2>5. \A q \in Requests : req'[q].held \in {req[q].held, None}
    BY <1>1, <1>9 DEF OnlyRequest
  <2>6. ASSUME NEW q \in Requests, Refreshing(q)'
        PROVE  /\ Refreshing(q) /\ req'[q].newRefresh = req[q].newRefresh
               /\ req[q].newRefresh # None => req[q].newRefresh # row'.refresh
    <3>1. q # r /\ Refreshing(q) /\ req'[q].newRefresh = req[q].newRefresh
      BY <1>1, <1>9, <2>6 DEF OnlyRequest, Refreshing
    <3>2. req[q].newRefresh # None => /\ req[q].newRefresh # req[r].held
                                      /\ req[q].newRefresh # req[r].newRefresh
      BY <2>1, <3>1 DEF UsableInv, UnseenInv, Unseen
    <3> QED BY <2>1, <3>1, <3>2
  <2>7. ASSUME NEW l \in Logins, login'[l].refresh # None
        PROVE  login'[l].refresh = login[l].refresh /\ login[l].refresh # row'.refresh
    <3>1. login'[l].refresh = login[l].refresh
      BY <1>1
    <3>2. login[l].refresh # req[r].held
      BY <2>7, <3>1 DEF UsableInv, UnseenInv, Unseen
    <3>3. req[r].newRefresh # None => login[l].refresh # req[r].newRefresh
      BY <2>1 DEF UsableInv, UnseenInv
    <3> QED BY <2>1, <3>1, <3>2, <3>3
  <2> QED BY <1>9, <2>4, <2>5, <2>6, <2>7, RowReplaced
<1>10. CASE CommitRefresh(r)
  <2>1. live' = live
    BY <1>10 DEF CommitRefresh
  <2>2. CASE Failed(r) /\ row' = row /\ abandoned' = abandoned \cup {req[r].held}
    BY <1>8, <1>10, <2>1, <2>2 DEF CommitRefresh
  <2>3. CASE ~(Failed(r) /\ row' = row /\ abandoned' = abandoned \cup {req[r].held})
    <3>1. /\ row' = Refreshed(r) /\ abandoned' = abandoned /\ req[r].pc = "write"
          /\ req'[r].pc = "decrypt" /\ req'[r].held = req[r].held
      BY <1>10, <2>3, CommitStep
    <3> QED BY <1>9, <2>1, <3>1 DEF Refreshing
  <2> QED BY <2>2, <2>3
<1>11. CASE CommitUnconfirmed(r)
  <2>1. /\ row' = Refreshed(r) /\ abandoned' = abandoned /\ req[r].pc = "write"
        /\ live' = live /\ Failed(r)
    BY <1>11, FaultStep DEF CommitUnconfirmed
  <2>2. req'[r].held \in {req[r].held, None} /\ ~Refreshing(r)'
    BY <2>1 DEF Failed, Answered, Empty, Kept, Refreshing
  <2> QED BY <1>9, <2>1, <2>2
<1>12. CASE TransactionFault(r)
  <2>1. /\ row' = row /\ live' = live /\ Failed(r)
        /\ abandoned' = IF req[r].pc \in {"response", "write"}
                        THEN abandoned \cup {req[r].held} ELSE abandoned
    BY <1>12, FaultStep DEF TransactionFault
  <2> QED BY <1>8, <2>1
<1> QED BY <1>2, <1>3, <1>4, <1>5, <1>6, <1>7, <1>10, <1>11, <1>12 DEF Serve

LEMMA UsableLogIn ==
    ASSUME TypeOK, IssuedInv, UsableInv, NEW l \in Logins, LogIn(l)
    PROVE  UsableInv'
<1>1. UNCHANGED <<req, abandoned>> /\ OnlyLogin(l)
  BY LogInStep
<1>2. \A r \in Requests : Refreshing(r)' <=> Refreshing(r)
  BY <1>1 DEF Refreshing
<1>3. CASE ExchangeCode(l)
  <2>1. PICK g \in Grants \ issued, expiring \in BOOLEAN :
           /\ live' = IF expiring THEN live \cup {g} ELSE live
           /\ login'[l].refresh = IF expiring THEN g ELSE None
    BY <1>3, ExchangeStep
  <2>2. row' = row
    BY <1>3 DEF ExchangeCode
  <2>3. /\ live \subseteq issued /\ RowIssued(issued) /\ g # None
        /\ \A q \in Requests : RequestIssued(q, issued)
        /\ \A m \in Logins : LoginIssued(m, issued)
    BY IssuedParts, NoneAssumption
  <2>4. expiring => Unseen(g)'
    BY <1>1, <2>1, <2>2, <2>3 DEF Unseen, RowIssued, RequestIssued
  <2>5. ASSUME NEW n, Unseen(n) PROVE Unseen(n)' /\ n # g
    BY <1>1, <2>1, <2>2, <2>3, <2>5 DEF Unseen
  <2>6. \A m \in Logins \ {l} : login'[m].refresh = login[m].refresh /\ login[m].refresh # g
    BY <1>1, <2>3 DEF OnlyLogin, LoginIssued
  <2>7. UnseenInv'
    <3>1. ASSUME NEW r \in Requests, Refreshing(r)', req'[r].newRefresh # None
          PROVE  /\ Unseen(req[r].newRefresh)'
                 /\ \A q \in Requests \ {r} :
                       Refreshing(q)' => req'[q].newRefresh # req'[r].newRefresh
                 /\ \A m \in Logins : login'[m].refresh # req'[r].newRefresh
      <4>1. /\ Refreshing(r) /\ req'[r].newRefresh = req[r].newRefresh
            /\ Unseen(req[r].newRefresh)
            /\ \A q \in Requests \ {r} : Refreshing(q) => req[q].newRefresh # req[r].newRefresh
            /\ \A m \in Logins : login[m].refresh # req[r].newRefresh
        BY <1>1, <1>2, <3>1 DEF UsableInv, UnseenInv
      <4>2. Unseen(req[r].newRefresh)' /\ req[r].newRefresh # g
        BY <2>5, <4>1
      <4>3. \A m \in Logins : login'[m].refresh # req'[r].newRefresh
        BY <2>1, <2>6, <3>1, <4>1, <4>2
      <4> QED BY <1>1, <1>2, <4>1, <4>2, <4>3
    <3>2. ASSUME NEW m \in Logins, login'[m].refresh # None
          PROVE  /\ Unseen(login[m].refresh)'
                 /\ \A k \in Logins \ {m} : login'[k].refresh # login'[m].refresh
      <4>1. CASE m = l
        BY <2>1, <2>4, <2>6, <3>2, <4>1
      <4>2. CASE m # l
        <5>1. /\ login'[m].refresh = login[m].refresh /\ Unseen(login[m].refresh)
              /\ \A k \in Logins \ {m} : login[k].refresh # login[m].refresh
          BY <2>6, <3>2, <4>2 DEF UsableInv, UnseenInv
        <5>2. Unseen(login[m].refresh)' /\ login[m].refresh # g
          BY <2>5, <5>1
        <5>3. \A k \in Logins \ {m} : login'[k].refresh # login'[m].refresh
          BY <2>1, <2>6, <3>2, <5>1, <5>2
        <5> QED BY <5>2, <5>3
      <4> QED BY <4>1, <4>2
    <3> QED BY <3>1, <3>2 DEF UnseenInv
  <2>8. live \subseteq live'
    BY <2>1
  <2> QED BY <1>1, <1>2, <2>2, <2>7, <2>8 DEF UsableInv, StoredRefreshTokenUsable
<1>4. CASE FetchProfile(l)
  <2>1. UNCHANGED <<row, live>>
    BY <1>4 DEF FetchProfile
  <2>2. Quiet
    BY <1>1, <1>2, <1>4, <2>1, FetchStep DEF Quiet, OnlyLogin
  <2> QED BY <2>2, QuietUsable
<1>5. CASE LoginFault(l)
  <2>1. UNCHANGED <<row, live>> /\ login'[l].refresh = None
    BY <1>5, EndStep DEF LoginFault, Ended
  <2>2. Quiet
    BY <1>1, <1>2, <2>1 DEF Quiet, OnlyLogin
  <2> QED BY <2>2, QuietUsable
<1>6. CASE StoreGrant(l)
  <2>1. live' = live /\ login'[l].refresh = None /\ row'.refresh = login[l].refresh
    BY <1>6, EndStep, StoredFields DEF StoreGrant, Ended
  <2>2. row'.refresh = None \/ Unseen(login[l].refresh)
    BY <2>1 DEF UsableInv, UnseenInv
  <2>3. \A q \in Requests : Refreshing(q)' =>
           /\ Refreshing(q) /\ req'[q].newRefresh = req[q].newRefresh
           /\ req[q].newRefresh # None => req[q].newRefresh # row'.refresh
    BY <1>1, <1>2, <2>1 DEF UsableInv, UnseenInv
  <2>4. \A m \in Logins : login'[m].refresh # None =>
           /\ login'[m].refresh = login[m].refresh /\ login[m].refresh # row'.refresh
    BY <1>1, <2>1 DEF UsableInv, UnseenInv, OnlyLogin
  <2>5. row'.refresh = None \/ row'.refresh \in live
    BY <2>1, <2>2 DEF Unseen
  <2> QED BY <1>1, <2>1, <2>3, <2>4, <2>5, RowReplaced
<1> QED BY <1>3, <1>4, <1>5, <1>6 DEF LogIn

LEMMA UsableStep ==
    ASSUME TypeOK, OneRotation, IssuedInv, UsableInv, [Next]_vars
    PROVE  UsableInv'
<1>1. ASSUME NEW r \in Requests, Arrive(r) PROVE UsableInv'
  <2>1. /\ UNCHANGED <<row, live, login, abandoned>> /\ OnlyRequest(r)
        /\ ~Refreshing(r) /\ ~Refreshing(r)' /\ req'[r].held = None
    BY <1>1, ArriveStep DEF Arrive, Active, Refreshing, Empty
  <2>2. Quiet
    BY <2>1, QuietRequest
  <2> QED BY <2>2, QuietUsable
<1>2. ASSUME NEW account \in AdminSettings, AdminSetsAccount(account) PROVE UsableInv'
  <2>1. UNCHANGED <<live, req, login, abandoned>> /\ row'.refresh \in {row.refresh, None}
    BY <1>2, AccountFields DEF AdminSetsAccount
  <2>2. Quiet
    BY <2>1 DEF Quiet, Refreshing
  <2> QED BY <2>2, QuietUsable
<1>3. CASE UNCHANGED <<row, live, req, login, abandoned>>
  <2>1. Quiet
    BY <1>3 DEF Quiet, Refreshing
  <2> QED BY <2>1, QuietUsable
<1> QED BY <1>1, <1>2, <1>3, UsableServe, UsableLogIn DEF Next, Tick, vars

-----------------------------------------------------------------------------
(* Who is handed a token                                                   *)

\* What HandoutInv says of one request.
RowHeld(r) == Active(r) /\ req[r].verdict = "OK" /\ r \notin stale => row.account # "absent"

HandoutSound(r) ==
    /\ req[r].pc = "user" => req[r].verdict = "none" /\ req[r].audit = "none"
    /\ req[r].pc = "audit" => req[r].verdict # "none" /\ req[r].audit = "none"
    /\ req[r].pc = "audit" /\ req[r].verdict = "OK" => req[r].access # None
    /\ Active(r) /\ req[r].pc \notin {"user", "audit"} =>
          req[r].verdict = "OK" /\ req[r].audit # "none" /\ req[r].access # None

\* Sound expiries belong to tokens.
LEMMA SoundSourced == TypeOK /\ SoundInv => Sourced
<1> SUFFICES ASSUME TypeOK, SoundInv PROVE Sourced
  OBVIOUS
<1>1. ASSUME NEW l \in Logins, login[l].pc # "idle" PROVE login[l].grant # None
  <2>1. login[l].pc \in {"profile", "upsert"} /\ LoginSound(l)
    BY <1>1 DEF TypeOK, Login, SoundInv
  <2> QED BY <2>1 DEF LoginSound, Sound, NewGrant
<1> QED BY <1>1 DEF SoundInv, Sourced, Sound, RequestSound, NewGrant

\* A request that has ended is under no obligation; one whose refresh has failed goes on
\* as it was.
LEMMA FailedHandout ==
    ASSUME NEW r \in Requests, HandoutSound(r), Failed(r), Active(r),
           req[r].pc \notin {"user", "audit"}
    PROVE  HandoutSound(r)'
<1>1. CASE Answered(r)
  BY <1>1 DEF Answered, HandoutSound, Active
<1>2. CASE req'[r].pc = "decrypt" /\ Kept(r)
  BY <1>2 DEF Kept, HandoutSound, Active
<1> QED BY <1>1, <1>2 DEF Failed

LEMMA HandoutServe ==
    ASSUME TypeOK, Sourced, HandoutInv, NEW r \in Requests, Serve(r)
    PROVE  HandoutSound(r)'
<1>1. HandoutSound(r)
  BY DEF HandoutInv, HandoutSound
<1>2. CASE ReadUser(r)
  <2>1. /\ req[r].pc = "user" /\ req'[r].pc = "audit" /\ req'[r].verdict = Verdict
        /\ req'[r].access = row.access /\ req'[r].audit = req[r].audit
    BY <1>2, ReadUserStep
  <2>2. row.account \in {"absent", "pending", "whitelisted"}
    BY DEF TypeOK, User
  <2>3. Verdict # "none" /\ (Verdict = "OK" => row.access # None)
    BY <2>2 DEF Verdict
  <2> QED BY <1>1, <2>1, <2>3 DEF HandoutSound, Active
<1>3. CASE AuditAccess(r)
  BY <1>1, <1>3, AuditStep DEF HandoutSound, Active, Answered
<1>4. CASE ReadInTransaction(r)
  <2>1. req[r].pc = "tx" /\ Active(r)
    BY <1>4, TransactionStep DEF Active
  <2>2. row.refresh # None => row.access # None
    BY DEF Sourced
  <2>3. CASE Failed(r)
    BY <1>1, <2>1, <2>3, FailedHandout
  <2>4. CASE ~Failed(r)
    <3>1. /\ req'[r].pc \in {"github", "decrypt"} /\ req'[r].verdict = req[r].verdict
          /\ req'[r].audit = req[r].audit
          /\ req'[r].access \in {req[r].access, row.access} /\ row.refresh # None
      BY <1>4, <2>4, TransactionStep
    <3> QED BY <1>1, <2>1, <2>2, <3>1 DEF HandoutSound, Active
  <2> QED BY <2>3, <2>4
<1>5. CASE RefreshAtGithub(r)
  <2>1. req[r].pc = "github" /\ Active(r)
    BY <1>5, RefreshStep DEF Active
  <2>2. CASE Failed(r)
    BY <1>1, <2>1, <2>2, FailedHandout
  <2>3. CASE ~Failed(r)
    <3>1. /\ req'[r].pc = "response" /\ req'[r].verdict = req[r].verdict
          /\ req'[r].audit = req[r].audit /\ req'[r].access = req[r].access
      BY <1>5, <2>3, RefreshStep
    <3> QED BY <1>1, <2>1, <3>1 DEF HandoutSound, Active
  <2> QED BY <2>2, <2>3
<1>6. CASE ReceiveTokens(r)
  BY <1>1, <1>6, ReceiveStep DEF HandoutSound, Active
<1>7. CASE CommitRefresh(r)
  <2>1. req[r].pc = "write" /\ Active(r) /\ req[r].grant # None
    BY <1>7, CommitStep DEF Active, Sourced, Refreshing
  <2>2. CASE Failed(r)
    BY <1>1, <2>1, <2>2, FailedHandout
  <2>3. CASE ~Failed(r)
    <3>1. /\ req'[r].pc = "decrypt" /\ req'[r].verdict = req[r].verdict
          /\ req'[r].audit = req[r].audit /\ req'[r].access = req[r].grant
      BY <1>7, <2>3, CommitStep
    <3> QED BY <1>1, <2>1, <3>1 DEF HandoutSound, Active
  <2> QED BY <2>2, <2>3
<1>8. CASE SendToken(r) \/ HandlerFault(r)
  BY <1>8, SendStep DEF Answered, HandoutSound, Active
<1>9. CASE TransactionFault(r) \/ CommitUnconfirmed(r)
  <2>1. Failed(r) /\ Active(r) /\ req[r].pc \notin {"user", "audit"}
    BY <1>9, FaultStep DEF Active
  <2> QED BY <1>1, <2>1, FailedHandout
<1> QED BY <1>2, <1>3, <1>4, <1>5, <1>6, <1>7, <1>8, <1>9 DEF Serve

\* A request stays as it is but for its own steps.
LEMMA RequestMoves ==
    ASSUME TypeOK, [Next]_vars, NEW q \in Requests
    PROVE  req'[q] = req[q] \/ Arrive(q) \/ Serve(q)
<1>1. ASSUME NEW r \in Requests, Arrive(r) \/ Serve(r), r # q PROVE req'[q] = req[q]
  BY <1>1, ArriveStep, ServeStep DEF OnlyRequest
<1>2. ASSUME NEW l \in Logins, LogIn(l) PROVE req' = req
  BY <1>2, LogInStep
<1> QED BY <1>1, <1>2 DEF Next, AdminSetsAccount, Tick, vars

\* Only the read of the user judges; only the commit of a refresh writes the row.
LEMMA VerdictKept ==
    ASSUME TypeOK, NEW r \in Requests, Serve(r), ~ReadUser(r), req'[r].pc # "done"
    PROVE  req'[r].verdict = req[r].verdict
<1>1. ASSUME Failed(r) PROVE req'[r].verdict = req[r].verdict
  BY <1>1 DEF Failed, Answered, Kept
<1>2. ~Answered(r)
  BY DEF Answered
<1> QED BY <1>1, <1>2, AuditStep, TransactionStep, RefreshStep, ReceiveStep, CommitStep,
           SendStep, FaultStep DEF Serve

LEMMA ServeAccount ==
    ASSUME TypeOK, NEW r \in Requests, Serve(r)
    PROVE  row'.account = row.account
BY RefreshedFields DEF Serve, ReadUser, AuditAccess, ReadInTransaction, RefreshAtGithub,
   ReceiveTokens, CommitRefresh, CommitUnconfirmed, SendToken, HandlerFault, TransactionFault

LEMMA LogInAccount ==
    ASSUME TypeOK, NEW l \in Logins, LogIn(l)
    PROVE  \/ row' = row
           \/ /\ row'.account = IF row.account = "absent" THEN "pending" ELSE row.account
              /\ row'.access = login[l].grant /\ login[l].pc = "upsert"
BY DEF LogIn, ExchangeCode, FetchProfile, StoreGrant, LoginFault

LEMMA HandoutStep ==
    ASSUME TypeOK, Sourced, HandoutInv, [Next]_vars, NEW q \in Requests
    PROVE  HandoutSound(q)'
<1>1. HandoutSound(q)
  BY DEF HandoutInv, HandoutSound
<1>2. CASE req'[q] = req[q]
  BY <1>1, <1>2 DEF HandoutSound, Active
<1>3. CASE Arrive(q)
  <2>1. req'[q].pc = "user" /\ req'[q].verdict = "none" /\ req'[q].audit = "none"
    BY <1>3, ArriveStep
  <2> QED BY <2>1 DEF HandoutSound
<1>4. CASE Serve(q)
  BY <1>4, HandoutServe
<1> QED BY <1>2, <1>3, <1>4, RequestMoves

\* No step but the deletion of the row leaves it without an account.
LEMMA RowHeldStep ==
    ASSUME TypeOK, HandoutInv, [Next]_vars, NEW q \in Requests
    PROVE  RowHeld(q)'
<1>1. RowHeld(q)
  BY DEF HandoutInv, RowHeld
<1>2. CASE Arrive(q)
  BY <1>2, ArriveStep DEF RowHeld
<1>3. CASE Serve(q)
  <2>1. Active(q) /\ UNCHANGED stale
    BY <1>3, ServeStep
  <2>2. CASE ReadUser(q)
    <3>1. row' = row /\ req'[q].verdict = Verdict
      BY <2>2, ReadUserStep DEF ReadUser
    <3>2. row.account \in {"absent", "pending", "whitelisted"}
      BY DEF TypeOK, User
    <3> QED BY <3>1, <3>2 DEF RowHeld, Verdict
  <2>3. CASE ~ReadUser(q)
    <3>1. req'[q].pc # "done" => req'[q].verdict = req[q].verdict
      BY <1>3, <2>3, VerdictKept
    <3>2. row'.account = row.account
      BY <1>3, ServeAccount
    <3> QED BY <1>1, <2>1, <3>1, <3>2 DEF RowHeld, Active
  <2> QED BY <2>2, <2>3
<1>4. CASE req'[q] = req[q]
  <2>1. CASE row'.account # "absent"
    BY <2>1 DEF RowHeld
  <2>2. ASSUME row'.account = row.account, q \in stale => q \in stale'
        PROVE  RowHeld(q)'
    BY <1>1, <1>4, <2>2 DEF RowHeld, Active
  <2>3. ASSUME NEW r \in Requests, Arrive(r), r # q PROVE RowHeld(q)'
    BY <2>2, <2>3, ArriveStep DEF Arrive
  <2>4. ASSUME NEW r \in Requests, Serve(r) PROVE RowHeld(q)'
    BY <2>2, <2>4, ServeStep, ServeAccount
  <2>5. ASSUME NEW l \in Logins, LogIn(l) PROVE RowHeld(q)'
    BY <2>1, <2>2, <2>5, LogInStep, LogInAccount
  <2>6. ASSUME NEW account \in AdminSettings, AdminSetsAccount(account) PROVE RowHeld(q)'
    <3>1. CASE account = "absent"
      <4>1. Active(q) /\ req[q].verdict = "OK" => q \in stale'
        BY <2>6, <3>1 DEF AdminSetsAccount, HandoutInv
      <4> QED BY <1>4, <4>1 DEF RowHeld, Active
    <3>2. CASE account # "absent"
      BY <2>1, <2>6, <3>2, AccountFields DEF AdminSetsAccount
    <3> QED BY <3>1, <3>2
  <2>7. CASE UNCHANGED <<row, stale>>
    BY <2>2, <2>7
  <2>8. CASE \E r \in Requests : Arrive(r) /\ r = q
    BY <1>2, <2>8
  <2> QED BY <2>3, <2>4, <2>5, <2>6, <2>7, <2>8 DEF Next, Tick, vars
<1> QED BY <1>2, <1>3, <1>4, RequestMoves

\* A step of a request answers, or goes to a later call.
LEMMA ServeMoves ==
    ASSUME TypeOK, NEW r \in Requests, Serve(r)
    PROVE  \/ req'[r].pc = "done" /\ Active(r)
           \/ req[r].pc = "user" /\ req'[r].pc = "audit"
           \/ req[r].pc = "audit" /\ req'[r].pc \in {"tx", "decrypt"}
           \/ req[r].pc = "tx" /\ req'[r].pc \in {"github", "decrypt"}
           \/ req[r].pc = "github" /\ req'[r].pc \in {"response", "decrypt"}
           \/ req[r].pc = "response" /\ req'[r].pc \in {"write", "decrypt"}
           \/ req[r].pc = "write" /\ req'[r].pc = "decrypt"
<1>0. Active(r)
  BY ServeStep
<1>1. CASE Answered(r)
  BY <1>0, <1>1 DEF Answered
<1> HIDE DEF Answered
<1>2. ASSUME Failed(r), ~Answered(r) PROVE req'[r].pc = "decrypt"
  BY <1>2 DEF Failed
<1>3. CASE ReadUser(r)
  BY <1>3, ReadUserStep
<1>4. CASE AuditAccess(r)
  BY <1>1, <1>4, AuditStep
<1>5. CASE ReadInTransaction(r)
  BY <1>1, <1>2, <1>5, TransactionStep
<1>6. CASE RefreshAtGithub(r)
  BY <1>1, <1>2, <1>6, RefreshStep
<1>7. CASE ReceiveTokens(r)
  BY <1>7, ReceiveStep
<1>8. CASE CommitRefresh(r)
  BY <1>1, <1>2, <1>8, CommitStep
<1>9. CASE SendToken(r) \/ HandlerFault(r)
  BY <1>1, <1>9, SendStep
<1>10. CASE TransactionFault(r) \/ CommitUnconfirmed(r)
  BY <1>1, <1>2, <1>10, FaultStep
<1> QED BY <1>3, <1>4, <1>5, <1>6, <1>7, <1>8, <1>9, <1>10 DEF Serve

\* Only a commit writes the row.
LEMMA RowMoves ==
    ASSUME TypeOK, NEW r \in Requests, Serve(r)
    PROVE  \/ row' = row
           \/ row' = Refreshed(r) /\ req[r].pc = "write" /\ r \notin stale
BY DEF Serve, ReadUser, AuditAccess, ReadInTransaction, RefreshAtGithub, ReceiveTokens,
   CommitRefresh, CommitUnconfirmed, SendToken, HandlerFault, TransactionFault

\* Whatever the expiries are worth, who stores a token has one.
LEMMA SourcedStep ==
    ASSUME TypeOK, Sourced, [Next]_vars
    PROVE  Sourced'
<1>1. ASSUME NEW r \in Requests, Refreshing(r)' PROVE req'[r].grant # None
  <2>1. CASE req'[r] = req[r]
    BY <1>1, <2>1 DEF Sourced, Refreshing
  <2>2. CASE Arrive(r)
    BY <1>1, <2>2, ArriveStep DEF Refreshing
  <2>3. CASE Serve(r)
    <3>1. CASE RefreshAtGithub(r)
      BY <1>1, <3>1, RefreshStep, NoneAssumption DEF Refreshing, Failed, Answered
    <3>2. CASE ReceiveTokens(r)
      BY <1>1, <3>2, ReceiveStep DEF Sourced, Refreshing
    <3>3. req[r].pc \in {"github", "response"}
      BY <1>1, <2>3, ServeMoves DEF Refreshing
    <3>4. ASSUME ~RefreshAtGithub(r), ~ReceiveTokens(r) PROVE Failed(r)
      BY <2>3, <3>3, <3>4, FaultStep DEF Serve, ReadUser, AuditAccess, ReadInTransaction,
         CommitRefresh, CommitUnconfirmed, SendToken, HandlerFault
    <3>5. ~Failed(r)
      BY <1>1 DEF Refreshing, Failed, Answered
    <3> QED BY <3>1, <3>2, <3>4, <3>5
  <2> QED BY <2>1, <2>2, <2>3, RequestMoves
<1>2. ASSUME NEW l \in Logins, login'[l].pc # "idle" PROVE login'[l].grant # None
  <2>1. CASE login'[l] = login[l]
    BY <1>2, <2>1 DEF Sourced
  <2>2. CASE LogIn(l)
    <3>1. CASE ExchangeCode(l)
      BY <3>1, ExchangeStep, NoneAssumption
    <3>2. CASE FetchProfile(l)
      BY <3>2, FetchStep DEF Sourced
    <3>3. CASE StoreGrant(l) \/ LoginFault(l)
      <4>1. EndLogin(l)
        BY <3>3 DEF StoreGrant, LoginFault
      <4> QED BY <1>2, <4>1, EndStep DEF Ended
    <3> QED BY <2>2, <3>1, <3>2, <3>3 DEF LogIn
  <2>3. ASSUME NEW k \in Logins, LogIn(k), k # l PROVE login'[l] = login[l]
    BY <2>3, LogInStep DEF OnlyLogin
  <2>4. ASSUME NEW r \in Requests, Arrive(r) \/ Serve(r) PROVE login' = login
    BY <2>4, ServeStep DEF Arrive
  <2> QED BY <2>1, <2>2, <2>3, <2>4 DEF Next, AdminSetsAccount, Tick, vars
<1>3. row'.refresh # None => row'.access # None
  <2>1. CASE row' = row
    BY <2>1 DEF Sourced
  <2>2. ASSUME NEW r \in Requests, Serve(r) PROVE row'.refresh # None => row'.access # None
    BY <2>1, <2>2, RowMoves, RefreshedFields DEF Sourced, Refreshing
  <2>3. ASSUME NEW l \in Logins, LogIn(l) PROVE row'.refresh # None => row'.access # None
    BY <2>1, <2>3, LogInAccount DEF Sourced
  <2>4. ASSUME NEW account \in AdminSettings, AdminSetsAccount(account)
        PROVE  row'.refresh # None => row'.access # None
    BY <2>4, AccountFields DEF Sourced
  <2> QED BY <2>1, <2>2, <2>3, <2>4 DEF Next, Arrive, Tick, vars
<1> QED BY <1>1, <1>2, <1>3 DEF Sourced

LEMMA HandoutNext ==
    ASSUME TypeOK, Sourced, HandoutInv, [Next]_vars
    PROVE  HandoutInv'
<1>1. \A q \in Requests : HandoutSound(q)' /\ RowHeld(q)'
  BY HandoutStep, RowHeldStep
<1> QED BY <1>1 DEF HandoutInv, HandoutSound, RowHeld

-----------------------------------------------------------------------------
(* The theorems                                                            *)

LEMMA InitInv == Init => IndInv
<1> SUFFICES ASSUME Init PROVE IndInv
  OBVIOUS
<1>1. /\ row \in User /\ row.access = None /\ row.refresh = None
      /\ issued = {} /\ live = {} /\ grantExpiry \in [Grants -> Time]
  BY DEF Init, User, Grant, Form, Time
<1>2. /\ now = 0 /\ stale = {} /\ degraded = {} /\ abandoned = {}
      /\ \A r \in Requests : req[r].pc = "idle" /\ Empty(req[r])
      /\ \A l \in Logins : login[l].pc = "idle" /\ login[l].grant = None
                           /\ login[l].refresh = None
  <2>1. "idle" \in Awaited \cup {"idle", "done"} /\ "none" \in Code /\ "none" \in Audit
        /\ 0 \in Nat
    BY DEF Code, Audit
  <2>2. Handler("idle", "none", "none", 0).pc = "idle"
        /\ Empty(Handler("idle", "none", "none", 0))
    BY <2>1, HandlerFields
  <2> QED BY <2>2 DEF Init, InitIdle, Empty
<1>3. TypeOK
  BY <1>1, <1>2, TypeInit DEF TypeOK, Init
<1>4. SpanInv /\ DegradedInv
  BY <1>2 DEF SpanInv, DegradedInv, Active
<1>5. IssuedInv
  BY <1>1, <1>2 DEF IssuedInv, Empty, Refreshing
<1>6. SoundInv
  BY <1>1, <1>2 DEF SoundInv, RequestSound, LoginSound, Refreshing
<1>7. UsableInv
  BY <1>1, <1>2 DEF UsableInv, UnseenInv, StoredRefreshTokenUsable, Refreshing, Empty
<1>8. HandoutInv
  BY <1>2 DEF HandoutInv, Active
<1> QED BY <1>3, <1>4, <1>5, <1>6, <1>7, <1>8 DEF IndInv

LEMMA NextInv == IndInv /\ [Next]_vars => IndInv'
<1> SUFFICES ASSUME IndInv, [Next]_vars PROVE IndInv'
  OBVIOUS
<1>1. TypeOK' /\ SpanInv' /\ DegradedInv' /\ IssuedInv' /\ SoundInv'
  BY TypeStep, SpanStep, DegradedStep, IssuedStep, SoundStep DEF IndInv
<1>2. ASSUME OneRotation PROVE UsableInv'
  BY <1>2, UsableStep DEF IndInv, OneRotation
<1>3. HandoutInv'
  BY HandoutNext, SoundSourced DEF IndInv
<1> QED BY <1>1, <1>2, <1>3 DEF IndInv, OneRotation

\* Handlers keep within their time, failed refreshes end in an answer, only issued grants
\* are about, recorded expiries are never far off, and refresh tokens on their way into the
\* row are known to nobody else.
THEOREM TokenInvariant == Spec => []IndInv
<1> QED BY InitInv, NextInv, PTL DEF Spec

\* POST /api/github-token sends no access token that GitHub has let expire, unless the
\* refresh failed: the threshold covers the time of the handlers that recorded the expiry
\* and of the one that reads it.
THEOREM ServedTokensWork == Spec => ServedTokenUnexpired
<1>1. ASSUME IndInv, NEW r \in Requests, req[r].pc = "decrypt", r \notin degraded,
             grantExpiry[req[r].access] # None
      PROVE  now < grantExpiry[req[r].access]
  <2>1. /\ now \in Nat /\ req[r].began \in Nat /\ RequestSpan \in Nat
        /\ req[r].access \in Grants /\ grantExpiry[req[r].access] \in Time
    BY <1>1, TimeAssumption DEF IndInv, TypeOK, Request, Grant, SoundInv, RequestSound
  <2>2. req[r].began + RequestSpan < grantExpiry[req[r].access]
    BY <1>1 DEF IndInv, SoundInv, RequestSound
  <2>3. now <= req[r].began + RequestSpan
    BY <1>1 DEF IndInv, SpanInv, Active
  <2> QED BY <1>1, <2>1, <2>2, <2>3 DEF Time
<1>2. IndInv => [\A r \in Requests :
          /\ req[r].pc = "decrypt" /\ req'[r].verdict = "OK" /\ req'[r].pc = "done"
          /\ r \notin degraded
          /\ grantExpiry[req[r].access] # None
          => now < grantExpiry[req[r].access]]_vars
  BY <1>1
<1> QED BY <1>2, TokenInvariant, PTL DEF ServedTokenUnexpired

\* What is served after a failed refresh had not expired when its request began.
THEOREM FallbackIsRecent == Spec => DegradedTokenRecent
<1>1. ASSUME IndInv, NEW r \in Requests, req[r].pc = "decrypt", r \in degraded,
             req[r].expires # None
      PROVE  now <= req[r].expires + RequestSpan
  <2>1. /\ now \in Nat /\ req[r].began \in Nat /\ RequestSpan \in Nat /\ req[r].expires \in Nat
    BY <1>1, TimeAssumption DEF IndInv, TypeOK, Request, Time
  <2>2. req[r].began <= req[r].expires
    BY <1>1 DEF IndInv, DegradedInv
  <2>3. now <= req[r].began + RequestSpan
    BY <1>1 DEF IndInv, SpanInv, Active
  <2> QED BY <2>1, <2>2, <2>3
<1>2. IndInv => [\A r \in Requests :
          /\ req[r].pc = "decrypt" /\ req'[r].verdict = "OK" /\ req'[r].pc = "done"
          /\ r \in degraded /\ req[r].expires # None
          => now <= req[r].expires + RequestSpan]_vars
  BY <1>1
<1> QED BY <1>2, TokenInvariant, PTL DEF DegradedTokenRecent

\* Whether GitHub replaces refresh tokens or keeps them, no interleaving of refreshes,
\* logins, faults and deletions leaves a stored refresh token that is dead for good, other
\* than one spent by a refresh that failed after GitHub had done its part.
THEOREM StoredTokenRefreshes ==
    ASSUME Rotations # BOOLEAN
    PROVE  Spec => []StoredRefreshTokenUsable
<1>1. IndInv => StoredRefreshTokenUsable
  BY DEF IndInv, UsableInv
<1> QED BY <1>1, TokenInvariant, PTL
-----------------------------------------------------------------------------
(* The promise of the route                                                *)

\* A step of the promise that one request makes, or none.
Promised(q) == [Promise(q)!Next]_<<Promise(q)!user, Promise(q)!session>>

\* What the promise sees of a request, after a step that leaves it alone.
LEMMA SameSession ==
    ASSUME NEW q \in Requests, req'[q] = req[q]
    PROVE  UNCHANGED Promise(q)!session
BY DEF Promise!session, Stage, Offer, Reply, Active

\* A request in the middle of its work.
LEMMA Recording ==
    ASSUME NEW r \in Requests, HandoutSound(r), Active(r), req[r].pc \notin {"user", "audit"}
    PROVE  Promise(r)!Recorded /\ Offer(r) = req[r].access /\ req[r].access # None
           /\ Reply(r) = "none"
BY DEF Promise!Recorded, HandoutSound, Stage, Offer, Reply, Active

LEMMA Ending ==
    ASSUME NEW r \in Requests, Answered(r)
    PROVE  Promise(r)!End(IF req'[r].verdict = "OK" THEN "token" ELSE "refused")
BY DEF Promise!End, Answered, Stage, Offer, Reply, Active

\* A request that goes on offers what it has.
GoesOn(r) ==
    /\ req'[r].pc \in Awaited \ {"user", "audit"} /\ req'[r].verdict = req[r].verdict
    /\ req'[r].audit = req[r].audit

LEMMA Continuing ==
    ASSUME NEW r \in Requests, HandoutSound(r), Active(r), req[r].pc \notin {"user", "audit"},
           GoesOn(r)
    PROVE  UNCHANGED <<Stage(r), Reply(r), req[r].audit>> /\ Offer(r)' = req'[r].access
BY DEF GoesOn, HandoutSound, Stage, Offer, Reply, Active, Awaited

\* A refresh that fails without a write.
LEMMA FailedPromise ==
    ASSUME NEW r \in Requests, HandoutSound(r), Active(r), req[r].pc \notin {"user", "audit"},
           Failed(r), UNCHANGED row
    PROVE  Promised(r)
<1>1. CASE Answered(r) /\ Unserved(r)
  <2>1. Promise(r)!End("refused") /\ req'[r].audit = req[r].audit
    BY <1>1, Ending DEF Unserved
  <2>2. Promise(r)!Fail
    BY <2>1, Recording DEF Promise!Fail, Promise!user
  <2> QED BY <2>2 DEF Promised, Promise!Next
<1>2. CASE req'[r].pc = "decrypt" /\ Kept(r)
  <2>1. GoesOn(r) /\ req'[r].access = req[r].access
    BY <1>2 DEF GoesOn, Kept, Awaited
  <2>2. UNCHANGED Promise(r)!session
    BY <2>1, Continuing, Recording DEF Promise!session
  <2> QED BY <2>2 DEF Promised, Promise!user
<1> QED BY <1>1, <1>2 DEF Failed

\* A refresh that writes the row: the request learns of it, keeps its token or fails.
LEMMA StoredPromise ==
    ASSUME TypeOK, NEW r \in Requests, HandoutSound(r), RowHeld(r), r \notin stale,
           req[r].pc = "write", req[r].grant # None, row' = Refreshed(r),
           Failed(r) \/ (GoesOn(r) /\ req'[r].access = req[r].grant)
    PROVE  Promised(r)
<1>1. /\ Active(r) /\ req[r].pc \notin {"user", "audit"}
      /\ req[r].grant \in Grants
  BY DEF Active, TypeOK, Request, Grant
<1>2. /\ row'.access = req[r].grant /\ row'.account = row.account /\ row.account # "absent"
  BY <1>1, RefreshedFields DEF RowHeld, HandoutSound
<1>3. Promise(r)!Recorded
  BY <1>1, Recording
<1>4. CASE Answered(r) /\ Unserved(r)
  <2>1. Promise(r)!End("refused") /\ req'[r].audit = req[r].audit
    BY <1>4, Ending DEF Unserved
  <2>2. Promise(r)!Replace
    BY <1>1, <1>2, <1>3, <2>1 DEF Promise!Replace
  <2> QED BY <2>2 DEF Promised, Promise!Next
<1>5. CASE GoesOn(r) /\ req'[r].access \in {req[r].access, req[r].grant}
  <2>1. /\ UNCHANGED <<Stage(r), Reply(r), req[r].audit>>
        /\ Offer(r)' \in {Offer(r), row'.access}
    BY <1>1, <1>2, <1>5, Continuing, Recording
  <2>2. Promise(r)!Replace
    BY <1>1, <1>2, <1>3, <2>1 DEF Promise!Replace
  <2> QED BY <2>2 DEF Promised, Promise!Next
<1>6. CASE req'[r].pc = "decrypt" /\ Kept(r)
  BY <1>5, <1>6 DEF GoesOn, Kept, Awaited
<1> QED BY <1>4, <1>5, <1>6 DEF Failed

\* Every step of a request is one that the promise allows.
LEMMA ServePromise ==
    ASSUME TypeOK, Sourced, HandoutInv, NEW r \in Requests, Serve(r)
    PROVE  Promised(r)
<1>0. HandoutSound(r) /\ RowHeld(r)
  BY DEF HandoutInv, HandoutSound, RowHeld
<1>1. CASE ReadUser(r)
  <2>1. /\ req[r].pc = "user" /\ req'[r].pc = "audit" /\ req'[r].verdict = Verdict
        /\ req'[r].access = row.access /\ req'[r].audit = req[r].audit /\ row' = row
    BY <1>1, ReadUserStep DEF ReadUser
  <2>2. row.account \in {"absent", "pending", "whitelisted"}
    BY DEF TypeOK, User
  <2>3. /\ Verdict # "none"
        /\ Verdict = "OK" <=> row.account = "whitelisted" /\ row.access # None
    BY <2>2 DEF Verdict
  <2>4. /\ Stage(r) = "open" /\ Offer(r) = None /\ UNCHANGED <<Reply(r), req[r].audit>>
        /\ Stage(r)' = IF Verdict = "OK" THEN "granted" ELSE "denied"
        /\ Offer(r)' = IF Verdict = "OK" THEN row.access ELSE None
    BY <1>0, <2>1, <2>3 DEF HandoutSound, Stage, Offer, Reply, Active
  <2>5. Promise(r)!Grant \/ Promise(r)!Deny
    BY <2>1, <2>3, <2>4 DEF Promise!Grant, Promise!Deny, Promise!user
  <2> QED BY <2>5 DEF Promised, Promise!Next
<1>2. CASE AuditAccess(r)
  <2>1. row' = row /\ req[r].pc = "audit" /\ req[r].audit = "none" /\ Active(r)
    BY <1>0, <1>2 DEF AuditAccess, HandoutSound, Active
  <2>2. CASE req[r].verdict = "OK"
    <3>1. /\ req'[r].pc \in {"tx", "decrypt"} /\ req'[r].verdict = "OK"
          /\ req'[r].audit \in {"success", "lost"} /\ req'[r].access = req[r].access
      BY <1>2, <2>2, AuditStep
    <3>2. /\ Stage(r) = "granted" /\ UNCHANGED <<Stage(r), Offer(r), Reply(r)>>
      BY <2>1, <2>2, <3>1 DEF Stage, Offer, Reply, Active
    <3>3. Promise(r)!RecordGrant
      BY <2>1, <3>1, <3>2 DEF Promise!RecordGrant, Promise!user
    <3> QED BY <3>3 DEF Promised, Promise!Next
  <2>3. CASE req[r].verdict # "OK"
    <3>1. /\ Answered(r) /\ req'[r].verdict # "OK" /\ req'[r].audit \in {"failure", "lost"}
      BY <1>2, <2>3, AuditStep
    <3>2. Stage(r) = "denied"
      BY <1>0, <2>1, <2>3 DEF Stage, HandoutSound
    <3>3. Promise(r)!End("refused")
      BY <3>1, Ending
    <3>4. Promise(r)!RecordDenial
      BY <2>1, <3>1, <3>2, <3>3 DEF Promise!RecordDenial, Promise!user
    <3> QED BY <3>4 DEF Promised, Promise!Next
  <2> QED BY <2>2, <2>3
<1>3. CASE ReadInTransaction(r)
  <2>1. row' = row /\ req[r].pc = "tx" /\ Active(r)
    BY <1>3 DEF ReadInTransaction, Active
  <2>2. CASE Failed(r)
    BY <1>0, <2>1, <2>2, FailedPromise
  <2>3. CASE ~Failed(r)
    <3>1. GoesOn(r) /\ row.refresh # None /\ req'[r].access \in {req[r].access, row.access}
      BY <1>3, <2>3, TransactionStep DEF GoesOn, Awaited
    <3>2. row.access # None
      BY <3>1 DEF Sourced
    <3>3. /\ UNCHANGED <<Stage(r), Reply(r), req[r].audit>> /\ Promise(r)!Recorded
          /\ Offer(r)' \in {Offer(r), row.access}
      BY <1>0, <2>1, <3>1, Continuing, Recording
    <3>4. CASE Offer(r)' = Offer(r)
      BY <2>1, <3>3, <3>4 DEF Promised, Promise!user, Promise!session
    <3>5. CASE Offer(r)' = row.access
      <4>1. Promise(r)!Retake
        BY <2>1, <3>2, <3>3, <3>5 DEF Promise!Retake, Promise!user
      <4> QED BY <4>1 DEF Promised, Promise!Next
    <3> QED BY <3>3, <3>4, <3>5
  <2> QED BY <2>2, <2>3
<1>4. CASE RefreshAtGithub(r)
  <2>1. row' = row /\ req[r].pc = "github" /\ Active(r)
    BY <1>4 DEF RefreshAtGithub, Active
  <2>2. CASE Failed(r)
    BY <1>0, <2>1, <2>2, FailedPromise
  <2>3. CASE ~Failed(r)
    <3>1. GoesOn(r) /\ req'[r].access = req[r].access
      BY <1>4, <2>3, RefreshStep DEF GoesOn, Awaited
    <3>2. UNCHANGED Promise(r)!session
      BY <1>0, <2>1, <3>1, Continuing, Recording DEF Promise!session
    <3> QED BY <2>1, <3>2 DEF Promised, Promise!user
  <2> QED BY <2>2, <2>3
<1>5. CASE ReceiveTokens(r)
  <2>1. row' = row /\ req[r].pc = "response" /\ Active(r)
    BY <1>5 DEF ReceiveTokens, Active
  <2>2. GoesOn(r) /\ req'[r].access = req[r].access
    BY <1>5, ReceiveStep DEF GoesOn, Awaited
  <2>3. UNCHANGED Promise(r)!session
    BY <1>0, <2>1, <2>2, Continuing, Recording DEF Promise!session
  <2> QED BY <2>1, <2>3 DEF Promised, Promise!user
<1>6. CASE CommitRefresh(r)
  <2>1. req[r].pc = "write" /\ Active(r) /\ req[r].grant # None
    BY <1>6 DEF CommitRefresh, Active, Sourced, Refreshing
  <2>2. CASE r \in stale
    <3>1. Failed(r) /\ row' = row
      BY <1>6, <2>2, RefreshFailedStep DEF CommitRefresh, Failed
    <3> QED BY <1>0, <2>1, <3>1, FailedPromise
  <2>3. CASE r \notin stale
    <3>1. row' = Refreshed(r) /\ degraded' = degraded
      BY <1>6, <2>3 DEF CommitRefresh
    <3>2. Failed(r) \/ (GoesOn(r) /\ req'[r].access = req[r].grant)
      BY <1>6, CommitStep DEF GoesOn, Awaited
    <3> QED BY <1>0, <2>1, <2>3, <3>1, <3>2, StoredPromise
  <2> QED BY <2>2, <2>3
<1>7. CASE CommitUnconfirmed(r)
  <2>1. /\ req[r].pc = "write" /\ req[r].grant # None /\ r \notin stale /\ row' = Refreshed(r)
    BY <1>7 DEF CommitUnconfirmed, Sourced, Refreshing
  <2>2. Failed(r)
    BY <1>7, FaultStep
  <2> QED BY <1>0, <2>1, <2>2, StoredPromise
<1>8. CASE SendToken(r) \/ HandlerFault(r)
  <2>1. /\ row' = row /\ Answered(r) /\ req'[r].audit = req[r].audit
        /\ req[r].pc \in {"user", "decrypt"} /\ Active(r)
        /\ req'[r].verdict = "OK" => req[r].pc = "decrypt"
    BY <1>8, SendStep DEF SendToken, HandlerFault, Active
  <2>2. CASE req'[r].verdict = "OK"
    <3>1. Promise(r)!End("token")
      BY <2>1, <2>2, Ending
    <3>2. Promise(r)!Recorded /\ Offer(r) # None
      BY <1>0, <2>1, <2>2, Recording
    <3>3. Promise(r)!HandOut
      BY <2>1, <3>1, <3>2 DEF Promise!HandOut, Promise!user
    <3> QED BY <3>3 DEF Promised, Promise!Next
  <2>3. CASE req'[r].verdict # "OK"
    <3>1. Promise(r)!End("refused")
      BY <2>1, <2>3, Ending
    <3>2. CASE req[r].pc = "user"
      <4>1. Stage(r) = "open"
        BY <1>0, <2>1, <3>2 DEF Stage, HandoutSound
      <4>2. Promise(r)!Fail
        BY <2>1, <3>1, <4>1 DEF Promise!Fail, Promise!user
      <4> QED BY <4>2 DEF Promised, Promise!Next
    <3>3. CASE req[r].pc = "decrypt"
      <4>1. Promise(r)!Recorded
        BY <1>0, <2>1, <3>3, Recording
      <4>2. Promise(r)!Fail
        BY <2>1, <3>1, <4>1 DEF Promise!Fail, Promise!user
      <4> QED BY <4>2 DEF Promised, Promise!Next
    <3> QED BY <2>1, <3>2, <3>3
  <2> QED BY <2>2, <2>3
<1>9. CASE TransactionFault(r)
  <2>1. Failed(r) /\ row' = row /\ Active(r) /\ req[r].pc \notin {"user", "audit"}
    BY <1>9, FaultStep DEF TransactionFault, Active
  <2> QED BY <1>0, <2>1, FailedPromise
<1> QED BY <1>1, <1>2, <1>3, <1>4, <1>5, <1>6, <1>7, <1>8, <1>9 DEF Serve

\* What another handler stores, a request sees as stored by others.
LEMMA OthersStore ==
    ASSUME NEW q \in Requests, req'[q] = req[q], row'.access \in Grants,
           row'.account = IF row.account = "absent" THEN "pending" ELSE row.account
    PROVE  Promised(q)
<1>1. UNCHANGED Promise(q)!session
  BY SameSession
<1>2. Promise(q)!StoredByOthers
  BY <1>1 DEF Promise!StoredByOthers
<1> QED BY <1>2 DEF Promised, Promise!Next

LEMMA PromiseStep ==
    ASSUME TypeOK, Sourced, HandoutInv, [Next]_vars, NEW q \in Requests
    PROVE  Promised(q)
<1>1. CASE req'[q] = req[q] /\ row' = row
  <2>1. UNCHANGED Promise(q)!session
    BY <1>1, SameSession
  <2> QED BY <1>1, <2>1 DEF Promised, Promise!user
<1>2. ASSUME NEW r \in Requests, Arrive(r) PROVE Promised(q)
  <2>1. /\ row' = row /\ OnlyRequest(r) /\ req'[r].pc = "user" /\ ~Active(r)
        /\ req'[r].verdict = "none" /\ req'[r].audit = "none"
    BY <1>2, ArriveStep DEF Arrive
  <2>2. CASE q = r
    <3>1. /\ Stage(q) = "idle" /\ Stage(q)' = "open" /\ UNCHANGED Offer(q)
          /\ Reply(q)' = "none"
      BY <2>1, <2>2 DEF Stage, Offer, Reply, Active
    <3>2. Promise(q)!Begin
      BY <2>1, <2>2, <3>1 DEF Promise!Begin, Promise!user
    <3> QED BY <3>2 DEF Promised, Promise!Next
  <2>3. CASE q # r
    BY <1>1, <2>1, <2>3 DEF OnlyRequest
  <2> QED BY <2>2, <2>3
<1>3. ASSUME NEW r \in Requests, Serve(r) PROVE Promised(q)
  <2>1. CASE q = r
    BY <1>3, <2>1, ServePromise
  <2>2. CASE q # r
    <3>1. req'[q] = req[q]
      BY <1>3, <2>2, ServeStep DEF OnlyRequest
    <3>2. CASE row' = Refreshed(r) /\ req[r].pc = "write" /\ r \notin stale
      <4>1. row'.access = req[r].grant /\ row'.account = row.account
        BY <3>2, RefreshedFields
      <4>2. req[r].grant \in Grants
        BY <3>2 DEF TypeOK, Request, Grant, Sourced, Refreshing
      <4>3. row.account # "absent"
        BY <3>2 DEF HandoutInv, Active
      <4> QED BY <3>1, <4>1, <4>2, <4>3, OthersStore
    <3> QED BY <1>1, <1>3, <3>1, <3>2, RowMoves
  <2> QED BY <2>1, <2>2
<1>4. ASSUME NEW l \in Logins, LogIn(l) PROVE Promised(q)
  <2>1. req' = req
    BY <1>4, LogInStep
  <2>2. CASE row' # row
    <3>1. /\ row'.account = IF row.account = "absent" THEN "pending" ELSE row.account
          /\ row'.access = login[l].grant /\ login[l].pc = "upsert"
      BY <1>4, <2>2, LogInAccount
    <3>2. login[l].grant \in Grants
      BY <3>1 DEF TypeOK, Login, Grant, Sourced
    <3> QED BY <2>1, <3>1, <3>2, OthersStore
  <2> QED BY <1>1, <2>1, <2>2
<1>5. ASSUME NEW account \in AdminSettings, AdminSetsAccount(account) PROVE Promised(q)
  <2>1. UNCHANGED Promise(q)!session
    BY <1>5, SameSession DEF AdminSetsAccount
  <2>2. Promise(q)!Administer
    BY <1>5, <2>1, AccountFields, SwitchAssumption DEF Promise!Administer
  <2> QED BY <2>2 DEF Promised, Promise!Next
<1>6. CASE UNCHANGED <<req, row>>
  BY <1>1, <1>6
<1> QED BY <1>2, <1>3, <1>4, <1>5, <1>6 DEF Next, Tick, vars

LEMMA PromiseInit == InitIdle /\ row \in User => PromiseBegins
<1> SUFFICES ASSUME InitIdle, row \in User, NEW q \in Requests PROVE Promise(q)!Init
  BY DEF PromiseBegins
<1>1. row.account \in {"absent", "pending", "whitelisted"} /\ row.access \in Grants \cup {None}
  BY DEF User, Grant
<1>2. req[q].pc = "idle" /\ req[q].audit = "none"
  <2>1. "idle" \in Awaited \cup {"idle", "done"} /\ "none" \in Code /\ "none" \in Audit
        /\ 0 \in Nat
    BY DEF Code, Audit
  <2> QED BY <2>1, HandlerFields DEF InitIdle
<1> QED BY <1>1, <1>2 DEF Promise!Init, Stage, Offer, Reply, Active

\* POST /api/github-token hands out tokens as TokenHandout allows, for any number of
\* requests and logins: only to a request that has seen its user whitelisted and has tried
\* to record this, and only a token stored for the user while the request ran.
THEOREM TokensHandedOut == Spec => ImplementsTokenHandout
<1>1. Init => PromiseBegins
  BY PromiseInit, InitInv DEF Init, IndInv, TypeOK
<1>2. IndInv /\ [Next]_vars => PromiseKept
  BY PromiseStep, SoundSourced DEF IndInv, PromiseKept, Promised
<1> QED BY <1>1, <1>2, TokenInvariant, PTL DEF Spec, ImplementsTokenHandout

-----------------------------------------------------------------------------
(* Progress                                                                *)

LEMMA RequestAdvances ==
    ASSUME TypeOK, [Next]_vars, NEW r \in Requests, Active(r), req'[r] # req[r]
    PROVE  /\ req'[r].pc \in DOMAIN StepsLeft
           /\ StepsLeft[req'[r].pc] < StepsLeft[req[r].pc]
<1>1. Serve(r)
  BY RequestMoves DEF Arrive
<1>2. CASE req'[r].pc = "done"
  <2>1. req[r].pc \in {"user", "audit", "tx", "github", "response", "write", "decrypt"}
    BY DEF Active, TypeOK, Request, Awaited
  <2> QED BY <1>2, <2>1 DEF StepsLeft
<1> QED BY <1>1, <1>2, ServeMoves DEF StepsLeft

\* A request awaits at most seven calls, and no other request, login, deletion or failing
\* refresh makes it repeat one.
THEOREM RequestsGoForward == Spec => RequestsAdvance
<1> DEFINE Advances(r) ==
      Active(r) /\ req'[r] # req[r]
      => /\ req'[r].pc \in DOMAIN StepsLeft
         /\ StepsLeft[req'[r].pc] < StepsLeft[req[r].pc]
<1>1. IndInv /\ [Next]_vars => [\A r \in Requests : Advances(r)]_vars
  BY RequestAdvances DEF IndInv
<1> QED BY <1>1, TokenInvariant, PTL DEF Spec, RequestsAdvance
=============================================================================
