------------------------- MODULE TokenServiceProofs -------------------------
(***************************************************************************)
(* Proofs about TokenService, for every value of its constants.            *)
(***************************************************************************)
EXTENDS TokenService, FiniteSetTheorems, TLAPS

-----------------------------------------------------------------------------
(* How the steps change the table of requests                              *)

\* Writing one slot leaves the other slots as they were.
LEMMA SlotUpdate ==
    ASSUME TypeInv, NEW r \in Requests, NEW x \in Request, req' = [req EXCEPT ![r] = x]
    PROVE  /\ req' \in [Requests -> Request]
           /\ req'[r] = x
           /\ \A q \in Requests \ {r} : req'[q] = req[q] /\ WellFormed(q)'
BY DEF TypeInv, TypeOK, WellFormed

\* Answering a request.
LEMMA AnswerSlot ==
    ASSUME TypeInv, NEW r \in Requests, NEW code \in Reply, Answer(r, code)
    PROVE  /\ req' \in [Requests -> Request]
           /\ req'[r] = Ended(req[r].op, code)
           /\ \A q \in Requests \ {r} : req'[q] = req[q]
           /\ \A q \in Requests : WellFormed(q)'
<1> DEFINE x == Ended(req[r].op, code)
<1>1. x \in Request
  BY DEF Ended, Request, TypeInv, TypeOK, PC, Op
<1>2. req' = [req EXCEPT ![r] = x]
  BY DEF Answer
<1>3. req[r].op \in Operations \cup {"none"}
  BY DEF TypeInv, WellFormed
<1>4. WellFormed(r)'
  BY <1>1, <1>2, <1>3, SlotUpdate DEF WellFormed, Ended
<1> QED BY <1>1, <1>2, <1>4, SlotUpdate

\* Moving a request on to its next database call.
LEMMA GotoSlot ==
    ASSUME TypeInv, NEW r \in Requests, NEW pc \in PC, Goto(r, pc)
    PROVE  /\ req' \in [Requests -> Request]
           /\ req'[r].pc = pc
           /\ req'[r].op = req[r].op /\ req'[r].reply = req[r].reply
           /\ req'[r].jti = req[r].jti /\ req'[r].sub = req[r].sub
           /\ req'[r].exp = req[r].exp /\ req'[r].began = req[r].began
           /\ \A q \in Requests \ {r} : req'[q] = req[q] /\ WellFormed(q)'
<1> DEFINE x == [req[r] EXCEPT !.pc = pc]
<1>1. x \in Request
  BY DEF Request, TypeInv, TypeOK
<1>2. req' = [req EXCEPT ![r] = x]
  BY DEF Goto, TypeInv, TypeOK
<1>3. req'[r] = x /\ req[r] \in Request
  BY <1>1, <1>2, SlotUpdate DEF TypeInv, TypeOK
<1> QED BY <1>1, <1>2, <1>3, SlotUpdate DEF Request

LEMMA AnswerFields ==
    ASSUME TypeInv, NEW r \in Requests, NEW code \in Reply, Answer(r, code)
    PROVE  req'[r].pc = "done" /\ req'[r].reply = code
<1>1. req'[r] = Ended(req[r].op, code)
  BY AnswerSlot
<1> QED BY <1>1 DEF Ended

\* A request that arrives.
LEMMA BeginSlot ==
    ASSUME TypeInv, NEW r \in Requests, NEW op \in Op, NEW pc \in PC,
           NEW j \in Tokens \cup {None}, NEW u \in Users \cup {None}, NEW exp \in Nat,
           Begin(r, op, pc, j, u, exp)
    PROVE  /\ op \in Operations
           /\ req' \in [Requests -> Request]
           /\ req'[r] = [op |-> op, pc |-> pc, jti |-> j, sub |-> u,
                         exp |-> exp, began |-> now, reply |-> "none"]
           /\ \A q \in Requests \ {r} : req'[q] = req[q] /\ WellFormed(q)'
<1> DEFINE x == [op |-> op, pc |-> pc, jti |-> j, sub |-> u,
                 exp |-> exp, began |-> now, reply |-> "none"]
<1>1. x \in Request
  BY DEF Request, TypeInv, TypeOK, Reply
<1>2. req' = [req EXCEPT ![r] = x]
  BY DEF Begin
<1>3. op \in Operations
  BY DEF Begin
<1> QED BY <1>1, <1>2, <1>3, SlotUpdate

\* A request that is refused at once.
LEMMA RefuseSlot ==
    ASSUME TypeInv, NEW r \in Requests, NEW op \in Op, NEW code \in Reply,
           Refuse(r, op, code)
    PROVE  /\ req' \in [Requests -> Request]
           /\ req'[r] = Ended(op, code)
           /\ \A q \in Requests \ {r} : req'[q] = req[q]
           /\ \A q \in Requests : WellFormed(q)'
<1>1. Ended(op, code) \in Request
  BY DEF Ended, Request, TypeInv, TypeOK, PC, Op
<1>2. req' = [req EXCEPT ![r] = Ended(op, code)]
  BY DEF Refuse
<1>3. op \in Operations
  BY DEF Refuse
<1>4. WellFormed(r)'
  BY <1>1, <1>2, <1>3, SlotUpdate DEF WellFormed, Ended
<1> QED BY <1>1, <1>2, <1>4, SlotUpdate

-----------------------------------------------------------------------------
(* Type correctness                                                        *)

LEMMA InitType == Init => TypeInv
BY TimeAssumption DEF Init, TypeInv, TypeOK, WellFormed, Request, PC, Op, Reply

LEMMA ArriveType ==
    ASSUME TypeInv, NEW r \in Requests, Arrive(r)
    PROVE  TypeInv'
<1>1. CASE PresentToken(r)
  <2> PICK op \in BearerOps, t \in jwts :
        IF Verifies(t)
        THEN Begin(r, op, IF op = "revoke" THEN "lookup" ELSE "revocation",
                   t.jti, t.sub, t.exp)
        ELSE Refuse(r, op, IF op = "revoke" THEN "REVOCATION_FAILED" ELSE "EXPIRED_TOKEN")
    BY <1>1 DEF PresentToken
  <2> t.jti \in Tokens /\ t.sub \in Users /\ t.exp \in Nat
    BY DEF TypeInv, TypeOK, JWT
  <2>1. CASE Verifies(t)
    <3> DEFINE pc == IF op = "revoke" THEN "lookup" ELSE "revocation"
    <3>1. Begin(r, op, pc, t.jti, t.sub, t.exp)
      BY <2>1
    <3>2. pc \in PC /\ op \in Op
      BY DEF PC, Awaited, Op
    <3> HIDE DEF pc
    <3>3. /\ op \in Operations
          /\ req'[r] = [op |-> op, pc |-> pc, jti |-> t.jti, sub |-> t.sub,
                        exp |-> t.exp, began |-> now, reply |-> "none"]
      BY <3>1, <3>2, BeginSlot
    <3>4. WellFormed(r)'
      BY <3>3 DEF WellFormed, pc, BearerOps
    <3> QED BY <3>1, <3>2, <3>4, BeginSlot DEF TypeInv, TypeOK, Begin
  <2>2. CASE ~Verifies(t)
    <3> DEFINE code == IF op = "revoke" THEN "REVOCATION_FAILED" ELSE "EXPIRED_TOKEN"
    <3>1. Refuse(r, op, code) /\ code \in Reply /\ op \in Op
      BY <2>2 DEF Reply, Op
    <3> HIDE DEF code
    <3> QED BY <3>1, RefuseSlot DEF TypeInv, TypeOK, Refuse
  <2> QED BY <2>1, <2>2
<1>2. CASE PresentMalformedToken(r)
  <2> PICK op \in BearerOps :
        Refuse(r, op, IF op = "revoke" THEN "REVOCATION_FAILED" ELSE "INVALID_TOKEN")
    BY <1>2 DEF PresentMalformedToken
  <2> DEFINE code == IF op = "revoke" THEN "REVOCATION_FAILED" ELSE "INVALID_TOKEN"
  <2>1. Refuse(r, op, code) /\ code \in Reply /\ op \in Op
    BY DEF Reply, Op
  <2> HIDE DEF code
  <2> QED BY <2>1, RefuseSlot DEF TypeInv, TypeOK, Refuse
<1>3. ASSUME NEW u \in Users, NEW op \in Op, NEW pc \in PC,
             \/ op = "issue" /\ pc = "existence"
             \/ op = "callback" /\ pc = "upsert"
             \/ op = "delist" /\ pc = "delist",
             Begin(r, op, pc, None, u, 0)
      PROVE  TypeInv'
  <2>1. /\ op \in Operations
        /\ req'[r] = [op |-> op, pc |-> pc, jti |-> None, sub |-> u,
                      exp |-> 0, began |-> now, reply |-> "none"]
    BY <1>3, BeginSlot
  <2>2. WellFormed(r)'
    BY <1>3, <2>1 DEF WellFormed, MintingOps
  <2> QED BY <1>3, <2>2, BeginSlot DEF TypeInv, TypeOK, Begin
<1>4. CASE RequestStatus(r)
  <2> PICK j \in Tokens : Begin(r, "status", "status", j, None, 0)
    BY <1>4 DEF RequestStatus
  <2> "status" \in Op /\ "status" \in PC
    BY DEF Op, PC, Awaited
  <2>1. /\ "status" \in Operations
        /\ req'[r] = [op |-> "status", pc |-> "status", jti |-> j, sub |-> None,
                      exp |-> 0, began |-> now, reply |-> "none"]
    BY BeginSlot
  <2>2. WellFormed(r)'
    BY <2>1 DEF WellFormed
  <2> QED BY <2>2, BeginSlot DEF TypeInv, TypeOK, Begin
<1> QED
  BY <1>1, <1>2, <1>3, <1>4
  DEF Arrive, RequestToken, OAuthCallback, RevokeAllUserTokens, Op, PC, Awaited

\* Moving on to pc keeps a request well formed when its fields fit pc.
LEMMA GotoWellFormed ==
    ASSUME TypeInv, NEW r \in Requests, NEW pc \in PC, Goto(r, pc),
           req[r].pc \in Awaited,
           \/ pc = "whitelist" /\ req[r].op \in {"protect", "refresh"}
           \/ pc = "accept" /\ req[r].op \in {"protect", "protectNoList"}
           \/ pc \in {"existence", "sign"} /\ req[r].op \in MintingOps
           \/ pc = "create" /\ req[r].op = "revoke",
           pc \in {"whitelist", "existence", "sign"} => req[r].sub \in Users,
           pc = "create" => req[r].jti \in Tokens
    PROVE  req' \in [Requests -> Request] /\ \A q \in Requests : WellFormed(q)'
<1>1. /\ req[r].reply = "none"
      /\ req[r].op \in {"issue", "callback", "delist"} => req[r].jti = None
      /\ req[r].op \in Operations \cup {"none"}
  BY DEF TypeInv, WellFormed, Awaited
<1>2. WellFormed(r)'
  BY <1>1, GotoSlot DEF WellFormed
<1> QED BY <1>2, GotoSlot

LEMMA ServeType ==
    ASSUME TypeInv, NEW r \in Requests, Serve(r)
    PROVE  TypeInv'
<1> USE DEF PC, Awaited, Reply
<1>0. req[r] \in Request /\ WellFormed(r)
  BY DEF TypeInv, TypeOK
<1>1. CASE CheckRevocation(r)
  <2>1. CASE IsRevoked(req[r].jti)
    BY <1>1, <2>1, AnswerSlot DEF CheckRevocation, TypeInv, TypeOK
  <2>2. CASE ~IsRevoked(req[r].jti)
    BY <1>0, <1>1, <2>2, GotoWellFormed
    DEF CheckRevocation, AfterRevocation, WellFormed, Request, TypeInv, TypeOK
  <2> QED BY <2>1, <2>2
<1>2. CASE CheckWhitelist(r)
  <2>1. \/ \E code \in {"USER_NOT_FOUND", "WHITELIST_REVOKED"} : Answer(r, code)
        \/ Goto(r, IF req[r].op = "refresh" THEN "existence" ELSE "accept")
    BY <1>2 DEF CheckWhitelist
  <2>2. CASE \E code \in {"USER_NOT_FOUND", "WHITELIST_REVOKED"} : Answer(r, code)
    BY <1>2, <2>2, AnswerSlot DEF CheckWhitelist, TypeInv, TypeOK
  <2>3. CASE Goto(r, IF req[r].op = "refresh" THEN "existence" ELSE "accept")
    BY <1>0, <1>2, <2>3, GotoWellFormed
    DEF CheckWhitelist, WellFormed, MintingOps, TypeInv, TypeOK
  <2> QED BY <2>1, <2>2, <2>3
<1>3. CASE Accept(r)
  BY <1>3, AnswerSlot DEF Accept, TypeInv, TypeOK
<1>4. CASE UpsertUser(r)
  <2>1. users' \in [Users -> Account]
    BY <1>0, <1>4 DEF UpsertUser, TypeInv, TypeOK, Account, WellFormed
  <2>2. CASE Goto(r, "existence")
    BY <1>0, <1>4, <2>1, <2>2, GotoWellFormed
    DEF UpsertUser, WellFormed, MintingOps, TypeInv, TypeOK
  <2>3. CASE Answer(r, "WHITELIST_REVOKED")
    BY <1>4, <2>1, <2>3, AnswerSlot DEF UpsertUser, TypeInv, TypeOK
  <2> QED BY <1>4, <2>2, <2>3 DEF UpsertUser
<1>5. CASE ReadUser(r)
  <2>1. CASE Goto(r, "sign")
    BY <1>0, <1>5, <2>1, GotoWellFormed DEF ReadUser, WellFormed, TypeInv, TypeOK
  <2>2. CASE \E code \in {"USER_NOT_FOUND", "NO_TOKEN", "INTERNAL_ERROR"} : Answer(r, code)
    BY <1>5, <2>2, AnswerSlot DEF ReadUser, TypeInv, TypeOK
  <2> QED BY <1>5, <2>1, <2>2 DEF ReadUser
<1>6. CASE Sign(r)
  <2>1. jwts' \subseteq JWT
    BY <1>0, <1>6, TimeAssumption DEF Sign, WellFormed, TypeInv, TypeOK, JWT, Fresh
  <2> QED BY <1>6, <2>1, AnswerSlot DEF Sign, TypeInv, TypeOK
<1>7. CASE LookupRevocation(r)
  <2>1. CASE Answer(r, "REVOKED") /\ acked' = acked \cup {req[r].jti}
    BY <1>0, <1>7, <2>1, AnswerSlot DEF LookupRevocation, WellFormed, TypeInv, TypeOK
  <2>2. CASE Goto(r, "create") /\ UNCHANGED acked
    BY <1>0, <1>7, <2>2, GotoWellFormed DEF LookupRevocation, WellFormed, TypeInv, TypeOK
  <2> QED BY <1>7, <2>1, <2>2 DEF LookupRevocation
<1>8. ASSUME req[r].pc = "create"
      PROVE  NewRow(r) \in RevokedToken /\ req[r].jti \in Tokens
  BY <1>0, <1>8 DEF NewRow, RevokedToken, WellFormed, Request
<1>9. CASE CreateRevocation(r)
  <2>1. revokedTokens' \subseteq RevokedToken /\ acked' \subseteq Tokens
    BY <1>8, <1>9 DEF CreateRevocation, TypeInv, TypeOK
  <2> QED BY <1>9, <2>1, AnswerSlot DEF CreateRevocation, TypeInv, TypeOK
<1>10. CASE CreateRevocationUnconfirmed(r)
  <2>1. revokedTokens' \subseteq RevokedToken
    BY <1>8, <1>10 DEF CreateRevocationUnconfirmed, TypeInv, TypeOK
  <2> QED BY <1>10, <2>1, AnswerSlot DEF CreateRevocationUnconfirmed, TypeInv, TypeOK
<1>11. CASE Delist(r)
  <2>1. users' \in [Users -> Account]
    BY <1>11 DEF Delist, TypeInv, TypeOK, Account
  <2> QED BY <1>11, <2>1, AnswerSlot DEF Delist, TypeInv, TypeOK
<1>12. CASE ReadStatus(r)
  BY <1>12, AnswerSlot DEF ReadStatus, TypeInv, TypeOK
<1>13. CASE DatabaseFault(r)
  <2>1. FaultReply(req[r].op, req[r].pc) \in Reply
    BY DEF FaultReply
  <2> QED BY <1>13, <2>1, AnswerSlot DEF DatabaseFault, TypeInv, TypeOK
<1> QED
  BY <1>1, <1>2, <1>3, <1>4, <1>5, <1>6, <1>7, <1>9, <1>10, <1>11, <1>12, <1>13 DEF Serve

LEMMA NextType == TypeInv /\ [Next]_vars => TypeInv'
<1> SUFFICES ASSUME TypeInv, [Next]_vars PROVE TypeInv'
  OBVIOUS
<1>1. CASE \E r \in Requests : Arrive(r) \/ Serve(r)
  BY <1>1, ArriveType, ServeType
<1>2. CASE \E u \in Users, status \in Account : AdminSetsAccount(u, status)
  BY <1>2 DEF AdminSetsAccount, TypeInv, TypeOK, WellFormed
<1>3. CASE Cleanup
  BY <1>3 DEF Cleanup, TypeInv, TypeOK, WellFormed
<1>4. CASE Tick
  BY <1>4 DEF Tick, TypeInv, TypeOK, WellFormed
<1>5. CASE UNCHANGED vars
  BY <1>5 DEF vars, TypeInv, TypeOK, WellFormed
<1> QED BY <1>1, <1>2, <1>3, <1>4, <1>5 DEF Next

\* Every state of the service is well typed, and every request in flight holds the fields
\* its handler needs at the database call it awaits.
THEOREM TypeCorrect == Spec => [](TypeOK /\ \A r \in Requests : WellFormed(r))
<1>1. TypeInv <=> TypeOK /\ \A r \in Requests : WellFormed(r)
  BY DEF TypeInv
<1> QED BY <1>1, InitType, NextType, PTL DEF Spec

-----------------------------------------------------------------------------
(* The way of a request                                                    *)

\* A step of a handler answers, or goes on to a call that is nearer to the answer.
LEMMA ServeMoves ==
    ASSUME TypeInv, NEW r \in Requests, Serve(r)
    PROVE  /\ Active(r)
           /\ \/ \E code \in Reply : Answer(r, code)
              \/ \E pc \in PC : /\ Goto(r, pc)
                                /\ pc \in DOMAIN StepsLeft
                                /\ StepsLeft[pc] < StepsLeft[req[r].pc]
<1> USE DEF PC, Awaited, Reply, StepsLeft
<1>1. CASE CheckRevocation(r)
  BY <1>1 DEF CheckRevocation, AfterRevocation, Active
<1>2. CASE CheckWhitelist(r)
  <2>1. \/ \E code \in {"USER_NOT_FOUND", "WHITELIST_REVOKED"} : Answer(r, code)
        \/ \E pc \in {"existence", "accept"} : Goto(r, pc)
    BY <1>2 DEF CheckWhitelist
  <2> QED BY <1>2, <2>1 DEF CheckWhitelist, Active
<1>3. CASE Accept(r) \/ Sign(r) \/ ReadStatus(r) \/ Delist(r)
  BY <1>3 DEF Accept, Sign, ReadStatus, Delist, Active
<1>4. CASE UpsertUser(r)
  BY <1>4 DEF UpsertUser, Active
<1>5. CASE ReadUser(r)
  <2>1. \/ Goto(r, "sign")
        \/ \E code \in {"USER_NOT_FOUND", "NO_TOKEN", "INTERNAL_ERROR"} : Answer(r, code)
    BY <1>5 DEF ReadUser
  <2> QED BY <1>5, <2>1 DEF ReadUser, Active
<1>6. CASE LookupRevocation(r)
  BY <1>6 DEF LookupRevocation, Active
<1>7. CASE CreateRevocation(r) \/ CreateRevocationUnconfirmed(r)
  BY <1>7 DEF CreateRevocation, CreateRevocationUnconfirmed, Active
<1>8. CASE DatabaseFault(r)
  <2>1. FaultReply(req[r].op, req[r].pc) \in Reply
    BY DEF FaultReply
  <2> QED BY <1>8, <2>1 DEF DatabaseFault, Active
<1> QED BY <1>1, <1>2, <1>3, <1>4, <1>5, <1>6, <1>7, <1>8 DEF Serve

\* Only an idle slot takes a request; a request moves only by its own steps.
LEMMA OneSlot ==
    ASSUME TypeInv, [Next]_vars, NEW r \in Requests, Active(r)
    PROVE  Serve(r) \/ req'[r] = req[r]
<1>1. ASSUME NEW q \in Requests \ {r}, Arrive(q)
      PROVE  req'[r] = req[r]
  BY <1>1 DEF Arrive, PresentToken, PresentMalformedToken, RequestToken, OAuthCallback,
     RevokeAllUserTokens, RequestStatus, Begin, Refuse, TypeInv, TypeOK
<1>2. ASSUME NEW q \in Requests \ {r}, Serve(q)
      PROVE  req'[r] = req[r]
  BY <1>2, ServeMoves, AnswerSlot, GotoSlot
<1>3. ~Arrive(r)
  BY DEF Arrive, PresentToken, PresentMalformedToken, RequestToken, OAuthCallback,
     RevokeAllUserTokens, RequestStatus, Begin, Refuse
<1>4. \/ \E q \in Requests : Arrive(q) \/ Serve(q)
      \/ req' = req
  BY DEF Next, AdminSetsAccount, Cleanup, Tick, vars
<1> QED BY <1>1, <1>2, <1>3, <1>4

\* Every step of a request brings its answer nearer.
THEOREM RequestsGoForward == Spec => RequestsAdvance
<1> DEFINE Advances(r) ==
      Active(r) /\ req'[r] # req[r]
      => /\ req'[r].pc \in DOMAIN StepsLeft
         /\ StepsLeft[req'[r].pc] < StepsLeft[req[r].pc]
<1>1. ASSUME TypeInv, [Next]_vars, NEW r \in Requests, Active(r), req'[r] # req[r]
      PROVE  /\ req'[r].pc \in DOMAIN StepsLeft
             /\ StepsLeft[req'[r].pc] < StepsLeft[req[r].pc]
  <2>1. Serve(r)
    BY <1>1, OneSlot
  <2>2. ASSUME NEW code \in Reply, Answer(r, code)
        PROVE  req'[r].pc = "done" /\ StepsLeft["done"] < StepsLeft[req[r].pc]
    <3>1. req'[r].pc = "done"
      BY <1>1, <2>2, AnswerFields
    <3>2. req[r].pc \in PC \ {"idle", "done"}
      BY <1>1 DEF Active, TypeInv, TypeOK, Request
    <3> QED BY <3>1, <3>2 DEF PC, Awaited, StepsLeft
  <2>3. "done" \in DOMAIN StepsLeft
    BY DEF StepsLeft
  <2>4. ASSUME NEW pc \in PC, Goto(r, pc)
        PROVE  req'[r].pc = pc
    BY <1>1, <2>4, GotoSlot
  <2> HIDE DEF StepsLeft
  <2> QED BY <1>1, <2>1, <2>2, <2>3, <2>4, ServeMoves
<1>2. TypeInv /\ [Next]_vars => [\A r \in Requests : Advances(r)]_vars
  BY <1>1
<1> QED BY <1>2, InitType, NextType, PTL DEF Spec, RequestsAdvance

-----------------------------------------------------------------------------
(* Revocation                                                              *)

\* The conjuncts of RevocationInv about one request.
LEMMA OtherRequests ==
    ASSUME TypeInv, RevocationInv, NEW q \in Requests, req'[q] = req[q],
           q \in late' => q \in late, jwts \subseteq jwts', acked \subseteq acked',
           now' = now
    PROVE  VerifiedRecently(q)' /\ Stopped(q)'
BY DEF RevocationInv, VerifiedRecently, Stopped

\* An answer keeps them, unless it lets through a request that must be stopped.
LEMMA AnswerKeepsRequests ==
    ASSUME TypeInv, RevocationInv, NEW r \in Requests, NEW code \in Reply,
           Answer(r, code), code \in {"ACCEPTED", "TOKEN"} => r \notin late,
           late' = late, jwts \subseteq jwts', acked \subseteq acked', now' = now
    PROVE  \A q \in Requests : VerifiedRecently(q)' /\ Stopped(q)'
<1>0. req'[r] = Ended(req[r].op, code)
  BY AnswerSlot
<1>1. req'[r].pc = "done" /\ req'[r].reply = code
  BY <1>0 DEF Ended
<1>2. VerifiedRecently(r)' /\ Stopped(r)'
  BY <1>1 DEF VerifiedRecently, Stopped
<1> QED BY <1>2, AnswerSlot, OtherRequests

\* So does moving on, unless it takes a request that must be stopped past the check.
LEMMA GotoKeepsRequests ==
    ASSUME TypeInv, RevocationInv, NEW r \in Requests, NEW pc \in PC, Goto(r, pc),
           req[r].pc # "done", pc # "done", pc \notin {"revocation", "lookup"},
           pc = "create" => req[r].pc = "lookup",
           r \in late => pc = "create",
           late' = late, jwts = jwts', acked = acked', now' = now
    PROVE  \A q \in Requests : VerifiedRecently(q)' /\ Stopped(q)'
<1>1. VerifiedRecently(r)'
  BY GotoSlot DEF VerifiedRecently, RevocationInv
<1>2. Stopped(r)'
  BY GotoSlot DEF Stopped, RevocationInv
<1> QED BY <1>1, <1>2, GotoSlot, OtherRequests

\* The facts about the tables survive a step that leaves tables and clock alone.
LEMMA SameTables ==
    ASSUME RevocationInv, UNCHANGED <<now, jwts, revokedTokens, acked>>
    PROVE  RowsMatchTokens' /\ AckedDurable'
BY DEF RevocationInv, RowsMatchTokens, AckedDurable, IsRevoked

\* A request that began after the acknowledgement finds the row: its JWT verified at most
\* RequestSpan ago, so it is at most ClockTolerance + RequestSpan past its expiry, and
\* the row is kept for Retention.
LEMMA LateFindsRow ==
    ASSUME TypeInv, RevocationInv, NEW r \in Requests,
           req[r].pc = "revocation", r \in late
    PROVE  IsRevoked(req[r].jti)
<1>1. req[r].jti \in acked
  BY DEF RevocationInv, Stopped
<1>2. PICK t \in jwts : /\ t.jti = req[r].jti
                        /\ IsRevoked(req[r].jti) \/ t.exp + Retention < now
  BY <1>1 DEF RevocationInv, AckedDurable
<1>3. /\ [jti |-> req[r].jti, sub |-> req[r].sub, exp |-> req[r].exp] \in jwts
      /\ req[r].began < req[r].exp + ClockTolerance
      /\ now <= req[r].began + RequestSpan
  BY DEF RevocationInv, VerifiedRecently
<1>4. t.exp = req[r].exp
  BY <1>2, <1>3 DEF RevocationInv, RowsMatchTokens
<1>5. /\ req[r].exp \in Nat /\ req[r].began \in Nat /\ now \in Nat
      /\ RequestSpan \in Nat /\ ClockTolerance \in Nat /\ Retention \in Nat
      /\ ClockTolerance + RequestSpan <= Retention
  BY TimeAssumption DEF TypeInv, TypeOK, Request
<1>6. ~(t.exp + Retention < now)
  BY <1>3, <1>4, <1>5
<1> QED BY <1>2, <1>6

LEMMA ArriveRevocation ==
    ASSUME TypeInv, RevocationInv, NEW r \in Requests, Arrive(r)
    PROVE  RevocationInv'
<1>1. ASSUME NEW op \in BearerOps, NEW t \in jwts, Verifies(t), NEW pc \in {"lookup", "revocation"},
             Begin(r, op, pc, t.jti, t.sub, t.exp)
      PROVE  RevocationInv'
  <2>1. /\ t.jti \in Tokens /\ t.sub \in Users /\ t.exp \in Nat /\ op \in Op /\ pc \in PC
        /\ t = [jti |-> t.jti, sub |-> t.sub, exp |-> t.exp]
    BY <1>1 DEF TypeInv, TypeOK, JWT, Op, PC, Awaited
  <2>2. req'[r] = [op |-> op, pc |-> pc, jti |-> t.jti, sub |-> t.sub,
                   exp |-> t.exp, began |-> now, reply |-> "none"]
    BY <1>1, <2>1, BeginSlot
  <2>3. \A q \in Requests \ {r} : req'[q] = req[q]
    BY <1>1, <2>1, BeginSlot
  <2>4. VerifiedRecently(r)'
    BY <1>1, <2>1, <2>2, TimeAssumption
    DEF VerifiedRecently, Verifies, Begin, TypeInv, TypeOK
  <2>5. Stopped(r)'
    BY <1>1, <2>2 DEF Stopped, Begin
  <2> QED BY <1>1, <2>3, <2>4, <2>5, SameTables, OtherRequests DEF RevocationInv, Begin
<1>2. ASSUME NEW op \in Op, NEW code \in Reply, Refuse(r, op, code)
      PROVE  RevocationInv'
  <2>1. VerifiedRecently(r)' /\ Stopped(r)'
    BY <1>2, RefuseSlot DEF Ended, VerifiedRecently, Stopped, Refuse
  <2> QED BY <1>2, <2>1, RefuseSlot, SameTables, OtherRequests DEF RevocationInv, Refuse
<1>3. ASSUME NEW op \in Op, NEW pc \in {"existence", "upsert", "delist", "status"},
             NEW j \in Tokens \cup {None}, pc = "status" \/ j = None,
             NEW u \in Users \cup {None}, Begin(r, op, pc, j, u, 0)
      PROVE  RevocationInv'
  <2>1. pc \in PC /\ None \notin acked
    BY NoneAssumption DEF PC, Awaited, TypeInv, TypeOK
  <2>2. req'[r] = [op |-> op, pc |-> pc, jti |-> j, sub |-> u,
                   exp |-> 0, began |-> now, reply |-> "none"]
    BY <1>3, <2>1, BeginSlot
  <2>3. \A q \in Requests \ {r} : req'[q] = req[q]
    BY <1>3, <2>1, BeginSlot
  <2>4. VerifiedRecently(r)' /\ Stopped(r)'
    BY <1>3, <2>1, <2>2 DEF VerifiedRecently, Stopped, Begin
  <2> QED BY <1>3, <2>3, <2>4, SameTables, OtherRequests DEF RevocationInv, Begin
<1>4. CASE PresentToken(r)
  <2> PICK op \in BearerOps, t \in jwts :
        IF Verifies(t)
        THEN Begin(r, op, IF op = "revoke" THEN "lookup" ELSE "revocation",
                   t.jti, t.sub, t.exp)
        ELSE Refuse(r, op, IF op = "revoke" THEN "REVOCATION_FAILED" ELSE "EXPIRED_TOKEN")
    BY <1>4 DEF PresentToken
  <2> QED BY <1>1, <1>2 DEF Op, Reply
<1>5. CASE PresentMalformedToken(r)
  BY <1>2, <1>5 DEF PresentMalformedToken, Op, Reply
<1>6. CASE RequestToken(r) \/ OAuthCallback(r) \/ RevokeAllUserTokens(r) \/ RequestStatus(r)
  BY <1>3, <1>6
  DEF RequestToken, OAuthCallback, RevokeAllUserTokens, RequestStatus, Op
<1> QED BY <1>4, <1>5, <1>6 DEF Arrive

LEMMA ServeRevocation ==
    ASSUME TypeInv, RevocationInv, NEW r \in Requests, Serve(r)
    PROVE  RevocationInv'
<1> USE DEF Reply, PC, Awaited
<1>1. CASE CheckRevocation(r)
  <2>1. CASE IsRevoked(req[r].jti)
    BY <1>1, <2>1, AnswerKeepsRequests, SameTables DEF CheckRevocation, RevocationInv
  <2>2. CASE ~IsRevoked(req[r].jti)
    <3>1. r \notin late
      BY <1>1, <2>2, LateFindsRow DEF CheckRevocation
    <3>2. /\ Goto(r, AfterRevocation(req[r].op))
          /\ AfterRevocation(req[r].op) \in {"accept", "whitelist"}
          /\ req[r].pc = "revocation"
      BY <1>1, <2>2 DEF CheckRevocation, AfterRevocation
    <3> QED
      BY <1>1, <3>1, <3>2, GotoKeepsRequests, SameTables DEF CheckRevocation, RevocationInv
  <2> QED BY <2>1, <2>2
<1>2. ASSUME req[r].pc \in PC \ {"revocation", "lookup", "create", "status", "done"}
      PROVE  r \notin late
  BY <1>2 DEF RevocationInv, Stopped
<1>3. CASE CheckWhitelist(r)
  <2>1. \/ \E code \in {"USER_NOT_FOUND", "WHITELIST_REVOKED"} : Answer(r, code)
        \/ \E pc \in {"existence", "accept"} : Goto(r, pc)
    BY <1>3 DEF CheckWhitelist
  <2>2. CASE \E code \in {"USER_NOT_FOUND", "WHITELIST_REVOKED"} : Answer(r, code)
    BY <1>3, <2>2, AnswerKeepsRequests, SameTables DEF CheckWhitelist, RevocationInv
  <2>3. CASE \E pc \in {"existence", "accept"} : Goto(r, pc)
    BY <1>2, <1>3, <2>3, GotoKeepsRequests, SameTables DEF CheckWhitelist, RevocationInv
  <2> QED BY <2>1, <2>2, <2>3
<1>4. CASE Accept(r)
  BY <1>2, <1>4, AnswerKeepsRequests, SameTables DEF Accept, RevocationInv
<1>5. CASE UpsertUser(r)
  <2>1. CASE Goto(r, "existence")
    BY <1>2, <1>5, <2>1, GotoKeepsRequests, SameTables DEF UpsertUser, RevocationInv
  <2>2. CASE Answer(r, "WHITELIST_REVOKED")
    BY <1>5, <2>2, AnswerKeepsRequests, SameTables DEF UpsertUser, RevocationInv
  <2> QED BY <1>5, <2>1, <2>2 DEF UpsertUser
<1>6. CASE ReadUser(r)
  <2>1. CASE Goto(r, "sign")
    BY <1>2, <1>6, <2>1, GotoKeepsRequests, SameTables DEF ReadUser, RevocationInv
  <2>2. CASE \E code \in {"USER_NOT_FOUND", "NO_TOKEN", "INTERNAL_ERROR"} : Answer(r, code)
    BY <1>6, <2>2, AnswerKeepsRequests, SameTables DEF ReadUser, RevocationInv
  <2> QED BY <1>6, <2>1, <2>2 DEF ReadUser
<1>7. CASE Sign(r)
  <2>1. r \notin late
    BY <1>2, <1>7 DEF Sign
  <2>2. RowsMatchTokens'
    BY <1>7 DEF Sign, Fresh, RevocationInv, RowsMatchTokens
  <2>3. AckedDurable'
    BY <1>7 DEF Sign, RevocationInv, AckedDurable, IsRevoked
  <2> QED BY <1>7, <2>1, <2>2, <2>3, AnswerKeepsRequests DEF Sign, RevocationInv
<1>8. ASSUME req[r].pc \in {"lookup", "create"}
      PROVE  \E t \in jwts : t.jti = req[r].jti /\ t.exp = req[r].exp
  BY <1>8 DEF RevocationInv, VerifiedRecently
<1>9. CASE LookupRevocation(r)
  <2>1. RowsMatchTokens'
    BY <1>9 DEF LookupRevocation, RevocationInv, RowsMatchTokens
  <2>2. AckedDurable'
    BY <1>8, <1>9 DEF LookupRevocation, RevocationInv, AckedDurable, IsRevoked
  <2>3. CASE Answer(r, "REVOKED") /\ acked' = acked \cup {req[r].jti}
    BY <1>9, <2>1, <2>2, <2>3, AnswerKeepsRequests DEF LookupRevocation, RevocationInv
  <2>4. CASE Goto(r, "create") /\ UNCHANGED acked
    BY <1>9, <2>1, <2>2, <2>4, GotoKeepsRequests DEF LookupRevocation, RevocationInv
  <2> QED BY <1>9, <2>3, <2>4 DEF LookupRevocation
<1>10. ASSUME req[r].pc = "create", revokedTokens' = revokedTokens \cup {NewRow(r)},
              acked' \in {acked, acked \cup {req[r].jti}}, UNCHANGED <<now, jwts>>
       PROVE  RowsMatchTokens' /\ AckedDurable'
  <2>1. RowsMatchTokens'
    BY <1>8, <1>10 DEF RevocationInv, RowsMatchTokens, NewRow
  <2>2. /\ \E row \in revokedTokens' : row.jti = req[r].jti
        /\ \A j \in acked : IsRevoked(j) => IsRevoked(j)'
    <3>1. NewRow(r) \in revokedTokens' /\ NewRow(r).jti = req[r].jti
      BY <1>10 DEF NewRow
    <3> QED BY <1>10, <3>1 DEF IsRevoked
  <2>3. AckedDurable'
    BY <1>8, <1>10, <2>2 DEF RevocationInv, AckedDurable, IsRevoked
  <2> QED BY <2>1, <2>3
<1>11. CASE CreateRevocation(r)
  <2>1. CASE Answer(r, "REVOKED")
    BY <1>10, <1>11, <2>1, SameTables, AnswerKeepsRequests DEF CreateRevocation, RevocationInv
  <2>2. CASE Answer(r, "REVOCATION_FAILED")
    BY <1>10, <1>11, <2>2, SameTables, AnswerKeepsRequests DEF CreateRevocation, RevocationInv
  <2> QED BY <1>11, <2>1, <2>2 DEF CreateRevocation
<1>12. CASE CreateRevocationUnconfirmed(r)
  BY <1>10, <1>12, AnswerKeepsRequests DEF CreateRevocationUnconfirmed, RevocationInv
<1>13. CASE Delist(r)
  BY <1>13, AnswerKeepsRequests, SameTables DEF Delist, RevocationInv
<1>14. CASE ReadStatus(r)
  BY <1>14, AnswerKeepsRequests, SameTables DEF ReadStatus, RevocationInv
<1>15. CASE DatabaseFault(r)
  <2>1. FaultReply(req[r].op, req[r].pc) \in Reply \ {"ACCEPTED", "TOKEN"}
    BY DEF FaultReply
  <2> QED BY <1>15, <2>1, AnswerKeepsRequests, SameTables DEF DatabaseFault, RevocationInv
<1> QED
  BY <1>1, <1>3, <1>4, <1>5, <1>6, <1>7, <1>9, <1>11, <1>12, <1>13, <1>14, <1>15 DEF Serve

LEMMA NextRevocation == TypeInv /\ RevocationInv /\ [Next]_vars => RevocationInv'
<1> SUFFICES ASSUME TypeInv, RevocationInv, [Next]_vars PROVE RevocationInv'
  OBVIOUS
<1>1. CASE \E r \in Requests : Arrive(r) \/ Serve(r)
  BY <1>1, ArriveRevocation, ServeRevocation
<1>2. CASE \E u \in Users, status \in Account : AdminSetsAccount(u, status)
  BY <1>2, SameTables, OtherRequests DEF AdminSetsAccount, RevocationInv
<1>3. CASE Cleanup
  <2>1. PICK cutoff \in Cutoffs :
          revokedTokens' = revokedTokens \ ExpiredBefore(cutoff)
    BY <1>3 DEF Cleanup
  <2>2. RowsMatchTokens'
    BY <1>3, <2>1 DEF Cleanup, RevocationInv, RowsMatchTokens
  <2>3. ASSUME NEW j \in acked, NEW t \in jwts, t.jti = j, IsRevoked(j), ~IsRevoked(j)'
        PROVE  t.exp + Retention < now
    <3>1. PICK row \in revokedTokens : row.jti = j /\ row.tokenExpiresAt < cutoff
      BY <2>1, <2>3 DEF IsRevoked, ExpiredBefore
    <3>2. t.exp = row.tokenExpiresAt
      BY <2>3, <3>1 DEF RevocationInv, RowsMatchTokens
    <3>3. t.exp \in Nat /\ now \in Nat /\ Retention \in Nat
      BY TimeAssumption DEF TypeInv, TypeOK, JWT
    <3> QED BY <2>1, <3>1, <3>2, <3>3 DEF Cutoffs
  <2>4. AckedDurable'
    BY <1>3, <2>3 DEF Cleanup, RevocationInv, AckedDurable
  <2> QED BY <1>3, <2>2, <2>4, OtherRequests DEF Cleanup, RevocationInv
<1>4. CASE Tick
  <2>1. RowsMatchTokens'
    BY <1>4 DEF Tick, RevocationInv, RowsMatchTokens
  <2>2. AckedDurable'
    BY <1>4, TimeAssumption
    DEF Tick, RevocationInv, AckedDurable, IsRevoked, TypeInv, TypeOK, JWT
  <2>3. ASSUME NEW q \in Requests
        PROVE  VerifiedRecently(q)' /\ Stopped(q)'
    <3>1. Stopped(q)'
      BY <1>4 DEF Tick, RevocationInv, Stopped
    <3>2. CASE req[q].pc \in {"revocation", "lookup", "create"}
      <4>1. now + 1 <= req[q].began + RequestSpan
        BY <1>4, <3>2, TimeAssumption DEF Tick, Active, TypeInv, TypeOK, Request
      <4> QED BY <1>4, <3>1, <3>2, <4>1 DEF Tick, RevocationInv, VerifiedRecently
    <3> QED BY <1>4, <3>1, <3>2 DEF Tick, VerifiedRecently
  <2> QED BY <2>1, <2>2, <2>3 DEF RevocationInv
<1>5. CASE UNCHANGED vars
  BY <1>5, SameTables, OtherRequests DEF vars, RevocationInv
<1> QED BY <1>1, <1>2, <1>3, <1>4, <1>5 DEF Next

LEMMA InitRevocation == Init => RevocationInv
BY DEF Init, RevocationInv, RowsMatchTokens, AckedDurable, VerifiedRecently, Stopped

\* A JWT whose revocation was reported never passes a request that began afterwards.
THEOREM RevocationIsFinal == Spec => []AckedNeverAccepted
<1>1. RevocationInv => AckedNeverAccepted
  BY DEF RevocationInv, Stopped, AckedNeverAccepted
<1> QED
  BY <1>1, InitType, NextType, InitRevocation, NextRevocation, PTL DEF Spec

\* The cleanup job deletes no row that a verification, or a request in flight, needs.
THEOREM CleanupIsSafe == Spec => CleanupKeepsNeededRows
<1> DEFINE Needless(row) ==
      /\ \A t \in jwts : t.jti = row.jti => ~Verifies(t)
      /\ \A r \in Requests : ~(req[r].pc = "revocation" /\ req[r].jti = row.jti)
<1>1. ASSUME TypeInv, RevocationInv, [Next]_vars,
             NEW row \in revokedTokens, row \notin revokedTokens'
      PROVE  Needless(row)
  <2>1. Cleanup
    BY <1>1 DEF Next, Arrive, Serve, vars, Begin, Refuse, PresentToken, PresentMalformedToken,
       RequestToken, OAuthCallback, RevokeAllUserTokens, RequestStatus, CheckRevocation,
       CheckWhitelist, Accept, UpsertUser, ReadUser, Sign, LookupRevocation,
       CreateRevocation, CreateRevocationUnconfirmed, Delist, ReadStatus, DatabaseFault,
       AdminSetsAccount, Tick
  <2>2. row.tokenExpiresAt + Retention < now
    BY <1>1, <2>1, TimeAssumption
    DEF Cleanup, Cutoffs, ExpiredBefore, TypeInv, TypeOK, RevokedToken
  <2>3. ASSUME NEW t \in jwts, t.jti = row.jti
        PROVE  t.exp + Retention < now /\ t.exp \in Nat /\ now \in Nat
    BY <1>1, <2>2, <2>3 DEF RevocationInv, RowsMatchTokens, TypeInv, TypeOK, JWT
  <2>4. \A t \in jwts : t.jti = row.jti => ~Verifies(t)
    BY <2>3, TimeAssumption DEF Verifies
  <2>5. ASSUME NEW r \in Requests, req[r].pc = "revocation", req[r].jti = row.jti
        PROVE  FALSE
    <3> DEFINE t == [jti |-> req[r].jti, sub |-> req[r].sub, exp |-> req[r].exp]
    <3>1. /\ t \in jwts
          /\ req[r].began < req[r].exp + ClockTolerance
          /\ now <= req[r].began + RequestSpan
      BY <1>1, <2>5 DEF RevocationInv, VerifiedRecently
    <3>2. req[r].exp + Retention < now
      BY <2>3, <2>5, <3>1
    <3>3. req[r].exp \in Nat /\ req[r].began \in Nat /\ now \in Nat
      BY <1>1 DEF TypeInv, TypeOK, Request
    <3> QED BY <3>1, <3>2, <3>3, TimeAssumption
  <2> QED BY <2>4, <2>5
<1>2. TypeInv /\ RevocationInv /\ [Next]_vars =>
        [\A row \in revokedTokens \ revokedTokens' : Needless(row)]_vars
  BY <1>1
<1> QED
  BY <1>2, InitType, NextType, InitRevocation, NextRevocation, PTL
  DEF Spec, CleanupKeepsNeededRows

\* What a status request reads agrees with what was reported before it began.
THEOREM StatusIsTrue == Spec => StatusAgreesWithRevocation
<1> DEFINE Agrees(r) == /\ req[r].pc = "status"
                        /\ req'[r].reply = "NOT_REVOKED"
                        /\ r \in late
                        => \A t \in jwts : t.jti = req[r].jti => ~Verifies(t)
<1>1. ASSUME TypeInv, RevocationInv, [Next]_vars, NEW r \in Requests,
             req[r].pc = "status", req'[r].reply = "NOT_REVOKED", r \in late
      PROVE  \A t \in jwts : t.jti = req[r].jti => ~Verifies(t)
  <2>1. req[r].reply = "none" /\ req[r].jti \in acked
    BY <1>1 DEF TypeInv, WellFormed, RevocationInv, Stopped
  <2>2. CASE req'[r] = req[r]
    BY <1>1, <2>1, <2>2
  <2>3. CASE Serve(r)
    <3>1. \/ ReadStatus(r)
          \/ DatabaseFault(r)
      BY <1>1, <2>3 DEF Serve, CheckRevocation, CheckWhitelist, Accept, UpsertUser, ReadUser,
         Sign, LookupRevocation, CreateRevocation, CreateRevocationUnconfirmed, Delist
    <3>2. CASE DatabaseFault(r)
      <4>1. FaultReply(req[r].op, req[r].pc) \in Reply \ {"NOT_REVOKED"}
        BY DEF FaultReply, Reply
      <4>2. req'[r].reply = FaultReply(req[r].op, req[r].pc)
        BY <1>1, <3>2, <4>1, AnswerFields DEF DatabaseFault
      <4> QED BY <1>1, <4>1, <4>2
    <3>3. CASE ReadStatus(r)
      <4>1. ~IsRevoked(req[r].jti)
        <5> SUFFICES ASSUME IsRevoked(req[r].jti) PROVE FALSE
          OBVIOUS
        <5>1. Answer(r, "REVOKED") /\ "REVOKED" \in Reply
          BY <3>3 DEF ReadStatus, Reply
        <5> QED BY <1>1, <5>1, AnswerFields
      <4>2. PICK t \in jwts : t.jti = req[r].jti /\ t.exp + Retention < now
        BY <1>1, <2>1, <4>1 DEF RevocationInv, AckedDurable
      <4>3. t.exp \in Nat /\ now \in Nat
        BY <1>1 DEF TypeInv, TypeOK, JWT
      <4>4. ~Verifies(t)
        BY <4>2, <4>3, TimeAssumption DEF Verifies
      <4> QED BY <1>1, <4>2, <4>4 DEF RevocationInv, RowsMatchTokens
    <3> QED BY <3>1, <3>2, <3>3
  <2>4. Serve(r) \/ req'[r] = req[r]
    BY <1>1, OneSlot DEF Active
  <2> QED BY <2>2, <2>3, <2>4
<1>2. TypeInv /\ RevocationInv /\ [Next]_vars => [\A r \in Requests : Agrees(r)]_vars
  BY <1>1
<1> QED
  BY <1>2, InitType, NextType, InitRevocation, NextRevocation, PTL
  DEF Spec, StatusAgreesWithRevocation

-----------------------------------------------------------------------------
(* The whitelist                                                           *)

LEMMA InitWhitelist == Init => WhitelistInv
BY DEF Init, WhitelistInv, Listed, Active

\* A slot whose user row, request and history are as before.
LEMMA ListedUnchanged ==
    ASSUME WhitelistInv, NEW q \in Requests, req'[q] = req[q],
           q \in listed => q \in listed',
           req[q].sub \in Users =>
              (users'[req[q].sub] = "whitelisted" => users[req[q].sub] = "whitelisted")
    PROVE  Listed(q)'
BY DEF WhitelistInv, Listed, Active

LEMMA ArriveWhitelist ==
    ASSUME TypeInv, NEW r \in Requests, Arrive(r), WhitelistInv
    PROVE  WhitelistInv'
<1>1. ASSUME NEW op \in Op, NEW pc \in PC \ {"accept", "existence", "sign"},
             NEW j \in Tokens \cup {None}, NEW u \in Users \cup {None}, NEW exp \in Nat,
             Begin(r, op, pc, j, u, exp)
      PROVE  WhitelistInv'
  <2>1. req'[r] = [op |-> op, pc |-> pc, jti |-> j, sub |-> u,
                   exp |-> exp, began |-> now, reply |-> "none"]
    BY <1>1, BeginSlot
  <2>2. Listed(r)'
    BY <1>1, <2>1 DEF Listed, Active, Begin
  <2> QED BY <1>1, <2>2, BeginSlot, ListedUnchanged DEF WhitelistInv, Begin
<1>2. ASSUME NEW u \in Users, Begin(r, "issue", "existence", None, u, 0)
      PROVE  WhitelistInv'
  <2>1. "issue" \in Op /\ "existence" \in PC
    BY DEF Op, PC, Awaited
  <2>2. req'[r] = [op |-> "issue", pc |-> "existence", jti |-> None, sub |-> u,
                   exp |-> 0, began |-> now, reply |-> "none"]
    BY <1>2, <2>1, BeginSlot
  <2>3. Listed(r)'
    BY <1>2, <2>2 DEF Listed, Active, Begin
  <2> QED BY <1>2, <2>1, <2>3, BeginSlot, ListedUnchanged DEF WhitelistInv, Begin
<1>3. ASSUME NEW op \in Op,
             NEW code \in {"REVOCATION_FAILED", "EXPIRED_TOKEN", "INVALID_TOKEN"},
             Refuse(r, op, code)
      PROVE  WhitelistInv'
  <2>1. req'[r] = Ended(op, code) /\ \A q \in Requests \ {r} : req'[q] = req[q]
    BY <1>3, RefuseSlot DEF Reply
  <2>2. Listed(r)'
    BY <1>3, <2>1 DEF Ended, Listed, Active
  <2> QED BY <1>3, <2>1, <2>2, ListedUnchanged DEF WhitelistInv, Refuse
<1>4. CASE PresentToken(r)
  <2> PICK op \in BearerOps, t \in jwts :
        IF Verifies(t)
        THEN Begin(r, op, IF op = "revoke" THEN "lookup" ELSE "revocation",
                   t.jti, t.sub, t.exp)
        ELSE Refuse(r, op, IF op = "revoke" THEN "REVOCATION_FAILED" ELSE "EXPIRED_TOKEN")
    BY <1>4 DEF PresentToken
  <2>1. t.jti \in Tokens /\ t.sub \in Users /\ t.exp \in Nat /\ op \in Op
    BY DEF TypeInv, TypeOK, JWT, Op
  <2> QED BY <1>1, <1>3, <2>1 DEF PC, Awaited
<1>5. CASE PresentMalformedToken(r)
  BY <1>3, <1>5 DEF PresentMalformedToken, Op
<1>6. CASE RequestToken(r)
  BY <1>2, <1>6 DEF RequestToken
<1>7. CASE OAuthCallback(r) \/ RevokeAllUserTokens(r) \/ RequestStatus(r)
  BY <1>1, <1>7 DEF OAuthCallback, RevokeAllUserTokens, RequestStatus, Op, PC, Awaited
<1> QED BY <1>4, <1>5, <1>6, <1>7 DEF Arrive

LEMMA ServeWhitelist ==
    ASSUME TypeInv, NEW r \in Requests, Serve(r), WhitelistInv
    PROVE  WhitelistInv'
<1> USE DEF Reply, PC, Awaited
<1>0. req[r] \in Request /\ WellFormed(r) /\ Listed(r)
  BY DEF TypeInv, TypeOK, WhitelistInv
<1>1. ASSUME NEW code \in Reply, Answer(r, code),
             code \in {"ACCEPTED", "TOKEN"} =>
                r \in listed \/ req[r].op \in {"protectNoList", "issue"},
             listed' = listed,
             \A u \in Users : users'[u] = "whitelisted" => users[u] = "whitelisted"
      PROVE  WhitelistInv'
  <2>1. req'[r] = Ended(req[r].op, code) /\ \A q \in Requests \ {r} : req'[q] = req[q]
    BY <1>1, AnswerSlot
  <2>2. Listed(r)'
    BY <1>1, <2>1 DEF Ended, Listed, Active
  <2> QED BY <1>1, <2>1, <2>2, ListedUnchanged DEF WhitelistInv
<1>2. ASSUME NEW pc \in PC, Goto(r, pc), req[r].pc \in Awaited,
             pc \in {"accept", "existence", "sign"} =>
                r \in listed \/ req[r].op \in {"protectNoList", "issue"},
             listed' = listed,
             \A u \in Users : users'[u] = "whitelisted" => users[u] = "whitelisted"
      PROVE  WhitelistInv'
  <2>1. Active(r) /\ req[r].reply = "none"
    BY <1>0, <1>2 DEF Active, WellFormed
  <2>2. Listed(r)'
    BY <1>0, <1>2, <2>1, GotoSlot DEF Listed, Active
  <2> QED BY <1>2, <2>2, GotoSlot, ListedUnchanged DEF WhitelistInv
<1>3. CASE CheckRevocation(r)
  BY <1>0, <1>1, <1>2, <1>3 DEF CheckRevocation, AfterRevocation
<1>4. CASE CheckWhitelist(r)
  <2>1. \/ \E code \in {"USER_NOT_FOUND", "WHITELIST_REVOKED"} : Answer(r, code)
        \/ /\ users[req[r].sub] = "whitelisted"
           /\ \E pc \in {"existence", "accept"} : Goto(r, pc)
    BY <1>0, <1>4 DEF CheckWhitelist, WellFormed, TypeInv, TypeOK, Account
  <2>2. users[req[r].sub] = "whitelisted" => r \in listed
    BY <1>0, <1>4 DEF CheckWhitelist, WellFormed, Listed, Active
  <2> QED BY <1>1, <1>2, <1>4, <2>1, <2>2 DEF CheckWhitelist
<1>5. CASE Accept(r)
  <2>1. r \in listed \/ req[r].op = "protectNoList"
    BY <1>0, <1>5 DEF Accept, WellFormed, Listed
  <2> QED BY <1>1, <1>5, <2>1 DEF Accept
<1>6. CASE UpsertUser(r)
  <2>1. \A u \in Users : users'[u] = "whitelisted" => users[u] = "whitelisted"
    BY <1>6 DEF UpsertUser, TypeInv, TypeOK
  <2>2. users'[req[r].sub] = "whitelisted" => r \in listed
    BY <1>0, <1>6, <2>1 DEF UpsertUser, WellFormed, Listed, Active
  <2> QED BY <1>1, <1>2, <1>6, <2>1, <2>2 DEF UpsertUser
<1>7. CASE ReadUser(r)
  <2>1. r \in listed \/ req[r].op = "issue"
    BY <1>0, <1>7 DEF ReadUser, WellFormed, Listed, MintingOps
  <2>2. \/ Goto(r, "sign")
        \/ \E code \in {"USER_NOT_FOUND", "NO_TOKEN", "INTERNAL_ERROR"} : Answer(r, code)
    BY <1>7 DEF ReadUser
  <2> QED BY <1>1, <1>2, <1>7, <2>1, <2>2 DEF ReadUser
<1>8. CASE Sign(r)
  <2>1. r \in listed \/ req[r].op = "issue"
    BY <1>0, <1>8 DEF Sign, WellFormed, Listed, MintingOps
  <2> QED BY <1>1, <1>8, <2>1 DEF Sign
<1>9. CASE LookupRevocation(r)
  BY <1>1, <1>2, <1>9 DEF LookupRevocation
<1>10. CASE CreateRevocation(r) \/ CreateRevocationUnconfirmed(r)
  BY <1>1, <1>10 DEF CreateRevocation, CreateRevocationUnconfirmed
<1>11. CASE Delist(r)
  <2>1. \A u \in Users : users'[u] = "whitelisted" => users[u] = "whitelisted"
    BY <1>11 DEF Delist, TypeInv, TypeOK
  <2> QED BY <1>1, <1>11, <2>1 DEF Delist
<1>12. CASE ReadStatus(r)
  BY <1>1, <1>12 DEF ReadStatus
<1>13. CASE DatabaseFault(r)
  <2>1. FaultReply(req[r].op, req[r].pc) \in Reply \ {"ACCEPTED", "TOKEN"}
    BY DEF FaultReply
  <2> QED BY <1>1, <1>13, <2>1 DEF DatabaseFault
<1> QED
  BY <1>3, <1>4, <1>5, <1>6, <1>7, <1>8, <1>9, <1>10, <1>11, <1>12, <1>13 DEF Serve

LEMMA NextWhitelist == TypeInv /\ WhitelistInv /\ [Next]_vars => WhitelistInv'
<1> SUFFICES ASSUME TypeInv, WhitelistInv, [Next]_vars PROVE WhitelistInv'
  OBVIOUS
<1>1. CASE \E r \in Requests : Arrive(r) \/ Serve(r)
  BY <1>1, ArriveWhitelist, ServeWhitelist
<1>2. ASSUME NEW u \in Users, NEW status \in Account, AdminSetsAccount(u, status)
      PROVE  WhitelistInv'
  BY <1>2 DEF AdminSetsAccount, WhitelistInv, Listed, Active, TypeInv, TypeOK
<1>3. CASE Cleanup \/ Tick \/ UNCHANGED vars
  BY <1>3 DEF Cleanup, Tick, vars, WhitelistInv, Listed, Active
<1> QED BY <1>1, <1>2, <1>3 DEF Next

\* A request that depends on the whitelist succeeds only for a user who was whitelisted at
\* some moment of that request.
THEOREM WhitelistIsChecked == Spec => []ListedDuringRequest
<1>1. WhitelistInv => ListedDuringRequest
  BY DEF WhitelistInv, Listed, ListedDuringRequest
<1> QED
  BY <1>1, InitType, NextType, InitWhitelist, NextWhitelist, PTL DEF Spec

-----------------------------------------------------------------------------
(* No handler waits in vain                                                *)

LEMMA InitJtis == Init => JtisLeft
<1> SUFFICES ASSUME Init PROVE JtisLeft
  OBVIOUS
<1>1. Minting = {} /\ Fresh = Tokens
  BY DEF Init, Minting, Fresh, Active
<1> QED BY <1>1, FiniteAssumption, FS_EmptySet, FS_CardinalityType DEF JtisLeft

LEMMA FiniteJtis ==
    /\ IsFiniteSet(Minting) /\ Cardinality(Minting) \in Nat
    /\ IsFiniteSet(Fresh) /\ Cardinality(Fresh) \in Nat
<1>1. Minting \in SUBSET Requests /\ Fresh \in SUBSET Tokens
  BY DEF Minting, Fresh
<1>2. IsFiniteSet(Minting) /\ IsFiniteSet(Fresh)
  BY <1>1, FiniteAssumption, FS_Subset
<1> QED BY <1>2, FS_CardinalityType

\* A step that signs nothing and lets no minting request in.
LEMMA JtisKept ==
    ASSUME JtisLeft, jwts' = jwts, Minting' \subseteq Minting
    PROVE  JtisLeft'
<1>1. Fresh' = Fresh
  BY DEF Fresh
<1>2. Cardinality(Minting') <= Cardinality(Minting) /\ Cardinality(Minting') \in Nat
  BY FiniteJtis, FS_Subset, FS_CardinalityType
<1> QED BY <1>1, <1>2, FiniteJtis DEF JtisLeft

LEMMA ArriveJtis ==
    ASSUME TypeInv, JtisLeft, NEW r \in Requests, Arrive(r)
    PROVE  JtisLeft'
<1>1. ASSUME NEW op \in Op, NEW pc \in PC, NEW j \in Tokens \cup {None},
             NEW u \in Users \cup {None}, NEW exp \in Nat, Begin(r, op, pc, j, u, exp)
      PROVE  JtisLeft'
  <2>1. /\ req'[r].op = op /\ \A q \in Requests \ {r} : req'[q] = req[q]
        /\ jwts' = jwts
    BY <1>1, BeginSlot DEF Begin
  <2>2. CASE op \in MintingOps
    <3>1. Cardinality(Minting) < Cardinality(Fresh)
      BY <1>1, <2>2 DEF Begin, RoomForToken
    <3>2. Minting' \in SUBSET (Minting \cup {r})
      BY <2>1 DEF Minting, Active
    <3>3. Cardinality(Minting \cup {r}) <= Cardinality(Minting) + 1
          /\ IsFiniteSet(Minting \cup {r}) /\ Cardinality(Minting \cup {r}) \in Nat
      <4>1. /\ IsFiniteSet(Minting \cup {r})
            /\ Cardinality(Minting \cup {r}) =
                  IF r \in Minting THEN Cardinality(Minting) ELSE Cardinality(Minting) + 1
        BY FiniteJtis, FS_AddElement
      <4> QED BY <4>1, FiniteJtis
    <3>4. Cardinality(Minting') <= Cardinality(Minting \cup {r}) /\ IsFiniteSet(Minting')
      BY <3>2, <3>3, FS_Subset
    <3>5. Cardinality(Minting') \in Nat /\ Fresh' = Fresh
      BY <2>1, <3>4, FS_CardinalityType DEF Fresh
    <3> QED BY <3>1, <3>3, <3>4, <3>5, FiniteJtis DEF JtisLeft
  <2>3. CASE op \notin MintingOps
    <3>1. Minting' \subseteq Minting
      BY <2>1, <2>3 DEF Minting, Active
    <3> QED BY <2>1, <3>1, JtisKept
  <2> QED BY <2>2, <2>3
<1>2. ASSUME NEW op \in Op,
             NEW code \in {"REVOCATION_FAILED", "EXPIRED_TOKEN", "INVALID_TOKEN"},
             Refuse(r, op, code)
      PROVE  JtisLeft'
  <2>1. req'[r] = Ended(op, code) /\ \A q \in Requests \ {r} : req'[q] = req[q]
    BY <1>2, RefuseSlot DEF Reply
  <2>2. req'[r].pc = "done"
    BY <2>1 DEF Ended
  <2>3. Minting' \subseteq Minting
    BY <2>1, <2>2 DEF Minting, Active
  <2> QED BY <1>2, <2>3, JtisKept DEF Refuse
<1>3. CASE PresentToken(r)
  <2> PICK op \in BearerOps, t \in jwts :
        IF Verifies(t)
        THEN Begin(r, op, IF op = "revoke" THEN "lookup" ELSE "revocation",
                   t.jti, t.sub, t.exp)
        ELSE Refuse(r, op, IF op = "revoke" THEN "REVOCATION_FAILED" ELSE "EXPIRED_TOKEN")
    BY <1>3 DEF PresentToken
  <2>1. t.jti \in Tokens /\ t.sub \in Users /\ t.exp \in Nat /\ op \in Op
    BY DEF TypeInv, TypeOK, JWT, Op
  <2> QED BY <1>1, <1>2, <2>1 DEF PC, Awaited
<1>4. CASE PresentMalformedToken(r)
  BY <1>2, <1>4 DEF PresentMalformedToken, Op
<1>5. CASE RequestToken(r) \/ OAuthCallback(r) \/ RevokeAllUserTokens(r) \/ RequestStatus(r)
  BY <1>1, <1>5
  DEF RequestToken, OAuthCallback, RevokeAllUserTokens, RequestStatus, Op, PC, Awaited
<1> QED BY <1>3, <1>4, <1>5 DEF Arrive

LEMMA ServeJtis ==
    ASSUME TypeInv, JtisLeft, NEW r \in Requests, Serve(r)
    PROVE  JtisLeft'
<1>1. CASE Sign(r)
  <2>1. req[r].pc = "sign" /\ Answer(r, "TOKEN") /\ "TOKEN" \in Reply
    BY <1>1 DEF Sign, Reply
  <2>2. r \in Minting
    BY <2>1 DEF Minting, Active, TypeInv, WellFormed
  <2>3. req'[r].pc = "done" /\ \A q \in Requests \ {r} : req'[q] = req[q]
    BY <2>1, AnswerFields, AnswerSlot
  <2>4. Minting' = Minting \ {r}
    BY <2>3 DEF Minting, Active
  <2>5. PICK j \in Fresh :
           jwts' = jwts \cup {[jti |-> j, sub |-> req[r].sub, exp |-> now + Lifetime]}
    BY <1>1 DEF Sign
  <2> DEFINE new == [jti |-> j, sub |-> req[r].sub, exp |-> now + Lifetime]
  <2>6. Fresh' = Fresh \ {j}
    <3>1. new.jti = j /\ jwts' = jwts \cup {new}
      BY <2>5
    <3> HIDE DEF new
    <3> QED BY <3>1 DEF Fresh
  <2>7. /\ Cardinality(Minting') = Cardinality(Minting) - 1
        /\ Cardinality(Fresh') = Cardinality(Fresh) - 1
    BY <2>2, <2>4, <2>5, <2>6, FiniteJtis, FS_RemoveElement
  <2> QED BY <2>7, FiniteJtis DEF JtisLeft
<1>2. CASE ~Sign(r)
  <2>1. jwts' = jwts
    BY <1>2 DEF Serve, CheckRevocation, CheckWhitelist, Accept, UpsertUser, ReadUser,
       LookupRevocation, CreateRevocation, CreateRevocationUnconfirmed, Delist,
       ReadStatus, DatabaseFault
  <2>2. Active(r) /\ \A q \in Requests \ {r} : req'[q] = req[q]
    BY ServeMoves, AnswerSlot, GotoSlot
  <2>3. req'[r].pc = "done" \/ req'[r].op = req[r].op
    BY ServeMoves, AnswerFields, GotoSlot
  <2>4. Minting' \subseteq Minting
    BY <2>2, <2>3 DEF Minting, Active
  <2> QED BY <2>1, <2>4, JtisKept
<1> QED BY <1>1, <1>2

LEMMA NextJtis == TypeInv /\ JtisLeft /\ [Next]_vars => JtisLeft'
<1> SUFFICES ASSUME TypeInv, JtisLeft, [Next]_vars PROVE JtisLeft'
  OBVIOUS
<1>1. CASE \E r \in Requests : Arrive(r) \/ Serve(r)
  BY <1>1, ArriveJtis, ServeJtis
<1>2. ASSUME UNCHANGED <<req, jwts>>
      PROVE  JtisLeft'
  BY <1>2 DEF JtisLeft, Minting, Fresh, Active
<1> QED BY <1>1, <1>2 DEF Next, AdminSetsAccount, Cleanup, Tick, vars

\* Every state satisfies the inductive invariant: types, the agreement of rows, JWTs and
\* acknowledgements, the requests that were seen whitelisted, and the jtis left.
THEOREM ServiceInvariant == Spec => []IndInv
<1> QED
  BY InitType, NextType, InitRevocation, NextRevocation, InitWhitelist, NextWhitelist,
     InitJtis, NextJtis, PTL
  DEF Spec, IndInv

\* What the next step of the handler that serves r waits for: a database call, which may
\* always fail, or nothing.  Signing needs a jti.
Ready(r) ==
    \/ req[r].pc \in Awaited
    \/ req[r].pc = "accept"
    \/ req[r].pc = "sign" /\ \E j \in Tokens : \A t \in jwts : t.jti # j

\* No request waits for another one: a handler under way awaits a database call or can go on
\* at once, and the bound of the jtis never keeps one that may sign from signing.
THEOREM HandlersReady == Spec => [](\A r \in Requests : Active(r) => Ready(r))
<1>1. IndInv => \A r \in Requests : Active(r) => Ready(r)
  <2> SUFFICES ASSUME IndInv, NEW r \in Requests, Active(r) PROVE Ready(r)
    OBVIOUS
  <2>1. TypeInv /\ JtisLeft /\ req[r].pc \in PC
    BY DEF IndInv, TypeInv, TypeOK, Request
  <2>2. CASE req[r].pc = "sign"
    <3>1. r \in Minting
      BY <2>1, <2>2 DEF Minting, TypeInv, WellFormed
    <3>2. Cardinality(Minting) # 0
      BY <3>1, FiniteJtis, FS_EmptySet
    <3>3. Cardinality(Fresh) # 0
      BY <2>1, <3>2, FiniteJtis DEF JtisLeft
    <3>4. Fresh # {}
      BY <3>3, FS_EmptySet
    <3> QED BY <2>2, <3>4 DEF Ready, Fresh
  <2> QED BY <2>1, <2>2 DEF Ready, Active, PC
<1> QED BY <1>1, ServiceInvariant, PTL

-----------------------------------------------------------------------------
(* The promise                                                             *)

LEMMA InitPromise == Init => Promise!Init
BY DEF Init, Promise!Init, RevokedJtis, ExpiredJtis, Open, Active, AllAsked, Asked,
   AllSeen, Seen, Answers, Outcome, Account, Promise!Nothing

PromiseVars ==
    <<<<users, jwts, RevokedJtis, ExpiredJtis>>, <<Open, AllAsked, AllSeen, Answers>>>>

\* A step that writes one slot changes what is asked, seen and answered in that slot.
LEMMA ViewOfSlot ==
    ASSUME NEW r \in Requests, \A q \in Requests \ {r} : req'[q] = req[q]
    PROVE  /\ Open' = IF Active(r)' THEN Open \cup {r} ELSE Open \ {r}
           /\ AllAsked' = [AllAsked EXCEPT ![r] = Asked(r)']
           /\ AllSeen' = [AllSeen EXCEPT ![r] = Seen(r)']
           /\ Answers' = [Answers EXCEPT ![r] = Outcome(req'[r].reply)]
<1>1. \A q \in Requests \ {r} :
        /\ Active(q)' = Active(q) /\ Asked(q)' = Asked(q) /\ Seen(q)' = Seen(q)
        /\ req'[q].reply = req[q].reply
  BY DEF Active, Asked, Seen
<1>2. Open' = IF Active(r)' THEN Open \cup {r} ELSE Open \ {r}
  BY <1>1 DEF Open
<1>3. AllAsked' = [AllAsked EXCEPT ![r] = Asked(r)']
  BY <1>1 DEF AllAsked
<1>4. AllSeen' = [AllSeen EXCEPT ![r] = Seen(r)']
  BY <1>1 DEF AllSeen
<1>5. Answers' = [Answers EXCEPT ![r] = Outcome(req'[r].reply)]
  BY <1>1 DEF Answers
<1> QED BY <1>2, <1>3, <1>4, <1>5

\* An answer ends the request of the promise.
LEMMA AnswerEnds ==
    ASSUME NEW r \in Requests, NEW op, NEW code \in Reply, req'[r] = Ended(op, code),
           \A q \in Requests \ {r} : req'[q] = req[q]
    PROVE  Promise!End(r, Outcome(code))
<1>1. ~Active(r)' /\ Asked(r)' = Promise!Nothing /\ req'[r].reply = code
  BY DEF Ended, Active, Asked, Promise!Nothing
<1>2. Seen(r)' = {}
  BY DEF Ended, Seen
<1> QED BY <1>1, <1>2, ViewOfSlot DEF Promise!End

\* A step of a handler that does not answer shows in what the request has seen.
LEMMA GotoShows ==
    ASSUME TypeInv, NEW r \in Requests, NEW pc \in PC \ {"idle", "done"}, Goto(r, pc),
           Active(r)
    PROVE  /\ Open' = Open /\ AllAsked' = AllAsked /\ Answers' = Answers
           /\ AllSeen' = [AllSeen EXCEPT ![r] = Seen(r)']
           /\ AllAsked[r] = [op |-> req[r].op, jti |-> req[r].jti, sub |-> req[r].sub]
           /\ r \in Open
           /\ AllSeen[r] = Seen(r)
<1>1. Active(r)' /\ Asked(r)' = Asked(r) /\ req'[r].reply = req[r].reply
  BY GotoSlot DEF Active, Asked
<1>2. /\ Open' = IF Active(r)' THEN Open \cup {r} ELSE Open \ {r}
      /\ AllAsked' = [AllAsked EXCEPT ![r] = Asked(r)']
      /\ AllSeen' = [AllSeen EXCEPT ![r] = Seen(r)']
      /\ Answers' = [Answers EXCEPT ![r] = Outcome(req'[r].reply)]
  BY GotoSlot, ViewOfSlot
<1>3. AllAsked' = AllAsked /\ Answers' = Answers
  BY <1>1, <1>2 DEF AllAsked, Answers
<1>4. r \in Open /\ Open' = Open /\ AllSeen[r] = Seen(r)
  BY <1>1, <1>2 DEF Open, AllSeen
<1>5. AllAsked[r] = [op |-> req[r].op, jti |-> req[r].jti, sub |-> req[r].sub]
  BY DEF AllAsked, Asked
<1> QED BY <1>2, <1>3, <1>4, <1>5

\* What a handler under way asks for and has seen.
LEMMA ActiveView ==
    ASSUME NEW r \in Requests, Active(r)
    PROVE  /\ r \in Open
           /\ AllAsked[r] = [op |-> req[r].op, jti |-> req[r].jti, sub |-> req[r].sub]
           /\ AllSeen[r] = Seen(r)
BY DEF Open, AllAsked, Asked, AllSeen

\* The tables as the promise sees them.
LEMMA SameTokens ==
    ASSUME users' = users, jwts' = jwts, revokedTokens' = revokedTokens, now' = now
    PROVE  UNCHANGED <<users, jwts, RevokedJtis, ExpiredJtis>>
BY DEF RevokedJtis, ExpiredJtis

\* A request that is let in begins in the promise.
LEMMA BeginPromise ==
    ASSUME TypeInv, NEW r \in Requests, NEW op \in Op, NEW pc \in PC,
           NEW j \in Tokens \cup {None}, NEW u \in Users \cup {None}, NEW exp \in Nat,
           Begin(r, op, pc, j, u, exp),
           pc \notin {"idle", "whitelist", "accept", "sign", "done"},
           pc = "existence" => op = "issue",
           \/ op \in BearerOps /\ \E t \in jwts : /\ t.jti = j /\ t.sub = u
                                                  /\ j \notin ExpiredJtis
           \/ op \in {"issue", "callback", "delist"} /\ j = None /\ u \in Users
           \/ op = "status" /\ j \in Tokens /\ u = None
    PROVE  Promise!Begin(r)
<1>1. req'[r] = [op |-> op, pc |-> pc, jti |-> j, sub |-> u,
                 exp |-> exp, began |-> now, reply |-> "none"]
  BY BeginSlot
<1>2. /\ Active(r)' /\ Seen(r)' = {} /\ req'[r].reply = "none"
      /\ Asked(r)' = [op |-> op, jti |-> j, sub |-> u]
  BY <1>1 DEF Active, Seen, Asked
<1>3. ~Active(r) /\ UNCHANGED <<now, users, jwts, revokedTokens>>
  BY DEF Begin
<1>4. r \notin Open /\ AllSeen[r] = {}
  BY <1>3 DEF Open, AllSeen, Seen, Active
<1>5. /\ Open' = Open \cup {r}
      /\ AllAsked' = [AllAsked EXCEPT ![r] = [op |-> op, jti |-> j, sub |-> u]]
      /\ AllSeen' = [AllSeen EXCEPT ![r] = {}]
      /\ Answers' = [Answers EXCEPT ![r] = "none"]
  BY <1>2, BeginSlot, ViewOfSlot DEF Outcome
<1>6. AllSeen' = AllSeen
  BY <1>4, <1>5 DEF AllSeen
<1>7. \/ \E o \in Promise!BearerOps, t \in jwts :
           t.jti \notin ExpiredJtis /\ Promise!Ask(r, o, t.jti, t.sub)
      \/ \E o \in {"issue", "callback", "delist"}, v \in Users : Promise!Ask(r, o, None, v)
      \/ \E i \in Tokens : Promise!Ask(r, "status", i, None)
  BY <1>5 DEF Promise!Ask, Promise!BearerOps, BearerOps
<1> QED BY <1>3, <1>4, <1>5, <1>6, <1>7, SameTokens DEF Promise!Begin, Promise!tokens

\* A refusal, at the door or later, is one in the promise.
LEMMA RefusePromise ==
    ASSUME NEW r \in Requests, NEW op, NEW code \in Reply, Outcome(code) = "refused",
           req'[r] = Ended(op, code), \A q \in Requests \ {r} : req'[q] = req[q],
           UNCHANGED <<now, users, jwts, revokedTokens>>
    PROVE  Promise!Refuse(r)
BY AnswerEnds, SameTokens DEF Promise!Refuse, Promise!tokens

LEMMA ArrivePromise ==
    ASSUME IndInv, NEW r \in Requests, Arrive(r)
    PROVE  Promise!Next
<1> TypeInv /\ RowsMatchTokens
  BY DEF IndInv, RevocationInv
<1>1. ASSUME NEW op \in Op, Refuse(r, op, "REVOCATION_FAILED")
                \/ Refuse(r, op, "EXPIRED_TOKEN") \/ Refuse(r, op, "INVALID_TOKEN")
      PROVE  Promise!Next
  <2>1. PICK code \in {"REVOCATION_FAILED", "EXPIRED_TOKEN", "INVALID_TOKEN"} :
           Refuse(r, op, code)
    BY <1>1
  <2>2. code \in Reply /\ Outcome(code) = "refused"
    BY DEF Reply, Outcome
  <2>3. Promise!Refuse(r)
    BY <2>1, <2>2, RefuseSlot, RefusePromise DEF Refuse
  <2> QED BY <2>3 DEF Promise!Next
<1>2. CASE PresentToken(r)
  <2> PICK op \in BearerOps, t \in jwts :
        IF Verifies(t)
        THEN Begin(r, op, IF op = "revoke" THEN "lookup" ELSE "revocation",
                   t.jti, t.sub, t.exp)
        ELSE Refuse(r, op, IF op = "revoke" THEN "REVOCATION_FAILED" ELSE "EXPIRED_TOKEN")
    BY <1>2 DEF PresentToken
  <2>1. /\ t.jti \in Tokens /\ t.sub \in Users /\ t.exp \in Nat /\ op \in Op /\ now \in Nat
        /\ \A s \in jwts : s.jti = t.jti => s = t
    BY DEF TypeInv, TypeOK, JWT, Op, RowsMatchTokens
  <2>2. CASE Verifies(t)
    <3> DEFINE pc == IF op = "revoke" THEN "lookup" ELSE "revocation"
    <3>1. Begin(r, op, pc, t.jti, t.sub, t.exp)
      BY <2>2
    <3>2. pc \in {"revocation", "lookup"} /\ pc \in PC
      BY DEF PC, Awaited
    <3> HIDE DEF pc
    <3>3. ~(t.exp + Retention < now)
      BY <2>1, <2>2, TimeAssumption DEF Verifies
    <3>4. t.jti \notin ExpiredJtis
      BY <2>1, <3>3 DEF ExpiredJtis
    <3>5. Promise!Begin(r)
      BY <2>1, <3>1, <3>2, <3>4, BeginPromise
    <3> QED BY <3>5 DEF Promise!Next
  <2>3. CASE ~Verifies(t)
    BY <1>1, <2>1, <2>3
  <2> QED BY <2>2, <2>3
<1>3. CASE PresentMalformedToken(r)
  BY <1>1, <1>3 DEF PresentMalformedToken, Op
<1>4. CASE RequestToken(r)
  <2> PICK u \in Users : Begin(r, "issue", "existence", None, u, 0)
    BY <1>4 DEF RequestToken
  <2> "issue" \in Op /\ "existence" \in PC
    BY DEF Op, PC, Awaited
  <2>1. Promise!Begin(r)
    BY BeginPromise
  <2> QED BY <2>1 DEF Promise!Next
<1>5. CASE OAuthCallback(r)
  <2> PICK u \in Users : Begin(r, "callback", "upsert", None, u, 0)
    BY <1>5 DEF OAuthCallback
  <2> "callback" \in Op /\ "upsert" \in PC
    BY DEF Op, PC, Awaited
  <2>1. Promise!Begin(r)
    BY BeginPromise
  <2> QED BY <2>1 DEF Promise!Next
<1>6. CASE RevokeAllUserTokens(r)
  <2> PICK u \in Users : Begin(r, "delist", "delist", None, u, 0)
    BY <1>6 DEF RevokeAllUserTokens
  <2> "delist" \in Op /\ "delist" \in PC
    BY DEF Op, PC, Awaited
  <2>1. Promise!Begin(r)
    BY BeginPromise
  <2> QED BY <2>1 DEF Promise!Next
<1>7. CASE RequestStatus(r)
  <2> PICK j \in Tokens : Begin(r, "status", "status", j, None, 0)
    BY <1>7 DEF RequestStatus
  <2> "status" \in Op /\ "status" \in PC
    BY DEF Op, PC, Awaited
  <2>1. Promise!Begin(r)
    BY BeginPromise
  <2> QED BY <2>1 DEF Promise!Next
<1> QED BY <1>2, <1>3, <1>4, <1>5, <1>6, <1>7 DEF Arrive

\* A read that lets the handler go on shows a fact to the promise.
LEMMA SeePromise ==
    ASSUME TypeInv, NEW r \in Requests, NEW pc \in PC \ {"idle", "done"}, Goto(r, pc),
           Active(r), UNCHANGED <<now, users, jwts, revokedTokens>>,
           NEW fact, fact \in Promise!Needs(req[r].op),
           Promise!Holds(fact, req[r].jti, req[r].sub), Seen(r)' = Seen(r) \cup {fact}
    PROVE  Promise!See(r)
<1>1. /\ AllSeen' = [AllSeen EXCEPT ![r] = @ \cup {fact}]
      /\ Open' = Open /\ AllAsked' = AllAsked /\ Answers' = Answers
      /\ AllAsked[r] = [op |-> req[r].op, jti |-> req[r].jti, sub |-> req[r].sub]
      /\ r \in Open
  BY GotoShows
<1>2. /\ fact \in Promise!Needs(AllAsked[r].op)
      /\ Promise!Holds(fact, AllAsked[r].jti, AllAsked[r].sub)
  BY <1>1
<1>3. UNCHANGED Promise!tokens
  BY SameTokens DEF Promise!tokens
<1>4. UNCHANGED <<Promise!tokens, Open, AllAsked, Answers>>
  BY <1>1, <1>3
<1> QED BY <1>1, <1>2, <1>4 DEF Promise!See

LEMMA CheckPromise ==
    ASSUME IndInv, NEW r \in Requests,
           CheckRevocation(r) \/ CheckWhitelist(r) \/ UpsertUser(r) \/ ReadUser(r)
    PROVE  [Promise!Next]_PromiseVars
<1> USE DEF PC, Awaited, Reply
<1>0. TypeInv /\ req[r] \in Request /\ WellFormed(r)
  BY DEF IndInv, TypeInv, TypeOK
<1>1. ASSUME NEW code \in {"TOKEN_REVOKED", "USER_NOT_FOUND", "WHITELIST_REVOKED",
                          "NO_TOKEN", "INTERNAL_ERROR"},
             Answer(r, code), UNCHANGED <<now, users, jwts, revokedTokens>>
      PROVE  Promise!Next
  <2>1. code \in Reply /\ Outcome(code) = "refused"
    BY DEF Outcome
  <2>2. req'[r] = Ended(req[r].op, code) /\ \A q \in Requests \ {r} : req'[q] = req[q]
    BY <1>0, <1>1, <2>1, AnswerSlot
  <2>3. Promise!Refuse(r)
    BY <1>1, <2>1, <2>2, RefusePromise
  <2> QED BY <2>3 DEF Promise!Next
<1>2. CASE CheckRevocation(r)
  <2>1. CASE IsRevoked(req[r].jti)
    BY <1>1, <1>2, <2>1 DEF CheckRevocation
  <2>2. CASE ~IsRevoked(req[r].jti)
    <3> PICK pc \in {"whitelist", "accept"} :
           /\ Goto(r, pc)
           /\ pc = "accept" <=> req[r].op = "protectNoList"
      BY <1>2, <2>2 DEF CheckRevocation, AfterRevocation
    <3>1. req[r].op \in {"protect", "protectNoList", "refresh"} /\ req[r].pc = "revocation"
      BY <1>0, <1>2 DEF CheckRevocation, WellFormed
    <3>2. req'[r].pc = pc /\ req'[r].op = req[r].op
      BY <1>0, GotoSlot
    <3>3. Seen(r)' = Seen(r) \cup {"valid"}
      BY <3>1, <3>2 DEF Seen
    <3>4. Promise!Holds("valid", req[r].jti, req[r].sub)
      BY <2>2 DEF Promise!Holds, IsRevoked, RevokedJtis
    <3>5. "valid" \in Promise!Needs(req[r].op)
      BY <3>1 DEF Promise!Needs, Promise!Promised
    <3>6. Active(r) /\ UNCHANGED <<now, users, jwts, revokedTokens>>
      BY <1>2, <3>1 DEF Active, CheckRevocation
    <3>7. Promise!See(r)
      BY <1>0, <3>3, <3>4, <3>5, <3>6, SeePromise
    <3> QED BY <3>7 DEF Promise!Next
  <2> QED BY <2>1, <2>2
<1>3. ASSUME NEW pc \in {"existence", "accept"}, Goto(r, pc), UNCHANGED users,
             users[req[r].sub] = "whitelisted",
             \/ CheckWhitelist(r) /\ (pc = "existence" <=> req[r].op = "refresh")
             \/ UpsertUser(r) /\ pc = "existence"
      PROVE  Promise!Next
  <2>1. \/ req[r].op \in {"protect", "refresh"} /\ req[r].pc = "whitelist"
        \/ req[r].op = "callback" /\ req[r].pc = "upsert"
    BY <1>0, <1>3 DEF CheckWhitelist, UpsertUser, WellFormed
  <2>2. req'[r].pc = pc /\ req'[r].op = req[r].op
    BY <1>0, <1>3, GotoSlot
  <2>3. Seen(r)' = Seen(r) \cup {"listed"}
    BY <1>3, <2>1, <2>2 DEF Seen
  <2>4. Promise!Holds("listed", req[r].jti, req[r].sub)
    BY <1>3 DEF Promise!Holds
  <2>5. "listed" \in Promise!Needs(req[r].op)
    BY <2>1 DEF Promise!Needs, Promise!Promised
  <2>6. Active(r) /\ UNCHANGED <<now, jwts, revokedTokens>>
    BY <1>3, <2>1 DEF Active, CheckWhitelist, UpsertUser
  <2>7. Promise!See(r)
    BY <1>0, <1>3, <2>3, <2>4, <2>5, <2>6, SeePromise
  <2> QED BY <2>7 DEF Promise!Next
<1>4. CASE CheckWhitelist(r)
  <2>1. \/ \E code \in {"USER_NOT_FOUND", "WHITELIST_REVOKED"} : Answer(r, code)
        \/ /\ users[req[r].sub] = "whitelisted"
           /\ Goto(r, IF req[r].op = "refresh" THEN "existence" ELSE "accept")
    BY <1>0, <1>4 DEF CheckWhitelist, WellFormed, TypeInv, TypeOK, Account
  <2> QED BY <1>1, <1>3, <1>4, <2>1 DEF CheckWhitelist
<1>5. CASE UpsertUser(r)
  <2> DEFINE u == req[r].sub
  <2>1. u \in Users /\ users \in [Users -> Account] /\ req[r].pc = "upsert"
        /\ req[r].op = "callback"
    BY <1>0, <1>5 DEF UpsertUser, WellFormed, TypeInv, TypeOK
  <2>2. CASE users[u] = "whitelisted"
    <3>1. users' = users
      BY <1>5, <2>1, <2>2 DEF UpsertUser
    <3> QED BY <1>3, <1>5, <2>2, <3>1 DEF UpsertUser
  <2>3. CASE users[u] = "pending"
    <3>1. users' = users
      BY <1>5, <2>1, <2>3 DEF UpsertUser
    <3> QED BY <1>1, <1>5, <2>3, <3>1 DEF UpsertUser
  <2>4. CASE users[u] = "absent"
    <3>1. users' = [users EXCEPT ![u] = "pending"] /\ users'[u] = "pending"
      BY <1>5, <2>1, <2>4 DEF UpsertUser
    <3>2. /\ Answer(r, "WHITELIST_REVOKED")
          /\ UNCHANGED <<now, jwts, revokedTokens>>
      BY <1>5, <3>1 DEF UpsertUser
    <3>3. Promise!End(r, "refused")
      BY <1>0, <3>2, AnswerSlot, AnswerEnds DEF Outcome
    <3>0. Active(r)
      BY <2>1 DEF Active
    <3>a. AllAsked[r] = [op |-> req[r].op, jti |-> req[r].jti, sub |-> req[r].sub]
      BY <3>0, ActiveView
    <3>4. r \in Open /\ AllAsked[r].op = "callback" /\ AllAsked[r].sub = u
      BY <2>1, <3>0, <3>a, ActiveView
    <3>5. UNCHANGED <<jwts, RevokedJtis, ExpiredJtis>>
      BY <3>2 DEF RevokedJtis, ExpiredJtis
    <3>6. Promise!Register(r)
      BY <2>4, <3>1, <3>3, <3>4, <3>5 DEF Promise!Register
    <3> QED BY <3>6 DEF Promise!Next
  <2> QED BY <2>1, <2>2, <2>3, <2>4 DEF Account
<1>6. CASE ReadUser(r)
  <2>1. req[r].pc = "existence" /\ req[r].op \in MintingOps
    BY <1>0, <1>6 DEF ReadUser, WellFormed
  <2>2. CASE users[req[r].sub] # "absent"
    <3>1. Goto(r, "sign")
      BY <1>6, <2>2 DEF ReadUser
    <3>2. req'[r].pc = "sign" /\ req'[r].op = req[r].op
      BY <1>0, <3>1, GotoSlot
    <3>3. Seen(r)' = Seen(r) \cup {"exists"}
      BY <2>1, <3>2 DEF Seen
    <3>4. Promise!Holds("exists", req[r].jti, req[r].sub)
      BY <2>2 DEF Promise!Holds
    <3>5. "exists" \in Promise!Needs(req[r].op)
      BY <2>1 DEF Promise!Needs, Promise!Promised, MintingOps
    <3>6. Active(r) /\ UNCHANGED <<now, users, jwts, revokedTokens>>
      BY <1>6, <2>1 DEF Active, ReadUser
    <3>7. Promise!See(r)
      BY <1>0, <3>1, <3>3, <3>4, <3>5, <3>6, SeePromise
    <3> QED BY <3>7 DEF Promise!Next
  <2>3. CASE users[req[r].sub] = "absent"
    <3>1. \E code \in {"USER_NOT_FOUND", "NO_TOKEN", "INTERNAL_ERROR"} : Answer(r, code)
      BY <1>6, <2>3 DEF ReadUser
    <3> QED BY <1>1, <1>6, <3>1 DEF ReadUser
  <2> QED BY <2>2, <2>3
<1> QED BY <1>2, <1>4, <1>5, <1>6

LEMMA SuccessPromise ==
    ASSUME IndInv, NEW r \in Requests, Accept(r) \/ Sign(r)
    PROVE  Promise!Next
<1> USE DEF PC, Awaited, Reply
<1>0. TypeInv /\ req[r] \in Request /\ WellFormed(r) /\ RowsMatchTokens
  BY DEF IndInv, TypeInv, TypeOK, RevocationInv
<1>a. Active(r)
  BY DEF Accept, Sign, Active
<1>b. AllAsked[r] = [op |-> req[r].op, jti |-> req[r].jti, sub |-> req[r].sub]
      /\ r \in Open /\ AllSeen[r] = Seen(r)
  BY <1>a, ActiveView
<1>1. CASE Accept(r)
  <2>1. req[r].pc = "accept" /\ req[r].op \in {"protect", "protectNoList"}
    BY <1>0, <1>1 DEF Accept, WellFormed
  <2>2. Promise!Needs(req[r].op) \subseteq Seen(r)
    BY <2>1 DEF Promise!Needs, Promise!Promised, Seen
  <2>3. Answer(r, "ACCEPTED") /\ UNCHANGED Promise!tokens
    BY <1>1, SameTokens DEF Accept, Promise!tokens
  <2>4. Promise!End(r, "ACCEPTED")
    BY <1>0, <2>3, AnswerSlot, AnswerEnds DEF Outcome
  <2>5. Promise!Accept(r)
    BY <1>b, <2>1, <2>2, <2>3, <2>4 DEF Promise!Accept
  <2> QED BY <2>5 DEF Promise!Next
<1>2. CASE Sign(r)
  <2>1. /\ req[r].pc = "sign" /\ req[r].op \in {"refresh", "issue", "callback"}
        /\ req[r].op \in Operations
    BY <1>0, <1>2 DEF Sign, WellFormed, MintingOps
  <2>2. Promise!Needs(req[r].op) \subseteq Seen(r)
    BY <2>1 DEF Promise!Needs, Promise!Promised, Seen
  <2>3. Answer(r, "TOKEN") /\ UNCHANGED <<now, users, revokedTokens>>
    BY <1>2 DEF Sign
  <2>4. Promise!End(r, "TOKEN")
    BY <1>0, <2>3, AnswerSlot, AnswerEnds DEF Outcome
  <2>5. PICK j \in Fresh :
           jwts' = jwts \cup {[jti |-> j, sub |-> req[r].sub, exp |-> now + Lifetime]}
    BY <1>2 DEF Sign
  <2> DEFINE new == [jti |-> j, sub |-> req[r].sub, exp |-> now + Lifetime]
  <2>6. new.sub = req[r].sub /\ \A old \in jwts : old.jti # new.jti
    BY <2>5 DEF Fresh
  <2>7. now \in Nat /\ ~(new.exp + Retention < now)
    BY <1>0, TimeAssumption DEF TypeInv, TypeOK
  <2>8. jwts' = jwts \cup {new} /\ new \in jwts'
    BY <2>5
  <2> HIDE DEF new
  <2>9. RevokedJtis' = RevokedJtis /\ ExpiredJtis' = ExpiredJtis
    BY <2>3, <2>7, <2>8 DEF RevokedJtis, ExpiredJtis
  <2>10. Promise!Sign(r)
    BY <1>b, <2>1, <2>2, <2>3, <2>4, <2>6, <2>8, <2>9 DEF Promise!Sign
  <2> QED BY <2>10 DEF Promise!Next
<1> QED BY <1>1, <1>2

LEMMA RevocationPromise ==
    ASSUME IndInv, NEW r \in Requests,
           \/ LookupRevocation(r) \/ CreateRevocation(r) \/ CreateRevocationUnconfirmed(r)
           \/ Delist(r) \/ ReadStatus(r) \/ DatabaseFault(r)
    PROVE  [Promise!Next]_PromiseVars
<1> USE DEF PC, Awaited, Reply
<1>0. TypeInv /\ req[r] \in Request /\ WellFormed(r)
  BY DEF IndInv, TypeInv, TypeOK
<1>a. Active(r)
  BY DEF LookupRevocation, CreateRevocation, CreateRevocationUnconfirmed, Delist,
     ReadStatus, DatabaseFault, Active
<1>b. AllAsked[r] = [op |-> req[r].op, jti |-> req[r].jti, sub |-> req[r].sub]
      /\ r \in Open
  BY <1>a, ActiveView
<1>1. ASSUME NEW code \in {"REVOCATION_FAILED", "TOKEN_REVOKED", "NO_TOKEN",
                          "INTERNAL_ERROR"},
             Answer(r, code), UNCHANGED <<now, users, jwts, revokedTokens>>
      PROVE  Promise!Next
  <2>1. code \in Reply /\ Outcome(code) = "refused"
    BY DEF Outcome
  <2>2. req'[r] = Ended(req[r].op, code) /\ \A q \in Requests \ {r} : req'[q] = req[q]
    BY <1>0, <1>1, <2>1, AnswerSlot
  <2>3. Promise!Refuse(r)
    BY <1>1, <2>1, <2>2, RefusePromise
  <2> QED BY <2>3 DEF Promise!Next
<1>2. ASSUME req[r].op = "revoke", NEW code \in {"REVOKED", "REVOCATION_FAILED"},
             Answer(r, code), UNCHANGED <<now, users, jwts>>,
             RevokedJtis' = RevokedJtis \cup {req[r].jti}
      PROVE  Promise!Next
  <2>1. Promise!End(r, Outcome(code))
    BY <1>0, <1>2, AnswerSlot, AnswerEnds
  <2>2. Promise!End(r, "REVOKED") \/ Promise!End(r, "refused")
    BY <1>2, <2>1 DEF Outcome
  <2>3. ExpiredJtis' = ExpiredJtis
    BY <1>2 DEF ExpiredJtis
  <2>4. Promise!Revoke(r)
    BY <1>b, <1>2, <2>2, <2>3 DEF Promise!Revoke
  <2> QED BY <2>4 DEF Promise!Next
<1>3. CASE LookupRevocation(r)
  <2>1. req[r].op = "revoke" /\ req[r].pc = "lookup"
    BY <1>0, <1>3 DEF LookupRevocation, WellFormed
  <2>2. CASE IsRevoked(req[r].jti)
    <3>1. RevokedJtis' = RevokedJtis \cup {req[r].jti}
      BY <1>3, <2>2 DEF LookupRevocation, IsRevoked, RevokedJtis
    <3> QED BY <1>2, <1>3, <2>1, <2>2, <3>1 DEF LookupRevocation
  <2>3. CASE ~IsRevoked(req[r].jti)
    <3>1. Goto(r, "create") /\ UNCHANGED <<now, users, jwts, revokedTokens>>
      BY <1>3, <2>3 DEF LookupRevocation
    <3>2. req'[r].pc = "create" /\ req'[r].op = req[r].op
      BY <1>0, <3>1, GotoSlot
    <3>3. Seen(r)' = Seen(r)
      BY <2>1, <3>2 DEF Seen
    <3>4. UNCHANGED <<Open, AllAsked, Answers>> /\ AllSeen' = [AllSeen EXCEPT ![r] = Seen(r)]
      BY <1>0, <1>a, <3>1, <3>3, GotoShows
    <3>5. AllSeen' = AllSeen
      BY <3>4 DEF AllSeen
    <3> QED BY <3>1, <3>4, <3>5, SameTokens DEF PromiseVars
  <2> QED BY <2>2, <2>3
<1>4. CASE CreateRevocation(r) \/ CreateRevocationUnconfirmed(r)
  <2>1. req[r].op = "revoke" /\ NewRow(r).jti = req[r].jti
    BY <1>0, <1>4 DEF CreateRevocation, CreateRevocationUnconfirmed, WellFormed, NewRow
  <2>2. CASE revokedTokens' = revokedTokens \cup {NewRow(r)}
             /\ \E code \in {"REVOKED", "REVOCATION_FAILED"} : Answer(r, code)
    <3>1. RevokedJtis' = RevokedJtis \cup {req[r].jti}
      BY <2>1, <2>2 DEF RevokedJtis
    <3> QED BY <1>2, <1>4, <2>1, <2>2, <3>1
            DEF CreateRevocation, CreateRevocationUnconfirmed
  <2>3. CASE revokedTokens' = revokedTokens /\ Answer(r, "REVOCATION_FAILED")
    BY <1>1, <1>4, <2>3 DEF CreateRevocation, CreateRevocationUnconfirmed
  <2> QED BY <1>4, <2>2, <2>3 DEF CreateRevocation, CreateRevocationUnconfirmed
<1>5. CASE Delist(r)
  <2>1. req[r].op = "delist" /\ req[r].sub \in Users
    BY <1>0, <1>5 DEF Delist, WellFormed
  <2>2. CASE users[req[r].sub] = "absent"
    BY <1>1, <1>5, <2>2 DEF Delist
  <2>3. CASE users[req[r].sub] # "absent"
    <3>1. Answer(r, "DELISTED") /\ users' = [users EXCEPT ![req[r].sub] = "pending"]
      BY <1>5, <2>3 DEF Delist
    <3>2. Promise!End(r, "DELISTED")
      BY <1>0, <3>1, AnswerSlot, AnswerEnds DEF Outcome
    <3>3. UNCHANGED <<jwts, RevokedJtis, ExpiredJtis>>
      BY <1>5 DEF Delist, RevokedJtis, ExpiredJtis
    <3>4. Promise!Delist(r)
      BY <1>b, <2>1, <2>3, <3>1, <3>2, <3>3 DEF Promise!Delist
    <3> QED BY <3>4 DEF Promise!Next
  <2> QED BY <2>2, <2>3
<1>6. CASE ReadStatus(r)
  <2>1. req[r].op = "status"
    BY <1>0, <1>6 DEF ReadStatus, WellFormed
  <2>2. IsRevoked(req[r].jti) <=> req[r].jti \in RevokedJtis
    BY DEF IsRevoked, RevokedJtis
  <2> DEFINE code == IF req[r].jti \in RevokedJtis THEN "REVOKED" ELSE "NOT_REVOKED"
  <2>3. Answer(r, code) /\ code \in Reply /\ Outcome(code) = code
    BY <1>6, <2>2 DEF ReadStatus, Outcome
  <2>4. Promise!End(r, code)
    <3> HIDE DEF code
    <3> QED BY <1>0, <2>3, AnswerSlot, AnswerEnds
  <2>5. UNCHANGED Promise!tokens
    BY <1>6, SameTokens DEF ReadStatus, Promise!tokens
  <2>6. Promise!Report(r)
    BY <1>b, <2>1, <2>4, <2>5 DEF Promise!Report
  <2> QED BY <2>6 DEF Promise!Next
<1>7. CASE DatabaseFault(r)
  <2>1. FaultReply(req[r].op, req[r].pc) \in
           {"REVOCATION_FAILED", "TOKEN_REVOKED", "NO_TOKEN", "INTERNAL_ERROR"}
    BY DEF FaultReply
  <2> QED BY <1>1, <1>7, <2>1 DEF DatabaseFault
<1> QED BY <1>3, <1>4, <1>5, <1>6, <1>7

LEMMA EnvironmentPromise ==
    ASSUME IndInv,
           \/ \E u \in Users, status \in Account : AdminSetsAccount(u, status)
           \/ Cleanup \/ Tick \/ UNCHANGED vars
    PROVE  [Promise!Next]_PromiseVars
<1>0. TypeInv /\ RevocationInv
  BY DEF IndInv
<1>1. UNCHANGED <<Open, AllAsked, AllSeen, Answers>>
  <2>1. req' = req
    BY DEF AdminSetsAccount, Cleanup, Tick, vars
  <2> QED BY <2>1 DEF Open, Active, AllAsked, Asked, AllSeen, Seen, Answers
<1>s. UNCHANGED Promise!session
  BY <1>1 DEF Promise!session
<1>2. ASSUME NEW u \in Users, NEW status \in Account, AdminSetsAccount(u, status)
      PROVE  Promise!Next
  <2>1. users' \in [Users -> {"absent", "pending", "whitelisted"}]
    BY <1>0, <1>2 DEF AdminSetsAccount, TypeInv, TypeOK, Account
  <2>2. UNCHANGED <<jwts, RevokedJtis, ExpiredJtis>>
    BY <1>2 DEF AdminSetsAccount, RevokedJtis, ExpiredJtis
  <2>3. Promise!Administer
    BY <1>s, <2>1, <2>2 DEF Promise!Administer
  <2> QED BY <2>3 DEF Promise!Next
<1>3. CASE Cleanup
  <2>1. PICK cutoff \in Cutoffs : revokedTokens' = revokedTokens \ ExpiredBefore(cutoff)
    BY <1>3 DEF Cleanup
  <2>2. RevokedJtis' \subseteq RevokedJtis
    BY <2>1 DEF RevokedJtis
  <2>3. ASSUME NEW j \in RevokedJtis \ RevokedJtis'
        PROVE  j \in ExpiredJtis
    <3>1. PICK row \in revokedTokens \ revokedTokens' : row.jti = j
      BY <2>3 DEF RevokedJtis
    <3>2. row.tokenExpiresAt + Retention < now
      BY <1>0, <2>1, <3>1, TimeAssumption
      DEF Cutoffs, ExpiredBefore, TypeInv, TypeOK, RevokedToken
    <3>3. PICK t \in jwts : t.jti = j /\ t.exp = row.tokenExpiresAt
      BY <1>0, <3>1 DEF RevocationInv, RowsMatchTokens
    <3> QED BY <3>2, <3>3 DEF ExpiredJtis
  <2>4. UNCHANGED <<users, jwts, ExpiredJtis>>
    BY <1>3 DEF Cleanup, ExpiredJtis
  <2>5. RevokedJtis \ RevokedJtis' \subseteq ExpiredJtis
    BY <2>3
  <2>6. Promise!Forget
    BY <1>s, <2>2, <2>4, <2>5 DEF Promise!Forget
  <2> QED BY <2>6 DEF Promise!Next
<1>4. CASE Tick
  <2>1. now' = now + 1 /\ now \in Nat /\ UNCHANGED <<users, jwts, RevokedJtis>>
    BY <1>0, <1>4 DEF Tick, TypeInv, TypeOK, RevokedJtis
  <2>2. ExpiredJtis \subseteq ExpiredJtis' /\ ExpiredJtis' \subseteq {t.jti : t \in jwts}
    BY <1>0, <2>1, TimeAssumption DEF ExpiredJtis, TypeInv, TypeOK, JWT
  <2>3. ASSUME NEW r \in Open, AllAsked[r].jti \in ExpiredJtis' \ ExpiredJtis
        PROVE  AllAsked[r].op = "status" \/ "valid" \in AllSeen[r]
    <3> DEFINE j == req[r].jti
    <3>1. r \in Requests /\ Active(r)
      BY DEF Open
    <3>2. AllAsked[r] = [op |-> req[r].op, jti |-> req[r].jti, sub |-> req[r].sub]
          /\ AllSeen[r] = Seen(r)
      BY <3>1, ActiveView
    <3>3. req[r] \in Request /\ WellFormed(r) /\ VerifiedRecently(r)
      BY <1>0, <3>1 DEF TypeInv, TypeOK, RevocationInv
    <3>4. PICK t \in jwts : t.jti = j /\ t.exp + Retention < now + 1
      BY <2>1, <2>3, <3>2 DEF ExpiredJtis
    <3>5. t.exp \in Nat /\ j \in Tokens /\ j # None
      BY <1>0, <3>4, NoneAssumption DEF TypeInv, TypeOK, JWT
    <3>6. req[r].pc \notin {"revocation", "lookup", "create"}
      <4> SUFFICES ASSUME req[r].pc \in {"revocation", "lookup", "create"} PROVE FALSE
        OBVIOUS
      <4> DEFINE own == [jti |-> req[r].jti, sub |-> req[r].sub, exp |-> req[r].exp]
      <4>1. /\ own \in jwts
            /\ req[r].began < req[r].exp + ClockTolerance
        BY <3>3 DEF VerifiedRecently
      <4>2. own = t
        BY <1>0, <3>4, <4>1 DEF RevocationInv, RowsMatchTokens
      <4>3. now < req[r].began + RequestSpan
        BY <1>4, <3>1 DEF Tick
      <4>4. req[r].exp = t.exp /\ req[r].began \in Nat
        BY <3>3, <4>2 DEF Request
      <4> QED BY <2>1, <3>4, <3>5, <4>1, <4>3, <4>4, TimeAssumption
    <3>7. req[r].op \notin {"issue", "callback", "delist"}
      BY <3>3, <3>5 DEF WellFormed
    <3>8. \/ req[r].pc = "status"
          \/ req[r].pc \in {"whitelist", "accept", "existence", "sign", "upsert", "delist"}
      BY <3>1, <3>3, <3>6 DEF Active, Request, PC, Awaited
    <3>9. CASE req[r].pc = "status"
      BY <3>2, <3>3, <3>9 DEF WellFormed
    <3>10. CASE req[r].pc \in {"whitelist", "accept", "existence", "sign", "upsert", "delist"}
      <4>1. /\ req[r].op \in {"protect", "protectNoList", "refresh"}
            /\ req[r].pc \in {"whitelist", "accept", "existence", "sign"}
        BY <3>3, <3>7, <3>10 DEF WellFormed, MintingOps
      <4> QED BY <3>2, <4>1 DEF Seen
    <3> QED BY <3>8, <3>9, <3>10
  <2>4. Promise!Expire
    BY <1>s, <2>1, <2>2, <2>3 DEF Promise!Expire
  <2> QED BY <2>4 DEF Promise!Next
<1>5. CASE UNCHANGED vars
  <2>1. UNCHANGED <<users, jwts, RevokedJtis, ExpiredJtis>>
    BY <1>5, SameTokens DEF vars
  <2> QED BY <1>1, <2>1 DEF PromiseVars
<1> QED BY <1>2, <1>3, <1>4, <1>5

\* The service keeps the promise of RevocableTokens: each step of a handler, of the
\* administrator, of the cleanup job or of the clock is a step there or changes nothing
\* there, so no interleaving of the handlers' reads and writes lets a request succeed
\* without the facts it needs, or loses a revocation that still matters.  The whitelist is
\* waived for GET /api/token alone, and where clients cannot ask for that, for nothing.
THEOREM ServiceKeepsPromise == Spec => ImplementsRevocableTokens
<1>1. IndInv /\ [Next]_vars => [Promise!Next]_PromiseVars
  <2> SUFFICES ASSUME IndInv, [Next]_vars PROVE [Promise!Next]_PromiseVars
    OBVIOUS
  <2>1. CASE \E r \in Requests : Arrive(r)
    BY <2>1, ArrivePromise
  <2>2. CASE \E r \in Requests : Serve(r)
    BY <2>2, CheckPromise, SuccessPromise, RevocationPromise DEF Serve
  <2>3. CASE \/ \E u \in Users, status \in Account : AdminSetsAccount(u, status)
             \/ Cleanup \/ Tick \/ UNCHANGED vars
    BY <2>3, EnvironmentPromise
  <2> QED BY <2>1, <2>2, <2>3 DEF Next
<1> QED BY <1>1, InitPromise, ServiceInvariant, PTL
        DEF Spec, ImplementsRevocableTokens, Promise!Spec, PromiseVars,
            Promise!tokens, Promise!session
=============================================================================
