----------------------------- MODULE OAuthState -----------------------------
(***************************************************************************)
(* The OAuth state of a login: stored in Redis by GET /auth/github, read   *)
(* and deleted by GET /auth/github/callback.  Several instances of the     *)
(* service share the Redis server.  SETEX, GET and DEL each take effect in *)
(* a step of their own: the pipeline of validateState is sent in one go,   *)
(* but it is no transaction and other connections' commands may come in    *)
(* between its two commands.                                               *)
(***************************************************************************)
EXTENDS Integers, FiniteSets

CONSTANTS
    States,               \* the values randomBytes(32) may return
    Callbacks,            \* callback requests (a browser may repeat one)
    Ttl,                  \* OAUTH_STATE_TTL_SECONDS
    MaxRetriesPerRequest, \* ioredis: how often a command is sent again
    MaxTime,              \* bound of the clock
    None                  \* no entry, no value

ASSUME NatAssumption == {Ttl, MaxRetriesPerRequest, MaxTime} \subseteq Nat

ASSUME NoneAssumption == None \notin States \cup Nat \cup [timestamp : Nat, until : Nat]

VARIABLES
    now,
    issuedAt,  \* Date.now() of generateState, per state
    phase,     \* progress of generateState, per state
    store,     \* Redis: the entry under oauth:state:<s>
    cb,        \* progress of each callback
    disturbed  \* history: states whose Redis commands met a fault

vars == <<now, issuedAt, phase, store, cb, disturbed>>

-----------------------------------------------------------------------------
Phase == {"unused", "setex", "stored", "offered", "failed"}

\* The stored JSON carries the timestamp; Redis keeps the entry before the instant until.
OAuthStateData == [timestamp : Nat, until : Nat]

\* Where a callback is: its GET, its DEL or the handling of the replies is next.
\* "refused" ended before Redis, "invalid" and "valid" are the results of validateState.
PC == {"idle", "get", "del", "reply", "refused", "invalid", "valid"}

Callback == [pc : PC, state : States \cup {None}, getValue : Nat \cup {None},
             delResult : {0, 1}, retries : Nat]

TypeOK ==
    /\ now \in Nat
    /\ issuedAt \in [States -> Nat \cup {None}]
    /\ phase \in [States -> Phase]
    /\ store \in [States -> OAuthStateData \cup {None}]
    /\ cb \in [Callbacks -> Callback]
    /\ disturbed \subseteq States

InRedis == {"get", "del", "reply"}

Live(s) == store[s] # None /\ now < store[s].until

Goto(c, pc) == cb' = [cb EXCEPT ![c].pc = pc]

-----------------------------------------------------------------------------
(* GET /auth/github                                                        *)

GenerateState(s) ==
    /\ phase[s] = "unused"
    /\ phase' = [phase EXCEPT ![s] = "setex"]
    /\ issuedAt' = [issuedAt EXCEPT ![s] = now]
    /\ UNCHANGED <<now, store, cb, disturbed>>

\* A variant of SetState that gives Ttl to Redis as milliseconds.
SetStateMutant(s) ==
    /\ phase[s] = "setex"
    /\ phase' = [phase EXCEPT ![s] = "stored"]
    /\ store' = [store EXCEPT ![s] = [timestamp |-> issuedAt[s],
                                     until |-> now + Ttl \div 1000]]
    /\ UNCHANGED <<now, issuedAt, cb, disturbed>>

\* Redis executes SETEX: the Ttl of the entry counts from here.
SetState(s) ==
    /\ phase[s] = "setex"
    /\ phase' = [phase EXCEPT ![s] = "stored"]
    /\ store' = [store EXCEPT ![s] = [timestamp |-> issuedAt[s], until |-> now + Ttl]]
    /\ UNCHANGED <<now, issuedAt, cb, disturbed>>

\* The reply arrives and the login page with the authorization URL is sent.
OfferState(s) ==
    /\ phase[s] = "stored"
    /\ phase' = [phase EXCEPT ![s] = "offered"]
    /\ UNCHANGED <<now, issuedAt, store, cb, disturbed>>

\* The connection is lost before the reply: ioredis sends SETEX again, or gives up and
\* the error page is sent.
LoseSetReply(s) ==
    /\ \/ phase[s] \in {"setex", "stored"} /\ phase' = [phase EXCEPT ![s] = "failed"]
       \/ phase[s] = "stored" /\ phase' = [phase EXCEPT ![s] = "setex"]
    /\ UNCHANGED <<now, issuedAt, store, cb, disturbed>>

-----------------------------------------------------------------------------
(* GET /auth/github/callback                                               *)

\* A browser that was offered s comes back with it.
Present(c) ==
    /\ cb[c].pc = "idle"
    /\ \E s \in States :
         /\ phase[s] = "offered"
         /\ cb' = [cb EXCEPT ![c].pc = "get", ![c].state = s]
    /\ UNCHANGED <<now, issuedAt, phase, store, disturbed>>

\* GitHub reports an error, or code or state is missing: Redis is not asked.
PresentRefused(c) ==
    /\ cb[c].pc = "idle"
    /\ Goto(c, "refused")
    /\ UNCHANGED <<now, issuedAt, phase, store, disturbed>>

GetState(c) ==
    LET s == cb[c].state IN
    /\ cb[c].pc = "get"
    /\ cb' = [cb EXCEPT ![c].pc = "del",
                        ![c].getValue = IF Live(s) THEN store[s].timestamp ELSE None]
    /\ UNCHANGED <<now, issuedAt, phase, store, disturbed>>

DelState(c) ==
    LET s == cb[c].state IN
    /\ cb[c].pc = "del"
    /\ cb' = [cb EXCEPT ![c].pc = "reply", ![c].delResult = IF Live(s) THEN 1 ELSE 0]
    /\ store' = [store EXCEPT ![s] = None]
    /\ UNCHANGED <<now, issuedAt, phase, disturbed>>

\* Variants of Accepted: without the check of DEL's reply, without the check of the age.
AcceptedMutant(c) ==
    /\ cb[c].getValue # None
    /\ now - cb[c].getValue <= Ttl

AcceptedLateMutant(c) ==
    /\ cb[c].getValue # None
    /\ cb[c].delResult = 1

\* validateState accepts a value that was there, that this pipeline deleted, and that is
\* no older than Ttl.
Accepted(c) ==
    /\ cb[c].getValue # None
    /\ cb[c].delResult = 1
    /\ now - cb[c].getValue <= Ttl

\* A variant of Resume that sends no answer when the state is rejected.
ResumeMutant(c) ==
    /\ cb[c].pc = "reply"
    /\ Accepted(c)
    /\ Goto(c, "valid")
    /\ UNCHANGED <<now, issuedAt, phase, store, disturbed>>

Resume(c) ==
    /\ cb[c].pc = "reply"
    /\ Goto(c, IF Accepted(c) THEN "valid" ELSE "invalid")
    /\ UNCHANGED <<now, issuedAt, phase, store, disturbed>>

\* The connection is lost while the pipeline is under way.  Without any reply ioredis
\* sends the pipeline again, up to its limit; otherwise the missing replies are errors,
\* which validateState turns into null.
LoseReplies(c) ==
    /\ cb[c].pc \in InRedis
    /\ \/ /\ cb[c].retries < MaxRetriesPerRequest
          /\ cb' = [cb EXCEPT ![c].pc = "get", ![c].getValue = None, ![c].delResult = 0,
                              ![c].retries = @ + 1]
       \/ Goto(c, "invalid")
    /\ disturbed' = disturbed \cup {cb[c].state}
    /\ UNCHANGED <<now, issuedAt, phase, store>>

-----------------------------------------------------------------------------
(* Redis and time                                                          *)

\* Redis restarts, or evicts: any of its entries may be gone.
LoseEntries ==
    /\ \E gone \in SUBSET {s \in States : store[s] # None} :
         /\ gone # {}
         /\ store' = [s \in States |-> IF s \in gone THEN None ELSE store[s]]
         /\ disturbed' = disturbed \cup gone
    /\ UNCHANGED <<now, issuedAt, phase, cb>>

Tick ==
    /\ now < MaxTime
    /\ now' = now + 1
    /\ UNCHANGED <<issuedAt, phase, store, cb, disturbed>>

-----------------------------------------------------------------------------
Init ==
    /\ now = 0
    /\ issuedAt = [s \in States |-> None]
    /\ phase = [s \in States |-> "unused"]
    /\ store = [s \in States |-> None]
    /\ cb = [c \in Callbacks |-> [pc |-> "idle", state |-> None, getValue |-> None,
                                  delResult |-> 0, retries |-> 0]]
    /\ disturbed = {}

Login(s) == GenerateState(s) \/ SetState(s) \/ OfferState(s) \/ LoseSetReply(s)

\* Progress of a callback that has come in.
Validate(c) == GetState(c) \/ DelState(c) \/ Resume(c)

Next ==
    \/ \E s \in States : Login(s)
    \/ \E c \in Callbacks :
         Present(c) \/ PresentRefused(c) \/ Validate(c) \/ LoseReplies(c)
    \/ LoseEntries
    \/ Tick

Spec == Init /\ [][Next]_vars

\* A reachable Redis executes the commands sent to it and the event loop resumes the
\* callback; lost connections are never required.
FairSpec == Spec /\ \A c \in Callbacks : WF_vars(Validate(c))

-----------------------------------------------------------------------------
(* Properties                                                              *)

\* However many callbacks present a state, on however many instances, and whatever the
\* order of their GETs and DELs in Redis, one at most goes on to exchange a code.
ValidatedOnce ==
    \A c, d \in Callbacks :
        /\ cb[c].pc = "valid" /\ cb[d].pc = "valid"
        /\ cb[c].state = cb[d].state
        => c = d

\* Concurrent callbacks never reject each other all: unless a fault met the state or its
\* time is over, one of the callbacks that presented it was validated.
SomeoneWins ==
    \A s \in States :
        LET mine == {c \in Callbacks : cb[c].state = s} IN
        /\ mine # {} /\ s \notin disturbed
        /\ \A c \in mine : cb[c].pc \notin InRedis
        /\ now < issuedAt[s] + Ttl
        => \E c \in mine : cb[c].pc = "valid"

\* Every callback is answered.
CallbackAnswered ==
    \A c \in Callbacks : cb[c].pc \in InRedis ~> cb[c].pc \notin InRedis

\* The commands and replies that a callback may still wait for, its retries included.
StepsLeft == [get |-> 3, del |-> 2, reply |-> 1]
CallsLeft(c) == 3 * (MaxRetriesPerRequest - cb[c].retries) + StepsLeft[cb[c].pc]

\* Every step of a callback ends it or brings its end nearer, broken connections included:
\* ioredis sends a pipeline again only as often as maxRetriesPerRequest allows.
CallbacksAdvance ==
    [][\A c \in Callbacks :
          cb[c].pc \in InRedis /\ cb'[c].pc \in InRedis /\ cb'[c] # cb[c]
          => CallsLeft(c)' \in 1 .. CallsLeft(c) - 1]_vars

\* The states that may still be redeemed: still being stored, in Redis, or taken out by
\* a callback that has not yet handled the replies.
Taken(c) ==
    cb[c].pc = "reply" /\ cb[c].getValue # None /\ cb[c].delResult = 1

Outstanding ==
    {s \in States : \/ phase[s] \in {"setex", "stored"}
                    \/ store[s] # None
                    \/ \E c \in Callbacks : cb[c].state = s /\ Taken(c)}

Redeemed == {s \in States : \E c \in Callbacks : cb[c].state = s /\ cb[c].pc = "valid"}

Abstract == INSTANCE OneTimeState WITH outstanding <- Outstanding, redeemed <- Redeemed

\* The Redis protocol implements one-time states with a time limit.
ImplementsOneTimeState == Abstract!Spec

\* The inductive invariant behind ValidatedOnce and the refinement: a state that a
\* callback has taken out of Redis is neither there any more nor with another callback.
Took(c) == Taken(c) \/ cb[c].pc = "valid"

CallbackInv(c) ==
    /\ cb[c].pc \in InRedis \cup {"invalid", "valid"} => cb[c].state \in States
    /\ cb[c].state \in States =>
          /\ phase[cb[c].state] = "offered"
          /\ cb[c].getValue \in {None, issuedAt[cb[c].state]}
    /\ cb[c].pc = "idle" => cb[c].getValue = None
    /\ Took(c) => store[cb[c].state] = None

StateInv(s) ==
    /\ phase[s] # "unused" => issuedAt[s] \in Nat
    /\ phase[s] = "unused" => issuedAt[s] = None /\ store[s] = None
    /\ store[s] # None => store[s].timestamp = issuedAt[s]

TakenOnce ==
    \A c, d \in Callbacks :
        Took(c) /\ Took(d) /\ cb[c].state = cb[d].state => c = d

ProtocolInv ==
    /\ TypeOK
    /\ \A c \in Callbacks : CallbackInv(c)
    /\ \A s \in States : StateInv(s)
    /\ TakenOnce

\* And the one behind SomeoneWins: as long as nothing disturbs a stored state and its time
\* is not over, it is in Redis and the callbacks that have read it have seen it, or one of
\* them has taken it.
Fresh(s) == s \notin disturbed /\ now < issuedAt[s] + Ttl

Seen(c) == cb[c].pc = "get" \/ (cb[c].pc = "del" /\ cb[c].getValue # None)

WinnerInv ==
    /\ \A c \in Callbacks : cb[c].pc \in {"idle", "refused"} => cb[c].state = None
    /\ \A s \in States :
          /\ issuedAt[s] # None => issuedAt[s] <= now
          /\ store[s] # None => issuedAt[s] + Ttl <= store[s].until
          /\ phase[s] \in {"stored", "offered"} /\ Fresh(s) =>
                \/ store[s] # None /\ \A c \in Callbacks : cb[c].state = s => Seen(c)
                \/ \E c \in Callbacks : cb[c].state = s /\ Took(c)

IndInv == ProtocolInv /\ WinnerInv
=============================================================================
