------------------------------ MODULE RateLimit ------------------------------
(***************************************************************************)
(* The rate limiter in front of a group of routes, on several instances    *)
(* of the service.  createRateLimiter runs while the module loads, right   *)
(* after the Redis client of RedisClient was created, and settles for good *)
(* where the instance counts.  The three exported limiters differ in their *)
(* limits and count apart, so one of them is modelled.                     *)
(***************************************************************************)
EXTENDS RedisClient, FiniteSetsExt

CONSTANTS
    Clients,     \* req.ip of the callers
    MaxRequests, \* max of the limiter
    WindowMs,    \* windowMs of the limiter
    MaxHits,     \* bound of the requests one counter counts in a window
    MaxTime,     \* bound of the clock
    Shared       \* names the counters in Redis

ASSUME LimitAssumption ==
    /\ {MaxRequests, WindowMs, MaxHits} \subseteq Nat \ {0}
    /\ MaxTime \in Nat
    /\ Shared \notin Instances

VARIABLES
    now,
    store,    \* where each instance counts: Shared, or the instance itself (its memory)
    counter,  \* the counters of each store
    admitted  \* history: requests each instance has let through since its start, by client,
              \* up to each moment

limitVars == <<now, store, counter, admitted>>
vars == <<redisVars, limitVars>>

-----------------------------------------------------------------------------
\* totalHits and resetTime as the stores of express-rate-limit keep them; a counter whose
\* resetTime has come is as good as none.
Counter == [totalHits : Nat, resetTime : Nat]

TypeOK ==
    /\ RedisTypeOK
    /\ now \in 0..MaxTime
    /\ store \in [Instances -> Instances \cup {Shared}]
    /\ counter \in [Instances \cup {Shared} -> [Clients -> Counter]]
    /\ admitted \in [Instances -> [Clients -> [0..MaxTime -> Nat]]]

NoHits == [ip \in Clients |-> [totalHits |-> 0, resetTime |-> 0]]

NoneAdmitted == [ip \in Clients |-> [t \in 0..MaxTime |-> 0]]

\* One more request let through now, and so up to every later moment.
Let(i, ip) ==
    [admitted EXCEPT ![i][ip] = [t \in 0..MaxTime |-> IF t >= now THEN @[t] + 1 ELSE @[t]]]

\* A variant of ChooseStore that takes every client that exists for a connected one.
ChooseStoreMutant(i, clientStatus) == IF clientStatus # "end" THEN Shared ELSE i

\* createRateLimiter: the Redis store if the client is ready at this moment, else memory.
ChooseStore(i, clientStatus) == IF clientStatus = "ready" THEN Shared ELSE i

\* A variant of Incremented that begins the window anew with every request.
IncrementedMutant(c) ==
    [totalHits |-> IF c.resetTime <= now THEN 1 ELSE c.totalHits + 1,
     resetTime |-> now + WindowMs]

\* What increment makes of a counter: a new window begins when the last one is over.
Incremented(c) ==
    IF c.resetTime <= now
    THEN [totalHits |-> 1, resetTime |-> now + WindowMs]
    ELSE [c EXCEPT !.totalHits = @ + 1]

\* The limiter admits the request that makes c of its counter.
Admits(c) == c.totalHits <= MaxRequests

-----------------------------------------------------------------------------
\* A variant of Hit that lets one request too many through.
HitMutant(i, ip) ==
    LET next == Incremented(counter[store[i]][ip]) IN
    /\ next.totalHits <= MaxHits
    /\ counter' = [counter EXCEPT ![store[i]][ip] = next]
    /\ admitted' = IF next.totalHits <= MaxRequests + 1
                   THEN Let(i, ip) ELSE admitted
    /\ UNCHANGED <<now, store, redisVars>>

\* A request of ip reaches instance i: it goes on to its handler, or is answered 429.
\* One step, as it is for a store in memory; no instance ever gets another, since status
\* is never "ready" when createRateLimiter looks.
Hit(i, ip) ==
    LET next == Incremented(counter[store[i]][ip]) IN
    /\ next.totalHits <= MaxHits
    /\ counter' = [counter EXCEPT ![store[i]][ip] = next]
    /\ admitted' = IF Admits(next)
                   THEN Let(i, ip) ELSE admitted
    /\ UNCHANGED <<now, store, redisVars>>

\* Instance i is replaced: redis-client.ts and then rate-limit.ts are loaded anew, in one
\* go, and what the old process counted is gone.
Load(i) ==
    /\ status' = [status EXCEPT ![i] = "connecting"]
    /\ attempts' = [attempts EXCEPT ![i] = 0]
    /\ cmd' = [cmd EXCEPT ![i] = [c \in Commands |-> "none"]]
    /\ store' = [store EXCEPT ![i] = ChooseStore(i, status'[i])]
    /\ counter' = [counter EXCEPT ![i] = NoHits]
    /\ admitted' = [admitted EXCEPT ![i] = NoneAdmitted]
    /\ UNCHANGED <<now, redisUp>>

Tick ==
    /\ now < MaxTime
    /\ now' = now + 1
    /\ UNCHANGED <<store, counter, admitted, redisVars>>

Init ==
    /\ RedisInit
    /\ now = 0
    /\ store = [i \in Instances |-> ChooseStore(i, status[i])]
    /\ counter = [s \in Instances \cup {Shared} |-> NoHits]
    /\ admitted = [i \in Instances |-> NoneAdmitted]

Next ==
    \/ \E i \in Instances : Load(i) \/ \E ip \in Clients : Hit(i, ip)
    \/ Tick
    \/ RedisNext /\ UNCHANGED limitVars

Spec == Init /\ [][Next]_vars

\* The service once every instance has been connected to Redis, before the first request.
ConnectedInit ==
    /\ redisUp = TRUE
    /\ status = [i \in Instances |-> "ready"]
    /\ attempts = [i \in Instances |-> 0]
    /\ cmd = [i \in Instances |-> [c \in Commands |-> "none"]]
    /\ now = 0
    /\ store = [i \in Instances |-> ChooseStore(i, "connecting")]
    /\ counter = [s \in Instances \cup {Shared} |-> NoHits]
    /\ admitted = [i \in Instances |-> NoneAdmitted]

ConnectedSpec == ConnectedInit /\ [][Next]_vars

-----------------------------------------------------------------------------
(* Properties                                                              *)

\* The requests of ip that instance i has let through up to time t.
Through(i, ip, t) ==
    IF t < 0 THEN 0 ELSE admitted[i][ip][IF t > MaxTime THEN MaxTime ELSE t]

\* Those it has let through from time t on, for the length of a window.
AdmittedFrom(i, ip, t) == Through(i, ip, t + WindowMs - 1) - Through(i, ip, t - 1)

\* Windows are fixed, so a client may use up two of them around their border; but in no
\* stretch of WindowMs, wherever it begins and whatever happens to Redis, does a process
\* let more than that through.
ProcessBound ==
    \A i \in Instances, ip \in Clients, t \in 0..MaxTime :
        AdmittedFrom(i, ip, t) <= 2 * MaxRequests

\* The inductive invariant of the limiter.

\* No instance ever counts in Redis.
StoreInv == \A i \in Instances : store[i] = i

Smaller(a, b) == IF a < b THEN a ELSE b

\* What one process has counted and let through: nothing before its first window; since the
\* window began what it counted, up to the limit, and all of it before the window ends; in
\* the length of a window before that no more than the limit.
WindowInv(i, ip) ==
    LET c == counter[i][ip]  start == c.resetTime - WindowMs IN
    IF c.resetTime = 0
    THEN admitted[i][ip] = [t \in 0..MaxTime |-> 0]
    ELSE /\ start \in 0..now /\ c.totalHits > 0
         /\ Through(i, ip, c.resetTime - 1) - Through(i, ip, start - 1)
              = Smaller(c.totalHits, MaxRequests)
         /\ Through(i, ip, start - 1) - Through(i, ip, start - WindowMs) <= MaxRequests

\* The count never falls with time, and nothing is let through later than now or after the
\* end of the last window.
CountInv(i, ip) ==
    /\ \A t, u \in 0..MaxTime : t <= u => admitted[i][ip][t] <= admitted[i][ip][u]
    /\ \A t \in 0..MaxTime :
          t >= now \/ t >= counter[i][ip].resetTime - 1
          => admitted[i][ip][t] = admitted[i][ip][MaxTime]

IndInv ==
    /\ TypeOK
    /\ StoreInv
    /\ \A i \in Instances, ip \in Clients : WindowInv(i, ip) /\ CountInv(i, ip)
    /\ ProcessBound

\* A request is refused only while the process has let MaxRequests of the client through
\* within the last WindowMs: the requests it refuses never prolong the refusal.
RefusedOnlyAtLimit ==
    [][\A i \in Instances, ip \in Clients :
         LET before == counter[store[i]][ip]  after == counter'[store[i]][ip] IN
         after # before /\ ~Admits(after)
         => AdmittedFrom(i, ip, now - WindowMs + 1) >= MaxRequests]_vars

\* "Rate limits are enforced consistently across all instances" (docs/security.md:945):
\* as long as Redis can be reached, the bound of one process holds for all together.
SharedBound ==
    \A ip \in Clients, t \in 0..MaxTime :
        MapThenSumSet(LAMBDA i : AdmittedFrom(i, ip, t), Instances) <= 2 * MaxRequests
=============================================================================
