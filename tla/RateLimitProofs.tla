--------------------------- MODULE RateLimitProofs ---------------------------
(***************************************************************************)
(* Proofs about RateLimit, for every number of instances and clients, and  *)
(* every limit and length of the window: what one process lets through,    *)
(* and when it refuses.                                                    *)
(***************************************************************************)
EXTENDS RateLimit, TLAPS

-----------------------------------------------------------------------------
(* Types                                                                   *)

\* Every step of the Redis client keeps its part of the types.
LEMMA RedisTypeStep ==
    ASSUME RedisTypeOK, NEW i \in Instances,
           \/ Connection(i) \/ Outage
           \/ \E c \in Commands : Execute(i, c) \/ Reply(i, c)
           \/ UNCHANGED redisVars
    PROVE  RedisTypeOK'
<1> USE RetriesAssumption
<1>1. CASE Ready(i)
  BY <1>1 DEF Ready, RedisTypeOK
<1>2. CASE Drop(i)
  <2>1. Flushed(i) \in [Commands -> {"none", "sent", "done", "failed"}]
    BY DEF Flushed, RedisTypeOK
  <2>2. cmd' \in [Instances -> [Commands -> {"none", "sent", "done", "failed"}]]
    BY <1>2, <2>1 DEF Drop, Closed, RedisTypeOK
  <2>3. attempts' \in [Instances -> 0..MaxRetries]
    BY <1>2 DEF Drop, Closed, RedisTypeOK
  <2> QED BY <1>2, <2>2, <2>3 DEF Drop, Closed, RedisTypeOK
<1>3. CASE Reconnect(i)
  BY <1>3 DEF Reconnect, RedisTypeOK
<1>4. CASE Outage
  BY <1>4 DEF Outage, RedisTypeOK
<1>5. CASE \E c \in Commands : Execute(i, c) \/ Reply(i, c)
  BY SMTT(30), <1>5 DEF Execute, Reply, RedisTypeOK
<1>6. CASE UNCHANGED redisVars
  BY <1>6 DEF redisVars, RedisTypeOK
<1> QED BY <1>1, <1>2, <1>3, <1>4, <1>5, <1>6 DEF Connection

CounterType == [Instances \cup {Shared} -> [Clients -> Counter]]
HistoryType == [Instances -> [Clients -> [0..MaxTime -> Nat]]]

LEMMA IncrementedFields ==
    ASSUME TypeOK, NEW c \in Counter
    PROVE  /\ Incremented(c) \in Counter
           /\ c.resetTime <= now => /\ Incremented(c).totalHits = 1
                                    /\ Incremented(c).resetTime = now + WindowMs
           /\ c.resetTime > now => /\ Incremented(c).totalHits = c.totalHits + 1
                                   /\ Incremented(c).resetTime = c.resetTime
<1>1. /\ now \in Nat /\ WindowMs \in Nat
      /\ c = [totalHits |-> c.totalHits, resetTime |-> c.resetTime]
      /\ c.totalHits \in Nat /\ c.resetTime \in Nat
  BY LimitAssumption DEF TypeOK, Counter
<1>2. CASE c.resetTime <= now
  BY <1>1, <1>2 DEF Incremented, Counter
<1>3. CASE c.resetTime > now
  <2>1. ~(c.resetTime <= now)
    BY <1>1, <1>3
  <2>2. Incremented(c) = [totalHits |-> c.totalHits + 1, resetTime |-> c.resetTime]
    BY <1>1, <2>1 DEF Incremented
  <2> QED BY <1>1, <2>1, <2>2 DEF Counter
<1> QED BY <1>1, <1>2, <1>3

\* What a hit does to the counters and to the history.
LEMMA HitEffect ==
    ASSUME TypeOK, StoreInv, NEW i \in Instances, NEW ip \in Clients, Hit(i, ip)
    PROVE  /\ counter' \in CounterType /\ admitted' \in HistoryType
           /\ UNCHANGED <<now, store, redisVars>>
           /\ counter'[i][ip] = Incremented(counter[i][ip])
           /\ admitted'[i][ip] =
                IF Admits(Incremented(counter[i][ip]))
                THEN [t \in 0..MaxTime |-> IF t >= now THEN admitted[i][ip][t] + 1
                                                       ELSE admitted[i][ip][t]]
                ELSE admitted[i][ip]
           /\ \A j \in Instances, k \in Clients : j # i \/ k # ip =>
                 counter'[j][k] = counter[j][k] /\ admitted'[j][k] = admitted[j][k]
<1> DEFINE n == Incremented(counter[i][ip])
           h == [t \in 0..MaxTime |-> IF t >= now THEN admitted[i][ip][t] + 1
                                                  ELSE admitted[i][ip][t]]
<1>1. /\ counter \in CounterType /\ admitted \in HistoryType /\ store[i] = i
      /\ admitted[i][ip] \in [0..MaxTime -> Nat]
  BY DEF TypeOK, StoreInv, CounterType, HistoryType
<1>2. n \in Counter
  BY IncrementedFields DEF TypeOK
<1>3. h \in [0..MaxTime -> Nat]
  <2>1. \A t \in 0..MaxTime : admitted[i][ip][t] \in Nat
    BY <1>1
  <2>2. \A t \in 0..MaxTime : (IF t >= now THEN admitted[i][ip][t] + 1
                                           ELSE admitted[i][ip][t]) \in Nat
    BY <2>1
  <2> QED BY <2>2
<1>4. /\ counter' = [counter EXCEPT ![i][ip] = n]
      /\ admitted' = IF Admits(n) THEN [admitted EXCEPT ![i][ip] = h] ELSE admitted
      /\ UNCHANGED <<now, store, redisVars>>
  BY <1>1 DEF Hit, Let
<1> HIDE DEF n, h
<1>5. /\ counter' \in CounterType /\ counter'[i][ip] = n
      /\ \A j \in Instances, k \in Clients : j # i \/ k # ip => counter'[j][k] = counter[j][k]
  BY <1>1, <1>2, <1>4 DEF CounterType
<1>6. /\ admitted' \in HistoryType
      /\ admitted'[i][ip] = IF Admits(n) THEN h ELSE admitted[i][ip]
      /\ \A j \in Instances, k \in Clients : j # i \/ k # ip => admitted'[j][k] = admitted[j][k]
  BY <1>1, <1>3, <1>4 DEF HistoryType
<1> QED BY <1>4, <1>5, <1>6 DEF n, h

LEMMA LoadEffect ==
    ASSUME TypeOK, StoreInv, NEW i \in Instances, Load(i)
    PROVE  /\ RedisTypeOK' /\ now' = now /\ store' = store
           /\ counter' \in CounterType /\ admitted' \in HistoryType
           /\ \A ip \in Clients : /\ counter'[i][ip] = [totalHits |-> 0, resetTime |-> 0]
                                  /\ admitted'[i][ip] = [t \in 0..MaxTime |-> 0]
           /\ \A j \in Instances \ {i} : counter'[j] = counter[j] /\ admitted'[j] = admitted[j]
<1>1. status'[i] = "connecting" /\ RedisTypeOK'
  BY RetriesAssumption DEF Load, TypeOK, RedisTypeOK
<1>2. ChooseStore(i, status'[i]) = i
  BY <1>1 DEF ChooseStore
<1>3. store' = store
  BY <1>2 DEF Load, TypeOK, StoreInv
<1>4. NoHits \in [Clients -> Counter] /\ NoneAdmitted \in [Clients -> [0..MaxTime -> Nat]]
  BY DEF NoHits, NoneAdmitted, Counter
<1>5. /\ counter' \in CounterType /\ counter'[i] = NoHits
      /\ \A j \in Instances \ {i} : counter'[j] = counter[j]
  BY <1>4 DEF Load, TypeOK, CounterType
<1>6. /\ admitted' \in HistoryType /\ admitted'[i] = NoneAdmitted
      /\ \A j \in Instances \ {i} : admitted'[j] = admitted[j]
  BY <1>4 DEF Load, TypeOK, HistoryType
<1>7. \A ip \in Clients : /\ counter'[i][ip] = [totalHits |-> 0, resetTime |-> 0]
                          /\ admitted'[i][ip] = [t \in 0..MaxTime |-> 0]
  BY <1>5, <1>6 DEF NoHits, NoneAdmitted
<1>8. now' = now
  BY DEF Load
<1> QED BY <1>1, <1>3, <1>5, <1>6, <1>7, <1>8

LEMMA TypeStep == TypeOK /\ StoreInv /\ [Next]_vars => TypeOK' /\ StoreInv'
<1> SUFFICES ASSUME TypeOK, StoreInv, [Next]_vars PROVE TypeOK' /\ StoreInv'
  OBVIOUS
<1>1. ASSUME NEW i \in Instances, NEW ip \in Clients, Hit(i, ip) PROVE TypeOK' /\ StoreInv'
  BY <1>1, HitEffect DEF TypeOK, StoreInv, RedisTypeOK, redisVars, CounterType, HistoryType
<1>2. ASSUME NEW i \in Instances, Load(i) PROVE TypeOK' /\ StoreInv'
  BY <1>2, LoadEffect DEF TypeOK, StoreInv, CounterType, HistoryType
<1>3. CASE Tick
  BY <1>3, LimitAssumption DEF Tick, TypeOK, StoreInv, RedisTypeOK, redisVars
<1>4. CASE RedisNext /\ UNCHANGED limitVars
  <2>1. RedisTypeOK'
    BY <1>4, RedisTypeStep DEF RedisNext, TypeOK, Outage, RedisTypeOK
  <2> QED BY <1>4, <2>1 DEF TypeOK, StoreInv, limitVars
<1>5. CASE UNCHANGED vars
  BY <1>5 DEF vars, limitVars, redisVars, TypeOK, StoreInv, RedisTypeOK
<1> QED BY <1>1, <1>2, <1>3, <1>4, <1>5 DEF Next

-----------------------------------------------------------------------------
(* The arithmetic of windows, for the count f of one client at one process: *)
(* n is now, h and R are totalHits and resetTime of its counter.            *)

Mono(f) == \A t, u \in Int : t <= u => f[t] <= f[u]

Flat(f, n, R) ==
    \A t, u \in Int : (t >= n /\ u >= n) \/ (t >= R - 1 /\ u >= R - 1) => f[t] = f[u]

Before(f) == \A t \in Int : t < 0 => f[t] = 0

Window(f, n, h, R) ==
    IF R = 0
    THEN \A t \in Int : f[t] = 0
    ELSE /\ R - WindowMs \in 0..n /\ h > 0
         /\ f[R - 1] - f[R - WindowMs - 1] = Smaller(h, MaxRequests)
         /\ f[R - WindowMs - 1] - f[R - WindowMs - WindowMs] <= MaxRequests

Bounded(f) ==
    \A t \in 0..MaxTime : f[t + WindowMs - 1] - f[t - 1] <= 2 * MaxRequests

Counts(f, n, h, R) ==
    /\ f \in [Int -> Nat] /\ Mono(f) /\ Flat(f, n, R) /\ Before(f)
    /\ Window(f, n, h, R) /\ Bounded(f)

\* One more request counted at n, let through within the limit.
Plus(f, n, h) ==
    [t \in Int |-> IF t >= n /\ h <= MaxRequests THEN f[t] + 1 ELSE f[t]]

LEMMA PlusFacts ==
    ASSUME NEW f, NEW n \in Nat, NEW h \in Nat, NEW R \in Nat, NEW h1 \in Nat,
           Counts(f, n, h1, R)
    PROVE  /\ Plus(f, n, h) \in [Int -> Nat] /\ Mono(Plus(f, n, h)) /\ Before(Plus(f, n, h))
           /\ \A t \in Int : Plus(f, n, h)[t] = f[t] + (IF t >= n /\ h <= MaxRequests
                                                       THEN 1 ELSE 0)
<1>1. f \in [Int -> Nat] /\ Mono(f) /\ Before(f)
  BY DEF Counts
<1>2. \A t \in Int : f[t] \in Nat
  BY <1>1
<1>3. \A t \in Int : /\ Plus(f, n, h)[t] \in Nat
                     /\ Plus(f, n, h)[t] = f[t] + (IF t >= n /\ h <= MaxRequests
                                                   THEN 1 ELSE 0)
  BY <1>2 DEF Plus
<1>4. Plus(f, n, h) \in [Int -> Nat]
  BY <1>3 DEF Plus
<1>5. Mono(Plus(f, n, h))
  <2> SUFFICES ASSUME NEW t \in Int, NEW u \in Int, t <= u
               PROVE  Plus(f, n, h)[t] <= Plus(f, n, h)[u]
    BY DEF Mono
  <2>1. f[t] <= f[u] /\ f[t] \in Nat /\ f[u] \in Nat
    BY <1>1, <1>2 DEF Mono
  <2>2. t >= n => u >= n
    OBVIOUS
  <2> QED BY <1>3, <2>1, <2>2
<1>6. Before(Plus(f, n, h))
  BY <1>1, <1>3 DEF Before
<1> QED BY <1>3, <1>4, <1>5, <1>6

\* A hit within the current window.
LEMMA SameWindow ==
    ASSUME NEW f, NEW n \in Nat, NEW h \in Nat, NEW R \in Nat, Counts(f, n, h, R), n < R
    PROVE  Counts(Plus(f, n, h + 1), n, h + 1, R)
<1> DEFINE g == Plus(f, n, h + 1)
<1>0. h + 1 \in Nat
  OBVIOUS
<1>1. /\ g \in [Int -> Nat] /\ Mono(g) /\ Before(g)
      /\ \A t \in Int : g[t] = f[t] + (IF t >= n /\ h + 1 <= MaxRequests THEN 1 ELSE 0)
  BY <1>0, PlusFacts
<1> HIDE DEF g
<1>2. /\ \A t \in Int : f[t] \in Nat /\ g[t] \in Nat
      /\ WindowMs \in Nat \ {0} /\ MaxRequests \in Nat \ {0}
      /\ Mono(f) /\ Flat(f, n, R) /\ Window(f, n, h, R) /\ Bounded(f)
  BY <1>1, LimitAssumption DEF Counts
<1> DEFINE s == R - WindowMs
<1>3. /\ s \in 0..n /\ s \in Int /\ h > 0 /\ R # 0
      /\ f[R - 1] - f[s - 1] = Smaller(h, MaxRequests)
      /\ f[s - 1] - f[s - WindowMs] <= MaxRequests
  BY <1>2 DEF Window
<1>s. s - 1 < n /\ s - WindowMs < n /\ R - 1 >= n /\ s - 1 \in Int /\ s - WindowMs \in Int
      /\ R - 1 \in Int /\ R = s + WindowMs
  BY <1>2, <1>3
<1> HIDE DEF s
<1>4. g[s - 1] = f[s - 1] /\ g[s - WindowMs] = f[s - WindowMs]
      /\ g[R - 1] = f[R - 1] + (IF h + 1 <= MaxRequests THEN 1 ELSE 0)
  BY <1>1, <1>2, <1>s
<1>5. g[R - 1] - g[s - 1] = Smaller(h + 1, MaxRequests)
  BY <1>2, <1>3, <1>4, <1>s DEF Smaller
<1>6. Window(g, n, h + 1, R)
  BY <1>3, <1>4, <1>5 DEF Window, s
<1>7. Flat(g, n, R)
  <2> SUFFICES ASSUME NEW t \in Int, NEW u \in Int,
                      (t >= n /\ u >= n) \/ (t >= R - 1 /\ u >= R - 1)
               PROVE  g[t] = g[u]
    BY DEF Flat
  <2>1. t >= n /\ u >= n
    BY <1>s
  <2> QED BY <1>1, <1>2, <2>1 DEF Flat
<1>8. Bounded(g)
  <2> SUFFICES ASSUME NEW t \in 0..MaxTime
               PROVE  g[t + WindowMs - 1] - g[t - 1] <= 2 * MaxRequests
    BY DEF Bounded
  <2>1. /\ t + WindowMs - 1 \in Int /\ t - 1 \in Int
    BY <1>2, LimitAssumption
  <2>b. f[t + WindowMs - 1] - f[t - 1] <= 2 * MaxRequests
    BY <1>2 DEF Bounded
  <2>2. CASE t + WindowMs - 1 < n
    BY <1>1, <1>2, <2>1, <2>b, <2>2
  <2>3. CASE t + WindowMs - 1 >= n
    <3>1. g[t + WindowMs - 1] = g[R - 1]
      BY <1>7, <1>s, <2>1, <2>3 DEF Flat
    <3>2. g[R - 1] - g[s - 1] <= MaxRequests
      BY <1>2, <1>5 DEF Smaller
    <3>3. s - WindowMs <= t - 1
      BY <1>2, <1>3, <1>s, <2>3
    <3>4. g[s - WindowMs] <= g[t - 1]
      BY <1>1, <1>s, <2>1, <3>3 DEF Mono
    <3> QED BY <1>2, <1>3, <1>4, <1>s, <2>1, <3>1, <3>2, <3>4
  <2> QED BY <1>s, <1>2, <2>1, <2>2, <2>3
<1> QED BY <1>1, <1>6, <1>7, <1>8 DEF Counts, g

\* A hit that begins a window.
LEMMA NewWindow ==
    ASSUME NEW f, NEW n \in Nat, NEW h \in Nat, NEW R \in Nat, Counts(f, n, h, R), R <= n
    PROVE  Counts(Plus(f, n, 1), n, 1, n + WindowMs)
<1> DEFINE g == Plus(f, n, 1)
<1>0. 1 \in Nat
  OBVIOUS
<1>1. /\ g \in [Int -> Nat] /\ Mono(g) /\ Before(g)
      /\ \A t \in Int : g[t] = f[t] + (IF t >= n /\ 1 <= MaxRequests THEN 1 ELSE 0)
  BY <1>0, PlusFacts
<1> HIDE DEF g
<1>2. /\ \A t \in Int : f[t] \in Nat /\ g[t] \in Nat
      /\ WindowMs \in Nat \ {0} /\ MaxRequests \in Nat \ {0}
      /\ Mono(f) /\ Flat(f, n, R) /\ Window(f, n, h, R) /\ Bounded(f) /\ Before(f)
  BY <1>1, LimitAssumption DEF Counts
<1>3. \A t \in Int : g[t] = f[t] + (IF t >= n THEN 1 ELSE 0)
  BY <1>1, <1>2
<1>4. \A t, u \in Int : t >= n - 1 /\ u >= n - 1 => f[t] = f[u]
  BY <1>2 DEF Flat
<1>5. f[n - 1] - f[n - WindowMs] <= MaxRequests
  <2>1. CASE R = 0
    BY <1>2, <2>1 DEF Window
  <2>2. CASE R # 0
    <3>1. /\ f[R - 1] - f[R - WindowMs - 1] = Smaller(h, MaxRequests)
          /\ R - WindowMs - 1 <= n - WindowMs
      BY <1>2, <2>2 DEF Window
    <3>2. f[R - WindowMs - 1] <= f[n - WindowMs] /\ f[R - 1] = f[n - 1]
      BY <1>2, <3>1 DEF Mono, Flat
    <3>3. /\ f[R - 1] \in Nat /\ f[R - WindowMs - 1] \in Nat /\ f[n - 1] \in Nat
          /\ f[n - WindowMs] \in Nat /\ Smaller(h, MaxRequests) <= MaxRequests
          /\ Smaller(h, MaxRequests) \in Nat
      BY <1>2 DEF Smaller
    <3> QED BY <1>2, <3>1, <3>2, <3>3
  <2> QED BY <2>1, <2>2
<1>6. /\ g[n - 1] = f[n - 1] /\ g[n - WindowMs] = f[n - WindowMs] + (IF WindowMs = 0 THEN 1 ELSE 0)
      /\ g[n + WindowMs - 1] = f[n - 1] + 1
  <2>1. f[n + WindowMs - 1] = f[n - 1]
    BY <1>2, <1>4
  <2> QED BY <1>2, <1>3, <2>1
<1>7. Window(g, n, 1, n + WindowMs)
  <2>1. /\ (n + WindowMs) - WindowMs = n /\ n + WindowMs # 0 /\ n \in 0..n
        /\ (n + WindowMs) - WindowMs - 1 = n - 1
        /\ (n + WindowMs) - WindowMs - WindowMs = n - WindowMs
        /\ (n + WindowMs) - 1 = n + WindowMs - 1
    BY <1>2
  <2>2. g[n + WindowMs - 1] - g[n - 1] = 1 /\ Smaller(1, MaxRequests) = 1
    BY <1>2, <1>6 DEF Smaller
  <2>3. g[n - 1] - g[n - WindowMs] <= MaxRequests
    BY <1>2, <1>5, <1>6
  <2> QED BY <2>1, <2>2, <2>3 DEF Window
<1>8. Flat(g, n, n + WindowMs)
  <2> SUFFICES ASSUME NEW t \in Int, NEW u \in Int,
                      (t >= n /\ u >= n) \/ (t >= (n + WindowMs) - 1 /\ u >= (n + WindowMs) - 1)
               PROVE  g[t] = g[u]
    BY DEF Flat
  <2>1. t >= n /\ u >= n
    BY <1>2
  <2> QED BY <1>2, <1>3, <1>4, <2>1
<1>9. Bounded(g)
  <2> SUFFICES ASSUME NEW t \in 0..MaxTime
               PROVE  g[t + WindowMs - 1] - g[t - 1] <= 2 * MaxRequests
    BY DEF Bounded
  <2>1. /\ t + WindowMs - 1 \in Int /\ t - 1 \in Int
        /\ f[t + WindowMs - 1] \in Nat /\ f[t - 1] \in Nat
    BY <1>2, LimitAssumption
  <2>b. f[t + WindowMs - 1] - f[t - 1] <= 2 * MaxRequests
    BY <1>2 DEF Bounded
  <2>2. CASE t + WindowMs - 1 < n
    BY <1>2, <1>3, <2>1, <2>b, <2>2
  <2>3. CASE t + WindowMs - 1 >= n
    <3>1. g[t + WindowMs - 1] = f[n - 1] + 1
      BY <1>3, <1>4, <2>1, <2>3
    <3>2. n - WindowMs <= t - 1 /\ n - WindowMs \in Int
      BY <1>2, <2>3
    <3>3. g[t - 1] >= f[n - WindowMs]
      BY <1>2, <1>3, <2>1, <3>2 DEF Mono
    <3>4. f[n - 1] \in Nat /\ f[n - WindowMs] \in Nat /\ g[t - 1] \in Nat
      BY <1>2, <2>1, <3>2
    <3> QED BY <1>2, <1>5, <2>1, <3>1, <3>3, <3>4
  <2> QED BY <1>2, <2>1, <2>2, <2>3
<1> QED BY <1>1, <1>7, <1>8, <1>9 DEF Counts, g

LEMMA LaterCounts ==
    ASSUME NEW f, NEW n \in Nat, NEW h \in Nat, NEW R \in Nat, Counts(f, n, h, R)
    PROVE  Counts(f, n + 1, h, R)
<1>1. Flat(f, n + 1, R)
  BY DEF Counts, Flat
<1>2. Window(f, n + 1, h, R)
  BY DEF Counts, Window
<1> QED BY <1>1, <1>2 DEF Counts

-----------------------------------------------------------------------------
(* The limiter counts in this way                                          *)

Count(i, ip) == [t \in Int |-> Through(i, ip, t)]

WithinBound(i, ip) ==
    \A t \in 0..MaxTime : AdmittedFrom(i, ip, t) <= 2 * MaxRequests

PairInv(i, ip) == WindowInv(i, ip) /\ CountInv(i, ip) /\ WithinBound(i, ip)

LEMMA BoundParts == ProcessBound <=> \A i \in Instances, ip \in Clients : WithinBound(i, ip)
BY DEF ProcessBound, WithinBound

CountsPair(i, ip) ==
    Counts(Count(i, ip), now, counter[i][ip].totalHits, counter[i][ip].resetTime)

PairTyped(i, ip) ==
    /\ admitted[i][ip] \in [0..MaxTime -> Nat] /\ now \in 0..MaxTime
    /\ counter[i][ip].totalHits \in Nat /\ counter[i][ip].resetTime \in Nat

PairsTyped == \A i \in Instances, ip \in Clients : PairTyped(i, ip)

LEMMA TypedPairs == TypeOK => PairsTyped
BY DEF TypeOK, PairsTyped, PairTyped, Counter

LEMMA CountTyped ==
    ASSUME NEW i \in Instances, NEW ip \in Clients, PairTyped(i, ip)
    PROVE  Count(i, ip) \in [Int -> Nat] /\ Before(Count(i, ip))
<1>1. MaxTime \in Nat
  BY LimitAssumption
<1>2. \A t \in Int : Through(i, ip, t) \in Nat /\ (t < 0 => Through(i, ip, t) = 0)
  BY <1>1 DEF Through, PairTyped
<1> QED BY <1>2 DEF Count, Before

LEMMA PairCounts ==
    ASSUME NEW i \in Instances, NEW ip \in Clients, PairTyped(i, ip), PairInv(i, ip)
    PROVE  CountsPair(i, ip)
<1> DEFINE f == Count(i, ip)
           a == admitted[i][ip]
           R == counter[i][ip].resetTime
           h == counter[i][ip].totalHits
<1>1. /\ f \in [Int -> Nat] /\ Before(f) /\ MaxTime \in Nat /\ now \in 0..MaxTime
      /\ a \in [0..MaxTime -> Nat] /\ h \in Nat /\ R \in Nat
      /\ WindowMs \in Nat \ {0} /\ MaxRequests \in Nat
  BY CountTyped, LimitAssumption DEF PairTyped
<1>2. \A t \in Int : f[t] = IF t < 0 THEN 0 ELSE a[IF t > MaxTime THEN MaxTime ELSE t]
  BY DEF Count, Through
<1>3. /\ \A t, u \in 0..MaxTime : t <= u => a[t] <= a[u]
      /\ \A t \in 0..MaxTime : t >= now \/ t >= R - 1 => a[t] = a[MaxTime]
  BY DEF PairInv, CountInv
<1>4. IF R = 0
      THEN a = [t \in 0..MaxTime |-> 0]
      ELSE /\ R - WindowMs \in 0..now /\ h > 0
           /\ f[R - 1] - f[R - WindowMs - 1] = Smaller(h, MaxRequests)
           /\ f[R - WindowMs - 1] - f[R - WindowMs - WindowMs] <= MaxRequests
  <2>0. R \in Nat /\ WindowMs \in Nat
    BY <1>1
  <2>1. /\ R - 1 \in Int /\ R - WindowMs - 1 \in Int /\ R - WindowMs - WindowMs \in Int
    BY <2>0
  <2>2. /\ f[R - 1] = Through(i, ip, R - 1)
        /\ f[R - WindowMs - 1] = Through(i, ip, R - WindowMs - 1)
        /\ f[R - WindowMs - WindowMs] = Through(i, ip, R - WindowMs - WindowMs)
    BY <2>1 DEF Count
  <2> QED BY <2>2 DEF PairInv, WindowInv
<1>5. \A t \in 0..MaxTime : f[t + WindowMs - 1] - f[t - 1] <= 2 * MaxRequests
  BY <1>1 DEF PairInv, WithinBound, AdmittedFrom, Count
<1> HIDE DEF f, a, R, h
<1>6. Mono(f)
  <2> SUFFICES ASSUME NEW t \in Int, NEW u \in Int, t <= u PROVE f[t] <= f[u]
    BY DEF Mono
  <2>1. CASE t < 0
    BY <1>1, <1>2, <2>1
  <2>2. CASE t >= 0
    <3> DEFINE p == IF t > MaxTime THEN MaxTime ELSE t
               q == IF u > MaxTime THEN MaxTime ELSE u
    <3>1. p \in 0..MaxTime /\ q \in 0..MaxTime /\ p <= q /\ f[t] = a[p] /\ f[u] = a[q]
      BY <1>1, <1>2, <2>2
    <3> HIDE DEF p, q
    <3> QED BY <1>3, <3>1
  <2> QED BY <2>1, <2>2
<1>7. Window(f, now, h, R)
  <2>1. CASE R = 0
    BY <1>1, <1>2, <1>4, <2>1 DEF Window
  <2>2. CASE R # 0
    BY <1>4, <2>2 DEF Window
  <2> QED BY <2>1, <2>2
<1>8. Flat(f, now, R)
  <2>1. ASSUME NEW t \in Int, t >= now \/ t >= R - 1, R # 0 PROVE f[t] = a[MaxTime]
    <3> DEFINE p == IF t > MaxTime THEN MaxTime ELSE t
    <3>1. p \in 0..MaxTime /\ f[t] = a[p] /\ (p = MaxTime \/ p = t)
      BY <1>1, <1>2, <2>1
    <3> HIDE DEF p
    <3> QED BY <1>3, <2>1, <3>1
  <2>2. ASSUME R = 0, NEW t \in Int PROVE f[t] = 0
    BY <1>7, <2>2 DEF Window
  <2> QED BY <1>1, <2>1, <2>2 DEF Flat
<1> QED BY <1>1, <1>5, <1>6, <1>7, <1>8 DEF Counts, CountsPair, Bounded, f, R, h

LEMMA CountsAgain ==
    ASSUME NEW i \in Instances, NEW ip \in Clients, PairTyped(i, ip), CountsPair(i, ip)
    PROVE  PairInv(i, ip)
<1> DEFINE f == Count(i, ip)
           a == admitted[i][ip]
           R == counter[i][ip].resetTime
           h == counter[i][ip].totalHits
<1>1. /\ MaxTime \in Nat /\ now \in 0..MaxTime /\ a \in [0..MaxTime -> Nat]
      /\ h \in Nat /\ R \in Nat /\ WindowMs \in Nat \ {0} /\ MaxRequests \in Nat
      /\ Mono(f) /\ Flat(f, now, R) /\ Window(f, now, h, R) /\ Bounded(f)
  BY LimitAssumption DEF PairTyped, CountsPair, Counts
<1>. R \in Nat /\ WindowMs \in Nat /\ MaxTime \in Nat
  BY <1>1
<1>2. \A t \in 0..MaxTime : f[t] = a[t] /\ t \in Int
  BY <1>1 DEF Count, Through
<1>3. CountInv(i, ip)
  <2>1. \A t, u \in 0..MaxTime : t <= u => a[t] <= a[u]
    BY <1>1, <1>2 DEF Mono
  <2>2. \A t \in 0..MaxTime : t >= now \/ t >= R - 1 => f[t] = f[MaxTime]
    BY <1>1, <1>2 DEF Flat
  <2>3. \A t \in 0..MaxTime : t >= now \/ t >= R - 1 => a[t] = a[MaxTime]
    BY <1>1, <1>2, <2>2
  <2> QED BY <2>1, <2>3 DEF CountInv
<1>4. WindowInv(i, ip)
  <2>1. CASE R = 0
    <3>1. \A t \in 0..MaxTime : a[t] = 0
      BY <1>1, <1>2, <2>1 DEF Window
    <3>2. a = [t \in 0..MaxTime |-> 0]
      BY <1>1, <3>1
    <3> QED BY <2>1, <3>2 DEF WindowInv
  <2>2. CASE R # 0
    <3>1. /\ R - 1 \in Int /\ R - WindowMs - 1 \in Int /\ R - WindowMs - WindowMs \in Int
      OBVIOUS
    <3>2. /\ f[R - 1] = Through(i, ip, R - 1)
          /\ f[R - WindowMs - 1] = Through(i, ip, R - WindowMs - 1)
          /\ f[R - WindowMs - WindowMs] = Through(i, ip, R - WindowMs - WindowMs)
      BY <3>1 DEF Count
    <3>3. /\ R - WindowMs \in 0..now /\ h > 0
          /\ f[R - 1] - f[R - WindowMs - 1] = Smaller(h, MaxRequests)
          /\ f[R - WindowMs - 1] - f[R - WindowMs - WindowMs] <= MaxRequests
      BY <1>1, <2>2 DEF Window
    <3> QED BY <2>2, <3>2, <3>3 DEF WindowInv
  <2> QED BY <2>1, <2>2
<1>5. WithinBound(i, ip)
  <2> SUFFICES ASSUME NEW t \in 0..MaxTime PROVE AdmittedFrom(i, ip, t) <= 2 * MaxRequests
    BY DEF WithinBound
  <2>1. t + WindowMs - 1 \in Int /\ t - 1 \in Int
    OBVIOUS
  <2>2. f[t + WindowMs - 1] - f[t - 1] <= 2 * MaxRequests
    BY <1>1 DEF Bounded
  <2> QED BY <2>1, <2>2 DEF AdmittedFrom, Count
<1> QED BY <1>3, <1>4, <1>5 DEF PairInv

Pairs == \A i \in Instances, ip \in Clients : PairTyped(i, ip) /\ CountsPair(i, ip)

PairsInv == \A i \in Instances, ip \in Clients : PairInv(i, ip)

LEMMA PairsAgain == Pairs => PairsInv
BY CountsAgain DEF Pairs, PairsInv

-----------------------------------------------------------------------------
(* The theorems                                                            *)

LEMMA HitCounts ==
    ASSUME TypeOK, StoreInv, Pairs, NEW i \in Instances, NEW ip \in Clients, Hit(i, ip),
           TypeOK'
    PROVE  Pairs'
<1> DEFINE c == counter[i][ip]
           d == Incremented(counter[i][ip])
<1>0. now' = now /\ MaxTime \in Nat /\ c \in Counter
  BY LimitAssumption DEF Hit, TypeOK
<1>1. /\ c \in Counter /\ c.totalHits \in Nat /\ c.resetTime \in Nat
      /\ now \in 0..MaxTime /\ now \in Nat /\ MaxTime \in Nat /\ now' = now
      /\ admitted[i][ip] \in [0..MaxTime -> Nat]
  BY <1>0 DEF TypeOK, Counter
<1>2. /\ counter'[i][ip] = d
      /\ admitted'[i][ip] = IF Admits(d)
                            THEN [t \in 0..MaxTime |-> IF t >= now THEN admitted[i][ip][t] + 1
                                                                   ELSE admitted[i][ip][t]]
                            ELSE admitted[i][ip]
  BY HitEffect
<1>3. \A j \in Instances, k \in Clients : PairTyped(j, k)'
  <2>1. PairsTyped'
    BY TypedPairs, PTL
  <2> QED BY <2>1 DEF PairsTyped
<1>4. Count(i, ip)' = Plus(Count(i, ip), now, d.totalHits)
  <2> DEFINE at(t) == IF t > MaxTime THEN MaxTime ELSE t
  <2>1. \A t \in Int : t >= 0 => at(t) \in 0..MaxTime /\ (at(t) >= now <=> t >= now)
    BY <1>1
  <2>2. ASSUME NEW t \in Int
        PROVE  Through(i, ip, t)' = IF t >= now /\ d.totalHits <= MaxRequests
                                    THEN Through(i, ip, t) + 1 ELSE Through(i, ip, t)
    <3>1. CASE t < 0
      BY <1>1, <3>1 DEF Through
    <3>2. CASE t >= 0
      <4>1. /\ at(t) \in 0..MaxTime /\ (at(t) >= now <=> t >= now)
            /\ Through(i, ip, t) = admitted[i][ip][at(t)]
            /\ Through(i, ip, t)' = admitted'[i][ip][at(t)]
        BY <2>1, <3>2 DEF Through
      <4> HIDE DEF at
      <4> QED BY <1>2, <4>1 DEF Admits
    <3> QED BY <3>1, <3>2
  <2>3. \A t \in Int : Count(i, ip)[t] = Through(i, ip, t)
    BY DEF Count
  <2> QED BY <2>2, <2>3 DEF Count, Plus
<1>5. CountsPair(i, ip)'
  <2>1. Counts(Count(i, ip), now, c.totalHits, c.resetTime)
    BY DEF Pairs, CountsPair
  <2>2. CASE c.resetTime <= now
    <3>1. d.totalHits = 1 /\ d.resetTime = now + WindowMs
      BY <1>1, <2>2, IncrementedFields
    <3>2. Counts(Plus(Count(i, ip), now, 1), now, 1, now + WindowMs)
      BY <1>1, <2>1, <2>2, NewWindow
    <3> QED BY <1>1, <1>2, <1>4, <3>1, <3>2 DEF CountsPair
  <2>3. CASE c.resetTime > now
    <3>1. d.totalHits = c.totalHits + 1 /\ d.resetTime = c.resetTime
      BY <1>1, <2>3, IncrementedFields
    <3>2. Counts(Plus(Count(i, ip), now, c.totalHits + 1), now, c.totalHits + 1, c.resetTime)
      BY <1>1, <2>1, <2>3, SameWindow
    <3> QED BY <1>1, <1>2, <1>4, <3>1, <3>2 DEF CountsPair
  <2> QED BY <1>1, <2>2, <2>3
<1>6. ASSUME NEW j \in Instances, NEW k \in Clients, j # i \/ k # ip PROVE CountsPair(j, k)'
  <2>1. counter'[j][k] = counter[j][k] /\ admitted'[j][k] = admitted[j][k] /\ now' = now
    <3>1. counter'[j][k] = counter[j][k] /\ admitted'[j][k] = admitted[j][k]
      <4>1. \A q \in Instances, x \in Clients : q # i \/ x # ip =>
               counter'[q][x] = counter[q][x] /\ admitted'[q][x] = admitted[q][x]
        BY HitEffect
      <4> QED BY <1>6, <4>1
    <3> QED BY <1>1, <3>1
  <2>2. Count(j, k)' = Count(j, k)
    BY <2>1 DEF Count, Through
  <2> QED BY <2>1, <2>2 DEF Pairs, CountsPair
<1> QED BY <1>3, <1>5, <1>6 DEF Pairs

\* A process that has let nothing through.
LEMMA NoneCounted ==
    ASSUME NEW i \in Instances, NEW ip \in Clients, now \in 0..MaxTime,
           counter[i][ip] = [totalHits |-> 0, resetTime |-> 0],
           admitted[i][ip] = [t \in 0..MaxTime |-> 0]
    PROVE  PairTyped(i, ip) /\ CountsPair(i, ip)
<1>1. MaxTime \in Nat /\ MaxRequests \in Nat /\ WindowMs \in Nat
  BY LimitAssumption
<1>2. PairTyped(i, ip)
  BY DEF PairTyped
<1>3. \A t \in Int : Count(i, ip)[t] = 0
  BY <1>1 DEF Count, Through
<1>4. Count(i, ip) \in [Int -> Nat]
  BY <1>2, CountTyped
<1>5. Bounded(Count(i, ip))
  <2>1. \A t \in 0..MaxTime : t + WindowMs - 1 \in Int /\ t - 1 \in Int
    BY <1>1
  <2> QED BY <1>1, <1>3, <2>1 DEF Bounded
<1>6. Mono(Count(i, ip)) /\ Flat(Count(i, ip), now, 0) /\ Before(Count(i, ip))
      /\ Window(Count(i, ip), now, 0, 0)
  BY <1>3 DEF Mono, Flat, Before, Window
<1> QED BY <1>2, <1>4, <1>5, <1>6 DEF CountsPair, Counts

NoneCountedAnywhere ==
    \A i \in Instances, ip \in Clients :
        now \in 0..MaxTime /\ counter[i][ip] = [totalHits |-> 0, resetTime |-> 0]
        /\ admitted[i][ip] = [t \in 0..MaxTime |-> 0]
        => PairTyped(i, ip) /\ CountsPair(i, ip)

LEMMA NoneCountedAlways == NoneCountedAnywhere
BY NoneCounted DEF NoneCountedAnywhere

LEMMA PairsStep == TypeOK /\ StoreInv /\ Pairs /\ [Next]_vars => Pairs'
<1> SUFFICES ASSUME TypeOK, StoreInv, Pairs, [Next]_vars PROVE Pairs'
  OBVIOUS
<1>1. TypeOK' /\ StoreInv'
  BY TypeStep
<1>2. \A i \in Instances, ip \in Clients : PairTyped(i, ip)'
  <2>1. PairsTyped'
    BY <1>1, TypedPairs, PTL
  <2> QED BY <2>1 DEF PairsTyped
<1>3. ASSUME NEW i \in Instances, NEW ip \in Clients, Hit(i, ip) PROVE Pairs'
  BY <1>1, <1>3, HitCounts
<1>4. ASSUME NEW i \in Instances, NEW ip \in Clients, now' = now,
             counter'[i][ip] = counter[i][ip], admitted'[i][ip] = admitted[i][ip]
      PROVE  CountsPair(i, ip)'
  <2>1. Count(i, ip)' = Count(i, ip)
    BY <1>4 DEF Count, Through
  <2> QED BY <1>4, <2>1 DEF Pairs, CountsPair
<1>5. ASSUME NEW i \in Instances, Load(i) PROVE Pairs'
  <2>1. NoneCountedAnywhere'
    BY NoneCountedAlways, PTL
  <2>2. \A ip \in Clients : CountsPair(i, ip)'
    BY <1>1, <1>5, <2>1, LoadEffect DEF NoneCountedAnywhere, TypeOK
  <2>3. \A j \in Instances \ {i}, ip \in Clients : CountsPair(j, ip)'
    BY <1>4, <1>5, LoadEffect
  <2> QED BY <1>2, <2>2, <2>3 DEF Pairs
<1>6. CASE Tick
  <2>1. ASSUME NEW i \in Instances, NEW ip \in Clients PROVE CountsPair(i, ip)'
    <3>1. Count(i, ip)' = Count(i, ip)
      BY <1>6 DEF Tick, Count, Through
    <3>2. /\ now \in Nat /\ counter[i][ip].totalHits \in Nat
          /\ counter[i][ip].resetTime \in Nat
          /\ Counts(Count(i, ip), now, counter[i][ip].totalHits, counter[i][ip].resetTime)
      BY DEF Pairs, PairTyped, CountsPair
    <3>3. Counts(Count(i, ip), now + 1, counter[i][ip].totalHits, counter[i][ip].resetTime)
      BY <3>2, LaterCounts
    <3> QED BY <1>6, <3>1, <3>3 DEF Tick, CountsPair
  <2> QED BY <1>2, <2>1 DEF Pairs
<1>7. CASE UNCHANGED limitVars
  BY <1>2, <1>4, <1>7 DEF limitVars, Pairs
<1> QED BY <1>3, <1>5, <1>6, <1>7 DEF Next, vars

LEMMA InitInv == Init => IndInv
<1> SUFFICES ASSUME Init PROVE IndInv
  OBVIOUS
<1>1. /\ now \in 0..MaxTime /\ RedisTypeOK /\ StoreInv /\ store \in [Instances -> Instances]
  BY RetriesAssumption, LimitAssumption
     DEF Init, RedisInit, RedisTypeOK, StoreInv, ChooseStore
<1>2. /\ counter \in [Instances \cup {Shared} -> [Clients -> Counter]]
      /\ admitted \in [Instances -> [Clients -> [0..MaxTime -> Nat]]]
      /\ \A i \in Instances, ip \in Clients :
            /\ counter[i][ip] = [totalHits |-> 0, resetTime |-> 0]
            /\ admitted[i][ip] = [t \in 0..MaxTime |-> 0]
  BY DEF Init, NoHits, NoneAdmitted, Counter
<1>3. Pairs
  BY <1>1, <1>2, NoneCounted DEF Pairs
<1>4. \A i \in Instances, ip \in Clients : PairInv(i, ip)
  BY <1>3, PairsAgain DEF PairsInv
<1> QED BY <1>1, <1>2, <1>4, BoundParts DEF IndInv, TypeOK, PairInv

LEMMA NextInv == IndInv /\ [Next]_vars => IndInv'
<1> SUFFICES ASSUME IndInv, [Next]_vars PROVE IndInv'
  OBVIOUS
<1>1. TypeOK' /\ StoreInv'
  BY TypeStep DEF IndInv
<1>2. \A i \in Instances, ip \in Clients : PairTyped(i, ip) /\ PairInv(i, ip)
  BY TypedPairs, BoundParts DEF IndInv, PairInv, PairsTyped
<1>3. Pairs
  BY <1>2, PairCounts DEF Pairs
<1>4. Pairs'
  BY <1>3, PairsStep DEF IndInv
<1>5. \A i \in Instances, ip \in Clients : PairInv(i, ip)'
  <2>1. PairsInv'
    BY <1>4, PairsAgain, PTL
  <2> QED BY <2>1 DEF PairsInv
<1>6. ProcessBound'
  BY <1>5 DEF PairInv, ProcessBound, WithinBound
<1> QED BY <1>1, <1>5, <1>6 DEF IndInv, PairInv

\* No instance counts in Redis; the count of each client never falls, stands for what the
\* counter of the current window says, and obeys the bound of the process.
THEOREM LimiterInvariant == Spec => []IndInv
<1> QED BY InitInv, NextInv, PTL DEF Spec

\* In no stretch of time as long as a window, wherever it begins, does a process let more
\* than twice the limit through, for any limit, any window and any number of clients.
THEOREM TwiceTheLimit == Spec => []ProcessBound
<1>1. IndInv => ProcessBound
  BY DEF IndInv
<1> QED BY <1>1, LimiterInvariant, PTL

\* A request is refused only when the limit has been used up within the last window's
\* length: what is refused never prolongs the refusal.
THEOREM RefusalsEarned == Spec => RefusedOnlyAtLimit
<1> DEFINE Refuses(i, ip) ==
       LET before == counter[store[i]][ip]  after == counter'[store[i]][ip] IN
       after # before /\ ~Admits(after)
<1>1. ASSUME IndInv, [Next]_vars, NEW i \in Instances, NEW ip \in Clients, Refuses(i, ip)
      PROVE  AdmittedFrom(i, ip, now - WindowMs + 1) >= MaxRequests
  <2>1. TypeOK /\ StoreInv /\ store[i] = i /\ PairTyped(i, ip) /\ PairInv(i, ip)
    BY <1>1, TypedPairs, BoundParts DEF IndInv, StoreInv, PairInv, PairsTyped
  <2>2. counter'[i][ip] # counter[i][ip] /\ ~Admits(counter'[i][ip])
    BY <1>1, <2>1
  <2>3. \E j \in Instances, k \in Clients : Hit(j, k)
    <3>1. ASSUME NEW j \in Instances, Load(j) PROVE FALSE
      <4>1. counter'[i][ip] = [totalHits |-> 0, resetTime |-> 0]
        BY <2>1, <2>2, <3>1, LoadEffect
      <4> QED BY <2>2, <4>1, LimitAssumption DEF Admits
    <3>2. counter' # counter
      BY <2>2
    <3> QED BY <1>1, <3>1, <3>2 DEF Next, Tick, vars, limitVars
  <2>4. Hit(i, ip)
    BY ZenonT(30), <2>1, <2>2, <2>3, HitEffect
  <2> DEFINE c == counter[i][ip]
  <2>5. /\ c \in Counter /\ c.totalHits \in Nat /\ c.resetTime \in Nat /\ now \in Nat
        /\ counter'[i][ip] = Incremented(c) /\ now <= MaxTime
        /\ MaxRequests \in Nat \ {0} /\ WindowMs \in Nat \ {0} /\ MaxTime \in Nat
    <3>1. counter'[i][ip] = Incremented(c)
      BY <2>1, <2>4, HitEffect
    <3>2. c \in Counter /\ now \in 0..MaxTime
      BY <2>1 DEF TypeOK
    <3>3. MaxRequests \in Nat \ {0} /\ WindowMs \in Nat \ {0} /\ MaxTime \in Nat
      BY LimitAssumption
    <3>4. c.totalHits \in Nat /\ c.resetTime \in Nat
      BY <3>2 DEF Counter
    <3> QED BY <3>1, <3>2, <3>3, <3>4
  <2>6. c.resetTime > now /\ c.totalHits + 1 > MaxRequests
    <3>1. CASE c.resetTime <= now
      BY <2>1, <2>2, <2>5, <3>1, IncrementedFields DEF Admits
    <3>2. CASE c.resetTime > now
      BY <2>1, <2>2, <2>5, <3>2, IncrementedFields DEF Admits
    <3> QED BY <2>5, <3>1, <3>2
  <2> DEFINE f == Count(i, ip)
  <2>7. Counts(f, now, c.totalHits, c.resetTime)
    BY <2>1, PairCounts DEF CountsPair
  <2>8. AdmittedFrom(i, ip, now - WindowMs + 1) = f[now] - f[now - WindowMs]
    <3>1. /\ now - WindowMs + 1 + WindowMs - 1 = now
          /\ now - WindowMs + 1 - 1 = now - WindowMs
          /\ now \in Int /\ now - WindowMs \in Int
      BY <2>5
    <3> QED BY <3>1 DEF AdmittedFrom, Count
  <2> HIDE DEF c, f
  <2>9. /\ f[c.resetTime - 1] - f[c.resetTime - WindowMs - 1] = MaxRequests
        /\ \A t \in Int : f[t] \in Nat
    BY <2>5, <2>6, <2>7 DEF Counts, Window, Smaller
  <2>10. f[c.resetTime - 1] = f[now]
    BY <2>5, <2>6, <2>7 DEF Counts, Flat
  <2>11. f[now - WindowMs] <= f[c.resetTime - WindowMs - 1]
    <3>1. /\ now - WindowMs \in Int /\ c.resetTime - WindowMs - 1 \in Int
          /\ now - WindowMs <= c.resetTime - WindowMs - 1
      BY <2>5, <2>6
    <3> QED BY <2>7, <3>1 DEF Counts, Mono
  <2>12. /\ f[now] \in Nat /\ f[now - WindowMs] \in Nat
         /\ f[c.resetTime - WindowMs - 1] \in Nat /\ MaxRequests \in Nat
    BY <2>5, <2>9
  <2> QED BY <2>8, <2>9, <2>10, <2>11, <2>12
<1>2. IndInv /\ [Next]_vars => [\A i \in Instances, ip \in Clients :
         LET before == counter[store[i]][ip]  after == counter'[store[i]][ip] IN
         after # before /\ ~Admits(after)
         => AdmittedFrom(i, ip, now - WindowMs + 1) >= MaxRequests]_vars
  BY <1>1
<1> QED BY <1>2, LimiterInvariant, PTL DEF RefusedOnlyAtLimit, Spec
=============================================================================
