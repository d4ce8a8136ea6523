---------------------------- MODULE ServerProofs ----------------------------
(***************************************************************************)
(* Proofs about Server, for every number of connections, of overlapping    *)
(* calls of shutdown and of attempts to reach the database and Redis:      *)
(* clean exits, the database under every request, truthful probes, and the *)
(* lifecycle of the process.                                               *)
(***************************************************************************)
EXTENDS Server, TLAPS

-----------------------------------------------------------------------------
(* Types                                                                   *)

LEMMA TypeInit == Init => TypeOK
<1> SUFFICES ASSUME Init PROVE TypeOK
  OBVIOUS
<1>1. RedisTypeOK
  BY RetriesAssumption DEF Init, RedisInit, RedisTypeOK
<1>2. probe \in Probe
  BY DEF Init, NoProbe, Probe, Health
<1>3. attempt \in 0..(DbMaxRetries - 1)
  BY ServerAssumption DEF Init
<1> QED BY <1>1, <1>2, <1>3 DEF Init, TypeOK, Stage

\* Every step of the Redis client keeps its part of the types.
LEMMA RedisTypeStep ==
    ASSUME RedisTypeOK, NEW i \in Instances,
           \/ Connection(i) \/ Outage
           \/ \E c \in Commands : Execute(i, c) \/ Reply(i, c)
           \/ UNCHANGED redisVars
    PROVE  RedisTypeOK'
<1> USE RetriesAssumption
<1>1. CASE Ready(i)
  BY <1>1 DEF Ready, RedisTypeOK
<1>2. CASE Drop(i)
  <2>1. Flushed(i) \in [Commands -> {"none", "sent", "done", "failed"}]
    BY DEF Flushed, RedisTypeOK
  <2>2. cmd' \in [Instances -> [Commands -> {"none", "sent", "done", "failed"}]]
    BY <1>2, <2>1 DEF Drop, Closed, RedisTypeOK
  <2>3. attempts' \in [Instances -> 0..MaxRetries]
    BY <1>2 DEF Drop, Closed, RedisTypeOK
  <2> QED BY <1>2, <2>2, <2>3 DEF Drop, Closed, RedisTypeOK
<1>3. CASE Reconnect(i)
  BY <1>3 DEF Reconnect, RedisTypeOK
<1>4. CASE Outage
  BY <1>4 DEF Outage, RedisTypeOK
<1>5. CASE \E c \in Commands : Execute(i, c) \/ Reply(i, c)
  BY SMTT(30), <1>5 DEF Execute, Reply, RedisTypeOK
<1>6. CASE UNCHANGED redisVars
  BY <1>6 DEF redisVars, RedisTypeOK
<1> QED BY <1>1, <1>2, <1>3, <1>4, <1>5, <1>6 DEF Connection

LEMMA TypeStep ==
    ASSUME TypeOK, LifeInv, [Next]_vars
    PROVE  TypeOK'
<1> USE ServerAssumption
<1>1. CASE Start
  <2>1. /\ start' \in {"connecting", "sleeping", "done"} /\ isConnected' \in BOOLEAN
        /\ listening' \in {"never", "opening", "open", "closed"}
        /\ process' \in {"running", "clean", "failed"}
    BY <1>1 DEF Start, Connected, ConnectFails, Retry, Listen, Exit, TypeOK
  <2>2. attempt' \in 0..(DbMaxRetries - 1)
    BY <1>1 DEF Start, Connected, ConnectFails, Retry, Listen, TypeOK, LifeInv
  <2> QED BY <1>1, <2>1, <2>2 DEF Start, redisVars, TypeOK, RedisTypeOK
<1>2. ASSUME NEW s \in Causes, Stop(s)
      PROVE  TypeOK'
  <2>1. call' \in [Causes -> Stage]
    <3>1. CASE Close(s)
      <4>1. call' = call \/ call' = [call EXCEPT ![s] = "leavingLate"]
            \/ call' = [call EXCEPT ![s] = "leaving"]
        BY <3>1 DEF Close, Disconnect
      <4> QED BY <4>1 DEF Stage, TypeOK
    <3> QED BY <1>2, <3>1 DEF Stop, Shutdown, ListenFails, Leave, ForceExit, Stage, TypeOK
  <2>2. /\ start' \in {"connecting", "sleeping", "done"} /\ isConnected' \in BOOLEAN
        /\ attempt' \in 0..(DbMaxRetries - 1)
        /\ listening' \in {"never", "opening", "open", "closed"}
    BY <1>2 DEF Stop, Shutdown, ListenFails, Close, Disconnect, Leave, ForceExit, TypeOK
  <2>3. process' \in {"running", "clean", "failed"}
    <3>1. process' = process \/ process' = "clean" \/ process' = "failed"
      BY <1>2 DEF Stop, Shutdown, ListenFails, Close, Disconnect, Leave, ForceExit, Exit
    <3> QED BY <3>1 DEF TypeOK
  <2> QED BY <1>2, <2>1, <2>2, <2>3 DEF Stop, redisVars, TypeOK, RedisTypeOK
<1>3. ASSUME NEW c \in Connections, Connect(c) \/ HangUp(c) \/ Accept(c) \/ Answer(c)
      PROVE  TypeOK'
  <2>1. PICK to \in {"none", "idle", "busy"} : Switch(c, to)
    BY <1>3 DEF Connect, HangUp, Accept, Answer
  <2>2. conn' \in [Connections -> {"none", "idle", "busy"}]
    BY <2>1 DEF Switch, TypeOK
  <2>3. UNCHANGED <<redisVars, probe>>
    BY <1>3 DEF Connect, HangUp, Accept, Answer
  <2> QED BY <2>1, <2>2, <2>3 DEF Switch, redisVars, lifeVars, TypeOK, RedisTypeOK
<1>4. ASSUME NEW path \in {"/health", "/ready"}, BeginProbe(path)
      PROVE  TypeOK'
  <2>1. RedisTypeOK'
    BY <1>4, RedisTypeStep DEF BeginProbe, TypeOK
  <2>2. probe' \in Probe /\ down' \subseteq {"database", "redis"}
    BY <1>4 DEF BeginProbe, Probe, Health
  <2> QED BY <1>4, <2>1, <2>2 DEF BeginProbe, lifeVars, TypeOK
<1>5. CASE CheckUp
  <2>1. probe' \in Probe
    BY <1>5 DEF CheckUp, checkDatabaseHealth, checkRedisHealth, AnswerProbe, NoProbe, TypeOK,
                Probe, Health
  <2>2. conn' \in [Connections -> {"none", "idle", "busy"}]
    BY <1>5 DEF CheckUp, checkDatabaseHealth, checkRedisHealth, AnswerProbe, Switch, TypeOK
  <2> QED BY <1>5, <2>1, <2>2 DEF CheckUp, checkDatabaseHealth, checkRedisHealth, AnswerProbe,
                                  Switch, redisVars, lifeVars, TypeOK, RedisTypeOK
<1>6. CASE RedisStep
  <2>1. RedisTypeOK'
    BY <1>6, RedisTypeStep DEF RedisStep, TypeOK
  <2> QED BY <1>6, <2>1 DEF RedisStep, serverVars, lifeVars, TypeOK
<1>7. CASE RedisOutage
  <2>1. RedisTypeOK'
    BY <1>7, RedisTypeStep DEF RedisOutage, TypeOK
  <2> QED BY <1>7, <2>1 DEF RedisOutage, lifeVars, TypeOK
<1>8. CASE DatabaseOutage
  BY <1>8 DEF DatabaseOutage, redisVars, lifeVars, TypeOK, RedisTypeOK
<1>9. CASE UNCHANGED vars
  BY <1>9 DEF vars, redisVars, serverVars, lifeVars, TypeOK, RedisTypeOK
<1> QED BY <1>1, <1>2, <1>3, <1>4, <1>5, <1>6, <1>7, <1>8, <1>9 DEF Next

-----------------------------------------------------------------------------
(* The life of the process                                                 *)

\* The steps of connections, requests and probes.  Only Connect opens a connection.
Talk ==
    \/ \E c \in Connections : Connect(c) \/ HangUp(c) \/ Accept(c) \/ Answer(c)
    \/ \E path \in {"/health", "/ready"} : BeginProbe(path)
    \/ CheckUp

LEMMA TalkStep ==
    ASSUME TypeOK, Talk
    PROVE  /\ UNCHANGED <<lifeVars, call>>
           /\ \A c \in Connections : conn'[c] # "none" => conn[c] # "none" \/ listening = "open"
<1>1. CASE \E c \in Connections : Connect(c) \/ HangUp(c) \/ Accept(c) \/ Answer(c)
  BY <1>1 DEF Connect, HangUp, Accept, Answer, Switch, TypeOK
<1>2. CASE \E path \in {"/health", "/ready"} : BeginProbe(path)
  BY <1>2 DEF BeginProbe, TypeOK
<1>3. CASE checkDatabaseHealth \/ checkRedisHealth
  BY <1>3 DEF checkDatabaseHealth, checkRedisHealth
<1>4. CASE AnswerProbe
  <2>1. /\ conn[Prober] # "none" /\ UNCHANGED <<lifeVars, call>>
        /\ \A c \in Connections \ {Prober} : conn'[c] = conn[c]
    BY <1>4 DEF AnswerProbe, Probing, Switch, TypeOK
  <2> QED BY <2>1
<1> QED BY <1>1, <1>2, <1>3, <1>4 DEF Talk, CheckUp

\* A socket that is closed stays so, and then no connection comes in.
LEMMA DrainedStays ==
    ASSUME TypeOK, LifeInv, [Next]_vars, listening = "closed"
    PROVE  listening' = "closed" /\ (Drained => Drained')
<1>1. CASE Start
  <2>1. listening' = "closed"
    BY <1>1 DEF Start, Connected, ConnectFails, Retry, Listen, LifeInv
  <2>2. conn' = conn
    BY <1>1 DEF Start
  <2> QED BY <2>1, <2>2 DEF Drained
<1>2. ASSUME NEW s \in Causes, Stop(s)
      PROVE  listening' = "closed" /\ (Drained => Drained')
  <2>1. listening' = "closed"
    BY <1>2 DEF Stop, Shutdown, ListenFails, Close, Leave, ForceExit
  <2>2. conn' = conn
    BY <1>2 DEF Stop
  <2> QED BY <2>1, <2>2 DEF Drained
<1>3. CASE Talk
  BY <1>3, TalkStep DEF lifeVars, Drained
<1>4. CASE RedisStep \/ RedisOutage \/ DatabaseOutage \/ UNCHANGED vars
  BY <1>4 DEF RedisStep, RedisOutage, DatabaseOutage, vars, serverVars, lifeVars, Drained
<1> QED BY <1>1, <1>2, <1>3, <1>4 DEF Next, Talk

\* No step but the two of $disconnect undoes the connect of a process that goes on.
LEMMA LifeStep ==
    ASSUME TypeOK, LifeInv, [Next]_vars
    PROVE  LifeInv'
<1> USE ServerAssumption DEF Stage
<1>1. CASE Start
  <2>1. conn' = conn /\ call' = call
    BY <1>1 DEF Start
  <2>2. start' = "sleeping" => attempt' < DbMaxRetries - 1
    BY <1>1 DEF Start, Connected, ConnectFails, Retry, Listen, TypeOK, LifeInv
  <2>3. listening' # "never" => start' = "done"
    BY <1>1 DEF Start, Connected, ConnectFails, Retry, Listen, TypeOK, LifeInv
  <2>4. listening \in {"open", "closed"} => listening' \in {"open", "closed"}
    BY <1>1 DEF Start, Connected, ConnectFails, Retry, Listen, LifeInv
  <2>5. process' = "running" => (start' = "done" <=> isConnected')
    BY <1>1 DEF Start, Connected, ConnectFails, Retry, Listen, Exit, TypeOK, LifeInv
  <2>6. \A c \in Connections : conn'[c] # "none" => listening' \in {"open", "closed"}
    BY <2>1, <2>4 DEF LifeInv
  <2>7. /\ \A s \in Causes : call'[s] = "closing" => listening' = "closed"
        /\ \A s \in Causes : call'[s] = "leaving" => listening' = "closed" /\ Drained'
    BY <2>1, DrainedStays DEF LifeInv
  <2> QED BY <2>2, <2>3, <2>5, <2>6, <2>7 DEF LifeInv
<1>2. ASSUME NEW s \in Causes, Stop(s)
      PROVE  LifeInv'
  <2>1. /\ conn' = conn /\ start' = start /\ attempt' = attempt
        /\ \A t \in Causes \ {s} : call'[t] = call[t]
    BY <1>2 DEF Stop, Shutdown, ListenFails, Close, Disconnect, Leave, ForceExit, TypeOK
  <2>2. listening' # "never" => start' = "done"
    BY <1>2 DEF Stop, Shutdown, ListenFails, Close, Disconnect, Leave, ForceExit, LifeInv
  <2>3. process' = "running" => (start' = "done" <=> isConnected')
    <3>1. process' = "running" => process = "running" /\ isConnected' = isConnected
      BY <1>2 DEF Stop, Shutdown, ListenFails, Close, Disconnect, Leave, ForceExit, Exit
    <3> QED BY <2>1, <3>1 DEF LifeInv
  <2>4. \A c \in Connections : conn'[c] # "none" => listening' \in {"open", "closed"}
    <3>1. listening \in {"open", "closed"} => listening' \in {"open", "closed"}
      BY <1>2 DEF Stop, Shutdown, ListenFails, Close, Leave, ForceExit
    <3> QED BY <2>1, <3>1 DEF LifeInv
  <2>5. call'[s] = "closing" => listening' = "closed"
    <3>1. CASE Shutdown(s) \/ ListenFails(s)
      BY <3>1 DEF Shutdown, ListenFails, TypeOK
    <3>2. CASE Close(s)
      BY <3>2, DrainedStays DEF Close, Disconnect, TypeOK, LifeInv
    <3>3. CASE Leave(s) \/ ForceExit(s)
      BY <3>3 DEF Leave, ForceExit, LifeInv
    <3> QED BY <1>2, <3>1, <3>2, <3>3 DEF Stop
  <2>6. call'[s] = "leaving" => listening' = "closed" /\ Drained'
    <3>1. CASE Shutdown(s) \/ ListenFails(s)
      BY <3>1 DEF Shutdown, ListenFails, TypeOK
    <3>2. CASE Close(s)
      <4>1. call'[s] = "leaving" => call[s] \in {"closing", "leaving"} /\ Drained
        BY <3>2 DEF Close, Disconnect, TypeOK
      <4> QED BY <4>1, DrainedStays DEF LifeInv
    <3>3. CASE Leave(s) \/ ForceExit(s)
      BY <3>3, DrainedStays DEF Leave, ForceExit, LifeInv
    <3> QED BY <1>2, <3>1, <3>2, <3>3 DEF Stop
  <2>7. \A t \in Causes \ {s} :
          /\ call'[t] = "closing" => listening' = "closed"
          /\ call'[t] = "leaving" => listening' = "closed" /\ Drained'
    BY <2>1, DrainedStays DEF LifeInv
  <2> QED BY <2>1, <2>2, <2>3, <2>4, <2>5, <2>6, <2>7 DEF LifeInv
<1>3. CASE Talk
  <2>1. UNCHANGED <<start, attempt, isConnected, listening, process, call>>
    BY <1>3, TalkStep DEF lifeVars
  <2>2. \A c \in Connections : conn'[c] # "none" => listening' \in {"open", "closed"}
    BY <1>3, <2>1, TalkStep DEF LifeInv
  <2>3. \A s \in Causes : call'[s] = "leaving" => listening' = "closed" /\ Drained'
    BY <2>1, DrainedStays DEF LifeInv
  <2> QED BY <2>1, <2>2, <2>3 DEF LifeInv
<1>4. CASE RedisStep \/ RedisOutage \/ DatabaseOutage \/ UNCHANGED vars
  <2>1. UNCHANGED <<start, attempt, isConnected, listening, process, call, conn>>
    BY <1>4 DEF RedisStep, RedisOutage, DatabaseOutage, vars, serverVars, lifeVars
  <2> QED BY <2>1 DEF LifeInv, Drained
<1> QED BY <1>1, <1>2, <1>3, <1>4 DEF Next, Talk

\* A process exits with 0 only through a 'close' event of a call without error.
LEMMA CleanStep ==
    ASSUME TypeOK, LifeInv, CleanExit, [Next]_vars
    PROVE  CleanExit'
<1>1. ASSUME process = "running", Start
      PROVE  CleanExit'
  <2>1. process' = process \/ process' = "failed"
    BY <1>1 DEF Start, Connected, ConnectFails, Retry, Listen, Exit
  <2> QED BY <1>1, <2>1 DEF CleanExit
<1>2. ASSUME process = "running", NEW s \in Causes, Stop(s)
      PROVE  CleanExit'
  <2>1. conn' = conn
    BY <1>2 DEF Stop
  <2>2. CASE Shutdown(s) \/ ListenFails(s) \/ ForceExit(s)
    BY <1>2, <2>2 DEF Shutdown, ListenFails, ForceExit, Exit, CleanExit
  <2>3. CASE Close(s)
    <3>1. process' = "clean" => ~isConnected' /\ Drained
      BY <1>2, <2>3 DEF Close, Disconnect, Exit
    <3> QED BY <2>1, <3>1 DEF CleanExit, Drained
  <2>4. CASE Leave(s)
    <3>1. process' = "clean" => ~isConnected' /\ call[s] = "leaving"
      BY <1>2, <2>4 DEF Leave, Exit
    <3> QED BY <2>1, <3>1 DEF CleanExit, Drained, LifeInv
  <2> QED BY <1>2, <2>2, <2>3, <2>4 DEF Stop
<1>3. ASSUME process = "running", process' = process
      PROVE  CleanExit'
  BY <1>3 DEF CleanExit
<1>4. CASE UNCHANGED vars
  BY <1>4 DEF vars, serverVars, lifeVars, CleanExit
<1>5. CASE process = "running" /\ (Talk \/ RedisStep \/ RedisOutage \/ DatabaseOutage)
  <2>1. process' = process
    BY <1>5, TalkStep DEF RedisStep, RedisOutage, DatabaseOutage, serverVars, lifeVars
  <2> QED BY <1>3, <1>5, <2>1
<1> QED BY <1>1, <1>2, <1>4, <1>5 DEF Next, Talk

-----------------------------------------------------------------------------
(* The probes                                                              *)

\* The results of the checks: what is found in reach was not out of it all the time.
LEMMA ProbeStep ==
    ASSUME TypeOK, ProbeInv, [Next]_vars
    PROVE  ProbeInv'
<1> USE ServerAssumption
<1>1. CASE Start \/ \E s \in Causes : Stop(s)
  BY <1>1 DEF Start, Stop, redisVars, ProbeInv, Probing
<1>2. CASE \E c \in Connections : Connect(c) \/ HangUp(c) \/ Accept(c) \/ Answer(c)
  BY <1>2 DEF Connect, HangUp, Accept, Answer, Switch, redisVars, ProbeInv, Probing, TypeOK
<1>3. ASSUME NEW path \in {"/health", "/ready"}, BeginProbe(path)
      PROVE  ProbeInv'
  <2>1. /\ probe'.database = "pending" /\ probe'.redis \in {"pending", "unhealthy"}
        /\ dbUp' = dbUp /\ redisUp' = redisUp
        /\ (dbUp => "database" \notin down') /\ (redisUp => "redis" \notin down')
    BY <1>3 DEF BeginProbe, Execute, redisVars
  <2>2. probe'.redis = "pending" => cmd'[Self][Ping] # "done"
    BY <1>3 DEF BeginProbe, Execute, isRedisConnected, TypeOK, RedisTypeOK
  <2> QED BY <2>1, <2>2 DEF ProbeInv
<1>4. CASE checkDatabaseHealth
  <2>1. /\ probe'.redis = probe.redis /\ UNCHANGED <<down, dbUp, redisUp, cmd>>
        /\ Probing
    BY <1>4 DEF checkDatabaseHealth, redisVars, TypeOK, Probe
  <2>2. probe'.database \in {"healthy", "degraded"} => dbUp
    BY <1>4 DEF checkDatabaseHealth, TypeOK, Probe, Health
  <2> QED BY <2>1, <2>2 DEF ProbeInv
<1>5. CASE checkRedisHealth
  <2>1. /\ probe'.database = probe.database /\ UNCHANGED <<down, dbUp, redisUp, cmd>>
        /\ Probing
    BY <1>5 DEF checkRedisHealth, redisVars, TypeOK, Probe
  <2>2. probe'.redis \in {"healthy", "degraded"}
        => probe.redis = "pending" /\ cmd[Self][Ping] = "done"
    BY <1>5 DEF checkRedisHealth, TypeOK, Probe, Health
  <2>3. probe'.redis # "pending"
    BY <1>5 DEF checkRedisHealth, TypeOK, Probe, Health
  <2> QED BY <2>1, <2>2, <2>3 DEF ProbeInv
<1>6. CASE AnswerProbe
  <2>1. ~Probing' /\ UNCHANGED <<down, dbUp, redisUp>>
    BY <1>6 DEF AnswerProbe, Switch, Probing, redisVars, TypeOK
  <2> QED BY <2>1 DEF ProbeInv
<1>7. CASE RedisStep
  <2>1. UNCHANGED <<down, dbUp, redisUp, probe, conn>>
    BY <1>7 DEF RedisStep, serverVars, Connection, Ready, Drop, Closed, Reconnect, Reply
  <2>2. cmd'[Self][Ping] = "done" => cmd[Self][Ping] = "done" \/ redisUp
    BY <1>7 DEF RedisStep, Connection, Ready, Drop, Closed, Flushed, Reconnect, Reply, TypeOK,
                RedisTypeOK
  <2> QED BY <2>1, <2>2 DEF ProbeInv, Probing
<1>8. CASE RedisOutage
  BY <1>8 DEF RedisOutage, Outage, ProbeInv, Probing
<1>9. CASE DatabaseOutage
  BY <1>9 DEF DatabaseOutage, redisVars, ProbeInv, Probing
<1>10. CASE UNCHANGED vars
  BY <1>10 DEF vars, redisVars, serverVars, ProbeInv, Probing
<1> QED BY <1>1, <1>2, <1>3, <1>4, <1>5, <1>6, <1>7, <1>8, <1>9, <1>10 DEF Next, CheckUp

\* An answer of 200 rests on positive results of both checks, and stays true of the past.
LEMMA AnswerStep ==
    ASSUME TypeOK, ProbeInv, AnswerTruthful, [Next]_vars
    PROVE  AnswerTruthful'
<1>1. ASSUME probe' = probe, down' \subseteq down
      PROVE  AnswerTruthful'
  BY <1>1 DEF AnswerTruthful
<1>2. CASE \E path \in {"/health", "/ready"} : BeginProbe(path)
  BY <1>2 DEF BeginProbe, AnswerTruthful
<1>3. CASE checkDatabaseHealth \/ checkRedisHealth
  BY <1>3 DEF checkDatabaseHealth, checkRedisHealth, TypeOK, Probe, AnswerTruthful
<1>4. CASE AnswerProbe
  <2>1. PICK keys \in {"healthy", "unhealthy"}, metrics \in {"healthy", "unhealthy"} :
          LET critical == {probe.database, probe.redis, keys}
              ok == IF probe.path = "/ready" THEN critical \cup {metrics} = {"healthy"}
                                             ELSE "unhealthy" \notin critical
          IN probe' = NoProbe(IF ok THEN "200" ELSE "503")
    BY <1>4 DEF AnswerProbe
  <2>2. probe'.answer = "200" => "unhealthy" \notin {probe.database, probe.redis}
    <3>1. CASE probe.path = "/ready"
      BY <2>1, <3>1 DEF NoProbe
    <3>2. CASE probe.path # "/ready"
      BY <2>1, <3>2 DEF NoProbe
    <3> QED BY <3>1, <3>2
  <2>3. probe.database \in Health /\ probe.redis \in Health /\ Probing /\ down' = down
    BY <1>4 DEF AnswerProbe, Switch, TypeOK, Probe
  <2> QED BY <2>2, <2>3 DEF AnswerTruthful, ProbeInv, Health, TypeOK
<1>5. CASE \/ Start \/ (\E s \in Causes : Stop(s))
           \/ \E c \in Connections : Connect(c) \/ HangUp(c) \/ Accept(c) \/ Answer(c)
           \/ RedisStep \/ RedisOutage \/ DatabaseOutage \/ UNCHANGED vars
  <2>1. probe' = probe /\ down' \subseteq down
    BY <1>5 DEF Start, Stop, Connect, HangUp, Accept, Answer, Switch, RedisStep, RedisOutage,
                DatabaseOutage, vars, serverVars
  <2> QED BY <1>1, <2>1
<1> QED BY <1>2, <1>3, <1>4, <1>5 DEF Next, CheckUp

-----------------------------------------------------------------------------
(* The theorems                                                            *)

LEMMA InvInit == Init => IndInv
<1> SUFFICES ASSUME Init PROVE IndInv
  OBVIOUS
<1>1. TypeOK
  BY TypeInit
<1>2. LifeInv
  BY DEF Init, LifeInv
<1>3. CleanExit /\ ProbeInv /\ AnswerTruthful
  BY ServerAssumption DEF Init, NoProbe, CleanExit, ProbeInv, AnswerTruthful, Probing
<1> QED BY <1>1, <1>2, <1>3 DEF IndInv

LEMMA InvStep == IndInv /\ [Next]_vars => IndInv'
BY TypeStep, LifeStep, CleanStep, ProbeStep, AnswerStep DEF IndInv

\* The invariant of the process, in every reachable state (Server!IndInv).
THEOREM ServerInvariant == Spec => []IndInv
BY InvInit, InvStep, PTL DEF Spec

\* process.exit(0) in server.ts means a graceful stop, for any number of signals and
\* exceptions that come at any moment.
THEOREM CleanExitIsGraceful == Spec => []CleanExit
<1>1. IndInv => CleanExit
  BY DEF IndInv
<1> QED BY <1>1, ServerInvariant, PTL

\* Requests and probes are served only by a process whose database is connected.
THEOREM ServingIsConnected == Spec => []ServedConnected
<1>1. IndInv => ServedConnected
  BY DEF IndInv, LifeInv, ServedConnected
<1> QED BY <1>1, ServerInvariant, PTL

\* A 200 of /health or /ready was true at some moment since the probe came in.
THEOREM ProbesAreTruthful == Spec => []AnswerTruthful
<1>1. IndInv => AnswerTruthful
  BY DEF IndInv
<1> QED BY <1>1, ServerInvariant, PTL

-----------------------------------------------------------------------------
(* The lifecycle                                                           *)

LEMMA InitRefines == Init => Promised!Init
BY DEF Init, Promised!Init, Phase, Opened, Busy

\* Where the connections stay as they are, so do the sets of open and of busy ones.
LEMMA SameConnections == conn' = conn => Opened' = Opened /\ Busy' = Busy
BY DEF Opened, Busy

\* A step of start(): the socket opens, or the start goes on or fails.
LEMMA StartRefines ==
    ASSUME LifeInv, process = "running", Start
    PROVE  Promised!Serve \/ Promised!Fail \/ UNCHANGED <<Phase, Opened, Busy>>
<1>1. Opened' = Opened /\ Busy' = Busy
  BY SameConnections DEF Start
<1>2. CASE Connected \/ Retry
  BY <1>1, <1>2 DEF Connected, Retry, LifeInv, Phase
<1>3. CASE ConnectFails
  BY <1>1, <1>3 DEF ConnectFails, Exit, Phase, Promised!Fail
<1>4. CASE Listen
  BY <1>1, <1>4 DEF Listen, Phase, Promised!Serve
<1> QED BY <1>2, <1>3, <1>4 DEF Start

\* A step of a call of shutdown: the socket closes, or the process ends or goes on.
LEMMA StopRefines ==
    ASSUME TypeOK, LifeInv, process = "running", NEW s \in Causes, Stop(s)
    PROVE  \/ Promised!Drain \/ Promised!Stop \/ Promised!Fail
           \/ UNCHANGED <<Phase, Opened, Busy>>
<1>1. Opened' = Opened /\ Busy' = Busy
  BY SameConnections DEF Stop
<1>2. CASE Shutdown(s)
  BY <1>1, <1>2 DEF Shutdown, Phase, Promised!Drain
<1>3. CASE ListenFails(s)
  BY <1>1, <1>3 DEF ListenFails, Phase
<1>4. CASE process' = "failed" /\ listening' = listening
  BY <1>1, <1>4 DEF Phase, Promised!Fail
<1>5. CASE process' = "running" /\ listening' = listening
  BY <1>1, <1>5 DEF Phase
<1>6. CASE process' = "clean"
  <2>1. listening = "closed" /\ Drained
    <3>1. CASE Close(s)
      BY <1>6, <3>1 DEF Close, Disconnect, Exit, LifeInv
    <3>2. CASE Leave(s)
      BY <1>6, <3>2 DEF Leave, Exit, LifeInv
    <3> QED BY <1>6, <3>1, <3>2 DEF Stop, Shutdown, ListenFails, ForceExit, Exit
  <2>2. Phase = "draining" /\ Phase' = "stopped"
    BY <1>6, <2>1 DEF Phase
  <2>3. Opened = {}
    BY <2>1 DEF Drained, Opened
  <2> QED BY <1>1, <2>2, <2>3 DEF Promised!Stop
<1>7. CASE Close(s) \/ Leave(s) \/ ForceExit(s)
  <2>1. listening' = listening /\ process' \in {"running", "clean", "failed"}
    BY <1>7 DEF Close, Disconnect, Leave, ForceExit, Exit
  <2> QED BY <1>4, <1>5, <1>6, <2>1
<1> QED BY <1>2, <1>3, <1>7 DEF Stop

\* One connection changes: what becomes of the sets.
LEMMA SwitchSets ==
    ASSUME TypeOK, NEW c \in Connections, NEW to \in {"none", "idle", "busy"},
           conn' = [conn EXCEPT ![c] = to]
    PROVE  /\ Opened' = IF to = "none" THEN Opened \ {c} ELSE Opened \cup {c}
           /\ Busy' = IF to = "busy" THEN Busy \cup {c} ELSE Busy \ {c}
<1>1. conn'[c] = to /\ \A d \in Connections \ {c} : conn'[d] = conn[d]
  BY DEF TypeOK
<1>2. CASE to = "none"
  BY <1>1, <1>2 DEF Opened, Busy
<1>3. CASE to = "idle"
  BY <1>1, <1>3 DEF Opened, Busy
<1>4. CASE to = "busy"
  BY <1>1, <1>4 DEF Opened, Busy
<1> QED BY <1>2, <1>3, <1>4

\* A process with an open connection serves or drains.
LEMMA OpenPhase ==
    ASSUME TypeOK, LifeInv, process = "running", NEW c \in Connections, conn[c] # "none"
    PROVE  Phase \in {"serving", "draining"}
BY DEF LifeInv, Phase

\* A connection is opened or ends, a request or a probe comes in or is answered.
LEMMA TalkRefines ==
    ASSUME TypeOK, LifeInv, process = "running", Talk
    PROVE  \/ \E c \in Connections :
                Promised!Connect(c) \/ Promised!HangUp(c) \/ Promised!Take(c) \/ Promised!Answer(c)
           \/ UNCHANGED <<Phase, Opened, Busy>>
<1>1. Phase' = Phase
  BY TalkStep DEF lifeVars, Phase
<1>2. ASSUME NEW c \in Connections, Connect(c)
      PROVE  Promised!Connect(c)
  <2>1. Opened' = Opened \cup {c} /\ Busy' = Busy \ {c} /\ c \notin Busy /\ Phase = "serving"
    BY <1>2, SwitchSets DEF Connect, Switch, Busy, Phase
  <2> QED BY <1>1, <2>1 DEF Promised!Connect
<1>3. ASSUME NEW c \in Connections, HangUp(c)
      PROVE  Promised!HangUp(c)
  <2>1. Opened' = Opened \ {c} /\ Busy' = Busy \ {c} /\ c \in Opened \ Busy
    BY <1>3, SwitchSets DEF HangUp, Switch, Opened, Busy
  <2> QED BY <1>1, <2>1 DEF Promised!HangUp
<1>4. ASSUME NEW c \in Connections, conn[c] = "idle", conn' = [conn EXCEPT ![c] = "busy"]
      PROVE  Promised!Take(c)
  <2>1. Opened' = Opened \cup {c} /\ Busy' = Busy \cup {c} /\ c \in Opened
    BY <1>4, SwitchSets DEF Opened
  <2>2. Phase \in {"serving", "draining"}
    BY <1>4, OpenPhase
  <2> QED BY <1>1, <2>1, <2>2 DEF Promised!Take
<1>5. ASSUME NEW c \in Connections, NEW to \in {"idle", "none"},
             conn[c] = "busy", conn' = [conn EXCEPT ![c] = to]
      PROVE  Promised!Answer(c)
  <2>1. Opened' \in {Opened \cup {c}, Opened \ {c}} /\ Busy' = Busy \ {c}
    BY <1>5, SwitchSets
  <2>2. c \in Busy /\ c \in Opened
    BY <1>5 DEF Opened, Busy
  <2> QED BY <1>1, <2>1, <2>2 DEF Promised!Answer
<1>6. CASE \E c \in Connections : Connect(c) \/ HangUp(c) \/ Accept(c) \/ Answer(c)
  <2>1. PICK c \in Connections : Connect(c) \/ HangUp(c) \/ Accept(c) \/ Answer(c)
    BY <1>6
  <2>2. CASE Accept(c)
    BY <1>4, <2>2 DEF Accept, Switch
  <2>3. CASE Answer(c)
    <3>1. PICK to \in {"idle", "none"} : Switch(c, to)
      BY <2>3 DEF Answer
    <3> QED BY <1>5, <2>3, <3>1 DEF Answer, Switch
  <2> QED BY <1>2, <1>3, <2>1, <2>2, <2>3
<1>7. CASE \E path \in {"/health", "/ready"} : BeginProbe(path)
  <2>1. Promised!Take(Prober)
    BY <1>4, <1>7, ServerAssumption DEF BeginProbe
  <2> QED BY <2>1, ServerAssumption
<1>8. CASE checkDatabaseHealth \/ checkRedisHealth
  BY <1>1, <1>8, SameConnections DEF checkDatabaseHealth, checkRedisHealth
<1>9. CASE AnswerProbe
  <2>1. PICK to \in {"idle", "none"} : Switch(Prober, to)
    BY <1>9 DEF AnswerProbe
  <2>2. Promised!Answer(Prober)
    BY <1>5, <1>9, <2>1, ServerAssumption DEF AnswerProbe, Probing, Switch
  <2> QED BY <2>2, ServerAssumption
<1> QED BY <1>6, <1>7, <1>8, <1>9 DEF Talk, CheckUp

LEMMA NextRefines ==
    TypeOK /\ LifeInv /\ [Next]_vars => [Promised!Next]_<<Phase, Opened, Busy>>
<1> SUFFICES ASSUME TypeOK, LifeInv, [Next]_vars
             PROVE  [Promised!Next]_<<Phase, Opened, Busy>>
  OBVIOUS
<1>1. CASE process = "running" /\ Start
  BY <1>1, StartRefines DEF Promised!Next
<1>2. CASE process = "running" /\ \E s \in Causes : Stop(s)
  BY <1>2, StopRefines DEF Promised!Next
<1>3. CASE process = "running" /\ Talk
  BY <1>3, TalkRefines DEF Promised!Next
<1>4. CASE RedisStep \/ RedisOutage \/ DatabaseOutage \/ UNCHANGED vars
  <2>1. UNCHANGED <<listening, process, conn>>
    BY <1>4 DEF RedisStep, RedisOutage, DatabaseOutage, vars, serverVars, lifeVars
  <2> QED BY <2>1, SameConnections DEF Phase
<1> QED BY <1>1, <1>2, <1>3, <1>4 DEF Next, Talk

\* The process implements the lifecycle: no step of start(), of a retry or of overlapping
\* shutdowns takes it back to serving or takes a connection outside it, a request comes only
\* on a connection taken before, and a clean stop is reported only by a process that has
\* served and whose last connection has ended.
THEOREM ServerRefines == Spec => ImplementsLifecycle
<1> QED
  BY InitRefines, NextRefines, InvInit, InvStep, PTL
  DEF Spec, IndInv, ImplementsLifecycle, Promised!Spec
=============================================================================
