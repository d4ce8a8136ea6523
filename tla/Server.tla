-------------------------------- MODULE Server --------------------------------
(***************************************************************************)
(* One process of the service, from start() to its exit: it connects to    *)
(* the database with retries, listens, serves requests and the probes of   *)
(* /health and /ready, and shuts down at a signal, an uncaught exception   *)
(* or an unhandled rejection, each of which calls shutdown of its own.     *)
(* Clients keep their connections open and send one request after another  *)
(* on each, also while the server closes.                                  *)
(* Its Redis client is the one of RedisClient; the ping of the probes is   *)
(* its only command here.                                                  *)
(***************************************************************************)
EXTENDS RedisClient, FiniteSets

CONSTANTS
    Self,         \* the instance
    Ping,         \* the command redis.ping() of checkRedisHealth
    Connections,  \* connections open at a time
    Prober,       \* the connection on which /health and /ready are asked
    Causes,       \* what calls shutdown: signals, exceptions, rejections
    DbMaxRetries  \* DB_MAX_RETRIES

ASSUME ServerAssumption ==
    /\ Self \in Instances /\ Ping \in Commands /\ Prober \in Connections
    /\ DbMaxRetries \in Nat \ {0}

VARIABLES
    dbUp,        \* the database is there and can be reached
    start,       \* progress of start()
    attempt,     \* attempt of the loop in DatabaseClient.connect
    isConnected, \* DatabaseClient.isConnected
    listening,   \* the listening socket
    conn,        \* each connection, and whether a request is under way on it
    call,        \* progress of each call of shutdown
    process,     \* "running", or how it exited: process.exit(0) "clean", (1) "failed"
    probe,       \* the probe under way: its endpoint and component results; the last answer
    down         \* history: what has been out of reach all the time since the probe began

lifeVars == <<start, attempt, isConnected, listening, process>>
serverVars == <<dbUp, lifeVars, conn, call, probe, down>>
vars == <<redisVars, serverVars>>

-----------------------------------------------------------------------------
Health == {"healthy", "degraded", "unhealthy"}

\* A call of shutdown waits for the 'close' event, which will bring it no error ("closing")
\* or ERR_SERVER_NOT_RUNNING ("late"), then for db.disconnect() with the same in mind.
Stage == {"idle", "closing", "late", "leaving", "leavingLate"}

Probe == [path : {"none", "/health", "/ready"}, database : Health \cup {"pending"},
          redis : Health \cup {"pending"}, answer : {"none", "200", "503"}]

TypeOK ==
    /\ RedisTypeOK
    /\ dbUp \in BOOLEAN
    /\ start \in {"connecting", "sleeping", "done"}
    /\ attempt \in 0..(DbMaxRetries - 1)
    /\ isConnected \in BOOLEAN
    /\ listening \in {"never", "opening", "open", "closed"}
    /\ conn \in [Connections -> {"none", "idle", "busy"}]
    /\ call \in [Causes -> Stage]
    /\ process \in {"running", "clean", "failed"}
    /\ probe \in Probe
    /\ down \subseteq {"database", "redis"}

Probing == conn[Prober] = "busy"

\* No connection is left, and none can come in.
Drained == listening # "open" /\ \A c \in Connections : conn[c] = "none"

Exit(how) == process' = how

-----------------------------------------------------------------------------
(* start() and DatabaseClient.connect                                      *)

\* $connect and SELECT 1 succeed: connect returns and start() calls server.listen.
Connected ==
    /\ start = "connecting" /\ dbUp
    /\ isConnected' = TRUE
    /\ start' = "done"
    /\ listening' = "opening"
    /\ UNCHANGED <<attempt, process>>

\* A variant of ConnectFails that lets start() go on after the last attempt.
ConnectFailsMutant ==
    /\ start = "connecting" /\ ~dbUp
    /\ IF attempt < DbMaxRetries - 1
       THEN start' = "sleeping" /\ UNCHANGED listening
       ELSE start' = "done" /\ listening' = "opening"
    /\ UNCHANGED <<attempt, isConnected, process>>

\* Either call throws; after the last attempt connect throws and start() exits.
ConnectFails ==
    /\ start = "connecting" /\ ~dbUp
    /\ IF attempt < DbMaxRetries - 1
       THEN start' = "sleeping" /\ UNCHANGED process
       ELSE Exit("failed") /\ UNCHANGED start
    /\ UNCHANGED <<attempt, isConnected, listening>>

\* A variant of Retry that does not count the attempt.
RetryMutant ==
    /\ start = "sleeping"
    /\ start' = "connecting"
    /\ UNCHANGED <<attempt, isConnected, listening, process>>

\* The backoff delay is over.
Retry ==
    /\ start = "sleeping"
    /\ start' = "connecting"
    /\ attempt' = attempt + 1
    /\ UNCHANGED <<isConnected, listening, process>>

\* The socket is bound.
Listen ==
    /\ listening = "opening"
    /\ listening' = "open"
    /\ UNCHANGED <<start, attempt, isConnected, process>>

\* The callbacks of a shutdown that found no running server come before any of this.
Start ==
    /\ \A s \in Causes : call[s] # "late"
    /\ Connected \/ ConnectFails \/ Retry \/ Listen
    /\ UNCHANGED <<redisVars, dbUp, conn, call, probe, down>>

-----------------------------------------------------------------------------
(* shutdown()                                                              *)

\* A signal or an exception calls shutdown.  server.close stops a listening server; any
\* other is not running, and the callback will be told so.
Shutdown(s) ==
    /\ call[s] = "idle"
    /\ IF listening = "open"
       THEN call' = [call EXCEPT ![s] = "closing"] /\ listening' = "closed"
       ELSE call' = [call EXCEPT ![s] = "late"] /\ UNCHANGED listening
    /\ UNCHANGED <<start, attempt, isConnected, process>>

\* The port cannot be bound: the 'error' event of the server is an uncaught exception.
ListenFails(s) ==
    /\ listening = "opening" /\ call[s] = "idle"
    /\ call' = [call EXCEPT ![s] = "late"]
    /\ listening' = "never"
    /\ UNCHANGED <<start, attempt, isConnected, process>>

\* A variant of Disconnect that leaves the error of server.close out of the exit code.
DisconnectMutant(s, stage, how) ==
    IF isConnected THEN call' = [call EXCEPT ![s] = stage] /\ UNCHANGED process
                   ELSE Exit("clean") /\ UNCHANGED call

\* db.disconnect() in the callback of server.close: it waits for $disconnect, in the given
\* stage, or has nothing to do and the process exits.
Disconnect(s, stage, how) ==
    IF isConnected THEN call' = [call EXCEPT ![s] = stage] /\ UNCHANGED process
                   ELSE Exit(how) /\ UNCHANGED call

\* A variant of Close that leaves as soon as the socket no longer listens.
CloseMutant(s) ==
    /\ listening # "open"
    /\ \/ call[s] = "closing" /\ Disconnect(s, "leaving", "clean")
       \/ call[s] = "late" /\ Disconnect(s, "leavingLate", "failed")
    /\ UNCHANGED <<start, attempt, isConnected, listening>>

\* The 'close' event calls back without an error, or with one.
Close(s) ==
    /\ Drained
    /\ \/ call[s] = "closing" /\ Disconnect(s, "leaving", "clean")
       \/ call[s] = "late" /\ Disconnect(s, "leavingLate", "failed")
    /\ UNCHANGED <<start, attempt, isConnected, listening>>

\* $disconnect returns, or throws.
Leave(s) ==
    /\ \/ call[s] = "leaving" /\ isConnected' = FALSE /\ Exit("clean")
       \/ call[s] = "leavingLate" /\ isConnected' = FALSE /\ Exit("failed")
       \/ /\ call[s] \in {"leaving", "leavingLate"}
          /\ Exit("failed") /\ UNCHANGED isConnected
    /\ UNCHANGED <<start, attempt, listening, call>>

\* A variant of ForceExit that is set only once the server has closed.
ForceExitMutant(s) ==
    /\ call[s] \in {"leaving", "leavingLate"}
    /\ Exit("failed")
    /\ UNCHANGED <<start, attempt, isConnected, listening, call>>

\* The timer of 10 seconds that this call of shutdown has set.
ForceExit(s) ==
    /\ call[s] # "idle"
    /\ Exit("failed")
    /\ UNCHANGED <<start, attempt, isConnected, listening, call>>

Stop(s) ==
    /\ Shutdown(s) \/ ListenFails(s) \/ Close(s) \/ Leave(s) \/ ForceExit(s)
    /\ UNCHANGED <<redisVars, dbUp, conn, probe, down>>
-----------------------------------------------------------------------------
(* Requests and probes                                                     *)

Switch(c, to) ==
    /\ conn' = [conn EXCEPT ![c] = to]
    /\ UNCHANGED <<dbUp, lifeVars, call, down>>

Connect(c) ==
    /\ listening = "open" /\ conn[c] = "none"
    /\ Switch(c, "idle")
    /\ UNCHANGED <<redisVars, probe>>

\* The client or the keep-alive time limit ends a connection without a request; from Node 19
\* on server.close does so too.
HangUp(c) ==
    /\ conn[c] = "idle"
    /\ Switch(c, "none")
    /\ UNCHANGED <<redisVars, probe>>

\* A request comes in on a connection that is open, whether the server still listens or not.
Accept(c) ==
    /\ c # Prober /\ conn[c] = "idle"
    /\ Switch(c, "busy")
    /\ UNCHANGED <<redisVars, probe>>

\* The response is sent.  The connection stays open for the next request, or ends.
Answer(c) ==
    /\ c # Prober /\ conn[c] = "busy"
    /\ \E to \in {"idle", "none"} : Switch(c, to)
    /\ UNCHANGED <<redisVars, probe>>

\* A variant of BeginProbe that takes a connected client for a healthy one.
BeginProbeMutant(path) ==
    /\ conn[Prober] = "idle"
    /\ conn' = [conn EXCEPT ![Prober] = "busy"]
    /\ probe' = [path |-> path, database |-> "pending", answer |-> "none",
                 redis |-> IF isRedisConnected(Self) THEN "healthy" ELSE "unhealthy"]
    /\ down' = {d \in {"database", "redis"} : IF d = "redis" THEN ~redisUp ELSE ~dbUp}
    /\ UNCHANGED <<redisVars, dbUp, lifeVars, call>>

\* The checks run side by side: SELECT 1 and, if the client is connected, the ping are
\* sent before anything is awaited.
BeginProbe(path) ==
    /\ conn[Prober] = "idle"
    /\ conn' = [conn EXCEPT ![Prober] = "busy"]
    /\ probe' = [path |-> path, database |-> "pending", answer |-> "none",
                 redis |-> IF isRedisConnected(Self) THEN "pending" ELSE "unhealthy"]
    /\ down' = {d \in {"database", "redis"} : IF d = "redis" THEN ~redisUp ELSE ~dbUp}
    /\ IF isRedisConnected(Self) THEN Execute(Self, Ping) ELSE UNCHANGED redisVars
    /\ UNCHANGED <<dbUp, lifeVars, call>>

\* A database that answers is degraded in production without SSL.
checkDatabaseHealth ==
    /\ Probing /\ probe.database = "pending"
    /\ \E health \in IF dbUp THEN {"healthy", "degraded"} ELSE {"unhealthy"} :
         probe' = [probe EXCEPT !.database = health]
    /\ UNCHANGED <<redisVars, dbUp, lifeVars, conn, call, down>>

checkRedisHealth ==
    /\ Probing /\ probe.redis = "pending" /\ cmd[Self][Ping] # "sent"
    /\ probe' = [probe EXCEPT !.redis = IF cmd[Self][Ping] = "done"
                                       THEN "healthy" ELSE "unhealthy"]
    /\ UNCHANGED <<redisVars, dbUp, lifeVars, conn, call, down>>

NoProbe(answer) ==
    [path |-> "none", database |-> "pending", redis |-> "pending", answer |-> answer]

\* performReadinessCheck and performHealthCheck.  The checks of the keys and of the metrics
\* may have any result; the one of the GitHub App never changes the status code.
AnswerProbe ==
    /\ Probing /\ "pending" \notin {probe.database, probe.redis}
    /\ \E keys, metrics \in {"healthy", "unhealthy"} :
         LET critical == {probe.database, probe.redis, keys}
             ok == IF probe.path = "/ready" THEN critical \cup {metrics} = {"healthy"}
                                            ELSE "unhealthy" \notin critical
         IN probe' = NoProbe(IF ok THEN "200" ELSE "503")
    /\ \E to \in {"idle", "none"} : Switch(Prober, to)
    /\ UNCHANGED redisVars

CheckUp == checkDatabaseHealth \/ checkRedisHealth \/ AnswerProbe

-----------------------------------------------------------------------------
(* Surroundings                                                            *)

RedisStep ==
    /\ Connection(Self) \/ Reply(Self, Ping)
    /\ UNCHANGED serverVars

RedisOutage ==
    /\ Outage
    /\ down' = down \ {d \in {"redis"} : redisUp'}
    /\ UNCHANGED <<dbUp, lifeVars, conn, call, probe>>

DatabaseOutage ==
    /\ dbUp' = ~dbUp
    /\ down' = down \ {d \in {"database"} : dbUp'}
    /\ UNCHANGED <<redisVars, lifeVars, conn, call, probe>>

-----------------------------------------------------------------------------
Init ==
    /\ RedisInit
    /\ dbUp \in BOOLEAN
    /\ start = "connecting" /\ attempt = 0 /\ isConnected = FALSE
    /\ listening = "never"
    /\ conn = [c \in Connections |-> "none"]
    /\ call = [s \in Causes |-> "idle"]
    /\ process = "running"
    /\ probe = NoProbe("none")
    /\ down = {}

Next ==
    /\ process = "running"
    /\ \/ Start
       \/ \E s \in Causes : Stop(s)
       \/ \E c \in Connections : Connect(c) \/ HangUp(c) \/ Accept(c) \/ Answer(c)
       \/ \E path \in {"/health", "/ready"} : BeginProbe(path)
       \/ CheckUp
       \/ RedisStep \/ RedisOutage \/ DatabaseOutage

Spec == Init /\ [][Next]_vars

Running(A) == process = "running" /\ A

\* Timers fire, calls of the database and of Redis end, callbacks run.  Nothing is asked of
\* clients, of handlers, of 'close' or of $disconnect, which may take for ever.
FairSpec ==
    /\ Spec
    /\ WF_vars(Running(Start))
    /\ \A s \in Causes :
         WF_vars(Running(ForceExit(s) /\ UNCHANGED <<redisVars, dbUp, conn, probe, down>>))
    /\ WF_vars(Running(CheckUp))
    /\ WF_vars(Running(Connection(Self) /\ UNCHANGED serverVars))
    /\ SF_vars(Running(Reply(Self, Ping) /\ UNCHANGED serverVars))

-----------------------------------------------------------------------------
(* Properties                                                              *)

\* Exit code 0 says that the shutdown was graceful: no client lost its request and the
\* database was disconnected, also when several signals and exceptions overlapped, one of
\* them during the start, and when requests kept coming on connections opened before.
CleanExit ==
    process = "clean" => ~isConnected /\ \A c \in Connections : conn[c] # "busy"

\* As long as the process lives, requests find the database connected: none is taken
\* before connect has succeeded, and none on a connection that outlives $disconnect.
ServedConnected ==
    process = "running" /\ (\E c \in Connections : conn[c] = "busy") => isConnected

\* A probe answers 200 only if, at some moment since it was asked, the database could be
\* reached, and at some moment Redis.
AnswerTruthful == probe.answer = "200" => down = {}

\* What keeps CleanExit and ServedConnected: the server listens only after a successful
\* connect, which lasts as long as the process; a shutdown without error has closed the
\* socket, and disconnects only when no connection is left: none can come after that.
LifeInv ==
    /\ start = "sleeping" => attempt < DbMaxRetries - 1
    /\ listening # "never" => start = "done"
    /\ process = "running" => (start = "done" <=> isConnected)
    /\ \A c \in Connections : conn[c] # "none" => listening \in {"open", "closed"}
    /\ \A s \in Causes : call[s] = "closing" => listening = "closed"
    /\ \A s \in Causes : call[s] = "leaving" => listening = "closed" /\ Drained

\* What keeps AnswerTruthful: a check has a positive result, or its ping an answer, only
\* if the component was in reach after the probe had begun.
ProbeInv ==
    /\ dbUp => "database" \notin down
    /\ redisUp => "redis" \notin down
    /\ Probing /\ probe.database \in {"healthy", "degraded"} => "database" \notin down
    /\ Probing /\ probe.redis \in {"healthy", "degraded"} => "redis" \notin down
    /\ Probing /\ probe.redis = "pending" /\ cmd[Self][Ping] = "done" => "redis" \notin down

IndInv == TypeOK /\ LifeInv /\ CleanExit /\ ProbeInv /\ AnswerTruthful

\* The process implements the lifecycle a supervisor and a load balancer rely on, through
\* retries of the start, ports that cannot be bound and overlapping calls of shutdown.
Phase ==
    CASE process = "clean"  -> "stopped"
      [] process = "failed" -> "failed"
      [] OTHER -> CASE listening = "open"   -> "serving"
                    [] listening = "closed" -> "draining"
                    [] OTHER                -> "starting"

Opened == {c \in Connections : conn[c] # "none"}
Busy == {c \in Connections : conn[c] = "busy"}

Promised == INSTANCE Lifecycle WITH phase <- Phase, open <- Opened, busy <- Busy

ImplementsLifecycle == Promised!Spec

\* The start comes to an end: start() has called server.listen or the process has exited,
\* however the database comes and goes.
StartSettles == <>(start = "done" \/ process # "running")

\* A signal stops the process, also with requests that never end, in any phase.
SignalStops == \A s \in Causes : (call[s] # "idle") ~> (process # "running")

\* Every probe is answered unless the process exits first.
ProbeAnswered == Probing ~> (~Probing \/ process # "running")
=============================================================================
