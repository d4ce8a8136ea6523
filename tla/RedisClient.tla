----------------------------- MODULE RedisClient -----------------------------
(***************************************************************************)
(* The Redis client of each instance of the service: one ioredis           *)
(* connection, opened while the module loads, whose reconnection the       *)
(* retryStrategy of redis-client.ts decides, and the commands that         *)
(* executeRedisOperation and the health check send through it.  ioredis is *)
(* modelled by what redis-client.ts asks of it: no queue for commands sent *)
(* while it is not ready, and commands under way when the connection       *)
(* breaks sent again after it is back, or failed at the limits of the      *)
(* options.                                                                *)
(***************************************************************************)
EXTENDS Integers

CONSTANTS
    Instances,           \* running processes of the service
    Commands,            \* commands an instance may have under way at once
    MaxRetries,          \* REDIS_MAX_RETRIES
    MaxRetriesPerRequest, \* REDIS_MAX_RETRIES_PER_REQUEST
    Outages              \* TRUE when Redis may be out of reach

ASSUME RetriesAssumption ==
    /\ {MaxRetries, MaxRetriesPerRequest} \subseteq Nat
    /\ Outages \in BOOLEAN

VARIABLES
    redisUp,   \* the Redis server is there and can be reached
    status,    \* redisClient.status, per instance; "connecting" includes ioredis's "connect"
    attempts,  \* ioredis's retryAttempts, per instance
    cmd        \* progress of each command

redisVars == <<redisUp, status, attempts, cmd>>

-----------------------------------------------------------------------------
RedisTypeOK ==
    /\ redisUp \in BOOLEAN
    /\ status \in [Instances -> {"connecting", "ready", "reconnecting", "end"}]
    /\ attempts \in [Instances -> 0..MaxRetries]
    /\ cmd \in [Instances -> [Commands -> {"none", "sent", "done", "failed"}]]

isRedisConnected(i) == status[i] = "ready"

\* The commands of i with those still unanswered failed.
Flushed(i) == [c \in Commands |-> IF cmd[i][c] = "sent" THEN "failed" ELSE cmd[i][c]]

-----------------------------------------------------------------------------
(* The connection                                                          *)

\* 'ready': the commands of the lost connection are sent again.
Ready(i) ==
    /\ status[i] = "connecting" /\ redisUp
    /\ status' = [status EXCEPT ![i] = "ready"]
    /\ attempts' = [attempts EXCEPT ![i] = 0]
    /\ UNCHANGED <<redisUp, cmd>>

\* A variant of Closed that leaves the commands under way to a later connection.
ClosedMutant(i) ==
    IF attempts[i] + 1 > MaxRetries
    THEN /\ status' = [status EXCEPT ![i] = "end"]
         /\ UNCHANGED <<redisUp, attempts, cmd>>
    ELSE /\ status' = [status EXCEPT ![i] = "reconnecting"]
         /\ attempts' = [attempts EXCEPT ![i] = @ + 1]
         /\ UNCHANGED <<redisUp, cmd>>

\* 'close': retryStrategy(times) answers null beyond MaxRetries, which ends the client;
\* otherwise ioredis waits for the delay, failing the commands under way at every
\* (MaxRetriesPerRequest + 1)th attempt.
Closed(i) ==
    LET times == attempts[i] + 1 IN
    IF times > MaxRetries
    THEN /\ status' = [status EXCEPT ![i] = "end"]
         /\ cmd' = [cmd EXCEPT ![i] = Flushed(i)]
         /\ UNCHANGED <<redisUp, attempts>>
    ELSE /\ status' = [status EXCEPT ![i] = "reconnecting"]
         /\ attempts' = [attempts EXCEPT ![i] = times]
         /\ cmd' = IF times % (MaxRetriesPerRequest + 1) = 0
                   THEN [cmd EXCEPT ![i] = Flushed(i)] ELSE cmd
         /\ UNCHANGED redisUp

\* The connection cannot be opened, or breaks.
Drop(i) ==
    /\ status[i] \in {"connecting", "ready"} /\ ~redisUp
    /\ Closed(i)

\* The delay of retryStrategy is over.
Reconnect(i) ==
    /\ status[i] = "reconnecting"
    /\ status' = [status EXCEPT ![i] = "connecting"]
    /\ UNCHANGED <<redisUp, attempts, cmd>>

-----------------------------------------------------------------------------
(* Commands                                                                *)

\* getRedisClient returns the client in whatever state it is; unless it is ready the
\* command is rejected at once, since enableOfflineQueue is off.
Execute(i, c) ==
    /\ cmd[i][c] # "sent"
    /\ cmd' = [cmd EXCEPT ![i][c] = IF isRedisConnected(i) THEN "sent" ELSE "failed"]
    /\ UNCHANGED <<redisUp, status, attempts>>

\* Redis answers; an error reply fails the operation.
Reply(i, c) ==
    /\ cmd[i][c] = "sent" /\ isRedisConnected(i) /\ redisUp
    /\ \E result \in {"done", "failed"} : cmd' = [cmd EXCEPT ![i][c] = result]
    /\ UNCHANGED <<redisUp, status, attempts>>

\* Redis, or the way to it, goes away or comes back.
Outage ==
    /\ Outages
    /\ redisUp' = ~redisUp
    /\ UNCHANGED <<status, attempts, cmd>>

-----------------------------------------------------------------------------
\* The module has loaded: the client exists (lazyConnect is off) and connects.
RedisInit ==
    /\ redisUp \in BOOLEAN /\ (redisUp \/ Outages)
    /\ status = [i \in Instances |-> "connecting"]
    /\ attempts = [i \in Instances |-> 0]
    /\ cmd = [i \in Instances |-> [c \in Commands |-> "none"]]

Connection(i) == Ready(i) \/ Drop(i) \/ Reconnect(i)

RedisNext ==
    \/ \E i \in Instances :
         Connection(i) \/ \E c \in Commands : Execute(i, c) \/ Reply(i, c)
    \/ Outage

\* The timers of ioredis fire and its connection attempts end; a Redis that can be
\* reached again and again answers in the end what is sent to it.
RedisFairness ==
    \A i \in Instances :
        /\ WF_redisVars(Connection(i))
        /\ \A c \in Commands : SF_redisVars(Reply(i, c))

RedisSpec == RedisInit /\ [][RedisNext]_redisVars /\ RedisFairness

-----------------------------------------------------------------------------
(* Properties                                                              *)

\* No operation waits for ever: every command of executeRedisOperation is answered or
\* fails, however the connection breaks, comes back or ends meanwhile.
CommandSettles ==
    \A i \in Instances, c \in Commands : (cmd[i][c] = "sent") ~> (cmd[i][c] # "sent")

\* "Monitor for Redis reconnection (automatic with exponential backoff)"
\* (docs/operations.md:449): once Redis is back for good, every client of the service is
\* connected again.
ClientReconnects ==
    \A i \in Instances : <>[]redisUp => <>[](status[i] = "ready")
=============================================================================
