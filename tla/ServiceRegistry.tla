--------------------------- MODULE ServiceRegistry ---------------------------
(***************************************************************************)
(* Services and their API keys: authenticateService on the instances of    *)
(* the service, and the commands of manage-services, each a process of its *)
(* own on the same database.  Requests and commands are split at their     *)
(* awaited calls: bcrypt.compare runs on a row that may have changed since *)
(* it was read, and a command writes after an earlier check.               *)
(***************************************************************************)
EXTENDS Integers, FiniteSets

CONSTANTS
    Identifiers, \* service identifiers
    Ids,         \* the values the id column may take
    Keys,        \* the values generateApiKey may return
    Requests,    \* slots of requests that authenticate a service
    Operators,   \* terminals that run manage-services, one command at a time
    None

ASSUME NoneAssumption == None \notin Identifiers \cup Ids \cup Keys

VARIABLES
    registry,  \* service_registry: the row of each identifier
    generated, \* API keys generated so far
    assigned,  \* ids assigned so far
    req,       \* the state of each request slot
    cmd,       \* the state of each terminal
    printed,   \* history: keys an operator has seen
    lost,      \* history: keys stored by a command that ended without printing them
    replaced,  \* history: keys that a rotation or a deletion took out of the table
    retired,   \* history: keys whose rotation or deletion was reported as done
    suspended, \* history: services whose deactivation was reported, with no command
               \* started since, or running then, that could activate them
    contested, \* history: terminals whose command overlapped such a command
    barred,    \* history: slots whose request began with a retired key or for a
               \* suspended service
    valid      \* history: slots whose service was active, with their key, at some
               \* moment of their request, and has not been deleted since

registryVars == <<registry, generated, assigned>>
keyHistory   == <<printed, lost, replaced, retired>>
vars == <<registryVars, req, cmd, keyHistory, suspended, contested, barred, valid>>

-----------------------------------------------------------------------------
(* Data                                                                    *)

Status == {"absent", "active", "inactive"}

\* The stored bcrypt hash is represented by the key it was made from.
Row == [status : Status, id : Ids \cup {None}, key : Keys \cup {None}]
NoRow == [status |-> "absent", id |-> None, key |-> None]

RequestPC == {"idle", "find", "compare", "use", "authenticated", "rejected"}

\* id and hash come from the row that was read.
Request == [pc : RequestPC, service : Identifiers \cup {None}, key : Keys \cup {None},
            id : Ids \cup {None}, hash : Keys \cup {None}]

Name == {"add", "rotate", "deactivate", "activate", "delete"}

\* Commands after which a service may be active that was not before.
Enabling == {"add", "activate"}

\* key is the key the command has generated, old the one it has taken out of the table.
Command == [pc : {"idle", "check", "write", "report"}, name : Name \cup {None},
            service : Identifiers \cup {None}, key : Keys \cup {None},
            old : Keys \cup {None}]

TypeOK ==
    /\ registry \in [Identifiers -> Row]
    /\ generated \subseteq Keys
    /\ assigned \subseteq Ids
    /\ req \in [Requests -> Request]
    /\ cmd \in [Operators -> Command]
    /\ {printed, lost, replaced, retired} \subseteq SUBSET Keys
    /\ suspended \subseteq Identifiers
    /\ contested \subseteq Operators
    /\ barred \subseteq Requests
    /\ valid \subseteq Requests

-----------------------------------------------------------------------------
(* Helpers                                                                 *)

Exists(s) == registry[s].status # "absent"

Active(r) == req[r].pc \in {"find", "compare", "use"}

Running(o) == cmd[o].pc # "idle"

\* A command that could activate s is under way.
EnablingUnderWay(s) ==
    \E o \in Operators : Running(o) /\ cmd[o].service = s /\ cmd[o].name \in Enabling

\* Bounds: a key and an id are left for every command that may need one.
RoomForCommand(name) ==
    LET running(names) == {o \in Operators : Running(o) /\ cmd[o].name \in names} IN
    /\ name \in {"add", "rotate"} =>
          Cardinality(running({"add", "rotate"})) < Cardinality(Keys \ generated)
    /\ name = "add" => Cardinality(running({"add"})) < Cardinality(Ids \ assigned)

\* The slots that see, in the row of s, an active service with their key.
Matching(s, row) ==
    {r \in Requests : Active(r) /\ req[r].service = s
                      /\ row.status = "active" /\ row.key = req[r].key}

Goto(r, pc) == req' = [req EXCEPT ![r].pc = pc]

-----------------------------------------------------------------------------
(* authenticateService                                                     *)

Authenticate(r) ==
    /\ ~Active(r)
    /\ \E s \in Identifiers, k \in generated :
         /\ req' = [req EXCEPT ![r] = [pc |-> "find", service |-> s, key |-> k,
                                       id |-> None, hash |-> None]]
         /\ barred' = IF k \in retired \/ s \in suspended
                      THEN barred \cup {r} ELSE barred \ {r}
         /\ valid' = IF registry[s].status = "active" /\ registry[s].key = k
                     THEN valid \cup {r} ELSE valid \ {r}
    /\ UNCHANGED <<registryVars, cmd, keyHistory, suspended, contested>>

FindService(r) ==
    LET row == registry[req[r].service] IN
    /\ req[r].pc = "find"
    /\ req' = IF row.status = "active"
              THEN [req EXCEPT ![r] = [@ EXCEPT !.pc = "compare", !.id = row.id,
                                               !.hash = row.key]]
              ELSE [req EXCEPT ![r].pc = "rejected"]
    /\ UNCHANGED <<registryVars, cmd, keyHistory, suspended, contested, barred, valid>>

\* bcrypt.compare with the hash read before.
CompareKey(r) ==
    /\ req[r].pc = "compare"
    /\ Goto(r, IF req[r].key = req[r].hash THEN "use" ELSE "rejected")
    /\ UNCHANGED <<registryVars, cmd, keyHistory, suspended, contested, barred, valid>>

\* A variant of RecordUse that updates lastUsedAt by identifier.
RecordUseMutant(r) ==
    /\ req[r].pc = "use"
    /\ Goto(r, IF Exists(req[r].service) THEN "authenticated" ELSE "rejected")
    /\ UNCHANGED <<registryVars, cmd, keyHistory, suspended, contested, barred, valid>>

\* The update of lastUsedAt by id: it throws, and the service is rejected, when the row
\* has been deleted.
RecordUse(r) ==
    /\ req[r].pc = "use"
    /\ Goto(r, IF registry[req[r].service].id = req[r].id
               THEN "authenticated" ELSE "rejected")
    /\ UNCHANGED <<registryVars, cmd, keyHistory, suspended, contested, barred, valid>>

\* A call that throws.
AuthenticationError(r) ==
    /\ Active(r)
    /\ Goto(r, "rejected")
    /\ UNCHANGED <<registryVars, cmd, keyHistory, suspended, contested, barred, valid>>

-----------------------------------------------------------------------------
(* manage-services                                                         *)

Idle == [pc |-> "idle", name |-> None, service |-> None, key |-> None, old |-> None]

End(o) == cmd' = [cmd EXCEPT ![o] = Idle]

\* An operator starts a command.
Run(o) ==
    /\ ~Running(o)
    /\ \E name \in Name, s \in Identifiers :
         /\ RoomForCommand(name)
         /\ cmd' = [cmd EXCEPT ![o] = [pc |-> "check", name |-> name, service |-> s,
                                       key |-> None, old |-> None]]
         /\ IF name \in Enabling
            THEN /\ contested' = (contested \ {o})
                        \cup {p \in Operators : Running(p) /\ cmd[p].service = s}
                 /\ suspended' = suspended \ {s}
                 /\ barred' = {r \in barred : req[r].service # s \/ req[r].key \in retired}
            ELSE /\ contested' = IF EnablingUnderWay(s)
                                 THEN contested \cup {o} ELSE contested \ {o}
                 /\ UNCHANGED <<suspended, barred>>
    /\ UNCHANGED <<registryVars, req, keyHistory, valid>>

\* The service is there (add: it is not) and not yet in the state asked for.
CheckPasses(name, row) ==
    CASE name = "add"        -> row.status = "absent"
      [] name = "activate"   -> row.status = "inactive"
      [] name = "deactivate" -> row.status = "active"
      [] OTHER               -> row.status # "absent"

\* getService, and the messages that end a command: "already exists", "not found",
\* "already inactive", "already active".  add and rotate go on with a new key.
CheckService(o) ==
    LET name == cmd[o].name
        row  == registry[cmd[o].service]
    IN
    /\ cmd[o].pc = "check"
    /\ CASE CheckPasses(name, row) /\ name \in {"add", "rotate"} ->
              \E k \in Keys \ generated :
                 /\ generated' = generated \cup {k}
                 /\ cmd' = [cmd EXCEPT ![o] = [@ EXCEPT !.pc = "write", !.key = k]]
         [] CheckPasses(name, row) /\ name \notin {"add", "rotate"} ->
              cmd' = [cmd EXCEPT ![o].pc = "write"] /\ UNCHANGED generated
         [] name = "deactivate" /\ row.status = "inactive" ->
              cmd' = [cmd EXCEPT ![o].pc = "report"] /\ UNCHANGED generated
         [] OTHER -> End(o) /\ UNCHANGED generated
    /\ UNCHANGED <<registry, assigned, req, keyHistory, suspended, contested, barred, valid>>

\* The row after the write.
Stored(s, row) ==
    /\ registry' = [registry EXCEPT ![s] = row]
    /\ valid' = valid \cup Matching(s, row)

\* A variant of CreateService that overwrites an existing row.
CreateServiceMutant(o) ==
    /\ cmd[o].pc = "write" /\ cmd[o].name = "add"
    /\ \E i \in Ids \ assigned :
         /\ assigned' = assigned \cup {i}
         /\ Stored(cmd[o].service, [status |-> "active", id |-> i, key |-> cmd[o].key])
    /\ cmd' = [cmd EXCEPT ![o].pc = "report"]
    /\ UNCHANGED <<generated, req, keyHistory, suspended, contested, barred>>

\* createService: the unique index makes the insert of an existing identifier throw.
CreateService(o) ==
    /\ cmd[o].pc = "write" /\ cmd[o].name = "add"
    /\ ~Exists(cmd[o].service)
    /\ \E i \in Ids \ assigned :
         /\ assigned' = assigned \cup {i}
         /\ Stored(cmd[o].service, [status |-> "active", id |-> i, key |-> cmd[o].key])
    /\ cmd' = [cmd EXCEPT ![o].pc = "report"]
    /\ UNCHANGED <<generated, req, keyHistory, suspended, contested, barred>>

\* A variant of RotateKey that stores only lastApiKeyRotatedAt.
RotateKeyMutant(o) ==
    /\ cmd[o].pc = "write" /\ cmd[o].name = "rotate"
    /\ Exists(cmd[o].service)
    /\ cmd' = [cmd EXCEPT ![o] = [@ EXCEPT !.pc = "report",
                                          !.old = registry[cmd[o].service].key]]
    /\ replaced' = replaced \cup {registry[cmd[o].service].key}
    /\ UNCHANGED <<registryVars, req, printed, lost, retired, suspended, contested,
                   barred, valid>>

\* rotateServiceApiKey
RotateKey(o) ==
    LET s == cmd[o].service IN
    /\ cmd[o].pc = "write" /\ cmd[o].name = "rotate"
    /\ Exists(s)
    /\ Stored(s, [registry[s] EXCEPT !.key = cmd[o].key])
    /\ cmd' = [cmd EXCEPT ![o] = [@ EXCEPT !.pc = "report", !.old = registry[s].key]]
    /\ replaced' = replaced \cup {registry[s].key}
    /\ UNCHANGED <<generated, assigned, req, printed, lost, retired, suspended, contested,
                   barred>>

\* activateService and deactivateService
SetActive(o) ==
    LET s == cmd[o].service IN
    /\ cmd[o].pc = "write" /\ cmd[o].name \in {"activate", "deactivate"}
    /\ Exists(s)
    /\ Stored(s, [registry[s] EXCEPT
                    !.status = IF cmd[o].name = "activate" THEN "active" ELSE "inactive"])
    /\ cmd' = [cmd EXCEPT ![o].pc = "report"]
    /\ UNCHANGED <<generated, assigned, req, keyHistory, suspended, contested, barred>>

\* The operator says yes and deleteService runs, on whatever row the identifier has now.
DeleteService(o) ==
    LET s == cmd[o].service IN
    /\ cmd[o].pc = "write" /\ cmd[o].name = "delete"
    /\ Exists(s)
    /\ registry' = [registry EXCEPT ![s] = NoRow]
    /\ valid' = valid \ {r \in Requests : Active(r) /\ req[r].service = s}
    /\ cmd' = [cmd EXCEPT ![o] = [@ EXCEPT !.pc = "report", !.old = registry[s].key]]
    /\ replaced' = replaced \cup {registry[s].key}
    /\ UNCHANGED <<generated, assigned, req, printed, lost, retired, suspended, contested,
                   barred>>

\* Prisma's update and delete throw without a row, create throws with one, and a deletion
\* may be cancelled: the command ends.
RefuseWrite(o) ==
    /\ cmd[o].pc = "write"
    /\ \/ cmd[o].name = "add" /\ Exists(cmd[o].service)
       \/ cmd[o].name # "add" /\ ~Exists(cmd[o].service)
       \/ cmd[o].name = "delete"
    /\ End(o)
    /\ UNCHANGED <<registryVars, req, keyHistory, suspended, contested, barred, valid>>

\* A variant of Report in which rotate does not print the key.
ReportMutant(o) ==
    /\ cmd[o].pc = "report"
    /\ printed' = IF cmd[o].name = "add" THEN printed \cup {cmd[o].key} ELSE printed
    /\ retired' = retired \cup ({cmd[o].old} \ {None})
    /\ End(o)
    /\ UNCHANGED <<registryVars, req, lost, replaced, suspended, contested, barred, valid>>

\* The command prints its success, with the new key if there is one.
Report(o) ==
    /\ cmd[o].pc = "report"
    /\ printed' = printed \cup ({cmd[o].key} \ {None})
    /\ retired' = retired \cup ({cmd[o].old} \ {None})
    /\ suspended' = IF cmd[o].name = "deactivate" /\ o \notin contested
                    THEN suspended \cup {cmd[o].service} ELSE suspended
    /\ End(o)
    /\ UNCHANGED <<registryVars, req, lost, replaced, contested, barred, valid>>

\* The command is interrupted, or a database call fails, possibly after the write has
\* taken effect.
FailCommand(o) ==
    /\ Running(o)
    /\ lost' = IF cmd[o].pc = "report" THEN lost \cup ({cmd[o].key} \ {None}) ELSE lost
    /\ End(o)
    /\ UNCHANGED <<registryVars, req, printed, replaced, retired, suspended, contested,
                   barred, valid>>

-----------------------------------------------------------------------------
Init ==
    /\ registry = [s \in Identifiers |-> NoRow]
    /\ generated = {}
    /\ assigned = {}
    /\ req = [r \in Requests |-> [pc |-> "idle", service |-> None, key |-> None,
                                  id |-> None, hash |-> None]]
    /\ cmd = [o \in Operators |-> Idle]
    /\ printed = {} /\ lost = {} /\ replaced = {} /\ retired = {}
    /\ suspended = {}
    /\ contested = {}
    /\ barred = {}
    /\ valid = {}

Serve(r) == FindService(r) \/ CompareKey(r) \/ RecordUse(r) \/ AuthenticationError(r)

Write(o) ==
    CreateService(o) \/ RotateKey(o) \/ SetActive(o) \/ DeleteService(o) \/ RefuseWrite(o)

Next ==
    \/ \E r \in Requests : Authenticate(r) \/ Serve(r)
    \/ \E o \in Operators :
         Run(o) \/ CheckService(o) \/ Write(o) \/ Report(o) \/ FailCommand(o)

Spec == Init /\ [][Next]_vars

-----------------------------------------------------------------------------
(* Properties                                                              *)

\* "The old API key is immediately invalidated", "unable to authenticate until
\* reactivated": a request that begins after a rotation, a deletion or a deactivation was
\* reported is not authenticated with the old key, or for the inactive service, whatever
\* other commands and requests run.
BarredNeverAuthenticated == \A r \in barred : req[r].pc # "authenticated"

\* A service is authenticated only if it was active, with the very key presented, at some
\* moment of the request, although bcrypt.compare runs on a row read earlier and another
\* await follows; and not when it was deleted since, even if it is registered again.
AuthenticatedWhileValid ==
    \A r \in Requests : req[r].pc = "authenticated" => r \in valid

\* A key that manage-services has printed authenticates its service until a rotation or a
\* deletion replaces it: two operators who add the same service never get a key each.
PrintedKeyStored ==
    printed \subseteq replaced \cup {registry[s].key : s \in Identifiers}

\* The key of every registered service is known to an operator or about to be, unless a
\* command failed between its write and its output.
StoredKeyKnown ==
    \A s \in Identifiers : Exists(s) =>
        \/ registry[s].key \in printed \cup lost
        \/ \E o \in Operators : cmd[o].pc = "report" /\ cmd[o].key = registry[s].key

\* The inductive invariant behind these.

\* Every row has a key and an id of its own, and a generated key is stored once.
KeyInv ==
    /\ printed \cup lost \cup replaced \subseteq generated
    /\ retired \subseteq replaced
    /\ \A s \in Identifiers :
          /\ Exists(s) => /\ registry[s].key \in generated \ replaced
                         /\ registry[s].id \in assigned
          /\ ~Exists(s) => registry[s] = NoRow
    /\ \A s, t \in Identifiers : Exists(s) /\ registry[s].key = registry[t].key => s = t

\* A key on its way into the table is nowhere else; on its way to the operator it is
\* stored or was replaced.
Fresh(o) ==
    /\ cmd[o].key \notin replaced
    /\ \A s \in Identifiers : registry[s].key # cmd[o].key
    /\ \A p \in Operators : cmd[p].key = cmd[o].key => p = o

CommandInv(o) ==
    /\ Running(o) => cmd[o].name \in Name /\ cmd[o].service \in Identifiers
    /\ ~Running(o) => cmd[o] = Idle
    /\ cmd[o].key \in generated \cup {None}
    /\ cmd[o].key \in Keys => cmd[o].name \in {"add", "rotate"} /\ cmd[o].pc # "check"
    /\ cmd[o].old \in replaced \cup {None}
    /\ cmd[o].pc = "write" /\ cmd[o].name \in {"add", "rotate"} => cmd[o].key \in Keys
    /\ cmd[o].pc = "write" /\ cmd[o].key \in Keys => Fresh(o)
    /\ cmd[o].pc = "report" /\ cmd[o].key \in Keys =>
          cmd[o].key \in replaced \cup {registry[s].key : s \in Identifiers}

\* A suspended service is not active, and nothing under way can activate it.
SuspendedInv ==
    /\ \A s \in suspended : registry[s].status # "active" /\ ~EnablingUnderWay(s)
    /\ \A o \in Operators \ contested :
          Running(o) /\ cmd[o].name = "deactivate" =>
              /\ ~EnablingUnderWay(cmd[o].service)
              /\ cmd[o].pc = "report" => registry[cmd[o].service].status # "active"

\* A barred request cannot have passed the comparison of its key.
BarredInv(r) ==
    r \in barred =>
        /\ req[r].pc \in {"find", "compare", "rejected"}
        /\ req[r].pc = "find" => req[r].key \in retired \/ req[r].service \in suspended
        /\ req[r].pc = "compare" => req[r].hash # req[r].key

\* Before its answer a request has seen a valid row, or that row is gone.
ValidInv(r) ==
    LET row == registry[req[r].service]
        seen == r \in valid \/ row.id # req[r].id
    IN
    /\ Active(r) => req[r].service \in Identifiers /\ req[r].key \in Keys
    /\ Active(r) /\ row.status = "active" /\ row.key = req[r].key => r \in valid
    /\ req[r].pc \in {"compare", "use"} => req[r].id \in assigned
    /\ req[r].pc = "compare" /\ req[r].key = req[r].hash => seen
    /\ req[r].pc = "use" => seen
    /\ req[r].pc = "authenticated" => r \in valid

IndInv ==
    /\ TypeOK
    /\ KeyInv
    /\ \A o \in Operators : CommandInv(o)
    /\ PrintedKeyStored
    /\ StoredKeyKnown
    /\ SuspendedInv
    /\ \A r \in Requests : BarredInv(r) /\ ValidInv(r)
=============================================================================
