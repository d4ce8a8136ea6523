---------------------------- MODULE KeyRotation ----------------------------
(***************************************************************************)
(* The record of key rotations (jwt_key_rotation): operators and tools     *)
(* record rotations, the check-key-rotation script begins the record and   *)
(* reports what is overdue, and a process looks once, when it signs its    *)
(* first JWT.  Every awaited database call is a step of its own, and any   *)
(* number of these run at once.                                            *)
(*                                                                         *)
(* Keys are numbered in the order in which initializeKeyRotationTracking   *)
(* visits them.                                                            *)
(***************************************************************************)
EXTENDS Integers

CONSTANTS
    LastKey,         \* number of keys the tracking is begun for (3 in the code)
    Services,        \* services of the registry
    Kinds,           \* what the checks are: some of Kind
    Checks,          \* slots: runs of the script, processes that sign their first JWT
    Recorders,       \* slots: calls of recordKeyRotation
    Recordable,      \* keys whose rotations are recorded
    Day,             \* instants in a day
    DefaultInterval, \* configured days between rotations; 0: no policy
    Options,         \* intervals a caller of recordKeyRotation may ask for
    ServiceInterval, \* configured days between rotations of a service's API key
    Retirable,       \* keys and services that operators set inactive or active
    RecordSpan,      \* longest time between the clock and the upsert of a recording
    MaxTime,         \* bound of the clock
    None

ASSUME RotationAssumption ==
    /\ LastKey \in Nat \ {0} /\ Day \in Nat \ {0}
    /\ {DefaultInterval, ServiceInterval, RecordSpan, MaxTime} \subseteq Nat
    /\ Options \subseteq Nat
    /\ Kinds \subseteq {"script", "scriptAll", "process"}
    /\ Recordable \subseteq 1..LastKey

VARIABLES
    now,
    records,     \* table jwt_key_rotation: the row of each key, active or not
    services,    \* table service_registry: the last rotation of each key, active or not
    check,       \* the state of each check
    recorder,    \* the state of each recording
    acked,       \* history: when the last recording reported as done was begun
    lateKeys,    \* history: keys a check could see that were overdue all through it
    lateServices \* history: the same of services

vars == <<now, records, services, check, recorder, acked, lateKeys, lateServices>>

-----------------------------------------------------------------------------
(* Data                                                                    *)

Keys == 1..LastKey
Time == Nat \cup {None}
Activity == {"active", "inactive"}

\* The columns a decision depends on; rotationIntervalDays and metadata are only shown.
Row == [last : Nat, due : Time, state : Activity]

ASSUME NoneAssumption == None \notin Nat \cup Row

Service == [last : Time, state : Activity \cup {"absent"}]

\* The script with and without --all, and the look of a process.
Kind == {"script", "scriptAll", "process"}

\* What a check awaits: the statuses, the look for a key's row, its creation, the services.
Awaited == {"statuses", "find", "create", "services"}

\* key is the key being initialised (0 if the record is not begun by this check), initAt
\* the time initializeKeyRotationTracking took, seen what displayKeyRotationStatus returned.
\* The verdict is "fine" once the script has exited with 0 or the process has found nothing
\* to warn of; an alarm and an error leave none.
Check == [pc : Awaited \cup {"idle"}, kind : Kind, key : Nat, initAt : Nat,
          seen : {"fine", "overdue"}, verdict : {"none", "fine"}]

Recorder == [key : Keys \cup {0}, at : Nat, interval : Nat]

TypeOK ==
    /\ now \in Nat
    /\ records \in [Keys -> Row \cup {None}]
    /\ services \in [Services -> Service]
    /\ check \in [Checks -> Check]
    /\ recorder \in [Recorders -> Recorder]
    /\ acked \in [Keys -> Time]
    /\ lateKeys \in [Checks -> SUBSET Keys]
    /\ lateServices \in [Checks -> SUBSET Services]

-----------------------------------------------------------------------------
(* Helpers                                                                 *)

\* The due date of a rotation at t; an interval of 0 asks for none.
NextDue(t, interval) == IF interval > 0 THEN t + interval * Day ELSE None

\* A variant of Overdue that is off by a day.
OverdueMutant(due) == due # None /\ (due - now) \div Day < -1

\* Math.floor rounds down: a key is overdue from the instant after its due date.
Overdue(due) == due # None /\ (due - now) \div Day < 0

\* The services' due date is computed from their last rotation; without one there is none.
ServiceDue(s) ==
    IF services[s].last = None THEN None ELSE NextDue(services[s].last, ServiceInterval)

\* The rows a check of this kind reads: inactive ones only with --all.
Reads(kind, state) == state = "active" \/ (state = "inactive" /\ kind = "scriptAll")

VisibleKeys(c) == {k \in Keys : records[k] # None /\ Reads(check[c].kind, records[k].state)}

VisibleServices(c) ==
    {s \in Services : check[c].kind # "process" /\ Reads(check[c].kind, services[s].state)}

OverdueKeys(c) == {k \in VisibleKeys(c) : Overdue(records[k].due)}

OverdueServices(c) == {s \in VisibleServices(c) : Overdue(ServiceDue(s))}

\* What a check ought to find.
PastDue(due) == due # None /\ due < now

LateKeys(c) == {k \in VisibleKeys(c) : PastDue(records[k].due)}

LateServices(c) == {s \in VisibleServices(c) : PastDue(ServiceDue(s))}

Active(c) == check[c].pc # "idle"

Recording(r) == recorder[r].key # 0

Goto(c, pc) == check' = [check EXCEPT ![c].pc = pc]

Handler(pc, kind, verdict) ==
    [pc |-> pc, kind |-> kind, key |-> 0, initAt |-> 0, seen |-> "fine", verdict |-> verdict]

\* Only the verdict remains of a check.
End(c, verdict) == check' = [check EXCEPT ![c] = Handler("idle", "script", verdict)]

-----------------------------------------------------------------------------
(* check-key-rotation, and checkAndLogOverdueRotations                     *)

Begin(c, kind) ==
    /\ ~Active(c)
    /\ check' = [check EXCEPT ![c] = Handler("statuses", kind, "none")]
    /\ UNCHANGED <<now, records, services, recorder, acked>>

\* getAllKeyRotationStatuses.  The script begins the record if there is nothing to show; a
\* process only logs.
ReadStatuses(c) ==
    /\ check[c].pc = "statuses"
    /\ \/ /\ check[c].kind = "process"
          /\ End(c, IF OverdueKeys(c) = {} THEN "fine" ELSE "none")
       \/ /\ check[c].kind # "process" /\ VisibleKeys(c) # {}
          /\ check' = [check EXCEPT ![c] = [@ EXCEPT
               !.pc = "services", !.seen = IF OverdueKeys(c) = {} THEN "fine" ELSE "overdue"]]
       \/ /\ check[c].kind # "process" /\ VisibleKeys(c) = {}
          /\ check' = [check EXCEPT ![c] = [@ EXCEPT !.pc = "find", !.key = 1, !.initAt = now]]
    /\ UNCHANGED <<now, records, services, recorder, acked>>

\* The next key of initializeKeyRotationTracking; after the last one the script goes on.
NextKey(c) ==
    IF check[c].key = LastKey
    THEN check' = [check EXCEPT ![c] = [@ EXCEPT !.pc = "services", !.initAt = 0]]
    ELSE check' = [check EXCEPT ![c] = [@ EXCEPT !.pc = "find", !.key = check[c].key + 1]]

\* ensureKeyRotationRecord leaves an existing row alone.
FindRecord(c) ==
    /\ check[c].pc = "find"
    /\ IF records[check[c].key] # None THEN NextKey(c) ELSE Goto(c, "create")
    /\ UNCHANGED <<now, records, services, recorder, acked>>

Initial(c) == [last |-> check[c].initAt, due |-> NextDue(check[c].initAt, DefaultInterval),
               state |-> "active"]

\* A variant of CreateRecord that upserts, as a recording does.
CreateRecordMutant(c) ==
    /\ check[c].pc = "create"
    /\ records' = [records EXCEPT ![check[c].key] = Initial(c)]
    /\ NextKey(c)
    /\ UNCHANGED <<now, services, recorder, acked>>

\* key_identifier is unique: the insert fails if the row came in between, and the script
\* ends with it.
CreateRecord(c) ==
    /\ check[c].pc = "create"
    /\ IF records[check[c].key] = None
       THEN records' = [records EXCEPT ![check[c].key] = Initial(c)] /\ NextKey(c)
       ELSE End(c, "none") /\ UNCHANGED records
    /\ UNCHANGED <<now, services, recorder, acked>>

\* listServices, and the exit code.
ReadServices(c) ==
    /\ check[c].pc = "services"
    /\ End(c, IF check[c].seen = "fine" /\ OverdueServices(c) = {} THEN "fine" ELSE "none")
    /\ UNCHANGED <<now, records, services, recorder, acked>>

\* A variant of Fail that goes on with the next key when an insert fails.
FailMutant(c) ==
    /\ Active(c)
    /\ IF check[c].pc = "create" THEN NextKey(c) ELSE End(c, "none")
    /\ UNCHANGED <<now, records, services, recorder, acked>>

\* An awaited call throws, or the process is killed; the insert may have been committed.
Fail(c) ==
    /\ Active(c)
    /\ End(c, "none")
    /\ \/ UNCHANGED records
       \/ /\ check[c].pc = "create" /\ records[check[c].key] = None
          /\ records' = [records EXCEPT ![check[c].key] = Initial(c)]
    /\ UNCHANGED <<now, services, recorder, acked>>

-----------------------------------------------------------------------------
(* recordKeyRotation                                                       *)

\* The time is taken, and the interval: the caller's, also 0, or the default.
BeginRecording(r, k, interval) ==
    /\ ~Recording(r)
    /\ recorder' = [recorder EXCEPT ![r] = [key |-> k, at |-> now, interval |-> interval]]
    /\ UNCHANGED <<now, records, services, check, acked>>

\* The row after the upsert.  An update does not touch is_active.
Recorded(r) ==
    [last |-> recorder[r].at, due |-> NextDue(recorder[r].at, recorder[r].interval),
     state |-> IF records[recorder[r].key] = None THEN "active"
               ELSE records[recorder[r].key].state]

Latest(r) ==
    LET k == recorder[r].key
    IN IF acked[k] = None \/ acked[k] < recorder[r].at THEN recorder[r].at ELSE acked[k]

EndRecording(r) == recorder' = [recorder EXCEPT ![r] = [key |-> 0, at |-> 0, interval |-> 0]]

Upsert(r) ==
    /\ Recording(r)
    /\ records' = [records EXCEPT ![recorder[r].key] = Recorded(r)]
    /\ acked' = [acked EXCEPT ![recorder[r].key] = Latest(r)]
    /\ EndRecording(r)
    /\ UNCHANGED <<now, services, check>>

\* The upsert throws, before or after it took effect.
FailRecording(r) ==
    /\ Recording(r)
    /\ \/ UNCHANGED records
       \/ records' = [records EXCEPT ![recorder[r].key] = Recorded(r)]
    /\ EndRecording(r)
    /\ UNCHANGED <<now, services, check, acked>>

-----------------------------------------------------------------------------
(* Operators and time                                                      *)

\* An operator sets is_active of a row.
SetActivity(k) ==
    /\ k \in Retirable /\ records[k] # None
    /\ \E state \in Activity \ {records[k].state} :
         records' = [records EXCEPT ![k] = [@ EXCEPT !.state = state]]
    /\ UNCHANGED <<now, services, check, recorder, acked>>

\* manage-services adds a service, whose key counts as never rotated, or deletes it;
\* rotates its key; deactivates or activates it.
ManageService(s) ==
    /\ \/ /\ services[s].state = "absent"
          /\ services' = [services EXCEPT ![s] = [last |-> None, state |-> "active"]]
       \/ /\ services[s].state # "absent"
          /\ \/ services' = [services EXCEPT ![s] = [last |-> None, state |-> "absent"]]
             \/ services' = [services EXCEPT ![s] = [@ EXCEPT !.last = now]]
             \/ \E state \in Activity \ {services[s].state} :
                  s \in Retirable /\ services' = [services EXCEPT ![s] = [@ EXCEPT !.state = state]]
    /\ UNCHANGED <<now, records, check, recorder, acked>>

\* No recording takes longer than RecordSpan.
Tick ==
    /\ now < MaxTime
    /\ \A r \in Recorders : Recording(r) => now < recorder[r].at + RecordSpan
    /\ now' = now + 1
    /\ UNCHANGED <<records, services, check, recorder, acked>>

-----------------------------------------------------------------------------
\* What has been overdue, and in sight of the check, ever since it began.
Watch ==
    /\ lateKeys' = [c \in Checks |->
         IF ~Active(c)' THEN {} ELSE IF Active(c) THEN lateKeys[c] \cap LateKeys(c)'
                                     ELSE LateKeys(c)']
    /\ lateServices' = [c \in Checks |->
         IF ~Active(c)' THEN {} ELSE IF Active(c) THEN lateServices[c] \cap LateServices(c)'
                                     ELSE LateServices(c)']

Init ==
    /\ now = 0
    /\ records = [k \in Keys |-> None]
    /\ services \in [Services -> {[last |-> None, state |-> "absent"]}]
    /\ check = [c \in Checks |-> Handler("idle", "script", "none")]
    /\ recorder = [r \in Recorders |-> [key |-> 0, at |-> 0, interval |-> 0]]
    /\ acked = [k \in Keys |-> None]
    /\ lateKeys = [c \in Checks |-> {}]
    /\ lateServices = [c \in Checks |-> {}]

Proceed(c) == ReadStatuses(c) \/ FindRecord(c) \/ CreateRecord(c) \/ ReadServices(c) \/ Fail(c)

Record(r) ==
    \/ \E k \in Recordable, interval \in Options \cup {DefaultInterval} : BeginRecording(r, k, interval)
    \/ Upsert(r)
    \/ FailRecording(r)

Step ==
    \/ \E c \in Checks : Proceed(c) \/ \E kind \in Kinds : Begin(c, kind)
    \/ \E r \in Recorders : Record(r)
    \/ \E k \in Keys : SetActivity(k)
    \/ \E s \in Services : ManageService(s)
    \/ Tick

Next == Step /\ Watch

Spec == Init /\ [][Next]_vars

-----------------------------------------------------------------------------
(* Properties                                                              *)

\* A check that ends without complaint has missed nothing: no key or service in its sight
\* was overdue from its beginning to its end, however reads, recordings and the
\* initialisation interleave.
NothingMissed ==
    [][\A c \in Checks :
          Active(c) /\ check'[c].verdict = "fine"
          => lateKeys[c] = {} /\ lateServices[c] = {}]_vars

\* A check that began the record and did not fail has left no key out, also beside another
\* one, recordings and lost confirmations.
InitializedAll ==
    \A c \in Checks :
        check[c].key # 0 /\ check[c].pc = "services" => \A k \in Keys : records[k] # None

\* A rotation reported as recorded is not forgotten: what a slower recording or an
\* initialisation begun before may write over it is at most RecordSpan older.
AckedRotationKept ==
    \A k \in Keys : acked[k] # None => records[k] # None /\ acked[k] <= records[k].last + RecordSpan

\* The initialisation preserves actual rotation history: a check never changes a row.
HistoryPreserved ==
    [][(\E c \in Checks : check'[c] # check[c])
       => \A k \in Keys : records[k] # None => records'[k] = records[k]]_vars

\* What keeps these: the initialisation has passed only keys that have a row, what a check
\* found fine was not overdue all the time, and a recording is not older than RecordSpan.
CheckOK(c) ==
    /\ Active(c) => check[c].verdict = "none"
    /\ check[c].pc \in {"idle", "statuses"} => check[c].key = 0
    /\ check[c].pc \in {"find", "create"} =>
         /\ check[c].kind # "process" /\ check[c].key \in Keys
         /\ \A k \in Keys : k < check[c].key => records[k] # None
         /\ lateKeys[c] = {}
    /\ check[c].pc = "services" =>
         check[c].kind # "process" /\ (check[c].seen = "fine" => lateKeys[c] = {})

CheckInv == \A c \in Checks : CheckOK(c)

LateInv ==
    \A c \in Checks :
        Active(c) => lateKeys[c] \subseteq LateKeys(c) /\ lateServices[c] \subseteq LateServices(c)

RecordInv ==
    /\ \A r \in Recorders :
         Recording(r) => recorder[r].at <= now /\ now <= recorder[r].at + RecordSpan
    /\ \A k \in Keys : acked[k] # None => acked[k] <= now

IndInv == TypeOK /\ CheckInv /\ LateInv /\ RecordInv /\ InitializedAll /\ AckedRotationKept
=============================================================================
