------------------------- MODULE KeyRotationProofs -------------------------
(***************************************************************************)
(* Proofs about KeyRotation, for every number of keys, services, checks    *)
(* and recordings: no overdue key escapes a check, the initialisation      *)
(* leaves out no key and overwrites no rotation, and a rotation reported   *)
(* as recorded is not forgotten.                                           *)
(***************************************************************************)
EXTENDS KeyRotation, TLAPS

-----------------------------------------------------------------------------
(* Data                                                                    *)

\* The rounding of the statuses to days makes no difference to what is overdue.
LEMMA OverdueExact ==
    ASSUME now \in Nat, NEW due \in Time
    PROVE  Overdue(due) <=> PastDue(due)
<1>1. CASE due = None
  BY <1>1 DEF Overdue, PastDue
<1>2. ASSUME due \in Nat
      PROVE  (due - now) \div Day < 0 <=> due < now
  <2>1. Day \in Nat \ {0} /\ due - now \in Int
    BY <1>2, RotationAssumption
  <2> DEFINE d == due - now
             q == d \div Day
  <2>2. q \in Int /\ Day * q <= d /\ d < Day * (q + 1)
    BY <2>1
  <2>3. d \in Int /\ (d < 0 <=> due < now)
    BY <1>2
  <2> HIDE DEF d, q
  <2>4. q < 0 <=> d < 0
    BY <2>1, <2>2, <2>3
  <2> QED BY <2>3, <2>4 DEF d, q
<1> QED BY <1>1, <1>2, NoneAssumption DEF Overdue, PastDue, Time

LEMMA NextDueType ==
    ASSUME NEW t \in Nat, NEW interval \in Nat
    PROVE  NextDue(t, interval) \in Time
<1>1. interval * Day \in Nat
  BY RotationAssumption
<1> QED BY <1>1 DEF NextDue, Time

LEMMA RowIsNotNone == \A row \in Row : row # None
BY NoneAssumption

LEMMA DueType ==
    ASSUME TypeOK
    PROVE  /\ \A k \in Keys : records[k] # None => records[k].due \in Time
           /\ \A s \in Services : ServiceDue(s) \in Time
<1>1. \A k \in Keys : records[k] # None => records[k].due \in Time
  BY DEF TypeOK, Row
<1>2. ASSUME NEW s \in Services
      PROVE  ServiceDue(s) \in Time
  <2>1. services[s].last \in Nat \cup {None}
    BY <1>2 DEF TypeOK, Service, Time
  <2>2. CASE services[s].last = None
    BY <2>2 DEF ServiceDue, Time
  <2>3. CASE services[s].last \in Nat
    BY <2>3, NoneAssumption, NextDueType, RotationAssumption DEF ServiceDue
  <2> QED BY <2>1, <2>2, <2>3
<1> QED BY <1>1, <1>2

\* What the code finds overdue is what is past its due date.
LEMMA FindsLate ==
    ASSUME TypeOK, NEW c \in Checks
    PROVE  OverdueKeys(c) = LateKeys(c) /\ OverdueServices(c) = LateServices(c)
<1>1. now \in Nat
  BY DEF TypeOK
<1>2. \A k \in VisibleKeys(c) : Overdue(records[k].due) <=> PastDue(records[k].due)
  BY <1>1, DueType, OverdueExact DEF VisibleKeys
<1>3. \A s \in VisibleServices(c) : Overdue(ServiceDue(s)) <=> PastDue(ServiceDue(s))
  BY <1>1, DueType, OverdueExact DEF VisibleServices
<1> QED BY <1>2, <1>3 DEF OverdueKeys, LateKeys, OverdueServices, LateServices

-----------------------------------------------------------------------------
(* Types                                                                   *)

LEMMA InitialType ==
    ASSUME TypeOK, NEW c \in Checks
    PROVE  Initial(c) \in Row
<1>1. check[c].initAt \in Nat
  BY DEF TypeOK, Check
<1>2. NextDue(check[c].initAt, DefaultInterval) \in Time
  BY <1>1, NextDueType, RotationAssumption
<1> QED BY <1>1, <1>2 DEF Initial, Row, Activity

LEMMA RecordedType ==
    ASSUME TypeOK, NEW r \in Recorders, Recording(r)
    PROVE  recorder[r].key \in Keys /\ Recorded(r) \in Row /\ Recorded(r).last = recorder[r].at
<1>1. recorder[r].key \in Keys /\ recorder[r].at \in Nat /\ recorder[r].interval \in Nat
  BY DEF TypeOK, Recorder, Recording
<1>2. NextDue(recorder[r].at, recorder[r].interval) \in Time
  BY <1>1, NextDueType
<1>3. records[recorder[r].key] # None => records[recorder[r].key].state \in Activity
  BY <1>1 DEF TypeOK, Row
<1> QED BY <1>1, <1>2, <1>3 DEF Recorded, Row, Activity

LEMMA TypeInit == Init => TypeOK
<1> SUFFICES ASSUME Init PROVE TypeOK
  OBVIOUS
<1>1. check \in [Checks -> Check]
  BY DEF Init, Handler, Check, Kind, Awaited
<1>2. recorder \in [Recorders -> Recorder]
  BY DEF Init, Recorder
<1>3. services \in [Services -> Service]
  BY DEF Init, Service, Time, Activity
<1> QED BY <1>1, <1>2, <1>3 DEF Init, TypeOK, Time

-----------------------------------------------------------------------------
(* What a step makes of a check                                            *)

\* Only the check c changes, and it remains a check.
OnlyChanges(c) ==
    /\ check' \in [Checks -> Check]
    /\ \A d \in Checks \ {c} : check'[d] = check[d]

LEMMA OneCheck ==
    ASSUME TypeOK, NEW c \in Checks, NEW x \in Check, check' = [check EXCEPT ![c] = x]
    PROVE  OnlyChanges(c) /\ check'[c] = x
BY DEF TypeOK, OnlyChanges

LEMMA HandlerFields ==
    ASSUME NEW pc \in Awaited \cup {"idle"}, NEW kind \in Kind, NEW verdict \in {"none", "fine"}
    PROVE  /\ Handler(pc, kind, verdict) \in Check
           /\ Handler(pc, kind, verdict).pc = pc
           /\ Handler(pc, kind, verdict).kind = kind
           /\ Handler(pc, kind, verdict).key = 0
           /\ Handler(pc, kind, verdict).verdict = verdict
BY DEF Handler, Check

LEMMA BeginStep ==
    ASSUME TypeOK, NEW c \in Checks, NEW kind \in Kinds, Begin(c, kind)
    PROVE  /\ OnlyChanges(c)
           /\ check'[c].pc = "statuses" /\ check'[c].key = 0 /\ check'[c].verdict = "none"
<1>1. kind \in Kind
  BY RotationAssumption DEF Kind
<1>2. Handler("statuses", kind, "none") \in Check
  BY <1>1, HandlerFields DEF Awaited
<1>3. OnlyChanges(c) /\ check'[c] = Handler("statuses", kind, "none")
  BY <1>2, OneCheck DEF Begin
<1> QED BY <1>1, <1>3, HandlerFields DEF Awaited

LEMMA EndStep ==
    ASSUME TypeOK, NEW c \in Checks, NEW verdict \in {"none", "fine"}, End(c, verdict)
    PROVE  /\ OnlyChanges(c)
           /\ check'[c].pc = "idle" /\ check'[c].key = 0 /\ check'[c].verdict = verdict
<1>1. Handler("idle", "script", verdict) \in Check
  BY HandlerFields DEF Kind
<1>2. OnlyChanges(c) /\ check'[c] = Handler("idle", "script", verdict)
  BY <1>1, OneCheck DEF End
<1> QED BY <1>2, HandlerFields DEF Kind

LEMMA GotoStep ==
    ASSUME TypeOK, NEW c \in Checks, NEW pc \in Awaited, Goto(c, pc)
    PROVE  /\ OnlyChanges(c)
           /\ check'[c] = [check[c] EXCEPT !.pc = pc]
<1>1. check[c] \in Check
  BY DEF TypeOK
<1>2. [check[c] EXCEPT !.pc = pc] \in Check
  BY <1>1 DEF Check
<1>3. check' = [check EXCEPT ![c] = [check[c] EXCEPT !.pc = pc]]
  BY DEF Goto, TypeOK
<1> QED BY <1>2, <1>3, OneCheck

\* NextKey leads to the next key, or past the last one.
LEMMA NextKeyStep ==
    ASSUME TypeOK, NEW c \in Checks, check[c].key \in Keys, NextKey(c)
    PROVE  /\ OnlyChanges(c)
           /\ check'[c].kind = check[c].kind /\ check'[c].seen = check[c].seen
           /\ check'[c].verdict = check[c].verdict
           /\ \/ check'[c].pc = "services" /\ check[c].key = LastKey /\ check'[c].key = LastKey
              \/ check'[c].pc = "find" /\ check[c].key < LastKey /\ check'[c].key = check[c].key + 1
<1>1. check[c] \in Check
  BY DEF TypeOK
<1> DEFINE last == [check[c] EXCEPT !.pc = "services", !.initAt = 0]
           next == [check[c] EXCEPT !.pc = "find", !.key = check[c].key + 1]
<1>2. CASE check[c].key = LastKey
  <2>1. last \in Check
    BY <1>1 DEF Check, Awaited
  <2>2. check' = [check EXCEPT ![c] = last]
    BY <1>2 DEF NextKey
  <2>3. OnlyChanges(c) /\ check'[c] = last
    BY <2>1, <2>2, OneCheck
  <2>4. last.pc = "services" /\ last.key = check[c].key /\ last.kind = check[c].kind
        /\ last.seen = check[c].seen /\ last.verdict = check[c].verdict
    BY <1>1 DEF Check
  <2> QED BY <1>2, <2>3, <2>4
<1>3. CASE check[c].key # LastKey
  <2>1. next \in Check
    <3>1. check[c].key + 1 \in Nat
      BY <1>1 DEF Check
    <3> QED BY <1>1, <3>1 DEF Check, Awaited
  <2>2. check' = [check EXCEPT ![c] = next]
    BY <1>3 DEF NextKey
  <2>3. OnlyChanges(c) /\ check'[c] = next
    BY <2>1, <2>2, OneCheck
  <2>4. next.pc = "find" /\ next.key = check[c].key + 1 /\ next.kind = check[c].kind
        /\ next.seen = check[c].seen /\ next.verdict = check[c].verdict
    BY <1>1 DEF Check
  <2>5. check[c].key < LastKey
    BY <1>3, RotationAssumption DEF Keys
  <2> QED BY <2>3, <2>4, <2>5
<1> QED BY <1>2, <1>3

\* The statuses lead to the end of a process, to the services, or to the first key.
LEMMA StatusesStep ==
    ASSUME TypeOK, NEW c \in Checks, ReadStatuses(c), check[c].kind # "process"
    PROVE  /\ OnlyChanges(c)
           /\ check'[c].kind = check[c].kind /\ check'[c].verdict = check[c].verdict
           /\ \/ /\ VisibleKeys(c) # {} /\ check'[c].pc = "services"
                 /\ check'[c].key = check[c].key
                 /\ check'[c].seen = IF OverdueKeys(c) = {} THEN "fine" ELSE "overdue"
              \/ VisibleKeys(c) = {} /\ check'[c].pc = "find" /\ check'[c].key = 1
<1>1. check[c] \in Check /\ now \in Nat
  BY DEF TypeOK
<1> DEFINE seen == IF OverdueKeys(c) = {} THEN "fine" ELSE "overdue"
           shown == [check[c] EXCEPT !.pc = "services", !.seen = seen]
           begun == [check[c] EXCEPT !.pc = "find", !.key = 1, !.initAt = now]
<1>2. CASE VisibleKeys(c) # {}
  <2>1. shown \in Check
    BY <1>1 DEF Check, Awaited
  <2>2. check' = [check EXCEPT ![c] = shown]
    BY <1>2 DEF ReadStatuses
  <2>3. OnlyChanges(c) /\ check'[c] = shown
    BY <2>1, <2>2, OneCheck
  <2>4. shown.pc = "services" /\ shown.key = check[c].key /\ shown.kind = check[c].kind
        /\ shown.seen = seen /\ shown.verdict = check[c].verdict
    BY <1>1 DEF Check
  <2> QED BY <1>2, <2>3, <2>4
<1>3. CASE VisibleKeys(c) = {}
  <2>1. begun \in Check
    BY <1>1 DEF Check, Awaited
  <2>2. check' = [check EXCEPT ![c] = begun]
    BY <1>3 DEF ReadStatuses
  <2>3. OnlyChanges(c) /\ check'[c] = begun
    BY <2>1, <2>2, OneCheck
  <2>4. begun.pc = "find" /\ begun.key = 1 /\ begun.kind = check[c].kind
        /\ begun.verdict = check[c].verdict
    BY <1>1 DEF Check
  <2> QED BY <1>3, <2>3, <2>4
<1> QED BY <1>2, <1>3

-----------------------------------------------------------------------------
(* What a step makes of the table                                          *)

\* No row disappears.
RowsStay == \A k \in Keys : records[k] # None => records'[k] # None

\* No row is changed.
RowsKept == \A k \in Keys : records[k] # None => records'[k] = records[k]

Table == records' \in [Keys -> Row \cup {None}]

\* A new row touches no other.
LEMMA CreateStep ==
    ASSUME TypeOK, NEW c \in Checks, check[c].key \in Keys, records[check[c].key] = None,
           records' = [records EXCEPT ![check[c].key] = Initial(c)]
    PROVE  Table /\ RowsKept /\ records'[check[c].key] # None
<1>1. Initial(c) \in Row /\ Initial(c) # None
  BY InitialType, RowIsNotNone
<1> QED BY <1>1 DEF TypeOK, Table, RowsKept

\* A check changes itself and no row.
LEMMA CheckStep ==
    ASSUME TypeOK, CheckInv, NEW c \in Checks,
           \/ Proceed(c)
           \/ \E kind \in Kinds : Begin(c, kind)
    PROVE  OnlyChanges(c) /\ Table /\ RowsKept
<1>1. check[c].pc \in {"find", "create"} => check[c].key \in Keys
  BY DEF CheckInv, CheckOK
<1>2. UNCHANGED records => Table /\ RowsKept
  BY DEF TypeOK, Table, RowsKept
<1>3. CASE ReadStatuses(c)
  <2>1. CASE check[c].kind = "process"
    BY <1>2, <1>3, <2>1, EndStep DEF ReadStatuses
  <2>2. CASE check[c].kind # "process"
    BY <1>2, <1>3, <2>2, StatusesStep DEF ReadStatuses
  <2> QED BY <2>1, <2>2
<1>4. CASE FindRecord(c)
  BY <1>1, <1>2, <1>4, NextKeyStep, GotoStep DEF FindRecord, Awaited
<1>5. CASE CreateRecord(c)
  BY <1>1, <1>2, <1>5, CreateStep, NextKeyStep, EndStep DEF CreateRecord
<1>6. CASE ReadServices(c)
  BY <1>2, <1>6, EndStep DEF ReadServices
<1>7. CASE Fail(c)
  BY <1>1, <1>2, <1>7, CreateStep, EndStep DEF Fail
<1>8. ASSUME NEW kind \in Kinds, Begin(c, kind)
      PROVE  OnlyChanges(c) /\ Table /\ RowsKept
  BY <1>2, <1>8, BeginStep DEF Begin
<1> QED BY <1>3, <1>4, <1>5, <1>6, <1>7, <1>8 DEF Proceed

\* A recording writes a row, its own time, and what it reported.
LEMMA RecordStep ==
    ASSUME TypeOK, NEW r \in Recorders, Record(r)
    PROVE  /\ Table /\ RowsStay
           /\ recorder' \in [Recorders -> Recorder]
           /\ acked' \in [Keys -> Time]
<1>1. UNCHANGED records => Table /\ RowsStay
  BY DEF TypeOK, Table, RowsStay
<1>2. UNCHANGED acked => acked' \in [Keys -> Time]
  BY DEF TypeOK
<1>3. ASSUME Recording(r), records' = [records EXCEPT ![recorder[r].key] = Recorded(r)]
      PROVE  Table /\ RowsStay
  <2>1. Recorded(r) \in Row /\ Recorded(r) # None
    BY <1>3, RecordedType, RowIsNotNone
  <2> QED BY <1>3, <2>1 DEF TypeOK, Table, RowsStay
<1>4. EndRecording(r) => recorder' \in [Recorders -> Recorder]
  <2>1. [key |-> 0, at |-> 0, interval |-> 0] \in Recorder
    BY DEF Recorder
  <2> QED BY <2>1 DEF EndRecording, TypeOK
<1>5. ASSUME NEW k \in Keys, NEW interval \in Options \cup {DefaultInterval},
             BeginRecording(r, k, interval)
      PROVE  recorder' \in [Recorders -> Recorder]
  <2>1. [key |-> k, at |-> now, interval |-> interval] \in Recorder
    BY RotationAssumption DEF Recorder, TypeOK
  <2> QED BY <1>5, <2>1 DEF BeginRecording, TypeOK
<1>6. CASE \E k \in Keys, interval \in Options \cup {DefaultInterval} :
             BeginRecording(r, k, interval)
  BY <1>1, <1>2, <1>5, <1>6 DEF BeginRecording
<1>7. CASE Upsert(r)
  <2>1. recorder[r].key \in Keys /\ recorder[r].at \in Nat
    BY <1>7, RecordedType DEF Upsert, TypeOK, Recorder
  <2>2. Latest(r) \in Time
    BY <2>1 DEF Latest, TypeOK, Time
  <2>3. acked' \in [Keys -> Time]
    BY <1>7, <2>2 DEF Upsert, TypeOK
  <2> QED BY <1>3, <1>4, <1>7, <2>3 DEF Upsert
<1>8. CASE FailRecording(r)
  BY <1>1, <1>2, <1>3, <1>4, <1>8 DEF FailRecording
<1> QED BY <1>6, <1>7, <1>8, RotationAssumption DEF Record, Keys

LEMMA ActivityStep ==
    ASSUME TypeOK, NEW k \in Keys, SetActivity(k)
    PROVE  /\ Table /\ RowsStay
           /\ \A key \in Keys : records[key] # None => records'[key].last = records[key].last
<1>1. PICK state \in Activity \ {records[k].state} :
        records' = [records EXCEPT ![k] = [records[k] EXCEPT !.state = state]]
  BY DEF SetActivity, TypeOK
<1>2. records[k] \in Row
  BY DEF SetActivity, TypeOK
<1>3. [records[k] EXCEPT !.state = state] \in Row
  BY <1>2 DEF Row
<1>4. [records[k] EXCEPT !.state = state].last = records[k].last
  BY <1>2 DEF Row
<1>5. [records[k] EXCEPT !.state = state] # None
  BY <1>3, RowIsNotNone
<1> QED BY <1>1, <1>3, <1>4, <1>5 DEF TypeOK, Table, RowsStay

LEMMA ServiceStep ==
    ASSUME TypeOK, NEW s \in Services, ManageService(s)
    PROVE  services' \in [Services -> Service]
<1>1. services[s] \in Service /\ now \in Nat
  BY DEF TypeOK
<1>2. \A state \in Activity \cup {"absent"} : [last |-> None, state |-> state] \in Service
  BY DEF Service, Time
<1>3. [services[s] EXCEPT !.last = now] \in Service
  BY <1>1 DEF Service, Time
<1>4. \A state \in Activity : [services[s] EXCEPT !.state = state] \in Service
  BY <1>1 DEF Service
<1>5. CASE services' = [services EXCEPT ![s] = [last |-> None, state |-> "active"]]
  BY <1>2, <1>5 DEF TypeOK, Activity
<1>6. CASE services' = [services EXCEPT ![s] = [last |-> None, state |-> "absent"]]
  BY <1>2, <1>6 DEF TypeOK
<1>7. CASE services' = [services EXCEPT ![s] = [services[s] EXCEPT !.last = now]]
  BY <1>3, <1>7 DEF TypeOK
<1>8. CASE \E state \in Activity \ {services[s].state} :
             services' = [services EXCEPT ![s] = [services[s] EXCEPT !.state = state]]
  BY <1>4, <1>8 DEF TypeOK
<1> QED BY <1>5, <1>6, <1>7, <1>8 DEF ManageService, TypeOK

-----------------------------------------------------------------------------
(* The invariant                                                           *)

LEMMA InvInit == Init => IndInv
<1> SUFFICES ASSUME Init PROVE IndInv
  OBVIOUS
<1>1. TypeOK
  BY TypeInit
<1>2. \A c \in Checks : check[c].pc = "idle" /\ check[c].key = 0
  BY DEF Init, Handler
<1>3. CheckInv /\ LateInv /\ InitializedAll
  BY <1>2 DEF CheckInv, CheckOK, LateInv, InitializedAll, Active
<1>4. RecordInv /\ AckedRotationKept
  BY DEF Init, RecordInv, AckedRotationKept, Recording
<1> QED BY <1>1, <1>3, <1>4 DEF IndInv

\* Every step leaves rows where they are.
LEMMA TypeStep ==
    ASSUME TypeOK, CheckInv, Next
    PROVE  TypeOK' /\ RowsStay
<1>1. lateKeys' \in [Checks -> SUBSET Keys] /\ lateServices' \in [Checks -> SUBSET Services]
  <2>1. \A c \in Checks : LateKeys(c)' \subseteq Keys /\ LateServices(c)' \subseteq Services
    BY DEF LateKeys, LateServices, VisibleKeys, VisibleServices
  <2> QED BY <2>1 DEF Next, Watch, TypeOK
<1>2. UNCHANGED records => Table /\ RowsStay
  BY DEF TypeOK, Table, RowsStay
<1>3. RowsKept => RowsStay
  BY DEF RowsKept, RowsStay
<1>4. ASSUME NEW c \in Checks, Proceed(c) \/ \E kind \in Kinds : Begin(c, kind)
      PROVE  TypeOK' /\ RowsStay
  <2>1. OnlyChanges(c) /\ Table /\ RowsKept
    BY <1>4, CheckStep
  <2>2. UNCHANGED <<now, services, recorder, acked>>
    BY <1>4 DEF Proceed, ReadStatuses, FindRecord, CreateRecord, ReadServices, Fail, Begin
  <2> QED BY <1>1, <1>3, <2>1, <2>2 DEF TypeOK, OnlyChanges, Table
<1>5. ASSUME NEW r \in Recorders, Record(r)
      PROVE  TypeOK' /\ RowsStay
  <2>1. Table /\ RowsStay /\ recorder' \in [Recorders -> Recorder] /\ acked' \in [Keys -> Time]
    BY <1>5, RecordStep
  <2>2. UNCHANGED <<now, services, check>>
    BY <1>5 DEF Record, BeginRecording, Upsert, FailRecording
  <2> QED BY <1>1, <2>1, <2>2 DEF TypeOK, Table
<1>6. ASSUME NEW k \in Keys, SetActivity(k)
      PROVE  TypeOK' /\ RowsStay
  BY <1>1, <1>6, ActivityStep DEF SetActivity, TypeOK, Table
<1>7. ASSUME NEW s \in Services, ManageService(s)
      PROVE  TypeOK' /\ RowsStay
  BY <1>1, <1>2, <1>7, ServiceStep DEF ManageService, TypeOK
<1>8. CASE Tick
  BY <1>1, <1>2, <1>8 DEF Tick, TypeOK
<1> QED BY <1>4, <1>5, <1>6, <1>7, <1>8 DEF Next, Step

\* What is watched for is late, and only dwindles while the check goes on.
LEMMA LateStep ==
    ASSUME TypeOK, Watch
    PROVE  /\ LateInv'
           /\ \A c \in Checks : Active(c) /\ Active(c)' => lateKeys'[c] \subseteq lateKeys[c]
BY DEF Watch, LateInv, Active

\* A check that does not move loses nothing.
LEMMA Undisturbed ==
    ASSUME TypeOK, Watch, RowsStay, NEW c \in Checks, CheckOK(c), check'[c] = check[c]
    PROVE  CheckOK(c)'
<1>1. Active(c) => lateKeys'[c] \subseteq lateKeys[c]
  BY LateStep DEF Active
<1> QED BY <1>1 DEF CheckOK, RowsStay, Active

\* The check that moves has passed only keys with a row; past the last one all have one.
LEMMA MoveStep ==
    ASSUME TypeOK, LateInv, Watch, RowsStay, NEW c \in Checks, CheckOK(c),
           check[c].key # 0 /\ check[c].pc = "services" => \A k \in Keys : records[k] # None,
           \/ Proceed(c)
           \/ \E kind \in Kinds : Begin(c, kind)
    PROVE  /\ CheckOK(c)'
           /\ check'[c].key # 0 /\ check'[c].pc = "services" => \A k \in Keys : records'[k] # None
<1>1. Active(c) /\ check'[c].pc # "idle" => lateKeys'[c] \subseteq lateKeys[c]
  BY LateStep DEF Active
<1>2. ASSUME NEW verdict \in {"none", "fine"}, End(c, verdict)
      PROVE  /\ CheckOK(c)'
             /\ check'[c].pc # "services"
  BY <1>2, EndStep DEF CheckOK, Active
<1>3. ASSUME check[c].pc \in {"find", "create"}, records'[check[c].key] # None, NextKey(c)
      PROVE  /\ CheckOK(c)'
             /\ check'[c].pc = "services" => \A k \in Keys : records'[k] # None
  <2>1. /\ check[c].kind # "process" /\ check[c].key \in Keys /\ lateKeys[c] = {}
        /\ \A k \in Keys : k < check[c].key => records'[k] # None
        /\ check[c].verdict = "none"
    BY <1>3 DEF CheckOK, RowsStay, Active
  <2>2. \A k \in Keys : k < check[c].key + 1 => records'[k] # None
    BY <1>3, <2>1 DEF Keys
  <2>3. CASE /\ check'[c].pc = "services" /\ check[c].key = LastKey /\ check'[c].key = LastKey
             /\ check'[c].kind = check[c].kind /\ check'[c].verdict = check[c].verdict
    <3>1. \A k \in Keys : records'[k] # None
      BY <2>2, <2>3, RotationAssumption DEF Keys
    <3> QED BY <1>1, <1>3, <2>1, <2>3, <3>1 DEF CheckOK, Active
  <2>4. CASE /\ check'[c].pc = "find" /\ check[c].key < LastKey
             /\ check'[c].key = check[c].key + 1
             /\ check'[c].kind = check[c].kind /\ check'[c].verdict = check[c].verdict
    <3>1. check'[c].key \in Keys
      BY <2>1, <2>4, RotationAssumption DEF Keys
    <3> QED BY <1>1, <1>3, <2>1, <2>2, <2>4, <3>1 DEF CheckOK, Active
  <2> QED BY <1>3, <2>1, <2>3, <2>4, NextKeyStep
<1>4. CASE ReadStatuses(c)
  <2>1. check[c].pc = "statuses" /\ check[c].key = 0 /\ check[c].verdict = "none"
    BY <1>4 DEF ReadStatuses, CheckOK, Active
  <2>2. lateKeys[c] \subseteq LateKeys(c) /\ OverdueKeys(c) = LateKeys(c)
    BY <2>1, FindsLate DEF LateInv, Active
  <2>3. CASE check[c].kind = "process"
    BY <1>2, <1>4, <2>3 DEF ReadStatuses
  <2>4. CASE /\ check[c].kind # "process" /\ check'[c].pc = "services"
             /\ check'[c].key = check[c].key /\ check'[c].kind = check[c].kind
             /\ check'[c].verdict = check[c].verdict
             /\ check'[c].seen = IF OverdueKeys(c) = {} THEN "fine" ELSE "overdue"
    BY <1>1, <2>1, <2>2, <2>4 DEF CheckOK, Active
  <2>5. CASE /\ check[c].kind # "process" /\ VisibleKeys(c) = {} /\ check'[c].pc = "find"
             /\ check'[c].key = 1 /\ check'[c].kind = check[c].kind
             /\ check'[c].verdict = check[c].verdict
    <3>1. lateKeys'[c] = {}
      BY <1>1, <2>1, <2>2, <2>5 DEF LateKeys, Active
    <3>2. 1 \in Keys /\ \A k \in Keys : ~(k < 1)
      BY RotationAssumption DEF Keys
    <3> QED BY <2>1, <2>5, <3>1, <3>2 DEF CheckOK, Active
  <2> QED BY <1>4, <2>3, <2>4, <2>5, StatusesStep
<1>5. CASE FindRecord(c)
  <2>1. CASE records[check[c].key] # None
    <3>1. records'[check[c].key] # None
      BY <1>5, <2>1 DEF FindRecord
    <3> QED BY <1>3, <1>5, <2>1, <3>1 DEF FindRecord
  <2>2. CASE records[check[c].key] = None
    <3>1. check'[c] = [check[c] EXCEPT !.pc = "create"] /\ check[c] \in Check
      BY <1>5, <2>2, GotoStep DEF FindRecord, Awaited, TypeOK
    <3>2. /\ check'[c].pc = "create" /\ check'[c].key = check[c].key
          /\ check'[c].kind = check[c].kind /\ check'[c].verdict = check[c].verdict
      BY <3>1 DEF Check
    <3> QED BY <1>1, <1>5, <3>2 DEF CheckOK, RowsStay, FindRecord, Active
  <2> QED BY <2>1, <2>2
<1>6. CASE CreateRecord(c)
  <2>1. CASE records[check[c].key] = None
    <3>1. check[c].key \in Keys
      BY <1>6 DEF CreateRecord, CheckOK
    <3>2. records'[check[c].key] # None
      BY <1>6, <2>1, <3>1, CreateStep DEF CreateRecord
    <3> QED BY <1>3, <1>6, <2>1, <3>2 DEF CreateRecord
  <2>2. CASE records[check[c].key] # None
    BY <1>2, <1>6, <2>2 DEF CreateRecord
  <2> QED BY <2>1, <2>2
<1>7. CASE ReadServices(c)
  BY <1>2, <1>7 DEF ReadServices
<1>8. CASE Fail(c)
  BY <1>2, <1>8 DEF Fail
<1>9. ASSUME NEW kind \in Kinds, Begin(c, kind)
      PROVE  /\ CheckOK(c)'
             /\ check'[c].pc # "services"
  BY <1>9, BeginStep DEF CheckOK, Active
<1> QED BY <1>4, <1>5, <1>6, <1>7, <1>8, <1>9 DEF Proceed

LEMMA CheckInvStep == IndInv /\ Next => CheckInv' /\ InitializedAll'
<1> SUFFICES ASSUME IndInv, Next PROVE CheckInv' /\ InitializedAll'
  OBVIOUS
<1>1. /\ TypeOK /\ CheckInv /\ LateInv /\ InitializedAll /\ Watch /\ RowsStay
      /\ \A c \in Checks : CheckOK(c)
  BY TypeStep DEF IndInv, Next, CheckInv
<1> DEFINE Begun(c) == check[c].key # 0 /\ check[c].pc = "services"
                         => \A k \in Keys : records[k] # None
<1>2. \A c \in Checks : Begun(c)
  BY <1>1 DEF InitializedAll
<1>3. ASSUME NEW c \in Checks, check'[c] = check[c]
      PROVE  CheckOK(c)' /\ Begun(c)'
  <2>1. CheckOK(c)'
    BY <1>1, <1>3, Undisturbed
  <2>2. Begun(c)'
    BY <1>1, <1>2, <1>3 DEF RowsStay
  <2> QED BY <2>1, <2>2
<1>4. ASSUME NEW c \in Checks, Proceed(c) \/ \E kind \in Kinds : Begin(c, kind)
      PROVE  \A d \in Checks : CheckOK(d)' /\ Begun(d)'
  <2>1. CheckOK(c)' /\ Begun(c)'
    BY <1>1, <1>2, <1>4, MoveStep
  <2>2. \A d \in Checks \ {c} : check'[d] = check[d]
    BY <1>1, <1>4, CheckStep DEF OnlyChanges
  <2> HIDE DEF Begun
  <2> QED BY <1>3, <2>1, <2>2
<1>5. UNCHANGED check => \A d \in Checks : CheckOK(d)' /\ Begun(d)'
  <2> HIDE DEF Begun
  <2> QED BY <1>3
<1>6. \/ \E c \in Checks : Proceed(c) \/ \E kind \in Kinds : Begin(c, kind)
      \/ UNCHANGED check
  BY DEF Next, Step, Record, BeginRecording, Upsert, FailRecording, SetActivity, ManageService,
         Tick
<1>7. \A d \in Checks : CheckOK(d)' /\ Begun(d)'
  <2> HIDE DEF Begun
  <2> QED BY <1>4, <1>5, <1>6
<1> QED BY <1>7 DEF CheckInv, InitializedAll

\* A recording writes its own time, which is recent.
LEMMA AckedStep == IndInv /\ Next => RecordInv' /\ AckedRotationKept'
<1> SUFFICES ASSUME IndInv, Next PROVE RecordInv' /\ AckedRotationKept'
  OBVIOUS
<1>1. /\ TypeOK /\ CheckInv /\ RecordInv /\ AckedRotationKept
      /\ now \in Nat /\ RecordSpan \in Nat
  BY RotationAssumption DEF IndInv, TypeOK
<1>2. ASSUME \A k \in Keys : records[k] # None =>
               records'[k] # None /\ records'[k].last = records[k].last,
             UNCHANGED acked
      PROVE  AckedRotationKept'
  BY <1>1, <1>2 DEF AckedRotationKept
<1>3. ASSUME UNCHANGED <<now, recorder, acked>>
      PROVE  RecordInv'
  BY <1>1, <1>3 DEF RecordInv, Recording
<1>4. ASSUME NEW c \in Checks, Proceed(c) \/ \E kind \in Kinds : Begin(c, kind)
      PROVE  RecordInv' /\ AckedRotationKept'
  <2>1. RowsKept
    BY <1>1, <1>4, CheckStep
  <2>2. UNCHANGED <<now, recorder, acked>>
    BY <1>4 DEF Proceed, ReadStatuses, FindRecord, CreateRecord, ReadServices, Fail, Begin
  <2> QED BY <1>2, <1>3, <2>1, <2>2 DEF RowsKept
<1>5. ASSUME NEW r \in Recorders, Recording(r)
      PROVE  /\ recorder[r].key \in Keys /\ recorder[r].at \in Nat
             /\ recorder[r].at <= now /\ now <= recorder[r].at + RecordSpan
             /\ Recorded(r) # None /\ Recorded(r).last = recorder[r].at
  <2>1. recorder[r].at \in Nat
    BY DEF IndInv, TypeOK, Recorder
  <2> QED BY <1>1, <1>5, <2>1, RecordedType, RowIsNotNone DEF RecordInv
<1>6. ASSUME NEW r \in Recorders, Recording(r), EndRecording(r), UNCHANGED now,
             \A k \in Keys : acked'[k] # None => acked'[k] <= now
      PROVE  RecordInv'
  <2>1. recorder'[r].key = 0 /\ \A q \in Recorders \ {r} : recorder'[q] = recorder[q]
    BY <1>1, <1>6 DEF EndRecording, TypeOK
  <2> QED BY <1>1, <1>6, <2>1 DEF RecordInv, Recording
<1>7. ASSUME NEW r \in Recorders, Recording(r),
             records' = [records EXCEPT ![recorder[r].key] = Recorded(r)],
             \/ UNCHANGED acked
             \/ acked' = [acked EXCEPT ![recorder[r].key] = Latest(r)]
      PROVE  AckedRotationKept' /\ \A k \in Keys : acked'[k] # None => acked'[k] <= now
  <2> DEFINE key == recorder[r].key
  <2>1. \A k \in Keys : acked[k] # None => acked[k] \in Nat /\ acked[k] <= now
    BY <1>1 DEF RecordInv, TypeOK, Time
  <2>2. \A k \in Keys \ {key} : records'[k] = records[k] /\ acked'[k] = acked[k]
    BY <1>1, <1>7 DEF TypeOK
  <2>3. records'[key] = Recorded(r) /\ acked'[key] \in {acked[key], Latest(r)}
    BY <1>1, <1>5, <1>7 DEF TypeOK
  <2>4. Latest(r) \in {acked[key], recorder[r].at}
    BY DEF Latest
  <2>5. acked'[key] # None =>
          acked'[key] <= now /\ acked'[key] <= records'[key].last + RecordSpan
    BY <1>1, <1>5, <1>7, <2>1, <2>3, <2>4
  <2> HIDE DEF key
  <2>6. records'[key] # None
    BY <1>5, <1>7, <2>3
  <2> QED BY <1>1, <2>1, <2>2, <2>5, <2>6 DEF AckedRotationKept
<1>8. ASSUME NEW r \in Recorders, NEW k \in Keys, NEW interval \in Options \cup {DefaultInterval},
             BeginRecording(r, k, interval)
      PROVE  RecordInv' /\ AckedRotationKept'
  <2>1. /\ recorder'[r].at = now
        /\ \A q \in Recorders \ {r} : recorder'[q] = recorder[q]
    BY <1>1, <1>8 DEF BeginRecording, TypeOK
  <2>2. RecordInv'
    BY <1>1, <1>8, <2>1 DEF RecordInv, Recording, BeginRecording
  <2> QED BY <1>2, <1>8, <2>2 DEF BeginRecording
<1>9. ASSUME NEW r \in Recorders, Upsert(r)
      PROVE  RecordInv' /\ AckedRotationKept'
  BY <1>6, <1>7, <1>9 DEF Upsert
<1>10. ASSUME NEW r \in Recorders, FailRecording(r)
       PROVE  RecordInv' /\ AckedRotationKept'
  <2>1. \A k \in Keys : acked'[k] # None => acked'[k] <= now
    BY <1>1, <1>10 DEF FailRecording, RecordInv
  <2>2. RecordInv'
    BY <1>6, <1>10, <2>1 DEF FailRecording
  <2>3. AckedRotationKept'
    BY <1>2, <1>7, <1>10 DEF FailRecording
  <2> QED BY <2>2, <2>3
<1>11. ASSUME NEW k \in Keys, SetActivity(k)
       PROVE  RecordInv' /\ AckedRotationKept'
  BY <1>1, <1>2, <1>3, <1>11, ActivityStep DEF SetActivity, RowsStay
<1>12. ASSUME NEW s \in Services, ManageService(s)
       PROVE  RecordInv' /\ AckedRotationKept'
  BY <1>2, <1>3, <1>12 DEF ManageService
<1>13. CASE Tick
  <2>1. \A r \in Recorders : recorder[r].at \in Nat
    BY <1>1 DEF TypeOK, Recorder
  <2>2. \A k \in Keys : acked[k] # None => acked[k] \in Nat
    BY <1>1 DEF TypeOK, Time
  <2>3. RecordInv'
    BY <1>1, <1>13, <2>1, <2>2 DEF Tick, RecordInv, Recording
  <2> QED BY <1>2, <1>13, <2>3 DEF Tick
<1> QED BY <1>4, <1>8, <1>9, <1>10, <1>11, <1>12, <1>13, RotationAssumption
       DEF Next, Step, Record, Keys

LEMMA InvStep == IndInv /\ [Next]_vars => IndInv'
<1> SUFFICES ASSUME IndInv, [Next]_vars PROVE IndInv'
  OBVIOUS
<1>1. CASE Next
  <2>1. TypeOK' /\ LateInv'
    BY <1>1, TypeStep, LateStep DEF IndInv, Next
  <2> QED BY <1>1, <2>1, CheckInvStep, AckedStep DEF IndInv
<1>2. CASE UNCHANGED vars
  BY <1>2 DEF vars, IndInv, TypeOK, CheckInv, CheckOK, LateInv, LateKeys, LateServices,
              VisibleKeys, VisibleServices, PastDue, ServiceDue, NextDue, Active, RecordInv,
              Recording, InitializedAll, AckedRotationKept
<1> QED BY <1>1, <1>2

-----------------------------------------------------------------------------
(* Theorems                                                                *)

\* The inductive invariant holds of key rotation with any number of keys, services, checks
\* and recordings.
THEOREM RotationInvariant == Spec => []IndInv
BY InvInit, InvStep, PTL DEF Spec

\* A check that began the record and did not fail has left no key out.
THEOREM AllInitialized == Spec => []InitializedAll
<1>1. IndInv => InitializedAll
  BY DEF IndInv
<1> QED BY <1>1, RotationInvariant, PTL

\* A rotation reported as recorded is forgotten by at most RecordSpan.
THEOREM RotationKept == Spec => []AckedRotationKept
<1>1. IndInv => AckedRotationKept
  BY DEF IndInv
<1> QED BY <1>1, RotationInvariant, PTL

\* A check never changes a row that exists.
THEOREM HistoryIsPreserved == Spec => HistoryPreserved
<1> DEFINE Kept == (\E c \in Checks : check'[c] # check[c])
                   => \A k \in Keys : records[k] # None => records'[k] = records[k]
<1>1. IndInv /\ [Next]_vars => Kept
  <2> SUFFICES ASSUME IndInv, [Next]_vars PROVE Kept
    OBVIOUS
  <2>1. ASSUME NEW c \in Checks, Proceed(c) \/ \E kind \in Kinds : Begin(c, kind)
        PROVE  Kept
    BY <2>1, CheckStep DEF IndInv, RowsKept
  <2>2. UNCHANGED check => Kept
    OBVIOUS
  <2>3. \/ \E c \in Checks : Proceed(c) \/ \E kind \in Kinds : Begin(c, kind)
        \/ UNCHANGED check
    BY DEF Next, Step, Record, BeginRecording, Upsert, FailRecording, SetActivity,
           ManageService, Tick, vars
  <2> QED BY <2>1, <2>2, <2>3
<1>2. IndInv /\ [Next]_vars => [Kept]_vars
  BY <1>1
<1>3. Spec => [][Kept]_vars
  BY <1>2, RotationInvariant, PTL DEF Spec
<1> QED BY <1>3 DEF HistoryPreserved

\* A check that ends with "fine" has missed nothing that was overdue all through it.
THEOREM NothingIsMissed == Spec => NothingMissed
<1> DEFINE Found(c) == Active(c) /\ check'[c].verdict = "fine"
                       => lateKeys[c] = {} /\ lateServices[c] = {}
<1>1. ASSUME IndInv, [Next]_vars, NEW c \in Checks
      PROVE  Found(c)
  <2>1. /\ TypeOK /\ CheckInv /\ CheckOK(c)
        /\ Active(c) => lateKeys[c] \subseteq LateKeys(c) /\ lateServices[c] \subseteq LateServices(c)
        /\ OverdueKeys(c) = LateKeys(c) /\ OverdueServices(c) = LateServices(c)
    BY <1>1, FindsLate DEF IndInv, CheckInv, LateInv
  <2>2. CASE check'[c] = check[c]
    BY <2>1, <2>2 DEF CheckOK, Active
  <2>3. ASSUME End(c, "none") PROVE Found(c)
    BY <2>1, <2>3, EndStep
  <2>4. ASSUME NextKey(c), check[c].pc \in {"find", "create"} PROVE Found(c)
    BY <2>1, <2>4, NextKeyStep DEF CheckOK, Active
  <2>5. CASE ReadStatuses(c)
    <3>1. CASE check[c].kind = "process"
      <4>1. VisibleServices(c) = {}
        BY <3>1 DEF VisibleServices
      <4>2. CASE OverdueKeys(c) = {}
        BY <2>1, <4>1, <4>2 DEF LateServices
      <4>3. CASE OverdueKeys(c) # {}
        BY <2>3, <2>5, <3>1, <4>3 DEF ReadStatuses
      <4> QED BY <4>2, <4>3
    <3>2. CASE check[c].kind # "process"
      BY <2>1, <2>5, <3>2, StatusesStep DEF CheckOK, Active
    <3> QED BY <3>1, <3>2
  <2>6. CASE FindRecord(c)
    <3>1. CASE records[check[c].key] # None
      BY <2>4, <2>6, <3>1 DEF FindRecord
    <3>2. CASE records[check[c].key] = None
      <4>1. check'[c] = [check[c] EXCEPT !.pc = "create"] /\ check[c] \in Check
        BY <2>1, <2>6, <3>2, GotoStep DEF FindRecord, Awaited, TypeOK
      <4>2. check'[c].verdict = check[c].verdict
        BY <4>1 DEF Check
      <4> QED BY <2>1, <4>2 DEF CheckOK, Active
    <3> QED BY <3>1, <3>2
  <2>7. CASE CreateRecord(c)
    BY <2>3, <2>4, <2>7 DEF CreateRecord
  <2>8. CASE ReadServices(c)
    <3>1. CASE check[c].seen = "fine" /\ OverdueServices(c) = {}
      BY <2>1, <2>8, <3>1 DEF ReadServices, CheckOK, Active
    <3>2. CASE ~(check[c].seen = "fine" /\ OverdueServices(c) = {})
      BY <2>3, <2>8, <3>2 DEF ReadServices
    <3> QED BY <3>1, <3>2
  <2>9. CASE Fail(c)
    BY <2>3, <2>9 DEF Fail
  <2>10. CASE \E kind \in Kinds : Begin(c, kind)
    BY <2>10 DEF Begin
  <2>11. ASSUME NEW d \in Checks \ {c}, Proceed(d) \/ \E kind \in Kinds : Begin(d, kind)
         PROVE  Found(c)
    BY <2>1, <2>2, <2>11, CheckStep DEF OnlyChanges
  <2>12. \/ \E d \in Checks : Proceed(d) \/ \E kind \in Kinds : Begin(d, kind)
         \/ UNCHANGED check
    BY <1>1 DEF Next, Step, Record, BeginRecording, Upsert, FailRecording, SetActivity,
                ManageService, Tick, vars
  <2> HIDE DEF Found
  <2> QED BY <2>2, <2>5, <2>6, <2>7, <2>8, <2>9, <2>10, <2>11, <2>12 DEF Proceed
<1>2. IndInv /\ [Next]_vars => [\A c \in Checks : Found(c)]_vars
  BY <1>1
<1>3. Spec => [][\A c \in Checks : Found(c)]_vars
  BY <1>2, RotationInvariant, PTL DEF Spec
<1> QED BY <1>3 DEF NothingMissed
=============================================================================
