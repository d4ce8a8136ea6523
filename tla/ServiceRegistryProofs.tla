------------------------ MODULE ServiceRegistryProofs ------------------------
(***************************************************************************)
(* Proofs about ServiceRegistry, for every number of services, keys,       *)
(* requests and operators: what a report of manage-services promises holds *)
(* for the requests that begin afterwards, a service is authenticated only *)
(* while it was valid, and neither the table nor an operator is left with  *)
(* a key the other one does not know.                                      *)
(***************************************************************************)
EXTENDS ServiceRegistry, TLAPS

-----------------------------------------------------------------------------
(* What a step leaves alone                                                *)

\* The steps of a request change no row, no command and no history of keys.
RequestStep(r) == Authenticate(r) \/ Serve(r)

LEMMA RequestsOnlyRead ==
    ASSUME NEW r \in Requests, RequestStep(r)
    PROVE  UNCHANGED <<registryVars, cmd, keyHistory, suspended, contested>>
BY DEF RequestStep, Serve, Authenticate, FindService, CompareKey, RecordUse,
       AuthenticationError

\* The steps of a command.
CommandStep(o) ==
    Run(o) \/ CheckService(o) \/ Write(o) \/ Report(o) \/ FailCommand(o)

LEMMA CommandsLeaveRequests ==
    ASSUME NEW o \in Operators, CommandStep(o)
    PROVE  UNCHANGED req
BY DEF CommandStep, Write, Run, CheckService, CreateService, RotateKey, SetActive,
       DeleteService, RefuseWrite, Report, FailCommand, registryVars, keyHistory

LEMMA Steps == Next <=> \/ \E r \in Requests : RequestStep(r)
                        \/ \E o \in Operators : CommandStep(o)
BY DEF Next, RequestStep, CommandStep

\* The writes that succeed.
StoreStep(o) == CreateService(o) \/ RotateKey(o) \/ SetActive(o) \/ DeleteService(o)

\* Only the command of o changes, and it remains a command.
OnlyCommand(o) ==
    /\ cmd' \in [Operators -> Command]
    /\ \A p \in Operators \ {o} : cmd'[p] = cmd[p]

LEMMA IdleIsCommand == Idle \in Command
BY DEF Idle, Command

LEMMA OneCommand ==
    ASSUME TypeOK, NEW o \in Operators, NEW x \in Command, cmd' = [cmd EXCEPT ![o] = x]
    PROVE  OnlyCommand(o) /\ cmd'[o] = x
BY DEF TypeOK, OnlyCommand

\* A command that ends is idle again.
LEMMA EndStep ==
    ASSUME TypeOK, NEW o \in Operators, End(o)
    PROVE  OnlyCommand(o) /\ cmd'[o] = Idle
BY IdleIsCommand, OneCommand DEF End

\* The command started.
Started(name, s) ==
    [pc |-> "check", name |-> name, service |-> s, key |-> None, old |-> None]

LEMMA RunStep ==
    ASSUME TypeOK, NEW o \in Operators, Run(o)
    PROVE  /\ OnlyCommand(o)
           /\ \E name \in Name, s \in Identifiers : cmd'[o] = Started(name, s)
<1>1. PICK name \in Name, s \in Identifiers : cmd' = [cmd EXCEPT ![o] = Started(name, s)]
  BY DEF Run, Started
<1>2. Started(name, s) \in Command
  BY DEF Started, Command
<1> QED BY <1>1, <1>2, OneCommand

\* After its check a command writes, with a new key if it needs one; or reports that the
\* service is inactive already; or ends.
LEMMA CheckStep ==
    ASSUME TypeOK, NEW o \in Operators, CommandInv(o), CheckService(o)
    PROVE  /\ OnlyCommand(o)
           /\ cmd[o].pc = "check"
           /\ \/ /\ cmd[o].name \in {"add", "rotate"}
                 /\ \E k \in Keys \ generated :
                       /\ generated' = generated \cup {k}
                       /\ cmd'[o] = [cmd[o] EXCEPT !.pc = "write", !.key = k]
              \/ /\ cmd[o].name \notin {"add", "rotate"}
                 /\ generated' = generated
                 /\ cmd'[o] = [cmd[o] EXCEPT !.pc = "write"]
              \/ /\ cmd[o].name = "deactivate"
                 /\ registry[cmd[o].service].status = "inactive"
                 /\ generated' = generated
                 /\ cmd'[o] = [cmd[o] EXCEPT !.pc = "report"]
              \/ generated' = generated /\ cmd'[o] = Idle
<1>1. cmd[o] \in Command /\ cmd[o].pc = "check"
  BY DEF TypeOK, CheckService
<1>2. \A k \in Keys : [cmd[o] EXCEPT !.pc = "write", !.key = k] \in Command
  BY <1>1 DEF Command
<1>3. \A pc \in {"write", "report"} : [cmd[o] EXCEPT !.pc = pc] \in Command
  BY <1>1 DEF Command
<1> DEFINE name == cmd[o].name
           row  == registry[cmd[o].service]
<1>4. CASE CheckPasses(name, row) /\ name \in {"add", "rotate"}
  <2>1. PICK k \in Keys \ generated :
           /\ generated' = generated \cup {k}
           /\ cmd' = [cmd EXCEPT ![o] = [cmd[o] EXCEPT !.pc = "write", !.key = k]]
    BY <1>1, <1>4 DEF CheckService, TypeOK
  <2>2. OnlyCommand(o) /\ cmd'[o] = [cmd[o] EXCEPT !.pc = "write", !.key = k]
    BY <1>2, <2>1, OneCommand
  <2>3. /\ cmd[o].name \in {"add", "rotate"}
        /\ \E j \in Keys \ generated :
              /\ generated' = generated \cup {j}
              /\ cmd'[o] = [cmd[o] EXCEPT !.pc = "write", !.key = j]
    BY <1>4, <2>1, <2>2
  <2> QED BY <1>1, <2>2, <2>3
<1>5. CASE CheckPasses(name, row) /\ name \notin {"add", "rotate"}
  <2>1. generated' = generated /\ cmd' = [cmd EXCEPT ![o] = [cmd[o] EXCEPT !.pc = "write"]]
    BY <1>1, <1>5 DEF CheckService, CheckPasses, TypeOK
  <2> QED BY <1>1, <1>3, <1>5, <2>1, OneCommand
<1>6. CASE ~CheckPasses(name, row) /\ name = "deactivate" /\ row.status = "inactive"
  <2>1. generated' = generated /\ cmd' = [cmd EXCEPT ![o] = [cmd[o] EXCEPT !.pc = "report"]]
    BY <1>1, <1>6 DEF CheckService, TypeOK
  <2> QED BY <1>1, <1>3, <1>6, <2>1, OneCommand
<1>7. CASE ~CheckPasses(name, row) /\ ~(name = "deactivate" /\ row.status = "inactive")
  <2>1. generated' = generated /\ End(o)
    BY <1>1, <1>7 DEF CheckService
  <2> QED BY <1>1, <2>1, EndStep
<1> QED BY <1>4, <1>5, <1>6, <1>7
\* Only the row of s changes, and it remains a row.
OnlyRow(s) ==
    /\ registry' \in [Identifiers -> Row]
    /\ \A t \in Identifiers \ {s} : registry'[t] = registry[t]

LEMMA OneRow ==
    ASSUME TypeOK, NEW s \in Identifiers, NEW row \in Row, registry' = [registry EXCEPT ![s] = row]
    PROVE  OnlyRow(s) /\ registry'[s] = row
BY DEF TypeOK, OnlyRow

\* The command of o has written and is going to report.
Written(o) ==
    /\ OnlyCommand(o)
    /\ cmd[o].pc = "write" /\ cmd'[o].pc = "report"
    /\ cmd'[o].name = cmd[o].name
    /\ cmd'[o].service = cmd[o].service
    /\ cmd'[o].key = cmd[o].key

LEMMA WriteStep ==
    ASSUME TypeOK, NEW o \in Operators, cmd[o].pc = "write",
           cmd' = [cmd EXCEPT ![o].pc = "report"]
    PROVE  Written(o) /\ cmd'[o].old = cmd[o].old
<1>1. [cmd[o] EXCEPT !.pc = "report"] \in Command
  BY DEF TypeOK, Command
<1>2. cmd' = [cmd EXCEPT ![o] = [cmd[o] EXCEPT !.pc = "report"]]
  BY DEF TypeOK
<1>3. OnlyCommand(o) /\ cmd'[o] = [cmd[o] EXCEPT !.pc = "report"]
  BY <1>1, <1>2, OneCommand
<1> QED BY <1>3 DEF TypeOK, Command, Written

LEMMA ReplaceStep ==
    ASSUME TypeOK, NEW o \in Operators, cmd[o].pc = "write", NEW k \in Keys,
           cmd' = [cmd EXCEPT ![o] = [@ EXCEPT !.pc = "report", !.old = k]]
    PROVE  Written(o) /\ cmd'[o].old = k
<1>1. [cmd[o] EXCEPT !.pc = "report", !.old = k] \in Command
  BY DEF TypeOK, Command
<1>2. cmd' = [cmd EXCEPT ![o] = [cmd[o] EXCEPT !.pc = "report", !.old = k]]
  BY DEF TypeOK
<1>3. OnlyCommand(o) /\ cmd'[o] = [cmd[o] EXCEPT !.pc = "report", !.old = k]
  BY <1>1, <1>2, OneCommand
<1> QED BY <1>3 DEF TypeOK, Command, Written

LEMMA CreateEffect ==
    ASSUME TypeOK, NEW o \in Operators, CommandInv(o), CreateService(o)
    PROVE  LET s == cmd[o].service IN
           /\ s \in Identifiers /\ ~Exists(s)
           /\ OnlyRow(s)
           /\ registry'[s].status = "active"
           /\ registry'[s].key = cmd[o].key /\ cmd[o].key \in Keys
           /\ registry'[s].id \in Ids \ assigned
           /\ assigned' = assigned \cup {registry'[s].id}
           /\ valid' = valid \cup Matching(s, registry'[s])
           /\ Written(o) /\ cmd'[o].old = cmd[o].old
<1> DEFINE s == cmd[o].service
<1>1. s \in Identifiers /\ cmd[o].key \in Keys /\ ~Exists(s) /\ cmd[o].pc = "write"
  BY DEF CreateService, CommandInv, Running
<1>2. PICK i \in Ids \ assigned :
         /\ assigned' = assigned \cup {i}
         /\ Stored(s, [status |-> "active", id |-> i, key |-> cmd[o].key])
  BY DEF CreateService
<1> DEFINE row == [status |-> "active", id |-> i, key |-> cmd[o].key]
<1>3. row \in Row
  BY <1>1 DEF Row, Status
<1>4. Stored(s, row) /\ row.status = "active" /\ row.id = i /\ row.key = cmd[o].key
  BY <1>2
<1> HIDE DEF row
<1>5. OnlyRow(s) /\ registry'[s] = row /\ valid' = valid \cup Matching(s, row)
  BY <1>1, <1>3, <1>4, OneRow DEF Stored
<1>6. cmd' = [cmd EXCEPT ![o].pc = "report"]
  BY DEF CreateService
<1>7. Written(o) /\ cmd'[o].old = cmd[o].old
  BY <1>1, <1>6, WriteStep
<1> QED BY <1>1, <1>2, <1>4, <1>5, <1>7

LEMMA RotateEffect ==
    ASSUME TypeOK, KeyInv, NEW o \in Operators, CommandInv(o), RotateKey(o)
    PROVE  LET s == cmd[o].service IN
           /\ s \in Identifiers /\ Exists(s)
           /\ OnlyRow(s)
           /\ registry'[s].status = registry[s].status
           /\ registry'[s].id = registry[s].id
           /\ registry'[s].key = cmd[o].key /\ cmd[o].key \in Keys
           /\ registry[s].key \in Keys
           /\ replaced' = replaced \cup {registry[s].key}
           /\ valid' = valid \cup Matching(s, registry'[s])
           /\ Written(o) /\ cmd'[o].old = registry[s].key
<1> DEFINE s == cmd[o].service
           row == [registry[s] EXCEPT !.key = cmd[o].key]
<1>1. s \in Identifiers /\ cmd[o].key \in Keys /\ Exists(s) /\ cmd[o].pc = "write"
  BY DEF RotateKey, CommandInv, Running
<1>2. registry[s] \in Row /\ registry[s].key \in Keys
  BY <1>1 DEF TypeOK, KeyInv
<1>3. row \in Row
  BY <1>1, <1>2 DEF Row
<1>4. OnlyRow(s) /\ registry'[s] = row /\ valid' = valid \cup Matching(s, row)
  BY ZenonT(30), <1>1, <1>3, OneRow DEF RotateKey, Stored
<1>5. Written(o) /\ cmd'[o].old = registry[s].key
  BY <1>1, <1>2, ReplaceStep DEF RotateKey
<1>6. row.status = registry[s].status /\ row.id = registry[s].id /\ row.key = cmd[o].key
  BY <1>2 DEF Row
<1>7. replaced' = replaced \cup {registry[s].key}
  BY DEF RotateKey
<1> HIDE DEF row
<1> QED BY <1>1, <1>2, <1>4, <1>5, <1>6, <1>7

LEMMA SetActiveEffect ==
    ASSUME TypeOK, NEW o \in Operators, CommandInv(o), SetActive(o)
    PROVE  LET s == cmd[o].service IN
           /\ s \in Identifiers /\ Exists(s)
           /\ OnlyRow(s)
           /\ cmd[o].name \in {"activate", "deactivate"}
           /\ registry'[s].status = (IF cmd[o].name = "activate" THEN "active" ELSE "inactive")
           /\ registry'[s].id = registry[s].id
           /\ registry'[s].key = registry[s].key
           /\ valid' = valid \cup Matching(s, registry'[s])
           /\ Written(o) /\ cmd'[o].old = cmd[o].old
<1> DEFINE s == cmd[o].service
           status == IF cmd[o].name = "activate" THEN "active" ELSE "inactive"
           row == [registry[s] EXCEPT !.status = status]
<1>1. s \in Identifiers /\ Exists(s) /\ cmd[o].pc = "write"
  BY DEF SetActive, CommandInv, Running
<1>2. registry[s] \in Row /\ status \in Status
  BY <1>1 DEF TypeOK, Status
<1>3. Stored(s, row) /\ cmd[o].name \in {"activate", "deactivate"}
  BY DEF SetActive
<1> HIDE DEF status
<1>4. row \in Row /\ row.status = status /\ row.id = registry[s].id /\ row.key = registry[s].key
  BY <1>2 DEF Row
<1> HIDE DEF row
<1>5. OnlyRow(s) /\ registry'[s] = row /\ valid' = valid \cup Matching(s, row)
  BY <1>1, <1>3, <1>4, OneRow DEF Stored
<1>6. cmd' = [cmd EXCEPT ![o].pc = "report"]
  BY DEF SetActive
<1>7. Written(o) /\ cmd'[o].old = cmd[o].old
  BY <1>1, <1>6, WriteStep
<1> QED BY <1>1, <1>3, <1>4, <1>5, <1>7 DEF status

LEMMA DeleteEffect ==
    ASSUME TypeOK, KeyInv, NEW o \in Operators, CommandInv(o), DeleteService(o)
    PROVE  LET s == cmd[o].service IN
           /\ s \in Identifiers /\ Exists(s)
           /\ OnlyRow(s) /\ registry'[s] = NoRow
           /\ registry[s].key \in Keys
           /\ replaced' = replaced \cup {registry[s].key}
           /\ valid' = valid \ {r \in Requests : Active(r) /\ req[r].service = s}
           /\ Written(o) /\ cmd'[o].old = registry[s].key
<1> DEFINE s == cmd[o].service
<1>1. s \in Identifiers /\ Exists(s) /\ cmd[o].pc = "write"
  BY DEF DeleteService, CommandInv, Running
<1>2. registry[s].key \in Keys
  BY <1>1 DEF TypeOK, KeyInv
<1>3. NoRow \in Row
  BY DEF NoRow, Row, Status
<1>4. OnlyRow(s) /\ registry'[s] = NoRow
  BY <1>1, <1>3, OneRow DEF DeleteService
<1>5. Written(o) /\ cmd'[o].old = registry[s].key
  BY <1>1, <1>2, ReplaceStep DEF DeleteService
<1> QED BY <1>1, <1>2, <1>4, <1>5 DEF DeleteService
-----------------------------------------------------------------------------
(* Types                                                                   *)

LEMMA InitInvariant == Init => IndInv
<1> SUFFICES ASSUME Init PROVE IndInv
  OBVIOUS
<1>1. TypeOK
  <2>1. registry \in [Identifiers -> Row]
    BY DEF Init, NoRow, Row, Status
  <2>2. req \in [Requests -> Request]
    BY DEF Init, Request, RequestPC
  <2>3. cmd \in [Operators -> Command]
    BY IdleIsCommand DEF Init
  <2> QED BY <2>1, <2>2, <2>3 DEF Init, TypeOK
<1>2. KeyInv /\ PrintedKeyStored /\ StoredKeyKnown
  BY DEF Init, KeyInv, PrintedKeyStored, StoredKeyKnown, Exists, NoRow
<1>3. \A o \in Operators : CommandInv(o)
  BY NoneAssumption DEF Init, CommandInv, Running, Idle
<1>4. SuspendedInv
  BY DEF Init, SuspendedInv, EnablingUnderWay, Running, Idle
<1>5. \A r \in Requests : BarredInv(r) /\ ValidInv(r)
  BY DEF Init, BarredInv, ValidInv, Active
<1> QED BY <1>1, <1>2, <1>3, <1>4, <1>5 DEF IndInv

LEMMA RequestTypes ==
    ASSUME IndInv, NEW r \in Requests, RequestStep(r)
    PROVE  /\ req' \in [Requests -> Request]
           /\ \A q \in Requests \ {r} : req'[q] = req[q]
           /\ barred' \subseteq Requests /\ valid' \subseteq Requests
<1> USE DEF IndInv, TypeOK
<1>1. CASE Authenticate(r)
  <2>1. PICK s \in Identifiers, k \in generated :
           req' = [req EXCEPT ![r] = [pc |-> "find", service |-> s, key |-> k,
                                      id |-> None, hash |-> None]]
    BY <1>1 DEF Authenticate
  <2>2. [pc |-> "find", service |-> s, key |-> k, id |-> None, hash |-> None] \in Request
    BY DEF Request, RequestPC
  <2>3. barred' \subseteq Requests /\ valid' \subseteq Requests
    BY <1>1 DEF Authenticate
  <2> QED BY <2>1, <2>2, <2>3
<1>2. CASE FindService(r)
  <2> DEFINE row == registry[req[r].service]
             found == [req[r] EXCEPT !.pc = "compare", !.id = row.id, !.hash = row.key]
             missed == [req[r] EXCEPT !.pc = "rejected"]
  <2>1. req[r].service \in Identifiers /\ req[r] \in Request
    BY <1>2 DEF FindService, ValidInv, Active
  <2>2. row \in Row
    BY <2>1
  <2>3. found \in Request /\ missed \in Request
    BY <2>1, <2>2 DEF Row, Request, RequestPC
  <2>4. \/ req' = [req EXCEPT ![r] = found]
        \/ req' = [req EXCEPT ![r] = missed]
    BY <1>2 DEF FindService
  <2> HIDE DEF found, missed
  <2>5. /\ req' \in [Requests -> Request]
        /\ \A q \in Requests \ {r} : req'[q] = req[q]
    BY <2>3, <2>4
  <2> QED BY <1>2, <2>5 DEF FindService
<1>3. CASE CompareKey(r) \/ RecordUse(r) \/ AuthenticationError(r)
  <2>1. PICK pc \in RequestPC : req' = [req EXCEPT ![r] = [req[r] EXCEPT !.pc = pc]]
    BY <1>3 DEF CompareKey, RecordUse, AuthenticationError, Goto, RequestPC
  <2>2. [req[r] EXCEPT !.pc = pc] \in Request
    BY DEF Request
  <2>3. barred' = barred /\ valid' = valid
    BY <1>3 DEF CompareKey, RecordUse, AuthenticationError
  <2> QED BY <2>1, <2>2, <2>3
<1> QED BY <1>1, <1>2, <1>3 DEF RequestStep, Serve

LEMMA TypeStep == IndInv /\ Next => TypeOK'
<1> SUFFICES ASSUME IndInv, Next PROVE TypeOK'
  OBVIOUS
<1> USE DEF IndInv
<1>1. ASSUME NEW r \in Requests, RequestStep(r)
      PROVE  TypeOK'
  BY <1>1, RequestTypes, RequestsOnlyRead DEF TypeOK, registryVars, keyHistory
<1>2. ASSUME NEW o \in Operators, CommandStep(o)
      PROVE  TypeOK'
  <2>1. UNCHANGED req /\ cmd[o] \in Command
    BY <1>2, CommandsLeaveRequests DEF TypeOK
  <2>2. CASE Run(o)
    BY <2>1, <2>2, RunStep DEF Run, OnlyCommand, TypeOK, registryVars, keyHistory
  <2>3. CASE CheckService(o)
    BY <2>1, <2>3, CheckStep DEF CheckService, OnlyCommand, TypeOK, keyHistory
  <2>4. CASE CreateService(o)
    BY ZenonT(30), <2>1, <2>4, CreateEffect
       DEF CreateService, OnlyRow, Written, OnlyCommand, TypeOK, keyHistory, Matching
  <2>5. CASE RotateKey(o)
    <3>1. registry' \in [Identifiers -> Row] /\ cmd' \in [Operators -> Command]
      BY <2>5, RotateEffect DEF OnlyRow, Written, OnlyCommand
    <3>2. replaced' \subseteq Keys /\ valid' \subseteq Requests
      BY <2>5, RotateEffect DEF TypeOK, Matching
    <3> QED BY <2>1, <2>5, <3>1, <3>2 DEF RotateKey, TypeOK
  <2>6. CASE SetActive(o)
    BY <2>1, <2>6, SetActiveEffect
       DEF SetActive, OnlyRow, Written, OnlyCommand, TypeOK, keyHistory, Matching
  <2>7. CASE DeleteService(o)
    <3>1. registry' \in [Identifiers -> Row] /\ cmd' \in [Operators -> Command]
      BY <2>7, DeleteEffect DEF OnlyRow, Written, OnlyCommand
    <3>2. replaced' \subseteq Keys /\ valid' \subseteq Requests
      BY <2>7, DeleteEffect DEF TypeOK
    <3> QED BY <2>1, <2>7, <3>1, <3>2 DEF DeleteService, TypeOK
  <2>8. CASE RefuseWrite(o)
    BY <2>1, <2>8, EndStep DEF RefuseWrite, OnlyCommand, TypeOK, registryVars, keyHistory
  <2>9. CASE Report(o)
    <3>1. cmd[o].service \in Identifiers
      BY <2>9 DEF Report, CommandInv, Running
    <3> QED BY <2>1, <2>9, <3>1, EndStep DEF Report, OnlyCommand, TypeOK, Command, registryVars
  <2>10. CASE FailCommand(o)
    BY <2>1, <2>10, EndStep DEF FailCommand, OnlyCommand, TypeOK, Command, registryVars
  <2> QED BY <1>2, <2>2, <2>3, <2>4, <2>5, <2>6, <2>7, <2>8, <2>9, <2>10
          DEF CommandStep, Write
<1> QED BY <1>1, <1>2, Steps

-----------------------------------------------------------------------------
(* Keys: every one is stored once, or replaced, or on its way              *)

\* The steps that leave the rows, and the keys of all commands but o, as they are.
LEMMA Quiet ==
    ASSUME IndInv, NEW o \in Operators,
           Run(o) \/ RefuseWrite(o) \/ Report(o) \/ FailCommand(o)
    PROVE  /\ UNCHANGED <<registry, generated, assigned, replaced>>
           /\ OnlyCommand(o)
           /\ \/ cmd'[o] = Idle
              \/ \E name \in Name, s \in Identifiers : cmd'[o] = Started(name, s)
<1> USE DEF IndInv
<1>1. CASE Run(o)
  BY <1>1, RunStep DEF Run, registryVars, keyHistory
<1>2. CASE RefuseWrite(o)
  BY <1>2, EndStep DEF RefuseWrite, registryVars, keyHistory
<1>3. CASE Report(o)
  BY <1>3, EndStep DEF Report, registryVars
<1>4. CASE FailCommand(o)
  BY <1>4, EndStep DEF FailCommand, registryVars
<1> QED BY <1>1, <1>2, <1>3, <1>4

LEMMA KeyStep == IndInv /\ Next => KeyInv'
<1> SUFFICES ASSUME IndInv, Next PROVE KeyInv'
  OBVIOUS
<1> USE DEF IndInv
<1>1. ASSUME NEW r \in Requests, RequestStep(r)
      PROVE  KeyInv'
  BY <1>1, RequestsOnlyRead DEF KeyInv, Exists, registryVars, keyHistory
<1>2. ASSUME NEW o \in Operators, CommandStep(o)
      PROVE  KeyInv'
  <2>1. CASE Run(o) \/ RefuseWrite(o)
    <3>1. UNCHANGED <<registryVars, keyHistory>>
      BY <2>1 DEF Run, RefuseWrite
    <3> QED BY <3>1 DEF KeyInv, Exists, registryVars, keyHistory
  <2>2. CASE Report(o)
    <3>1. printed' \cup retired' \subseteq
             printed \cup retired \cup ({cmd[o].key} \ {None}) \cup ({cmd[o].old} \ {None})
      BY <2>2 DEF Report
    <3>2. retired' \subseteq replaced /\ printed' \subseteq generated
      BY <2>2 DEF Report, CommandInv, KeyInv
    <3>3. UNCHANGED <<registry, generated, assigned, lost, replaced>>
      BY <2>2 DEF Report, registryVars
    <3> QED BY <3>2, <3>3 DEF KeyInv, Exists
  <2>3. CASE FailCommand(o)
    <3>1. lost' \subseteq generated
      BY <2>3 DEF FailCommand, CommandInv, KeyInv
    <3>2. UNCHANGED <<registry, generated, assigned, printed, replaced, retired>>
      BY <2>3 DEF FailCommand, registryVars
    <3> QED BY <3>1, <3>2 DEF KeyInv, Exists
  <2>4. CASE CheckService(o)
    <3>1. generated \subseteq generated' /\ UNCHANGED <<registry, assigned, keyHistory>>
      BY <2>4, CheckStep DEF CheckService
    <3> QED BY <3>1 DEF KeyInv, Exists, keyHistory
  <2>5. CASE CreateService(o)
    <3>0. PICK s \in Identifiers : s = cmd[o].service
      BY <2>5, CreateEffect
    <3>1. UNCHANGED <<generated, keyHistory>> /\ assigned' = assigned \cup {registry'[s].id}
      BY <2>5, <3>0, CreateEffect DEF CreateService
    <3>2. /\ cmd[o].key \in generated \ replaced
          /\ \A t \in Identifiers : registry[t].key # cmd[o].key
      BY <2>5, CreateEffect, NoneAssumption DEF CreateService, CommandInv, Fresh
    <3>3. OnlyRow(s) /\ Exists(s)' /\ registry'[s].key = cmd[o].key
      BY <2>5, <3>0, CreateEffect DEF Exists
    <3> QED BY <3>1, <3>2, <3>3 DEF KeyInv, Exists, OnlyRow, keyHistory
  <2>6. CASE RotateKey(o)
    <3>0. PICK s \in Identifiers : s = cmd[o].service
      BY <2>6, RotateEffect
    <3>1. /\ UNCHANGED <<generated, assigned, printed, lost, retired>>
          /\ replaced' = replaced \cup {registry[s].key}
      BY <2>6, <3>0 DEF RotateKey
    <3>2. /\ cmd[o].key \in generated \ replaced
          /\ \A t \in Identifiers : registry[t].key # cmd[o].key
      BY <2>6, RotateEffect, NoneAssumption DEF RotateKey, CommandInv, Fresh
    <3>3. /\ OnlyRow(s) /\ Exists(s) /\ Exists(s)'
          /\ registry'[s].key = cmd[o].key /\ registry'[s].id = registry[s].id
      BY <2>6, <3>0, RotateEffect DEF Exists
    <3>4. \A t \in Identifiers \ {s} : Exists(t) => registry[t].key # registry[s].key
      BY <3>3 DEF KeyInv
    <3> QED BY <3>1, <3>2, <3>3, <3>4 DEF KeyInv, Exists, OnlyRow
  <2>7. CASE SetActive(o)
    <3>0. PICK s \in Identifiers : s = cmd[o].service
      BY <2>7, SetActiveEffect
    <3>1. UNCHANGED <<generated, assigned, keyHistory>>
      BY <2>7 DEF SetActive
    <3>2. /\ OnlyRow(s) /\ Exists(s) /\ Exists(s)'
          /\ registry'[s].key = registry[s].key /\ registry'[s].id = registry[s].id
      BY <2>7, <3>0, SetActiveEffect DEF Exists
    <3> QED BY <3>1, <3>2 DEF KeyInv, Exists, OnlyRow, keyHistory
  <2>8. CASE DeleteService(o)
    <3>0. PICK s \in Identifiers : s = cmd[o].service
      BY <2>8, DeleteEffect
    <3>1. /\ UNCHANGED <<generated, assigned, printed, lost, retired>>
          /\ replaced' = replaced \cup {registry[s].key}
      BY <2>8, <3>0 DEF DeleteService
    <3>2. OnlyRow(s) /\ Exists(s) /\ registry'[s] = NoRow /\ ~Exists(s)'
      BY <2>8, <3>0, DeleteEffect DEF Exists, NoRow
    <3>3. \A t \in Identifiers \ {s} : Exists(t) => registry[t].key # registry[s].key
      BY <3>2 DEF KeyInv
    <3>4. \A t \in Identifiers : registry'[t] = (IF t = s THEN NoRow ELSE registry[t])
      BY <3>2 DEF OnlyRow
    <3>5. printed \cup lost \cup replaced' \subseteq generated /\ retired \subseteq replaced'
      BY <3>1, <3>2 DEF KeyInv
    <3>6. \A t \in Identifiers : Exists(t)' => t # s /\ Exists(t) /\ registry'[t] = registry[t]
      BY <3>4 DEF Exists, NoRow
    <3>7. \A t \in Identifiers : ~Exists(t)' => registry'[t] = NoRow
      BY <3>4 DEF Exists, KeyInv
    <3>8. \A t \in Identifiers : Exists(t)' => registry'[t].key \in generated \ replaced'
                                             /\ registry'[t].id \in assigned
      BY <3>1, <3>3, <3>6 DEF KeyInv
    <3>9. \A t, u \in Identifiers :
             Exists(t)' /\ registry'[t].key = registry'[u].key => t = u
      <4> SUFFICES ASSUME NEW t \in Identifiers, NEW u \in Identifiers,
                          Exists(t)', registry'[t].key = registry'[u].key
                   PROVE  t = u
        OBVIOUS
      <4>1. u # s
        BY <3>4, <3>8, NoneAssumption DEF NoRow, TypeOK, KeyInv
      <4> QED BY <3>4, <3>6, <4>1 DEF KeyInv
    <3> QED BY <3>1, <3>5, <3>7, <3>8, <3>9 DEF KeyInv
  <2> QED BY <1>2, <2>1, <2>2, <2>3, <2>4, <2>5, <2>6, <2>7, <2>8 DEF CommandStep, Write
<1> QED BY <1>1, <1>2, Steps

-----------------------------------------------------------------------------
(* Commands                                                                *)

StoredKeys == {registry[s].key : s \in Identifiers}

\* What the other commands need of a step of o: the keys they are about to write stay
\* theirs, and those they are about to report stay accounted for.
LEMMA OthersKept ==
    ASSUME IndInv, NEW o \in Operators, OnlyCommand(o),
           generated \subseteq generated', replaced \subseteq replaced',
           StoredKeys \cap Keys \subseteq replaced' \cup StoredKeys',
           \A p \in Operators \ {o} : cmd[p].pc = "write" /\ cmd[p].key \in Keys =>
              /\ cmd[p].key \notin replaced' \cup StoredKeys'
              /\ cmd'[o].key # cmd[p].key
    PROVE  \A p \in Operators \ {o} : CommandInv(p)'
<1> SUFFICES ASSUME NEW p \in Operators \ {o}
             PROVE  CommandInv(p)'
  OBVIOUS
<1>1. CommandInv(p) /\ cmd'[p] = cmd[p]
  BY DEF IndInv, OnlyCommand
<1>2. cmd[p].pc = "write" /\ cmd[p].key \in Keys => Fresh(p)'
  <2> SUFFICES ASSUME cmd[p].pc = "write", cmd[p].key \in Keys
               PROVE  Fresh(p)'
    OBVIOUS
  <2>1. cmd[p].key \notin replaced' /\ \A s \in Identifiers : registry'[s].key # cmd[p].key
    BY DEF StoredKeys
  <2>2. \A q \in Operators : cmd'[q].key = cmd[p].key => q = p
    BY <1>1 DEF CommandInv, Fresh, OnlyCommand
  <2> QED BY <1>1, <2>1, <2>2 DEF Fresh
<1>3. cmd[p].pc = "report" /\ cmd[p].key \in Keys => cmd[p].key \in replaced' \cup StoredKeys'
  BY <1>1 DEF CommandInv, StoredKeys
<1> QED BY <1>1, <1>2, <1>3 DEF CommandInv, Running, StoredKeys

LEMMA WritesFresh ==
    ASSUME IndInv, NEW p \in Operators, cmd[p].pc = "write", cmd[p].key \in Keys
    PROVE  /\ cmd[p].key \notin replaced \cup StoredKeys
           /\ \A q \in Operators \ {p} : cmd[q].key # cmd[p].key
BY DEF IndInv, CommandInv, Fresh, StoredKeys

LEMMA StartedInv ==
    ASSUME NEW o \in Operators,
           \/ cmd'[o] = Idle
           \/ \E name \in Name, s \in Identifiers : cmd'[o] = Started(name, s)
    PROVE  CommandInv(o)'
<1>1. CASE cmd'[o] = Idle
  BY <1>1, NoneAssumption DEF CommandInv, Idle, Running
<1>2. ASSUME NEW name \in Name, NEW s \in Identifiers, cmd'[o] = Started(name, s)
      PROVE  CommandInv(o)'
  BY <1>2, NoneAssumption DEF CommandInv, Started, Running
<1> QED BY <1>1, <1>2

LEMMA CheckCommandStep ==
    ASSUME IndInv, NEW o \in Operators, CheckService(o)
    PROVE  \A p \in Operators : CommandInv(p)'
<1> USE DEF IndInv
<1>1. /\ OnlyCommand(o) /\ UNCHANGED <<registry, replaced>>
      /\ cmd[o] \in Command /\ CommandInv(o)
  BY CheckStep DEF CheckService, TypeOK, keyHistory
<1>2. replaced \cup StoredKeys \subseteq generated \cup {None}
  BY DEF KeyInv, StoredKeys, NoRow
<1>3. \A p \in Operators : cmd[p].key \in generated \cup {None}
  BY DEF CommandInv
<1>4. CASE /\ cmd[o].name \in {"add", "rotate"}
           /\ \E k \in Keys \ generated :
                 /\ generated' = generated \cup {k}
                 /\ cmd'[o] = [cmd[o] EXCEPT !.pc = "write", !.key = k]
  <2>1. PICK k \in Keys \ generated :
              /\ generated' = generated \cup {k}
              /\ cmd'[o] = [cmd[o] EXCEPT !.pc = "write", !.key = k]
    BY <1>4
  <2>2. /\ cmd'[o].pc = "write" /\ cmd'[o].key = k /\ cmd'[o].name = cmd[o].name
        /\ cmd'[o].service = cmd[o].service /\ cmd'[o].old = cmd[o].old
    BY <1>1, <2>1 DEF Command
  <2>3. \A p \in Operators \ {o} : CommandInv(p)'
    <3>1. StoredKeys' = StoredKeys
      BY <1>1 DEF StoredKeys
    <3>2. \A p \in Operators : cmd[p].key # k
      BY <1>3, NoneAssumption
    <3> QED BY <1>1, <2>1, <2>2, <3>1, <3>2, OthersKept, WritesFresh
  <2>4. Fresh(o)'
    <3>1. k \notin replaced' /\ \A s \in Identifiers : registry'[s].key # k
      BY <1>1, <1>2, NoneAssumption DEF StoredKeys
    <3>2. \A p \in Operators \ {o} : cmd'[p].key # k
      BY <1>1, <1>3, NoneAssumption DEF OnlyCommand
    <3> QED BY <2>2, <3>1, <3>2 DEF Fresh
  <2>5. CommandInv(o)'
    <3>1. Running(o)
      BY CheckStep DEF Running
    <3> QED BY <1>1, <1>4, <2>1, <2>2, <2>4, <3>1 DEF CommandInv, Running
  <2> QED BY <2>3, <2>5
<1>5. CASE generated' = generated
  <2>1. CASE cmd'[o] = Idle
    <3>1. \A p \in Operators \ {o} : CommandInv(p)'
      BY <1>1, <1>5, <2>1, OthersKept, WritesFresh, NoneAssumption DEF Idle, StoredKeys
    <3> QED BY <2>1, <3>1, StartedInv
  <2>2. CASE \/ /\ cmd[o].name \notin {"add", "rotate"}
                /\ cmd'[o] = [cmd[o] EXCEPT !.pc = "write"]
             \/ /\ cmd[o].name = "deactivate"
                /\ cmd'[o] = [cmd[o] EXCEPT !.pc = "report"]
    <3>1. /\ cmd'[o].pc \in {"write", "report"} /\ cmd'[o].key = cmd[o].key
          /\ cmd'[o].name = cmd[o].name /\ cmd'[o].name \notin {"add", "rotate"}
          /\ cmd'[o].service = cmd[o].service /\ cmd'[o].old = cmd[o].old
      BY <1>1, <2>2 DEF Command
    <3>2. cmd[o].key \notin Keys /\ Running(o)
      BY <1>1, CheckStep DEF CommandInv, Running
    <3>3. \A p \in Operators \ {o} : CommandInv(p)'
      BY <1>1, <1>5, <3>1, <3>2, OthersKept, WritesFresh DEF StoredKeys
    <3>4. CommandInv(o)'
      BY <1>1, <1>5, <3>1, <3>2 DEF CommandInv, Running
    <3> QED BY <3>3, <3>4
  <2> QED BY <1>5, <2>1, <2>2, CheckStep
<1> QED BY <1>4, <1>5, CheckStep

\* What a write makes of the table: its key goes in, the key of its row goes out only if it
\* is replaced.
LEMMA StoreEffect ==
    ASSUME IndInv, NEW o \in Operators, StoreStep(o)
    PROVE  /\ Written(o) /\ cmd'[o].old \in replaced' \cup {None}
           /\ generated' = generated /\ replaced \subseteq replaced'
           /\ replaced' \subseteq replaced \cup StoredKeys
           /\ StoredKeys' \subseteq StoredKeys \cup {cmd[o].key, None}
           /\ StoredKeys \cap Keys \subseteq replaced' \cup StoredKeys'
           /\ cmd[o].key \in Keys => cmd[o].key \in StoredKeys'
<1> USE DEF IndInv
<1>1. PICK s \in Identifiers : s = cmd[o].service
  BY DEF StoreStep, CreateService, RotateKey, SetActive, DeleteService, CommandInv, Running
<1>2. cmd[o].old \in replaced \cup {None}
  BY DEF CommandInv
<1>3. CASE CreateService(o)
  <2>1. /\ OnlyRow(s) /\ registry'[s].key = cmd[o].key /\ Written(o)
        /\ cmd'[o].old = cmd[o].old /\ ~Exists(s)
        /\ generated' = generated /\ replaced' = replaced
    BY <1>1, <1>3, CreateEffect DEF CreateService, keyHistory
  <2>2. registry[s].key = None
    BY <2>1 DEF KeyInv, NoRow
  <2>3. StoredKeys \cap Keys \subseteq StoredKeys'
    BY <2>1, <2>2, NoneAssumption DEF OnlyRow, StoredKeys
  <2> QED BY <1>2, <2>1, <2>3 DEF OnlyRow, StoredKeys
<1>4. CASE RotateKey(o)
  <2>1. /\ OnlyRow(s) /\ registry'[s].key = cmd[o].key /\ Written(o)
        /\ cmd'[o].old = registry[s].key
        /\ generated' = generated /\ replaced' = replaced \cup {registry[s].key}
    BY <1>1, <1>4, RotateEffect DEF RotateKey
  <2> QED BY <2>1 DEF OnlyRow, StoredKeys
<1>5. CASE SetActive(o)
  <2>1. /\ OnlyRow(s) /\ registry'[s].key = registry[s].key /\ Written(o)
        /\ cmd'[o].old = cmd[o].old /\ cmd[o].key \notin Keys
        /\ generated' = generated /\ replaced' = replaced
    BY <1>1, <1>5, SetActiveEffect DEF SetActive, keyHistory, CommandInv
  <2> QED BY <1>2, <2>1 DEF OnlyRow, StoredKeys
<1>6. CASE DeleteService(o)
  <2>1. /\ OnlyRow(s) /\ registry'[s] = NoRow /\ Written(o)
        /\ cmd'[o].old = registry[s].key /\ cmd[o].key \notin Keys
        /\ generated' = generated /\ replaced' = replaced \cup {registry[s].key}
    BY <1>1, <1>6, DeleteEffect DEF DeleteService, CommandInv
  <2> QED BY <2>1 DEF OnlyRow, StoredKeys, NoRow
<1> QED BY <1>3, <1>4, <1>5, <1>6 DEF StoreStep

LEMMA CommandInvStep == IndInv /\ Next => \A o \in Operators : CommandInv(o)'
<1> SUFFICES ASSUME IndInv, Next PROVE \A o \in Operators : CommandInv(o)'
  OBVIOUS
<1> USE DEF IndInv
<1>1. ASSUME NEW r \in Requests, RequestStep(r)
      PROVE  \A o \in Operators : CommandInv(o)'
  <2>1. UNCHANGED <<registry, generated, replaced, cmd>>
    BY <1>1, RequestsOnlyRead DEF registryVars, keyHistory
  <2> QED BY <2>1 DEF CommandInv, Running, Fresh
<1>2. ASSUME NEW o \in Operators, CommandStep(o)
      PROVE  \A p \in Operators : CommandInv(p)'
  <2>1. CASE Run(o) \/ RefuseWrite(o) \/ Report(o) \/ FailCommand(o)
    <3>1. StoredKeys' = StoredKeys /\ replaced' = replaced /\ generated' = generated
      BY <2>1, Quiet DEF StoredKeys
    <3>2. OnlyCommand(o) /\ cmd'[o].key = None
      <4>1. Idle.key = None /\ \A name \in Name, s \in Identifiers : Started(name, s).key = None
        BY DEF Idle, Started
      <4> QED BY <2>1, <4>1, Quiet
    <3>3. \A p \in Operators \ {o} : CommandInv(p)'
      BY <3>1, <3>2, OthersKept, WritesFresh, NoneAssumption
    <3> QED BY <2>1, <3>3, Quiet, StartedInv
  <2>2. CASE StoreStep(o)
    <3>1. OnlyCommand(o) /\ cmd'[o].key = cmd[o].key
      BY <2>2, StoreEffect DEF Written
    <3>2. \A p \in Operators \ {o} : cmd[p].pc = "write" /\ cmd[p].key \in Keys =>
             /\ cmd[p].key \notin replaced' \cup StoredKeys'
             /\ cmd'[o].key # cmd[p].key
      BY <2>2, <3>1, StoreEffect, WritesFresh, NoneAssumption
    <3>3. \A p \in Operators \ {o} : CommandInv(p)'
      BY <2>2, <3>1, <3>2, StoreEffect, OthersKept
    <3>4. CommandInv(o)'
      <4>1. CommandInv(o) /\ Written(o) /\ Running(o)
        BY <2>2, StoreEffect DEF Written, Running
      <4> QED BY <2>2, <4>1, StoreEffect DEF CommandInv, Written, Running, StoredKeys
    <3> QED BY <3>3, <3>4
  <2> QED BY <1>2, <2>1, <2>2, CheckCommandStep DEF CommandStep, Write, StoreStep
<1> QED BY <1>1, <1>2, Steps

-----------------------------------------------------------------------------
(* The table and the operators know the same keys                          *)

LEMMA PrintedStep == IndInv /\ Next => PrintedKeyStored'
<1> SUFFICES ASSUME IndInv, Next, NEW k \in printed'
             PROVE  k \in replaced' \cup StoredKeys'
  BY DEF PrintedKeyStored, StoredKeys
<1> USE DEF IndInv
<1>1. printed \subseteq replaced \cup (StoredKeys \cap Keys)
  BY DEF PrintedKeyStored, StoredKeys, TypeOK
<1>2. ASSUME NEW r \in Requests, RequestStep(r)
      PROVE  k \in replaced' \cup StoredKeys'
  BY <1>1, <1>2, RequestsOnlyRead DEF registryVars, keyHistory, StoredKeys
<1>3. ASSUME NEW o \in Operators, CommandStep(o)
      PROVE  k \in replaced' \cup StoredKeys'
  <2>1. CASE Report(o)
    <3>1. replaced' = replaced /\ StoredKeys' = StoredKeys
      BY <2>1, Quiet DEF StoredKeys
    <3>2. cmd[o].key \in Keys => cmd[o].key \in replaced \cup StoredKeys
      BY <2>1 DEF Report, CommandInv, StoredKeys
    <3>3. printed' \subseteq printed \cup ({cmd[o].key} \cap Keys)
      BY <2>1 DEF Report, CommandInv, KeyInv, TypeOK
    <3> QED BY <1>1, <3>1, <3>2, <3>3
  <2>2. CASE Run(o) \/ CheckService(o) \/ RefuseWrite(o) \/ FailCommand(o)
    <3>1. UNCHANGED <<registry, replaced, printed>>
      BY <2>2 DEF Run, CheckService, RefuseWrite, FailCommand, registryVars, keyHistory
    <3> QED BY <1>1, <3>1 DEF StoredKeys
  <2>3. CASE StoreStep(o)
    <3>1. printed' = printed
      BY <2>3 DEF StoreStep, CreateService, RotateKey, SetActive, DeleteService, keyHistory
    <3> QED BY <1>1, <2>3, <3>1, StoreEffect
  <2> QED BY <1>3, <2>1, <2>2, <2>3 DEF CommandStep, Write, StoreStep
<1> QED BY <1>2, <1>3, Steps

\* The key k is known to an operator, lost, or about to be reported.
Known(k) ==
    k \in printed \cup lost \/ \E o \in Operators : cmd[o].pc = "report" /\ cmd[o].key = k

LEMMA KnownKept ==
    ASSUME IndInv, NEW k \in Keys, Known(k), Next
    PROVE  Known(k)'
<1> USE DEF IndInv
<1>1. ASSUME NEW r \in Requests, RequestStep(r)
      PROVE  Known(k)'
  BY <1>1, RequestsOnlyRead DEF keyHistory, Known
<1>2. ASSUME NEW o \in Operators, CommandStep(o)
      PROVE  Known(k)'
  <2>1. OnlyCommand(o)
    BY <1>2, Quiet, CheckStep, StoreEffect DEF CommandStep, Write, StoreStep, Written
  <2>2. printed \subseteq printed' /\ lost \subseteq lost'
    BY <1>2 DEF CommandStep, Write, Run, CheckService, CreateService, RotateKey, SetActive,
                DeleteService, RefuseWrite, Report, FailCommand, keyHistory
  <2>3. CASE cmd[o].pc = "report" /\ cmd[o].key = k
    <3>1. Report(o) \/ FailCommand(o)
      BY <1>2, <2>3 DEF CommandStep, Write, Run, Running, CheckService, CreateService,
                        RotateKey, SetActive, DeleteService, RefuseWrite
    <3>2. k \in printed' \cup lost'
      BY <2>3, <3>1, NoneAssumption DEF Report, FailCommand
    <3> QED BY <3>2 DEF Known
  <2>4. CASE ~(cmd[o].pc = "report" /\ cmd[o].key = k)
    BY <2>1, <2>2, <2>4 DEF Known, OnlyCommand
  <2> QED BY <2>3, <2>4
<1> QED BY <1>1, <1>2, Steps

LEMMA KnownStep == IndInv /\ Next => StoredKeyKnown'
<1> SUFFICES ASSUME IndInv, Next, NEW s \in Identifiers, registry'[s].status # "absent",
                    NEW k, k = registry'[s].key
             PROVE  Known(k)'
  BY DEF StoredKeyKnown, Exists, Known
<1> USE DEF IndInv
<1>1. CASE Exists(s) /\ k = registry[s].key
  <2>1. Known(k) /\ k \in Keys
    BY <1>1 DEF StoredKeyKnown, Known, KeyInv, TypeOK
  <2> QED BY <1>1, <2>1, KnownKept
<1>2. CASE ~(Exists(s) /\ k = registry[s].key)
  <2>1. PICK o \in Operators : CommandStep(o)
    BY <1>2, Steps, RequestsOnlyRead DEF registryVars, Exists
  <2>2. CASE CreateService(o)
    <3>1. cmd[o].service = s
      BY <1>2, <2>2, CreateEffect DEF OnlyRow, Exists
    <3> QED BY <2>2, <3>1, CreateEffect DEF Written, Known
  <2>3. CASE RotateKey(o)
    <3>1. cmd[o].service = s
      BY <1>2, <2>3, RotateEffect DEF OnlyRow, Exists
    <3> QED BY <2>3, <3>1, RotateEffect DEF Written, Known
  <2>4. ~SetActive(o) /\ ~DeleteService(o)
    BY <1>2, SetActiveEffect, DeleteEffect DEF OnlyRow, Exists, NoRow
  <2>5. ~(Run(o) \/ CheckService(o) \/ RefuseWrite(o) \/ Report(o) \/ FailCommand(o))
    BY <1>2 DEF Run, CheckService, RefuseWrite, Report, FailCommand, registryVars, Exists
  <2> QED BY <2>1, <2>2, <2>3, <2>4, <2>5 DEF CommandStep, Write
<1> QED BY <1>1, <1>2

-----------------------------------------------------------------------------
(* Suspended services                                                      *)

\* A command under way keeps its name and its service until it ends.
LEMMA CommandKept ==
    ASSUME IndInv, NEW o \in Operators, CommandStep(o), ~Run(o)
    PROVE  /\ OnlyCommand(o) /\ Running(o)
           /\ \/ cmd'[o] = Idle
              \/ cmd'[o].name = cmd[o].name /\ cmd'[o].service = cmd[o].service
<1> USE DEF IndInv
<1>1. CASE CheckService(o)
  <2>1. cmd[o] \in Command
    BY DEF TypeOK
  <2>2. \A k \in Keys : /\ [cmd[o] EXCEPT !.pc = "write", !.key = k].name = cmd[o].name
                        /\ [cmd[o] EXCEPT !.pc = "write", !.key = k].service = cmd[o].service
    BY <2>1 DEF Command
  <2>3. \A pc \in {"write", "report"} : /\ [cmd[o] EXCEPT !.pc = pc].name = cmd[o].name
                                        /\ [cmd[o] EXCEPT !.pc = pc].service = cmd[o].service
    BY <2>1 DEF Command
  <2>4. \/ cmd'[o] = Idle
        \/ cmd'[o].name = cmd[o].name /\ cmd'[o].service = cmd[o].service
    <3>1. CASE \E k \in Keys : cmd'[o] = [cmd[o] EXCEPT !.pc = "write", !.key = k]
      BY <2>2, <3>1
    <3>2. CASE \E pc \in {"write", "report"} : cmd'[o] = [cmd[o] EXCEPT !.pc = pc]
      BY <2>3, <3>2
    <3> QED BY <1>1, <3>1, <3>2, CheckStep
  <2> QED BY <1>1, <2>4, CheckStep DEF Running
<1>2. CASE StoreStep(o)
  BY <1>2, StoreEffect DEF Written, Running
<1>3. CASE RefuseWrite(o) \/ Report(o) \/ FailCommand(o)
  <2>1. OnlyCommand(o) /\ cmd'[o] = Idle
    BY <1>3, EndStep DEF RefuseWrite, Report, FailCommand
  <2>2. Running(o)
    BY <1>3 DEF RefuseWrite, Report, FailCommand, Running
  <2> QED BY <2>1, <2>2
<1> QED BY <1>1, <1>2, <1>3 DEF CommandStep, Write, StoreStep

\* Only the start of an add or activate command puts one under way.
LEMMA EnablingBegins ==
    ASSUME IndInv, NEW o \in Operators, CommandStep(o), NEW s \in Identifiers,
           EnablingUnderWay(s)', ~EnablingUnderWay(s)
    PROVE  Run(o) /\ cmd'[o].service = s /\ cmd'[o].name \in Enabling
<1> USE DEF IndInv
<1>1. OnlyCommand(o)
  BY CommandKept, RunStep
<1>2. PICK p \in Operators : Running(p)' /\ cmd'[p].service = s /\ cmd'[p].name \in Enabling
  BY DEF EnablingUnderWay
<1>3. p = o
  BY <1>1, <1>2 DEF EnablingUnderWay, OnlyCommand, Running
<1>4. Run(o)
  BY <1>2, <1>3, CommandKept DEF EnablingUnderWay, Running, Idle
<1> QED BY <1>2, <1>3, <1>4

\* A service becomes active only by a command that enables it.
LEMMA ActiveByEnabling ==
    ASSUME IndInv, Next, NEW s \in Identifiers,
           registry'[s].status = "active", registry[s].status # "active"
    PROVE  EnablingUnderWay(s)
<1> USE DEF IndInv
<1>1. PICK o \in Operators : CommandStep(o)
  BY Steps, RequestsOnlyRead DEF registryVars
<1>2. CreateService(o) \/ (SetActive(o) /\ cmd[o].name = "activate")
  <2>1. ~(Run(o) \/ CheckService(o) \/ RefuseWrite(o) \/ Report(o) \/ FailCommand(o))
    BY DEF Run, CheckService, RefuseWrite, Report, FailCommand, registryVars
  <2>2. ~RotateKey(o) /\ ~DeleteService(o)
    BY RotateEffect, DeleteEffect DEF OnlyRow, NoRow
  <2>3. SetActive(o) => cmd[o].name = "activate"
    BY SetActiveEffect DEF OnlyRow
  <2> QED BY <1>1, <2>1, <2>2, <2>3 DEF CommandStep, Write
<1>3. cmd[o].service = s /\ cmd[o].name \in Enabling /\ Running(o)
  <2>1. CASE CreateService(o)
    BY <2>1, CreateEffect DEF OnlyRow, CreateService, Enabling, Running
  <2>2. CASE SetActive(o) /\ cmd[o].name = "activate"
    BY <2>2, SetActiveEffect DEF OnlyRow, SetActive, Enabling, Running
  <2> QED BY <1>2, <2>1, <2>2
<1> QED BY <1>3 DEF EnablingUnderWay

LEMMA SuspendedStep == IndInv /\ Next => SuspendedInv'
<1> SUFFICES ASSUME IndInv, Next PROVE SuspendedInv'
  OBVIOUS
<1> USE DEF IndInv
<1>1. ASSUME NEW r \in Requests, RequestStep(r)
      PROVE  SuspendedInv'
  BY <1>1, RequestsOnlyRead DEF SuspendedInv, EnablingUnderWay, Running, registryVars
<1>2. ASSUME NEW o \in Operators, Run(o)
      PROVE  SuspendedInv'
  <2>1. PICK name \in Name, s \in Identifiers :
           /\ cmd' = [cmd EXCEPT ![o] = Started(name, s)]
           /\ IF name \in Enabling
              THEN /\ contested' = (contested \ {o})
                        \cup {p \in Operators : Running(p) /\ cmd[p].service = s}
                   /\ suspended' = suspended \ {s}
              ELSE /\ contested' = IF EnablingUnderWay(s)
                                   THEN contested \cup {o} ELSE contested \ {o}
                   /\ suspended' = suspended
    BY <1>2 DEF Run, Started
  <2>2. Started(name, s) \in Command /\ Started(name, s).pc = "check"
        /\ Started(name, s).name = name /\ Started(name, s).service = s
    BY DEF Started, Command
  <2>3. OnlyCommand(o) /\ cmd'[o] = Started(name, s) /\ registry' = registry
    BY <1>2, <2>1, <2>2, OneCommand DEF Run, registryVars
  <2>4. ~Running(o) /\ CommandStep(o)
    BY <1>2 DEF Run, CommandStep
  <2>5. \A t \in Identifiers : EnablingUnderWay(t)' =>
           EnablingUnderWay(t) \/ (t = s /\ name \in Enabling)
    BY <2>2, <2>3, <2>4, EnablingBegins
  <2>6. ASSUME NEW t \in suspended'
        PROVE  registry'[t].status # "active" /\ ~EnablingUnderWay(t)'
    <3>1. t \in suspended /\ t \in Identifiers /\ ~(t = s /\ name \in Enabling)
      BY <2>1, <2>6 DEF TypeOK
    <3> QED BY <2>3, <2>5, <3>1 DEF SuspendedInv
  <2>7. ASSUME NEW p \in Operators \ contested', Running(p)', cmd'[p].name = "deactivate",
               NEW t, t = cmd'[p].service
        PROVE  ~EnablingUnderWay(t)' /\ (cmd'[p].pc = "report" => registry'[t].status # "active")
    <3>1. CASE p = o
      <4>1. t = s /\ name \notin Enabling
        BY <2>2, <2>3, <2>7, <3>1 DEF Enabling
      <4>2. ~EnablingUnderWay(s)
        BY <2>1, <2>7, <3>1, <4>1
      <4> QED BY <2>2, <2>3, <2>5, <3>1, <4>1, <4>2
    <3>2. CASE p # o
      <4>1. cmd'[p] = cmd[p] /\ Running(p) /\ t \in Identifiers
        BY <2>3, <2>7, <3>2 DEF OnlyCommand, Running, CommandInv
      <4>2. p \notin contested /\ ~(t = s /\ name \in Enabling)
        BY <2>1, <2>7, <3>2, <4>1
      <4> QED BY <2>3, <2>5, <2>7, <4>1, <4>2 DEF SuspendedInv
    <3> QED BY <3>1, <3>2
  <2> QED BY <2>6, <2>7 DEF SuspendedInv
<1>3. ASSUME NEW o \in Operators, CommandStep(o), ~Run(o)
      PROVE  SuspendedInv'
  <2>1. \A t \in Identifiers : EnablingUnderWay(t)' => EnablingUnderWay(t)
    BY <1>3, EnablingBegins
  <2>2. \A t \in Identifiers :
           registry'[t].status = "active" => registry[t].status = "active" \/ EnablingUnderWay(t)
    BY ActiveByEnabling
  <2>3. contested' = contested
    BY <1>3 DEF CommandStep, Write, CheckService, CreateService, RotateKey, SetActive,
                DeleteService, RefuseWrite, Report, FailCommand
  <2>4. ASSUME NEW p \in Operators \ contested, Running(p)', cmd'[p].name = "deactivate"
        PROVE  /\ Running(p) /\ cmd[p].name = "deactivate"
               /\ cmd'[p].service = cmd[p].service /\ cmd[p].service \in Identifiers
    <3>1. Running(p) /\ cmd'[p].name = cmd[p].name /\ cmd'[p].service = cmd[p].service
      BY <1>3, <2>4, CommandKept DEF OnlyCommand, Running, Idle
    <3> QED BY <2>4, <3>1 DEF CommandInv
  <2>5. ASSUME NEW p \in Operators \ contested, Running(p)', cmd'[p].name = "deactivate",
               cmd'[p].pc = "report"
        PROVE  registry'[cmd[p].service].status # "active"
    <3> DEFINE t == cmd[p].service
    <3>1. /\ Running(p) /\ cmd[p].name = "deactivate" /\ t \in Identifiers
          /\ ~EnablingUnderWay(t)
      BY <2>4, <2>5 DEF SuspendedInv
    <3>2. registry[t].status # "active" \/ registry'[t].status # "active"
      <4>1. CASE cmd[p].pc = "report"
        BY <3>1, <4>1 DEF SuspendedInv
      <4>2. CASE cmd[p].pc # "report"
        <5>1. p = o
          BY <1>3, <2>5, <4>2, CommandKept DEF OnlyCommand
        <5>2. CheckService(o) \/ SetActive(o)
          BY <1>3, <2>5, <3>1, <5>1, EndStep
             DEF CommandStep, Write, CreateService, RotateKey, DeleteService, RefuseWrite,
                 Report, FailCommand, Idle
        <5>3. CASE CheckService(o)
          <6>1. cmd[o] \in Command
            BY DEF TypeOK
          <6>2. /\ \A k \in Keys : [cmd[o] EXCEPT !.pc = "write", !.key = k].pc = "write"
                /\ [cmd[o] EXCEPT !.pc = "write"].pc = "write" /\ Idle.pc = "idle"
            BY <6>1 DEF Command, Idle
          <6>3. registry[t].status = "inactive"
            BY <2>5, <5>1, <5>3, <6>2, CheckStep
          <6> QED BY <6>3
        <5>4. CASE SetActive(o)
          BY <3>1, <5>1, <5>4, SetActiveEffect
        <5> QED BY <5>2, <5>3, <5>4
      <4> QED BY <4>1, <4>2
    <3> QED BY <2>2, <3>1, <3>2
  <2>6. ASSUME NEW t \in suspended'
        PROVE  registry'[t].status # "active" /\ ~EnablingUnderWay(t)'
    <3>1. t \in Identifiers /\ registry[t].status # "active" /\ ~EnablingUnderWay(t)
      <4>1. CASE t \in suspended
        BY <4>1 DEF SuspendedInv, TypeOK
      <4>2. CASE t \notin suspended
        <5>1. Report(o)
          BY <1>3, <2>6, <4>2
             DEF CommandStep, Write, CheckService, CreateService, RotateKey, SetActive,
                 DeleteService, RefuseWrite, FailCommand
        <5> QED BY <2>6, <4>2, <5>1 DEF Report, Running, CommandInv, SuspendedInv
      <4> QED BY <4>1, <4>2
    <3> QED BY <2>1, <2>2, <3>1
  <2>7. ASSUME NEW p \in Operators \ contested, Running(p)', cmd'[p].name = "deactivate",
               NEW t, t = cmd'[p].service
        PROVE  ~EnablingUnderWay(t)' /\ (cmd'[p].pc = "report" => registry'[t].status # "active")
    <3>1. t \in Identifiers /\ ~EnablingUnderWay(t)
      BY <2>4, <2>7 DEF SuspendedInv
    <3> QED BY <2>1, <2>4, <2>5, <2>7, <3>1
  <2> QED BY <2>3, <2>6, <2>7 DEF SuspendedInv
<1> QED BY <1>1, <1>2, <1>3, Steps

-----------------------------------------------------------------------------
(* Requests                                                                *)

\* A new request of slot r.
LEMMA AuthenticateStep ==
    ASSUME IndInv, NEW r \in Requests, Authenticate(r)
    PROVE  /\ req'[r].pc = "find" /\ req'[r].service \in Identifiers /\ req'[r].key \in Keys
           /\ r \in barred' => req'[r].key \in retired \/ req'[r].service \in suspended
           /\ (/\ registry[req'[r].service].status = "active"
               /\ registry[req'[r].service].key = req'[r].key) => r \in valid'
<1>1. PICK s \in Identifiers, k \in generated :
         /\ req' = [req EXCEPT ![r] = [pc |-> "find", service |-> s, key |-> k,
                                       id |-> None, hash |-> None]]
         /\ barred' = IF k \in retired \/ s \in suspended
                      THEN barred \cup {r} ELSE barred \ {r}
         /\ valid' = IF registry[s].status = "active" /\ registry[s].key = k
                     THEN valid \cup {r} ELSE valid \ {r}
  BY DEF Authenticate
<1>2. req'[r].pc = "find" /\ req'[r].service = s /\ req'[r].key = k
  BY <1>1 DEF IndInv, TypeOK
<1> QED BY <1>1, <1>2 DEF IndInv, TypeOK

\* The read of the row, the comparison and the update by id.
LEMMA ServeStep ==
    ASSUME IndInv, NEW r \in Requests, Serve(r)
    PROVE  /\ UNCHANGED <<barred, valid>>
           /\ Active(r) /\ req'[r].service = req[r].service /\ req'[r].key = req[r].key
           /\ \/ /\ req[r].pc = "find" /\ req'[r].pc = "compare"
                 /\ registry[req[r].service].status = "active"
                 /\ req'[r].id = registry[req[r].service].id
                 /\ req'[r].hash = registry[req[r].service].key
              \/ /\ req[r].pc = "compare" /\ req'[r].pc = "use"
                 /\ req[r].key = req[r].hash /\ req'[r].id = req[r].id
              \/ /\ req[r].pc = "use" /\ req'[r].pc = "authenticated"
                 /\ registry[req[r].service].id = req[r].id
              \/ req'[r].pc = "rejected"
<1>1. req \in [Requests -> Request] /\ req[r] \in Request
  BY DEF IndInv, TypeOK
<1>2. CASE FindService(r)
  BY <1>1, <1>2 DEF FindService, Active, Request
<1>3. CASE CompareKey(r)
  BY <1>1, <1>3 DEF CompareKey, Goto, Active, Request
<1>4. CASE RecordUse(r)
  BY <1>1, <1>4 DEF RecordUse, Goto, Active, Request
<1>5. CASE AuthenticationError(r)
  BY <1>1, <1>5 DEF AuthenticationError, Goto, Active, Request
<1> QED BY <1>2, <1>3, <1>4, <1>5 DEF Serve

\* A request disturbs no other slot.
LEMMA OneSlot ==
    ASSUME IndInv, NEW q \in Requests, RequestStep(q), NEW r \in Requests \ {q}
    PROVE  req'[r] = req[r] /\ (r \in barred' <=> r \in barred) /\ (r \in valid' <=> r \in valid)
<1>1. req'[r] = req[r]
  BY RequestTypes
<1>2. CASE Authenticate(q)
  BY <1>1, <1>2 DEF Authenticate
<1>3. CASE Serve(q)
  BY <1>1, <1>3, ServeStep
<1> QED BY <1>2, <1>3 DEF RequestStep

LEMMA BarredStep == IndInv /\ Next => \A r \in Requests : BarredInv(r)'
<1> SUFFICES ASSUME IndInv, Next, NEW r \in Requests PROVE BarredInv(r)'
  OBVIOUS
<1> USE DEF IndInv
<1>1. ASSUME NEW q \in Requests, RequestStep(q)
      PROVE  BarredInv(r)'
  <2>1. retired' = retired /\ suspended' = suspended
    BY <1>1, RequestsOnlyRead DEF keyHistory
  <2>2. CASE q # r
    BY <1>1, <2>1, <2>2, OneSlot DEF BarredInv
  <2>3. CASE q = r /\ Authenticate(r)
    BY <2>1, <2>3, AuthenticateStep DEF BarredInv
  <2>4. CASE q = r /\ Serve(r)
    <3>1. CASE req[r].pc = "find" /\ r \in barred /\ registry[req[r].service].status = "active"
      <4>1. req[r].service \in Identifiers /\ req[r].service \notin suspended
        BY <3>1 DEF ValidInv, Active, SuspendedInv
      <4>2. req[r].key \in replaced
        BY <3>1, <4>1 DEF BarredInv, KeyInv
      <4>3. registry[req[r].service].key # req[r].key
        BY <3>1, <4>1, <4>2 DEF KeyInv, Exists
      <4> QED BY <2>4, <3>1, <4>3, ServeStep DEF BarredInv
    <3>2. CASE ~(req[r].pc = "find" /\ r \in barred /\ registry[req[r].service].status = "active")
      BY <2>4, <3>2, ServeStep DEF BarredInv
    <3> QED BY <3>1, <3>2
  <2> QED BY <1>1, <2>2, <2>3, <2>4 DEF RequestStep
<1>2. ASSUME NEW o \in Operators, CommandStep(o)
      PROVE  BarredInv(r)'
  <2>1. req' = req
    BY <1>2, CommandsLeaveRequests
  <2>2. barred' \subseteq barred /\ retired \subseteq retired'
    BY <1>2 DEF CommandStep, Write, Run, CheckService, CreateService, RotateKey, SetActive,
                DeleteService, RefuseWrite, Report, FailCommand, keyHistory
  <2>3. r \in barred' /\ req[r].service \in suspended =>
           req[r].service \in suspended' \/ req[r].key \in retired
    BY <1>2 DEF CommandStep, Write, Run, CheckService, CreateService, RotateKey, SetActive,
                DeleteService, RefuseWrite, Report, FailCommand
  <2> QED BY <2>1, <2>2, <2>3 DEF BarredInv
<1> QED BY <1>1, <1>2, Steps

\* A row that changes is seen by the requests it would admit; a row that goes takes its id
\* with it, and a new one has an id that no request holds.
LEMMA RowChange ==
    ASSUME IndInv, NEW o \in Operators, CommandStep(o), NEW r \in Requests, Active(r)
    PROVE  LET s == req[r].service IN
           /\ assigned \subseteq assigned'
           /\ registry'[s].status = "active" /\ registry'[s].key = req[r].key => r \in valid'
           /\ \/ (r \in valid => r \in valid') /\ registry'[s].id = registry[s].id
              \/ (r \in valid => r \in valid') /\ registry'[s].id \notin assigned
              \/ registry'[s].id = None
<1> USE DEF IndInv
<1>1. PICK s \in Identifiers : s = req[r].service
  BY DEF ValidInv
<1>2. r \in Matching(s, registry[s]) => r \in valid
  BY <1>1 DEF Matching, ValidInv
<1>3. ASSUME NEW row
      PROVE  row.status = "active" /\ row.key = req[r].key => r \in Matching(s, row)
  BY <1>1 DEF Matching
<1>4. CASE Run(o) \/ CheckService(o) \/ RefuseWrite(o) \/ Report(o) \/ FailCommand(o)
  <2>1. UNCHANGED <<registry, assigned, valid>>
    BY <1>4 DEF Run, CheckService, RefuseWrite, Report, FailCommand, registryVars
  <2> QED BY <1>1, <1>2, <1>3, <2>1
<1>5. ASSUME CreateService(o) \/ RotateKey(o) \/ SetActive(o)
      PROVE  /\ assigned \subseteq assigned' /\ valid \subseteq valid'
             /\ registry'[s].status = "active" /\ registry'[s].key = req[r].key => r \in valid'
             /\ registry'[s].id = registry[s].id \/ registry'[s].id \notin assigned
  <2>1. PICK t \in Identifiers : t = cmd[o].service
    BY <1>5, CreateEffect, RotateEffect, SetActiveEffect
  <2>2. OnlyRow(t) /\ valid' = valid \cup Matching(t, registry'[t])
    BY <1>5, <2>1, CreateEffect, RotateEffect, SetActiveEffect
  <2>3. assigned \subseteq assigned' /\ (registry'[t].id = registry[t].id \/ registry'[t].id \notin assigned)
    BY <1>5, <2>1, CreateEffect, RotateEffect, SetActiveEffect DEF RotateKey, SetActive
  <2>4. CASE t = s
    BY <1>3, <2>2, <2>3, <2>4
  <2>5. CASE t # s
    BY <1>2, <1>3, <2>2, <2>3, <2>5 DEF OnlyRow
  <2> QED BY <2>4, <2>5
<1>6. CASE DeleteService(o)
  <2>1. PICK t \in Identifiers : t = cmd[o].service
    BY <1>6, DeleteEffect
  <2>2. /\ OnlyRow(t) /\ registry'[t] = NoRow /\ assigned' = assigned
        /\ valid' = valid \ {q \in Requests : Active(q) /\ req[q].service = t}
    BY <1>6, <2>1, DeleteEffect DEF DeleteService
  <2>3. CASE t = s
    BY <1>1, <2>2, <2>3 DEF NoRow
  <2>4. CASE t # s
    BY <1>1, <1>2, <1>3, <2>2, <2>4 DEF OnlyRow
  <2> QED BY <2>3, <2>4
<1> QED BY <1>1, <1>4, <1>5, <1>6 DEF CommandStep, Write

LEMMA ValidStep == IndInv /\ Next => \A r \in Requests : ValidInv(r)'
<1> SUFFICES ASSUME IndInv, Next, NEW r \in Requests PROVE ValidInv(r)'
  OBVIOUS
<1> USE DEF IndInv
<1>1. ASSUME NEW q \in Requests, RequestStep(q)
      PROVE  ValidInv(r)'
  <2>1. registry' = registry /\ assigned' = assigned
    BY <1>1, RequestsOnlyRead DEF registryVars
  <2>2. CASE q # r
    BY <1>1, <2>1, <2>2, OneSlot DEF ValidInv, Active
  <2>3. CASE q = r /\ Authenticate(r)
    BY <2>1, <2>3, AuthenticateStep DEF ValidInv, Active
  <2>4. CASE q = r /\ Serve(r)
    <3>1. req[r].service \in Identifiers /\ req[r].key \in Keys
      BY <2>4, ServeStep DEF ValidInv
    <3>2. CASE req'[r].pc = "compare"
      <4>1. registry[req[r].service].id \in assigned
        BY <2>4, <3>1, <3>2, ServeStep DEF KeyInv, Exists
      <4>2. req'[r].key = req'[r].hash => r \in valid'
        BY <2>4, <3>1, <3>2, ServeStep DEF ValidInv
      <4>3. registry[req[r].service].status = "active"
               /\ registry[req[r].service].key = req[r].key => r \in valid
        BY <2>4, <3>1, ServeStep DEF ValidInv
      <4> QED BY <2>1, <2>4, <3>1, <3>2, <4>1, <4>2, <4>3, ServeStep DEF ValidInv, Active
    <3>3. CASE req'[r].pc \in {"use", "authenticated", "rejected"}
      BY <2>1, <2>4, <3>1, <3>3, ServeStep DEF ValidInv, Active
    <3> QED BY <2>4, <3>2, <3>3, ServeStep
  <2> QED BY <1>1, <2>2, <2>3, <2>4 DEF RequestStep
<1>2. ASSUME NEW o \in Operators, CommandStep(o)
      PROVE  ValidInv(r)'
  <2>1. req' = req
    BY <1>2, CommandsLeaveRequests
  <2>2. CASE Active(r)
    <3>1. req[r].id \in assigned => req[r].id # None
      BY NoneAssumption DEF TypeOK
    <3>2. Active(r)'
      BY <2>1, <2>2 DEF Active
    <3> QED BY <1>2, <2>1, <2>2, <3>1, <3>2, RowChange DEF ValidInv, Active
  <2>3. CASE ~Active(r)
    <3>1. r \in valid => r \in valid'
      <4>1. CASE DeleteService(o)
        BY <2>3, <4>1 DEF DeleteService
      <4>2. CASE ~DeleteService(o)
        BY <1>2, <4>2 DEF CommandStep, Write, Run, CheckService, CreateService, RotateKey,
                          SetActive, RefuseWrite, Report, FailCommand, Stored
      <4> QED BY <4>1, <4>2
    <3> QED BY <2>1, <2>3, <3>1 DEF ValidInv, Active
  <2> QED BY <2>2, <2>3
<1> QED BY <1>1, <1>2, Steps

-----------------------------------------------------------------------------
(* The theorems                                                            *)

LEMMA InvariantStep == IndInv /\ [Next]_vars => IndInv'
<1>1. IndInv /\ Next => IndInv'
  BY TypeStep, KeyStep, CommandInvStep, PrintedStep, KnownStep, SuspendedStep, BarredStep,
     ValidStep DEF IndInv
<1>2. IndInv /\ UNCHANGED vars => IndInv'
  BY DEF IndInv, vars, registryVars, keyHistory, TypeOK, KeyInv, CommandInv, Fresh,
         PrintedKeyStored, StoredKeyKnown, SuspendedInv, BarredInv, ValidInv, Exists, Active,
         Running, EnablingUnderWay
<1> QED BY <1>1, <1>2

\* The inductive invariant of services, keys, commands and requests: a stored key is not
\* replaced, a key on its way into the table is nowhere else, nothing under way can activate
\* a suspended service, and a request that passed the comparison saw a valid row.
THEOREM RegistryInvariant == Spec => []IndInv
BY InitInvariant, InvariantStep, PTL DEF Spec

\* A request that begins after a rotation, a deletion or a deactivation was reported is not
\* authenticated with the old key, or for the inactive service.
THEOREM BarredStaysOut == Spec => []BarredNeverAuthenticated
<1>1. IndInv => BarredNeverAuthenticated
  BY DEF IndInv, BarredNeverAuthenticated, BarredInv, TypeOK
<1> QED BY <1>1, RegistryInvariant, PTL

\* A service is authenticated only if its row was valid at some moment of the request and
\* has not been deleted since.
THEOREM AuthenticatedWasValid == Spec => []AuthenticatedWhileValid
<1>1. IndInv => AuthenticatedWhileValid
  BY DEF IndInv, AuthenticatedWhileValid, ValidInv
<1> QED BY <1>1, RegistryInvariant, PTL

\* A printed key is the key of its service until it is replaced.
THEOREM PrintedKeysWork == Spec => []PrintedKeyStored
<1>1. IndInv => PrintedKeyStored
  BY DEF IndInv
<1> QED BY <1>1, RegistryInvariant, PTL

\* The key of every service is known to an operator, or its command failed after the write.
THEOREM StoredKeysKnown == Spec => []StoredKeyKnown
<1>1. IndInv => StoredKeyKnown
  BY DEF IndInv
<1> QED BY <1>1, RegistryInvariant, PTL
=============================================================================
