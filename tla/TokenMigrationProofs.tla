------------------------ MODULE TokenMigrationProofs ------------------------
(***************************************************************************)
(* Proofs about TokenMigration: a run of the script that reports success   *)
(* has left no plain text, whatever the service, its users and other runs  *)
(* do; what a failed refresh hands out stays recent; and a single run,     *)
(* however often it is repeated, leaves a refresh token that works.        *)
(***************************************************************************)
EXTENDS TokenMigration, GithubTokenProofs

-----------------------------------------------------------------------------
(* What the service does to the row and to the tokens under way            *)

TokensKept == row'.access = row.access /\ row'.refresh = row.refresh /\ row'.form = row.form

\* Every write of the row but the administrator's stores encrypted tokens, with the
\* refresh token of a login or of a refresh.
LEMMA RowStep ==
    ASSUME TypeOK, [Next]_vars
    PROVE  \/ TokensKept
           \/ /\ row'.form = "encrypted"
              /\ \/ row'.refresh = None
                 \/ \E l \in Logins : row'.refresh = login[l].refresh
                 \/ \E r \in Requests :
                      /\ Refreshing(r)
                      /\ row'.refresh = IF req[r].newRefresh = None THEN req[r].held
                                                                    ELSE req[r].newRefresh
<1>1. CASE row' = row
  BY <1>1 DEF TokensKept
<1>2. ASSUME NEW r \in Requests, CommitRefresh(r) \/ CommitUnconfirmed(r), row' # row
      PROVE  /\ row'.form = "encrypted" /\ Refreshing(r)
             /\ row'.refresh = IF req[r].newRefresh = None THEN req[r].held
                                                           ELSE req[r].newRefresh
  BY <1>2, RefreshedFields DEF CommitRefresh, CommitUnconfirmed, Refreshing
<1>3. ASSUME NEW l \in Logins, StoreGrant(l)
      PROVE  row'.form = "encrypted" /\ row'.refresh = login[l].refresh
  BY <1>3, StoredFields
<1>4. ASSUME NEW account \in AdminSettings, AdminSetsAccount(account)
      PROVE  TokensKept \/ (row'.form = "encrypted" /\ row'.refresh = None)
  BY <1>4, AccountFields DEF TokensKept
<1>5. \/ row' = row
      \/ \E r \in Requests : (CommitRefresh(r) \/ CommitUnconfirmed(r)) /\ row' # row
      \/ \E l \in Logins : StoreGrant(l)
      \/ \E account \in AdminSettings : AdminSetsAccount(account)
  BY DEF Next, Arrive, Serve, ReadUser, AuditAccess, ReadInTransaction, RefreshAtGithub,
         ReceiveTokens, SendToken, HandlerFault, TransactionFault, CommitRefresh,
         CommitUnconfirmed, LogIn, ExchangeCode, FetchProfile, LoginFault, Tick, vars
<1> QED BY <1>1, <1>2, <1>3, <1>4, <1>5

\* A request holds the refresh token it held, none, or an encrypted one of the row.
HeldFrom(r) ==
    \/ req'[r].held \in {req[r].held, None}
    \/ req'[r].held = row.refresh /\ row.form = "encrypted"

\* What it is about to store it has held before, or GitHub has just issued it.
NewFrom(r) ==
    Refreshing(r)' => \/ Refreshing(r) /\ req'[r].newRefresh = req[r].newRefresh
                     \/ req'[r].newRefresh = None \/ req'[r].newRefresh \notin issued

LEMMA FailedFrom ==
    ASSUME NEW r \in Requests, Failed(r) \/ Answered(r)
    PROVE  HeldFrom(r) /\ NewFrom(r)
BY DEF Failed, Answered, Empty, Kept, HeldFrom, NewFrom, Refreshing

LEMMA ServeFrom ==
    ASSUME TypeOK, NEW r \in Requests, Serve(r)
    PROVE  HeldFrom(r) /\ NewFrom(r)
<1>1. CASE ReadUser(r)
  BY <1>1, ReadUserStep DEF HeldFrom, NewFrom, Refreshing
<1>2. CASE AuditAccess(r)
  <2>1. Answered(r) \/ (req'[r].held = req[r].held /\ ~Refreshing(r)')
    BY <1>2, AuditStep DEF Refreshing
  <2> QED BY <2>1, FailedFrom DEF HeldFrom, NewFrom
<1>3. CASE ReadInTransaction(r)
  <2>1. Failed(r) \/ (HeldFrom(r) /\ ~Refreshing(r)')
    BY <1>3, TransactionStep DEF Refreshing, HeldFrom
  <2> QED BY <2>1, FailedFrom DEF NewFrom
<1>4. CASE RefreshAtGithub(r)
  <2>1. \/ Failed(r)
        \/ /\ req'[r].held = req[r].held
           /\ req'[r].newRefresh = None \/ req'[r].newRefresh \notin issued
    BY <1>4, RefreshStep
  <2> QED BY <2>1, FailedFrom DEF HeldFrom, NewFrom
<1>5. CASE ReceiveTokens(r)
  BY <1>5, ReceiveStep DEF HeldFrom, NewFrom, Refreshing
<1>6. CASE CommitRefresh(r)
  <2>1. Failed(r) \/ (req'[r].held = req[r].held /\ ~Refreshing(r)')
    BY <1>6, CommitStep DEF Refreshing
  <2> QED BY <2>1, FailedFrom DEF HeldFrom, NewFrom
<1>7. CASE SendToken(r) \/ HandlerFault(r) \/ TransactionFault(r) \/ CommitUnconfirmed(r)
  BY <1>7, SendStep, FaultStep, FailedFrom
<1> QED BY <1>1, <1>2, <1>3, <1>4, <1>5, <1>6, <1>7 DEF Serve

LEMMA TokensFrom ==
    ASSUME TypeOK, [Next]_vars
    PROVE  /\ \A r \in Requests : HeldFrom(r) /\ NewFrom(r)
           /\ \A l \in Logins : \/ login'[l].refresh \in {login[l].refresh, None}
                                \/ login'[l].refresh \notin issued
<1>1. ASSUME NEW r \in Requests, req'[r] = req[r] PROVE HeldFrom(r) /\ NewFrom(r)
  BY <1>1 DEF HeldFrom, NewFrom, Refreshing
<1>2. ASSUME NEW r \in Requests, Arrive(r)
      PROVE  HeldFrom(r) /\ NewFrom(r) /\ OnlyRequest(r) /\ login' = login
  BY <1>2, ArriveStep DEF Arrive, Empty, HeldFrom, NewFrom, Refreshing
<1>3. ASSUME NEW r \in Requests, Arrive(r) \/ Serve(r)
      PROVE  HeldFrom(r) /\ NewFrom(r) /\ OnlyRequest(r) /\ login' = login
  BY <1>2, <1>3, ServeFrom, ServeStep
<1>4. ASSUME NEW l \in Logins, LogIn(l)
      PROVE  /\ req' = req /\ OnlyLogin(l)
             /\ \/ login'[l].refresh \in {login[l].refresh, None}
                \/ login'[l].refresh \notin issued
  <2>1. req' = req /\ OnlyLogin(l)
    BY <1>4, LogInStep
  <2>2. CASE ExchangeCode(l)
    <3>1. login'[l].refresh = None \/ login'[l].refresh \notin issued
      BY <2>2, ExchangeStep
    <3> QED BY <2>1, <3>1
  <2>3. CASE FetchProfile(l)
    BY <2>1, <2>3, FetchStep
  <2>4. CASE StoreGrant(l) \/ LoginFault(l)
    BY <2>1, <2>4, EndStep DEF StoreGrant, LoginFault, Ended
  <2> QED BY <1>4, <2>2, <2>3, <2>4 DEF LogIn
<1>5. \/ \E r \in Requests : Arrive(r) \/ Serve(r)
      \/ \E l \in Logins : LogIn(l)
      \/ UNCHANGED <<req, login>>
  BY DEF Next, AdminSetsAccount, Tick, vars
<1>6. CASE \E r \in Requests : Arrive(r) \/ Serve(r)
  BY <1>1, <1>3, <1>6 DEF OnlyRequest
<1>7. CASE \E l \in Logins : LogIn(l)
  BY <1>1, <1>4, <1>7 DEF OnlyLogin
<1> QED BY <1>1, <1>5, <1>6, <1>7

\* GitHub withdraws only refresh tokens that a request has presented.
LEMMA UnheldLives ==
    ASSUME TypeOK, [Next]_vars, NEW n \in live, \A r \in Requests : req[r].held # n
    PROVE  n \in live'
<1>1. ASSUME NEW r \in Requests, RefreshAtGithub(r) PROVE n \in live'
  BY <1>1, RefreshStep
<1>2. ASSUME NEW l \in Logins, ExchangeCode(l) PROVE n \in live'
  BY <1>2, ExchangeStep
<1>3. \/ live' = live
      \/ \E r \in Requests : RefreshAtGithub(r)
      \/ \E l \in Logins : ExchangeCode(l)
  BY DEF Next, Arrive, Serve, ReadUser, AuditAccess, ReadInTransaction,
         ReceiveTokens, SendToken, HandlerFault, TransactionFault, CommitRefresh,
         CommitUnconfirmed, LogIn, FetchProfile, StoreGrant, LoginFault, AdminSetsAccount,
         Tick, vars
<1> QED BY <1>1, <1>2, <1>3

-----------------------------------------------------------------------------
(* What a run of the script does                                           *)

OnlyRun(m) ==
    /\ migration' \in [Migrations -> Migration]
    /\ \A n \in Migrations \ {m} : migration'[n] = migration[n]

LEMMA OneRun ==
    ASSUME MigrationTypeOK, NEW m \in Migrations, NEW x \in Migration,
           migration' = [migration EXCEPT ![m] = x]
    PROVE  OnlyRun(m) /\ migration'[m] = x
BY DEF MigrationTypeOK, OnlyRun

RunVerdict == {"none", "success", "preview", "failure"}

\* The run carries nothing.
Bare(m) == migration'[m].access = None /\ migration'[m].refresh = None

LEMMA ScriptStep ==
    ASSUME MigrationTypeOK, NEW m \in Migrations, NEW pc \in {"idle", "list", "tx", "write"},
           NEW dryRun \in BOOLEAN, NEW verdict \in RunVerdict,
           migration' = [migration EXCEPT ![m] = Script(pc, dryRun, verdict)]
    PROVE  /\ OnlyRun(m) /\ Bare(m) /\ migration'[m].pc = pc
           /\ migration'[m].verdict = verdict
<1>1. Script(pc, dryRun, verdict) \in Migration
  BY DEF Script, Migration, Grant, RunVerdict
<1>2. OnlyRun(m) /\ migration'[m] = Script(pc, dryRun, verdict)
  BY <1>1, OneRun
<1> QED BY <1>2 DEF Script, Bare

\* The run has ended.
RunEnded(m, verdict) ==
    /\ OnlyRun(m) /\ Bare(m) /\ migration'[m].pc = "idle"
    /\ migration'[m].verdict = verdict

LEMMA FinishStep ==
    ASSUME MigrationTypeOK, NEW m \in Migrations, NEW verdict \in RunVerdict,
           Finish(m, verdict)
    PROVE  RunEnded(m, verdict)
<1>1. "idle" \in {"idle", "list", "tx", "write"} /\ FALSE \in BOOLEAN
  OBVIOUS
<1>2. migration' = [migration EXCEPT ![m] = Script("idle", FALSE, verdict)]
  BY DEF Finish
<1> QED BY <1>1, <1>2, ScriptStep DEF RunEnded

\* A run ends well only without an error, and not in a dry run.
LEMMA ProcessedStep ==
    ASSUME MigrationTypeOK, NEW m \in Migrations, NEW failed \in BOOLEAN, Processed(m, failed)
    PROVE  \E verdict \in RunVerdict :
              /\ RunEnded(m, verdict)
              /\ verdict = "success" => ~failed /\ ~migration[m].dryRun
<1>1. PICK errors \in {failed, Faults} :
         Finish(m, IF migration[m].dryRun THEN "preview"
                   ELSE IF failed \/ errors THEN "failure" ELSE "success")
  BY DEF Processed
<1> DEFINE verdict == IF migration[m].dryRun THEN "preview"
                      ELSE IF failed \/ errors THEN "failure" ELSE "success"
<1>2. verdict \in RunVerdict /\ (verdict = "success" => ~failed /\ ~migration[m].dryRun)
  BY DEF RunVerdict
<1>3. Finish(m, verdict)
  BY <1>1
<1> HIDE DEF verdict
<1>4. RunEnded(m, verdict)
  BY <1>2, <1>3, FinishStep
<1> QED BY <1>2, <1>4

LEMMA EncryptedFields ==
    ASSUME MigrationTypeOK, NEW m \in Migrations
    PROVE  /\ Encrypted(m) \in User
           /\ Encrypted(m).account = row.account
           /\ Encrypted(m).access = migration[m].access
           /\ Encrypted(m).refresh = IF migration[m].refresh = None
                                     THEN row.refresh ELSE migration[m].refresh
           /\ Encrypted(m).form = "encrypted"
<1>1. row \in User /\ migration[m] \in Migration
  BY DEF MigrationTypeOK, TypeOK
<1>2. /\ migration[m].access \in Grant
      /\ (IF migration[m].refresh = None THEN row.refresh ELSE migration[m].refresh) \in Grant
  BY <1>1 DEF User, Migration
<1> QED BY <1>1, <1>2 DEF Encrypted, User, Form

\* Everything but the row and the runs.
Untouched ==
    UNCHANGED <<now, issued, live, grantExpiry, req, login, stale, degraded, abandoned>>

\* A run of the script reads the tokens of the row, writes what it has read, or leaves the
\* row alone; and it ends well only where nothing is plain text.
ScriptEffect(m) ==
    /\ OnlyRun(m) /\ Untouched /\ unlisted' \subseteq Migrations
    /\ \A n \in Migrations \ {m} : n \in unlisted' <=> n \in unlisted
    /\ \/ /\ row' = row /\ migration'[m].pc # "write"
          /\ migration'[m].access \in {migration[m].access, None}
          /\ migration'[m].refresh \in {migration[m].refresh, None}
       \/ /\ row' = row /\ row.form = "plaintext" /\ migration'[m].pc = "write"
          /\ migration'[m].access = row.access /\ migration'[m].refresh = row.refresh
          /\ row.access # None
       \/ /\ row' = Encrypted(m) /\ migration[m].pc = "write" /\ migration'[m].pc = "idle"
          /\ Bare(m) /\ m \notin unlisted
    /\ migration'[m].verdict = "success" =>
          \/ migration[m].verdict = "success" /\ row' = row
          \/ row' = row /\ (row.access = None \/ row.form = "encrypted")
          \/ row' = Encrypted(m)

LEMMA ListEffect ==
    ASSUME MigrationTypeOK, NEW m \in Migrations, ListUsers(m)
    PROVE  ScriptEffect(m)
<1>1. UNCHANGED vars /\ unlisted' = unlisted /\ unlisted \subseteq Migrations
  BY DEF ListUsers, MigrationTypeOK
<1>2. CASE row.access = None /\ row.refresh = None
  <2>1. Processed(m, FALSE) /\ FALSE \in BOOLEAN
    BY <1>2 DEF ListUsers
  <2>2. PICK verdict \in RunVerdict : RunEnded(m, verdict)
    BY <2>1, ProcessedStep
  <2> QED BY <1>1, <1>2, <2>2 DEF ScriptEffect, RunEnded, Bare, Untouched, vars
<1>3. CASE ~(row.access = None /\ row.refresh = None)
  <2> DEFINE x == [migration[m] EXCEPT !.pc = "tx"]
  <2>1. migration[m] \in Migration /\ migration' = [migration EXCEPT ![m] = x]
    BY <1>3 DEF ListUsers, MigrationTypeOK
  <2>2. x \in Migration
    BY <2>1 DEF Migration
  <2>3. OnlyRun(m) /\ migration'[m] = x
    BY <2>1, <2>2, OneRun
  <2>4. /\ x.pc = "tx" /\ x.access = migration[m].access
        /\ x.refresh = migration[m].refresh /\ x.verdict = migration[m].verdict
    BY <2>1 DEF Migration
  <2> HIDE DEF x
  <2>5. /\ migration'[m].pc = "tx" /\ migration'[m].access = migration[m].access
        /\ migration'[m].refresh = migration[m].refresh
        /\ migration'[m].verdict = migration[m].verdict
    BY <2>3, <2>4
  <2> QED BY <1>1, <2>3, <2>5 DEF ScriptEffect, Untouched, vars
<1> QED BY <1>2, <1>3

LEMMA ReadEffect ==
    ASSUME MigrationTypeOK, NEW m \in Migrations, ReadTokens(m)
    PROVE  ScriptEffect(m)
<1>1. UNCHANGED vars /\ unlisted' = unlisted /\ unlisted \subseteq Migrations
  BY DEF ReadTokens, MigrationTypeOK
<1>2. ASSUME NEW failed \in BOOLEAN, Processed(m, failed),
             \/ failed \/ row.form = "encrypted" \/ row.access = None \/ migration[m].dryRun
      PROVE  ScriptEffect(m)
  <2>1. PICK verdict \in RunVerdict :
           /\ RunEnded(m, verdict)
           /\ verdict = "success" => ~failed /\ ~migration[m].dryRun
    BY <1>2, ProcessedStep
  <2> QED BY <1>1, <1>2, <2>1 DEF ScriptEffect, RunEnded, Bare, Untouched, vars
<1>3. ASSUME row.form = "plaintext", row.access # None,
             migration' = [migration EXCEPT ![m] = [@ EXCEPT
               !.pc = "write", !.access = row.access, !.refresh = row.refresh, !.at = now]]
      PROVE  ScriptEffect(m)
  <2> DEFINE x == [migration[m] EXCEPT !.pc = "write", !.access = row.access,
                                       !.refresh = row.refresh, !.at = now]
  <2>1. /\ migration[m] \in Migration /\ row \in User /\ now \in Nat
        /\ migration' = [migration EXCEPT ![m] = x]
    BY <1>3 DEF MigrationTypeOK, TypeOK
  <2>2. x \in Migration
    BY <2>1 DEF Migration, User
  <2>3. OnlyRun(m) /\ migration'[m] = x
    BY <2>1, <2>2, OneRun
  <2>4. /\ x.pc = "write" /\ x.access = row.access /\ x.refresh = row.refresh
        /\ x.verdict = migration[m].verdict
    BY <2>1 DEF Migration
  <2> HIDE DEF x
  <2>5. /\ migration'[m].pc = "write" /\ migration'[m].access = row.access
        /\ migration'[m].refresh = row.refresh
        /\ migration'[m].verdict = migration[m].verdict
    BY <2>3, <2>4
  <2> QED BY <1>1, <1>3, <2>3, <2>5 DEF ScriptEffect, Untouched, vars
<1>4. \/ Processed(m, TRUE)
      \/ Processed(m, FALSE) /\ (row.form = "encrypted" \/ row.access = None
                                 \/ migration[m].dryRun)
      \/ row.form = "plaintext" /\ row.access # None /\
         migration' = [migration EXCEPT ![m] = [@ EXCEPT
               !.pc = "write", !.access = row.access, !.refresh = row.refresh, !.at = now]]
  BY DEF ReadTokens
<1> QED BY <1>2, <1>3, <1>4

LEMMA WriteEffect ==
    ASSUME MigrationTypeOK, NEW m \in Migrations,
           WriteTokens(m) \/ WriteUnconfirmed(m) \/ MigrationFault(m)
    PROVE  ScriptEffect(m)
<1>1. Untouched /\ unlisted' = unlisted /\ unlisted \subseteq Migrations
  BY DEF WriteTokens, WriteUnconfirmed, MigrationFault, MigrationTypeOK, Untouched, vars
<1>2. ASSUME NEW verdict \in RunVerdict, RunEnded(m, verdict),
             row' = row, verdict # "success"
      PROVE  ScriptEffect(m)
  BY <1>1, <1>2 DEF ScriptEffect, RunEnded, Bare
<1>3. ASSUME NEW verdict \in RunVerdict, RunEnded(m, verdict),
             row' = Encrypted(m), migration[m].pc = "write", m \notin unlisted
      PROVE  ScriptEffect(m)
  BY <1>1, <1>3 DEF ScriptEffect, RunEnded
<1>4. CASE WriteTokens(m)
  <2>1. CASE m \in unlisted
    <3>1. Processed(m, TRUE) /\ row' = row /\ TRUE \in BOOLEAN
      BY <1>4, <2>1 DEF WriteTokens
    <3> QED BY <1>2, <3>1, ProcessedStep
  <2>2. CASE m \notin unlisted
    <3>1. /\ Processed(m, FALSE) /\ row' = Encrypted(m) /\ FALSE \in BOOLEAN
          /\ migration[m].pc = "write" /\ m \notin unlisted
      BY <1>4, <2>2 DEF WriteTokens
    <3> QED BY <1>3, <3>1, ProcessedStep
  <2> QED BY <2>1, <2>2
<1>5. CASE WriteUnconfirmed(m)
  <2>1. /\ Finish(m, "failure") /\ row' = Encrypted(m) /\ migration[m].pc = "write"
        /\ m \notin unlisted /\ "failure" \in RunVerdict
    BY <1>5 DEF WriteUnconfirmed, RunVerdict
  <2> QED BY <1>3, <2>1, FinishStep
<1>6. CASE MigrationFault(m)
  <2>1. row' = row /\ "failure" \in RunVerdict /\ TRUE \in BOOLEAN
    BY <1>6 DEF MigrationFault, RunVerdict, vars
  <2>2. Finish(m, "failure") \/ Processed(m, TRUE)
    BY <1>6 DEF MigrationFault
  <2> QED BY <1>2, <2>1, <2>2, ProcessedStep, FinishStep
<1> QED BY <1>4, <1>5, <1>6

LEMMA RunStep ==
    ASSUME MigrationTypeOK, NEW m \in Migrations,
           Migrate(m) \/ \E dryRun \in BOOLEAN : Begin(m, dryRun)
    PROVE  ScriptEffect(m)
<1>1. ASSUME NEW dryRun \in BOOLEAN, Begin(m, dryRun) PROVE ScriptEffect(m)
  <2>1. /\ "list" \in {"idle", "list", "tx", "write"} /\ "none" \in RunVerdict
        /\ migration' = [migration EXCEPT ![m] = Script("list", dryRun, "none")]
        /\ UNCHANGED vars /\ unlisted' \subseteq Migrations
        /\ \A n \in Migrations \ {m} : n \in unlisted' <=> n \in unlisted
    BY <1>1 DEF Begin, RunVerdict, MigrationTypeOK
  <2>2. OnlyRun(m) /\ Bare(m) /\ migration'[m].pc = "list" /\ migration'[m].verdict = "none"
    BY <2>1, ScriptStep
  <2> QED BY <2>1, <2>2 DEF ScriptEffect, Bare, Untouched, vars
<1> QED BY <1>1, ListEffect, ReadEffect, WriteEffect DEF Migrate

-----------------------------------------------------------------------------
(* The service and the script keep the invariant                           *)

LEMMA ServiceIsNext ==
    ASSUME MigrationTypeOK, ServiceStep \/ UNCHANGED allVars
    PROVE  [Next]_vars /\ migration' = migration /\ unlisted' \subseteq Migrations
<1>1. [Next]_vars /\ migration' = migration
  BY DEF ServiceStep, Next, migrationVars, allVars
<1>2. unlisted' = unlisted \/ unlisted' = unlisted \cup
        {m \in Migrations : migration[m].pc \in {"tx", "write"}}
  BY DEF ServiceStep, migrationVars, allVars
<1> QED BY <1>1, <1>2 DEF MigrationTypeOK

\* What holds beside any number of runs.
Shared ==
    /\ MigrationTypeOK /\ SpanInv /\ DegradedInv /\ IssuedInv /\ CarriedIssued
    /\ FormInv /\ SuccessMeansEncrypted /\ Sourced /\ HandoutInv /\ CarriedHeld

\* What holds beside one run.
Single == UsableInv /\ PlainUnused /\ \A m \in Migrations : CarriedUnused(m)

LEMMA MigrationParts == MigrationInv <=> Shared /\ (Alone => Single)
BY DEF MigrationInv, Shared, Single

\* Grants are never taken back.
LEMMA IssuedGrows == [Next]_vars => issued \subseteq issued'
BY DEF Next, Arrive, Serve, ReadUser, AuditAccess, ReadInTransaction, RefreshAtGithub,
       ReceiveTokens, SendToken, HandlerFault, TransactionFault, CommitRefresh,
       CommitUnconfirmed, LogIn, ExchangeCode, FetchProfile, StoreGrant, LoginFault,
       AdminSetsAccount, Tick, vars

\* No step of the service leaves a token to a user who is gone, or lets a user go without
\* taking the ids of the runs.
LEMMA ServiceHeld ==
    ASSUME Shared, ServiceStep \/ UNCHANGED allVars
    PROVE  CarriedHeld'
<1>1. /\ MigrationTypeOK /\ TypeOK /\ HandoutInv /\ CarriedHeld
      /\ [Next]_vars /\ migration' = migration
  BY ServiceIsNext DEF Shared, MigrationTypeOK
<1>2. ASSUME row'.account = "absent" => row'.access = None,
             row'.account # "absent" \/ row'.account = row.account,
             unlisted \subseteq unlisted'
      PROVE  CarriedHeld'
  BY <1>1, <1>2 DEF CarriedHeld
<1>3. unlisted \subseteq unlisted'
  BY DEF ServiceStep, migrationVars, allVars
<1>4. CASE row' = row
  BY <1>1, <1>2, <1>3, <1>4 DEF CarriedHeld
<1>5. ASSUME NEW r \in Requests, Serve(r) PROVE CarriedHeld'
  <2>1. row' = row \/ (row' = Refreshed(r) /\ req[r].pc = "write" /\ r \notin stale)
    BY <1>1, <1>5, RowMoves
  <2>2. CASE req[r].pc = "write" /\ r \notin stale
    <3>1. row.account # "absent"
      BY <1>1, <2>2 DEF HandoutInv, Active
    <3>2. row'.account = row.account
      BY <1>1, <1>5, ServeAccount
    <3> QED BY <1>2, <1>3, <3>1, <3>2
  <2> QED BY <1>4, <2>1, <2>2
<1>6. ASSUME NEW l \in Logins, LogIn(l) PROVE CarriedHeld'
  BY <1>1, <1>2, <1>3, <1>4, <1>6, LogInAccount
<1>7. ASSUME NEW account \in AdminSettings, AdminSetsAccount(account),
             account = "absent" =>
               {m \in Migrations : migration[m].pc \in {"tx", "write"}} \subseteq unlisted'
      PROVE  CarriedHeld'
  <2>1. CASE account = "absent"
    <3>1. row'.access = None
      BY <1>7, <2>1 DEF AdminSetsAccount
    <3> QED BY <1>1, <1>7, <2>1, <3>1 DEF CarriedHeld
  <2>2. CASE account # "absent"
    <3>1. row'.account # "absent"
      BY <1>1, <1>7, <2>2, AccountFields DEF AdminSetsAccount
    <3> QED BY <1>2, <1>3, <3>1
  <2> QED BY <2>1, <2>2
<1>8. ASSUME NEW r \in Requests, Arrive(r) PROVE CarriedHeld'
  BY <1>4, <1>8 DEF Arrive
<1>9. CASE UNCHANGED allVars
  BY <1>4, <1>9 DEF allVars, vars
<1>10. CASE ServiceStep
  BY <1>4, <1>5, <1>6, <1>7, <1>8, <1>10 DEF ServiceStep, Tick
<1> QED BY <1>9, <1>10

LEMMA ServiceShared ==
    ASSUME Shared, ServiceStep \/ UNCHANGED allVars
    PROVE  Shared'
<1>1. /\ MigrationTypeOK /\ TypeOK /\ SpanInv /\ DegradedInv /\ IssuedInv
      /\ [Next]_vars /\ migration' = migration /\ unlisted' \subseteq Migrations
  BY ServiceIsNext DEF Shared, MigrationTypeOK
<1>2. TypeOK' /\ SpanInv' /\ DegradedInv' /\ IssuedInv'
  BY <1>1, TypeStep, SpanStep, DegradedStep, IssuedStep
<1>3. MigrationTypeOK'
  BY <1>1, <1>2 DEF MigrationTypeOK
<1>4. CarriedIssued'
  BY <1>1, IssuedGrows DEF Shared, CarriedIssued
<1>5. FormInv' /\ SuccessMeansEncrypted'
  <2>1. CASE TokensKept
    BY <1>1, <2>1 DEF TokensKept, Shared, FormInv, SuccessMeansEncrypted
  <2>2. CASE row'.form = "encrypted"
    BY <2>2 DEF FormInv, SuccessMeansEncrypted
  <2> QED BY <1>1, <2>1, <2>2, RowStep
<1>6. Sourced'
  BY <1>1, SourcedStep DEF Shared
<1>7. HandoutInv'
  BY <1>1, HandoutNext DEF Shared
<1>8. CarriedHeld'
  BY ServiceHeld
<1> QED BY <1>2, <1>3, <1>4, <1>5, <1>6, <1>7, <1>8 DEF Shared

LEMMA ServiceSingle ==
    ASSUME Shared, Single, Alone, ServiceStep \/ UNCHANGED allVars
    PROVE  Single'
<1>1. /\ TypeOK /\ IssuedInv /\ UsableInv /\ OneRotation
      /\ [Next]_vars /\ migration' = migration
  BY ServiceIsNext DEF Shared, MigrationTypeOK, Single, Alone, OneRotation
<1>2. UsableInv'
  BY <1>1, UsableStep
<1>3. PlainUnused'
  <2> SUFFICES ASSUME row'.form = "plaintext", row'.refresh # None
               PROVE  /\ row'.refresh \in live'
                      /\ \A r \in Requests : req'[r].held # row'.refresh
    BY DEF PlainUnused
  <2>1. TokensKept
    BY <1>1, RowStep
  <2>2. /\ row'.refresh = row.refresh /\ row.form = "plaintext" /\ row.refresh \in live
        /\ \A r \in Requests : req[r].held # row.refresh
    BY <2>1 DEF TokensKept, Single, PlainUnused
  <2>3. row.refresh \in live'
    BY <1>1, <2>2, UnheldLives
  <2>4. \A r \in Requests : req'[r].held # row.refresh
    BY <1>1, <2>2, TokensFrom DEF HeldFrom
  <2> QED BY <2>2, <2>3, <2>4
<1>4. ASSUME NEW m \in Migrations PROVE CarriedUnused(m)'
  <2> DEFINE n == migration[m].refresh
  <2> SUFFICES ASSUME migration[m].pc = "write", n # None
               PROVE  /\ n \in live'
                      /\ row'.refresh = n => row'.form = "plaintext"
                      /\ \A r \in Requests : req'[r].held # n
                      /\ \A r \in Requests : Refreshing(r)' => req'[r].newRefresh # n
                      /\ \A l \in Logins : login'[l].refresh # n
    BY <1>1 DEF CarriedUnused, Refreshing
  <2>1. /\ n \in live /\ n \in issued
        /\ row.refresh = n => row.form = "plaintext"
        /\ \A r \in Requests : req[r].held # n /\ (Refreshing(r) => req[r].newRefresh # n)
        /\ \A l \in Logins : login[l].refresh # n
    BY <1>1 DEF Single, CarriedUnused, IssuedInv
  <2> HIDE DEF n
  <2>2. n \in live'
    BY <1>1, <2>1, UnheldLives
  <2>3. row'.refresh = n => row'.form = "plaintext"
    <3>1. CASE TokensKept
      BY <2>1, <3>1 DEF TokensKept
    <3>2. CASE ~TokensKept
      BY <1>1, <2>1, <3>2, RowStep
    <3> QED BY <3>1, <3>2
  <2>4. ASSUME NEW r \in Requests
        PROVE  req'[r].held # n /\ (Refreshing(r)' => req'[r].newRefresh # n)
    <3>1. HeldFrom(r) /\ NewFrom(r)
      BY <1>1, TokensFrom
    <3>2. req'[r].held # n
      BY <2>1, <3>1 DEF HeldFrom
    <3>3. Refreshing(r)' => req'[r].newRefresh # n
      BY <2>1, <3>1 DEF NewFrom
    <3> QED BY <3>2, <3>3
  <2>5. ASSUME NEW l \in Logins PROVE login'[l].refresh # n
    <3>1. login'[l].refresh \in {login[l].refresh, None} \/ login'[l].refresh \notin issued
      BY <1>1, TokensFrom
    <3> QED BY <2>1, <3>1
  <2> QED BY <2>2, <2>3, <2>4, <2>5
<1> QED BY <1>2, <1>3, <1>4 DEF Single

LEMMA ScriptShared ==
    ASSUME Shared, NEW m \in Migrations, ScriptEffect(m)
    PROVE  Shared'
<1>1. /\ MigrationTypeOK /\ TypeOK /\ migration[m] \in Migration /\ row \in User
      /\ OnlyRun(m) /\ Untouched /\ unlisted' \subseteq Migrations
  BY DEF Shared, MigrationTypeOK, TypeOK, ScriptEffect
<1>2. \/ row' = row
      \/ row' = Encrypted(m) /\ migration[m].pc = "write"
  BY DEF ScriptEffect
<1>3. row' \in User
  BY <1>1, <1>2, EncryptedFields
<1>4. MigrationTypeOK'
  <2>1. TypeOK'
    BY <1>1, <1>3 DEF Untouched, TypeOK
  <2> QED BY <1>1, <2>1 DEF MigrationTypeOK, OnlyRun
<1>5. SpanInv' /\ DegradedInv'
  BY <1>1 DEF Shared, Untouched, SpanInv, DegradedInv, Active
<1>6. /\ {migration[m].access, migration[m].refresh} \subseteq issued \cup {None}
      /\ {row.access, row.refresh} \subseteq issued \cup {None}
  BY DEF Shared, CarriedIssued, IssuedInv
<1>7. {row'.access, row'.refresh} \subseteq issued \cup {None}
  BY <1>1, <1>2, <1>6, EncryptedFields
<1>8. IssuedInv'
  BY <1>1, <1>7 DEF Shared, Untouched, IssuedInv, Refreshing
<1>9. CarriedIssued'
  <2>1. {migration'[m].access, migration'[m].refresh} \subseteq issued \cup {None}
    BY <1>6 DEF ScriptEffect, Bare
  <2> QED BY <1>1, <2>1 DEF Shared, CarriedIssued, OnlyRun, Untouched
<1>10. FormInv'
  BY <1>1, <1>2, EncryptedFields DEF Shared, FormInv
<1>11. SuccessMeansEncrypted'
  <2>1. row.form = "encrypted" => row'.form = "encrypted"
    BY <1>1, <1>2, EncryptedFields
  <2>2. migration'[m].verdict = "success" => row'.form = "encrypted"
    BY <1>1, EncryptedFields DEF ScriptEffect, Shared, FormInv, SuccessMeansEncrypted
  <2> QED BY <1>1, <2>1, <2>2 DEF Shared, SuccessMeansEncrypted, OnlyRun
<1>12. Sourced'
  <2>1. row'.refresh # None => row'.access # None
    BY <1>1, <1>2, EncryptedFields DEF Shared, Sourced, CarriedHeld
  <2> QED BY <1>1, <2>1 DEF Shared, Sourced, Untouched, Refreshing
<1>13. row'.account = row.account
  BY <1>1, <1>2, EncryptedFields
<1>14. HandoutInv'
  BY <1>1, <1>13 DEF Shared, HandoutInv, Untouched, Active
<1>15. CarriedHeld'
  <2>1. row'.account = "absent" => row'.access = None
    BY <1>13, EncryptedFields DEF Shared, ScriptEffect, CarriedHeld
  <2>2. migration'[m].pc = "write" =>
          migration'[m].access # None /\ row'.account # "absent"
    BY <1>13 DEF Shared, ScriptEffect, CarriedHeld
  <2> QED BY <1>1, <1>13, <2>1, <2>2 DEF Shared, ScriptEffect, CarriedHeld, OnlyRun
<1> QED BY <1>4, <1>5, <1>8, <1>9, <1>10, <1>11, <1>12, <1>14, <1>15 DEF Shared

LEMMA ScriptSingle ==
    ASSUME Shared, Single, Alone, NEW m \in Migrations, ScriptEffect(m)
    PROVE  Single'
<1>1. /\ MigrationTypeOK /\ IssuedInv /\ UsableInv /\ Untouched
      /\ \A n \in Migrations : n = m
  BY DEF Shared, Single, Alone, ScriptEffect
<1>2. \A r \in Requests : Refreshing(r)' <=> Refreshing(r)
  BY <1>1 DEF Untouched, Refreshing
<1>3. ASSUME row'.refresh = row.refresh PROVE UsableInv'
  <2>1. Quiet
    BY <1>1, <1>2, <1>3 DEF Untouched, Quiet
  <2> QED BY <1>1, <2>1, QuietUsable
<1>4. CASE row' = row
  <2>1. UsableInv'
    BY <1>3, <1>4
  <2>2. PlainUnused'
    BY <1>1, <1>4 DEF Untouched, Single, PlainUnused
  <2>3. CarriedUnused(m)'
    <3> SUFFICES ASSUME migration'[m].pc = "write", migration'[m].refresh # None
                 PROVE  CarriedUnused(m)'
      BY DEF CarriedUnused
    <3>1. row.form = "plaintext" /\ migration'[m].refresh = row.refresh
      <4>1. CASE migration[m].pc = "write" /\ row' = Encrypted(m) /\ migration'[m].pc = "idle"
        BY <4>1
      <4> QED BY <4>1 DEF ScriptEffect
    <3>2. /\ row.refresh # None /\ row.refresh \in live
          /\ \A r \in Requests : req[r].held # row.refresh
      BY <3>1 DEF Single, PlainUnused
    <3>3. \A r \in Requests : Refreshing(r) => req[r].newRefresh # row.refresh
      BY <1>1, <3>2 DEF UsableInv, UnseenInv, Unseen
    <3>4. \A l \in Logins : login[l].refresh # row.refresh
      BY <1>1, <3>2 DEF UsableInv, UnseenInv, Unseen
    <3> QED BY <1>1, <1>2, <1>4, <3>1, <3>2, <3>3, <3>4 DEF CarriedUnused, Untouched
  <2> QED BY <1>1, <2>1, <2>2, <2>3 DEF Single
<1>5. CASE row' = Encrypted(m) /\ migration[m].pc = "write" /\ migration'[m].pc = "idle"
  <2>1. row'.form = "encrypted" /\
        row'.refresh = IF migration[m].refresh = None THEN row.refresh
                                                      ELSE migration[m].refresh
    BY <1>1, <1>5, EncryptedFields
  <2>2. UsableInv'
    <3>1. CASE migration[m].refresh = None
      BY <1>3, <2>1, <3>1
    <3>2. CASE migration[m].refresh # None
      <4>1. /\ row'.refresh = migration[m].refresh /\ row'.refresh \in live
            /\ \A r \in Requests : Refreshing(r) => req[r].newRefresh # row'.refresh
            /\ \A l \in Logins : login[l].refresh # row'.refresh
        BY <1>5, <2>1, <3>2 DEF Single, CarriedUnused
      <4>2. UNCHANGED <<live, abandoned, req, login>>
        BY <1>1 DEF Untouched
      <4> QED BY <1>1, <1>2, <4>1, <4>2, RowReplaced
    <3> QED BY <3>1, <3>2
  <2>3. PlainUnused' /\ CarriedUnused(m)'
    BY <1>5, <2>1 DEF PlainUnused, CarriedUnused
  <2> QED BY <1>1, <2>2, <2>3 DEF Single
<1> QED BY <1>4, <1>5 DEF ScriptEffect

LEMMA MigrationStep == MigrationInv /\ [MigrationNext]_allVars => MigrationInv'
<1> SUFFICES ASSUME MigrationInv, [MigrationNext]_allVars PROVE MigrationInv'
  OBVIOUS
<1>s. Shared /\ (Alone => Single)
  BY MigrationParts
<1>1. CASE ServiceStep \/ UNCHANGED allVars
  <2>1. Shared'
    BY <1>s, <1>1, ServiceShared
  <2>2. ASSUME Alone PROVE Single'
    BY <1>s, <1>1, <2>2, ServiceSingle
  <2> QED BY <2>1, <2>2 DEF MigrationInv, Shared, Single, Alone
<1>2. ASSUME NEW m \in Migrations, Migrate(m) \/ \E dryRun \in BOOLEAN : Begin(m, dryRun)
      PROVE  MigrationInv'
  <2>1. ScriptEffect(m)
    BY <1>s, <1>2, RunStep DEF Shared
  <2>2. Shared'
    BY <1>s, <2>1, ScriptShared
  <2>3. ASSUME Alone PROVE Single'
    BY <1>s, <2>1, <2>3, ScriptSingle
  <2> QED BY <2>2, <2>3 DEF MigrationInv, Shared, Single, Alone
<1> QED BY <1>1, <1>2 DEF MigrationNext

LEMMA MigrationStart == MigrationInit => MigrationInv
<1> SUFFICES ASSUME MigrationInit PROVE MigrationInv
  OBVIOUS
<1>1. PICK g \in Grants, expiring \in BOOLEAN :
        /\ row = [account |-> "whitelisted", access |-> g,
                  refresh |-> IF expiring THEN g ELSE None, form |-> "plaintext",
                  expires |-> IF expiring THEN AccessLifetime ELSE None]
        /\ issued = {g}
        /\ live = IF expiring THEN {g} ELSE {}
        /\ grantExpiry = [h \in Grants |-> IF expiring /\ h = g THEN AccessLifetime ELSE None]
  BY DEF MigrationInit
<1>2. g # None /\ AccessLifetime \in Nat
  BY NoneAssumption, TimeAssumption
<1>3. /\ row.access = g /\ row.refresh \in {g, None} /\ row.form = "plaintext"
      /\ row.refresh # None => row.refresh \in live
      /\ live \subseteq issued /\ issued = {g}
  BY <1>1
<1>4. row \in User /\ grantExpiry \in [Grants -> Time]
  BY <1>1, <1>2 DEF User, Grant, Form, Time
<1>5. /\ now = 0 /\ stale = {} /\ degraded = {} /\ abandoned = {}
      /\ \A r \in Requests : req[r].pc = "idle" /\ Empty(req[r])
      /\ \A l \in Logins : login[l].pc = "idle" /\ login[l].grant = None
                           /\ login[l].refresh = None
  <2>1. "idle" \in Awaited \cup {"idle", "done"} /\ "none" \in Code /\ "none" \in Audit
        /\ 0 \in Nat
    BY DEF Code, Audit
  <2>2. Handler("idle", "none", "none", 0).pc = "idle"
        /\ Empty(Handler("idle", "none", "none", 0))
    BY <2>1, HandlerFields
  <2> QED BY <2>2 DEF MigrationInit, InitIdle, Empty
<1>6. /\ migration \in [Migrations -> Migration] /\ unlisted = {}
      /\ \A m \in Migrations :
            /\ migration[m].pc = "idle" /\ migration[m].verdict = "none"
            /\ migration[m].access = None /\ migration[m].refresh = None
  BY DEF MigrationInit, Script, Migration, Grant
<1>7. MigrationTypeOK
  <2>1. TypeOK
    BY <1>3, <1>4, <1>5, TypeInit DEF TypeOK, MigrationInit
  <2> QED BY <1>6, <2>1 DEF MigrationTypeOK
<1>8. SpanInv /\ DegradedInv
  BY <1>5 DEF SpanInv, DegradedInv, Active
<1>9. IssuedInv
  BY <1>3, <1>5 DEF IssuedInv, Empty, Refreshing
<1>10. CarriedIssued /\ FormInv /\ SuccessMeansEncrypted
  BY <1>2, <1>3, <1>6 DEF CarriedIssued, FormInv, SuccessMeansEncrypted
<1>11. UsableInv
  BY <1>3, <1>5 DEF UsableInv, UnseenInv, StoredRefreshTokenUsable, Refreshing, Empty
<1>12. PlainUnused /\ \A m \in Migrations : CarriedUnused(m)
  BY <1>3, <1>5, <1>6 DEF PlainUnused, CarriedUnused, Empty
<1>13. Sourced /\ HandoutInv /\ CarriedHeld
  BY <1>1, <1>2, <1>5, <1>6 DEF Sourced, HandoutInv, CarriedHeld, Refreshing, Active
<1> QED BY <1>7, <1>8, <1>9, <1>10, <1>11, <1>12, <1>13 DEF MigrationInv

\* Beside the service, its users and other runs: a run that reports success has left no
\* plain text, and a single run carries only a refresh token that nobody has used.
THEOREM MigrationInvariant == MigrationSpec => []MigrationInv
<1> QED BY MigrationStart, MigrationStep, PTL DEF MigrationSpec

\* When the script reports that all tokens are encrypted, they are, and stay so, whatever
\* fails, however many runs overlap and whatever the service stores meanwhile.
THEOREM SuccessIsTrue == MigrationSpec => []SuccessMeansEncrypted
<1>1. MigrationInv => SuccessMeansEncrypted
  BY DEF MigrationInv
<1> QED BY <1>1, MigrationInvariant, PTL

\* Beside the script too, what is served after a failed refresh had not expired when its
\* request began.
THEOREM FallbackStaysRecent == MigrationSpec => DegradedTokenRecent
<1>1. ASSUME MigrationInv, NEW r \in Requests, req[r].pc = "decrypt", r \in degraded,
             req[r].expires # None
      PROVE  now <= req[r].expires + RequestSpan
  <2>1. /\ now \in Nat /\ req[r].began \in Nat /\ RequestSpan \in Nat /\ req[r].expires \in Nat
    BY <1>1, TimeAssumption DEF MigrationInv, MigrationTypeOK, TypeOK, Request, Time
  <2>2. req[r].began <= req[r].expires
    BY <1>1 DEF MigrationInv, DegradedInv
  <2>3. now <= req[r].began + RequestSpan
    BY <1>1 DEF MigrationInv, SpanInv, Active
  <2> QED BY <2>1, <2>2, <2>3
<1>2. MigrationInv => [\A r \in Requests :
          /\ req[r].pc = "decrypt" /\ req'[r].verdict = "OK" /\ req'[r].pc = "done"
          /\ r \in degraded /\ req[r].expires # None
          => now <= req[r].expires + RequestSpan]_vars
  BY <1>1
<1> QED BY <1>2, MigrationInvariant, PTL DEF DegradedTokenRecent

\* A single run of the script at a time, however often it is repeated, interrupted or
\* unconfirmed, leaves a refresh token that works: it writes back only a plain-text token,
\* and no request has been able to use that one.
THEOREM MigratedTokenRefreshes ==
    ASSUME Alone
    PROVE  MigrationSpec => []StoredRefreshTokenUsable
<1>1. MigrationInv => StoredRefreshTokenUsable
  BY DEF MigrationInv, UsableInv
<1> QED BY <1>1, MigrationInvariant, PTL

\* A run that writes tokens back stores them, for the requests, as any other handler does;
\* only to a user that is still there, and never nothing.
THEOREM HandoutBesideMigration == MigrationSpec => ImplementsTokenHandout
<1>1. MigrationInit => PromiseBegins
  BY PromiseInit, MigrationStart DEF MigrationInit, MigrationInv, MigrationTypeOK, TypeOK
<1>2. ASSUME MigrationInv, [MigrationNext]_allVars, NEW q \in Requests PROVE Promised(q)
  <2>1. Shared
    BY <1>2, MigrationParts
  <2>2. CASE ServiceStep \/ UNCHANGED allVars
    BY <2>1, <2>2, ServiceIsNext, PromiseStep DEF Shared, MigrationTypeOK
  <2>3. ASSUME NEW m \in Migrations, Migrate(m) \/ \E dryRun \in BOOLEAN : Begin(m, dryRun)
        PROVE  Promised(q)
    <3>1. ScriptEffect(m) /\ MigrationTypeOK
      BY <2>1, <2>3, RunStep DEF Shared
    <3>2. req' = req
      BY <3>1 DEF ScriptEffect, Untouched
    <3>3. CASE row' = row
      <4>1. UNCHANGED Promise(q)!session
        BY <3>2, SameSession
      <4> QED BY <3>3, <4>1 DEF Promised, Promise!user
    <3>4. CASE row' = Encrypted(m) /\ migration[m].pc = "write" /\ m \notin unlisted
      <4>1. /\ row'.access = migration[m].access /\ row'.account = row.account
            /\ migration[m].access # None /\ row.account # "absent"
        BY <2>1, <3>1, <3>4, EncryptedFields DEF Shared, CarriedHeld
      <4>2. row'.access \in Grants
        BY <3>1, <4>1 DEF MigrationTypeOK, Migration, Grant
      <4> QED BY <3>2, <4>1, <4>2, OthersStore
    <3> QED BY <3>1, <3>3, <3>4 DEF ScriptEffect
  <2> QED BY <1>2, <2>2, <2>3 DEF MigrationNext
<1>3. MigrationInv /\ [MigrationNext]_allVars => PromiseKept
  BY <1>2 DEF PromiseKept, Promised
<1> QED BY <1>1, <1>3, MigrationInvariant, PTL DEF MigrationSpec, ImplementsTokenHandout

-----------------------------------------------------------------------------
(* Progress                                                                *)

\* A step of a run ends it, or goes to a later call.
LEMMA RunMoves ==
    ASSUME MigrationTypeOK, NEW m \in Migrations, Migrate(m)
    PROVE  /\ OnlyRun(m)
           /\ \/ migration'[m].pc = "idle" /\ Migrating(m)
              \/ migration[m].pc = "list" /\ migration'[m].pc = "tx"
              \/ migration[m].pc = "tx" /\ migration'[m].pc = "write"
<1>1. OnlyRun(m)
  BY RunStep DEF ScriptEffect
<1>2. migration[m].pc \in {"list", "tx", "write"}
  BY DEF Migrate, ListUsers, ReadTokens, WriteTokens, MigrationFault, WriteUnconfirmed
<1>3. ASSUME NEW failed \in BOOLEAN, Processed(m, failed) PROVE migration'[m].pc = "idle"
  BY <1>3, ProcessedStep DEF RunEnded
<1>4. ASSUME NEW verdict \in RunVerdict, Finish(m, verdict) PROVE migration'[m].pc = "idle"
  BY <1>4, FinishStep DEF RunEnded
<1>5. migration \in [Migrations -> Migration] /\ "failure" \in RunVerdict
  BY DEF MigrationTypeOK, RunVerdict
<1>6. CASE ListUsers(m)
  BY <1>1, <1>2, <1>3, <1>5, <1>6 DEF ListUsers, Migrating, Migration
<1>7. CASE ReadTokens(m)
  BY <1>1, <1>2, <1>3, <1>5, <1>7 DEF ReadTokens, Migrating, Migration
<1>8. CASE WriteTokens(m) \/ MigrationFault(m) \/ WriteUnconfirmed(m)
  <2>1. (\E failed \in BOOLEAN : Processed(m, failed)) \/ Finish(m, "failure")
    BY <1>8 DEF WriteTokens, MigrationFault, WriteUnconfirmed
  <2> QED BY <1>1, <1>2, <1>3, <1>4, <1>5, <2>1 DEF Migrating
<1> QED BY <1>6, <1>7, <1>8 DEF Migrate

LEMMA RunAdvances ==
    ASSUME MigrationTypeOK, [MigrationNext]_allVars, NEW m \in Migrations, Migrating(m),
           migration'[m] # migration[m]
    PROVE  /\ migration'[m].pc \in DOMAIN RunStepsLeft
           /\ RunStepsLeft[migration'[m].pc] < RunStepsLeft[migration[m].pc]
<1>1. migration' # migration
  OBVIOUS
<1>2. PICK n \in Migrations : Migrate(n) \/ \E dryRun \in BOOLEAN : Begin(n, dryRun)
  BY <1>1, ServiceIsNext DEF MigrationNext
<1>3. n = m
  BY <1>2, RunStep DEF ScriptEffect, OnlyRun
<1>4. Migrate(m)
  BY <1>2, <1>3 DEF Begin
<1>5. migration[m].pc \in {"list", "tx", "write"}
  BY DEF Migrating, MigrationTypeOK, Migration
<1> QED BY <1>4, <1>5, RunMoves DEF RunStepsLeft

\* A run of the script awaits at most three calls for a user, whatever fails and whatever
\* the service does meanwhile, and requests beside it await no more than before: all that
\* AllEnds asks of fairness is that each call settles.
THEOREM RunsGoForward == MigrationSpec => RunsAdvance /\ RequestsAdvance
<1> DEFINE RunForward(m) ==
      Migrating(m) /\ migration'[m] # migration[m]
      => /\ migration'[m].pc \in DOMAIN RunStepsLeft
         /\ RunStepsLeft[migration'[m].pc] < RunStepsLeft[migration[m].pc]
    RequestForward(r) ==
      Active(r) /\ req'[r] # req[r]
      => /\ req'[r].pc \in DOMAIN StepsLeft
         /\ StepsLeft[req'[r].pc] < StepsLeft[req[r].pc]
<1>1. MigrationInv /\ [MigrationNext]_allVars =>
         [\A m \in Migrations : RunForward(m)]_allVars
  BY RunAdvances DEF MigrationInv
<1>2. ASSUME MigrationInv, [MigrationNext]_allVars, NEW r \in Requests, Active(r),
             req'[r] # req[r]
      PROVE  RequestForward(r)
  <2>1. CASE ServiceStep \/ UNCHANGED allVars
    BY <1>2, <2>1, ServiceIsNext, RequestAdvances DEF MigrationInv, MigrationTypeOK
  <2>2. ASSUME NEW m \in Migrations, Migrate(m) \/ \E dryRun \in BOOLEAN : Begin(m, dryRun)
        PROVE  FALSE
    BY <1>2, <2>2, RunStep DEF MigrationInv, ScriptEffect, Untouched
  <2> QED BY <1>2, <2>1, <2>2 DEF MigrationNext
<1>3. MigrationInv /\ [MigrationNext]_allVars => [\A r \in Requests : RequestForward(r)]_vars
  BY <1>2
<1> QED BY <1>1, <1>3, MigrationInvariant, PTL DEF MigrationSpec, RunsAdvance, RequestsAdvance
=============================================================================
