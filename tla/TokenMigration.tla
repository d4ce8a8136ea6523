-------------------------- MODULE TokenMigration --------------------------
(***************************************************************************)
(* The upgrade of a user's tokens from plain text to their encrypted form: *)
(* runs of migrate-encrypt-tokens beside the requests, logins and          *)
(* administrator of GithubToken.  The script lists the users with tokens   *)
(* and then migrates each in a transaction of its own, which reads the     *)
(* row, encrypts what it read and writes it back; what happens to one user *)
(* is shown here, and that another one's migration may fail.               *)
(***************************************************************************)
EXTENDS GithubToken

CONSTANTS
    Migrations,   \* slots: runs of the script
    MigrationSpan \* longest time from the read to the write of its transaction

ASSUME MigrationAssumption == MigrationSpan \in Nat

VARIABLES
    migration,  \* the state of each run of the script
    unlisted    \* runs that hold the id of a row deleted meanwhile

migrationVars == <<migration, unlisted>>

allVars == <<vars, migrationVars>>

\* access and refresh are the plain tokens read in the transaction at time at; None where
\* there is nothing to encrypt.
Migration == [pc : {"idle", "list", "tx", "write"}, dryRun : BOOLEAN, access : Grant,
              refresh : Grant, at : Nat, verdict : {"none", "success", "preview", "failure"}]

MigrationTypeOK ==
    /\ TypeOK
    /\ migration \in [Migrations -> Migration]
    /\ unlisted \subseteq Migrations

-----------------------------------------------------------------------------
Migrating(m) == migration[m].pc # "idle"

Script(pc, dryRun, verdict) ==
    [pc |-> pc, dryRun |-> dryRun, access |-> None, refresh |-> None, at |-> 0,
     verdict |-> verdict]

\* The run ends with this verdict.
Finish(m, verdict) == migration' = [migration EXCEPT ![m] = Script("idle", FALSE, verdict)]

\* A variant of Processed that forgets the errors.
ProcessedMutant(m, failed) ==
    Finish(m, IF migration[m].dryRun THEN "preview" ELSE "success")

\* This user is done, and so are the others, maybe with errors: one error in the loop does
\* not stop it, but makes the exit code 1.  Without --dry-run and without an error the
\* script reports that all tokens are encrypted.
Processed(m, failed) ==
    \E errors \in {failed, Faults} :
        Finish(m, IF migration[m].dryRun THEN "preview"
                  ELSE IF failed \/ errors THEN "failure" ELSE "success")

Begin(m, dryRun) ==
    /\ ~Migrating(m)
    /\ migration' = [migration EXCEPT ![m] = Script("list", dryRun, "none")]
    /\ unlisted' = unlisted \ {m}
    /\ UNCHANGED vars

\* The users with tokens are listed; a user without is not processed.
ListUsers(m) ==
    /\ migration[m].pc = "list"
    /\ IF row.access = None /\ row.refresh = None
       THEN Processed(m, FALSE)
       ELSE migration' = [migration EXCEPT ![m].pc = "tx"]
    /\ UNCHANGED <<vars, unlisted>>

\* The row is read again in the transaction, the plain tokens are encrypted, and the result
\* is compared by decrypting it.  A row that is gone throws; encrypted tokens are skipped;
\* a dry run writes nothing.
ReadTokens(m) ==
    /\ migration[m].pc = "tx"
    /\ \/ /\ m \in unlisted
          /\ Processed(m, TRUE)
       \/ /\ m \notin unlisted
          /\ row.form = "encrypted" \/ row.access = None \/ migration[m].dryRun
          /\ Processed(m, FALSE)
       \/ /\ m \notin unlisted
          /\ row.form = "plaintext" /\ row.access # None /\ ~migration[m].dryRun
          /\ migration' = [migration EXCEPT ![m] = [@ EXCEPT
               !.pc = "write", !.access = row.access, !.refresh = row.refresh, !.at = now]]
    /\ UNCHANGED <<vars, unlisted>>

\* The columns of the tokens that were read; the others, the expiry among them, stay.
Encrypted(m) ==
    [row EXCEPT !.access = migration[m].access,
                !.refresh = IF migration[m].refresh = None THEN @ ELSE migration[m].refresh,
                !.form = "encrypted"]

WriteTokens(m) ==
    /\ migration[m].pc = "write"
    /\ IF m \in unlisted
       THEN Processed(m, TRUE) /\ UNCHANGED row
       ELSE Processed(m, FALSE) /\ row' = Encrypted(m)
    /\ UNCHANGED <<now, issued, live, grantExpiry, req, login, stale, degraded, abandoned,
                   unlisted>>

\* A variant of MigrationFault that tries the user again.
MigrationFaultMutant(m) ==
    /\ Faults
    /\ \/ migration[m].pc = "list" /\ Finish(m, "failure")
       \/ migration[m].pc \in {"tx", "write"} /\ migration' = [migration EXCEPT ![m].pc = "tx"]
    /\ UNCHANGED <<vars, unlisted>>

\* A call of the database or an encryption throws: an error of the listing ends the script,
\* one of a user is counted.
MigrationFault(m) ==
    /\ Faults
    /\ \/ migration[m].pc = "list" /\ Finish(m, "failure")
       \/ migration[m].pc \in {"tx", "write"} /\ Processed(m, TRUE)
    /\ UNCHANGED <<vars, unlisted>>

\* The commit takes effect but its confirmation is lost, or the script is killed after it.
WriteUnconfirmed(m) ==
    /\ Faults
    /\ migration[m].pc = "write" /\ m \notin unlisted
    /\ row' = Encrypted(m)
    /\ Finish(m, "failure")
    /\ UNCHANGED <<now, issued, live, grantExpiry, req, login, stale, degraded, abandoned,
                   unlisted>>

Migrate(m) ==
    ListUsers(m) \/ ReadTokens(m) \/ WriteTokens(m) \/ MigrationFault(m) \/ WriteUnconfirmed(m)

-----------------------------------------------------------------------------
\* Tokens that GitHub issued and version 1.1 stored, with or without a refresh token.
MigrationInit ==
    /\ InitIdle
    /\ \E g \in Grants, expiring \in BOOLEAN :
         /\ row = [account |-> "whitelisted", access |-> g,
                   refresh |-> IF expiring THEN g ELSE None, form |-> "plaintext",
                   expires |-> IF expiring THEN AccessLifetime ELSE None]
         /\ issued = {g}
         /\ live = IF expiring THEN {g} ELSE {}
         /\ grantExpiry = [h \in Grants |-> IF expiring /\ h = g THEN AccessLifetime ELSE None]
    /\ migration = [m \in Migrations |-> Script("idle", FALSE, "none")]
    /\ unlisted = {}

\* A step of the service, of a user or of the administrator; deleting the row makes the
\* scripts' ids stale.
ServiceStep ==
    \/ /\ \/ \E r \in Requests : Arrive(r) \/ Serve(r)
          \/ \E l \in Logins : LogIn(l)
          \/ /\ \A m \in Migrations :
                  migration[m].pc = "write" => now < migration[m].at + MigrationSpan
             /\ Tick
       /\ UNCHANGED migrationVars
    \/ \E account \in AdminSettings :
         /\ AdminSetsAccount(account)
         /\ unlisted' = IF account = "absent"
                        THEN unlisted \cup {m \in Migrations : migration[m].pc \in {"tx", "write"}}
                        ELSE unlisted
         /\ UNCHANGED migration

MigrationNext ==
    \/ ServiceStep
    \/ \E m \in Migrations : Migrate(m) \/ \E dryRun \in BOOLEAN : Begin(m, dryRun)

MigrationSpec == MigrationInit /\ [][MigrationNext]_allVars

\* Database calls settle, and GitHub answers: axios waits for it without a time limit.
FairMigrationSpec ==
    /\ MigrationSpec
    /\ \A r \in Requests : WF_allVars(Serve(r) /\ UNCHANGED migrationVars)
    /\ \A m \in Migrations : WF_allVars(Migrate(m))

-----------------------------------------------------------------------------
(* Properties                                                              *)

\* When the script reports that all tokens are encrypted, they are, and stay so: no error,
\* lost confirmation, deleted user or preview passes for success.
SuccessMeansEncrypted ==
    \A m \in Migrations : migration[m].verdict = "success" => row.form = "encrypted"

\* The inductive invariant of the service beside the script.

\* Where there is no token, nothing is plain text.
FormInv == row.access = None => row.form = "encrypted"

\* A run carries tokens that GitHub has issued.
CarriedIssued ==
    \A m \in Migrations :
        {migration[m].access, migration[m].refresh} \subseteq issued \cup {None}

\* A user who is gone has no token; a run that is about to write has read one, and unless
\* its row was deleted meanwhile, the user is there.
CarriedHeld ==
    /\ row.account = "absent" => row.access = None
    /\ \A m \in Migrations : migration[m].pc = "write" =>
          /\ migration[m].access # None
          /\ m \notin unlisted => row.account # "absent"

\* A refresh token stored as plain text cannot be used by a request, so it still works.
PlainUnused ==
    row.form = "plaintext" /\ row.refresh # None =>
        row.refresh \in live /\ \A r \in Requests : req[r].held # row.refresh

\* Nor can the one that a run is about to write: it is on no other way into the row, and
\* the row does not hold it in encrypted form.
CarriedUnused(m) ==
    migration[m].pc = "write" /\ migration[m].refresh # None =>
        /\ migration[m].refresh \in live
        /\ row.refresh = migration[m].refresh => row.form = "plaintext"
        /\ \A r \in Requests : /\ req[r].held # migration[m].refresh
                               /\ Refreshing(r) => req[r].newRefresh # migration[m].refresh
        /\ \A l \in Logins : login[l].refresh # migration[m].refresh

\* No two runs overlap, and GitHub either always replaces refresh tokens or never.
Alone == (\A m, n \in Migrations : m = n) /\ Rotations # BOOLEAN

MigrationInv ==
    /\ MigrationTypeOK /\ SpanInv /\ DegradedInv /\ IssuedInv /\ CarriedIssued
    /\ FormInv /\ SuccessMeansEncrypted /\ Sourced /\ HandoutInv /\ CarriedHeld
    /\ Alone => UsableInv /\ PlainUnused /\ \A m \in Migrations : CarriedUnused(m)

\* Every run of the script ends, and every request beside it is answered.
AllEnds ==
    /\ \A m \in Migrations : Migrating(m) ~> ~Migrating(m)
    /\ \A r \in Requests : Active(r) ~> ~Active(r)

\* The calls that a run may still await for this user.
RunStepsLeft == [idle |-> 0, write |-> 1, tx |-> 2, list |-> 3]

\* Every step of a run brings its end nearer: a user whose migration fails is not tried
\* again.
RunsAdvance ==
    [][\A m \in Migrations :
          Migrating(m) /\ migration'[m] # migration[m]
          => /\ migration'[m].pc \in DOMAIN RunStepsLeft
             /\ RunStepsLeft[migration'[m].pc] < RunStepsLeft[migration[m].pc]]_allVars

\* migrate-encrypt-tokens.ts: the row is fetched in the transaction to have the latest data.
\* The migration stores the tokens that are stored, in another form.
MigrationKeepsTokens ==
    [][\A m \in Migrations :
          WriteTokens(m) => row'.access = row.access /\ row'.refresh = row.refresh]_allVars
=============================================================================
