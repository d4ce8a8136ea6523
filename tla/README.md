# Formal models of af-auth

af-auth signs users in through GitHub, issues JWTs, revokes them, and hands the users'
GitHub tokens to registered services. This directory holds TLA+ models of the parts whose
correctness depends on the order of concurrent steps, the TLC configurations that check
them, and TLAPS proofs of what they check, for every value of the constants.

    tlc -workers 2 -config TokenService.cfg MCTokenService    # one run
    tlapm TokenServiceProofs.tla                              # one proof module

`PROJECT.json` lists the runs, maps every definition to the source lines it stands for,
and names for every property a variant of the code that breaks it. The variants are the
`...Mutant` operators of the modules (and `UnhandledFault`); no action uses them.

## 1. The system

A Node process (`src/server.ts`) per instance, several instances behind a load balancer,
one PostgreSQL database (through Prisma), one Redis, and GitHub. Within an instance
handlers interleave only at their `await`s; between instances everything interleaves at
the level of single database statements and Redis commands.

| Component | State | Operations | Correct when |
|---|---|---|---|
| JWT service, token routes, middlewares (`services/jwt.ts`, `routes/jwt.ts`, `middleware/jwt-auth.ts`) | none of its own; reads `users`, `revoked_tokens` | sign, verify, refresh, `GET/POST /api/token`, the two middlewares, JWKS | a revoked JWT is refused for good; JWTs are signed and accepted only for whitelisted users (`GET /api/token` signs them for others too, section 5) |
| Token revocation (`services/token-revocation.ts`) | `revoked_tokens`, `users.is_whitelisted` | revoke, revoke all of a user, look up, clean up | a revocation reported as done is never undone while the JWT could still verify |
| OAuth state (`services/github-oauth.ts`, `routes/auth.ts`) | Redis `oauth:state:*` | generate, validate | a state is redeemed at most once and only within its time |
| GitHub tokens (`routes/github-token.ts`, `routes/auth.ts`, `services/github-oauth.ts`) | token columns of `users`, `service_audit_logs` | login upsert, retrieve with refresh, audit | the stored refresh token works; no expired token is served; every request is answered |
| Service registry and its CLI (`services/service-registry.ts`, `scripts/manage-services.ts`) | `service_registry` | authenticate; add, rotate, deactivate, activate, delete | a replaced key, an inactive or a deleted service does not authenticate; the operators hold the keys that work |
| Redis client (`services/redis-client.ts`) | the client object and its retries | get, execute with error handling, disconnect | every command is answered or fails; recovers from an outage of Redis |
| Rate limiting (`middleware/rate-limit.ts`) | counters in memory or Redis | one limiter per route group | a limit holds, over all instances when Redis is used; refusals end |
| Key rotation tracking (`services/key-rotation.ts`, `scripts/check-key-rotation.ts`) | `jwt_key_rotation` | ensure, record, status, overdue check | a check that complains of nothing has missed nothing in its sight; a recorded rotation is not lost; the initialisation leaves no key out and overwrites nothing |
| Server and database connection (`server.ts`, `db/index.ts`) | connected flag, listening socket, shutdown timers | start with backoff, shutdown on signals and faults | the start and a stop come to an end; requests find the database connected; exit code 0 means a graceful stop |
| Health and readiness (`services/health-check.ts`) | the cached GitHub App check | health, readiness | a positive answer reflects a state of the time of the check; every probe is answered |
| Encryption and its migration (`utils/encryption.ts`, `scripts/migrate-encrypt-tokens.ts`) | token columns | encrypt, decrypt, migrate | success means that all tokens are encrypted; the migration loses no token |
| Configuration, validation, metrics, logging, headers, pages, infrastructure | read-only or write-only | | |

How they interact: the callback route validates the OAuth state in Redis, exchanges the
code at GitHub, upserts the user and lets the JWT service sign. The middlewares and
`refreshJWT` read `revoked_tokens`, then `users`. `POST /api/github-token` authenticates
the service against `service_registry`, reads the user, writes the audit row, and may
refresh the token at GitHub inside a database transaction. The CLI, the cleanup and the
administrator's SQL work on the same tables from other processes, and so do the migration of
the tokens and the rotation checker. A process looks at the rotation record once, when it
signs its first JWT.

What is hard, and hard to test: checks whose result is used after another `await`; look
up, then create, against a unique index; writes that commit while their confirmation is
lost; a refresh token that works only once, sent by two requests; a Redis pipeline that is
no transaction; clocks and time limits that start at different moments; and an operator's
command or a script that stops between its write and its output. `PROJECT.json` lists each hazard at
its line with the properties that cover it.

## 2. The modules

### RevocableTokens and TokenService

`TokenService` models issuing, checking, refreshing and revoking JWTs, cleanup and status.
A request slot `req[r]` holds the variables of one handler. Its `pc` names the database
call the handler awaits: `revocation` (`isTokenRevoked`), `whitelist` (the user row read by
`verifyJWTMiddleware` and `refreshJWT`), `existence` (the row read by `generateJWT`),
`lookup` and `create` (`revokeToken`), `upsert` (the callback), `delist`
(`revokeAllUserTokens`), `status`. At `accept` and `sign` the last read is in hand and the
handler is about to resume. `users` and `revokedTokens` are the tables, `jwts` all JWTs
ever signed, `now` the clock. `DatabaseFault` is a call that throws;
`CreateRevocationUnconfirmed` an insert that commits although it throws. `acked`, `late`
and `listed` are history variables: revocations reported as done, requests that began
after the revocation of their JWT was reported, requests whose user was whitelisted at some
moment of the request.

Assumption `TimeAssumption`: `ClockTolerance + RequestSpan <= Retention`. `verifyJWT`
accepts a JWT for the clock tolerance past its expiry, and a handler that verified it reads
`revoked_tokens` up to `RequestSpan` later, so the cleanup has to keep rows that long. With
the defaults (60 s of tolerance, 7 days of retention) any request of less than almost seven
days satisfies it. The code itself enforces no `RequestSpan`, and neither of the two settings
is checked against the other: `JWT_CLOCK_TOLERANCE_SECONDS` has no upper limit, and the
cleanup script takes any retention of a day or more.

Liveness is stated in two parts that can be checked together with the rest. `NeverStuck`: a
request under way always has a step to take. `RequestsAdvance`: every step of a request lowers
a rank (`StepsLeft`), so no error, lost race or change of the user sends a handler back. Once
its database calls settle, a request is thus answered after at most four steps. For this the
bound of the jtis must not stop a handler in its middle: `RoomForToken` admits a request that
may sign (`Minting`) only while an unused jti is left for each of them.

`RevocableTokens` is the abstract specification: the table of JWTs with the revoked and the
expired ones, and requests that ask, see facts (`valid`, `listed`, `exists`), and end.
A request may be let through or given a JWT only if it has seen each fact that its operation
needs (`Needs`) hold at some moment of its own; anything may be refused. What it needs is what
the documentation promises (`Promised`): a JWT, on whatever way, only for a whitelisted user.
The code does not meet this on one way, `GET /api/token` (`ListedUsersOnly`, section 5), so
`TokenService` claims the promise with the whitelist waived for that operation, `Waived <-
Operations \cap {"issue"}`, and for no other. Where clients cannot ask for it the promise is
claimed in full.

A revocation takes effect in one step, a JWT expires for good only when no open request still
has to ask whether it is revoked, and a revocation is forgotten only after that. The refinement
maps `revoked` to the rows of `revoked_tokens`, `expired` to the JWTs past their retention,
`asked` to the operation and the JWT or user of the request, and `seen` to what the `pc` of the
handler says it has read.

### OneTimeState and OAuthState

`OneTimeState` is the abstract specification: an issued state is redeemed at most once, at
most `Ttl` after its issue, or lost. `OAuthState` is the code: `generateState` (timestamp,
then SETEX, then the page), and `validateState`, whose pipeline GET + DEL is two Redis
commands with other clients' commands in between. `Accepted` is the test of
`validateState`: a value was there, this DEL removed it, it is not too old. ioredis sends a
pipeline again, up to `MaxRetriesPerRequest` times, when the connection breaks without a
reply (`LoseReplies`), and Redis may lose entries (`LoseEntries`). The refinement maps
`outstanding` to the states being stored, in Redis, or taken out by a callback that has not
handled the replies yet, and `redeemed` to those with a validated callback.

### TokenHandout and GithubToken

One user's row (`row`), requests of `POST /api/github-token` after the service is
authenticated, logins, the administrator, and GitHub (external): `live` are the refresh
tokens that work, `grantExpiry` the true expiries. `pc` names the awaited call: `user`,
`audit`, then in the transaction `tx`, `github`, `response`, `write`, at last `decrypt`.
The transaction runs at the default isolation (read committed) and its read takes no lock,
so its write takes effect in one step. `RefreshFailed` is the catch around the transaction,
which decides on the values read before it. `stale` are requests whose row was deleted after they had
read it (updates by id then throw); `degraded` and `abandoned` are history variables:
requests whose refresh failed, and refresh tokens spent by a refresh that was not stored.
Stored tokens have a `form`: version 1.1 stored them as plain text, which does not decrypt.
A refresh of a plain token fails in its transaction, and sending one ends in an error.

Assumption `2 * RequestSpan <= Threshold`: the recorded expiry counts from the arrival of
GitHub's response (in the login, from the arrival of the profile), so it is up to one
request later than the true one, and the token is served up to one request after the
comparison. The default threshold is one hour. Assumption `RequestSpan < AccessLifetime`: a
grant outlives the request that obtains it (GitHub's last eight hours).

`TokenHandout` is the abstract specification of one request: it opens, judges the account and
the stored token together, tries to record the judgement, and ends. It hands out a token only after it
was granted and the record was tried; the token is the one stored when it judged, one stored
since (`Retake`), or one it stored itself (`Replace`), which needs a row that is still there.
Everything else is environment: other requests, logins and the administrator may change account and
token at any moment. `Promise(r)` is this specification for request `r`, with `stage`, `offer`
and `answer` read off its handler; `ImplementsTokenHandout` says that every request is one.

### TokenMigration

`TokenMigration` extends `GithubToken` with runs of `migrate-encrypt-tokens`: `list`, then, for
the one user, `tx` (the read in the transaction) and `write` (the update and the commit). It
starts from a row that version 1.1 stored. `Processed` stands for the rest of the loop and
the summary: other users may have failed, which sets the exit code but stops nothing. `unlisted` are runs
whose user was deleted after the listing. For the requests beside it a run is one more handler
that stores a token: `ImplementsTokenHandout` holds here too. The other columns of the row stay as they are,
the expiry among them: that is what makes `MigrationKeepsTokens` fail. A run may be killed
after its commit (`WriteUnconfirmed`) or before (`MigrationFault`), and run again.

### KeyRotation

`KeyRotation` models the table `jwt_key_rotation` and everything that reads or writes it:
`recordKeyRotation` (`BeginRecording` takes the time, `Upsert` writes), the checks, and
operators who set `is_active`. A check is a run of `check-key-rotation`, with or without
`--all`, or the look a process takes when it first loads its signing key; `pc` names the
call it awaits: `statuses`, then, if there is nothing to show, `find` and `create` for each key
in turn, and `services`. `Overdue` rounds down to whole days as the code does. `acked`,
`lateKeys` and `lateServices` are history variables: when the last recording reported as done
was begun, and what has been overdue, and in sight of a check, ever since it began. The
interval of all keys is one constant, since no property relates two keys' intervals.

### ServiceRegistry

`registry` maps an identifier to its row. A request reads the row (`find`), compares the
key with the hash it read (`compare`), updates `lastUsedAt` by the id it read (`use`) and
is authenticated, or rejected. A terminal runs one command of `manage-services` after
another: `check` (`getService`), `write` (hash or confirmation, then the write), `report`
(the write is done, the output is not). `FailCommand` ends a command anywhere, after its
write too. `printed`, `lost`, `replaced`, `retired`, `suspended`, `contested`, `barred` and
`valid` are history variables explained at their declaration. Requests write nothing that
commands or other requests read (`lastUsedAt` is left out), so one request slot shows every
interleaving of a request with the commands.

The stored bcrypt hash is represented by its key: `bcrypt.compare` holds exactly for the key the
hash was made from. A deactivation that overlaps an `add` or `activate` of the same service
(`contested`) may be followed by it, and is not counted as suspending the service.

### RedisClient, RateLimit and Server

`RedisClient` is the one ioredis connection of each instance. `status` is
`redisClient.status`; `Closed` is ioredis's close handler with the `retryStrategy` of
`redis-client.ts`, which ends the client after `MaxRetries` failed attempts. Commands sent
while the client is not ready fail at once (`enableOfflineQueue: false`); commands under way
when the connection breaks are sent again by the next one, unless a limit fails them first
(`Flushed`). Two modules extend it.

`RateLimit` puts one limiter on several instances. The modules load in one run of the event
loop, so `createRateLimiter` always finds the client it has just seen created still
connecting (`ChooseStore`); `Load` is a process that replaces another. The counters are
those of express-rate-limit: fixed windows that begin with the first request. `admitted` is
a history variable: how many requests a process has let through up to each moment, so that
the number in any stretch of time is a difference of two of its values.

`Server` is one process: `start()` with the attempts of `DatabaseClient.connect`, the
listening socket, connections, requests and probes, and any number of overlapping calls of
`shutdown()`. Node keeps HTTP connections alive and `server.ts` does nothing against it, so a
connection (`conn`) takes one request after another, also after `server.close`, which only stops
the socket from taking new ones. It ends by itself while no request is under way on it (`HangUp`:
the client, the keep-alive time limit, or from Node 19 on `server.close`), or with an answer.
One connection is the prober's: on it `/health` and `/ready` are asked.
A call waits for the server's `'close'` event, with an error ahead of it if the server was
not listening (`late`: a signal during the start, or a second signal), then for
`$disconnect`; `ForceExit` is its timer. The model has no clock, so the timer may fire at any
time after it was set, and nothing is claimed about which of the two exits wins. A probe
sends `SELECT 1` and the ping side by side; `down` is a history variable: what has been
out of reach ever since the probe began.

`Lifecycle` is the abstract specification of `Server`: starting, serving, draining, gone.
Connections are taken only while serving, requests only on these, also while draining; a process
that drains never serves again; and a clean stop is reported only by one that has served, once
its last connection has ended. `Phase` maps the exit code and the listening socket to it,
`Opened` and `Busy` the connections.

## 3. The runs

| Run | Question | Bounds |
|---|---|---|
| `TokenService` | overlapping requests in every order with database errors, administrator edits, removals from the whitelist, logins and the cleanup job, through expiry and retention: the inductive invariant, `AckedNeverAccepted`, `ListedDuringRequest`, `StatusAgreesWithRevocation`, `CleanupKeepsNeededRows`, `NeverStuck`, `RequestsAdvance`, refinement of `RevocableTokens` | 1 user, 2 jtis, 2 requests, clock 0..3, `ClockTolerance + RequestSpan = Retention` exactly |
| `OAuthState` | the inductive invariant, `ValidatedOnce`, `SomeoneWins`, `CallbackAnswered`, refinement of `OneTimeState` | 1 state, 3 callbacks, 1 retry, clock up to twice the `Ttl` |
| `GithubToken` | the inductive invariant (with `StoredRefreshTokenUsable` in it), `ServedTokenUnexpired`, refinement of `TokenHandout`, with failing calls | 2 requests, 1 login, 3 grants, `2 * RequestSpan = Threshold` exactly, clock up to the expiry of the first grant |
| `TokenMigration` | the inductive invariant, `SuccessMeansEncrypted`, `StoredRefreshTokenUsable`, `DegradedTokenRecent`, `AllEnds` while the script runs beside the service | 1 run at a time, 1 request, 1 login, 3 grants, a token that expires after 1 of 2 instants |
| `KeyRotation` | the inductive invariant (with `InitializedAll` in it), `NothingMissed`, `AckedRotationKept` | 2 keys, 1 service, 2 checks, 2 overlapping recordings of one of the keys, the one that may be retired, a day of 1 instant, clock past the first due date |
| `ServiceRegistry` | the inductive invariant, `BarredNeverAuthenticated`, `AuthenticatedWhileValid`, `PrintedKeyStored`, `StoredKeyKnown` | 1 identifier, 2 ids, 3 keys, 1 request, 2 operators |
| `RateLimit` | the inductive invariant, `ProcessBound`, `RefusedOnlyAtLimit` while Redis comes and goes and instances are replaced | 2 instances, 1 client, limit 2, windows of 2 in 5 instants |
| `Server` | the inductive invariant, `CleanExit`, `ServedConnected`, `AnswerTruthful`, `StartSettles`, `SignalStops`, `ProbeAnswered`, refinement of `Lifecycle` | 2 shutdown calls, 2 connections at a time (a client's, the prober's), any number of requests and probes on them, 2 database attempts, 1 reconnection of Redis |
| `ListedUsersOnly`, `MigrationKeepsTokens`, `ClientReconnects`, `SharedBound` | statements of the documentation and of comments that the code does not meet (section 5) | the smallest that show it |

Why the bounds are enough. The requests of one user do not touch another user's rows, the
states of different logins are different Redis keys, and a jti belongs to one JWT: one
user, one state and one or two jtis cover an interaction, and the proofs remove the bound
where it matters. The middleware without whitelist check (`protectNoList`) is left out of the
run of `TokenService`, where it would double the requests: it passes a subset of the other
one's steps, and the proofs cover it. A request that comes in after two concurrent
refreshes reuses a slot. The clock of `GithubToken` ends at the expiry of the first grant, so the
branch for a recorded expiry that has passed is taken only in the run of `TokenMigration`. Elsewhere the clock runs past the last moment at which any comparison can
change; in `KeyRotation` a day is one instant, and `NothingMissed` is proved for any day.
Two keys are one that an initialisation has passed and one still to come. Recordings are of the
second one only (`Recordable`): `AckedRotationKept` relates the recordings of one key, and two of
them reach its bound (it is violated for anything less than `RecordSpan`). Three grants are a
login and two refreshes, the number that two refreshes of one token and the next stored one
need; three keys are an `add` and two rotations. A second call of `shutdown` is the one that
meets a server already closing; further ones are like it. Five instants hold two windows and the
border between them. A connection that ends may be opened again, so two stand for one client
after another. Slots are reused, so the number of requests in a behaviour is limited only by the
supply of jtis, grants or keys. The guards that enforce a supply are `RoomForToken`,
`RoomForGrant`, `RoomForCommand` and, for the hits of one window, `MaxHits`. `MaxTime` ends the
clock, after which the other actions go on; runs set `CHECK_DEADLOCK FALSE` because a system whose
supply and clock are used up may stop.

Symmetry is used only in runs without liveness properties, over sets whose members the
specifications treat alike.

Fairness. `FairSpec` and `FairMigrationSpec` ask weak fairness of the service's and the
script's own steps only: an awaited call settles, with a result or an error, and the event
loop resumes its handler. Prisma and ioredis settle calls on their own limits. axios is used
without a time limit (`github-oauth.ts`), so `AllEnds` rests on the further assumption that
GitHub answers. In `Server` Redis connections get strong fairness of the reply: a Redis that is
reachable again and again answers in the end. Handlers, `'close'` and `$disconnect` get
none, so `SignalStops` rests on the timer alone, as it does in the code. Clients, operators,
the administrator, faults and the clock are never required to act.

## 4. The proofs

`TokenServiceProofs`, for all values of the constants that satisfy the assumptions:

- `ServiceInvariant`: `IndInv`, and `TypeCorrect`, its part on types and on the agreement of
  a request's fields with its `pc`;
- `RevocationIsFinal`: `Spec => []AckedNeverAccepted`. The property alone is not inductive:
  it needs that an acknowledged row is in the table until the retention has passed
  (`AckedDurable`), that a request which still has to read it holds a JWT that verified at
  most `RequestSpan` ago (`VerifiedRecently`), and that a late request has not got past that
  read (`Stopped`). With `ClockTolerance + RequestSpan <= Retention` the read then finds
  the row (lemma `LateFindsRow`);
- `CleanupIsSafe` and `StatusIsTrue`: `CleanupKeepsNeededRows` and `StatusAgreesWithRevocation`,
  from the same invariant;
- `WhitelistIsChecked`: `ListedDuringRequest`, from the invariant `Listed`;
- `RequestsGoForward`: `RequestsAdvance`, from the types: each step either answers or goes to
  a call of a lower rank (lemma `ServeMoves`), and no step touches another request
  (`OneSlot`);
- `HandlersReady`: what `NeverStuck` means, without `ENABLED`: a handler under way awaits a
  database call, which settles, or has what it needs to go on. Its inductive part is `JtisLeft`: there
  are at least as many unused jtis as requests that may sign. It counts sets, hence
  `FiniteAssumption`;
- `ServiceKeepsPromise`: `TokenService` implements `RevocableTokens`. Every read that succeeds maps to
  `See`, every answer to its counterpart, the cleanup to `Forget`, the clock to `Expire` or to
  nothing. The step that needs the invariant is the last one: a JWT may be past its retention
  only if no request still has to look up its revocation (`VerifiedRecently`). Requests ask only
  for `Operations`, so without `GET /api/token` the theorem gives the promise without waiver.

`OAuthStateProofs`, for any number of states, callbacks and retries and any time limit:

- `StateProtocolInvariant`: `IndInv`. The core of `ProtocolInv` is that a callback which took an
  entry leaves none in Redis, and that no other callback holds it (`CallbackInv`, `TakenOnce`);
- `OneCallbackPerState`: `ValidatedOnce`;
- `OneOfThemWins`: `SomeoneWins`, from the other half of the invariant, `WinnerInv`: a stored
  state that is undisturbed and within its time is in Redis, for longer than
  `validateState` would accept it, and all callbacks that have read it have seen it; or one of
  them has taken it. The first DEL of an entry that still lives therefore belongs to a
  callback whose GET was answered;
- `StateProtocolRefines`: `OAuthState` implements `OneTimeState`. Only `Resume` of an accepted
  callback maps to `Redeem`, SETEX's preparation to `Issue`, the clock to `Advance`; everything else
  loses outstanding states or stutters;
- `CallbacksGoForward`: every step of a callback lowers the number of commands, replies and
  retries that it may still wait for (`CallbacksAdvance`).

`ServerProofs`, for any number of connections, of calls of `shutdown` and of attempts:

- `ServerInvariant`: `IndInv`, types included. `CleanExit` needs `LifeInv`: a call without
  an error has closed the socket before, and one that waits for `$disconnect` has seen the
  last connection end, so that a second call, a start under way or a request on a connection
  that was kept alive cannot put anything between `'close'` and the exit (`DrainedStays`). `AnswerTruthful` needs `ProbeInv`: a check
  with a positive result, or a ping with an answer, has seen its component in reach since
  the probe began;
- `CleanExitIsGraceful`, `ServingIsConnected`, `ProbesAreTruthful`: `CleanExit`,
  `ServedConnected`, `AnswerTruthful`;
- `ServerRefines`: `Server` implements `Lifecycle`, step by step: `Listen` maps to `Serve`, the
  closing of the socket to `Drain`, an exit with 0 to `Stop`, and any other to `Fail`
  (`StartRefines`, `StopRefines`); what happens on a connection maps to its counterpart
  (`TalkRefines`). `Take` needs from `LifeInv` that a process with an open connection has listened,
  `Stop` that a call about to exit with 0 has seen the last one end.

`KeyRotationProofs`, for any number of keys, services, checks and recordings, any intervals
and any length of a day:

- `RotationInvariant`: `IndInv`. Its parts are that an initialisation has passed only keys
  that have a row (`InitializedAll` follows), that a check which has found the keys fine has
  dropped every key from `lateKeys`, and that a recording is at most `RecordSpan` old;
- `AllInitialized`, `RotationKept`: `InitializedAll`, `AckedRotationKept`;
- `NothingIsMissed`: `NothingMissed`. The step that matters is `FindsLate`: what is past its
  due date is overdue also after the rounding (`OverdueExact`), so the read of the statuses
  finds whatever was late until then;
- `HistoryIsPreserved`: `HistoryPreserved`; only an insert into a free place is left to a check.

`ServiceRegistryProofs`, for any number of services, keys, operators and requests:

- `RegistryInvariant`: `IndInv`. A key on its way into the table is nowhere else (`Fresh`), and
  one on its way to the operator is stored or was replaced (`CommandInv`); nothing that runs can
  activate a suspended service (`SuspendedInv`); a request past the comparison of its key has
  seen a valid row, or that row is gone (`ValidInv`), and a barred one cannot get there
  (`BarredInv`). Two parts had to be added to what the runs had shown: that only `add` and
  `rotate` carry keys, and that an uncontested deactivation about to be reported has left its
  service inactive;
- `BarredStaysOut`, `AuthenticatedWasValid`, `PrintedKeysWork`, `StoredKeysKnown`: the four
  properties of the run, each a part of the invariant or one step from it.

`GithubTokenProofs`, for any number of requests, logins and grants:

- `TokenInvariant`: `IndInv`;
- `TokensHandedOut`: every request implements `TokenHandout`. `HandoutInv` ties the verdict, the
  audit row and the token of a request to its place, and says that the row whose id it holds
  exists unless it was deleted meanwhile (`stale`); `Sourced`, that whoever is about to store a
  token has one. The step of a request is a step of its promise (lemma `ServePromise`), that of
  anybody else one of its environment (`OthersStore`, `PromiseStep`);
- `RequestsGoForward`: `RequestsAdvance`, by a rank as in `TokenService`: a lost race for the
  refresh token or a deleted row sends no request back to an earlier call;
- `ServedTokensWork`: `ServedTokenUnexpired`, by arithmetic over three handlers. `SoundInv`: a
  recorded expiry is at most `RequestSpan` after the true one, because the handler that computed
  it began before the grant was issued (`NewGrant`). A request that finds the expiry more than
  `Threshold >= 2 * RequestSpan` away therefore has a token that outlives it (lemma
  `NotSoon`), and a fresh grant does by `LifetimeAssumption`;
- `FallbackIsRecent`: `DegradedTokenRecent`, from `DegradedInv`: `RefreshFailed` lets a request
  go on only with a token whose recorded expiry has not passed, hence not before it began;
- `StoredTokenRefreshes`: `StoredRefreshTokenUsable`. The core is `UnseenInv`: a refresh token
  that a login or a refresh is about to store works, no request holds it, the row does not have
  it, and no other handler is about to store it. So the write that puts it into the row
  puts a working token there, and a token leaves `live` only by a request that holds it and
  brings its successor. The hypothesis `Rotations # BOOLEAN` says that GitHub either always
  replaces refresh tokens or never; if it did now one and now the other, the statement would be
  false (section 5).

`TokenMigrationProofs`, on top of `GithubTokenProofs`, for the whole service beside the script:

- `MigrationInvariant`: `MigrationInv`. Steps of the service are those of `GithubToken`
  (`ServiceIsNext`), so its lemmas on types, spans, failed refreshes, issued grants and
  refresh tokens are used as they are. What a run of the script does is one lemma
  (`RunStep`): it reads the row where it is plain text, or writes what it has read, or leaves
  the row alone. `SoundInv` is not part of it: version 1.1 stored tokens of any age, and the
  script combines old tokens with a new expiry;
- `SuccessIsTrue`: `SuccessMeansEncrypted`, for any number of overlapping runs. Nothing writes plain
  text (`RowStep`), and a row without tokens counts as encrypted (`FormInv`), so success is
  never undone;
- `FallbackStaysRecent`: `DegradedTokenRecent` also beside the script;
- `HandoutBesideMigration`: `ImplementsTokenHandout` also beside the script, and from a row in plain
  text. The lemmas of `TokensHandedOut` ask for `Sourced` and `HandoutInv` only, not for sound
  expiries, so they hold here; a run that writes back a token writes one to a user that is still
  there (`CarriedHeld`);
- `RunsGoForward`: every step of a run, and of a request beside it, brings its end nearer;
- `MigratedTokenRefreshes`: `StoredRefreshTokenUsable`, if there is one run at a time (`Alone`). A
  plain token cannot be decrypted, so no request has ever held it and GitHub still accepts it
  (`PlainUnused`), also while the run carries it to its write (`CarriedUnused`). With two
  runs it is false: both read the plain token, the first writes, a refresh replaces the
  token, and the second writes the old one back.

`RateLimitProofs`, for any number of instances and clients, any limit and any window:

- `LimiterInvariant`: `IndInv`. `StoreInv`: no instance ever counts in Redis. `WindowInv`: since
  the window of a counter began, the process has let through exactly what it counted, up to the
  limit; and at most the limit in a window's length before. `CountInv`: nothing lies after
  now or after the end of the last window;
- `TwiceTheLimit`: `ProcessBound`. A stretch of a window's length touches at most the present
  window and the length of one before it;
- `RefusalsEarned`: `RefusedOnlyAtLimit`: a refusal leaves the window where it is, and the window
  holds a full limit by `WindowInv`.

Only model-checked: the liveness properties (`CallbackAnswered`, `AllEnds`, `StartSettles`,
`SignalStops`, `ProbeAnswered`) and `NeverStuck`, since fairness and `ENABLED` are outside the
prover. Of these, what does not need fairness is proved: `RequestsGoForward`,
`CallbacksGoForward` and `RunsGoForward` bound the steps that a handler, a callback and a run
may still take, and `HandlersReady` says that a handler of `TokenService` can take one. Every
invariant and every action property of a passing run but `NeverStuck` is a theorem, and so
are all four refinements. `InitializedAll` and `HistoryPreserved` are theorems of
`KeyRotationProofs` without a place in the run: the first is a part of its inductive invariant.

## 5. Where documentation and code differ

1. `MigrationKeepsTokens`: the migration overwrites the tokens that a login or a refresh
   stored between the read and the write of its transaction, although it reads the row there
   "to ensure we have the latest data". After a login the user is left with the old access
   token under the new expiry; after a refresh also the refresh token may be a dead one.
2. `ClientReconnects`: the Redis client gives up for good after `REDIS_MAX_RETRIES` failed
   attempts, about six seconds with the defaults, and `getRedisClient` keeps returning the
   ended client; `docs/operations.md` promises automatic reconnection. `/ready` then answers 503 until
   someone restarts the instance, while `/live` stays positive.
3. `SharedBound`: the limits are enforced per instance, whatever the state of Redis;
   `docs/security.md` says consistently across all instances.
4. `TokensOnlyForListed` (run `ListedUsersOnly`): `GET /api/token` signs a JWT for every account
   that exists; `docs/jwt.md` offers it to whitelisted users, and the route's own comment to
   authenticated ones. It is the only way to a JWT that is not for whitelisted users:
   `ListedDuringRequest` holds for the login and the refresh, and `ImplementsRevocableTokens`
   waives the whitelist for nothing else.

Smaller observations, visible in the models but without a run:

- `verifyJWTWithoutWhitelistCheck` accepts the JWT of a user whose whitelist access was
  removed, although the comment on `revokeAllUserTokens` says that this access is checked on
  every request. No route mounts it, and none mounts `verifyJWTMiddleware` either.
- For an unknown GitHub id the audit row carries `github:<id>` in a UUID column; the insert
  always fails and nothing is recorded, although `docs/service-registry.md` says that all
  attempts are.
- Until the migration has run, a user with plain tokens gets `INTERNAL_ERROR`, and the tokens
  cannot be refreshed.
- Two runs of the migration at once may store a dead refresh token: the second one's read is
  old when it writes. `StoredRefreshTokenUsable` is checked for one run at a time.
- The rotation checker begins its record only while the table shows nothing (`ReadStatuses`).
  After one `recordKeyRotation`, or an initialisation that stopped half-way, the other keys are
  never tracked, and the script exits with 0; `docs/security.md` says that it inspects all keys.
- A service whose key was never rotated has no due date, so the checker never counts it as
  overdue.
- The check of a process runs at its first signature, which may be long after its start, and
  is lost if the database fails just then.
- `lastRotatedAt` may go back: a recording that began earlier and writes later wins. How far is
  bounded by `RecordSpan` (`AckedRotationKept`).
- The cache of derived keys (`utils/encryption.ts`) grows with every encryption.
- A request that read its service's row before a rotation is authenticated with the old
  key although the rotation has been reported meanwhile (`BarredNeverAuthenticated` is
  therefore about requests that begin afterwards).
- If GitHub were to replace the refresh token in one response and keep it in the next, two
  concurrent refreshes could store the replaced one. The models let GitHub do one or the
  other (`Rotations`).
- The transaction of the refresh takes no lock, so it does not prevent two refreshes with
  one refresh token (`github-token.ts:250` gives that as its purpose), and the request
  that loses may be answered `TOKEN_REFRESH_FAILED` although the stored token is fresh.
- The audit row of a success is written before the refresh and the decryption, whose
  failures leave it standing.
- `docs/jwt.md` lists `isWhitelisted` among the claims; no JWT carries it, so what is known of the
  whitelist is only what the middleware and the refresh read.
- A client, or a prober, that keeps asking on a connection it keeps alive holds the graceful
  shutdown until the timer ends it with exit code 1; on Node 18 (`package.json` allows it) an idle
  connection does so too, until its keep-alive time limit.
- `DB_MAX_RETRIES` counts attempts, the first included; `docs/database.md` counts the
  retries after it.

## 6. Not modelled

- Differences between the clocks of instances, and Redis bringing a deleted entry back
  from an old snapshot: both break one-time states and lie outside the code.
- Cryptography: a signature verifies, a ciphertext decrypts, a hash compares, for what it
  was made from. JWTs that do not verify are one case (`PresentMalformedToken`).
- The JWKS routes, request validation, metrics, logging, headers, pages, Terraform: no
  state that a handler's outcome depends on.
- The checks of keys, metrics and the GitHub App in a probe may have any result; the cache
  of the last cannot go stale in a process whose configuration never changes.
- A client that hangs up in mid-request leaves its handler running without a connection; the
  shutdown does not wait for such a handler, and no client waits for its answer.
- `disconnectRedis`, which nothing calls; the metrics of the connection and the limiters.
- Configuration: it is read once, in one pass without state, before anything else runs. What
  it rejects or allows appears as the assumptions on the constants.
- The ciphers of `utils/encryption.ts` and its cache of keys; parsing of arguments and the text
  the scripts print.

## 7. Order of the work, and what could be added

The modules were built in this order: `TokenService`, `OneTimeState` + `OAuthState`,
`GithubToken`, `ServiceRegistry`, `RedisClient` with `RateLimit` and `Server` on top of it,
`KeyRotation`, `TokenMigration` on top of `GithubToken`, then the abstract specifications
`Lifecycle` above `Server`, `RevocableTokens` above `TokenService` and `TokenHandout` above
`GithubToken` and `TokenMigration`.

Every module that a passing run checks has its proofs. What could be added:

1. An abstract registry above `ServiceRegistry`, in which a command takes effect at one moment
   between its check and its report.
2. The readiness of handlers (`HandlersReady`) for `GithubToken`, where only the supply of grants
   stands between a handler and its next step.

Runs stay few: a new module gets one run for its safety and liveness together, and the
smaller divergences of section 5 give way to graver ones found later.
