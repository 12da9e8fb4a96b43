# Verification of the s12ryt SSH/auth server

TLA+ models of the server in `src/`: a single Node.js process with an HTTP API
(Fastify), a Telegram bot for its administrators (grammY) and one SQLite file.
Sub-accounts log in from devices, reach S3 and SQL resources through a proxy that
audits every call, and keep their SSH hosts, tunnels, snippets and keys on the
server. Source paths below are relative to the repository's `src/` directory, and
`README.md` with a line number is the repository's.

The process is single-threaded JavaScript over a synchronous SQLite driver: what
runs between two `await`s is atomic. All concurrency comes from the awaits
(scrypt, remote systems, `listen`, `close`), from clients that act on answers
they got earlier, from the remote systems, and from the process dying between two
statements. That is what the actions of every module are cut along.

## 1. Inventory

| Component | State | Operations | Talks to | Modelled in |
|---|---|---|---|---|
| Authentication `services/auth-service.ts` | sessions, refresh history, access tokens | login, refresh, authenticate, logout | repository | `AuthSessions`, `TokenFamilies` |
| Administration `services/admin-service.ts` | accounts, connections, grants | create, enable, disable, reset, limit, delete, grant | repository; called by the bot | `AuthSessions`, `ProxyAccess`, `BotUpdates`, `BotWizard` |
| Proxy `proxy/` | none of its own | authorise, dispatch, audit, join keys with prefixes | gateways, repository; called by HTTP | `ProxyAccess`, `ProxyGateways`, `ObjectKeys` |
| SQL gateway `adapters/sql-gateway.ts` | one connection per call | test, tables, query, exec | MySQL, PostgreSQL | `SqlGateway` |
| S3 gateway `adapters/s3-gateway.ts` | none | test, list, upload, download, delete | AWS SDK | `S3Gateway` |
| SSH host service `services/ssh-host-service.ts` | hosts, fingerprint history, tunnels, session history, snippets, keys, preferences | create, update, clone, delete, credentials, fingerprint, import | repository; called by HTTP | `SSHHosts`, `SSHRecords`, `WorkspaceImport` |
| SSH export package `security/ssh-export-package.ts` | none | encrypt, read, preview, plan | SSH host service | `WorkspaceImport` (planning) |
| Bot controller and adapter `bot/` | wizards, in memory | commands, callbacks, wizard steps | administration, proxy, Telegram | `BotWizard`, `BotUpdates`; other commands as the administrator's actions elsewhere |
| HTTP application `http/app.ts` | rate limits | routes, `principal`, abort signals | every service | `ProxyAccess`, `S3Gateway`, `SSHRecords`, `RuntimeLifecycle` (where it yields or dispatches) |
| Database `db/database.ts` | the file and its version | open, migrate, close | SQLite | `Migrations`, `ServerBoot` |
| Repository `repository/sqlite-repository.ts` | all tables, the depth of `transaction` | statements and transactions | SQLite | `Transactions`, `AtomicOperations`; the tables in the modules above |
| Runtime `runtime.ts`, `index.ts` | timer, start and close promises | create, start, close, clean-up, signals | everything | `RuntimeLifecycle`, `ServerBoot` |
| Cryptography, configuration, models, errors | none | pure | | not modelled |

Where it is hard, and what makes each component correct:

* **Sessions.** `login` reads the account, awaits scrypt, and only then writes.
  Refresh tokens rotate, and a replayed one must be recognised and end its family.
  The device limit counts sessions, and sessions expire on a clock of their own.
  *Correct when* a device has one live session, the limit counts every session an
  access token can use, a spent token is never forgotten while its session is
  stored, and every session has an owner.
* **Proxy.** A call yields twice, and grants, connections, sessions and accounts
  change meanwhile. The audit row is written after the effect and has foreign
  keys. *Correct when* a served call is audited, except when what the row refers to
  was deleted meanwhile; when the row names the right account; and when nothing is
  dispatched for what was already deleted.
* **SSH hosts.** The trusted fingerprint is stored twice, and devices report keys
  they saw some time ago. *Correct when* both copies agree, a change of address
  withdraws trust, and history is never rewritten.
* **SSH records.** Six tables refer to each other, every operation repeats its own
  check of ownership, and secrets survive edits that leave them blank. *Correct
  when* no row and no secret crosses accounts and a host can use its method.
* **Import.** A plan over a whole package made after an await, applied in one
  transaction; the plan and the database do not fold names alike. *Correct when* the
  plan is executable, all or nothing happens, only what it overwrites changes,
  references follow their rows, and no import exceeds the limit of hosts.
* **Transactions.** Nested brackets, counted in a variable that a failing COMMIT
  leaves wrong. *Correct when* every operation stays atomic and its answer true.
* **Runtime.** Close may overlap start, requests and the bot. *Correct when* no
  waiting client loses the database, the close ends, and the process with it.
* **Bot.** Several administrators edit the same connections step by step, and
  Telegram delivers a command again until it is confirmed. *Correct when* only
  complete secrets are stored, credentials leave the chat, an edit keeps the kind,
  commands done by half come again and the last one wins.
* **Gateways.** Abort and link failure at every await; SQL text that the server
  takes as it is; a bucket others write to. *Correct when* success is durable, nothing
  changes for a caller that gave up before the COMMIT or whose answer is a failure
  that was not merely lost, no transaction stays open, and no key leaves its prefix.
* **Migrations.** Death at every statement, two processes at once. *Correct when*
  the file is always at a version, and only the newest is served.

`PROJECT.json` lists the hazards behind these at their lines, with the properties
aimed at each and the reason where none is.

## 2. Modules

Each component's theorems stand in a module of their own, named for it
(`ProxyAccessProofs` extends `ProxyAccess`, and so on); `SSHWorkspaceProofs` holds
those of `SSHRecords` and of `WorkspaceImport`. Section 5 is about them.

### AuthSessions, TokenFamilies

`accounts`, `sessions`, `access` and `history` are the four tables (`history` is
`refresh_history`); `login` holds what each login in flight read before
`await verifyPassword`; `clock` is `Date.now()`; `granted` is a history variable.
Each primary key is fresh, stored, or gone, since ids are random and never reused.

| Action | Code |
|---|---|
| `BeginLogin` / `AcceptLogin`, `RefuseLogin` | `login` before and after its await, with the transaction of `createLoginSession` |
| `Rotate`, `RefreshDisabled`, `Replay` | the branches of `refresh` |
| `Logout` | `logout`, through `authenticate` |
| `CreateAccount` ... `RevokeAllSessions` | the administrator's commands; `ThenRevokeAll` is the second statement of a disable or reset, before which the process may die when `KilledMidway` |
| `Restart` | the process is replaced: logins in flight are lost |

`TokenFamilies` is the promise of rotation with no account, password or clock: one
redeemable token per live family, redeeming it spends it for good, a closed family
never opens again. `ImplementsFamilies` maps the tables to it.

### ProxyAccess

The tables a call depends on, `calls` (how far each request is, and what it read)
and `audit`. `Authenticate` is `await principal`; `RefuseBody` the early return of
an upload; `Dispatch` authorises and calls the gateway, or fails as `Deny`;
`GatewaySucceeds` and `GatewayFails` write the audit row, whose foreign keys may
refuse it; `StreamEnds` is the end of a download, after its audit. Between them
the administrator may do anything, and the process may restart. The gateway's
work is one nondeterministic answer.

### SSHHosts

The two tables and `seen`, what a device learned from its last credentials call
and later reports (`ReportFingerprint`). An address is a machine and a port, and a
host key stands for the address that serves it, so that "this key belongs to that
address" can be said. `Legacy` hosts are those older than the fingerprint history.
`OverwriteHost` is what an import does to a host.

### SSHRecords

One variable, `rows`, for the six other tables of the workspace: what a row is
named, refers to, and which account entered each part of its secret. A handler is
one step. Hosts carry `method` and `enabled`; `migrated` marks those that migration
3 gave the method `password` without asking. `HandedOut` is what an answer with
secrets holds. `Insert`, `Update` and `Without` are the statements with their
constraints (unique names, `ON DELETE CASCADE` and `SET NULL`), the actions above
them the service's operations.

### WorkspaceImport

The account's rows of four kinds (`workspace`), an import in progress (`job`) and
how the last one ended. `BeginImport` is the check of access, `FinishImport`
everything after the await: `Plan`, then `Applied`, all or nothing. Both go over the
package's items in order: `Known[i]` are the names taken after planning `i` items
(the code's `names` sets), `Applied(plan)[i]` is the working copy after applying
them (rows, `refs` for `hostIdsByRef`, why it failed). A name is its base and its
copy suffixes (`web (2)` is `<<"web", 2>>`), which is what `uniqueCopyName` computes
with. Names are compared in two ways: the database's `UNIQUE ... COLLATE NOCASE` folds
ASCII letters (`database.ts:123`), the handler's `toLocaleLowerCase` every letter
(`ssh-export-package.ts:444`, `ssh-host-service.ts:2412`). A name of the module is one
up to NOCASE, the constant operator `Lower` what the handler makes of it, any
operator at all. Where an account has two rows `Alike`, the handler's maps by name
hold one of them (`Listings` leaves open which), and an `INSERT` or `UPDATE` may
find its name `Taken`. Other requests change the rows meanwhile, `CloneRow` among
them, which does not count the hosts. The names of this module's specification
carry an `Import`, so that a module can extend it beside `SSHRecords`.

### Transactions, AtomicOperations

`SqliteRepository.transaction()` and the methods with their own `BEGIN IMMEDIATE`,
statement by statement: `depth` and `frames` are the code's, `open`, `rows` and
`disk` SQLite's. A statement or COMMIT may fail, with or without SQLite rolling
back by itself, and the process may die. `AtomicOperations` is the promise: all
rows or none, and an answer that says which. `ImplementsAtomic` holds even after a
refused COMMIT has left the depth at -1; `FailsOnlyForCause` says what that costs:
a nested transaction is then refused, until the process restarts or another COMMIT
is refused.

### RuntimeLifecycle

One program counter each for `start` and `close`, at their awaits; the server,
bot, timer and database they release; and requests. Requests whose client hung up
are not waited for by `http.close()`. `Settled` is a close that has come to its end,
`Released` one that has left no interval either.

### BotUpdates

The administrators' `/account_enable`, `/account_disable` and `/account_reset` as
updates in Telegram's queue. `Take` and `Hashed` are the handler around its await,
`Answered` and `AnswerLost` the reply, `Confirm` and `PollFails` grammY's next
`getUpdates`. `Forget` is the process dying, possibly between the two statements of
a command. An update is confirmed after its handler returned, except by `Stop`:
`bot.stop()` does not wait for a handler and confirms its update.

### ServerBoot

Composes `Migrations` (which it extends), `RuntimeLifecycle` and `BotUpdates`: a
server runs once `createRuntime` has migrated the file, `BotStopped` and
`PollingFails` are steps of the runtime and of the bot at once, and `End` is the end
of the process, after which the next one starts with nothing but the file and what
Telegram still holds.

### BotWizard

`wizards`, the `connections` table and the prompt each administrator last saw.
A message is one step, because grammY hands updates over one at a time and no
wizard handler awaits. An answer records its field, whether `buildSecret` accepts
it, and whether the bot deleted the message.

### ObjectKeys, S3Gateway, SqlGateway, ProxyGateways

`ObjectKeys` is the arithmetic of keys and prefixes over tokens (slash, backslash,
blank, two dots, anything else). `S3Gateway` is a connection's calls, one after
another, on a bucket others change at any moment: bodies move chunk by chunk
through `limitBytes`, a listing takes as many answers as it likes (`Page`), and any
await may fail (`Fail`), applied or not where the service acts.

`SqlGateway` is one call on either driver, each await a value of `pc`, with the
server's session beside it. The client's text (`Statement`) may be several statements
on PostgreSQL, where the gateway sends it by the simple protocol if there are no
parameters, or call a procedure, and may so end its transaction itself:
`committed` remembers whether the text or the code sent the first COMMIT, and `hungUp`
whether the caller gave up before or after the code's last look at the signal.
`LinkBreaks` and `Abort` may happen at any await; `ServerCleansUp` is what a
database does with a lost session. `ProxyGateways` is the
proxy's choice between the two by the kind of the secret.

### Migrations

The schema in effect, the versions recorded, who holds the write lock, and where
each process is. `BeginImmediate`, `RunSql`, `Commit` follow `migrate`; `Busy` is
the five seconds of `busy_timeout` elapsing; `Die` may happen anywhere.

## 3. Runs

`tlc -config X.cfg M` for each row. Identifiers that are symmetric in the code are
symmetry sets, except in the run with a liveness property.

| Run | Module, configuration | What it shows |
|---|---|---|
| auth_tables | `MCAuthSessions`, `AuthTables.cfg` | the session tables' invariants and the refinement |
| login_during_reset | `MCAuthSessions`, `LoginDuringReset.cfg` | *violated*: a reset leaves no session of the old password |
| proxy_audit | `MCProxyAccess`, `ProxyAudit.cfg` | audit and authorisation |
| proxied_calls | `MCProxyGateways`, `ProxiedCalls.cfg` | durability, clean failure, keys and listings of proxied calls |
| host_trust | `MCSSHHosts`, `HostTrust.cfg` | trusted fingerprints and their history, the limit of hosts |
| ssh_records | `MCSSHRecords`, `SSHRecords.cfg` | ownership of rows and secrets, usable methods |
| import_plan | `MCWorkspaceImport`, `ImportPlan.cfg` | planning and applying an import |
| transactions | `MCTransactions`, `Transactions.cfg` | atomicity under failing statements and COMMITs, a refinement |
| boot | `ServerBoot`, `Boot.cfg` | migration, serving, redelivered commands, and that closing ends |
| close_while_starting | `RuntimeLifecycle`, `CloseWhileStarting.cfg` | *violated*: a closed runtime leaves no timer |
| wizards | `BotWizard`, `Wizards.cfg` | stored secrets and kinds |
| failed_wizard | `BotWizard`, `FailedWizard.cfg` | *violated*: credentials are deleted from the chat |

The type invariant `TypeOK` of `AuthSessions` is part of its run. The other modules
state theirs too, for readers and as a conjunct of their inductive invariants; their
runs spend their time on the other properties.

Bounds, and why they are enough:

* **auth_tables**: one account, two devices, two sessions, three token pairs, two
  logins at once, limits up to 2, two passwords, one clock tick, tokens that live
  one tick. A second device is what the limit is about; a second login is what
  races; the third pair makes a replay of a token whose successor was itself
  spent; one tick is enough to expire.
* **proxy_audit**: two accounts so that a row can name the wrong one, one
  connection, one call, three routes (one that streams, one whose body may be
  refused, one of SQL). Calls share no state but the tables, which the
  administrator changes as freely as another call could.
* **proxied_calls**: nine keys and three prefixes chosen to be awkward (blanks behind
  slashes, backslashes, dots in and beside segments, a prefix that is itself
  refused), `MaxBytes` of one chunk and objects of up to two, `MaxSize`, so that one
  exceeds it; three keys the bucket's other writers use, one of them the base
  itself. SQL calls need no constants. `MCProxyGateways` also evaluates
  `NormalizesWell`, the comparison of the normalisation with a definition by
  segments, for all 3906 keys of at most five tokens.
* **host_trust**: one account, two hosts, two machines, one device, one legacy
  host, names enough for both, and a limit of one host so that it is reached.
* **ssh_records**: two accounts, three ids (a host, what refers to it, and a second
  host or the other account's row), two names, hosts from before migration 3.
  UUIDs are never used again; ids are, once their row is gone, which only adds
  behaviours.
* **import_plan**: packages of one to three items chosen to collide: two hosts
  whose names are copies of each other with a tunnel on the second, rows without
  their secrets, a tunnel with no host, an invalid key, and a lone snippet that is
  imported again until its copies have copies. Other requests give rows one name in
  two spellings (`Web`, `WEB`) that are one to the handler and two to the database. Two
  hosts are the limit, reached by an import, by creation, and passed by a clone.
  `MaxId` bounds the rows there ever are, three; `MaxSuffix` the copies.
* **transactions**: four operations (`MaxOperations`) of the four shapes the
  repository has: two refused COMMITs, a victim and one more.
* **boot**: two processes, two migrations (the code has nine; they are applied
  alike) from every version an older release left, one request, two updates in
  Telegram's queue (`MaxPending`): one in progress and one behind it.
* **wizards**: two administrators, two connections, two names, S3 and MySQL
  (PostgreSQL has the same steps as MySQL).

Deadlock is not checked where the system may stop: after an SQL call, after a
shutdown with no next start, and where ids or operations are used up in the end.

**Fairness.** Only `ServerBoot` assumes any (`BootFairness`): weak fairness of the
awaits that Node resumes once their promise settles: `listen` succeeds or fails,
`bot.stop()` returns or throws (grammY bounds its calls in time), and `http.close()`
settles once no client waits (`NobodyWaits`). A handler need not return: the S3 client
is made without timeouts (`s3-gateway.ts:133-144`) and Fastify without a
`requestTimeout` (`app.ts:368`), so one download that stalls, with a client that
waits, holds up the close for good. `StopsInTheEnd` therefore has the premise that no
request is served for ever, which TLC finds necessary, and the clause about the
interval excepts a close that came during `listen`. Nobody has to send a signal, start a
process or end one: the property is about a close that was asked for, and is also met
by the process dying.

**What the models assume of others.** SQLite: transactions are atomic and durable,
a COMMIT that fails has not committed, what a dead process left open is rolled
back. MySQL and PostgreSQL keep a READ ONLY transaction from writing, but not a text
from ending it; node-postgres answers several statements with a list, which
`createPostgresClient` takes for a failure (`sql-gateway.ts:284`); the text of an `exec`
that succeeds is taken to be one that writes. S3: PutObject stores a body whole or not at all, and pages of a listing go up
in key order. Telegram delivers an update until a `getUpdates` with a higher offset
confirms it; grammY hands updates over one at a time and its `stop()` waits for no
handler.

## 4. What the code does against its own words

* A login racing a password reset opens a session with the old password
  (`auth-service.ts:53-68`); the bot says all existing sessions were revoked. The
  same interleaving with a disable leaves a live session on a disabled account, which
  `authenticate` refuses until the account is enabled again; the property is
  `DisabledHoldNoSession`. No other order of steps has this effect while the process
  lives: the theorem `OnlyLoginsInFlightEscape`.
* Closing while `listen` is awaited leaves the audit timer running, and with it the
  process (`runtime.ts:160-175`). Nothing else does: `OnlyAListenLeavesATimer`.
* A wizard whose last step fails keeps the secret key's message in the chat
  (`controller.ts:576-592`), and every further answer gets "wizard is complete". Of
  the credentials a wizard takes that is the only one kept, and it is in no stored
  connection: `OnlyFailedAnswersStay`.

Something the code does against no words of its own, but that its operators should
know: `bot.stop()` confirms a command in progress, so a reset that was awaiting its
hash when the server was closed is answered with a database error and not done
again (`HalfDoneIsRedelivered` counts it as doubt), and one reply that Telegram refuses
closes the server (`telegram.ts:53`, `index.ts:58`).

Further properties are stated beside the others with a configuration each, and TLC
finds each violated; they are kept out of the regular runs:

* `QueriesOnlyRead` (`QueryEffect.cfg`, module `MCProxyGateways`): a query whose text
  ends its READ ONLY transaction takes effect, although statements with side effects
  are to need `sql.exec` (`README.md:161`). The gateway relies on READ ONLY and looks
  at no text. `FailureIsClean` says that nothing else changes a database on a query.
* `ConnectionsAreEnded` (`SkippedEnd.cfg`, `MCProxyGateways`): a ROLLBACK that fails in
  the `finally` block skips `end()`. `NothingLeftOpen` says that it happens only so.
* `ImportsNeverCollide` (`ImportNames.cfg`, `MCWorkspaceImport`): an account with two
  rows whose names differ in the case of an accented letter only can have its
  import refused by the database for a name the plan found free. `PlansAreExecutable`
  says that no other account can.
* `HostLimit` (`HostLimitByClone.cfg`): `cloneHost` does not count hosts. The
  regular run has `OnlyClonesExceedLimit`, that nothing else exceeds it.
* `ConfirmedAtItsAddress` (`StaleFingerprint.cfg`): a key seen before a change of
  address and reported after it becomes trusted for the new address.
* `PreviewShowsAllConflicts` (`ImportPreview.cfg`): two items of a package with
  one name conflict in the plan and not in the preview.
* `ImportNeedsAccess` (`ImportAfterDisable.cfg`): an import whose package is being
  decrypted when SSH is switched off for the account still writes.
* `DisabledHoldNoSession` (`LoginDuringDisable.cfg`): see above.
* `MethodsHaveCredentials` (`MigratedMethod.cfg`): migration 3 gives hosts that have
  only a private key the method `password`, which `normalizeMetadata` would refuse.

The audit clean-up first runs a full interval after the process started, so one
restarted daily never cleans up, although the documentation says it does so daily
(`README.md:230`). That follows from `runtime.ts:138` and has no module.

## 5. Proofs

Every safety property, action property and refinement of a passing run is also a
theorem: TLC shows it on the instance of section 3, the theorem for every value of
the constants. Beside them stand theorems that no run states: where a run finds a
property violated, that it is violated in no other way, and what else the inductive
invariants give. `tlapm M.tla` checks the module `M`.

| Module | Theorem | States |
|---|---|---|
| `AuthSessionsProofs` | `TypeCorrect` | `TypeOK` |
| | `ReuseDetectable`, `OneLivePerDevice`, `OwnersExist` | `ReuseIsDetectable`, `OneLiveSessionPerDevice`, `SessionsHaveOwners` |
| | `DeviceLimit` | `DeviceLimitHolds` |
| | `AccessCounted` | `AccessIsCounted`, if `AccessTtl <= RefreshTtl` |
| | `LoginsKeepToTheirDevice` | `LoginTouchesOnlyItsDevice`, an action property |
| | `FamiliesImplemented` | `ImplementsFamilies`, a refinement |
| | `TokensAreSpentForGood` | `SpentForGood`, an action property: what a token was spent for stays spent |
| | `OnlyLoginsInFlightEscape` | `OnlyInFlight`, an action property: only a login in flight, or the death of the process between two statements, leaves a session a reset or disable should have revoked |
| `ProxyAccessProofs` | `TypeCorrect` | `TypeOK` |
| | `SuccessesAreAudited`, `OnlyOrphansAreUnaudited`, `AuditIsTrue` | `SuccessIsAudited`, `UnauditedAreOrphans`, `AuditTellsWhoDidIt` |
| | `ListedOperationsWork` | `ListedIsUsable` |
| | `DeletionIsEffective` | `NeverServedOnceDeleted`, an action property |
| `SSHHostsProofs` | `TypeCorrect` | `TypeOK` |
| | `TrustIsRecorded`, `TrustStaysAtItsAddress` | `TrustedIsActiveRecord`, `TrustFollowsAddress` |
| | `LimitHoldsWithoutClones` | `OnlyClonesExceedLimit` |
| | `HistoryOnlyGrows` | `HistoryIsAppendOnly`, an action property |
| `SSHWorkspaceProofs` | `RecordsAreSound` | the inductive invariant `RecordsInv` |
| | `OwnersAlwaysAgree`, `SecretsNeverCross`, `HostsCanAlwaysAuthenticate` | `OwnersAgree`, `SecretsStayHome`, `HostsCanAuthenticate` |
| | `PlansExecuteUnlessRowsAreAlike`, `WorkspaceStaysSound` | `PlansAreExecutable`, an action property; `WorkspaceIsSound` |
| | `ImportsTouchWhatTheyWereTold`, `ImportsAlwaysLand` | `ImportTouchesOnlyOverwritten`, `ImportLands`, action properties |
| `ProxyGatewaysProofs` | `SuccessesLast`, `FailuresLeaveNothing`, `ConnectionsAreReleased` | `SuccessIsDurable`, `FailureIsClean`, `NothingLeftOpen` |
| | `CallsStayInside`, `ListingsAreComplete`, `ListedOpensItselfAlways` | `KeysStayInside`, `ListingIsComplete`, `ListedOpensItself` |
| | `KeysNormalizeWell` | `NormalizesWell` for every key |
| `TransactionsProofs` | `TypeCorrect` | `TypeOK` |
| | `FailuresHaveACause` | `FailsOnlyForCause` |
| | `NothingIsLeftBehind` | `OperationsLeaveOnlyTheDepth`: between operations nothing is open, and the depth is off by the refused COMMITs alone |
| | `OperationsAreAtomic` | `ImplementsAtomic`, a refinement |
| `ServerBootProofs` | `FileStaysAtAVersion`, `NothingOldIsServed` | `FileIsAtAVersion`, `ServedOnNewest` |
| | `BootImplementsMigrations` | `Migrations!Spec`, a refinement |
| | `ServedAlwaysKeepTheDatabase` | `ServedKeepTheDatabase` |
| | `ClosesAreHonest` | `CloseIsHonest`: a close that settled has released the port and the database or recorded the failure, and one that is asked for is under way |
| | `ClosesOnlyGoForward` | `CloseGoesForward`, an action property: no step of a close is undone, and what it waits for is not renewed |
| | `OnlyAListenLeavesATimer` | `TimersOutliveOneOrder`, an action property |
| | `HalfDoneIsAlwaysRedelivered`, `LastCommandAlwaysWins` | `HalfDoneIsRedelivered`, `LastCommandWins` |
| `BotWizardProofs` | `TypeCorrect` | `TypeOK` |
| | `SecretsStayWhole`, `AnswersMeetTheirPrompts` | `SecretsAreWhole`, `PromptsMatch` |
| | `KindsAreForLife` | `EditsKeepKind`, an action property |
| | `OnlyFailedAnswersStay` | `KeptAnswersFailed`: an answer the bot did not delete is the last one of a wizard that failed |

**How they are argued.** Hardly any of these properties is inductive. Each module
names the invariant that is, and proves it in one lemma per kind of step.

* *AuthSessions.* `TableInv` says what the tables' keys and cascades guarantee: each
  issued pair has a stored session, its refresh token is that session's current one
  or in its history, every session has an owner, every device one live session.
  Most commands only revoke, which changes no key and no token; the work is in
  accepting, rotating and deleting. The limit is about a count: `LimitInv` adds
  that a waiting login read a limit which was granted, and each step either shrinks
  the counted set or adds one after the others were counted. `ExpiryInv` relates
  the end of each access token to its session's; the code does not enforce its
  premise, and an operator who sets `AccessTtl` above `RefreshTtl` has access tokens
  that outlive the sessions the limit counts. The refinement maps accepting a login
  to opening a family in place of the device's old one, rotating to redeeming, and
  everything that revokes or deletes to closing. For `OnlyInFlight` the steps fall
  into those under which a live session keeps its account's password and status,
  those that revoke what they supersede, and accepting a login that had read both.
* *ProxyAccess.* `TablesInv` is what the schema's cascades keep (sessions and grants
  refer to what exists) together with what a call read before a yield and may use
  after it: its session is its account's, or is gone and the account with it.
  `AuditInv` adds to the audit properties that an unanswered call has no row and that
  none is served before it was dispatched. `DeletionIsEffective` then needs no check in
  `authorize` beyond the grant, since deletions cascade to grants.
* *SSHHosts.* `TrustInv` adds to the two trust properties that a host about to be
  created has no records. The limit is again a count, of the hosts that are not clones.
* *SSHRecords.* `RecordsInv` is a statement about one row at a time. Each action is
  shown to put a row that is sound in itself, where the ids it refers to are rows of
  the same account, or to remove rows with all that refer to them.
* *WorkspaceImport.* `ImportInv` says little (the workspace is `InOrder`, a waiting
  job is a package with decisions): the argument is inside one step. `SideBySide`
  goes through planning and applying in lockstep: after `i` items the names the
  planner knows are those of the working copy's rows as the handler folds them, and
  the maps by name hold one row of each, so a row planned to be overwritten is there,
  and a name planned as free is free when the row is written; where an overwritten
  row's name is taken after all, two rows were `Alike`, and they were so in the
  account already, since no step of an import makes any. The limit is a count again:
  a step either adds no host or found fewer than the limit (`Limited`);
  `refs` names the hosts written so far; and each planned item has landed or was
  superseded. Since the existence of a recursive function is not built into the
  prover, `KnownRecursion` and `AppliedRecursion` prove that the two recursions
  define what they seem to, by the well-foundedness of the numbers (`StepByStep`).
  `CopyNameIsFree` rests on it too.
* *ProxyGateways.* `SqlInv` gives, for each place of the program counter, what the
  connection and the server's session may be and whether the effect may be there; that
  the COMMIT is reached only by an exec whose caller was there at the check, and that the
  ROLLBACK is sent while `transaction` says so, is what the properties lack.
  `S3Inv` follows a transfer by the bytes moved and a listing by the keys it has
  passed: whatever stayed in the bucket and was passed has been shown. Before that
  come the lemmas on keys: `Leading` and `Trailing` choose a longest run of
  separators, whose existence is the least-number principle again, and a normalised
  key appended to the base stays below it. That two dots between two cuts are what
  the code's test for a parent segment finds needs the nearest cuts around them.
* *ServerBoot.* Four invariants for four concerns: the file (the schema is what was
  recorded, up to some version, and what each process still has to do is the
  versions above it), the listener, the runtime's order of closing, and the
  commands. For these, `UpdatesInv` looks at the queue ahead of the handler: an account
  differs from the last command only while a command other than a reset is ahead,
  and a reset or a disable that was done by half is ahead, in hand, or in doubt.
  `RuntimeInv` says how far the close may have come beside the start; with it each
  step of the runtime takes the close forward or leaves it where it is.
* *BotWizard.* `WizardInv`: a wizard's answers are those to the first prompts of its
  kind, in order, and the prompt an administrator saw last is the one the next
  answer is for.
* *Transactions.* `TxInv` relates the code's `frames` to SQLite's `open` stack,
  names the rows written so far by the places in the body that were passed, and
  says that `depth` is the number of brackets less the refused COMMITs. The
  refinement follows step by step: only the outermost COMMIT changes `disk`, and then by
  all rows of the operation; whatever ends without it leaves none.

**From which assumptions.** The named `ASSUME`s of the modules, which TLC evaluates
on every run, and no others. Most say that a null is not a value or that a number is one.
Those that say more, and why the code justifies them:

* `SessionsFinite` and `HostsFinite`: the sets that limits count are finite.
* `OperationAssumption`: every operation is one of the shapes the repository's
  methods have, and those that write more than once do so inside a bracket. The
  operations with several writes are `createLoginSession`, `rotateSession`,
  `replaceGrants`, `createSSHHostWithFingerprint`, `replaceSSHHostFingerprint` and
  the import, all bracketed; only the import nests (`ssh-host-service.ts:434`
  around `sqlite-repository.ts:559` and `572`).
* `KeysAssumption`: keys are sequences of tokens, which are strings.
* `PayloadAssumption`: packages have the four lists and say of each item whether it
  is valid and has its secret. That names in a list are unique, which the code
  checks, is not needed.

**What the proofs changed in the models.** `SSHRecords!Without` had two cases for a
row that overlapped (a tunnel's host is deleted, an entry's host is cleared), which
TLC resolves by taking the first: it is an IF now. `ImportLands` counted an item as
superseded by a later one that was skipped; only an overwrite supersedes.
`SSHHosts` assumed at most one host older than the fingerprint history; there may be
any number now, with any names, addresses and fingerprints the tables allow.
`WorkspaceImport` was rewritten from folds to functions over positions, so that
planning and applying can be compared item by item.

**Model-checked only.** `StopsInTheEnd`: liveness under fairness is beyond this
prover. What it rests on is proved: a close that is asked for is under way at once,
goes only forward, has closed the port and the database when it settles
(`ClosesAreHonest`, `ClosesOnlyGoForward`), and leaves the interval only if it came
during `listen` (`OnlyAListenLeavesATimer`); that its awaits do settle is the fairness
TLC is given, and that no client waits for ever its premise. The type invariants of `ProxyGateways` and
`WorkspaceImport` in full: the first speaks of `STRING`s, of which the provers know
only equality, the second of the bound `MaxId`; their parts that the other proofs need
are in `S3Inv`, `SqlInv` and `ImportInv`.

## 6. Not modelled

* What the texts of SQL statements say, beyond whether they write and commit; what
  `trim()` and `toLocaleLowerCase` do to names letter by letter.
* Cryptography, configuration, request schemas, rate limits, languages, menus and
  error bodies: they keep no state, or one no property is about. The export
  package's envelope is one asynchronous step that fails or does not.
* `statementType` and `statementHash` of the proxy, rows and truncation of SQL
  results, content types of S3 objects.
* The checks of field formats in `ssh-host-service.ts`; what preferences say; audit
  rows of SSH operations, one per call and never read back. Versions of rows, which are
  counted and never compared: of two devices that edit one row the last wins.
* Deleting old audit rows, and the clock it goes by.
* A bot held up by a remote system that never answers its `/connection_test`, which
  is up to the drivers' timeouts.
* What the code allows and nothing promises otherwise: a late report that
  reopens a closed session history entry, an update that omits `enabled` and
  turns a snippet or key on (`ssh-host-service.ts:1807`, `1854`), imports repeated by a
  client that lost the answer, a listing as large as its bucket.

## 7. Plan

Done: the modules above, the most important behaviour first (sessions, then access
and audit, hosts, imports, the process around them, and then the calls it makes,
its transactions and the commands it is given), and the proof of every safety
property and refinement that a passing run checks. What is left:

1. The type invariants that are no theorems (`ProxyGateways`, and `WorkspaceImport`
   with its bound on the ids), for the reasons section 5 gives.
2. Parts of the code that keep state and have no module: `deleteAuditBefore` with
   its clock, and the rate limits of `http/app.ts`.
3. `StopsInTheEnd` stays with TLC. Of the steps it needs, the order and the outcome are
   theorems; that one is always enabled needs `ENABLED`.
