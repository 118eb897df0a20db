# Privaris: verification of the privacy compliance manager

This directory models and checks the core of the API server
(`src/artifacts/api-server`): what happens to a scan from the request to its
terminal state, what scans do to the findings they report, how scans are scheduled,
who holds which role on the platform and in an organization, what their sessions know of it,
and what a user logs in with. It also models the scripts that keep the database
(`src/scripts/ops`): WAL archiving, the chain of WAL segments and its off-host copy, and backups.
Paths below are relative to `src/artifacts/api-server/src` unless they start with `src/`
or name a script of `src/scripts/ops`.

## 1. The system

Privaris scans the databases of an organization for personal data. One Node
process serves the HTTP API, runs the scans in the background, and runs three
timers (scheduler, scan recovery, session cleanup). All lasting state is in
PostgreSQL, reached through a pool, every request inside a tenant transaction.
Several processes may run against the same database, although the scan recovery
at boot assumes one.

| Component | State it keeps | Operations | Hard behaviours | What makes it correct |
|---|---|---|---|---|
| Scan lifecycle: `services/scanner.ts`, `repositories/scans.repo.ts`, `services/scan-recovery.ts`, `index.ts`, `routes/privacy.ts` | rows of `scans`; the runner's locals (cancel flag, heartbeat state); `active_scans`, event counters; the recovery guard | start, cancel, run, heartbeat, finalize, fail, boot sweep, periodic sweep, shutdown | runner against reaper; cancel against throttled heartbeat; lost answers to COMMIT; crash between two awaits; deletion of the source under a scan | one running scan per source; one terminal state with the traces that belong to it; no live scan reaped; every scan ends; gauge exact |
| Finding lifecycle: `services/finding-lifecycle.ts`, `finalizeScan`, `repositories/findings.repo.ts`, `repositories/rules.repo.ts` | rows of `findings`, `rules.last_triggered`, counters of `scans` | read under caps, plan, apply, PATCH finding, PATCH rule | caps, unlocked read of active findings, users against a scan, duplicated fingerprints | absence is only concluded from evidence; identity and counts of findings; a failed scan leaves nothing |
| Scan scheduler: `services/scan-scheduler.ts`, `repositories/scan-schedules.repo.ts` | rows of `scan_schedules` | upsert, claim due, dispatch, record result | several instances, crash after a claim, late results | each due run is claimed once; no catch-up storm |
| Sources, rules: `repositories/sources.repo.ts`, `routes/sources.ts` | `sources`, `rules` | create, update, delete, test connection | cascade against running scans | no trace of a deleted source runs on |
| Sessions: `repositories/sessions.repo.ts`, `auth/*`, `services/session-cleanup.ts` | `sessions` | open, promote, revoke, expire, clean up | revocation against promotion, a session that is marked after it was opened | a session carries the roles, the organization and the factors of its user |
| Login, password, second factor: `routes/auth.ts`, `repositories/users.repo.ts`, `repositories/mfa.repo.ts` | `users`, the TOTP secret and its last step, recovery codes | login, change of the password, setup, enable, disable, verify, recover, regenerate codes | handlers of several statements; a password or a secret that changes under a login; one code presented twice | no session outlives its password; no full session without the second factor; a code opens one session |
| Password reset: `repositories/password-reset.repo.ts` | reset links | request, expire, use | two requests at once, use against withdrawal | a link is used once and ends every session |
| Global roles: `repositories/user-roles.repo.ts`, `routes/users.ts` | `user_roles` | replace a role set, add the role of a registration | concurrent demotions, logins during a change, lock order | an administrator stays; no token outlives its roles |
| Organizations: `repositories/memberships.repo.ts`, `repositories/invitations.repo.ts`, `auth/org-context.ts`, `routes/organizations.ts` | `memberships`, `invitations`, `sessions.active_org_id` | invite, accept, revoke, change role, remove, switch organization | lock order, concurrent demotions, one invitation used twice or revoked while used | an organization keeps a governor; an invitation is spent once |
| Masking: `repositories/masking.repo.ts`, `lib/masker.ts` | `masking_jobs` | create a masked copy | failure after the job was written | one job row per request |
| Rate limits: `repositories/rate-limits.repo.ts`, `lib/rate-limit-store.ts` | window counters | hit, reset | several instances | the limit holds across instances |
| Compliance, dashboard, reports, audit | append-only rows, aggregates | read, append | - | totals agree with the rows |
| Connectors: `connectors/*` | none | connect, list, read page, close | OFFSET pages of a changing table, timeouts | - |
| Backups: `postgres-backup.sh`, `postgres-physbackup.sh`, `backup-schedule.sh` | the lock directory, temporary directories, members and manifests of sets | take and reclaim the lock, stage, dump, publish, retain | a holder that is killed; a kill between two files; retention after failures | one backup at a time; a manifest vouches for whole sets; a restorable set remains |
| WAL: `wal-archive.sh`, `wal-chain-manifest.sh`, `offhost-upload.sh` | the archived objects, the directory of segments, the chain manifest, the off-host objects | archive a segment, emit and verify a chain, publish a set | PUTs that time out and land later; torn or short segments; a run that dies halfway | recycled WAL is stored; the off-host chain names what is there |
| Restore: `postgres-restore.sh`, `build-restore-bundle.sh` | a scratch cluster, a report | restore a logical set and compare, prepare a point-in-time recovery | coverage of a chain, files that change after their verification | a target that is accepted can be reached |
| Web client, mockups, generated clients, migrations | - | - | - | - |

Components talk through the database (rows, row locks, cascades) and through a few
direct calls: a start request or the scheduler calls `runScan` without waiting for
it; the recovery job and the runner both end rows through `scans.repo.ts`; the
runner reports to the metrics registry.

## 2. Plan

In order, the most important behaviour first:

1. `ScanRows`, `ScanLifecycle` and its proofs (done).
2. `FindingLifecycle` and its proofs (done).
3. `Timetable`, `ScanScheduler` and its proofs (done).
4. `RoleBook`, `UserRoles` and its proofs (done): global roles and the sessions that carry them.
5. `MemberBook`, `Memberships` and its proofs (done): organizations, invitations, active organization.
6. `OneTime`, `Credentials` and its proofs (done): passwords, reset links, second factor.
7. `WalArchive`, `WalChain` and its proofs (done): archived WAL, its chain, the off-host copy.
8. `BackupBook`, `BackupSets` and its proofs (done): the lock, publication and retention of backups.
9. Left: a composition of `ScanScheduler` and `ScanLifecycle`; `PagedRead` (OFFSET pages of a
   changing table).

Every component gets its theorems in a module `<Component>Proofs`.

## 3. Modules

### ScanRows
What the table `scans` promises: four actions on the rows, no runner, no time, no
failure. A source has one running scan at most; findings are published in the
step that completes a scan and in no other; terminal states are final until
the source is deleted.

This module and the other abstract ones (`Timetable`, `RoleBook`, `MemberBook`, `OneTime`, `BackupBook`) end with
what follows from them for whoever implements them (here `OneRunning`, `EndsOnce`). The theorems
of section 5 carry these consequences over to the detailed modules by the refinements.

### ScanLifecycle
Each action is one database transaction or the stretch of the runner between two
awaits.

| State | Code |
|---|---|
| `exists`, `status`, `sourceOf`, `cancel` | rows of `sources` and `scans` |
| `age` | time since `coalesce(heartbeat_at, started_at)` |
| `published`, `closing` | the commit of `finalizeScan`; the activity entries of failed scans |
| `pc`, `left`, `heard`, `deaf`, `idle` | where `runScanInner` awaits, pages to read, `cancelRequested`, `heartbeatBroken`, time in the current await |
| `events`, `gauge` | terminal events logged and counted, `active_scans` |
| `proc`, `phase`, `stale` | the process, `runScanRecoverySafely` and the rows of the sweep it runs |

`StartScan` leaves the row committed and the runner not launched (the handler still
awaits the audit insert); `StartScanLost` is a commit whose caller sees an error.
`LaunchRunner`, `LoadSource`, `Connect`, `ReadPage`, `FinalizeRead`,
`FinalizeCommit`, `FailScanSafe` are the pipeline of `runScanInner`, with `Heartbeat` and
`Yield` inside the two steps that read. `finalizeScan` takes two steps because it reads
the source without a lock first. A sweep is `BootSelect` or `PeriodicSelect`, then
`ReaperCommit`, then `ReaperEmit`, or `ReaperAbort` from any point before the commit.
`Fault` is a failed database call: rolled back, or committed with its answer lost.
`Crash`, and `Drain` then `Exit` (SIGTERM), empty the memory; `Restart` takes
`bootStartedAt`. `Tick` lets time pass, never past `MaxStep` for a live await.

The throttle of the heartbeat is stated on `age`: for a row that runs, the last
heartbeat of the runner and `heartbeat_at` are the same instant. Once the row does
not run a heartbeat has no effect. The clock of `age` stops at `MaxAge`, past every threshold that
the code compares it with.

### FindingLifecycle
One source, scans numbered from 1, one after the other (that only one can publish is
`ScanLifecycle`'s business). A spot is a (column, data type) pair that may match a
rule; what a read shows is arbitrary. `BeginScan` is `resolveActiveRules` and
`listTables`; `ReadTable` the page loop and `detectRows`, which may miss what is `Elusive`: a
column past the page cap of a table of `LargeTables`; one in rows that move from page to page while
a table of `ShiftingTables` is read, as the pages are taken by OFFSET, each by a query of its own, and
in no order without a primary key; and one at the end of the values of `LongSpots`, past the
4096 characters that are searched. A table is what its bare name denotes for `readPage`, which
names no schema, and a column of JSON values, which become "[object Object]", is no spot.
`FinalizePlan` and `FinalizeWrite` are the two
parts of `finalizeScan` around the unlocked read of the active findings, with the locked
rows in `Locked`; `FinalizeDuplicate` is the refusal of the unique index;
`UpdateStatus`, `SetEnabled` and `DeleteSource` are the users.

### Timetable
What the table `scan_schedules` promises: a schedule that is on has a next run, a run is
handed out when it is due and once, and the one after it is an interval later.

### ScanScheduler
Time is relative to the present. `due` is `next_run_at`, `every` is `interval_minutes`,
`status` is `last_status`; `busy` says that the source has a running scan (who runs it is
`ScanLifecycle`'s business). `step`, `batch`, `current` and `lag` are the locals of
`runSchedulerTick` in each process, with `step = "idle"` for `tickInProgress = false`.
`Fire` is `runSchedulerTickSafely`; `ClaimSelect` and `ClaimCommit` are the two halves of
`claimDue`, between which the selected rows are `Locked`; `Dispatch`, `MarkOk`, `Launch`,
`MarkSkipped`, `MarkError` are the awaits of one turn of the loop, each of which may fail;
`Save` is `upsert`, which waits for a locked row and counts from the moment of the
request. `actual` and `since` are not in the code: what the last dispatch came to, and the
time since the last claim of the schedule as it stands.

A tick is at work for `MaxLag` at most. The code sets no such limit; a tick makes three
short statements per schedule for `Batch` (5) schedules and the shortest interval is
15 minutes, so `TickAssumption` (less than half an interval) is far from tight. Only
`StatusTruthful` needs it: `markResult` does not compare dates, and with an interval of 2
and `MaxLag` 1 TLC finds a save that lets a schedule come due while its earlier tick still
has to record a result. A clean shutdown stops the timer and then the process: for the
schedules that is a `Crash`.

### RoleBook
What the global roles promise, with every operation one step: a role set is replaced only
if an administrator is left, and the user's sessions end in that step; a session opens with
the roles its user has at that moment.

### UserRoles
One action is one SQL statement, and a request (a transaction) is at the statement `step`
says. PostgreSQL runs at its default, READ COMMITTED: a statement sees what is committed when
it starts, and writes show at COMMIT. `SELECT ... FOR UPDATE` is an action that takes a
snapshot (`SnapshotAdmins`, into `todo`) and one action for each row (`LockAdmin`), which waits
until the row is free. A row that was deleted meanwhile leaves the snapshots of those who wait
(`Finish`); one that was inserted again in its place has not been in them.

| State | Code |
|---|---|
| `roles`, `sessions` | rows of `user_roles`; rows of `sessions` with the roles of their token and `mfa_pending` |
| `account` | how far the three statements of `POST /register` have come |
| `step`, `job`, `todo` | the statement a request is at, its parameters and what it has read, the rows it has yet to lock |
| `userLock`, `adminLock` | who holds the row of `users` and the administrator row of `user_roles` |

`AskRoles` to `ReplaceRoles` are `setRolesAndRevokeSessions`; `AskLogin`, `LockUser`,
`ReadRoles`, `OpenSession` are `createSessionForUser`, and with a session to replace
(`AskPromotion`) `promotePendingSession`. The last statements of a transaction, from the first
write to COMMIT, are one action: what they write is not visible before, and nobody waits for
it except where `Blocked` says so. `Sessions` are the rows that are followed: a login may also
open one that is not, so their number bounds nothing but the view. The replay gate only
matters by its refusal (`Replay`); `setSessionMfaPending`, which marks a pending session before
its cookie is sent, is part of `OpenSession`.

### MemberBook
What the members of an organization are promised, as if each request were one step: the owner is
left alone, somebody governs, whoever is changed or removed loses his sessions in that step, and
one joins by a pending invitation of one's own, with its role. A request that is refused, or finds
nothing to do, is no step of it.

### Memberships
The same discipline for one organization. `AskChange` to `Change` are `updateRole` and, with
"none" for the role, `remove`: lock the target, then the governors in key order, count those
that were returned (`found`), write. An updated row is still found by those who wait for it
and is returned only if it is a governor's still; a deleted one is not. `AskAccept`,
`LockInvitation`, `InsertMember`, `Join` are `consumeByTokenHash`, whose insert waits for another
insert of the same row; `Revoke` is one DELETE. `AskLogin` is the read of the first
organization and `OpenSession` the transaction that comes later; `AskActive`, `FindMember`,
`SetActive` are `POST /orgs/active`. `here` says of a session that this organization is its
active one. `WaitsFor` are those a request waits for, be it for a membership, for an invitation or
for the end of an insert; requests that wait in a circle are `Deadlocked`, and PostgreSQL ends one
of them (`BreakDeadlock`). A session is a `Stray` when the organization is its active one and
its user is no member.

An organization may have no owner: `src/lib/db/drizzle/0016_backfill_tenant.sql` makes the
administrators of an older installation `admin`, and an owner only of `bootstrap-admin`. `Init`
allows any roles with somebody to govern.

### OneTime
What a single-use secret promises: it is issued once, spent while it is live, and what it was
spent for happens once, in that step or (`Apart`) later or never.

### Credentials
One user and what he logs in with. A handler is a request that goes from one database call
to the next; a transaction that locks the row of `users` first is one step.

| State | Code |
|---|---|
| `tokens`, `codes` | rows of `password_reset_tokens` and `mfa_recovery_codes` that are followed |
| `mfa`, `secrets` | `mfa_enabled`, `mfa_secret_encrypted`, `mfa_last_verified_step`; how many secrets `setup` has made |
| `sessions` | rows of `sessions`: active, `mfa_pending`, whether a client has the cookie (`handed`), and the password and factor the session rests on |
| `step`, `job` | the call a request is at, and what it has read |
| `accepted`, `uses` | not in the code: the steps that have opened a session, the effects of each secret |

`AskForgot`, `CreateLink` are `create` of the reset links, whose UPDATE sees the links that were
live when it began; `Reset` is `consume` with the new password. `AskLogin`, `ReadFactor`,
`OpenSession`, `MarkPending` are `handleLocalLogin`. `AskChange`, `Change`; `Setup`;
`AskEnable`, `EnableMfa`, `NewCodes`; `AskCodes`; `AskDisable`, `DisableMfa` are the routes of
their names. `AskVerify`, then `PromoteByTotp` or `Replay`, and `AskRecovery`, then `PromoteByCode`,
lead from a pending session to a full one. `Abort` is a failed call at any point. The window of
`verifyTotp` is abstracted: any step of `Steps` may be presented at any time. A password change
marks what goes on: "old" is a session that rests on the former password, "late" a login or a
promotion that was in flight, which the code does not stop.

### WalArchive
`wal-archive.sh` for the oldest segment that is not archived: `Examine` (what is at the key?),
`Put`, `PutTimesOut`, `Verify`, `Acknowledge` (PostgreSQL sees status 0). A PUT that timed out
stays in `late` and may still be carried out, whole, long after its invocation (`PutLands`). An
object of another cluster ("other") blocks its segment for good; it is there from the beginning, as nothing is said of two
clusters that write to the same keys at once.

### WalChain
What follows from there. `Fetch` is the operator who copies objects to `--wal-dir` (`dir`), in
one go or not (`Torn`); `Emit` and `Replace` are `wal-chain-manifest.sh --emit`, which reads the
directory and later replaces the manifest (`chain`) with what it has read, if that still verifies
and no segment is lost by it. `StartUpload` to `EndUpload` are `offhost-upload.sh
--physical-set`, which lists the chain, publishes the segments and then the chain. `ProbeSegment` is
the guard of `publish`, `PutSegment` a PUT that is carried out; every PUT
reads its file anew, so what is stored may not be what the guard saw. `PutSegmentInDoubt` is an
attempt that timed out or failed: it stays in `lateParts`, the run tries again or gives up
(`EndUpload`, status 76), and the PUT may be carried out under the run, under a later one, or never
(`SegmentLands`). `ProbeChain`, `PutChain`, `PutChainInDoubt`, `ChainLands` are the same for the
chain manifest. `Authorise` is the
verification of a recovery (`--pitr`), `Prepare` and `Refuse` what comes of the inspection of the
segments later. A segment is three units of LSN long and `Base` lies in the first; a `Short` one was
closed by `archive_timeout` in its first half. A copied object of
another cluster counts as whole: nothing here looks into a segment. One emitter and one upload are at work at a time,
and the operator does not empty the directory under a recovery. Tars and aux files never change and
are left out. `disturbed` records that a file of the set changed under an upload, or under a PUT of it
that was in doubt. `MaxDoubt` bounds the PUTs that are in doubt at a time.

### BackupBook
What the directory of the sets promises to whoever restores from it: a set appears whole, once, in
one step, retention takes a logical set only while another remains, and no physical one.

### BackupSets
A run is one invocation of `postgres-backup.sh` or `postgres-physbackup.sh` (`Physical`) and
makes the set of its name. `Mkdir`, `WritePid` take the lock; `Age` lets its grace go by. What
`acquire_lock` does when its `mkdir` fails is one action for each command: `Refused`, `ReadPid` (what it
read stays in `seen`), `Judge` (`kill -0`, or the age of the directory if there was no pid; a
directory that is gone by then has the age of the epoch), `Wipe`, `Remake`, and all others
may run in between. `Stage`, `Dump`, `PublishMember`, `OpenManifest`,
`CloseManifest`, `Retain`, `Finish` are a backup; `Fail` is a failed command or a signal that is
caught, with the trap that cleans up, and `Kill` the end of a process anywhere. `passed` are the
refused processes whose lock was removed since; `strayed` records that one of them went on and removed
another lock. `rm -rf` of the lock is one step: between its parts the directory is there, young
and without a pid, which refuses everybody. A process that is refused the lock
(status 75) is not repeated by `backup-schedule.sh`, so it is a later run. A process does not stay
longer than the grace (120 s unless `BACKUP_LOCK_GRACE_SECONDS` says less; 0 would make every lock
without a pid stale) between its `mkdir` and its pid, nor between its look for a pid and its look at
the age, and no run lasts as long as the
retention. A pid that the system has given to another process keeps the lock, which is the safe
side.

## 4. Runs

| Run | Bounds | Shows |
|---|---|---|
| `scan_lifecycle` | 1 source, 2 scans, TTL 5, start lag 1, heartbeat 1, await 1, 2 pages, 1 fault, 1 crash | all safety properties and the refinement of `ScanRows` |
| `scan_ends` | 1 scan, 2 faults, 2 crashes | every running row ends |
| `finding_lifecycle` | 3 columns in two of 3 tables, two with one fingerprint, one of long values, caps of 2 tables and 2 findings, 3 scans | all properties of findings, refused transactions included |
| `scan_scheduler` | 2 instances, 1 source, interval 3, ticks of 1, 1 fault, 1 crash | no run is handed out twice; results are recorded in order; refinement of `Timetable` |
| `scheduler_taken` | 1 instance, 2 sources, batch of 1 every 2, interval 2, 1 fault | no due schedule starves |
| `user_roles` | 2 users, one to register, 2 sessions, 2 requests | an administrator stays, tokens keep their roles, no deadlock, refinement of `RoleBook` |
| `memberships` | 2 users, 1 session, 1 invitation, 2 requests | somebody governs the organization; only a target that is locked out of order makes a circle; only a login leaves a stray session; refinement of `MemberBook`, so an invitation is spent once, by its user |
| `credentials` | 2 requests, 2 sessions, 1 link, 1 recovery code, 2 secrets, TOTP steps 1 and 2 | passwords, second factor and single-use secrets hold; refinement of `OneTime` |
| `wal_chain` | 2 segments, one archived before, both short, the second torn, targets 2, 3 and 5, 2 PUTs in doubt | recycled WAL is stored, no object is replaced, the off-host chain is sealed, recoveries have their segments |
| `backup_sets` | 2 logical runs, 1 physical | the lock, manifests and retention, wherever runs are killed; refinement of `BackupBook` |
| `page_cap`, `backup_lock` | the same sizes or smaller | disagreements of section 6 |

Why the bounds are enough. Two scans of one source are what it takes for a second
runner to start while the first lives on, and scans of different sources do not interact.
One fault reaches every single failure (a lost commit, a broken heartbeat, a failed
`failScan`, a failed sweep); the liveness run takes two, so that a sweep
may fail after the runner's own failure. TTL 5 with awaits and lag of 1 is the smallest value the
timing assumption allows, so the sweeps come as early as they can. Two
pages give a yield that is throttled and one that is not. In `finding_lifecycle`, three
scans make a finding go through creation, resolution and reopening; caps of two
tables and two findings with three tables and three columns give scans below, at and above each
cap. The first table has the column of long values and is always read; the third has the other
two, its rows move between its pages, and the cap on tables may leave it out. These two
share a fingerprint: a scan that meets both
as new fails, and one of them alone is found again as the other. A table past the page cap is
that of `page_cap`.

For the scheduler, two instances and one row are a race for that row; what a tick that
claims several does to them is left to the theorems, which hold for every batch.
`scheduler_taken` asks twice of what a process can hand out, so its schedules fall ever
further behind (`MaxLate` stops counting at two intervals).

For roles and memberships, two governors and two requests are a race for the last one;
with two rows to lock there are two orders to lock them in, which is what a deadlock takes.
Two sessions let a promotion replace the one by the other; a second user who registers
gives `user_roles` its new rows. One invitation is enough for two acceptances of it and a
revocation.

For credentials, two requests are every race of two handlers, and two sessions a promotion that
overlaps a login; links and codes that are not followed come and go besides. Two secrets
are a setup that is repeated, two steps a code that is older than the last one. For WAL, the targets are
past the end of the short first segment, the start of the second, and past the end of that; two
segments give a chain that is extended after it was published, a torn segment that is whole in a later
run, and a PUT of either that comes after that run. TLC finds no error with three segments and
one PUT in doubt either (5.9 million states, which takes over four minutes). Two logical runs are one that
fails or grows old and one that succeeds and applies retention; the third, of the other kind,
contends for the lock, and three processes are what the counterexample of `backup_lock` takes.
TLC finds no error with a third logical run (5.1 million states). In
`backup_sets` the system may stop, as runs end (`CHECK_DEADLOCK FALSE`).

Fairness of the scheduler: time passes and each process goes on with its tick; failures, crashes and
users are not fair. Fairness of the scans (`FairSpec` of `ScanLifecycle`): each runner step, sweep step, `Exit`, `Restart` and `Tick` is weakly
fair. The event loop runs what is ready, the timers of `index.ts` fire for as long as the
process is up, external reads have timeouts, and a supervisor restarts the process
(`restart: unless-stopped` in `src/docker-compose.yml`). Requests, faults, crashes and
`ReaperAbort` are not fair: they need not happen, and they are bounded.
The length of an await is bounded by the connectors' timeouts; the wait for a
connection of the pool has no bound in the code and is taken to be within `MaxStep`.

## 5. Theorems

Every invariant and action property of the passing runs is a theorem, and so are the refinements.
Liveness (`EveryScanEnds`, `EveryDueRunIsTaken`) is only model-checked: the provers reach
neither fairness nor ENABLED. Beyond the runs, the theorems cover the consequences of the abstract
modules, the rows without a runner, and the type invariants of `UserRoles`, `Memberships`,
`WalChain` and `BackupSets`, which the runs do not list because nothing of interest breaks them alone.

### Scans

`ScanLifecycleProofs` proves, for every set of sources and scans and all settings:

- `TypeCorrect`: the type invariant, with `PagesLeft` (a reading runner has a page left),
  without which `ReadPage` could take the count below zero.
- `OutcomesAgree`: `OutcomeConsistent`, by `RowSound`, its inductive form row by row.
- `RowsImplemented`: every step is a step of `ScanRows` or stutters.
- `LiveRunnersSpared` and `OneRunner`, under `TimingAssumption`
  (TTL at least the start lag and four awaits, and at least a heartbeat interval and three awaits). The
  strengthening `Heard` bounds the age of a heard runner's row at each point of
  the pipeline by the awaits since its last sign of life (`Punctual`), so it
  is never overdue, and says of the rows a sweep has selected that
  their runner is gone or lost its heartbeat, although the update comes later than the
  select. `OneRunner` adds `OneAtWork`: only an insertion puts a runner to work, and an insertion
  needs that no row of the source runs.
- `CompletedExplained`: `CompletedEventExplained` and `OrphanOnlyAfterFailure`, from `Heard`.
- `GaugeCorrect`: every step adds or removes one pipeline with one unit of the gauge,
  or leaves both.
- `CancelIsHeard`: `CancelHeard`, by `CancelPending`: a runner whose row bears a cancel has heard of
  it, or has not written since, and then its next write is due.
- `OneRowRuns` and `ScansEndOnce`: `OneRunning` and `EndsOnce` of `ScanRows`, from `RowsImplemented`:
  one running row per source whatever the timing, and an outcome that nothing but the deletion
  of the source changes. That is why `FindingLifecycle` may follow one scan after the other.
- `OrphansAge`: `OrphansGrowOld`, without an assumption on the timing. A row whose runner is gone
  gets no other and never looks younger; that a sweep comes for it is `EveryScanEnds`,
  which only TLC checks.

The timing assumption is not a consequence of the code: the clamps of the two
settings (`scanStaleTtlMs`, `scanHeartbeatIntervalMs`) admit values that break it: with a TTL and a
heartbeat of one minute each and awaits of half a minute, a row can be refreshed between the
select and the update of a sweep, and is failed under its runner. The defaults (TTL 10 min, heartbeat 10 s, awaits of two queries of 30 s) satisfy it.

### Findings

`FindingLifecycleProofs` proves, for every finite set of spots, all rules, fingerprints and caps
(`ConstantsAssumption`):

- `FindingsTypeCorrect`: the type invariant.
- `AbsenceProves`: `AbsenceIsEvidence`. `PlanCovers` says that a plan that resolves was made
  with full coverage and all matches, `Noticed` that what a read saw matched but for the four blind
  spots (a rule left out, the page cap, rows that move between pages, the cap on a value), and `AllRead` that as many tables read as listed means all of them.
- `TriageStays`: `TriageRespected`, by `PlanTrue`: what the plan says of a locked finding is true
  until the COMMIT.
- `StatusFollows`: `StatusFollowsScans`. A finding that the plan does not cover was resolved already, or
  a user had a hand in it after the plan was made (the second half of `PlanCovers`).
- `TraceExact`: `ScanTraceExact`, by `Numbered` (no row bears the number of a scan that is not
  over) and `InsertsCounted` (without a duplicate, inserts and new findings are one to one).

### Scheduler

`ScanSchedulerProofs` proves, for every set of instances, sources and intervals:

- `SchedulerTypeCorrect`: the type invariant.
- `RunsImplemented`: the refinement of `Timetable`, by `Claims`: a locked row stays
  due for the tick that locked it (nobody else writes it, and the tick's `now` does not
  move), and two ticks lock different rows.
- `NextRunNear`: `WithinInterval` of `Timetable`, from `RunsImplemented`. However often a schedule
  is saved, its next run is at most an interval away.
- `ClaimsSpaced`: `Spaced`, by `Claims` and `NextRunSound` (the next run is an interval after
  the last claim, or later).
- `StatusCorrect`: `StatusTruthful` under `TickAssumption`, by `OneHolder`: a schedule some
  tick still has to dispatch does not come due before that tick has to be over, so no other claims it.

### Global roles

`UserRolesProofs` proves, for every finite set of users (their keys are integers) and every set of
sessions and requests:

- `RolesTypeCorrect`: the type invariant.
- `AdministratorRemains` and `SessionsHoldRoles`: `UserLocks` (who is past its first lock holds
  its user's row, nobody else does) and `AdminLocks` (locked rows and the rows of a snapshot
  are administrators still) make what a request read true when it writes.
- `RolesDeadlockFree`: `LockOrder`, a request holds no administrator row above one it waits
  for; of requests that wait in a circle, take the one that waits for the last row.
- `BookImplemented`: each write is a step of `RoleBook`, because what it rests on
  (`RolesRead`, the count of administrators) still holds.
- `TokensStay` and `RetirementLogsOut`: `TokensFixed` and `RetiredAtOnce` of `RoleBook`, from
  `BookImplemented`: an active session is never changed but ended, and all sessions of a user end in
  the step that takes a role from him.

The order of the locks needs that a finite set of numbers has a least and a greatest member, which is
induction on its size. `FiniteHasEnds` gets it without a predicate as a parameter, from the
theorem that proper inclusion of the finite subsets of a set is well founded and `WFMin`, which
speaks of a set of them: the nonempty subsets that lack an end have a minimal member, and there
is none. `MembershipsProofs` needs the same lemma.

### Memberships

`MembershipsProofs` proves, for every finite set of users (the keys of a table) and every set of
sessions, invitations and requests:

- `MembershipsTypeCorrect`: the type invariant.
- `GovernorStays`: `FoundLocked`, a governor that a request counts is one still, as the request
  holds the row, and `TargetLocked`, whoever changes a row holds it. The order of the locks
  has no part in it.
- `InvitationsAreSpent`: `OnInvitation`, `InvitationLocked` (an invitation that was found pending
  is locked until the COMMIT) and `JoinersNew` (a user is inserted by one request at a time).
- `MembersImplemented`: each write is a step of `MemberBook`. `TargetLocked` is what it takes for a
  change: the row is held from the first lock to the COMMIT, so the role it was found with is
  its role still, and the owner's row is never written.
- `CirclesNeedATarget`: `DeadlockByTarget`, by `RowsInOrder` (but for its target, a request holds
  no row above one it waits for) and `LockInvariant` (nobody waits for a request that cannot
  wait itself but for changes). Among requests in a circle take the one that waits for the last
  row: whoever holds that row has it as its target and waits below it.
- `OwnerIsKept`, `ChangesLogOut`, `InvitationsStayEnded`: `OwnerStays`, `ChangedLogsOut` and
  `InvitationsEnd` of `MemberBook`, from `MembersImplemented`.
- `OnlyLoginsStray`: `StraysFromLogin`, by `SwitchSound`: a switch of the organization that has found
  a membership writes to a session of a user who still has it, or to one that has ended.

### Credentials

`CredentialsProofs` proves, for every set of requests, sessions, links and codes, given that
links and codes are different things, that `Nobody` is none of them
(`NamesAssumption`) and that TOTP steps are numbers (`StepsAssumption`):

- `CredentialsTypeCorrect`: the type invariant, by which a link or a code has one effect at most. It
  needs `CodesInFlight` (a recovery code that a request has spent is unused, and no
  other request has it) and `UsedIfSpent`.
- `OldPasswordIsOver`: `OldPasswordEnds`, by `RequestsSound`: whoever is about to open a
  session rests on the present password or was overtaken in flight.
- `SecondFactorIsGiven`: a login is handed its session without a factor only if none was asked for.
- `StepsOpenOnce`: `StepsNotReplayed`, by `GatePassed` (the gate is past every step that was
  accepted), which holds across a new secret because the set of accepted steps starts anew there,
  and across `DisableMfa`, which resets the gate with it.
- `SecretsImplemented`: both kinds of secret implement `OneTime`, links with spending and use in one
  step, recovery codes with the two apart.
- `SpentForGood`: `SpentStays` of `OneTime`, for both kinds.

### WAL

`WalChainProofs` proves, for any number of segments, any torn, short and target ones that
`SegmentsAssumption` and `LsnAssumption` admit:

- `WalTypeCorrect`: the type invariant.
- `ArchiveKeeps`: `RecycledOnlyIfStored`, by `AtWork`: an invocation that exits with success found
  its segment in the store, and a PUT that lands late writes the same bytes.
- `ObjectsStay`: `NeverOverwritten`, by `KeysFree`: a segment that is being uploaded, or was given up
  on, has nothing else at its key, since `Examine` would have refused it.
- `CopySealed`: `OffHostSealed`, by `UploadFaithful`: an undisturbed upload has sent the prefix of the
  chain it counts, and the chain manifest last; and `LateFaithful`: a PUT that is in doubt brings what
  the directory holds to a place that holds the same or nothing, and a chain in doubt names what is there.
- `RecoveryHasItsWal`: `RecoveryReaches`, by `TargetCovered`; its arithmetic, that the end of
  the examined segments is the segment of the target, is a lemma of its own (`ExaminedReaches`).

### Backups

`BackupSetsProofs` proves, for every set of runs and of physical ones among them:

- `BackupSetsTypeCorrect`: the type invariant.
- `LockExcludes`: `OneBackupAtATime` until a process removes another lock than the one that refused it.
  What is inductive is who the lock belongs to at each point of its making (`LockMade`, `LockHeld`,
  `OneMaker`, `AgedIsLeft`) and that what a refused process has found out of it, command after command, is
  true of it while it is the same lock (`LockKnown`): so a lock that it removes has no holder. That the
  lock may be another by then is not excluded by the code, but by the hypothesis.
- `ManifestVouches` and `RestorableRemains`: `ManifestIsLast` and `BackupRemains`, by `SetsInv`: the
  manifest is opened when the set is whole, and retention runs after it was closed. They do
  not rest on the lock.
- `SetsImplemented`: `BackupBook`, by `SetsInv` and `PublishedOnce` (a logical set has a manifest
  once its run has closed it, and is not written to after that). It does not rest on the lock either.
- `SetsRemain`: `SetsStay` of `BackupBook`, from that refinement.

## 6. Where code and documentation disagree

Runs that TLC ends with a counterexample:

- A table larger than the page cap counts as fully read, so findings past the cap are
  resolved by absence (`page_cap`).
- A process whose `mkdir` fails looks at a lock that its holder releases meanwhile: it reads no pid, and
  `lock_mtime` gives 0 for a directory that is not there, so the lock is stale, and older than any grace.
  Its `rm -rf` removes the lock that a third process has made by then, and two backups run at once
  (`backup_lock`), against `postgres-physbackup.sh:196`, although nobody was killed. Two processes that find
  the lock of a killed one stale do the same to each other. `OneBackupAtATime` states what holds.

Behaviours of the modules that a comment or a description rules out, without a run of
their own:

- Two columns whose names differ only in case share a fingerprint (`finding-lifecycle.ts:89`, against
  `:137`), and the scan that meets both as new always fails.
- A role change that waits for an administrator row which is replaced does not count that
  administrator and is refused for leaving none (`user-roles.repo.ts:94`, against `:65`).
- The lock of the target comes before the ordered ones (`memberships.repo.ts:158`, against `:16`), so
  changes of two governors can deadlock (`BreakDeadlock`); one of them fails with an error.
  `CirclesNeedATarget` says that nothing else makes requests wait in a circle.
- `src/lib/api-spec/openapi.yaml:1146` promises that a cancelled scan stops within one heartbeat
  interval; after one failed heartbeat (`deaf`) the cancel is never heard. `CancelHeard` states
  what holds.
- `scans_completed_total` also counts a scan that was reaped under a living runner;
  `CompletedEventExplained` names the cases.
- A login between two statements of a registration gives a session that lacks the role:
  the exception in `SessionRolesHeld`.
- `revoke` deletes accepted invitations too, and answers that they were revoked.
- A login that overlaps the removal of its user opens a session in the organization he
  left. Every request looks the membership up again, so the session has no rights there
  unless he becomes a member once more. `OnlyLoginsStray` says that nothing else leaves one.
- Two requests for a reset link at once leave two links that work (`password-reset.repo.ts:38`
  says that the previous ones are invalidated).
- `enable` sets the flag after it has verified a code, whatever has become of the secret: a `setup`
  in between leaves MFA on with a secret nobody has verified, a `disable` leaves it on without one
  (`mfa.repo.ts:189`). The recovery codes that its second statement inserts after a `disable`
  belong to no secret (`:200`).
- A recovery code is spent before the promotion, and is lost if that fails. A promotion of a
  session that was revoked meanwhile succeeds.
- `DELETE /sessions/:jti` answers 404 for a session that is revoked already (`routes/auth.ts:692`),
  where its description says 200 (`:670`).
- A chain that is emitted anew during an upload is published with segments that the upload did not
  list (`offhost-upload.sh:902`); `OffHostSealed` leaves that case out (`disturbed`). A local chain
  that has grown can no longer replace the one that was published: the upload ends with status 76
  each time, where `:644` says that it is retried on the next run.
- A names-only refresh of the chain replaces digests that have changed without a word
  (`wal-chain-manifest.sh:331`); it may also record a torn last segment, because no script
  compares the size of a segment with `wal_segsize` before `--pitr` does.
- A PUT that a run of `offhost-upload.sh` gave up on may be carried out after a later run has published
  the set. If the file was torn when that PUT read it and is whole now, the off-host chain names a
  segment that is torn again, against `:904` and after a read-back that found all objects right. The
  second case that `OffHostSealed` leaves out (`disturbed`).
- Without `WAL_ARCHIVE_TRANSPORT`, `wal-archive.sh:178` runs `timeout "$tmo" aws_transport`, and
  `timeout` cannot run a shell function: it fails with 127, so every invocation fails and no segment is ever
  acknowledged. The module is the script with a transport that can be run.
- The round of `wal-archive.sh` never advances, so its second round of verification never comes (`:356`).

Read in the scripts and not modelled: `postgres-backup.sh:185` counts rows after the dump, so a
write in between makes `postgres-restore.sh:615` refuse a good backup; so does a migration since
the backup (`:679`, against `:548`), and a backup taken without a source key
(`:738`, against `postgres-backup.sh:202`). Retention deletes by the date of each file, and physical sets
are never removed. `wal-chain-manifest.sh:283` moves its temporary file across file systems, which is not
atomic where they differ.

## 7. Not modelled

Masking writes one job row when the work is over, and nothing follows from it; when the activity entry
after it fails, the handler writes a second row that says the job failed (`masking.repo.ts:264`).
Rate limits are one atomic upsert per request. The compliance score is a pure formula over
aggregates, which unit tests cover. Idle time, CSRF and the contents of tokens are left out of the
session rows. The single queries for OFFSET pages of a changing table (`connectors/postgres.ts:229`) are not
modelled: `FindingLifecycle` takes a table of `ShiftingTables` to miss any of its rows. Of `postgres-restore.sh`, the restore of a logical
set and the walk over WAL ranges without a chain are straight lines of commands and comparisons.
Tenant isolation is enforced by PostgreSQL policies, encryption
by the platform's primitives; the web client, the generated clients, reports and migrations
hold no protocol. Row locks are explicit for roles, memberships and invitations; in the modules
about scans a transaction is one step, and the abort of a deadlocked one is a `Fault`.
Organizations are modelled one at a time: the choice among several, at login, is by date of
entry and touches no other row.

Most of the repository's lines are outside these modules and will stay there: the pages and
components of the web client, generated clients and schemas, demonstration data, mockups and tests
make up more than half of them, and hold no state of their own that outlives a request.
