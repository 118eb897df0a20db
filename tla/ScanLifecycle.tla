---------------------------- MODULE ScanLifecycle ----------------------------
(***************************************************************************)
(* The life of a scan: the row in table `scans`, the runner that executes  *)
(* it inside the API process, the reaper that fails rows whose runner is   *)
(* gone, the requests (start, cancel, delete source) that race with both,  *)
(* and the crashes, restarts and database errors that leave rows behind.   *)
(*                                                                         *)
(* Every database transaction is one step; an `await' is a step boundary.  *)
(* The two places where the code reads, awaits and then writes outside one *)
(* atomic statement (finalizeScan's unlocked read of the source, and the   *)
(* reaper's select followed by its guarded updates) are two steps.         *)
(*                                                                         *)
(* Time is relative: age[s] is the time since the last sign of life of row *)
(* s (heartbeat_at, or started_at before the first heartbeat).  For a      *)
(* running row it is also the time since the runner's last heartbeat; the  *)
(* age of a row that no longer runs matters to nobody.                     *)
(***************************************************************************)
EXTENDS Integers, FiniteSets

CONSTANTS
  Sources,      \* data sources that can be scanned
  Scans,        \* identities of scan rows, each used at most once
  TTL,          \* SCAN_RUNNING_TTL_MS, in clock units
  HbInterval,   \* SCAN_HEARTBEAT_INTERVAL_MS, in clock units
  MaxStep,      \* longest time a live runner spends in one await
  StartLag,     \* longest time from the started_at of a row to its commit
  MaxPages,     \* bound on the pages a scan reads
  MaxFaults,    \* bound on failed database calls
  MaxCrashes    \* bound on process deaths

ASSUME ConstantsAssumption ==
  /\ TTL \in Nat /\ HbInterval \in Nat \ {0} /\ MaxStep \in Nat \ {0}
  /\ StartLag \in Nat /\ MaxPages \in Nat
  /\ MaxFaults \in Nat /\ MaxCrashes \in Nat

\* The clamps of scanStaleTtlMs and scanHeartbeatIntervalMs do not imply this
\* relation between the two settings; what depends on it says so.
TimingAssumption ==
  /\ TTL >= StartLag + 4 * MaxStep
  /\ TTL >= HbInterval + 3 * MaxStep - 1

\* Ages are counted up to the first that every comparison takes for old.
Later(m, n) == IF m < n THEN n ELSE m
MaxAge == Later(TTL + 1, Later(HbInterval, StartLag))

VARIABLES
  exists,     \* [Sources -> BOOLEAN]: the row of table `sources`
  status,     \* [Scans -> RowStatus]: scans.status
  sourceOf,   \* [Scans -> Sources]: scans.source_id
  cancel,     \* [Scans -> BOOLEAN]: scans.cancel_requested
  age,        \* [Scans -> 0..MaxAge]: now - coalesce(heartbeat_at, started_at)
  published,  \* scans whose finalizeScan transaction committed
  closing,    \* [Scans -> SUBSET Reasons]: "Escaneo fallido" activity entries
  pc,         \* [Scans -> PC]: where the runner of the scan is
  left,       \* [Scans -> 0..MaxPages]: pages the runner still has to read
  heard,      \* [Scans -> BOOLEAN]: the runner's local cancelRequested
  deaf,       \* [Scans -> BOOLEAN]: the runner's heartbeatBroken
  idle,       \* [Scans -> 0..MaxStep]: time since the runner's last step
  events,     \* [Scans -> SUBSET Outcomes]: terminal events logged and counted
  gauge,      \* active_scans
  waited,     \* [Scans -> 0..HbInterval]: time since the cancel was accepted
  proc,       \* the API process: "up", "draining" (SIGTERM) or "down"
  phase,      \* the reaper: "boot", "idle", "selected" or "emitting"
  stale,      \* rows of the sweep: before the boot sweep those that ran before
              \* bootStartedAt, then those selected, then those recovered
  faults, crashes  \* what is used of the two bounds

rowVars  == <<status, sourceOf, cancel, age, published, closing>>
runVars  == <<pc, left, heard, deaf, idle>>
reapVars == <<phase, stale>>
boundVars == <<faults, crashes>>
vars == <<exists, rowVars, runVars, events, gauge, waited, proc, reapVars,
          boundVars>>

FailReasons == {"source_not_found", "source_not_scannable",
                "connection_failed", "persist_failed", "cancelled"}
Reasons     == FailReasons \cup {"timeout"}
RowStatus   == {"none", "running", "completed", "failed", "deleted"}
Outcomes    == {"completed", "failed"}

\* A runner is in the pipeline (runScan was called) at one of these points;
\* at a FailReason it is about to call failScanSafe with that reason.
Working  == {"load", "connect", "page", "finalize", "commit"}
Pipeline == Working \cup FailReasons
PC       == Pipeline \cup {"none", "accepted"}

Running(s) == status[s] = "running"
Live(s)    == pc[s] # "none"
Orphan(s)  == Running(s) /\ ~Live(s)
Active     == {s \in Scans : pc[s] \in Pipeline}
Alive      == proc \in {"up", "draining"}

-----------------------------------------------------------------------------
Init ==
  /\ exists = [src \in Sources |-> TRUE]
  /\ status = [s \in Scans |-> "none"]
  /\ sourceOf \in [Scans -> Sources]
  /\ cancel = [s \in Scans |-> FALSE]
  /\ age = [s \in Scans |-> 0]
  /\ published = {}
  /\ closing = [s \in Scans |-> {}]
  /\ pc = [s \in Scans |-> "none"]
  /\ left = [s \in Scans |-> 0]
  /\ heard = [s \in Scans |-> FALSE]
  /\ deaf = [s \in Scans |-> FALSE]
  /\ idle = [s \in Scans |-> 0]
  /\ events = [s \in Scans |-> {}]
  /\ gauge = 0
  /\ waited = [s \in Scans |-> 0]
  /\ proc = "up"
  /\ phase = "boot"
  /\ stale = {}
  /\ faults = 0
  /\ crashes = 0

\* A database call fails: it is rolled back, or its answer is lost.
Fault == faults < MaxFaults /\ faults' = faults + 1

-----------------------------------------------------------------------------
\* Requests.

BugInsertRunning(s) ==
  /\ Alive
  /\ exists[sourceOf[s]]
  /\ status[s] = "none"
  /\ status' = [status EXCEPT ![s] = "running"]
  /\ \E lag \in 0..StartLag : age' = [age EXCEPT ![s] = lag]

\* startScanBody: under the lock of the source, no running row, then insert.
\* startedAt was taken before the transaction, by the handler or by the tick
\* of the scheduler.
InsertRunning(s) ==
  /\ Alive
  /\ exists[sourceOf[s]]
  /\ status[s] = "none"
  /\ ~ \E r \in Scans : Running(r) /\ sourceOf[r] = sourceOf[s]
  /\ status' = [status EXCEPT ![s] = "running"]
  /\ \E lag \in 0..StartLag : age' = [age EXCEPT ![s] = lag]

\* POST /scans: the row is committed; the handler still awaits the audit
\* insert before it launches the runner.
StartScan(s) ==
  /\ InsertRunning(s)
  /\ pc' = [pc EXCEPT ![s] = "accepted"]
  /\ UNCHANGED <<exists, sourceOf, cancel, published, closing, left, heard,
                 deaf, idle, events, gauge, waited, proc, reapVars, boundVars>>

\* The row is committed but the caller sees an error (the answer to COMMIT is
\* lost, or the scheduler's markResult fails): nobody ever launches a runner.
StartScanLost(s) ==
  /\ InsertRunning(s)
  /\ Fault
  /\ UNCHANGED <<exists, sourceOf, cancel, published, closing, runVars, events,
                 gauge, waited, proc, reapVars, crashes>>

\* requestCancel: a running row is marked, a second request changes nothing.
RequestCancel(s) ==
  /\ Alive
  /\ Running(s)
  /\ ~cancel[s]
  /\ cancel' = [cancel EXCEPT ![s] = TRUE]
  /\ UNCHANGED <<exists, status, sourceOf, age, published, closing, runVars,
                 events, gauge, waited, proc, reapVars, boundVars>>

\* deleteSource: the scans of the source go with it (ON DELETE CASCADE).
DeleteSource(src) ==
  /\ Alive
  /\ exists[src]
  /\ exists' = [exists EXCEPT ![src] = FALSE]
  /\ status' = [s \in Scans |-> IF sourceOf[s] = src /\ status[s] # "none"
                                THEN "deleted" ELSE status[s]]
  /\ UNCHANGED <<sourceOf, cancel, age, published, closing, runVars, events,
                 gauge, waited, proc, reapVars, boundVars>>

-----------------------------------------------------------------------------
\* The runner.

\* A step of the runner ends its await.
Goto(s, point) ==
  /\ pc' = [pc EXCEPT ![s] = point]
  /\ idle' = [idle EXCEPT ![s] = 0]

\* runScan: counted in active_scans from here to its terminal event.
LaunchRunner(s) ==
  /\ pc[s] = "accepted"
  /\ Goto(s, "load")
  /\ gauge' = gauge + 1
  /\ UNCHANGED <<exists, rowVars, left, heard, deaf, events, waited, proc,
                 reapVars, boundVars>>

\* getByIdForScan, the kind and configuration gates, resolveActiveRules.
LoadSource(s) ==
  /\ pc[s] = "load"
  /\ \/ exists[sourceOf[s]] /\ Goto(s, "connect") /\ UNCHANGED faults
     \/ exists[sourceOf[s]] /\ Goto(s, "source_not_scannable")
                            /\ UNCHANGED faults
     \/ ~exists[sourceOf[s]] /\ Goto(s, "source_not_found")
                             /\ UNCHANGED faults
     \/ Fault /\ Goto(s, "persist_failed")
  /\ UNCHANGED <<exists, rowVars, left, heard, deaf, events, gauge, waited,
                 proc, reapVars, crashes>>

BugHeartbeatThrottle(s, force) ==
  \/ /\ deaf[s] \/ (~force /\ age[s] <= HbInterval)
     /\ UNCHANGED <<age, heard, deaf, faults>>
  \/ /\ ~deaf[s] /\ (force \/ age[s] > HbInterval)
     /\ age' = IF Running(s) THEN [age EXCEPT ![s] = 0] ELSE age
     /\ heard' = [heard EXCEPT ![s] = @ \/ (Running(s) /\ cancel[s])]
     /\ UNCHANGED <<deaf, faults>>
BugHeartbeatSilent(s, force) ==
  /\ heard' = [heard EXCEPT ![s] = @ \/ (Running(s) /\ cancel[s])]
  /\ UNCHANGED <<age, deaf, faults>>

\* heartbeat(force): nothing once broken or while throttled; a write refreshes
\* a running row and brings its cancel_requested back; a failed write
\* silences the runner for the rest of the scan.
Heartbeat(s, force) ==
  \/ /\ deaf[s] \/ (~force /\ age[s] < HbInterval)
     /\ UNCHANGED <<age, heard, deaf, faults>>
  \/ /\ ~deaf[s] /\ (force \/ age[s] >= HbInterval)
     /\ age' = IF Running(s) THEN [age EXCEPT ![s] = 0] ELSE age
     /\ heard' = [heard EXCEPT ![s] = @ \/ (Running(s) /\ cancel[s])]
     /\ UNCHANGED <<deaf, faults>>
  \/ /\ ~deaf[s] /\ (force \/ age[s] >= HbInterval)
     /\ Fault
     /\ deaf' = [deaf EXCEPT ![s] = TRUE]
     /\ UNCHANGED <<age, heard>>

BugYield(s) == Goto(s, IF heard'[s] THEN "cancelled" ELSE "page")

\* A yield: the local flag ends the table loop, otherwise it goes on.
Yield(s) == Goto(s, IF heard'[s] THEN "cancelled"
                    ELSE IF left'[s] = 0 THEN "finalize" ELSE "page")

\* connect, listTables, the first heartbeat, YIELD A.
Connect(s) ==
  /\ pc[s] = "connect"
  /\ \/ /\ Goto(s, "connection_failed")
        /\ UNCHANGED <<age, left, heard, deaf, faults>>
     \/ /\ \E n \in 0..MaxPages : left' = [left EXCEPT ![s] = n]
        /\ Heartbeat(s, TRUE)
        /\ Yield(s)
  /\ UNCHANGED <<exists, status, sourceOf, cancel, published, closing, events,
                 gauge, waited, proc, reapVars, crashes>>

\* readPage, a throttled heartbeat, YIELD B (and YIELD C after a table).
ReadPage(s) ==
  /\ pc[s] = "page"
  /\ \/ /\ Goto(s, "connection_failed")
        /\ UNCHANGED <<age, left, heard, deaf, faults>>
     \/ /\ left' = [left EXCEPT ![s] = @ - 1]
        /\ Heartbeat(s, FALSE)
        /\ Yield(s)
  /\ UNCHANGED <<exists, status, sourceOf, cancel, published, closing, events,
                 gauge, waited, proc, reapVars, crashes>>

\* finalizeScan opens its transaction: an unlocked read of the source.
FinalizeRead(s) ==
  /\ pc[s] = "finalize"
  /\ \/ exists[sourceOf[s]] /\ Goto(s, "commit") /\ UNCHANGED faults
     \/ ~exists[sourceOf[s]] /\ Goto(s, "persist_failed") /\ UNCHANGED faults
     \/ Fault /\ Goto(s, "persist_failed")
  /\ UNCHANGED <<exists, rowVars, left, heard, deaf, events, gauge, waited,
                 proc, reapVars, crashes>>

\* The pipeline returns: its locals are gone, its terminal event is logged and
\* counted, active_scans goes down.
Return(s, outcome) ==
  /\ Goto(s, "none")
  /\ left' = [left EXCEPT ![s] = 0]
  /\ heard' = [heard EXCEPT ![s] = FALSE]
  /\ events' = [events EXCEPT ![s] = @ \cup {outcome}]
  /\ gauge' = gauge - 1

\* An exception of finalizeScan reaches the wrapper runScan.
Throw(s) ==
  /\ Goto(s, "persist_failed")
  /\ UNCHANGED <<left, heard, events, gauge>>

\* finalizeScan locks the scan row: a row that still runs is completed with
\* its findings, any other row makes it return without writing.  A rollback,
\* or a commit whose answer is lost, reaches the wrapper as an exception.
FinalizeCommit(s) ==
  /\ pc[s] = "commit"
  /\ \/ /\ Running(s)
        /\ status' = [status EXCEPT ![s] = "completed"]
        /\ published' = published \cup {s}
        /\ \/ Return(s, "completed") /\ UNCHANGED faults
           \/ Fault /\ Throw(s)
     \/ /\ ~Running(s)
        /\ Return(s, "completed")
        /\ UNCHANGED <<status, published, faults>>
     \/ /\ Fault /\ Throw(s)
        /\ UNCHANGED <<status, published>>
  /\ UNCHANGED <<exists, sourceOf, cancel, age, closing, deaf, waited, proc,
                 reapVars, crashes>>

BugCloseRowUnguarded(s, reason) ==
  /\ status' = [status EXCEPT ![s] = "failed"]
  /\ closing' = [closing EXCEPT ![s] = @ \cup {reason}]

\* failScan: only a running row is closed, with one activity entry.
CloseRow(s, reason) ==
  /\ status' = IF Running(s) THEN [status EXCEPT ![s] = "failed"] ELSE status
  /\ closing' = IF Running(s)
                THEN [closing EXCEPT ![s] = @ \cup {reason}] ELSE closing

\* failScanSafe: an error of failScan is swallowed; the event is emitted and
\* the gauge decremented either way.
FailScanSafe(s) ==
  /\ pc[s] \in FailReasons
  /\ \/ CloseRow(s, pc[s]) /\ UNCHANGED faults
     \/ Fault /\ UNCHANGED <<status, closing>>
  /\ Return(s, "failed")
  /\ UNCHANGED <<exists, sourceOf, cancel, age, published, deaf, waited, proc,
                 reapVars, crashes>>

RunnerStep(s) ==
  \/ LaunchRunner(s) \/ LoadSource(s) \/ Connect(s) \/ ReadPage(s)
  \/ FinalizeRead(s) \/ FinalizeCommit(s) \/ FailScanSafe(s)

-----------------------------------------------------------------------------
\* The reaper.

BugOverdue == {s \in Scans : Running(s) /\ age[s] >= HbInterval}
Overdue == {s \in Scans : Running(s) /\ age[s] > TTL}

BugBootSelect ==
  /\ proc = "up" /\ phase = "boot"
  /\ stale' = {s \in Scans : Running(s)}
  /\ phase' = "selected"
  /\ UNCHANGED <<exists, rowVars, runVars, events, gauge, waited, proc,
                 boundVars>>

\* The boot sweep selects what ran before bootStartedAt.
BootSelect ==
  /\ proc = "up" /\ phase = "boot"
  /\ stale' = {s \in stale : Running(s)}
  /\ phase' = "selected"
  /\ UNCHANGED <<exists, rowVars, runVars, events, gauge, waited, proc,
                 boundVars>>

\* The periodic sweep selects what gave no sign of life for longer than TTL.
\* recoveryInProgress keeps two sweeps from overlapping.
PeriodicSelect ==
  /\ proc = "up" /\ phase = "idle"
  /\ stale' = Overdue
  /\ phase' = IF Overdue = {} THEN "idle" ELSE "selected"
  /\ UNCHANGED <<exists, rowVars, runVars, events, gauge, waited, proc,
                 boundVars>>

\* The updates re-check the status of every selected row, not its age.
ReaperCommit ==
  /\ Alive /\ phase = "selected"
  /\ stale' = {s \in stale : Running(s)}
  /\ status' = [s \in Scans |-> IF s \in stale' THEN "failed" ELSE status[s]]
  /\ closing' = [s \in Scans |-> IF s \in stale'
                                 THEN closing[s] \cup {"timeout"}
                                 ELSE closing[s]]
  /\ phase' = "emitting"
  /\ UNCHANGED <<exists, sourceOf, cancel, age, published, runVars, events,
                 gauge, waited, proc, boundVars>>

BugReaperAbort ==
  /\ Alive /\ phase \in {"boot", "selected"}
  /\ Fault
  /\ phase' = "in_progress"
  /\ UNCHANGED <<exists, rowVars, runVars, events, gauge, waited, proc, stale,
                 crashes>>

\* A database error at any point of the sweep rolls it back.
ReaperAbort ==
  /\ Alive /\ phase \in {"boot", "selected"}
  /\ Fault
  /\ phase' = "idle"
  /\ stale' = {}
  /\ UNCHANGED <<exists, rowVars, runVars, events, gauge, waited, proc,
                 crashes>>

BugReaperEmit ==
  /\ Alive /\ phase = "emitting"
  /\ events' = [s \in Scans |-> IF s \in stale THEN events[s] \cup {"failed"}
                                ELSE events[s]]
  /\ gauge' = gauge - Cardinality(stale)
  /\ phase' = "idle"
  /\ stale' = {}
  /\ UNCHANGED <<exists, rowVars, runVars, waited, proc, boundVars>>

\* emitScanFailedEvents: active_scans is left alone.
ReaperEmit ==
  /\ Alive /\ phase = "emitting"
  /\ events' = [s \in Scans |-> IF s \in stale THEN events[s] \cup {"failed"}
                                ELSE events[s]]
  /\ phase' = "idle"
  /\ stale' = {}
  /\ UNCHANGED <<exists, rowVars, runVars, gauge, waited, proc, boundVars>>

-----------------------------------------------------------------------------
\* The process and the clock.

\* SIGTERM: the timers stop, work in flight goes on until the exit.
Drain ==
  /\ proc = "up" /\ crashes < MaxCrashes
  /\ proc' = "draining"
  /\ UNCHANGED <<exists, rowVars, runVars, events, gauge, waited, reapVars,
                 boundVars>>

\* The process is gone and its memory with it.
Die ==
  /\ crashes < MaxCrashes
  /\ crashes' = crashes + 1
  /\ proc' = "down"
  /\ pc' = [s \in Scans |-> "none"]
  /\ left' = [s \in Scans |-> 0]
  /\ heard' = [s \in Scans |-> FALSE]
  /\ idle' = [s \in Scans |-> 0]
  /\ gauge' = 0
  /\ phase' = "idle"
  /\ stale' = {}
  /\ UNCHANGED <<exists, rowVars, deaf, events, waited, faults>>

Crash == proc = "up" /\ Die
Exit  == proc = "draining" /\ Die

\* index.ts takes bootStartedAt before it opens the port.
Restart ==
  /\ proc = "down"
  /\ proc' = "up"
  /\ phase' = "boot"
  /\ stale' = {s \in Scans : Running(s)}
  /\ UNCHANGED <<exists, rowVars, runVars, events, gauge, waited, boundVars>>

\* Time passes; no await of a live runner outlasts MaxStep (the connectors'
\* connect, statement and query timeouts).
Tick ==
  /\ \A s \in Scans : Live(s) => idle[s] < MaxStep
  /\ age' = [s \in Scans |-> IF ~Running(s) THEN 0
                             ELSE IF age[s] < MaxAge THEN age[s] + 1 ELSE age[s]]
  /\ waited' = [s \in Scans |-> IF ~(Running(s) /\ cancel[s]) THEN 0
                                ELSE IF waited[s] < HbInterval
                                THEN waited[s] + 1 ELSE waited[s]]
  /\ idle' = [s \in Scans |-> IF Live(s) THEN idle[s] + 1 ELSE idle[s]]
  /\ UNCHANGED <<exists, status, sourceOf, cancel, published, closing, pc,
                 left, heard, deaf, events, gauge, proc, reapVars, boundVars>>

Next ==
  \/ \E s \in Scans : StartScan(s) \/ StartScanLost(s) \/ RequestCancel(s)
                     \/ RunnerStep(s)
  \/ \E src \in Sources : DeleteSource(src)
  \/ BootSelect \/ PeriodicSelect \/ ReaperCommit \/ ReaperAbort \/ ReaperEmit
  \/ Drain \/ Crash \/ Exit \/ Restart \/ Tick

Spec == Init /\ [][Next]_vars

\* The timers fire, the database and the connectors answer, a process told to
\* stop exits and a dead one is restarted.  Requests need not come.
Fairness ==
  /\ \A s \in Scans : WF_vars(RunnerStep(s))
  /\ WF_vars(BootSelect) /\ WF_vars(PeriodicSelect)
  /\ WF_vars(ReaperCommit) /\ WF_vars(ReaperEmit)
  /\ WF_vars(Exit) /\ WF_vars(Restart) /\ WF_vars(Tick)

FairSpec == Spec /\ Fairness

-----------------------------------------------------------------------------
(* Properties. *)

\* Every variable keeps its type (the columns of table `scans' and the local
\* state of runScanInner).
TypeOK ==
  /\ exists \in [Sources -> BOOLEAN]
  /\ status \in [Scans -> RowStatus]
  /\ sourceOf \in [Scans -> Sources]
  /\ cancel \in [Scans -> BOOLEAN]
  /\ age \in [Scans -> 0..MaxAge]
  /\ published \subseteq Scans
  /\ closing \in [Scans -> SUBSET Reasons]
  /\ pc \in [Scans -> PC]
  /\ left \in [Scans -> 0..MaxPages]
  /\ heard \in [Scans -> BOOLEAN]
  /\ deaf \in [Scans -> BOOLEAN]
  /\ idle \in [Scans -> 0..MaxStep]
  /\ events \in [Scans -> SUBSET Outcomes]
  /\ gauge \in Int
  /\ waited \in [Scans -> 0..HbInterval]
  /\ proc \in {"up", "draining", "down"}
  /\ phase \in {"boot", "idle", "selected", "emitting"}
  /\ stale \subseteq Scans
  /\ faults \in 0..MaxFaults
  /\ crashes \in 0..MaxCrashes

\* What a scan leaves behind agrees with its terminal state whoever ended it
\* and in whatever order runner, reaper and lost answers came: findings were
\* published exactly by completed scans, and a failed scan has exactly one
\* closing activity (failScan, failStaleRunningScans and finalizeScan each
\* guard on status = 'running').
OutcomeConsistent ==
  \A s \in Scans :
    /\ status[s] = "completed" => s \in published
    /\ s \in published => status[s] \in {"completed", "deleted"}
    /\ status[s] = "failed" => closing[s] # {}
    /\ closing[s] # {} => s \notin published /\ ~Running(s)
    /\ \A r, q \in closing[s] : r = q

\* The reaper only fails rows whose runner is gone or has lost its heartbeat:
\* with the settings in the right relation, neither the boot sweep nor the
\* periodic one takes the row of a runner that works and is heard.
LiveRunnerNotReaped ==
  \A s \in Scans : Live(s) /\ ~deaf[s] => "timeout" \notin closing[s]

\* A runner at one of these points may have the external database open.
Reads(s) == pc[s] \in {"connect", "page"}

\* Two runners read one source at a time only if one of them lost its
\* heartbeat: the single `running' row is what keeps them apart, and only
\* the reaper can free it under a runner that is still at work.
OneRunnerPerSource ==
  \A r, s \in Scans :
    r # s /\ Reads(r) /\ Reads(s) /\ sourceOf[r] = sourceOf[s]
      => deaf[r] \/ deaf[s]

\* active_scans is the number of pipelines in this process, through crashes,
\* reaped rows, swallowed failScan errors and lost commits.
GaugeExact == gauge = Cardinality(Active)

\* A running row without a runner is the trace of a failed call or of a dead
\* process; no interleaving of healthy calls leaves one.
OrphanOnlyAfterFailure ==
  \A s \in Scans : Orphan(s) => faults > 0 \/ crashes > 0

\* scan_completed is reported for a scan that did not complete only when its
\* row was taken away under the runner: reaped while its heartbeat was lost,
\* or deleted with its source.
CompletedEventExplained ==
  \A s \in Scans :
    "completed" \in events[s] =>
      s \in published \/ deaf[s] \/ status[s] = "deleted"

\* A yield is passed: the runner goes on after reading a page.
PassesYield(s) ==
  pc[s] = "page" /\ left'[s] < left[s] /\ pc'[s] \in {"page", "finalize"}

\* A cancel accepted at least one heartbeat interval ago is seen at the next
\* yield, throttling notwithstanding, unless the heartbeat is lost.
CancelHeard ==
  [][\A s \in Scans :
       PassesYield(s) /\ Running(s) /\ cancel[s] /\ waited[s] >= HbInterval
         => deaf'[s]]_vars

\* Every running row reaches a terminal state (or is deleted): by its runner,
\* or by a sweep of this process or of the next one.
EveryScanEnds == \A s \in Scans : Running(s) ~> ~Running(s)

\* A row whose runner is gone gets no other, and never looks younger: what is
\* overdue for a sweep stays so until one ends it, or its source is deleted.
OrphansGrowOld ==
  [][\A s \in Scans : Orphan(s) /\ Running(s)' =>
       ~Live(s)' /\ age'[s] >= age[s]]_vars

\* A scan row as the rest of the system sees it.
Rows == INSTANCE ScanRows
RowsSpec == Rows!Spec

=============================================================================
