---------------------------- MODULE ScanScheduler ----------------------------
(***************************************************************************)
(* The automatic scans: the rows of `scan_schedules`, one per source, and  *)
(* the processes whose timers claim the due ones and dispatch them, while  *)
(* users save schedules, delete sources and start scans by hand.           *)
(*                                                                         *)
(* A tick is: claimDue (one transaction that locks the due rows, skipping  *)
(* those another tick has locked, and moves their next run), then one      *)
(* dispatch after the other, each startScanInternal, markResult, launch.   *)
(*                                                                         *)
(* Time is relative: due is next_run_at - now, and lag is the time since   *)
(* the tick took its `now', from which it reckons.                         *)
(***************************************************************************)
EXTENDS Integers, FiniteSets

CONSTANTS
  Instances,    \* processes that run the scheduler
  Sources,
  Intervals,    \* values of interval_minutes
  Batch,        \* SCAN_SCHEDULER_BATCH
  Period,       \* SCAN_SCHEDULER_TICK_MS
  MaxLag,       \* longest time a tick, or the save of a schedule, is at work
  MaxLate,      \* how late a run is stops counting here
  MaxSince,     \* how long ago the last run was stops counting here
  MaxFaults,    \* bound on failed database calls
  MaxCrashes    \* bound on process deaths

ASSUME ConstantsAssumption ==
  /\ Intervals \subseteq Nat \ {0} /\ Intervals # {}
  /\ Batch \in Nat \ {0} /\ Period \in Nat \ {0}
  /\ MaxLag \in Nat /\ MaxLate \in Nat /\ MaxLate >= MaxLag
  /\ MaxSince \in Nat
  /\ \A interval \in Intervals : interval + MaxLag <= MaxSince
  /\ MaxFaults \in Nat /\ MaxCrashes \in Nat

VARIABLES
  exists,    \* [Sources -> BOOLEAN]: the row of `sources`
  enabled,   \* [Sources -> BOOLEAN]: scan_schedules.enabled
  every,     \* [Sources -> Intervals]: interval_minutes
  due,       \* [Sources -> Int]: next_run_at - now; 0 when it is null
  since,     \* [Sources -> 0..MaxSince]: time since the row was claimed, as by
             \* last_run_at; MaxSince if never, or if it was saved since
  status,    \* [Sources -> Result]: last_status
  busy,      \* [Sources -> BOOLEAN]: the source has a running scan
  actual,    \* [Sources -> Result]: what the last dispatch came to
  step,      \* [Instances -> Step]: where the tick of the process is
  batch,     \* [Instances -> SUBSET Sources]: rows claimed, not yet dispatched
  current,   \* [Instances -> SUBSET Sources]: the one being dispatched, if any
  lag,       \* [Instances -> 0..MaxLag]: age of the tick's `now'
  timer,     \* [Instances -> 0..Period]: time since the timer fired
  faults, crashes  \* what is used of the two bounds

rowVars   == <<enabled, every, due, since, status>>
tickVars  == <<step, batch, current, lag>>
boundVars == <<faults, crashes>>
vars == <<exists, rowVars, busy, actual, tickVars, timer, boundVars>>

Result == {"none", "ok", "skipped", "error"}
Dispatching == {"mark_ok", "launch", "mark_skipped", "mark_error"}
Step == {"idle", "claim", "locked", "next"} \cup Dispatching

Fault == faults < MaxFaults /\ faults' = faults + 1

-----------------------------------------------------------------------------
Init ==
  /\ exists = [src \in Sources |-> TRUE]
  /\ enabled = [src \in Sources |-> FALSE]
  /\ every \in [Sources -> Intervals]
  /\ due = [src \in Sources |-> 0]
  /\ since = [src \in Sources |-> MaxSince]
  /\ status = [src \in Sources |-> "none"]
  /\ busy = [src \in Sources |-> FALSE]
  /\ actual = [src \in Sources |-> "none"]
  /\ step = [i \in Instances |-> "idle"]
  /\ batch = [i \in Instances |-> {}]
  /\ current = [i \in Instances |-> {}]
  /\ lag = [i \in Instances |-> 0]
  /\ timer = [i \in Instances |-> 0]
  /\ faults = 0
  /\ crashes = 0

-----------------------------------------------------------------------------
\* Users and scans.

BugLocked(src) == FALSE
\* The row is locked by a tick between its select and its commit.
Locked(src) == \E i \in Instances : step[i] = "locked" /\ src \in batch[i]

\* upsert waits for the row and schedules from the moment of the request.
Save(src, on, interval, wait) ==
  /\ exists[src] /\ ~Locked(src)
  /\ enabled' = [enabled EXCEPT ![src] = on]
  /\ every' = [every EXCEPT ![src] = interval]
  /\ due' = [due EXCEPT ![src] = IF on THEN interval - wait ELSE 0]
  /\ since' = [since EXCEPT ![src] = MaxSince]
  /\ UNCHANGED <<exists, status, busy, actual, tickVars, timer, boundVars>>

\* deleteSource takes the schedule and the scans along (ON DELETE CASCADE).
DeleteSource(src) ==
  /\ exists[src] /\ ~Locked(src)
  /\ exists' = [exists EXCEPT ![src] = FALSE]
  /\ enabled' = [enabled EXCEPT ![src] = FALSE]
  /\ due' = [due EXCEPT ![src] = 0]
  /\ since' = [since EXCEPT ![src] = MaxSince]
  /\ status' = [status EXCEPT ![src] = "none"]
  /\ busy' = [busy EXCEPT ![src] = FALSE]
  /\ UNCHANGED <<every, actual, tickVars, timer, boundVars>>

\* POST /scans on a source that is not being scanned.
StartByHand(src) ==
  /\ exists[src] /\ ~busy[src]
  /\ busy' = [busy EXCEPT ![src] = TRUE]
  /\ UNCHANGED <<exists, rowVars, actual, tickVars, timer, boundVars>>

\* The scan of a source reaches a terminal state (module ScanLifecycle).
ScanEnds(src) ==
  /\ busy[src]
  /\ busy' = [busy EXCEPT ![src] = FALSE]
  /\ UNCHANGED <<exists, rowVars, actual, tickVars, timer, boundVars>>

-----------------------------------------------------------------------------
\* A tick.

BugFire(i) ==
  /\ timer[i] = Period
  /\ timer' = [timer EXCEPT ![i] = 0]
  /\ step' = [step EXCEPT ![i] = "claim"]
  /\ UNCHANGED <<exists, rowVars, busy, actual, batch, current, lag, boundVars>>

\* The timer fires: runSchedulerTickSafely skips it if a tick is in progress.
Fire(i) ==
  /\ timer[i] = Period
  /\ timer' = [timer EXCEPT ![i] = 0]
  /\ step' = IF step[i] = "idle" THEN [step EXCEPT ![i] = "claim"] ELSE step
  /\ UNCHANGED <<exists, rowVars, busy, actual, batch, current, lag, boundVars>>

\* The tick is over: tickInProgress is cleared.
Finish(i) ==
  /\ step' = [step EXCEPT ![i] = "idle"]
  /\ lag' = [lag EXCEPT ![i] = 0]

IsDue(src, i) == enabled[src] /\ due[src] <= -lag[i]

\* The rows a select may lock: the most overdue of those not locked.
BugOldest(S, n) == {T \in SUBSET S : Cardinality(T) = n}
Oldest(S, n) ==
  {T \in SUBSET S : /\ Cardinality(T) = n
                    /\ \A a \in T, b \in S \ T : due[a] <= due[b]}

\* claimDue, the select FOR UPDATE SKIP LOCKED.
ClaimSelect(i) ==
  /\ step[i] = "claim"
  /\ LET S == {src \in Sources : IsDue(src, i) /\ ~Locked(src)}
         n == IF Cardinality(S) < Batch THEN Cardinality(S) ELSE Batch
     IN \E T \in Oldest(S, n) : batch' = [batch EXCEPT ![i] = T]
  /\ step' = [step EXCEPT ![i] = "locked"]
  /\ UNCHANGED <<exists, rowVars, busy, actual, current, lag, timer, boundVars>>

BugNextRun(src, i) == due[src] + every[src]
\* computeNextRun, from the `now' of the tick.
NextRun(src, i) == every[src] - lag[i]

\* claimDue, the updates and the commit.
ClaimCommit(i) ==
  /\ step[i] = "locked"
  /\ due' = [src \in Sources |-> IF src \in batch[i] THEN NextRun(src, i)
                                 ELSE due[src]]
  /\ since' = [src \in Sources |-> IF src \in batch[i] THEN lag[i]
                                   ELSE since[src]]
  /\ step' = [step EXCEPT ![i] = "next"]
  /\ UNCHANGED <<exists, enabled, every, status, busy, actual, batch, current,
                 lag, timer, boundVars>>

\* claimDue fails and rolls back; the tick ends.
ClaimFails(i) ==
  /\ step[i] \in {"claim", "locked"}
  /\ Fault
  /\ Finish(i)
  /\ batch' = [batch EXCEPT ![i] = {}]
  /\ UNCHANGED <<exists, rowVars, busy, actual, current, timer, crashes>>

\* No claimed row is left.
EndTick(i) ==
  /\ step[i] = "next" /\ batch[i] = {}
  /\ Finish(i)
  /\ UNCHANGED <<exists, rowVars, busy, actual, batch, current, timer,
                 boundVars>>

\* The dispatch of src goes on at a point, with what it came to.
Came(src, i, point, result) ==
  /\ step' = [step EXCEPT ![i] = point]
  /\ actual' = [actual EXCEPT ![src] = result]

\* The next claimed schedule (the oldest first, an order nothing depends on).
\* startScanInternal: accepted, refused (busy or gone), or an exception, with
\* the row committed or not.
Dispatch(src, i) ==
  /\ step[i] = "next" /\ src \in batch[i]
  /\ batch' = [batch EXCEPT ![i] = @ \ {src}]
  /\ current' = [current EXCEPT ![i] = {src}]
  /\ \/ /\ exists[src] /\ ~busy[src]
        /\ busy' = [busy EXCEPT ![src] = TRUE]
        /\ Came(src, i, "mark_ok", "ok")
        /\ UNCHANGED faults
     \/ /\ ~(exists[src] /\ ~busy[src])
        /\ Came(src, i, "mark_skipped", "skipped")
        /\ UNCHANGED <<busy, faults>>
     \/ /\ Fault
        /\ Came(src, i, "mark_error", "error")
        /\ \/ UNCHANGED busy
           \/ exists[src] /\ ~busy[src] /\ busy' = [busy EXCEPT ![src] = TRUE]
  /\ UNCHANGED <<exists, rowVars, lag, timer, crashes>>

\* markResult: one update that waits for the row; nothing if the row is gone.
Mark(src, result) ==
  /\ ~Locked(src)
  /\ status' = IF exists[src] THEN [status EXCEPT ![src] = result] ELSE status

Release(i) == current' = [current EXCEPT ![i] = {}]

\* The scan was accepted.  If the mark fails the scan is not launched: its row
\* runs until the reaper takes it.
MarkOk(src, i) ==
  /\ step[i] = "mark_ok" /\ src \in current[i]
  /\ \/ Mark(src, "ok") /\ step' = [step EXCEPT ![i] = "launch"]
                        /\ UNCHANGED <<actual, faults>>
     \/ Fault /\ Came(src, i, "mark_error", "error") /\ UNCHANGED status
  /\ UNCHANGED <<exists, enabled, every, due, since, busy, batch, current, lag,
                 timer, crashes>>

\* The audit event is recorded and runScan called.
Launch(src, i) ==
  /\ step[i] = "launch" /\ src \in current[i]
  /\ step' = [step EXCEPT ![i] = "next"]
  /\ Release(i)
  /\ UNCHANGED <<exists, rowVars, busy, actual, batch, lag, timer, boundVars>>

BugMarkSkipped(src, i) ==
  /\ step[i] = "mark_skipped" /\ src \in current[i]
  /\ step' = [step EXCEPT ![i] = "next"] /\ Release(i)
  /\ UNCHANGED <<exists, rowVars, busy, actual, batch, lag, timer, boundVars>>

MarkSkipped(src, i) ==
  /\ step[i] = "mark_skipped" /\ src \in current[i]
  /\ \/ /\ Mark(src, "skipped")
        /\ step' = [step EXCEPT ![i] = "next"] /\ Release(i)
        /\ UNCHANGED <<actual, faults>>
     \/ /\ Fault /\ Came(src, i, "mark_error", "error")
        /\ UNCHANGED <<status, current>>
  /\ UNCHANGED <<exists, enabled, every, due, since, busy, batch, lag, timer,
                 crashes>>

\* The catch block: a second failure is only logged.
MarkError(src, i) ==
  /\ step[i] = "mark_error" /\ src \in current[i]
  /\ \/ Mark(src, "error") /\ UNCHANGED faults
     \/ Fault /\ UNCHANGED status
  /\ step' = [step EXCEPT ![i] = "next"] /\ Release(i)
  /\ UNCHANGED <<exists, enabled, every, due, since, busy, actual, batch, lag,
                 timer, crashes>>

TickStep(i) ==
  \/ Fire(i) \/ ClaimSelect(i) \/ ClaimCommit(i) \/ EndTick(i)
  \/ \E src \in Sources : \/ Dispatch(src, i) \/ MarkOk(src, i)
                          \/ Launch(src, i) \/ MarkSkipped(src, i)
                          \/ MarkError(src, i)

\* The process dies and is restarted: its locks are released, what it claimed
\* and did not dispatch is lost.
Crash(i) ==
  /\ crashes < MaxCrashes
  /\ crashes' = crashes + 1
  /\ Finish(i) /\ Release(i)
  /\ batch' = [batch EXCEPT ![i] = {}]
  /\ timer' = [timer EXCEPT ![i] = 0]
  /\ UNCHANGED <<exists, rowVars, busy, actual, faults>>

\* Time passes: timers fire on time, and no tick is at work for longer than
\* MaxLag.
Pass ==
  /\ \A i \in Instances : /\ timer[i] < Period
                          /\ step[i] # "idle" => lag[i] < MaxLag
  /\ due' = [src \in Sources |->
               IF enabled[src] /\ due[src] > -MaxLate THEN due[src] - 1
               ELSE due[src]]
  /\ since' = [src \in Sources |-> IF since[src] < MaxSince THEN since[src] + 1
                                   ELSE since[src]]
  /\ lag' = [i \in Instances |-> IF step[i] = "idle" THEN 0 ELSE lag[i] + 1]
  /\ timer' = [i \in Instances |-> timer[i] + 1]
  /\ UNCHANGED <<exists, enabled, every, status, busy, actual, step, batch,
                 current, boundVars>>

Next ==
  \/ \E src \in Sources : \/ \E on \in BOOLEAN, interval \in Intervals,
                                wait \in 0..MaxLag : Save(src, on, interval, wait)
                          \/ DeleteSource(src)
                          \/ StartByHand(src) \/ ScanEnds(src)
  \/ \E i \in Instances : TickStep(i) \/ ClaimFails(i) \/ Crash(i)
  \/ Pass

Spec == Init /\ [][Next]_vars

\* The timers fire, the database answers and time passes.
FairSpec == Spec /\ WF_vars(Pass) /\ \A i \in Instances : WF_vars(TickStep(i))

-----------------------------------------------------------------------------
(* Properties. *)

\* Every variable keeps its type; a process works on one tick at a time: it
\* has claimed nothing before the claim and is at one dispatch or at none.
TypeOK ==
  /\ exists \in [Sources -> BOOLEAN]
  /\ enabled \in [Sources -> BOOLEAN]
  /\ every \in [Sources -> Intervals]
  /\ due \in [Sources -> Int]
  /\ \A src \in Sources : due[src] >= -MaxLate
  /\ since \in [Sources -> 0..MaxSince]
  /\ status \in [Sources -> Result]
  /\ busy \in [Sources -> BOOLEAN]
  /\ actual \in [Sources -> Result]
  /\ step \in [Instances -> Step]
  /\ batch \in [Instances -> SUBSET Sources]
  /\ current \in [Instances -> SUBSET Sources]
  /\ \A i \in Instances : /\ step[i] \in {"idle", "claim"} => batch[i] = {}
                          /\ current[i] # {} <=> step[i] \in Dispatching
  /\ lag \in [Instances -> 0..MaxLag]
  /\ timer \in [Instances -> 0..Period]
  /\ faults \in 0..MaxFaults
  /\ crashes \in 0..MaxCrashes

\* No catch-up storm and no double hand-out: two claims of a schedule are an
\* interval apart unless it was saved between them, whichever instances claim
\* and however late the runs are (claimDue moves next_run_at from the `now' of
\* the tick, under the row lock).
Spaced ==
  [][\A i \in Instances : ClaimCommit(i) =>
       \A src \in batch[i] : since[src] - lag[i] >= every[src]]_vars

\* No schedule can come due again while a tick that took it is at work, even if
\* it was saved meanwhile.
TickAssumption == \A interval \in Intervals : interval > 2 * MaxLag

\* As long as no call fails, last_status is what the last dispatch came to, for
\* a schedule no tick is working on: the result of an earlier tick never lands
\* on top of that of a later one.
StatusTruthful ==
  \A src \in Sources :
    /\ faults = 0 /\ crashes = 0
    /\ exists[src] /\ \A i \in Instances : src \notin current[i]
    => status[src] = actual[src]

\* A due run is handed out, or the schedule is saved or removed: the oldest go
\* first, so that a small batch delays a schedule but never starves it, and a
\* claim that fails does not stop the ticks.
EveryDueRunIsTaken ==
  \A src \in Sources : enabled[src] /\ due[src] <= 0 ~> ~(enabled[src] /\ due[src] <= 0)

\* The schedules as the users see them.
Runs == INSTANCE Timetable
RunsSpec == Runs!Spec

=============================================================================
