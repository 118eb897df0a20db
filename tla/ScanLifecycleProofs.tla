------------------------- MODULE ScanLifecycleProofs -------------------------
(***************************************************************************)
(* Theorems of ScanLifecycle, for every set of sources and scans and every *)
(* value of the settings.                                                  *)
(***************************************************************************)
EXTENDS ScanLifecycle, TLAPS, FiniteSetTheorems

\* A runner that reads has a page left to read: TypeOK alone is not inductive,
\* ReadPage decrements the count.
PagesLeft == \A s \in Scans : pc[s] = "page" => left[s] # 0

\* The clock of the ages reaches every limit they are compared with.
LEMMA ClockReaches ==
  MaxAge \in Nat /\ MaxAge > TTL /\ MaxAge >= HbInterval /\ MaxAge >= StartLag
BY ConstantsAssumption DEF MaxAge, Later

\* What a runner's step does to its point and its clock.
LEMMA GotoType ==
  ASSUME TypeOK, NEW s \in Scans, NEW point \in PC, Goto(s, point)
  PROVE  pc' \in [Scans -> PC] /\ idle' \in [Scans -> 0..MaxStep]
BY ConstantsAssumption DEF TypeOK, Goto

\* A heartbeat writes values of the right types, whatever its outcome.
LEMMA HeartbeatType ==
  ASSUME TypeOK, NEW s \in Scans, NEW force \in BOOLEAN, Heartbeat(s, force)
  PROVE  /\ age' \in [Scans -> 0..MaxAge]
         /\ heard' \in [Scans -> BOOLEAN]
         /\ deaf' \in [Scans -> BOOLEAN]
         /\ faults' \in 0..MaxFaults
<1> USE ConstantsAssumption, ClockReaches DEF TypeOK, Running
<1>1. CASE UNCHANGED <<age, heard, deaf, faults>>
  BY <1>1
<1>2. CASE /\ age' = IF Running(s) THEN [age EXCEPT ![s] = 0] ELSE age
           /\ heard' = [heard EXCEPT ![s] = @ \/ (Running(s) /\ cancel[s])]
           /\ UNCHANGED <<deaf, faults>>
  <2>1. age' \in [Scans -> 0..MaxAge]
    BY <1>2, SMT
  <2>2. heard' \in [Scans -> BOOLEAN]
    BY <1>2, Zenon
  <2> QED
    BY <1>2, <2>1, <2>2
<1>3. CASE /\ Fault
           /\ deaf' = [deaf EXCEPT ![s] = TRUE]
           /\ UNCHANGED <<age, heard>>
  BY <1>3 DEF Fault
<1> QED
  BY <1>1, <1>2, <1>3 DEF Heartbeat

\* A yield leads to a point of the pipeline, and to another page only if one
\* is left.
LEMMA YieldType ==
  ASSUME TypeOK, PagesLeft, NEW s \in Scans, Yield(s),
         left' \in [Scans -> 0..MaxPages],
         \A r \in Scans \ {s} : left'[r] = left[r]
  PROVE  /\ pc' \in [Scans -> PC] /\ idle' \in [Scans -> 0..MaxStep]
         /\ PagesLeft'
BY ConstantsAssumption
   DEF TypeOK, PagesLeft, Yield, Goto, PC, Pipeline, Working, FailReasons

\* All variables keep their types: every step of a request, a runner, the
\* reaper, the process or the clock writes values of the declared types.
THEOREM TypeCorrect == Spec => [](TypeOK /\ PagesLeft)
<1> USE ConstantsAssumption, ClockReaches DEF RowStatus, Outcomes, PC, Pipeline, Working,
        FailReasons, Reasons
<1>1. Init => TypeOK /\ PagesLeft
  BY SMT DEF Init, TypeOK, PagesLeft
<1>2. TypeOK /\ PagesLeft /\ [Next]_vars => (TypeOK /\ PagesLeft)'
  <2> SUFFICES ASSUME TypeOK, PagesLeft, [Next]_vars
               PROVE  (TypeOK /\ PagesLeft)'
    OBVIOUS
  <2> USE DEF TypeOK, PagesLeft, Running, Live, rowVars, runVars, reapVars, boundVars
  <2>1. ASSUME NEW s \in Scans, StartScan(s) PROVE (TypeOK /\ PagesLeft)'
    BY <2>1 DEF StartScan, InsertRunning
  <2>2. ASSUME NEW s \in Scans, StartScanLost(s) PROVE (TypeOK /\ PagesLeft)'
    BY <2>2 DEF StartScanLost, InsertRunning, Fault
  <2>3. ASSUME NEW s \in Scans, RequestCancel(s) PROVE (TypeOK /\ PagesLeft)'
    BY <2>3 DEF RequestCancel
  <2>4. ASSUME NEW s \in Scans, LaunchRunner(s) PROVE (TypeOK /\ PagesLeft)'
    BY <2>4 DEF LaunchRunner, Goto
  <2>5. ASSUME NEW s \in Scans, LoadSource(s) PROVE (TypeOK /\ PagesLeft)'
    BY <2>5 DEF LoadSource, Goto, Fault
  <2>6. ASSUME NEW s \in Scans, Connect(s) PROVE (TypeOK /\ PagesLeft)'
    <3>1. CASE /\ Goto(s, "connection_failed")
               /\ UNCHANGED <<age, left, heard, deaf, faults>>
      BY <2>6, <3>1 DEF Connect, Goto
    <3>2. CASE /\ \E n \in 0..MaxPages : left' = [left EXCEPT ![s] = n]
               /\ Heartbeat(s, TRUE)
               /\ Yield(s)
      <4>1. left' \in [Scans -> 0..MaxPages]
            /\ \A r \in Scans \ {s} : left'[r] = left[r]
        BY <3>2
      <4> QED
        BY <2>6, <3>2, <4>1, HeartbeatType, YieldType DEF Connect
    <3> QED
      BY <2>6, <3>1, <3>2 DEF Connect
  <2>7. ASSUME NEW s \in Scans, ReadPage(s) PROVE (TypeOK /\ PagesLeft)'
    <3>1. CASE /\ Goto(s, "connection_failed")
               /\ UNCHANGED <<age, left, heard, deaf, faults>>
      BY <2>7, <3>1 DEF ReadPage, Goto
    <3>2. CASE /\ left' = [left EXCEPT ![s] = @ - 1]
               /\ Heartbeat(s, FALSE)
               /\ Yield(s)
      <4>1. left' \in [Scans -> 0..MaxPages]
            /\ \A r \in Scans \ {s} : left'[r] = left[r]
        BY <2>7, <3>2 DEF ReadPage
      <4> QED
        BY <2>7, <3>2, <4>1, HeartbeatType, YieldType DEF ReadPage
    <3> QED
      BY <2>7, <3>1, <3>2 DEF ReadPage
  <2>8. ASSUME NEW s \in Scans, FinalizeRead(s) PROVE (TypeOK /\ PagesLeft)'
    BY <2>8 DEF FinalizeRead, Goto, Fault
  <2>9. ASSUME NEW s \in Scans, FinalizeCommit(s) PROVE (TypeOK /\ PagesLeft)'
    <3>1. status' \in [Scans -> RowStatus] /\ published' \subseteq Scans
      BY <2>9 DEF FinalizeCommit
    <3>2. Return(s, "completed") \/ Throw(s)
      BY <2>9 DEF FinalizeCommit
    <3>3. pc' \in [Scans -> PC] /\ idle' \in [Scans -> 0..MaxStep] /\ PagesLeft'
      <4>1. CASE Return(s, "completed")
        BY <4>1 DEF Return, Goto
      <4>2. CASE Throw(s)
        BY <4>2 DEF Throw, Goto
      <4> QED
        BY <3>2, <4>1, <4>2
    <3>5. left' \in [Scans -> 0..MaxPages] /\ gauge' \in Int
          /\ events' \in [Scans -> SUBSET Outcomes]
      BY <3>2 DEF Return, Throw
    <3>6. heard' \in [Scans -> BOOLEAN]
      BY <3>2, Zenon DEF Return, Throw
    <3>4. faults' \in 0..MaxFaults
      BY <2>9 DEF FinalizeCommit, Fault
    <3> QED
      BY <2>9, <3>1, <3>3, <3>4, <3>5, <3>6 DEF FinalizeCommit
  <2>10. ASSUME NEW s \in Scans, FailScanSafe(s) PROVE (TypeOK /\ PagesLeft)'
    BY <2>10 DEF FailScanSafe, CloseRow, Return, Goto, Fault
  <2>11. ASSUME NEW src \in Sources, DeleteSource(src) PROVE (TypeOK /\ PagesLeft)'
    BY <2>11 DEF DeleteSource
  <2>12. CASE BootSelect
    BY <2>12 DEF BootSelect
  <2>13. CASE PeriodicSelect
    BY <2>13 DEF PeriodicSelect, Overdue
  <2>14. CASE ReaperCommit
    BY <2>14 DEF ReaperCommit
  <2>15. CASE ReaperAbort
    BY <2>15 DEF ReaperAbort, Fault
  <2>16. CASE ReaperEmit
    BY <2>16 DEF ReaperEmit
  <2>17. CASE Drain
    BY <2>17 DEF Drain
  <2>18. CASE Crash \/ Exit
    <3>1. Die
      BY <2>18 DEF Crash, Exit
    <3>2. /\ pc' \in [Scans -> PC] /\ idle' \in [Scans -> 0..MaxStep]
          /\ left' \in [Scans -> 0..MaxPages]
          /\ heard' \in [Scans -> BOOLEAN]
          /\ PagesLeft'
      BY <3>1 DEF Die
    <3> QED
      BY <3>1, <3>2 DEF Die
  <2>19. CASE Restart
    BY <2>19 DEF Restart
  <2>20. CASE Tick
    BY <2>20 DEF Tick
  <2>21. CASE UNCHANGED vars
    BY <2>21 DEF vars
  <2> QED
    BY <2>1, <2>2, <2>3, <2>4, <2>5, <2>6, <2>7, <2>8, <2>9, <2>10, <2>11,
       <2>12, <2>13, <2>14, <2>15, <2>16, <2>17, <2>18, <2>19, <2>20, <2>21
       DEF Next, RunnerStep
<1> QED
  BY <1>1, <1>2, PTL DEF Spec

-----------------------------------------------------------------------------
\* The terminal states.

\* What OutcomeConsistent says of one row, and that a row never inserted has
\* left no trace.
RowSound(s) ==
  /\ status[s] = "completed" => s \in published
  /\ s \in published => status[s] \in {"completed", "deleted"}
  /\ status[s] = "failed" => closing[s] # {}
  /\ closing[s] # {} => s \notin published /\ ~Running(s)
  /\ \A r, q \in closing[s] : r = q
  /\ status[s] = "none" => closing[s] = {}

\* A row is closed once: failScan and the reaper close running rows only.
LEMMA CloseRowSound ==
  ASSUME TypeOK, NEW s \in Scans, NEW t \in Scans, NEW reason \in FailReasons,
         RowSound(t), CloseRow(s, reason), UNCHANGED published
  PROVE  RowSound(t)'
<1>1. CASE s = t /\ Running(s)
  <2>1. closing[t] = {}
    BY <1>1 DEF RowSound
  <2>2. status'[t] = "failed" /\ closing'[t] = {reason}
    BY <1>1, <2>1 DEF TypeOK, CloseRow
  <2> QED
    BY <1>1, <2>2 DEF RowSound, Running
<1>2. CASE ~(s = t /\ Running(s))
  BY <1>2 DEF TypeOK, CloseRow, RowSound, Running
<1> QED
  BY <1>1, <1>2

\* The steps that leave the rows of `scans' and their traces alone.
LEMMA OtherSteps ==
  ASSUME [Next]_vars
  PROVE  \/ \E s \in Scans : \/ StartScan(s) \/ StartScanLost(s)
                             \/ FinalizeCommit(s) \/ FailScanSafe(s)
         \/ \E src \in Sources : DeleteSource(src)
         \/ ReaperCommit
         \/ UNCHANGED <<exists, status, sourceOf, closing, published>>
<1> USE DEF rowVars
<1>1. ASSUME NEW s \in Scans, RequestCancel(s) \/ LaunchRunner(s) \/ LoadSource(s)
        \/ Connect(s) \/ ReadPage(s) \/ FinalizeRead(s)
      PROVE UNCHANGED <<exists, status, sourceOf, closing, published>>
  BY <1>1 DEF RequestCancel, LaunchRunner, LoadSource, Connect, ReadPage, FinalizeRead
<1>2. ASSUME BootSelect \/ PeriodicSelect \/ ReaperAbort \/ ReaperEmit \/ Drain
        \/ Crash \/ Exit \/ Restart \/ Tick \/ UNCHANGED vars
      PROVE UNCHANGED <<exists, status, sourceOf, closing, published>>
  BY <1>2 DEF BootSelect, PeriodicSelect, ReaperAbort, ReaperEmit, Drain, Crash,
     Exit, Die, Restart, Tick, vars
<1> QED
  BY <1>1, <1>2 DEF Next, RunnerStep

\* One terminal state per scan, with the traces that belong to it, whoever
\* ended it: OutcomeConsistent, for every number of scans and crashes.
THEOREM OutcomesAgree == Spec => []OutcomeConsistent
<1> DEFINE Sound == \A s \in Scans : RowSound(s)
<1>1. Init => Sound
  BY DEF Init, RowSound, Running
<1>2. TypeOK /\ Sound /\ [Next]_vars => Sound'
  <2> SUFFICES ASSUME TypeOK, Sound, [Next]_vars, NEW t \in Scans
               PROVE  RowSound(t)'
    OBVIOUS
  <2>0. RowSound(t)
    OBVIOUS
  <2> USE DEF TypeOK, Running, rowVars
  <2>1. ASSUME NEW s \in Scans, StartScan(s) \/ StartScanLost(s)
        PROVE  RowSound(t)'
    BY <2>0, <2>1 DEF StartScan, StartScanLost, InsertRunning, RowSound
  <2>2. ASSUME NEW s \in Scans, FinalizeCommit(s) PROVE RowSound(t)'
    BY <2>0, <2>2 DEF FinalizeCommit, RowSound
  <2>3. ASSUME NEW s \in Scans, FailScanSafe(s) PROVE RowSound(t)'
    <3>1. CASE CloseRow(s, pc[s])
      BY <2>0, <2>3, <3>1, CloseRowSound DEF FailScanSafe
    <3>2. CASE UNCHANGED <<status, closing>>
      BY <2>0, <2>3, <3>2 DEF FailScanSafe, RowSound
    <3> QED
      BY <2>3, <3>1, <3>2 DEF FailScanSafe
  <2>4. ASSUME NEW src \in Sources, DeleteSource(src) PROVE RowSound(t)'
    BY <2>0, <2>4 DEF DeleteSource, RowSound
  <2>5. CASE ReaperCommit
    <3>1. CASE t \in stale /\ Running(t)
      <4>1. closing[t] = {}
        BY <2>0, <3>1 DEF RowSound
      <4>2. status'[t] = "failed" /\ closing'[t] = {"timeout"}
        BY <2>5, <3>1, <4>1 DEF ReaperCommit
      <4> QED
        BY <2>0, <2>5, <3>1, <4>2 DEF ReaperCommit, RowSound
    <3>2. CASE ~(t \in stale /\ Running(t))
      BY <2>0, <2>5, <3>2 DEF ReaperCommit, RowSound
    <3> QED
      BY <3>1, <3>2
  <2>6. CASE UNCHANGED <<status, closing, published>>
    BY <2>0, <2>6 DEF RowSound
  <2> QED
    BY <2>1, <2>2, <2>3, <2>4, <2>5, <2>6, OtherSteps
<1>3. Sound => OutcomeConsistent
  BY DEF RowSound, OutcomeConsistent
<1> QED
  BY <1>1, <1>2, <1>3, TypeCorrect, PTL DEF Spec

-----------------------------------------------------------------------------
(* The rows implement ScanRows. *)

\* Every step of the detailed specification is a step of the abstract one or
\* leaves its variables alone; a step of FailScanSafe or of ReaperCommit fails
\* the running rows it closes, possibly none.
THEOREM RowsImplemented == Spec => RowsSpec
<1>1. Init => Rows!Init
  BY DEF Init, Rows!Init
<1>2. TypeOK /\ [Next]_vars => [Rows!Next]_(Rows!vars)
  <2> SUFFICES ASSUME TypeOK, [Next]_vars
               PROVE  Rows!Next \/ UNCHANGED Rows!vars
    BY DEF Rows!vars
  <2> USE DEF TypeOK, Running, rowVars, Rows!Next, Rows!vars
  <2>1. ASSUME NEW s \in Scans, StartScan(s) \/ StartScanLost(s)
        PROVE  Rows!Next
    <3>1. Rows!Start(s)
      BY <2>1 DEF StartScan, StartScanLost, InsertRunning, Rows!Start
    <3> QED
      BY <3>1
  <2>2. ASSUME NEW s \in Scans, FinalizeCommit(s)
        PROVE  Rows!Next \/ UNCHANGED Rows!vars
    <3>1. Rows!Complete(s) \/ UNCHANGED Rows!vars
      BY <2>2 DEF FinalizeCommit, Rows!Complete
    <3> QED
      BY <3>1
  <2>3. ASSUME NEW s \in Scans, FailScanSafe(s)
        PROVE  Rows!Next \/ UNCHANGED Rows!vars
    <3>1. CASE Running(s) /\ CloseRow(s, pc[s])
      <4>1. Rows!Fail({s})
        BY <2>3, <3>1 DEF FailScanSafe, CloseRow, Rows!Fail
      <4> QED
        BY <4>1
    <3>2. CASE ~(Running(s) /\ CloseRow(s, pc[s]))
      BY <2>3, <3>2 DEF FailScanSafe, CloseRow
    <3> QED
      BY <3>1, <3>2
  <2>4. ASSUME NEW src \in Sources, DeleteSource(src) PROVE Rows!Next
    <3>1. Rows!Delete(src)
      BY <2>4 DEF DeleteSource, Rows!Delete
    <3> QED
      BY <3>1
  <2>5. CASE ReaperCommit
    <3>1. stale' \in SUBSET Scans /\ Rows!Fail(stale')
      BY <2>5 DEF ReaperCommit, Rows!Fail
    <3> QED
      BY <3>1
  <2>6. CASE UNCHANGED <<exists, status, sourceOf, closing, published>>
    BY <2>6
  <2> QED
    BY <2>1, <2>2, <2>3, <2>4, <2>5, <2>6, OtherSteps
<1> QED
  BY <1>1, <1>2, TypeCorrect, PTL DEF Spec, RowsSpec, Rows!Spec

-----------------------------------------------------------------------------
(* The reaper and the runners. *)

\* The runner has a row to work on: at each of these points its scan has not
\* been ended by anybody but the reaper.
AtWork(s) == pc[s] \in Working \cup {"accepted"}

\* How old the sign of life of a heard runner may be at each point: one await
\* has passed since the point was reached at most.
Punctual(s) ==
  /\ pc[s] = "accepted" => age[s] <= StartLag + idle[s]
  /\ pc[s] = "load" => age[s] <= StartLag + MaxStep + idle[s]
  /\ pc[s] = "connect" => age[s] <= StartLag + 2 * MaxStep + idle[s]
  /\ pc[s] \in {"page", "finalize"} => age[s] < HbInterval + idle[s]
  /\ pc[s] = "commit" => age[s] < HbInterval + MaxStep + idle[s]
  /\ pc[s] \in FailReasons => age[s] <= TTL - MaxStep + idle[s]

\* The strengthening of LiveRunnerNotReaped, one scan at a time.  A row that was
\* never inserted is nowhere; a process that is down runs nothing; a row on
\* the list of a sweep has no runner, or one that lost its heartbeat.
Heard(s) ==
  /\ status[s] = "none" =>
       closing[s] = {} /\ pc[s] = "none" /\ age[s] = 0 /\ s \notin stale
  /\ status[s] = "deleted" => ~exists[sourceOf[s]]
  /\ proc = "down" => ~Live(s)
  /\ Live(s) /\ ~deaf[s] /\ Running(s) => Punctual(s)
  /\ s \in stale /\ Running(s) /\ phase = "boot" => ~Live(s)
  /\ s \in stale /\ Running(s) /\ phase = "selected" => ~Live(s) \/ deaf[s]
  /\ Live(s) /\ ~deaf[s] => "timeout" \notin closing[s]
  /\ AtWork(s) /\ ~deaf[s] => status[s] \in {"running", "deleted"}

\* A punctual runner is never overdue.
LEMMA PunctualNotOverdue ==
  ASSUME TimingAssumption, TypeOK, NEW s \in Scans, Punctual(s), Live(s)
  PROVE  s \notin Overdue
BY ConstantsAssumption
   DEF TimingAssumption, TypeOK, Punctual, Overdue, Live, PC, Pipeline, Working

\* The inductive step, action by action.
LEMMA HeardStep ==
  ASSUME TimingAssumption, TypeOK, TypeOK', PagesLeft, [Next]_vars,
         NEW t \in Scans, Heard(t)
  PROVE  Heard(t)'
<1> USE ConstantsAssumption
    DEF TimingAssumption, TypeOK, Running, Live, rowVars, runVars, reapVars,
        boundVars, Heard, AtWork, Working, Alive
<1>1. ASSUME NEW s \in Scans, StartScan(s) PROVE Heard(t)'
  BY <1>1 DEF StartScan, InsertRunning, Punctual, FailReasons
<1>2. ASSUME NEW s \in Scans, StartScanLost(s) PROVE Heard(t)'
  BY <1>2 DEF StartScanLost, InsertRunning, Punctual
<1>3. ASSUME NEW s \in Scans, RequestCancel(s) PROVE Heard(t)'
  BY <1>3 DEF RequestCancel, Punctual
<1>4. ASSUME NEW s \in Scans, LaunchRunner(s) PROVE Heard(t)'
  BY <1>4 DEF LaunchRunner, Goto, Punctual, FailReasons
<1>5. ASSUME NEW s \in Scans, LoadSource(s) PROVE Heard(t)'
  BY <1>5 DEF LoadSource, Goto, Punctual, FailReasons
<1>6. ASSUME NEW s \in Scans, Connect(s) PROVE Heard(t)'
  BY <1>6 DEF Connect, Heartbeat, Yield, Goto, Punctual, FailReasons
<1>7. ASSUME NEW s \in Scans, ReadPage(s) PROVE Heard(t)'
  BY <1>7 DEF ReadPage, Heartbeat, Yield, Goto, Punctual, FailReasons
<1>8. ASSUME NEW s \in Scans, FinalizeRead(s) PROVE Heard(t)'
  BY <1>8 DEF FinalizeRead, Goto, Punctual, FailReasons
<1>9. ASSUME NEW s \in Scans, FinalizeCommit(s) PROVE Heard(t)'
  BY <1>9 DEF FinalizeCommit, Return, Throw, Goto, Punctual, FailReasons
<1>10. ASSUME NEW s \in Scans, FailScanSafe(s) PROVE Heard(t)'
  BY <1>10 DEF FailScanSafe, CloseRow, Return, Goto, Punctual, FailReasons
<1>11. ASSUME NEW src \in Sources, DeleteSource(src) PROVE Heard(t)'
  BY <1>11 DEF DeleteSource, Punctual
<1>12. CASE BootSelect
  BY <1>12 DEF BootSelect, Punctual
<1>13. CASE PeriodicSelect
  BY <1>13, PunctualNotOverdue DEF PeriodicSelect, Punctual, Overdue
<1>14. CASE ReaperCommit
  BY <1>14 DEF ReaperCommit, Punctual
<1>15. CASE ReaperAbort \/ ReaperEmit \/ Drain \/ Crash \/ Exit \/ Restart
  BY <1>15 DEF ReaperAbort, ReaperEmit, Drain, Crash, Exit, Die, Restart, Punctual
<1>16. CASE Tick
  BY <1>16 DEF Tick, Punctual
<1>17. CASE UNCHANGED vars
  BY <1>17 DEF vars, Punctual
<1> QED
  BY <1>1, <1>2, <1>3, <1>4, <1>5, <1>6, <1>7, <1>8, <1>9, <1>10, <1>11, <1>12,
     <1>13, <1>14, <1>15, <1>16, <1>17 DEF Next, RunnerStep

\* The strengthening holds in every state.
LEMMA AllHeard ==
  ASSUME TimingAssumption
  PROVE  Spec => [](TypeOK /\ PagesLeft /\ \A s \in Scans : Heard(s))
<1> DEFINE HeardInv == \A s \in Scans : Heard(s)
<1>1. Init => HeardInv
  BY DEF Init, Heard, Live, Running, AtWork, Working
<1>2. TypeOK /\ TypeOK' /\ PagesLeft /\ HeardInv /\ [Next]_vars => HeardInv'
  BY TimingAssumption, HeardStep
<1> QED
  BY <1>1, <1>2, TypeCorrect, PTL DEF Spec

\* With the settings in the right relation no sweep, of the boot or periodic,
\* ever takes the row of a runner that works and is heard.
THEOREM LiveRunnersSpared ==
  ASSUME TimingAssumption
  PROVE  Spec => []LiveRunnerNotReaped
<1>1. (\A s \in Scans : Heard(s)) => LiveRunnerNotReaped
  BY DEF Heard, LiveRunnerNotReaped
<1> QED
  BY <1>1, AllHeard, TimingAssumption, PTL

\* Of two runners with a row to work on and one source, one lost its heartbeat.
OneAtWork ==
  \A r, s \in Scans : r # s /\ AtWork(r) /\ AtWork(s) /\ sourceOf[r] = sourceOf[s]
                      => deaf[r] \/ deaf[s]

\* Only the insertion of a row puts a new runner to work.
LEMMA AtWorkOrigin ==
  ASSUME TypeOK, [Next]_vars, NEW t \in Scans, AtWork(t)', ~AtWork(t)
  PROVE  StartScan(t)
<1> USE DEF TypeOK, AtWork, Working, runVars, FailReasons
<1>1. ASSUME NEW s \in Scans,
             LaunchRunner(s) \/ LoadSource(s) \/ Connect(s) \/ ReadPage(s)
               \/ FinalizeRead(s)
      PROVE  FALSE
  BY <1>1 DEF LaunchRunner, LoadSource, Connect, ReadPage, FinalizeRead, Yield, Goto
<1>2. ASSUME NEW s \in Scans, FinalizeCommit(s) \/ FailScanSafe(s)
      PROVE  FALSE
  BY <1>2 DEF FinalizeCommit, FailScanSafe, Return, Throw, Goto
<1>3. ASSUME NEW s \in Scans, StartScan(s)
      PROVE  s = t
  BY <1>3 DEF StartScan
<1>4. ASSUME \/ \E s \in Scans : StartScanLost(s) \/ RequestCancel(s)
             \/ \E src \in Sources : DeleteSource(src)
             \/ BootSelect \/ PeriodicSelect \/ ReaperCommit \/ ReaperAbort
             \/ ReaperEmit \/ Drain \/ Crash \/ Exit \/ Restart \/ Tick
             \/ UNCHANGED vars
      PROVE  FALSE
  BY <1>4 DEF StartScanLost, RequestCancel, DeleteSource, BootSelect, PeriodicSelect,
     ReaperCommit, ReaperAbort, ReaperEmit, Drain, Crash, Exit, Die, Restart, Tick, vars
<1> QED
  BY <1>1, <1>2, <1>3, <1>4 DEF Next, RunnerStep

\* A source is fixed when the row is inserted and a lost heartbeat stays lost.
LEMMA DeafStays ==
  ASSUME TypeOK, [Next]_vars, NEW t \in Scans
  PROVE  sourceOf' = sourceOf /\ (deaf[t] => deaf'[t])
<1> USE DEF TypeOK, runVars, rowVars
<1>1. ASSUME NEW s \in Scans, Connect(s) \/ ReadPage(s)
      PROVE  sourceOf' = sourceOf /\ (deaf[t] => deaf'[t])
  BY <1>1 DEF Connect, ReadPage, Heartbeat
<1>2. ASSUME \/ \E s \in Scans :
                  \/ StartScan(s) \/ StartScanLost(s) \/ RequestCancel(s)
                  \/ LaunchRunner(s) \/ LoadSource(s) \/ FinalizeRead(s)
                  \/ FinalizeCommit(s) \/ FailScanSafe(s)
             \/ \E src \in Sources : DeleteSource(src)
             \/ BootSelect \/ PeriodicSelect \/ ReaperCommit \/ ReaperAbort
             \/ ReaperEmit \/ Drain \/ Crash \/ Exit \/ Restart \/ Tick
             \/ UNCHANGED vars
      PROVE  UNCHANGED <<sourceOf, deaf>>
  BY <1>2 DEF StartScan, StartScanLost, RequestCancel, LaunchRunner, LoadSource,
     FinalizeRead, FinalizeCommit, FailScanSafe, DeleteSource, BootSelect, PeriodicSelect,
     ReaperCommit, ReaperAbort, ReaperEmit, Drain, Crash, Exit, Die, Restart, Tick, vars
<1> QED
  BY <1>1, <1>2 DEF Next, RunnerStep

\* Two runners never read one source at a time unless one of them lost its
\* heartbeat: a new row is inserted only when no row of the source runs, and a
\* heard runner at work keeps its row running until it is deleted.
THEOREM OneRunner ==
  ASSUME TimingAssumption
  PROVE  Spec => []OneRunnerPerSource
<1> DEFINE HeardInv == \A s \in Scans : Heard(s)
<1>1. Init => OneAtWork
  BY DEF Init, OneAtWork, AtWork, Working
<1>2. TypeOK /\ HeardInv /\ OneAtWork /\ [Next]_vars => OneAtWork'
  <2> SUFFICES ASSUME TypeOK, HeardInv, OneAtWork, [Next]_vars,
                      NEW r \in Scans, NEW s \in Scans,
                      r # s, AtWork(r)', AtWork(s)', sourceOf'[r] = sourceOf'[s]
               PROVE  deaf'[r] \/ deaf'[s]
    BY DEF OneAtWork
  <2>1. ASSUME NEW x \in Scans, NEW y \in Scans, x # y, StartScan(x), AtWork(y)',
               sourceOf[x] = sourceOf[y]
        PROVE  deaf'[y]
    <3>1. AtWork(y) /\ deaf' = deaf
      BY <2>1 DEF StartScan, AtWork, TypeOK
    <3>2. exists[sourceOf[x]] /\ ~Running(y)
      BY <2>1 DEF StartScan, InsertRunning
    <3>3. status[y] # "deleted" /\ Heard(y)
      BY <2>1, <3>2 DEF Heard
    <3> QED
      BY <3>1, <3>2, <3>3 DEF Heard, Running
  <2>2. CASE AtWork(r) /\ AtWork(s)
    BY <2>2, DeafStays DEF OneAtWork
  <2>3. CASE ~AtWork(r)
    BY <2>1, <2>3, AtWorkOrigin, DeafStays
  <2>4. CASE ~AtWork(s)
    BY <2>1, <2>4, AtWorkOrigin, DeafStays
  <2> QED
    BY <2>2, <2>3, <2>4
<1>3. OneAtWork => OneRunnerPerSource
  BY DEF OneAtWork, OneRunnerPerSource, AtWork, Working, Reads
<1> QED
  BY <1>1, <1>2, <1>3, AllHeard, TimingAssumption, PTL DEF Spec

-----------------------------------------------------------------------------
(* Events, orphans and the gauge. *)

\* What happens to the events, the rows and the runner of one scan.
Explained(s) ==
  /\ "completed" \in events[s] =>
       s \in published \/ deaf[s] \/ status[s] = "deleted"
  /\ Running(s) /\ ~Live(s) => faults > 0 \/ crashes > 0

LEMMA ExplainedStep ==
  ASSUME TypeOK, TypeOK', [Next]_vars, NEW t \in Scans, Heard(t), Explained(t)
  PROVE  Explained(t)'
<1> USE ConstantsAssumption
    DEF TypeOK, Running, Live, rowVars, runVars, reapVars, boundVars, Explained, Fault
<1>1. ASSUME NEW s \in Scans,
             StartScan(s) \/ StartScanLost(s) \/ RequestCancel(s)
      PROVE  Explained(t)'
  BY <1>1 DEF StartScan, StartScanLost, InsertRunning, RequestCancel
<1>2. ASSUME NEW s \in Scans, LaunchRunner(s) \/ LoadSource(s) \/ FinalizeRead(s)
      PROVE  Explained(t)'
  BY <1>2 DEF LaunchRunner, LoadSource, FinalizeRead, Goto
<1>3. ASSUME NEW s \in Scans, Connect(s) \/ ReadPage(s) PROVE Explained(t)'
  BY <1>3 DEF Connect, ReadPage, Heartbeat, Yield, Goto
<1>4. ASSUME NEW s \in Scans, FinalizeCommit(s) PROVE Explained(t)'
  <2>1. CASE s = t
    BY <1>4, <2>1 DEF FinalizeCommit, Return, Throw, Goto, Heard, AtWork, Working
  <2>2. CASE s # t
    BY <1>4, <2>2 DEF FinalizeCommit, Return, Throw, Goto
  <2> QED
    BY <2>1, <2>2
<1>5. ASSUME NEW s \in Scans, FailScanSafe(s) PROVE Explained(t)'
  BY <1>5 DEF FailScanSafe, CloseRow, Return, Goto
<1>6. ASSUME NEW src \in Sources, DeleteSource(src) PROVE Explained(t)'
  BY <1>6 DEF DeleteSource
<1>7. CASE ReaperCommit \/ ReaperEmit
  BY <1>7 DEF ReaperCommit, ReaperEmit
<1>8. CASE BootSelect \/ PeriodicSelect \/ ReaperAbort \/ Drain \/ Restart \/ Tick
  BY <1>8 DEF BootSelect, PeriodicSelect, ReaperAbort, Drain, Restart, Tick
<1>9. CASE Crash \/ Exit
  BY <1>9 DEF Crash, Exit, Die
<1>10. CASE UNCHANGED vars
  BY <1>10 DEF vars
<1> QED
  BY <1>1, <1>2, <1>3, <1>4, <1>5, <1>6, <1>7, <1>8, <1>9, <1>10 DEF Next, RunnerStep

\* scan_completed is only wrong about a scan whose row was reaped while its
\* heartbeat was lost, and only a failure leaves a running row without runner.
THEOREM CompletedExplained ==
  ASSUME TimingAssumption
  PROVE  Spec => [](CompletedEventExplained /\ OrphanOnlyAfterFailure)
<1> DEFINE Inv == \A s \in Scans : Explained(s)
           HeardInv == \A s \in Scans : Heard(s)
<1>1. Init => Inv
  BY DEF Init, Explained, Running, Live
<1>2. TypeOK /\ TypeOK' /\ HeardInv /\ Inv /\ [Next]_vars => Inv'
  BY ExplainedStep
<1>3. Inv => CompletedEventExplained /\ OrphanOnlyAfterFailure
  BY DEF Explained, CompletedEventExplained, OrphanOnlyAfterFailure, Orphan
<1> QED
  BY <1>1, <1>2, <1>3, AllHeard, TimingAssumption, PTL DEF Spec

\* A scan whose row was never inserted has no runner.
FreshIdle == \A s \in Scans : status[s] = "none" => pc[s] = "none"

LEMMA FreshIdleCorrect == Spec => []FreshIdle
<1>1. Init => FreshIdle
  BY DEF Init, FreshIdle
<1>2. TypeOK /\ FreshIdle /\ [Next]_vars => FreshIdle'
  <2> SUFFICES ASSUME TypeOK, FreshIdle, [Next]_vars PROVE FreshIdle'
    OBVIOUS
  <2> USE DEF TypeOK, FreshIdle, Running, rowVars, runVars, FailReasons
  <2>1. ASSUME NEW s \in Scans, StartScan(s) \/ StartScanLost(s) \/ RequestCancel(s)
        PROVE  FreshIdle'
    BY <2>1 DEF StartScan, StartScanLost, InsertRunning, RequestCancel
  <2>2. ASSUME NEW s \in Scans,
               \/ LaunchRunner(s) \/ LoadSource(s) \/ Connect(s) \/ ReadPage(s)
               \/ FinalizeRead(s)
        PROVE  FreshIdle'
    BY <2>2 DEF LaunchRunner, LoadSource, Connect, ReadPage, FinalizeRead, Yield, Goto
  <2>3. ASSUME NEW s \in Scans, FinalizeCommit(s) \/ FailScanSafe(s)
        PROVE  FreshIdle'
    BY <2>3 DEF FinalizeCommit, FailScanSafe, CloseRow, Return, Throw, Goto
  <2>4. ASSUME \/ \E src \in Sources : DeleteSource(src)
               \/ BootSelect \/ PeriodicSelect \/ ReaperCommit \/ ReaperAbort
               \/ ReaperEmit \/ Drain \/ Crash \/ Exit \/ Restart \/ Tick
               \/ UNCHANGED vars
        PROVE  FreshIdle'
    BY <2>4 DEF DeleteSource, BootSelect, PeriodicSelect, ReaperCommit, ReaperAbort,
       ReaperEmit, Drain, Crash, Exit, Die, Restart, Tick, vars
  <2> QED
    BY <2>1, <2>2, <2>3, <2>4 DEF Next, RunnerStep
<1> QED
  BY <1>1, <1>2, TypeCorrect, PTL DEF Spec

\* The steps that leave the set of pipelines and its counter alone.
LEMMA GaugeSteps ==
  ASSUME TypeOK, FreshIdle, [Next]_vars
  PROVE  \/ \E s \in Scans : /\ s \notin Active /\ Active' = Active \cup {s}
                             /\ gauge' = gauge + 1
         \/ \E s \in Scans : /\ s \in Active /\ Active' = Active \ {s}
                             /\ gauge' = gauge - 1
         \/ Active' = {} /\ gauge' = 0
         \/ Active' = Active /\ gauge' = gauge
<1> USE DEF TypeOK, runVars, Active, Pipeline, Working, FailReasons, Goto
<1>1. ASSUME NEW s \in Scans, LaunchRunner(s)
      PROVE  s \notin Active /\ Active' = Active \cup {s} /\ gauge' = gauge + 1
  BY <1>1 DEF LaunchRunner
<1>2. ASSUME NEW s \in Scans, FinalizeCommit(s) \/ FailScanSafe(s)
      PROVE  \/ s \in Active /\ Active' = Active \ {s} /\ gauge' = gauge - 1
             \/ Active' = Active /\ gauge' = gauge
  <2>1. s \in Active
    BY <1>2 DEF FinalizeCommit, FailScanSafe
  <2>2. CASE Throw(s)
    BY <2>1, <2>2 DEF Throw
  <2>3. ASSUME NEW outcome, Return(s, outcome)
        PROVE  Active' = Active \ {s} /\ gauge' = gauge - 1
    BY <2>1, <2>3 DEF Return
  <2> QED
    BY <1>2, <2>1, <2>2, <2>3 DEF FinalizeCommit, FailScanSafe
<1>3. ASSUME NEW s \in Scans,
             StartScan(s) \/ LoadSource(s) \/ Connect(s) \/ ReadPage(s) \/ FinalizeRead(s)
      PROVE  Active' = Active /\ gauge' = gauge
  <2>1. CASE StartScan(s)
    BY <2>1 DEF StartScan, InsertRunning, FreshIdle
  <2>2. ASSUME NEW point \in Pipeline, s \in Active, Goto(s, point)
        PROVE  Active' = Active
    BY <2>2
  <2>3. ASSUME Yield(s), s \in Active PROVE Active' = Active
    <3>1. \E point \in {"cancelled", "finalize", "page"} : Goto(s, point)
      BY <2>3 DEF Yield
    <3> QED
      BY <3>1, <2>2, <2>3
  <2>4. CASE LoadSource(s) \/ FinalizeRead(s)
    BY <2>2, <2>4 DEF LoadSource, FinalizeRead
  <2>5. CASE Connect(s) \/ ReadPage(s)
    BY <2>2, <2>3, <2>5 DEF Connect, ReadPage
  <2> QED
    BY <1>3, <2>1, <2>4, <2>5
<1>4. ASSUME \/ \E s \in Scans : StartScanLost(s) \/ RequestCancel(s)
             \/ \E src \in Sources : DeleteSource(src)
             \/ BootSelect \/ PeriodicSelect \/ ReaperCommit \/ ReaperAbort
             \/ ReaperEmit \/ Drain \/ Restart \/ Tick \/ UNCHANGED vars
      PROVE  Active' = Active /\ gauge' = gauge
  BY <1>4 DEF StartScanLost, RequestCancel, DeleteSource, BootSelect, PeriodicSelect,
     ReaperCommit, ReaperAbort, ReaperEmit, Drain, Restart, Tick, vars
<1>5. CASE Crash \/ Exit
  BY <1>5 DEF Crash, Exit, Die
<1> QED
  BY <1>1, <1>2, <1>3, <1>4, <1>5 DEF Next, RunnerStep

\* active_scans counts the pipelines of the process.
THEOREM GaugeCorrect == Spec => []GaugeExact
<1> DEFINE Inv == IsFiniteSet(Active) /\ GaugeExact
<1>1. Init => Inv
  <2> SUFFICES ASSUME Init PROVE Inv
    OBVIOUS
  <2>1. Active = {}
    BY DEF Init, Active, Pipeline, Working, FailReasons
  <2> QED
    BY <2>1, FS_EmptySet DEF Init, GaugeExact
<1>2. TypeOK /\ FreshIdle /\ Inv /\ [Next]_vars => Inv'
  <2> SUFFICES ASSUME TypeOK, FreshIdle, Inv, [Next]_vars PROVE Inv'
    OBVIOUS
  <2>1. CASE \E s \in Scans : /\ s \notin Active /\ Active' = Active \cup {s}
                             /\ gauge' = gauge + 1
    BY <2>1, FS_AddElement DEF GaugeExact
  <2>2. CASE \E s \in Scans : /\ s \in Active /\ Active' = Active \ {s}
                             /\ gauge' = gauge - 1
    BY <2>2, FS_RemoveElement DEF GaugeExact
  <2>3. CASE Active' = {} /\ gauge' = 0
    BY <2>3, FS_EmptySet DEF GaugeExact
  <2>4. CASE Active' = Active /\ gauge' = gauge
    BY <2>4 DEF GaugeExact
  <2> QED
    BY <2>1, <2>2, <2>3, <2>4, GaugeSteps
<1>3. Inv => GaugeExact
  OBVIOUS
<1> QED
  BY <1>1, <1>2, <1>3, TypeCorrect, FreshIdleCorrect, PTL DEF Spec

-----------------------------------------------------------------------------
(* Cancellation. *)

\* A runner whose row bears a cancel has heard of it, or has not written since.
CancelPending(s) ==
  /\ status[s] = "none" => ~cancel[s] /\ pc[s] = "none"
  /\ ~cancel[s] => waited[s] = 0
  /\ Running(s) /\ cancel[s] /\ Live(s) => heard[s] \/ waited[s] <= age[s]

\* What a heartbeat of s does to what t has heard.
LEMMA HeartbeatHears ==
  ASSUME TypeOK, NEW s \in Scans, NEW t \in Scans, NEW force \in BOOLEAN, Heartbeat(s, force)
  PROVE  /\ heard[t] => heard'[t]
         /\ age'[t] = age[t] \/ (s = t /\ Running(t) /\ age'[t] = 0)
         /\ s = t /\ Running(t) /\ cancel[t] /\ age'[t] # age[t] => heard'[t]
         /\ s = t /\ Running(t) /\ cancel[t] =>
              heard'[t] \/ deaf'[t] \/ (~force /\ age[t] < HbInterval)
<1>1. CASE /\ deaf[s] \/ (~force /\ age[s] < HbInterval)
           /\ UNCHANGED <<age, heard, deaf, faults>>
  BY <1>1
<1>2. CASE /\ age' = IF Running(s) THEN [age EXCEPT ![s] = 0] ELSE age
           /\ heard' = [heard EXCEPT ![s] = @ \/ (Running(s) /\ cancel[s])]
  <2>1. /\ heard[t] => heard'[t]
        /\ s = t /\ Running(t) /\ cancel[t] => heard'[t]
    BY <1>2, Zenon DEF TypeOK
  <2>2. age'[t] = age[t] \/ (s = t /\ Running(t) /\ age'[t] = 0)
    BY <1>2 DEF TypeOK
  <2> QED
    BY <2>1, <2>2
<1>3. CASE deaf' = [deaf EXCEPT ![s] = TRUE] /\ UNCHANGED <<age, heard>>
  BY <1>3 DEF TypeOK
<1> QED
  BY <1>1, <1>2, <1>3 DEF Heartbeat

LEMMA PendingStep ==
  ASSUME TypeOK, [Next]_vars, NEW t \in Scans, CancelPending(t)
  PROVE  CancelPending(t)'
<1> USE ConstantsAssumption DEF Running, Live, rowVars, runVars, reapVars, boundVars
<1>1. ASSUME NEW s \in Scans, StartScan(s) \/ StartScanLost(s)
      PROVE  CancelPending(t)'
  BY <1>1 DEF StartScan, StartScanLost, InsertRunning, CancelPending, TypeOK
<1>2. ASSUME NEW s \in Scans, RequestCancel(s)
      PROVE  CancelPending(t)'
  <2>1. CASE s = t
    <3>1. waited'[t] = 0 /\ age'[t] \in Nat /\ cancel'[t] /\ status'[t] = "running"
      BY <1>2, <2>1 DEF RequestCancel, CancelPending, TypeOK
    <3> QED
      BY <3>1 DEF CancelPending
  <2>2. CASE s # t
    BY <1>2, <2>2 DEF RequestCancel, CancelPending, TypeOK
  <2> QED
    BY <2>1, <2>2
<1>3. ASSUME NEW s \in Scans, LaunchRunner(s) \/ LoadSource(s) \/ FinalizeRead(s)
      PROVE  CancelPending(t)'
  BY <1>3 DEF LaunchRunner, LoadSource, FinalizeRead, Goto, CancelPending, TypeOK
<1>4. ASSUME NEW s \in Scans, Connect(s) \/ ReadPage(s)
      PROVE  CancelPending(t)'
  <2>1. /\ UNCHANGED <<status, cancel, waited>>
        /\ pc[t] = "none" => pc'[t] = "none"
        /\ Live(t)' => Live(t)
    BY <1>4 DEF Connect, ReadPage, Yield, Goto, TypeOK
  <2>2. /\ heard[t] => heard'[t]
        /\ Running(t) /\ cancel[t] => heard'[t] \/ age'[t] = age[t]
    <3>1. CASE UNCHANGED <<age, heard>>
      BY <3>1
    <3>2. CASE Heartbeat(s, TRUE) \/ Heartbeat(s, FALSE)
      BY <3>2, HeartbeatHears
    <3> QED
      BY <1>4, <3>1, <3>2 DEF Connect, ReadPage
  <2> QED
    BY <2>1, <2>2 DEF CancelPending
<1>5. ASSUME NEW s \in Scans, FinalizeCommit(s) \/ FailScanSafe(s)
      PROVE  CancelPending(t)'
  <2>1. /\ UNCHANGED <<cancel, waited, age>>
        /\ status'[t] = "running" => status[t] = "running"
        /\ status'[t] = "none" => status[t] = "none"
        /\ pc[t] = "none" => pc'[t] = "none"
    BY <1>5 DEF FinalizeCommit, FailScanSafe, CloseRow, Return, Throw, Goto, TypeOK, FailReasons
  <2>2. Live(t)' => Live(t) /\ (heard[t] => heard'[t])
    BY <1>5 DEF FinalizeCommit, FailScanSafe, Return, Throw, Goto, TypeOK, FailReasons
  <2> QED
    BY <2>1, <2>2 DEF CancelPending
<1>6. CASE (\E src \in Sources : DeleteSource(src)) \/ ReaperCommit
  BY <1>6 DEF DeleteSource, ReaperCommit, CancelPending, TypeOK
<1>7. CASE Crash \/ Exit
  BY <1>7 DEF Crash, Exit, Die, CancelPending, TypeOK
<1>8. CASE Tick
  <2>1. /\ UNCHANGED <<status, cancel, pc, heard>>
        /\ ~Running(t) \/ ~cancel[t] => waited'[t] = 0
        /\ Running(t) => age'[t] = IF age[t] < MaxAge THEN age[t] + 1 ELSE age[t]
        /\ Running(t) /\ cancel[t] =>
             waited'[t] = IF waited[t] < HbInterval THEN waited[t] + 1 ELSE waited[t]
    BY <1>8 DEF Tick, TypeOK
  <2>2. age[t] \in 0..MaxAge /\ waited[t] \in 0..HbInterval
    BY DEF TypeOK
  <2>3. Running(t) /\ cancel[t] /\ waited[t] <= age[t] => waited'[t] <= age'[t]
    BY <2>1, <2>2, ClockReaches
  <2> QED
    BY <2>1, <2>3 DEF CancelPending
<1>9. CASE UNCHANGED <<status, cancel, pc, heard, waited, age>>
  BY <1>9 DEF CancelPending
<1> QED
  BY <1>1, <1>2, <1>3, <1>4, <1>5, <1>6, <1>7, <1>8, <1>9
  DEF Next, RunnerStep, BootSelect, PeriodicSelect, ReaperAbort, ReaperEmit, Drain, Restart, vars

LEMMA PassedIsDeaf ==
  ASSUME TypeOK, [Next]_vars, NEW t \in Scans, CancelPending(t),
         PassesYield(t), Running(t), cancel[t], waited[t] >= HbInterval
  PROVE  deaf'[t]
<1>1. pc[t] = "page" /\ left'[t] < left[t] /\ pc'[t] \in {"page", "finalize"}
  BY DEF PassesYield
<1>2. left'[t] # left[t]
  BY <1>1 DEF TypeOK
<1>3. ReadPage(t)
  <2>1. ASSUME NEW s \in Scans, Connect(s) \/ ReadPage(s)
        PROVE  s = t /\ ReadPage(t)
    BY <1>1, <1>2, <2>1 DEF Connect, ReadPage, TypeOK, runVars
  <2>2. ASSUME NEW s \in Scans, FinalizeCommit(s) \/ FailScanSafe(s)
        PROVE  FALSE
    BY <1>1, <1>2, <2>2 DEF FinalizeCommit, FailScanSafe, Return, Throw, Goto, TypeOK, FailReasons
  <2>3. ~Die
    BY <1>1 DEF Die
  <2> QED
    BY <1>2, <2>1, <2>2, <2>3
    DEF Next, RunnerStep, StartScan, StartScanLost, RequestCancel, LaunchRunner, LoadSource,
        FinalizeRead, DeleteSource, BootSelect, PeriodicSelect, ReaperCommit, ReaperAbort,
        ReaperEmit, Drain, Crash, Exit, Restart, Tick, vars, runVars
<1>4. Heartbeat(t, FALSE) /\ Yield(t)
  BY <1>2, <1>3 DEF ReadPage
<1>5. ~heard'[t]
  BY <1>1, <1>4 DEF Yield, Goto, TypeOK
<1>6. waited[t] <= age[t]
  BY <1>1, <1>4, <1>5, HeartbeatHears DEF CancelPending, Live
<1>7. deaf'[t] \/ age[t] < HbInterval
  BY <1>4, <1>5, HeartbeatHears
<1> QED
  BY <1>6, <1>7, ConstantsAssumption DEF TypeOK

\* A cancel is heard at the first yield a heartbeat interval later, unless the heartbeat
\* is lost.
THEOREM CancelIsHeard == Spec => CancelHeard
<1> DEFINE Pending == \A s \in Scans : CancelPending(s)
<1>1. Init => Pending
  BY DEF Init, CancelPending, Running, Live
<1>2. TypeOK /\ Pending /\ [Next]_vars => Pending'
  BY PendingStep
<1>3. TypeOK /\ Pending /\ [Next]_vars =>
        \A s \in Scans :
          PassesYield(s) /\ Running(s) /\ cancel[s] /\ waited[s] >= HbInterval => deaf'[s]
  BY PassedIsDeaf
<1> QED
  BY <1>1, <1>2, <1>3, TypeCorrect, PTL DEF Spec, CancelHeard

-----------------------------------------------------------------------------
(* What the rows promise. *)

\* The types the rows need for it, and the promises, of ScanRows alone.
RowsSound == /\ status \in [Scans -> RowStatus] /\ sourceOf \in [Scans -> Sources]
             /\ Rows!OneRunning

LEMMA RowsStep ==
  ASSUME RowsSound, [Rows!Next]_(Rows!vars)
  PROVE  /\ RowsSound'
         /\ \A s \in Scans :
              /\ status[s] \in {"completed", "failed", "deleted"} =>
                   status'[s] \in {status[s], "deleted"}
              /\ s \in published => s \in published'
              /\ s \in published' \ published =>
                   status[s] = "running" /\ status'[s] = "completed"
<1> USE DEF RowsSound, Rows!OneRunning, RowStatus
<1>1. ASSUME NEW s \in Scans, Rows!Start(s) PROVE RowsSound'
  BY <1>1 DEF Rows!Start
<1>2. ASSUME NEW s \in Scans, Rows!Complete(s) PROVE RowsSound'
  BY <1>2 DEF Rows!Complete
<1>3. ASSUME NEW S \in SUBSET Scans, Rows!Fail(S) PROVE RowsSound'
  BY <1>3 DEF Rows!Fail
<1>4. ASSUME NEW src \in Sources, Rows!Delete(src) PROVE RowsSound'
  BY <1>4 DEF Rows!Delete
<1>5. CASE UNCHANGED Rows!vars
  BY <1>5 DEF Rows!vars
<1>6. RowsSound'
  BY <1>1, <1>2, <1>3, <1>4, <1>5 DEF Rows!Next
<1>7. ASSUME NEW s \in Scans
      PROVE  /\ status[s] \in {"completed", "failed", "deleted"} =>
                  status'[s] \in {status[s], "deleted"}
             /\ s \in published => s \in published'
             /\ s \in published' \ published =>
                  status[s] = "running" /\ status'[s] = "completed"
  BY DEF Rows!Next, Rows!vars, Rows!Start, Rows!Complete, Rows!Fail, Rows!Delete
<1> QED
  BY <1>6, <1>7

\* Of the rows of a source one runs at most, whatever runners, sweeps, crashes and
\* lost answers do, and whatever the settings of time are.
THEOREM OneRowRuns == Spec => []Rows!OneRunning
<1>1. Rows!Init => RowsSound
  BY DEF Rows!Init, RowsSound, Rows!OneRunning, RowStatus
<1>2. RowsSound => Rows!OneRunning
  BY DEF RowsSound
<1> QED
  BY <1>1, <1>2, RowsStep, RowsImplemented, PTL DEF RowsSpec, Rows!Spec

\* A scan ends once: what its runner, a sweep or a repeated call does later changes
\* neither its outcome nor its findings.
THEOREM ScansEndOnce == Spec => Rows!EndsOnce
<1>1. Rows!Init => RowsSound
  BY DEF Rows!Init, RowsSound, Rows!OneRunning, RowStatus
<1> QED
  BY <1>1, RowsStep, RowsImplemented, PTL DEF RowsSpec, Rows!Spec, Rows!EndsOnce

-----------------------------------------------------------------------------
(* Rows without a runner. *)

\* A row whose runner is gone gets no other and never looks younger.
THEOREM OrphansAge == Spec => OrphansGrowOld
<1>1. ASSUME TypeOK, [Next]_vars, NEW t \in Scans, Orphan(t), Running(t)'
      PROVE  ~Live(t)' /\ age'[t] >= age[t]
  <2> USE <1>1, ClockReaches DEF TypeOK, Orphan, Running, Live, rowVars, runVars, reapVars
  <2>1. ASSUME NEW s \in Scans, StartScan(s) \/ StartScanLost(s)
        PROVE  pc'[t] = "none" /\ age'[t] = age[t]
    BY <2>1 DEF StartScan, StartScanLost, InsertRunning
  <2>2. ASSUME NEW s \in Scans, Connect(s) \/ ReadPage(s)
        PROVE  pc'[t] = "none" /\ age'[t] = age[t]
    <3>1. s # t /\ pc'[t] = "none"
      BY <2>2 DEF Connect, ReadPage, Yield, Goto
    <3>2. age'[t] = age[t]
      BY <2>2, <3>1 DEF Connect, ReadPage, Heartbeat
    <3> QED
      BY <3>1, <3>2
  <2>3. ASSUME NEW s \in Scans, LaunchRunner(s) \/ LoadSource(s) \/ FinalizeRead(s)
        PROVE  pc'[t] = "none" /\ age'[t] = age[t]
    BY <2>3 DEF LaunchRunner, LoadSource, FinalizeRead, Goto
  <2>4. ASSUME NEW s \in Scans, FinalizeCommit(s) \/ FailScanSafe(s)
        PROVE  pc'[t] = "none" /\ age'[t] = age[t]
    BY <2>4 DEF FinalizeCommit, FailScanSafe, Return, Throw, Goto, FailReasons
  <2>5. CASE Tick
    BY <2>5 DEF Tick
  <2>6. CASE Crash \/ Exit
    BY <2>6 DEF Crash, Exit, Die
  <2>7. ASSUME \/ \E s \in Scans : RequestCancel(s)
               \/ \E src \in Sources : DeleteSource(src)
               \/ BootSelect \/ PeriodicSelect \/ ReaperCommit \/ ReaperAbort
               \/ ReaperEmit \/ Drain \/ Restart \/ UNCHANGED vars
        PROVE  UNCHANGED <<pc, age>>
    BY <2>7 DEF RequestCancel, DeleteSource, BootSelect, PeriodicSelect, ReaperCommit,
       ReaperAbort, ReaperEmit, Drain, Restart, vars
  <2> QED
    BY <2>1, <2>2, <2>3, <2>4, <2>5, <2>6, <2>7 DEF Next, RunnerStep
<1>2. TypeOK /\ [Next]_vars =>
        \A s \in Scans : Orphan(s) /\ Running(s)' => ~Live(s)' /\ age'[s] >= age[s]
  BY <1>1
<1> QED
  BY <1>2, TypeCorrect, PTL DEF Spec, OrphansGrowOld

=============================================================================
