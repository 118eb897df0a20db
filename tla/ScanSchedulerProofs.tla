------------------------ MODULE ScanSchedulerProofs -------------------------
(***************************************************************************)
(* Theorems of ScanScheduler, for every set of instances, sources and      *)
(* intervals and all settings.                                             *)
(***************************************************************************)
EXTENDS ScanScheduler, TLAPS

\* The bounds that the assumptions put on what a save or a claim writes.
LEMMA Bounds ==
  ASSUME NEW interval \in Intervals, NEW wait \in 0..MaxLag
  PROVE  /\ interval - wait \in Int /\ interval - wait >= -MaxLate
         /\ wait \in 0..MaxSince
BY ConstantsAssumption, SMT

LEMMA IntervalsAreNumbers == \A interval \in Intervals : interval \in Nat
BY ConstantsAssumption

\* All variables keep their types, and a tick the order of its parts.
THEOREM SchedulerTypeCorrect == Spec => []TypeOK
<1> USE ConstantsAssumption DEF TypeOK, Result, Step, Dispatching
<1>1. Init => TypeOK
  BY SMT DEF Init
<1>2. TypeOK /\ [Next]_vars => TypeOK'
  <2> SUFFICES ASSUME TypeOK, [Next]_vars PROVE TypeOK'
    OBVIOUS
  <2> USE DEF rowVars, tickVars, boundVars
  <2>1. ASSUME NEW src \in Sources, NEW on \in BOOLEAN,
               NEW interval \in Intervals, NEW wait \in 0..MaxLag,
               Save(src, on, interval, wait)
        PROVE  TypeOK'
    BY <2>1, Bounds DEF Save
  <2>2. ASSUME NEW src \in Sources, DeleteSource(src) PROVE TypeOK'
    BY <2>2 DEF DeleteSource
  <2>3. ASSUME NEW src \in Sources, StartByHand(src) \/ ScanEnds(src) PROVE TypeOK'
    BY <2>3 DEF StartByHand, ScanEnds
  <2>4. ASSUME NEW i \in Instances, Fire(i) PROVE TypeOK'
    BY <2>4 DEF Fire
  <2>5. ASSUME NEW i \in Instances, ClaimSelect(i) PROVE TypeOK'
    <3>1. PICK T \in SUBSET Sources : batch' = [batch EXCEPT ![i] = T]
      BY <2>5 DEF ClaimSelect, Oldest
    <3> QED
      BY <2>5, <3>1 DEF ClaimSelect
  <2>6. ASSUME NEW i \in Instances, ClaimCommit(i) PROVE TypeOK'
    <3>1. \A src \in Sources : /\ due'[src] \in Int /\ due'[src] >= -MaxLate
                               /\ since'[src] \in 0..MaxSince
      <4> SUFFICES ASSUME NEW src \in Sources
                   PROVE  /\ due'[src] \in Int /\ due'[src] >= -MaxLate
                          /\ since'[src] \in 0..MaxSince
        OBVIOUS
      <4>1. every[src] \in Intervals /\ lag[i] \in 0..MaxLag
        OBVIOUS
      <4>2. CASE src \in batch[i]
        <5>1. due'[src] = every[src] - lag[i] /\ since'[src] = lag[i]
          BY <2>6, <4>2 DEF ClaimCommit, NextRun
        <5>2. /\ every[src] - lag[i] \in Int /\ every[src] - lag[i] >= -MaxLate
              /\ lag[i] \in 0..MaxSince
          <6> HIDE DEF TypeOK
          <6> QED
            BY <4>1, Bounds
        <5> QED
          BY <5>1, <5>2, Zenon
      <4>3. CASE src \notin batch[i]
        BY <2>6, <4>3 DEF ClaimCommit
      <4> QED
        BY <4>2, <4>3
    <3>2. due' \in [Sources -> Int] /\ since' \in [Sources -> 0..MaxSince]
      BY <2>6, <3>1 DEF ClaimCommit
    <3> QED
      BY <2>6, <3>1, <3>2 DEF ClaimCommit
  <2>7. ASSUME NEW i \in Instances, ClaimFails(i) \/ EndTick(i) PROVE TypeOK'
    <3>1. /\ step' \in [Instances -> Step] /\ lag' \in [Instances -> 0..MaxLag]
          /\ batch' \in [Instances -> SUBSET Sources] /\ faults' \in 0..MaxFaults
      BY <2>7 DEF ClaimFails, EndTick, Finish, Fault
    <3>2. \A j \in Instances : /\ step'[j] \in {"idle", "claim"} => batch'[j] = {}
                               /\ current'[j] # {} <=> step'[j] \in Dispatching
      BY <2>7 DEF ClaimFails, EndTick, Finish
    <3> QED
      BY <2>7, <3>1, <3>2 DEF ClaimFails, EndTick
  <2>8. ASSUME NEW i \in Instances, NEW src \in Sources, Dispatch(src, i) PROVE TypeOK'
    <3>1. PICK point \in Dispatching, result \in Result : Came(src, i, point, result)
      BY <2>8 DEF Dispatch
    <3>2. /\ step' \in [Instances -> Step] /\ actual' \in [Sources -> Result]
          /\ step' = [step EXCEPT ![i] = point]
      BY <3>1 DEF Came
    <3>3. /\ batch' \in [Instances -> SUBSET Sources]
          /\ current' \in [Instances -> SUBSET Sources]
          /\ faults' \in 0..MaxFaults
      BY <2>8 DEF Dispatch, Fault
    <3>5. busy' \in [Sources -> BOOLEAN]
      <4>1. UNCHANGED busy \/ busy' = [busy EXCEPT ![src] = TRUE]
        BY <2>8, Zenon DEF Dispatch
      <4> QED
        BY <4>1
    <3>4. \A j \in Instances : /\ step'[j] \in {"idle", "claim"} => batch'[j] = {}
                               /\ current'[j] # {} <=> step'[j] \in Dispatching
      BY <2>8, <3>2 DEF Dispatch
    <3> QED
      BY <2>8, <3>2, <3>3, <3>4, <3>5 DEF Dispatch
  <2>9. ASSUME NEW i \in Instances, NEW src \in Sources, MarkOk(src, i) PROVE TypeOK'
    BY <2>9 DEF MarkOk, Mark, Came, Fault
  <2>10. ASSUME NEW i \in Instances, NEW src \in Sources, Launch(src, i) PROVE TypeOK'
    BY <2>10 DEF Launch, Release
  <2>11. ASSUME NEW i \in Instances, NEW src \in Sources, MarkSkipped(src, i) PROVE TypeOK'
    BY <2>11 DEF MarkSkipped, Mark, Came, Release, Fault
  <2>12. ASSUME NEW i \in Instances, NEW src \in Sources, MarkError(src, i) PROVE TypeOK'
    BY <2>12 DEF MarkError, Mark, Release, Fault
  <2>13. ASSUME NEW i \in Instances, Crash(i) PROVE TypeOK'
    BY <2>13 DEF Crash, Finish, Release
  <2>14. CASE Pass
    BY <2>14 DEF Pass
  <2>15. CASE UNCHANGED vars
    BY <2>15 DEF vars
  <2> QED
    BY <2>1, <2>2, <2>3, <2>4, <2>5, <2>6, <2>7, <2>8, <2>9, <2>10, <2>11,
       <2>12, <2>13, <2>14, <2>15 DEF Next, TickStep
<1> QED
  BY <1>1, <1>2, PTL DEF Spec

-----------------------------------------------------------------------------
(* The claims. *)

\* A tick that has its claim behind it still has the source to dispatch, or is
\* at it.
Holds(i, src) == step[i] # "locked" /\ src \in batch[i] \cup current[i]

\* What the steps that are not named here leave alone: the schedules, the locks
\* and how long the ticks have been at work.
LEMMA QuietSteps ==
  ASSUME TypeOK, [Next]_vars
  PROVE  \/ \E src \in Sources, on \in BOOLEAN, interval \in Intervals,
               wait \in 0..MaxLag : Save(src, on, interval, wait)
         \/ \E src \in Sources : DeleteSource(src)
         \/ \E i \in Instances : ClaimSelect(i) \/ ClaimCommit(i)
         \/ Pass
         \/ /\ UNCHANGED <<enabled, every, due, since>>
            /\ \A i \in Instances :
                 step'[i] = "locked" =>
                   step[i] = "locked" /\ batch'[i] = batch[i] /\ lag'[i] = lag[i]
            /\ \A i \in Instances, src \in Sources :
                 Holds(i, src)' => Holds(i, src) /\ lag'[i] = lag[i]
<1> DEFINE Quiet ==
      /\ UNCHANGED <<enabled, every, due, since>>
      /\ \A i \in Instances :
           step'[i] = "locked" =>
             step[i] = "locked" /\ batch'[i] = batch[i] /\ lag'[i] = lag[i]
      /\ \A i \in Instances, src \in Sources :
           Holds(i, src)' => Holds(i, src) /\ lag'[i] = lag[i]
<1> USE DEF TypeOK, Holds, rowVars, tickVars, boundVars, Dispatching
<1>1. ASSUME NEW src \in Sources, StartByHand(src) \/ ScanEnds(src) PROVE Quiet
  BY <1>1 DEF StartByHand, ScanEnds
<1>2. ASSUME NEW i \in Instances, Fire(i) PROVE Quiet
  BY <1>2 DEF Fire
<1>3. ASSUME NEW i \in Instances, ClaimFails(i) PROVE Quiet
  BY <1>3 DEF ClaimFails, Finish
<1>4. ASSUME NEW i \in Instances, EndTick(i) PROVE Quiet
  BY <1>4 DEF EndTick, Finish
<1>5. ASSUME NEW i \in Instances, Crash(i) PROVE Quiet
  BY <1>5 DEF Crash, Finish, Release
<1>6. ASSUME NEW i \in Instances, NEW src \in Sources, Dispatch(src, i) PROVE Quiet
  <2>1. PICK point \in Dispatching : step' = [step EXCEPT ![i] = point]
    BY <1>6 DEF Dispatch, Came
  <2> QED
    BY <1>6, <2>1 DEF Dispatch
<1>7. ASSUME NEW i \in Instances, NEW src \in Sources, MarkOk(src, i) PROVE Quiet
  BY <1>7 DEF MarkOk, Came
<1>8. ASSUME NEW i \in Instances, NEW src \in Sources, Launch(src, i) PROVE Quiet
  BY <1>8 DEF Launch, Release
<1>9. ASSUME NEW i \in Instances, NEW src \in Sources, MarkSkipped(src, i) PROVE Quiet
  BY <1>9 DEF MarkSkipped, Came, Release
<1>10. ASSUME NEW i \in Instances, NEW src \in Sources, MarkError(src, i) PROVE Quiet
  BY <1>10 DEF MarkError, Release
<1>11. CASE UNCHANGED vars
  BY <1>11 DEF vars
<1> HIDE DEF Quiet
<1>12. (\E src \in Sources : StartByHand(src) \/ ScanEnds(src))
       \/ (\E i \in Instances : Fire(i) \/ ClaimFails(i) \/ EndTick(i) \/ Crash(i))
       \/ (\E i \in Instances, src \in Sources :
             Dispatch(src, i) \/ MarkOk(src, i) \/ Launch(src, i)
             \/ MarkSkipped(src, i) \/ MarkError(src, i))
       => Quiet
  BY <1>1, <1>2, <1>3, <1>4, <1>5, <1>6, <1>7, <1>8, <1>9, <1>10
<1> QED
  BY <1>11, <1>12, Zenon DEF Next, TickStep, Quiet

\* A row that a tick has locked is due for that tick until it commits, and no
\* other tick has it.
LockedDue ==
  \A i \in Instances : step[i] = "locked" =>
    \A src \in batch[i] : enabled[src] /\ due[src] <= -lag[i]
LockedApart ==
  \A i, j \in Instances :
    i # j /\ step[i] = "locked" /\ step[j] = "locked" => batch[i] \cap batch[j] = {}
Claims == LockedDue /\ LockedApart

\* Nobody touches a locked row, and time makes it no less due.
LEMMA ClaimsKept == Spec => []Claims
<1>1. Init => Claims
  BY DEF Init, Claims, LockedDue, LockedApart
<1>2. TypeOK /\ Claims /\ [Next]_vars => Claims'
  <2> SUFFICES ASSUME TypeOK, Claims, [Next]_vars PROVE Claims'
    OBVIOUS
  <2> USE DEF TypeOK, Claims, LockedDue, LockedApart, rowVars, tickVars, boundVars
  <2>1. ASSUME NEW src \in Sources, NEW on \in BOOLEAN,
               NEW interval \in Intervals, NEW wait \in 0..MaxLag,
               Save(src, on, interval, wait)
        PROVE  Claims'
    BY <2>1 DEF Save, Locked
  <2>2. ASSUME NEW src \in Sources, DeleteSource(src) PROVE Claims'
    BY <2>2 DEF DeleteSource, Locked
  <2>3. ASSUME NEW i \in Instances, ClaimSelect(i) PROVE Claims'
    <3>1. PICK T \in SUBSET {src \in Sources : IsDue(src, i) /\ ~Locked(src)} :
            batch' = [batch EXCEPT ![i] = T]
      BY <2>3 DEF ClaimSelect, Oldest
    <3>2. \A src \in T : /\ enabled[src] /\ due[src] <= -lag[i]
                         /\ \A j \in Instances : step[j] = "locked" => src \notin batch[j]
      BY <3>1 DEF IsDue, Locked
    <3>3. batch'[i] = T /\ \A j \in Instances \ {i} : batch'[j] = batch[j]
      BY <3>1
    <3>4. /\ step'[i] = "locked"
          /\ \A j \in Instances \ {i} : step'[j] = step[j]
          /\ UNCHANGED <<enabled, due, lag>>
      BY <2>3 DEF ClaimSelect
    <3>5. LockedDue'
      BY <3>2, <3>3, <3>4
    <3>6. LockedApart'
      BY <3>2, <3>3, <3>4
    <3> QED
      BY <3>5, <3>6
  <2>4. ASSUME NEW i \in Instances, ClaimCommit(i) PROVE Claims'
    <3>1. /\ step[i] = "locked" /\ step'[i] = "next"
          /\ \A j \in Instances \ {i} : step'[j] = step[j]
          /\ UNCHANGED <<enabled, batch, lag>>
          /\ \A src \in Sources \ batch[i] : due'[src] = due[src]
      BY <2>4 DEF ClaimCommit
    <3>2. LockedDue'
      BY <3>1
    <3>3. LockedApart'
      BY <3>1
    <3> QED
      BY <3>2, <3>3
  <2>5. CASE Pass
    <3>1. /\ UNCHANGED <<step, batch, enabled>>
          /\ \A i \in Instances : step[i] = "locked" => lag'[i] = lag[i] + 1 /\ lag'[i] <= MaxLag
          /\ \A src \in Sources : enabled[src] /\ due[src] > -MaxLate => due'[src] = due[src] - 1
          /\ \A src \in Sources : ~(due[src] > -MaxLate) => due'[src] = due[src]
      BY <2>5, ConstantsAssumption DEF Pass
    <3>2. LockedDue'
      BY <3>1, ConstantsAssumption
    <3> QED
      BY <3>1, <3>2
  <2>6. ASSUME UNCHANGED <<enabled, due>>,
               \A i \in Instances :
                 step'[i] = "locked" =>
                   step[i] = "locked" /\ batch'[i] = batch[i] /\ lag'[i] = lag[i]
        PROVE  Claims'
    BY <2>6
  <2> QED
    BY <2>1, <2>2, <2>3, <2>4, <2>5, <2>6, QuietSteps
<1> QED
  BY <1>1, <1>2, SchedulerTypeCorrect, PTL DEF Spec

\* The detailed scheduler implements the timetable: every claim hands out runs
\* that are due when it commits, whatever happened since they were selected.
THEOREM RunsImplemented == Spec => RunsSpec
<1>1. Init => Runs!Init
  BY DEF Init, Runs!Init
<1>2. TypeOK /\ Claims /\ [Next]_vars => [Runs!Next]_(Runs!vars)
  <2> SUFFICES ASSUME TypeOK, Claims, [Next]_vars
               PROVE  Runs!Next \/ UNCHANGED Runs!vars
    BY DEF Runs!vars
  <2> USE DEF TypeOK, rowVars, Runs!vars
  <2>1. ASSUME NEW src \in Sources, NEW on \in BOOLEAN,
               NEW interval \in Intervals, NEW wait \in 0..MaxLag,
               Save(src, on, interval, wait)
        PROVE  Runs!Next
    <3>1. Runs!Save(src, on, interval, wait)
      BY <2>1 DEF Save, Runs!Save
    <3> QED
      BY <3>1 DEF Runs!Next
  <2>2. ASSUME NEW src \in Sources, DeleteSource(src) PROVE Runs!Next
    <3>1. Runs!Remove(src)
      BY <2>2 DEF DeleteSource, Runs!Remove
    <3> QED
      BY <3>1 DEF Runs!Next
  <2>3. ASSUME NEW i \in Instances, ClaimSelect(i) PROVE UNCHANGED Runs!vars
    BY <2>3 DEF ClaimSelect
  <2>4. ASSUME NEW i \in Instances, ClaimCommit(i) PROVE Runs!Next
    <3>1. \A src \in batch[i] : enabled[src] /\ due[src] <= -lag[i]
      BY <2>4 DEF ClaimCommit, Claims, LockedDue
    <3>2. Runs!Claim(batch[i], lag[i])
      BY <2>4, <3>1 DEF ClaimCommit, NextRun, Runs!Claim
    <3> QED
      BY <3>2 DEF Runs!Next
  <2>5. CASE Pass
    <3>1. Runs!Pass
      BY <2>5 DEF Pass, Runs!Pass
    <3> QED
      BY <3>1 DEF Runs!Next
  <2>6. CASE UNCHANGED <<enabled, every, due, since>>
    BY <2>6
  <2> QED
    BY <2>1, <2>2, <2>3, <2>4, <2>5, <2>6, QuietSteps
<1> QED
  BY <1>1, <1>2, SchedulerTypeCorrect, ClaimsKept, PTL DEF Spec, RunsSpec, Runs!Spec

\* The next run of a schedule is an interval after its last claim, or later.
NextRunSound ==
  \A src \in Sources : enabled[src] =>
    since[src] = MaxSince \/ due[src] >= every[src] - since[src]

LEMMA NextRunCorrect == Spec => []NextRunSound
<1>1. Init => NextRunSound
  BY DEF Init, NextRunSound
<1>2. TypeOK /\ NextRunSound /\ [Next]_vars => NextRunSound'
  <2> SUFFICES ASSUME TypeOK, NextRunSound, [Next]_vars PROVE NextRunSound'
    OBVIOUS
  <2> USE DEF NextRunSound, rowVars
  <2>1. ASSUME NEW src \in Sources, NEW on \in BOOLEAN,
               NEW interval \in Intervals, NEW wait \in 0..MaxLag,
               Save(src, on, interval, wait)
        PROVE  NextRunSound'
    BY <2>1, ConstantsAssumption DEF Save, TypeOK
  <2>2. ASSUME NEW src \in Sources, DeleteSource(src) PROVE NextRunSound'
    BY <2>2 DEF DeleteSource, TypeOK
  <2>3. ASSUME NEW i \in Instances, ClaimSelect(i) PROVE NextRunSound'
    BY <2>3 DEF ClaimSelect
  <2>4. ASSUME NEW i \in Instances, ClaimCommit(i) PROVE NextRunSound'
    <3>1. \A src \in Sources :
            IF src \in batch[i]
            THEN due'[src] = every[src] - lag[i] /\ since'[src] = lag[i]
            ELSE due'[src] = due[src] /\ since'[src] = since[src]
      BY <2>4 DEF ClaimCommit, NextRun
    <3>2. UNCHANGED <<enabled, every>>
      BY <2>4 DEF ClaimCommit
    <3>3. \A src \in Sources : every[src] \in Intervals /\ lag[i] \in 0..MaxLag
      BY DEF TypeOK
    <3>4. \A src \in Sources : every[src] \in Int /\ lag[i] \in Int
      BY <3>3, IntervalsAreNumbers, ConstantsAssumption
    <3> QED
      BY <3>1, <3>2, <3>4
  <2>5. CASE Pass
    <3>1. /\ UNCHANGED <<enabled, every>>
          /\ \A src \in Sources : due'[src] = due[src] - 1 \/ due'[src] = due[src]
          /\ \A src \in Sources : since[src] < MaxSince => since'[src] = since[src] + 1
          /\ \A src \in Sources : since[src] = MaxSince => since'[src] = MaxSince
      BY <2>5, ConstantsAssumption DEF Pass, TypeOK
    <3>2. \A src \in Sources : every[src] \in Int /\ due[src] \in Int
      <4>1. \A src \in Sources : every[src] \in Intervals /\ due[src] \in Int
        BY DEF TypeOK
      <4> QED
        BY <4>1, IntervalsAreNumbers
    <3>3. ASSUME NEW src \in Sources, enabled'[src]
          PROVE  since'[src] = MaxSince \/ due'[src] >= every'[src] - since'[src]
      <4>0. since[src] \in 0..MaxSince /\ MaxSince \in Nat
        BY ConstantsAssumption DEF TypeOK
      <4>1. CASE since[src] = MaxSince
        BY <3>1, <4>1
      <4>2. CASE since[src] < MaxSince
        BY <3>1, <3>2, <3>3, <4>0, <4>2
      <4> QED
        BY <4>0, <4>1, <4>2
    <3> QED
      BY <3>3
  <2>6. CASE UNCHANGED <<enabled, every, due, since>>
    BY <2>6
  <2> QED
    BY <2>1, <2>2, <2>3, <2>4, <2>5, <2>6, QuietSteps
<1> QED
  BY <1>1, <1>2, SchedulerTypeCorrect, PTL DEF Spec

\* Two claims of a schedule are an interval apart unless it was saved between:
\* a claimed row is due and the next run was set an interval after the claim.
THEOREM ClaimsSpaced == Spec => Spaced
<1>1. TypeOK /\ Claims /\ NextRunSound /\ [Next]_vars =>
        [\A i \in Instances : ClaimCommit(i) =>
           \A src \in batch[i] : since[src] - lag[i] >= every[src]]_vars
  <2> SUFFICES ASSUME TypeOK, Claims, NextRunSound,
                      NEW i \in Instances, ClaimCommit(i), NEW src \in batch[i]
               PROVE  since[src] - lag[i] >= every[src]
    OBVIOUS
  <2>1. enabled[src] /\ due[src] <= -lag[i]
    BY DEF ClaimCommit, Claims, LockedDue
  <2>2. /\ src \in Sources /\ lag[i] \in 0..MaxLag /\ every[src] \in Intervals
        /\ since[src] \in 0..MaxSince /\ due[src] \in Int
    BY DEF TypeOK
  <2>3. since[src] = MaxSince \/ due[src] >= every[src] - since[src]
    BY <2>1, <2>2 DEF NextRunSound
  <2>4. every[src] + MaxLag <= MaxSince /\ every[src] \in Nat /\ MaxLag \in Nat /\ MaxSince \in Nat
    BY <2>2, ConstantsAssumption
  <2> QED
    BY <2>1, <2>2, <2>3, <2>4
<1> QED
  BY <1>1, SchedulerTypeCorrect, ClaimsKept, NextRunCorrect, PTL DEF Spec, Spaced

-----------------------------------------------------------------------------
(* The recorded result. *)

\* A schedule some tick holds does not come due before that tick has to be over.
DueAfter(i, src) == Holds(i, src) /\ enabled[src] => due[src] > MaxLag - lag[i]
HoldersApart ==
  \A i, j \in Instances, src \in Sources : Holds(i, src) /\ Holds(j, src) => i = j
OneHolder == HoldersApart /\ \A i \in Instances, src \in Sources : DueAfter(i, src)

\* With ticks short enough, two ticks never hold one schedule.
LEMMA OneHolderCorrect ==
  ASSUME TickAssumption
  PROVE  Spec => []OneHolder
<1> USE DEF OneHolder, HoldersApart, DueAfter
<1>1. Init => OneHolder
  BY DEF Init, Holds
<1>2. TypeOK /\ Claims /\ OneHolder /\ [Next]_vars => OneHolder'
  <2> SUFFICES ASSUME TypeOK, Claims, OneHolder, [Next]_vars PROVE OneHolder'
    OBVIOUS
  <2>0. /\ MaxLag \in Nat /\ MaxLate \in Nat
        /\ \A i \in Instances : lag[i] \in Int /\ 0 <= lag[i] /\ lag[i] <= MaxLag
        /\ \A src \in Sources : due[src] \in Int /\ every[src] \in Int
        /\ \A src \in Sources : every[src] > 2 * MaxLag
    <3>1. \A i \in Instances : lag[i] \in 0..MaxLag
      BY DEF TypeOK
    <3>2. \A src \in Sources : due[src] \in Int /\ every[src] \in Intervals
      BY DEF TypeOK
    <3>3. MaxLag \in Nat /\ MaxLate \in Nat
      BY ConstantsAssumption
    <3>4. \A interval \in Intervals : interval \in Int /\ interval > 2 * MaxLag
      BY IntervalsAreNumbers DEF TickAssumption
    <3>5. \A i \in Instances : lag[i] \in Int /\ 0 <= lag[i] /\ lag[i] <= MaxLag
      BY <3>1, <3>3
    <3> QED
      BY <3>2, <3>3, <3>4, <3>5, Zenon
  <2>1. ASSUME NEW src \in Sources, NEW on \in BOOLEAN,
               NEW interval \in Intervals, NEW wait \in 0..MaxLag,
               Save(src, on, interval, wait)
        PROVE  OneHolder'
    <3>1. /\ UNCHANGED <<step, batch, current, lag>>
          /\ \A s \in Sources \ {src} : due'[s] = due[s] /\ enabled'[s] = enabled[s]
          /\ enabled'[src] => due'[src] = interval - wait
      BY <2>1 DEF Save, TypeOK, tickVars
    <3>2. interval - wait \in Int /\ interval - wait > MaxLag
      BY <2>0, IntervalsAreNumbers DEF TickAssumption
    <3>3. HoldersApart'
      BY <3>1 DEF Holds
    <3>4. ASSUME NEW i \in Instances, NEW s \in Sources PROVE DueAfter(i, s)'
      <4>1. CASE s = src
        <5>1. enabled'[src] => due'[src] \in Int /\ due'[src] > MaxLag
          BY <3>1, <3>2, Zenon
        <5>2. lag'[i] = lag[i] /\ lag[i] \in Int /\ 0 <= lag[i] /\ MaxLag \in Nat
          BY <2>0, <3>1
        <5> QED
          BY <4>1, <5>1, <5>2
      <4>2. CASE s # src
        BY <3>1, <4>2 DEF Holds
      <4> QED
        BY <4>1, <4>2
    <3> QED
      BY <3>3, <3>4
  <2>2. ASSUME NEW src \in Sources, DeleteSource(src) PROVE OneHolder'
    <3>1. /\ UNCHANGED <<step, batch, current, lag>>
          /\ \A s \in Sources \ {src} : due'[s] = due[s] /\ enabled'[s] = enabled[s]
          /\ ~enabled'[src]
      BY <2>2 DEF DeleteSource, TypeOK, tickVars
    <3> QED
      BY <3>1 DEF Holds
  <2>3. ASSUME NEW i \in Instances, ClaimSelect(i) PROVE OneHolder'
    <3>1. /\ step'[i] = "locked" /\ UNCHANGED <<current, lag, due, enabled>>
          /\ \A j \in Instances \ {i} : step'[j] = step[j] /\ batch'[j] = batch[j]
      BY <2>3 DEF ClaimSelect, TypeOK, rowVars
    <3>2. \A j \in Instances, src \in Sources : Holds(j, src)' => Holds(j, src)
      BY <3>1 DEF Holds
    <3> QED
      BY <3>1, <3>2
  <2>4. ASSUME NEW i \in Instances, ClaimCommit(i) PROVE OneHolder'
    <3>1. /\ step[i] = "locked" /\ step'[i] = "next" /\ current[i] = {}
          /\ UNCHANGED <<batch, current, lag, enabled>>
          /\ \A j \in Instances \ {i} : step'[j] = step[j]
          /\ \A src \in Sources : due'[src] = IF src \in batch[i] THEN every[src] - lag[i]
                                              ELSE due[src]
      BY <2>4 DEF ClaimCommit, NextRun, TypeOK, Dispatching
    <3>2. \A src \in batch[i] : src \in Sources /\ enabled[src] /\ due[src] <= -lag[i]
      BY <3>1, <2>0 DEF Claims, LockedDue, TypeOK
    <3>3. \A j \in Instances, src \in batch[i] : ~Holds(j, src)
      BY <2>0, <3>2
    <3>4. \A j \in Instances \ {i}, src \in Sources : Holds(j, src)' <=> Holds(j, src)
      BY <3>1 DEF Holds
    <3>5. \A src \in Sources : Holds(i, src)' <=> src \in batch[i]
      BY <3>1 DEF Holds
    <3>6. HoldersApart'
      BY <3>3, <3>4, <3>5
    <3>7. ASSUME NEW j \in Instances, NEW src \in Sources PROVE DueAfter(j, src)'
      <4>1. CASE j = i
        BY <2>0, <3>1, <3>5, <4>1
      <4>2. CASE j # i
        BY <3>1, <3>3, <3>4, <4>2
      <4> QED
        BY <4>1, <4>2
    <3> QED
      BY <3>6, <3>7
  <2>5. CASE Pass
    <3>1. /\ UNCHANGED <<step, batch, current, enabled>>
          /\ \A src \in Sources : due'[src] = due[src] - 1 \/ due'[src] = due[src]
      BY <2>5 DEF Pass, TypeOK
    <3>2. \A i \in Instances : step[i] # "idle" => lag'[i] = lag[i] + 1
      BY <2>5 DEF Pass
    <3>3. \A i \in Instances, src \in Sources : Holds(i, src) => step[i] # "idle"
      BY DEF Holds, TypeOK, Dispatching
    <3>4. \A i \in Instances, src \in Sources : Holds(i, src)' <=> Holds(i, src)
      BY <3>1 DEF Holds
    <3>5. HoldersApart'
      BY <3>4
    <3>6. ASSUME NEW i \in Instances, NEW src \in Sources PROVE DueAfter(i, src)'
      BY <2>0, <3>1, <3>2, <3>3, <3>4
    <3> QED
      BY <3>5, <3>6
  <2>6. ASSUME UNCHANGED <<enabled, due>>,
               \A i \in Instances, src \in Sources :
                 Holds(i, src)' => Holds(i, src) /\ lag'[i] = lag[i]
        PROVE  OneHolder'
    BY <2>6
  <2> QED
    BY <2>1, <2>2, <2>3, <2>4, <2>5, <2>6, QuietSteps
<1> QED
  BY <1>1, <1>2, SchedulerTypeCorrect, ClaimsKept, PTL DEF Spec

\* As long as nothing has failed: the dispatch a tick is at will record what it
\* came to, and the others have.
StatusSound ==
  /\ \A i \in Instances : \A a, b \in current[i] : a = b
  /\ faults = 0 /\ crashes = 0 =>
       /\ \A i \in Instances : step[i] # "mark_error"
       /\ \A i \in Instances, src \in Sources : src \in current[i] =>
            /\ step[i] = "mark_ok" => actual[src] = "ok"
            /\ step[i] = "mark_skipped" => actual[src] = "skipped"
            /\ step[i] = "launch" /\ exists[src] => status[src] = actual[src]
       /\ StatusTruthful

\* A dispatch is of a schedule no other tick is at, so nothing it records is
\* overwritten by an earlier tick.
LEMMA StatusStep ==
  ASSUME TypeOK, TypeOK', OneHolder, StatusSound, [Next]_vars
  PROVE  StatusSound'
<1> USE DEF StatusSound, StatusTruthful, rowVars, tickVars, boundVars, Dispatching
<1>1. ASSUME NEW src \in Sources, NEW on \in BOOLEAN,
             NEW interval \in Intervals, NEW wait \in 0..MaxLag,
             Save(src, on, interval, wait)
      PROVE  StatusSound'
  BY <1>1 DEF Save
<1>2. ASSUME NEW src \in Sources, DeleteSource(src) PROVE StatusSound'
  BY <1>2 DEF DeleteSource, TypeOK
<1>3. ASSUME NEW src \in Sources, StartByHand(src) \/ ScanEnds(src) PROVE StatusSound'
  BY <1>3 DEF StartByHand, ScanEnds
<1>4. ASSUME NEW i \in Instances, Fire(i) \/ ClaimSelect(i) \/ ClaimCommit(i) \/ EndTick(i)
      PROVE  StatusSound'
  <2>1. /\ UNCHANGED <<exists, status, actual, current, faults, crashes>>
        /\ \A j \in Instances : step'[j] = step[j] \/ step'[j] \notin Dispatching
    BY <1>4 DEF Fire, ClaimSelect, ClaimCommit, EndTick, Finish, TypeOK
  <2> QED
    BY <2>1
<1>5. ASSUME NEW i \in Instances, ClaimFails(i) PROVE StatusSound'
  BY <1>5 DEF ClaimFails, Fault, TypeOK
<1>6. ASSUME NEW i \in Instances, Crash(i) PROVE StatusSound'
  BY <1>6 DEF Crash, Release, TypeOK
<1>7. ASSUME NEW i \in Instances, NEW src \in Sources, Dispatch(src, i) PROVE StatusSound'
  <2>1. /\ current' = [current EXCEPT ![i] = {src}] /\ step[i] = "next" /\ src \in batch[i]
        /\ UNCHANGED <<exists, status, crashes>>
    BY <1>7 DEF Dispatch
  <2>2. \A j \in Instances \ {i} : src \notin current[j]
    BY <2>1 DEF OneHolder, HoldersApart, Holds, TypeOK
  <2>3. CASE faults' # 0
    BY <2>1, <2>3 DEF TypeOK
  <2>4. CASE faults' = 0
    <3>1. PICK result \in {"ok", "skipped"} :
            /\ actual' = [actual EXCEPT ![src] = result]
            /\ step' = [step EXCEPT ![i] = IF result = "ok" THEN "mark_ok" ELSE "mark_skipped"]
            /\ faults = 0
      BY <1>7, <2>4 DEF Dispatch, Came, Fault, TypeOK
    <3> QED
      BY <2>1, <2>2, <3>1 DEF TypeOK, Result
  <2> QED
    BY <2>3, <2>4
<1>8. ASSUME NEW i \in Instances, NEW src \in Sources, MarkOk(src, i) PROVE StatusSound'
  <2>1. /\ UNCHANGED <<exists, current, crashes>> /\ step[i] = "mark_ok" /\ src \in current[i]
    BY <1>8 DEF MarkOk
  <2>2. CASE faults' # 0
    BY <2>1, <2>2
  <2>3. CASE faults' = 0
    <3>1. /\ UNCHANGED <<actual, faults>> /\ step' = [step EXCEPT ![i] = "launch"]
          /\ status' = IF exists[src] THEN [status EXCEPT ![src] = "ok"] ELSE status
      BY <1>8, <2>3 DEF MarkOk, Mark, Fault, TypeOK
    <3>2. \A j \in Instances \ {i} : src \notin current[j]
      BY <2>1 DEF OneHolder, HoldersApart, Holds, TypeOK
    <3> QED
      BY <2>1, <2>3, <3>1, <3>2 DEF TypeOK
  <2> QED
    BY <2>2, <2>3
<1>9. ASSUME NEW i \in Instances, NEW src \in Sources, Launch(src, i) PROVE StatusSound'
  BY <1>9 DEF Launch, Release, TypeOK
<1>10. ASSUME NEW i \in Instances, NEW src \in Sources, MarkSkipped(src, i) PROVE StatusSound'
  <2>1. /\ UNCHANGED <<exists, crashes>> /\ step[i] = "mark_skipped" /\ src \in current[i]
        /\ current' \in {current, [current EXCEPT ![i] = {}]}
    BY <1>10 DEF MarkSkipped, Release
  <2>2. CASE faults' # 0
    BY <2>1, <2>2 DEF TypeOK
  <2>3. CASE faults' = 0
    <3>1. /\ UNCHANGED <<actual, faults>> /\ step' = [step EXCEPT ![i] = "next"]
          /\ current' = [current EXCEPT ![i] = {}]
          /\ status' = IF exists[src] THEN [status EXCEPT ![src] = "skipped"] ELSE status
      BY <1>10, <2>3 DEF MarkSkipped, Mark, Release, Fault, TypeOK
    <3>2. \A j \in Instances \ {i} : src \notin current[j]
      BY <2>1 DEF OneHolder, HoldersApart, Holds, TypeOK
    <3> QED
      BY <2>1, <2>3, <3>1, <3>2 DEF TypeOK
  <2> QED
    BY <2>2, <2>3
<1>11. ASSUME NEW i \in Instances, NEW src \in Sources, MarkError(src, i) PROVE StatusSound'
  <2>1. /\ step[i] = "mark_error" /\ current' = [current EXCEPT ![i] = {}]
        /\ UNCHANGED crashes /\ (faults' = faults \/ faults' = faults + 1)
    BY <1>11 DEF MarkError, Release, Fault
  <2>2. ~(faults' = 0 /\ crashes' = 0)
    BY <2>1 DEF TypeOK
  <2> QED
    BY <2>1, <2>2 DEF TypeOK
<1>12. CASE Pass
  BY <1>12 DEF Pass
<1>13. CASE UNCHANGED vars
  BY <1>13 DEF vars
<1> QED
  BY <1>1, <1>2, <1>3, <1>4, <1>5, <1>6, <1>7, <1>8, <1>9, <1>10, <1>11, <1>12,
     <1>13, Zenon DEF Next, TickStep

\* If a tick lasts less than half an interval, last_status is what the last
\* dispatch came to as long as nothing fails.
THEOREM StatusCorrect ==
  ASSUME TickAssumption
  PROVE  Spec => []StatusTruthful
<1>1. Init => StatusSound
  BY DEF Init, StatusSound, StatusTruthful
<1>2. StatusSound => StatusTruthful
  BY DEF StatusSound, StatusTruthful
<1> QED
  BY <1>1, <1>2, StatusStep, SchedulerTypeCorrect, OneHolderCorrect, PTL DEF Spec

-----------------------------------------------------------------------------
(* What the users can rely on. *)

\* A schedule that is on is due within its interval.
THEOREM NextRunNear == Spec => []Runs!WithinInterval
<1> USE DEF Runs!WithinInterval
<1>1. Runs!Init => Runs!WithinInterval
  BY DEF Runs!Init
<1>2. TypeOK /\ Runs!WithinInterval /\ [Runs!Next]_(Runs!vars) => Runs!WithinInterval'
  <2> SUFFICES ASSUME TypeOK, Runs!WithinInterval, [Runs!Next]_(Runs!vars)
               PROVE  Runs!WithinInterval'
    OBVIOUS
  <2>0. \A src \in Sources : every[src] \in Nat /\ due[src] \in Int
    BY IntervalsAreNumbers DEF TypeOK
  <2>1. ASSUME NEW src \in Sources, NEW on \in BOOLEAN,
               NEW interval \in Intervals, NEW wait \in 0..MaxLag,
               Runs!Save(src, on, interval, wait)
        PROVE  Runs!WithinInterval'
    <3>1. interval \in Nat /\ wait \in Nat
      BY IntervalsAreNumbers, ConstantsAssumption
    <3> QED
      BY <2>1, <3>1 DEF Runs!Save, TypeOK
  <2>2. ASSUME NEW S \in SUBSET Sources, NEW back \in 0..MaxLag, Runs!Claim(S, back)
        PROVE  Runs!WithinInterval'
    <3>1. back \in Nat
      BY ConstantsAssumption
    <3> QED
      BY <2>0, <2>2, <3>1 DEF Runs!Claim
  <2>3. ASSUME NEW src \in Sources, Runs!Remove(src) PROVE Runs!WithinInterval'
    BY <2>3 DEF Runs!Remove, TypeOK
  <2>4. CASE Runs!Pass
    BY <2>0, <2>4 DEF Runs!Pass
  <2>5. CASE UNCHANGED Runs!vars
    BY <2>5 DEF Runs!vars
  <2> QED
    BY <2>1, <2>2, <2>3, <2>4, <2>5 DEF Runs!Next
<1> QED
  BY <1>1, <1>2, RunsImplemented, SchedulerTypeCorrect, PTL DEF RunsSpec, Runs!Spec

=============================================================================
