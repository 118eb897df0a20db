------------------------------ MODULE Timetable ------------------------------
(***************************************************************************)
(* What table `scan_schedules` promises: a source that is switched on has  *)
(* a next run, a run is handed out when it is due and never twice, and the *)
(* one after it is an interval later than the moment it was handed out.    *)
(***************************************************************************)
EXTENDS Integers

CONSTANTS Sources, Intervals, MaxLag, MaxLate
VARIABLES enabled, every, due

vars == <<enabled, every, due>>

Init ==
  /\ enabled = [src \in Sources |-> FALSE]
  /\ every \in [Sources -> Intervals]
  /\ due = [src \in Sources |-> 0]

\* A user saves the schedule: the next run is an interval after the request,
\* which arrived wait ago.
Save(src, on, interval, wait) ==
  /\ enabled' = [enabled EXCEPT ![src] = on]
  /\ every' = [every EXCEPT ![src] = interval]
  /\ due' = [due EXCEPT ![src] = IF on THEN interval - wait ELSE 0]

\* Some due runs are handed out together, by a tick that began lag ago.
Claim(S, lag) ==
  /\ \A src \in S : enabled[src] /\ due[src] <= -lag
  /\ due' = [src \in Sources |-> IF src \in S THEN every[src] - lag ELSE due[src]]
  /\ UNCHANGED <<enabled, every>>

\* The schedule goes with its source.
Remove(src) ==
  /\ enabled' = [enabled EXCEPT ![src] = FALSE]
  /\ due' = [due EXCEPT ![src] = 0]
  /\ UNCHANGED every

\* Time passes; how late a run is stops counting at MaxLate.
Pass ==
  /\ due' = [src \in Sources |->
               IF enabled[src] /\ due[src] > -MaxLate THEN due[src] - 1 ELSE due[src]]
  /\ UNCHANGED <<enabled, every>>

Next ==
  \/ \E src \in Sources, on \in BOOLEAN, interval \in Intervals,
        wait \in 0..MaxLag : Save(src, on, interval, wait)
  \/ \E S \in SUBSET Sources, lag \in 0..MaxLag : Claim(S, lag)
  \/ \E src \in Sources : Remove(src)
  \/ Pass

Spec == Init /\ [][Next]_vars

-----------------------------------------------------------------------------
(* What follows, for whoever implements it. *)


\* A source that is switched on is due within its interval, however often it is
\* saved and however late the ticks are; one that is switched off is never due.
WithinInterval ==
  \A src \in Sources : IF enabled[src] THEN due[src] <= every[src] ELSE due[src] = 0

=============================================================================
