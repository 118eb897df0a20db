------------------------------ MODULE ScanRows -------------------------------
(***************************************************************************)
(* What table `scans` promises to the rest of the system, whoever writes   *)
(* it: a source has at most one running scan, a scan publishes its         *)
(* findings in the step that completes it and never otherwise, and a       *)
(* terminal state is final until the source is deleted.                    *)
(***************************************************************************)
CONSTANTS Sources, Scans
VARIABLES exists, status, sourceOf, published

vars == <<exists, status, sourceOf, published>>

Init ==
  /\ exists = [src \in Sources |-> TRUE]
  /\ status = [s \in Scans |-> "none"]
  /\ sourceOf \in [Scans -> Sources]
  /\ published = {}

\* A scan may start when its source exists and is not being scanned.
Start(s) ==
  /\ exists[sourceOf[s]] /\ status[s] = "none"
  /\ \A r \in Scans : sourceOf[r] = sourceOf[s] => status[r] # "running"
  /\ status' = [status EXCEPT ![s] = "running"]
  /\ UNCHANGED <<exists, sourceOf, published>>

\* A running scan completes and its findings become visible, in one step.
Complete(s) ==
  /\ status[s] = "running"
  /\ status' = [status EXCEPT ![s] = "completed"]
  /\ published' = published \cup {s}
  /\ UNCHANGED <<exists, sourceOf>>

\* Some running scans fail together (a sweep) or one alone (its runner).
Fail(S) ==
  /\ \A s \in S : status[s] = "running"
  /\ status' = [s \in Scans |-> IF s \in S THEN "failed" ELSE status[s]]
  /\ UNCHANGED <<exists, sourceOf, published>>

\* A source is deleted with all its scans.
Delete(src) ==
  /\ exists[src]
  /\ exists' = [exists EXCEPT ![src] = FALSE]
  /\ status' = [s \in Scans |-> IF sourceOf[s] = src /\ status[s] # "none"
                                THEN "deleted" ELSE status[s]]
  /\ UNCHANGED <<sourceOf, published>>

Next ==
  \/ \E s \in Scans : Start(s) \/ Complete(s)
  \/ \E S \in SUBSET Scans : Fail(S)
  \/ \E src \in Sources : Delete(src)

Spec == Init /\ [][Next]_vars

-----------------------------------------------------------------------------
(* What follows, for whoever implements it. *)

\* Of the rows of a source one runs at most: whoever starts a scan looks for a
\* running one under the lock of the source.
OneRunning ==
  \A r, s \in Scans : status[r] = "running" /\ status[s] = "running"
                      /\ sourceOf[r] = sourceOf[s] => r = s

\* A scan ends once, and shows its findings in the step that completes it: an
\* outcome is changed by the deletion of the source alone, however late the
\* runner, a sweep or a repeated call is.
EndsOnce ==
  [][\A s \in Scans :
       /\ status[s] \in {"completed", "failed", "deleted"} =>
            status'[s] \in {status[s], "deleted"}
       /\ s \in published => s \in published'
       /\ s \in published' \ published =>
            status[s] = "running" /\ status'[s] = "completed"]_vars

=============================================================================
