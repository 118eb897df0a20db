-------------------------- MODULE FindingLifecycle ---------------------------
(***************************************************************************)
(* What scans do to the findings of one source: the reading of its tables  *)
(* under the volume caps, the fingerprint that identifies a finding across *)
(* scans, the plan computed by planFindingLifecycle and the transaction    *)
(* that applies it, against the users who triage findings and toggle rules *)
(* meanwhile.                                                              *)
(*                                                                         *)
(* A spot is a column that can match one rule.  What a read of a table     *)
(* finds is arbitrary: the external database changes as it likes.  Only    *)
(* one scan at a time can publish (module ScanLifecycle), so the module    *)
(* follows one scan after the other; scans are numbered from 1.            *)
(***************************************************************************)
EXTENDS Integers, FiniteSets

CONSTANTS
  Spots,          \* (column, data type) pairs of the source
  NTables,        \* tables are 1..NTables in the order listTables returns
  TableOf,        \* [Spots -> 1..NTables]
  LargeTables,    \* tables with more than MAX_PAGES_PER_TABLE pages
  ShiftingTables, \* tables of several pages whose rows move between them meanwhile
  LongSpots,      \* columns with values longer than MAX_FIELD_LENGTH
  RuleOf,         \* [Spots -> Rules]: the rule that matches it
  FingerprintOf,  \* [Spots -> Fingerprints]: computeFingerprint
  MaxTables,      \* MAX_TABLES_PER_SCAN
  MaxFindings,    \* MAX_FINDINGS_PER_SCAN
  MaxScans        \* bound on the number of scans

Tables == 1..NTables
Rules == {RuleOf[p] : p \in Spots}
Fingerprints == {FingerprintOf[p] : p \in Spots}

ASSUME ConstantsAssumption ==
  /\ IsFiniteSet(Spots)
  /\ NTables \in Nat /\ MaxTables \in Nat
  /\ MaxFindings \in Nat /\ MaxScans \in Nat
  /\ TableOf \in [Spots -> Tables]
  /\ LargeTables \subseteq Tables /\ ShiftingTables \subseteq Tables
  /\ LongSpots \subseteq Spots

VARIABLES
  exists,      \* BOOLEAN: the source is there
  enabled,     \* [Rules -> BOOLEAN]: rules.enabled
  finding,     \* [Fingerprints -> Finding]: the canonical rows of `findings`
  attached,    \* [Fingerprints -> BOOLEAN]: source_id is not null
  triggered,   \* [Rules -> 0..MaxScans]: rules.last_triggered
  scan,        \* number of the current or last scan
  outcome,     \* [1..MaxScans -> Outcome]: how each scan ended
  created,     \* [1..MaxScans -> Nat]: scans.findings_created
  phase,       \* the runner: "idle", "reading" or "writing"
  active,      \* rules the scan applies (resolveActiveRules)
  listed,      \* tables listTables returned
  pending,     \* tables still to be read
  present,     \* spots whose table held them when it was read
  matches,     \* those of them the scan noticed
  plan         \* what finalizeScan read and decided before it writes

scanVars == <<phase, active, listed, pending, present, matches, plan>>
vars == <<exists, enabled, finding, attached, triggered, scan, outcome,
          created, scanVars>>

FindingStatus == {"open", "in_review", "resolved"}
Phases   == {"idle", "reading", "writing"}
\* A completed scan that reconciled absences is told from one that did not.
Outcomes == {"none", "completed", "reconciled", "failed", "duplicate_key"}

\* by: who set the status last, a scan or a user.  creator and last are scan_id
\* and last_seen_scan_id (0: null).
Finding == [status : FindingStatus \cup {"absent"}, creator : 0..MaxScans,
            last : 0..MaxScans, by : {"scan", "user"}]
NoFinding == [status |-> "absent", creator |-> 0, last |-> 0, by |-> "scan"]
NoPlan == [found |-> {}, next |-> [f \in Fingerprints |-> "absent"],
           resolve |-> {}, reconcile |-> FALSE]

Known(f)    == finding[f].status # "absent"
IsActive(f) == finding[f].status \in {"open", "in_review"}

\* The tables a scan reads: the first MaxTables of those listed.
Capped(L) == {t \in L : Cardinality({u \in L : u < t}) < MaxTables}
SpotsOf(t) == {p \in Spots : TableOf[p] = t}

-----------------------------------------------------------------------------
Init ==
  /\ exists = TRUE
  /\ enabled = [r \in Rules |-> TRUE]
  /\ finding = [f \in Fingerprints |-> NoFinding]
  /\ attached = [f \in Fingerprints |-> FALSE]
  /\ triggered = [r \in Rules |-> 0]
  /\ scan = 0
  /\ outcome = [n \in 1..MaxScans |-> "none"]
  /\ created = [n \in 1..MaxScans |-> 0]
  /\ phase = "idle"
  /\ active = {} /\ listed = {} /\ pending = {} /\ present = {} /\ matches = {}
  /\ plan = NoPlan

\* resolveActiveRules and listTables: a disabled rule is left out of the scan.
BeginScan ==
  /\ phase = "idle" /\ exists /\ scan < MaxScans
  /\ scan' = scan + 1
  /\ active' = {r \in Rules : enabled[r]}
  /\ \E L \in SUBSET Tables : listed' = L /\ pending' = Capped(L)
  /\ present' = {} /\ matches' = {}
  /\ phase' = "reading"
  /\ UNCHANGED <<exists, enabled, finding, attached, triggered, outcome,
                 created, plan>>

\* What a table holds that a read of it may miss: rows past MAX_PAGES_PER_TABLE;
\* rows that move between pages, for OFFSET counts what is there by then, in no
\* order when there is no primary key; and the end of a long value, for detectRows
\* looks at its first MAX_FIELD_LENGTH characters.
Elusive(p) == TableOf[p] \in LargeTables \cup ShiftingTables \/ p \in LongSpots

\* The page loop over one table and detectRows over what it returns.
ReadTable(t) ==
  /\ phase = "reading" /\ t \in pending
  /\ \A u \in pending : t <= u
  /\ \E P \in SUBSET SpotsOf(t) : \E missed \in SUBSET {p \in P : Elusive(p)} :
       /\ present' = present \cup P
       /\ matches' = matches \cup {p \in P \ missed : RuleOf[p] \in active}
  /\ pending' = pending \ {t}
  /\ UNCHANGED <<exists, enabled, finding, attached, triggered, scan, outcome,
                 created, phase, active, listed, plan>>

BugEndScan(result) ==
  /\ outcome' = [outcome EXCEPT ![scan] = result]
  /\ phase' = "idle"
  /\ active' = {} /\ listed' = {} /\ pending' = {} /\ present' = {}
  /\ plan' = NoPlan
  /\ UNCHANGED matches

\* The scan is over: its locals are gone.
EndScan(result) ==
  /\ outcome' = [outcome EXCEPT ![scan] = result]
  /\ phase' = "idle"
  /\ active' = {} /\ listed' = {} /\ pending' = {}
  /\ present' = {} /\ matches' = {}
  /\ plan' = NoPlan

BugAbandonScan ==
  /\ phase # "idle"
  /\ EndScan("failed")
  /\ triggered' = [r \in Rules |-> IF \E p \in matches : RuleOf[p] = r
                                   THEN scan ELSE triggered[r]]
  /\ UNCHANGED <<exists, enabled, finding, attached, scan, created>>

\* A failed, cancelled or reaped scan, or a finalizeScan that rolls back (an
\* error, or the source is gone): nothing is written to findings.
AbandonScan ==
  /\ phase # "idle"
  /\ EndScan("failed")
  /\ UNCHANGED <<exists, enabled, finding, attached, triggered, scan, created>>

BugReconcileAbsence == Cardinality(matches) <= MaxFindings

\* Coverage is complete: every listed table was read and no match was cut.
ReconcileAbsence ==
  /\ Cardinality(Capped(listed)) = Cardinality(listed)
  /\ Cardinality(matches) <= MaxFindings

\* The detections kept: the MaxFindings most frequent, any of them here.
Kept == IF Cardinality(matches) <= MaxFindings THEN {matches}
        ELSE {D \in SUBSET matches : Cardinality(D) = MaxFindings}

\* The first part of finalizeScan: the most frequent matches are kept, the
\* known findings among them are locked, and the active findings of the source
\* are read without a lock.  A finding found again is reopened if it was
\* resolved and keeps its status otherwise.
FinalizePlan ==
  /\ phase = "reading" /\ pending = {} /\ exists
  /\ \E D \in Kept :
       LET found == {FingerprintOf[p] : p \in D}
           seen == {f \in Fingerprints : attached[f] /\ IsActive(f)}
       IN plan' = [found |-> D,
                   next |-> [f \in Fingerprints |->
                               IF f \notin found THEN "absent"
                               ELSE IF finding[f].status = "resolved"
                               THEN "open" ELSE finding[f].status],
                   resolve |-> IF ReconcileAbsence THEN seen \ found ELSE {},
                   reconcile |-> ReconcileAbsence]
  /\ phase' = "writing"
  /\ UNCHANGED <<exists, enabled, finding, attached, triggered, scan, outcome,
                 created, active, listed, pending, present, matches>>

Found     == {FingerprintOf[p] : p \in plan.found}
\* A detection without a row is an insert of its own, two with the same
\* fingerprint included.
Inserts   == {p \in plan.found : plan.next[FingerprintOf[p]] = "absent"}
Duplicate == \E p, q \in Inserts : p # q /\ FingerprintOf[p] = FingerprintOf[q]
BugLocked(f) == FALSE
Locked(f) == phase = "writing" /\ f \in Found

Inserted == [status |-> "open", creator |-> scan, last |-> scan, by |-> "scan"]
\* The creating scan of a row found again stays.
BugUpdatedStatus(f) == [finding[f] EXCEPT !.last = scan]
Updated(f) ==
  [finding[f] EXCEPT !.status = plan.next[f], !.last = scan,
                     !.by = IF finding[f].status = plan.next[f] THEN @
                            ELSE "scan"]
\* ruleDeltas is taken from every match, kept or cut.
Triggered == {RuleOf[p] : p \in matches}
Resolved(f) == [finding[f] EXCEPT !.status = "resolved", !.by = "scan"]

\* The second part of finalizeScan: inserts, updates, resolutions by absence,
\* metrics and the end of the scan, in one transaction.
FinalizeWrite ==
  /\ phase = "writing" /\ ~Duplicate
  /\ finding' = [f \in Fingerprints |->
       IF f \in Found
       THEN IF plan.next[f] = "absent" THEN Inserted ELSE Updated(f)
       ELSE IF f \in plan.resolve THEN Resolved(f) ELSE finding[f]]
  /\ attached' = [f \in Fingerprints |-> f \in Found \/ attached[f]]
  /\ triggered' = [r \in Rules |-> IF r \in Triggered THEN scan
                                   ELSE triggered[r]]
  /\ created' = [created EXCEPT ![scan] = Cardinality(Inserts)]
  /\ EndScan(IF plan.reconcile THEN "reconciled" ELSE "completed")
  /\ UNCHANGED <<exists, enabled, scan>>

\* findings_fingerprint_active_idx refuses a second row with a fingerprint:
\* the transaction rolls back and the wrapper fails the scan.
FinalizeDuplicate ==
  /\ phase = "writing" /\ Duplicate
  /\ EndScan("duplicate_key")
  /\ UNCHANGED <<exists, enabled, finding, attached, triggered, scan, created>>

\* PATCH /findings/:id waits for the rows finalizeScan has locked.
UpdateStatus(f, st) ==
  /\ Known(f) /\ ~Locked(f)
  /\ finding' = [finding EXCEPT ![f].status = st, ![f].by = "user"]
  /\ UNCHANGED <<exists, enabled, attached, triggered, scan, outcome, created,
                 scanVars>>

\* PATCH /rules/:id.
SetEnabled(r) ==
  /\ enabled' = [enabled EXCEPT ![r] = ~@]
  /\ UNCHANGED <<exists, finding, attached, triggered, scan, outcome, created,
                 scanVars>>

\* DELETE /sources/:id: findings survive without their source and scans.  It
\* waits for the scan row and the findings finalizeScan has locked.
DeleteSource ==
  /\ exists /\ phase # "writing"
  /\ exists' = FALSE
  /\ attached' = [f \in Fingerprints |-> FALSE]
  /\ finding' = [f \in Fingerprints |->
                   [finding[f] EXCEPT !.creator = 0, !.last = 0]]
  /\ UNCHANGED <<enabled, triggered, scan, outcome, created, scanVars>>

Next ==
  \/ BeginScan \/ AbandonScan
  \/ \E t \in Tables : ReadTable(t)
  \/ FinalizePlan \/ FinalizeWrite \/ FinalizeDuplicate
  \/ \E f \in Fingerprints, st \in FindingStatus : UpdateStatus(f, st)
  \/ \E r \in Rules : SetEnabled(r)
  \/ DeleteSource

Spec == Init /\ [][Next]_vars

-----------------------------------------------------------------------------
(* Properties. *)

\* Every variable keeps its type.
TypeOK ==
  /\ exists \in BOOLEAN
  /\ enabled \in [Rules -> BOOLEAN]
  /\ finding \in [Fingerprints -> Finding]
  /\ attached \in [Fingerprints -> BOOLEAN]
  /\ triggered \in [Rules -> 0..MaxScans]
  /\ scan \in 0..MaxScans
  /\ outcome \in [1..MaxScans -> Outcomes]
  /\ created \in [1..MaxScans -> Nat]
  /\ phase \in Phases
  /\ active \subseteq Rules
  /\ listed \subseteq Tables
  /\ pending \subseteq Tables
  /\ present \subseteq Spots
  /\ matches \subseteq present
  /\ plan \in [found : SUBSET Spots,
               next : [Fingerprints -> FindingStatus \cup {"absent"}],
               resolve : SUBSET Fingerprints, reconcile : BOOLEAN]

\* Unless a user had the last word on it, an active finding was seen by the
\* last scan that reconciled absences or by a later one, and a resolved one was
\* not: the list the dashboard counts is what the last complete scan saw.
StatusFollowsScans ==
  \A f \in Fingerprints :
    attached[f] /\ finding[f].by = "scan" =>
      LET missed == \E n \in 1..MaxScans :
                      outcome[n] = "reconciled" /\ n > finding[f].last
      IN (finding[f].status = "resolved") <=> missed

\* The scan leaves a finding alone, reopens a resolved one it matched, or
\* resolves an active one it did not match; a review under way is kept.
\* (FinalizeWrite is the only step of a scan that touches findings.)
TriageRespected ==
  [][\A f \in Fingerprints :
       LET old == finding[f].status
           new == finding'[f].status
       IN scan = scan' /\ phase = "writing" /\ phase' = "idle"
            /\ Known(f) /\ new # old =>
            \/ old = "resolved" /\ new = "open" /\ f \in Found
            \/ IsActive(f) /\ new = "resolved" /\ f \notin Found]_vars

Resolves(f) == phase = "writing" /\ phase' = "idle" /\ IsActive(f)
               /\ finding'[f].status = "resolved"

\* Absence is evidence: a scan resolves a finding only if it matched none of
\* its spots, read every table that still holds one of its columns, and found
\* none there.  The blind spots of the code are named, and there is no other: a
\* rule left out of the scan, a table larger than the page cap, rows that move
\* between the pages of a table while it is read, and a value longer than the
\* field cap.
AbsenceIsEvidence ==
  [][\A f \in Fingerprints : Resolves(f) =>
       \A p \in Spots : FingerprintOf[p] = f =>
         /\ p \notin matches
         /\ TableOf[p] \in listed => TableOf[p] \in Capped(listed)
         /\ p \in present =>
              \/ RuleOf[p] \notin active
              \/ TableOf[p] \in LargeTables \cup ShiftingTables
              \/ p \in LongSpots]_vars

\* What the rows say of a scan is what it did, however many scans fail, are cut by
\* a cap or see a finding again: findings_created counts the findings it created, a
\* scan that did not complete left no finding, last seen, count or triggered rule,
\* and a finding it saw last has a rule it triggered.
ScanTraceExact ==
  /\ exists => \A n \in 1..MaxScans :
       created[n] = Cardinality({f \in Fingerprints : Known(f) /\ finding[f].creator = n})
  /\ \A n \in 1..MaxScans : outcome[n] \in {"failed", "duplicate_key"} =>
       /\ created[n] = 0
       /\ \A f \in Fingerprints : n \notin {finding[f].creator, finding[f].last}
       /\ \A r \in Rules : triggered[r] # n
  /\ \A f \in Fingerprints : finding[f].last > 0 =>
       \E p \in Spots : FingerprintOf[p] = f /\ triggered[RuleOf[p]] >= finding[f].last

\* What the code base says of the program and the program does not do.

\* scanner.ts, finding-lifecycle.ts: with incomplete coverage a scan NEVER
\* resolves by absence, so what it resolves was not there to be matched.
ResolvedOnlyIfAbsent ==
  [][\A f \in Fingerprints : Resolves(f) =>
       \A p \in present : FingerprintOf[p] = f => RuleOf[p] \notin active]_vars

=============================================================================
