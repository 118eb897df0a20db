------------------------ MODULE FindingLifecycleProofs ------------------------
(***************************************************************************)
(* What scans do to findings, for every source, set of rules and caps: the *)
(* rows tell what the scans saw, and only a table that was read and did    *)
(* not match resolves a finding.                                           *)
(***************************************************************************)
EXTENDS FindingLifecycle, FiniteSetTheorems, FunctionTheorems, TLAPS

-----------------------------------------------------------------------------
(* The inductive invariant.                                                *)

\* The scans that are over.
Ended == IF phase = "idle" THEN scan ELSE scan - 1

\* The rows bear the numbers of scans that are over, and a scan that is not over
\* has no outcome.
Numbered ==
  /\ phase # "idle" => scan # 0
  /\ \A f \in Fingerprints : finding[f].creator <= Ended /\ finding[f].last <= Ended
  /\ \A r \in Rules : triggered[r] <= Ended
  /\ \A n \in 1..MaxScans : n > Ended => outcome[n] = "none" /\ created[n] = 0

\* What belongs to the source has a row.
AttachedKnown == \A f \in Fingerprints : attached[f] => Known(f)

\* The scan notices what the tables hold but for its blind spots.
Noticed ==
  \A p \in present : p \in matches \/ RuleOf[p] \notin active \/ Elusive(p)

\* What the plan says of the rows that are locked is true until they are written.
PlanTrue ==
  phase = "writing" =>
    /\ plan.found \subseteq matches
    /\ \A f \in Found :
         plan.next[f] = IF finding[f].status = "resolved" THEN "open" ELSE finding[f].status

\* What it resolves belongs to the source and was not found; if absences count, all
\* of the source that was not found is resolved by now, or is to be, or a user
\* decided on it meanwhile.
PlanCovers ==
  phase = "writing" =>
    /\ \A f \in plan.resolve : attached[f] /\ f \notin Found /\ plan.reconcile
    /\ plan.reconcile => ReconcileAbsence /\ plan.found = matches
    /\ plan.reconcile => \A f \in Fingerprints :
         attached[f] /\ f \notin Found \cup plan.resolve /\ finding[f].by = "scan" =>
           finding[f].status = "resolved"

RowsInv == TypeOK /\ Numbered /\ AttachedKnown /\ PlanTrue /\ PlanCovers

-----------------------------------------------------------------------------
(* Types.                                                                  *)

LEMMA FindingType ==
  /\ NoFinding \in Finding /\ NoFinding.status = "absent"
  /\ NoFinding.creator = 0 /\ NoFinding.last = 0
BY ConstantsAssumption DEF NoFinding, Finding, FindingStatus

LEMMA PlanType ==
  NoPlan \in [found : SUBSET Spots, next : [Fingerprints -> FindingStatus \cup {"absent"}],
              resolve : SUBSET Fingerprints, reconcile : BOOLEAN]
BY DEF NoPlan

LEMMA EndScanType ==
  ASSUME TypeOK, scan # 0, NEW result \in Outcomes, EndScan(result)
  PROVE  /\ outcome' \in [1..MaxScans -> Outcomes] /\ phase' = "idle" /\ phase' \in Phases
         /\ scan \in 1..MaxScans /\ outcome'[scan] = result
         /\ \A n \in 1..MaxScans \ {scan} : outcome'[n] = outcome[n]
         /\ active' \subseteq Rules /\ listed' \subseteq Tables /\ pending' \subseteq Tables
         /\ present' \subseteq Spots /\ matches' \subseteq present'
         /\ plan' \in [found : SUBSET Spots,
                       next : [Fingerprints -> FindingStatus \cup {"absent"}],
                       resolve : SUBSET Fingerprints, reconcile : BOOLEAN]
<1>1. scan \in 1..MaxScans
  BY ConstantsAssumption DEF TypeOK
<1> QED
  BY <1>1, PlanType DEF EndScan, TypeOK, Phases

\* The rows of findings that FinalizeWrite leaves.
LEMMA WrittenType ==
  ASSUME TypeOK, NEW f \in Fingerprints, scan \in 1..MaxScans
  PROVE  /\ Inserted \in Finding /\ Updated(f) \in Finding /\ Resolved(f) \in Finding
         /\ Updated(f).status = plan.next[f]
         /\ Updated(f).creator = finding[f].creator /\ Updated(f).last = scan
         /\ Resolved(f).status = "resolved" /\ Resolved(f).by = "scan"
         /\ Resolved(f).creator = finding[f].creator /\ Resolved(f).last = finding[f].last
<1>1. finding[f] \in Finding /\ plan.next[f] \in FindingStatus \cup {"absent"}
  BY DEF TypeOK
<1>2. scan \in 0..MaxScans
  BY DEF TypeOK
<1>3. Inserted \in Finding
  BY <1>2 DEF Inserted, Finding, FindingStatus
<1>4. /\ Updated(f) \in Finding /\ Updated(f).status = plan.next[f]
      /\ Updated(f).creator = finding[f].creator /\ Updated(f).last = scan
  BY <1>1, <1>2 DEF Updated, Finding
<1>5. /\ Resolved(f) \in Finding /\ Resolved(f).status = "resolved" /\ Resolved(f).by = "scan"
      /\ Resolved(f).creator = finding[f].creator /\ Resolved(f).last = finding[f].last
  BY <1>1 DEF Resolved, Finding, FindingStatus
<1> QED
  BY <1>3, <1>4, <1>5

LEMMA InsertsFinite == TypeOK => IsFiniteSet(Inserts) /\ Cardinality(Inserts) \in Nat
<1> SUFFICES ASSUME TypeOK
             PROVE  IsFiniteSet(Inserts) /\ Cardinality(Inserts) \in Nat
  OBVIOUS
<1>1. Inserts \in SUBSET Spots
  BY DEF Inserts, TypeOK
<1> QED
  BY <1>1, FS_Subset, FS_CardinalityType, ConstantsAssumption

LEMMA TypeStep == TypeOK /\ (phase # "idle" => scan # 0) /\ [Next]_vars => TypeOK'
<1> SUFFICES ASSUME TypeOK, phase # "idle" => scan # 0, [Next]_vars
             PROVE  TypeOK'
  OBVIOUS
<1> USE DEF scanVars
<1>1. CASE BeginScan
  <2>1. scan' \in 0..MaxScans
    BY <1>1, ConstantsAssumption DEF BeginScan, TypeOK
  <2>2. Capped(listed') \subseteq listed'
    BY DEF Capped
  <2> QED
    BY <1>1, <2>1, <2>2 DEF BeginScan, TypeOK, Phases, Capped
<1>2. CASE AbandonScan
  BY <1>2, EndScanType DEF AbandonScan, TypeOK, Outcomes
<1>3. ASSUME NEW t \in Tables, ReadTable(t)
      PROVE  TypeOK'
  BY <1>3 DEF ReadTable, TypeOK, SpotsOf
<1>4. CASE FinalizePlan
  <2>1. PICK D \in Kept :
          LET found == {FingerprintOf[p] : p \in D}
              seen == {f \in Fingerprints : attached[f] /\ IsActive(f)}
          IN plan' = [found |-> D,
                      next |-> [f \in Fingerprints |->
                                  IF f \notin found THEN "absent"
                                  ELSE IF finding[f].status = "resolved"
                                  THEN "open" ELSE finding[f].status],
                      resolve |-> IF ReconcileAbsence THEN seen \ found ELSE {},
                      reconcile |-> ReconcileAbsence]
    BY <1>4 DEF FinalizePlan
  <2>2. D \subseteq Spots
    BY DEF Kept, TypeOK
  <2>3. \A f \in Fingerprints : finding[f].status \in FindingStatus \cup {"absent"}
    BY DEF TypeOK, Finding
  <2>4. ReconcileAbsence \in BOOLEAN
    BY DEF ReconcileAbsence
  <2>5. plan' \in [found : SUBSET Spots,
                   next : [Fingerprints -> FindingStatus \cup {"absent"}],
                   resolve : SUBSET Fingerprints, reconcile : BOOLEAN]
    BY <2>1, <2>2, <2>3, <2>4 DEF FindingStatus
  <2> QED
    BY <1>4, <2>5 DEF FinalizePlan, TypeOK, Phases
<1>5. CASE FinalizeWrite
  <2>1. scan \in 1..MaxScans
    BY <1>5, ConstantsAssumption DEF FinalizeWrite, TypeOK
  <2>2. finding' \in [Fingerprints -> Finding]
    BY <1>5, <2>1, WrittenType DEF FinalizeWrite, TypeOK
  <2>3. attached' \in [Fingerprints -> BOOLEAN]
    BY <1>5 DEF FinalizeWrite, TypeOK
  <2>4. triggered' \in [Rules -> 0..MaxScans] /\ created' \in [1..MaxScans -> Nat]
    BY <1>5, InsertsFinite DEF FinalizeWrite, TypeOK
  <2>5. PICK result \in Outcomes : EndScan(result)
    BY <1>5 DEF FinalizeWrite, Outcomes
  <2> QED
    BY <1>5, <2>1, <2>2, <2>3, <2>4, <2>5, EndScanType DEF FinalizeWrite, TypeOK
<1>6. CASE FinalizeDuplicate
  BY <1>6, EndScanType DEF FinalizeDuplicate, TypeOK, Outcomes
<1>7. ASSUME NEW f \in Fingerprints, NEW st \in FindingStatus, UpdateStatus(f, st)
      PROVE  TypeOK'
  <2>1. [finding[f] EXCEPT !.status = st, !.by = "user"] \in Finding
    <3>1. finding[f] \in Finding
      BY DEF TypeOK
    <3> QED
      BY <3>1 DEF Finding
  <2>2. finding' = [finding EXCEPT ![f] = [finding[f] EXCEPT !.status = st, !.by = "user"]]
    BY <1>7 DEF UpdateStatus, TypeOK
  <2> QED
    BY <1>7, <2>1, <2>2 DEF UpdateStatus, TypeOK
<1>8. ASSUME NEW r \in Rules, SetEnabled(r)
      PROVE  TypeOK'
  BY <1>8 DEF SetEnabled, TypeOK
<1>9. CASE DeleteSource
  <2>1. \A f \in Fingerprints : [finding[f] EXCEPT !.creator = 0, !.last = 0] \in Finding
    <3>1. /\ 0 \in 0..MaxScans
          /\ \A f \in Fingerprints : finding[f] \in Finding
      BY ConstantsAssumption DEF TypeOK
    <3> QED
      BY <3>1 DEF Finding
  <2> QED
    BY <1>9, <2>1 DEF DeleteSource, TypeOK
<1>10. CASE UNCHANGED vars
  BY <1>10 DEF vars, TypeOK
<1> QED
  BY <1>1, <1>2, <1>3, <1>4, <1>5, <1>6, <1>7, <1>8, <1>9, <1>10 DEF Next


-----------------------------------------------------------------------------
(* Rows and numbers.                                                       *)

\* Steps between the beginning of a scan and its end that leave the rows alone.
LEMMA RowsKept ==
  ASSUME Numbered, AttachedKnown, UNCHANGED <<finding, attached, triggered, outcome, created, scan>>,
         phase' # "idle", phase # "idle"
  PROVE  Numbered' /\ AttachedKnown'
BY DEF Numbered, AttachedKnown, Ended, Known

\* A scan that ends with nothing written.
LEMMA NothingWritten ==
  ASSUME TypeOK, Numbered, AttachedKnown, NEW result \in Outcomes, EndScan(result), phase # "idle",
         UNCHANGED <<finding, attached, triggered, scan, created>>
  PROVE  Numbered' /\ AttachedKnown'
<1>1. AttachedKnown'
  BY DEF AttachedKnown, Known
<1>2. scan # 0 /\ phase' = "idle" /\ Ended = scan - 1 /\ Ended' = scan /\ scan \in Nat
  BY ConstantsAssumption, EndScanType DEF Numbered, Ended, TypeOK
<1>3. /\ \A f \in Fingerprints : finding'[f].creator <= scan /\ finding'[f].last <= scan
      /\ \A r \in Rules : triggered'[r] <= scan
  <2>1. \A f \in Fingerprints : finding[f].creator \in Nat /\ finding[f].last \in Nat
    BY DEF TypeOK, Finding
  <2>2. \A r \in Rules : triggered[r] \in Nat
    BY DEF TypeOK
  <2> QED
    BY <1>2, <2>1, <2>2 DEF Numbered
<1>4. \A n \in 1..MaxScans : n > scan => outcome'[n] = "none" /\ created'[n] = 0
  <2> SUFFICES ASSUME NEW n \in 1..MaxScans, n > scan
               PROVE  outcome'[n] = "none" /\ created'[n] = 0
    OBVIOUS
  <2>1. n # scan /\ n > Ended
    BY <1>2
  <2>2. outcome'[n] = outcome[n]
    BY <1>2, <2>1, EndScanType
  <2> QED
    BY <2>1, <2>2 DEF Numbered
<1> QED
  BY <1>1, <1>2, <1>3, <1>4 DEF Numbered

\* FinalizeWrite, row by row: a finding that was found has a row that says so, and
\* the others keep theirs but for a resolution.
LEMMA Written ==
  ASSUME TypeOK, Numbered, AttachedKnown, PlanTrue, PlanCovers, FinalizeWrite, NEW f \in Fingerprints
  PROVE  /\ f \in Found =>
              /\ ~Known(f) <=> plan.next[f] = "absent"
              /\ Known(f)' /\ attached'[f] /\ finding'[f].last = scan
              /\ finding'[f].status \in {"open", "in_review"}
              /\ ~Known(f) => finding'[f].creator = scan
              /\ Known(f) => /\ finding'[f].creator = finding[f].creator
                             /\ finding'[f].status = IF finding[f].status = "resolved"
                                                     THEN "open" ELSE finding[f].status
         /\ f \in plan.resolve =>
              /\ f \notin Found /\ attached[f] /\ attached'[f] /\ Known(f) /\ Known(f)'
              /\ finding'[f].status = "resolved"
              /\ finding'[f].creator = finding[f].creator /\ finding'[f].last = finding[f].last
         /\ f \notin Found \cup plan.resolve =>
              finding'[f] = finding[f] /\ attached'[f] = attached[f]
<1>1. scan \in 1..MaxScans
  BY ConstantsAssumption DEF FinalizeWrite, Numbered, TypeOK
<1>2. /\ attached'[f] = (f \in Found \/ attached[f])
      /\ finding'[f] = IF f \in Found
                       THEN IF plan.next[f] = "absent" THEN Inserted ELSE Updated(f)
                       ELSE IF f \in plan.resolve THEN Resolved(f) ELSE finding[f]
  BY DEF FinalizeWrite
<1>3. CASE f \in Found
  <2>1. plan.next[f] = IF finding[f].status = "resolved" THEN "open" ELSE finding[f].status
    BY <1>3 DEF FinalizeWrite, PlanTrue
  <2>2. finding[f].status \in FindingStatus \cup {"absent"}
    BY DEF TypeOK, Finding
  <2>3. CASE plan.next[f] = "absent"
    <3>1. ~Known(f) /\ finding'[f] = Inserted
      BY <1>2, <1>3, <2>1, <2>3 DEF Known
    <3> QED
      BY <1>2, <1>3, <2>3, <3>1 DEF Inserted, Known, PlanCovers, FinalizeWrite
  <2>4. CASE plan.next[f] # "absent"
    <3>1. Known(f) /\ finding'[f] = Updated(f)
      BY <1>2, <1>3, <2>1, <2>4 DEF Known
    <3>2. finding'[f].status \in {"open", "in_review"}
      BY <1>1, <2>1, <2>2, <2>4, <3>1, WrittenType DEF FindingStatus
    <3> QED
      BY <1>1, <1>2, <1>3, <2>1, <2>4, <3>1, <3>2, WrittenType
      DEF Known, PlanCovers, FinalizeWrite
  <2> QED
    BY <2>3, <2>4
<1>4. CASE f \notin Found /\ f \in plan.resolve
  <2>1. attached[f] /\ Known(f)
    BY <1>4 DEF PlanCovers, FinalizeWrite, AttachedKnown
  <2> QED
    BY <1>1, <1>2, <1>4, <2>1, WrittenType DEF Known
<1>5. CASE f \notin Found \cup plan.resolve
  <2>1. attached[f] \in BOOLEAN
    BY DEF TypeOK
  <2> QED
    BY <1>2, <1>5, <2>1
<1> QED
  BY <1>3, <1>4, <1>5

LEMMA NumbersStep ==
  RowsInv /\ [Next]_vars => Numbered' /\ AttachedKnown'
<1> SUFFICES ASSUME RowsInv, [Next]_vars
             PROVE  Numbered' /\ AttachedKnown'
  OBVIOUS
<1> USE DEF scanVars
<1>0. TypeOK /\ Numbered /\ AttachedKnown /\ PlanTrue /\ PlanCovers
  BY DEF RowsInv
<1>1. CASE BeginScan
  <2>1. Ended' = Ended /\ scan' # 0
    BY <1>0, <1>1 DEF BeginScan, Ended, TypeOK
  <2> QED
    BY <1>0, <1>1, <2>1 DEF BeginScan, Numbered, AttachedKnown, Known
<1>2. CASE AbandonScan
  BY <1>0, <1>2, NothingWritten DEF AbandonScan, Outcomes
<1>3. ASSUME NEW t \in Tables, ReadTable(t)
      PROVE  Numbered' /\ AttachedKnown'
  BY <1>0, <1>3, RowsKept DEF ReadTable
<1>4. CASE FinalizePlan
  BY <1>0, <1>4, RowsKept DEF FinalizePlan
<1>5. CASE FinalizeWrite
  <2>1. /\ scan # 0 /\ scan \in 1..MaxScans /\ scan' = scan /\ phase' = "idle"
        /\ Ended = scan - 1 /\ Ended' = scan
    BY <1>0, <1>5, ConstantsAssumption DEF FinalizeWrite, EndScan, Numbered, Ended, TypeOK
  <2>2. AttachedKnown'
    BY <1>0, <1>5, Written DEF AttachedKnown, Known
  <2>3. ASSUME NEW f \in Fingerprints
        PROVE  finding'[f].creator <= scan /\ finding'[f].last <= scan
    <3>1. finding[f].creator \in Nat /\ finding[f].last \in Nat
      BY <1>0 DEF TypeOK, Finding
    <3>2. finding[f].creator <= scan /\ finding[f].last <= scan
      BY <1>0, <2>1, <3>1 DEF Numbered
    <3>3. /\ finding'[f].creator \in {scan, finding[f].creator}
          /\ finding'[f].last \in {scan, finding[f].last}
      BY <1>0, <1>5, Written
    <3> QED
      BY <2>1, <3>2, <3>3
  <2>4. ASSUME NEW r \in Rules
        PROVE  triggered'[r] <= scan
    <3>1. triggered'[r] \in {scan, triggered[r]}
      BY <1>0, <1>5 DEF FinalizeWrite, TypeOK
    <3>2. triggered[r] \in Nat /\ triggered[r] <= Ended
      BY <1>0 DEF TypeOK, Numbered
    <3> QED
      BY <2>1, <3>1, <3>2
  <2>5. ASSUME NEW n \in 1..MaxScans, n > scan
        PROVE  outcome'[n] = "none" /\ created'[n] = 0
    <3>1. n # scan /\ n > Ended
      BY <2>1, <2>5
    <3>2. outcome'[n] = outcome[n] /\ created'[n] = created[n]
      BY <1>0, <1>5, <3>1 DEF FinalizeWrite, EndScan, TypeOK
    <3> QED
      BY <1>0, <3>1, <3>2 DEF Numbered
  <2> QED
    BY <2>1, <2>2, <2>3, <2>4, <2>5 DEF Numbered
<1>6. CASE FinalizeDuplicate
  BY <1>0, <1>6, NothingWritten DEF FinalizeDuplicate, Outcomes
<1>7. ASSUME NEW f \in Fingerprints, NEW st \in FindingStatus, UpdateStatus(f, st)
      PROVE  Numbered' /\ AttachedKnown'
  <2>1. /\ \A g \in Fingerprints : /\ finding'[g].creator = finding[g].creator
                                   /\ finding'[g].last = finding[g].last
        /\ \A g \in Fingerprints : Known(g) => Known(g)'
    <3>1. \A g \in Fingerprints : finding[g] \in Finding
      BY <1>0 DEF TypeOK
    <3>2. finding' = [finding EXCEPT ![f] = [finding[f] EXCEPT !.status = st, !.by = "user"]]
      BY <1>0, <1>7 DEF UpdateStatus, TypeOK
    <3>3. \A g \in Fingerprints \ {f} : finding'[g] = finding[g]
      BY <1>0, <3>2 DEF TypeOK
    <3>4. finding'[f] = [finding[f] EXCEPT !.status = st, !.by = "user"]
      BY <1>0, <3>2 DEF TypeOK
    <3>5. /\ finding'[f].status = st /\ st # "absent"
          /\ finding'[f].creator = finding[f].creator /\ finding'[f].last = finding[f].last
      BY <3>1, <3>4 DEF Finding, FindingStatus
    <3> QED
      BY <3>3, <3>5 DEF Known
  <2> QED
    BY <1>0, <1>7, <2>1 DEF UpdateStatus, Numbered, AttachedKnown, Ended
<1>8. ASSUME NEW r \in Rules, SetEnabled(r)
      PROVE  Numbered' /\ AttachedKnown'
  BY <1>0, <1>8 DEF SetEnabled, Numbered, AttachedKnown, Ended, Known
<1>9. CASE DeleteSource
  <2>1. \A f \in Fingerprints : finding'[f].creator = 0 /\ finding'[f].last = 0 /\ ~attached'[f]
    <3> SUFFICES ASSUME NEW f \in Fingerprints
                 PROVE  finding'[f].creator = 0 /\ finding'[f].last = 0 /\ ~attached'[f]
      OBVIOUS
    <3>1. /\ finding'[f] = [finding[f] EXCEPT !.creator = 0, !.last = 0]
          /\ ~attached'[f] /\ finding[f] \in Finding
      BY <1>0, <1>9 DEF DeleteSource, TypeOK
    <3> QED
      BY <3>1 DEF Finding
  <2>2. 0 <= Ended /\ Ended' = Ended
    <3>1. scan \in Nat /\ (phase # "idle" => scan # 0)
      BY <1>0, ConstantsAssumption DEF Numbered, TypeOK
    <3>2. scan' = scan /\ phase' = phase
      BY <1>9 DEF DeleteSource
    <3> QED
      BY <3>1, <3>2 DEF Ended
  <2>3. UNCHANGED <<triggered, scan, outcome, created, phase>>
    BY <1>9 DEF DeleteSource
  <2>4. Numbered'
    <3>1. \A f \in Fingerprints : finding'[f].creator <= Ended' /\ finding'[f].last <= Ended'
      BY <2>1, <2>2
    <3>2. /\ \A r \in Rules : triggered'[r] <= Ended'
          /\ \A n \in 1..MaxScans : n > Ended' => outcome'[n] = "none" /\ created'[n] = 0
      BY <1>0, <2>2, <2>3 DEF Numbered
    <3> QED
      BY <1>0, <2>3, <3>1, <3>2 DEF Numbered
  <2> QED
    BY <2>1, <2>4 DEF AttachedKnown
<1>10. CASE UNCHANGED vars
  BY <1>0, <1>10 DEF vars, Numbered, AttachedKnown, Ended, Known
<1> QED
  BY <1>1, <1>2, <1>3, <1>4, <1>5, <1>6, <1>7, <1>8, <1>9, <1>10 DEF Next


-----------------------------------------------------------------------------
(* The plan.                                                               *)

\* What plans read, left alone while one is being written.
LEMMA PlanKept ==
  ASSUME PlanTrue, PlanCovers, UNCHANGED <<finding, attached, phase, plan, matches, listed>>
  PROVE  PlanTrue' /\ PlanCovers'
BY DEF PlanTrue, PlanCovers, Found, ReconcileAbsence, Capped

\* A plan has been made by whoever writes.
LEMMA NoPlanYet ==
  ASSUME phase' # "writing"
  PROVE  PlanTrue' /\ PlanCovers'
BY DEF PlanTrue, PlanCovers

LEMMA Planned ==
  ASSUME TypeOK, AttachedKnown, FinalizePlan
  PROVE  PlanTrue' /\ PlanCovers'
<1>1. PICK D \in Kept :
        LET found == {FingerprintOf[p] : p \in D}
            seen == {f \in Fingerprints : attached[f] /\ IsActive(f)}
        IN plan' = [found |-> D,
                    next |-> [f \in Fingerprints |->
                                IF f \notin found THEN "absent"
                                ELSE IF finding[f].status = "resolved"
                                THEN "open" ELSE finding[f].status],
                    resolve |-> IF ReconcileAbsence THEN seen \ found ELSE {},
                    reconcile |-> ReconcileAbsence]
  BY DEF FinalizePlan
<1> DEFINE found == {FingerprintOf[p] : p \in D}
           seen == {f \in Fingerprints : attached[f] /\ IsActive(f)}
<1>2. /\ plan'.found = D
      /\ plan'.next = [f \in Fingerprints |->
                         IF f \notin found THEN "absent"
                         ELSE IF finding[f].status = "resolved"
                         THEN "open" ELSE finding[f].status]
      /\ plan'.resolve = IF ReconcileAbsence THEN seen \ found ELSE {}
      /\ plan'.reconcile = ReconcileAbsence
  BY <1>1
<1>3. D \subseteq matches /\ (ReconcileAbsence => D = matches) /\ D \subseteq Spots
  BY DEF Kept, ReconcileAbsence, TypeOK
<1>4. Found' = found /\ found \subseteq Fingerprints
  BY <1>2, <1>3 DEF Found, Fingerprints
<1>5. UNCHANGED <<finding, attached, matches, listed>>
  BY DEF FinalizePlan
<1> HIDE DEF found
<1>6. PlanTrue'
  BY <1>2, <1>3, <1>4, <1>5 DEF PlanTrue
<1>7. ReconcileAbsence' = ReconcileAbsence
  BY <1>5 DEF ReconcileAbsence, Capped
<1>8. \A f \in plan'.resolve : attached[f] /\ f \notin found /\ plan'.reconcile
  BY <1>2
<1>9. plan'.reconcile => ReconcileAbsence /\ plan'.found = matches
  BY <1>2, <1>3
<1>10. ASSUME plan'.reconcile, NEW f \in Fingerprints,
              attached[f], f \notin found \cup plan'.resolve
       PROVE  finding[f].status = "resolved"
  <2>1. ~IsActive(f) /\ Known(f)
    BY <1>2, <1>10 DEF AttachedKnown
  <2>2. finding[f].status \in FindingStatus \cup {"absent"}
    BY DEF TypeOK, Finding
  <2> QED
    BY <2>1, <2>2 DEF IsActive, Known, FindingStatus
<1>11. PlanCovers'
  BY <1>4, <1>5, <1>7, <1>8, <1>9, <1>10 DEF PlanCovers
<1> QED
  BY <1>6, <1>11

LEMMA PlanStep == RowsInv /\ [Next]_vars => PlanTrue' /\ PlanCovers'
<1> SUFFICES ASSUME RowsInv, [Next]_vars
             PROVE  PlanTrue' /\ PlanCovers'
  OBVIOUS
<1> USE DEF scanVars
<1>0. TypeOK /\ Numbered /\ AttachedKnown /\ PlanTrue /\ PlanCovers
  BY DEF RowsInv
<1>1. CASE BeginScan \/ AbandonScan \/ (\E t \in Tables : ReadTable(t))
           \/ FinalizeWrite \/ FinalizeDuplicate
  BY <1>1, NoPlanYet DEF BeginScan, AbandonScan, ReadTable, FinalizeWrite, FinalizeDuplicate, EndScan
<1>2. CASE FinalizePlan
  BY <1>0, <1>2, Planned
<1>3. ASSUME NEW f \in Fingerprints, NEW st \in FindingStatus, UpdateStatus(f, st)
      PROVE  PlanTrue' /\ PlanCovers'
  <2>1. UNCHANGED <<attached, phase, plan, matches, listed>> /\ ~Locked(f)
    BY <1>3 DEF UpdateStatus
  <2>2. \A g \in Fingerprints \ {f} : finding'[g] = finding[g]
    BY <1>0, <1>3 DEF UpdateStatus, TypeOK
  <2>3. finding'[f].by = "user"
    <3>1. finding'[f] = [finding[f] EXCEPT !.status = st, !.by = "user"] /\ finding[f] \in Finding
      BY <1>0, <1>3 DEF UpdateStatus, TypeOK
    <3> QED
      BY <3>1 DEF Finding
  <2>4. Found' = Found /\ ReconcileAbsence' = ReconcileAbsence /\ Found \subseteq Fingerprints
    BY <1>0, <2>1 DEF Found, ReconcileAbsence, Capped, Fingerprints, TypeOK
  <2>5. PlanTrue'
    BY <1>0, <2>1, <2>2, <2>4 DEF PlanTrue, Locked
  <2>6. PlanCovers'
    BY <1>0, <2>1, <2>2, <2>3, <2>4 DEF PlanCovers
  <2> QED
    BY <2>5, <2>6
<1>4. ASSUME NEW r \in Rules, SetEnabled(r)
      PROVE  PlanTrue' /\ PlanCovers'
  BY <1>0, <1>4, PlanKept DEF SetEnabled
<1>5. CASE DeleteSource
  BY <1>5, NoPlanYet DEF DeleteSource
<1>6. CASE UNCHANGED vars
  BY <1>0, <1>6, PlanKept DEF vars
<1> QED
  BY <1>1, <1>2, <1>3, <1>4, <1>5, <1>6 DEF Next

LEMMA RowsFirst == Init => RowsInv
<1> SUFFICES ASSUME Init
             PROVE  RowsInv
  OBVIOUS
<1>1. TypeOK
  BY FindingType, PlanType, ConstantsAssumption DEF Init, TypeOK, Phases, Outcomes
<1>2. Numbered
  BY FindingType, ConstantsAssumption DEF Init, Numbered, Ended
<1>3. AttachedKnown /\ PlanTrue /\ PlanCovers
  BY DEF Init, AttachedKnown, PlanTrue, PlanCovers
<1> QED
  BY <1>1, <1>2, <1>3 DEF RowsInv

LEMMA RowsStep == RowsInv /\ [Next]_vars => RowsInv'
BY TypeStep, NumbersStep, PlanStep DEF RowsInv, Numbered

\* The type invariant: what the scan has noticed is there, and a plan names spots and
\* findings of the source.
THEOREM FindingsTypeCorrect == Spec => []TypeOK
<1>1. RowsInv => TypeOK
  BY DEF RowsInv
<1> QED
  BY <1>1, RowsFirst, RowsStep, PTL DEF Spec


-----------------------------------------------------------------------------
(* Absence.                                                                *)

\* What the scan noticed.
LEMMA NoticedStep ==
  TypeOK /\ Noticed /\ [Next]_vars => Noticed'
<1> SUFFICES ASSUME TypeOK, Noticed, [Next]_vars
             PROVE  Noticed'
  OBVIOUS
<1> USE DEF scanVars
<1>1. CASE BeginScan
  BY <1>1 DEF BeginScan, Noticed
<1>2. CASE AbandonScan \/ FinalizeWrite \/ FinalizeDuplicate
  BY <1>2 DEF AbandonScan, FinalizeWrite, FinalizeDuplicate, EndScan, Noticed
<1>3. ASSUME NEW t \in Tables, ReadTable(t)
      PROVE  Noticed'
  <2>1. PICK P \in SUBSET SpotsOf(t), missed \in SUBSET Spots :
          /\ \A p \in missed : Elusive(p)
          /\ present' = present \cup P
          /\ matches' = matches \cup {p \in P \ missed : RuleOf[p] \in active}
    BY <1>3 DEF ReadTable, SpotsOf
  <2>2. active' = active
    BY <1>3 DEF ReadTable
  <2> QED
    BY <2>1, <2>2 DEF Noticed, Elusive
<1>4. CASE UNCHANGED <<present, matches, active>>
  BY <1>4 DEF Noticed
<1> QED
  BY <1>1, <1>2, <1>3, <1>4
  DEF Next, FinalizePlan, UpdateStatus, SetEnabled, DeleteSource, vars

\* A scan that read as many tables as it listed read them all.
LEMMA AllRead ==
  ASSUME TypeOK, ReconcileAbsence
  PROVE  Capped(listed) = listed
<1>1. IsFiniteSet(Tables)
  BY FS_Interval, ConstantsAssumption DEF Tables
<1>2. IsFiniteSet(listed)
  BY <1>1, FS_Subset DEF TypeOK
<1>3. Capped(listed) \in SUBSET listed
  BY DEF Capped
<1> QED
  BY <1>2, <1>3, FS_Subset DEF ReconcileAbsence

\* Only the writing of the plan resolves, and what it resolves is in the plan.
LEMMA ResolvesWrites ==
  ASSUME RowsInv, [Next]_vars, NEW f \in Fingerprints, Resolves(f)
  PROVE  FinalizeWrite /\ f \in plan.resolve
<1>1. phase = "writing" /\ phase' = "idle" /\ IsActive(f) /\ finding'[f].status = "resolved"
  BY DEF Resolves
<1>2. finding'[f] # finding[f]
  BY <1>1 DEF IsActive
<1>3. FinalizeWrite
  BY <1>1, <1>2
  DEF Next, BeginScan, AbandonScan, ReadTable, FinalizePlan, FinalizeDuplicate, UpdateStatus,
      SetEnabled, DeleteSource, vars, scanVars
<1>4. f \notin Found
  BY <1>1, <1>3, Written DEF RowsInv
<1>5. f \in Found \cup plan.resolve
  BY <1>2, <1>3, Written DEF RowsInv
<1> QED
  BY <1>3, <1>4, <1>5

LEMMA EvidenceStep ==
  ASSUME RowsInv, Noticed, [Next]_vars, NEW f \in Fingerprints, Resolves(f),
         NEW p \in Spots, FingerprintOf[p] = f
  PROVE  /\ p \notin matches
         /\ TableOf[p] \in listed => TableOf[p] \in Capped(listed)
         /\ p \in present => RuleOf[p] \notin active \/ Elusive(p)
<1>1. FinalizeWrite /\ f \in plan.resolve /\ phase = "writing"
  BY ResolvesWrites DEF FinalizeWrite
<1>2. f \notin Found /\ ReconcileAbsence /\ plan.found = matches
  BY <1>1 DEF RowsInv, PlanCovers
<1>3. p \notin matches
  BY <1>2 DEF Found
<1>4. Capped(listed) = listed
  BY <1>2, AllRead DEF RowsInv
<1> QED
  BY <1>3, <1>4 DEF Noticed

\* A scan that resolves a finding has read all its tables and found nothing there,
\* but for its blind spots: a rule left out, rows past the page cap or moved between
\* pages, and the end of a long value.
THEOREM AbsenceProves == Spec => AbsenceIsEvidence
<1>1. Init => Noticed
  BY DEF Init, Noticed
<1>2. RowsInv /\ Noticed /\ [Next]_vars =>
        \A f \in Fingerprints : Resolves(f) =>
          \A p \in Spots : FingerprintOf[p] = f =>
            /\ p \notin matches
            /\ TableOf[p] \in listed => TableOf[p] \in Capped(listed)
            /\ p \in present =>
                 \/ RuleOf[p] \notin active
                 \/ TableOf[p] \in LargeTables \cup ShiftingTables
                 \/ p \in LongSpots
  BY EvidenceStep DEF Elusive
<1>3. RowsInv => TypeOK
  BY DEF RowsInv
<1> QED
  BY <1>1, <1>2, <1>3, RowsFirst, RowsStep, NoticedStep, PTL DEF Spec, AbsenceIsEvidence

-----------------------------------------------------------------------------
(* Triage.                                                                 *)

LEMMA TriageStep ==
  ASSUME RowsInv, [Next]_vars, NEW f \in Fingerprints, scan = scan',
         phase = "writing", phase' = "idle", Known(f), finding'[f].status # finding[f].status
  PROVE  \/ finding[f].status = "resolved" /\ finding'[f].status = "open" /\ f \in Found
         \/ IsActive(f) /\ finding'[f].status = "resolved" /\ f \notin Found
<1>1. FinalizeWrite
  BY DEF Next, BeginScan, AbandonScan, ReadTable, FinalizePlan, FinalizeDuplicate, UpdateStatus,
         SetEnabled, DeleteSource, vars, scanVars
<1>2. finding[f].status \in FindingStatus
  BY DEF RowsInv, TypeOK, Finding, Known
<1>3. CASE f \in Found
  BY <1>1, <1>3, Written DEF RowsInv
<1>4. CASE f \in plan.resolve
  BY <1>1, <1>2, <1>4, Written DEF RowsInv, IsActive, FindingStatus
<1>5. CASE f \notin Found \cup plan.resolve
  BY <1>1, <1>5, Written DEF RowsInv
<1> QED
  BY <1>3, <1>4, <1>5

\* A scan reopens what it found again and resolves what it did not find; it leaves a
\* review alone.
THEOREM TriageStays == Spec => TriageRespected
<1>1. RowsInv /\ [Next]_vars =>
        \A f \in Fingerprints :
          LET old == finding[f].status
              new == finding'[f].status
          IN scan = scan' /\ phase = "writing" /\ phase' = "idle"
               /\ Known(f) /\ new # old =>
               \/ old = "resolved" /\ new = "open" /\ f \in Found
               \/ IsActive(f) /\ new = "resolved" /\ f \notin Found
  BY TriageStep
<1> QED
  BY <1>1, RowsFirst, RowsStep, PTL DEF Spec, TriageRespected


-----------------------------------------------------------------------------
(* Status.                                                                 *)

\* A scan after the one that last saw the finding reconciled absences.
Missed(f) == \E n \in 1..MaxScans : outcome[n] = "reconciled" /\ n > finding[f].last

StatusRight(f) ==
  attached[f] /\ finding[f].by = "scan" => ((finding[f].status = "resolved") <=> Missed(f))

LEMMA StatusIsRight == StatusFollowsScans <=> \A f \in Fingerprints : StatusRight(f)
BY DEF StatusFollowsScans, StatusRight, Missed

\* A scan that reconciles nothing.
LEMMA StatusKept ==
  ASSUME \A f \in Fingerprints : StatusRight(f), UNCHANGED <<finding, attached>>,
         \A n \in 1..MaxScans : outcome'[n] = "reconciled" <=> outcome[n] = "reconciled"
  PROVE  \A f \in Fingerprints : StatusRight(f)'
BY DEF StatusRight, Missed

LEMMA StatusWritten ==
  ASSUME RowsInv, FinalizeWrite, NEW f \in Fingerprints, StatusRight(f)
  PROVE  StatusRight(f)'
<1>1. TypeOK /\ Numbered /\ AttachedKnown /\ PlanTrue /\ PlanCovers /\ phase = "writing"
  BY DEF RowsInv, FinalizeWrite
<1>2. /\ scan \in 1..MaxScans /\ scan \in Nat /\ finding[f].last \in Nat
      /\ finding[f].last < scan
  <2>1. scan # 0 /\ scan \in 0..MaxScans /\ finding[f].last <= scan - 1
    BY <1>1 DEF Numbered, Ended, TypeOK
  <2>2. finding[f].last \in 0..MaxScans
    BY <1>1 DEF TypeOK, Finding
  <2> QED
    BY <2>1, <2>2, ConstantsAssumption
<1>3. /\ \A n \in 1..MaxScans : n # scan => outcome'[n] = outcome[n]
      /\ outcome'[scan] = IF plan.reconcile THEN "reconciled" ELSE "completed"
  BY <1>1, <1>2 DEF FinalizeWrite, EndScan, TypeOK
<1>4. \A n \in 1..MaxScans : n >= scan => outcome[n] # "reconciled"
  BY <1>1, <1>2 DEF Numbered, Ended
<1>5. CASE f \in Found
  <2>1. finding'[f].last = scan /\ finding'[f].status # "resolved"
    BY <1>1, <1>5, Written
  <2>2. ~Missed(f)'
    BY <1>2, <1>3, <1>4, <2>1 DEF Missed
  <2> QED
    BY <2>1, <2>2 DEF StatusRight
<1>6. CASE f \in plan.resolve
  <2>1. finding'[f].last = finding[f].last /\ finding'[f].status = "resolved"
    BY <1>1, <1>6, Written
  <2>2. plan.reconcile
    BY <1>1, <1>6 DEF PlanCovers
  <2>3. Missed(f)'
    BY <1>2, <1>3, <2>1, <2>2 DEF Missed
  <2> QED
    BY <2>1, <2>3 DEF StatusRight
<1>7. CASE f \notin Found \cup plan.resolve
  <2>1. finding'[f] = finding[f] /\ attached'[f] = attached[f]
    BY <1>1, <1>7, Written
  <2>2. CASE plan.reconcile
    <3>1. attached[f] /\ finding[f].by = "scan" => finding[f].status = "resolved"
      BY <1>1, <1>7, <2>2 DEF PlanCovers
    <3>2. Missed(f)'
      BY <1>2, <1>3, <2>1, <2>2 DEF Missed
    <3> QED
      BY <2>1, <3>1, <3>2 DEF StatusRight
  <2>3. CASE ~plan.reconcile
    <3>1. Missed(f)' <=> Missed(f)
      BY <1>2, <1>3, <1>4, <2>1, <2>3 DEF Missed
    <3> QED
      BY <2>1, <3>1 DEF StatusRight
  <2> QED
    BY <2>2, <2>3
<1> QED
  BY <1>5, <1>6, <1>7

LEMMA StatusStep ==
  RowsInv /\ StatusFollowsScans /\ [Next]_vars => StatusFollowsScans'
<1> SUFFICES ASSUME RowsInv, \A f \in Fingerprints : StatusRight(f), [Next]_vars
             PROVE  \A f \in Fingerprints : StatusRight(f)'
  BY StatusIsRight, StatusIsRight DEF StatusFollowsScans, StatusRight, Missed
<1> USE DEF scanVars
<1>1. ASSUME NEW result \in {"failed", "duplicate_key"}, EndScan(result), phase # "idle",
             UNCHANGED <<finding, attached>>
      PROVE  \A f \in Fingerprints : StatusRight(f)'
  <2>1. \A n \in 1..MaxScans : n # scan => outcome'[n] = outcome[n]
    BY <1>1 DEF EndScan, RowsInv, TypeOK
  <2>2. scan \in 1..MaxScans /\ outcome[scan] = "none" /\ outcome'[scan] = result
    <3>1. scan # 0 /\ scan \in 1..MaxScans /\ scan > Ended
      BY <1>1, ConstantsAssumption DEF RowsInv, Numbered, Ended, TypeOK
    <3> QED
      BY <1>1, <3>1 DEF RowsInv, Numbered, EndScan, TypeOK
  <2> QED
    BY <1>1, <2>1, <2>2, StatusKept
<1>2. CASE AbandonScan \/ FinalizeDuplicate
  BY <1>1, <1>2 DEF AbandonScan, FinalizeDuplicate
<1>3. CASE FinalizeWrite
  BY <1>3, StatusWritten
<1>4. ASSUME NEW f \in Fingerprints, NEW st \in FindingStatus, UpdateStatus(f, st)
      PROVE  \A g \in Fingerprints : StatusRight(g)'
  <2>1. \A g \in Fingerprints \ {f} : finding'[g] = finding[g]
    BY <1>4 DEF UpdateStatus, RowsInv, TypeOK
  <2>2. finding'[f].by = "user"
    <3>1. finding'[f] = [finding[f] EXCEPT !.status = st, !.by = "user"] /\ finding[f] \in Finding
      BY <1>4 DEF UpdateStatus, RowsInv, TypeOK
    <3> QED
      BY <3>1 DEF Finding
  <2> QED
    BY <1>4, <2>1, <2>2 DEF UpdateStatus, StatusRight, Missed
<1>5. CASE DeleteSource
  BY <1>5 DEF DeleteSource, StatusRight
<1>6. CASE UNCHANGED <<finding, attached, outcome>>
  BY <1>6, StatusKept
<1> QED
  BY <1>2, <1>3, <1>4, <1>5, <1>6
  DEF Next, BeginScan, ReadTable, FinalizePlan, SetEnabled, vars

\* Unless a user decided, a finding is resolved exactly if a scan after the last that
\* saw it read everything.
THEOREM StatusFollows == Spec => []StatusFollowsScans
<1>1. Init => StatusFollowsScans
  BY DEF Init, StatusFollowsScans
<1> QED
  BY <1>1, RowsFirst, RowsStep, StatusStep, PTL DEF Spec


-----------------------------------------------------------------------------
(* The trace of a scan.                                                    *)

CreatedBy(n) == {f \in Fingerprints : Known(f) /\ finding[f].creator = n}
CountTrue(n) == exists => created[n] = Cardinality(CreatedBy(n))
FailedTraceless(n) ==
  outcome[n] \in {"failed", "duplicate_key"} =>
    /\ created[n] = 0
    /\ \A f \in Fingerprints : n \notin {finding[f].creator, finding[f].last}
    /\ \A r \in Rules : triggered[r] # n
SeenTriggered(f) ==
  finding[f].last > 0 =>
    \E p \in Spots : FingerprintOf[p] = f /\ triggered[RuleOf[p]] >= finding[f].last

TraceInv ==
  /\ \A n \in 1..MaxScans : CountTrue(n) /\ FailedTraceless(n)
  /\ \A f \in Fingerprints : SeenTriggered(f)

LEMMA TraceIs == ScanTraceExact <=> TraceInv
BY DEF ScanTraceExact, TraceInv, CountTrue, CreatedBy, FailedTraceless, SeenTriggered

\* The inserts of a plan without a duplicate are one for each finding that is new.
LEMMA InsertsCounted ==
  ASSUME TypeOK, PlanTrue, phase = "writing", ~Duplicate
  PROVE  Cardinality({f \in Found : ~Known(f)}) = Cardinality(Inserts)
<1> DEFINE new == {f \in Found : ~Known(f)}
           key == [p \in Inserts |-> FingerprintOf[p]]
<1>1. \A p \in plan.found : (plan.next[FingerprintOf[p]] = "absent") <=> ~Known(FingerprintOf[p])
  BY DEF PlanTrue, Found, Known
<1>2. \A p \in Inserts : FingerprintOf[p] \in new
  BY <1>1 DEF Inserts, Found
<1>3. \A f \in new : \E p \in Inserts : FingerprintOf[p] = f
  BY <1>1 DEF Inserts, Found
<1>4. \A p, q \in Inserts : FingerprintOf[p] = FingerprintOf[q] => p = q
  BY DEF Duplicate
<1> HIDE DEF new
<1>5. key \in Bijection(Inserts, new)
  BY <1>2, <1>3, <1>4 DEF Bijection, Injection, Surjection, IsInjective
<1> HIDE DEF key
<1>6. ExistsBijection(Inserts, new)
  BY <1>5 DEF ExistsBijection
<1> QED
  BY <1>6, InsertsFinite, FS_Bijection DEF new

\* Steps that create, trigger and end nothing.
LEMMA TraceKept ==
  ASSUME TraceInv, UNCHANGED <<triggered, outcome, created>>, exists' => exists,
         \A f \in Fingerprints : Known(f)' <=> Known(f),
         \A f \in Fingerprints : /\ finding'[f].creator = finding[f].creator
                                 /\ finding'[f].last = finding[f].last
  PROVE  TraceInv'
<1>1. \A n \in 1..MaxScans : CreatedBy(n)' = CreatedBy(n)
  BY DEF CreatedBy
<1> QED
  BY <1>1 DEF TraceInv, CountTrue, FailedTraceless, SeenTriggered

\* The numbers of the scan that is under way are in no row.
LEMMA NotYetThere ==
  ASSUME RowsInv, phase # "idle"
  PROVE  /\ scan \in 1..MaxScans /\ outcome[scan] = "none" /\ created[scan] = 0
         /\ \A f \in Fingerprints : /\ finding[f].creator \in Nat /\ finding[f].creator < scan
                                    /\ finding[f].last \in Nat /\ finding[f].last < scan
         /\ \A r \in Rules : triggered[r] \in Nat /\ triggered[r] < scan
<1>1. scan # 0 /\ scan \in 1..MaxScans /\ Ended = scan - 1 /\ scan \in Nat
  BY ConstantsAssumption DEF RowsInv, Numbered, Ended, TypeOK
<1>2. \A f \in Fingerprints : finding[f].creator \in Nat /\ finding[f].last \in Nat
  BY DEF RowsInv, TypeOK, Finding
<1>3. \A r \in Rules : triggered[r] \in Nat
  BY DEF RowsInv, TypeOK
<1> QED
  BY <1>1, <1>2, <1>3 DEF RowsInv, Numbered

LEMMA TraceEnded ==
  ASSUME RowsInv, TraceInv, NEW result, EndScan(result), phase # "idle",
         UNCHANGED <<exists, finding, triggered, scan, created>>
  PROVE  TraceInv'
<1>1. \A n \in 1..MaxScans \ {scan} : outcome'[n] = outcome[n]
  BY DEF EndScan, RowsInv, TypeOK
<1>2. \A n \in 1..MaxScans : CountTrue(n)'
  BY DEF TraceInv, CountTrue, CreatedBy, Known
<1>3. \A n \in 1..MaxScans \ {scan} : FailedTraceless(n)'
  BY <1>1 DEF TraceInv, FailedTraceless
<1>4. FailedTraceless(scan)'
  BY NotYetThere DEF FailedTraceless
<1>5. \A f \in Fingerprints : SeenTriggered(f)'
  BY DEF TraceInv, SeenTriggered
<1>6. \A n \in 1..MaxScans : FailedTraceless(n)'
  BY <1>3, <1>4
<1> QED
  BY <1>2, <1>5, <1>6 DEF TraceInv

LEMMA TraceWritten ==
  ASSUME RowsInv, TraceInv, FinalizeWrite
  PROVE  TraceInv'
<1>1. TypeOK /\ Numbered /\ AttachedKnown /\ PlanTrue /\ PlanCovers /\ phase = "writing"
  BY DEF RowsInv, FinalizeWrite
<1>2. /\ scan \in 1..MaxScans /\ outcome[scan] = "none" /\ created[scan] = 0
      /\ \A f \in Fingerprints : /\ finding[f].creator \in Nat /\ finding[f].creator < scan
                                 /\ finding[f].last \in Nat /\ finding[f].last < scan
      /\ \A r \in Rules : triggered[r] \in Nat /\ triggered[r] < scan
  BY <1>1, NotYetThere
<1>3. /\ outcome'[scan] \in {"reconciled", "completed"} /\ exists' = exists
      /\ created'[scan] = Cardinality(Inserts)
      /\ \A n \in 1..MaxScans \ {scan} : outcome'[n] = outcome[n] /\ created'[n] = created[n]
      /\ \A r \in Rules : triggered'[r] = IF r \in Triggered THEN scan ELSE triggered[r]
  BY <1>1, <1>2 DEF FinalizeWrite, EndScan, TypeOK
<1>4. Found \subseteq Fingerprints
  BY <1>1 DEF Found, Fingerprints, TypeOK
<1>5. ASSUME NEW f \in Fingerprints
      PROVE  /\ Known(f)' <=> f \in Found \/ Known(f)
             /\ finding'[f].creator = IF f \in Found /\ ~Known(f) THEN scan
                                      ELSE finding[f].creator
             /\ finding'[f].last = IF f \in Found THEN scan ELSE finding[f].last
  <2>1. CASE f \in Found
    BY <1>1, <2>1, Written
  <2>2. CASE f \in plan.resolve
    BY <1>1, <2>2, Written
  <2>3. CASE f \notin Found \cup plan.resolve
    BY <1>1, <2>3, Written DEF Known
  <2> QED
    BY <2>1, <2>2, <2>3
<1>6. CountTrue(scan)'
  <2>1. CreatedBy(scan)' = {f \in Found : ~Known(f)}
    <3>1. \A f \in Fingerprints : finding[f].creator # scan
      BY <1>2
    <3>2. \A f \in Fingerprints :
            Known(f)' /\ finding'[f].creator = scan <=> f \in Found /\ ~Known(f)
      BY <1>5, <3>1
    <3>3. scan' = scan
      BY DEF FinalizeWrite
    <3> QED
      BY <1>4, <3>2, <3>3 DEF CreatedBy
  <2>2. ~Duplicate
    BY DEF FinalizeWrite
  <2>3. scan' = scan
    BY DEF FinalizeWrite
  <2> QED
    BY <1>1, <1>3, <2>1, <2>2, <2>3, InsertsCounted DEF CountTrue
<1>7. ASSUME NEW n \in 1..MaxScans \ {scan}
      PROVE  CountTrue(n)'
  <2>1. \A f \in Fingerprints :
          Known(f)' /\ finding'[f].creator = n <=> Known(f) /\ finding[f].creator = n
    <3> SUFFICES ASSUME NEW f \in Fingerprints
                 PROVE  Known(f)' /\ finding'[f].creator = n <=> Known(f) /\ finding[f].creator = n
      OBVIOUS
    <3> QED
      BY <1>5
  <2>2. CreatedBy(n)' = CreatedBy(n)
    BY <2>1 DEF CreatedBy
  <2> QED
    BY <1>3, <2>2 DEF TraceInv, CountTrue
<1>8. FailedTraceless(scan)'
  BY <1>3 DEF FailedTraceless, FinalizeWrite
<1>9. ASSUME NEW n \in 1..MaxScans \ {scan}
      PROVE  FailedTraceless(n)'
  <2> SUFFICES ASSUME outcome[n] \in {"failed", "duplicate_key"}
               PROVE  /\ created'[n] = 0
                      /\ \A f \in Fingerprints : n \notin {finding'[f].creator, finding'[f].last}
                      /\ \A r \in Rules : triggered'[r] # n
    BY <1>3 DEF FailedTraceless
  <2>1. /\ created[n] = 0
        /\ \A f \in Fingerprints : n \notin {finding[f].creator, finding[f].last}
        /\ \A r \in Rules : triggered[r] # n
    BY DEF TraceInv, FailedTraceless
  <2> QED
    BY <1>3, <1>5, <2>1
<1>10. ASSUME NEW f \in Fingerprints
       PROVE  SeenTriggered(f)'
  <2>1. CASE f \in Found
    <3>1. PICK p \in plan.found : FingerprintOf[p] = f
      BY <2>1 DEF Found
    <3>2. p \in Spots /\ RuleOf[p] \in Triggered /\ RuleOf[p] \in Rules
      BY <1>1, <3>1 DEF PlanTrue, Triggered, Rules, TypeOK
    <3>3. triggered'[RuleOf[p]] = scan /\ finding'[f].last = scan
      BY <1>3, <1>5, <2>1, <3>2
    <3> QED
      BY <1>2, <3>1, <3>2, <3>3 DEF SeenTriggered
  <2>2. CASE f \notin Found
    <3>1. finding'[f].last = finding[f].last
      BY <1>5, <2>2
    <3>2. SUFFICES ASSUME finding[f].last > 0
                   PROVE  \E p \in Spots : FingerprintOf[p] = f
                                           /\ triggered'[RuleOf[p]] >= finding[f].last
      BY <3>1 DEF SeenTriggered
    <3>3. PICK p \in Spots : FingerprintOf[p] = f /\ triggered[RuleOf[p]] >= finding[f].last
      BY <3>2 DEF TraceInv, SeenTriggered
    <3>4. RuleOf[p] \in Rules
      BY DEF Rules
    <3>5. /\ triggered'[RuleOf[p]] \in {scan, triggered[RuleOf[p]]}
          /\ triggered[RuleOf[p]] \in Nat /\ finding[f].last \in Nat
          /\ finding[f].last < scan /\ scan \in Nat
      BY <1>2, <1>3, <3>4
    <3>6. triggered'[RuleOf[p]] >= finding[f].last
      BY <3>3, <3>5
    <3> QED
      BY <3>3, <3>6
  <2> QED
    BY <2>1, <2>2
<1> QED
  BY <1>6, <1>7, <1>8, <1>9, <1>10 DEF TraceInv, FinalizeWrite

LEMMA TraceStep == RowsInv /\ TraceInv /\ [Next]_vars => TraceInv'
<1> SUFFICES ASSUME RowsInv, TraceInv, [Next]_vars
             PROVE  TraceInv'
  OBVIOUS
<1> USE DEF scanVars
<1>1. CASE AbandonScan \/ FinalizeDuplicate
  BY <1>1, TraceEnded DEF AbandonScan, FinalizeDuplicate
<1>2. CASE FinalizeWrite
  BY <1>2, TraceWritten
<1>3. ASSUME NEW f \in Fingerprints, NEW st \in FindingStatus, UpdateStatus(f, st)
      PROVE  TraceInv'
  <2>1. \A g \in Fingerprints \ {f} : finding'[g] = finding[g]
    BY <1>3 DEF UpdateStatus, RowsInv, TypeOK
  <2>2. /\ finding'[f].creator = finding[f].creator /\ finding'[f].last = finding[f].last
        /\ finding'[f].status = st /\ st # "absent"
    <3>1. finding'[f] = [finding[f] EXCEPT !.status = st, !.by = "user"] /\ finding[f] \in Finding
      BY <1>3 DEF UpdateStatus, RowsInv, TypeOK
    <3> QED
      BY <3>1 DEF Finding, FindingStatus
  <2>3. Known(f)
    BY <1>3 DEF UpdateStatus
  <2>4. \A g \in Fingerprints : /\ Known(g)' <=> Known(g)
                                /\ finding'[g].creator = finding[g].creator
                                /\ finding'[g].last = finding[g].last
    BY <2>1, <2>2, <2>3 DEF Known
  <2> QED
    BY <1>3, <2>4, TraceKept DEF UpdateStatus
<1>4. CASE DeleteSource
  <2>1. /\ ~exists' /\ UNCHANGED <<triggered, outcome, created>>
        /\ \A f \in Fingerprints : finding'[f].creator = 0 /\ finding'[f].last = 0
    <3>1. \A f \in Fingerprints : /\ finding'[f] = [finding[f] EXCEPT !.creator = 0, !.last = 0]
                                  /\ finding[f] \in Finding
      BY <1>4 DEF DeleteSource, RowsInv, TypeOK
    <3>2. \A f \in Fingerprints : finding'[f].creator = 0 /\ finding'[f].last = 0
      BY <3>1 DEF Finding
    <3> QED
      BY <1>4, <3>2 DEF DeleteSource
  <2>2. \A n \in 1..MaxScans : CountTrue(n)' /\ FailedTraceless(n)'
    BY <2>1 DEF TraceInv, CountTrue, FailedTraceless
  <2>3. \A f \in Fingerprints : SeenTriggered(f)'
    BY <2>1 DEF SeenTriggered
  <2> QED
    BY <2>2, <2>3 DEF TraceInv
<1>5. CASE UNCHANGED <<exists, finding, triggered, outcome, created>>
  BY <1>5, TraceKept DEF Known
<1> QED
  BY <1>1, <1>2, <1>3, <1>4, <1>5
  DEF Next, BeginScan, ReadTable, FinalizePlan, SetEnabled, vars

\* The counts, numbers and triggered rules that scans leave are those of what they did.
THEOREM TraceExact == Spec => []ScanTraceExact
<1>1. Init => TraceInv
  <2> SUFFICES ASSUME Init
               PROVE  TraceInv
    OBVIOUS
  <2>1. \A f \in Fingerprints : ~Known(f) /\ finding[f].last = 0
    BY FindingType DEF Init, Known
  <2>2. \A n \in 1..MaxScans : CreatedBy(n) = {}
    BY <2>1 DEF CreatedBy
  <2>3. \A n \in 1..MaxScans : outcome[n] = "none" /\ created[n] = 0
    BY DEF Init
  <2>4. \A n \in 1..MaxScans : CountTrue(n) /\ FailedTraceless(n)
    BY <2>2, <2>3, FS_EmptySet DEF CountTrue, FailedTraceless
  <2>5. \A f \in Fingerprints : SeenTriggered(f)
    BY <2>1 DEF SeenTriggered
  <2> QED
    BY <2>4, <2>5 DEF TraceInv
<1> QED
  BY <1>1, RowsFirst, RowsStep, TraceStep, TraceIs, PTL DEF Spec

=============================================================================
