-------------------------- MODULE BackupSetsProofs --------------------------
(***************************************************************************)
(* Theorems of BackupSets, for every set of runs of the two kinds.         *)
(*                                                                         *)
(* The argument: what a process finds out about a lock, one step after     *)
(* another, is true as long as it is still that lock; so a lock it takes   *)
(* to be stale has no holder, and none can come before it is removed.  And *)
(* retention is the work of a run that has published a set of its own,     *)
(* which is not old.                                                       *)
(***************************************************************************)
EXTENDS BackupSets, TLAPS

-----------------------------------------------------------------------------
(* The inductive invariant.                                                *)

\* The lock is that of the one process that made it or holds it; nobody does when it
\* has aged without a pid.
Taking == {"made"} \cup Holding
LockMade == \A p \in Runs : at[p] = "made" => lock = Taken
LockHeld == \A p \in Runs : at[p] \in Holding => lock.dir /\ lock.pid = p
OneMaker == \A p, q \in Runs : at[p] = "made" /\ at[q] = "made" => p = q
AgedIsLeft == lock.aged => \A p \in Runs : at[p] \notin Taking

\* A refused process knows the lock as long as that is the one that refused it.
Knows(p) ==
  /\ lock.dir
  /\ at[p] = "read" /\ seen[p] # Nobody => lock.pid = seen[p]
  /\ at[p] = "judged" => \A q \in Runs : at[q] \notin Taking
LockKnown == \A p \in Runs \ passed : at[p] \in Refusing => Knows(p)

LockSound == LockMade /\ LockHeld /\ OneMaker /\ AgedIsLeft /\ LockKnown
LockInv == ~strayed => LockSound

\* A run opens the manifest of a whole set, and retains when it has closed it.
SetsInv ==
  /\ ManifestIsLast
  /\ \A p \in Runs : at[p] \in {"writing", "retaining"} => Whole(p)
  /\ \A p \in Runs : at[p] = "retaining" => p \in Logical /\ "manifest" \in files[p]
  /\ BackupRemains

-----------------------------------------------------------------------------
(* Types.                                                                  *)

\* A manifest, closed or not, is not one of the members.
LEMMA MembersPlain ==
  \A s \in Runs : "manifest" \notin MemberSet[s] /\ "opened" \notin MemberSet[s]
<1> TAKE s \in Runs
<1>1. CASE s \in Physical
  BY <1>1 DEF MemberSet, Members
<1>2. CASE s \notin Physical
  BY <1>2 DEF MemberSet, Members
<1> QED
  BY <1>1, <1>2

LEMMA TakenType ==
  /\ Taken \in [dir : BOOLEAN, pid : Runs \cup {Nobody}, aged : BOOLEAN]
  /\ Taken.dir /\ Taken.pid = Nobody /\ ~Taken.aged
BY DEF Taken, Free

LEMMA TypeInit == Init => TypeOK
<1> SUFFICES ASSUME Init
             PROVE  TypeOK
  OBVIOUS
<1>1. lock \in [dir : BOOLEAN, pid : Runs \cup {Nobody}, aged : BOOLEAN] /\ lock = Free
  BY DEF Init, Free
<1>2. at \in [Runs -> {"idle", "made", "wiped", "done", "dead"} \cup Refusing \cup Holding]
  BY DEF Init
<1> QED
  BY <1>1, <1>2 DEF Init, TypeOK

\* What the trap that cleans up, for the process of a lock, leaves.
LEMMA CleanupType ==
  ASSUME TypeOK, NEW p \in Runs, at[p] \in Holding, Cleanup(p)
  PROVE  TypeOK'
BY DEF Cleanup, Remove, Goto, TypeOK, Free, Holding, Refusing, MemberSet, Members, sets

LEMMA TypeStep == TypeOK /\ [Next]_vars => TypeOK'
<1> SUFFICES ASSUME TypeOK, [Next]_vars
             PROVE  TypeOK'
  OBVIOUS
<1> USE DEF sets, Refusing
<1>1. CASE Age
  BY <1>1 DEF Age, TypeOK, Free, MemberSet, Members
<1>2. ASSUME NEW p \in Runs, Mkdir(p) \/ WritePid(p)
      PROVE  TypeOK'
  <2>1. CASE Mkdir(p)
    BY <2>1, TakenType DEF Mkdir, Goto, TypeOK, Holding
  <2>2. CASE WritePid(p)
    BY <2>2 DEF WritePid, Goto, TypeOK, Free, Holding
  <2> QED
    BY <1>2, <2>1, <2>2
<1>3. ASSUME NEW p \in Runs, Refused(p) \/ ReadPid(p) \/ Judge(p) \/ Wipe(p) \/ Remake(p)
      PROVE  TypeOK'
  <2>1. CASE Refused(p)
    BY <2>1 DEF Refused, Goto, TypeOK, Holding
  <2>2. CASE ReadPid(p)
    BY <2>2 DEF ReadPid, Goto, TypeOK, Holding
  <2>3. CASE Judge(p)
    <3>1. CASE Stale(p)
      BY <2>3, <3>1 DEF Judge, Goto, TypeOK, Holding
    <3>2. CASE ~Stale(p)
      BY <2>3, <3>2 DEF Judge, Goto, TypeOK, Holding
    <3> QED
      BY <3>1, <3>2
  <2>4. CASE Wipe(p)
    <3>1. strayed' \in BOOLEAN
      BY <2>4, Zenon DEF Wipe
    <3> QED
      BY <2>4, <3>1, RunsAssumption DEF Wipe, Remove, Goto, TypeOK, Free, Holding
  <2>5. CASE Remake(p)
    <3>1. CASE lock.dir
      BY <2>5, <3>1 DEF Remake, Goto, TypeOK, Free, Holding
    <3>2. CASE ~lock.dir
      BY <2>5, <3>2, TakenType DEF Remake, Goto, TypeOK, Holding
    <3> QED
      BY <3>1, <3>2
  <2> QED
    BY <1>3, <2>1, <2>2, <2>3, <2>4, <2>5
<1>4. ASSUME NEW p \in Runs, Stage(p) \/ Dump(p)
      PROVE  TypeOK'
  BY <1>4 DEF Stage, Dump, Goto, TypeOK, Free, Holding, MemberSet, Members
<1>5. ASSUME NEW p \in Runs, PublishMember(p)
      PROVE  TypeOK'
  <2>1. PICK i \in DOMAIN Members(p) : files' = [files EXCEPT ![p] = @ \cup {Members(p)[i]}]
    BY <1>5 DEF PublishMember
  <2>2. Members(p)[i] \in MemberSet[p]
    BY DEF MemberSet
  <2> QED
    BY <1>5, <2>1, <2>2 DEF PublishMember, TypeOK
<1>6. ASSUME NEW p \in Runs, OpenManifest(p) \/ CloseManifest(p)
      PROVE  TypeOK'
  <2>1. CASE OpenManifest(p)
    BY <1>6, <2>1 DEF OpenManifest, Goto, TypeOK, Free, Holding
  <2>2. CASE CloseManifest(p)
    BY <1>6, <2>2 DEF CloseManifest, Goto, TypeOK, Free, Holding
  <2> QED
    BY <1>6, <2>1, <2>2
<1>7. ASSUME NEW p \in Runs, NEW s \in Runs, Retain(p, s)
      PROVE  TypeOK'
  BY <1>7 DEF Retain, TypeOK, Free
<1>8. ASSUME NEW p \in Runs, Finish(p) \/ Fail(p)
      PROVE  TypeOK'
  BY <1>8, CleanupType DEF Finish, Fail, Holding
<1>9. ASSUME NEW p \in Runs, Kill(p) \/ GrowOld(p)
      PROVE  TypeOK'
  BY <1>9 DEF Kill, GrowOld, Goto, Alive, TypeOK, Free, Holding
<1>10. CASE UNCHANGED vars
  BY <1>10 DEF vars, TypeOK, Free
<1> QED
  BY <1>1, <1>2, <1>3, <1>4, <1>5, <1>6, <1>7, <1>8, <1>9, <1>10 DEF Next, Backup

\* The type invariant: a temporary directory belongs to a run that is staging,
\* publishing or dead, an old set to one that is over, and a lock that is not there
\* has neither a pid nor an age.
THEOREM BackupSetsTypeCorrect == Spec => []TypeOK
<1>1. Init => TypeOK
  BY TypeInit
<1>2. TypeOK /\ [Next]_vars => TypeOK'
  BY TypeStep
<1> QED
  BY <1>1, <1>2, PTL DEF Spec

-----------------------------------------------------------------------------
(* The lock.                                                               *)

LEMMA LockInit == Init => LockInv
BY DEF Init, LockInv, LockSound, LockMade, LockHeld, OneMaker, AgedIsLeft, LockKnown, Free,
   Holding, Refusing

\* Who holds a lock that is there wrote the pid in it.
LEMMA PidOfHolder ==
  ASSUME TypeOK, LockSound, NEW p \in Runs
  PROVE  /\ ~lock.dir => at[p] \notin Taking
         /\ lock.pid = Nobody => at[p] \notin Holding
         /\ lock.pid # Nobody /\ lock.pid \notin Alive => at[p] \notin Taking
BY RunsAssumption, TakenType DEF TypeOK, LockSound, LockMade, LockHeld, Taking, Holding, Alive

LEMMA LockStep == TypeOK /\ LockInv /\ [Next]_vars => LockInv'
<1> SUFFICES ASSUME TypeOK, LockInv, [Next]_vars, ~strayed'
             PROVE  LockSound'
  BY DEF LockInv
<1> USE RunsAssumption DEF sets
<1>1. ASSUME ~strayed, Age
      PROVE  LockSound'
  <2>1. LockSound
    BY <1>1 DEF LockInv
  <2>2. \A q \in Runs : at[q] \notin Taking
    BY <1>1, <2>1, PidOfHolder DEF Age, Taking
  <2>3. lock'.dir /\ lock'.pid = lock.pid /\ UNCHANGED <<at, seen, passed>>
    BY <1>1 DEF Age, TypeOK
  <2> QED
    BY <2>1, <2>2, <2>3
    DEF LockSound, LockMade, LockHeld, OneMaker, AgedIsLeft, LockKnown, Knows, Taking
<1>2. ASSUME ~strayed, NEW p \in Runs, ~lock.dir, lock' = Taken, at[p] \in {"idle", "wiped"},
             Goto(p, "made"), UNCHANGED <<seen, passed>>
      PROVE  LockSound'
  <2>1. LockSound
    BY <1>2 DEF LockInv
  <2>2. \A q \in Runs : at[q] \notin Taking
    BY <1>2, <2>1, PidOfHolder
  <2>3. \A q \in Runs \ passed : at[q] \notin Refusing
    BY <1>2, <2>1 DEF LockSound, LockKnown, Knows
  <2> QED
    BY <1>2, <2>2, <2>3, TakenType
    DEF Goto, TypeOK, LockSound, LockMade, LockHeld, OneMaker, AgedIsLeft, LockKnown, Taking,
        Holding, Refusing
<1>3. ASSUME ~strayed, NEW p \in Runs, WritePid(p)
      PROVE  LockSound'
  <2>1. LockSound /\ lock = Taken /\ \A q \in Runs : at[q] \in Taking => q = p
    <3>1. LockSound
      BY <1>3 DEF LockInv
    <3> QED
      BY <1>3, <3>1, PidOfHolder, TakenType
      DEF WritePid, LockSound, LockMade, OneMaker, Taking
  <2>2. lock'.dir /\ lock'.pid = p /\ ~lock'.aged
    BY <1>3, <2>1, TakenType DEF WritePid, TypeOK
  <2>3. at' = [at EXCEPT ![p] = "held"] /\ UNCHANGED <<seen, passed>>
    BY <1>3 DEF WritePid, Goto
  <2>4. \A q \in Runs \ passed : /\ at[q] # "judged"
                                 /\ at[q] = "read" => seen[q] = Nobody
    BY <1>3, <2>1, TakenType DEF WritePid, LockSound, LockKnown, Knows, Refusing, Taking
  <2> QED
    BY <2>1, <2>2, <2>3, <2>4
    DEF TypeOK, LockSound, LockMade, LockHeld, OneMaker, AgedIsLeft, LockKnown, Knows, Taking,
        Holding, Refusing
<1>4. ASSUME ~strayed, NEW p \in Runs, Refused(p)
      PROVE  LockSound'
  BY <1>4
  DEF Refused, Goto, TypeOK, LockInv, LockSound, LockMade, LockHeld, OneMaker, AgedIsLeft,
      LockKnown, Knows, Taking, Holding, Refusing
<1>5. ASSUME ~strayed, NEW p \in Runs, ReadPid(p)
      PROVE  LockSound'
  BY <1>5
  DEF ReadPid, Goto, TypeOK, LockInv, LockSound, LockMade, LockHeld, OneMaker, AgedIsLeft,
      LockKnown, Knows, Taking, Holding, Refusing
<1>6. ASSUME ~strayed, NEW p \in Runs, Judge(p)
      PROVE  LockSound'
  <2>1. LockSound /\ lock' = lock
    BY <1>6 DEF Judge, LockInv
  <2>2. \A q \in Runs : at'[q] \in Taking <=> at[q] \in Taking
    BY <1>6 DEF Judge, Goto, TypeOK, Taking, Holding
  <2>3. LockMade' /\ LockHeld' /\ OneMaker' /\ AgedIsLeft'
    BY <1>6, <2>1, <2>2
    DEF Judge, Goto, TypeOK, LockSound, LockMade, LockHeld, OneMaker, AgedIsLeft, Holding
  <2>4. ASSUME NEW q \in Runs \ {p}, q \notin passed', at'[q] \in Refusing
        PROVE  Knows(q)'
    BY <1>6, <2>1, <2>2, <2>4 DEF Judge, Goto, TypeOK, LockSound, LockKnown, Knows
  <2>5. ASSUME p \notin passed', at'[p] \in Refusing
        PROVE  Knows(p)'
    <3>1. Stale(p) /\ p \notin passed /\ at'[p] = "judged"
      BY <1>6, <2>5 DEF Judge, Goto, TypeOK, Refusing
    <3>2. Knows(p)
      BY <1>6, <2>1, <3>1 DEF Judge, LockSound, LockKnown, Refusing
    <3>3. \A q \in Runs : at[q] \notin Taking
      <4>1. CASE seen[p] = Nobody
        BY <2>1, <3>1, <3>2, <4>1 DEF Stale, Knows, LockSound, AgedIsLeft
      <4>2. CASE seen[p] # Nobody
        BY <1>6, <2>1, <3>1, <3>2, <4>2, PidOfHolder DEF Judge, Stale, Knows
      <4> QED
        BY <4>1, <4>2
    <3> QED
      BY <2>1, <2>2, <3>1, <3>2, <3>3 DEF Knows
  <2> QED
    BY <2>3, <2>4, <2>5 DEF LockSound, LockKnown
<1>7. ASSUME ~strayed, NEW p \in Runs, Remove(p), at[p] \in Taking \cup Refusing,
             NEW place \in {"wiped", "done"}, Goto(p, place),
             \A q \in Runs \ {p} : at[q] \notin Taking
      PROVE  LockSound'
  BY <1>7
  DEF Remove, Goto, TypeOK, Free, LockSound, LockMade, LockHeld, OneMaker, AgedIsLeft,
      LockKnown, Taking, Holding, Refusing
<1>8. ASSUME NEW p \in Runs, Wipe(p)
      PROVE  LockSound'
  <2>1. ~strayed /\ (lock.dir => p \notin passed)
    BY <1>8, Zenon DEF Wipe
  <2>2. LockSound
    BY <2>1 DEF LockInv
  <2>3. \A q \in Runs : at[q] \notin Taking
    <3>1. CASE lock.dir
      BY <1>8, <2>1, <2>2, <3>1 DEF Wipe, LockSound, LockKnown, Knows, Refusing
    <3>2. CASE ~lock.dir
      BY <2>2, <3>2, PidOfHolder
    <3> QED
      BY <3>1, <3>2
  <2> QED
    BY <1>7, <1>8, <2>1, <2>3 DEF Wipe, Refusing
<1>9. ASSUME ~strayed, NEW p \in Runs, at[p] \in Holding, Cleanup(p)
      PROVE  LockSound'
  <2>1. lock.pid = p /\ LockSound
    BY <1>9 DEF LockInv, LockSound, LockHeld
  <2>2. \A q \in Runs \ {p} : at[q] \notin Taking
    BY <2>1, TakenType DEF LockSound, LockMade, LockHeld, Taking
  <2> QED
    BY <1>7, <1>9, <2>2 DEF Cleanup, Taking
<1>10. ASSUME ~strayed, NEW p \in Runs, Kill(p)
       PROVE  LockSound'
  BY <1>10
  DEF Kill, Goto, TypeOK, LockInv, LockSound, LockMade, LockHeld, OneMaker, AgedIsLeft,
      LockKnown, Knows, Taking, Holding, Refusing
<1>11. ASSUME ~strayed, NEW p \in Runs, NEW place \in Holding,
              at[p] \in Holding, Goto(p, place), UNCHANGED <<lock, seen, passed>>
       PROVE  LockSound'
  BY <1>11
  DEF Goto, TypeOK, LockInv, LockSound, LockMade, LockHeld, OneMaker, AgedIsLeft,
      LockKnown, Knows, Taking, Holding, Refusing
<1>12. ASSUME ~strayed, UNCHANGED <<lock, at, seen, passed>>
       PROVE  LockSound'
  BY <1>12
  DEF LockInv, LockSound, LockMade, LockHeld, OneMaker, AgedIsLeft, LockKnown, Knows, Taking
<1>13. ASSUME NEW p \in Runs, Mkdir(p) \/ Remake(p)
       PROVE  LockSound'
  <2>1. ~strayed
    BY <1>13 DEF Mkdir, Remake
  <2>2. CASE ~lock.dir
    BY <1>2, <1>13, <2>1, <2>2 DEF Mkdir, Remake
  <2>3. CASE lock.dir
    <3>1. lock' = lock /\ at' = [at EXCEPT ![p] = "idle"] /\ at[p] = "wiped"
          /\ UNCHANGED <<seen, passed>>
      BY <1>13, <2>3 DEF Mkdir, Remake, Goto
    <3> QED
      BY <2>1, <3>1
      DEF TypeOK, LockInv, LockSound, LockMade, LockHeld, OneMaker, AgedIsLeft,
          LockKnown, Knows, Taking, Holding, Refusing
  <2> QED
    BY <2>2, <2>3
<1>14. ASSUME NEW p \in Runs, Finish(p) \/ Fail(p)
       PROVE  LockSound'
  BY <1>9, <1>14 DEF Finish, Fail, Cleanup, Holding
<1>15. ASSUME NEW p \in Runs, Stage(p) \/ Dump(p) \/ OpenManifest(p) \/ CloseManifest(p)
       PROVE  LockSound'
  BY <1>11, <1>15 DEF Stage, Dump, OpenManifest, CloseManifest, Holding
<1>16. ASSUME NEW p \in Runs,
              PublishMember(p) \/ GrowOld(p) \/ (\E s \in Runs : Retain(p, s))
       PROVE  LockSound'
  BY <1>12, <1>16 DEF PublishMember, GrowOld, Retain
<1>17. ASSUME NEW p \in Runs, WritePid(p) \/ Refused(p) \/ ReadPid(p) \/ Judge(p) \/ Kill(p)
       PROVE  LockSound'
  BY <1>3, <1>4, <1>5, <1>6, <1>10, <1>17 DEF WritePid, Refused, ReadPid, Judge, Kill
<1>18. CASE Age
  BY <1>1, <1>18 DEF Age
<1>19. CASE UNCHANGED vars
  BY <1>12, <1>19 DEF vars
<1> QED
  BY <1>8, <1>13, <1>14, <1>15, <1>16, <1>17, <1>18, <1>19 DEF Next, Backup

\* Unless a process removed another lock than the one it was refused by, a process
\* that makes a backup holds the lock, and so it is the only one, whoever was killed
\* and however the steps of acquire_lock fall between those of others.
THEOREM LockExcludes == Spec => []OneBackupAtATime
<1>1. Init => TypeOK /\ LockInv
  BY TypeInit, LockInit
<1>2. TypeOK /\ LockInv /\ [Next]_vars => TypeOK' /\ LockInv'
  BY TypeStep, LockStep
<1>3. LockInv => OneBackupAtATime
  BY DEF LockInv, LockSound, LockHeld, OneBackupAtATime
<1> QED
  BY <1>1, <1>2, <1>3, PTL DEF Spec

-----------------------------------------------------------------------------
(* The sets.                                                               *)

LEMMA SetsInit == Init => SetsInv
BY DEF Init, SetsInv, ManifestIsLast, BackupRemains

\* Steps that publish nothing and remove nothing.
LEMMA SetsKept ==
  ASSUME TypeOK, SetsInv, UNCHANGED <<files, finished>>, old \subseteq old',
         \A p \in Runs : at'[p] \in {"writing", "retaining"} => at'[p] = at[p]
  PROVE  SetsInv'
BY DEF SetsInv, ManifestIsLast, BackupRemains, Whole, TypeOK

LEMMA SetsStep == TypeOK /\ SetsInv /\ [Next]_vars => SetsInv'
<1> SUFFICES ASSUME TypeOK, SetsInv, [Next]_vars
             PROVE  SetsInv'
  OBVIOUS
<1> USE MembersPlain
<1>1. ASSUME NEW p \in Runs, PublishMember(p)
      PROVE  SetsInv'
  <2>1. PICK m \in MemberSet[p] : files' = [files EXCEPT ![p] = @ \cup {m}]
    BY <1>1 DEF PublishMember, MemberSet
  <2>2. \A s \in Runs : /\ files[s] \subseteq files'[s]
                         /\ "manifest" \in files'[s] => "manifest" \in files[s]
    BY <2>1 DEF TypeOK
  <2> QED
    BY <1>1, <2>2 DEF PublishMember, SetsInv, ManifestIsLast, BackupRemains, Whole, TypeOK
<1>2. ASSUME NEW p \in Runs, OpenManifest(p)
      PROVE  SetsInv'
  <2>1. /\ Whole(p) /\ at'[p] = "writing"
        /\ \A s \in Runs : files[s] \subseteq files'[s]
        /\ \A s \in Runs \ {p} : files'[s] = files[s] /\ at'[s] = at[s]
    <3>1. Whole(p) /\ at' = [at EXCEPT ![p] = "writing"]
      BY <1>2 DEF OpenManifest, Goto
    <3>2. \E f \in {"opened", "manifest"} : files' = [files EXCEPT ![p] = @ \cup {f}]
      BY <1>2 DEF OpenManifest
    <3> QED
      BY <3>1, <3>2 DEF TypeOK
  <2>2. Whole(p)' /\ \A s \in Runs : Whole(s) => Whole(s)'
    BY <2>1 DEF Whole
  <2>3. ManifestIsLast' /\ BackupRemains'
    BY <1>2, <2>1, <2>2 DEF OpenManifest, SetsInv, ManifestIsLast, BackupRemains, Logical
  <2> QED
    BY <2>1, <2>2, <2>3 DEF SetsInv
<1>3. ASSUME NEW p \in Runs, CloseManifest(p)
      PROVE  SetsInv'
  <2>1. /\ p \in Logical /\ at'[p] = "retaining" /\ "manifest" \in files'[p]
        /\ \A s \in Runs : files[s] \ {"opened"} \subseteq files'[s]
        /\ \A s \in Runs \ {p} : files'[s] = files[s] /\ at'[s] = at[s]
    BY <1>3 DEF CloseManifest, Goto, TypeOK
  <2>2. Whole(p) /\ Whole(p)'
    BY <1>3, <2>1 DEF CloseManifest, SetsInv, Whole
  <2> QED
    BY <1>3, <2>1, <2>2
    DEF CloseManifest, SetsInv, ManifestIsLast, BackupRemains, Whole, TypeOK, Logical
<1>4. ASSUME NEW p \in Runs, NEW s \in Runs, Retain(p, s)
      PROVE  SetsInv'
  <2>1. /\ p \in Logical /\ Whole(p) /\ "manifest" \in files[p] /\ s # p /\ s \in old \cap Logical
        /\ at[s] \in {"done", "dead"}
    BY <1>4 DEF Retain, SetsInv, TypeOK
  <2>2. /\ \A q \in Runs \ {s} : files'[q] = files[q]
        /\ UNCHANGED <<at, old>>
    BY <1>4 DEF Retain, TypeOK
  <2> QED
    BY <2>1, <2>2 DEF SetsInv, ManifestIsLast, BackupRemains, Whole, Logical
<1>5. ASSUME NEW p \in Runs, Finish(p) \/ Fail(p) \/ Kill(p) \/ GrowOld(p)
      PROVE  SetsInv'
  BY <1>5, SetsKept DEF Finish, Fail, Cleanup, Kill, GrowOld, Goto, TypeOK, sets
<1>6. ASSUME NEW p \in Runs,
             \/ Mkdir(p) \/ WritePid(p) \/ Stage(p) \/ Dump(p)
             \/ Refused(p) \/ ReadPid(p) \/ Judge(p) \/ Wipe(p) \/ Remake(p)
      PROVE  SetsInv'
  BY <1>6, SetsKept DEF Mkdir, WritePid, Refused, ReadPid, Judge, Wipe, Remake,
     Stage, Dump, Goto, TypeOK, sets
<1>7. CASE Age \/ UNCHANGED vars
  BY <1>7, SetsKept DEF Age, vars, sets
<1> QED
  BY <1>1, <1>2, <1>3, <1>4, <1>5, <1>6, <1>7 DEF Next, Backup

\* A manifest vouches for a whole set, wherever a run was killed and even if two
\* runs are at work at once.
THEOREM ManifestVouches == Spec => []ManifestIsLast
<1>1. Init => TypeOK /\ SetsInv
  BY TypeInit, SetsInit
<1>2. TypeOK /\ SetsInv /\ [Next]_vars => TypeOK' /\ SetsInv'
  BY TypeStep, SetsStep
<1>3. SetsInv => ManifestIsLast
  BY DEF SetsInv
<1> QED
  BY <1>1, <1>2, <1>3, PTL DEF Spec

\* Retention never takes the last set that can be restored.
THEOREM RestorableRemains == Spec => []BackupRemains
<1>1. Init => TypeOK /\ SetsInv
  BY TypeInit, SetsInit
<1>2. TypeOK /\ SetsInv /\ [Next]_vars => TypeOK' /\ SetsInv'
  BY TypeStep, SetsStep
<1>3. SetsInv => BackupRemains
  BY DEF SetsInv
<1> QED
  BY <1>1, <1>2, <1>3, PTL DEF Spec

-----------------------------------------------------------------------------
(* The refinement.                                                         *)

\* A logical set has a manifest only once its run has closed it, and that run does
\* not publish any more.
PublishedOnce ==
  /\ \A s \in Logical : "manifest" \in files[s] => s \in finished
  /\ \A s \in finished : at[s] \in {"retaining", "done", "dead"}

BookInv == TypeOK /\ SetsInv /\ PublishedOnce

LEMMA BookFirst == Init => BookInv /\ Book!Init
<1>1. Init => PublishedOnce /\ Book!Init
  BY DEF Init, PublishedOnce, Book!Init, Restorable, Logical
<1> QED
  BY <1>1, TypeInit, SetsInit DEF BookInv

\* Steps that neither publish nor retain.
LEMMA BookKept ==
  ASSUME PublishedOnce, UNCHANGED <<files, finished>>,
         \A p \in Runs : at[p] \in {"retaining", "done", "dead"} =>
           at'[p] \in {"retaining", "done", "dead"},
         TypeOK
  PROVE  PublishedOnce' /\ UNCHANGED Book!vars
BY DEF PublishedOnce, TypeOK, Logical, Book!vars, Restorable, Whole

LEMMA BookStep == BookInv /\ [Next]_vars => PublishedOnce' /\ [Book!Next]_Book!vars
<1> SUFFICES ASSUME BookInv, [Next]_vars
             PROVE  PublishedOnce' /\ [Book!Next]_Book!vars
  OBVIOUS
<1> USE MembersPlain DEF BookInv
<1>1. ASSUME NEW p \in Runs, PublishMember(p)
      PROVE  PublishedOnce' /\ UNCHANGED Book!vars
  <2>1. PICK m \in MemberSet[p] : files' = [files EXCEPT ![p] = @ \cup {m}]
    BY <1>1 DEF PublishMember, MemberSet
  <2>2. \A s \in Runs : /\ files[s] \subseteq files'[s]
                        /\ s # p => files'[s] = files[s]
                        /\ "manifest" \in files'[s] <=> "manifest" \in files[s]
    BY <2>1 DEF TypeOK
  <2>3. p \notin old /\ UNCHANGED <<at, finished>>
    BY <1>1 DEF PublishMember, TypeOK
  <2>4. Restorable' = Restorable
    BY <2>2, <2>3 DEF Restorable, Whole, SetsInv, ManifestIsLast
  <2> QED
    BY <2>2, <2>3, <2>4 DEF PublishedOnce, Logical, Book!vars
<1>2. ASSUME NEW p \in Runs, OpenManifest(p)
      PROVE  PublishedOnce' /\ [Book!Next]_Book!vars
  <2>1. /\ at' = [at EXCEPT ![p] = "writing"] /\ p \notin finished /\ Whole(p)
        /\ UNCHANGED finished
    BY <1>2 DEF OpenManifest, Goto, PublishedOnce
  <2>2. CASE p \in Physical
    <3>1. files' = [files EXCEPT ![p] = @ \cup {"manifest"}]
      BY <1>2, <2>2 DEF OpenManifest
    <3>2. Restorable' = Restorable \cup {p}
      BY <2>1, <3>1 DEF Restorable, Whole, TypeOK
    <3>3. PublishedOnce'
      BY <2>1, <2>2, <3>1 DEF PublishedOnce, Logical, TypeOK
    <3>4. p \notin Restorable => Book!Publish(p)
      BY <2>1, <3>2 DEF Book!Publish
    <3>5. p \in Restorable => UNCHANGED Book!vars
      BY <2>1, <3>2 DEF Book!vars
    <3> QED
      BY <3>3, <3>4, <3>5 DEF Book!Next
  <2>3. CASE p \notin Physical
    <3>1. files' = [files EXCEPT ![p] = @ \cup {"opened"}]
      BY <1>2, <2>3 DEF OpenManifest
    <3>2. \A s \in Runs : /\ files[s] \subseteq files'[s]
                          /\ s # p => files'[s] = files[s]
                          /\ "manifest" \in files'[s] <=> "manifest" \in files[s]
      BY <3>1 DEF TypeOK
    <3>3. Restorable' = Restorable
      BY <2>1, <3>2 DEF Restorable, Whole
    <3> QED
      BY <2>1, <3>2, <3>3 DEF PublishedOnce, Logical, TypeOK, Book!vars
  <2> QED
    BY <2>2, <2>3
<1>3. ASSUME NEW p \in Runs, CloseManifest(p)
      PROVE  PublishedOnce' /\ Book!Publish(p)
  <2>1. /\ p \in Logical /\ at' = [at EXCEPT ![p] = "retaining"]
        /\ files' = [files EXCEPT ![p] = (@ \ {"opened"}) \cup {"manifest"}]
        /\ finished' = finished \cup {p} /\ p \notin finished
        /\ Whole(p)
    BY <1>3 DEF CloseManifest, Goto, PublishedOnce, SetsInv
  <2>2. p \notin Restorable
    BY <2>1 DEF PublishedOnce, Restorable
  <2>3. Restorable' = Restorable \cup {p}
    BY <2>1 DEF Restorable, Whole, TypeOK
  <2>4. PublishedOnce'
    BY <2>1 DEF PublishedOnce, Logical, TypeOK
  <2> QED
    BY <2>1, <2>2, <2>3, <2>4 DEF Book!Publish
<1>4. ASSUME NEW p \in Runs, NEW s \in Runs, Retain(p, s)
      PROVE  PublishedOnce' /\ [Book!Next]_Book!vars
  <2>1. PICK f \in files[s] : files' = [files EXCEPT ![s] = @ \ {f}]
    BY <1>4 DEF Retain
  <2>2. \A t \in Runs : files'[t] \subseteq files[t] /\ (t # s => files'[t] = files[t])
    BY <2>1 DEF TypeOK
  <2>3. /\ s \in Logical /\ s # p /\ p \in Logical \cap Restorable
        /\ UNCHANGED <<at, finished>>
    BY <1>4 DEF Retain, TypeOK, SetsInv, Restorable
  <2>4. Restorable' = Restorable \/ (s \in Restorable /\ Restorable' = Restorable \ {s})
    BY <2>2 DEF Restorable, Whole
  <2>5. PublishedOnce'
    BY <2>2, <2>3 DEF PublishedOnce, Logical
  <2>6. CASE Restorable' = Restorable
    BY <2>3, <2>6, <2>5 DEF Book!vars
  <2>7. CASE s \in Restorable /\ Restorable' = Restorable \ {s}
    <3>1. s \in finished
      BY <2>3, <2>7 DEF PublishedOnce, Restorable
    <3>2. Book!Retire(s)
      BY <2>3, <2>7, <3>1 DEF Book!Retire, Book!Logical, Logical
    <3> QED
      BY <2>5, <3>2 DEF Book!Next
  <2> QED
    BY <2>4, <2>6, <2>7
<1>5. ASSUME NEW p \in Runs, Finish(p) \/ Fail(p) \/ Kill(p) \/ GrowOld(p)
      PROVE  PublishedOnce' /\ UNCHANGED Book!vars
  BY <1>5, BookKept DEF Finish, Fail, Cleanup, Kill, GrowOld, Goto, TypeOK, sets
<1>6. ASSUME NEW p \in Runs,
             \/ Mkdir(p) \/ WritePid(p) \/ Stage(p) \/ Dump(p)
             \/ Refused(p) \/ ReadPid(p) \/ Judge(p) \/ Wipe(p) \/ Remake(p)
      PROVE  PublishedOnce' /\ UNCHANGED Book!vars
  BY <1>6, BookKept DEF Mkdir, WritePid, Refused, ReadPid, Judge, Wipe, Remake,
     Stage, Dump, Goto, TypeOK, sets
<1>7. CASE Age \/ UNCHANGED vars
  BY <1>7, BookKept DEF Age, vars, sets
<1> QED
  BY <1>1, <1>2, <1>3, <1>4, <1>5, <1>6, <1>7 DEF Next, Backup, Book!Next

\* Runs implement BackupBook, and do so without their lock: a set appears whole in
\* one step, and retention takes one only while another logical set remains.
THEOREM SetsImplemented == Spec => BookSpec
<1>1. Init => BookInv /\ Book!Init
  BY BookFirst
<1>2. BookInv /\ [Next]_vars => BookInv' /\ [Book!Next]_Book!vars
  BY TypeStep, SetsStep, BookStep DEF BookInv
<1> QED
  BY <1>1, <1>2, PTL DEF Spec, BookSpec, Book!Spec

\* A physical set stays, and a set that was taken apart never looks whole again.
THEOREM SetsRemain == Spec => Book!SetsStay
<1>1. [Book!Next]_Book!vars =>
        \/ UNCHANGED Book!vars
        \/ /\ Restorable \cap Physical \subseteq Restorable'
           /\ finished \ Restorable \subseteq (finished \ Restorable)'
           /\ (finished \ Restorable)' \cap Restorable' = {}
  BY DEF Book!Next, Book!Publish, Book!Retire, Book!Logical
<1> QED
  BY <1>1, SetsImplemented, PTL DEF BookSpec, Book!Spec, Book!SetsStay

=============================================================================
