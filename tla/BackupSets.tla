----------------------------- MODULE BackupSets -----------------------------
(***************************************************************************)
(* Backups of the database.  Source: scripts/ops/postgres-backup.sh        *)
(* (logical sets, with retention) and scripts/ops/postgres-physbackup.sh   *)
(* (physical sets), which exclude each other by a lock directory.  Any     *)
(* step may be the last of its process, which then leaves its lock, its    *)
(* temporary directory and what it has published.                          *)
(*                                                                         *)
(* A run is one invocation that gets the lock, and makes one set; a        *)
(* process that is refused the lock exits with status 75, and its run is   *)
(* that of a later process.  pg_dump, pg_basebackup and what is read of    *)
(* the database are external: they fail, or yield whole members.           *)
(***************************************************************************)
EXTENDS Integers, Sequences

CONSTANTS
  Runs,      \* bound: the invocations; the set of a run has its name
  Physical,  \* those of postgres-physbackup.sh
  Nobody

ASSUME RunsAssumption == Physical \subseteq Runs /\ Nobody \notin Runs

VARIABLES
  lock,      \* the directory: does it exist, the pid in it, older than the grace
  at,        \* [Runs -> where the process is]
  temp,      \* runs whose temporary directory exists
  files,     \* [Runs -> what is published of the set]
  old,       \* sets older than BACKUP_RETENTION_DAYS
  seen,      \* [Runs -> the pid a refused process read in the lock, or Nobody]
  finished,  \* history: logical sets that were published
  passed,    \* history: refused processes whose lock was removed before they are done with it
  strayed    \* history: a process removed another lock than the one it was refused by

sets == <<temp, files, old, finished>>
vars == <<lock, at, seen, passed, strayed, sets>>

Logical == Runs \ Physical

\* In the order in which they are published.
Members(s) ==
  IF s \in Physical THEN <<"base.tar", "pg_wal.tar", "backup_manifest">>
                    ELSE <<"dump", "roles.sql">>
MemberSet == [s \in Runs |-> {Members(s)[i] : i \in DOMAIN Members(s)}]
Whole(s) == MemberSet[s] \subseteq files[s]

Holding == {"held", "staged", "publishing", "writing", "retaining"}
Refusing == {"busy", "read", "judged"}
Alive == {p \in Runs : at[p] \notin {"idle", "done", "dead"}}

Free == [dir |-> FALSE, pid |-> Nobody, aged |-> FALSE]
Taken == [Free EXCEPT !.dir = TRUE]

Init ==
  /\ lock = Free
  /\ at = [p \in Runs |-> "idle"]
  /\ temp = {}
  /\ files = [s \in Runs |-> {}]
  /\ seen = [p \in Runs |-> Nobody]
  /\ old = {} /\ finished = {} /\ passed = {}
  /\ strayed = FALSE

Goto(p, place) == at' = [at EXCEPT ![p] = place]

-----------------------------------------------------------------------------
(* The lock.                                                               *)

\* p removes the lock; a process that it refused does not know.
Remove(p) ==
  /\ lock' = Free
  /\ passed' = {q \in Runs \ {p} : at[q] \in Refusing}

\* mkdir, which is atomic, makes the process the holder ...
Mkdir(p) ==
  /\ at[p] = "idle" /\ ~lock.dir
  /\ lock' = Taken
  /\ Goto(p, "made")
  /\ UNCHANGED <<seen, passed, strayed, sets>>

\* ... whose pid comes with the next command.  The lock may not be its own, or
\* not be there, by then: the script does not look at the result of the write.
WritePid(p) ==
  /\ at[p] = "made"
  /\ lock' = IF lock.dir THEN [lock EXCEPT !.pid = p] ELSE lock
  /\ Goto(p, "held")
  /\ UNCHANGED <<seen, passed, strayed, sets>>

\* BACKUP_LOCK_GRACE_SECONDS go by.  A process does not stay that long between its
\* mkdir and its pid, nor between its look for a pid and its look at the age.
Age ==
  /\ lock.dir /\ lock.pid = Nobody /\ ~lock.aged
  /\ \A p \in Runs : at[p] # "made"
  /\ lock' = [lock EXCEPT !.aged = TRUE]
  /\ UNCHANGED <<at, seen, passed, strayed, sets>>

\* A process whose mkdir fails looks at the lock, one thing after another, and each
\* time at what is there by then.
Refused(p) ==
  /\ at[p] = "idle" /\ lock.dir
  /\ Goto(p, "busy")
  /\ UNCHANGED <<lock, seen, passed, strayed, sets>>

ReadPid(p) ==
  /\ at[p] = "busy"
  /\ seen' = [seen EXCEPT ![p] = lock.pid]
  /\ Goto(p, "read")
  /\ UNCHANGED <<lock, passed, strayed, sets>>

\* Bug: a lock without a pid is stale whatever its age.
BugStale(p) == seen[p] \notin Alive

\* The process of the pid is not there; or there was no pid and the directory is
\* older than the grace, as is one that is not there, whose time of change is 0.
Stale(p) ==
  IF seen[p] = Nobody THEN ~lock.dir \/ lock.aged ELSE seen[p] \notin Alive

\* It exits with status 75, or goes on to remove the lock.
Judge(p) ==
  /\ at[p] = "read"
  /\ Goto(p, IF Stale(p) THEN "judged" ELSE "idle")
  /\ passed' = IF Stale(p) THEN passed ELSE passed \ {p}
  /\ seen' = [seen EXCEPT ![p] = Nobody]
  /\ UNCHANGED <<lock, strayed, sets>>

Wipe(p) ==
  /\ at[p] = "judged"
  /\ Remove(p)
  /\ strayed' = (strayed \/ (lock.dir /\ p \in passed))
  /\ Goto(p, "wiped")
  /\ UNCHANGED <<seen, sets>>

Remake(p) ==
  /\ at[p] = "wiped"
  /\ IF lock.dir THEN lock' = lock /\ Goto(p, "idle")
                 ELSE lock' = Taken /\ Goto(p, "made")
  /\ UNCHANGED <<seen, passed, strayed, sets>>

-----------------------------------------------------------------------------
(* A backup.                                                               *)

\* Directories that runs of the same kind left a day ago may be there and are
\* removed; then this run makes its own.
Stage(p) ==
  /\ at[p] = "held"
  /\ \E orphans \in SUBSET {q \in temp : /\ at[q] = "dead"
                                         /\ q \in Physical <=> p \in Physical} :
       temp' = (temp \ orphans) \cup {p}
  /\ Goto(p, "staged")
  /\ UNCHANGED <<lock, files, old, finished, seen, passed, strayed>>

\* The members are written there and validated.
Dump(p) ==
  /\ at[p] = "staged" /\ p \in temp
  /\ Goto(p, "publishing")
  /\ UNCHANGED <<lock, temp, files, old, finished, seen, passed, strayed>>

\* The members are moved to the directory of the sets one by one.
PublishMember(p) ==
  /\ at[p] = "publishing" /\ p \in temp
  /\ \E i \in DOMAIN Members(p) :
       /\ \A j \in 1..i : Members(p)[j] \in files[p] <=> j < i
       /\ files' = [files EXCEPT ![p] = @ \cup {Members(p)[i]}]
  /\ UNCHANGED <<lock, at, temp, old, finished, seen, passed, strayed>>

\* Bug: the manifest does not wait for the members.
BugOpenManifest(p) ==
  /\ at[p] = "publishing"
  /\ files' = [files EXCEPT ![p] = @ \cup {"manifest"}]
  /\ Goto(p, IF p \in Physical THEN "writing" ELSE "retaining")
  /\ UNCHANGED <<lock, temp, old, finished, seen, passed, strayed>>

\* The manifest goes last: it is moved like the members, or, that of a logical
\* set, written in place.
OpenManifest(p) ==
  /\ at[p] = "publishing" /\ Whole(p)
  /\ IF p \in Physical
       THEN p \in temp /\ files' = [files EXCEPT ![p] = @ \cup {"manifest"}]
       ELSE files' = [files EXCEPT ![p] = @ \cup {"opened"}]
  /\ Goto(p, "writing")
  /\ UNCHANGED <<lock, temp, old, finished, seen, passed, strayed>>

CloseManifest(p) ==
  /\ at[p] = "writing" /\ p \in Logical
  /\ files' = [files EXCEPT ![p] = (@ \ {"opened"}) \cup {"manifest"}]
  /\ finished' = finished \cup {p}
  /\ Goto(p, "retaining")
  /\ UNCHANGED <<lock, temp, old, seen, passed, strayed>>

\* Bug: retention starts once there is a new dump.
BugRetain(p, s) ==
  /\ at[p] \in {"publishing", "writing", "retaining"} /\ p \in Logical
  /\ s \in old \cap Logical
  /\ \E f \in files[s] : files' = [files EXCEPT ![s] = @ \ {f}]
  /\ UNCHANGED <<lock, at, temp, old, finished, seen, passed, strayed>>

\* Bug: the physical sets in the directory are not spared.
BugRetainAll(p, s) ==
  /\ at[p] = "retaining"
  /\ s \in old
  /\ \E f \in files[s] : files' = [files EXCEPT ![s] = @ \ {f}]
  /\ UNCHANGED <<lock, at, temp, old, finished, seen, passed, strayed>>

\* find -mtime -delete: the old files of logical sets, one by one in any order.
Retain(p, s) ==
  /\ at[p] = "retaining"
  /\ s \in old \cap Logical
  /\ \E f \in files[s] : files' = [files EXCEPT ![s] = @ \ {f}]
  /\ UNCHANGED <<lock, at, temp, old, finished, seen, passed, strayed>>

\* The trap removes the temporary directory and the lock, whoever holds it by now.
Cleanup(p) ==
  /\ temp' = temp \ {p}
  /\ Remove(p)
  /\ Goto(p, "done")
  /\ UNCHANGED <<files, old, finished, seen, strayed>>

Finish(p) ==
  /\ \/ at[p] = "writing" /\ p \in Physical
     \/ at[p] = "retaining" /\ \A s \in old \cap Logical : files[s] = {}
  /\ Cleanup(p)

\* A command fails, or a signal arrives that is caught.
Fail(p) == at[p] \in Holding /\ Cleanup(p)

\* The process is killed or the host goes down.
Kill(p) ==
  /\ p \in Alive
  /\ Goto(p, "dead")
  /\ seen' = [seen EXCEPT ![p] = Nobody]
  /\ passed' = passed \ {p}
  /\ UNCHANGED <<lock, strayed, sets>>

\* BACKUP_RETENTION_DAYS go by, at least one; no run lasts so long.
GrowOld(s) ==
  /\ at[s] \in {"done", "dead"} /\ s \notin old
  /\ old' = old \cup {s}
  /\ UNCHANGED <<lock, at, temp, files, finished, seen, passed, strayed>>

Backup(p) ==
  \/ Mkdir(p) \/ WritePid(p)
  \/ Refused(p) \/ ReadPid(p) \/ Judge(p) \/ Wipe(p) \/ Remake(p)
  \/ Stage(p) \/ Dump(p) \/ PublishMember(p) \/ OpenManifest(p) \/ CloseManifest(p)
  \/ \E s \in Runs : Retain(p, s)
  \/ Finish(p) \/ Fail(p) \/ Kill(p)

Next == Age \/ \E p \in Runs : Backup(p) \/ GrowOld(p)

Spec == Init /\ [][Next]_vars

-----------------------------------------------------------------------------
(* Properties.                                                             *)

TypeOK ==
  /\ lock \in [dir : BOOLEAN, pid : Runs \cup {Nobody}, aged : BOOLEAN]
  /\ ~lock.dir => lock = Free
  /\ at \in [Runs -> {"idle", "made", "wiped", "done", "dead"} \cup Refusing \cup Holding]
  /\ seen \in [Runs -> Runs \cup {Nobody}]
  /\ passed \subseteq {p \in Runs : at[p] \in Refusing}
  /\ temp \subseteq {p \in Runs : at[p] = "dead" \/ at[p] \in Holding \ {"held"}}
  /\ DOMAIN files = Runs
  /\ \A s \in Runs : files[s] \subseteq MemberSet[s] \cup {"opened", "manifest"}
  /\ old \subseteq {s \in Runs : at[s] \in {"done", "dead"}}
  /\ finished \subseteq Logical
  /\ strayed \in BOOLEAN

\* A logical and a physical backup, or two of a kind, never run at once, whichever
\* holder was killed and whenever, and whatever steps of acquire_lock fall between
\* those of others: the holder's lock is there and in its name.  One thing alone
\* breaks that: a process that takes a lock to be stale removes another one, made
\* after its own mkdir failed.
OneBackupAtATime ==
  ~strayed =>
    \A p \in Runs : at[p] \in Holding => lock.dir /\ lock.pid = p

\* Whoever finds a manifest finds the members it names, wherever a run was killed,
\* and if backups do run at once: retention alone takes a set apart, and no
\* physical set.
ManifestIsLast ==
  \A s \in Runs : "manifest" \in files[s] /\ (s \in old => s \in Physical) => Whole(s)

\* Once a logical backup was published, there is one that can be restored, however
\* many later ones fail, and wherever retention is cut off.
BackupRemains ==
  finished # {} => \E s \in Logical : "manifest" \in files[s] /\ Whole(s)

\* Restorable sets come and go as whoever restores from them is promised: each
\* appears in one step, and goes while another logical one remains.
Restorable == {s \in Runs : "manifest" \in files[s] /\ Whole(s)}
Book == INSTANCE BackupBook WITH kept <- Restorable, past <- finished \ Restorable
BookSpec == Book!Spec

\* What the head of the lock in postgres-physbackup.sh says of it: the two kinds of
\* backup never run at once.
NeverTwoBackups ==
  \A p, q \in Runs : at[p] \in Holding /\ at[q] \in Holding => p = q

=============================================================================
