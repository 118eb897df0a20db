----------------------------- MODULE WalArchive -----------------------------
(***************************************************************************)
(* Archiving WAL to an object store.  Source: scripts/ops/wal-archive.sh,  *)
(* run by PostgreSQL as its archive_command: for the oldest segment not    *)
(* yet archived, again until it exits 0, after which the segment may be    *)
(* recycled.  PostgreSQL and the store are external.                       *)
(***************************************************************************)
EXTENDS Integers

CONSTANTS
  LastSegment,  \* bound: segments that are ever completed
  Before        \* segments that were archived long ago

ASSUME SegmentsAssumption ==
  /\ LastSegment \in Nat
  /\ Before \in 0..LastSegment

VARIABLES
  made,       \* segments 1..made are complete
  archived,   \* of these, 1..archived were acknowledged by exit status 0
  store,      \* [Segments -> Object]
  late,       \* segments whose PUT timed out and may still be carried out
  at          \* where the invocation for segment archived + 1 is

archiveVars == <<made, archived, store, late, at>>

Segments == 1..LastSegment

\* "other": an object that is not this segment, left there by another cluster.
Object == {"none", "right", "other"}

ArchiveInit ==
  /\ made = Before
  /\ archived = Before
  /\ store \in [Segments -> Object]
  /\ \A s \in Segments : store[s] = "right" <=> s <= Before
  /\ late = {}
  /\ at = "idle"

current == archived + 1

\* PostgreSQL completes a segment, full or because of archive_timeout.
Switch ==
  /\ made < LastSegment
  /\ made' = made + 1
  /\ UNCHANGED <<archived, store, late, at>>

\* Bug: what is at the key and is not the segment is replaced.
BugExamine ==
  /\ at = "idle" /\ archived < made
  /\ at' = IF store[current] = "right" THEN "exit" ELSE "put"
  /\ UNCHANGED <<made, archived, store, late>>

\* Phase A: what is at the key?  A verified match is success, a mismatch and
\* everything that is unknown a failure, which leaves no trace.
Examine ==
  /\ at = "idle" /\ archived < made
  /\ store[current] # "other"
  /\ at' = IF store[current] = "none" THEN "put" ELSE "exit"
  /\ UNCHANGED <<made, archived, store, late>>

\* Phase B: the PUT, which is followed by its verification ...
Put ==
  /\ at = "put"
  /\ store' = [store EXCEPT ![current] = "right"]
  /\ at' = "verify"
  /\ UNCHANGED <<made, archived, late>>

\* ... also when it timed out, perhaps after more attempts.
PutTimesOut ==
  /\ at = "put"
  /\ late' = late \cup {current}
  /\ at' \in {"put", "verify"}
  /\ UNCHANGED <<made, archived, store>>

PutLands(s) ==
  /\ s \in late
  /\ store' = [store EXCEPT ![s] = "right"]
  /\ late' = late \ {s}
  /\ UNCHANGED <<made, archived, at>>

\* Bug: a PUT that was ambiguous is taken for a success.
BugVerify ==
  /\ at = "verify"
  /\ at' = "exit"
  /\ UNCHANGED <<made, archived, store, late>>

Verify ==
  /\ at = "verify"
  /\ at' = IF store[current] = "right" THEN "exit" ELSE "idle"
  /\ UNCHANGED <<made, archived, store, late>>

\* PostgreSQL sees exit status 0.
Acknowledge ==
  /\ at = "exit"
  /\ archived' = archived + 1
  /\ at' = "idle"
  /\ UNCHANGED <<made, store, late>>

\* The invocation fails, or PostgreSQL or the host goes down; it is repeated.
Die ==
  /\ at # "idle"
  /\ at' = "idle"
  /\ UNCHANGED <<made, archived, store, late>>

ArchiveNext ==
  \/ Switch \/ Examine \/ Put \/ PutTimesOut \/ Verify \/ Acknowledge \/ Die
  \/ \E s \in Segments : PutLands(s)

-----------------------------------------------------------------------------
ArchiveTypeOK ==
  /\ made \in 0..LastSegment
  /\ archived \in 0..made
  /\ store \in [Segments -> Object]
  /\ late \in SUBSET Segments
  /\ at \in {"idle", "put", "verify", "exit"}

\* A segment that PostgreSQL may recycle is in the store, whole and verified,
\* whatever the PUTs that were given up on did, before or afterwards.
RecycledOnlyIfStored == \A s \in 1..archived : store[s] = "right"

\* An object that is in the store is never replaced by another, be it one that
\* another cluster has left at the key of a segment, and however late a PUT is
\* carried out that was given up on.
NeverOverwritten ==
  [][\A s \in Segments : store[s] # "none" => store'[s] = store[s]]_archiveVars

=============================================================================
