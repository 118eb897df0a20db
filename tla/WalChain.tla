------------------------------ MODULE WalChain ------------------------------
(***************************************************************************)
(* What becomes of archived WAL: it is copied to a directory, where        *)
(* wal-chain-manifest.sh links it to a physical base set, the set and its  *)
(* chain are published off-host by offhost-upload.sh --physical-set, and   *)
(* postgres-restore.sh --pitr prepares a recovery from them.               *)
(*                                                                         *)
(* Segment 1 is the one that contains base_lsn.  A segment is three units  *)
(* of LSN long; its contents in a file are all of it or part of it.        *)
(* Aux files and the tars of the set, which do not change, are left out.   *)
(***************************************************************************)
EXTENDS WalArchive, Sequences, FiniteSets

CONSTANTS
  Torn,     \* segments whose copy is seen before it is whole
  Short,    \* segments that archive_timeout closed in their first half
  Base,     \* base_lsn
  Targets,  \* values of --until-lsn
  MaxDoubt  \* bound: PUTs of uploads that are in doubt at a time

ASSUME LsnAssumption ==
  /\ Torn \subseteq Segments /\ Short \subseteq Segments
  /\ Base \in 0..2 /\ (1 \in Short => Base <= 1)
  /\ Targets \subseteq Nat /\ MaxDoubt \in Nat

VARIABLES
  dir,         \* [Segments -> Content]: --wal-dir, filled by the operator
  chain,       \* the local chain manifest: contents by segment; <<>> if none
  draft,       \* the same, while it is emitted
  upload,      \* the run of offhost-upload.sh
  remote,      \* [Segments -> Content]: the off-host segments
  remoteChain, \* the off-host chain manifest
  lateParts,   \* PUTs of segments that may still be carried out: segment, contents
  lateChains,  \* PUTs of the chain manifest that may: contents
  target,      \* --until-lsn of the recovery whose chain was verified; -1 if none
  disturbed    \* history: files of the set changed under an upload or a PUT it gave up on

localVars == <<dir, chain, draft>>
remoteVars == <<remote, remoteChain, lateParts, lateChains>>
uploadVars == <<upload, remoteVars>>
chainVars == <<localVars, uploadVars, target, disturbed>>
vars == <<archiveVars, chainVars>>

Content == {"none", "part", "whole"}
Chains == UNION {[1..n -> {"part", "whole"}] : n \in 0..LastSegment}

NoUpload == [at |-> "idle", list |-> <<>>, sent |-> 0, sum |-> <<>>]
Uploading == upload.at # "idle"
UnderPut(s) == \E c \in Content : <<s, c>> \in lateParts
MayDoubt == Cardinality(lateParts) + Cardinality(lateChains) < MaxDoubt

\* Positions in the WAL.
Start(s) == 3 * (s - 1)
End(s) == IF s \in Short THEN Start(s) + 1 ELSE Start(s + 1)
SegmentAt(p) == (p \div 3) + 1

Init ==
  /\ ArchiveInit
  /\ dir = [s \in Segments |-> "none"]
  /\ chain = <<>> /\ draft = <<>>
  /\ upload = NoUpload
  /\ remote = [s \in Segments |-> "none"] /\ remoteChain = <<>>
  /\ lateParts = {} /\ lateChains = {}
  /\ target = -1
  /\ disturbed = FALSE

-----------------------------------------------------------------------------
(* The directory and the chain manifest.                                   *)

\* The operator copies an object, in one go or not.
Fetch(s) ==
  /\ \/ dir[s] = "none" /\ store[s] # "none"
     \/ dir[s] = "part"
  /\ \E c \in {"whole"} \cup IF s \in Torn /\ dir[s] = "none" THEN {"part"} ELSE {} :
       dir' = [dir EXCEPT ![s] = c]
  /\ disturbed' = (disturbed \/ (Uploading /\ s \in DOMAIN chain) \/ UnderPut(s))
  /\ UNCHANGED <<archiveVars, chain, draft, uploadVars, target>>

\* The operator starts over with an empty directory, not under a recovery.
Clear ==
  /\ target = -1
  /\ dir' = [s \in Segments |-> "none"]
  /\ disturbed' = (disturbed \/ Uploading \/ lateParts # {})
  /\ UNCHANGED <<archiveVars, chain, draft, uploadVars, target>>

Present == {s \in Segments : dir[s] # "none"}

\* verify_chain: every segment that is named is there, with what was recorded.
Verifies(list) == \A i \in DOMAIN list : dir[i] = list[i]

\* Bug: the last segment counts as covered.
BugCoverageEnd(list) == IF Len(list) >= 2 THEN Start(Len(list) + 1) ELSE Base

\* Up to the start of the last segment, which need not be full.
CoverageEnd(list) == IF Len(list) >= 2 THEN Start(Len(list)) ELSE Base

\* --emit: a contiguous run from the segment of base_lsn, and none beyond it ...
Emit ==
  /\ draft = <<>>
  /\ \E n \in 1..LastSegment :
       /\ Present = 1..n
       /\ draft' = [i \in 1..n |-> dir[i]]
  /\ UNCHANGED <<archiveVars, dir, chain, uploadVars, target, disturbed>>

\* ... that verifies, and that names what the present manifest names, and more.
Replace ==
  /\ draft # <<>>
  /\ chain' = IF Verifies(draft) /\ Len(chain) <= Len(draft) THEN draft ELSE chain
  /\ draft' = <<>>
  /\ disturbed' = (disturbed \/ (Uploading /\ chain' # chain))
  /\ UNCHANGED <<archiveVars, dir, uploadVars, target>>

-----------------------------------------------------------------------------
(* The off-host copy.                                                      *)

\* The set is validated, and the segments of the chain listed.
StartUpload ==
  /\ ~Uploading /\ chain # <<>> /\ Verifies(chain)
  /\ upload' = [NoUpload EXCEPT !.at = "segments", !.list = chain]
  /\ UNCHANGED <<archiveVars, localVars, remoteVars, target, disturbed>>

\* publish: what is stored already must be what was recorded ...
ProbeSegment ==
  /\ upload.at = "segments" /\ upload.sent < Len(upload.list)
  /\ remote[upload.sent + 1] \in {"none", upload.list[upload.sent + 1]}
  /\ upload' = [upload EXCEPT !.at = "put"]
  /\ UNCHANGED <<archiveVars, localVars, remoteVars, target, disturbed>>

\* ... before the PUT, which reads the file anew ...
PutSegment ==
  /\ upload.at = "put"
  /\ LET s == upload.sent + 1 IN
       /\ dir[s] # "none"
       /\ remote' = [remote EXCEPT ![s] = dir[s]]
       /\ upload' = [upload EXCEPT !.at = "segments", !.sent = s]
  /\ UNCHANGED <<archiveVars, localVars, remoteChain, lateParts, lateChains, target, disturbed>>

\* ... and is repeated, without another look, when it is not known to have been
\* carried out; after the last attempt the run ends.
PutSegmentInDoubt ==
  /\ upload.at = "put" /\ MayDoubt
  /\ LET s == upload.sent + 1 IN
       /\ dir[s] # "none"
       /\ lateParts' = lateParts \cup {<<s, dir[s]>>}
  /\ UNCHANGED <<archiveVars, localVars, upload, remote, remoteChain, lateChains, target,
                 disturbed>>

\* Bug: the digest of the commit record is taken without waiting for the segments.
BugSumChain ==
  /\ upload.at = "segments"
  /\ upload' = [NoUpload EXCEPT !.at = "chain", !.sum = chain]
  /\ UNCHANGED <<archiveVars, localVars, remoteVars, target, disturbed>>

\* The chain goes last, with the digest and the contents it has by now.
SumChain ==
  /\ upload.at = "segments" /\ upload.sent = Len(upload.list)
  /\ upload' = [NoUpload EXCEPT !.at = "chain", !.sum = chain]
  /\ UNCHANGED <<archiveVars, localVars, remoteVars, target, disturbed>>

ProbeChain ==
  /\ upload.at = "chain"
  /\ remoteChain \in {<<>>, upload.sum}
  /\ upload' = [upload EXCEPT !.at = "commit"]
  /\ UNCHANGED <<archiveVars, localVars, remoteVars, target, disturbed>>

PutChain ==
  /\ upload.at = "commit"
  /\ remoteChain' = chain
  /\ upload' = [NoUpload EXCEPT !.at = "read"]
  /\ UNCHANGED <<archiveVars, localVars, remote, lateParts, lateChains, target, disturbed>>

PutChainInDoubt ==
  /\ upload.at = "commit" /\ MayDoubt
  /\ lateChains' = lateChains \cup {chain}
  /\ UNCHANGED <<archiveVars, localVars, upload, remote, remoteChain, lateParts, target,
                 disturbed>>

\* The store carries out a PUT that was in doubt, under its run or after it; or the
\* PUT is lost.
SegmentLands(s, c) ==
  /\ <<s, c>> \in lateParts
  /\ lateParts' = lateParts \ {<<s, c>>}
  /\ remote' \in {remote, [remote EXCEPT ![s] = c]}
  /\ UNCHANGED <<archiveVars, localVars, upload, remoteChain, lateChains, target, disturbed>>

ChainLands(c) ==
  /\ c \in lateChains
  /\ lateChains' = lateChains \ {c}
  /\ remoteChain' \in {remoteChain, c}
  /\ UNCHANGED <<archiveVars, localVars, upload, remote, lateParts, target, disturbed>>

\* The run ends: the objects were read back, with or without success; or before,
\* with status 76, or because the host went down.
EndUpload ==
  /\ Uploading
  /\ upload' = NoUpload
  /\ UNCHANGED <<archiveVars, localVars, remoteVars, target, disturbed>>

-----------------------------------------------------------------------------
(* Point-in-time recovery.                                                 *)

\* --pitr: the chain verifies and covers the target ...
Authorise(p) ==
  /\ target = -1 /\ chain # <<>>
  /\ Verifies(chain) /\ Base <= p /\ p <= CoverageEnd(chain)
  /\ target' = p
  /\ UNCHANGED <<archiveVars, localVars, uploadVars, disturbed>>

\* A regular file of the size of a segment.
Usable(s) == dir[s] = "whole"

\* ... then the segments up to it are examined one by one.
Prepare ==
  /\ target # -1
  /\ \A s \in 1..SegmentAt(target) : Usable(s)
  /\ target' = -1
  /\ UNCHANGED <<archiveVars, localVars, uploadVars, disturbed>>

Refuse ==
  /\ target # -1
  /\ target' = -1
  /\ UNCHANGED <<archiveVars, localVars, uploadVars, disturbed>>

ChainNext ==
  \/ \E s \in Segments : Fetch(s)
  \/ Clear \/ Emit \/ Replace
  \/ StartUpload \/ ProbeSegment \/ PutSegment \/ PutSegmentInDoubt
  \/ SumChain \/ ProbeChain \/ PutChain \/ PutChainInDoubt \/ EndUpload
  \/ \E s \in Segments, c \in Content : SegmentLands(s, c)
  \/ \E c \in Chains : ChainLands(c)
  \/ \E p \in Targets : Authorise(p)
  \/ Prepare \/ Refuse

Next == (ArchiveNext /\ UNCHANGED chainVars) \/ ChainNext

Spec == Init /\ [][Next]_vars

-----------------------------------------------------------------------------
(* Properties.                                                             *)

TypeOK ==
  /\ ArchiveTypeOK
  /\ dir \in [Segments -> Content]
  /\ chain \in Chains /\ draft \in Chains
  /\ upload.at \in {"idle", "segments", "put", "chain", "commit", "read"}
  /\ upload.list \in Chains /\ upload.sum \in Chains
  /\ upload.sent \in 0..Len(upload.list)
  /\ upload.at = "put" => upload.sent < Len(upload.list)
  /\ remote \in [Segments -> Content] /\ remoteChain \in Chains
  /\ lateParts \subseteq Segments \X {"part", "whole"} /\ lateChains \subseteq Chains
  /\ target \in Targets \cup {-1}
  /\ disturbed \in BOOLEAN

\* Whoever finds the chain manifest off-host finds every segment it names, with
\* the contents it records, whatever runs failed or died before, and however late
\* their PUTs are carried out, unless a file of the set was rewritten while a run
\* was reading it, or while a PUT of it that a run gave up on was still on its way.
OffHostSealed ==
  remoteChain # <<>> /\ ~disturbed =>
    \A s \in DOMAIN remoteChain : remote[s] = remoteChain[s]

\* A recovery is prepared for a target only if whole segments lead up to it,
\* although a chain may have been emitted while a segment was being copied; and if
\* the segment of the target was closed before it, the next one is there, which may
\* still be torn: a chain takes it as it is.
Reached(p) ==
  \E last \in Segments :
    /\ \A s \in 1..last : dir[s] = "whole"
    /\ \/ p <= End(last)
       \/ p < Start(last + 1) /\ last + 1 \in Segments /\ dir[last + 1] = "part"
RecoveryReaches == [][Prepare => Reached(target)]_vars

=============================================================================
