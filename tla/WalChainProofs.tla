--------------------------- MODULE WalChainProofs ---------------------------
(***************************************************************************)
(* Theorems of WalArchive and WalChain, for any number of segments, of     *)
(* whatever length and however they are copied.                            *)
(*                                                                         *)
(* The argument: an invocation exits with status 0 when it has seen its    *)
(* segment, and what is right stays right; an upload that is not disturbed *)
(* publishes the chain it has listed, and a PUT that it gives up on brings *)
(* nothing but what is in the directory and may be off-host already; a     *)
(* segment that a recovery counts on stays in the directory, and the last  *)
(* one but one is followed by another.                                     *)
(***************************************************************************)
EXTENDS WalChain, TLAPS

-----------------------------------------------------------------------------
(* The inductive invariant.                                                *)

\* An invocation is for a segment that is complete, and exits when it is stored.
AtWork ==
  /\ at # "idle" => archived < made
  /\ at = "exit" => store[current] = "right"

\* An upload that is not disturbed works on the chain as it is, has sent what it
\* says, and the chain when it has sent the rest.
UploadFaithful ==
  ~disturbed =>
    /\ upload.at \in {"segments", "put"} =>
         /\ upload.list = chain /\ Verifies(chain)
         /\ \A s \in 1..upload.sent : remote[s] = chain[s]
    /\ upload.at = "put" => remote[upload.sent + 1] \in {"none", chain[upload.sent + 1]}
    /\ upload.at \in {"chain", "commit"} => \A s \in DOMAIN chain : remote[s] = chain[s]

\* A PUT that is in doubt brings what the directory holds, to a place where nothing
\* else is; a chain, one whose segments are there.
LateFaithful ==
  ~disturbed =>
    /\ \A s \in Segments, c \in Content :
         <<s, c>> \in lateParts => dir[s] = c /\ remote[s] \in {"none", c}
    /\ \A c \in lateChains : \A s \in DOMAIN c : remote[s] = c[s]

Sealed == UploadFaithful /\ LateFaithful /\ OffHostSealed

\* A recovery that goes on has the segments that cover its target.
TargetCovered ==
  target # -1 =>
    \E n \in Segments :
      /\ \A s \in 1..n : dir[s] # "none"
      /\ Base <= target
      /\ target <= IF n >= 2 THEN Start(n) ELSE Base

-----------------------------------------------------------------------------
(* Types.                                                                  *)

LEMMA ChainsType ==
  ASSUME NEW c \in Chains
  PROVE  /\ c \in Seq({"part", "whole"})
         /\ Len(c) \in 0..LastSegment /\ DOMAIN c = 1..Len(c)
         /\ \A i \in DOMAIN c : c[i] \in {"part", "whole"}
         /\ c # <<>> => Len(c) >= 1
<1>1. PICK n \in 0..LastSegment : c \in [1..n -> {"part", "whole"}]
  BY DEF Chains
<1>2. n \in Nat
  BY SegmentsAssumption
<1> QED
  BY <1>1, <1>2

LEMMA EmptyChain == <<>> \in Chains
<1>1. 0 \in 0..LastSegment
  BY SegmentsAssumption
<1>2. <<>> \in [1..0 -> {"part", "whole"}]
  OBVIOUS
<1> QED
  BY <1>1, <1>2 DEF Chains

LEMMA TypeInit == Init => TypeOK
<1> SUFFICES ASSUME Init
             PROVE  TypeOK
  OBVIOUS
<1>1. ArchiveTypeOK
  BY SegmentsAssumption DEF Init, ArchiveInit, ArchiveTypeOK
<1>2. /\ upload.at = "idle" /\ upload.list = <<>> /\ upload.sum = <<>>
      /\ upload.sent \in 0..Len(upload.list)
  BY DEF Init, NoUpload
<1> QED
  BY <1>1, <1>2, EmptyChain DEF Init, TypeOK, Content

LEMMA ArchiveStep ==
  ASSUME ArchiveTypeOK, AtWork, RecycledOnlyIfStored, ArchiveNext
  PROVE  ArchiveTypeOK' /\ AtWork' /\ RecycledOnlyIfStored'
<1> USE SegmentsAssumption DEF ArchiveTypeOK, AtWork, RecycledOnlyIfStored, current, Segments, Object
<1>1. CASE Switch
  BY <1>1 DEF Switch
<1>2. CASE Examine
  BY <1>2 DEF Examine
<1>3. CASE Put
  BY <1>3 DEF Put
<1>4. CASE PutTimesOut
  BY <1>4 DEF PutTimesOut
<1>5. CASE Verify
  BY <1>5 DEF Verify
<1>6. CASE Acknowledge
  BY <1>6 DEF Acknowledge
<1>7. CASE Die
  BY <1>7 DEF Die
<1>8. ASSUME NEW s \in Segments, PutLands(s)
      PROVE  ArchiveTypeOK' /\ AtWork' /\ RecycledOnlyIfStored'
  BY <1>8 DEF PutLands
<1> QED
  BY <1>1, <1>2, <1>3, <1>4, <1>5, <1>6, <1>7, <1>8 DEF ArchiveNext

LEMMA ArchiveKept ==
  ASSUME UNCHANGED archiveVars
  PROVE  /\ ArchiveTypeOK => ArchiveTypeOK'
         /\ AtWork => AtWork'
         /\ RecycledOnlyIfStored => RecycledOnlyIfStored'
BY DEF archiveVars, ArchiveTypeOK, AtWork, RecycledOnlyIfStored, current

\* What is in the directory makes a chain.
LEMMA DraftType ==
  ASSUME TypeOK, NEW n \in 1..LastSegment, Present = 1..n
  PROVE  [i \in 1..n |-> dir[i]] \in Chains
<1>1. \A i \in 1..n : dir[i] \in {"part", "whole"}
  BY DEF TypeOK, Present, Content, Segments
<1>2. [i \in 1..n |-> dir[i]] \in [1..n -> {"part", "whole"}]
  BY <1>1
<1>3. n \in 0..LastSegment
  BY SegmentsAssumption
<1> QED
  BY <1>2, <1>3 DEF Chains

LEMMA ChainTypeStep ==
  ASSUME TypeOK, ChainNext
  PROVE  TypeOK'
<1> USE ArchiveKept
<1>1. ASSUME NEW s \in Segments, Fetch(s)
      PROVE  TypeOK'
  <2>1. disturbed' \in BOOLEAN
    BY <1>1, Zenon DEF Fetch
  <2>2. dir' \in [Segments -> Content]
    BY <1>1 DEF Fetch, TypeOK, Content
  <2> QED
    BY <1>1, <2>1, <2>2 DEF Fetch, TypeOK, uploadVars, remoteVars
<1>2. CASE Clear
  <2>1. disturbed' \in BOOLEAN
    BY <1>2, Zenon DEF Clear
  <2> QED
    BY <1>2, <2>1 DEF Clear, TypeOK, Content, uploadVars, remoteVars
<1>3. CASE Emit
  BY <1>3, DraftType DEF Emit, TypeOK, uploadVars, remoteVars
<1>4. CASE Replace
  <2>1. disturbed' \in BOOLEAN
    BY <1>4, Zenon DEF Replace
  <2> QED
    BY <1>4, <2>1, EmptyChain DEF Replace, TypeOK, uploadVars, remoteVars
<1>5. CASE StartUpload
  BY <1>5, EmptyChain, ChainsType DEF StartUpload, TypeOK, NoUpload, localVars, remoteVars
<1>6. CASE ProbeSegment
  BY <1>6, ChainsType DEF ProbeSegment, TypeOK, localVars, remoteVars
<1>7. CASE PutSegment \/ PutSegmentInDoubt
  <2>1. upload.sent + 1 \in 1..Len(upload.list) /\ upload.sent + 1 \in Segments
    BY <1>7, ChainsType, SegmentsAssumption DEF PutSegment, PutSegmentInDoubt, TypeOK, Segments
  <2>2. CASE PutSegment
    BY <2>1, <2>2 DEF PutSegment, TypeOK, localVars
  <2>3. CASE PutSegmentInDoubt
    <3>1. lateParts' \subseteq Segments \X {"part", "whole"}
      BY <2>1, <2>3 DEF PutSegmentInDoubt, TypeOK, Content
    <3> QED
      BY <2>3, <3>1 DEF PutSegmentInDoubt, TypeOK, localVars
  <2> QED
    BY <1>7, <2>2, <2>3
<1>8. CASE SumChain \/ EndUpload
  <2>1. /\ upload'.at \in {"idle", "chain"} /\ upload'.list = <<>> /\ upload'.sent = 0
        /\ upload'.sum \in Chains
        /\ UNCHANGED <<archiveVars, localVars, remoteVars, target, disturbed>>
    <3>1. CASE SumChain
      BY <3>1 DEF SumChain, NoUpload, TypeOK
    <3>2. CASE EndUpload
      BY <3>2, EmptyChain DEF EndUpload, NoUpload
    <3> QED
      BY <1>8, <3>1, <3>2
  <2> QED
    BY <2>1, EmptyChain, ArchiveKept DEF TypeOK, localVars, remoteVars
<1>9. CASE ProbeChain
  BY <1>9, ChainsType DEF ProbeChain, TypeOK, localVars, remoteVars
<1>12. CASE PutChain \/ PutChainInDoubt
  BY <1>12, EmptyChain DEF PutChain, PutChainInDoubt, TypeOK, NoUpload, localVars
<1>13. ASSUME NEW s \in Segments, NEW c \in Content, SegmentLands(s, c)
       PROVE  TypeOK'
  <2>1. remote' \in [Segments -> Content] /\ lateParts' \subseteq Segments \X {"part", "whole"}
    BY <1>13 DEF SegmentLands, TypeOK
  <2> QED
    BY <1>13, <2>1 DEF SegmentLands, TypeOK, localVars
<1>14. ASSUME NEW c \in Chains, ChainLands(c)
       PROVE  TypeOK'
  BY <1>14 DEF ChainLands, TypeOK, localVars
<1>10. ASSUME NEW p \in Targets, Authorise(p)
       PROVE  TypeOK'
  BY <1>10 DEF Authorise, TypeOK, localVars, uploadVars, remoteVars
<1>11. CASE Prepare \/ Refuse
  BY <1>11 DEF Prepare, Refuse, TypeOK, localVars, uploadVars, remoteVars
<1> QED
  BY <1>1, <1>2, <1>3, <1>4, <1>5, <1>6, <1>7, <1>8, <1>9, <1>10, <1>11, <1>12, <1>13, <1>14
  DEF ChainNext

LEMMA TypeStep ==
  TypeOK /\ AtWork /\ RecycledOnlyIfStored /\ [Next]_vars
    => TypeOK' /\ AtWork' /\ RecycledOnlyIfStored'
<1> SUFFICES ASSUME TypeOK, AtWork, RecycledOnlyIfStored, [Next]_vars
             PROVE  TypeOK' /\ AtWork' /\ RecycledOnlyIfStored'
  OBVIOUS
<1>1. CASE ArchiveNext /\ UNCHANGED chainVars
  BY <1>1, ArchiveStep DEF TypeOK, chainVars, localVars, uploadVars, remoteVars
<1>2. CASE ChainNext
  <2>1. UNCHANGED archiveVars
    BY <1>2 DEF ChainNext, Fetch, Clear, Emit, Replace, StartUpload, ProbeSegment, PutSegment,
       PutSegmentInDoubt, SumChain, ProbeChain, PutChain, PutChainInDoubt, SegmentLands,
       ChainLands, EndUpload, Authorise, Prepare, Refuse
  <2> QED
    BY <1>2, <2>1, ChainTypeStep, ArchiveKept
<1>3. CASE UNCHANGED vars
  <2>1. UNCHANGED archiveVars
    BY <1>3 DEF vars
  <2> QED
    BY <1>3, <2>1, ArchiveKept DEF vars, TypeOK, chainVars, localVars, uploadVars, remoteVars
<1> QED
  BY <1>1, <1>2, <1>3 DEF Next

LEMMA ArchiveFirst == Init => TypeOK /\ AtWork /\ RecycledOnlyIfStored
BY TypeInit, SegmentsAssumption
DEF Init, ArchiveInit, AtWork, RecycledOnlyIfStored, Segments

\* The type invariant: every manifest is a run of segments from the first.
THEOREM WalTypeCorrect == Spec => []TypeOK
<1>1. Init => TypeOK /\ AtWork /\ RecycledOnlyIfStored
  BY ArchiveFirst
<1> QED
  BY <1>1, TypeStep, PTL DEF Spec

\* PostgreSQL recycles no segment that is not in the store, whatever PUTs time out
\* and land later.
THEOREM ArchiveKeeps == Spec => []RecycledOnlyIfStored
<1>1. Init => TypeOK /\ AtWork /\ RecycledOnlyIfStored
  BY ArchiveFirst
<1> QED
  BY <1>1, TypeStep, PTL DEF Spec

\* A segment that was uploaded, or is about to be, has nothing else at its key.
KeysFree ==
  /\ at \in {"put", "verify"} => store[current] # "other"
  /\ \A s \in late : store[s] # "other"

LEMMA KeysStep ==
  ASSUME ArchiveTypeOK, AtWork, KeysFree, ArchiveNext
  PROVE  /\ KeysFree'
         /\ \A s \in Segments : store[s] # "none" => store'[s] = store[s]
<1> USE SegmentsAssumption DEF ArchiveTypeOK, AtWork, KeysFree, current, Segments, Object
<1> DEFINE Kept == \A s \in Segments : store[s] # "none" => store'[s] = store[s]
<1>1. CASE Switch
  BY <1>1 DEF Switch
<1>2. CASE Examine
  BY <1>2 DEF Examine
<1>3. CASE Put
  BY <1>3 DEF Put
<1>4. CASE PutTimesOut
  BY <1>4 DEF PutTimesOut
<1>5. CASE Verify
  BY <1>5 DEF Verify
<1>6. CASE Acknowledge
  BY <1>6 DEF Acknowledge
<1>7. CASE Die
  BY <1>7 DEF Die
<1>8. ASSUME NEW s \in Segments, PutLands(s)
      PROVE  KeysFree' /\ Kept
  BY <1>8 DEF PutLands
<1> QED
  BY <1>1, <1>2, <1>3, <1>4, <1>5, <1>6, <1>7, <1>8 DEF ArchiveNext

\* What is in the store is never replaced, whatever PUTs land late.
THEOREM ObjectsStay == Spec => NeverOverwritten
<1>1. Init => TypeOK /\ AtWork /\ RecycledOnlyIfStored /\ KeysFree
  BY ArchiveFirst DEF Init, ArchiveInit, KeysFree
<1>2. TypeOK /\ AtWork /\ KeysFree /\ [Next]_vars =>
        KeysFree' /\ (\A s \in Segments : store[s] # "none" => store'[s] = store[s])
  <2> SUFFICES ASSUME TypeOK, AtWork, KeysFree, [Next]_vars
               PROVE  KeysFree' /\ (\A s \in Segments : store[s] # "none" => store'[s] = store[s])
    OBVIOUS
  <2>1. CASE ArchiveNext
    BY <2>1, KeysStep DEF TypeOK
  <2>2. CASE UNCHANGED archiveVars
    BY <2>2 DEF archiveVars, KeysFree, current
  <2> QED
    BY <2>1, <2>2 DEF Next, ChainNext, Fetch, Clear, Emit, Replace, StartUpload, ProbeSegment,
       PutSegment, PutSegmentInDoubt, SumChain, ProbeChain, PutChain, PutChainInDoubt,
       SegmentLands, ChainLands, EndUpload, Authorise, Prepare, Refuse, vars
<1> QED
  BY <1>1, <1>2, TypeStep, PTL DEF Spec, NeverOverwritten

-----------------------------------------------------------------------------
(* The off-host copy.                                                      *)

LEMMA SealedInit == Init => Sealed
BY DEF Init, Sealed, UploadFaithful, LateFaithful, OffHostSealed, NoUpload

\* Steps of others, which leave what an upload and its PUTs stand for, or say that
\* they did not.
LEMMA SealedKept ==
  ASSUME TypeOK, Sealed, UNCHANGED uploadVars,
         disturbed => disturbed',
         Uploading /\ ~disturbed' => chain' = chain /\ \A i \in DOMAIN chain : dir'[i] = dir[i],
         ~disturbed' => \A s \in Segments : UnderPut(s) => dir'[s] = dir[s]
  PROVE  Sealed'
<1>1. UploadFaithful'
  BY DEF Sealed, UploadFaithful, uploadVars, remoteVars, Uploading, Verifies
<1>2. LateFaithful'
  BY DEF Sealed, LateFaithful, uploadVars, remoteVars, UnderPut
<1>3. OffHostSealed'
  BY DEF Sealed, OffHostSealed, uploadVars, remoteVars
<1> QED
  BY <1>1, <1>2, <1>3 DEF Sealed

\* A segment that comes, where nothing or the same is, contradicts nothing.
LEMMA PartComes ==
  ASSUME TypeOK, Sealed, ~disturbed, ~disturbed', UNCHANGED <<dir, chain, remoteChain>>,
         NEW s \in Segments, NEW c \in {"part", "whole"},
         remote' = [remote EXCEPT ![s] = c], remote[s] \in {"none", c},
         dir[s] = c, lateParts' \subseteq lateParts, lateChains' = lateChains
  PROVE  /\ LateFaithful' /\ OffHostSealed'
         /\ \A i \in Segments : remote[i] # "none" => remote'[i] = remote[i]
         /\ remote'[s] = c
<1>1. /\ \A i \in Segments : remote[i] # "none" => remote'[i] = remote[i]
      /\ remote'[s] = c
  BY DEF TypeOK
<1>2. ASSUME NEW list \in Chains, \A i \in DOMAIN list : remote[i] = list[i]
      PROVE  \A i \in DOMAIN list : remote'[i] = list[i]
  <2>1. \A i \in DOMAIN list : i \in Segments /\ list[i] # "none"
    BY ChainsType, SegmentsAssumption DEF Segments
  <2> QED
    BY <1>1, <1>2, <2>1
<1>3. LateFaithful'
  <2>1. \A i \in Segments, d \in Content :
          <<i, d>> \in lateParts' => dir[i] = d /\ remote'[i] \in {"none", d}
    BY DEF Sealed, LateFaithful, TypeOK
  <2>2. \A list \in lateChains : \A i \in DOMAIN list : remote'[i] = list[i]
    BY <1>2 DEF Sealed, LateFaithful, TypeOK
  <2> QED
    BY <2>1, <2>2 DEF LateFaithful
<1>4. OffHostSealed'
  BY <1>2 DEF Sealed, OffHostSealed, TypeOK
<1> QED
  BY <1>1, <1>3, <1>4

\* A run that is about to send a segment sends what the chain records.
LEMMA SendsRecorded ==
  ASSUME TypeOK, Sealed, upload.at = "put", ~disturbed
  PROVE  LET s == upload.sent + 1 IN
           /\ s \in DOMAIN chain /\ s \in Segments
           /\ dir[s] = chain[s] /\ chain[s] \in {"part", "whole"}
           /\ remote[s] \in {"none", dir[s]}
<1> DEFINE s == upload.sent + 1
<1>1. upload.list = chain /\ Verifies(chain) /\ remote[s] \in {"none", chain[s]}
  BY DEF Sealed, UploadFaithful
<1>2. s \in DOMAIN chain /\ s \in Segments
  BY <1>1, ChainsType, SegmentsAssumption DEF TypeOK, Segments
<1>3. chain[s] \in {"part", "whole"}
  BY <1>2, ChainsType DEF TypeOK
<1> QED
  BY <1>1, <1>2, <1>3 DEF Verifies

LEMMA SealedStep == TypeOK /\ Sealed /\ [Next]_vars => Sealed'
<1> SUFFICES ASSUME TypeOK, Sealed, [Next]_vars
             PROVE  Sealed'
  OBVIOUS
<1>1. ASSUME NEW s \in Segments, Fetch(s)
      PROVE  Sealed'
  <2>1. disturbed => disturbed'
    BY <1>1 DEF Fetch
  <2>2. ASSUME Uploading, ~disturbed'
        PROVE  \A i \in DOMAIN chain : dir'[i] = dir[i]
    <3>1. s \notin DOMAIN chain
      BY <1>1, <2>2 DEF Fetch
    <3> QED
      BY <1>1, <3>1 DEF Fetch, TypeOK
  <2>3. ASSUME ~disturbed', NEW i \in Segments, UnderPut(i)
        PROVE  dir'[i] = dir[i]
    BY <1>1, <2>3 DEF Fetch, TypeOK
  <2> QED
    BY <1>1, <2>1, <2>2, <2>3, SealedKept DEF Fetch
<1>2. CASE Clear \/ Replace
  <2>1. disturbed => disturbed'
    BY <1>2 DEF Clear, Replace
  <2>2. ASSUME Uploading, ~disturbed'
        PROVE  chain' = chain /\ dir' = dir
    BY <1>2, <2>2 DEF Clear, Replace
  <2>3. ASSUME ~disturbed', NEW i \in Segments, UnderPut(i)
        PROVE  dir'[i] = dir[i]
    BY <1>2, <2>3 DEF Clear, Replace, UnderPut
  <2> QED
    BY <1>2, <2>1, <2>2, <2>3, SealedKept DEF Clear, Replace
<1>3. CASE StartUpload
  <2>1. /\ upload'.list = chain /\ upload'.sent = 0 /\ upload'.at = "segments" /\ Verifies(chain)
        /\ UNCHANGED <<dir, chain, remote, remoteChain, lateParts, lateChains, disturbed>>
    BY <1>3 DEF StartUpload, NoUpload, localVars, remoteVars
  <2> QED
    BY <2>1 DEF Sealed, UploadFaithful, LateFaithful, OffHostSealed, Verifies
<1>4. CASE ProbeSegment
  <2>1. /\ upload'.list = upload.list /\ upload'.sent = upload.sent /\ upload'.at = "put"
        /\ upload.at = "segments"
        /\ remote[upload.sent + 1] \in {"none", upload.list[upload.sent + 1]}
        /\ UNCHANGED <<dir, chain, remote, remoteChain, lateParts, lateChains, disturbed>>
    BY <1>4 DEF ProbeSegment, TypeOK, localVars, remoteVars
  <2> QED
    BY <2>1 DEF Sealed, UploadFaithful, LateFaithful, OffHostSealed, Verifies
<1>5. CASE PutSegment
  <2> DEFINE s == upload.sent + 1
  <2>1. /\ upload.at = "put" /\ upload'.at = "segments" /\ upload'.list = upload.list
        /\ upload'.sent = s /\ remote' = [remote EXCEPT ![s] = dir[s]]
        /\ UNCHANGED <<dir, chain, remoteChain, lateParts, lateChains, disturbed>>
    BY <1>5 DEF PutSegment, TypeOK, localVars
  <2>2. CASE disturbed
    BY <2>1, <2>2 DEF Sealed, UploadFaithful, LateFaithful, OffHostSealed
  <2>3. CASE ~disturbed
    <3>1. /\ s \in DOMAIN chain /\ s \in Segments
          /\ dir[s] = chain[s] /\ chain[s] \in {"part", "whole"}
          /\ remote[s] \in {"none", dir[s]}
      BY <2>1, <2>3, SendsRecorded
    <3>2. ~disturbed' /\ lateParts' \subseteq lateParts /\ lateChains' = lateChains
      BY <2>1, <2>3
    <3>3. /\ LateFaithful' /\ OffHostSealed' /\ remote'[s] = dir[s]
          /\ \A i \in Segments : remote[i] # "none" => remote'[i] = remote[i]
      BY <2>1, <2>3, <3>1, <3>2, PartComes
    <3>4. /\ upload.list = chain /\ Verifies(chain) /\ upload.sent \in Nat
          /\ \A i \in 1..upload.sent : remote[i] = chain[i] /\ i \in Segments /\ chain[i] # "none"
      BY <2>1, <2>3, <3>1, ChainsType, SegmentsAssumption
      DEF Sealed, UploadFaithful, TypeOK, Segments
    <3>5. \A i \in 1..s : remote'[i] = chain[i]
      BY <3>1, <3>3, <3>4
    <3>6. UploadFaithful'
      BY <2>1, <3>4, <3>5 DEF UploadFaithful, Verifies
    <3> QED
      BY <3>3, <3>6 DEF Sealed
  <2> QED
    BY <2>2, <2>3
<1>6. CASE PutSegmentInDoubt
  <2> DEFINE s == upload.sent + 1
  <2>1. /\ upload.at = "put" /\ lateParts' = lateParts \cup {<<s, dir[s]>>}
        /\ UNCHANGED <<dir, chain, upload, remote, remoteChain, lateChains, disturbed>>
    BY <1>6 DEF PutSegmentInDoubt, localVars
  <2>2. UploadFaithful' /\ OffHostSealed'
    BY <2>1 DEF Sealed, UploadFaithful, OffHostSealed, Verifies
  <2>3. LateFaithful'
    BY <2>1, SendsRecorded DEF Sealed, LateFaithful
  <2> QED
    BY <2>2, <2>3 DEF Sealed
<1>7. CASE SumChain
  <2>1. /\ upload'.at = "chain" /\ upload.at = "segments" /\ upload.sent = Len(upload.list)
        /\ UNCHANGED <<dir, chain, remote, remoteChain, lateParts, lateChains, disturbed>>
    BY <1>7 DEF SumChain, NoUpload, localVars, remoteVars
  <2>2. DOMAIN chain = 1..Len(chain)
    BY ChainsType DEF TypeOK
  <2> QED
    BY <2>1, <2>2 DEF Sealed, UploadFaithful, LateFaithful, OffHostSealed
<1>8. CASE ProbeChain
  <2>1. /\ upload'.at = "commit" /\ upload.at = "chain"
        /\ UNCHANGED <<dir, chain, remote, remoteChain, lateParts, lateChains, disturbed>>
    BY <1>8 DEF ProbeChain, TypeOK, localVars, remoteVars
  <2> QED
    BY <2>1 DEF Sealed, UploadFaithful, LateFaithful, OffHostSealed
<1>9. CASE PutChain \/ PutChainInDoubt
  <2>1. ~disturbed => \A s \in DOMAIN chain : remote[s] = chain[s]
    BY <1>9 DEF PutChain, PutChainInDoubt, Sealed, UploadFaithful
  <2>2. CASE PutChain
    <3>1. /\ upload'.at = "read" /\ remoteChain' = chain
          /\ UNCHANGED <<dir, chain, remote, lateParts, lateChains, disturbed>>
      BY <2>2 DEF PutChain, NoUpload, localVars
    <3> QED
      BY <2>1, <3>1 DEF Sealed, UploadFaithful, LateFaithful, OffHostSealed
  <2>3. CASE PutChainInDoubt
    <3>1. /\ lateChains' = lateChains \cup {chain}
          /\ UNCHANGED <<dir, chain, upload, remote, remoteChain, lateParts, disturbed>>
      BY <2>3 DEF PutChainInDoubt, localVars
    <3> QED
      BY <2>1, <3>1 DEF Sealed, UploadFaithful, LateFaithful, OffHostSealed, Verifies
  <2> QED
    BY <1>9, <2>2, <2>3
<1>10. ASSUME NEW s \in Segments, NEW c \in Content, SegmentLands(s, c)
       PROVE  Sealed'
  <2>1. /\ <<s, c>> \in lateParts /\ lateParts' \subseteq lateParts
        /\ remote' \in {remote, [remote EXCEPT ![s] = c]}
        /\ UNCHANGED <<dir, chain, upload, remoteChain, lateChains, disturbed>>
    BY <1>10 DEF SegmentLands, localVars
  <2>2. CASE disturbed
    BY <2>1, <2>2 DEF Sealed, UploadFaithful, LateFaithful, OffHostSealed
  <2>3. CASE remote' = remote
    BY <2>1, <2>3 DEF Sealed, UploadFaithful, LateFaithful, OffHostSealed, Verifies
  <2>4. CASE ~disturbed /\ remote' = [remote EXCEPT ![s] = c]
    <3>1. c \in {"part", "whole"} /\ dir[s] = c /\ remote[s] \in {"none", c}
      BY <2>1, <2>4 DEF Sealed, LateFaithful, TypeOK
    <3>2. /\ LateFaithful' /\ OffHostSealed' /\ remote'[s] = c
          /\ \A i \in Segments : remote[i] # "none" => remote'[i] = remote[i]
      BY <2>1, <2>4, <3>1, PartComes
    <3>3. \A i \in DOMAIN chain : i \in Segments /\ chain[i] # "none"
      <4>1. chain \in Chains
        BY DEF TypeOK
      <4>2. DOMAIN chain \subseteq Segments
        BY <4>1, ChainsType, SegmentsAssumption DEF Segments
      <4>3. \A i \in DOMAIN chain : chain[i] \in {"part", "whole"}
        BY <4>1, ChainsType
      <4> QED
        BY <4>2, <4>3
    <3>4. upload.at \in {"segments", "put"} =>
            /\ upload.list = chain /\ Verifies(chain)
            /\ \A i \in 1..upload.sent : remote'[i] = chain[i]
      <4> SUFFICES ASSUME upload.at \in {"segments", "put"}
                   PROVE  /\ upload.list = chain /\ Verifies(chain)
                          /\ \A i \in 1..upload.sent : remote'[i] = chain[i]
        OBVIOUS
      <4>1. /\ upload.list = chain /\ Verifies(chain)
            /\ \A i \in 1..upload.sent : remote[i] = chain[i]
        BY <2>4 DEF Sealed, UploadFaithful
      <4>2. \A i \in 1..upload.sent : i \in DOMAIN chain
        BY <4>1, ChainsType DEF TypeOK
      <4> QED
        BY <3>2, <3>3, <4>1, <4>2
    <3>5. upload.at = "put" => remote'[upload.sent + 1] \in {"none", chain[upload.sent + 1]}
      <4> SUFFICES ASSUME upload.at = "put"
                   PROVE  remote'[upload.sent + 1] \in {"none", chain[upload.sent + 1]}
        OBVIOUS
      <4> DEFINE k == upload.sent + 1
      <4>1. /\ k \in Segments /\ dir[k] = chain[k] /\ remote[k] \in {"none", dir[k]}
        BY <2>4, SendsRecorded
      <4>2. CASE k = s
        BY <3>1, <3>2, <4>1, <4>2
      <4>3. CASE k # s
        BY <2>4, <4>1, <4>3 DEF TypeOK
      <4> QED
        BY <4>2, <4>3
    <3>6. upload.at \in {"chain", "commit"} => \A i \in DOMAIN chain : remote'[i] = chain[i]
      BY <2>4, <3>2, <3>3 DEF Sealed, UploadFaithful
    <3>7. UploadFaithful'
      BY <2>1, <3>4, <3>5, <3>6 DEF UploadFaithful, Verifies
    <3> QED
      BY <3>2, <3>7 DEF Sealed
  <2> QED
    BY <2>1, <2>2, <2>3, <2>4
<1>11. ASSUME NEW c \in Chains, ChainLands(c)
       PROVE  Sealed'
  <2>1. /\ c \in lateChains /\ lateChains' \subseteq lateChains
        /\ remoteChain' \in {remoteChain, c}
        /\ UNCHANGED <<dir, chain, upload, remote, lateParts, disturbed>>
    BY <1>11 DEF ChainLands, localVars
  <2> QED
    BY <2>1 DEF Sealed, UploadFaithful, LateFaithful, OffHostSealed, Verifies
<1>12. CASE EndUpload
  BY <1>12 DEF EndUpload, NoUpload, Sealed, UploadFaithful, LateFaithful, OffHostSealed,
     localVars, remoteVars
<1>13. CASE (ArchiveNext /\ UNCHANGED chainVars) \/ UNCHANGED vars
  BY <1>13, SealedKept DEF vars, chainVars, localVars
<1>14. CASE Emit \/ (\E p \in Targets : Authorise(p)) \/ Prepare \/ Refuse
  BY <1>14, SealedKept DEF Emit, Authorise, Prepare, Refuse, localVars
<1> QED
  BY <1>1, <1>2, <1>3, <1>4, <1>5, <1>6, <1>7, <1>8, <1>9, <1>10, <1>11, <1>12, <1>13, <1>14
  DEF Next, ChainNext

\* The chain is found off-host with what it names, whatever uploads died before and
\* however late their PUTs are carried out, unless a file changed under an upload or
\* under a PUT that it gave up on.
THEOREM CopySealed == Spec => []OffHostSealed
<1>1. Init => TypeOK /\ AtWork /\ RecycledOnlyIfStored /\ Sealed
  BY ArchiveFirst, SealedInit
<1>2. Sealed => OffHostSealed
  BY DEF Sealed
<1> QED
  BY <1>1, <1>2, TypeStep, SealedStep, PTL DEF Spec

-----------------------------------------------------------------------------
(* Recoveries.                                                             *)

LEMMA CoveredInit == Init => TargetCovered
BY DEF Init, TargetCovered

LEMMA CoveredStep == TypeOK /\ TargetCovered /\ [Next]_vars => TargetCovered'
<1> SUFFICES ASSUME TypeOK, TargetCovered, [Next]_vars
             PROVE  TargetCovered'
  OBVIOUS
<1>1. ASSUME NEW s \in Segments, Fetch(s)
      PROVE  TargetCovered'
  <2>1. \A i \in Segments : dir[i] # "none" => dir'[i] # "none"
    BY <1>1 DEF Fetch, TypeOK
  <2>2. \A n \in Segments : 1..n \subseteq Segments
    BY SegmentsAssumption DEF Segments
  <2> QED
    BY <1>1, <2>1, <2>2 DEF Fetch, TargetCovered
<1>2. CASE Clear
  BY <1>2 DEF Clear, TargetCovered
<1>3. ASSUME NEW p \in Targets, Authorise(p)
      PROVE  TargetCovered'
  <2> DEFINE n == Len(chain)
  <2>1. /\ n \in Segments /\ DOMAIN chain = 1..n
        /\ \A i \in 1..n : chain[i] \in {"part", "whole"}
    BY <1>3, ChainsType, SegmentsAssumption DEF Authorise, TypeOK, Segments
  <2>2. \A s \in 1..n : dir[s] # "none"
    BY <1>3, <2>1 DEF Authorise, Verifies
  <2>3. Base <= p /\ p <= IF n >= 2 THEN Start(n) ELSE Base
    BY <1>3 DEF Authorise, CoverageEnd
  <2>4. target' = p /\ dir' = dir
    BY <1>3 DEF Authorise, localVars
  <2> QED
    BY <2>1, <2>2, <2>3, <2>4 DEF TargetCovered
<1>4. CASE Prepare \/ Refuse
  BY <1>4 DEF Prepare, Refuse, TargetCovered
<1>5. CASE UNCHANGED <<dir, target>>
  BY <1>5 DEF TargetCovered
<1> QED
  BY <1>1, <1>2, <1>3, <1>4, <1>5
  DEF Next, ChainNext, Emit, Replace, StartUpload, ProbeSegment, PutSegment, PutSegmentInDoubt,
      SumChain, ProbeChain, PutChain, PutChainInDoubt, SegmentLands, ChainLands, EndUpload,
      vars, chainVars, localVars

\* The segments that were examined lead to the target, or the next one is there.
LEMMA ExaminedReaches ==
  ASSUME TypeOK, TargetCovered, Prepare
  PROVE  Reached(target)
<1> DEFINE k == SegmentAt(target)
<1>1. PICK n \in Segments :
        /\ \A s \in 1..n : dir[s] # "none"
        /\ Base <= target
        /\ target <= IF n >= 2 THEN Start(n) ELSE Base
  BY DEF Prepare, TargetCovered
<1>2. n \in 1..LastSegment /\ n \in Nat /\ LastSegment \in Nat /\ target \in Nat
  BY SegmentsAssumption, LsnAssumption DEF Prepare, TypeOK, Segments
<1>3. k \in Nat /\ 3 * (k - 1) <= target /\ target < 3 * k
  BY <1>2 DEF SegmentAt
<1>4. k \in 1..n /\ (n = 1 => target = Base)
  BY <1>1, <1>2, <1>3, LsnAssumption DEF Start
<1>5. k \in Segments /\ \A s \in 1..k : dir[s] = "whole"
  BY <1>2, <1>4 DEF Prepare, Usable, Segments
<1>6. CASE target <= End(k)
  BY <1>5, <1>6 DEF Reached
<1>7. CASE ~(target <= End(k))
  <2>1. k \in Short /\ target > 3 * (k - 1) + 1
    BY <1>2, <1>3, <1>4, <1>7 DEF End, Start
  <2>2. n # 1
    BY <1>4, <2>1, <1>2, LsnAssumption
  <2>3. k + 1 \in 1..n /\ k + 1 \in Segments
    BY <1>1, <1>2, <1>3, <1>4, <2>1, <2>2 DEF Start, Segments
  <2>4. dir[k + 1] \in {"part", "whole"}
    BY <1>1, <2>3 DEF TypeOK, Content
  <2>5. CASE dir[k + 1] = "part"
    <3>1. target < Start(k + 1)
      BY <1>2, <1>3 DEF Start
    <3> QED
      BY <1>5, <2>3, <2>5, <3>1 DEF Reached
  <2>6. CASE dir[k + 1] = "whole"
    <3>1. \A s \in 1..(k + 1) : dir[s] = "whole"
      BY <1>3, <1>5, <2>6
    <3>2. target <= End(k + 1)
      BY <1>2, <1>3 DEF End, Start
    <3> QED
      BY <2>3, <3>1, <3>2 DEF Reached
  <2> QED
    BY <2>4, <2>5, <2>6
<1> QED
  BY <1>6, <1>7

\* A recovery is prepared only if whole segments lead up to its target, or to the
\* torn one that is there next.
THEOREM RecoveryHasItsWal == Spec => RecoveryReaches
<1>1. Init => TypeOK /\ AtWork /\ RecycledOnlyIfStored /\ TargetCovered
  BY ArchiveFirst, CoveredInit
<1>2. TypeOK /\ TargetCovered => (Prepare => Reached(target))
  BY ExaminedReaches
<1> QED
  BY <1>1, <1>2, TypeStep, CoveredStep, PTL DEF Spec, RecoveryReaches

=============================================================================
