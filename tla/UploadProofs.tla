---------------------------- MODULE UploadProofs -----------------------------
(***************************************************************************)
(* For every number of overlapping PATCHes, every file size and whatever   *)
(* is lost: the offset a client resumes from is backed by the file, and no *)
(* ingest task starts on part of a file.  A client that sends one PATCH at *)
(* a time has its upload ingested at most once.                            *)
(***************************************************************************)
EXTENDS MCUpload, FiniteSetTheorems, TLAPS

(* Two runs of bytes that meet cover what the longer run covers.           *)
LEMMA BytesJoin ==
    ASSUME NEW o \in Nat, NEW n \in Nat, NEW S, Bytes(0, o) \subseteq S
    PROVE  Bytes(0, o + n) \subseteq S \cup Bytes(o, n)
BY DEF Bytes

LEMMA BytesPrefix ==
    ASSUME NEW m \in Nat, NEW n \in Nat, m <= n
    PROVE  Bytes(0, m) \subseteq Bytes(0, n)
BY DEF Bytes

(* Type correctness.                                                       *)
THEOREM TypeCorrect == Spec => []TypeOK
<1>1. Init => TypeOK
  BY DEF Init, TypeOK, JobStatus, Handling, Over
<1>2. TypeOK /\ [Next]_vars => TypeOK'
  <2> SUFFICES ASSUME TypeOK, [Next]_vars PROVE TypeOK'
    OBVIOUS
  <2> USE UploadAssumption DEF TypeOK, JobStatus, Handling, Over, requests, tasks, Goto
  <2>1. ASSUME NEW r \in Patches, NEW o \in 0..Total, NEW n \in 0..MaxChunk, Patch(r, o, n)
        PROVE  TypeOK'
    BY <2>1 DEF Patch
  <2>2. ASSUME NEW r \in Patches, Stream(r) \/ Disconnect(r)
        PROVE  TypeOK'
    BY <2>2 DEF Stream, Disconnect
  <2>3. ASSUME NEW r \in Patches, Write(r)
        PROVE  TypeOK'
    <3>1. written' \in SUBSET Nat
      <4>1. written' = written \cup Bytes(offset[r], length[r])
        BY <2>3 DEF Write
      <4>2. Bytes(offset[r], length[r]) \subseteq Nat
        BY DEF Bytes
      <4> QED
        BY <4>1, <4>2
    <3>2. pc' \in [Patches -> Handling \cup Over \cup {"unsent"}]
      BY <2>3 DEF Write
    <3> QED
      BY <2>3, <3>1, <3>2 DEF Write
  <2>4. ASSUME NEW r \in Patches, Save(r)
        PROVE  TypeOK'
    <3>1. received' \in Nat /\ status' \in JobStatus
      BY <2>4 DEF Save
    <3>2. pc' \in [Patches -> Handling \cup Over \cup {"unsent"}]
      BY <2>4 DEF Save
    <3> QED
      BY <2>4, <3>1, <3>2 DEF Save
  <2>5. ASSUME NEW r \in Patches, Publish(r)
        PROVE  TypeOK'
    <3>1. pc' \in [Patches -> Handling \cup Over \cup {"unsent"}]
      BY <2>5 DEF Publish
    <3>2. task' \in [Patches -> {"none", "queued", "starting", "running", "done", "failed", "crashed"}]
      BY <2>5 DEF Publish
    <3> QED
      BY <2>5, <3>1, <3>2 DEF Publish
  <2>6. ASSUME NEW r \in Patches, Die(r)
        PROVE  TypeOK'
    <3>1. written' \in SUBSET Nat
      <4>1. PICK n \in 0..length[r] :
              written' = IF pc[r] = "writing" THEN written \cup Bytes(offset[r], n) ELSE written
        BY <2>6 DEF Die
      <4>2. Bytes(offset[r], n) \subseteq Nat
        BY DEF Bytes, InHand
      <4> QED
        BY <4>1, <4>2
    <3>2. pc' \in [Patches -> Handling \cup Over \cup {"unsent"}]
      BY <2>6 DEF Die
    <3> QED
      BY <2>6, <3>1, <3>2 DEF Die
  <2>7. ASSUME NEW r \in Patches, TaskStep(r) \/ CrashTask(r)
        PROVE  TypeOK'
    <3>1. task' \in [Patches -> {"none", "queued", "starting", "running", "done", "failed", "crashed"}]
      BY <2>7 DEF TaskStep, StartTask, MarkRunning, EndTask, CrashTask
    <3>2. saw' \in [Patches -> JobStatus] /\ status' \in JobStatus
      BY <2>7 DEF TaskStep, StartTask, MarkRunning, EndTask, CrashTask
    <3> QED
      BY <2>7, <3>1, <3>2 DEF TaskStep, StartTask, MarkRunning, EndTask, CrashTask
  <2>8. CASE UNCHANGED vars
    BY <2>8 DEF vars
  <2> QED
    BY <2>1, <2>2, <2>3, <2>4, <2>5, <2>6, <2>7, <2>8 DEF Next, ApiStep
<1> QED
  BY <1>1, <1>2, PTL DEF Spec

LEMMA UploadStep ==
    ASSUME TypeOK, UploadInv, [Next]_vars
    PROVE  UploadInv'
<1> USE DEF UploadInv, requests, tasks, Goto
<1>1. ASSUME NEW r \in Patches, NEW o \in 0..Total, NEW n \in 0..MaxChunk, Patch(r, o, n)
      PROVE  UploadInv'
  BY <1>1 DEF Patch, TypeOK
<1>2. ASSUME NEW r \in Patches, Stream(r) \/ Disconnect(r)
      PROVE  UploadInv'
  BY <1>2 DEF Stream, Disconnect, TypeOK
<1>3. ASSUME NEW r \in Patches, Write(r)
      PROVE  UploadInv'
  <2>1. Bytes(0, offset[r] + length[r]) \subseteq written'
    BY <1>3, BytesJoin DEF Write, TypeOK
  <2>2. written \subseteq written'
    BY <1>3 DEF Write
  <2> QED
    BY <1>3, <2>1, <2>2 DEF Write, TypeOK
<1>4. ASSUME NEW r \in Patches, Save(r)
      PROVE  UploadInv'
  <2>1. Bytes(0, received') \subseteq written
    BY <1>4 DEF Save
  <2>2. offset[r] + length[r] >= Total => Bytes(0, Total) \subseteq written
    BY <1>4, BytesPrefix, UploadAssumption DEF Save, TypeOK
  <2>3. pc'[r] = "publishing" => Bytes(0, Total) \subseteq written
    BY <1>4, <2>2 DEF Save, TypeOK
  <2> QED
    BY <1>4, <2>1, <2>3 DEF Save, TypeOK
<1>5. ASSUME NEW r \in Patches, Publish(r)
      PROVE  UploadInv'
  BY <1>5 DEF Publish, TypeOK
<1>6. ASSUME NEW r \in Patches, Die(r)
      PROVE  UploadInv'
  <2>1. written \subseteq written'
    BY <1>6 DEF Die
  <2> QED
    BY <1>6, <2>1 DEF Die, TypeOK
<1>7. ASSUME NEW r \in Patches, TaskStep(r) \/ CrashTask(r)
      PROVE  UploadInv'
  BY <1>7 DEF TaskStep, StartTask, MarkRunning, EndTask, CrashTask, TypeOK
<1>8. CASE UNCHANGED vars
  BY <1>8 DEF vars
<1> QED
  BY <1>1, <1>2, <1>3, <1>4, <1>5, <1>6, <1>7, <1>8 DEF Next, ApiStep

LEMMA Invariance == Spec => []UploadInv
<1>1. Init => UploadInv
  BY DEF Init, UploadInv, Bytes
<1> QED
  BY <1>1, UploadStep, TypeCorrect, PTL DEF Spec

(* The offset HEAD answers is backed by the file.                          *)
THEOREM OffsetIsBacked == Spec => []ReceivedIsWritten
<1>1. UploadInv => ReceivedIsWritten
  BY DEF UploadInv, ReceivedIsWritten
<1> QED
  BY <1>1, Invariance, PTL

(* No ingest task is started on part of a file.                            *)
THEOREM IngestsWholeFiles == Spec => []IngestReadsWholeFile
<1>1. UploadInv => IngestReadsWholeFile
  BY DEF UploadInv, IngestReadsWholeFile
<1> QED
  BY <1>1, Invariance, PTL

-----------------------------------------------------------------------------
(* One PATCH at a time.                                                    *)

(* Counting to one.                                                        *)
LEMMA AtMostOne ==
    ASSUME NEW S, IsFiniteSet(S)
    PROVE  Cardinality(S) <= 1 <=> \A x, y \in S : x = y
<1>1. ASSUME Cardinality(S) <= 1, NEW x \in S, NEW y \in S
      PROVE  x = y
  <2>1. Cardinality(S) \in Nat /\ Cardinality(S) # 0
    BY <1>1, FS_CardinalityType, FS_EmptySet
  <2>2. PICK z : S = {z}
    BY <1>1, <2>1, FS_Singleton
  <2> QED
    BY <1>1, <2>2
<1>2. ASSUME \A x, y \in S : x = y
      PROVE  Cardinality(S) <= 1
  <2>1. S = {} \/ \E x : S = {x}
    BY <1>2
  <2> QED
    BY <2>1, FS_EmptySet, FS_Singleton
<1> QED
  BY <1>1, <1>2

(* While no two PATCHes were in hand at once, one that is streaming,       *)
(* writing or saving still finds the job UPLOADING, nothing has been       *)
(* published while it is, and at most one task has been or is about to be. *)
OneAtATimeInv ==
    /\ \A q, r \in InHand : q = r
    /\ \A r \in Patches : pc[r] \in {"streaming", "writing", "saving"} => status = "uploading"
    /\ \A r \in Patches : pc[r] = "publishing" \/ task[r] # "none" => status # "uploading"
    /\ \A q, r \in Patches : task[q] # "none" => pc[r] # "publishing"
    /\ \A q, r \in Patches : task[q] # "none" /\ task[r] # "none" => q = r

LEMMA OverlapSeen ==
    ASSUME MCNext, ~overlapped'
    PROVE  ~overlapped /\ \A q, r \in InHand' : q = r
<1>1. InHand' \subseteq Patches
  BY DEF InHand
<1>2. IsFiniteSet(InHand')
  BY <1>1, FS_Subset, UploadAssumption
<1>3. ~overlapped /\ ~(Cardinality(InHand') > 1)
  BY Zenon DEF MCNext
<1>4. Cardinality(InHand') \in Nat
  BY <1>2, FS_CardinalityType
<1>5. Cardinality(InHand') <= 1
  BY <1>3, <1>4
<1> QED
  BY <1>2, <1>3, <1>5, AtMostOne

LEMMA OneAtATimeStep ==
    ASSUME TypeOK, OneAtATimeInv, Next, \A q, r \in InHand' : q = r
    PROVE  OneAtATimeInv'
<1> USE DEF OneAtATimeInv, InHand, Handling, requests, tasks, Goto
<1>1. ASSUME NEW r \in Patches, NEW o \in 0..Total, NEW n \in 0..MaxChunk, Patch(r, o, n)
      PROVE  OneAtATimeInv'
  <2>1. status' = status /\ task' = task
    BY <1>1 DEF Patch
  <2>2. \A q \in Patches \ {r} : pc'[q] = pc[q]
    BY <1>1 DEF Patch, TypeOK
  <2>3. pc'[r] \in {"streaming", "refused"} /\ (pc'[r] = "streaming" => status = "uploading")
    BY <1>1 DEF Patch, TypeOK
  <2> QED
    BY <2>1, <2>2, <2>3
<1>2. ASSUME NEW r \in Patches, Stream(r) \/ Disconnect(r) \/ Write(r) \/ Die(r)
      PROVE  OneAtATimeInv'
  <2>1. status' = status /\ task' = task /\ pc[r] \in Handling
    BY <1>2 DEF Stream, Disconnect, Write, Die
  <2>2. \A q \in Patches \ {r} : pc'[q] = pc[q]
    BY <1>2 DEF Stream, Disconnect, Write, Die, TypeOK
  <2>3. \/ pc'[r] \in {"dropped", "lost", "unpublished"}
        \/ pc[r] \in {"streaming", "writing"} /\ pc'[r] \in {"writing", "saving"}
    BY <1>2 DEF Stream, Disconnect, Write, Die, TypeOK
  <2> QED
    BY <2>1, <2>2, <2>3
<1>3. ASSUME NEW r \in Patches, Save(r)
      PROVE  OneAtATimeInv'
  <2>1. \A q \in Patches \ {r} : pc'[q] = pc[q] /\ pc[q] \notin Handling
    BY <1>3 DEF Save, TypeOK
  <2>2. pc[r] = "saving" /\ task' = task
    BY <1>3 DEF Save
  <2>3. \/ pc'[r] = "publishing" /\ status' = "queued"
        \/ pc'[r] = "answered" /\ status' = status
    BY <1>3 DEF Save, TypeOK
  <2>4. status = "uploading" /\ \A q \in Patches : task[q] = "none"
    BY <2>2
  <2> QED
    BY <2>1, <2>2, <2>3, <2>4
<1>4. ASSUME NEW r \in Patches, Publish(r)
      PROVE  OneAtATimeInv'
  <2>1. \A q \in Patches \ {r} : pc'[q] = pc[q] /\ pc[q] \notin Handling /\ task'[q] = task[q]
    BY <1>4 DEF Publish, TypeOK
  <2>2. pc[r] = "publishing" /\ status' = status /\ pc'[r] = "answered"
    BY <1>4 DEF Publish, TypeOK
  <2>3. \A q \in Patches : task[q] = "none"
    BY <2>2
  <2> QED
    BY <2>1, <2>2, <2>3
<1>5. ASSUME NEW r \in Patches, TaskStep(r) \/ CrashTask(r)
      PROVE  OneAtATimeInv'
  <2>1. pc' = pc /\ (status' = status \/ status' \in {"running", "done", "failed"})
    BY <1>5 DEF TaskStep, StartTask, MarkRunning, EndTask, CrashTask
  <2>2. task[r] # "none" /\ \A q \in Patches \ {r} : task'[q] = task[q]
    BY <1>5 DEF TaskStep, StartTask, MarkRunning, EndTask, CrashTask, TypeOK
  <2>3. status # "uploading" /\ status' # "uploading"
    BY <2>1, <2>2
  <2> QED
    BY <2>1, <2>2, <2>3
<1> QED
  BY <1>1, <1>2, <1>3, <1>4, <1>5 DEF Next, ApiStep

(* A client that waits for the end of a PATCH before it sends the next,    *)
(* answered or lost, has its upload ingested at most once: the last chunk  *)
(* takes the job out of UPLOADING before anything else can read it.        *)
THEOREM IngestedOnceOneAtATime == MCSpec => []OneAtATimeIngestedOnce
<1>1. MCInit => (~overlapped => OneAtATimeInv)
  BY DEF MCInit, Init, OneAtATimeInv, InHand, Handling
<1>2. TypeOK /\ (~overlapped => OneAtATimeInv) /\ [MCNext]_<<vars, overlapped>>
        => (~overlapped => OneAtATimeInv)'
  <2>1. CASE MCNext
    BY <2>1, OverlapSeen, OneAtATimeStep DEF MCNext
  <2>2. CASE UNCHANGED <<vars, overlapped>>
    BY <2>2 DEF vars, OneAtATimeInv, InHand
  <2> QED
    BY <2>1, <2>2
<1>3. (~overlapped => OneAtATimeInv) => OneAtATimeIngestedOnce
  <2> SUFFICES ASSUME OneAtATimeInv PROVE IngestedOnce
    BY DEF OneAtATimeIngestedOnce
  <2> DEFINE T == {r \in Patches : task[r] # "none"}
  <2>1. IsFiniteSet(T)
    BY FS_Subset, UploadAssumption
  <2>2. \A q, r \in T : q = r
    BY DEF OneAtATimeInv
  <2>3. Cardinality(T) <= 1
    BY <2>1, <2>2, AtMostOne
  <2> QED
    BY <2>3 DEF IngestedOnce
<1>4. MCSpec => Spec
  <2>1. MCInit => Init
    BY DEF MCInit
  <2>2. [MCNext]_<<vars, overlapped>> => [Next]_vars
    BY DEF MCNext
  <2> QED
    BY <2>1, <2>2, PTL DEF MCSpec, Spec
<1> QED
  BY <1>1, <1>2, <1>3, <1>4, TypeCorrect, PTL DEF MCSpec
==============================================================================
