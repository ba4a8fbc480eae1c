-------------------------- MODULE ProblemSetsProofs --------------------------
(***************************************************************************)
(* What ProblemSets guarantees for every number of jobs, courses, clusters *)
(* and workers, under every interleaving, failure and crash of the model.  *)
(* The invariant IInv is proved topic by topic, each on top of the ones    *)
(* before it.                                                              *)
(***************************************************************************)
EXTENDS MCProblemSets, FiniteSetTheorems, TLAPS

(* A job that has been filed has a request.                                *)
LEMMA FiledRequest ==
  ASSUME TypeOK, JobInv, NEW j \in Jobs, pc[j] # "unfiled"
  PROVE  req[j] \in Request
BY DEF TypeOK, JobInv

(* A filed row is a request, never NoRequest.                              *)
LEMMA FilingStep ==
  ASSUME TypeOK, SetInv, Api
  PROVE  \E j \in Jobs, r \in Request : r # NoRequest /\ File(j, r)
<1>1. ASSUME NEW r \in Request
      PROVE  r # NoRequest
  BY DEF Request, NoRequest, Kinds
<1>2. ASSUME NEW s \in psets
      PROVE  s.id \in Jobs /\ s.course \in Courses /\ DefaultCount(s) \in Nat
  <2>1. s.id \in Jobs /\ s.course \in Courses /\ s.clusters \in SUBSET Clusters
    BY DEF TypeOK, SetRow
  <2>2. Cardinality(s.clusters) \in Nat
    BY <2>1, ProblemSetsAssumption, FS_Subset, FS_CardinalityType
  <2>3. req[s.id] \in Request
    BY <2>1 DEF TypeOK, SetInv
  <2> QED
    BY <2>1, <2>2, <2>3 DEF DefaultCount, Request
<1>3. ASSUME NEW j \in Jobs, NEW c \in Courses, NEW n \in Counts, Generate(j, c, n)
      PROVE  \E r \in Request : File(j, r)
  <2>1. [kind |-> "generate", course |-> c, count |-> n, source |-> j] \in Request
    BY ProblemSetsAssumption DEF Request, Kinds
  <2> QED
    BY <1>3, <2>1 DEF Generate
<1>4. ASSUME NEW j \in Jobs, NEW s \in psets, Reshuffle(j, s)
      PROVE  \E r \in Request : File(j, r)
  <2>1. [kind |-> "reshuffle", course |-> s.course, count |-> 0, source |-> s.id] \in Request
    BY <1>2 DEF Request, Kinds
  <2> QED
    BY <1>4, <2>1 DEF Reshuffle
<1>5. ASSUME NEW j \in Jobs, NEW s \in psets, NEW n \in Nat, NewSet(j, s, n)
      PROVE  \E r \in Request : File(j, r)
  <2>1. [kind |-> "new_set", course |-> s.course, count |-> n, source |-> s.id] \in Request
    BY <1>2 DEF Request, Kinds
  <2> QED
    BY <1>5, <2>1 DEF NewSet
<1> QED
  BY <1>1, <1>2, <1>3, <1>4, <1>5, ProblemSetsAssumption DEF Api

(* Every variable keeps its type.                                          *)
LEMMA TypeStep == IInv /\ [Next]_vars => TypeOK'
<1> SUFFICES ASSUME TypeOK, JobInv, SetInv, [Next]_vars PROVE TypeOK'
  BY DEF IInv
<1> USE DEF TypeOK, PCs, TaskPoints
<1>5. CASE Api
  BY <1>5, FilingStep DEF File, SetStatus, Goto, locals
<1>6. ASSUME NEW j \in Jobs, TaskStep(j)
      PROVE  TypeOK'
  <2>1. CASE StartTask(j)
    BY <2>1 DEF StartTask, SetStatus, Goto, request, locals
  <2>2. CASE Select(j)
    BY <2>2 DEF Select, FailJob, SetStatus, Goto, request, tables
  <2>3. CASE LoadOriginal(j)
    BY <2>3 DEF LoadOriginal, SetRow, Goto, request, tables
  <2>4. CASE \E c \in Clusters : GenerateItem(j, c)
    BY <2>4 DEF GenerateItem, request, tables
  <2>5. CASE AllItemsDone(j)
    BY <2>5 DEF AllItemsDone, FailJob, SetStatus, Goto, request, tables, locals
  <2>6. CASE NextRunNumber(j)
    <3>1. RunNumbers(req[j].course) \subseteq Nat
      BY DEF RunNumbers, SetRow
    <3> QED
      BY <2>6, <3>1 DEF NextRunNumber, Goto, request, tables
  <2>7. CASE PersistSet(j)
    <3>1. CASE run[j] \in RunNumbers(req[j].course)
      BY <2>7, <3>1 DEF PersistSet, IndexViolation, Goto, request, tables, locals
    <3>2. CASE run[j] \notin RunNumbers(req[j].course)
      <4>1. req[j].course \in Courses
        BY <2>7, FiledRequest DEF PersistSet, Request
      <4>2. NewSetRow(j) \in SetRow
        BY <4>1 DEF NewSetRow, SetRow
      <4> QED
        BY <2>7, <3>2, <4>2 DEF PersistSet, Goto, request, locals
    <3> QED
      BY <3>1, <3>2
  <2>8. CASE WriteLedger(j)
    <3>1. req[j].course \in Courses
      BY <2>8, FiledRequest DEF WriteLedger, Request
    <3>2. LedgerRows(j) \subseteq LedgerRow
      BY <3>1 DEF LedgerRows, LedgerRow
    <3> QED
      BY <2>8, <3>2 DEF WriteLedger, IndexViolation, Goto, request, tables, locals
  <2>9. CASE Finish(j)
    BY <2>9 DEF Finish, SetStatus, Goto, request, locals
  <2> QED
    BY <1>6, <2>1, <2>2, <2>3, <2>4, <2>5, <2>6, <2>7, <2>8, <2>9 DEF TaskStep
<1>7. ASSUME NEW j \in Jobs,
             Publish(j) \/ PublishFails(j) \/ TaskRaises(j) \/ Crash(j)
      PROVE  TypeOK'
  BY <1>7 DEF Publish, PublishFails, TaskRaises, Crash, FailJob, SetStatus, Goto,
              request, tables, locals
<1>8. CASE UNCHANGED vars
  BY <1>8 DEF vars
<1> QED
  BY <1>5, <1>6, <1>7, <1>8 DEF Next

(* Columns and control point of every job keep agreeing.                   *)
LEMMA JobStep == IInv /\ [Next]_vars => JobInv'
<1> SUFFICES ASSUME TypeOK, JobInv, SetInv, [Next]_vars PROVE JobInv'
  BY DEF IInv
<1> USE DEF JobInv, TaskPoints, Issues
<1>1. CASE Api
  BY <1>1, FilingStep DEF File, SetStatus, Goto, locals, TypeOK
<1>2. ASSUME NEW j \in Jobs, TaskStep(j)
      PROVE  JobInv'
  <2>1. CASE StartTask(j)
    BY <2>1 DEF StartTask, SetStatus, Goto, request, locals, TypeOK
  <2>2. CASE Select(j)
    BY <2>2 DEF Select, FailJob, SetStatus, Goto, request, tables, TypeOK
  <2>3. CASE LoadOriginal(j)
    BY <2>3 DEF LoadOriginal, Goto, request, tables, TypeOK
  <2>4. CASE \E c \in Clusters : GenerateItem(j, c)
    BY <2>4 DEF GenerateItem, request, tables, TypeOK
  <2>5. CASE AllItemsDone(j)
    BY <2>5 DEF AllItemsDone, FailJob, SetStatus, Goto, request, tables, locals, TypeOK
  <2>6. CASE NextRunNumber(j)
    BY <2>6 DEF NextRunNumber, Goto, request, tables, TypeOK
  <2>7. CASE PersistSet(j)
    BY <2>7 DEF PersistSet, IndexViolation, Goto, request, tables, locals, TypeOK
  <2>8. CASE WriteLedger(j)
    BY <2>8 DEF WriteLedger, IndexViolation, Goto, request, tables, locals, TypeOK
  <2>9. CASE Finish(j)
    BY <2>9 DEF Finish, SetStatus, Goto, request, locals, TypeOK
  <2> QED
    BY <1>2, <2>1, <2>2, <2>3, <2>4, <2>5, <2>6, <2>7, <2>8, <2>9 DEF TaskStep
<1>3. ASSUME NEW j \in Jobs,
             Publish(j) \/ PublishFails(j) \/ TaskRaises(j) \/ Crash(j)
      PROVE  JobInv'
  BY <1>3 DEF Publish, PublishFails, TaskRaises, Crash, Running, FailJob, SetStatus, Goto,
              request, tables, locals, TypeOK
<1>4. CASE UNCHANGED vars
  BY <1>4 DEF vars
<1> QED
  BY <1>1, <1>2, <1>3, <1>4 DEF Next

(* No step but PersistSet changes what SetInv says of the stored sets.     *)
LEMMA SetStep == IInv /\ [Next]_vars => SetInv'
<1> SUFFICES ASSUME TypeOK, JobInv, SetInv, [Next]_vars PROVE SetInv'
  BY DEF IInv
<1> USE DEF SetInv, HasSet
<1>0. \A s \in psets : s.id \in Jobs
  BY DEF TypeOK, SetRow
<1>1. CASE Api
  BY <1>0, <1>1, FilingStep DEF File, SetStatus, Goto, locals, TypeOK, JobInv
<1>2. ASSUME NEW j \in Jobs, TaskStep(j)
      PROVE  SetInv'
  <2>1. CASE StartTask(j)
    BY <1>0, <2>1 DEF StartTask, SetStatus, Goto, request, locals, TypeOK
  <2>2. CASE Select(j)
    BY <1>0, <2>2 DEF Select, FailJob, SetStatus, Goto, request, tables, TypeOK
  <2>3. CASE LoadOriginal(j)
    BY <1>0, <2>3 DEF LoadOriginal, Goto, request, tables, TypeOK
  <2>4. CASE \E c \in Clusters : GenerateItem(j, c)
    BY <1>0, <2>4 DEF GenerateItem, request, tables, TypeOK
  <2>5. CASE AllItemsDone(j)
    BY <1>0, <2>5 DEF AllItemsDone, FailJob, SetStatus, Goto, request, tables, locals, TypeOK
  <2>6. CASE NextRunNumber(j)
    BY <1>0, <2>6 DEF NextRunNumber, Goto, request, tables, TypeOK
  <2>7. CASE PersistSet(j)
    <3>1. CASE run[j] \in RunNumbers(req[j].course)
      BY <1>0, <2>7, <3>1 DEF PersistSet, IndexViolation, Goto, request, tables, locals, TypeOK, JobInv
    <3>2. CASE run[j] \notin RunNumbers(req[j].course)
      <4>1. /\ NewSetRow(j).id = j
            /\ NewSetRow(j).course = req[j].course
            /\ NewSetRow(j).clusters = verified[j]
        BY DEF NewSetRow
      <4>2. /\ psets' = psets \cup {NewSetRow(j)}
            /\ pc' = [pc EXCEPT ![j] = IF Issues(j) THEN "ledger" ELSE "finish"]
            /\ UNCHANGED <<req, status, verified>>
        BY <2>7, <3>2 DEF PersistSet, Goto, request, locals
      <4>3. /\ req[j] # NoRequest
            /\ verified[j] # {}
            /\ status[j] = "running"
            /\ pc[j] = "persist"
        BY <2>7 DEF PersistSet, JobInv, TaskPoints
      <4>4. \A s \in psets : s.id # j
        BY <4>3
      <4> QED
        BY <1>0, <4>1, <4>2, <4>3, <4>4 DEF TypeOK
    <3> QED
      BY <3>1, <3>2
  <2>8. CASE WriteLedger(j)
    BY <1>0, <2>8 DEF WriteLedger, IndexViolation, Goto, request, tables, locals, TypeOK, JobInv
  <2>9. CASE Finish(j)
    BY <1>0, <2>9 DEF Finish, SetStatus, Goto, request, locals, TypeOK
  <2> QED
    BY <1>2, <2>1, <2>2, <2>3, <2>4, <2>5, <2>6, <2>7, <2>8, <2>9 DEF TaskStep
<1>3. ASSUME NEW j \in Jobs,
             Publish(j) \/ PublishFails(j) \/ TaskRaises(j) \/ Crash(j)
      PROVE  SetInv'
  BY <1>0, <1>3 DEF Publish, PublishFails, TaskRaises, Crash, Running, TaskPoints, JobInv,
              FailJob, SetStatus, Goto, request, tables, locals, TypeOK
<1>4. CASE UNCHANGED vars
  BY <1>4 DEF vars
<1> QED
  BY <1>1, <1>2, <1>3, <1>4 DEF Next

(* Only WriteLedger adds rows, and a job that has rows is past it.         *)
LEMMA LedgerStep == IInv /\ [Next]_vars => LedgerInv'
<1> SUFFICES ASSUME TypeOK, JobInv, SetInv, LedgerInv, [Next]_vars PROVE LedgerInv'
  BY DEF IInv
<1> USE DEF LedgerInv, HasSet, Issues, LedgerRows
<1>0. \A r \in ledger : r.pset \in Jobs
  BY DEF TypeOK, LedgerRow
<1>1. CASE Api
  BY <1>0, <1>1, FilingStep DEF File, SetStatus, Goto, locals, TypeOK, JobInv
<1>2. ASSUME NEW j \in Jobs, TaskStep(j)
      PROVE  LedgerInv'
  <2>1. CASE StartTask(j)
    BY <1>0, <2>1 DEF StartTask, SetStatus, Goto, request, locals, TypeOK
  <2>2. CASE Select(j)
    BY <1>0, <2>2 DEF Select, FailJob, SetStatus, Goto, request, tables, TypeOK
  <2>3. CASE LoadOriginal(j)
    BY <1>0, <2>3 DEF LoadOriginal, Goto, request, tables, TypeOK
  <2>4. CASE \E c \in Clusters : GenerateItem(j, c)
    BY <1>0, <2>4 DEF GenerateItem, request, tables, TypeOK, JobInv, TaskPoints
  <2>5. CASE AllItemsDone(j)
    BY <1>0, <2>5 DEF AllItemsDone, FailJob, SetStatus, Goto, request, tables, locals, TypeOK
  <2>6. CASE NextRunNumber(j)
    BY <1>0, <2>6 DEF NextRunNumber, Goto, request, tables, TypeOK
  <2>7. CASE PersistSet(j)
    <3>1. /\ psets \subseteq psets'
          /\ UNCHANGED <<req, status, ledger, verified>>
          /\ \E p \in {"aborted", "ledger", "finish"} : pc' = [pc EXCEPT ![j] = p]
          /\ Issues(j) => pc'[j] # "finish"
          /\ pc[j] = "persist"
      BY <2>7 DEF PersistSet, IndexViolation, Goto, request, tables, locals, TypeOK
    <3> QED
      BY <1>0, <3>1 DEF TypeOK
  <2>8. CASE WriteLedger(j)
    <3>1. CASE verified[j] \cap AlreadyIssued(req[j].course) # {}
      BY <1>0, <2>8, <3>1 DEF WriteLedger, IndexViolation, Goto, request, tables, locals, TypeOK
    <3>2. CASE verified[j] \cap AlreadyIssued(req[j].course) = {}
      <4>1. /\ pc[j] = "ledger"
            /\ ledger' = ledger \cup LedgerRows(j)
            /\ pc' = [pc EXCEPT ![j] = "finish"]
            /\ UNCHANGED <<req, status, psets, verified>>
        BY <2>8, <3>2 DEF WriteLedger, Goto, request, locals
      <4>2. \A r \in ledger : r.pset # j
        BY <4>1
      <4>3. /\ HasSet(j)
            /\ Issues(j)
        <5>1. HasSet(j)
          BY <4>1 DEF SetInv
        <5>2. Issues(j)
          BY <4>1 DEF JobInv
        <5> QED
          BY <5>1, <5>2
      <4>4. \A q \in ledger, r \in LedgerRows(j) : q.course = r.course => q.cluster # r.cluster
        BY <3>2 DEF AlreadyIssued
      <4>5. \A q, r \in LedgerRows(j) : q.cluster = r.cluster => q = r
        OBVIOUS
      <4>6. \A r \in LedgerRows(j) :
              r.pset = j /\ r.course = req[j].course /\ r.cluster \in verified[j]
        OBVIOUS
      <4> QED
        BY <1>0, <4>1, <4>2, <4>3, <4>4, <4>5, <4>6 DEF TypeOK
    <3> QED
      BY <3>1, <3>2
  <2>9. CASE Finish(j)
    BY <1>0, <2>9 DEF Finish, SetStatus, Goto, request, locals, TypeOK
  <2> QED
    BY <1>2, <2>1, <2>2, <2>3, <2>4, <2>5, <2>6, <2>7, <2>8, <2>9 DEF TaskStep
<1>3. ASSUME NEW j \in Jobs,
             Publish(j) \/ PublishFails(j) \/ TaskRaises(j) \/ Crash(j)
      PROVE  LedgerInv'
  BY <1>0, <1>3 DEF Publish, PublishFails, TaskRaises, Crash, Running, TaskPoints,
              FailJob, SetStatus, Goto, request, tables, locals, TypeOK
<1>4. CASE UNCHANGED vars
  BY <1>4 DEF vars, AlreadyIssued
<1> QED
  BY <1>1, <1>2, <1>3, <1>4 DEF Next

(* The number PersistSet uses closes the sequence it was read from.        *)
LEMMA RunStep == IInv /\ [Next]_vars => RunInv'
<1> SUFFICES ASSUME TypeOK, JobInv, SetInv, RunInv, [Next]_vars PROVE RunInv'
  BY DEF IInv
<1> USE DEF RunInv, RunNumbersGapless, RunNumbers
<1>0. \A s \in psets : s.course \in Courses /\ s.run \in Nat
  BY DEF TypeOK, SetRow
<1>1. CASE Api
  <2>1. PICK j \in Jobs : \E r \in Request : File(j, r)
    BY <1>1, FilingStep
  <2>2. /\ UNCHANGED <<psets, run>>
        /\ pc'[j] # "persist"
        /\ \A k \in Jobs \ {j} : pc'[k] = pc[k] /\ req'[k] = req[k]
    BY <2>1 DEF File, Goto, locals, TypeOK
  <2> QED
    BY <2>2
<1>2. ASSUME NEW j \in Jobs, TaskStep(j)
      PROVE  RunInv'
  <2>1. CASE StartTask(j)
    BY <2>1 DEF StartTask, SetStatus, Goto, request, locals, TypeOK
  <2>2. CASE Select(j)
    BY <2>2 DEF Select, FailJob, SetStatus, Goto, request, tables, TypeOK
  <2>3. CASE LoadOriginal(j)
    BY <2>3 DEF LoadOriginal, Goto, request, tables, TypeOK
  <2>4. CASE \E c \in Clusters : GenerateItem(j, c)
    BY <2>4 DEF GenerateItem, request, tables, TypeOK
  <2>5. CASE AllItemsDone(j)
    BY <2>5 DEF AllItemsDone, FailJob, SetStatus, Goto, request, tables, locals, TypeOK
  <2>6. CASE NextRunNumber(j)
    <3>1. \/ run' = [run EXCEPT ![j] = 1]
          \/ \E s \in psets : s.course = req[j].course /\ run' = [run EXCEPT ![j] = s.run + 1]
      BY <2>6 DEF NextRunNumber
    <3>2. run'[j] >= 1 /\ \A n \in 1..(run'[j] - 1) : n \in RunNumbers(req[j].course)
      BY <1>0, <3>1 DEF TypeOK
    <3>3. /\ UNCHANGED <<req, psets>>
          /\ \A k \in Jobs \ {j} : pc'[k] = pc[k] /\ run'[k] = run[k]
      BY <2>6, <3>1 DEF NextRunNumber, Goto, request, tables, TypeOK
    <3> QED
      BY <3>2, <3>3
  <2>7. CASE PersistSet(j)
    <3>1. CASE run[j] \in RunNumbers(req[j].course)
      BY <2>7, <3>1 DEF PersistSet, IndexViolation, Goto, request, tables, locals, TypeOK
    <3>2. CASE run[j] \notin RunNumbers(req[j].course)
      <4>1. /\ psets' = psets \cup {NewSetRow(j)}
            /\ UNCHANGED <<req, run>>
            /\ \A k \in Jobs : pc'[k] = "persist" => pc[k] = "persist"
            /\ pc[j] = "persist"
        BY <2>7, <3>2 DEF PersistSet, Goto, request, locals, TypeOK
      <4>2. NewSetRow(j).course = req[j].course /\ NewSetRow(j).run = run[j]
        BY DEF NewSetRow
      <4>3. \A c : RunNumbers(c) \subseteq RunNumbers(c)'
        BY <4>1
      <4>4. \A s, t \in psets' : s.course = t.course /\ s.run = t.run => s = t
        BY <3>2, <4>1, <4>2
      <4>5. \A s \in psets' : s.run >= 1 /\ \A n \in 1..s.run : n \in RunNumbers(s.course)'
        <5>1. ASSUME NEW s \in psets
              PROVE  s.run >= 1 /\ \A n \in 1..s.run : n \in RunNumbers(s.course)'
          BY <4>3
        <5>2. run[j] \in Nat /\ run[j] >= 1
          BY <4>1 DEF TypeOK
        <5>3. run[j] \in RunNumbers(req[j].course)'
          BY <4>1, <4>2
        <5>4. \A n \in 1..run[j] : n = run[j] \/ n \in 1..(run[j] - 1)
          BY <5>2
        <5>5. \A n \in 1..run[j] : n \in RunNumbers(req[j].course)'
          BY <4>1, <4>3, <5>3, <5>4
        <5> QED
          BY <4>1, <4>2, <5>1, <5>2, <5>5
      <4>6. \A k \in Jobs : pc'[k] = "persist" =>
              run'[k] >= 1 /\ \A n \in 1..(run'[k] - 1) : n \in RunNumbers(req[k].course)'
        BY <4>1, <4>3
      <4> QED
        BY <4>1, <4>4, <4>5, <4>6
    <3> QED
      BY <3>1, <3>2
  <2>8. CASE WriteLedger(j)
    BY <2>8 DEF WriteLedger, IndexViolation, Goto, request, tables, locals, TypeOK
  <2>9. CASE Finish(j)
    BY <2>9 DEF Finish, SetStatus, Goto, request, locals, TypeOK
  <2> QED
    BY <1>2, <2>1, <2>2, <2>3, <2>4, <2>5, <2>6, <2>7, <2>8, <2>9 DEF TaskStep
<1>3. ASSUME NEW j \in Jobs,
             Publish(j) \/ PublishFails(j) \/ TaskRaises(j) \/ Crash(j)
      PROVE  RunInv'
  BY <1>3 DEF Publish, PublishFails, TaskRaises, Crash, Running, TaskPoints,
              FailJob, SetStatus, Goto, request, tables, locals, TypeOK
<1>4. CASE UNCHANGED vars
  BY <1>4 DEF vars
<1> QED
  BY <1>1, <1>2, <1>3, <1>4 DEF Next

(* Sets are only added, so what a job was made from stays.                 *)
LEMMA SourceKept ==
  ASSUME TypeOK, SourceInv, psets \subseteq psets',
         NEW k \in Jobs, req'[k] = req[k], pc'[k] = "unfiled" => pc[k] = "unfiled",
         todo'[k] \cup verified'[k] \subseteq todo[k] \cup verified[k]
  PROVE  /\ pc'[k] = "unfiled" => todo'[k] = {} /\ verified'[k] = {}
         /\ req'[k].kind = "reshuffle" =>
              \E t \in psets' :
                  /\ t.id = req'[k].source
                  /\ t.course = req'[k].course
                  /\ todo'[k] \cup verified'[k] \subseteq t.clusters
BY DEF SourceInv

(* No step takes a reshuffle beyond its original.                          *)
LEMMA SourceStep == IInv /\ [Next]_vars => SourceInv'
<1> SUFFICES ASSUME TypeOK, JobInv, SetInv, SourceInv, [Next]_vars PROVE SourceInv'
  BY DEF IInv
<1> DEFINE Kept(k) ==
             /\ req'[k] = req[k]
             /\ pc'[k] = "unfiled" => pc[k] = "unfiled"
             /\ todo'[k] \cup verified'[k] \subseteq todo[k] \cup verified[k]
<1>0. ASSUME psets \subseteq psets', \A k \in Jobs : Kept(k)
      PROVE  SourceInv'
  BY <1>0, SourceKept DEF SourceInv
<1>1. ASSUME NEW j \in Jobs,
             \/ \E c \in Courses, n \in Counts : Generate(j, c, n)
             \/ \E s \in psets : Reshuffle(j, s)
             \/ \E s \in psets, n \in Counts : NewSet(j, s, n)
             \/ \E s \in psets : NewSet(j, s, DefaultCount(s))
      PROVE  SourceInv'
  <2>1. PICK r : /\ File(j, r)
                 /\ r.kind = "reshuffle" =>
                      \E s \in psets : s.id = r.source /\ s.course = r.course
    <3>1. ASSUME NEW c \in Courses, NEW n \in Counts, Generate(j, c, n)
          PROVE  \E r : File(j, r) /\ r.kind = "generate"
      BY <3>1 DEF Generate
    <3>2. ASSUME NEW s \in psets, NEW n, NewSet(j, s, n)
          PROVE  \E r : File(j, r) /\ r.kind = "new_set"
      BY <3>2 DEF NewSet
    <3>3. ASSUME NEW s \in psets, Reshuffle(j, s)
          PROVE  \E r : File(j, r) /\ s.id = r.source /\ s.course = r.course
      BY <3>3 DEF Reshuffle
    <3> QED
      BY <1>1, <3>1, <3>2, <3>3
  <2>2. /\ UNCHANGED <<psets, todo, verified>>
        /\ req'[j] = r
        /\ pc'[j] # "unfiled"
        /\ todo[j] = {} /\ verified[j] = {}
        /\ \A k \in Jobs \ {j} : Kept(k)
    BY <2>1 DEF File, Goto, locals, TypeOK, SourceInv
  <2> QED
    BY <2>1, <2>2, SourceKept DEF SourceInv
<1>2. ASSUME NEW j \in Jobs, TaskStep(j)
      PROVE  SourceInv'
  <2>1. CASE Select(j)
    <3>1. /\ UNCHANGED <<req, psets>>
          /\ Issues(j)
          /\ pc'[j] # "unfiled"
          /\ \A k \in Jobs \ {j} : Kept(k)
      BY <2>1 DEF Select, FailJob, Goto, request, tables, TypeOK
    <3> QED
      BY <3>1, SourceKept DEF SourceInv, Issues
  <2>2. CASE LoadOriginal(j)
    <3>1. PICK s \in psets : s.id = req[j].source /\ todo' = [todo EXCEPT ![j] = s.clusters]
      BY <2>2 DEF LoadOriginal
    <3>2. /\ UNCHANGED <<req, psets, verified>>
          /\ ~Issues(j) /\ pc[j] = "select" /\ pc'[j] # "unfiled"
          /\ todo'[j] = s.clusters
          /\ \A k \in Jobs \ {j} : Kept(k)
      BY <2>2, <3>1 DEF LoadOriginal, Goto, request, tables, TypeOK
    <3>3. req[j].kind = "reshuffle"
      BY <3>2, FiledRequest DEF Request, Kinds, Issues
    <3>4. s.course = req[j].course /\ verified[j] \subseteq s.clusters
      BY <3>1, <3>3 DEF SourceInv, SetInv
    <3> QED
      BY <3>1, <3>2, <3>4, SourceKept DEF SourceInv
  <2>3. CASE \E c \in Clusters : GenerateItem(j, c)
    <3>1. psets' = psets /\ \A k \in Jobs : Kept(k)
      BY <2>3 DEF GenerateItem, request, tables, TypeOK
    <3> QED
      BY <1>0, <3>1
  <2>4. CASE PersistSet(j)
    <3>1. psets \subseteq psets' /\ \A k \in Jobs : Kept(k)
      BY <2>4 DEF PersistSet, IndexViolation, Goto, request, tables, locals, TypeOK
    <3> QED
      BY <1>0, <3>1
  <2>5. CASE StartTask(j) \/ AllItemsDone(j) \/ NextRunNumber(j) \/ WriteLedger(j) \/ Finish(j)
    <3>1. psets' = psets /\ \A k \in Jobs : Kept(k)
      BY <2>5 DEF StartTask, AllItemsDone, NextRunNumber, WriteLedger, Finish, IndexViolation,
                  FailJob, SetStatus, Goto, request, tables, locals, TypeOK
    <3> QED
      BY <1>0, <3>1
  <2> QED
    BY <1>2, <2>1, <2>2, <2>3, <2>4, <2>5 DEF TaskStep
<1>3. ASSUME NEW j \in Jobs,
             Publish(j) \/ PublishFails(j) \/ TaskRaises(j) \/ Crash(j)
      PROVE  SourceInv'
  <2>1. psets' = psets /\ \A k \in Jobs : Kept(k)
    BY <1>3 DEF Publish, PublishFails, TaskRaises, Crash, FailJob, SetStatus, Goto,
                request, tables, locals, TypeOK
  <2> QED
    BY <1>0, <2>1
<1>4. CASE UNCHANGED vars
  BY <1>0, <1>4 DEF vars
<1> QED
  BY <1>1, <1>2, <1>3, <1>4 DEF Next, Api

(* IInv holds throughout.                                                  *)
THEOREM Invariance == Spec => []IInv
<1>1. Init => IInv
  BY DEF Init, IInv, TypeOK, PCs, TaskPoints, JobInv, SetInv, HasSet, LedgerInv, RunInv,
         RunNumbersGapless, SourceInv, NoRequest, Issues, LedgerRows
<1>2. IInv /\ [Next]_vars => IInv'
  BY TypeStep, JobStep, SetStep, LedgerStep, RunStep, SourceStep DEF IInv
<1> QED
  BY <1>1, <1>2, PTL DEF Spec

(* Type correctness.                                                       *)
THEOREM TypeCorrect == Spec => []TypeOK
<1>1. IInv => TypeOK
  BY DEF IInv
<1> QED
  BY <1>1, Invariance, PTL

(* The sets of a course are numbered 1, 2, 3, ..., although two tasks may  *)
(* read the same number: the unique index turns the race into an abort.    *)
THEOREM RunNumbersNeverSkip == Spec => []RunNumbersGapless
<1>1. IInv => RunNumbersGapless
  BY DEF IInv, RunInv
<1> QED
  BY <1>1, Invariance, PTL

(* Sets of one course whose jobs are DONE share no concept.                *)
THEOREM DoneSetsNeverOverlap == Spec => []DoneSetsDisjoint
<1>1. IInv => DoneSetsDisjoint
  <2> SUFFICES ASSUME IInv, NEW s \in IssuingSets, NEW t \in IssuingSets,
                      s # t, s.course = t.course,
                      status[s.id] = "done", status[t.id] = "done",
                      NEW c \in s.clusters, c \in t.clusters
               PROVE  FALSE
    BY DEF DoneSetsDisjoint
  <2> USE DEF IInv, IssuingSets
  <2>1. s.id \in Jobs /\ t.id \in Jobs /\ s.id # t.id
    BY DEF TypeOK, SetRow, SetInv
  <2>2. /\ [course |-> s.course, cluster |-> c, pset |-> s.id] \in ledger
        /\ [course |-> t.course, cluster |-> c, pset |-> t.id] \in ledger
    BY <2>1 DEF LedgerInv, SetInv, LedgerRows
  <2>3. [course |-> s.course, cluster |-> c, pset |-> s.id]
          = [course |-> t.course, cluster |-> c, pset |-> t.id]
    BY <2>2 DEF LedgerInv
  <2> QED
    BY <2>1, <2>3
<1> QED
  BY <1>1, Invariance, PTL

(* Every ledger row names a stored, issuing set of its course that holds   *)
(* its concept.                                                            *)
THEOREM LedgerIsBacked == Spec => []LedgerMatchesSets
<1>1. IInv => LedgerMatchesSets
  BY DEF IInv, LedgerMatchesSets, LedgerInv, SetInv, HasSet, IssuingSets
<1> QED
  BY <1>1, Invariance, PTL

(* A set's concepts are in the ledger all or none, crash or no crash.      *)
THEOREM LedgerIsAtomic == Spec => []LedgerAllOrNothing
<1>1. IInv => LedgerAllOrNothing
  <2> SUFFICES ASSUME IInv, NEW s \in psets, NEW r \in ledger, r.pset = s.id
               PROVE  LedgerOf(s.id) = s.clusters
    BY DEF LedgerAllOrNothing, LedgerOf
  <2> USE DEF IInv, LedgerOf
  <2>1. s.clusters = verified[s.id]
    BY DEF SetInv
  <2>2. LedgerOf(s.id) \subseteq s.clusters
    BY <2>1 DEF LedgerInv
  <2>3. s.clusters \subseteq LedgerOf(s.id)
    <3> SUFFICES ASSUME NEW c \in s.clusters PROVE c \in LedgerOf(s.id)
      OBVIOUS
    <3>1. [course |-> req[r.pset].course, cluster |-> c, pset |-> r.pset] \in LedgerRows(r.pset)
      BY <2>1 DEF LedgerRows
    <3>2. [course |-> req[r.pset].course, cluster |-> c, pset |-> r.pset] \in ledger
      BY <3>1 DEF LedgerInv
    <3> QED
      BY <3>2
  <2> QED
    BY <2>2, <2>3
<1> QED
  BY <1>1, Invariance, PTL

(* A FAILED job left neither a set nor a ledger row.                       *)
THEOREM FailureIssuesNothing == Spec => []FailedIssuesNothing
<1>1. IInv => FailedIssuesNothing
  BY DEF IInv, FailedIssuesNothing, SetInv, HasSet, LedgerInv, LedgerOf
<1> QED
  BY <1>1, Invariance, PTL

(* A reshuffled set stays within the concepts and the course of the stored *)
(* set it was made from.                                                   *)
THEOREM ReshuffleStaysInside == Spec => []ReshuffleKeepsConcepts
<1>1. IInv => ReshuffleKeepsConcepts
  BY DEF IInv, TypeOK, SetRow, SetInv, SourceInv, ReshuffleKeepsConcepts
<1> QED
  BY <1>1, Invariance, PTL

(* While the issuing sets of a course belong to DONE jobs, the count that  *)
(* the faculty sees is that of the concepts no set of the course has used. *)
THEOREM RemainingIsExact == Spec => []RemainingIsUnused
<1>1. IInv => RemainingIsUnused
  <2> SUFFICES ASSUME IInv, NEW c \in Courses,
                      \A s \in IssuingSets : s.course = c => status[s.id] = "done"
               PROVE  RemainingConcepts(c) =
                        Cardinality(Clusters \ UNION {s.clusters : s \in {x \in IssuingSets : x.course = c}})
    BY DEF RemainingIsUnused
  <2> DEFINE Used == UNION {s.clusters : s \in {x \in IssuingSets : x.course = c}}
  <2>1. AlreadyIssued(c) \subseteq Used
    <3> SUFFICES ASSUME NEW r \in ledger, r.course = c PROVE r.cluster \in Used
      BY DEF AlreadyIssued
    <3>1. \E s \in IssuingSets : s.course = c /\ r.cluster \in s.clusters
      BY DEF IInv, LedgerInv, SetInv, HasSet, IssuingSets
    <3> QED
      BY <3>1
  <2>2. Used \subseteq AlreadyIssued(c)
    <3> SUFFICES ASSUME NEW s \in IssuingSets, s.course = c, NEW k \in s.clusters
                 PROVE  k \in AlreadyIssued(c)
      OBVIOUS
    <3>1. s \in psets /\ Issues(s.id) /\ s.id \in Jobs /\ status[s.id] = "done"
      BY DEF IssuingSets, IInv, TypeOK, SetRow
    <3>2. req[s.id].course = c /\ k \in verified[s.id]
      BY <3>1 DEF IInv, SetInv
    <3>3. [course |-> req[s.id].course, cluster |-> k, pset |-> s.id] \in LedgerRows(s.id)
      BY <3>2 DEF LedgerRows
    <3>4. LedgerRows(s.id) \subseteq ledger
      BY <3>1 DEF IInv, LedgerInv
    <3> QED
      BY <3>2, <3>3, <3>4 DEF AlreadyIssued
  <2>3. AlreadyIssued(c) \subseteq Clusters
    BY DEF AlreadyIssued, IInv, TypeOK, LedgerRow
  <2>4. IsFiniteSet(AlreadyIssued(c)) /\ Clusters \cap AlreadyIssued(c) = AlreadyIssued(c)
    BY <2>3, ProblemSetsAssumption, FS_Subset
  <2>5. Cardinality(Clusters \ AlreadyIssued(c)) = Cardinality(Clusters) - Cardinality(AlreadyIssued(c))
    BY <2>4, ProblemSetsAssumption, FS_Difference
  <2> QED
    BY <2>1, <2>2, <2>5 DEF RemainingConcepts
<1> QED
  BY <1>1, Invariance, PTL

-----------------------------------------------------------------------------
(* ProblemSets implements ConceptIssuance.                                 *)

(* A step that leaves the ledger and the delivered jobs alone stutters.    *)
LEMMA Stutter ==
  ASSUME UNCHANGED ledger,
         \A j \in Jobs : (Issues(j) /\ status[j] = "done")' <=> Issues(j) /\ status[j] = "done"
  PROVE  UNCHANGED Promise!vars
BY DEF Promise!vars, heldBar, deliveredBar

(* A successful WriteLedger issues the verified concepts to the course.    *)
LEMMA LedgerWriteIssues ==
  ASSUME IInv, NEW j \in Jobs, WriteLedger(j),
         verified[j] \cap AlreadyIssued(req[j].course) = {}
  PROVE  Promise!Issue(req[j].course, j, verified[j])
<1> DEFINE c == req[j].course
<1>1. /\ pc[j] = "ledger"
      /\ ledger' = ledger \cup LedgerRows(j)
      /\ UNCHANGED <<req, status>>
  BY DEF WriteLedger, request
<1>2. c \in Courses /\ verified[j] # {}
  BY <1>1, FiledRequest DEF IInv, Request, JobInv
<1>3. ASSUME NEW d \in Courses, NEW k \in Jobs
      PROVE  heldBar[d][k] = {r.cluster : r \in {x \in ledger : x.course = d /\ x.pset = k}}
  BY DEF heldBar
<1>4. \A k \in Jobs : verified[j] \cap heldBar[c][k] = {}
  BY <1>2, <1>3 DEF AlreadyIssued
<1>5. \A r \in ledger : r.pset # j
  BY <1>1 DEF IInv, LedgerInv
<1>6. heldBar[c][j] = {}
  BY <1>2, <1>3, <1>5
<1>7. heldBar' = [heldBar EXCEPT ![c] = [heldBar[c] EXCEPT ![j] = verified[j]]]
  <2>1. ASSUME NEW d \in Courses, NEW k \in Jobs, d # c \/ k # j
        PROVE  {r.cluster : r \in {x \in ledger' : x.course = d /\ x.pset = k}} = heldBar[d][k]
    BY <1>1, <1>3, <2>1 DEF LedgerRows
  <2>2. {r.cluster : r \in {x \in ledger' : x.course = c /\ x.pset = j}} = verified[j]
    <3>1. {x \in ledger' : x.course = c /\ x.pset = j} = LedgerRows(j)
      BY <1>1, <1>5 DEF LedgerRows
    <3>2. {r.cluster : r \in LedgerRows(j)} = verified[j]
      <4>1. ASSUME NEW k \in verified[j]
            PROVE  k \in {r.cluster : r \in LedgerRows(j)}
        <5>1. [course |-> req[j].course, cluster |-> k, pset |-> j] \in LedgerRows(j)
          BY DEF LedgerRows
        <5> QED
          BY <5>1
      <4>2. \A r \in LedgerRows(j) : r.cluster \in verified[j]
        BY DEF LedgerRows
      <4> QED
        BY <4>1, <4>2
    <3> QED
      BY <3>1, <3>2
  <2>3. heldBar' = [d \in Courses |-> [k \in Jobs |->
                      {r.cluster : r \in {x \in ledger' : x.course = d /\ x.pset = k}}]]
    BY DEF heldBar
  <2>4. ASSUME NEW d \in Courses
        PROVE  heldBar[d] = [k \in Jobs |-> heldBar[d][k]]
    BY DEF heldBar
  <2>5. heldBar = [d \in Courses |-> heldBar[d]]
    BY DEF heldBar
  <2>6. heldBar'[c] = [heldBar[c] EXCEPT ![j] = verified[j]]
    <3>1. heldBar'[c] = [k \in Jobs |-> IF k = j THEN verified[j] ELSE heldBar[c][k]]
      <4> DEFINE Rows(k) == {r.cluster : r \in {x \in ledger' : x.course = c /\ x.pset = k}}
      <4>1. heldBar'[c] = [k \in Jobs |-> Rows(k)]
        BY <1>2, <2>3
      <4>2. Rows(j) = verified[j]
        BY <2>2
      <4>3. ASSUME NEW k \in Jobs, k # j
            PROVE  Rows(k) = heldBar[c][k]
        BY <1>2, <2>1, <4>3
      <4> HIDE DEF Rows
      <4> QED
        BY <4>1, <4>2, <4>3
    <3>2. [heldBar[c] EXCEPT ![j] = verified[j]]
            = [k \in Jobs |-> IF k = j THEN verified[j] ELSE heldBar[c][k]]
      BY <1>2, <2>4
    <3> QED
      BY <3>1, <3>2
  <2>7. ASSUME NEW d \in Courses, d # c
        PROVE  heldBar'[d] = heldBar[d]
    BY <2>1, <2>3, <2>4, <2>7
  <2>8. heldBar' = [d \in Courses |-> heldBar'[d]]
    BY <2>3
  <2> HIDE DEF c
  <2> QED
    BY <1>2, <2>5, <2>6, <2>7, <2>8
<1>8. UNCHANGED deliveredBar
  BY <1>1 DEF deliveredBar, Issues
<1> QED
  BY <1>2, <1>4, <1>6, <1>7, <1>8 DEF Promise!Issue

(* Recording DONE for an issuing job delivers it.                          *)
LEMMA FinishDelivers ==
  ASSUME IInv, NEW j \in Jobs, Finish(j), Issues(j)
  PROVE  Promise!Deliver(j)
<1>1. /\ pc[j] = "finish"
      /\ status' = [status EXCEPT ![j] = "done"]
      /\ UNCHANGED <<req, ledger>>
  BY DEF Finish, SetStatus, request
<1>2. req[j].course \in Courses /\ verified[j] # {}
  BY <1>1, FiledRequest DEF IInv, Request, JobInv
<1>3. PICK k \in verified[j] : TRUE
  BY <1>2
<1>4. [course |-> req[j].course, cluster |-> k, pset |-> j] \in ledger
  BY <1>1 DEF IInv, LedgerInv, LedgerRows
<1>5. k \in heldBar[req[j].course][j]
  BY <1>2, <1>4 DEF heldBar
<1>6. deliveredBar' = deliveredBar \cup {j}
  BY <1>1 DEF deliveredBar, Issues, IInv, TypeOK
<1>7. UNCHANGED heldBar
  BY <1>1 DEF heldBar
<1> QED
  BY <1>2, <1>5, <1>6, <1>7 DEF Promise!Deliver

(* Every step issues, delivers or stutters.                                *)
LEMMA PromiseStep == IInv /\ [Next]_vars => [Promise!Next]_(Promise!vars)
<1> SUFFICES ASSUME IInv, [Next]_vars PROVE [Promise!Next]_(Promise!vars)
  OBVIOUS
<1> USE DEF IInv
<1>1. CASE Api
  <2>1. PICK j \in Jobs : \E r \in Request : File(j, r)
    BY <1>1, FilingStep
  <2>2. UNCHANGED ledger /\ status' = [status EXCEPT ![j] = "queued"]
        /\ pc[j] = "unfiled" /\ status[j] = "none"
        /\ \A k \in Jobs \ {j} : req'[k] = req[k]
    BY <2>1 DEF File, SetStatus, locals, TypeOK, JobInv
  <2> QED
    BY <2>2, Stutter DEF TypeOK, Issues
<1>2. ASSUME NEW j \in Jobs, TaskStep(j)
      PROVE  [Promise!Next]_(Promise!vars)
  <2>1. CASE StartTask(j)
    BY <2>1, Stutter DEF StartTask, SetStatus, request, locals, TypeOK, JobInv, Issues
  <2>2. CASE Select(j)
    BY <2>2, Stutter DEF Select, FailJob, SetStatus, request, tables, TypeOK, JobInv, TaskPoints, Issues
  <2>3. CASE LoadOriginal(j)
    BY <2>3, Stutter DEF LoadOriginal, request, tables, Issues
  <2>4. CASE \E c \in Clusters : GenerateItem(j, c)
    BY <2>4, Stutter DEF GenerateItem, request, tables, Issues
  <2>5. CASE AllItemsDone(j)
    BY <2>5, Stutter DEF AllItemsDone, FailJob, SetStatus, request, tables, TypeOK, JobInv, TaskPoints, Issues
  <2>6. CASE NextRunNumber(j)
    BY <2>6, Stutter DEF NextRunNumber, request, tables, Issues
  <2>7. CASE PersistSet(j)
    BY <2>7, Stutter DEF PersistSet, IndexViolation, request, tables, Issues
  <2>8. CASE WriteLedger(j)
    <3>1. CASE verified[j] \cap AlreadyIssued(req[j].course) # {}
      BY <2>8, <3>1, Stutter DEF WriteLedger, IndexViolation, request, tables, Issues
    <3>2. CASE verified[j] \cap AlreadyIssued(req[j].course) = {}
      <4>1. req[j].course \in Courses /\ verified[j] \in SUBSET Clusters
        BY <2>8, FiledRequest DEF WriteLedger, Request, TypeOK
      <4> QED
        BY <2>8, <3>2, <4>1, LedgerWriteIssues DEF Promise!Next
    <3> QED
      BY <3>1, <3>2
  <2>9. CASE Finish(j)
    <3>1. CASE Issues(j)
      BY <2>9, <3>1, FinishDelivers DEF Promise!Next
    <3>2. CASE ~Issues(j)
      BY <2>9, <3>2, Stutter DEF Finish, SetStatus, request, TypeOK, Issues
    <3> QED
      BY <3>1, <3>2
  <2> QED
    BY <1>2, <2>1, <2>2, <2>3, <2>4, <2>5, <2>6, <2>7, <2>8, <2>9 DEF TaskStep
<1>3. ASSUME NEW j \in Jobs,
             Publish(j) \/ PublishFails(j) \/ TaskRaises(j) \/ Crash(j)
      PROVE  UNCHANGED Promise!vars
  BY <1>3, Stutter DEF Publish, PublishFails, TaskRaises, Crash, Running, TaskPoints,
              FailJob, SetStatus, request, tables, TypeOK, JobInv, Issues
<1>4. CASE UNCHANGED vars
  BY <1>4, Stutter DEF vars, Issues
<1> QED
  BY <1>1, <1>2, <1>3, <1>4 DEF Next

(* Whatever runs at once, fails or crashes, the ledger issues to a course  *)
(* only concepts that are new to it, and a DONE job holds some.            *)
THEOREM Implementation == Spec => KeepsPromise
<1>1. Init => Promise!Init
  BY DEF Init, Promise!Init, heldBar, deliveredBar
<1>2. IInv /\ [Next]_vars => [Promise!Next]_(Promise!vars)
  BY PromiseStep
<1> QED
  BY <1>1, <1>2, Invariance, PTL DEF Spec, Promise!Spec, KeepsPromise

-----------------------------------------------------------------------------
(* One task at a time.                                                     *)

(* Counting to one.                                                        *)
LEMMA AtMostOne ==
    ASSUME NEW S, IsFiniteSet(S), Cardinality(S) <= 1, NEW x \in S, NEW y \in S
    PROVE  x = y
<1>1. Cardinality(S) \in Nat /\ Cardinality(S) # 0
  BY FS_CardinalityType, FS_EmptySet
<1>2. PICK z : S = {z}
  BY <1>1, FS_Singleton
<1> QED
  BY <1>2

(* While no two tasks were under way at once, what a task read is still so *)
(* when it commits: its run number is free, and no other job has issued to *)
(* the course what it selected.                                            *)
SerialInv ==
    /\ \A i, j \in Running : i = j
    /\ \A j \in Jobs :
         /\ pc[j] # "aborted"
         /\ pc[j] \in {"unfiled", "posting", "queued", "unsent", "select"} => verified[j] = {}
         /\ pc[j] = "persist" => run[j] \notin RunNumbers(req[j].course)
         /\ Issues(j) /\ pc[j] \in {"generate", "render", "persist", "ledger"} =>
              (todo[j] \cup verified[j]) \cap AlreadyIssued(req[j].course) = {}

LEMMA OverlapSeen ==
    ASSUME MCNext, ~overlapped'
    PROVE  ~overlapped /\ \A i, j \in Running' : i = j
<1>1. Running' \subseteq Jobs
  BY DEF Running
<1>2. IsFiniteSet(Running')
  BY <1>1, FS_Subset, ProblemSetsAssumption
<1>3. ~overlapped /\ ~(Cardinality(Running') > 1)
  BY Zenon DEF MCNext
<1>4. Cardinality(Running') <= 1
  BY <1>2, <1>3, FS_CardinalityType
<1> QED
  BY <1>2, <1>3, <1>4, AtMostOne

(* A step of one task that leaves the tables alone leaves the others what  *)
(* they read.                                                              *)
LEMMA SerialKept ==
    ASSUME SerialInv, UNCHANGED <<req, psets, ledger>>, \A i, k \in Running' : i = k,
           NEW j \in Jobs,
           \A k \in Jobs \ {j} :
               pc'[k] = pc[k] /\ todo'[k] = todo[k] /\ verified'[k] = verified[k] /\ run'[k] = run[k],
           pc'[j] # "aborted",
           pc'[j] \in {"unfiled", "posting", "queued", "unsent", "select"} => verified'[j] = {},
           pc'[j] = "persist" => run'[j] \notin RunNumbers(req[j].course),
           Issues(j) /\ pc'[j] \in {"generate", "render", "persist", "ledger"} =>
              (todo'[j] \cup verified'[j]) \cap AlreadyIssued(req[j].course) = {}
    PROVE  SerialInv'
<1>1. \A c : RunNumbers(c)' = RunNumbers(c) /\ AlreadyIssued(c)' = AlreadyIssued(c)
  BY DEF RunNumbers, AlreadyIssued
<1> QED
  BY <1>1 DEF SerialInv, Issues

LEMMA SerialStep ==
    ASSUME IInv, SerialInv, Next, \A i, j \in Running' : i = j
    PROVE  SerialInv'
<1> USE DEF IInv
<1>1. CASE Api
  <2>1. PICK j \in Jobs : \E r \in Request : File(j, r)
    BY <1>1, FilingStep
  <2>2. /\ UNCHANGED <<psets, ledger, todo, verified, run>>
        /\ pc[j] = "unfiled" /\ pc'[j] = "posting"
        /\ \A k \in Jobs \ {j} : pc'[k] = pc[k] /\ req'[k] = req[k]
    BY <2>1 DEF File, Goto, locals, TypeOK
  <2>3. \A c : RunNumbers(c)' = RunNumbers(c) /\ AlreadyIssued(c)' = AlreadyIssued(c)
    BY <2>2 DEF RunNumbers, AlreadyIssued
  <2> QED
    BY <2>2, <2>3 DEF SerialInv, Issues
<1>2. ASSUME NEW j \in Jobs, TaskStep(j)
      PROVE  SerialInv'
  <2>1. CASE StartTask(j)
    BY <2>1, SerialKept DEF StartTask, SetStatus, Goto, request, locals, TypeOK, SerialInv
  <2>2. CASE Select(j)
    <3>1. /\ UNCHANGED <<req, psets, ledger, verified, run>>
          /\ pc[j] = "select"
          /\ verified[j] = {}
      BY <2>2 DEF Select, FailJob, request, tables, SerialInv
    <3>2. \A k \in Jobs \ {j} : pc'[k] = pc[k] /\ todo'[k] = todo[k]
      BY <2>2 DEF Select, FailJob, Goto, TypeOK
    <3>3. \/ pc'[j] = "ended"
          \/ /\ pc'[j] = "generate"
             /\ todo'[j] \subseteq Clusters \ AlreadyIssued(req[j].course)
      BY <2>2 DEF Select, FailJob, Goto, TypeOK
    <3> QED
      BY <3>1, <3>2, <3>3, SerialKept
  <2>3. CASE LoadOriginal(j)
    <3>1. /\ UNCHANGED <<req, psets, ledger, verified, run>>
          /\ ~Issues(j)
          /\ pc'[j] = "generate"
          /\ \A k \in Jobs \ {j} : pc'[k] = pc[k] /\ todo'[k] = todo[k]
      BY <2>3 DEF LoadOriginal, Goto, request, tables, TypeOK
    <3> QED
      BY <3>1, SerialKept
  <2>4. CASE \E c \in Clusters : GenerateItem(j, c)
    <3>1. /\ UNCHANGED <<req, psets, ledger, pc, run>>
          /\ pc[j] = "generate"
          /\ todo'[j] \cup verified'[j] \subseteq todo[j] \cup verified[j]
          /\ \A k \in Jobs \ {j} : todo'[k] = todo[k] /\ verified'[k] = verified[k]
      BY <2>4 DEF GenerateItem, request, tables, TypeOK
    <3>2. Issues(j) => (todo'[j] \cup verified'[j]) \cap AlreadyIssued(req[j].course) = {}
      BY <3>1 DEF SerialInv
    <3> QED
      BY <3>1, <3>2, SerialKept
  <2>5. CASE AllItemsDone(j)
    BY <2>5, SerialKept
       DEF AllItemsDone, FailJob, Goto, request, tables, locals, TypeOK, SerialInv
  <2>6. CASE NextRunNumber(j)
    <3>1. /\ UNCHANGED <<req, psets, ledger, todo, verified>>
          /\ pc[j] = "render"
          /\ pc'[j] = "persist"
          /\ \A k \in Jobs \ {j} : pc'[k] = pc[k]
      BY <2>6 DEF NextRunNumber, Goto, request, tables, TypeOK
    <3>2. /\ run'[j] \notin RunNumbers(req[j].course)
          /\ \A k \in Jobs \ {j} : run'[k] = run[k]
      <4>1. RunNumbers(req[j].course) \subseteq Nat
        BY DEF RunNumbers, TypeOK, SetRow
      <4> QED
        BY <2>6, <4>1 DEF NextRunNumber, TypeOK
    <3> QED
      BY <3>1, <3>2, SerialKept DEF SerialInv
  <2>7. CASE PersistSet(j)
    <3>1. /\ pc[j] = "persist"
          /\ run[j] \notin RunNumbers(req[j].course)
      BY <2>7 DEF PersistSet, SerialInv
    <3>2. /\ pc' = [pc EXCEPT ![j] = IF Issues(j) THEN "ledger" ELSE "finish"]
          /\ UNCHANGED <<req, ledger, todo, verified, run>>
      BY <2>7, <3>1 DEF PersistSet, Goto, request, locals
    <3>3. pc'[j] = IF Issues(j) THEN "ledger" ELSE "finish"
      BY <3>2 DEF TypeOK
    <3>4. \A k \in Jobs \ {j} : pc'[k] = pc[k] /\ pc[k] \notin TaskPoints
      BY <3>1, <3>2 DEF SerialInv, Running, TaskPoints, TypeOK
    <3>5. \A c : AlreadyIssued(c)' = AlreadyIssued(c)
      BY <3>2 DEF AlreadyIssued
    <3> QED
      BY <3>1, <3>2, <3>3, <3>4, <3>5 DEF SerialInv, Issues, TaskPoints
  <2>8. CASE WriteLedger(j)
    <3>1. pc[j] = "ledger" /\ Issues(j)
      BY <2>8 DEF WriteLedger, JobInv
    <3>2. verified[j] \cap AlreadyIssued(req[j].course) = {}
      BY <3>1 DEF SerialInv
    <3>3. /\ pc' = [pc EXCEPT ![j] = "finish"]
          /\ UNCHANGED <<req, psets, todo, verified, run>>
      BY <2>8, <3>2 DEF WriteLedger, Goto, request, locals
    <3>4. \A k \in Jobs \ {j} : pc'[k] = pc[k] /\ pc[k] \notin TaskPoints
      BY <3>1, <3>3 DEF SerialInv, Running, TaskPoints, TypeOK
    <3>5. pc'[j] = "finish"
      BY <3>3 DEF TypeOK
    <3> QED
      BY <3>3, <3>4, <3>5 DEF SerialInv, Issues, TaskPoints
  <2>9. CASE Finish(j)
    BY <2>9, SerialKept DEF Finish, SetStatus, Goto, request, locals, TypeOK
  <2> QED
    BY <1>2, <2>1, <2>2, <2>3, <2>4, <2>5, <2>6, <2>7, <2>8, <2>9 DEF TaskStep
<1>3. ASSUME NEW j \in Jobs,
             Publish(j) \/ PublishFails(j) \/ TaskRaises(j) \/ Crash(j)
      PROVE  SerialInv'
  BY <1>3, SerialKept
     DEF Publish, PublishFails, TaskRaises, Crash, FailJob, SetStatus, Goto, request, tables, locals,
         TypeOK, SerialInv
<1> QED
  BY <1>1, <1>2, <1>3 DEF Next

LEMMA SerialInvariance == MCSpec => [](IInv /\ (~overlapped => SerialInv))
<1>1. MCInit => IInv /\ SerialInv
  <2>1. MCInit => IInv
    BY DEF MCInit, Init, IInv, TypeOK, PCs, TaskPoints, JobInv, SetInv, HasSet, LedgerInv, RunInv,
           RunNumbersGapless, SourceInv, NoRequest, Issues, LedgerRows
  <2>2. MCInit => SerialInv
    BY DEF MCInit, Init, SerialInv, Running, TaskPoints
  <2> QED
    BY <2>1, <2>2
<1>2. IInv /\ [MCNext]_<<vars, overlapped>> => IInv'
  BY TypeStep, JobStep, SetStep, LedgerStep, RunStep, SourceStep DEF IInv, MCNext
<1>3. IInv /\ (~overlapped => SerialInv) /\ [MCNext]_<<vars, overlapped>>
        => (~overlapped => SerialInv)'
  <2>1. CASE MCNext
    BY <2>1, OverlapSeen, SerialStep DEF MCNext
  <2>2. CASE UNCHANGED <<vars, overlapped>>
    BY <2>2 DEF vars, SerialInv, Running, RunNumbers, AlreadyIssued, Issues
  <2> QED
    BY <2>1, <2>2
<1> QED
  BY <1>1, <1>2, <1>3, PTL DEF MCSpec

(* With one worker process no unique index is ever hit: a task sees what   *)
(* every earlier one committed, also what a failed or dead one left.       *)
THEOREM SerialTasksCommit == MCSpec => []SerialNeverAborts
<1>1. (~overlapped => SerialInv) => SerialNeverAborts
  BY DEF SerialInv, SerialNeverAborts
<1> QED
  BY <1>1, SerialInvariance, PTL

(* With one worker process two issuing sets of a course share a concept    *)
(* only if the worker of one died between the set and its ledger rows.     *)
THEOREM SerialRepeatsNeedACrash == MCSpec => []SerialRepeatsOnlyAfterCrash
<1>1. IInv /\ SerialInv => SerialRepeatsOnlyAfterCrash
  <2> SUFFICES ASSUME IInv, SerialInv, NEW s \in IssuingSets, NEW t \in IssuingSets,
                      s # t, s.course = t.course, NEW k \in s.clusters \cap t.clusters,
                      pc[s.id] # "crashed", pc[t.id] # "crashed"
               PROVE  FALSE
    BY DEF SerialRepeatsOnlyAfterCrash
  <2> USE DEF IInv, IssuingSets
  <2>1. s.id \in Jobs /\ t.id \in Jobs /\ s.id # t.id
    BY DEF TypeOK, SetRow, SetInv
  <2>2. ASSUME NEW u \in IssuingSets, u.id \in Jobs, pc[u.id] \notin {"crashed", "ledger"},
               k \in u.clusters
        PROVE  [course |-> u.course, cluster |-> k, pset |-> u.id] \in ledger
    <3>1. pc[u.id] \in {"finish", "ended"} /\ status[u.id] # "failed"
      BY <2>2 DEF SetInv, SerialInv
    <3>2. pc[u.id] = "finish" \/ status[u.id] = "done"
      BY <2>2, <3>1 DEF JobInv
    <3>3. LedgerRows(u.id) \subseteq ledger
      BY <2>2, <3>2 DEF LedgerInv
    <3> QED
      BY <2>2, <3>3 DEF SetInv, LedgerRows
  <2>3. ASSUME NEW u \in IssuingSets, NEW v \in IssuingSets, u.id \in Jobs, v.id \in Jobs,
               u.id # v.id, u.course = v.course, k \in u.clusters, k \in v.clusters,
               pc[u.id] = "ledger", pc[v.id] # "crashed"
        PROVE  FALSE
    <3>1. pc[v.id] # "ledger"
      BY <2>3 DEF SerialInv, Running, TaskPoints
    <3>2. [course |-> v.course, cluster |-> k, pset |-> v.id] \in ledger
      BY <2>2, <2>3, <3>1
    <3>3. k \in AlreadyIssued(u.course)
      BY <2>3, <3>2 DEF AlreadyIssued
    <3>4. k \in verified[u.id] /\ u.course = req[u.id].course
      BY <2>3 DEF SetInv
    <3> QED
      BY <2>3, <3>3, <3>4 DEF SerialInv
  <2>4. pc[s.id] # "ledger" /\ pc[t.id] # "ledger"
    BY <2>1, <2>3
  <2>5. [course |-> s.course, cluster |-> k, pset |-> s.id]
          = [course |-> t.course, cluster |-> k, pset |-> t.id]
    BY <2>1, <2>2, <2>4 DEF LedgerInv
  <2> QED
    BY <2>1, <2>5
<1>2. overlapped => SerialRepeatsOnlyAfterCrash
  BY DEF SerialRepeatsOnlyAfterCrash
<1> QED
  BY <1>1, <1>2, SerialInvariance, PTL
==============================================================================
