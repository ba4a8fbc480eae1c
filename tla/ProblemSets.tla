----------------------------- MODULE ProblemSets -----------------------------
(***************************************************************************)
(* How practice-forge issues practice problems to a course: the API        *)
(* endpoints that file a generate, reshuffle or new-set job                *)
(* (api/routers/problem_sets.py), the Celery tasks that run it             *)
(* (worker/tasks.py), and the tables the two share: jobs, problem_sets and *)
(* issued_ledger (db/models.py).                                           *)
(*                                                                         *)
(* An action is the code between two points where another process can see *)
(* or change the database: a commit, a read that a later commit relies on, *)
(* or a message to the broker.  Several workers run tasks at once; a       *)
(* worker or an API process may die between any two actions.               *)
(***************************************************************************)
EXTENDS Naturals, FiniteSets

CONSTANTS
    Jobs,         \* job ids; each names the problem set its job may create too
    Courses,
    Clusters,     \* the concept clusters of the book the jobs draw from
    Counts,       \* the set sizes a request may ask for
    Concurrency   \* how many tasks the Celery workers run at once

ASSUME ProblemSetsAssumption ==
    /\ IsFiniteSet(Jobs)
    /\ IsFiniteSet(Clusters)
    /\ Counts \subseteq Nat \ {0}
    /\ Concurrency \in Nat \ {0}

VARIABLES
    req,          \* the columns of a jobs row the API fills in
    status,       \* jobs.status
    psets,        \* rows of problem_sets
    ledger,       \* rows of issued_ledger; none is recycled, nothing sets the flag
    pc,           \* where the job's handler or task stands
    todo,         \* selected clusters whose variant is still to be generated
    verified,     \* clusters whose variant passed S9
    run           \* the run number the task read

request == <<req>>
tables  == <<status, psets, ledger>>
locals  == <<todo, verified, run>>
vars    == <<req, status, psets, ledger, pc, todo, verified, run>>

Kinds == {"generate", "new_set", "reshuffle"}

Request == [kind : Kinds, course : Courses, count : Nat, source : Jobs]
NoRequest == [kind |-> "none"]

(* Points inside a task: what it does next.                                *)
TaskPoints == {"select", "generate", "render", "persist", "ledger", "finish"}

PCs == TaskPoints \cup
       {"unfiled",    \* no such job yet
        "posting",    \* row committed, message not sent yet
        "queued",     \* message in the broker
        "unsent",     \* the message was never sent
        "ended",      \* the task returned or its handler recorded a failure
        "aborted",    \* a unique index refused a commit of the task
        "crashed"}    \* the worker process died

SetRow    == [id : Jobs, course : Courses, run : Nat, clusters : SUBSET Clusters]
LedgerRow == [course : Courses, cluster : Clusters, pset : Jobs]

TypeOK ==
    /\ req \in [Jobs -> Request \cup {NoRequest}]
    /\ status \in [Jobs -> {"none", "queued", "running", "done", "failed"}]
    /\ psets \in SUBSET SetRow
    /\ ledger \in SUBSET LedgerRow
    /\ pc \in [Jobs -> PCs]
    /\ todo \in [Jobs -> SUBSET Clusters]
    /\ verified \in [Jobs -> SUBSET Clusters]
    /\ run \in [Jobs -> Nat]

Init ==
    /\ req = [j \in Jobs |-> NoRequest]
    /\ status = [j \in Jobs |-> "none"]
    /\ psets = {}
    /\ ledger = {}
    /\ pc = [j \in Jobs |-> "unfiled"]
    /\ todo = [j \in Jobs |-> {}]
    /\ verified = [j \in Jobs |-> {}]
    /\ run = [j \in Jobs |-> 0]

-----------------------------------------------------------------------------
(* Queries over the tables.                                                *)

AlreadyIssued(c) == {r.cluster : r \in {x \in ledger : x.course = c}}

RunNumbers(c) == {s.run : s \in {x \in psets : x.course = c}}

(* Fault: the rows of every course are counted.                            *)
RemainingOfAllCourses(c) == Cardinality(Clusters) - Cardinality({r.cluster : r \in ledger})

(* "What New set would actually have left to draw from."                   *)
RemainingConcepts(c) == Cardinality(Clusters) - Cardinality(AlreadyIssued(c))

Running == {j \in Jobs : pc[j] \in TaskPoints}

(* A generate or new-set job; the worker runs both by generate_task.       *)
Issues(j) == req[j].kind \in {"generate", "new_set"}

Goto(j, p) == pc' = [pc EXCEPT ![j] = p]

SetStatus(j, s) == status' = [status EXCEPT ![j] = s]

(* _fail_job and the commit that follows it.                               *)
FailJob(j) ==
    /\ SetStatus(j, "failed")
    /\ Goto(j, "ended")
    /\ UNCHANGED <<psets, ledger>>

-----------------------------------------------------------------------------
(* The API.                                                                *)

(* Commit a QUEUED job; its message is sent by Publish.                    *)
File(j, r) ==
    /\ pc[j] = "unfiled"
    /\ req' = [req EXCEPT ![j] = r]
    /\ SetStatus(j, "queued")
    /\ Goto(j, "posting")
    /\ UNCHANGED <<psets, ledger, locals>>

(* A generate job has no original set; it names itself as its source.      *)
Generate(j, c, n) ==
    File(j, [kind |-> "generate", course |-> c, count |-> n, source |-> j])

(* params of a reshuffle hold no count, recorded here as 0.                *)
Reshuffle(j, s) ==
    File(j, [kind |-> "reshuffle", course |-> s.course, count |-> 0, source |-> s.id])

(* The size a new-set request defaults to: the count of the job that       *)
(* recorded s as its result, else the number of problems in s.             *)
DefaultCount(s) ==
    IF status[s.id] = "done" /\ req[s.id].count # 0
    THEN req[s.id].count
    ELSE Cardinality(s.clusters)

NewSet(j, s, n) ==
    File(j, [kind |-> "new_set", course |-> s.course, count |-> n, source |-> s.id])

Publish(j) ==
    /\ pc[j] = "posting"
    /\ Goto(j, "queued")
    /\ UNCHANGED <<request, tables, locals>>

(* The API process dies, or the broker refuses the message, after the row  *)
(* is committed.                                                           *)
PublishFails(j) ==
    /\ pc[j] = "posting"
    /\ Goto(j, "unsent")
    /\ UNCHANGED <<request, tables, locals>>

-----------------------------------------------------------------------------
(* The task.                                                               *)

(* The message is acknowledged when it is taken, before the task runs.     *)
StartTask(j) ==
    /\ pc[j] = "queued"
    /\ Cardinality(Running) < Concurrency
    /\ SetStatus(j, "running")
    /\ Goto(j, "select")
    /\ UNCHANGED <<request, psets, ledger, locals>>

(* Fault: the ledger is not consulted.                                     *)
SelectRepeats(j) ==
    /\ pc[j] = "select"
    /\ Issues(j)
    /\ \E chosen \in SUBSET Clusters \ {{}} :
         /\ Cardinality(chosen) <= req[j].count
         /\ todo' = [todo EXCEPT ![j] = chosen]
    /\ Goto(j, "generate")
    /\ UNCHANGED <<request, tables, verified, run>>

(* S7 for a generate or new-set job.  The pool is what is scored and in    *)
(* the requested sections among the clusters the ledger does not hold; the *)
(* constraints of the selection may leave fewer than count.                *)
Select(j) ==
    /\ pc[j] = "select"
    /\ Issues(j)
    /\ \E pool \in SUBSET (Clusters \ AlreadyIssued(req[j].course)) :
         \/ /\ Cardinality(pool) < req[j].count
            /\ FailJob(j)
            /\ UNCHANGED todo
         \/ /\ Cardinality(pool) >= req[j].count
            /\ \E chosen \in SUBSET pool :
                 /\ Cardinality(chosen) <= req[j].count
                 /\ todo' = [todo EXCEPT ![j] = chosen]
            /\ Goto(j, "generate")
            /\ UNCHANGED tables
    /\ UNCHANGED <<request, verified, run>>

(* Fault: the original is looked up by nothing but its course.             *)
LoadSomeSet(j) ==
    /\ pc[j] = "select"
    /\ ~Issues(j)
    /\ \E s \in psets :
         /\ s.course = req[j].course
         /\ todo' = [todo EXCEPT ![j] = s.clusters]
    /\ Goto(j, "generate")
    /\ UNCHANGED <<request, tables, verified, run>>

(* A reshuffle takes the clusters of the original set instead.             *)
LoadOriginal(j) ==
    /\ pc[j] = "select"
    /\ ~Issues(j)
    /\ \E s \in psets :
         /\ s.id = req[j].source
         /\ todo' = [todo EXCEPT ![j] = s.clusters]
    /\ Goto(j, "generate")
    /\ UNCHANGED <<request, tables, verified, run>>

(* S8 and S9 for one target, committed by itself.                          *)
GenerateItem(j, c) ==
    /\ pc[j] = "generate"
    /\ c \in todo[j]
    /\ todo' = [todo EXCEPT ![j] = @ \ {c}]
    /\ \/ verified' = [verified EXCEPT ![j] = @ \cup {c}]
       \/ UNCHANGED verified
    /\ UNCHANGED <<request, tables, pc, run>>

(* Fault: a task none of whose variants passed S9 waits for one.           *)
AllItemsDoneWaits(j) ==
    /\ pc[j] = "generate"
    /\ todo[j] = {}
    /\ verified[j] # {}
    /\ Goto(j, "render")
    /\ UNCHANGED <<request, tables, locals>>

AllItemsDone(j) ==
    /\ pc[j] = "generate"
    /\ todo[j] = {}
    /\ \/ /\ verified[j] = {}
          /\ FailJob(j)
       \/ /\ verified[j] # {}
          /\ Goto(j, "render")
          /\ UNCHANGED tables
    /\ UNCHANGED <<request, locals>>

(* Fault: one sequence of run numbers for all courses.                     *)
NextRunNumberOfAll(j) ==
    /\ pc[j] = "render"
    /\ run' = [run EXCEPT ![j] = Cardinality(psets) + 1]
    /\ Goto(j, "persist")
    /\ UNCHANGED <<request, tables, todo, verified>>

(* Read the highest run number of the course; rendering follows, so the    *)
(* number may be taken by another task before PersistSet uses it.          *)
NextRunNumber(j) ==
    /\ pc[j] = "render"
    /\ \/ /\ RunNumbers(req[j].course) = {}
          /\ run' = [run EXCEPT ![j] = 1]
       \/ \E m \in RunNumbers(req[j].course) :
            /\ \A r \in RunNumbers(req[j].course) : r <= m
            /\ run' = [run EXCEPT ![j] = m + 1]
    /\ Goto(j, "persist")
    /\ UNCHANGED <<request, tables, todo, verified>>

(* An index violation leaves the session needing a rollback: the commit of *)
(* the failure handler raises too, session_scope rolls back, and the row   *)
(* keeps the status it had.                                                *)
IndexViolation(j) ==
    /\ Goto(j, "aborted")
    /\ UNCHANGED tables

NewSetRow(j) ==
    [id |-> j, course |-> req[j].course, run |-> run[j], clusters |-> verified[j]]

(* Fault: a reshuffle issues concepts too.                                 *)
PersistSetIssues(j) ==
    /\ pc[j] = "persist"
    /\ IF run[j] \in RunNumbers(req[j].course)
       THEN IndexViolation(j)
       ELSE /\ psets' = psets \cup {NewSetRow(j)}
            /\ Goto(j, "ledger")
            /\ UNCHANGED <<status, ledger>>
    /\ UNCHANGED <<request, locals>>

(* Insert the problem set and commit; uq_problem_sets_course_run guards it.*)
PersistSet(j) ==
    /\ pc[j] = "persist"
    /\ IF run[j] \in RunNumbers(req[j].course)
       THEN IndexViolation(j)
       ELSE /\ psets' = psets \cup {NewSetRow(j)}
            /\ Goto(j, IF Issues(j) THEN "ledger" ELSE "finish")
            /\ UNCHANGED <<status, ledger>>
    /\ UNCHANGED <<request, locals>>

LedgerRows(j) ==
    {[course |-> req[j].course, cluster |-> c, pset |-> j] : c \in verified[j]}

(* Fault: rows that are there already are left out.                        *)
WriteLedgerOfNew(j) ==
    /\ pc[j] = "ledger"
    /\ ledger' = ledger \cup
          {r \in LedgerRows(j) : r.cluster \notin AlreadyIssued(req[j].course)}
    /\ Goto(j, "finish")
    /\ UNCHANGED <<request, status, psets, locals>>

(* Insert one row per problem and commit, all or none;                     *)
(* uq_issued_ledger_course_cluster_unless_recycled guards it.              *)
WriteLedger(j) ==
    /\ pc[j] = "ledger"
    /\ IF verified[j] \cap AlreadyIssued(req[j].course) # {}
       THEN IndexViolation(j)
       ELSE /\ ledger' = ledger \cup LedgerRows(j)
            /\ Goto(j, "finish")
            /\ UNCHANGED <<status, psets>>
    /\ UNCHANGED <<request, locals>>

(* Record DONE and the result.                                             *)
Finish(j) ==
    /\ pc[j] = "finish"
    /\ SetStatus(j, "done")
    /\ Goto(j, "ended")
    /\ UNCHANGED <<request, psets, ledger, locals>>

(* Fault: the handler covers the ledger write as well.                     *)
TaskRaisesLate(j) ==
    /\ pc[j] \in {"select", "generate", "render", "persist", "ledger"}
    /\ FailJob(j)
    /\ UNCHANGED <<request, locals>>

(* Selection, the LLM, the sandbox or the renderer raises; the session is  *)
(* usable, so the handler records the failure.                             *)
TaskRaises(j) ==
    /\ pc[j] \in {"select", "generate", "render", "persist"}
    /\ FailJob(j)
    /\ UNCHANGED <<request, locals>>

(* The worker process dies; what the task committed stays.                 *)
Crash(j) ==
    /\ j \in Running
    /\ Goto(j, "crashed")
    /\ UNCHANGED <<request, tables, locals>>

-----------------------------------------------------------------------------
Api ==
    \E j \in Jobs :
        \/ \E c \in Courses, n \in Counts : Generate(j, c, n)
        \/ \E s \in psets : Reshuffle(j, s)
        \/ \E s \in psets, n \in Counts : NewSet(j, s, n)
        \/ \E s \in psets : NewSet(j, s, DefaultCount(s))

TaskStep(j) ==
    \/ StartTask(j)
    \/ Select(j)
    \/ LoadOriginal(j)
    \/ \E c \in Clusters : GenerateItem(j, c)
    \/ AllItemsDone(j)
    \/ NextRunNumber(j)
    \/ PersistSet(j)
    \/ WriteLedger(j)
    \/ Finish(j)

Next ==
    \/ Api
    \/ \E j \in Jobs :
         Publish(j) \/ PublishFails(j) \/ TaskStep(j) \/ TaskRaises(j) \/ Crash(j)

Spec == Init /\ [][Next]_vars

(* Workers keep taking messages and running their tasks; faculty, failures *)
(* and crashes are never owed.                                             *)
Fairness == \A j \in Jobs : WF_vars(TaskStep(j))

-----------------------------------------------------------------------------
(* Properties.                                                             *)

(* Sets made by generate and new-set jobs; only these issue concepts.      *)
IssuingSets == {s \in psets : Issues(s.id)}

LedgerOf(j) == {r.cluster : r \in {x \in ledger : x.pset = j}}

(* The ledger answers for the sets it names: a row's set exists, belongs   *)
(* to the same course, holds the concept, and was not made by a reshuffle. *)
(* A reshuffle that leaked into the ledger, or a row written for a set     *)
(* that was never stored, would break it (models/problem_set.py:1-3).      *)
LedgerMatchesSets ==
    \A r \in ledger : \E s \in IssuingSets :
        s.id = r.pset /\ s.course = r.course /\ r.cluster \in s.clusters

(* A set is in the ledger with all its concepts or with none, whatever     *)
(* other tasks write and wherever the worker dies.                         *)
LedgerAllOrNothing ==
    \A s \in psets : LedgerOf(s.id) = {} \/ LedgerOf(s.id) = s.clusters

(* The no-repeat promise as the code keeps it: two sets of one course whose*)
(* jobs ended DONE share no concept, even if their tasks ran at once.      *)
DoneSetsDisjoint ==
    \A s, t \in IssuingSets :
        /\ s # t
        /\ s.course = t.course
        /\ status[s.id] = "done"
        /\ status[t.id] = "done"
        => s.clusters \cap t.clusters = {}

(* A job reported FAILED consumed nothing: it left no set and no ledger    *)
(* row, so asking again draws from the same pool (models/problem_set.py:3, *)
(* "a failed render can't poison future selection").                       *)
FailedIssuesNothing ==
    \A j \in Jobs : status[j] = "failed" =>
        /\ \A s \in psets : s.id # j
        /\ LedgerOf(j) = {}

(* The sets of a course are numbered 1, 2, 3, ... without a gap or a       *)
(* repeat, although the number is read long before it is used.             *)
RunNumbersGapless ==
    /\ \A s, t \in psets : s.course = t.course /\ s.run = t.run => s = t
    /\ \A s \in psets : s.run >= 1 /\ \A n \in 1..s.run : n \in RunNumbers(s.course)

(* A reshuffled set stays within the concepts and the course of the set it *)
(* was made from, which is still there.                                    *)
ReshuffleKeepsConcepts ==
    \A s \in psets : req[s.id].kind = "reshuffle" =>
        \E t \in psets :
            /\ t.id = req[s.id].source
            /\ t.course = s.course
            /\ s.clusters \subseteq t.clusters

(* While every issuing set of a course belongs to a DONE job, the number   *)
(* of remaining concepts shown to the faculty is the number of concepts    *)
(* that no set of the course has used.                                     *)
RemainingIsUnused ==
    \A c \in Courses :
        LET mine == {s \in IssuingSets : s.course = c} IN
        (\A s \in mine : status[s.id] = "done") =>
            RemainingConcepts(c) = Cardinality(Clusters \ UNION {s.clusters : s \in mine})

(* With any number of workers, every job whose message reached the broker  *)
(* ends DONE or FAILED, unless its worker dies or a unique index refuses   *)
(* its commit; the stream of GET /api/jobs/{id}/stream ends only then.     *)
QueuedJobSettles ==
    \A j \in Jobs :
        pc[j] = "queued" ~>
            (status[j] \in {"done", "failed"} \/ pc[j] \in {"aborted", "crashed"})

(* README.md:6-8 as written: no two issuing sets of a course share a       *)
(* concept, once the tasks that made them are over.  The code does not     *)
(* keep it: a set is stored, and downloadable, before its concepts are.    *)
NeverRepeatsConcept ==
    \A s, t \in IssuingSets :
        s # t /\ s.course = t.course /\ {s.id, t.id} \cap Running = {} =>
            s.clusters \cap t.clusters = {}

(* The ledger seen as the abstract promise.                                *)
heldBar == [c \in Courses |-> [j \in Jobs |->
                {r.cluster : r \in {x \in ledger : x.course = c /\ x.pset = j}}]]
deliveredBar == {j \in Jobs : Issues(j) /\ status[j] = "done"}

Promise == INSTANCE ConceptIssuance WITH held <- heldBar, delivered <- deliveredBar

(* Every step of the API and the workers issues concepts that are new to   *)
(* the course, delivers a job that holds some, or changes neither.         *)
KeepsPromise == Promise!Spec

-----------------------------------------------------------------------------
(* The inductive invariant of the proofs, by topic.                        *)

(* A job's columns and its control point agree.                            *)
JobInv ==
    \A j \in Jobs :
        /\ pc[j] = "unfiled" <=> req[j] = NoRequest
        /\ pc[j] = "unfiled" => status[j] = "none"
        /\ pc[j] \in {"posting", "queued", "unsent"} => status[j] = "queued"
        /\ pc[j] \in TaskPoints \cup {"aborted", "crashed"} => status[j] = "running"
        /\ pc[j] = "ended" => status[j] \in {"done", "failed"}
        /\ pc[j] \in {"render", "persist", "ledger", "finish"} => verified[j] # {}
        /\ pc[j] = "ledger" => Issues(j)

HasSet(j) == \E s \in psets : s.id = j

(* What a stored set says of its job, and which jobs have stored one.      *)
SetInv ==
    /\ \A s, t \in psets : s.id = t.id => s = t
    /\ \A s \in psets :
         /\ req[s.id] # NoRequest
         /\ s.course = req[s.id].course
         /\ s.clusters = verified[s.id]
         /\ s.clusters # {}
         /\ pc[s.id] \in {"ledger", "finish", "ended", "aborted", "crashed"}
         /\ status[s.id] # "failed"
    /\ \A j \in Jobs : pc[j] \in {"ledger", "finish"} \/ status[j] = "done" => HasSet(j)

(* A job's rows are all there or none is; they are there when a job that   *)
(* issues is done, and nobody else holds what they hold.                   *)
LedgerInv ==
    /\ \A r \in ledger :
         /\ HasSet(r.pset)
         /\ Issues(r.pset)
         /\ pc[r.pset] \in {"finish", "ended", "crashed"}
         /\ r.course = req[r.pset].course
         /\ r.cluster \in verified[r.pset]
         /\ LedgerRows(r.pset) \subseteq ledger
    /\ \A q, r \in ledger : q.course = r.course /\ q.cluster = r.cluster => q = r
    /\ \A j \in Jobs :
         Issues(j) /\ (pc[j] = "finish" \/ status[j] = "done") => LedgerRows(j) \subseteq ledger

(* A run number that was read and not yet used is at most one past the     *)
(* highest number in use, for sets are only ever added.                    *)
RunInv ==
    /\ RunNumbersGapless
    /\ \A j \in Jobs : pc[j] = "persist" =>
         run[j] >= 1 /\ \A n \in 1..(run[j] - 1) : n \in RunNumbers(req[j].course)

(* A reshuffle never takes a concept that its original does not have; a    *)
(* job that is not filed yet has taken none.                               *)
SourceInv ==
    \A j \in Jobs :
        /\ pc[j] = "unfiled" => todo[j] = {} /\ verified[j] = {}
        /\ req[j].kind = "reshuffle" =>
             \E t \in psets :
                 /\ t.id = req[j].source
                 /\ t.course = req[j].course
                 /\ todo[j] \cup verified[j] \subseteq t.clusters

IInv == TypeOK /\ JobInv /\ SetInv /\ LedgerInv /\ RunInv /\ SourceInv
==============================================================================
