------------------------------- MODULE Upload --------------------------------
(***************************************************************************)
(* A chunked upload (api/routers/books.py) and the ingest tasks it starts  *)
(* (ingest_task in worker/tasks.py), as they change one jobs row and one   *)
(* file.  Each PATCH is handled with its own database session; the handler *)
(* compares the offset with the row it read, then awaits the body and the  *)
(* file write, and only then updates the row from the value it had read.   *)
(* A client that gives up on a PATCH and sends it again has two in flight. *)
(* What a task does to the book is module Ingest.                          *)
(***************************************************************************)
EXTENDS Naturals, FiniteSets

CONSTANTS
    Patches,      \* PATCH requests; each names the ingest task it may start
    Total,        \* bytes_total
    MaxChunk,     \* bound: the longest body
    InFlight      \* how many PATCH requests are handled at once

ASSUME UploadAssumption ==
    /\ IsFiniteSet(Patches)
    /\ Total \in Nat \ {0}
    /\ MaxChunk \in Nat
    /\ InFlight \in Nat \ {0}

VARIABLES
    status,       \* jobs.status
    received,     \* jobs.bytes_received
    written,      \* positions of the file that hold the client's bytes
    pc,           \* where a PATCH stands
    offset,       \* its Upload-Offset, which is the bytes_received it read
    length,       \* bytes of its body
    task,         \* the ingest task a PATCH started
    saw           \* the status that task read

requests == <<pc, offset, length>>
tasks    == <<task, saw>>
vars     == <<status, received, written, pc, offset, length, task, saw>>

JobStatus == {"uploading", "queued", "running", "done", "failed"}
Handling == {"streaming", "writing", "saving", "publishing"}
Over == {"refused", "answered", "dropped", "lost", "unpublished"}

TypeOK ==
    /\ status \in JobStatus
    /\ received \in Nat
    /\ written \in SUBSET Nat
    /\ pc \in [Patches -> Handling \cup Over \cup {"unsent"}]
    /\ offset \in [Patches -> Nat]
    /\ length \in [Patches -> Nat]
    /\ task \in [Patches -> {"none", "queued", "starting", "running", "done", "failed", "crashed"}]
    /\ saw \in [Patches -> JobStatus]

(* initiate_upload: an empty file and an UPLOADING job.                    *)
Init ==
    /\ status = "uploading"
    /\ received = 0
    /\ written = {}
    /\ pc = [r \in Patches |-> "unsent"]
    /\ offset = [r \in Patches |-> 0]
    /\ length = [r \in Patches |-> 0]
    /\ task = [r \in Patches |-> "none"]
    /\ saw = [r \in Patches |-> "uploading"]

Goto(r, p) == pc' = [pc EXCEPT ![r] = p]

Bytes(from, n) == from .. (from + n - 1)

InHand == {r \in Patches : pc[r] \in Handling}

-----------------------------------------------------------------------------
(* upload_chunk.                                                           *)

(* The row is read; an offset o other than what it says is refused.        *)
Patch(r, o, n) ==
    /\ pc[r] = "unsent"
    /\ Cardinality(InHand) < InFlight
    /\ o + n <= Total
    /\ IF status = "uploading" /\ o = received THEN Goto(r, "streaming") ELSE Goto(r, "refused")
    /\ offset' = [offset EXCEPT ![r] = o]
    /\ length' = [length EXCEPT ![r] = n]
    /\ UNCHANGED <<status, received, written, tasks>>

(* The body is all there.                                                  *)
Stream(r) ==
    /\ pc[r] = "streaming"
    /\ Goto(r, "writing")
    /\ UNCHANGED <<status, received, written, offset, length, tasks>>

(* The connection drops before the body is all there: request.stream()     *)
(* raises and nothing is written.  Later than that it changes nothing.     *)
Disconnect(r) ==
    /\ pc[r] = "streaming"
    /\ Goto(r, "dropped")
    /\ UNCHANGED <<status, received, written, offset, length, tasks>>

(* _write_at_offset, in the thread pool.                                   *)
Write(r) ==
    /\ pc[r] = "writing"
    /\ written' = written \cup Bytes(offset[r], length[r])
    /\ Goto(r, "saving")
    /\ UNCHANGED <<status, received, offset, length, tasks>>

(* Fault: the bytes are counted from the row as it is now.                 *)
SaveAdds(r) ==
    /\ pc[r] = "saving"
    /\ received' = received + length[r]
    /\ IF received' >= Total
       THEN status' = "queued" /\ Goto(r, "publishing")
       ELSE Goto(r, "answered") /\ UNCHANGED status
    /\ UNCHANGED <<written, offset, length, tasks>>

(* Fault: the upload is over one byte too early.                           *)
SaveEarly(r) ==
    /\ pc[r] = "saving"
    /\ received' = offset[r] + length[r]
    /\ IF received' + 1 >= Total
       THEN status' = "queued" /\ Goto(r, "publishing")
       ELSE Goto(r, "answered") /\ UNCHANGED status
    /\ UNCHANGED <<written, offset, length, tasks>>

(* Fault: the last chunk leaves the upload open.                           *)
SaveKeepsOpen(r) ==
    /\ pc[r] = "saving"
    /\ received' = offset[r] + length[r]
    /\ Goto(r, IF received' >= Total THEN "publishing" ELSE "answered")
    /\ UNCHANGED <<status, written, offset, length, tasks>>

(* Update the row from the value read when the PATCH arrived; an empty     *)
(* body leaves the column as it is.                                        *)
Save(r) ==
    /\ pc[r] = "saving"
    /\ received' = IF length[r] = 0 THEN received ELSE offset[r] + length[r]
    /\ IF offset[r] + length[r] >= Total
       THEN status' = "queued" /\ Goto(r, "publishing")
       ELSE Goto(r, "answered") /\ UNCHANGED status
    /\ UNCHANGED <<written, offset, length, tasks>>

(* Fault: no second task is started, though the status went back.          *)
PublishOnce(r) ==
    /\ pc[r] = "publishing"
    /\ task' = [task EXCEPT ![r] =
                  IF \A q \in Patches : task[q] = "none" THEN "queued" ELSE @]
    /\ Goto(r, "answered")
    /\ UNCHANGED <<status, received, written, offset, length, saw>>

(* ingest_task.delay.                                                      *)
Publish(r) ==
    /\ pc[r] = "publishing"
    /\ task' = [task EXCEPT ![r] = "queued"]
    /\ Goto(r, "answered")
    /\ UNCHANGED <<status, received, written, offset, length, saw>>

(* The API process dies in the handler, when a write may have got part of  *)
(* the way, or the broker refuses the message.                             *)
Die(r) ==
    /\ r \in InHand
    /\ \E n \in 0..length[r] :
         written' = IF pc[r] = "writing" THEN written \cup Bytes(offset[r], n) ELSE written
    /\ Goto(r, IF pc[r] = "publishing" THEN "unpublished" ELSE "lost")
    /\ UNCHANGED <<status, received, offset, length, tasks>>

-----------------------------------------------------------------------------
(* ingest_task.                                                            *)

StartTask(r) ==
    /\ task[r] = "queued"
    /\ saw' = [saw EXCEPT ![r] = status]
    /\ task' = [task EXCEPT ![r] = "starting"]
    /\ UNCHANGED <<status, received, written, requests>>

(* The column is written only if it differs from what was read.            *)
MarkRunning(r) ==
    /\ task[r] = "starting"
    /\ status' = IF saw[r] = "running" THEN status ELSE "running"
    /\ task' = [task EXCEPT ![r] = "running"]
    /\ UNCHANGED <<received, written, requests, saw>>

(* run_ingest_resumable returned or raised, and that is recorded.          *)
EndTask(r, s) ==
    /\ task[r] = "running"
    /\ status' = s
    /\ task' = [task EXCEPT ![r] = s]
    /\ UNCHANGED <<received, written, requests, saw>>

(* The worker dies, or a unique index leaves its session unusable.         *)
CrashTask(r) ==
    /\ task[r] \in {"starting", "running"}
    /\ task' = [task EXCEPT ![r] = "crashed"]
    /\ UNCHANGED <<status, received, written, requests, saw>>

-----------------------------------------------------------------------------
ApiStep(r) == Stream(r) \/ Write(r) \/ Save(r) \/ Publish(r)

TaskStep(r) == StartTask(r) \/ MarkRunning(r) \/ \E s \in {"done", "failed"} : EndTask(r, s)

Next ==
    \E r \in Patches :
        \/ \E o \in 0..Total, n \in 0..MaxChunk : Patch(r, o, n)
        \/ ApiStep(r)
        \/ Disconnect(r)
        \/ Die(r)
        \/ TaskStep(r)
        \/ CrashTask(r)

Spec == Init /\ [][Next]_vars

(* Handlers and tasks that run keep running; clients owe nothing.          *)
Fairness == \A r \in Patches : WF_vars(ApiStep(r)) /\ WF_vars(TaskStep(r))

-----------------------------------------------------------------------------
(* Properties.                                                             *)

(* What HEAD answers is in the file: a client that resumes from there      *)
(* leaves no hole, however many PATCHes overlap and whatever is lost       *)
(* (books.py:5-8).                                                         *)
ReceivedIsWritten == \A b \in Bytes(0, received) : b \in written

(* An ingest task is only ever started on a whole file.                    *)
IngestReadsWholeFile ==
    \A r \in Patches : task[r] # "none" => Bytes(0, Total) \subseteq written

(* However late PATCHes and second tasks interleave, and however many      *)
(* connections drop or API processes die before the row is updated, once   *)
(* everything has come to rest the job of an upload that started a task    *)
(* says DONE or FAILED: its progress stream ends.  Excepted are a PATCH    *)
(* cut short between its commit of QUEUED and the broker, and a task that  *)
(* ended without recording anything (books.py:133-138, tasks.py:64-108).   *)
CutShort == \E r \in Patches : pc[r] = "unpublished" \/ task[r] = "crashed"
Started == \E r \in Patches : task[r] # "none"
UploadSettles == <>[](Started /\ ~CutShort => status \in {"done", "failed"})

(* One ingest task for an upload (books.py:7-8, "Nothing is re-processed  *)
(* or re-uploaded").                                                       *)
(* The code does not keep it: two PATCHes with the last chunk both pass    *)
(* the checks.                                                             *)
IngestedOnce == Cardinality({r \in Patches : task[r] # "none"}) <= 1

-----------------------------------------------------------------------------
(* The inductive invariant of the proofs.                                  *)

UploadInv ==
    /\ Bytes(0, received) \subseteq written
    /\ \A r \in Patches :
         /\ pc[r] \in {"streaming", "writing"} => Bytes(0, offset[r]) \subseteq written
         /\ pc[r] = "saving" => Bytes(0, offset[r] + length[r]) \subseteq written
         /\ pc[r] = "publishing" \/ task[r] # "none" => Bytes(0, Total) \subseteq written
==============================================================================
