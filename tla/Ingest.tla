------------------------------- MODULE Ingest --------------------------------
(***************************************************************************)
(* S1 ingest and dedup (src/practice_forge/ingest/pipeline.py): the tables *)
(* books and pages, the Celery task (ingest_task, run_ingest_resumable),   *)
(* which commits page by page, and the command `pf ingest` (run_ingest),   *)
(* which commits once.  Several run at once, on the same file or on other  *)
(* scans of the same edition, and may die between any two commits.         *)
(*                                                                         *)
(* A books row is identified by its file: file_sha256 is unique.  Nothing  *)
(* ever sets canonical_book_id, so a match answers the row's own id.       *)
(***************************************************************************)
EXTENDS Naturals, FiniteSets

CONSTANTS
    Runs,         \* ingest tasks and commands
    Files,        \* PDF files, told apart by their hash
    EditionOf,    \* what metadata_matches and the MinHash threshold tell apart
    PagesOf,      \* the page numbers of a file
    Disciplines,  \* rows of disciplines
    Concurrency,  \* how many run at once
    NoBook        \* the result of a run, or the shelf of a file, without a book

ASSUME IngestAssumption ==
    /\ IsFiniteSet(Runs)
    /\ PagesOf \in [Files -> SUBSET Nat]
    /\ Concurrency \in Nat \ {0}
    /\ NoBook \notin Files

VARIABLES
    book,         \* books.ingest_status by file, "none" when there is no row
    shelf,        \* books.discipline_id by file
    pages,        \* rows of pages by file
    pc,           \* where a run stands
    kind,         \* "task" or "command"
    file,         \* the file a run ingests ...
    discipline,   \* ... and the discipline it is uploaded for
    todo,         \* pages it is still to persist
    result        \* the book it reports

tables == <<book, shelf, pages>>
call   == <<kind, file, discipline>>
vars   == <<tables, pc, call, todo, result>>

Active == {"lookup", "present", "match", "insert", "pages", "report"}

TypeOK ==
    /\ book \in [Files -> {"none", "extracting", "done"}]
    /\ shelf \in [Files -> Disciplines \cup {NoBook}]
    /\ pages \in [Files -> SUBSET Nat]
    /\ pc \in [Runs -> Active \cup {"idle", "done", "failed", "aborted", "crashed"}]
    /\ kind \in [Runs -> {"task", "command"}]
    /\ file \in [Runs -> Files]
    /\ discipline \in [Runs -> Disciplines]
    /\ todo \in [Runs -> SUBSET Nat]
    /\ result \in [Runs -> Files \cup {NoBook}]

Init ==
    /\ book = [f \in Files |-> "none"]
    /\ shelf = [f \in Files |-> NoBook]
    /\ pages = [f \in Files |-> {}]
    /\ pc = [t \in Runs |-> "idle"]
    /\ kind = [t \in Runs |-> "task"]
    /\ file \in [Runs -> Files]
    /\ discipline \in [Runs -> Disciplines]
    /\ todo = [t \in Runs |-> {}]
    /\ result = [t \in Runs |-> NoBook]

Goto(t, p) == pc' = [pc EXCEPT ![t] = p]

Running == {t \in Runs : pc[t] \in Active}

(* A unique index refuses a commit; the session is unusable, and so the    *)
(* failure is not recorded either.                                         *)
IndexViolation(t) ==
    /\ Goto(t, "aborted")
    /\ UNCHANGED <<tables, todo, result>>

Report(t, f) ==
    /\ result' = [result EXCEPT ![t] = f]
    /\ Goto(t, "report")

-----------------------------------------------------------------------------
Start(t, k, f, d) ==
    /\ pc[t] = "idle"
    /\ Cardinality(Running) < Concurrency
    /\ kind' = [kind EXCEPT ![t] = k]
    /\ file' = [file EXCEPT ![t] = f]
    /\ discipline' = [discipline EXCEPT ![t] = d]
    /\ Goto(t, "lookup")
    /\ UNCHANGED <<tables, todo, result>>

(* Fault: a half-done book is not resumed.                                 *)
LookUpDone(t) ==
    /\ pc[t] = "lookup"
    /\ IF book[file[t]] = "done"
       THEN Report(t, file[t])
       ELSE Goto(t, "match") /\ UNCHANGED result
    /\ UNCHANGED <<tables, call, todo>>

(* The row with the same hash, of whatever discipline: ingested, left half *)
(* done, or none.                                                          *)
LookUp(t) ==
    /\ pc[t] = "lookup"
    /\ \/ /\ book[file[t]] = "done"
          /\ Report(t, file[t])
       \/ /\ book[file[t]] = "extracting"
          /\ Goto(t, "present")
          /\ UNCHANGED result
       \/ /\ book[file[t]] = "none"
          /\ Goto(t, "match")
          /\ UNCHANGED result
    /\ UNCHANGED <<tables, call, todo>>

(* Resume: read which pages are there already.                             *)
ReadPresent(t) ==
    /\ pc[t] = "present"
    /\ todo' = [todo EXCEPT ![t] = PagesOf[file[t]] \ pages[file[t]]]
    /\ Goto(t, "pages")
    /\ UNCHANGED <<tables, call, result>>

SameEdition(t) ==
    {g \in Files : shelf[g] = discipline[t] /\ EditionOf[g] = EditionOf[file[t]]}

Candidates(t) == {g \in SameEdition(t) : book[g] = "done"}

(* Fault: the scan is compared with unfinished books too.                  *)
MatchAny(t) ==
    /\ pc[t] = "match"
    /\ \/ \E g \in SameEdition(t) : Report(t, g)
       \/ /\ SameEdition(t) = {}
          /\ Goto(t, "insert")
          /\ UNCHANGED result
    /\ UNCHANGED <<tables, call, todo>>

(* Fault: nothing is compared but the hash.                                *)
MatchNothing(t) ==
    /\ pc[t] = "match"
    /\ Goto(t, "insert")
    /\ UNCHANGED <<tables, call, todo, result>>

(* _find_canonical_match, over the books of the discipline that are DONE.  *)
Match(t) ==
    /\ pc[t] = "match"
    /\ \/ \E g \in Candidates(t) : Report(t, g)
       \/ /\ Candidates(t) = {}
          /\ Goto(t, "insert")
          /\ UNCHANGED result
    /\ UNCHANGED <<tables, call, todo>>

(* Fault: the row is DONE before its pages are there.                      *)
InsertBookDone(t) ==
    /\ pc[t] = "insert"
    /\ kind[t] = "task"
    /\ IF book[file[t]] # "none"
       THEN IndexViolation(t)
       ELSE /\ book' = [book EXCEPT ![file[t]] = "done"]
            /\ shelf' = [shelf EXCEPT ![file[t]] = discipline[t]]
            /\ todo' = [todo EXCEPT ![t] = PagesOf[file[t]]]
            /\ Goto(t, "pages")
            /\ UNCHANGED <<pages, result>>
    /\ UNCHANGED call

(* The task commits the row before the pages ...                           *)
InsertBook(t) ==
    /\ pc[t] = "insert"
    /\ kind[t] = "task"
    /\ IF book[file[t]] # "none"
       THEN IndexViolation(t)
       ELSE /\ book' = [book EXCEPT ![file[t]] = "extracting"]
            /\ shelf' = [shelf EXCEPT ![file[t]] = discipline[t]]
            /\ todo' = [todo EXCEPT ![t] = PagesOf[file[t]]]
            /\ Goto(t, "pages")
            /\ UNCHANGED <<pages, result>>
    /\ UNCHANGED call

(* ... then each page, in page order ...                                   *)
PersistPage(t) ==
    /\ pc[t] = "pages"
    /\ kind[t] = "task"
    /\ \E p \in todo[t] :
         /\ \A q \in todo[t] : p <= q
         /\ IF p \in pages[file[t]]
            THEN IndexViolation(t)
            ELSE /\ pages' = [pages EXCEPT ![file[t]] = @ \cup {p}]
                 /\ todo' = [todo EXCEPT ![t] = @ \ {p}]
                 /\ UNCHANGED <<book, shelf, pc, result>>
    /\ UNCHANGED call

(* ... and DONE last.                                                      *)
FinishBook(t) ==
    /\ pc[t] = "pages"
    /\ kind[t] = "task"
    /\ todo[t] = {}
    /\ book' = [book EXCEPT ![file[t]] = "done"]
    /\ Report(t, file[t])
    /\ UNCHANGED <<shelf, pages, call, todo>>

(* The command commits row and pages in one transaction ...                *)
CommitBook(t) ==
    /\ pc[t] = "insert"
    /\ kind[t] = "command"
    /\ IF book[file[t]] # "none"
       THEN IndexViolation(t)
       ELSE /\ book' = [book EXCEPT ![file[t]] = "done"]
            /\ shelf' = [shelf EXCEPT ![file[t]] = discipline[t]]
            /\ pages' = [pages EXCEPT ![file[t]] = PagesOf[file[t]]]
            /\ Report(t, file[t])
            /\ UNCHANGED todo
    /\ UNCHANGED call

(* ... or, when it resumes, the missing pages.                             *)
CommitPages(t) ==
    /\ pc[t] = "pages"
    /\ kind[t] = "command"
    /\ IF todo[t] \cap pages[file[t]] # {}
       THEN IndexViolation(t)
       ELSE /\ book' = [book EXCEPT ![file[t]] = "done"]
            /\ pages' = [pages EXCEPT ![file[t]] = @ \cup todo[t]]
            /\ Report(t, file[t])
            /\ UNCHANGED <<shelf, todo>>
    /\ UNCHANGED call

(* The job is DONE, or the command prints what it found.                   *)
End(t) ==
    /\ pc[t] = "report"
    /\ Goto(t, "done")
    /\ UNCHANGED <<tables, call, todo, result>>

(* The discipline is unknown, or the extraction or the LLM raises.  Later  *)
(* on only the database raises.                                            *)
Raise(t) ==
    /\ pc[t] \in {"lookup", "present", "match"}
    /\ Goto(t, "failed")
    /\ UNCHANGED <<tables, call, todo, result>>

(* The process dies; what it committed stays.                              *)
Crash(t) ==
    /\ t \in Running
    /\ Goto(t, "crashed")
    /\ UNCHANGED <<tables, call, todo, result>>

-----------------------------------------------------------------------------
RunStep(t) ==
    \/ LookUp(t)
    \/ ReadPresent(t)
    \/ Match(t)
    \/ InsertBook(t)
    \/ PersistPage(t)
    \/ FinishBook(t)
    \/ CommitBook(t)
    \/ CommitPages(t)
    \/ End(t)

Next ==
    \E t \in Runs :
        \/ \E k \in {"task", "command"}, f \in Files, d \in Disciplines : Start(t, k, f, d)
        \/ RunStep(t)
        \/ Raise(t)
        \/ Crash(t)

Spec == Init /\ [][Next]_vars

-----------------------------------------------------------------------------
(* Properties.                                                             *)

(* A DONE book has all its pages, though several runs resume it at once    *)
(* from what each saw there (pipeline.py:5-6).                             *)
DoneBookComplete ==
    \A f \in Files : book[f] = "done" => pages[f] = PagesOf[f]

(* A run reports a book only when it is ingested: the one of its own file, *)
(* whatever its discipline, or another scan of the edition that was        *)
(* uploaded, on the shelf of the discipline it was uploaded for.           *)
ReportedBookReady ==
    \A t \in Runs : result[t] # NoBook =>
        /\ book[result[t]] = "done"
        /\ EditionOf[result[t]] = EditionOf[file[t]]
        /\ result[t] # file[t] => shelf[result[t]] = discipline[t]

(* No second book for an edition in a discipline (pipeline.py:7-8); the    *)
(* match looks no further than the run's discipline.  The code does not    *)
(* keep it: a partial book is no candidate, so a rescan is ingested beside *)
(* it, and the partial one is resumed later without a match.               *)
OneBookPerEdition ==
    \A f, g \in Files :
        /\ book[f] = "done" /\ book[g] = "done"
        /\ shelf[f] = shelf[g]
        /\ EditionOf[f] = EditionOf[g]
        => f = g

-----------------------------------------------------------------------------
(* The inductive invariant of the proofs.                                  *)

IngestInv ==
    /\ DoneBookComplete
    /\ ReportedBookReady
    /\ \A f \in Files : pages[f] \subseteq PagesOf[f]
    /\ \A t \in Runs :
         /\ pc[t] = "pages" => PagesOf[file[t]] \subseteq pages[file[t]] \cup todo[t]
         /\ todo[t] \subseteq PagesOf[file[t]]
         /\ pc[t] = "idle" => result[t] = NoBook /\ todo[t] = {}
==============================================================================
