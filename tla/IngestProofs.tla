---------------------------- MODULE IngestProofs -----------------------------
(***************************************************************************)
(* For any number of tasks and commands, on any files and editions: a book *)
(* that is DONE has all its pages, and no run reports another book.  Runs  *)
(* that never overlap are never refused by an index, and add no second book*)
(* of an edition to a discipline unless one of them dies.                  *)
(***************************************************************************)
EXTENDS MCIngest, FiniteSetTheorems, TLAPS

(* Type correctness.                                                       *)
THEOREM TypeCorrect == Spec => []TypeOK
<1>1. Init => TypeOK
  BY DEF Init, TypeOK, Active
<1>2. TypeOK /\ [Next]_vars => TypeOK'
  <2> SUFFICES ASSUME TypeOK, [Next]_vars PROVE TypeOK'
    OBVIOUS
  <2> USE IngestAssumption DEF TypeOK, Active, tables, call, Goto, Report, IndexViolation
  <2>1. ASSUME NEW t \in Runs, NEW k \in {"task", "command"}, NEW f \in Files,
           NEW d \in Disciplines, Start(t, k, f, d)
        PROVE  TypeOK'
    BY <2>1 DEF Start
  <2>2. ASSUME NEW t \in Runs, LookUp(t) \/ Match(t) \/ End(t) \/ Raise(t) \/ Crash(t)
        PROVE  TypeOK'
    BY <2>2 DEF LookUp, Match, Candidates, SameEdition, End, Raise, Crash
  <2>3. ASSUME NEW t \in Runs, ReadPresent(t)
        PROVE  TypeOK'
    BY <2>3 DEF ReadPresent
  <2>4. ASSUME NEW t \in Runs, InsertBook(t)
        PROVE  TypeOK'
    BY <2>4 DEF InsertBook
  <2>5. ASSUME NEW t \in Runs, PersistPage(t)
        PROVE  TypeOK'
    BY <2>5 DEF PersistPage
  <2>6. ASSUME NEW t \in Runs, FinishBook(t)
        PROVE  TypeOK'
    BY <2>6 DEF FinishBook
  <2>7. ASSUME NEW t \in Runs, CommitBook(t)
        PROVE  TypeOK'
    BY <2>7 DEF CommitBook
  <2>8. ASSUME NEW t \in Runs, CommitPages(t)
        PROVE  TypeOK'
    BY <2>8 DEF CommitPages
  <2>9. CASE UNCHANGED vars
    BY <2>9 DEF vars
  <2> QED
    BY <2>1, <2>2, <2>3, <2>4, <2>5, <2>6, <2>7, <2>8, <2>9 DEF Next, RunStep
<1> QED
  BY <1>1, <1>2, PTL DEF Spec

LEMMA IngestStep ==
    ASSUME TypeOK, IngestInv, [Next]_vars
    PROVE  IngestInv'
<1> USE IngestAssumption
    DEF IngestInv, DoneBookComplete, ReportedBookReady, TypeOK, Active, tables, call, Goto, Report, IndexViolation
<1>1. ASSUME NEW t \in Runs, NEW k \in {"task", "command"}, NEW f \in Files,
           NEW d \in Disciplines, Start(t, k, f, d)
      PROVE  IngestInv'
  BY <1>1 DEF Start
<1>2. ASSUME NEW t \in Runs, LookUp(t) \/ Match(t) \/ End(t) \/ Raise(t) \/ Crash(t)
      PROVE  IngestInv'
  BY <1>2 DEF LookUp, Match, Candidates, SameEdition, End, Raise, Crash, Running
<1>3. ASSUME NEW t \in Runs, ReadPresent(t)
      PROVE  IngestInv'
  BY <1>3 DEF ReadPresent
<1>4. ASSUME NEW t \in Runs, InsertBook(t)
      PROVE  IngestInv'
  BY <1>4 DEF InsertBook
<1>5. ASSUME NEW t \in Runs, PersistPage(t)
      PROVE  IngestInv'
  BY <1>5 DEF PersistPage
<1>6. ASSUME NEW t \in Runs, FinishBook(t)
      PROVE  IngestInv'
  <2>1. /\ pages' = pages /\ file' = file /\ todo' = todo
        /\ shelf' = shelf /\ discipline' = discipline
        /\ book' = [book EXCEPT ![file[t]] = "done"]
        /\ result' = [result EXCEPT ![t] = file[t]]
        /\ pc' = [pc EXCEPT ![t] = "report"]
        /\ pc[t] = "pages" /\ todo[t] = {}
    BY <1>6 DEF FinishBook
  <2>2. pages[file[t]] = PagesOf[file[t]]
    BY <2>1
  <2>3. DoneBookComplete'
    BY <2>1, <2>2
  <2>4. ReportedBookReady'
    BY <2>1
  <2> QED
    BY <2>1, <2>3, <2>4
<1>7. ASSUME NEW t \in Runs, CommitBook(t)
      PROVE  IngestInv'
  BY <1>7 DEF CommitBook
<1>8. ASSUME NEW t \in Runs, CommitPages(t)
      PROVE  IngestInv'
  <2>1. CASE todo[t] \cap pages[file[t]] # {}
    BY <1>8, <2>1 DEF CommitPages
  <2>2. CASE todo[t] \cap pages[file[t]] = {}
    <3>1. /\ file' = file /\ todo' = todo
          /\ shelf' = shelf /\ discipline' = discipline
          /\ book' = [book EXCEPT ![file[t]] = "done"]
          /\ pages' = [pages EXCEPT ![file[t]] = @ \cup todo[t]]
          /\ result' = [result EXCEPT ![t] = file[t]]
          /\ pc' = [pc EXCEPT ![t] = "report"]
          /\ pc[t] = "pages"
      BY <1>8, <2>2 DEF CommitPages
    <3>2. pages[file[t]] \cup todo[t] = PagesOf[file[t]]
      BY <3>1
    <3>3. pages' = [pages EXCEPT ![file[t]] = PagesOf[file[t]]]
      BY <3>1, <3>2
    <3>4. DoneBookComplete'
      BY <3>1, <3>3
    <3>5. ReportedBookReady'
      BY <3>1
    <3>6. \A f \in Files : pages'[f] \subseteq PagesOf[f]
      BY <3>3
    <3>7. \A f \in Files : pages[f] \subseteq pages'[f]
      BY <3>1
    <3> QED
      BY <3>1, <3>4, <3>5, <3>6, <3>7
  <2> QED
    BY <2>1, <2>2
<1>9. CASE UNCHANGED vars
  BY <1>9 DEF vars
<1> QED
  BY <1>1, <1>2, <1>3, <1>4, <1>5, <1>6, <1>7, <1>8, <1>9 DEF Next, RunStep

LEMMA Invariance == Spec => []IngestInv
<1>1. Init => IngestInv
  BY DEF Init, IngestInv, DoneBookComplete, ReportedBookReady
<1> QED
  BY <1>1, IngestStep, TypeCorrect, PTL DEF Spec

(* A DONE book is complete, whoever resumed it.                            *)
THEOREM DoneMeansComplete == Spec => []DoneBookComplete
<1>1. IngestInv => DoneBookComplete
  BY DEF IngestInv
<1> QED
  BY <1>1, Invariance, PTL

(* A reported book is ingested and is of the edition that was uploaded.    *)
THEOREM ReportsAreReady == Spec => []ReportedBookReady
<1>1. IngestInv => ReportedBookReady
  BY DEF IngestInv
<1> QED
  BY <1>1, Invariance, PTL

-----------------------------------------------------------------------------
(* One run at a time.                                                      *)

(* Counting to one.                                                        *)
LEMMA AtMostOne ==
    ASSUME NEW S, IsFiniteSet(S), Cardinality(S) <= 1, NEW x \in S, NEW y \in S
    PROVE  x = y
<1>1. Cardinality(S) \in Nat /\ Cardinality(S) # 0
  BY FS_CardinalityType, FS_EmptySet
<1>2. PICK z : S = {z}
  BY <1>1, FS_Singleton
<1> QED
  BY <1>2

(* While no two runs were under way at once, what a run read is still so   *)
(* when it commits: the book it is about to insert is not there, and the   *)
(* pages it is about to add are not there.                                 *)
OneAtATimeInv ==
    /\ \A q, r \in Running : q = r
    /\ \A f \in Files : book[f] = "none" => pages[f] = {}
    /\ \A t \in Runs :
         /\ pc[t] # "aborted"
         /\ pc[t] \in {"match", "insert"} => book[file[t]] = "none"
         /\ pc[t] \in {"present", "pages"} => book[file[t]] # "none"
         /\ pc[t] = "pages" => todo[t] \cap pages[file[t]] = {}

(* While besides none of them died, a half-done book is in the hands of    *)
(* the run that inserted it, for its own discipline, and no run is past the*)
(* match with a DONE book of its edition on the shelf of that discipline.  *)
NoCrash == \A t \in Runs : pc[t] # "crashed"

UndisturbedInv ==
    /\ \A f \in Files : book[f] = "extracting" => \E t \in Runs : pc[t] = "pages" /\ file[t] = f
    /\ \A t \in Runs :
         /\ pc[t] # "present"
         /\ pc[t] \in {"insert", "pages"} => Candidates(t) = {}
         /\ pc[t] = "pages" => shelf[file[t]] = discipline[t]
    /\ OneBookPerEdition

LEMMA OverlapSeen ==
    ASSUME MCNext, ~overlapped'
    PROVE  ~overlapped /\ \A q, r \in Running' : q = r
<1>1. Running' \subseteq Runs
  BY DEF Running
<1>2. IsFiniteSet(Running')
  BY <1>1, FS_Subset, IngestAssumption
<1>3. ~overlapped /\ ~(Cardinality(Running') > 1)
  BY Zenon DEF MCNext
<1>4. Cardinality(Running') <= 1
  BY <1>2, <1>3, FS_CardinalityType
<1> QED
  BY <1>2, <1>3, <1>4, AtMostOne

LEMMA OneAtATimeStep ==
    ASSUME TypeOK, IngestInv, OneAtATimeInv, Next, \A q, r \in Running' : q = r
    PROVE  OneAtATimeInv'
<1> USE IngestAssumption
    DEF OneAtATimeInv, Running, TypeOK, Active, tables, call, Goto, Report, IndexViolation
<1>1. ASSUME NEW t \in Runs, NEW k \in {"task", "command"}, NEW f \in Files,
           NEW d \in Disciplines, Start(t, k, f, d)
      PROVE  OneAtATimeInv'
  BY <1>1 DEF Start
<1>2. ASSUME NEW t \in Runs, LookUp(t) \/ Match(t) \/ End(t) \/ Raise(t) \/ Crash(t)
      PROVE  OneAtATimeInv'
  BY <1>2 DEF LookUp, Match, Candidates, SameEdition, End, Raise, Crash
<1>3. ASSUME NEW t \in Runs, ReadPresent(t)
      PROVE  OneAtATimeInv'
  BY <1>3 DEF ReadPresent
<1>4. ASSUME NEW t \in Runs, InsertBook(t)
      PROVE  OneAtATimeInv'
  BY <1>4 DEF InsertBook
<1>5. ASSUME NEW t \in Runs, PersistPage(t)
      PROVE  OneAtATimeInv'
  BY <1>5 DEF PersistPage
<1>6. ASSUME NEW t \in Runs, FinishBook(t)
      PROVE  OneAtATimeInv'
  BY <1>6 DEF FinishBook
<1>7. ASSUME NEW t \in Runs, CommitBook(t)
      PROVE  OneAtATimeInv'
  <2>1. pc[t] = "insert" /\ book[file[t]] = "none" /\ file' = file /\ todo' = todo
    BY <1>7 DEF CommitBook
  <2>2. /\ book' = [book EXCEPT ![file[t]] = "done"]
        /\ pages' = [pages EXCEPT ![file[t]] = PagesOf[file[t]]]
        /\ pc' = [pc EXCEPT ![t] = "report"]
    BY <1>7, <2>1 DEF CommitBook
  <2>3. \A q \in Runs \ {t} : pc'[q] = pc[q] /\ pc[q] \notin Active
    BY <2>1, <2>2
  <2>4. pc'[t] = "report" /\ \A q, r \in Running' : q = r
    BY <2>2
  <2>5. \A f \in Files : book'[f] = "none" => pages'[f] = {}
    BY <2>2
  <2> QED
    BY <2>3, <2>4, <2>5
<1>8. ASSUME NEW t \in Runs, CommitPages(t)
      PROVE  OneAtATimeInv'
  BY <1>8 DEF CommitPages
<1> QED
  BY <1>1, <1>2, <1>3, <1>4, <1>5, <1>6, <1>7, <1>8 DEF Next, RunStep

LEMMA UndisturbedStep ==
    ASSUME TypeOK, OneAtATimeInv, UndisturbedInv, Next, \A q, r \in Running' : q = r, NoCrash'
    PROVE  UndisturbedInv'
<1> USE IngestAssumption
    DEF OneAtATimeInv, UndisturbedInv, OneBookPerEdition, Candidates, SameEdition, Running, NoCrash, TypeOK,
        Active, tables, call, Goto, Report, IndexViolation
<1>1. ASSUME NEW t \in Runs, NEW k \in {"task", "command"}, NEW f \in Files,
           NEW d \in Disciplines, Start(t, k, f, d)
      PROVE  UndisturbedInv'
  BY <1>1 DEF Start
<1>2. ASSUME NEW t \in Runs, LookUp(t)
      PROVE  UndisturbedInv'
  BY <1>2 DEF LookUp
<1>3. ASSUME NEW t \in Runs, Match(t) \/ End(t) \/ Raise(t) \/ Crash(t)
      PROVE  UndisturbedInv'
  BY <1>3 DEF Match, End, Raise, Crash
<1>4. ASSUME NEW t \in Runs, ReadPresent(t)
      PROVE  UndisturbedInv'
  BY <1>4 DEF ReadPresent
<1>5. ASSUME NEW t \in Runs, InsertBook(t)
      PROVE  UndisturbedInv'
  <2>1. pc[t] = "insert" /\ book[file[t]] = "none"
    BY <1>5 DEF InsertBook
  <2>2. /\ call' = call
        /\ book' = [book EXCEPT ![file[t]] = "extracting"]
        /\ shelf' = [shelf EXCEPT ![file[t]] = discipline[t]]
        /\ pc' = [pc EXCEPT ![t] = "pages"]
    BY <1>5, <2>1 DEF InsertBook
  <2>3. \A q \in Runs \ {t} : pc'[q] = pc[q] /\ pc[q] \notin Active
    BY <2>1, <2>2
  <2>4. \A f \in Files : book'[f] = "done" => book[f] = "done" /\ shelf'[f] = shelf[f]
    BY <2>1, <2>2
  <2>5. Candidates(t)' = {}
    BY <2>1, <2>2, <2>4
  <2>6. OneBookPerEdition'
    BY <2>4
  <2> QED
    BY <2>1, <2>2, <2>3, <2>5, <2>6
<1>6. ASSUME NEW t \in Runs, PersistPage(t)
      PROVE  UndisturbedInv'
  BY <1>6 DEF PersistPage
<1>7. ASSUME NEW t \in Runs, FinishBook(t)
      PROVE  UndisturbedInv'
  BY <1>7 DEF FinishBook
<1>8. ASSUME NEW t \in Runs, CommitBook(t)
      PROVE  UndisturbedInv'
  <2>1. pc[t] = "insert" /\ book[file[t]] = "none" /\ Candidates(t) = {}
    BY <1>8 DEF CommitBook
  <2>2. /\ call' = call
        /\ book' = [book EXCEPT ![file[t]] = "done"]
        /\ shelf' = [shelf EXCEPT ![file[t]] = discipline[t]]
        /\ pc' = [pc EXCEPT ![t] = "report"]
    BY <1>8, <2>1 DEF CommitBook
  <2>3. \A q \in Runs \ {t} : pc'[q] = pc[q] /\ pc[q] \notin Active
    BY <2>1, <2>2
  <2>4. \A f \in Files \ {file[t]} : book'[f] = book[f] /\ shelf'[f] = shelf[f]
    BY <2>2
  <2>5. OneBookPerEdition'
    BY <2>1, <2>2, <2>4
  <2> QED
    BY <2>1, <2>2, <2>3, <2>4, <2>5
<1>9. ASSUME NEW t \in Runs, CommitPages(t)
      PROVE  UndisturbedInv'
  BY <1>9 DEF CommitPages
<1> QED
  BY <1>1, <1>2, <1>3, <1>4, <1>5, <1>6, <1>7, <1>8, <1>9 DEF Next, RunStep

LEMMA CrashedForGood ==
    ASSUME TypeOK, Next, NoCrash'
    PROVE  NoCrash
BY DEF NoCrash, TypeOK, Next, RunStep, Start, LookUp, ReadPresent, Match, InsertBook, PersistPage,
       FinishBook, CommitBook, CommitPages, End, Raise, Crash, Goto, Report, IndexViolation, Running,
       Active

LEMMA MCRefines == MCSpec => Spec
<1>1. MCInit => Init
  BY DEF MCInit
<1>2. [MCNext]_<<vars, overlapped>> => [Next]_vars
  BY DEF MCNext
<1> QED
  BY <1>1, <1>2, PTL DEF MCSpec, Spec

LEMMA OneAtATimeInvariance ==
    MCSpec => [](~overlapped => OneAtATimeInv /\ (NoCrash => UndisturbedInv))
<1> DEFINE I == ~overlapped => OneAtATimeInv /\ (NoCrash => UndisturbedInv)
<1>1. MCInit => I
  BY DEF MCInit, Init, OneAtATimeInv, UndisturbedInv, OneBookPerEdition, Candidates, SameEdition, Running, Active
<1>2. TypeOK /\ IngestInv /\ I /\ [MCNext]_<<vars, overlapped>> => I'
  <2> SUFFICES ASSUME TypeOK, IngestInv, I, [MCNext]_<<vars, overlapped>> PROVE I'
    OBVIOUS
  <2>1. CASE MCNext
    <3>1. ASSUME ~overlapped' PROVE OneAtATimeInv /\ Next /\ \A q, r \in Running' : q = r
      BY <2>1, <3>1, OverlapSeen DEF MCNext
    <3>2. ASSUME ~overlapped', NoCrash' PROVE UndisturbedInv
      BY <2>1, <3>2, OverlapSeen, CrashedForGood DEF MCNext
    <3>3. ASSUME ~overlapped' PROVE OneAtATimeInv'
      BY <3>1, <3>3, OneAtATimeStep
    <3>4. ASSUME ~overlapped', NoCrash' PROVE UndisturbedInv'
      BY <3>1, <3>2, <3>4, UndisturbedStep
    <3> QED
      BY <3>3, <3>4
  <2>2. CASE UNCHANGED <<vars, overlapped>>
    BY <2>2 DEF vars, tables, call, OneAtATimeInv, UndisturbedInv, OneBookPerEdition, Candidates, SameEdition, Running, NoCrash
  <2> QED
    BY <2>1, <2>2
<1> QED
  BY <1>1, <1>2, TypeCorrect, Invariance, MCRefines, PTL DEF MCSpec

(* A run that has the tables to itself is never refused by a unique index, *)
(* whatever earlier runs left half done.                                   *)
THEOREM NeverRefusedOneAtATime == MCSpec => []OneAtATimeNeverRefused
<1>1. (~overlapped => OneAtATimeInv) => OneAtATimeNeverRefused
  BY DEF OneAtATimeInv, OneAtATimeNeverRefused
<1> QED
  BY <1>1, OneAtATimeInvariance, PTL

(* Runs that never overlap add a second book of an edition to a discipline *)
(* only after one of them died and left a half-done book, which is no      *)
(* candidate.                                                              *)
THEOREM DuplicatesNeedACrash == MCSpec => []OneAtATimeDuplicatesOnlyAfterCrash
<1>1. (~overlapped => (NoCrash => UndisturbedInv)) => OneAtATimeDuplicatesOnlyAfterCrash
  BY DEF NoCrash, UndisturbedInv, OneAtATimeDuplicatesOnlyAfterCrash
<1> QED
  BY <1>1, OneAtATimeInvariance, PTL
==============================================================================
