---------------------------- MODULE BookPipeline ----------------------------
(***************************************************************************)
(* From the pages of a book to scored concept cards: `pf structure` (S2),  *)
(* `pf detect` (S3), `pf figures` (S4), `pf distill` (S5) and `pf score`   *)
(* (S6), each a process with a database session of its own, run by hand,   *)
(* again after it failed, in any order and at the same time, on a book     *)
(* whose pages may still be coming in.                                     *)
(*                                                                         *)
(* The text of a book is a sequence of lines; a line has what the patterns *)
(* of the stages tell apart: the heading it is, if any, and whether it     *)
(* points at a figure.  Given with the book are how well a title of the    *)
(* table of contents fits a page, and how far MAX_CANDIDATE_CHARS reach    *)
(* from a line on.  A source problem is identified by the lines its        *)
(* statement keeps and a number that tells rows with equal text apart.     *)
(* Distilling is without its clusters here; the module Distillation has    *)
(* them.                                                                   *)
(***************************************************************************)
EXTENDS Batching, FiniteSets

CONSTANTS
    Texts,        \* the books
    Malformed,    \* a row of the parsed contents that does not validate
    MaxEntries,   \* rows of the parsed contents
    MaxMissing,   \* pages not ingested yet when the first command starts
    Slots,        \* how many commands are under way at once
    MaxStarts,    \* how often each command is started
    MaxCommands,  \* how many are started in all
    BatchSize     \* candidates per confirm call (BATCH_SIZE = 20)

Commands == {"structure", "detect", "figures", "distill", "score"}

Kinds == {"contents", "chapter", "header", "item", "worked", "exercise", "prose"}

(* The lines of a book are in the order of its pages, a title fits a page  *)
(* more or less well, or not at all, and a text that starts with a later   *)
(* line does not end sooner.                                               *)
IsBook(b) ==
    /\ b.lines \in Seq([page : Nat \ {0}, kind : Kinds, figure : BOOLEAN])
    /\ b.lines # << >>
    /\ \A i, j \in DOMAIN b.lines : i < j => b.lines[i].page <= b.lines[j].page
    /\ b.reach \in [DOMAIN b.lines -> DOMAIN b.lines]
    /\ \A i \in DOMAIN b.lines : i <= b.reach[i]
    /\ \A i, j \in DOMAIN b.lines : i < j => b.reach[i] <= b.reach[j]
    /\ \A title \in DOMAIN b.fit : b.fit[title] \in [1 .. b.lines[Len(b.lines)].page -> Nat]
    /\ Malformed \notin DOMAIN b.fit

ASSUME BookPipelineAssumption ==
    /\ \A b \in Texts : IsBook(b)
    /\ IsFiniteSet(Slots)
    /\ MaxStarts \in [Commands -> Nat]
    /\ MaxCommands \in Nat
    /\ BatchSize \in Nat \ {0}
    /\ MaxEntries \in Nat
    /\ MaxMissing \in Nat
    /\ Items = {"problem", "derivation", "not"}

VARIABLES
    book,         \* the book's lines, fit and reach; never changes
    ingested,     \* how many of its pages are committed
    sections,     \* rows of sections
    problems,     \* rows of source_problems
    cards,        \* problems that have a concept card
    scores,       \* problems whose card has a score
    starts,       \* how often each command was started
    pc,           \* the command of a slot, or idle
    seen,         \* the number of pages it has read
    homes,        \* the pages in the sections it has read
    todo,         \* the candidates it is still to confirm
    rows          \* the problems it has loaded

tables == <<sections, problems, cards, scores>>
local  == <<seen, homes, todo, rows>>
vars   == <<book, ingested, tables, starts, pc, local>>

-----------------------------------------------------------------------------
(* The text.                                                               *)

(* The lines of the pages up to one.                                       *)
Read(n) == {i \in DOMAIN book.lines : book.lines[i].page <= n}

LastPage == book.lines[Len(book.lines)].page

(* find_toc_text: some page says "Contents".                               *)
HasToc(n) == \E i \in Read(n) : book.lines[i].kind = "contents"

(* Pages whose first line is a chapter heading.                            *)
ChapterPages(n) ==
    {p \in 1 .. n :
        \E i \in Read(n) : /\ book.lines[i].page = p
                           /\ book.lines[i].kind = "chapter"
                           /\ \A j \in 1 .. i - 1 : book.lines[j].page < p}

(* The pages that a title fits best, if it fits any; 0 is no fit.          *)
Fit(title, n) == {p \in 1 .. n : /\ book.fit[title][p] > 0
                                 /\ \A q \in 1 .. n : book.fit[title][q] <= book.fit[title][p]}

(* A sort by key; equal ones are in any order.                             *)
Sorted(set, key) ==
    {q \in Bijection(1 .. Cardinality(set), set) :
        \A i, j \in DOMAIN q : i < j => key[q[i]] <= key[q[j]]}

(* locate_chapter_pages: a title is on the first of the pages it fits      *)
(* best, and two titles may be on one page.                                *)
Located(entries, n) ==
    LET found == {i \in DOMAIN entries : entries[i] # Malformed /\ Fit(entries[i], n) # {}}
        place == [i \in found |-> Min(Fit(entries[i], n))]
    IN {[i \in DOMAIN q |-> place[q[i]]] : q \in Sorted(found, place)}

(* Fault: what is before the first chapter has no section.                 *)
SectionsWithoutFront(first, n) ==
    IF n = 0 THEN << >>
    ELSE IF first = << >> THEN <<[from |-> 1, to |-> n]>>
    ELSE [i \in DOMAIN first |->
             [from |-> first[i],
              to   |-> IF i < Len(first) THEN first[i + 1] - 1 ELSE n]]

(* Sections from the first pages of chapters; front matter before them, or *)
(* one section, untitled, for the whole of a book without any.             *)
SectionsFrom(first, n) ==
    IF n = 0 THEN << >>
    ELSE IF first = << >> THEN <<[from |-> 1, to |-> n]>>
    ELSE (IF first[1] > 1 THEN <<[from |-> 1, to |-> first[1] - 1]>> ELSE << >>)
         \o [i \in DOMAIN first |->
                [from |-> first[i],
                 to   |-> IF i < Len(first) THEN first[i + 1] - 1 ELSE n]]

(* The first pages of the chapters: from the contents, or from the         *)
(* headings when nothing was located.                                      *)
FirstPages(entries, n) ==
    IF << >> \notin Located(entries, n) THEN Located(entries, n)
    ELSE Sorted(ChapterPages(n), [p \in 1 .. n |-> p])

Headings(n) == {i \in Read(n) : book.lines[i].kind \in {"worked", "exercise", "header"}}

(* The line before the next mark, or the last line of the pages read.      *)
Until(i, marks, n) ==
    Min({j \in DOMAIN book.lines : j > i /\ (j \in marks \/ book.lines[j].page > n)}
        \cup {Len(book.lines) + 1}) - 1

(* Fault: numbered items end at the next item, not at the next heading.    *)
SpansRunOn(n) ==
    UNION {LET end   == Until(h, Headings(n), n)
               items == {i \in h + 1 .. end : book.lines[i].kind = "item"}
           IN IF book.lines[h].kind = "header" /\ items # {}
              THEN {[from |-> i, to |-> Until(i, items, n)] : i \in items}
              ELSE {[from |-> h, to |-> end]} : h \in Headings(n)}

(* A heading and what follows it; under the header of a problem section    *)
(* each numbered item instead, if there are any.                           *)
Spans(n) ==
    UNION {LET end   == Until(h, Headings(n), n)
               items == {i \in h + 1 .. end : book.lines[i].kind = "item"}
           IN IF book.lines[h].kind = "header" /\ items # {}
              THEN {[from |-> i, to |-> Until(i, items \cup {end + 1}, n)] : i \in items}
              ELSE {[from |-> h, to |-> end]} : h \in Headings(n)}

(* The lines of a span that its text has room for.                         *)
Kept(span) == [span EXCEPT !.to = Min({@, book.reach[span.from]})]

(* detect_candidates: each span's text is cut off at MAX_CANDIDATE_CHARS.  *)
Candidates(n) == {Kept(c) : c \in Spans(n)}

(* Candidates in the order of the text.                                    *)
Cut(spans) == Sorted(spans, [c \in spans |-> c.from])

PageOf(span) == book.lines[span.from].page

(* classify_figure_dependency is ESSENTIAL: what it looks at is the stored *)
(* statement, which has the lines that were kept.                          *)
PointsAtFigure(span) == \E i \in span.from .. span.to : book.lines[i].figure

-----------------------------------------------------------------------------
(* Commands.                                                               *)

Ids == {p.id : p \in problems}

TypeOK ==
    LET lines == DOMAIN book.lines
        Span  == [from : lines, to : lines]
        Id    == [span : Span, copy : Nat]
        Page  == 1 .. LastPage
    IN  /\ book \in Texts
        /\ ingested \in 0 .. LastPage
        /\ sections \subseteq [run : Nat, no : Nat, from : Page, to : 0 .. LastPage]
        /\ problems \subseteq [id : Id, derivation : BOOLEAN,
                               essential : BOOLEAN, solvable : BOOLEAN]
        /\ cards \subseteq Ids
        /\ scores \subseteq cards
        /\ starts \in [Commands -> Nat]
        /\ \A c \in Commands : starts[c] <= MaxStarts[c]
        /\ pc \in [Slots -> Commands \cup {"idle"}]
        /\ seen \in [Slots -> 0 .. LastPage]
        /\ homes \in [Slots -> SUBSET Page]
        /\ todo \in [Slots -> Seq(Span)]
        /\ rows \in [Slots -> SUBSET Ids]

Init ==
    /\ book \in Texts
    /\ ingested \in {n \in 0 .. LastPage : LastPage - n <= MaxMissing}
    /\ sections = {}
    /\ problems = {}
    /\ cards = {}
    /\ scores = {}
    /\ starts = [c \in Commands |-> 0]
    /\ pc = [s \in Slots |-> "idle"]
    /\ seen = [s \in Slots |-> 0]
    /\ homes = [s \in Slots |-> {}]
    /\ todo = [s \in Slots |-> << >>]
    /\ rows = [s \in Slots |-> {}]

Begin(s, c) ==
    /\ pc[s] = "idle"
    /\ starts[c] < MaxStarts[c]
    /\ SumFunction(starts) < MaxCommands
    /\ starts' = [starts EXCEPT ![c] = @ + 1]
    /\ pc' = [pc EXCEPT ![s] = c]

(* The process ends, well or not, and its session with it.                 *)
End(s) ==
    /\ pc' = [pc EXCEPT ![s] = "idle"]
    /\ seen' = [seen EXCEPT ![s] = 0]
    /\ homes' = [homes EXCEPT ![s] = {}]
    /\ todo' = [todo EXCEPT ![s] = << >>]
    /\ rows' = [rows EXCEPT ![s] = {}]
    /\ UNCHANGED <<book, ingested, starts>>

(* The ingest commits the next page.                                       *)
IngestPage ==
    /\ ingested < LastPage
    /\ ingested' = ingested + 1
    /\ UNCHANGED <<book, tables, starts, pc, local>>

StartStructure(s) ==
    /\ Begin(s, "structure")
    /\ seen' = [seen EXCEPT ![s] = ingested]
    /\ UNCHANGED <<book, ingested, tables, homes, todo, rows>>

(* Ask for the parsed contents if there are any, add the sections (again,  *)
(* if there are some from another run) and commit.                         *)
FinishStructure(s) ==
    /\ pc[s] = "structure"
    /\ \E k \in 0 .. MaxEntries : \E entries \in [1 .. k -> DOMAIN book.fit \cup {Malformed}] :
         /\ HasToc(seen[s]) \/ k = 0
         /\ \E first \in FirstPages(entries, seen[s]) :
              LET new == SectionsFrom(first, seen[s])
                  run == 1 + Cardinality({x.run : x \in sections})
              IN sections' = sections \cup
                     {[run |-> run, no |-> i, from |-> new[i].from, to |-> new[i].to]
                         : i \in DOMAIN new}
    /\ End(s)
    /\ UNCHANGED <<problems, cards, scores>>

(* Fault: a candidate on the page of a stored problem is taken for it.     *)
StartDetectByPage(s) ==
    /\ Begin(s, "detect")
    /\ seen' = [seen EXCEPT ![s] = ingested]
    /\ homes' = [homes EXCEPT ![s] =
           {p \in 1 .. LastPage : \E x \in sections : p \in x.from .. x.to}]
    /\ \E new \in Cut({c \in Candidates(ingested) :
                            \A p \in problems : PageOf(p.id.span) # PageOf(c)}) :
         todo' = [todo EXCEPT ![s] = new]
    /\ UNCHANGED <<book, ingested, tables, rows>>

(* Fault: what is stored already is not looked up.                         *)
StartDetectAgain(s) ==
    /\ Begin(s, "detect")
    /\ seen' = [seen EXCEPT ![s] = ingested]
    /\ homes' = [homes EXCEPT ![s] =
           {p \in 1 .. LastPage : \E x \in sections : p \in x.from .. x.to}]
    /\ \E new \in Cut(Candidates(ingested)) : todo' = [todo EXCEPT ![s] = new]
    /\ UNCHANGED <<book, ingested, tables, rows>>

(* Read the pages, the sections and what is stored already; a candidate is *)
(* known by its page and its text.                                         *)
StartDetect(s) ==
    /\ Begin(s, "detect")
    /\ seen' = [seen EXCEPT ![s] = ingested]
    /\ homes' = [homes EXCEPT ![s] =
           {p \in 1 .. LastPage : \E x \in sections : p \in x.from .. x.to}]
    /\ \E new \in Cut(Candidates(ingested) \ {x.span : x \in Ids}) :
         todo' = [todo EXCEPT ![s] = new]
    /\ UNCHANGED <<book, ingested, tables, rows>>

(* What can come of the answer to a call for n candidates.                 *)
Heard == [n \in 1 .. BatchSize |-> {Results(answer, n) : answer \in Answers(n)}]

Confirmed(item) == item \in {"problem", "derivation"}

(* One call for the next batch, and the commit of what it confirmed.  When *)
(* a page is in no section the batch is lost and the command fails.        *)
ConfirmBatch(s) ==
    /\ pc[s] = "detect"
    /\ todo[s] # << >>
    /\ LET n == Min({BatchSize, Len(todo[s])}) IN
       \E results \in Heard[n] :
         LET yes == {i \in 1 .. n : Confirmed(results[i - 1])} IN
         IF \E i \in yes : PageOf(todo[s][i]) \notin homes[s]
         THEN End(s) /\ UNCHANGED problems
         ELSE /\ problems' = problems \cup
                   {[id         |-> [span |-> todo[s][i],
                                     copy |-> 1 + Cardinality({x \in Ids : x.span = todo[s][i]})],
                     derivation |-> results[i - 1] = "derivation",
                     essential  |-> FALSE,
                     solvable   |-> results[i - 1] # "derivation"] : i \in yes}
              /\ todo' = [todo EXCEPT ![s] = SubSeq(@, n + 1, Len(@))]
              /\ UNCHANGED <<book, ingested, starts, pc, seen, homes, rows>>
    /\ UNCHANGED <<sections, cards, scores>>

FinishDetect(s) ==
    /\ pc[s] = "detect"
    /\ todo[s] = << >>
    /\ End(s)
    /\ UNCHANGED tables

StartFigures(s) ==
    /\ Begin(s, "figures")
    /\ rows' = [rows EXCEPT ![s] = Ids]
    /\ UNCHANGED <<book, ingested, tables, seen, homes, todo>>

(* Fault: solvable is set anew from the figures alone.                     *)
FinishFiguresAnew(s) ==
    /\ pc[s] = "figures"
    /\ problems' = {IF p.id \in rows[s]
                    THEN [p EXCEPT !.essential = PointsAtFigure(p.id.span),
                                   !.solvable = ~PointsAtFigure(p.id.span)]
                    ELSE p : p \in problems}
    /\ End(s)
    /\ UNCHANGED <<sections, cards, scores>>

(* Fault: the dependency is noted and the problem left solvable.           *)
FinishFiguresNoted(s) ==
    /\ pc[s] = "figures"
    /\ problems' = {IF p.id \in rows[s]
                    THEN [p EXCEPT !.essential = PointsAtFigure(p.id.span)]
                    ELSE p : p \in problems}
    /\ End(s)
    /\ UNCHANGED <<sections, cards, scores>>

(* Classify the problems that were loaded and commit; one that points at a *)
(* figure is not solvable any more, none becomes solvable.                 *)
FinishFigures(s) ==
    /\ pc[s] = "figures"
    /\ problems' = {IF p.id \in rows[s]
                    THEN [p EXCEPT !.essential = PointsAtFigure(p.id.span),
                                   !.solvable = @ /\ ~PointsAtFigure(p.id.span)]
                    ELSE p : p \in problems}
    /\ End(s)
    /\ UNCHANGED <<sections, cards, scores>>

StartDistill(s) ==
    /\ Begin(s, "distill")
    /\ rows' = [rows EXCEPT ![s] = {p.id : p \in {q \in problems : q.solvable}} \ cards]
    /\ UNCHANGED <<book, ingested, tables, seen, homes, todo>>

(* One call for the next batch of rows, in no order, and the commit of     *)
(* what the model answered well, in a table with one entry of a problem.   *)
Batch(s, table, got) ==
    \E batch \in SUBSET rows[s] :
        /\ Cardinality(batch) = Min({BatchSize, Cardinality(rows[s])})
        /\ got \subseteq batch
        /\ IF got \cap table # {} \/ batch = rows[s]
           THEN End(s)
           ELSE /\ rows' = [rows EXCEPT ![s] = @ \ batch]
                /\ UNCHANGED <<book, ingested, starts, pc, seen, homes, todo>>

Stored(table, got) == IF got \cap table # {} THEN table ELSE table \cup got

DistillBatch(s) ==
    /\ pc[s] = "distill"
    /\ \E got \in SUBSET rows[s] : Batch(s, cards, got) /\ cards' = Stored(cards, got)
    /\ UNCHANGED <<sections, problems, scores>>

StartScore(s) ==
    /\ Begin(s, "score")
    /\ rows' = [rows EXCEPT ![s] = cards \ scores]
    /\ UNCHANGED <<book, ingested, tables, seen, homes, todo>>

ScoreBatch(s) ==
    /\ pc[s] = "score"
    /\ \E got \in SUBSET rows[s] : Batch(s, scores, got) /\ scores' = Stored(scores, got)
    /\ UNCHANGED <<sections, problems, cards>>

(* The daily quota is spent, a call fails or the process is stopped.       *)
Raise(s) ==
    /\ pc[s] \in Commands
    /\ End(s)
    /\ UNCHANGED tables

Next ==
    \/ IngestPage
    \/ \E s \in Slots :
        \/ StartStructure(s) \/ FinishStructure(s)
        \/ StartDetect(s) \/ ConfirmBatch(s) \/ FinishDetect(s)
        \/ StartFigures(s) \/ FinishFigures(s)
        \/ StartDistill(s) \/ DistillBatch(s)
        \/ StartScore(s) \/ ScoreBatch(s)
        \/ Raise(s)

Spec == Init /\ [][Next]_vars
==============================================================================
