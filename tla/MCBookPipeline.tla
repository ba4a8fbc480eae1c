---------------------------- MODULE MCBookPipeline ---------------------------
(* Two small books, two commands at a time, with what the history of the   *)
(* commands has to be remembered for.                                      *)
EXTENDS BookPipeline

CONSTANTS s1, s2

MCSlots == {s1, s2}
Perms == Permutations(MCSlots)

VARIABLES
    overlapped,   \* two detect commands were under way at once
    early,        \* one was started before the last page was in
    covered,      \* one ended well that had read the whole book
    shown,        \* candidates of the batches that were committed
    disorder      \* a distill was started while a figure was unclassified

mcvars == <<vars, overlapped, early, covered, shown, disorder>>

Line(page, kind, figure) == [page |-> page, kind |-> kind, figure |-> figure]

(* Contents, with titles that fit two pages (a running header); a problem  *)
(* section with an item, and an example that ends with a numbered line.    *)
Contents ==
    [lines |-> <<Line(1, "contents", FALSE), Line(2, "header", FALSE),
                 Line(2, "item", FALSE), Line(3, "worked", FALSE),
                 Line(3, "item", TRUE)>>,
     fit   |-> [one |-> <<0, 2, 2>>, two |-> <<0, 1, 2>>],
     reach |-> <<3, 4, 5, 5, 5>>]

(* No contents; a problem section without items that runs on to the next   *)
(* page, past a chapter heading and too long for its text, which loses the *)
(* last line, a pointer to a figure; and a problem section with two items  *)
(* on one page, one of which points at a figure.                           *)
Plain ==
    [lines |-> <<Line(1, "header", FALSE), Line(1, "prose", FALSE),
                 Line(2, "chapter", FALSE), Line(2, "prose", TRUE),
                 Line(2, "header", FALSE), Line(2, "item", FALSE),
                 Line(2, "item", TRUE)>>,
     fit   |-> [one |-> <<0, 0>>],
     reach |-> <<3, 4, 5, 6, 7, 7, 7>>]

MCTexts == {Contents, Plain}
MCMaxStarts == [c \in Commands |-> IF c \in {"structure", "detect", "score"} THEN 2 ELSE 1]

MCInit ==
    /\ Init
    /\ overlapped = FALSE
    /\ early = FALSE
    /\ covered = FALSE
    /\ shown = {}
    /\ disorder = FALSE

Begins(s, c) == pc[s] # c /\ pc'[s] = c

MCNext ==
    /\ Next
    /\ overlapped' = (overlapped \/ \E s, t \in Slots :
                          s # t /\ pc'[s] = "detect" /\ pc'[t] = "detect")
    /\ early' = (early \/ \E s \in Slots : Begins(s, "detect") /\ ingested < LastPage)
    /\ covered' = (covered \/ \E s \in Slots :
                       /\ pc[s] = "detect"
                       /\ todo[s] = << >>
                       /\ seen[s] = LastPage)
    /\ shown' = shown \cup
           UNION {IF pc[s] = "detect" /\ pc'[s] = "detect"
                  THEN Range(todo[s]) \ Range(todo'[s]) ELSE {} : s \in Slots}
    /\ disorder' = (disorder \/ \E s \in Slots :
                       /\ Begins(s, "distill")
                       /\ \E p \in problems :
                            p.solvable /\ PointsAtFigure(p.id.span) /\ ~p.essential)

MCSpec == MCInit /\ [][MCNext]_mcvars

-----------------------------------------------------------------------------
(* Properties.                                                             *)

(* The sections of one structure run split the pages it read: every page   *)
(* has exactly one, be there contents, headings or neither, be two         *)
(* chapters on one page or the contents out of order (structure.py:65-104).*)
PagesHaveOneSection ==
    \A x \in sections :
        LET run  == {y \in sections : y.run = x.run}
            read == 1 .. Max({y.to : y \in run})
        IN \A p \in read : Cardinality({y \in run : p \in y.from .. y.to}) = 1

(* What detection cuts from the pages read so far does not overlap and     *)
(* holds no second heading; and a line that follows a heading is lost only *)
(* between a section header and its first item, or at the end of a span    *)
(* that is longer than MAX_CANDIDATE_CHARS (detection.py:110-172).         *)
CandidatesTile ==
    LET kind(i) == book.lines[i].kind
        heads   == {i \in Read(ingested) : kind(i) \in {"worked", "exercise", "header"}}
        all     == Candidates(ingested)
        in(i)   == {c \in all : i \in c.from .. c.to}
    IN \A i \in Read(ingested) :
        /\ \A c, d \in in(i) : c = d
        /\ \A c \in in(i) : i \in heads => c.from = i
        /\ in(i) = {} =>
             \/ \A h \in heads : h > i
             \/ \E h \in heads, j \in Read(ingested) :
                  /\ h <= i /\ i < j
                  /\ kind(h) = "header" /\ kind(j) = "item"
                  /\ \A k \in h + 1 .. j - 1 : k \notin heads /\ kind(k) # "item"
             \/ \E c \in all :
                  /\ c.to < i /\ c.to = book.reach[c.from]
                  /\ \A k \in c.from + 1 .. i : k \notin heads /\ \A d \in all : d.from # k

(* Of any answer to a batch, with elements missing, malformed, repeated,   *)
(* out of order or out of range, each result is what the model said of     *)
(* that very candidate, and none is lost (batching.py:96-107).             *)
AnswersLandOnTheirItem ==
    starts = [c \in Commands |-> 0] =>
        \A n \in 1 .. BatchSize : \A answer \in Answers(n) : Aligned(answer, n)

(* Unless two detect commands overlapped, no candidate is stored twice;    *)
(* and unless one ran before the last page was in, so that a candidate     *)
(* grew after it was stored, no line is in two stored problems             *)
(* (detection.py:247-263).                                                 *)
OneAtATimeStoredOnce ==
    ~overlapped =>
        \A p, q \in problems : p # q =>
            /\ p.id.span # q.id.span
            /\ ~early => p.id.span.to < q.id.span.from \/ q.id.span.to < p.id.span.from

(* Once a detect command that read the whole book has ended well, every    *)
(* candidate of the book was in a batch that was shown to the model and    *)
(* committed, whatever runs before it stored or failed on, and however     *)
(* many problems share a page (detection.py:247-254).                      *)
CandidatesAreAnswered ==
    covered => Candidates(LastPage) \subseteq shown

(* A proof has no number to check: no derivation ever gets a card, though  *)
(* figure classification writes the same flag (detection.py:292-300).      *)
DerivationsNeverCarded ==
    \A p \in problems : p.id \in cards => ~p.derivation

(* When no distill run was started before the figures of all problems were *)
(* classified, a problem with a card is one that is solvable still and     *)
(* needs no figure, as far as its statement tells, for all the detect and  *)
(* figures runs that overlap it (figures.py:49-77).                        *)
OrderedCardsStaySolvable ==
    ~disorder => \A p \in problems : p.id \in cards => p.solvable /\ ~PointsAtFigure(p.id.span)
==============================================================================
