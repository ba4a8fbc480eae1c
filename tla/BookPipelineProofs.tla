------------------------- MODULE BookPipelineProofs --------------------------
(***************************************************************************)
(* For every book, every number of overlapping commands and whatever fails *)
(* in them: a structure run gives each of its pages one section, detection *)
(* cuts spans that tile the pages and keeps each up to its cap, leaves     *)
(* none unanswered and stores each once when it runs alone, no derivation  *)
(* gets a card, and cards made after the figures are of problems that need *)
(* none.                                                                   *)
(*                                                                         *)
(* Induction over the naturals is had from the well-foundedness of the     *)
(* strict subset ordering: the least element of a set of naturals.         *)
(***************************************************************************)
EXTENDS MCBookPipeline, FiniteSetTheorems, SequenceTheorems, TLAPS

(* A set of naturals has a least one.                                      *)
LEMMA LeastExists ==
    ASSUME NEW S \in SUBSET Nat, S # {}
    PROVE  \E m \in S : \A k \in S : m <= k
<1> DEFINE R == StrictSubsetOrdering(Nat)
           F == {0 .. n : n \in S}
<1>1. IsWellFoundedOn(R, FiniteSubsetsOf(Nat))
  BY FS_StrictSubsetOrderingWellFounded
<1>2. F \subseteq FiniteSubsetsOf(Nat) /\ F # {}
  <2>1. \A n \in Nat : 0 .. n \in SUBSET Nat /\ IsFiniteSet(0 .. n)
    BY FS_Interval
  <2> QED BY <2>1 DEF FiniteSubsetsOf
<1> HIDE DEF R
<1>3. PICK X \in F : \A Y \in F : ~ (<<Y, X>> \in R)
  <2> HIDE DEF F
  <2> QED BY <1>1, <1>2, WFMin
<1>4. PICK m \in S : X = 0 .. m
  OBVIOUS
<1>5. ASSUME NEW k \in S, k < m PROVE FALSE
  <2>1. 0 .. k \in F /\ 0 .. k \subseteq 0 .. m /\ m \in 0 .. m /\ m \notin 0 .. k
    BY <1>5
  <2>2. <<0 .. k, 0 .. m>> \in R
    BY <2>1 DEF R, StrictSubsetOrdering
  <2> QED BY <1>3, <1>4, <2>1, <2>2
<1> QED BY <1>5

(* Min is the least one.                                                   *)
LEMMA MinIsLeast ==
    ASSUME NEW S \in SUBSET Nat, S # {}
    PROVE  Min(S) \in S /\ \A k \in S : Min(S) <= k
BY LeastExists DEF Min

(* What the assumption says of the book at hand.                           *)
LEMMA BookIsOne ==
    ASSUME book \in Texts
    PROVE  /\ Len(book.lines) \in Nat \ {0} /\ DOMAIN book.lines = 1 .. Len(book.lines)
           /\ LastPage \in Nat \ {0}
           /\ \A i \in DOMAIN book.lines :
                /\ book.lines[i].page \in 1 .. LastPage
                /\ book.lines[i].kind \in Kinds
           /\ \A i, j \in DOMAIN book.lines : i < j => book.lines[i].page <= book.lines[j].page
           /\ \A n \in Nat : Read(n) \subseteq DOMAIN book.lines
<1>1. /\ book.lines \in Seq([page : Nat \ {0}, kind : Kinds, figure : BOOLEAN])
      /\ book.lines # << >>
      /\ \A i, j \in DOMAIN book.lines : i < j => book.lines[i].page <= book.lines[j].page
  BY BookPipelineAssumption DEF IsBook
<1>2. Len(book.lines) \in Nat /\ DOMAIN book.lines = 1 .. Len(book.lines)
  BY <1>1, LenProperties
<1>3. Len(book.lines) # 0
  BY <1>1, EmptySeq
<1>4. \A i \in DOMAIN book.lines :
         book.lines[i] \in [page : Nat \ {0}, kind : Kinds, figure : BOOLEAN]
  BY <1>1, <1>2, ElementOfSeq
<1>5. \A i \in DOMAIN book.lines : book.lines[i].page \in Nat \ {0} /\ book.lines[i].kind \in Kinds
  BY <1>4
<1> QED BY <1>1, <1>2, <1>3, <1>5 DEF LastPage, Read

-----------------------------------------------------------------------------
(* Cutting candidates.                                                     *)

(* Until ends a span before the next mark or unread line, not sooner.      *)
LEMMA UntilIs ==
    ASSUME book \in Texts, NEW n \in Nat, NEW i \in Read(n), NEW marks
    PROVE  /\ Until(i, marks, n) \in i .. Len(book.lines)
           /\ \A k \in i + 1 .. Until(i, marks, n) : k \in Read(n) /\ k \notin marks
           /\ Until(i, marks, n) + 1 \in marks \/ Until(i, marks, n) + 1 \notin Read(n)
<1> DEFINE len == Len(book.lines)
           S == {j \in DOMAIN book.lines : j > i /\ (j \in marks \/ book.lines[j].page > n)}
                \cup {len + 1}
<1>1. len \in Nat \ {0} /\ DOMAIN book.lines = 1 .. len /\ i \in 1 .. len
  BY BookIsOne
<1>2. \A j \in 1 .. len : book.lines[j].page \in Nat /\ (j \in Read(n) <=> book.lines[j].page <= n)
  BY <1>1, BookIsOne DEF Read
<1>3. S \in SUBSET Nat /\ S # {}
  BY <1>1
<1>4. Until(i, marks, n) = Min(S) - 1
  BY DEF Until
<1>5. Min(S) \in S /\ \A k \in S : Min(S) <= k
  <2> HIDE DEF S
  <2> QED BY <1>3, MinIsLeast
<1>6. Min(S) \in i + 1 .. len + 1
  BY <1>1, <1>5
<1>7. ASSUME NEW k \in i + 1 .. Min(S) - 1 PROVE k \in Read(n) /\ k \notin marks
  <2>1. k \in 1 .. len /\ k < Min(S) /\ k \in Nat /\ Min(S) \in Nat
    BY <1>1, <1>6
  <2>2. k \notin S
    <3> HIDE DEF S
    <3> QED BY <1>5, <2>1
  <2> QED BY <1>1, <1>2, <2>1, <2>2
<1>8. Min(S) \in marks \/ Min(S) \notin Read(n)
  <2>1. len + 1 \notin Read(n)
    BY <1>1 DEF Read
  <2>2. \A m \in S : m \in marks \/ m \notin Read(n)
    BY <1>1, <1>2, <2>1
  <2> HIDE DEF S
  <2> QED BY <1>5, <2>2
<1> QED BY <1>1, <1>4, <1>6, <1>7, <1>8

(* The pages are read in order, so are the lines.                          *)
LEMMA ReadIsPrefix ==
    ASSUME book \in Texts, NEW n \in Nat, NEW i \in Read(n), NEW k \in 1 .. i
    PROVE  k \in Read(n) /\ i \in Nat
<1>1. i \in 1 .. Len(book.lines) /\ k \in 1 .. Len(book.lines) /\ Len(book.lines) \in Nat
  BY BookIsOne
<1>2. book.lines[k].page <= book.lines[i].page
  BY <1>1, BookIsOne
<1>3. book.lines[k].page \in Nat /\ book.lines[i].page \in Nat /\ book.lines[i].page <= n
  BY <1>1, BookIsOne DEF Read
<1> QED BY <1>1, <1>2, <1>3, BookIsOne DEF Read

(* A set of naturals has a greatest one up to a bound.                     *)
LEMMA GreatestExists ==
    ASSUME NEW S \in SUBSET Nat, NEW b \in Nat, NEW x \in S, x <= b
    PROVE  \E m \in S : m <= b /\ \A k \in S : k <= b => k <= m
<1> DEFINE D == {d \in 0 .. b : b - d \in S}
<1>1. D \in SUBSET Nat /\ b - x \in D
  OBVIOUS
<1>2. PICK d \in D : \A e \in D : d <= e
  <2> HIDE DEF D
  <2> QED BY <1>1, LeastExists
<1>3. b - d \in S /\ b - d <= b /\ d \in Nat
  OBVIOUS
<1>4. ASSUME NEW k \in S, k <= b PROVE k <= b - d
  <2>1. b - k \in D /\ k \in Nat
    BY <1>4
  <2> HIDE DEF D
  <2>2. d <= b - k
    BY <1>2, <2>1
  <2> QED BY <1>3, <2>1, <2>2
<1> QED BY <1>3, <1>4

EndOf(h, n) == Until(h, Headings(n), n)
ItemsOf(h, n) == {i \in h + 1 .. EndOf(h, n) : book.lines[i].kind = "item"}
Itemised(h, n) == book.lines[h].kind = "header" /\ ItemsOf(h, n) # {}
EndOfItem(i, h, n) == Until(i, ItemsOf(h, n) \cup {EndOf(h, n) + 1}, n)

(* A span is under the heading h.                                          *)
Under(c, h, n) ==
    \/ Itemised(h, n) /\ c.from \in ItemsOf(h, n) /\ c.to = EndOfItem(c.from, h, n)
    \/ ~Itemised(h, n) /\ c.from = h /\ c.to = EndOf(h, n)

(* Spans, in terms of the headings and the items under them.               *)
LEMMA SpansAre ==
    ASSUME NEW n
    PROVE  Spans(n) = UNION {IF Itemised(h, n)
                                  THEN {[from |-> i, to |-> EndOfItem(i, h, n)] : i \in ItemsOf(h, n)}
                                  ELSE {[from |-> h, to |-> EndOf(h, n)]} : h \in Headings(n)}
BY DEF Spans, Itemised, EndOfItem, ItemsOf, EndOf

(* Every span is under a heading.                                          *)
LEMMA SpanUnder ==
    ASSUME NEW n, NEW c \in Spans(n)
    PROVE  /\ c = [from |-> c.from, to |-> c.to]
           /\ \E h \in Headings(n) : Under(c, h, n)
BY SpansAre DEF Under

(* Every heading, or else every item under it, has a span.                 *)
LEMMA UnderSpan ==
    ASSUME NEW n, NEW h \in Headings(n)
    PROVE  /\ ~Itemised(h, n) => [from |-> h, to |-> EndOf(h, n)] \in Spans(n)
           /\ Itemised(h, n) => \A i \in ItemsOf(h, n) : [from |-> i, to |-> EndOfItem(i, h, n)] \in Spans(n)
BY SpansAre

(* Where a heading, and where an item under it, ends.                      *)
LEMMA Extents ==
    ASSUME book \in Texts, NEW n \in Nat, NEW h \in Headings(n)
    PROVE  /\ h \in Read(n) /\ h \in Nat \ {0} /\ EndOf(h, n) \in h .. Len(book.lines) /\ Len(book.lines) \in Nat
           /\ \A k \in h + 1 .. EndOf(h, n) : k \in Read(n) /\ k \notin Headings(n)
           /\ EndOf(h, n) + 1 \in Headings(n) \/ EndOf(h, n) + 1 \notin Read(n)
           /\ \A i \in ItemsOf(h, n) :
                /\ i \in Read(n) /\ i \in h + 1 .. EndOf(h, n)
                /\ EndOfItem(i, h, n) \in i .. EndOf(h, n)
                /\ \A k \in i + 1 .. EndOfItem(i, h, n) : k \notin ItemsOf(h, n)
                /\ \/ EndOfItem(i, h, n) + 1 \in ItemsOf(h, n)
                   \/ EndOfItem(i, h, n) + 1 = EndOf(h, n) + 1
                   \/ EndOfItem(i, h, n) + 1 \notin Read(n)
<1>1. h \in Read(n) /\ h \in 1 .. Len(book.lines) /\ Len(book.lines) \in Nat
  BY BookIsOne DEF Headings
<1>2. /\ EndOf(h, n) \in h .. Len(book.lines)
      /\ \A k \in h + 1 .. EndOf(h, n) : k \in Read(n) /\ k \notin Headings(n)
      /\ EndOf(h, n) + 1 \in Headings(n) \/ EndOf(h, n) + 1 \notin Read(n)
  BY <1>1, UntilIs DEF EndOf
<1>3. ASSUME NEW i \in ItemsOf(h, n)
      PROVE  /\ i \in Read(n) /\ i \in h + 1 .. EndOf(h, n)
             /\ EndOfItem(i, h, n) \in i .. EndOf(h, n)
             /\ \A k \in i + 1 .. EndOfItem(i, h, n) : k \notin ItemsOf(h, n)
             /\ \/ EndOfItem(i, h, n) + 1 \in ItemsOf(h, n)
                \/ EndOfItem(i, h, n) + 1 = EndOf(h, n) + 1
                \/ EndOfItem(i, h, n) + 1 \notin Read(n)
  <2>1. i \in h + 1 .. EndOf(h, n) /\ i \in Read(n)
    BY <1>2 DEF ItemsOf
  <2> DEFINE marks == ItemsOf(h, n) \cup {EndOf(h, n) + 1}
  <2>2. /\ EndOfItem(i, h, n) \in i .. Len(book.lines)
        /\ \A k \in i + 1 .. EndOfItem(i, h, n) : k \notin marks
        /\ EndOfItem(i, h, n) + 1 \in marks \/ EndOfItem(i, h, n) + 1 \notin Read(n)
    BY <2>1, UntilIs DEF EndOfItem
  <2>3. EndOfItem(i, h, n) <= EndOf(h, n)
    <3>1. SUFFICES ASSUME ~(EndOfItem(i, h, n) <= EndOf(h, n)) PROVE FALSE
      OBVIOUS
    <3>2. EndOf(h, n) + 1 \in i + 1 .. EndOfItem(i, h, n)
      BY <1>1, <1>2, <2>1, <2>2, <3>1
    <3> QED BY <2>2, <3>2
  <2> QED BY <1>1, <1>2, <2>1, <2>2, <2>3
<1> QED BY <1>1, <1>2, <1>3

(* The extent of a span is part of that of its heading.                    *)
LEMMA UnderWithin ==
    ASSUME book \in Texts, NEW n \in Nat, NEW h \in Headings(n), NEW c, Under(c, h, n)
    PROVE  /\ c.from \in h .. EndOf(h, n) /\ c.to \in c.from .. EndOf(h, n)
           /\ \A i \in c.from .. c.to : i \in h .. EndOf(h, n)
           /\ c.from \in Read(n) /\ c.to \in 1 .. Len(book.lines)
<1>1. c.from \in h .. EndOf(h, n) /\ c.to \in c.from .. EndOf(h, n) /\ c.from \in Read(n)
  BY Extents DEF Under
<1> QED BY <1>1, Extents

(* Two that share a line are the same.                                     *)
LEMMA SpansApart ==
    ASSUME book \in Texts, NEW n \in Nat, NEW c \in Spans(n), NEW d \in Spans(n),
           NEW i, i \in c.from .. c.to, i \in d.from .. d.to
    PROVE  c = d
<1>1. PICK h \in Headings(n) : Under(c, h, n)
  BY SpanUnder
<1>2. PICK g \in Headings(n) : Under(d, g, n)
  BY SpanUnder
<1>3. i \in h .. EndOf(h, n) /\ i \in g .. EndOf(g, n)
  BY <1>1, <1>2, UnderWithin
<1>4. h = g
  <2>1. /\ h \in Nat /\ g \in Nat /\ EndOf(h, n) \in Nat /\ EndOf(g, n) \in Nat
        /\ g \notin h + 1 .. EndOf(h, n) /\ h \notin g + 1 .. EndOf(g, n)
    BY Extents
  <2> QED BY <1>3, <2>1
<1>5. c.from = d.from
  <2>1. CASE ~Itemised(h, n)
    BY <1>1, <1>2, <1>4, <2>1 DEF Under
  <2>2. CASE Itemised(h, n)
    <3>1. /\ c.from \in ItemsOf(h, n) /\ c.to = EndOfItem(c.from, h, n)
          /\ d.from \in ItemsOf(h, n) /\ d.to = EndOfItem(d.from, h, n)
      BY <1>1, <1>2, <1>4, <2>2 DEF Under
    <3>2. /\ d.from \notin c.from + 1 .. c.to /\ c.from \notin d.from + 1 .. d.to
          /\ c.from \in Nat /\ d.from \in Nat /\ c.to \in Nat /\ d.to \in Nat
      BY <3>1, Extents
    <3> QED BY <3>2
  <2> QED BY <2>1, <2>2
<1>6. c.to = d.to
  BY <1>1, <1>2, <1>4, <1>5 DEF Under
<1>7. c = [from |-> c.from, to |-> c.to] /\ d = [from |-> d.from, to |-> d.to]
  BY SpanUnder
<1> QED BY <1>5, <1>6, <1>7

(* None holds a second heading.                                            *)
LEMMA SpanHasOneHeading ==
    ASSUME book \in Texts, NEW n \in Nat, NEW c \in Spans(n), NEW i \in Headings(n), i \in c.from .. c.to
    PROVE  c.from = i
<1>1. PICK h \in Headings(n) : Under(c, h, n)
  BY SpanUnder
<1>2. i \in h .. EndOf(h, n) /\ c.from \in h .. EndOf(h, n)
  BY <1>1, UnderWithin
<1>3. h \in Nat /\ EndOf(h, n) \in Nat /\ i \notin h + 1 .. EndOf(h, n)
  BY Extents
<1> QED BY <1>2, <1>3

(* A line after a heading is in a span, or it is in front of the first     *)
(* item under a section header.                                            *)
LEMMA NoneLost ==
    ASSUME book \in Texts, NEW n \in Nat, NEW i \in Read(n),
           \A c \in Spans(n) : i \notin c.from .. c.to,
           NEW g \in Headings(n), g <= i
    PROVE  \E h \in Headings(n), j \in Read(n) :
             /\ h <= i /\ i < j
             /\ book.lines[h].kind = "header" /\ book.lines[j].kind = "item"
             /\ \A k \in h + 1 .. j - 1 : k \notin Headings(n) /\ book.lines[k].kind # "item"
<1>0. i \in Nat \ {0} /\ Headings(n) \in SUBSET Nat /\ Headings(n) \subseteq Read(n)
  BY BookIsOne DEF Headings
<1>1. PICK h \in Headings(n) : h <= i /\ \A k \in Headings(n) : k <= i => k <= h
  <2> DEFINE S == Headings(n)
  <2>1. S \in SUBSET Nat /\ g \in S /\ i \in Nat
    BY <1>0
  <2> HIDE DEF S
  <2>2. \E m \in S : m <= i /\ \A k \in S : k <= i => k <= m
    BY <2>1, GreatestExists
  <2> QED BY <2>2 DEF S
<1> DEFINE end == EndOf(h, n)
<1>2. /\ h \in Nat \ {0} /\ end \in Nat /\ h <= end
      /\ end + 1 \in Headings(n) \/ end + 1 \notin Read(n)
  BY Extents
<1>3. i \in h .. end
  <2>1. SUFFICES ASSUME end < i PROVE FALSE
    BY <1>0, <1>1, <1>2
  <2>2. end + 1 \in 1 .. i
    BY <1>0, <1>2, <2>1
  <2>3. end + 1 \in Read(n)
    BY <2>2, ReadIsPrefix
  <2> QED BY <1>1, <1>2, <2>2, <2>3
<1>4. Itemised(h, n)
  <2>1. SUFFICES ASSUME ~Itemised(h, n) PROVE FALSE
    OBVIOUS
  <2>2. [from |-> h, to |-> end] \in Spans(n)
    BY <2>1, UnderSpan
  <2> QED BY <1>3, <2>2
<1>5. ItemsOf(h, n) \in SUBSET Nat /\ ItemsOf(h, n) # {} /\ \A t \in ItemsOf(h, n) : t \in h + 1 .. end
  BY <1>2, <1>4 DEF Itemised, ItemsOf
<1>6. \A t \in ItemsOf(h, n) : ~(t <= i)
  <2>1. SUFFICES ASSUME NEW u \in ItemsOf(h, n), u <= i PROVE FALSE
    OBVIOUS
  <2>2. PICK t \in ItemsOf(h, n) : t <= i /\ \A k \in ItemsOf(h, n) : k <= i => k <= t
    <3> DEFINE S == ItemsOf(h, n)
    <3>1. S \in SUBSET Nat /\ u \in S /\ i \in Nat /\ u <= i
      BY <1>0, <1>5, <2>1
    <3> HIDE DEF S
    <3>2. \E m \in S : m <= i /\ \A k \in S : k <= i => k <= m
      BY <3>1, GreatestExists
    <3> QED BY <3>2 DEF S
  <2> DEFINE last == EndOfItem(t, h, n)
  <2>3. /\ t \in Nat /\ last \in t .. end
        /\ last + 1 \in ItemsOf(h, n) \/ last + 1 = end + 1 \/ last + 1 \notin Read(n)
    BY <1>5, Extents
  <2>4. [from |-> t, to |-> last] \in Spans(n)
    BY <1>4, UnderSpan
  <2>5. i \notin t .. last
    BY <2>4
  <2> HIDE DEF last
  <2>6. last < i /\ last \in Nat
    BY <1>0, <1>2, <2>2, <2>3, <2>5
  <2>7. last + 1 \in 1 .. i
    BY <1>0, <2>6
  <2>8. last + 1 \in Read(n)
    BY <2>7, ReadIsPrefix
  <2>9. last + 1 # end + 1
    BY <1>3, <1>2, <2>6
  <2> QED BY <2>2, <2>3, <2>6, <2>7, <2>8, <2>9
<1>7. PICK j \in ItemsOf(h, n) : \A k \in ItemsOf(h, n) : j <= k
  BY <1>5, LeastExists
<1>8. /\ j \in Read(n) /\ j \in h + 1 .. end /\ book.lines[j].kind = "item" /\ i < j
      /\ book.lines[h].kind = "header"
  <2>1. j \in Read(n)
    BY Extents
  <2> QED BY <1>0, <1>2, <1>4, <1>5, <1>6, <2>1 DEF ItemsOf, Itemised
<1>9. ASSUME NEW k \in h + 1 .. j - 1 PROVE k \notin Headings(n) /\ book.lines[k].kind # "item"
  <2>1. k \in h + 1 .. end /\ k < j /\ k \in Nat
    BY <1>2, <1>8
  <2>2. k \notin ItemsOf(h, n)
    BY <1>2, <1>7, <1>8, <2>1
  <2>3. k \notin Headings(n)
    BY <2>1, Extents
  <2> QED BY <2>1, <2>2, <2>3 DEF ItemsOf
<1> QED BY <1>1, <1>8, <1>9

(* The text that starts with a line has that line, at least.               *)
LEMMA ReachIs ==
    ASSUME book \in Texts, NEW i \in DOMAIN book.lines
    PROVE  book.reach[i] \in Nat /\ i <= book.reach[i]
<1>1. /\ book.reach \in [DOMAIN book.lines -> DOMAIN book.lines]
      /\ \A j \in DOMAIN book.lines : j <= book.reach[j]
  BY BookPipelineAssumption DEF IsBook
<1> QED BY <1>1, BookIsOne

(* A candidate is what was kept of a span, from its start on.              *)
LEMMA KeptIs ==
    ASSUME book \in Texts, NEW n \in Nat, NEW c \in Spans(n)
    PROVE  /\ Kept(c) = [from |-> c.from, to |-> Kept(c).to] /\ Kept(c).from = c.from
           /\ c.from \in Nat /\ c.to \in 1 .. Len(book.lines) /\ Kept(c).to \in c.from .. c.to
           /\ Kept(c).to # c.to => Kept(c).to = book.reach[c.from]
           /\ c.from \in Read(n)
<1>1. PICK h \in Headings(n) : Under(c, h, n)
  BY SpanUnder
<1>2. c.from \in Read(n) /\ c.to \in 1 .. Len(book.lines) /\ c.to \in c.from .. EndOf(h, n)
  BY <1>1, UnderWithin
<1>3. /\ c.from \in Nat /\ c.to \in Nat /\ c.from <= c.to
      /\ book.reach[c.from] \in Nat /\ c.from <= book.reach[c.from]
  BY <1>2, BookIsOne, ReachIs
<1> DEFINE S == {c.to, book.reach[c.from]}
<1>4. Min(S) \in S /\ \A k \in S : Min(S) <= k
  <2>1. S \in SUBSET Nat /\ S # {}
    BY <1>3
  <2> HIDE DEF S
  <2> QED BY <2>1, MinIsLeast
<1>5. c = [from |-> c.from, to |-> c.to]
  BY SpanUnder
<1>6. Kept(c) = [from |-> c.from, to |-> Min(S)]
  BY <1>5 DEF Kept
<1>7. Min(S) \in c.from .. c.to /\ (Min(S) # c.to => Min(S) = book.reach[c.from])
  BY <1>3, <1>4
<1> HIDE DEF S
<1> QED BY <1>2, <1>3, <1>6, <1>7

(* A candidate has a span it was kept of.                                  *)
LEMMA CandidateOf ==
    ASSUME book \in Texts, NEW n \in Nat, NEW c \in Candidates(n)
    PROVE  \E s \in Spans(n) :
             /\ c = Kept(s) /\ c.from = s.from /\ c.from \in Nat /\ c.to \in c.from .. s.to
             /\ \A i \in c.from .. c.to : i \in s.from .. s.to
<1>1. PICK s \in Spans(n) : c = Kept(s)
  BY DEF Candidates
<1> QED BY <1>1, KeptIs

(* Two that share a line are the same.                                     *)
LEMMA CandidatesApart ==
    ASSUME book \in Texts, NEW n \in Nat, NEW c \in Candidates(n), NEW d \in Candidates(n),
           NEW i, i \in c.from .. c.to, i \in d.from .. d.to
    PROVE  c = d
<1>1. PICK s \in Spans(n) : c = Kept(s) /\ i \in s.from .. s.to
  BY CandidateOf
<1>2. PICK t \in Spans(n) : d = Kept(t) /\ i \in t.from .. t.to
  BY CandidateOf
<1> QED BY <1>1, <1>2, SpansApart

(* None holds a second heading.                                            *)
LEMMA OneHeading ==
    ASSUME book \in Texts, NEW n \in Nat, NEW c \in Candidates(n), NEW i \in Headings(n), i \in c.from .. c.to
    PROVE  c.from = i
<1>1. PICK s \in Spans(n) : c.from = s.from /\ i \in s.from .. s.to
  BY CandidateOf
<1> QED BY <1>1, SpanHasOneHeading

(* A line of a span that is in no candidate was cut off.                   *)
LEMMA CutOff ==
    ASSUME book \in Texts, NEW n \in Nat, NEW s \in Spans(n), NEW i \in s.from .. s.to,
           \A c \in Candidates(n) : i \notin c.from .. c.to
    PROVE  \E c \in Candidates(n) :
             /\ c.to < i /\ c.to = book.reach[c.from]
             /\ \A k \in c.from + 1 .. i : k \notin Headings(n) /\ \A d \in Candidates(n) : d.from # k
<1> DEFINE c == Kept(s)
<1>1. c \in Candidates(n)
  BY DEF Candidates
<1>2. /\ c.from = s.from /\ s.from \in Nat /\ s.to \in Nat /\ c.to \in s.from .. s.to
      /\ c.to # s.to => c.to = book.reach[s.from]
  BY KeptIs
<1>3. i \notin c.from .. c.to
  BY <1>1
<1> HIDE DEF c
<1>4. c.to < i /\ c.to = book.reach[c.from]
  BY <1>2, <1>3
<1>5. ASSUME NEW k \in c.from + 1 .. i PROVE k \in s.from .. s.to /\ k # s.from
  BY <1>2
<1>6. ASSUME NEW k \in c.from + 1 .. i, NEW d \in Candidates(n), d.from = k PROVE FALSE
  <2>1. PICK t \in Spans(n) : d.from = t.from /\ d.from \in t.from .. t.to
    <3>1. PICK t \in Spans(n) : d.from = t.from /\ d.to \in d.from .. t.to /\ d.from \in Nat
      BY CandidateOf
    <3>2. t.to \in Nat
      BY KeptIs
    <3> QED BY <3>1, <3>2
  <2>2. t = s
    BY <1>5, <1>6, <2>1, SpansApart
  <2> QED BY <1>5, <1>6, <2>1, <2>2
<1>7. \A k \in c.from + 1 .. i : k \notin Headings(n)
  BY <1>5, SpanHasOneHeading
<1> QED BY <1>1, <1>4, <1>6, <1>7

(* Candidates tile, whatever the book and however much of it is read.      *)
LEMMA Tiles == book \in Texts /\ ingested \in Nat => CandidatesTile
<1> SUFFICES ASSUME book \in Texts, ingested \in Nat PROVE CandidatesTile
  OBVIOUS
<1> DEFINE heads == {i \in Read(ingested) : book.lines[i].kind \in {"worked", "exercise", "header"}}
           all   == Candidates(ingested)
           in(i) == {c \in all : i \in c.from .. c.to}
           Fore(i) ==
             \E h \in heads, j \in Read(ingested) :
               /\ h <= i /\ i < j
               /\ book.lines[h].kind = "header" /\ book.lines[j].kind = "item"
               /\ \A k \in h + 1 .. j - 1 : k \notin heads /\ book.lines[k].kind # "item"
           Off(i) ==
             \E c \in all :
               /\ c.to < i /\ c.to = book.reach[c.from]
               /\ \A k \in c.from + 1 .. i : k \notin heads /\ \A d \in all : d.from # k
<1>1. heads = Headings(ingested)
  BY DEF Headings
<1>2. ASSUME NEW i \in Read(ingested)
      PROVE  /\ \A c, d \in in(i) : c = d
             /\ \A c \in in(i) : i \in heads => c.from = i
             /\ in(i) = {} => (\A h \in heads : h > i) \/ Fore(i) \/ Off(i)
  <2>1. \A c, d \in in(i) : c = d
    BY CandidatesApart
  <2>2. \A c \in in(i) : i \in heads => c.from = i
    BY <1>1, OneHeading
  <2>3. ASSUME in(i) = {}, NEW g \in heads, ~(g > i), ~Off(i)
        PROVE  Fore(i)
    <3>1. \A c \in Candidates(ingested) : i \notin c.from .. c.to
      BY <2>3
    <3>2. g \in Nat /\ i \in Nat
      BY <1>1, BookIsOne DEF Headings
    <3> HIDE DEF heads
    <3>3. \A s \in Spans(ingested) : i \notin s.from .. s.to
      BY <1>1, <2>3, <3>1, CutOff
    <3> QED BY <1>1, <2>3, <3>2, <3>3, NoneLost
  <2> HIDE DEF heads, in, Fore, Off
  <2> QED BY <2>1, <2>2, <2>3
<1> QED BY <1>2 DEF CandidatesTile

-----------------------------------------------------------------------------
(* Sorting, and what a stage reads.                                        *)

(* What is sorted is every element once, in the order of the keys.         *)
LEMMA SortedIs ==
    ASSUME NEW set, IsFiniteSet(set), NEW key, NEW q \in Sorted(set, key)
    PROVE  /\ q \in Seq(set) /\ Len(q) = Cardinality(set) /\ DOMAIN q = 1 .. Len(q) /\ Len(q) \in Nat
           /\ \A x \in set : \E i \in 1 .. Len(q) : q[i] = x
           /\ \A i, j \in 1 .. Len(q) : q[i] = q[j] => i = j
           /\ \A i, j \in 1 .. Len(q) : i < j => key[q[i]] <= key[q[j]]
<1> DEFINE N == Cardinality(set)
<1>1. N \in Nat
  BY FS_CardinalityType
<1> HIDE DEF N
<1>2. /\ q \in Bijection(1 .. N, set)
      /\ \A i, j \in DOMAIN q : i < j => key[q[i]] <= key[q[j]]
  BY DEF Sorted, N
<1>3. /\ q \in [1 .. N -> set] /\ IsInjective(q)
      /\ \A x \in set : \E i \in 1 .. N : q[i] = x
  BY <1>2 DEF Bijection, Injection, Surjection
<1>4. DOMAIN q = 1 .. N
  BY <1>3
<1>5. q \in Seq(set) /\ Len(q) = N
  BY <1>1, <1>3, <1>4, LenProperties
<1>6. \A i, j \in 1 .. N : q[i] = q[j] => i = j
  BY <1>3, <1>4 DEF IsInjective
<1> QED BY <1>1, <1>2, <1>3, <1>4, <1>5, <1>6 DEF N

Span == [from : DOMAIN book.lines, to : DOMAIN book.lines]

(* Candidates are finitely many, within the lines of the book.             *)
LEMMA CandidatesAreSpans ==
    ASSUME book \in Texts, NEW n \in Nat
    PROVE  Candidates(n) \subseteq Span /\ IsFiniteSet(Candidates(n))
<1> DEFINE len == Len(book.lines)
<1>1. len \in Nat /\ DOMAIN book.lines = 1 .. len
  BY BookIsOne
<1>2. ASSUME NEW c \in Candidates(n) PROVE c \in Span
  <2>1. PICK s \in Spans(n) : c = Kept(s)
    BY DEF Candidates
  <2>2. /\ Kept(s) = [from |-> s.from, to |-> Kept(s).to]
        /\ s.from \in Read(n) /\ s.from \in Nat
        /\ s.to \in 1 .. len /\ Kept(s).to \in s.from .. s.to
    BY KeptIs
  <2>3. s.from \in 1 .. len
    BY <1>1, <2>2, BookIsOne
  <2>4. Kept(s).to \in 1 .. len
    BY <1>1, <2>2, <2>3
  <2> QED BY <1>1, <2>1, <2>2, <2>3, <2>4 DEF Span
<1>3. IsFiniteSet(Span)
  <2> DEFINE I == 1 .. len
             P == I \X I
             f == [x \in P |-> [from |-> x[1], to |-> x[2]]]
  <2>1. IsFiniteSet(P)
    <3>1. IsFiniteSet(I)
      BY <1>1, FS_Interval
    <3> HIDE DEF I
    <3> QED BY <3>1, FS_Product
  <2>2. f \in Surjection(P, Span)
    <3>1. \A x \in P : f[x] \in Span
      BY <1>1 DEF Span
    <3>2. \A c \in Span : \E x \in P : f[x] = c
      <4> SUFFICES ASSUME NEW c \in Span PROVE \E x \in P : f[x] = c
        OBVIOUS
      <4>1. <<c.from, c.to>> \in P /\ c = [from |-> c.from, to |-> c.to]
        BY <1>1 DEF Span
      <4> QED BY <4>1
    <3> QED BY <3>1, <3>2 DEF Surjection
  <2> HIDE DEF P, f
  <2> QED BY <2>1, <2>2, FS_Surjection
<1> QED BY <1>2, <1>3, FS_Subset

-----------------------------------------------------------------------------
(* Sections.                                                               *)

(* The first pages of the chapters, from the contents or the headings, are *)
(* pages that were read, in order.                                         *)
LEMMA FirstPagesAre ==
    ASSUME book \in Texts, NEW n \in 0 .. LastPage, NEW k \in Nat,
           NEW entries \in [1 .. k -> DOMAIN book.fit \cup {Malformed}],
           NEW first \in FirstPages(entries, n)
    PROVE  /\ first \in Seq(1 .. n)
           /\ \A i, j \in 1 .. Len(first) : i < j => first[i] <= first[j]
<1>1. n \in Nat /\ LastPage \in Nat
  BY BookIsOne
<1>2. CASE first \in Located(entries, n)
  <2> DEFINE found == {i \in DOMAIN entries : entries[i] # Malformed /\ Fit(entries[i], n) # {}}
             place == [i \in found |-> Min(Fit(entries[i], n))]
  <2>1. PICK q \in Sorted(found, place) : first = [i \in DOMAIN q |-> place[q[i]]]
    BY <1>2 DEF Located
  <2>2. IsFiniteSet(found)
    <3>1. IsFiniteSet(1 .. k) /\ found \subseteq 1 .. k
      BY FS_Interval
    <3> HIDE DEF found
    <3> QED BY <3>1, FS_Subset
  <2>3. \A i \in found : place[i] \in 1 .. n
    <3> SUFFICES ASSUME NEW i \in found PROVE place[i] \in 1 .. n
      OBVIOUS
    <3> DEFINE S == Fit(entries[i], n)
    <3>1. S # {} /\ S \in SUBSET (1 .. n) /\ S \in SUBSET Nat /\ place[i] = Min(S)
      BY <1>1 DEF Fit
    <3> HIDE DEF S
    <3> QED BY <3>1, MinIsLeast
  <2> HIDE DEF found, place
  <2>4. /\ q \in Seq(found) /\ DOMAIN q = 1 .. Len(q) /\ Len(q) \in Nat
        /\ \A i, j \in 1 .. Len(q) : i < j => place[q[i]] <= place[q[j]]
    BY <2>2, SortedIs
  <2>5. first \in [1 .. Len(q) -> 1 .. n]
    <3>1. \A i \in 1 .. Len(q) : q[i] \in found
      BY <2>4, ElementOfSeq
    <3> QED BY <2>1, <2>3, <2>4, <3>1
  <2>6. first \in Seq(1 .. n) /\ Len(first) = Len(q)
    BY <2>4, <2>5
  <2> QED BY <2>1, <2>4, <2>6
<1>3. CASE first \in Sorted(ChapterPages(n), [p \in 1 .. n |-> p])
  <2>1. ChapterPages(n) \subseteq 1 .. n
    BY DEF ChapterPages
  <2>2. IsFiniteSet(ChapterPages(n))
    BY <1>1, <2>1, FS_Interval, FS_Subset
  <2> DEFINE key == [p \in 1 .. n |-> p]
  <2>3. /\ first \in Seq(ChapterPages(n)) /\ Len(first) \in Nat
        /\ \A i, j \in 1 .. Len(first) : i < j => key[first[i]] <= key[first[j]]
    <3>1. first \in Sorted(ChapterPages(n), key)
      BY <1>3
    <3> HIDE DEF key
    <3> QED BY <2>2, <3>1, SortedIs
  <2>4. \A i \in 1 .. Len(first) : first[i] \in 1 .. n
    BY <2>1, <2>3, ElementOfSeq
  <2>5. first \in Seq(1 .. n)
    BY <2>3, <2>4, ElementOfSeq
  <2>6. \A i \in 1 .. Len(first) : key[first[i]] = first[i]
    BY <2>4
  <2> HIDE DEF key
  <2> QED BY <2>3, <2>5, <2>6
<1> QED BY <1>2, <1>3 DEF FirstPages

(* A sequence of sections splits the pages from a to n.                    *)
Splits(new, a, n) ==
    /\ new \in Seq([from : 1 .. n, to : 0 .. n]) /\ Len(new) \in Nat \ {0}
    /\ \E i \in 1 .. Len(new) : new[i].to = n
    /\ \A i \in 1 .. Len(new) : new[i].from \in a .. n
    /\ \A p \in a .. n : \E i \in 1 .. Len(new) : p \in new[i].from .. new[i].to
    /\ \A i, j \in 1 .. Len(new), p \in 1 .. n :
         p \in new[i].from .. new[i].to /\ p \in new[j].from .. new[j].to => i = j

(* The chapters from the first pages, and where they end.                  *)
Chapters(first, n) ==
    [i \in DOMAIN first |->
        [from |-> first[i], to |-> IF i < Len(first) THEN first[i + 1] - 1 ELSE n]]

(* A page after the first chapter begins is in one chapter.                *)
LEMMA ChaptersSplit ==
    ASSUME NEW n \in Nat \ {0}, NEW first \in Seq(1 .. n), first # << >>,
           \A i, j \in 1 .. Len(first) : i < j => first[i] <= first[j]
    PROVE  Splits(Chapters(first, n), first[1], n)
<1> DEFINE len == Len(first)
           new == Chapters(first, n)
<1>1. /\ len \in Nat \ {0} /\ DOMAIN first = 1 .. len
      /\ \A i \in 1 .. len : first[i] \in 1 .. n
  <2>1. len \in Nat /\ DOMAIN first = 1 .. len /\ len # 0
    BY LenProperties, EmptySeq
  <2> QED BY <2>1, ElementOfSeq
<1> DEFINE to(i) == IF i < len THEN first[i + 1] - 1 ELSE n
<1> HIDE DEF len
<1>2. \A i \in 1 .. len : to(i) \in 0 .. n /\ (i < len => i + 1 \in 1 .. len /\ to(i) = first[i + 1] - 1)
  BY <1>1
<1>3. new = [i \in 1 .. len |-> [from |-> first[i], to |-> to(i)]]
  BY <1>1 DEF Chapters, len
<1> HIDE DEF to
<1>4. new \in [1 .. len -> [from : 1 .. n, to : 0 .. n]]
  BY <1>1, <1>2, <1>3
<1>5. \A i \in 1 .. len : new[i].from = first[i] /\ new[i].to = to(i)
  BY <1>3
<1> HIDE DEF new
<1>6. new \in Seq([from : 1 .. n, to : 0 .. n]) /\ Len(new) = len
  <2> DEFINE R == [from : 1 .. n, to : 0 .. n]
  <2>1. new \in [1 .. len -> R] /\ len \in Nat
    BY <1>1, <1>4
  <2> HIDE DEF R
  <2>2. new \in Seq(R) /\ Len(new) = len
    BY <2>1
  <2> QED BY <2>2 DEF R
<1>7. to(len) = n
  BY <1>1 DEF to
<1>8. \A i, j \in 1 .. len : i < j => first[i] <= first[j]
  BY DEF len
<1>9. \A i \in 1 .. len : first[i] \in first[1] .. n
  <2> SUFFICES ASSUME NEW i \in 1 .. len PROVE first[i] \in first[1] .. n
    OBVIOUS
  <2>1. 1 \in 1 .. len /\ (i = 1 \/ 1 < i)
    BY <1>1
  <2>2. first[1] <= first[i]
    BY <1>1, <1>8, <2>1
  <2> QED BY <1>1, <2>1, <2>2
<1>10. ASSUME NEW p \in first[1] .. n PROVE \E i \in 1 .. len : p \in first[i] .. to(i)
  <2> DEFINE S == {i \in 1 .. len : first[i] <= p}
  <2>1. S \in SUBSET Nat /\ 1 \in S /\ 1 <= len /\ len \in Nat /\ \A i \in S : i <= len
    BY <1>1, <1>10
  <2>2. PICK m \in S : m <= len /\ \A k \in S : k <= len => k <= m
    <3> HIDE DEF S
    <3> QED BY <2>1, GreatestExists
  <2>3. m \in 1 .. len /\ first[m] <= p /\ p \in Nat /\ p <= n
    BY <1>1, <1>10
  <2>4. m < len => m + 1 \in 1 .. len /\ ~(first[m + 1] <= p)
    <3> SUFFICES ASSUME m < len PROVE m + 1 \in 1 .. len /\ ~(first[m + 1] <= p)
      OBVIOUS
    <3>1. m + 1 \in 1 .. len
      BY <1>1, <2>3
    <3>2. m + 1 \notin S
      <4> HIDE DEF S
      <4> QED BY <2>2, <2>3, <3>1
    <3> QED BY <3>1, <3>2
  <2>5. p <= to(m)
    <3>1. CASE m < len
      BY <1>1, <1>2, <2>3, <2>4, <3>1
    <3>2. CASE ~(m < len)
      BY <2>3, <3>2 DEF to
    <3> QED BY <3>1, <3>2
  <2> QED BY <1>1, <1>2, <2>3, <2>5
<1>11. ASSUME NEW i \in 1 .. len, NEW j \in 1 .. len, NEW p \in 1 .. n,
              p \in first[i] .. to(i), p \in first[j] .. to(j)
       PROVE  ~(i < j)
  <2> SUFFICES ASSUME i < j PROVE FALSE
    OBVIOUS
  <2>1. i < len /\ i + 1 \in 1 .. len
    BY <1>1
  <2>2. i + 1 = j \/ i + 1 < j
    BY <2>1
  <2>3. first[i + 1] <= first[j]
    BY <1>1, <1>8, <2>1, <2>2
  <2>4. p \in Nat /\ p <= to(i) /\ first[j] <= p /\ to(i) = first[i + 1] - 1
    BY <1>1, <1>2, <1>11, <2>1
  <2>5. first[i + 1] \in Nat /\ first[j] \in Nat
    BY <1>1, <2>1
  <2> QED BY <2>3, <2>4, <2>5
<1>12. \A i, j \in 1 .. len, p \in 1 .. n :
          p \in first[i] .. to(i) /\ p \in first[j] .. to(j) => i = j
  <2> SUFFICES ASSUME NEW i \in 1 .. len, NEW j \in 1 .. len, NEW p \in 1 .. n,
                      p \in first[i] .. to(i), p \in first[j] .. to(j)
               PROVE  i = j
    OBVIOUS
  <2>1. ~(i < j) /\ ~(j < i)
    BY <1>11
  <2> QED BY <1>1, <2>1
<1>13. len \in 1 .. len
  BY <1>1
<1> HIDE DEF len
<1>14. Splits(new, first[1], n)
  <2>1. \E i \in 1 .. len : new[i].to = n
    BY <1>5, <1>7, <1>13
  <2>2. \A i \in 1 .. len : new[i].from \in first[1] .. n
    BY <1>5, <1>9
  <2>3. \A p \in first[1] .. n : \E i \in 1 .. len : p \in new[i].from .. new[i].to
    BY <1>5, <1>10
  <2>4. \A i, j \in 1 .. len, p \in 1 .. n :
            p \in new[i].from .. new[i].to /\ p \in new[j].from .. new[j].to => i = j
    BY <1>5, <1>12
  <2> QED BY <1>1, <1>6, <2>1, <2>2, <2>3, <2>4 DEF Splits
<1> QED BY <1>14 DEF new

(* The sections of a run split the pages that were read.                   *)
LEMMA SectionsSplit ==
    ASSUME NEW n \in Nat \ {0}, NEW first \in Seq(1 .. n),
           \A i, j \in 1 .. Len(first) : i < j => first[i] <= first[j]
    PROVE  Splits(SectionsFrom(first, n), 1, n)
<1> DEFINE new == SectionsFrom(first, n)
           S == [from : 1 .. n, to : 0 .. n]
           later == Chapters(first, n)
<1>1. CASE first = << >>
  <2>1. new = <<[from |-> 1, to |-> n]>>
    BY <1>1 DEF SectionsFrom
  <2>2. new \in Seq(S) /\ Len(new) = 1 /\ new[1].from = 1 /\ new[1].to = n
    BY <2>1
  <2> HIDE DEF new
  <2> QED BY <2>2 DEF Splits, new
<1>2. ASSUME first # << >>
      PROVE  first[1] \in 1 .. n /\ Splits(later, first[1], n) /\ later \in Seq(S)
  <2>1. Len(first) \in Nat /\ Len(first) # 0
    BY <1>2, EmptySeq, LenProperties
  <2>2. first[1] \in 1 .. n
    BY <2>1, ElementOfSeq
  <2>3. Splits(later, first[1], n)
    BY <1>2, ChaptersSplit
  <2> HIDE DEF later
  <2> QED BY <2>2, <2>3 DEF Splits
<1>3. CASE first # << >> /\ ~(first[1] > 1)
  <2>1. first[1] = 1
    BY <1>2, <1>3
  <2>2. new = << >> \o later
    BY <1>3 DEF SectionsFrom, Chapters
  <2> HIDE DEF later, S
  <2>3. new = later
    BY <1>2, <1>3, <2>2, ConcatEmptySeq
  <2> QED BY <1>2, <1>3, <2>1, <2>3
<1>4. CASE first # << >> /\ first[1] > 1
  <2> DEFINE front == <<[from |-> 1, to |-> first[1] - 1]>>
             len == Len(later)
  <2>1. first[1] \in 1 .. n
    BY <1>2, <1>4
  <2>2. front \in Seq(S) /\ Len(front) = 1 /\ front[1].from = 1 /\ front[1].to = first[1] - 1
    BY <1>4, <2>1
  <2>3. new = front \o later
    BY <1>4 DEF SectionsFrom, Chapters
  <2>4. Splits(later, first[1], n)
    BY <1>2, <1>4
  <2> HIDE DEF later
  <2>5. /\ later \in Seq(S) /\ len \in Nat \ {0}
        /\ \E i \in 1 .. len : later[i].to = n
        /\ \A i \in 1 .. len : later[i].from \in first[1] .. n
        /\ \A p \in first[1] .. n : \E i \in 1 .. len : p \in later[i].from .. later[i].to
        /\ \A i, j \in 1 .. len, p \in 1 .. n :
             p \in later[i].from .. later[i].to /\ p \in later[j].from .. later[j].to => i = j
    BY <2>4 DEF Splits
  <2> HIDE DEF front, S
  <2>6. /\ new \in Seq(S) /\ Len(new) = 1 + len
        /\ \A i \in 1 .. 1 + len : new[i] = IF i <= 1 THEN front[i] ELSE later[i - 1]
    <3> HIDE DEF new
    <3>1. /\ new \in Seq(S) /\ Len(new) = Len(front) + Len(later)
          /\ \A i \in 1 .. Len(front) + Len(later) :
                new[i] = IF i <= Len(front) THEN front[i] ELSE later[i - Len(front)]
      <4>1. front \in Seq(S) /\ later \in Seq(S)
        BY <2>2, <2>5
      <4>2. /\ front \o later \in Seq(S) /\ Len(front \o later) = Len(front) + Len(later)
            /\ \A i \in 1 .. Len(front) + Len(later) :
                 (front \o later)[i] = IF i <= Len(front) THEN front[i] ELSE later[i - Len(front)]
        BY ONLY <4>1, ConcatProperties, Zenon
      <4> QED BY <2>3, <4>2, Zenon
    <3> QED BY <2>2, <3>1
  <2> HIDE DEF new, len
  <2>7. /\ new[1] = front[1] /\ 1 \in 1 .. 1 + len
        /\ \A i \in 2 .. 1 + len : new[i] = later[i - 1] /\ i - 1 \in 1 .. len
        /\ \A i \in 1 .. len : new[i + 1] = later[i] /\ i + 1 \in 1 .. 1 + len
        /\ \A i \in 1 .. 1 + len : i = 1 \/ i \in 2 .. 1 + len
    BY <2>5, <2>6
  <2>8. \E i \in 1 .. 1 + len : new[i].to = n
    BY <2>5, <2>7
  <2>9. ASSUME NEW p \in 1 .. n PROVE \E i \in 1 .. 1 + len : p \in new[i].from .. new[i].to
    <3>1. CASE p < first[1]
      <4>1. new[1].from = 1 /\ new[1].to = first[1] - 1
        BY <2>2, <2>7
      <4>2. p \in new[1].from .. new[1].to
        BY <2>1, <3>1, <4>1
      <4> QED BY <2>7, <4>2
    <3>2. CASE ~(p < first[1])
      <4>1. p \in first[1] .. n
        BY <2>1, <3>2
      <4>2. PICK i \in 1 .. len : p \in later[i].from .. later[i].to
        BY <2>5, <4>1
      <4>3. new[i + 1] = later[i] /\ i + 1 \in 1 .. 1 + len
        BY <2>7
      <4> QED BY <4>2, <4>3
    <3> QED BY <3>1, <3>2
  <2>10. ASSUME NEW i \in 1 .. 1 + len, NEW j \in 1 .. 1 + len, NEW p \in 1 .. n,
               p \in new[i].from .. new[i].to, p \in new[j].from .. new[j].to
        PROVE  i = j
    <3>1. \A t \in 2 .. 1 + len : p \in new[t].from .. new[t].to => first[1] <= p
      <4> SUFFICES ASSUME NEW t \in 2 .. 1 + len, p \in new[t].from .. new[t].to PROVE first[1] <= p
        OBVIOUS
      <4>1. new[t].from \in first[1] .. n
        BY <2>5, <2>7
      <4> QED BY <2>1, <4>1
    <3>2. p \in new[1].from .. new[1].to => p < first[1]
      BY <2>1, <2>2, <2>7
    <3>3. (i = 1 \/ i \in 2 .. 1 + len) /\ (j = 1 \/ j \in 2 .. 1 + len)
      BY <2>7
    <3>4. CASE i = 1 \/ j = 1
      BY <2>1, <2>10, <3>1, <3>2, <3>3, <3>4
    <3>5. CASE i \in 2 .. 1 + len /\ j \in 2 .. 1 + len
      <4>1. /\ new[i] = later[i - 1] /\ i - 1 \in 1 .. len
            /\ new[j] = later[j - 1] /\ j - 1 \in 1 .. len
        BY <2>7, <3>5
      <4>2. /\ p \in later[i - 1].from .. later[i - 1].to
            /\ p \in later[j - 1].from .. later[j - 1].to
        BY <2>10, <4>1
      <4>3. i - 1 = j - 1
        BY <2>5, <4>1, <4>2
      <4> QED BY <2>5, <3>5, <4>3
    <3> QED BY <3>3, <3>4, <3>5
  <2>11. \A i \in 1 .. 1 + len : new[i].from \in 1 .. n
    <3> SUFFICES ASSUME NEW i \in 1 .. 1 + len PROVE new[i].from \in 1 .. n
      OBVIOUS
    <3>1. CASE i = 1
      BY <2>1, <2>2, <2>7, <3>1
    <3>2. CASE i \in 2 .. 1 + len
      <4>1. new[i].from \in first[1] .. n
        BY <2>5, <2>7, <3>2
      <4> QED BY <2>1, <4>1
    <3> QED BY <2>7, <3>1, <3>2
  <2>12. Splits(new, 1, n)
    <3>1. 1 + len \in Nat \ {0}
      BY <2>5
    <3> QED BY <2>6, <2>8, <2>9, <2>10, <2>11, <3>1 DEF Splits, S
  <2> QED BY <2>12 DEF new
<1> QED BY <1>1, <1>3, <1>4

-----------------------------------------------------------------------------
(* The inductive invariant.                                                *)

Page == 1 .. LastPage
Id   == [span : Span, copy : Nat]

(* The rows with the same text have numbers of their own.                  *)
Same(span) == {x \in Ids : x.span = span}

NumbersApart ==
    /\ \A p, q \in problems : p.id = q.id => p = q
    /\ \A span \in Span : IsFiniteSet(Same(span))
    /\ \A x \in Ids : x.copy <= Cardinality(Same(x.span))

(* What a score command has loaded has a card.                             *)
LoadedCards == \A s \in Slots : pc[s] = "score" => rows[s] \subseteq cards

(* Problems with a card, and those a distill command has loaded.           *)
Chosen(id) == id \in cards \/ \E s \in Slots : pc[s] = "distill" /\ id \in rows[s]

WellChosen(p) ==
    /\ p.derivation => ~p.solvable
    /\ p.essential => ~p.solvable
    /\ Chosen(p.id) => ~p.derivation
    /\ ~disorder /\ Chosen(p.id) => p.solvable /\ ~PointsAtFigure(p.id.span)

ChosenWell == \A p \in problems : WellChosen(p)

(* What a detect command is still to ask about, each candidate once.       *)
Left(s) == {todo[s][i] : i \in 1 .. Len(todo[s])}

LeftOnce == \A s \in Slots : \A i, j \in 1 .. Len(todo[s]) : todo[s][i] = todo[s][j] => i = j

(* Of the candidates it has read, a command has shown the others.          *)
ShownSoFar ==
    /\ \A x \in Ids : x.span \in shown
    /\ \A s \in Slots : pc[s] = "detect" => Candidates(seen[s]) \subseteq shown \cup Left(s)
    /\ CandidatesAreAnswered

(* A detect command that runs alone is not to ask about what is stored;    *)
(* when it has read the whole book, all it knows are candidates of it.     *)
StoredSoFar ==
    ~overlapped =>
        /\ \A s, t \in Slots : pc[s] = "detect" /\ pc[t] = "detect" => s = t
        /\ \A s \in Slots : pc[s] = "detect" => \A x \in Ids : x.span \notin Left(s)
        /\ \A x, y \in Ids : x.span = y.span => x = y

StoredWhole ==
    ~early =>
        /\ \A x \in Ids : x.span \in Candidates(LastPage)
        /\ \A s \in Slots : pc[s] = "detect" => Left(s) \subseteq Candidates(LastPage)

(* Runs are numbered as they come.                                         *)
Runs == {x.run : x \in sections}

RunsNumbered == IsFiniteSet(Runs) /\ \A r \in Runs : r <= Cardinality(Runs)

BookInv ==
    /\ TypeOK
    /\ NumbersApart
    /\ LoadedCards
    /\ LeftOnce
    /\ ChosenWell
    /\ ShownSoFar
    /\ StoredSoFar
    /\ StoredWhole
    /\ RunsNumbered
    /\ PagesHaveOneSection

-----------------------------------------------------------------------------
(* What the steps do.                                                      *)

(* The candidates to confirm: those that are not stored, in order.         *)
IsCut(new, n, taken) ==
    /\ new \in Seq(Span) /\ Len(new) \in Nat
    /\ \A i \in 1 .. Len(new) : new[i] \in Candidates(n) /\ new[i] \notin taken
    /\ \A c \in Candidates(n) : c \in taken \/ \E i \in 1 .. Len(new) : new[i] = c
    /\ \A i, j \in 1 .. Len(new) : new[i] = new[j] => i = j

LEMMA CutIs ==
    ASSUME book \in Texts, NEW n \in Nat, NEW taken, NEW new \in Cut(Candidates(n) \ taken)
    PROVE  IsCut(new, n, taken)
<1> DEFINE set == Candidates(n) \ taken
           key == [c \in set |-> c.from]
<1>1. IsFiniteSet(set) /\ set \subseteq Span
  BY CandidatesAreSpans, FS_Subset
<1>2. new \in Sorted(set, key)
  BY DEF Cut
<1>3. \A c \in Candidates(n) : c \in taken \/ c \in set
  OBVIOUS
<1>4. \A c \in set : c \in Candidates(n) /\ c \notin taken
  OBVIOUS
<1> HIDE DEF set, key
<1>5. /\ new \in Seq(set) /\ Len(new) \in Nat
      /\ \A x \in set : \E i \in 1 .. Len(new) : new[i] = x
      /\ \A i, j \in 1 .. Len(new) : new[i] = new[j] => i = j
  BY <1>1, <1>2, SortedIs
<1>6. \A i \in 1 .. Len(new) : new[i] \in set
  BY <1>5, ElementOfSeq
<1>7. new \in Seq(Span)
  BY <1>1, <1>5
<1> QED BY <1>3, <1>4, <1>5, <1>6, <1>7 DEF IsCut

(* What is left after a batch.                                             *)
LEMMA RestIs ==
    ASSUME NEW S, NEW q \in Seq(S), NEW n \in 1 .. Len(q), NEW r, r = SubSeq(q, n + 1, Len(q))
    PROVE  /\ r \in Seq(S) /\ Len(r) = Len(q) - n
           /\ \A i \in 1 .. Len(r) : r[i] = q[n + i] /\ n + i \in n + 1 .. Len(q)
           /\ \A i \in n + 1 .. Len(q) : q[i] = r[i - n] /\ i - n \in 1 .. Len(r)
<1> DEFINE len == Len(q)
<1>1. len \in Nat /\ n \in Int /\ len \in Int /\ n + 1 \in Int
  BY LenProperties
<1>2. \A i \in 1 .. len : q[i] \in S
  BY ElementOfSeq
<1>3. \A i \in n + 1 .. len : q[i] \in S
  BY <1>1, <1>2
<1> HIDE DEF len
<1>4. /\ SubSeq(q, n + 1, len) \in Seq(S)
      /\ Len(SubSeq(q, n + 1, len)) = IF n + 1 <= len THEN len - (n + 1) + 1 ELSE 0
      /\ \A i \in 1 .. len - (n + 1) + 1 : SubSeq(q, n + 1, len)[i] = q[(n + 1) + i - 1]
  BY <1>1, <1>3, SubSeqProperties
<1>5. n \in 1 .. len
  BY DEF len
<1>6. r \in Seq(S) /\ Len(r) = len - n /\ \A i \in 1 .. len - n : r[i] = q[(n + 1) + i - 1]
  BY <1>1, <1>4, <1>5 DEF len
<1>7. \A i \in 1 .. len - n : r[i] = q[n + i] /\ n + i \in n + 1 .. len
  <2> SUFFICES ASSUME NEW i \in 1 .. len - n PROVE r[i] = q[n + i] /\ n + i \in n + 1 .. len
    OBVIOUS
  <2>1. (n + 1) + i - 1 = n + i
    BY <1>1, <1>5
  <2> QED BY <1>1, <1>5, <1>6, <2>1
<1>8. \A i \in n + 1 .. len : q[i] = r[i - n] /\ i - n \in 1 .. len - n
  <2> SUFFICES ASSUME NEW i \in n + 1 .. len PROVE q[i] = r[i - n] /\ i - n \in 1 .. len - n
    OBVIOUS
  <2>1. i - n \in 1 .. len - n /\ n + (i - n) = i
    BY <1>1, <1>5
  <2> QED BY <1>7, <2>1
<1> QED BY <1>6, <1>7, <1>8 DEF len

(* A row that is confirmed.                                                *)
Row(s, i, results) ==
    [id         |-> [span |-> todo[s][i], copy |-> 1 + Cardinality(Same(todo[s][i]))],
     derivation |-> results[i - 1] = "derivation",
     essential  |-> FALSE,
     solvable   |-> results[i - 1] # "derivation"]

Confirms(s, n, results, yes) ==
    /\ problems' = problems \cup {Row(s, i, results) : i \in yes}
    /\ todo' = [todo EXCEPT ![s] = SubSeq(@, n + 1, Len(@))]
    /\ UNCHANGED <<book, ingested, starts, pc, seen, homes, rows>>

(* A batch is some of what is left, and it is confirmed or lost whole.     *)
LEMMA ConfirmIs ==
    ASSUME NEW s \in Slots, todo[s] \in Seq(Span), ConfirmBatch(s)
    PROVE  /\ pc[s] = "detect" /\ UNCHANGED <<sections, cards, scores>>
           /\ \/ End(s) /\ UNCHANGED problems
              \/ \E n \in 1 .. Len(todo[s]) : \E yes \in SUBSET (1 .. n) : \E results :
                    Confirms(s, n, results, yes)
<1> DEFINE n == Min({BatchSize, Len(todo[s])})
<1>1. BatchSize \in Nat \ {0} /\ Len(todo[s]) \in Nat \ {0}
  <2>1. Len(todo[s]) # 0
    BY EmptySeq DEF ConfirmBatch
  <2> QED BY <2>1, LenProperties, BookPipelineAssumption
<1>2. n \in 1 .. Len(todo[s])
  <2> DEFINE S == {BatchSize, Len(todo[s])}
  <2>1. S \in SUBSET Nat /\ S # {} /\ Len(todo[s]) \in S /\ \A x \in S : x >= 1
    BY <1>1
  <2> HIDE DEF S
  <2>2. Min(S) \in S /\ Min(S) <= Len(todo[s])
    BY <2>1, MinIsLeast
  <2> QED BY <1>1, <2>1, <2>2 DEF S
<1>3. PICK results :
        LET yes == {i \in 1 .. n : Confirmed(results[i - 1])} IN
         IF \E i \in yes : PageOf(todo[s][i]) \notin homes[s]
         THEN End(s) /\ UNCHANGED problems
         ELSE Confirms(s, n, results, yes)
  BY DEF ConfirmBatch, Confirms, Row, Same
<1> QED BY <1>2, <1>3 DEF ConfirmBatch

(* The type invariant, spread out.                                         *)
Problem == [id : Id, derivation : BOOLEAN, essential : BOOLEAN, solvable : BOOLEAN]
Section == [run : Nat, no : Nat, from : Page, to : 0 .. LastPage]

LEMMA TypesAre ==
    TypeOK <=>
        /\ book \in Texts
        /\ ingested \in 0 .. LastPage
        /\ sections \subseteq Section
        /\ problems \subseteq Problem
        /\ cards \subseteq Ids
        /\ scores \subseteq cards
        /\ starts \in [Commands -> Nat]
        /\ \A c \in Commands : starts[c] <= MaxStarts[c]
        /\ pc \in [Slots -> Commands \cup {"idle"}]
        /\ seen \in [Slots -> 0 .. LastPage]
        /\ homes \in [Slots -> SUBSET Page]
        /\ todo \in [Slots -> Seq(Span)]
        /\ rows \in [Slots -> SUBSET Ids]
BY DEF TypeOK, Span, Id, Page, Problem, Section

(* The rows of a batch are typed, and all that was there is kept.          *)
Typed(s, yes, results) ==
    /\ \A i \in yes : Row(s, i, results) \in Problem /\ todo[s][i] \in Span /\ i \in 1 .. Len(todo[s])
    /\ Ids \subseteq Ids'
    /\ \A x \in Ids' : x \in Ids \/ \E i \in yes : x = Row(s, i, results).id

LEMMA ConfirmTypes ==
    ASSUME TypeOK, NumbersApart, NEW s \in Slots, NEW n \in 1 .. Len(todo[s]),
           NEW yes \in SUBSET (1 .. n), NEW results, Confirms(s, n, results, yes)
    PROVE  /\ Typed(s, yes, results)
           /\ problems' \subseteq Problem
           /\ todo' \in [Slots -> Seq(Span)]
<1>1. todo \in [Slots -> Seq(Span)] /\ problems \subseteq Problem
  BY TypesAre
<1>2. todo[s] \in Seq(Span) /\ Len(todo[s]) \in Nat
  BY <1>1, LenProperties
<1>3. ASSUME NEW i \in yes PROVE Row(s, i, results) \in Problem /\ todo[s][i] \in Span /\ i \in 1 .. Len(todo[s])
  <2>1. todo[s][i] \in Span /\ i \in 1 .. Len(todo[s])
    BY <1>2, ElementOfSeq
  <2>2. Cardinality(Same(todo[s][i])) \in Nat
    BY <2>1, FS_CardinalityType DEF NumbersApart
  <2>3. 1 + Cardinality(Same(todo[s][i])) \in Nat
    BY <2>2
  <2>4. [span |-> todo[s][i], copy |-> 1 + Cardinality(Same(todo[s][i]))] \in Id
    BY <2>1, <2>3 DEF Id
  <2> QED BY <2>1, <2>4 DEF Row, Problem
<1>4. SubSeq(todo[s], n + 1, Len(todo[s])) \in Seq(Span)
  BY <1>2, RestIs
<1>5. \A p \in problems' : p \in problems \/ \E i \in yes : p = Row(s, i, results)
  BY DEF Confirms
<1>6. Ids \subseteq Ids' /\ \A x \in Ids' : x \in Ids \/ \E i \in yes : x = Row(s, i, results).id
  <2>1. problems \subseteq problems'
    BY DEF Confirms
  <2> QED BY <1>5, <2>1 DEF Ids
<1> QED BY <1>1, <1>3, <1>4, <1>5, <1>6 DEF Confirms, Typed

(* Figure classification renames no problem.                               *)
LEMMA FiguresTypes ==
    ASSUME TypeOK, NEW s \in Slots, FinishFigures(s)
    PROVE  problems' \subseteq Problem /\ Ids' = Ids
<1> DEFINE f(p) == IF p.id \in rows[s]
                   THEN [p EXCEPT !.essential = PointsAtFigure(p.id.span),
                                  !.solvable = @ /\ ~PointsAtFigure(p.id.span)]
                   ELSE p
<1>1. problems \subseteq Problem /\ problems' = {f(p) : p \in problems}
  BY TypesAre DEF FinishFigures
<1>2. \A p \in problems : f(p) \in Problem /\ f(p).id = p.id
  BY <1>1 DEF Problem, PointsAtFigure
<1> HIDE DEF f
<1> QED BY <1>1, <1>2 DEF Ids

(* A batch of rows, of which those in the table have an entry then.        *)
LEMMA BatchTypes ==
    ASSUME NEW s \in Slots, NEW table, NEW got \in SUBSET rows[s], Batch(s, table, got)
    PROVE  \/ End(s)
           \/ /\ \E batch \in SUBSET rows[s] : rows' = [rows EXCEPT ![s] = @ \ batch]
              /\ UNCHANGED <<book, ingested, starts, pc, seen, homes, todo>>
BY DEF Batch

(* What a structure run adds.                                              *)
Added(run, new) ==
    {[run |-> run, no |-> i, from |-> new[i].from, to |-> new[i].to] : i \in 1 .. Len(new)}

LEMMA StructureIs ==
    ASSUME TypeOK, RunsNumbered, NEW s \in Slots, FinishStructure(s)
    PROVE  /\ End(s) /\ UNCHANGED <<problems, cards, scores>>
           /\ sections' \subseteq Section
           /\ \/ sections' = sections
              \/ /\ seen[s] \in 1 .. LastPage
                 /\ \E new : /\ Splits(new, 1, seen[s])
                             /\ sections' = sections \cup Added(1 + Cardinality(Runs), new)
<1> DEFINE n == seen[s]
           run == 1 + Cardinality(Runs)
<1>1. book \in Texts /\ n \in 0 .. LastPage /\ sections \subseteq Section /\ LastPage \in Nat \ {0}
  BY TypesAre, BookIsOne
<1>2. run \in Nat
  BY FS_CardinalityType DEF RunsNumbered
<1>3. PICK k \in 0 .. MaxEntries : \E entries \in [1 .. k -> DOMAIN book.fit \cup {Malformed}] :
         \E first \in FirstPages(entries, n) :
              LET new == SectionsFrom(first, n)
              IN sections' = sections \cup
                     {[run |-> run, no |-> i, from |-> new[i].from, to |-> new[i].to]
                         : i \in DOMAIN new}
  BY DEF FinishStructure, Runs
<1>4. PICK entries \in [1 .. k -> DOMAIN book.fit \cup {Malformed}] :
         \E first \in FirstPages(entries, n) :
              LET new == SectionsFrom(first, n)
              IN sections' = sections \cup
                     {[run |-> run, no |-> i, from |-> new[i].from, to |-> new[i].to]
                         : i \in DOMAIN new}
  BY <1>3
<1>5. PICK first \in FirstPages(entries, n) :
              sections' = sections \cup
                     {[run |-> run, no |-> i, from |-> SectionsFrom(first, n)[i].from,
                       to |-> SectionsFrom(first, n)[i].to]
                         : i \in DOMAIN SectionsFrom(first, n)}
  BY <1>4
<1> DEFINE new == SectionsFrom(first, n)
<1> HIDE DEF run, n
<1>6. CASE n = 0
  <2>1. new = << >>
    BY <1>6 DEF SectionsFrom
  <2>2. sections' = sections
    BY <1>5, <2>1
  <2> QED BY <1>1, <2>2 DEF FinishStructure
<1>7. CASE n # 0
  <2>1. n \in Nat \ {0} /\ n \in 1 .. LastPage /\ k \in Nat
    BY <1>1, <1>7, BookPipelineAssumption
  <2>2. /\ first \in Seq(1 .. n)
        /\ \A i, j \in 1 .. Len(first) : i < j => first[i] <= first[j]
    BY <1>1, <2>1, FirstPagesAre
  <2>3. Splits(new, 1, n)
    BY <2>1, <2>2, SectionsSplit
  <2> HIDE DEF new
  <2>4. new \in Seq([from : 1 .. n, to : 0 .. n]) /\ DOMAIN new = 1 .. Len(new)
        /\ \A i \in 1 .. Len(new) : new[i] \in [from : 1 .. n, to : 0 .. n]
    <3>1. new \in Seq([from : 1 .. n, to : 0 .. n])
      BY <2>3 DEF Splits
    <3> QED BY <3>1, LenProperties, ElementOfSeq
  <2>5. sections' = sections \cup Added(run, new)
    BY <1>5, <2>4 DEF Added, new
  <2>6. Added(run, new) \subseteq Section
    <3> SUFFICES ASSUME NEW i \in 1 .. Len(new)
                 PROVE  [run |-> run, no |-> i, from |-> new[i].from, to |-> new[i].to] \in Section
      BY DEF Added
    <3>1. new[i].from \in 1 .. n /\ new[i].to \in 0 .. n
      BY <2>4
    <3>2. new[i].from \in Page /\ new[i].to \in 0 .. LastPage /\ i \in Nat
      BY <1>1, <2>1, <3>1 DEF Page
    <3> QED BY <1>2, <3>2 DEF Section
  <2> QED BY <1>1, <2>1, <2>3, <2>5, <2>6 DEF FinishStructure, n, run
<1> QED BY <1>6, <1>7

(* Every step keeps the tables and the memory of commands well formed.     *)
LEMMA TypesStay == TypeOK /\ NumbersApart /\ LoadedCards /\ RunsNumbered /\ Next => TypeOK'
<1> SUFFICES ASSUME TypeOK, NumbersApart, LoadedCards, RunsNumbered, Next PROVE TypeOK'
  OBVIOUS
<1>t. /\ book \in Texts
      /\ ingested \in 0 .. LastPage
      /\ sections \subseteq Section
      /\ problems \subseteq Problem
      /\ cards \subseteq Ids
      /\ scores \subseteq cards
      /\ starts \in [Commands -> Nat]
      /\ \A c \in Commands : starts[c] <= MaxStarts[c]
      /\ pc \in [Slots -> Commands \cup {"idle"}]
      /\ seen \in [Slots -> 0 .. LastPage]
      /\ homes \in [Slots -> SUBSET Page]
      /\ todo \in [Slots -> Seq(Span)]
      /\ rows \in [Slots -> SUBSET Ids]
  BY TypesAre
<1>n. LastPage \in Nat \ {0} /\ MaxStarts \in [Commands -> Nat]
  BY <1>t, BookIsOne, BookPipelineAssumption
(* It is enough that the book stays, and the rest is typed as before.      *)
<1>q. ASSUME book' = book,
             ingested' \in 0 .. LastPage,
             sections' \subseteq Section,
             problems' \subseteq Problem,
             cards' \subseteq Ids',
             scores' \subseteq cards',
             starts' \in [Commands -> Nat],
             \A c \in Commands : starts'[c] <= MaxStarts[c],
             pc' \in [Slots -> Commands \cup {"idle"}],
             seen' \in [Slots -> 0 .. LastPage],
             homes' \in [Slots -> SUBSET Page],
             todo' \in [Slots -> Seq(Span)],
             rows' \in [Slots -> SUBSET Ids']
      PROVE  TypeOK'
  <2>1. LastPage' = LastPage /\ Span' = Span
    BY <1>q DEF LastPage, Span
  <2>2. Page' = Page /\ Id' = Id
    BY <2>1 DEF Page, Id
  <2>3. Problem' = Problem /\ Section' = Section
    BY <2>1, <2>2 DEF Problem, Section
  <2>4. book' \in Texts /\ ingested' \in 0 .. LastPage'
    BY <1>q, <1>t, <2>1
  <2>5. /\ sections' \subseteq Section'
        /\ problems' \subseteq Problem'
        /\ seen' \in [Slots -> 0 .. LastPage']
        /\ homes' \in [Slots -> SUBSET Page']
        /\ todo' \in [Slots -> Seq(Span')]
    BY <1>q, <2>1, <2>2, <2>3
  <2> QED BY <1>q, <2>4, <2>5 DEF TypeOK, Span, Id, Page, Problem, Section
<1>e. ASSUME NEW s \in Slots, End(s)
      PROVE  /\ book' = book /\ ingested' = ingested /\ starts' = starts
             /\ pc' \in [Slots -> Commands \cup {"idle"}]
             /\ seen' \in [Slots -> 0 .. LastPage]
             /\ homes' \in [Slots -> SUBSET Page]
             /\ todo' \in [Slots -> Seq(Span)]
             /\ rows' \in [Slots -> SUBSET Ids]
  <2>1. << >> \in Seq(Span)
    OBVIOUS
  <2> QED BY <1>e, <1>t, <1>n, <2>1 DEF End
<1>b. ASSUME NEW s \in Slots, NEW c \in Commands, Begin(s, c)
      PROVE  /\ starts' \in [Commands -> Nat]
             /\ \A d \in Commands : starts'[d] <= MaxStarts[d]
             /\ pc' \in [Slots -> Commands \cup {"idle"}]
  BY <1>b, <1>t, <1>n DEF Begin
<1>i. problems' = problems => Ids' = Ids
  BY DEF Ids
<1>1. CASE IngestPage
  <2>1. ingested' \in 0 .. LastPage
    BY <1>1, <1>t, <1>n DEF IngestPage
  <2> QED BY <1>1, <1>t, <1>i, <1>q, <2>1 DEF IngestPage, tables, local
<1>2. ASSUME NEW s \in Slots, StartStructure(s) PROVE TypeOK'
  <2>1. Begin(s, "structure") /\ "structure" \in Commands
    BY <1>2 DEF StartStructure, Commands
  <2>2. seen' \in [Slots -> 0 .. LastPage]
    BY <1>2, <1>t DEF StartStructure
  <2> QED BY <1>2, <1>t, <1>i, <1>b, <1>q, <2>1, <2>2 DEF StartStructure, tables
<1>3. ASSUME NEW s \in Slots, FinishStructure(s) PROVE TypeOK'
  <2>1. End(s) /\ UNCHANGED <<problems, cards, scores>>
    BY <1>3 DEF FinishStructure
  <2>2. sections' \subseteq Section
    BY <1>3, <1>t, <1>n, StructureIs
  <2> QED BY <1>t, <1>i, <1>e, <1>q, <2>1, <2>2
<1>4. ASSUME NEW s \in Slots, StartDetect(s) PROVE TypeOK'
  <2>1. Begin(s, "detect") /\ "detect" \in Commands
    BY <1>4 DEF StartDetect, Commands
  <2>2. seen' \in [Slots -> 0 .. LastPage]
    BY <1>4, <1>t DEF StartDetect
  <2>3. homes' \in [Slots -> SUBSET Page]
    BY <1>4, <1>t DEF StartDetect, Page
  <2>4. PICK new \in Cut(Candidates(ingested) \ {x.span : x \in Ids}) : todo' = [todo EXCEPT ![s] = new]
    BY <1>4 DEF StartDetect
  <2>5. new \in Seq(Span)
    <3>1. ingested \in Nat
      BY <1>t, <1>n
    <3> QED BY <1>t, <2>4, <3>1, CutIs DEF IsCut
  <2>6. todo' \in [Slots -> Seq(Span)]
    BY <1>t, <2>4, <2>5
  <2> QED BY <1>4, <1>t, <1>i, <1>b, <1>q, <2>1, <2>2, <2>3, <2>6 DEF StartDetect, tables
<1>5. ASSUME NEW s \in Slots, ConfirmBatch(s) PROVE TypeOK'
  <2>1. /\ UNCHANGED <<sections, cards, scores>>
        /\ \/ End(s) /\ UNCHANGED problems
           \/ \E n \in 1 .. Len(todo[s]) : \E yes \in SUBSET (1 .. n) : \E results :
                 Confirms(s, n, results, yes)
    BY <1>5, <1>t, ConfirmIs
  <2>2. CASE End(s) /\ UNCHANGED problems
    BY <1>t, <1>i, <1>e, <1>q, <2>1, <2>2
  <2>3. CASE \E n \in 1 .. Len(todo[s]) : \E yes \in SUBSET (1 .. n) : \E results :
                 Confirms(s, n, results, yes)
    <3>1. PICK n \in 1 .. Len(todo[s]) : \E yes \in SUBSET (1 .. n) : \E results :
                 Confirms(s, n, results, yes)
      BY <2>3
    <3>a. PICK yes \in SUBSET (1 .. n) : \E results : Confirms(s, n, results, yes)
      BY <3>1
    <3>2. PICK results : Confirms(s, n, results, yes)
      BY <3>a
    <3>3. problems' \subseteq Problem /\ Ids \subseteq Ids' /\ todo' \in [Slots -> Seq(Span)]
      BY <3>2, ConfirmTypes DEF Typed
    <3> QED BY <1>t, <1>q, <2>1, <3>2, <3>3 DEF Confirms
  <2> QED BY <2>1, <2>2, <2>3
<1>6. ASSUME NEW s \in Slots, FinishDetect(s) PROVE TypeOK'
  BY <1>6, <1>t, <1>i, <1>e, <1>q DEF FinishDetect, tables
<1>7. ASSUME NEW s \in Slots, StartFigures(s) PROVE TypeOK'
  <2>1. Begin(s, "figures") /\ "figures" \in Commands
    BY <1>7 DEF StartFigures, Commands
  <2> QED BY <1>7, <1>t, <1>i, <1>b, <1>q, <2>1 DEF StartFigures, tables
<1>8. ASSUME NEW s \in Slots, FinishFigures(s) PROVE TypeOK'
  <2>1. problems' \subseteq Problem /\ Ids' = Ids
    BY <1>8, FiguresTypes
  <2>2. End(s) /\ UNCHANGED <<sections, cards, scores>>
    BY <1>8 DEF FinishFigures
  <2> QED BY <1>t, <1>e, <1>q, <2>1, <2>2
<1>9. ASSUME NEW s \in Slots, StartDistill(s) PROVE TypeOK'
  <2>1. Begin(s, "distill") /\ "distill" \in Commands
    BY <1>9 DEF StartDistill, Commands
  <2>2. rows' \in [Slots -> SUBSET Ids]
    BY <1>9, <1>t DEF StartDistill, Ids
  <2> QED BY <1>9, <1>t, <1>i, <1>b, <1>q, <2>1, <2>2 DEF StartDistill, tables
<1>10. ASSUME NEW s \in Slots, DistillBatch(s) PROVE TypeOK'
  <2>1. PICK got \in SUBSET rows[s] : Batch(s, cards, got) /\ cards' = Stored(cards, got)
    BY <1>10 DEF DistillBatch
  <2>2. cards' \subseteq Ids /\ cards \subseteq cards'
    BY <1>t, <2>1 DEF Stored
  <2>3. UNCHANGED <<sections, problems, scores>>
    BY <1>10 DEF DistillBatch
  <2>4. CASE End(s)
    BY <1>t, <1>i, <1>e, <1>q, <2>2, <2>3, <2>4
  <2>5. CASE /\ \E batch \in SUBSET rows[s] : rows' = [rows EXCEPT ![s] = @ \ batch]
             /\ UNCHANGED <<book, ingested, starts, pc, seen, homes, todo>>
    <3>1. rows' \in [Slots -> SUBSET Ids]
      BY <1>t, <2>5
    <3> QED BY <1>t, <1>i, <1>q, <2>2, <2>3, <2>5, <3>1
  <2> QED BY <2>1, <2>4, <2>5, BatchTypes
<1>11. ASSUME NEW s \in Slots, StartScore(s) PROVE TypeOK'
  <2>1. Begin(s, "score") /\ "score" \in Commands
    BY <1>11 DEF StartScore, Commands
  <2>2. rows' \in [Slots -> SUBSET Ids]
    BY <1>11, <1>t DEF StartScore
  <2> QED BY <1>11, <1>t, <1>i, <1>b, <1>q, <2>1, <2>2 DEF StartScore, tables
<1>12. ASSUME NEW s \in Slots, ScoreBatch(s) PROVE TypeOK'
  <2>1. PICK got \in SUBSET rows[s] : Batch(s, scores, got) /\ scores' = Stored(scores, got)
    BY <1>12 DEF ScoreBatch
  <2>2. scores' \subseteq cards
    BY <1>12, <1>t, <2>1 DEF Stored, LoadedCards, ScoreBatch
  <2>3. UNCHANGED <<sections, problems, cards>>
    BY <1>12 DEF ScoreBatch
  <2>4. CASE End(s)
    BY <1>t, <1>i, <1>e, <1>q, <2>2, <2>3, <2>4
  <2>5. CASE /\ \E batch \in SUBSET rows[s] : rows' = [rows EXCEPT ![s] = @ \ batch]
             /\ UNCHANGED <<book, ingested, starts, pc, seen, homes, todo>>
    <3>1. rows' \in [Slots -> SUBSET Ids]
      BY <1>t, <2>5
    <3> QED BY <1>t, <1>i, <1>q, <2>2, <2>3, <2>5, <3>1
  <2> QED BY <2>1, <2>4, <2>5, BatchTypes
<1>13. ASSUME NEW s \in Slots, Raise(s) PROVE TypeOK'
  BY <1>13, <1>t, <1>i, <1>e, <1>q DEF Raise, tables
<1> QED BY <1>1, <1>2, <1>3, <1>4, <1>5, <1>6, <1>7, <1>8, <1>9, <1>10, <1>11, <1>12, <1>13 DEF Next

-----------------------------------------------------------------------------
(* Steps, by what they do to problems, cards and the commands under way.   *)

Others(s) == \A t \in Slots : t # s => /\ pc'[t] = pc[t] /\ todo'[t] = todo[t]
                                       /\ rows'[t] = rows[t] /\ seen'[t] = seen[t]

Ends(s) == Others(s) /\ pc'[s] = "idle" /\ todo'[s] = << >> /\ rows'[s] = {} /\ UNCHANGED book

Opens(s, c) == Others(s) /\ pc[s] = "idle" /\ pc'[s] = c /\ UNCHANGED <<book, problems, cards>>

(* A command that is under way goes on.                                    *)
GoesOn(s) == Others(s) /\ pc'[s] = pc[s] /\ UNCHANGED book

Reads(s) ==
    /\ Opens(s, "detect") /\ UNCHANGED ingested /\ seen'[s] = ingested
    /\ todo'[s] \in Cut(Candidates(ingested) \ {x.span : x \in Ids})

Asks(s) ==
    /\ pc[s] = "detect" /\ GoesOn(s) /\ seen'[s] = seen[s] /\ UNCHANGED cards
    /\ \E n \in 1 .. Len(todo[s]) : \E yes \in SUBSET (1 .. n) : \E results :
          /\ Confirms(s, n, results, yes)
          /\ todo'[s] = SubSeq(todo[s], n + 1, Len(todo[s]))

Distills(s) ==
    /\ pc[s] = "distill" /\ UNCHANGED problems
    /\ \E got \in SUBSET rows[s] : cards' = Stored(cards, got)
    /\ \/ Ends(s)
       \/ GoesOn(s) /\ rows'[s] \subseteq rows[s] /\ todo'[s] = todo[s]

Ranks(s) ==
    /\ UNCHANGED <<problems, cards>> /\ todo'[s] = todo[s]
    /\ \/ Opens(s, "score") /\ rows'[s] \subseteq cards
       \/ GoesOn(s) /\ pc[s] = "score" /\ rows'[s] \subseteq rows[s]

(* A command that ends touches no other.                                   *)
LEMMA EndIs == ASSUME TypeOK, NEW s \in Slots, End(s) PROVE Ends(s)
BY DEF TypeOK, End, Ends, Others

(* Every step is one of these, for the invariants below.                   *)
LEMMA StepIs ==
    ASSUME TypeOK, RunsNumbered, Next
    PROVE  \/ UNCHANGED <<book, problems, cards, pc, todo, rows, seen>>
           \/ \E s \in Slots :
                \/ Ends(s) /\ UNCHANGED <<problems, cards>>
                \/ Opens(s, "structure") /\ todo'[s] = todo[s]
                \/ Opens(s, "figures") /\ todo'[s] = todo[s]
                \/ Reads(s)
                \/ Asks(s)
                \/ Ends(s) /\ FinishFigures(s)
                \/ Opens(s, "distill") /\ StartDistill(s) /\ todo'[s] = todo[s]
                \/ Distills(s)
                \/ Ranks(s)
<1> DEFINE Goal ==
           \/ UNCHANGED <<book, problems, cards, pc, todo, rows, seen>>
           \/ \E s \in Slots :
                \/ Ends(s) /\ UNCHANGED <<problems, cards>>
                \/ Opens(s, "structure") /\ todo'[s] = todo[s]
                \/ Opens(s, "figures") /\ todo'[s] = todo[s]
                \/ Reads(s)
                \/ Asks(s)
                \/ Ends(s) /\ FinishFigures(s)
                \/ Opens(s, "distill") /\ StartDistill(s) /\ todo'[s] = todo[s]
                \/ Distills(s)
                \/ Ranks(s)
<1>t. /\ pc \in [Slots -> Commands \cup {"idle"}] /\ seen \in [Slots -> 0 .. LastPage]
      /\ todo \in [Slots -> Seq(Span)] /\ rows \in [Slots -> SUBSET Ids]
  BY TypesAre
<1>1. CASE IngestPage
  BY <1>1 DEF IngestPage, tables, local
<1>2. ASSUME NEW s \in Slots, StartStructure(s) PROVE Goal
  <2>1. Opens(s, "structure") /\ todo'[s] = todo[s]
    BY <1>2, <1>t DEF StartStructure, Begin, Opens, Others, tables
  <2> QED BY <2>1
<1>3. ASSUME NEW s \in Slots, FinishStructure(s) PROVE Goal
  <2>1. End(s) /\ UNCHANGED <<problems, cards, scores>>
    BY <1>3, StructureIs
  <2> QED BY <2>1, EndIs
<1>4. ASSUME NEW s \in Slots, StartDetect(s) PROVE Goal
  <2>1. PICK new \in Cut(Candidates(ingested) \ {x.span : x \in Ids}) : todo' = [todo EXCEPT ![s] = new]
    BY <1>4 DEF StartDetect
  <2>2. todo'[s] = new /\ \A t \in Slots : t # s => todo'[t] = todo[t]
    BY <1>t, <2>1
  <2>3. Opens(s, "detect") /\ UNCHANGED ingested /\ seen'[s] = ingested
    BY <1>4, <1>t, <2>2 DEF StartDetect, Begin, Opens, Others, tables
  <2>4. Reads(s)
    BY <2>1, <2>2, <2>3 DEF Reads
  <2> QED BY <2>4
<1>5. ASSUME NEW s \in Slots, ConfirmBatch(s) PROVE Goal
  <2>1. /\ pc[s] = "detect" /\ UNCHANGED <<sections, cards, scores>>
        /\ \/ End(s) /\ UNCHANGED problems
           \/ \E n \in 1 .. Len(todo[s]) : \E yes \in SUBSET (1 .. n) : \E results :
                 Confirms(s, n, results, yes)
    BY <1>5, <1>t, ConfirmIs
  <2>2. CASE End(s) /\ UNCHANGED problems
    BY <2>1, <2>2, EndIs
  <2>3. CASE \E n \in 1 .. Len(todo[s]) : \E yes \in SUBSET (1 .. n) : \E results :
                 Confirms(s, n, results, yes)
    <3>1. PICK n \in 1 .. Len(todo[s]) : \E yes \in SUBSET (1 .. n) : \E results :
                 Confirms(s, n, results, yes)
      BY <2>3
    <3>a. PICK yes \in SUBSET (1 .. n) : \E results : Confirms(s, n, results, yes)
      BY <3>1
    <3>2. PICK results : Confirms(s, n, results, yes)
      BY <3>a
    <3>3. /\ GoesOn(s) /\ seen'[s] = seen[s]
          /\ todo'[s] = SubSeq(todo[s], n + 1, Len(todo[s]))
      BY <1>t, <3>2 DEF Confirms, GoesOn, Others
    <3>4. Asks(s)
      BY <2>1, <3>2, <3>3 DEF Asks
    <3> QED BY <3>4
  <2> QED BY <2>1, <2>2, <2>3
<1>6. ASSUME NEW s \in Slots, FinishDetect(s) PROVE Goal
  BY <1>6, EndIs DEF FinishDetect, tables
<1>7. ASSUME NEW s \in Slots, StartFigures(s) PROVE Goal
  <2>1. Opens(s, "figures") /\ todo'[s] = todo[s]
    BY <1>7, <1>t DEF StartFigures, Begin, Opens, Others, tables
  <2> QED BY <2>1
<1>8. ASSUME NEW s \in Slots, FinishFigures(s) PROVE Goal
  <2>1. Ends(s)
    BY <1>8, EndIs DEF FinishFigures
  <2> QED BY <1>8, <2>1
<1>9. ASSUME NEW s \in Slots, StartDistill(s) PROVE Goal
  <2>1. Opens(s, "distill") /\ todo'[s] = todo[s]
    BY <1>9, <1>t DEF StartDistill, Begin, Opens, Others, tables
  <2> QED BY <1>9, <2>1
<1>10. ASSUME NEW s \in Slots, DistillBatch(s) PROVE Goal
  <2>1. PICK got \in SUBSET rows[s] : Batch(s, cards, got) /\ cards' = Stored(cards, got)
    BY <1>10 DEF DistillBatch
  <2>2. pc[s] = "distill" /\ UNCHANGED problems
    BY <1>10 DEF DistillBatch
  <2>3. \/ Ends(s)
        \/ GoesOn(s) /\ rows'[s] \subseteq rows[s] /\ todo'[s] = todo[s]
    <3>1. CASE End(s)
      BY <3>1, EndIs
    <3>2. CASE /\ \E batch \in SUBSET rows[s] : rows' = [rows EXCEPT ![s] = @ \ batch]
               /\ UNCHANGED <<book, ingested, starts, pc, seen, homes, todo>>
      BY <1>t, <3>2 DEF GoesOn, Others
    <3> QED BY <2>1, <3>1, <3>2, BatchTypes
  <2>4. Distills(s)
    BY <2>1, <2>2, <2>3 DEF Distills
  <2> QED BY <2>4
<1>11. ASSUME NEW s \in Slots, StartScore(s) PROVE Goal
  <2>1. Opens(s, "score") /\ todo'[s] = todo[s] /\ rows'[s] \subseteq cards
    BY <1>11, <1>t DEF StartScore, Begin, Opens, Others, tables
  <2>2. Ranks(s)
    BY <2>1 DEF Ranks, Opens
  <2> QED BY <2>2
<1>12. ASSUME NEW s \in Slots, ScoreBatch(s) PROVE Goal
  <2>1. PICK got \in SUBSET rows[s] : Batch(s, scores, got)
    BY <1>12 DEF ScoreBatch
  <2>2. pc[s] = "score" /\ UNCHANGED <<problems, cards>>
    BY <1>12 DEF ScoreBatch
  <2>3. CASE End(s)
    BY <2>2, <2>3, EndIs
  <2>4. CASE /\ \E batch \in SUBSET rows[s] : rows' = [rows EXCEPT ![s] = @ \ batch]
             /\ UNCHANGED <<book, ingested, starts, pc, seen, homes, todo>>
    <3>1. GoesOn(s) /\ rows'[s] \subseteq rows[s] /\ todo'[s] = todo[s]
      BY <1>t, <2>4 DEF GoesOn, Others
    <3>2. Ranks(s)
      BY <2>2, <3>1 DEF Ranks
    <3> QED BY <3>2
  <2> QED BY <2>1, <2>3, <2>4, BatchTypes
<1>13. ASSUME NEW s \in Slots, Raise(s) PROVE Goal
  BY <1>13, EndIs DEF Raise, tables
<1> QED BY <1>1, <1>2, <1>3, <1>4, <1>5, <1>6, <1>7, <1>8, <1>9, <1>10, <1>11, <1>12, <1>13 DEF Next

-----------------------------------------------------------------------------
(* Rows keep numbers of their own.                                         *)

(* A batch adds a row of its own for each candidate it confirms.           *)
Adds(s, yes, results) ==
    /\ \A i \in yes : /\ i \in 1 .. Len(todo[s]) /\ todo[s][i] \in Span
                      /\ Row(s, i, results).id.span = todo[s][i]
                      /\ Row(s, i, results).id \notin Ids
    /\ \A i, j \in yes : todo[s][i] = todo[s][j] => i = j
    /\ \A x \in Ids' : x \in Ids \/ \E i \in yes : x = Row(s, i, results).id
    /\ Ids \subseteq Ids'
    /\ \A p \in problems' : p \in problems \/ \E i \in yes : p = Row(s, i, results)

LEMMA RowsAre ==
    ASSUME TypeOK, NumbersApart, LeftOnce, NEW s \in Slots, NEW n \in 1 .. Len(todo[s]),
           NEW yes \in SUBSET (1 .. n), NEW results, Confirms(s, n, results, yes)
    PROVE  Adds(s, yes, results)
<1>1. /\ \A i \in yes : Row(s, i, results) \in Problem /\ todo[s][i] \in Span /\ i \in 1 .. Len(todo[s])
      /\ Ids \subseteq Ids'
      /\ \A x \in Ids' : x \in Ids \/ \E i \in yes : x = Row(s, i, results).id
  <2>1. Typed(s, yes, results)
    BY ConfirmTypes, Zenon
  <2> QED BY <2>1 DEF Typed
<1>2. ASSUME NEW i \in yes
      PROVE  /\ Row(s, i, results).id.span = todo[s][i]
             /\ Row(s, i, results).id \notin Ids
  <2> DEFINE x == Row(s, i, results).id
  <2>1. x.span = todo[s][i] /\ x.copy = 1 + Cardinality(Same(todo[s][i]))
    BY DEF Row
  <2> HIDE DEF x
  <2>2. Cardinality(Same(x.span)) \in Nat
    BY <1>1, <2>1, FS_CardinalityType DEF NumbersApart
  <2>3. x \in Ids => x.copy <= Cardinality(Same(x.span))
    BY DEF NumbersApart
  <2>4. x \notin Ids
    BY <2>1, <2>2, <2>3
  <2> QED BY <2>1, <2>4 DEF x
<1>3. \A i, j \in yes : todo[s][i] = todo[s][j] => i = j
  BY <1>1 DEF LeftOnce
<1>4. \A p \in problems' : p \in problems \/ \E i \in yes : p = Row(s, i, results)
  BY DEF Confirms
<1> QED BY <1>1, <1>2, <1>3, <1>4 DEF Adds

(* No step gives two rows the same text and number.                        *)
LEMMA NumbersStay == TypeOK /\ RunsNumbered /\ NumbersApart /\ LeftOnce /\ Next => NumbersApart'
<1> SUFFICES ASSUME TypeOK, RunsNumbered, NumbersApart, LeftOnce, Next PROVE NumbersApart'
  OBVIOUS
<1>b. Span' = Span
  BY StepIs, TypesAre DEF Next, Span, IngestPage, Ends, Opens, Reads, Asks, GoesOn, Distills, Ranks
<1>1. CASE UNCHANGED problems
  <2>1. Ids' = Ids
    BY <1>1 DEF Ids
  <2> QED BY <1>1, <1>b, <2>1 DEF NumbersApart, Same
<1>2. ASSUME NEW s \in Slots, Asks(s) PROVE NumbersApart'
  <2>1. PICK n \in 1 .. Len(todo[s]) : \E yes \in SUBSET (1 .. n) : \E results : Confirms(s, n, results, yes)
    BY <1>2 DEF Asks
  <2>2. PICK yes \in SUBSET (1 .. n) : \E results : Confirms(s, n, results, yes)
    BY <2>1
  <2>3. PICK results : Confirms(s, n, results, yes)
    BY <2>2
  <2>4. /\ \A i \in yes : /\ i \in 1 .. Len(todo[s]) /\ todo[s][i] \in Span
                          /\ Row(s, i, results).id.span = todo[s][i]
                          /\ Row(s, i, results).id \notin Ids
        /\ \A i, j \in yes : todo[s][i] = todo[s][j] => i = j
        /\ \A x \in Ids' : x \in Ids \/ \E i \in yes : x = Row(s, i, results).id
        /\ Ids \subseteq Ids'
        /\ \A p \in problems' : p \in problems \/ \E i \in yes : p = Row(s, i, results)
    <3>1. Adds(s, yes, results)
      BY <2>3, RowsAre, Zenon
    <3> QED BY <3>1 DEF Adds
  <2>5. \A i \in yes : Row(s, i, results).id \in Ids'
    BY <2>3 DEF Confirms, Ids
  <2>6. \A i \in yes : Row(s, i, results).id.copy = 1 + Cardinality(Same(todo[s][i]))
    BY DEF Row
  <2>7. \A p, q \in problems' : p.id = q.id => p = q
    <3>1. \A p \in problems : p.id \in Ids
      BY DEF Ids
    <3> QED BY <2>4, <3>1 DEF NumbersApart
  <2>8. ASSUME NEW span \in Span
        PROVE  /\ IsFiniteSet(Same(span)')
               /\ \A x \in Same(span)' : x.copy <= Cardinality(Same(span)')
    <3>1. IsFiniteSet(Same(span)) /\ Cardinality(Same(span)) \in Nat
      BY FS_CardinalityType DEF NumbersApart
    <3>2. \A x \in Same(span) : x.copy <= Cardinality(Same(span)) /\ x.copy \in Nat
      <4>1. \A x \in Ids : x.copy \in Nat
        BY TypesAre DEF Problem, Id, Ids
      <4> QED BY <4>1 DEF NumbersApart, Same
    <3>3. Same(span)' = {x \in Ids' : x.span = span}
      BY DEF Same
    <3>4. CASE \A i \in yes : todo[s][i] # span
      <4>1. Same(span)' = Same(span)
        BY <2>4, <3>3, <3>4 DEF Same
      <4> QED BY <3>1, <3>2, <4>1
    <3>5. CASE \E i \in yes : todo[s][i] = span
      <4>1. PICK i \in yes : todo[s][i] = span
        BY <3>5
      <4>2. Same(span)' = Same(span) \cup {Row(s, i, results).id}
        <5>1. Row(s, i, results).id \in Same(span)'
          BY <2>4, <2>5, <3>3, <4>1
        <5>2. \A x \in Same(span)' : x \in Same(span) \/ x = Row(s, i, results).id
          <6> SUFFICES ASSUME NEW x \in Ids', x.span = span
                       PROVE  x \in Same(span) \/ x = Row(s, i, results).id
            BY <3>3
          <6>1. CASE x \in Ids
            BY <6>1 DEF Same
          <6>2. ASSUME NEW j \in yes, x = Row(s, j, results).id PROVE x = Row(s, i, results).id
            <7>1. todo[s][j] = todo[s][i]
              BY <2>4, <4>1, <6>2
            <7>2. j = i
              BY <2>4, <7>1
            <7> QED BY <6>2, <7>2
          <6> QED BY <2>4, <6>1, <6>2
        <5>3. Same(span) \subseteq Same(span)'
          BY <2>4, <3>3 DEF Same
        <5> QED BY <5>1, <5>2, <5>3
      <4>3. Row(s, i, results).id \notin Same(span)
        BY <2>4 DEF Same
      <4>4. /\ IsFiniteSet(Same(span) \cup {Row(s, i, results).id})
            /\ Cardinality(Same(span) \cup {Row(s, i, results).id}) = Cardinality(Same(span)) + 1
        BY <3>1, <4>3, FS_AddElement
      <4>5. Row(s, i, results).id.copy = 1 + Cardinality(Same(span))
        BY <2>6, <4>1
      <4>6. \A x \in Same(span)' : x.copy <= Cardinality(Same(span)) + 1
        BY <3>1, <3>2, <4>2, <4>5
      <4> QED BY <4>2, <4>4, <4>6
    <3> QED BY <3>4, <3>5
  <2>9. \A x \in Ids' : x.span \in Span /\ x \in Same(x.span)'
    <3>1. \A x \in Ids : x.span \in Span
      BY TypesAre DEF Problem, Id, Ids
    <3> QED BY <2>4, <3>1 DEF Same
  <2>10. \A x \in Ids' : x.copy <= Cardinality(Same(x.span)')
    BY <2>8, <2>9
  <2> QED BY <1>b, <2>7, <2>8, <2>10 DEF NumbersApart
<1>3. ASSUME NEW s \in Slots, FinishFigures(s) PROVE NumbersApart'
  <2> DEFINE f(p) == IF p.id \in rows[s]
                     THEN [p EXCEPT !.essential = PointsAtFigure(p.id.span),
                                    !.solvable = @ /\ ~PointsAtFigure(p.id.span)]
                     ELSE p
  <2>1. problems \subseteq Problem /\ problems' = {f(p) : p \in problems}
    BY <1>3, TypesAre DEF FinishFigures
  <2>2. \A p \in problems : f(p).id = p.id
    BY <2>1 DEF Problem
  <2>3. Ids' = Ids
    BY <1>3, FiguresTypes
  <2> HIDE DEF f
  <2>4. \A p, q \in problems' : p.id = q.id => p = q
    BY <2>1, <2>2 DEF NumbersApart
  <2> QED BY <1>b, <2>3, <2>4 DEF NumbersApart, Same
<1> QED BY <1>1, <1>2, <1>3, StepIs DEF Opens, Reads, Distills, Ranks

-----------------------------------------------------------------------------
(* What the commands have loaded.                                          *)

(* No step takes a card away from what a score command has loaded.         *)
LEMMA LoadedStay == TypeOK /\ RunsNumbered /\ LoadedCards /\ Next => LoadedCards'
<1> SUFFICES ASSUME TypeOK, RunsNumbered, LoadedCards, Next,
                    NEW t \in Slots, pc'[t] = "score"
             PROVE  rows'[t] \subseteq cards'
  BY DEF LoadedCards
<1>1. pc[t] = "score" => rows[t] \subseteq cards
  BY DEF LoadedCards
<1>2. CASE UNCHANGED <<book, problems, cards, pc, todo, rows, seen>>
  BY <1>1, <1>2
<1>3. ASSUME NEW s \in Slots,
             \/ Ends(s) /\ UNCHANGED <<problems, cards>>
             \/ Opens(s, "structure") /\ todo'[s] = todo[s]
             \/ Opens(s, "figures") /\ todo'[s] = todo[s]
             \/ Reads(s)
             \/ Asks(s)
             \/ Ends(s) /\ FinishFigures(s)
             \/ Opens(s, "distill") /\ StartDistill(s) /\ todo'[s] = todo[s]
             \/ Ranks(s)
      PROVE  rows'[t] \subseteq cards'
  BY <1>1, <1>3 DEF Ends, Opens, Reads, Asks, GoesOn, Ranks, Others, FinishFigures
<1>4. ASSUME NEW s \in Slots, Distills(s) PROVE rows'[t] \subseteq cards'
  <2>1. cards \subseteq cards'
    BY <1>4 DEF Distills, Stored
  <2>2. t # s /\ pc'[t] = pc[t] /\ rows'[t] = rows[t]
    BY <1>4 DEF Distills, Ends, GoesOn, Others
  <2> QED BY <1>1, <2>1, <2>2
<1> QED BY <1>2, <1>3, <1>4, StepIs

(* No step makes a command ask twice about a candidate.                    *)
LEMMA LeftStays == TypeOK /\ RunsNumbered /\ LeftOnce /\ Next => LeftOnce'
<1> SUFFICES ASSUME TypeOK, RunsNumbered, LeftOnce, Next, NEW t \in Slots,
                    NEW i \in 1 .. Len(todo'[t]), NEW j \in 1 .. Len(todo'[t]), todo'[t][i] = todo'[t][j]
             PROVE  i = j
  BY DEF LeftOnce
<1>t. book \in Texts /\ ingested \in Nat /\ todo \in [Slots -> Seq(Span)]
  BY TypesAre, BookIsOne
<1>1. CASE todo'[t] = todo[t] \/ todo'[t] = << >>
  BY <1>1 DEF LeftOnce
<1>2. CASE Reads(t)
  <2> DEFINE new == todo'[t]
             taken == {x.span : x \in Ids}
  <2>1. new \in Cut(Candidates(ingested) \ taken)
    BY <1>2 DEF Reads
  <2> HIDE DEF new, taken
  <2>2. \A a, b \in 1 .. Len(new) : new[a] = new[b] => a = b
    <3>1. IsCut(new, ingested, taken)
      BY <1>t, <2>1, CutIs, Zenon
    <3> QED BY <3>1 DEF IsCut
  <2> QED BY <2>2 DEF new
<1>3. CASE Asks(t)
  <2>1. PICK n \in 1 .. Len(todo[t]) : todo'[t] = SubSeq(todo[t], n + 1, Len(todo[t]))
    BY <1>3 DEF Asks
  <2>2. todo[t] \in Seq(Span) /\ Len(todo[t]) \in Nat
    BY <1>t, LenProperties
  <2>3. \A a \in 1 .. Len(todo'[t]) : todo'[t][a] = todo[t][n + a] /\ n + a \in n + 1 .. Len(todo[t])
    BY <2>1, <2>2, RestIs
  <2>4. n + i \in 1 .. Len(todo[t]) /\ n + j \in 1 .. Len(todo[t]) /\ todo[t][n + i] = todo[t][n + j]
    BY <2>2, <2>3
  <2>5. n + i = n + j /\ i \in Int /\ j \in Int /\ n \in Int
    BY <2>4 DEF LeftOnce
  <2> QED BY <2>5
<1>4. todo'[t] = todo[t] \/ todo'[t] = << >> \/ Reads(t) \/ Asks(t)
  <2>1. CASE UNCHANGED <<book, problems, cards, pc, todo, rows, seen>>
    BY <2>1
  <2>2. ASSUME NEW s \in Slots, t # s, Others(s) PROVE todo'[t] = todo[t]
    BY <2>2 DEF Others
  <2>3. ASSUME NEW s \in Slots,
               \/ Ends(s) /\ UNCHANGED <<problems, cards>>
               \/ Opens(s, "structure") /\ todo'[s] = todo[s]
               \/ Opens(s, "figures") /\ todo'[s] = todo[s]
               \/ Reads(s)
               \/ Asks(s)
               \/ Ends(s) /\ FinishFigures(s)
               \/ Opens(s, "distill") /\ StartDistill(s) /\ todo'[s] = todo[s]
               \/ Distills(s)
               \/ Ranks(s)
        PROVE  Others(s) /\ (todo'[s] = todo[s] \/ todo'[s] = << >> \/ Reads(s) \/ Asks(s))
    BY <2>3 DEF Ends, Opens, Reads, Asks, GoesOn, Ranks, Distills
  <2>4. CASE \E s \in Slots :
               \/ Ends(s) /\ UNCHANGED <<problems, cards>>
               \/ Opens(s, "structure") /\ todo'[s] = todo[s]
               \/ Opens(s, "figures") /\ todo'[s] = todo[s]
               \/ Reads(s)
               \/ Asks(s)
               \/ Ends(s) /\ FinishFigures(s)
               \/ Opens(s, "distill") /\ StartDistill(s) /\ todo'[s] = todo[s]
               \/ Distills(s)
               \/ Ranks(s)
    BY <2>2, <2>3, <2>4
  <2> QED BY <2>1, <2>4, StepIs
<1> QED BY <1>1, <1>2, <1>3, <1>4

-----------------------------------------------------------------------------
(* Sections.                                                               *)

Run(r) == {y \in sections : y.run = r}

(* The sections of a run split the pages up to the last one they cover.    *)
OneEach(R) ==
    \A p \in 1 .. Max({y.to : y \in R}) : Cardinality({y \in R : p \in y.from .. y.to}) = 1

(* The sections of one structure run split what it read.                   *)
LEMMA NewRun ==
    ASSUME NEW n \in Nat \ {0}, NEW new, Splits(new, 1, n), NEW run
    PROVE  OneEach(Added(run, new)) /\ Added(run, new) # {}
<1> DEFINE sec(i) == [run |-> run, no |-> i, from |-> new[i].from, to |-> new[i].to]
           R == Added(run, new)
           tos == {y.to : y \in R}
<1>1. /\ new \in Seq([from : 1 .. n, to : 0 .. n]) /\ Len(new) \in Nat \ {0}
      /\ \E i \in 1 .. Len(new) : new[i].to = n
      /\ \A p \in 1 .. n : \E i \in 1 .. Len(new) : p \in new[i].from .. new[i].to
      /\ \A i, j \in 1 .. Len(new), p \in 1 .. n :
           p \in new[i].from .. new[i].to /\ p \in new[j].from .. new[j].to => i = j
  BY DEF Splits
<1>2. \A i \in 1 .. Len(new) : new[i].to \in 0 .. n
  <2>1. \A i \in 1 .. Len(new) : new[i] \in [from : 1 .. n, to : 0 .. n]
    BY <1>1, ElementOfSeq
  <2> QED BY <2>1
<1>3. R = {sec(i) : i \in 1 .. Len(new)}
  BY DEF Added
<1>4. \A i \in 1 .. Len(new) : sec(i) \in R /\ sec(i).from = new[i].from /\ sec(i).to = new[i].to
  BY <1>3
<1>5. \A y \in R : \E i \in 1 .. Len(new) : y = sec(i)
  BY <1>3
<1> HIDE DEF R, sec
<1>6. n \in tos /\ \A t \in tos : t \in Nat /\ t <= n
  <2>1. PICK i \in 1 .. Len(new) : new[i].to = n
    BY <1>1
  <2>2. sec(i) \in R /\ sec(i).to = n
    BY <1>4, <2>1
  <2>3. n \in tos
    BY <2>2
  <2>4. \A y \in R : y.to \in 0 .. n
    <3> SUFFICES ASSUME NEW y \in R PROVE y.to \in 0 .. n
      OBVIOUS
    <3>1. PICK j \in 1 .. Len(new) : y = sec(j)
      BY <1>5
    <3> QED BY <1>2, <1>4, <3>1
  <2> QED BY <2>3, <2>4
<1> HIDE DEF tos
<1>7. Max(tos) = n
  <2>1. n \in tos /\ \A y \in tos : n >= y
    BY <1>6
  <2>2. Max(tos) \in tos /\ \A y \in tos : Max(tos) >= y
    BY <2>1 DEF Max
  <2> DEFINE m == Max(tos)
  <2> HIDE DEF m
  <2>3. m \in tos /\ m >= n
    BY <1>6, <2>2 DEF m
  <2>4. m = n
    BY <1>6, <2>3
  <2> QED BY <2>4 DEF m
<1>8. ASSUME NEW p \in 1 .. n PROVE Cardinality({y \in R : p \in y.from .. y.to}) = 1
  <2>1. PICK i \in 1 .. Len(new) : p \in new[i].from .. new[i].to
    BY <1>1
  <2>2. sec(i) \in R /\ p \in sec(i).from .. sec(i).to
    BY <1>4, <2>1
  <2>3. ASSUME NEW y \in R, p \in y.from .. y.to PROVE y = sec(i)
    <3>1. PICK j \in 1 .. Len(new) : y = sec(j)
      BY <1>5
    <3>2. p \in new[j].from .. new[j].to
      BY <1>4, <2>3, <3>1
    <3>3. i = j
      BY <1>1, <2>1, <3>2
    <3> QED BY <3>1, <3>3
  <2>4. {y \in R : p \in y.from .. y.to} = {sec(i)}
    BY <2>2, <2>3
  <2> QED BY <2>4, FS_Singleton
<1>9. OneEach(R)
  BY <1>7, <1>8 DEF OneEach, tos
<1>10. R # {}
  BY <1>1, <1>4
<1> QED BY <1>9, <1>10 DEF R

(* A structure run adds a run of its own and leaves the others alone.      *)
LEMMA SectionsStay ==
    TypeOK /\ RunsNumbered /\ PagesHaveOneSection /\ Next => RunsNumbered' /\ PagesHaveOneSection'
<1> SUFFICES ASSUME TypeOK, RunsNumbered, PagesHaveOneSection, Next
             PROVE  RunsNumbered' /\ PagesHaveOneSection'
  OBVIOUS
<1>a. PagesHaveOneSection <=> \A x \in sections : OneEach(Run(x.run))
  BY DEF PagesHaveOneSection, OneEach, Run
<1>b. PagesHaveOneSection' <=> \A x \in sections' : OneEach(Run(x.run)')
  BY DEF PagesHaveOneSection, OneEach, Run
<1>1. CASE UNCHANGED sections
  BY <1>1 DEF RunsNumbered, PagesHaveOneSection, Runs
<1>2. ASSUME NEW s \in Slots, FinishStructure(s) PROVE RunsNumbered' /\ PagesHaveOneSection'
  <2>1. CASE sections' = sections
    BY <1>1, <2>1
  <2>2. CASE /\ seen[s] \in 1 .. LastPage
             /\ \E new : /\ Splits(new, 1, seen[s])
                         /\ sections' = sections \cup Added(1 + Cardinality(Runs), new)
    <3>2. Cardinality(Runs) \in Nat /\ IsFiniteSet(Runs)
      BY FS_CardinalityType DEF RunsNumbered
    <3>0. PICK run \in Nat : run = 1 + Cardinality(Runs)
      BY <3>2
    <3>1. PICK new : Splits(new, 1, seen[s]) /\ sections' = sections \cup Added(run, new)
      BY <2>2, <3>0
    <3>3. \A x \in sections : x.run \in Runs /\ x.run \in Nat
      BY TypesAre DEF Section, Runs
    <3>4. \A x \in sections : x.run # run
      BY <3>0, <3>2, <3>3 DEF RunsNumbered
    <3>5. \A x \in Added(run, new) : x.run = run
      BY DEF Added
    <3>6. seen[s] \in Nat \ {0}
      BY <2>2, TypesAre, BookIsOne
    <3>7. OneEach(Added(run, new)) /\ Added(run, new) # {}
      BY <3>1, <3>6, NewRun
    <3>8. Run(run)' = Added(run, new) /\ \A r : r # run => Run(r)' = Run(r)
      <4>1. \A r : Run(r)' = {y \in sections' : y.run = r}
        BY DEF Run
      <4> QED BY <3>1, <3>4, <3>5, <4>1 DEF Run
    <3>9. PagesHaveOneSection'
      <4> SUFFICES ASSUME NEW x \in sections' PROVE OneEach(Run(x.run)')
        BY <1>b
      <4>1. CASE x \in sections
        <5>1. Run(x.run)' = Run(x.run)
          BY <3>4, <3>8, <4>1
        <5> QED BY <1>a, <4>1, <5>1
      <4>2. CASE x \in Added(run, new)
        <5>1. Run(x.run)' = Added(run, new)
          BY <3>5, <3>8, <4>2
        <5> QED BY <3>7, <5>1
      <4> QED BY <3>1, <4>1, <4>2
    <3>10. Runs' = Runs \cup {run}
      <4>1. \A x \in sections' : x.run \in Runs \cup {run}
        BY <3>1, <3>3, <3>5
      <4>2. run \in Runs'
        BY <3>1, <3>5, <3>7 DEF Runs
      <4>3. Runs \subseteq Runs'
        BY <3>1 DEF Runs
      <4> QED BY <4>1, <4>2, <4>3 DEF Runs
    <3>11. run \notin Runs
      BY <3>4 DEF Runs
    <3>12. IsFiniteSet(Runs') /\ Cardinality(Runs') = Cardinality(Runs) + 1
      BY <3>2, <3>10, <3>11, FS_AddElement
    <3>13. \A r \in Runs' : r <= Cardinality(Runs')
      <4>1. \A r \in Runs : r \in Nat /\ r <= Cardinality(Runs)
        BY <3>3 DEF RunsNumbered, Runs
      <4> QED BY <3>2, <3>10, <3>0, <3>12, <4>1
    <3> QED BY <3>9, <3>12, <3>13 DEF RunsNumbered
  <2> QED BY <1>2, <2>1, <2>2, StructureIs
<1>3. UNCHANGED sections \/ \E s \in Slots : FinishStructure(s)
  <2>1. ASSUME NEW s \in Slots, ConfirmBatch(s) PROVE UNCHANGED sections
    BY <2>1 DEF ConfirmBatch
  <2> QED BY <2>1 DEF Next, IngestPage, StartStructure, StartDetect, FinishDetect, StartFigures,
                      FinishFigures, StartDistill, DistillBatch, StartScore, ScoreBatch, Raise, tables
<1> QED BY <1>1, <1>2, <1>3

-----------------------------------------------------------------------------
(* Cards.                                                                  *)

(* When no distill was started out of order, this one is not.              *)
LEMMA InOrder ==
    ASSUME MCNext, ~disorder'
    PROVE  /\ ~disorder
           /\ \A s \in Slots, p \in problems :
                pc[s] # "distill" /\ pc'[s] = "distill" /\ p.solvable /\ PointsAtFigure(p.id.span) => p.essential
<1>1. ~(disorder \/ \E s \in Slots :
                       /\ Begins(s, "distill")
                       /\ \E p \in problems :
                            p.solvable /\ PointsAtFigure(p.id.span) /\ ~p.essential)
  BY Zenon DEF MCNext
<1>2. ~disorder
  BY <1>1, Zenon
<1>3. ~ \E s \in Slots :
            /\ Begins(s, "distill")
            /\ \E p \in problems : p.solvable /\ PointsAtFigure(p.id.span) /\ ~p.essential
  BY <1>1, Zenon
<1>4. \A s \in Slots, p \in problems :
        pc[s] # "distill" /\ pc'[s] = "distill" /\ p.solvable /\ PointsAtFigure(p.id.span) => p.essential
  BY <1>3, Zenon DEF Begins
<1> QED BY <1>2, <1>4

(* A problem that is chosen now was chosen before, or is solvable.         *)
LEMMA ChosenIs ==
    ASSUME TypeOK, RunsNumbered, Next, NEW id, Chosen(id)', id \in Ids
    PROVE  \/ Chosen(id)
           \/ /\ UNCHANGED problems
              /\ \E s \in Slots : pc[s] # "distill" /\ pc'[s] = "distill"
              /\ \E q \in problems : q.id = id /\ q.solvable
<1>0. id \in cards' \/ \E t \in Slots : pc'[t] = "distill" /\ id \in rows'[t]
  BY DEF Chosen
<1>t. rows \in [Slots -> SUBSET Ids] /\ pc \in [Slots -> Commands \cup {"idle"}]
  BY TypesAre
<1>1. CASE UNCHANGED <<book, problems, cards, pc, todo, rows, seen>>
  BY <1>0, <1>1 DEF Chosen
<1>2. ASSUME NEW s \in Slots,
             \/ Ends(s) /\ UNCHANGED <<problems, cards>>
             \/ Opens(s, "structure") /\ todo'[s] = todo[s]
             \/ Opens(s, "figures") /\ todo'[s] = todo[s]
             \/ Reads(s)
             \/ Asks(s)
             \/ Ends(s) /\ FinishFigures(s)
             \/ Ranks(s)
      PROVE  Chosen(id)
  BY <1>0, <1>2 DEF Chosen, Ends, Opens, Reads, Asks, GoesOn, Ranks, Others, FinishFigures
<1>3. ASSUME NEW s \in Slots, Opens(s, "distill"), StartDistill(s)
      PROVE  \/ Chosen(id)
             \/ /\ UNCHANGED problems
                /\ \E t \in Slots : pc[t] # "distill" /\ pc'[t] = "distill"
                /\ \E q \in problems : q.id = id /\ q.solvable
  <2>1. rows'[s] = {p.id : p \in {q \in problems : q.solvable}} \ cards
    BY <1>3, <1>t DEF StartDistill
  <2>2. UNCHANGED <<problems, cards>> /\ pc[s] # "distill" /\ pc'[s] = "distill"
    BY <1>3 DEF Opens
  <2>3. \A t \in Slots : t # s => pc'[t] = pc[t] /\ rows'[t] = rows[t]
    BY <1>3 DEF Opens, Others
  <2>4. CASE id \in rows'[s]
    BY <2>1, <2>2, <2>4
  <2>5. CASE id \notin rows'[s]
    BY <1>0, <2>2, <2>3, <2>5 DEF Chosen
  <2> QED BY <2>4, <2>5
<1>4. ASSUME NEW s \in Slots, Distills(s) PROVE Chosen(id)
  <2>1. pc[s] = "distill" /\ \A x \in cards' : x \in cards \/ x \in rows[s]
    BY <1>4 DEF Distills, Stored
  <2>2. \A t \in Slots : pc'[t] = "distill" => pc[t] = "distill" /\ rows'[t] \subseteq rows[t]
    BY <1>4 DEF Distills, Ends, GoesOn, Others
  <2> QED BY <1>0, <2>1, <2>2 DEF Chosen
<1> QED BY <1>1, <1>2, <1>3, <1>4, StepIs

(* Figure classification, detection and distilling keep the choice well.   *)
LEMMA ChosenStays ==
    TypeOK /\ RunsNumbered /\ NumbersApart /\ LeftOnce /\ TypeOK' /\ ChosenWell /\ MCNext => ChosenWell'
<1> SUFFICES ASSUME TypeOK, RunsNumbered, NumbersApart, LeftOnce, TypeOK', ChosenWell, MCNext
             PROVE  ChosenWell'
  OBVIOUS
<1>t. Next /\ cards \subseteq Ids /\ rows \in [Slots -> SUBSET Ids] /\ problems \subseteq Problem
  BY TypesAre DEF MCNext
<1>b. book' = book
  BY <1>t, StepIs DEF Ends, Opens, Reads, Asks, GoesOn, Distills, Ranks
<1>g. \A span : PointsAtFigure(span)' <=> PointsAtFigure(span)
  BY <1>b DEF PointsAtFigure
<1>i. \A p \in problems : p.id \in Ids
  BY DEF Ids
<1>d. ~disorder' =>
           /\ ~disorder
           /\ \A s \in Slots, p \in problems :
                pc[s] # "distill" /\ pc'[s] = "distill" /\ p.solvable /\ PointsAtFigure(p.id.span) => p.essential
  BY InOrder
<1>w. \A p \in problems :
        /\ p.derivation => ~p.solvable
        /\ p.essential => ~p.solvable
        /\ Chosen(p.id) => ~p.derivation
        /\ ~disorder /\ Chosen(p.id) => p.solvable /\ ~PointsAtFigure(p.id.span)
  BY DEF ChosenWell, WellChosen
(* A problem that was there.                                               *)
<1>1. ASSUME NEW p \in problems, Chosen(p.id)'
      PROVE  /\ ~p.derivation
             /\ ~disorder' => p.solvable /\ ~PointsAtFigure(p.id.span)
  <2>1. CASE Chosen(p.id)
    BY <1>d, <1>w, <2>1
  <2>2. CASE /\ UNCHANGED problems
             /\ \E s \in Slots : pc[s] # "distill" /\ pc'[s] = "distill"
             /\ \E q \in problems : q.id = p.id /\ q.solvable
    <3>1. p.solvable
      BY <2>2 DEF NumbersApart
    <3> QED BY <1>d, <1>w, <2>2, <3>1
  <2> QED BY <1>1, <1>i, <1>t, <2>1, <2>2, ChosenIs
<1>k. ASSUME NEW p \in problems PROVE WellChosen(p)'
  BY <1>1, <1>g, <1>w, Zenon DEF WellChosen
<1>2. CASE UNCHANGED problems
  BY <1>2, <1>k DEF ChosenWell
<1>3. ASSUME NEW s \in Slots, Asks(s) PROVE ChosenWell'
  <2>1. PICK n \in 1 .. Len(todo[s]) : \E yes \in SUBSET (1 .. n) : \E results : Confirms(s, n, results, yes)
    BY <1>3 DEF Asks
  <2>2. PICK yes \in SUBSET (1 .. n) : \E results : Confirms(s, n, results, yes)
    BY <2>1
  <2>3. PICK results : Confirms(s, n, results, yes)
    BY <2>2
  <2>4. Adds(s, yes, results)
    BY <2>3, RowsAre, Zenon
  <2>5. \A id : Chosen(id)' => id \in Ids
    BY <1>3, <1>t DEF Asks, GoesOn, Others, Confirms, Chosen
  <2>6. ASSUME NEW i \in yes, NEW p, p = Row(s, i, results) PROVE WellChosen(p)'
    <3>1. /\ p.derivation = (results[i - 1] = "derivation") /\ p.essential = FALSE
          /\ p.solvable = (results[i - 1] # "derivation")
      BY <2>6 DEF Row
    <3>2. p.id \notin Ids
      BY <2>4, <2>6 DEF Adds
    <3>3. ~Chosen(p.id)'
      BY <2>5, <3>2
    <3> QED BY <3>1, <3>3, Zenon DEF WellChosen
  <2>7. \A p \in problems' : p \in problems \/ \E i \in yes : p = Row(s, i, results)
    BY <2>4 DEF Adds
  <2> QED BY <1>k, <2>6, <2>7 DEF ChosenWell
<1>4. ASSUME NEW s \in Slots, FinishFigures(s) PROVE ChosenWell'
  <2> DEFINE f(p) == IF p.id \in rows[s]
                     THEN [p EXCEPT !.essential = PointsAtFigure(p.id.span),
                                    !.solvable = @ /\ ~PointsAtFigure(p.id.span)]
                     ELSE p
  <2>1. problems' = {f(p) : p \in problems}
    BY <1>4 DEF FinishFigures
  <2>2. \A p \in problems :
            /\ f(p).id = p.id /\ f(p).derivation = p.derivation
            /\ f(p).solvable => p.solvable
            /\ p.solvable /\ ~PointsAtFigure(p.id.span) => f(p).solvable
            /\ f(p).essential => \/ PointsAtFigure(p.id.span) /\ ~f(p).solvable
                                 \/ f(p) = p
    <3> SUFFICES ASSUME NEW p \in problems
                 PROVE  /\ f(p).id = p.id /\ f(p).derivation = p.derivation
                        /\ f(p).solvable => p.solvable
                        /\ p.solvable /\ ~PointsAtFigure(p.id.span) => f(p).solvable
                        /\ f(p).essential => \/ PointsAtFigure(p.id.span) /\ ~f(p).solvable
                                             \/ f(p) = p
      OBVIOUS
    <3>1. p \in Problem
      BY <1>t
    <3>2. CASE p.id \in rows[s]
      <4>1. /\ f(p).id = p.id /\ f(p).derivation = p.derivation
            /\ f(p).solvable = (p.solvable /\ ~PointsAtFigure(p.id.span))
            /\ f(p).essential = PointsAtFigure(p.id.span)
        BY <3>1, <3>2 DEF Problem
      <4> QED BY <4>1, Zenon
    <3>3. CASE p.id \notin rows[s]
      <4>1. f(p) = p
        BY <3>3
      <4> QED BY <4>1, Zenon
    <3> QED BY <3>2, <3>3
  <2> HIDE DEF f
  <2>3. ASSUME NEW q \in problems, NEW p, p = f(q) PROVE WellChosen(p)'
    <3>1. /\ p.id = q.id /\ p.derivation = q.derivation
          /\ p.solvable => q.solvable
          /\ q.solvable /\ ~PointsAtFigure(q.id.span) => p.solvable
          /\ p.essential => \/ PointsAtFigure(q.id.span) /\ ~p.solvable
                            \/ p = q
      BY <2>2, <2>3
    <3>2. WellChosen(q)'
      BY <1>k
    <3>3. /\ q.derivation => ~q.solvable
          /\ q.essential => ~q.solvable
          /\ Chosen(p.id)' => ~p.derivation
          /\ ~disorder' /\ Chosen(p.id)' => q.solvable /\ ~PointsAtFigure(p.id.span)'
      BY <3>1, <3>2, Zenon DEF WellChosen
    <3>4. p.derivation => ~p.solvable
      BY <3>1, <3>3, Zenon
    <3>5. p.essential => ~p.solvable
      BY <3>1, <3>3, Zenon
    <3>6. ~disorder' /\ Chosen(p.id)' => p.solvable /\ ~PointsAtFigure(p.id.span)'
      BY <1>g, <3>1, <3>3, Zenon
    <3> QED BY <3>3, <3>4, <3>5, <3>6, Zenon DEF WellChosen
  <2> QED BY <2>1, <2>3 DEF ChosenWell
<1> QED BY <1>2, <1>3, <1>4, <1>t, StepIs DEF Opens, Reads, Distills, Ranks

-----------------------------------------------------------------------------
(* What detection has stored and shown.                                    *)

(* No step changes the book, nor what is cut from it.                      *)
LEMMA BookStays ==
    ASSUME TypeOK, RunsNumbered, Next
    PROVE  book' = book /\ LastPage' = LastPage /\ \A n : Candidates(n)' = Candidates(n)
<1>1. book' = book
  BY StepIs DEF Ends, Opens, Reads, Asks, GoesOn, Distills, Ranks
<1> QED BY <1>1 DEF LastPage, Candidates, Kept, Spans, Headings, Read, Until

(* Only a confirmed batch adds problems, and none is removed.              *)
LEMMA IdsStay ==
    ASSUME TypeOK, RunsNumbered, Next
    PROVE  Ids' = Ids \/ \E s \in Slots : Asks(s)
<1>1. \/ UNCHANGED problems
      \/ \E s \in Slots : Asks(s) \/ FinishFigures(s)
  BY StepIs DEF Opens, Reads, Distills, Ranks
<1>2. CASE UNCHANGED problems
  BY <1>2 DEF Ids
<1>3. ASSUME NEW s \in Slots, FinishFigures(s) PROVE Ids' = Ids
  BY <1>3, FiguresTypes
<1> QED BY <1>1, <1>2, <1>3

(* A detect command has just read, has just asked, or is as it was.        *)
LEMMA DetectIs ==
    ASSUME TypeOK, RunsNumbered, Next, NEW t \in Slots, pc'[t] = "detect"
    PROVE  \/ Reads(t)
           \/ Asks(t)
           \/ pc[t] = "detect" /\ todo'[t] = todo[t] /\ seen'[t] = seen[t]
<1>1. CASE UNCHANGED <<book, problems, cards, pc, todo, rows, seen>>
  BY <1>1
<1>2. ASSUME NEW s \in Slots,
             \/ Ends(s) /\ UNCHANGED <<problems, cards>>
             \/ Opens(s, "structure") /\ todo'[s] = todo[s]
             \/ Opens(s, "figures") /\ todo'[s] = todo[s]
             \/ Reads(s)
             \/ Asks(s)
             \/ Ends(s) /\ FinishFigures(s)
             \/ Opens(s, "distill") /\ StartDistill(s) /\ todo'[s] = todo[s]
             \/ Distills(s)
             \/ Ranks(s)
      PROVE  \/ Reads(t)
             \/ Asks(t)
             \/ pc[t] = "detect" /\ todo'[t] = todo[t] /\ seen'[t] = seen[t]
  BY <1>2 DEF Ends, Opens, Reads, Asks, GoesOn, Distills, Ranks, Others
<1> QED BY <1>1, <1>2, StepIs

(* A command that has just read is to ask about all that is not stored.    *)
LEMMA ReadLeft ==
    ASSUME TypeOK, NEW t \in Slots, Reads(t)
    PROVE  /\ Left(t)' \subseteq Candidates(ingested)
           /\ \A x \in Ids : x.span \notin Left(t)'
           /\ \A c \in Candidates(ingested) : c \in Left(t)' \/ \E x \in Ids : x.span = c
<1> DEFINE new == todo'[t]
           taken == {x.span : x \in Ids}
<1>1. book \in Texts /\ ingested \in Nat
  BY TypesAre, BookIsOne
<1>2. new \in Cut(Candidates(ingested) \ taken)
  BY DEF Reads
<1>3. Left(t)' = {new[i] : i \in 1 .. Len(new)}
  BY DEF Left
<1>4. \A c : c \in taken <=> \E x \in Ids : x.span = c
  OBVIOUS
<1> HIDE DEF new, taken
<1>5. IsCut(new, ingested, taken)
  BY <1>1, <1>2, CutIs, Zenon
<1> QED BY <1>3, <1>4, <1>5 DEF IsCut

(* A batch is about the first of what is left.                             *)
Answered(s) ==
    /\ Left(s)' \subseteq Left(s)
    /\ Ids \subseteq Ids'
    /\ \A x \in Ids' : x \notin Ids => x.span \in Left(s) /\ x.span \notin Left(s)'
    /\ \A x, y \in Ids' : x \notin Ids /\ y \notin Ids /\ x.span = y.span => x = y

LEMMA AskLeft ==
    ASSUME TypeOK, NumbersApart, LeftOnce, NEW s \in Slots, Asks(s)
    PROVE  Answered(s)
<1>1. PICK n \in 1 .. Len(todo[s]) : \E yes \in SUBSET (1 .. n) : \E results :
            Confirms(s, n, results, yes) /\ todo'[s] = SubSeq(todo[s], n + 1, Len(todo[s]))
  BY DEF Asks
<1>2. PICK yes \in SUBSET (1 .. n) : \E results :
            Confirms(s, n, results, yes) /\ todo'[s] = SubSeq(todo[s], n + 1, Len(todo[s]))
  BY <1>1
<1>3. PICK results : Confirms(s, n, results, yes) /\ todo'[s] = SubSeq(todo[s], n + 1, Len(todo[s]))
  BY <1>2
<1>4. Adds(s, yes, results)
  BY <1>3, RowsAre, Zenon
<1>5. todo[s] \in Seq(Span) /\ Len(todo[s]) \in Nat
  BY TypesAre, LenProperties
<1> DEFINE rest == todo'[s]
<1>6. \A a \in 1 .. Len(rest) : rest[a] = todo[s][n + a] /\ n + a \in n + 1 .. Len(todo[s])
  BY <1>3, <1>5, RestIs
<1>7. Left(s)' = {rest[a] : a \in 1 .. Len(rest)}
  BY DEF Left
<1> HIDE DEF rest
<1>8. Left(s)' \subseteq Left(s)
  <2> SUFFICES ASSUME NEW a \in 1 .. Len(rest) PROVE rest[a] \in Left(s)
    BY <1>7
  <2>1. rest[a] = todo[s][n + a] /\ n + a \in 1 .. Len(todo[s])
    BY <1>5, <1>6
  <2> QED BY <2>1 DEF Left
<1>9. ASSUME NEW i \in yes PROVE todo[s][i] \in Left(s) /\ todo[s][i] \notin Left(s)'
  <2>1. i \in 1 .. Len(todo[s]) /\ i <= n /\ i \in Int /\ n \in Int
    BY <1>5
  <2>2. ASSUME NEW a \in 1 .. Len(rest), todo[s][i] = rest[a] PROVE FALSE
    <3>1. n + a \in 1 .. Len(todo[s]) /\ todo[s][i] = todo[s][n + a] /\ n + a > n
      BY <1>5, <1>6, <2>2
    <3>2. i = n + a
      BY <2>1, <3>1 DEF LeftOnce
    <3> QED BY <2>1, <3>1, <3>2
  <2> QED BY <1>7, <2>1, <2>2 DEF Left
<1>10. /\ \A i \in yes : Row(s, i, results).id.span = todo[s][i]
       /\ \A i, j \in yes : todo[s][i] = todo[s][j] => i = j
       /\ \A x \in Ids' : x \in Ids \/ \E i \in yes : x = Row(s, i, results).id
       /\ Ids \subseteq Ids'
  BY <1>4 DEF Adds
<1>11. \A x \in Ids' : x \notin Ids => x.span \in Left(s) /\ x.span \notin Left(s)'
  BY <1>9, <1>10
<1>12. \A x, y \in Ids' : x \notin Ids /\ y \notin Ids /\ x.span = y.span => x = y
  <2> SUFFICES ASSUME NEW x \in Ids', NEW y \in Ids', x \notin Ids, y \notin Ids, x.span = y.span
               PROVE  x = y
    OBVIOUS
  <2>1. PICK i \in yes : x = Row(s, i, results).id
    BY <1>10
  <2>2. PICK j \in yes : y = Row(s, j, results).id
    BY <1>10
  <2>3. i = j
    BY <1>10, <2>1, <2>2
  <2> QED BY <2>1, <2>2, <2>3
<1> QED BY <1>8, <1>10, <1>11, <1>12 DEF Answered

(* The batches that were committed have been shown.                        *)
LEMMA ShownGrows ==
    ASSUME TypeOK, TypeOK', MCNext
    PROVE  /\ shown \subseteq shown'
           /\ \A s \in Slots : pc[s] = "detect" /\ pc'[s] = "detect" =>
                \A c \in Left(s) : c \in Left(s)' \/ c \in shown'
<1>1. shown' = shown \cup
           UNION {IF pc[s] = "detect" /\ pc'[s] = "detect"
                  THEN Range(todo[s]) \ Range(todo'[s]) ELSE {} : s \in Slots}
  BY DEF MCNext
<1>2. \A s \in Slots : todo[s] \in Seq(Span) /\ DOMAIN todo[s] = 1 .. Len(todo[s])
  BY TypesAre, LenProperties
<1>3. \A s \in Slots : todo'[s] \in Seq(Span') /\ DOMAIN todo'[s] = 1 .. Len(todo'[s])
  <2>1. todo' \in [Slots -> Seq(Span')]
    BY DEF TypeOK, Span
  <2> QED BY <2>1, LenProperties
<1>4. \A s \in Slots : Range(todo[s]) = Left(s) /\ Range(todo'[s]) = Left(s)'
  BY <1>2, <1>3 DEF Range, Left
<1> QED BY <1>1, <1>4

(* What was read is shown, stored or still left.                           *)
LEMMA ShownStays ==
    TypeOK /\ RunsNumbered /\ NumbersApart /\ LeftOnce /\ TypeOK' /\ ShownSoFar /\ MCNext => ShownSoFar'
<1> SUFFICES ASSUME TypeOK, RunsNumbered, NumbersApart, LeftOnce, TypeOK', ShownSoFar, MCNext
             PROVE  ShownSoFar'
  OBVIOUS
<1>n. Next
  BY DEF MCNext
<1>b. LastPage' = LastPage /\ \A n : Candidates(n)' = Candidates(n)
  BY <1>n, BookStays
<1>g. /\ shown \subseteq shown'
      /\ \A s \in Slots : pc[s] = "detect" /\ pc'[s] = "detect" =>
            \A c \in Left(s) : c \in Left(s)' \/ c \in shown'
  BY ShownGrows
<1>i. /\ \A x \in Ids : x.span \in shown
      /\ \A s \in Slots : pc[s] = "detect" => Candidates(seen[s]) \subseteq shown \cup Left(s)
      /\ CandidatesAreAnswered
  BY DEF ShownSoFar
<1>1. ASSUME NEW x \in Ids' PROVE x.span \in shown'
  <2>1. CASE Ids' = Ids
    BY <1>g, <1>i, <2>1
  <2>2. ASSUME NEW s \in Slots, Asks(s) PROVE x.span \in shown'
    <3>1. x \notin Ids => x.span \in Left(s) /\ x.span \notin Left(s)'
      BY <2>2, AskLeft DEF Answered
    <3>2. pc[s] = "detect" /\ pc'[s] = "detect"
      BY <2>2 DEF Asks, GoesOn
    <3> QED BY <1>g, <1>i, <3>1, <3>2
  <2> QED BY <1>n, <2>1, <2>2, IdsStay
<1>2. ASSUME NEW t \in Slots, pc'[t] = "detect" PROVE Candidates(seen'[t]) \subseteq shown' \cup Left(t)'
  <2>1. CASE Reads(t)
    <3>1. seen'[t] = ingested
      BY <2>1 DEF Reads
    <3> QED BY <1>g, <1>i, <2>1, <3>1, ReadLeft
  <2>2. CASE Asks(t)
    <3>1. pc[t] = "detect" /\ seen'[t] = seen[t]
      BY <2>2 DEF Asks
    <3> QED BY <1>2, <1>g, <1>i, <3>1
  <2>3. CASE pc[t] = "detect" /\ todo'[t] = todo[t] /\ seen'[t] = seen[t]
    <3>1. Left(t)' = Left(t)
      BY <2>3 DEF Left
    <3> QED BY <1>g, <1>i, <2>3, <3>1
  <2> QED BY <1>2, <1>n, <2>1, <2>2, <2>3, DetectIs
<1>3. CandidatesAreAnswered'
  <2> SUFFICES ASSUME covered' PROVE Candidates(LastPage) \subseteq shown'
    BY <1>b DEF CandidatesAreAnswered
  <2>1. covered \/ \E s \in Slots : pc[s] = "detect" /\ todo[s] = << >> /\ seen[s] = LastPage
    BY Zenon DEF MCNext
  <2>2. CASE covered
    BY <1>g, <1>i, <2>2 DEF CandidatesAreAnswered
  <2>3. ASSUME NEW s \in Slots, pc[s] = "detect", todo[s] = << >>, seen[s] = LastPage
        PROVE  Candidates(LastPage) \subseteq shown'
    <3>1. Left(s) = {}
      BY <2>3 DEF Left
    <3> QED BY <1>g, <1>i, <2>3, <3>1
  <2> QED BY <2>1, <2>2, <2>3
<1>4. \A t \in Slots : pc'[t] = "detect" => (Candidates(seen[t]) \subseteq shown \cup Left(t))'
  BY <1>2, <1>b
<1> QED BY <1>1, <1>3, <1>4 DEF ShownSoFar

(* Alone, a detect command stores only what is not stored.                 *)
LEMMA StoredStays ==
    TypeOK /\ RunsNumbered /\ NumbersApart /\ LeftOnce /\ StoredSoFar /\ MCNext => StoredSoFar'
<1> SUFFICES ASSUME TypeOK, RunsNumbered, NumbersApart, LeftOnce, StoredSoFar, MCNext, ~overlapped'
             PROVE  /\ \A s, t \in Slots : pc'[s] = "detect" /\ pc'[t] = "detect" => s = t
                    /\ \A t \in Slots : pc'[t] = "detect" => \A x \in Ids' : x.span \notin Left(t)'
                    /\ \A x, y \in Ids' : x.span = y.span => x = y
  BY DEF StoredSoFar
<1>n. Next
  BY DEF MCNext
<1>o. ~overlapped /\ \A s, t \in Slots : pc'[s] = "detect" /\ pc'[t] = "detect" => s = t
  <2>1. ~(overlapped \/ \E s, t \in Slots : s # t /\ pc'[s] = "detect" /\ pc'[t] = "detect")
    BY Zenon DEF MCNext
  <2> QED BY <2>1, Zenon
<1>i. /\ \A t \in Slots : pc[t] = "detect" => \A x \in Ids : x.span \notin Left(t)
      /\ \A x, y \in Ids : x.span = y.span => x = y
  BY <1>o DEF StoredSoFar
<1>a. ASSUME NEW s \in Slots, Asks(s)
      PROVE  Answered(s) /\ pc[s] = "detect" /\ pc'[s] = "detect"
  BY <1>a, AskLeft DEF Asks, GoesOn
<1>1. ASSUME NEW t \in Slots, pc'[t] = "detect", NEW x \in Ids' PROVE x.span \notin Left(t)'
  <2>1. CASE Asks(t)
    BY <1>a, <1>i, <2>1 DEF Answered
  <2>2. CASE ~Asks(t)
    <3>1. Ids' = Ids
      <4>1. \A s \in Slots : ~Asks(s)
        BY <1>1, <1>a, <1>o, <2>2
      <4> QED BY <1>n, <4>1, IdsStay
    <3>2. CASE Reads(t)
      BY <3>1, <3>2, ReadLeft
    <3>3. CASE pc[t] = "detect" /\ todo'[t] = todo[t] /\ seen'[t] = seen[t]
      <4>1. Left(t)' = Left(t)
        BY <3>3 DEF Left
      <4> QED BY <1>i, <3>1, <3>3, <4>1
    <3> QED BY <1>1, <1>n, <2>2, <3>2, <3>3, DetectIs
  <2> QED BY <2>1, <2>2
<1>2. \A x, y \in Ids' : x.span = y.span => x = y
  <2>1. CASE Ids' = Ids
    BY <1>i, <2>1
  <2>2. ASSUME NEW s \in Slots, Asks(s) PROVE \A x, y \in Ids' : x.span = y.span => x = y
    BY <1>a, <1>i, <2>2 DEF Answered
  <2> QED BY <1>n, <2>1, <2>2, IdsStay
<1> QED BY <1>o, <1>1, <1>2

(* With all pages in, only candidates of the whole book are stored.        *)
LEMMA WholeStays ==
    TypeOK /\ RunsNumbered /\ NumbersApart /\ LeftOnce /\ StoredWhole /\ MCNext => StoredWhole'
<1> SUFFICES ASSUME TypeOK, RunsNumbered, NumbersApart, LeftOnce, StoredWhole, MCNext
             PROVE  StoredWhole'
  OBVIOUS
<1>n. Next /\ ingested \in 0 .. LastPage /\ LastPage \in Nat
  BY TypesAre, BookIsOne DEF MCNext
<1>b. Candidates(LastPage)' = Candidates(LastPage)
  BY <1>n, BookStays
<1> SUFFICES ASSUME ~early'
             PROVE  /\ \A x \in Ids' : x.span \in Candidates(LastPage)
                    /\ \A t \in Slots : pc'[t] = "detect" => Left(t)' \subseteq Candidates(LastPage)
  BY <1>b DEF StoredWhole
<1>e. ~early /\ \A s \in Slots : Begins(s, "detect") => ~(ingested < LastPage)
  <2>1. ~(early \/ \E s \in Slots : Begins(s, "detect") /\ ingested < LastPage)
    BY Zenon DEF MCNext
  <2> QED BY <2>1, Zenon
<1>i. /\ \A x \in Ids : x.span \in Candidates(LastPage)
      /\ \A s \in Slots : pc[s] = "detect" => Left(s) \subseteq Candidates(LastPage)
  BY <1>e DEF StoredWhole
<1>1. ASSUME NEW x \in Ids' PROVE x.span \in Candidates(LastPage)
  <2>1. CASE Ids' = Ids
    BY <1>i, <2>1
  <2>2. ASSUME NEW s \in Slots, Asks(s) PROVE x.span \in Candidates(LastPage)
    <3>1. x \in Ids \/ x.span \in Left(s)
      BY <2>2, AskLeft DEF Answered
    <3>2. pc[s] = "detect"
      BY <2>2 DEF Asks
    <3> QED BY <1>i, <3>1, <3>2
  <2> QED BY <1>n, <2>1, <2>2, IdsStay
<1>2. ASSUME NEW t \in Slots, pc'[t] = "detect" PROVE Left(t)' \subseteq Candidates(LastPage)
  <2>1. CASE Reads(t)
    <3>1. Begins(t, "detect")
      BY <2>1 DEF Reads, Opens, Begins
    <3>2. ingested = LastPage
      BY <1>e, <1>n, <3>1
    <3> QED BY <2>1, <3>2, ReadLeft
  <2>2. CASE Asks(t)
    <3>1. pc[t] = "detect" /\ Left(t)' \subseteq Left(t)
      BY <2>2, AskLeft DEF Answered, Asks
    <3> QED BY <1>i, <3>1
  <2>3. CASE pc[t] = "detect" /\ todo'[t] = todo[t] /\ seen'[t] = seen[t]
    <3>1. Left(t)' = Left(t)
      BY <2>3 DEF Left
    <3> QED BY <1>i, <2>3, <3>1
  <2> QED BY <1>2, <1>n, <2>1, <2>2, <2>3, DetectIs
<1> QED BY <1>1, <1>2

-----------------------------------------------------------------------------
(* The theorems.                                                           *)

(* The invariant holds before any command.                                 *)
LEMMA InitHolds == MCInit => BookInv
<1> SUFFICES ASSUME MCInit PROVE BookInv
  OBVIOUS
<1>1. /\ book \in Texts /\ ingested \in 0 .. LastPage
      /\ sections = {} /\ problems = {} /\ cards = {} /\ scores = {}
      /\ starts = [c \in Commands |-> 0]
      /\ pc = [s \in Slots |-> "idle"] /\ seen = [s \in Slots |-> 0]
      /\ homes = [s \in Slots |-> {}] /\ todo = [s \in Slots |-> << >>]
      /\ rows = [s \in Slots |-> {}]
      /\ covered = FALSE /\ shown = {}
  BY DEF MCInit, Init
<1>2. LastPage \in Nat \ {0} /\ MaxStarts \in [Commands -> Nat]
  BY <1>1, BookIsOne, BookPipelineAssumption
<1>3. Ids = {}
  BY <1>1 DEF Ids
<1>4. TypeOK
  <2>1. << >> \in Seq(Span) /\ 0 \in 0 .. LastPage
    BY <1>2
  <2>2. todo \in [Slots -> Seq(Span)] /\ seen \in [Slots -> 0 .. LastPage]
    BY <1>1, <2>1
  <2>3. /\ starts \in [Commands -> Nat] /\ \A c \in Commands : starts[c] <= MaxStarts[c]
        /\ homes \in [Slots -> SUBSET Page] /\ rows \in [Slots -> SUBSET Ids]
        /\ pc \in [Slots -> Commands \cup {"idle"}]
    BY <1>1, <1>2
  <2> QED BY <1>1, <1>3, <2>2, <2>3, TypesAre
<1>5. NumbersApart
  <2>1. \A span : Same(span) = {}
    BY <1>3 DEF Same
  <2> QED BY <1>1, <1>3, <2>1, FS_EmptySet DEF NumbersApart
<1>6. RunsNumbered /\ PagesHaveOneSection
  <2>1. Runs = {}
    BY <1>1 DEF Runs
  <2> QED BY <1>1, <2>1, FS_EmptySet DEF RunsNumbered, PagesHaveOneSection
<1>7. LeftOnce
  BY <1>1 DEF LeftOnce
<1>8. LoadedCards /\ ChosenWell /\ ShownSoFar /\ StoredSoFar /\ StoredWhole
  BY <1>1, <1>3 DEF LoadedCards, ChosenWell, ShownSoFar, StoredSoFar, StoredWhole, CandidatesAreAnswered
<1> QED BY <1>4, <1>5, <1>6, <1>7, <1>8 DEF BookInv

(* Every step keeps the invariant.                                         *)
LEMMA StepHolds == BookInv /\ [MCNext]_mcvars => BookInv'
<1> SUFFICES ASSUME BookInv, [MCNext]_mcvars PROVE BookInv'
  OBVIOUS
<1>1. CASE MCNext
  <2>1. Next
    BY <1>1 DEF MCNext
  <2>2. /\ TypeOK /\ NumbersApart /\ LoadedCards /\ LeftOnce /\ ChosenWell /\ ShownSoFar
        /\ StoredSoFar /\ StoredWhole /\ RunsNumbered /\ PagesHaveOneSection
    BY DEF BookInv
  <2>3. TypeOK'
    BY <2>1, <2>2, TypesStay
  <2>4. NumbersApart' /\ LoadedCards' /\ LeftOnce'
    BY <2>1, <2>2, NumbersStay, LoadedStay, LeftStays
  <2>5. RunsNumbered' /\ PagesHaveOneSection'
    BY <2>1, <2>2, SectionsStay
  <2>6. ChosenWell' /\ ShownSoFar' /\ StoredSoFar' /\ StoredWhole'
    BY <1>1, <2>2, <2>3, ChosenStays, ShownStays, StoredStays, WholeStays
  <2> QED BY <2>3, <2>4, <2>5, <2>6 DEF BookInv
<1>2. CASE UNCHANGED mcvars
  <2>1. UNCHANGED <<book, ingested, sections, problems, cards, scores, starts, pc, seen, homes, todo,
                    rows, early, overlapped, covered, shown, disorder>>
    BY <1>2 DEF mcvars, vars, tables, local
  <2>2. Ids' = Ids /\ LastPage' = LastPage /\ Span' = Span
    BY <2>1 DEF Ids, LastPage, Span
  <2>3. \A n : Candidates(n)' = Candidates(n)
    BY <2>1 DEF Candidates, Kept, Spans, Headings, Read, Until
  <2>4. TypeOK'
    BY <2>1 DEF BookInv, TypeOK, Ids, LastPage
  <2>5. NumbersApart'
    BY <2>1, <2>2 DEF BookInv, NumbersApart, Same
  <2>6. LoadedCards' /\ LeftOnce'
    BY <2>1 DEF BookInv, LoadedCards, LeftOnce
  <2>7. \A s : Left(s)' = Left(s)
    BY <2>1 DEF Left
  <2>8. ShownSoFar' /\ StoredSoFar' /\ StoredWhole'
    BY <2>1, <2>2, <2>3, <2>7 DEF BookInv, ShownSoFar, StoredSoFar, StoredWhole, CandidatesAreAnswered
  <2>9. ChosenWell'
    <3>1. \A span : PointsAtFigure(span)' <=> PointsAtFigure(span)
      BY <2>1 DEF PointsAtFigure
    <3>2. \A id : Chosen(id)' <=> Chosen(id)
      BY <2>1 DEF Chosen
    <3>3. ASSUME NEW p \in problems' PROVE WellChosen(p)'
      <4>1. WellChosen(p)
        BY <2>1, <3>3 DEF BookInv, ChosenWell
      <4>2. disorder' <=> disorder
        BY <2>1
      <4> QED BY <3>1, <3>2, <4>1, <4>2, Zenon DEF WellChosen
    <3> QED BY <3>3 DEF ChosenWell
  <2>10. RunsNumbered' /\ PagesHaveOneSection'
    BY <2>1 DEF BookInv, RunsNumbered, Runs, PagesHaveOneSection
  <2> QED BY <2>4, <2>5, <2>6, <2>8, <2>9, <2>10 DEF BookInv
<1> QED BY <1>1, <1>2

(* Whatever the books, the commands, their order and overlap, and whatever *)
(* of them fail, the invariant holds of the commands of the pipeline.      *)
THEOREM PipelineInvariance == MCSpec => []BookInv
<1> QED BY InitHolds, StepHolds, PTL DEF MCSpec

(* The tables and the memory of the commands are well formed: cards are of *)
(* stored problems, scores are of cards, and sections are within the book. *)
THEOREM PipelineTypes == MCSpec => []TypeOK
<1>1. BookInv => TypeOK
  BY DEF BookInv
<1> QED BY <1>1, PipelineInvariance, PTL

(* Every page that a structure run read is in exactly one of its sections. *)
THEOREM SectionsPartition == MCSpec => []PagesHaveOneSection
<1>1. BookInv => PagesHaveOneSection
  BY DEF BookInv
<1> QED BY <1>1, PipelineInvariance, PTL

(* Of any pages of any book, what detection keeps is disjoint, has one     *)
(* heading each, and loses no line after an item begins but those past the *)
(* cap of its own candidate (detection.py:136-172).                        *)
THEOREM DetectionTiles == MCSpec => []CandidatesTile
<1>1. BookInv => CandidatesTile
  BY Tiles, TypesAre, BookIsOne DEF BookInv
<1> QED BY <1>1, PipelineInvariance, PTL

(* Unless two detect commands overlap, every candidate is stored once, and *)
(* no line is stored twice when the pages were all in.                     *)
THEOREM StoredOnce == MCSpec => []OneAtATimeStoredOnce
<1>1. BookInv => OneAtATimeStoredOnce
  <2> SUFFICES ASSUME BookInv, ~overlapped, NEW p \in problems, NEW q \in problems, p # q
               PROVE  /\ p.id.span # q.id.span
                      /\ ~early => p.id.span.to < q.id.span.from \/ q.id.span.to < p.id.span.from
    BY DEF OneAtATimeStoredOnce
  <2>1. /\ p.id \in Ids /\ q.id \in Ids /\ p.id # q.id
        /\ \A x, y \in Ids : x.span = y.span => x = y
    BY DEF BookInv, NumbersApart, StoredSoFar, Ids
  <2>2. p.id.span # q.id.span
    BY <2>1
  <2>3. ASSUME ~early PROVE p.id.span.to < q.id.span.from \/ q.id.span.to < p.id.span.from
    <3> DEFINE c == p.id.span
               d == q.id.span
    <3>1. /\ c \in Candidates(LastPage) /\ d \in Candidates(LastPage)
          /\ book \in Texts /\ LastPage \in Nat
      BY <2>1, <2>3, TypesAre, BookIsOne DEF BookInv, StoredWhole
    <3> HIDE DEF c, d
    <3>2. \A e \in Candidates(LastPage) : e.from \in Nat /\ e.to \in Nat /\ e.from <= e.to
      <4> SUFFICES ASSUME NEW e \in Candidates(LastPage)
                   PROVE  e.from \in Nat /\ e.to \in Nat /\ e.from <= e.to
        OBVIOUS
      <4>1. PICK s \in Spans(LastPage) : e.from \in Nat /\ e.to \in e.from .. s.to
        BY <3>1, CandidateOf
      <4>2. s.to \in Nat
        BY <3>1, KeptIs
      <4> QED BY <4>1, <4>2
    <3>3. c # d
      BY <2>2 DEF c, d
    <3>4. \A i : ~(i \in c.from .. c.to /\ i \in d.from .. d.to)
      BY <3>1, <3>3, CandidatesApart
    <3>5. c.to < d.from \/ d.to < c.from
      <4>1. c.from \notin d.from .. d.to /\ d.from \notin c.from .. c.to
        BY <3>1, <3>2, <3>4
      <4> QED BY <3>1, <3>2, <4>1
    <3> QED BY <3>5 DEF c, d
  <2> QED BY <2>2, <2>3
<1> QED BY <1>1, PipelineInvariance, PTL

(* After a detect command that read the whole book ended well, no candidate *)
(* is unanswered.                                                          *)
THEOREM NothingOverlooked == MCSpec => []CandidatesAreAnswered
<1>1. BookInv => CandidatesAreAnswered
  BY DEF BookInv, ShownSoFar
<1> QED BY <1>1, PipelineInvariance, PTL

(* No derivation gets a card, whatever order the commands run in.          *)
THEOREM NoCardForDerivations == MCSpec => []DerivationsNeverCarded
<1>1. BookInv => DerivationsNeverCarded
  BY DEF BookInv, ChosenWell, WellChosen, Chosen, DerivationsNeverCarded
<1> QED BY <1>1, PipelineInvariance, PTL

(* Distilled only after the figures, a card is of a solvable problem.      *)
THEOREM CardsStaySolvable == MCSpec => []OrderedCardsStaySolvable
<1>1. BookInv => OrderedCardsStaySolvable
  <2> SUFFICES ASSUME BookInv, ~disorder, NEW p \in problems, p.id \in cards
               PROVE  p.solvable /\ ~PointsAtFigure(p.id.span)
    BY DEF OrderedCardsStaySolvable
  <2>1. WellChosen(p) /\ Chosen(p.id)
    BY DEF BookInv, ChosenWell, Chosen
  <2> QED BY <2>1 DEF WellChosen
<1> QED BY <1>1, PipelineInvariance, PTL

-----------------------------------------------------------------------------
(* The answer to a batch.                                                  *)

(* One turn of the loop of call_batch.                                     *)
Heeded(results, e, n) ==
    IF e.index \in 0 .. n - 1 /\ e.item # None
    THEN [results EXCEPT ![e.index] = e.item]
    ELSE results

(* What Results folds: the results of every set of places in the answer,   *)
(* the last place of the set taken last.                                   *)
Unfolds(f, answer, places, n) ==
    f = [s \in SUBSET places |->
            IF s = {} THEN [i \in 0 .. n - 1 |-> None]
            ELSE Heeded(f[s \ {Max(s)}], answer[Max(s)], n)]

(* Max is the greatest one.                                                *)
LEMMA MaxIs ==
    ASSUME NEW S \in SUBSET Int, NEW m \in S, \A k \in S : k <= m
    PROVE  Max(S) = m
<1>1. \A x \in S : (\A y \in S : x >= y) => x = m
  OBVIOUS
<1>2. \A y \in S : m >= y
  OBVIOUS
<1> QED BY <1>1, <1>2 DEF Max

(* One place more.                                                         *)
LEMMA UnfoldsOn ==
    ASSUME NEW n, NEW answer, NEW m \in Nat \ {0}, NEW g, Unfolds(g, answer, 1 .. m - 1, n)
    PROVE  \E f : Unfolds(f, answer, 1 .. m, n)
<1> DEFINE f == [s \in SUBSET (1 .. m) |->
                    IF m \in s THEN Heeded(g[s \ {m}], answer[m], n) ELSE g[s]]
<1>1. \A s \in SUBSET (1 .. m - 1) : /\ s \in SUBSET (1 .. m) /\ m \notin s /\ f[s] = g[s]
  OBVIOUS
<1>2. ASSUME NEW s \in SUBSET (1 .. m)
      PROVE  f[s] = IF s = {} THEN [i \in 0 .. n - 1 |-> None]
                    ELSE Heeded(f[s \ {Max(s)}], answer[Max(s)], n)
  <2>1. CASE m \in s
    <3>1. Max(s) = m
      <4>1. s \in SUBSET Int /\ \A k \in s : k <= m
        OBVIOUS
      <4> QED BY <2>1, <4>1, MaxIs
    <3>2. s \ {m} \in SUBSET (1 .. m - 1)
      OBVIOUS
    <3>3. f[s] = Heeded(g[s \ {m}], answer[m], n)
      BY <2>1
    <3>4. f[s \ {m}] = g[s \ {m}]
      BY <1>1, <3>2
    <3> HIDE DEF f
    <3> QED BY <2>1, <3>1, <3>3, <3>4
  <2>2. CASE m \notin s
    <3>1. s \in SUBSET (1 .. m - 1) /\ s \ {Max(s)} \in SUBSET (1 .. m - 1)
      <4>1. \A k \in s : k \in 1 .. m - 1
        BY <2>2
      <4> QED BY <4>1, Zenon
    <3>2. f[s] = g[s] /\ f[s \ {Max(s)}] = g[s \ {Max(s)}]
      BY <1>1, <3>1
    <3>3. g[s] = IF s = {} THEN [i \in 0 .. n - 1 |-> None]
                 ELSE Heeded(g[s \ {Max(s)}], answer[Max(s)], n)
      BY <3>1, Zenon DEF Unfolds
    <3> HIDE DEF f
    <3> QED BY <3>2, <3>3
  <2> QED BY <2>1, <2>2
<1>3. f = [s \in SUBSET (1 .. m) |-> f[s]]
  OBVIOUS
<1> HIDE DEF f
<1>4. Unfolds(f, answer, 1 .. m, n)
  BY <1>2, <1>3, Zenon DEF Unfolds
<1> QED BY <1>4, Zenon

(* The fold exists, so Results is it.                                      *)
LEMMA ResultsUnfold ==
    ASSUME NEW n, NEW answer, NEW len \in Nat, DOMAIN answer = 1 .. len
    PROVE  \E f : Unfolds(f, answer, 1 .. len, n) /\ Results(answer, n) = f[1 .. len]
<1> DEFINE Lacks == {k \in Nat : ~ \E f : Unfolds(f, answer, 1 .. k, n)}
           it == CHOOSE f : Unfolds(f, answer, 1 .. len, n)
<1>1. Lacks = {}
  <2> SUFFICES ASSUME Lacks # {} PROVE FALSE
    OBVIOUS
  <2>1. PICK m \in Lacks : \A k \in Lacks : m <= k
    <3> HIDE DEF Lacks
    <3>1. Lacks \in SUBSET Nat
      BY DEF Lacks
    <3> QED BY <3>1, LeastExists
  <2>2. m = 0
    <3> SUFFICES ASSUME m # 0 PROVE FALSE
      OBVIOUS
    <3>1. m \in Nat \ {0} /\ m - 1 \in Nat /\ ~ (m <= m - 1)
      OBVIOUS
    <3>2. m - 1 \notin Lacks
      <4> HIDE DEF Lacks
      <4> QED BY <2>1, <3>1
    <3>3. PICK g : Unfolds(g, answer, 1 .. m - 1, n)
      BY <3>1, <3>2
    <3> QED BY <2>1, <3>1, <3>3, UnfoldsOn
  <2>3. Unfolds([s \in {{}} |-> [i \in 0 .. n - 1 |-> None]], answer, 1 .. 0, n)
    <3>1. SUBSET (1 .. 0) = {{}}
      OBVIOUS
    <3> DEFINE e == [s \in {{}} |-> [i \in 0 .. n - 1 |-> None]]
    <3>2. e = [s \in {{}} |-> IF s = {} THEN [i \in 0 .. n - 1 |-> None]
                             ELSE Heeded(e[s \ {Max(s)}], answer[Max(s)], n)]
      OBVIOUS
    <3> HIDE DEF e
    <3> QED BY <3>1, <3>2, Zenon DEF Unfolds, e
  <2> QED BY <2>1, <2>2, <2>3
<1>2. Unfolds(it, answer, 1 .. len, n)
  <2>1. \E f : Unfolds(f, answer, 1 .. len, n)
    BY <1>1
  <2> QED BY <2>1, Zenon
<1>3. Results(answer, n) = it[1 .. len]
  BY Zenon DEF Results, FoldLeft, MapThenFoldSet, Heeded, Unfolds
<1> QED BY <1>2, <1>3

(* What is known of the results when the first k elements were heeded.     *)
AlignedSoFar(r, answer, k, n) ==
    /\ r \in [0 .. n - 1 -> Items \cup {None}]
    /\ \A i \in 0 .. n - 1 :
         /\ r[i] = None => \A j \in 1 .. k : answer[j].index = i => answer[j].item = None
         /\ r[i] # None => \E j \in 1 .. k : answer[j].index = i /\ answer[j].item = r[i]

(* The next element keeps it so.                                           *)
LEMMA AlignedOn ==
    ASSUME NEW n \in Nat, NEW answer, NEW k \in Nat, NEW r,
           AlignedSoFar(r, answer, k, n), answer[k + 1] \in Elements(n)
    PROVE  AlignedSoFar(Heeded(r, answer[k + 1], n), answer, k + 1, n)
<1> DEFINE e == answer[k + 1]
           q == Heeded(r, e, n)
<1>1. e \in [index : -1 .. n, item : Items \cup {None}] /\ r \in [0 .. n - 1 -> Items \cup {None}]
  BY DEF Elements, AlignedSoFar
<1>2. q \in [0 .. n - 1 -> Items \cup {None}]
  BY <1>1 DEF Heeded
<1>3. ASSUME NEW i \in 0 .. n - 1
      PROVE  /\ q[i] = None => \A j \in 1 .. k + 1 : answer[j].index = i => answer[j].item = None
             /\ q[i] # None => \E j \in 1 .. k + 1 : answer[j].index = i /\ answer[j].item = q[i]
  <2>1. CASE e.index = i /\ e.item # None
    <3>1. q[i] = e.item
      BY <1>1, <2>1 DEF Heeded
    <3> QED BY <2>1, <3>1
  <2>2. CASE ~ (e.index = i /\ e.item # None)
    <3>1. q[i] = r[i]
      BY <1>1, <2>2 DEF Heeded
    <3>2. /\ r[i] = None => \A j \in 1 .. k : answer[j].index = i => answer[j].item = None
          /\ r[i] # None => \E j \in 1 .. k : answer[j].index = i /\ answer[j].item = r[i]
      BY DEF AlignedSoFar
    <3>3. 1 .. k + 1 = (1 .. k) \cup {k + 1}
      OBVIOUS
    <3> HIDE DEF q
    <3> QED BY <2>2, <3>1, <3>2, <3>3
  <2> QED BY <2>1, <2>2
<1> HIDE DEF q
<1>4. AlignedSoFar(q, answer, k + 1, n)
  BY <1>2, <1>3 DEF AlignedSoFar
<1> QED BY <1>4 DEF q

(* call_batch (batching.py:66-109): of any answer, each result is what the *)
(* model said of that very thing, and none is lost.                        *)
LEMMA AnswersAlign ==
    ASSUME NEW n \in Nat, NEW answer \in Answers(n)
    PROVE  Aligned(answer, n)
<1>1. PICK len \in 0 .. n + 1 : answer \in [1 .. len -> Elements(n)]
  BY DEF Answers
<1>2. len \in Nat /\ DOMAIN answer = 1 .. len
  BY <1>1
<1>3. PICK f : Unfolds(f, answer, 1 .. len, n) /\ Results(answer, n) = f[1 .. len]
  BY <1>2, ResultsUnfold
<1> DEFINE Off == {k \in Nat : k <= len /\ ~ AlignedSoFar(f[1 .. k], answer, k, n)}
<1>4. Off = {}
  <2> SUFFICES ASSUME Off # {} PROVE FALSE
    OBVIOUS
  <2>1. PICK m \in Off : \A k \in Off : m <= k
    <3> HIDE DEF Off
    <3>1. Off \in SUBSET Nat
      BY DEF Off
    <3> QED BY <3>1, LeastExists
  <2>2. m \in Nat /\ m <= len /\ 1 .. m \in SUBSET (1 .. len)
    BY <1>2
  <2>3. CASE m = 0
    <3>1. f[{}] = [i \in 0 .. n - 1 |-> None]
      BY <1>3 DEF Unfolds
    <3>2. 1 .. m = {}
      BY <2>3
    <3> QED BY <2>1, <2>3, <3>1, <3>2 DEF AlignedSoFar
  <2>4. CASE m # 0
    <3>1. m - 1 \in Nat /\ m - 1 <= len /\ (m - 1) + 1 = m /\ m \in 1 .. len /\ ~ (m <= m - 1)
      BY <2>2, <2>4
    <3>2. AlignedSoFar(f[1 .. m - 1], answer, m - 1, n)
      <4>1. m - 1 \notin Off
        <5> HIDE DEF Off
        <5> QED BY <2>1, <3>1
      <4> QED BY <3>1, <4>1
    <3>3. f[1 .. m] = Heeded(f[1 .. m - 1], answer[m], n)
      <4>1. 1 .. m # {} /\ Max(1 .. m) = m /\ (1 .. m) \ {m} = 1 .. m - 1
        <5>1. 1 .. m \in SUBSET Int /\ m \in 1 .. m /\ \A k \in 1 .. m : k <= m
          BY <2>2, <2>4
        <5>2. Max(1 .. m) = m
          BY <5>1, MaxIs
        <5>3. (1 .. m) \ {m} = 1 .. m - 1
          BY <2>2
        <5> QED BY <5>1, <5>2, <5>3
      <4> QED BY <1>3, <2>2, <4>1 DEF Unfolds
    <3>4. answer[m] \in Elements(n)
      BY <1>1, <3>1
    <3>5. AlignedSoFar(Heeded(f[1 .. m - 1], answer[(m - 1) + 1], n), answer, (m - 1) + 1, n)
      BY <3>1, <3>2, <3>4, AlignedOn
    <3> QED BY <2>1, <3>1, <3>3, <3>5
  <2> QED BY <2>3, <2>4
<1>5. AlignedSoFar(Results(answer, n), answer, len, n)
  BY <1>2, <1>3, <1>4
<1>6. Range(answer) = {answer[j] : j \in 1 .. len}
  BY <1>2 DEF Range
<1> QED BY <1>5, <1>6 DEF AlignedSoFar, Aligned

(* For any answer to a batch of any size, with elements missing,           *)
(* malformed, repeated, out of order or out of range, each result is what  *)
(* the model said of that very candidate, and none is lost                 *)
(* (batching.py:96-107).                                                   *)
THEOREM AnswersLand == MCSpec => []AnswersLandOnTheirItem
<1>1. ASSUME NEW n \in 1 .. BatchSize, NEW answer \in Answers(n) PROVE Aligned(answer, n)
  BY AnswersAlign
<1>2. AnswersLandOnTheirItem
  BY <1>1, Zenon DEF AnswersLandOnTheirItem
<1> QED BY <1>2, PTL
==============================================================================
