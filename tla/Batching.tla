------------------------------ MODULE Batching -------------------------------
(***************************************************************************)
(* call_batch (src/practice_forge/llm/batching.py): one call of the model  *)
(* for a list of n things, and what of its answer reaches which of them.   *)
(* An answer is the array the model sent: each element names the thing it  *)
(* is about by an index from 0, and holds an item, or None when it does    *)
(* not pass the schema.  A truncated answer, or none that parses as an     *)
(* array, is the empty array.                                              *)
(***************************************************************************)
EXTENDS Integers, Sequences, SequencesExt

CONSTANTS Items, None

Elements(n) == [index : -1 .. n, item : Items \cup {None}]

(* Answers with one element more than there are things.                    *)
Answers(n) == UNION {[1..k -> Elements(n)] : k \in 0 .. n + 1}

(* Fault: the elements are taken in the order they came.                   *)
ResultsByPosition(answer, n) ==
    [i \in 0 .. n - 1 |->
        IF i + 1 \in DOMAIN answer THEN answer[i + 1].item ELSE None]

(* The results by index: an element that is out of range or malformed is   *)
(* passed over, a later one for the same index replaces an earlier one.    *)
Results(answer, n) ==
    FoldLeft(LAMBDA results, e :
                 IF e.index \in 0 .. n - 1 /\ e.item # None
                 THEN [results EXCEPT ![e.index] = e.item]
                 ELSE results,
             [i \in 0 .. n - 1 |-> None], answer)

(* What a caller relies on, of an answer it got: a result is one the model *)
(* gave for that very thing, and a thing has none only if no well-formed   *)
(* element names it.                                                       *)
Aligned(answer, n) ==
    \A i \in 0 .. n - 1 :
        LET said == {e \in Range(answer) : e.index = i} IN
        IF Results(answer, n)[i] = None
        THEN \A e \in said : e.item = None
        ELSE \E e \in said : e.item = Results(answer, n)[i]
==============================================================================
