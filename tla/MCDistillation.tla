--------------------------- MODULE MCDistillation ----------------------------
(* Distillation for TLC, with a ghost that remembers whether two runs were *)
(* ever under way at once.                                                 *)
EXTENDS Distillation, TLC

CONSTANTS b1, b2, p1, p2, p3, p4

(* Two books.  p1 and p3 match, p3 and p4 match, p1 and p4 do not.         *)
BookOfProblem == [p \in Problems |-> IF p \in {p1, p2} THEN b1 ELSE b2]
Matches ==
    {<<p, p>> : p \in Problems} \cup
    {<<p1, p3>>, <<p3, p1>>, <<p3, p4>>, <<p4, p3>>}

VARIABLE overlapped

MCInit == Init /\ overlapped = FALSE

MCNext == Next /\ overlapped' = (overlapped \/ Cardinality(Running') > 1)

MCSpec == MCInit /\ [][MCNext]_<<vars, overlapped>>

Symmetry == Permutations(Runs)

-----------------------------------------------------------------------------
(* Runs that never overlap leave no two clusters with matching             *)
(* representatives, in whatever order and over however many interrupted    *)
(* runs the cards came: issuing two clusters never issues one concept      *)
(* twice (concepts.py:272-273, "every call loads this discipline's         *)
(* EXISTING clusters first").                                              *)
ClustersAreDistinctConcepts ==
    ~overlapped =>
        \A c, d \in clusters : <<c.rep, d.rep>> \in Similar => c = d

(* Cards without a cluster are never drawn for a problem set.  Runs that   *)
(* never overlap and run to their end leave none.                          *)
OrphansOnlyAfterInterruption ==
    ~overlapped /\ Idle /\ (\A r \in Runs : pc[r] # "raised") => cards = Clustered
==============================================================================
