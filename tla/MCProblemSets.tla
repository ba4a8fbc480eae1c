--------------------------- MODULE MCProblemSets -----------------------------
(* ProblemSets for TLC, with a ghost that remembers whether two tasks were *)
(* ever under way at once.                                                 *)
EXTENDS ProblemSets, TLC

VARIABLE overlapped

MCInit == Init /\ overlapped = FALSE

MCNext == Next /\ overlapped' = (overlapped \/ Cardinality(Running') > 1)

MCSpec == MCInit /\ [][MCNext]_<<vars, overlapped>>

MCFairSpec == MCSpec /\ Fairness

Symmetry == Permutations(Jobs) \cup Permutations(Clusters) \cup Permutations(Courses)

-----------------------------------------------------------------------------
(* While tasks run one after another, as with a single worker process, the *)
(* unique indexes are never hit: a task sees what every earlier task       *)
(* committed, also what a task that failed or died left behind.            *)
SerialNeverAborts == ~overlapped => \A j \in Jobs : pc[j] # "aborted"

(* While tasks run one after another, two issuing sets of a course share a *)
(* concept only after a worker died between storing a set and writing its  *)
(* ledger.                                                                 *)
SerialRepeatsOnlyAfterCrash ==
    ~overlapped =>
        \A s, t \in IssuingSets :
            s # t /\ s.course = t.course /\ s.clusters \cap t.clusters # {} =>
                pc[s.id] = "crashed" \/ pc[t.id] = "crashed"
==============================================================================
