--------------------------- MODULE ConceptIssuance ---------------------------
(***************************************************************************)
(* What practice-forge promises a course (README.md:6-8): a concept that   *)
(* was issued to a course is never issued to it again.  Concepts are held  *)
(* by the job that issued them, a job issues all its concepts at once, and *)
(* a job is delivered (reported done to the faculty) only when it holds    *)
(* some.  ProblemSets implements this specification; it says nothing of    *)
(* how a set is selected, generated, rendered or stored.                   *)
(***************************************************************************)
CONSTANTS
    Jobs,        \* the jobs that may issue concepts
    Courses,     \* the scope of the promise
    Clusters     \* concept clusters, the unit that is issued

VARIABLES
    held,        \* held[c][j]: the concepts job j issued to course c
    delivered    \* the issuing jobs reported done

vars == <<held, delivered>>

TypeOK ==
    /\ held \in [Courses -> [Jobs -> SUBSET Clusters]]
    /\ delivered \in SUBSET Jobs

Init ==
    /\ held = [c \in Courses |-> [j \in Jobs |-> {}]]
    /\ delivered = {}

(* Job j issues the concepts S to course c, none of which c was issued     *)
(* before, by j or by another job.                                         *)
Issue(c, j, S) ==
    /\ S # {}
    /\ \A k \in Jobs : S \cap held[c][k] = {}
    /\ held[c][j] = {}
    /\ held' = [held EXCEPT ![c] = [held[c] EXCEPT ![j] = S]]
    /\ UNCHANGED delivered

Deliver(j) ==
    /\ \E c \in Courses : held[c][j] # {}
    /\ delivered' = delivered \cup {j}
    /\ UNCHANGED held

Next ==
    \/ \E c \in Courses, j \in Jobs, S \in SUBSET Clusters : Issue(c, j, S)
    \/ \E j \in Jobs : Deliver(j)

Spec == Init /\ [][Next]_vars
==============================================================================
