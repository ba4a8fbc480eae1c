----------------------------- MODULE Distillation ----------------------------
(***************************************************************************)
(* S5, `pf distill` (src/practice_forge/concepts/concepts.py): a run       *)
(* distils the solvable problems of a book that have no card yet, batch by *)
(* batch with a commit each, and then, in one last commit, puts the cards  *)
(* it made into clusters: the first whose representative matches, be it    *)
(* there already or new, else a cluster of the card's own.  Clusters are   *)
(* shared by all books of a discipline; they are the unit of the no-repeat *)
(* guarantee and all that selection ever draws from.                       *)
(*                                                                         *)
(* A card is identified by its problem (source_problem_id is unique) and a *)
(* cluster by its representative card.                                     *)
(***************************************************************************)
EXTENDS Naturals, FiniteSets

CONSTANTS
    Runs,
    Books,
    Problems,     \* the solvable problems of the books of one discipline
    BookOf,
    Similar,      \* pairs with equal fingerprints or cosine >= 0.92
    BatchSize,
    Concurrency   \* how many runs are under way at once

ASSUME DistillationAssumption ==
    /\ IsFiniteSet(Runs)
    /\ IsFiniteSet(Problems)
    /\ BookOf \in [Problems -> Books]
    /\ Similar \subseteq Problems \X Problems
    /\ \A p \in Problems : <<p, p>> \in Similar
    /\ \A p, q \in Problems : <<p, q>> \in Similar => <<q, p>> \in Similar
    /\ BatchSize \in Nat \ {0}
    /\ Concurrency \in Nat \ {0}

VARIABLES
    cards,        \* rows of concept_cards
    clusters,     \* rows of concept_clusters
    pc,           \* where a run stands
    todo,         \* problems it is still to distil
    fresh,        \* cards it made and has not put into a cluster yet
    view,         \* the clusters as its session sees them
    touched       \* representatives of those it has made or extended

db    == <<cards, clusters>>
local == <<todo, fresh, view, touched>>
vars  == <<cards, clusters, pc, todo, fresh, view, touched>>

Cluster == [rep : Problems, members : SUBSET Problems]
Active == {"batch", "cluster"}

TypeOK ==
    /\ cards \in SUBSET Problems
    /\ clusters \in SUBSET Cluster
    /\ pc \in [Runs -> Active \cup {"idle", "done", "aborted", "raised"}]
    /\ todo \in [Runs -> SUBSET Problems]
    /\ fresh \in [Runs -> SUBSET Problems]
    /\ view \in [Runs -> SUBSET Cluster]
    /\ touched \in [Runs -> SUBSET Problems]

Init ==
    /\ cards = {}
    /\ clusters = {}
    /\ pc = [r \in Runs |-> "idle"]
    /\ todo = [r \in Runs |-> {}]
    /\ fresh = [r \in Runs |-> {}]
    /\ view = [r \in Runs |-> {}]
    /\ touched = [r \in Runs |-> {}]

Goto(r, p) == pc' = [pc EXCEPT ![r] = p]

Running == {r \in Runs : pc[r] \in Active}

Undistilled(b) == {p \in Problems : BookOf[p] = b} \ cards

Matching(r, p) == {c \in view[r] : <<c.rep, p>> \in Similar}

-----------------------------------------------------------------------------
(* With nothing left to distil the run is over at once.                    *)
Start(r, b) ==
    /\ pc[r] = "idle"
    /\ Cardinality(Running) < Concurrency
    /\ todo' = [todo EXCEPT ![r] = Undistilled(b)]
    /\ Goto(r, IF Undistilled(b) = {} THEN "done" ELSE "batch")
    /\ UNCHANGED <<db, fresh, view, touched>>

(* Fault: only the cards of the last batch are kept for clustering.        *)
BatchKeepsLast(r) ==
    /\ pc[r] = "batch"
    /\ \E batch \in SUBSET todo[r] \ {{}} : \E got \in SUBSET batch :
         /\ Cardinality(batch) = BatchSize \/ batch = todo[r]
         /\ Cardinality(batch) <= BatchSize
         /\ cards' = cards \cup got
         /\ todo' = [todo EXCEPT ![r] = @ \ batch]
         /\ fresh' = [fresh EXCEPT ![r] = got]
    /\ UNCHANGED <<clusters, pc, view, touched>>

(* One call for the next batch, its embeddings, and the commit.  got is    *)
(* what the model answered well; the rest is left for another run.  The    *)
(* unique source_problem_id refuses a card another run has made since.     *)
Batch(r) ==
    /\ pc[r] = "batch"
    /\ \E batch \in SUBSET todo[r] \ {{}} : \E got \in SUBSET batch :
         /\ Cardinality(batch) = BatchSize \/ batch = todo[r]
         /\ Cardinality(batch) <= BatchSize
         /\ IF got \cap cards # {}
            THEN Goto(r, "aborted") /\ UNCHANGED <<cards, todo, fresh>>
            ELSE /\ cards' = cards \cup got
                 /\ todo' = [todo EXCEPT ![r] = @ \ batch]
                 /\ fresh' = [fresh EXCEPT ![r] = @ \cup got]
                 /\ UNCHANGED pc
    /\ UNCHANGED <<clusters, view, touched>>

(* Fault: only this run's own cards are compared.                          *)
LoadNoClusters(r) ==
    /\ pc[r] = "batch"
    /\ todo[r] = {}
    /\ view' = [view EXCEPT ![r] = {}]
    /\ Goto(r, "cluster")
    /\ UNCHANGED <<db, todo, fresh, touched>>

(* _cluster_cards loads the clusters of the discipline ...                 *)
LoadClusters(r) ==
    /\ pc[r] = "batch"
    /\ todo[r] = {}
    /\ view' = [view EXCEPT ![r] = clusters]
    /\ Goto(r, "cluster")
    /\ UNCHANGED <<db, todo, fresh, touched>>

(* Fault: a card joins every cluster it matches.                           *)
PlaceEverywhere(r, p) ==
    /\ pc[r] = "cluster"
    /\ p \in fresh[r]
    /\ fresh' = [fresh EXCEPT ![r] = @ \ {p}]
    /\ IF Matching(r, p) # {}
       THEN /\ view' = [view EXCEPT ![r] =
                  {IF c \in Matching(r, p) THEN [c EXCEPT !.members = @ \cup {p}] ELSE c : c \in @}]
            /\ touched' = [touched EXCEPT ![r] = @ \cup {c.rep : c \in Matching(r, p)}]
       ELSE /\ view' = [view EXCEPT ![r] = @ \cup {[rep |-> p, members |-> {p}]}]
            /\ touched' = [touched EXCEPT ![r] = @ \cup {p}]
    /\ UNCHANGED <<db, pc, todo>>

(* Fault: a card joins a cluster any member of which it matches.           *)
PlaceByMember(r, p) ==
    /\ pc[r] = "cluster"
    /\ p \in fresh[r]
    /\ fresh' = [fresh EXCEPT ![r] = @ \ {p}]
    /\ LET near == {c \in view[r] : \E m \in c.members : <<m, p>> \in Similar} IN
       \/ \E c \in near :
            /\ view' = [view EXCEPT ![r] = (@ \ {c}) \cup {[c EXCEPT !.members = @ \cup {p}]}]
            /\ touched' = [touched EXCEPT ![r] = @ \cup {c.rep}]
       \/ /\ near = {}
          /\ view' = [view EXCEPT ![r] = @ \cup {[rep |-> p, members |-> {p}]}]
          /\ touched' = [touched EXCEPT ![r] = @ \cup {p}]
    /\ UNCHANGED <<db, pc, todo>>

(* ... and places card after card; the clusters come in no order, so the   *)
(* first that matches is any.                                              *)
Place(r, p) ==
    /\ pc[r] = "cluster"
    /\ p \in fresh[r]
    /\ fresh' = [fresh EXCEPT ![r] = @ \ {p}]
    /\ \/ \E c \in Matching(r, p) :
            /\ view' = [view EXCEPT ![r] = (@ \ {c}) \cup {[c EXCEPT !.members = @ \cup {p}]}]
            /\ touched' = [touched EXCEPT ![r] = @ \cup {c.rep}]
       \/ /\ Matching(r, p) = {}
          /\ view' = [view EXCEPT ![r] = @ \cup {[rep |-> p, members |-> {p}]}]
          /\ touched' = [touched EXCEPT ![r] = @ \cup {p}]
    /\ UNCHANGED <<db, pc, todo>>

(* Commit the touched clusters: new rows, and the whole member list of the *)
(* others.                                                                 *)
CommitClusters(r) ==
    /\ pc[r] = "cluster"
    /\ fresh[r] = {}
    /\ clusters' = {c \in clusters : c.rep \notin touched[r]}
                   \cup {c \in view[r] : c.rep \in touched[r]}
    /\ Goto(r, "done")
    /\ UNCHANGED <<cards, local>>

(* The daily quota is spent, a call fails, or the process is stopped; what *)
(* was not committed is gone.                                              *)
Raise(r) ==
    /\ pc[r] \in Active
    /\ Goto(r, "raised")
    /\ UNCHANGED <<db, local>>

-----------------------------------------------------------------------------
Next ==
    \E r \in Runs :
        \/ \E b \in Books : Start(r, b)
        \/ Batch(r)
        \/ LoadClusters(r)
        \/ \E p \in Problems : Place(r, p)
        \/ CommitClusters(r)
        \/ Raise(r)

Spec == Init /\ [][Next]_vars

-----------------------------------------------------------------------------
(* Properties.                                                             *)

Idle == Running = {}

Clustered == UNION {c.members : c \in clusters}

(* A card is in at most one cluster, though runs on several books extend   *)
(* the same clusters at once.                                              *)
OneClusterPerCard ==
    \A c, d \in clusters : c # d => c.rep # d.rep /\ c.members \cap d.members = {}

(* A cluster holds cards that match its representative, and has it among   *)
(* them; matching is not transitive, the other members need not match.     *)
MembersMatchRepresentative ==
    \A c \in clusters :
        /\ c.rep \in c.members
        /\ c.members \subseteq cards
        /\ \A m \in c.members : <<c.rep, m>> \in Similar

(* After an interruption re-running is enough (PROGRESS.md:247).  The code *)
(* does not keep it: the cards of the batches that were committed are      *)
(* skipped by the run that resumes, and only a run's own cards are placed. *)
RerunLeavesNoOrphans ==
    \A b \in Books :
        Idle /\ Undistilled(b) = {} /\ (\E r \in Runs : pc[r] = "done") =>
            {p \in cards : BookOf[p] = b} \subseteq Clustered

-----------------------------------------------------------------------------
(* The inductive invariant of the proofs.                                  *)

(* The clusters in the table and in the sessions of runs, over or not.     *)
Seen == clusters \cup UNION {view[r] : r \in Runs}

(* A card that is still to be placed is in no cluster and with one run.    *)
FreshInv ==
    /\ \A r \in Runs : fresh[r] \subseteq cards
    /\ \A r, q \in Runs : r # q => fresh[r] \cap fresh[q] = {}
    /\ \A c \in Seen, r \in Runs : c.members \cap fresh[r] = {}

(* Sessions differ in what they know of a cluster, but a card has the same *)
(* representative wherever it is seen.                                     *)
HomeInv ==
    /\ \A c \in Seen :
         /\ c.rep \in c.members
         /\ c.members \subseteq cards
         /\ \A m \in c.members : <<c.rep, m>> \in Similar
    /\ \A c, d \in Seen : c.members \cap d.members # {} => c.rep = d.rep
    /\ \A c, d \in clusters : c.rep = d.rep => c = d
    /\ \A r \in Runs : \A c, d \in view[r] : c.rep = d.rep => c = d
==============================================================================
