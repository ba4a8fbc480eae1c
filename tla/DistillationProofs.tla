------------------------- MODULE DistillationProofs --------------------------
(***************************************************************************)
(* Theorems about Distillation, for any books, problems, runs at once,     *)
(* batch size and symmetric, reflexive matching.                           *)
(***************************************************************************)
EXTENDS MCDistillation, FiniteSetTheorems, TLAPS

(* The tables and the sessions of the runs hold what their columns allow.  *)
THEOREM TypeCorrect == Spec => []TypeOK
<1>1. Init => TypeOK
  BY DEF Init, TypeOK
<1>2. TypeOK /\ [Next]_vars => TypeOK'
  <2> SUFFICES ASSUME TypeOK, [Next]_vars PROVE TypeOK'
    OBVIOUS
  <2> USE DEF TypeOK, Active
  <2>1. ASSUME NEW r \in Runs, NEW b \in Books, Start(r, b)
        PROVE  TypeOK'
    BY <2>1 DEF Start, Undistilled, Goto, db
  <2>2. ASSUME NEW r \in Runs, Batch(r)
        PROVE  TypeOK'
    <3> PICK batch \in SUBSET todo[r] \ {{}} : \E got \in SUBSET batch :
               IF got \cap cards # {}
               THEN Goto(r, "aborted") /\ UNCHANGED <<cards, todo, fresh>>
               ELSE /\ cards' = cards \cup got
                    /\ todo' = [todo EXCEPT ![r] = @ \ batch]
                    /\ fresh' = [fresh EXCEPT ![r] = @ \cup got]
                    /\ UNCHANGED pc
      BY <2>2 DEF Batch
    <3> QED
      BY <2>2 DEF Batch, Goto
  <2>3. ASSUME NEW r \in Runs, LoadClusters(r)
        PROVE  TypeOK'
    BY <2>3 DEF LoadClusters, Goto, db
  <2>4. ASSUME NEW r \in Runs, NEW p \in Problems, Place(r, p)
        PROVE  TypeOK'
    <3>1. CASE \E c \in Matching(r, p) :
                 /\ view' = [view EXCEPT ![r] = (@ \ {c}) \cup {[c EXCEPT !.members = @ \cup {p}]}]
                 /\ touched' = [touched EXCEPT ![r] = @ \cup {c.rep}]
      <4> PICK c \in Matching(r, p) :
                 /\ view' = [view EXCEPT ![r] = (@ \ {c}) \cup {[c EXCEPT !.members = @ \cup {p}]}]
                 /\ touched' = [touched EXCEPT ![r] = @ \cup {c.rep}]
        BY <3>1
      <4>1. c \in Cluster
        BY DEF Matching
      <4>2. [c EXCEPT !.members = @ \cup {p}] \in Cluster /\ c.rep \in Problems
        BY <4>1 DEF Cluster
      <4> QED
        BY <2>4, <4>2 DEF Place, db
    <3>2. CASE /\ view' = [view EXCEPT ![r] = @ \cup {[rep |-> p, members |-> {p}]}]
               /\ touched' = [touched EXCEPT ![r] = @ \cup {p}]
      <4>1. [rep |-> p, members |-> {p}] \in Cluster
        BY DEF Cluster
      <4> QED
        BY <2>4, <3>2, <4>1 DEF Place, db
    <3> QED
      BY <2>4, <3>1, <3>2 DEF Place
  <2>5. ASSUME NEW r \in Runs, CommitClusters(r)
        PROVE  TypeOK'
    BY <2>5 DEF CommitClusters, Goto, local
  <2>6. ASSUME NEW r \in Runs, Raise(r)
        PROVE  TypeOK'
    BY <2>6 DEF Raise, Goto, db, local
  <2>7. CASE UNCHANGED vars
    BY <2>7 DEF vars
  <2> QED
    BY <2>1, <2>2, <2>3, <2>4, <2>5, <2>6, <2>7 DEF Next
<1> QED
  BY <1>1, <1>2, PTL DEF Spec

-----------------------------------------------------------------------------
(* A batch makes cards nobody has: they are in no cluster yet.             *)
LEMMA BatchStep ==
  ASSUME TypeOK, FreshInv, HomeInv, NEW r \in Runs, Batch(r)
  PROVE  FreshInv' /\ HomeInv'
<1> USE DEF TypeOK
<1>1. PICK got \in SUBSET Problems :
        IF got \cap cards # {}
        THEN UNCHANGED <<cards, fresh>>
        ELSE /\ cards' = cards \cup got
             /\ fresh' = [fresh EXCEPT ![r] = @ \cup got]
  BY DEF Batch
<1>2. clusters' = clusters /\ view' = view /\ Seen' = Seen
  BY DEF Batch, Seen
<1>3. CASE got \cap cards # {}
  BY <1>1, <1>2, <1>3 DEF FreshInv, HomeInv
<1>4. CASE got \cap cards = {}
  <2>1. cards' = cards \cup got /\ fresh' = [fresh EXCEPT ![r] = @ \cup got]
    BY <1>1, <1>4
  <2>2. \A c \in Seen : c.members \cap got = {}
    BY <1>4 DEF HomeInv
  <2>3. FreshInv'
    BY <1>2, <1>4, <2>1, <2>2 DEF FreshInv
  <2>4. HomeInv'
    BY <1>2, <2>1 DEF HomeInv
  <2> QED
    BY <2>3, <2>4
<1> QED
  BY <1>3, <1>4

(* Loading and storing clusters shows nothing that was not seen before.    *)
LEMMA LoadStep ==
  ASSUME TypeOK, FreshInv, HomeInv, NEW r \in Runs, LoadClusters(r)
  PROVE  FreshInv' /\ HomeInv'
<1> USE DEF TypeOK
<1>1. view' = [view EXCEPT ![r] = clusters] /\ UNCHANGED <<cards, clusters, fresh>>
  BY DEF LoadClusters, db
<1>2. Seen' \subseteq Seen
  BY <1>1 DEF Seen
<1>3. FreshInv'
  BY <1>1, <1>2 DEF FreshInv
<1>4. \A q \in Runs : \A c, d \in view'[q] : c.rep = d.rep => c = d
  BY <1>1 DEF HomeInv
<1>5. HomeInv'
  BY <1>1, <1>2, <1>4 DEF HomeInv
<1> QED
  BY <1>3, <1>5

(* So does storing them.                                                   *)
LEMMA CommitStep ==
  ASSUME TypeOK, FreshInv, HomeInv, NEW r \in Runs, CommitClusters(r)
  PROVE  FreshInv' /\ HomeInv'
<1> USE DEF TypeOK
<1>1. /\ clusters' = {c \in clusters : c.rep \notin touched[r]}
                     \cup {c \in view[r] : c.rep \in touched[r]}
      /\ UNCHANGED <<cards, fresh, view>>
  BY DEF CommitClusters, local
<1>2. Seen' \subseteq Seen
  BY <1>1 DEF Seen
<1>3. FreshInv'
  BY <1>1, <1>2 DEF FreshInv
<1>4. \A c, d \in clusters' : c.rep = d.rep => c = d
  BY <1>1 DEF HomeInv
<1>5. HomeInv'
  BY <1>1, <1>2, <1>4 DEF HomeInv
<1> QED
  BY <1>3, <1>5

-----------------------------------------------------------------------------
(* A card is placed once: until then no cluster has it, and afterwards the *)
(* one it was placed in does.                                              *)
LEMMA PlaceStep ==
  ASSUME TypeOK, FreshInv, HomeInv,
         NEW r \in Runs, NEW p \in Problems, Place(r, p)
  PROVE  FreshInv' /\ HomeInv'
<1> USE DEF TypeOK
<1>1. /\ p \in fresh[r]
      /\ fresh' = [fresh EXCEPT ![r] = @ \ {p}]
      /\ UNCHANGED <<cards, clusters>>
  BY DEF Place, db
<1>2. p \in cards /\ \A c \in Seen : p \notin c.members
  BY <1>1 DEF FreshInv
<1>3. PICK gone \in SUBSET view[r], new \in Cluster :
        /\ view' = [view EXCEPT ![r] = (@ \ gone) \cup {new}]
        /\ <<new.rep, p>> \in Similar
        /\ \/ \E c \in view[r] :
                gone = {c} /\ new.rep = c.rep /\ new.members = c.members \cup {p}
           \/ gone = {} /\ new.rep = p /\ new.members = {p}
  <2>1. CASE \E c \in Matching(r, p) :
               view' = [view EXCEPT ![r] = (@ \ {c}) \cup {[c EXCEPT !.members = @ \cup {p}]}]
    <3> PICK c \in Matching(r, p) :
               view' = [view EXCEPT ![r] = (@ \ {c}) \cup {[c EXCEPT !.members = @ \cup {p}]}]
      BY <2>1
    <3> DEFINE n == [c EXCEPT !.members = @ \cup {p}]
    <3>1. c \in view[r] /\ c \in Cluster /\ <<c.rep, p>> \in Similar
      BY DEF Matching
    <3>2. n \in Cluster /\ n.rep = c.rep /\ n.members = c.members \cup {p}
      BY <3>1 DEF Cluster
    <3>3. {c} \in SUBSET view[r] /\ view' = [view EXCEPT ![r] = (@ \ {c}) \cup {n}]
      BY <3>1
    <3> HIDE DEF n
    <3> QED
      BY <3>1, <3>2, <3>3
  <2>2. CASE view' = [view EXCEPT ![r] = @ \cup {[rep |-> p, members |-> {p}]}]
    <3> DEFINE n == [rep |-> p, members |-> {p}]
    <3>1. n \in Cluster /\ n.rep = p /\ n.members = {p}
      BY DEF Cluster
    <3>2. view' = [view EXCEPT ![r] = (@ \ {}) \cup {n}] /\ {} \in SUBSET view[r]
      BY <2>2
    <3>3. <<p, p>> \in Similar
      BY DistillationAssumption
    <3> HIDE DEF n
    <3> QED
      BY <3>1, <3>2, <3>3
  <2> QED
    BY <2>1, <2>2 DEF Place
<1>4. Seen' \subseteq Seen \cup {new} /\ view'[r] = (view[r] \ gone) \cup {new}
  BY <1>1, <1>3 DEF Seen
<1>5. \A c \in view[r] : c \in Seen
  BY DEF Seen
<1>6. \A q \in Runs : new.members \cap fresh'[q] = {}
  BY <1>1, <1>3, <1>5 DEF FreshInv
<1>7. FreshInv'
  BY <1>1, <1>4, <1>6 DEF FreshInv
<1>8. /\ new.rep \in new.members
      /\ new.members \subseteq cards
      /\ \A m \in new.members : <<new.rep, m>> \in Similar
  BY <1>2, <1>3, <1>5 DEF HomeInv
<1>9. \A d \in Seen : d.members \cap new.members # {} => d.rep = new.rep
  BY <1>2, <1>3, <1>5 DEF HomeInv
<1>10. \A d \in view[r] \ gone : d.rep # new.rep
  <2>1. CASE gone = {}
    BY <1>2, <1>3, <1>5, <2>1 DEF HomeInv
  <2>2. CASE gone # {}
    BY <1>3, <2>2 DEF HomeInv
  <2> QED
    BY <2>1, <2>2
<1>11. \A q \in Runs : \A c, d \in view'[q] : c.rep = d.rep => c = d
  <2> SUFFICES ASSUME NEW q \in Runs
               PROVE  \A c, d \in view'[q] : c.rep = d.rep => c = d
    OBVIOUS
  <2>1. CASE q = r
    BY <1>4, <1>10, <2>1 DEF HomeInv
  <2>2. CASE q # r
    BY <1>3, <2>2 DEF HomeInv
  <2> QED
    BY <2>1, <2>2
<1>12. HomeInv'
  <2>1. \A c, d \in Seen' : c.members \cap d.members # {} => c.rep = d.rep
    BY <1>4, <1>9 DEF HomeInv
  <2>2. \A c \in Seen' : /\ c.rep \in c.members
                         /\ c.members \subseteq cards
                         /\ \A m \in c.members : <<c.rep, m>> \in Similar
    BY <1>4, <1>8 DEF HomeInv
  <2> QED
    BY <1>1, <1>11, <2>1, <2>2 DEF HomeInv
<1> QED
  BY <1>7, <1>12

(* Every card has one place, seen from the table and from every session.   *)
LEMMA Invariance == Spec => [](FreshInv /\ HomeInv)
<1>1. Init => FreshInv /\ HomeInv
  BY DEF Init, FreshInv, HomeInv, Seen
<1>2. TypeOK /\ FreshInv /\ HomeInv /\ [Next]_vars => FreshInv' /\ HomeInv'
  <2> SUFFICES ASSUME TypeOK, FreshInv, HomeInv, [Next]_vars
               PROVE  FreshInv' /\ HomeInv'
    OBVIOUS
  <2>1. ASSUME UNCHANGED <<cards, clusters, fresh, view>>
        PROVE  FreshInv' /\ HomeInv'
    BY <2>1 DEF FreshInv, HomeInv, Seen
  <2>2. ASSUME NEW r \in Runs, NEW b \in Books, Start(r, b)
        PROVE  FreshInv' /\ HomeInv'
    BY <2>1, <2>2 DEF Start, db
  <2>3. ASSUME NEW r \in Runs, Raise(r)
        PROVE  FreshInv' /\ HomeInv'
    BY <2>1, <2>3 DEF Raise, db, local
  <2>4. CASE UNCHANGED vars
    BY <2>1, <2>4 DEF vars
  <2> QED
    BY <2>2, <2>3, <2>4, BatchStep, LoadStep, PlaceStep, CommitStep DEF Next
<1> QED
  BY <1>1, <1>2, TypeCorrect, PTL DEF Spec

(* However many runs extend the same clusters at once and wherever they    *)
(* stop, a card is in at most one cluster.                                 *)
THEOREM ClustersStayDisjoint == Spec => []OneClusterPerCard
<1>1. FreshInv /\ HomeInv => OneClusterPerCard
  BY DEF HomeInv, OneClusterPerCard, Seen
<1> QED
  BY <1>1, Invariance, PTL

(* Whatever runs overlap, what a cluster holds matches its representative. *)
THEOREM ClustersStaySound == Spec => []MembersMatchRepresentative
<1>1. FreshInv /\ HomeInv => MembersMatchRepresentative
  BY DEF HomeInv, MembersMatchRepresentative, Seen
<1> QED
  BY <1>1, Invariance, PTL

-----------------------------------------------------------------------------
(* One run at a time.                                                      *)

(* Counting to one.                                                        *)
LEMMA AtMostOne ==
    ASSUME NEW S, IsFiniteSet(S), Cardinality(S) <= 1, NEW x \in S, NEW y \in S
    PROVE  x = y
<1>1. Cardinality(S) \in Nat /\ Cardinality(S) # 0
  BY FS_CardinalityType, FS_EmptySet
<1>2. PICK z : S = {z}
  BY <1>1, FS_Singleton
<1> QED
  BY <1>2

(* While no two runs were under way at once, the clusters in the table and *)
(* those in the session that extends them have representatives of which no *)
(* two match, and they are the same clusters but for the touched ones.     *)
DistinctInv ==
    /\ \A q, r \in Running : q = r
    /\ \A c, d \in clusters : <<c.rep, d.rep>> \in Similar => c = d
    /\ \A r \in Runs : pc[r] \in {"idle", "batch"} => touched[r] = {}
    /\ \A r \in Runs : pc[r] = "cluster" =>
         /\ \A c, d \in view[r] : <<c.rep, d.rep>> \in Similar => c = d
         /\ \A c \in view[r] : c.rep \notin touched[r] => c \in clusters
         /\ \A c \in clusters : c.rep \notin touched[r] => c \in view[r]

(* While besides none was interrupted, no card is out of sight: it is in a *)
(* cluster, or about to be placed by the run that is under way.            *)
NoneRaised == \A r \in Runs : pc[r] # "raised"

PlacedInv ==
    /\ \A r \in Runs :
         /\ pc[r] # "aborted"
         /\ pc[r] = "batch" => todo[r] \cap cards = {}
         /\ pc[r] \notin Active => fresh[r] = {}
         /\ pc[r] = "cluster" =>
              \A p \in cards : p \in fresh[r] \/ \E c \in view[r] : p \in c.members
    /\ (\A r \in Runs : pc[r] # "cluster") =>
         \A p \in cards : (\E r \in Runs : p \in fresh[r]) \/ \E c \in clusters : p \in c.members

LEMMA OverlapSeen ==
    ASSUME MCNext, ~overlapped'
    PROVE  ~overlapped /\ \A q, r \in Running' : q = r
<1>1. Running' \subseteq Runs
  BY DEF Running
<1>2. IsFiniteSet(Running')
  BY <1>1, FS_Subset, DistillationAssumption
<1>3. ~overlapped /\ ~(Cardinality(Running') > 1)
  BY Zenon DEF MCNext
<1>4. Cardinality(Running') <= 1
  BY <1>2, <1>3, FS_CardinalityType
<1> QED
  BY <1>2, <1>3, <1>4, AtMostOne

(* What Place does to the session: a matching cluster of it grows by the   *)
(* card, or none matches and the card gets one of its own.                 *)
PlacesAs(r, p, gone, new) ==
    /\ view' = [view EXCEPT ![r] = (@ \ gone) \cup {new}]
    /\ touched' = [touched EXCEPT ![r] = @ \cup {new.rep}]
    /\ p \in new.members
    /\ \/ \E c \in view[r] : gone = {c} /\ new.rep = c.rep /\ c.members \subseteq new.members
       \/ gone = {} /\ new.rep = p /\ \A c \in view[r] : <<c.rep, p>> \notin Similar

LEMMA PlaceDoes ==
    ASSUME TypeOK, NEW r \in Runs, NEW p \in Problems, Place(r, p)
    PROVE  \E gone \in SUBSET view[r], new \in Cluster : PlacesAs(r, p, gone, new)
<1> USE DEF TypeOK
<1>1. ASSUME NEW c \in Matching(r, p),
             view' = [view EXCEPT ![r] = (@ \ {c}) \cup {[c EXCEPT !.members = @ \cup {p}]}],
             touched' = [touched EXCEPT ![r] = @ \cup {c.rep}]
      PROVE  \E gone \in SUBSET view[r], new \in Cluster : PlacesAs(r, p, gone, new)
  <2> DEFINE n == [c EXCEPT !.members = @ \cup {p}]
  <2>1. c \in view[r] /\ c \in Cluster
    BY DEF Matching
  <2>2. n \in Cluster /\ n.rep = c.rep /\ n.members = c.members \cup {p}
    BY <2>1 DEF Cluster
  <2>3. view' = [view EXCEPT ![r] = (@ \ {c}) \cup {n}] /\ {c} \in SUBSET view[r]
    BY <1>1, <2>1
  <2> HIDE DEF n
  <2> QED
    BY <1>1, <2>1, <2>2, <2>3 DEF PlacesAs
<1>2. ASSUME Matching(r, p) = {},
             view' = [view EXCEPT ![r] = @ \cup {[rep |-> p, members |-> {p}]}],
             touched' = [touched EXCEPT ![r] = @ \cup {p}]
      PROVE  \E gone \in SUBSET view[r], new \in Cluster : PlacesAs(r, p, gone, new)
  <2> DEFINE n == [rep |-> p, members |-> {p}]
  <2>1. n \in Cluster /\ n.rep = p /\ p \in n.members
    BY DEF Cluster
  <2>2. view' = [view EXCEPT ![r] = (@ \ {}) \cup {n}] /\ {} \in SUBSET view[r]
    BY <1>2
  <2>3. \A c \in view[r] : <<c.rep, p>> \notin Similar
    BY <1>2 DEF Matching
  <2> HIDE DEF n
  <2> QED
    BY <1>2, <2>1, <2>2, <2>3 DEF PlacesAs
<1> QED
  BY <1>1, <1>2 DEF Place

(* A run that commits leaves in the table the clusters of its session.     *)
LEMMA CommitsItsView ==
    ASSUME DistinctInv, NEW r \in Runs, CommitClusters(r)
    PROVE  clusters' = view[r]
BY DEF DistinctInv, CommitClusters

LEMMA DistinctStep ==
    ASSUME TypeOK, HomeInv, DistinctInv, Next, \A q, r \in Running' : q = r
    PROVE  DistinctInv'
<1> USE DEF TypeOK, Active, Goto, db, local
<1>1. ASSUME NEW r \in Runs, NEW b \in Books, Start(r, b)
      PROVE  DistinctInv'
  BY <1>1 DEF Start, DistinctInv
<1>2. ASSUME NEW r \in Runs, Batch(r)
      PROVE  DistinctInv'
  <2>1. /\ pc[r] = "batch"
        /\ pc' = pc \/ pc' = [pc EXCEPT ![r] = "aborted"]
        /\ UNCHANGED <<clusters, view, touched>>
    BY <1>2 DEF Batch
  <2> QED
    BY <2>1 DEF DistinctInv
<1>3. ASSUME NEW r \in Runs, LoadClusters(r)
      PROVE  DistinctInv'
  BY <1>3 DEF LoadClusters, DistinctInv
<1>4. ASSUME NEW r \in Runs, NEW p \in Problems, Place(r, p)
      PROVE  DistinctInv'
  <2>1. pc[r] = "cluster" /\ clusters' = clusters /\ pc' = pc
    BY <1>4 DEF Place
  <2>0. PICK gone \in SUBSET view[r], new \in Cluster : PlacesAs(r, p, gone, new)
    BY <1>4, PlaceDoes
  <2>2. /\ view' = [view EXCEPT ![r] = (@ \ gone) \cup {new}]
        /\ touched' = [touched EXCEPT ![r] = @ \cup {new.rep}]
        /\ \/ \E c \in view[r] : gone = {c} /\ new.rep = c.rep
           \/ gone = {} /\ new.rep = p /\ \A c \in view[r] : <<c.rep, p>> \notin Similar
    BY <2>0 DEF PlacesAs
  <2>3. /\ view'[r] = (view[r] \ gone) \cup {new}
        /\ touched'[r] = touched[r] \cup {new.rep}
    BY <2>2
  <2>4. \A c \in view[r] \ gone : <<c.rep, new.rep>> \notin Similar
    BY <2>1, <2>2 DEF DistinctInv
  <2>5. \A c \in view[r] \ gone : <<new.rep, c.rep>> \notin Similar
    BY <2>4, DistillationAssumption
  <2>6. \A c, d \in view'[r] : <<c.rep, d.rep>> \in Similar => c = d
    BY <2>1, <2>3, <2>4, <2>5 DEF DistinctInv
  <2>7. \A c \in view'[r] : c.rep \notin touched'[r] => c \in clusters
    BY <2>1, <2>3 DEF DistinctInv
  <2>8. \A c \in clusters : c.rep \notin touched'[r] => c \in view'[r]
    BY <2>1, <2>2, <2>3 DEF DistinctInv
  <2>9. \A q \in Runs \ {r} : view'[q] = view[q] /\ touched'[q] = touched[q]
    BY <2>2
  <2> QED
    BY <2>1, <2>6, <2>7, <2>8, <2>9 DEF DistinctInv, Running
<1>5. ASSUME NEW r \in Runs, CommitClusters(r)
      PROVE  DistinctInv'
  <2>1. clusters' = view[r]
    BY <1>5, CommitsItsView
  <2>2. pc[r] = "cluster" /\ pc' = [pc EXCEPT ![r] = "done"] /\ UNCHANGED <<view, touched>>
    BY <1>5 DEF CommitClusters
  <2>3. \A q \in Runs \ {r} : pc'[q] # "cluster"
    BY <2>2 DEF DistinctInv, Running
  <2> QED
    BY <2>1, <2>2, <2>3 DEF DistinctInv
<1>6. ASSUME NEW r \in Runs, Raise(r)
      PROVE  DistinctInv'
  BY <1>6 DEF Raise, DistinctInv
<1> QED
  BY <1>1, <1>2, <1>3, <1>4, <1>5, <1>6 DEF Next

LEMMA PlacedStep ==
    ASSUME TypeOK, HomeInv, DistinctInv, PlacedInv, Next,
           \A q, r \in Running' : q = r, NoneRaised'
    PROVE  PlacedInv'
<1> USE DEF TypeOK, Active, Goto, db, local
<1>1. ASSUME NEW r \in Runs, NEW b \in Books, Start(r, b)
      PROVE  PlacedInv'
  BY <1>1 DEF Start, PlacedInv, Undistilled, Running
<1>2. ASSUME NEW r \in Runs, Batch(r)
      PROVE  PlacedInv'
  <2>1. PICK batch \in SUBSET todo[r], got \in SUBSET todo[r] :
          /\ got \subseteq batch
          /\ IF got \cap cards # {}
             THEN Goto(r, "aborted")
             ELSE /\ cards' = cards \cup got
                  /\ todo' = [todo EXCEPT ![r] = @ \ batch]
                  /\ fresh' = [fresh EXCEPT ![r] = @ \cup got]
                  /\ UNCHANGED pc
    BY <1>2 DEF Batch
  <2>2. pc[r] = "batch" /\ got \cap cards = {} /\ UNCHANGED <<clusters, view>>
    BY <1>2 DEF Batch, PlacedInv
  <2>3. /\ cards' = cards \cup got
        /\ todo' = [todo EXCEPT ![r] = @ \ batch]
        /\ fresh' = [fresh EXCEPT ![r] = @ \cup got]
        /\ pc' = pc
    BY <2>1, <2>2
  <2>4. \A q \in Runs \ {r} : pc[q] \notin Active
    BY <2>2 DEF DistinctInv, Running
  <2>5. todo'[r] \cap cards' = {}
    <3>1. todo'[r] = todo[r] \ batch
      BY <2>3
    <3>2. todo[r] \cap cards = {}
      BY <2>2 DEF PlacedInv
    <3> QED
      BY <2>1, <2>3, <3>1, <3>2
  <2> QED
    BY <2>2, <2>3, <2>4, <2>5 DEF PlacedInv
<1>3. ASSUME NEW r \in Runs, LoadClusters(r)
      PROVE  PlacedInv'
  <2>1. /\ pc[r] = "batch" /\ pc' = [pc EXCEPT ![r] = "cluster"]
        /\ view'[r] = clusters
        /\ UNCHANGED <<cards, clusters, todo, fresh>>
    BY <1>3 DEF LoadClusters
  <2>2. \A q \in Runs \ {r} : pc[q] \notin Active
    BY <2>1 DEF DistinctInv, Running
  <2>3. \A p \in cards : p \in fresh[r] \/ \E c \in clusters : p \in c.members
    BY <2>1, <2>2 DEF PlacedInv
  <2> QED
    BY <2>1, <2>2, <2>3 DEF PlacedInv
<1>4. ASSUME NEW r \in Runs, NEW p \in Problems, Place(r, p)
      PROVE  PlacedInv'
  <2>1. /\ pc[r] = "cluster" /\ UNCHANGED <<cards, clusters, pc, todo>>
        /\ fresh' = [fresh EXCEPT ![r] = @ \ {p}]
    BY <1>4 DEF Place
  <2>0. PICK gone \in SUBSET view[r], new \in Cluster : PlacesAs(r, p, gone, new)
    BY <1>4, PlaceDoes
  <2>2. /\ view' = [view EXCEPT ![r] = (@ \ gone) \cup {new}]
        /\ p \in new.members
        /\ \A c \in gone : c.members \subseteq new.members
    BY <2>0 DEF PlacesAs
  <2>3. \A q \in cards : q \in fresh'[r] \/ \E c \in view'[r] : q \in c.members
    <3> SUFFICES ASSUME NEW q \in cards, q \notin fresh'[r]
                 PROVE  \E c \in view'[r] : q \in c.members
      OBVIOUS
    <3>1. view'[r] = (view[r] \ gone) \cup {new}
      BY <2>2
    <3>2. CASE q = p
      BY <2>2, <3>1, <3>2
    <3>3. CASE q # p
      <4>1. PICK c \in view[r] : q \in c.members
        BY <2>1, <3>3 DEF PlacedInv
      <4>2. c \in gone => q \in new.members
        BY <2>2, <4>1
      <4> QED
        BY <3>1, <4>1, <4>2
    <3> QED
      BY <3>2, <3>3
  <2>4. \A q \in Runs \ {r} : pc[q] \notin Active
    BY <2>1 DEF DistinctInv, Running
  <2> QED
    BY <2>1, <2>3, <2>4 DEF PlacedInv
<1>5. ASSUME NEW r \in Runs, CommitClusters(r)
      PROVE  PlacedInv'
  <2>1. clusters' = view[r]
    BY <1>5, CommitsItsView
  <2>2. /\ pc[r] = "cluster" /\ fresh[r] = {}
        /\ pc' = [pc EXCEPT ![r] = "done"]
        /\ UNCHANGED <<cards, todo, fresh, view>>
    BY <1>5 DEF CommitClusters
  <2>3. \A q \in Runs \ {r} : pc[q] \notin Active
    BY <2>2 DEF DistinctInv, Running
  <2>4. \A p \in cards : \E c \in clusters' : p \in c.members
    BY <2>1, <2>2 DEF PlacedInv
  <2> QED
    BY <2>2, <2>3, <2>4 DEF PlacedInv
<1>6. ASSUME NEW r \in Runs, Raise(r)
      PROVE  PlacedInv'
  BY <1>6 DEF Raise, NoneRaised
<1> QED
  BY <1>1, <1>2, <1>3, <1>4, <1>5, <1>6 DEF Next

LEMMA RaisedForGood ==
    ASSUME TypeOK, Next, NoneRaised'
    PROVE  NoneRaised
<1> USE DEF TypeOK, NoneRaised, Goto, Active
<1>1. ASSUME NEW r \in Runs, NEW b \in Books, Start(r, b) PROVE NoneRaised
  BY <1>1 DEF Start
<1>2. ASSUME NEW r \in Runs, Batch(r) PROVE NoneRaised
  BY <1>2 DEF Batch
<1>3. ASSUME NEW r \in Runs, LoadClusters(r) PROVE NoneRaised
  BY <1>3 DEF LoadClusters
<1>4. ASSUME NEW r \in Runs, NEW p \in Problems, Place(r, p) PROVE NoneRaised
  BY <1>4 DEF Place
<1>5. ASSUME NEW r \in Runs, CommitClusters(r) \/ Raise(r) PROVE NoneRaised
  BY <1>5 DEF CommitClusters, Raise
<1> QED
  BY <1>1, <1>2, <1>3, <1>4, <1>5 DEF Next

LEMMA MCRefines == MCSpec => Spec
<1>1. MCInit => Init
  BY DEF MCInit
<1>2. [MCNext]_<<vars, overlapped>> => [Next]_vars
  BY DEF MCNext
<1> QED
  BY <1>1, <1>2, PTL DEF MCSpec, Spec

LEMMA OneAtATimeInvariance ==
    MCSpec => [](~overlapped => DistinctInv /\ (NoneRaised => PlacedInv))
<1> DEFINE I == ~overlapped => DistinctInv /\ (NoneRaised => PlacedInv)
<1>1. MCInit => I
  BY DEF MCInit, Init, DistinctInv, PlacedInv, Running, Active
<1>2. TypeOK /\ HomeInv /\ I /\ [MCNext]_<<vars, overlapped>> => I'
  <2> SUFFICES ASSUME TypeOK, HomeInv, I, [MCNext]_<<vars, overlapped>> PROVE I'
    OBVIOUS
  <2>1. CASE MCNext
    <3>1. ASSUME ~overlapped' PROVE DistinctInv /\ Next /\ \A q, r \in Running' : q = r
      BY <2>1, <3>1, OverlapSeen DEF MCNext
    <3>2. ASSUME ~overlapped', NoneRaised' PROVE PlacedInv
      BY <2>1, <3>2, OverlapSeen, RaisedForGood DEF MCNext
    <3>3. ASSUME ~overlapped' PROVE DistinctInv'
      BY <3>1, <3>3, DistinctStep
    <3>4. ASSUME ~overlapped', NoneRaised' PROVE PlacedInv'
      BY <3>1, <3>2, <3>4, PlacedStep
    <3> QED
      BY <3>3, <3>4
  <2>2. CASE UNCHANGED <<vars, overlapped>>
    BY <2>2 DEF vars, DistinctInv, PlacedInv, Running, NoneRaised
  <2> QED
    BY <2>1, <2>2
<1> QED
  BY <1>1, <1>2, TypeCorrect, Invariance, MCRefines, PTL DEF MCSpec

(* Runs that load the clusters before any other is under way never make    *)
(* two clusters of one concept, in whatever order the cards come.          *)
THEOREM DistinctOneAtATime == MCSpec => []ClustersAreDistinctConcepts
<1>1. (~overlapped => DistinctInv) => ClustersAreDistinctConcepts
  BY DEF DistinctInv, ClustersAreDistinctConcepts
<1> QED
  BY <1>1, OneAtATimeInvariance, PTL

(* A card without a cluster is what an interrupted run leaves: runs that   *)
(* never overlap and end by themselves place every card they make.         *)
THEOREM OrphansNeedAnInterruption == MCSpec => []OrphansOnlyAfterInterruption
<1>1. HomeInv /\ (~overlapped => (NoneRaised => PlacedInv)) => OrphansOnlyAfterInterruption
  <2> SUFFICES ASSUME HomeInv, NoneRaised, PlacedInv, Idle
               PROVE  cards = Clustered
    BY DEF OrphansOnlyAfterInterruption, NoneRaised
  <2>1. \A r \in Runs : pc[r] \notin Active
    BY DEF Idle, Running
  <2>2. \A p \in cards : \E c \in clusters : p \in c.members
    BY <2>1 DEF PlacedInv, Active
  <2>3. \A c \in clusters : c.members \subseteq cards
    BY DEF HomeInv, Seen
  <2> QED
    BY <2>2, <2>3 DEF Clustered
<1> QED
  BY <1>1, OneAtATimeInvariance, Invariance, MCRefines, PTL
==============================================================================
