---------------------------- MODULE PracticeProofs ----------------------------
(***************************************************************************)
(* Proofs about Selection, for every number of concepts and sections, any  *)
(* tables, requests and caps; and about Practice, for any number of        *)
(* commands at once, any programs and any ways their runs may end.         *)
(***************************************************************************)
EXTENDS Practice, FiniteSetTheorems, SequenceTheorems, TLAPS

-----------------------------------------------------------------------------
(* Selection.                                                              *)

(* What is used of division: quotient and remainder make up the number.    *)
LEMMA Divided ==
    ASSUME NEW x \in Nat
    PROVE  /\ x \div 20 \in Nat
           /\ x % 20 \in 0 .. 19
           /\ x = 20 * (x \div 20) + (x % 20)
OBVIOUS

(* _scale_difficulty_mix (selection.py:97-113) gives the three tiers       *)
(* exactly as many problems as were asked for: the floors leave over a     *)
(* twentieth of the sum of the remainders, so at most two, and the order   *)
(* of the remainders gives that many tiers one more.                       *)
LEMMA MixAddsUp ==
    ASSUME NEW n \in Nat
    PROVE  ScaledMix(n) \in Mix /\ MixSum(ScaledMix(n)) = n
<1> DEFINE a == (6 * n) \div 20  b == (9 * n) \div 20  c == (5 * n) \div 20
           r == (6 * n) % 20     s == (9 * n) % 20     t == (5 * n) % 20
           left == n - (a + b + c)
<1>1. /\ Base["easy"] = 6 /\ Base["medium"] = 9 /\ Base["hard"] = 5
      /\ Rank["easy"] = 0 /\ Rank["medium"] = 1 /\ Rank["hard"] = 2
  BY DEF Base, Rank
<1>2. /\ a \in Nat /\ b \in Nat /\ c \in Nat
      /\ r \in 0 .. 19 /\ s \in 0 .. 19 /\ t \in 0 .. 19
      /\ 6 * n = 20 * a + r /\ 9 * n = 20 * b + s /\ 5 * n = 20 * c + t
  <2>1. 6 * n \in Nat /\ 9 * n \in Nat /\ 5 * n \in Nat
    OBVIOUS
  <2> QED BY <2>1, Divided
<1>3. 20 * left = r + s + t /\ left \in 0 .. 2
  BY <1>2
<1>4. /\ Floor(n)["easy"] = a /\ Floor(n)["medium"] = b /\ Floor(n)["hard"] = c
      /\ n - MixSum(Floor(n)) = left
  BY <1>1 DEF Floor, Tiers, MixSum
<1> DEFINE Up(k) == \/ left = 1 /\ \A j \in Tiers \ {k} : Before(k, j, n)
                    \/ left = 2 /\ \E j \in Tiers \ {k} : Before(k, j, n)
<1>5. ScaledMix(n) = [k \in Tiers |-> IF Up(k) THEN Floor(n)[k] + 1 ELSE Floor(n)[k]]
  BY <1>4 DEF ScaledMix
<1>6. /\ ScaledMix(n)["easy"] = IF Up("easy") THEN a + 1 ELSE a
      /\ ScaledMix(n)["medium"] = IF Up("medium") THEN b + 1 ELSE b
      /\ ScaledMix(n)["hard"] = IF Up("hard") THEN c + 1 ELSE c
  BY <1>4, <1>5 DEF Tiers
<1>7. /\ Before("easy", "medium", n) <=> r >= s
      /\ Before("easy", "hard", n) <=> r >= t
      /\ Before("medium", "easy", n) <=> s > r
      /\ Before("medium", "hard", n) <=> s >= t
      /\ Before("hard", "easy", n) <=> t > r
      /\ Before("hard", "medium", n) <=> t > s
  BY <1>1, <1>2 DEF Before
<1>8. /\ Tiers \ {"easy"} = {"medium", "hard"}
      /\ Tiers \ {"medium"} = {"easy", "hard"}
      /\ Tiers \ {"hard"} = {"easy", "medium"}
  BY DEF Tiers
<1>9. /\ Up("easy") <=> \/ left = 1 /\ r >= s /\ r >= t
                        \/ left = 2 /\ (r >= s \/ r >= t)
      /\ Up("medium") <=> \/ left = 1 /\ s > r /\ s >= t
                          \/ left = 2 /\ (s > r \/ s >= t)
      /\ Up("hard") <=> \/ left = 1 /\ t > r /\ t > s
                        \/ left = 2 /\ (t > r \/ t > s)
  BY <1>7, <1>8
<1> HIDE DEF Up, a, b, c, r, s, t
<1>10. ScaledMix(n)["easy"] + ScaledMix(n)["medium"] + ScaledMix(n)["hard"] = a + b + c + left
  BY <1>2, <1>3, <1>6, <1>9
<1>11. MixSum(ScaledMix(n)) = n
  BY <1>2, <1>10 DEF MixSum
<1>12. ScaledMix(n) \in Mix
  BY <1>2, <1>5, <1>4 DEF Mix, Tiers
<1> QED BY <1>11, <1>12

-----------------------------------------------------------------------------

(* Cardinalities, for sets of concepts.                                    *)
LEMMA ConceptsFinite ==
    ASSUME NEW S \in SUBSET Concepts
    PROVE  IsFiniteSet(S) /\ Cardinality(S) \in Nat
BY SelectionAssumption, FS_Subset, FS_CardinalityType

(* Taking one more adds one.                                               *)
LEMMA OneMore ==
    ASSUME NEW S \in SUBSET Concepts, NEW m \in Concepts, m \notin S
    PROVE  Cardinality(S \cup {m}) = Cardinality(S) + 1
BY ConceptsFinite, FS_AddElement

(* A part is not larger than the whole.                                    *)
LEMMA Larger ==
    ASSUME NEW S \in SUBSET Concepts, NEW T \in SUBSET S
    PROVE  Cardinality(T) <= Cardinality(S)
BY ConceptsFinite, FS_Subset

(* The request was not refused.                                            *)
Asked == request.mix # NoMix => MixSum(request.mix) = Target

(* The quotas of the tiers add up to the target, scaled or explicit.       *)
LEMMA AskedSum ==
    ASSUME TypeOK, Asked
    PROVE  Target \in Nat /\ TargetMix \in Mix /\ MixSum(TargetMix) = Target
<1>1. Target \in Nat /\ request.mix \in Mix \cup {NoMix}
  BY DEF TypeOK, Request, Target
<1>2. CASE request.mix = NoMix
  BY <1>1, <1>2, MixAddsUp DEF TargetMix
<1>3. CASE request.mix # NoMix
  BY <1>1, <1>3 DEF TargetMix, Asked
<1> QED BY <1>2, <1>3

(* The caps are kept in these states: the passes, and a set returned by    *)
(* one.                                                                    *)
Running == phase \in Passes \/ reachable

InTier(k) == {m \in selected : tier[m] = k}

(* Where a selection starts, and how it ends.                              *)
Began ==
    /\ pool \in Pools
    /\ phase = "start" => selected = {} /\ taken = 0 /\ reports = {} /\ todo = {} /\ ~reachable
    /\ reachable => phase = "returned"
    /\ Running => Asked

(* What has been taken and what a pass may still take.                     *)
Drawn ==
    /\ Running => selected \subseteq Members
    /\ phase \in Passes => todo \subseteq Members \ selected
    /\ phase \in Tiers => reports = {} /\ \A m \in todo : tier[m] = phase

(* The caps that no pass gives up.                                         *)
Capped ==
    Running =>
        /\ \A s \in Sections : Cardinality(InSection(selected, s)) <= SectionCap
        /\ Cardinality(selected \cap pool.physics) <= MaxPhysics
        /\ Cardinality(selected) <= Target

(* The pass of a tier has taken from its tier alone, and the later ones    *)
(* are untouched; no tier is over its quota until a pass that fills up     *)
(* takes one, which ends in a report.                                      *)
Tiered ==
    /\ phase \in Tiers =>
         /\ Cardinality(InTier(phase)) = taken
         /\ \A k \in Tiers : Rank[phase] < Rank[k] => InTier(k) = {}
    /\ Running /\ reports = {} /\ (phase \in Tiers \/ reachable \/ taken = 0) =>
         \A k \in Tiers : Cardinality(InTier(k)) <= TargetMix[k]

(* No two are similar until the last pass takes one.                       *)
Dissimilar ==
    Running /\ "cosine" \notin reports /\ (phase # "relax" \/ taken = 0) =>
        \A a, b \in selected : a # b => <<a, b>> \notin pool.similar

(* A cap leaves no room for m.                                             *)
Blocked(m) ==
    \/ Cardinality(InSection(selected, pool.section[m])) >= SectionCap
    \/ m \in pool.physics /\ Cardinality(selected \cap pool.physics) >= MaxPhysics

(* In the last pass, what was considered and not taken did not fit under a *)
(* cap, and does not any more.                                             *)
Tried ==
    /\ phase = "relax" => \A m \in Members \ selected : m \in todo \/ Blocked(m)
    /\ reachable /\ Short => \A m \in Members \ selected : Blocked(m)

(* The inductive invariant.                                                *)
IInv == TypeOK /\ Began /\ Drawn /\ Capped /\ Tiered /\ Dissimilar /\ Tried

-----------------------------------------------------------------------------

(* The types of what a pass looks at.                                      *)
LEMMA Bounds ==
    ASSUME TypeOK
    PROVE  /\ SectionCap \in Nat /\ MaxPhysics \in Nat
           /\ Members \subseteq Concepts
           /\ pool \in Pool
<1>1. request \in Request /\ pool \in Pool
  BY DEF TypeOK
<1>2. Target \in Nat /\ request.sections \in SUBSET Sections /\ pool.scored \subseteq Concepts
  BY <1>1 DEF Request, Pool, Target
<1>3. Cardinality(request.sections) \in Nat
  BY <1>2, SelectionAssumption, FS_Subset, FS_CardinalityType
<1>4. ASSUME NEW k \in Nat, k # 0
      PROVE  (Target + k - 1) \div k \in Int
  BY <1>2, <1>4
<1>5. SectionCap \in Nat
  BY <1>2, <1>3, <1>4, SelectionAssumption DEF SectionCap
<1> QED BY <1>1, <1>2, <1>5, SelectionAssumption DEF Members

(* The passes come one after the other.                                    *)
LEMMA PhaseOrder ==
    /\ phase = "easy" => NextPhase = "medium"
    /\ phase = "medium" => NextPhase = "hard"
    /\ phase = "hard" /\ Short => NextPhase = "backfill"
    /\ phase = "hard" /\ ~Short => NextPhase = "returned"
    /\ phase = "backfill" /\ Short => NextPhase = "relax"
    /\ phase = "backfill" /\ ~Short => NextPhase = "returned"
    /\ phase = "relax" => NextPhase = "returned"
BY DEF NextPhase

(* The candidates, by pass.                                                *)
LEMMA CandidatesOf ==
    /\ \A k \in Tiers : Candidates(k) = {m \in Members : tier[m] = k}
    /\ \A k \in {"backfill", "relax"} : Candidates(k) = Members \ selected
    /\ Candidates("returned") = {}
<1>1. \A k \in Tiers : Candidates(k) = {m \in Members : tier[m] = k}
  BY DEF Candidates, Tiers
<1>2. \A k \in {"backfill", "relax"} : Candidates(k) = Members \ selected
  BY DEF Candidates, Tiers
<1>3. Candidates("returned") = {}
  BY DEF Candidates, Tiers
<1> QED BY <1>1, <1>2, <1>3

(* What follows from tables and request does not change.                   *)
LEMMA Frame ==
    ASSUME UNCHANGED <<pool, request>>
    PROVE  /\ Target' = Target /\ TargetMix' = TargetMix /\ SectionCap' = SectionCap
           /\ Members' = Members /\ Asked' = Asked
           /\ \A S, s : InSection(S, s)' = InSection(S, s)
BY DEF Target, TargetMix, SectionCap, Members, Asked, InSection

(* The first state is typed.                                               *)
LEMMA InitTyped == Init => TypeOK
<1> SUFFICES ASSUME Init PROVE TypeOK
  OBVIOUS
<1>1. pool \in Pool /\ request \in Request
  BY SelectionAssumption DEF Init
<1>2. tier \in [Concepts -> Tiers]
  BY DEF Init, Tiers
<1> QED BY <1>1, <1>2 DEF Init, TypeOK

(* A step leaves the types as they are.                                    *)
LEMMA StepTyped == TypeOK /\ [Next]_vars => TypeOK'
<1> SUFFICES ASSUME TypeOK, [Next]_vars PROVE TypeOK'
  OBVIOUS
<1> USE DEF TypeOK
<1>1. CASE Refuse
  BY <1>1 DEF Refuse
<1>2. CASE Gather
  BY <1>2, Bounds DEF Gather, Passes, Tiers
<1>3. ASSUME NEW m \in Concepts, Consider(m) PROVE TypeOK'
  <2>1. CASE Fits(m)
    BY <1>3, <2>1 DEF Consider
  <2>2. CASE ~Fits(m)
    BY <1>3, <2>2 DEF Consider
  <2> QED BY <2>1, <2>2
<1>4. CASE NextPass
  <2>1. NextPhase \in Passes \cup {"returned"}
    BY <1>4, PhaseOrder DEF NextPass, Passes, Tiers
  <2>2. Candidates(NextPhase) \subseteq Concepts
    BY Bounds DEF Candidates
  <2>3. Relaxed \subseteq {"mix", "cosine"}
    BY DEF Relaxed
  <2> QED BY <1>4, <2>1, <2>2, <2>3 DEF NextPass
<1>5. CASE UNCHANGED vars
  BY <1>5 DEF vars
<1> QED BY <1>1, <1>2, <1>3, <1>4, <1>5 DEF Next

(* The variables keep their types, through every pass of run_selection     *)
(* (selection.py:169-277).                                                 *)
THEOREM TypeCorrect == Spec => []TypeOK
BY InitTyped, StepTyped, PTL DEF Spec

(* What is selected is what is selected of each tier.                      *)
LEMMA TiersAddUp ==
    ASSUME TypeOK
    PROVE  /\ \A k \in Tiers : Cardinality(InTier(k)) \in Nat
           /\ Cardinality(selected) =
                Cardinality(InTier("easy")) + Cardinality(InTier("medium")) + Cardinality(InTier("hard"))
<1> DEFINE e == InTier("easy")  m == InTier("medium")  h == InTier("hard")
<1>1. e \in SUBSET Concepts /\ m \in SUBSET Concepts /\ h \in SUBSET Concepts
  BY DEF TypeOK, InTier
<1>2. selected = (e \cup m) \cup h
  BY DEF TypeOK, InTier, Tiers
<1>3. e \cap m = {} /\ (e \cup m) \cap h = {}
  BY DEF InTier
<1>4. Cardinality(e \cup m) = Cardinality(e) + Cardinality(m)
  <2>1. IsFiniteSet(e) /\ IsFiniteSet(m) /\ Cardinality(e) \in Nat /\ Cardinality(m) \in Nat
    BY <1>1, ConceptsFinite
  <2> HIDE DEF e, m
  <2>2. Cardinality(e \cup m) = Cardinality(e) + Cardinality(m) - Cardinality(e \cap m)
    BY <2>1, FS_Union
  <2> QED BY <1>3, <2>1, <2>2, FS_EmptySet
<1>5. Cardinality((e \cup m) \cup h) = Cardinality(e \cup m) + Cardinality(h)
  <2> DEFINE em == e \cup m
  <2>1. em \in SUBSET Concepts /\ em \cap h = {}
    BY <1>1, <1>3
  <2>2. IsFiniteSet(em) /\ IsFiniteSet(h) /\ Cardinality(em) \in Nat /\ Cardinality(h) \in Nat
    BY <1>1, <2>1, ConceptsFinite
  <2> HIDE DEF em, h
  <2>3. Cardinality(em \cup h) = Cardinality(em) + Cardinality(h) - Cardinality(em \cap h)
    BY <2>2, FS_Union
  <2>4. Cardinality(em \cup h) = Cardinality(em) + Cardinality(h)
    BY <2>1, <2>2, <2>3, FS_EmptySet
  <2> QED BY <2>4 DEF em
<1>6. \A k \in Tiers : Cardinality(InTier(k)) \in Nat
  BY <1>1, ConceptsFinite DEF Tiers
<1> QED BY <1>2, <1>4, <1>5, <1>6

(* While a tier lacks some, so does the set: the other tiers have no more  *)
(* than their share.                                                       *)
LEMMA TierRoom ==
    ASSUME TypeOK, Began, Drawn, Tiered, phase \in Tiers, Open
    PROVE  Cardinality(selected) < Target
<1>1. Running /\ reports = {} /\ Asked
  BY DEF Began, Drawn, Running, Passes, Tiers
<1>2. /\ Cardinality(InTier(phase)) < TargetMix[phase]
      /\ \A k \in Tiers : Cardinality(InTier(k)) <= TargetMix[k]
  BY <1>1 DEF Tiered, Open
<1>3. \A k \in Tiers : TargetMix[k] \in Nat /\ Cardinality(InTier(k)) \in Nat
  BY <1>1, AskedSum, TiersAddUp DEF Mix
<1>4. Target = TargetMix["easy"] + TargetMix["medium"] + TargetMix["hard"]
  BY <1>1, AskedSum DEF MixSum
<1> QED BY <1>2, <1>3, <1>4, TiersAddUp DEF Tiers

(* Similarity has no direction.                                            *)
LEMMA PairsBothWays ==
    ASSUME IInv, NEW a, NEW b, <<a, b>> \in pool.similar
    PROVE  <<b, a>> \in pool.similar
<1>1. \A pair \in pool.similar : <<pair[2], pair[1]>> \in pool.similar
  BY SelectionAssumption DEF IInv, Began
<1> QED BY <1>1

(* What is left out for a cap stays out: sets only grow.                   *)
LEMMA StaysBlocked ==
    ASSUME TypeOK, TypeOK', UNCHANGED <<pool, request>>, selected \subseteq selected',
           NEW m \in Concepts, Blocked(m)
    PROVE  Blocked(m)'
<1>1. pool \in Pool /\ SectionCap \in Nat /\ MaxPhysics \in Nat /\ SectionCap' = SectionCap
  BY Bounds, Frame
<1> DEFINE s == pool.section[m]
<1>2. /\ InSection(selected', s) \in SUBSET Concepts
      /\ InSection(selected, s) \in SUBSET InSection(selected', s)
      /\ selected' \cap pool.physics \in SUBSET Concepts
      /\ selected \cap pool.physics \in SUBSET (selected' \cap pool.physics)
  BY DEF InSection, TypeOK
<1>3. /\ Cardinality(InSection(selected, s)) <= Cardinality(InSection(selected', s))
      /\ Cardinality(selected \cap pool.physics) <= Cardinality(selected' \cap pool.physics)
  BY <1>2, Larger
<1>4. /\ Cardinality(InSection(selected, s)) \in Nat /\ Cardinality(InSection(selected', s)) \in Nat
      /\ Cardinality(selected \cap pool.physics) \in Nat
      /\ Cardinality(selected' \cap pool.physics) \in Nat
  BY <1>2, ConceptsFinite DEF TypeOK, InSection
<1>5. /\ InSection(selected, s)' = InSection(selected', s)
      /\ pool' = pool
  BY DEF InSection
<1> QED BY <1>1, <1>3, <1>4, <1>5 DEF Blocked

(* Gathering keeps the invariant: nothing has been taken yet.              *)
LEMMA GatherKeeps ==
    ASSUME IInv, TypeOK', Gather
    PROVE  IInv'
<1>1. /\ selected = {} /\ taken = 0 /\ reports = {} /\ ~reachable
      /\ pool' \in Pools
      /\ taken' = 0 /\ reports' = {} /\ ~reachable'
  BY DEF IInv, Began, Gather
<1>2. CASE Cardinality(Members) < Target
  <2>1. phase' = "returned"
    BY <1>2 DEF Gather
  <2>2. ~Running'
    BY <1>1, <2>1 DEF Running, Passes, Tiers
  <2> QED BY <1>1, <2>1, <2>2 DEF IInv, Began, Drawn, Capped, Tiered, Dissimilar, Tried, Passes, Tiers
<1>3. CASE ~(Cardinality(Members) < Target)
  <2>1. /\ phase' = "easy" /\ selected' = {}
        /\ todo' = {m \in Members : tier'[m] = "easy"}
        /\ UNCHANGED <<pool, request>>
    BY <1>1, <1>3 DEF Gather
  <2>2. Asked'
    BY <2>1, Frame DEF Gather, Asked, Target
  <2>3. Target' \in Nat /\ TargetMix' \in Mix /\ SectionCap' \in Nat /\ MaxPhysics \in Nat /\ Members' = Members
    BY <2>1, <2>2, AskedSum, Bounds, Frame DEF IInv, Asked
  <2>4. Cardinality({}) = 0
    BY FS_EmptySet
  <2>5. /\ \A s : InSection(selected', s) = {} /\ InSection(selected, s)' = {}
        /\ selected' \cap pool'.physics = {}
        /\ \A k : InTier(k)' = {}
    BY <2>1 DEF InSection, InTier
  <2>6. Began' /\ Drawn'
    BY <1>1, <2>1, <2>2, <2>3 DEF Began, Drawn, Passes, Tiers
  <2>7. Capped'
    BY <2>1, <2>3, <2>4, <2>5 DEF Capped
  <2>8. Tiered'
    BY <1>1, <2>1, <2>3, <2>4, <2>5 DEF Tiered, Mix, Tiers
  <2>9. Dissimilar' /\ Tried'
    BY <1>1, <2>1 DEF Dissimilar, Tried
  <2> QED BY <2>6, <2>7, <2>8, <2>9 DEF IInv
<1> QED BY <1>2, <1>3

(* So does considering a member, which is the one step that takes.         *)
LEMMA ConsiderKeeps ==
    ASSUME IInv, TypeOK', NEW m \in Concepts, Consider(m)
    PROVE  IInv'
<1>1. /\ phase \in Passes /\ Running /\ Asked /\ ~reachable
      /\ UNCHANGED <<pool, request, phase, tier, reports, reachable>>
      /\ pool' \in Pools
      /\ todo' = todo \ {m} /\ m \in todo /\ m \in Members \ selected
      /\ selected \subseteq Members
  BY DEF Consider, IInv, Began, Drawn, Running, Passes, Tiers
<1>2. /\ Target \in Nat /\ TargetMix \in Mix /\ SectionCap \in Nat /\ MaxPhysics \in Nat
      /\ Members \subseteq Concepts /\ taken \in Nat
      /\ pool \in Pool
  BY <1>1, AskedSum, Bounds DEF IInv, TypeOK
<1>3. /\ Target' = Target /\ TargetMix' = TargetMix /\ SectionCap' = SectionCap
      /\ Members' = Members /\ Asked' = Asked
      /\ \A S, s : InSection(S, s)' = InSection(S, s)
  BY <1>1, Frame
<1>4. CASE ~Fits(m)
  <2>1. UNCHANGED <<selected, taken>>
    BY <1>4 DEF Consider
  <2>2. Began' /\ Drawn'
    BY <1>1, <1>3, <2>1 DEF IInv, Began, Drawn, Running
  <2>3. Capped'
    BY <1>1, <1>3, <2>1 DEF IInv, Capped, Running
  <2>4. Tiered'
    BY <1>1, <1>3, <2>1 DEF IInv, Tiered, Running, InTier
  <2>5. Dissimilar'
    BY <1>1, <2>1 DEF IInv, Dissimilar, Running
  <2>6. phase = "relax" => Blocked(m)
    <3>1. /\ Cardinality(InSection(selected, pool.section[m])) \in Nat
          /\ Cardinality(selected \cap pool.physics) \in Nat
      BY <1>1, <1>2, ConceptsFinite DEF InSection
    <3> QED BY <1>2, <1>4, <3>1 DEF Fits, Blocked
  <2>7. \A o : Blocked(o)' = Blocked(o)
    BY <1>1, <1>3, <2>1 DEF Blocked
  <2>8. Tried'
    BY <1>1, <1>3, <2>1, <2>6, <2>7 DEF IInv, Tried
  <2> QED BY <2>2, <2>3, <2>4, <2>5, <2>8 DEF IInv
<1>5. CASE Fits(m)
  <2>1. selected' = selected \cup {m} /\ taken' = taken + 1
    BY <1>5 DEF Consider
  <2>2. Began' /\ Drawn'
    BY <1>1, <1>3, <2>1 DEF IInv, Began, Drawn, Running
  <2>3. Capped'
    <3>1. ASSUME NEW s \in Sections
          PROVE  Cardinality(InSection(selected', s)) <= SectionCap
      <4>1. CASE pool.section[m] = s
        <5>1. InSection(selected', s) = InSection(selected, s) \cup {m}
          BY <2>1, <4>1 DEF InSection
        <5>2. InSection(selected, s) \in SUBSET Concepts /\ m \notin InSection(selected, s)
          BY <1>1, <1>2 DEF InSection
        <5>3. Cardinality(InSection(selected, s)) < SectionCap
          BY <1>5, <4>1 DEF Fits
        <5> QED BY <1>2, <5>1, <5>2, <5>3, ConceptsFinite, OneMore
      <4>2. CASE pool.section[m] # s
        <5>1. InSection(selected', s) = InSection(selected, s)
          BY <2>1, <4>2 DEF InSection
        <5> QED BY <1>1, <5>1 DEF IInv, Capped
      <4> QED BY <4>1, <4>2
    <3>2. Cardinality(selected' \cap pool.physics) <= MaxPhysics
      <4>1. CASE m \in pool.physics
        <5>1. selected' \cap pool.physics = (selected \cap pool.physics) \cup {m}
          BY <2>1, <4>1
        <5>2. selected \cap pool.physics \in SUBSET Concepts /\ m \notin selected \cap pool.physics
          BY <1>1, <1>2
        <5>3. Cardinality(selected \cap pool.physics) < MaxPhysics
          BY <1>5, <4>1 DEF Fits
        <5> QED BY <1>2, <5>1, <5>2, <5>3, ConceptsFinite, OneMore
      <4>2. CASE m \notin pool.physics
        <5>1. selected' \cap pool.physics = selected \cap pool.physics
          BY <2>1, <4>2
        <5> QED BY <1>1, <5>1 DEF IInv, Capped
      <4> QED BY <4>1, <4>2
    <3>3. Cardinality(selected') <= Target
      <4>1. Cardinality(selected) < Target
        <5>1. CASE phase \in Tiers
          BY <5>1, <1>1, TierRoom DEF Consider, IInv
        <5>2. CASE phase \notin Tiers
          BY <5>2 DEF Consider, Open
        <5> QED BY <5>1, <5>2
      <4> QED BY <1>1, <1>2, <2>1, <4>1, ConceptsFinite, OneMore
    <3> QED BY <1>1, <1>3, <3>1, <3>2, <3>3 DEF Capped
  <2>4. Tiered'
    <3>1. CASE phase \in Tiers
      <4>1. tier[m] = phase /\ reports = {} /\ taken < TargetMix[phase]
        BY <1>1, <3>1 DEF IInv, Drawn, Consider, Open
      <4>2. InTier(phase)' = InTier(phase) \cup {m}
        BY <1>1, <2>1, <4>1 DEF InTier
      <4>3. Cardinality(InTier(phase)') = taken + 1
        <5>1. InTier(phase) \in SUBSET Concepts /\ m \notin InTier(phase)
          BY <1>1, <1>2 DEF InTier
        <5>2. Cardinality(InTier(phase)) = taken
          BY <3>1 DEF IInv, Tiered
        <5> QED BY <4>2, <5>1, <5>2, OneMore
      <4>4. \A k \in Tiers : k # phase => InTier(k)' = InTier(k)
        BY <1>1, <2>1, <4>1 DEF InTier
      <4>5. \A k \in Tiers : Rank[phase] < Rank[k] => InTier(k)' = {}
        <5>1. \A k \in Tiers : Rank[phase] < Rank[k] => InTier(k) = {} /\ k # phase
          BY <3>1 DEF IInv, Tiered, Tiers, Rank
        <5> QED BY <4>4, <5>1
      <4>6. \A k \in Tiers : Cardinality(InTier(k)') <= TargetMix[k]
        <5>1. \A k \in Tiers : Cardinality(InTier(k)) <= TargetMix[k]
          BY <1>1, <3>1, <4>1 DEF IInv, Tiered
        <5>2. TargetMix[phase] \in Nat
          BY <1>2, <3>1 DEF Mix
        <5>3. taken + 1 <= TargetMix[phase]
          BY <1>2, <4>1, <5>2
        <5>4. ASSUME NEW k \in Tiers PROVE Cardinality(InTier(k)') <= TargetMix[k]
          <6>1. CASE k = phase
            <7>1. Cardinality(InTier(phase)') <= TargetMix[phase]
              BY <4>3, <5>3
            <7>2. InTier(phase)' = InTier(k)'
              BY <1>1, <6>1 DEF InTier
            <7> QED BY <6>1, <7>1, <7>2
          <6>2. CASE k # phase
            BY <4>4, <5>1, <6>2
          <6> QED BY <6>1, <6>2
        <5> QED BY <5>4
      <4> QED BY <1>1, <1>3, <2>1, <4>3, <4>5, <4>6 DEF Tiered
    <3>2. CASE phase \notin Tiers
      BY <1>1, <1>2, <2>1, <3>2 DEF Tiered
    <3> QED BY <3>1, <3>2
  <2>5. Dissimilar'
    <3>1. CASE phase = "relax"
      BY <1>1, <1>2, <2>1, <3>1 DEF Dissimilar
    <3>2. CASE phase # "relax"
      <4>1. \A s \in selected : <<s, m>> \notin pool.similar /\ <<m, s>> \notin pool.similar
        <5>1. \A s \in selected : <<s, m>> \notin pool.similar
          BY <1>5, <3>2 DEF Fits
        <5>2. \A a, b : <<a, b>> \in pool.similar => <<b, a>> \in pool.similar
          BY PairsBothWays DEF IInv
        <5> QED BY <5>1, <5>2
      <4>2. "cosine" \notin reports =>
               \A a, b \in selected : a # b => <<a, b>> \notin pool.similar
        BY <1>1, <3>2 DEF IInv, Dissimilar
      <4> QED BY <1>1, <2>1, <4>1, <4>2 DEF Dissimilar
    <3> QED BY <3>1, <3>2
  <2>6. Tried'
    <3>1. \A o \in Members : Blocked(o) => Blocked(o)'
      BY <1>1, <1>2, <1>3, <2>1, StaysBlocked DEF IInv
    <3> QED BY <1>1, <1>3, <2>1, <3>1 DEF IInv, Tried
  <2> QED BY <2>2, <2>3, <2>4, <2>5, <2>6 DEF IInv
<1> QED BY <1>4, <1>5

(* So does going on to the next pass, or returning.                        *)
LEMMA NextPassKeeps ==
    ASSUME IInv, TypeOK', NextPass
    PROVE  IInv'
<1>0. phase \in Passes /\ Running /\ Asked /\ ~reachable /\ pool' \in Pools
  BY DEF NextPass, IInv, Began, Running, Passes, Tiers
<1>1. /\ phase \in Passes /\ Running /\ Asked /\ ~reachable
      /\ UNCHANGED <<pool, request, tier, selected>>
      /\ pool' \in Pools
      /\ phase' = NextPhase /\ taken' = 0 /\ todo' = Candidates(NextPhase)
      /\ reports' = reports \cup Relaxed
      /\ reachable' = (NextPhase = "returned")
      /\ ~Open \/ todo = {}
  BY <1>0 DEF NextPass
<1>2. /\ Target \in Nat /\ TargetMix \in Mix /\ SectionCap \in Nat /\ MaxPhysics \in Nat
      /\ Members \subseteq Concepts
  BY <1>1, AskedSum, Bounds DEF IInv
<1>3. /\ Target' = Target /\ TargetMix' = TargetMix /\ SectionCap' = SectionCap
      /\ Members' = Members /\ Asked' = Asked
      /\ \A S, s : InSection(S, s)' = InSection(S, s)
      /\ \A k : InTier(k)' = InTier(k)
      /\ \A m : Blocked(m)' = Blocked(m)
  BY <1>1, Frame DEF InTier, Blocked
<1>4. /\ NextPhase \in {"medium", "hard", "backfill", "relax", "returned"}
      /\ NextPhase \in Tiers => phase \in Tiers /\ Rank[NextPhase] = Rank[phase] + 1
      /\ NextPhase = "relax" => phase = "backfill" /\ Short
      /\ NextPhase = "backfill" => phase = "hard"
      /\ NextPhase = "returned" /\ Short => phase = "relax"
  BY <1>1, PhaseOrder DEF Passes, Tiers, Rank
<1>5. /\ phase \in Tiers => Relaxed = {} /\ reports = {}
      /\ phase = "backfill" => Relaxed \subseteq {"mix"}
      /\ phase = "backfill" /\ Relaxed = {} => ~(taken > 0)
      /\ phase = "relax" /\ taken > 0 => Relaxed = {"cosine"}
  BY DEF Relaxed, IInv, Drawn, Tiers
<1>6. taken \in Nat
  BY DEF IInv, TypeOK
<1>7. Began'
  BY <1>1, <1>3, <1>4 DEF Began, Running
<1>8. Drawn'
  <2>1. Candidates(NextPhase) \subseteq Members \ selected
    <3>1. CASE NextPhase \in Tiers
      <4>1. phase \in Tiers /\ Rank[phase] < Rank[NextPhase]
        BY <1>4, <3>1 DEF Tiers, Rank
      <4>2. InTier(NextPhase) = {}
        BY <3>1, <4>1 DEF IInv, Tiered
      <4> QED BY <3>1, <4>2, CandidatesOf DEF InTier
    <3>2. CASE NextPhase \in {"backfill", "relax"}
      BY <3>2, CandidatesOf
    <3>3. CASE NextPhase = "returned"
      <4>1. Candidates(NextPhase) = {}
        BY <3>3, CandidatesOf
      <4> QED BY <4>1
    <3>4. NextPhase \in Tiers \/ NextPhase \in {"backfill", "relax"} \/ NextPhase = "returned"
      BY <1>4 DEF Tiers
    <3> QED BY <3>1, <3>2, <3>3, <3>4
  <2>2. NextPhase \in Tiers => reports' = {} /\ \A m \in todo' : tier[m] = NextPhase
    BY <1>1, <1>4, <1>5, CandidatesOf
  <2>3. selected \subseteq Members
    BY <1>1 DEF IInv, Drawn
  <2> QED BY <1>1, <1>3, <2>1, <2>2, <2>3 DEF Drawn
<1>9. Capped'
  BY <1>1, <1>3 DEF IInv, Capped
<1>10. Tiered'
  <2>1. CASE phase \in Tiers
    <3>1. \A k \in Tiers : Cardinality(InTier(k)) <= TargetMix[k]
      BY <1>1, <1>5, <2>1 DEF IInv, Tiered
    <3>2. ASSUME NextPhase \in Tiers
          PROVE  /\ Cardinality(InTier(NextPhase)) = 0
                 /\ \A k \in Tiers : Rank[NextPhase] < Rank[k] => InTier(k) = {}
      <4>1. \A k \in Tiers : Rank[phase] < Rank[k] => InTier(k) = {}
        BY <2>1 DEF IInv, Tiered
      <4>2. \A k \in Tiers : Rank[NextPhase] <= Rank[k] => Rank[phase] < Rank[k]
        BY <1>4, <2>1, <3>2 DEF Tiers, Rank
      <4>3. Rank[NextPhase] <= Rank[NextPhase] /\ \A k \in Tiers : Rank[NextPhase] < Rank[k] => Rank[NextPhase] <= Rank[k]
        BY <3>2 DEF Tiers, Rank
      <4> QED BY <3>2, <4>1, <4>2, <4>3, FS_EmptySet
    <3> QED BY <1>1, <1>3, <3>1, <3>2 DEF Tiered
  <2>2. CASE phase \notin Tiers
    <3>1. NextPhase \notin Tiers
      BY <1>4, <2>2
    <3>2. ASSUME reports' = {} PROVE \A k \in Tiers : Cardinality(InTier(k)) <= TargetMix[k]
      <4>1. reports = {} /\ Relaxed = {}
        BY <1>1, <3>2
      <4>2. taken = 0
        <5>1. phase = "backfill" \/ phase = "relax"
          BY <1>1, <2>2 DEF Passes, Tiers
        <5>2. ~(taken > 0)
          BY <1>5, <4>1, <5>1
        <5> QED BY <1>6, <5>2
      <4> QED BY <1>1, <4>1, <4>2 DEF IInv, Tiered
    <3> QED BY <1>1, <1>3, <3>1, <3>2 DEF Tiered
  <2> QED BY <2>1, <2>2
<1>11. Dissimilar'
  <2>1. ASSUME "cosine" \notin reports'
        PROVE  \A a, b \in selected : a # b => <<a, b>> \notin pool.similar
    <3>1. "cosine" \notin reports /\ "cosine" \notin Relaxed
      BY <1>1, <2>1
    <3>2. phase # "relax" \/ taken = 0
      BY <1>5, <1>6, <3>1
    <3> QED BY <1>1, <3>1, <3>2 DEF IInv, Dissimilar
  <2> QED BY <1>1, <2>1 DEF Dissimilar
<1>12. Tried'
  <2>1. NextPhase = "relax" => \A m \in Members \ selected : m \in todo'
    BY <1>1, CandidatesOf
  <2>2. ASSUME NextPhase = "returned", Short
        PROVE  \A m \in Members \ selected : Blocked(m)
    <3>1. phase = "relax"
      BY <1>4, <2>2
    <3>2. Open
      BY <2>2, <3>1 DEF Open, Short, Tiers
    <3>3. todo = {}
      BY <1>1, <3>2
    <3> QED BY <3>1, <3>3 DEF IInv, Tried
  <2>3. Short' = Short
    BY <1>1, <1>3 DEF Short
  <2> QED BY <1>1, <1>3, <2>1, <2>2, <2>3 DEF Tried
<1> QED BY <1>7, <1>8, <1>9, <1>10, <1>11, <1>12 DEF IInv

(* So does a step that changes nothing.                                    *)
LEMMA StutterKeeps ==
    ASSUME IInv, UNCHANGED vars
    PROVE  IInv'
<1>1. /\ Target' = Target /\ TargetMix' = TargetMix /\ SectionCap' = SectionCap
      /\ Members' = Members /\ Asked' = Asked
      /\ \A S, s : InSection(S, s)' = InSection(S, s)
  BY Frame DEF vars
<1>2. /\ Running' = Running /\ Short' = Short
      /\ \A k : InTier(k)' = InTier(k)
      /\ \A m : Blocked(m)' = Blocked(m)
  BY <1>1 DEF vars, Running, Short, InTier, Blocked
<1>3. TypeOK' /\ Began' /\ Drawn'
  BY <1>1, <1>2 DEF vars, IInv, TypeOK, Began, Drawn
<1>4. Capped'
  BY <1>1, <1>2 DEF vars, IInv, Capped
<1>5. Tiered'
  BY <1>1, <1>2 DEF vars, IInv, Tiered
<1>6. Dissimilar' /\ Tried'
  BY <1>1, <1>2 DEF vars, IInv, Dissimilar, Tried
<1> QED BY <1>3, <1>4, <1>5, <1>6 DEF IInv

(* The invariant holds in every state of a selection                       *)
(* (selection.py:169-277).                                                 *)
THEOREM Invariance == Spec => []IInv
<1>1. Init => IInv
  <2> SUFFICES ASSUME Init PROVE IInv
    OBVIOUS
  <2>1. TypeOK
    BY InitTyped
  <2>2. phase = "start" /\ ~Running /\ ~reachable
    BY DEF Init, Running, Passes, Tiers
  <2>3. Began
    BY <2>2 DEF Init, Began
  <2> QED BY <2>1, <2>2, <2>3 DEF IInv, Drawn, Capped, Tiered, Dissimilar, Tried, Passes, Tiers
<1>2. IInv /\ [Next]_vars => IInv'
  <2> SUFFICES ASSUME IInv, [Next]_vars PROVE IInv'
    OBVIOUS
  <2>0. TypeOK'
    BY StepTyped DEF IInv
  <2>1. CASE Refuse
    <3>1. phase' = "raised" /\ ~reachable' /\ pool' \in Pools
      BY <2>1 DEF Refuse, IInv, Began
    <3>2. ~Running'
      BY <3>1 DEF Running, Passes, Tiers
    <3> QED BY <2>0, <3>1, <3>2
            DEF IInv, Began, Drawn, Capped, Tiered, Dissimilar, Tried, Passes, Tiers
  <2>2. CASE Gather
    BY <2>0, <2>2, GatherKeeps
  <2>3. ASSUME NEW m \in Concepts, Consider(m) PROVE IInv'
    BY <2>0, <2>3, ConsiderKeeps
  <2>4. CASE NextPass
    BY <2>0, <2>4, NextPassKeeps
  <2>5. CASE UNCHANGED vars
    BY <2>5, StutterKeeps
  <2> QED BY <2>1, <2>2, <2>3, <2>4, <2>5 DEF Next
<1> QED BY <1>1, <1>2, PTL DEF Spec

(* In every pass and in the set that is returned, the caps on sections and *)
(* on physics-informed concepts hold, and the set is no larger than what   *)
(* was asked for, though the pass of a tier counts only what it took       *)
(* itself (selection.py:205-247).                                          *)
THEOREM CapsAreHeld == Spec => []CapsHold
<1>1. IInv => CapsHold
  BY DEF IInv, Capped, Running, CapsHold, Checks
<1> QED BY <1>1, Invariance, PTL

(* What the returned set gave up is reported: similar concepts, or in a    *)
(* set of full size another mix. A full set without a report has its quota *)
(* of each tier because the quotas add up (selection.py:249-275).          *)
THEOREM RelaxationsReported == Spec => []RelaxationsAreReported
<1>1. ASSUME IInv, reachable PROVE RelaxationsAreReported
  <2>1. Running /\ phase = "returned" /\ Asked
    BY <1>1 DEF IInv, Began, Running
  <2>2. "cosine" \notin reports => Checks.cosine
    BY <1>1, <2>1 DEF IInv, Dissimilar, Checks
  <2>3. ASSUME reports = {}, ~(Cardinality(selected) < Target)
        PROVE  Checks.mix
    <3>1. \A k \in Tiers : Cardinality(InTier(k)) <= TargetMix[k]
      BY <1>1, <2>1, <2>3 DEF IInv, Tiered
    <3>2. /\ Target = TargetMix["easy"] + TargetMix["medium"] + TargetMix["hard"]
          /\ Cardinality(selected) =
               Cardinality(InTier("easy")) + Cardinality(InTier("medium")) + Cardinality(InTier("hard"))
          /\ \A k \in Tiers : TargetMix[k] \in Nat /\ Cardinality(InTier(k)) \in Nat
      BY <1>1, <2>1, AskedSum, TiersAddUp DEF IInv, MixSum, Mix
    <3>3. \A k \in Tiers : Cardinality(InTier(k)) = TargetMix[k]
      BY <2>3, <3>1, <3>2 DEF Tiers
    <3> QED BY <3>3 DEF Checks, InTier
  <2> QED BY <2>2, <2>3 DEF RelaxationsAreReported
<1>2. IInv => RelaxationsAreReported
  BY <1>1 DEF RelaxationsAreReported
<1> QED BY <1>2, Invariance, PTL

(* A set is returned short only when a cap excludes every concept that was *)
(* left out: each was considered in the last pass, and a cap that is       *)
(* reached stays reached (selection.py:257-268).                           *)
THEOREM ShortIsBlocked == Spec => []ShortOnlyIfBlocked
<1>1. IInv => ShortOnlyIfBlocked
  BY DEF IInv, Tried, Short, Blocked, ShortOnlyIfBlocked
<1> QED BY <1>1, Invariance, PTL

-----------------------------------------------------------------------------
(* The commands of Practice.                                               *)

(* What a slot may do.                                                     *)
Does(s) ==
    \/ \E by \in {"generate", "job"} : V!StartGenerate(s, by)
    \/ V!StartReverify(s)
    \/ \E task \in work[s] : V!Take(s, task)
    \/ \E code \in Programs : V!Solve(s, code)
    \/ V!Save(s) \/ V!Finish(s) \/ V!Cut(s)
    \/ V!StartRender(s) \/ V!WriteCode(s) \/ V!WriteHandout(s)
    \/ V!WriteManual(s) \/ V!StopRender(s)

(* Every step is one of a slot.                                            *)
LEMMA SlotDoes == V!Next => \E s \in Slots : Does(s)
BY DEF V!Next, Does

(* A slot is busy with a variant, or with the files of a set.              *)
Busy(s) == step[s] \in {"solve", "retry", "save"}
Rendering(s) == step[s] \in {"code", "handout", "manual"}

(* The tasks a command has still to deal with, the one in hand included.   *)
InHand(s) == work[s] \cup {t \in {cur[s]} : Busy(s)}

(* The command of a slot and where it stands belong together.              *)
ControlInv ==
    \A s \in Slots :
        /\ Busy(s) => command[s] \in {"generate", "job", "reverify"} /\ cur[s] \in V!Task
        /\ command[s] = "render" <=> Rendering(s)

(* TypeOK of Verification, spelt out.                                      *)
VTypes ==
    /\ chosen \in SUBSET Concepts
    /\ variants \in Seq(V!Variant) /\ Len(variants) <= MaxVariants
    /\ \A i \in DOMAIN folder : i \in Nat /\ folder[i] \in V!Code
    /\ handout \in Seq(1 .. MaxVariants)
    /\ manual \in Seq(V!Page)
    /\ starts \in [V!Commands -> Nat]
    /\ command \in [Slots -> {"generate", "job", "reverify", "render", "idle"}]
    /\ step \in [Slots -> {"take", "solve", "retry", "save", "code", "handout", "manual"}]
    /\ work \in [Slots -> SUBSET V!Task]
    /\ cur \in [Slots -> V!Task \cup {V!NoTask}]
    /\ pages \in [Slots -> Seq(V!Page)]
    /\ wrote \in [Slots -> Nat]

(* VTypes is what TypeOK of Verification says.                             *)
LEMMA TypesAgain == V!TypeOK <=> VTypes
BY DEF V!TypeOK, VTypes, V!Commands

(* A command touches nothing that is in the memory of another.             *)
LEMMA OthersStay ==
    ASSUME NEW s \in Slots, NEW t \in Slots, t # s, VTypes, Does(s)
    PROVE  /\ command'[t] = command[t] /\ step'[t] = step[t] /\ work'[t] = work[t]
           /\ cur'[t] = cur[t] /\ pages'[t] = pages[t] /\ wrote'[t] = wrote[t]
<1> USE DEF VTypes
<1>1. ASSUME NEW by \in {"generate", "job"}, V!StartGenerate(s, by)
      PROVE  /\ command'[t] = command[t] /\ step'[t] = step[t] /\ work'[t] = work[t]
             /\ cur'[t] = cur[t] /\ pages'[t] = pages[t] /\ wrote'[t] = wrote[t]
  BY <1>1 DEF V!StartGenerate, V!Begin
<1>2. CASE V!StartReverify(s)
  BY <1>2 DEF V!StartReverify, V!Begin
<1>3. ASSUME NEW task \in work[s], V!Take(s, task)
      PROVE  /\ command'[t] = command[t] /\ step'[t] = step[t] /\ work'[t] = work[t]
             /\ cur'[t] = cur[t] /\ pages'[t] = pages[t] /\ wrote'[t] = wrote[t]
  BY <1>3 DEF V!Take, V!Goto
<1>4. ASSUME NEW code \in Programs, V!Solve(s, code)
      PROVE  /\ command'[t] = command[t] /\ step'[t] = step[t] /\ work'[t] = work[t]
             /\ cur'[t] = cur[t] /\ pages'[t] = pages[t] /\ wrote'[t] = wrote[t]
  BY <1>4 DEF V!Solve, V!Goto
<1>5. CASE V!Save(s)
  BY <1>5 DEF V!Save, V!Goto
<1>6. CASE V!Finish(s) \/ V!Cut(s) \/ V!WriteManual(s) \/ V!StopRender(s)
  BY <1>6 DEF V!Finish, V!Cut, V!WriteManual, V!StopRender, V!End
<1>7. CASE V!StartRender(s)
  BY <1>7 DEF V!StartRender, V!Begin, V!Goto
<1>8. CASE V!WriteCode(s) \/ V!WriteHandout(s)
  BY <1>8 DEF V!WriteCode, V!WriteHandout, V!Goto
<1> QED BY <1>1, <1>2, <1>3, <1>4, <1>5, <1>6, <1>7, <1>8 DEF Does

(* What is used of the constants.                                          *)
LEMMA Constants ==
    /\ Concepts \subseteq Nat /\ None \notin Programs /\ MaxVariants \in Nat
    /\ \A p \in Programs : p \in V!Code /\ V!Printed(p) \in V!Answer
    /\ None \in V!Code /\ None \in V!Answer
BY PracticeAssumption DEF V!VerificationAssumption, V!Code, V!Answer

(* A variant that is generated anew.                                       *)
LEMMA FreshTyped ==
    ASSUME NEW c \in Concepts, NEW by \in {"generate", "job"}
    PROVE  /\ V!ToSolve(0, V!Fresh(c, by)) \in V!Task
           /\ V!Fresh(c, by).concept = c /\ V!Fresh(c, by).status = "pending"
BY Constants DEF V!ToSolve, V!Fresh, V!Task, V!Variant, V!Statuses

(* A row written over keeps its concept and who made it.                   *)
LEMMA FlushedTyped ==
    ASSUME NEW task \in V!Task, VTypes, task.row \in DOMAIN variants
    PROVE  LET old == variants[task.row]  new == V!Flushed(task) IN
           /\ old \in V!Variant /\ new \in V!Variant
           /\ new.concept = old.concept /\ new.by = old.by /\ new.code = task.now.code
           /\ new.answer = IF task.now.answer # task.base.answer THEN task.now.answer ELSE old.answer
           /\ new.status = IF task.now.status # task.base.status THEN task.now.status ELSE old.status
<1>1. variants[task.row] \in V!Variant
  BY DEF VTypes
<1>2. task.now \in V!Variant /\ task.base \in V!Variant
  BY DEF V!Task
<1> QED BY <1>1, <1>2 DEF V!Flushed, V!Variant

(* What is collected is a verified row for each concept.                   *)
LEMMA CollectedRows ==
    ASSUME NEW pick \in V!Collected, VTypes
    PROVE  /\ DOMAIN pick \in SUBSET Concepts
           /\ \A c \in DOMAIN pick :
                /\ pick[c] \in DOMAIN variants /\ pick[c] \in 1 .. MaxVariants
                /\ variants[pick[c]] \in V!Variant
                /\ variants[pick[c]].concept = c
                /\ variants[pick[c]].status = "verified"
<1>1. /\ DOMAIN pick \subseteq chosen
      /\ \A c \in DOMAIN pick : pick[c] \in V!Verified(c)
  BY DEF V!Collected
<1>2. DOMAIN variants = 1 .. Len(variants) /\ Len(variants) \in Nat /\ Len(variants) <= MaxVariants
  BY LenProperties DEF VTypes
<1>3. \A i \in DOMAIN variants : i \in 1 .. MaxVariants /\ variants[i] \in V!Variant
  BY <1>2, Constants, ElementOfSeq DEF VTypes
<1> QED BY <1>1, <1>3 DEF V!Verified, VTypes

(* A program that ran well verifies; the second that did not, fails.       *)
LEMMA SolveDoes ==
    ASSUME NEW s \in Slots, NEW code \in Programs, VTypes, ControlInv, V!Solve(s, code)
    PROVE  /\ cur[s] \in V!Task /\ cur'[s] \in V!Task
           /\ cur' = [cur EXCEPT ![s] = cur'[s]]
           /\ cur'[s].row = cur[s].row /\ cur'[s].base = cur[s].base
           /\ cur'[s].now.concept = cur[s].now.concept /\ cur'[s].now.by = cur[s].now.by
           /\ \/ /\ step' = [step EXCEPT ![s] = "save"]
                 /\ cur'[s].now.status = "verified"
                 /\ Sound(cur'[s].now.code, cur'[s].now.answer)
              \/ /\ step[s] = "solve" /\ step' = [step EXCEPT ![s] = "retry"]
                 /\ cur'[s].now.status = cur[s].now.status
                 /\ cur'[s].now.answer = cur[s].now.answer
              \/ step' = [step EXCEPT ![s] = "save"] /\ cur'[s].now.status = "failed"
<1>1. cur[s] \in V!Task /\ cur[s].now \in V!Variant
  BY DEF ControlInv, Busy, V!Solve, V!Task
<1>2. s \in DOMAIN cur /\ s \in DOMAIN step
  BY DEF VTypes
<1>3. code \in V!Code /\ V!Printed(code) \in V!Answer
  BY Constants
<1>4. CASE V!Ok(code) /\ V!Printed(code) # None
  <2> DEFINE new == [cur[s].now EXCEPT !.code = code, !.answer = V!Printed(code), !.status = "verified"]
  <2>1. cur' = [cur EXCEPT ![s].now = new] /\ step' = [step EXCEPT ![s] = "save"]
    BY <1>4 DEF V!Solve, V!Goto
  <2>2. /\ new \in V!Variant /\ new.concept = cur[s].now.concept /\ new.by = cur[s].now.by
        /\ new.status = "verified" /\ new.code = code /\ new.answer = V!Printed(code)
    BY <1>1, <1>3 DEF V!Variant, V!Statuses
  <2>3. Sound(code, V!Printed(code))
    BY <1>4 DEF Sound, V!Ok, V!Printed
  <2> HIDE DEF new
  <2>4. cur'[s] = [cur[s] EXCEPT !.now = new] /\ cur' = [cur EXCEPT ![s] = cur'[s]]
    BY <1>2, <2>1
  <2> QED BY <1>1, <2>1, <2>2, <2>3, <2>4 DEF V!Task
<1>5. CASE ~(V!Ok(code) /\ V!Printed(code) # None) /\ step[s] = "solve"
  <2> DEFINE new == [cur[s].now EXCEPT !.code = code]
  <2>1. cur' = [cur EXCEPT ![s].now.code = code] /\ step' = [step EXCEPT ![s] = "retry"]
    BY <1>5 DEF V!Solve, V!Goto
  <2>2. /\ new \in V!Variant /\ new.concept = cur[s].now.concept /\ new.by = cur[s].now.by
        /\ new.status = cur[s].now.status /\ new.answer = cur[s].now.answer
    BY <1>1, <1>3 DEF V!Variant, V!Statuses
  <2>4. cur'[s] = [cur[s] EXCEPT !.now = new] /\ cur' = [cur EXCEPT ![s] = cur'[s]]
    BY <1>1, <1>2, <2>1 DEF V!Task, V!Variant
  <2> HIDE DEF new
  <2> QED BY <1>1, <1>5, <2>1, <2>2, <2>4 DEF V!Task
<1>6. CASE ~(V!Ok(code) /\ V!Printed(code) # None) /\ step[s] # "solve"
  <2> DEFINE new == [cur[s].now EXCEPT !.code = code, !.status = "failed"]
  <2>1. /\ cur' = [cur EXCEPT ![s].now.code = code, ![s].now.status = "failed"]
        /\ step' = [step EXCEPT ![s] = "save"]
    BY <1>6 DEF V!Solve, V!Goto
  <2>2. /\ new \in V!Variant /\ new.concept = cur[s].now.concept /\ new.by = cur[s].now.by
        /\ new.status = "failed"
    BY <1>1, <1>3 DEF V!Variant, V!Statuses
  <2>4. cur'[s] = [cur[s] EXCEPT !.now = new] /\ cur' = [cur EXCEPT ![s] = cur'[s]]
    BY <1>1, <1>2, <2>1 DEF V!Task, V!Variant
  <2> HIDE DEF new
  <2> QED BY <1>1, <2>1, <2>2, <2>4 DEF V!Task
<1> QED BY <1>4, <1>5, <1>6

(* What a command does to a variant in memory: it starts from what it read,*)
(* or from nothing; only a program that ran well verifies it.              *)
TasksOf(s) ==
    /\ command[s] = "idle" => work[s] = {}
    /\ \A t \in work[s] : t.now = t.base
    /\ command[s] = "reverify" =>
         \A t \in InHand(s) : t.row \in DOMAIN variants /\ t.base.status = "verified"
    /\ command[s] \in {"generate", "job"} =>
         \A t \in InHand(s) : t.base = V!Fresh(t.base.concept, command[s])
    /\ Busy(s) =>
         cur[s].now.concept = cur[s].base.concept /\ cur[s].now.by = cur[s].base.by
    /\ step[s] = "solve" => cur[s].now = cur[s].base
    /\ step[s] = "retry" =>
         cur[s].now.status = cur[s].base.status /\ cur[s].now.answer = cur[s].base.answer
    /\ step[s] = "save" =>
         \/ cur[s].now.status = "failed"
         \/ cur[s].now.status = "verified" /\ Sound(cur[s].now.code, cur[s].now.answer)

TaskInv == \A s \in Slots : TasksOf(s)

(* A row is written over by run_reverify only, and rows are only added.    *)
Overwrites(s) ==
    /\ command[s] = "reverify"
    /\ step[s] \in {"retry", "save"}
    /\ cur[s] \in V!Task /\ cur[s].row \in DOMAIN variants
    /\ variants' = [variants EXCEPT ![cur[s].row] = V!Flushed(cur[s])]
    /\ \/ step[s] = "retry" /\ command'[s] = "idle"
       \/ step[s] = "save" /\ command'[s] = "reverify" /\ step'[s] = "take"

Adds(s) ==
    /\ command[s] \in {"generate", "job"}
    /\ command[s] = "job" => cur[s].now.status = "verified"
    /\ step[s] = "save" /\ step'[s] = "take" /\ command'[s] = command[s]
    /\ cur[s] \in V!Task
    /\ variants' = Append(variants, cur[s].now) /\ Len(variants') <= MaxVariants

(* A command that ended has nothing in memory.                             *)
LEMMA EndDoes ==
    ASSUME NEW s \in Slots, VTypes, V!End(s)
    PROVE  /\ command'[s] = "idle" /\ step'[s] = "take" /\ work'[s] = {}
           /\ cur'[s] = V!NoTask /\ pages'[s] = << >> /\ wrote'[s] = 0
BY DEF VTypes, V!End

(* There is no other change of the rows.                                   *)
LEMMA RowsChange ==
    ASSUME NEW s \in Slots, VTypes, ControlInv, TaskInv, Does(s)
    PROVE  \/ variants' = variants
           \/ Overwrites(s)
           \/ Adds(s)
<1>1. CASE V!Save(s)
  <2>0. s \in DOMAIN step /\ command'[s] = command[s]
    BY <1>1 DEF VTypes, V!Save
  <2>1. /\ step[s] = "save" /\ step'[s] = "take" /\ cur[s] \in V!Task
        /\ command[s] \in {"generate", "job", "reverify"}
    BY <1>1, <2>0 DEF V!Save, V!Goto, ControlInv, Busy
  <2>2. CASE command[s] = "reverify"
    <3>1. variants' = [variants EXCEPT ![cur[s].row] = V!Flushed(cur[s])]
      BY <1>1, <2>2 DEF V!Save
    <3>2. cur[s].row \in DOMAIN variants
      BY <2>1, <2>2 DEF TaskInv, TasksOf, InHand, Busy
    <3> QED BY <2>0, <2>1, <2>2, <3>1, <3>2 DEF Overwrites
  <2>3. CASE command[s] = "job" /\ cur[s].now.status # "verified"
    <3>1. variants' = variants
      BY <1>1, <2>3 DEF V!Save
    <3> QED BY <3>1
  <2>4. CASE command[s] # "reverify" /\ ~(command[s] = "job" /\ cur[s].now.status # "verified")
    <3>1. variants' = Append(variants, cur[s].now) /\ Len(variants') <= MaxVariants
      BY <1>1, <2>4 DEF V!Save
    <3> QED BY <2>0, <2>1, <2>4, <3>1 DEF Adds
  <2> QED BY <2>2, <2>3, <2>4
<1>2. CASE V!Cut(s) /\ variants' # variants
  <2>1. /\ command[s] = "reverify" /\ step[s] = "retry" /\ V!End(s)
        /\ variants' = [variants EXCEPT ![cur[s].row] = V!Flushed(cur[s])]
    BY <1>2 DEF V!Cut
  <2>2. cur[s] \in V!Task /\ cur[s].row \in DOMAIN variants
    BY <2>1 DEF ControlInv, TaskInv, TasksOf, InHand, Busy
  <2> QED BY <2>1, <2>2, EndDoes DEF Overwrites
<1>3. CASE ~V!Save(s) /\ ~V!Cut(s)
  <2>1. variants' = variants
    BY <1>3 DEF Does, V!StartGenerate, V!StartReverify, V!Take, V!Solve, V!Finish,
                V!StartRender, V!WriteCode, V!WriteHandout, V!WriteManual, V!StopRender
  <2> QED BY <2>1
<1> QED BY <1>1, <1>2, <1>3

(* The rows after each of these changes.                                   *)
LEMMA RowsKept ==
    ASSUME NEW s \in Slots, VTypes, ControlInv, TaskInv, Does(s)
    PROVE  /\ variants' \in Seq(V!Variant) /\ Len(variants') <= MaxVariants
           /\ DOMAIN variants \subseteq DOMAIN variants'
           /\ Overwrites(s) =>
                /\ DOMAIN variants' = DOMAIN variants
                /\ variants'[cur[s].row] = V!Flushed(cur[s])
                /\ \A i \in DOMAIN variants : i # cur[s].row => variants'[i] = variants[i]
           /\ Adds(s) =>
                /\ DOMAIN variants' = DOMAIN variants \cup {Len(variants) + 1}
                /\ variants'[Len(variants) + 1] = cur[s].now
                /\ Len(variants) + 1 \notin DOMAIN variants
                /\ \A i \in DOMAIN variants : variants'[i] = variants[i]
<1>0. /\ variants \in Seq(V!Variant) /\ Len(variants) \in Nat /\ DOMAIN variants = 1 .. Len(variants)
      /\ Len(variants) <= MaxVariants
  BY LenProperties DEF VTypes
<1>1. CASE variants' = variants /\ ~Overwrites(s) /\ ~Adds(s)
  BY <1>0, <1>1
<1>2. ASSUME Overwrites(s)
      PROVE  /\ variants' \in Seq(V!Variant) /\ Len(variants') = Len(variants)
             /\ variants'[cur[s].row] = V!Flushed(cur[s])
             /\ \A i \in DOMAIN variants : i # cur[s].row => variants'[i] = variants[i]
  <2>1. /\ cur[s] \in V!Task /\ cur[s].row \in 1 .. Len(variants)
        /\ variants' = [variants EXCEPT ![cur[s].row] = V!Flushed(cur[s])]
    BY <1>0, <1>2 DEF Overwrites
  <2>2. V!Flushed(cur[s]) \in V!Variant
    BY <1>0, <2>1, FlushedTyped
  <2> QED BY <1>0, <2>1, <2>2, ExceptSeq
<1>3. ASSUME Adds(s)
      PROVE  /\ variants' \in Seq(V!Variant) /\ Len(variants') = Len(variants) + 1
             /\ Len(variants') <= MaxVariants
             /\ variants'[Len(variants) + 1] = cur[s].now
             /\ \A i \in DOMAIN variants : variants'[i] = variants[i]
  <2>1. cur[s].now \in V!Variant
    BY <1>3 DEF Adds, V!Task
  <2>2. variants' = Append(variants, cur[s].now) /\ Len(variants') <= MaxVariants
    BY <1>3 DEF Adds
  <2> QED BY <1>0, <2>1, <2>2, AppendProperties
<1>4. ASSUME Overwrites(s) PROVE DOMAIN variants' = DOMAIN variants
  BY <1>0, <1>2, <1>4, LenProperties
<1>5. ASSUME Adds(s) PROVE DOMAIN variants' = DOMAIN variants \cup {Len(variants) + 1} /\ Len(variants) + 1 \notin DOMAIN variants
  BY <1>0, <1>3, <1>5, LenProperties
<1>6. ~(Overwrites(s) /\ Adds(s))
  BY DEF Overwrites, Adds
<1> QED BY <1>0, <1>1, <1>2, <1>3, <1>4, <1>5, <1>6, RowsChange

(* The operator of the instance is that of the library.                    *)
LEMMA SameCardinality == \A S : V!Cardinality(S) = Cardinality(S)
BY DEF V!Cardinality, Cardinality

(* What a render reads are verified rows.                                  *)
LEMMA StartRenderDoes ==
    ASSUME NEW s \in Slots, VTypes, V!StartRender(s)
    PROVE  /\ pages' = [pages EXCEPT ![s] = pages'[s]] /\ pages'[s] \in Seq(V!Page)
           /\ \A i \in DOMAIN pages'[s] : \E v \in DOMAIN variants :
                /\ variants[v].status = "verified"
                /\ pages'[s][i].code = variants[v].code
                /\ pages'[s][i].answer = variants[v].answer
<1> DEFINE PageOf(v) == [row |-> v, code |-> variants[v].code, answer |-> variants[v].answer]
           Drawing(pick, order) == [i \in DOMAIN order |-> PageOf(pick[order[i]])]
<1>1. PICK pick \in V!Collected :
        \E order \in [1 .. Cardinality(DOMAIN pick) -> DOMAIN pick] :
          /\ \A i, j \in DOMAIN order : i < j => order[i] < order[j]
          /\ pages' = [pages EXCEPT ![s] =
                [i \in DOMAIN order |->
                    LET v == pick[order[i]] IN
                    [row |-> v, code |-> variants[v].code, answer |-> variants[v].answer]]]
  BY SameCardinality DEF V!StartRender
<1>2. PICK order \in [1 .. Cardinality(DOMAIN pick) -> DOMAIN pick] :
           pages' = [pages EXCEPT ![s] = Drawing(pick, order)]
  BY <1>1
<1>3. /\ DOMAIN pick \in SUBSET Concepts
      /\ \A c \in DOMAIN pick :
                /\ pick[c] \in DOMAIN variants /\ pick[c] \in 1 .. MaxVariants
                /\ variants[pick[c]] \in V!Variant
                /\ variants[pick[c]].status = "verified"
  BY CollectedRows
<1>4. Cardinality(DOMAIN pick) \in Nat
  BY <1>3, ConceptsFinite
<1>5. DOMAIN order = 1 .. Cardinality(DOMAIN pick) /\ \A i \in DOMAIN order : order[i] \in DOMAIN pick
  BY <1>2
<1>6. \A i \in DOMAIN order : PageOf(pick[order[i]]) \in V!Page
  BY <1>3, <1>5 DEF V!Page, V!Variant
<1>7. Drawing(pick, order) \in Seq(V!Page)
  BY <1>4, <1>5, <1>6
<1> HIDE DEF Drawing
<1>8. pages'[s] = Drawing(pick, order)
  BY <1>2 DEF VTypes
<1>9. ASSUME NEW i \in DOMAIN pages'[s]
      PROVE  \E v \in DOMAIN variants :
                /\ variants[v].status = "verified"
                /\ pages'[s][i].code = variants[v].code
                /\ pages'[s][i].answer = variants[v].answer
  <2>1. i \in DOMAIN order /\ pages'[s][i] = PageOf(pick[order[i]])
    BY <1>8 DEF Drawing
  <2>2. pick[order[i]] \in DOMAIN variants /\ variants[pick[order[i]]].status = "verified"
    BY <1>3, <1>5, <2>1
  <2>3. /\ PageOf(pick[order[i]]).code = variants[pick[order[i]]].code
        /\ PageOf(pick[order[i]]).answer = variants[pick[order[i]]].answer
    OBVIOUS
  <2> QED BY <2>1, <2>2, <2>3
<1> QED BY <1>2, <1>7, <1>8, <1>9

(* The files after the programs have been written.                         *)
FolderHas(m) == DOMAIN m \subseteq DOMAIN folder /\ \A i \in DOMAIN m : folder[i] = m[i].code

(* The next program of the set is in its file, the other files stay.       *)
LEMMA WriteCodeDoes ==
    ASSUME NEW s \in Slots, VTypes, V!WriteCode(s)
    PROVE  LET i == wrote[s] + 1 IN
           /\ i \in 1 .. Len(pages[s]) /\ DOMAIN pages[s] = 1 .. Len(pages[s])
           /\ pages[s][i].code \in V!Code
           /\ folder' = [j \in DOMAIN folder \cup {i} |-> IF j = i THEN pages[s][i].code ELSE folder[j]]
           /\ wrote' = [wrote EXCEPT ![s] = i] /\ wrote'[s] = i
           /\ step' = [step EXCEPT ![s] = IF i = Len(pages[s]) THEN "handout" ELSE "code"]
           /\ step'[s] = IF i = Len(pages[s]) THEN "handout" ELSE "code"
<1> DEFINE i == wrote[s] + 1
<1>1. pages[s] \in Seq(V!Page) /\ DOMAIN pages[s] = 1 .. Len(pages[s])
  BY LenProperties DEF VTypes
<1>2. /\ i \in DOMAIN pages[s]
      /\ folder' = [j \in DOMAIN folder \cup {i} |-> IF j = i THEN pages[s][i].code ELSE folder[j]]
      /\ wrote' = [wrote EXCEPT ![s] = i]
      /\ step' = [step EXCEPT ![s] = IF i = Len(pages[s]) THEN "handout" ELSE "code"]
  BY DEF V!WriteCode, V!Goto
<1>3. pages[s][i] \in V!Page
  BY <1>1, <1>2, ElementOfSeq
<1>4. pages[s][i].code \in V!Code
  BY <1>3 DEF V!Page
<1>5. s \in DOMAIN wrote /\ s \in DOMAIN step
  BY DEF VTypes
<1> HIDE DEF i
<1>6. /\ i \in 1 .. Len(pages[s]) /\ wrote'[s] = i
      /\ step'[s] = IF i = Len(pages[s]) THEN "handout" ELSE "code"
  BY <1>1, <1>2, <1>5
<1> QED BY <1>1, <1>2, <1>4, <1>6 DEF i

(* What all commands have in common at their start.                        *)
LEMMA StartTyped ==
    ASSUME NEW s \in Slots, NEW c \in V!Commands, VTypes, V!Begin(s, c)
    PROVE  /\ starts' \in [V!Commands -> Nat]
           /\ command[s] = "idle" /\ command'[s] = c
           /\ command' \in [Slots -> {"generate", "job", "reverify", "render", "idle"}]
BY DEF V!Begin, VTypes, V!Commands

(* And at their end.                                                       *)
LEMMA EndTyped ==
    ASSUME NEW s \in Slots, VTypes, V!End(s)
    PROVE  /\ UNCHANGED <<chosen, starts>>
           /\ command' \in [Slots -> {"generate", "job", "reverify", "render", "idle"}]
           /\ step' \in [Slots -> {"take", "solve", "retry", "save", "code", "handout", "manual"}]
           /\ work' \in [Slots -> SUBSET V!Task]
           /\ cur' \in [Slots -> V!Task \cup {V!NoTask}]
           /\ pages' \in [Slots -> Seq(V!Page)] /\ wrote' \in [Slots -> Nat]
BY EmptySeq DEF V!End, VTypes

(* Every step keeps the types.                                             *)
LEMMA VTyped ==
    ASSUME NEW s \in Slots, VTypes, ControlInv, TaskInv, Does(s)
    PROVE  VTypes'
<1>1. variants' \in Seq(V!Variant) /\ Len(variants') <= MaxVariants
  BY RowsKept
<1>2. ASSUME NEW by \in {"generate", "job"}, V!StartGenerate(s, by) PROVE VTypes'
  <2>1. by \in V!Commands /\ V!Begin(s, by)
    BY <1>2 DEF V!Commands, V!StartGenerate
  <2>2. \A c \in chosen : V!ToSolve(0, V!Fresh(c, by)) \in V!Task
    BY FreshTyped DEF VTypes
  <2>3. work' \in [Slots -> SUBSET V!Task]
    BY <1>2, <2>2 DEF V!StartGenerate, VTypes
  <2> QED BY <1>1, <1>2, <2>1, <2>3, StartTyped DEF V!StartGenerate, V!files, VTypes
<1>3. CASE V!StartReverify(s)
  <2>1. "reverify" \in V!Commands /\ V!Begin(s, "reverify")
    BY <1>3 DEF V!Commands, V!StartReverify
  <2>2. PICK pick \in V!Collected :
          work' = [work EXCEPT ![s] = {V!ToSolve(pick[c], variants[pick[c]]) : c \in DOMAIN pick}]
    BY <1>3 DEF V!StartReverify
  <2>3. \A c \in DOMAIN pick : V!ToSolve(pick[c], variants[pick[c]]) \in V!Task
    BY CollectedRows, Constants DEF V!ToSolve, V!Task
  <2>4. work' \in [Slots -> SUBSET V!Task]
    BY <2>2, <2>3 DEF VTypes
  <2> QED BY <1>1, <1>3, <2>1, <2>4, StartTyped DEF V!StartReverify, V!files, VTypes
<1>4. ASSUME NEW task \in work[s], V!Take(s, task) PROVE VTypes'
  <2>1. task \in V!Task
    BY DEF VTypes
  <2>2. work' \in [Slots -> SUBSET V!Task]
    BY <1>4 DEF V!Take, VTypes
  <2>3. /\ cur' \in [Slots -> V!Task \cup {V!NoTask}]
        /\ step' \in [Slots -> {"take", "solve", "retry", "save", "code", "handout", "manual"}]
    BY <1>4, <2>1 DEF V!Take, V!Goto, VTypes
  <2> QED BY <1>1, <1>4, <2>2, <2>3 DEF V!Take, V!files, VTypes
<1>5. ASSUME NEW code \in Programs, V!Solve(s, code) PROVE VTypes'
  <2>1. /\ cur' \in [Slots -> V!Task \cup {V!NoTask}]
        /\ step' \in [Slots -> {"take", "solve", "retry", "save", "code", "handout", "manual"}]
    BY <1>5, SolveDoes DEF VTypes
  <2> QED BY <1>1, <1>5, <2>1 DEF V!Solve, V!files, VTypes
<1>6. CASE V!Save(s)
  BY <1>1, <1>6 DEF V!Save, V!Goto, V!files, VTypes
<1>7. CASE V!Finish(s) \/ V!Cut(s) \/ V!StopRender(s)
  <2>1. V!End(s) /\ UNCHANGED V!files
    BY <1>7 DEF V!Finish, V!Cut, V!StopRender
  <2> QED BY <1>1, <2>1, EndTyped DEF V!files, VTypes
<1>8. CASE V!StartRender(s)
  <2>1. "render" \in V!Commands /\ V!Begin(s, "render")
    BY <1>8 DEF V!Commands, V!StartRender
  <2>2. pages' \in [Slots -> Seq(V!Page)]
    BY <1>8, StartRenderDoes DEF VTypes
  <2>3. step' \in [Slots -> {"take", "solve", "retry", "save", "code", "handout", "manual"}]
    BY <1>8 DEF V!StartRender, V!Goto, VTypes
  <2> QED BY <1>1, <1>8, <2>1, <2>2, <2>3, StartTyped DEF V!StartRender, V!files, VTypes
<1>9. CASE V!WriteCode(s)
  <2> DEFINE i == wrote[s] + 1
  <2>1. /\ pages[s][i].code \in V!Code
        /\ folder' = [j \in DOMAIN folder \cup {i} |-> IF j = i THEN pages[s][i].code ELSE folder[j]]
        /\ wrote' = [wrote EXCEPT ![s] = i]
        /\ step' = [step EXCEPT ![s] = IF i = Len(pages[s]) THEN "handout" ELSE "code"]
    BY <1>9, WriteCodeDoes
  <2>2. i \in Nat
    BY DEF VTypes
  <2> HIDE DEF i
  <2>3. \A j \in DOMAIN folder' : j \in Nat /\ folder'[j] \in V!Code
    BY <2>1, <2>2 DEF VTypes
  <2>4. /\ wrote' \in [Slots -> Nat]
        /\ step' \in [Slots -> {"take", "solve", "retry", "save", "code", "handout", "manual"}]
    BY <2>1, <2>2 DEF VTypes
  <2>5. UNCHANGED <<chosen, handout, manual, starts, command, work, cur, pages>>
    BY <1>9 DEF V!WriteCode
  <2> QED BY <1>1, <2>3, <2>4, <2>5 DEF VTypes
<1>10. CASE V!WriteHandout(s)
  <2>1. pages[s] \in Seq(V!Page) /\ DOMAIN pages[s] = 1 .. Len(pages[s]) /\ Len(pages[s]) \in Nat
    BY LenProperties DEF VTypes
  <2>2. \A i \in DOMAIN pages[s] : pages[s][i].row \in 1 .. MaxVariants
    <3>1. \A i \in DOMAIN pages[s] : pages[s][i] \in V!Page
      BY <2>1, ElementOfSeq
    <3> QED BY <3>1 DEF V!Page
  <2>3. handout' = [i \in 1 .. Len(pages[s]) |-> pages[s][i].row]
    BY <1>10, <2>1 DEF V!WriteHandout
  <2>4. handout' \in Seq(1 .. MaxVariants)
    BY <2>1, <2>2, <2>3
  <2> QED BY <1>1, <1>10, <2>4 DEF V!WriteHandout, V!Goto, VTypes
<1>11. CASE V!WriteManual(s)
  <2>1. manual' \in Seq(V!Page) /\ V!End(s) /\ UNCHANGED <<folder, handout>>
    BY <1>11 DEF V!WriteManual, VTypes
  <2> QED BY <1>1, <2>1, EndTyped DEF VTypes
<1> QED BY <1>2, <1>3, <1>4, <1>5, <1>6, <1>7, <1>8, <1>9, <1>10, <1>11 DEF Does

(* An idle command is at its beginning.                                    *)
LEMMA IdleTakes ==
    ASSUME NEW s \in Slots, VTypes, ControlInv
    PROVE  /\ command[s] = "idle" => step[s] = "take"
           /\ step[s] = "take" => ~Busy(s) /\ ~Rendering(s)
BY DEF ControlInv, VTypes, Busy, Rendering

(* Every step keeps command and step of a slot in accord.                  *)
LEMMA ControlKept ==
    ASSUME NEW s \in Slots, VTypes, ControlInv, Does(s)
    PROVE  ControlInv'
<1>1. ASSUME NEW t \in Slots, t # s
      PROVE  /\ Busy(t)' => command'[t] \in {"generate", "job", "reverify"} /\ cur'[t] \in V!Task
             /\ command'[t] = "render" <=> Rendering(t)'
  BY <1>1, OthersStay DEF ControlInv, Busy, Rendering
<1> DEFINE Mine == /\ Busy(s)' => command'[s] \in {"generate", "job", "reverify"} /\ cur'[s] \in V!Task
                   /\ command'[s] = "render" <=> Rendering(s)'
<1>2. ASSUME NEW by \in {"generate", "job"}, V!StartGenerate(s, by) PROVE Mine
  BY <1>2, IdleTakes DEF V!StartGenerate, V!Begin, VTypes, Busy, Rendering
<1>3. ASSUME V!StartReverify(s) PROVE Mine
  BY <1>3, IdleTakes DEF V!StartReverify, V!Begin, VTypes, Busy, Rendering
<1>4. ASSUME NEW task \in work[s], V!Take(s, task) PROVE Mine
  <2>1. /\ command'[s] = command[s] /\ command[s] \in {"generate", "job", "reverify"}
        /\ \/ step'[s] = "take"
           \/ step'[s] = "solve" /\ cur'[s] = task
        /\ task \in V!Task
    BY <1>4 DEF V!Take, V!Goto, VTypes
  <2> QED BY <2>1 DEF Busy, Rendering
<1>5. ASSUME NEW code \in Programs, V!Solve(s, code) PROVE Mine
  <2>1. command' = command /\ command[s] \in {"generate", "job", "reverify"}
    BY <1>5 DEF V!Solve, ControlInv, Busy
  <2>2. step'[s] \in {"retry", "save"} /\ cur'[s] \in V!Task
    BY <1>5, SolveDoes DEF VTypes
  <2> QED BY <2>1, <2>2 DEF Rendering
<1>6. ASSUME V!Save(s) PROVE Mine
  <2>1. command' = command /\ command[s] \in {"generate", "job", "reverify"} /\ step'[s] = "take"
    BY <1>6 DEF V!Save, V!Goto, ControlInv, Busy, VTypes
  <2> QED BY <2>1 DEF Busy, Rendering
<1>7. ASSUME V!Finish(s) \/ V!Cut(s) \/ V!WriteManual(s) \/ V!StopRender(s) PROVE Mine
  <2>1. command'[s] = "idle" /\ step'[s] = "take"
    BY <1>7, EndDoes DEF V!Finish, V!Cut, V!WriteManual, V!StopRender
  <2> QED BY <2>1 DEF Busy, Rendering
<1>8. ASSUME V!StartRender(s) PROVE Mine
  <2>1. command'[s] = "render" /\ step'[s] = "code"
    BY <1>8 DEF V!StartRender, V!Begin, V!Goto, VTypes
  <2> QED BY <2>1 DEF Busy, Rendering
<1>9. ASSUME V!WriteCode(s) \/ V!WriteHandout(s) PROVE Mine
  <2>1. command'[s] = "render" /\ step'[s] \in {"code", "handout", "manual"}
    BY <1>9 DEF V!WriteCode, V!WriteHandout, V!Goto, VTypes, ControlInv, Rendering
  <2> QED BY <2>1 DEF Busy, Rendering
<1>10. Mine
  BY <1>2, <1>3, <1>4, <1>5, <1>6, <1>7, <1>8, <1>9 DEF Does
<1> QED BY <1>1, <1>10 DEF ControlInv

(* Every step keeps what is known of the tasks in memory.                  *)
LEMMA TasksKept ==
    ASSUME NEW s \in Slots, VTypes, ControlInv, TaskInv, Does(s)
    PROVE  TaskInv'
<1>0. DOMAIN variants \subseteq DOMAIN variants' /\ TasksOf(s)
  BY RowsKept DEF TaskInv, TasksOf
<1>1. ASSUME NEW t \in Slots, t # s
      PROVE  TasksOf(t)'
  <2>1. TasksOf(t)
    BY DEF TaskInv, TasksOf
  <2>2. /\ command'[t] = command[t] /\ step'[t] = step[t] /\ work'[t] = work[t] /\ cur'[t] = cur[t]
        /\ InHand(t)' = InHand(t) /\ Busy(t)' = Busy(t)
    BY <1>1, OthersStay DEF InHand, Busy
  <2> QED BY <1>0, <2>1, <2>2 DEF TasksOf
<1>2. ASSUME NEW by \in {"generate", "job"}, V!StartGenerate(s, by) PROVE TasksOf(s)'
  <2>1. /\ command'[s] = by /\ step'[s] = "take"
        /\ work'[s] = {V!ToSolve(0, V!Fresh(c, by)) : c \in chosen}
    BY <1>2, IdleTakes DEF V!StartGenerate, V!Begin, VTypes
  <2>2. InHand(s)' = work'[s] /\ ~Busy(s)'
    BY <2>1 DEF InHand, Busy
  <2>3. \A c : /\ V!ToSolve(0, V!Fresh(c, by)).now = V!Fresh(c, by)
               /\ V!ToSolve(0, V!Fresh(c, by)).base = V!Fresh(c, by)
               /\ V!Fresh(c, by).concept = c
    BY DEF V!ToSolve, V!Fresh
  <2>4. \A t \in work'[s] : t.now = t.base /\ t.base = V!Fresh(t.base.concept, by)
    BY <2>1, <2>3
  <2> QED BY <2>1, <2>2, <2>4 DEF TasksOf
<1>3. ASSUME V!StartReverify(s) PROVE TasksOf(s)'
  <2>1. PICK pick \in V!Collected :
          work' = [work EXCEPT ![s] = {V!ToSolve(pick[c], variants[pick[c]]) : c \in DOMAIN pick}]
    BY <1>3 DEF V!StartReverify
  <2>2. /\ command'[s] = "reverify" /\ step'[s] = "take" /\ variants' = variants
        /\ work'[s] = {V!ToSolve(pick[c], variants[pick[c]]) : c \in DOMAIN pick}
    BY <1>3, <2>1, IdleTakes DEF V!StartReverify, V!Begin, VTypes
  <2>3. InHand(s)' = work'[s] /\ ~Busy(s)'
    BY <2>2 DEF InHand, Busy
  <2>4. \A c \in DOMAIN pick : pick[c] \in DOMAIN variants /\ variants[pick[c]].status = "verified"
    BY CollectedRows
  <2>5. \A t \in work'[s] : t.now = t.base /\ t.row \in DOMAIN variants /\ t.base.status = "verified"
    BY <2>2, <2>4 DEF V!ToSolve
  <2> QED BY <2>2, <2>3, <2>5 DEF TasksOf
<1>4. ASSUME NEW task \in work[s], V!Take(s, task) PROVE TasksOf(s)'
  <2>1. /\ command'[s] = command[s] /\ command[s] # "idle" /\ variants' = variants
        /\ step[s] = "take" /\ work'[s] = work[s] \ {task}
        /\ \/ step'[s] = "take"
           \/ step'[s] = "solve" /\ cur'[s] = task
    BY <1>4 DEF V!Take, V!Goto, VTypes
  <2>2. InHand(s)' \subseteq work[s] /\ work[s] = InHand(s)
    BY <2>1 DEF InHand, Busy
  <2>3. task.now = task.base
    BY <1>0 DEF TasksOf
  <2> QED BY <1>0, <2>1, <2>2, <2>3 DEF TasksOf, Busy
<1>5. ASSUME NEW code \in Programs, V!Solve(s, code) PROVE TasksOf(s)'
  <2>1. /\ command' = command /\ work' = work /\ variants' = variants /\ Busy(s)
        /\ command[s] # "idle"
    BY <1>5 DEF V!Solve, ControlInv, Busy
  <2>2. /\ cur[s] \in InHand(s)
        /\ \A t \in InHand(s)' : t \in work[s] \/ t = cur'[s]
        /\ \A t \in work[s] : t \in InHand(s)
    BY <2>1 DEF InHand
  <2>3. cur'[s].row = cur[s].row /\ cur'[s].base = cur[s].base
    BY <1>5, SolveDoes
  <2>4. /\ command[s] = "reverify" =>
             \A t \in InHand(s)' : t.row \in DOMAIN variants /\ t.base.status = "verified"
        /\ command[s] \in {"generate", "job"} =>
             \A t \in InHand(s)' : t.base = V!Fresh(t.base.concept, command[s])
    BY <1>0, <2>2, <2>3 DEF TasksOf
  <2>5. cur'[s].now.concept = cur'[s].base.concept /\ cur'[s].now.by = cur'[s].base.by
    BY <1>0, <1>5, <2>1, SolveDoes DEF TasksOf
  <2>6. \/ step'[s] = "save" /\ (\/ cur'[s].now.status = "failed"
                                 \/ cur'[s].now.status = "verified" /\ Sound(cur'[s].now.code, cur'[s].now.answer))
        \/ step'[s] = "retry" /\ cur'[s].now.status = cur'[s].base.status /\ cur'[s].now.answer = cur'[s].base.answer
    <3>1. step[s] = "solve" => cur[s].now = cur[s].base
      BY <1>0 DEF TasksOf
    <3>2. s \in DOMAIN step
      BY DEF VTypes
    <3>3. CASE /\ step[s] = "solve" /\ step' = [step EXCEPT ![s] = "retry"]
               /\ cur'[s].now.status = cur[s].now.status
               /\ cur'[s].now.answer = cur[s].now.answer
      BY <2>3, <3>1, <3>2, <3>3
    <3>4. CASE step' = [step EXCEPT ![s] = "save"]
      BY <1>5, <3>2, <3>4, SolveDoes
    <3> QED BY <1>5, <3>3, <3>4, SolveDoes
  <2> QED BY <1>0, <2>1, <2>4, <2>5, <2>6 DEF TasksOf
<1>6. ASSUME V!Save(s) PROVE TasksOf(s)'
  <2>1. /\ command' = command /\ work' = work /\ command[s] # "idle" /\ step'[s] = "take" /\ ~Busy(s)'
    BY <1>6 DEF V!Save, V!Goto, ControlInv, Busy, VTypes
  <2>2. InHand(s)' \subseteq InHand(s)
    BY <2>1 DEF InHand
  <2> QED BY <1>0, <2>1, <2>2 DEF TasksOf
<1>7. ASSUME V!Finish(s) \/ V!Cut(s) \/ V!WriteManual(s) \/ V!StopRender(s) PROVE TasksOf(s)'
  <2>1. command'[s] = "idle" /\ step'[s] = "take" /\ work'[s] = {}
    BY <1>7, EndDoes DEF V!Finish, V!Cut, V!WriteManual, V!StopRender
  <2> QED BY <2>1 DEF TasksOf, InHand, Busy
<1>8. ASSUME V!StartRender(s) \/ V!WriteCode(s) \/ V!WriteHandout(s) PROVE TasksOf(s)'
  <2>1. command'[s] = "render" /\ step'[s] \in {"code", "handout", "manual"} /\ work' = work
    BY <1>8 DEF V!StartRender, V!WriteCode, V!WriteHandout, V!Begin, V!Goto, VTypes, ControlInv, Rendering
  <2> QED BY <1>0, <2>1 DEF TasksOf, Busy
<1>9. TasksOf(s)'
  BY <1>2, <1>3, <1>4, <1>5, <1>6, <1>7, <1>8 DEF Does
<1> QED BY <1>1, <1>9 DEF TaskInv, TasksOf

-----------------------------------------------------------------------------
(* Answers come from their code.                                           *)

(* There are no two of this command.                                       *)
Alone(c) == \A s, t \in Slots : command[s] = c /\ command[t] = c => s = t

(* What a run of reverify has in memory of the rows is still so.           *)
MemoryOf(s) ==
    command[s] = "reverify" =>
        /\ \A t \in InHand(s) : t.base = variants[t.row]
        /\ \A t, u \in work[s] : t.row = u.row => t = u
        /\ Busy(s) => \A t \in work[s] : t.row # cur[s].row

RowsSound ==
    \A i \in DOMAIN variants :
        variants[i].status = "verified" => Sound(variants[i].code, variants[i].answer)

PagesSound(ps) == \A i \in DOMAIN ps : Sound(ps[i].code, ps[i].answer)

(* While mixed is FALSE: no two runs of reverify, each knows the rows it   *)
(* is at, and what is verified is sound, in the table and in the files.    *)
SoundInv ==
    /\ Alone("reverify")
    /\ \A s \in Slots : MemoryOf(s)
    /\ RowsSound
    /\ \A s \in Slots : PagesSound(pages[s])
    /\ PagesSound(manual)

(* Rows that are verified stay sound: run_reverify writes what differs     *)
(* from what it read, and what it read is still in the row.                *)
LEMMA RowsSoundKept ==
    ASSUME NEW s \in Slots, VTypes, ControlInv, TaskInv, SoundInv, Does(s),
           variants' # variants => ~Ends(s)
    PROVE  RowsSound'
<1>0. \A code, answer : Sound(code, answer)' = Sound(code, answer)
  BY DEF Sound
<1>1. CASE variants' = variants
  BY <1>0, <1>1 DEF SoundInv, RowsSound
<1>2. CASE Overwrites(s) /\ variants' # variants
  <2>1. /\ step[s] = "save" /\ command[s] = "reverify"
        /\ cur[s] \in V!Task /\ cur[s].row \in DOMAIN variants
    BY <1>2 DEF Overwrites, Ends
  <2>2. cur[s] \in InHand(s) /\ cur[s].base = variants[cur[s].row] /\ cur[s].base.status = "verified"
    BY <2>1 DEF SoundInv, MemoryOf, TaskInv, TasksOf, InHand, Busy
  <2>3. \/ cur[s].now.status = "failed"
        \/ cur[s].now.status = "verified" /\ Sound(cur[s].now.code, cur[s].now.answer)
    BY <2>1 DEF TaskInv, TasksOf
  <2> DEFINE new == V!Flushed(cur[s])
  <2>4. /\ new.code = cur[s].now.code
        /\ new.answer = cur[s].now.answer
        /\ new.status = cur[s].now.status
    BY <2>1, <2>2, FlushedTyped
  <2>5. /\ DOMAIN variants' = DOMAIN variants /\ variants'[cur[s].row] = new
        /\ \A i \in DOMAIN variants : i # cur[s].row => variants'[i] = variants[i]
    BY <1>2, RowsKept
  <2> HIDE DEF new
  <2>6. new.status = "verified" => Sound(new.code, new.answer)
    BY <2>3, <2>4
  <2> QED BY <1>0, <2>5, <2>6 DEF SoundInv, RowsSound
<1>3. CASE Adds(s)
  <2>1. /\ DOMAIN variants' = DOMAIN variants \cup {Len(variants) + 1}
        /\ variants'[Len(variants) + 1] = cur[s].now
        /\ \A i \in DOMAIN variants : variants'[i] = variants[i]
    BY <1>3, RowsKept
  <2>2. cur[s].now.status = "verified" => Sound(cur[s].now.code, cur[s].now.answer)
    BY <1>3 DEF Adds, TaskInv, TasksOf
  <2> QED BY <1>0, <2>1, <2>2 DEF SoundInv, RowsSound
<1> QED BY <1>1, <1>2, <1>3, RowsChange

(* No step but its own changes a row that a run of reverify has read.      *)
LEMMA MemoryKept ==
    ASSUME NEW s \in Slots, VTypes, ControlInv, TaskInv, SoundInv, Does(s), NEW t \in Slots
    PROVE  MemoryOf(t)'
<1>0. TasksOf(t) /\ MemoryOf(t)
  BY DEF TaskInv, TasksOf, SoundInv
<1>1. CASE t # s
  <2>1. /\ command'[t] = command[t] /\ step'[t] = step[t] /\ work'[t] = work[t] /\ cur'[t] = cur[t]
        /\ InHand(t)' = InHand(t) /\ Busy(t)' = Busy(t)
    BY <1>1, OthersStay DEF InHand, Busy
  <2>2. ASSUME command[t] = "reverify"
        PROVE  \A r \in DOMAIN variants : variants'[r] = variants[r]
    <3>1. ~Overwrites(s)
      BY <1>1, <2>2 DEF Overwrites, SoundInv, Alone
    <3> QED BY <3>1, RowsChange, RowsKept
  <2>3. command[t] = "reverify" => \A u \in InHand(t) : u.row \in DOMAIN variants
    BY <1>0 DEF TasksOf
  <2> QED BY <1>0, <2>1, <2>2, <2>3 DEF MemoryOf
<1>2. ASSUME t = s, V!StartReverify(s) PROVE MemoryOf(t)'
  <2>1. PICK pick \in V!Collected :
          work' = [work EXCEPT ![s] = {V!ToSolve(pick[c], variants[pick[c]]) : c \in DOMAIN pick}]
    BY <1>2 DEF V!StartReverify
  <2>2. /\ step'[s] = "take" /\ variants' = variants
        /\ work'[s] = {V!ToSolve(pick[c], variants[pick[c]]) : c \in DOMAIN pick}
    BY <1>2, <2>1, IdleTakes DEF V!StartReverify, V!Begin, VTypes
  <2>3. InHand(s)' = work'[s] /\ ~Busy(s)'
    BY <2>2 DEF InHand, Busy
  <2>4. \A u \in work'[s] : \E c \in DOMAIN pick : u = V!ToSolve(pick[c], variants[pick[c]])
    BY <2>2
  <2>5. \A c : V!ToSolve(pick[c], variants[pick[c]]).row = pick[c]
               /\ V!ToSolve(pick[c], variants[pick[c]]).base = variants[pick[c]]
    BY DEF V!ToSolve
  <2>6. \A u \in work'[s] : u.base = variants[u.row]
    BY <2>4, <2>5
  <2>7. \A c, d \in DOMAIN pick : pick[c] = pick[d] => c = d
    BY CollectedRows
  <2>8. \A u, w \in work'[s] : u.row = w.row => u = w
    BY <2>4, <2>5, <2>7
  <2> QED BY <1>2, <2>2, <2>3, <2>6, <2>8 DEF MemoryOf
<1>3. ASSUME t = s, NEW task \in work[s], V!Take(s, task) PROVE MemoryOf(t)'
  <2>1. /\ command'[s] = command[s] /\ variants' = variants
        /\ step[s] = "take" /\ work'[s] = work[s] \ {task}
        /\ \/ step'[s] = "take"
           \/ step'[s] = "solve" /\ cur'[s] = task
    BY <1>3 DEF V!Take, V!Goto, VTypes
  <2>2. InHand(s)' \subseteq work[s] /\ work[s] = InHand(s)
    BY <2>1 DEF InHand, Busy
  <2>3. ASSUME command[s] = "reverify", Busy(s)' PROVE \A u \in work'[s] : u.row # cur'[s].row
    BY <1>0, <1>3, <2>1, <2>3 DEF MemoryOf, Busy
  <2>4. ASSUME command[s] = "reverify" PROVE \A u \in InHand(s)' : u.base = variants'[u.row]
    BY <1>0, <1>3, <2>1, <2>2, <2>4 DEF MemoryOf
  <2>5. ASSUME command[s] = "reverify" PROVE \A u, w \in work'[s] : u.row = w.row => u = w
    BY <1>0, <1>3, <2>1, <2>5 DEF MemoryOf
  <2> QED BY <1>3, <2>1, <2>3, <2>4, <2>5 DEF MemoryOf
<1>4. ASSUME t = s, NEW code \in Programs, V!Solve(s, code) PROVE MemoryOf(t)'
  <2>1. command' = command /\ work' = work /\ variants' = variants /\ Busy(s)
    BY <1>4 DEF V!Solve, Busy
  <2>2. /\ cur[s] \in InHand(s)
        /\ \A u \in InHand(s)' : u \in work[s] \/ u = cur'[s]
        /\ \A u \in work[s] : u \in InHand(s)
    BY <2>1 DEF InHand
  <2>3. cur'[s].row = cur[s].row /\ cur'[s].base = cur[s].base
    BY <1>4, SolveDoes
  <2>4. ASSUME command[s] = "reverify" PROVE \A u \in InHand(s)' : u.base = variants'[u.row]
    BY <1>0, <1>4, <2>1, <2>2, <2>3, <2>4 DEF MemoryOf
  <2> QED BY <1>0, <1>4, <2>1, <2>3, <2>4 DEF MemoryOf
<1>5. ASSUME t = s, V!Save(s) PROVE MemoryOf(t)'
  <2>1. /\ command' = command /\ work' = work /\ step'[s] = "take" /\ ~Busy(s)' /\ Busy(s)
    BY <1>5 DEF V!Save, V!Goto, Busy, VTypes
  <2>2. InHand(s)' = work[s] /\ \A u \in work[s] : u \in InHand(s)
    BY <2>1 DEF InHand
  <2>3. ASSUME command[s] = "reverify" PROVE \A u \in InHand(s)' : u.base = variants'[u.row]
    <3>1. ~Adds(s)
      BY <2>3 DEF Adds
    <3>2. \A i \in DOMAIN variants : i # cur[s].row => variants'[i] = variants[i]
      BY <3>1, RowsChange, RowsKept
    <3>3. \A u \in work[s] : u.row # cur[s].row /\ u.row \in DOMAIN variants /\ u.base = variants[u.row]
      BY <1>0, <1>5, <2>1, <2>2, <2>3 DEF MemoryOf, TasksOf
    <3> QED BY <2>2, <3>2, <3>3
  <2> QED BY <1>0, <1>5, <2>1, <2>3 DEF MemoryOf
<1>6. ASSUME t = s, ~V!StartReverify(s), \A task \in work[s] : ~V!Take(s, task),
             \A code \in Programs : ~V!Solve(s, code), ~V!Save(s)
      PROVE  command'[s] # "reverify"
  BY <1>6, EndDoes DEF Does, V!StartGenerate, V!Begin, V!Finish, V!Cut, V!StartRender, V!WriteCode,
           V!WriteHandout, V!WriteManual, V!StopRender, VTypes, ControlInv, Rendering
<1> QED BY <1>1, <1>2, <1>3, <1>4, <1>5, <1>6 DEF MemoryOf

(* A render reads sound rows, and holds on to what it read.                *)
LEMMA PagesSoundKept ==
    ASSUME NEW s \in Slots, VTypes, SoundInv, Does(s), NEW t \in Slots
    PROVE  PagesSound(pages[t])' /\ PagesSound(manual)'
<1>0. /\ \A code, answer : Sound(code, answer)' = Sound(code, answer)
      /\ \A ps : PagesSound(ps)' = PagesSound(ps)
  BY DEF Sound, PagesSound
<1>1. CASE V!StartRender(s)
  <2>1. manual' = manual /\ (t # s => pages'[t] = pages[t])
    BY <1>1, OthersStay DEF V!StartRender, V!files
  <2>2. PagesSound(pages'[s])
    <3>1. ASSUME NEW i \in DOMAIN pages'[s] PROVE Sound(pages'[s][i].code, pages'[s][i].answer)
      <4>1. PICK v \in DOMAIN variants :
                /\ variants[v].status = "verified"
                /\ pages'[s][i].code = variants[v].code
                /\ pages'[s][i].answer = variants[v].answer
        BY <1>1, StartRenderDoes
      <4>2. Sound(variants[v].code, variants[v].answer)
        BY <4>1 DEF SoundInv, RowsSound
      <4> QED BY <4>1, <4>2
    <3> QED BY <3>1 DEF PagesSound
  <2> QED BY <1>0, <2>1, <2>2 DEF SoundInv
<1>2. CASE V!End(s)
  <2>1. pages'[t] = pages[t] \/ pages'[t] = << >>
    BY <1>2 DEF V!End, VTypes
  <2>2. PagesSound(<< >>)
    BY DEF PagesSound
  <2>3. manual' = manual \/ manual' = pages[s]
    BY <1>2 DEF Does, V!StartGenerate, V!StartReverify, V!Take, V!Solve, V!Save, V!Finish, V!Cut,
                V!StartRender, V!WriteCode, V!WriteHandout, V!WriteManual, V!StopRender, V!files
  <2> QED BY <1>0, <2>1, <2>2, <2>3 DEF SoundInv
<1>3. CASE ~V!StartRender(s) /\ ~V!End(s)
  <2>1. pages' = pages /\ manual' = manual
    BY <1>3 DEF Does, V!StartGenerate, V!StartReverify, V!Take, V!Solve, V!Save, V!Finish, V!Cut,
                V!WriteCode, V!WriteHandout, V!WriteManual, V!StopRender, V!files
  <2> QED BY <1>0, <2>1 DEF SoundInv
<1> QED BY <1>1, <1>2, <1>3

-----------------------------------------------------------------------------
(* One verified variant of a concept.                                      *)

(* The variants of it that generate has made.                              *)
Made(c) == {i \in DOMAIN variants : /\ variants[i].concept = c
                                    /\ variants[i].status = "verified"
                                    /\ variants[i].by = "generate"}

(* While doubled is FALSE: a concept that generate is at has no verified   *)
(* variant of generate, and none has two.                                  *)
SingleInv ==
    /\ Alone("generate")
    /\ \A s \in Slots : command[s] = "generate" /\ Busy(s) => Made(cur[s].base.concept) = {}
    /\ \A c : \A i, j \in Made(c) : i = j

(* Only generate makes one; run_reverify makes no row verified again.      *)
LEMMA MadeGrows ==
    ASSUME NEW s \in Slots, VTypes, ControlInv, TaskInv, Does(s)
    PROVE  \/ \A c : Made(c)' \subseteq Made(c)
           \/ /\ Adds(s) /\ command[s] = "generate"
              /\ \A c : Made(c)' \subseteq Made(c) \cup {Len(variants) + 1}
              /\ \A c : c # cur[s].base.concept => Made(c)' \subseteq Made(c)
<1>1. CASE variants' = variants
  BY <1>1 DEF Made
<1>2. CASE Overwrites(s)
  <2> DEFINE new == V!Flushed(cur[s])  old == variants[cur[s].row]
  <2>1. /\ command[s] = "reverify" /\ step[s] \in {"retry", "save"}
        /\ cur[s] \in V!Task /\ cur[s].row \in DOMAIN variants
    BY <1>2 DEF Overwrites
  <2>2. cur[s].base.status = "verified"
    BY <2>1 DEF TaskInv, TasksOf, InHand, Busy
  <2>3. cur[s].now.status = "failed" \/ cur[s].now.status = "verified"
    BY <2>1, <2>2 DEF TaskInv, TasksOf
  <2>4. new.concept = old.concept /\ new.by = old.by /\ (new.status = "verified" => old.status = "verified")
    BY <2>1, <2>2, <2>3, FlushedTyped
  <2>5. /\ DOMAIN variants' = DOMAIN variants /\ variants'[cur[s].row] = new
        /\ \A i \in DOMAIN variants : i # cur[s].row => variants'[i] = variants[i]
    BY <1>2, RowsKept
  <2> HIDE DEF new
  <2>6. ASSUME NEW c, NEW i \in Made(c)' PROVE i \in Made(c)
    BY <2>1, <2>4, <2>5, <2>6 DEF Made
  <2> QED BY <2>6
<1>3. CASE Adds(s)
  <2>1. /\ DOMAIN variants' = DOMAIN variants \cup {Len(variants) + 1}
        /\ variants'[Len(variants) + 1] = cur[s].now
        /\ \A i \in DOMAIN variants : variants'[i] = variants[i]
    BY <1>3, RowsKept
  <2>2. command[s] \in {"generate", "job"} /\ step[s] = "save"
    BY <1>3 DEF Adds
  <2>3. /\ cur[s].base = V!Fresh(cur[s].base.concept, command[s])
        /\ cur[s].now.concept = cur[s].base.concept /\ cur[s].now.by = cur[s].base.by
    BY <2>2 DEF TaskInv, TasksOf, InHand, Busy
  <2>4. cur[s].now.by = command[s]
    BY <2>3 DEF V!Fresh
  <2>5. ASSUME NEW c, NEW i \in Made(c)'
        PROVE  \/ i \in Made(c)
               \/ i = Len(variants) + 1 /\ c = cur[s].base.concept /\ command[s] = "generate"
    BY <2>1, <2>3, <2>4, <2>5 DEF Made
  <2> QED BY <1>3, <2>2, <2>5
<1> QED BY <1>1, <1>2, <1>3, RowsChange

(* generate adds one only for a concept that has none.                     *)
LEMMA SingleKept ==
    ASSUME NEW s \in Slots, VTypes, ControlInv, TaskInv, SingleInv, Does(s), Alone("generate")'
    PROVE  SingleInv'
<1>1. ASSUME NEW c, NEW i \in Made(c)', NEW j \in Made(c)' PROVE i = j
  <2>1. CASE Made(c)' \subseteq Made(c)
    BY <1>1, <2>1 DEF SingleInv
  <2>2. CASE Adds(s) /\ command[s] = "generate" /\ c = cur[s].base.concept /\ Made(c)' \subseteq Made(c) \cup {Len(variants) + 1}
    <3>1. Made(c) = {}
      BY <2>2 DEF Adds, SingleInv, Busy
    <3> QED BY <1>1, <2>2, <3>1
  <2> QED BY <2>1, <2>2, MadeGrows
<1>2. ASSUME NEW t \in Slots, command'[t] = "generate", Busy(t)'
      PROVE  Made(cur[t].base.concept)' = {}
  <2>1. CASE t # s
    <3>1. command[t] = "generate" /\ Busy(t) /\ cur'[t] = cur[t] /\ command'[s] # "generate"
      BY <1>2, <2>1, OthersStay DEF Busy, Alone
    <3>2. ~(Adds(s) /\ command[s] = "generate")
      BY <3>1 DEF Adds
    <3>3. Made(cur[t].base.concept) = {}
      BY <3>1 DEF SingleInv
    <3>4. \A c : Made(c)' \subseteq Made(c)
      BY <3>2, MadeGrows
    <3>5. Made(cur[t].base.concept)' \subseteq Made(cur[t].base.concept)
      BY <3>1, <3>4 DEF Made
    <3> QED BY <3>3, <3>5
  <2>2. CASE t = s
    <3>1. ~Adds(s) /\ step'[s] # "take"
      BY <1>2, <2>2 DEF Adds, Busy
    <3>2. \A c : Made(c)' \subseteq Made(c)
      BY <3>1, MadeGrows
    <3>3. ASSUME NEW task \in work[s], V!Take(s, task) PROVE Made(cur[s].base.concept)' = {}
      <4>1. cur'[s] = task /\ command[s] = "generate" /\ V!Verified(task.base.concept) = {}
        BY <1>2, <2>2, <3>1, <3>3 DEF V!Take, V!Goto, VTypes
      <4>2. Made(task.base.concept) = {}
        BY <4>1 DEF Made, V!Verified
      <4>3. Made(cur[s].base.concept)' \subseteq Made(task.base.concept)
        BY <3>2, <4>1 DEF Made
      <4> QED BY <4>2, <4>3
    <3>4. ASSUME NEW code \in Programs, V!Solve(s, code) PROVE Made(cur[s].base.concept)' = {}
      <4>1. cur'[s].base = cur[s].base /\ Busy(s) /\ command[s] = "generate"
        BY <1>2, <2>2, <3>4, SolveDoes DEF V!Solve, Busy
      <4>2. Made(cur[s].base.concept) = {}
        BY <4>1 DEF SingleInv
      <4>3. Made(cur[s].base.concept)' \subseteq Made(cur[s].base.concept)
        BY <3>2, <4>1 DEF Made
      <4> QED BY <4>2, <4>3
    <3>5. ASSUME \A task \in work[s] : ~V!Take(s, task), \A code \in Programs : ~V!Solve(s, code)
          PROVE  step'[s] = "take" \/ command'[s] # "generate"
      BY <3>5, IdleTakes, EndDoes DEF Does, V!StartGenerate, V!StartReverify, V!Begin, V!Save, V!Finish,
            V!Cut, V!StartRender, V!WriteCode, V!WriteHandout, V!WriteManual, V!StopRender, V!Goto,
            VTypes, ControlInv, Rendering
    <3> QED BY <1>2, <2>2, <3>1, <3>3, <3>4, <3>5
  <2> QED BY <2>1, <2>2
<1> QED BY <1>1, <1>2 DEF SingleInv

-----------------------------------------------------------------------------
(* Files that belong together.                                             *)

HandoutHas(m) == handout = [i \in DOMAIN m |-> m[i].row]

(* The programs that a render has written are in their files.              *)
Written(s) == \A i \in 1 .. wrote[s] : i \in DOMAIN folder /\ folder[i] = pages[s][i].code

(* The other files are still those of the manual.                          *)
Unwritten(s) ==
    \A i \in DOMAIN manual :
        /\ i \in DOMAIN folder
        /\ i \notin 1 .. wrote[s] => folder[i] = manual[i].code

(* While torn is FALSE: the files agree with the manual but for those that *)
(* the one render under way has written; these agree with its own.         *)
FilesInv ==
    /\ \A s, t \in Slots : Rendering(s) /\ Rendering(t) => s = t
    /\ FolderHas(manual) \/ \E s \in Slots : Rendering(s) /\ wrote[s] > 0
    /\ HandoutHas(manual) \/ \E s \in Slots : step[s] = "manual"
    /\ \A s \in Slots :
         /\ ~Rendering(s) => wrote[s] = 0
         /\ step[s] = "code" => Written(s) /\ Unwritten(s)
         /\ step[s] \in {"handout", "manual"} => wrote[s] > 0 /\ FolderHas(pages[s])
         /\ step[s] = "manual" => HandoutHas(pages[s])

(* A render that ends before its manual is written, with another file of   *)
(* it written, is torn.                                                    *)
Tears(s) ==
    /\ Ends(s) /\ wrote[s] > 0
    /\ manual' = manual /\ manual # pages[s]

(* Every step keeps the files as FilesInv says.                            *)
LEMMA FilesKept ==
    ASSUME NEW s \in Slots, VTypes, ControlInv, ControlInv', FilesInv, Does(s),
           Alone("render")', ~Tears(s)
    PROVE  FilesInv'
<1>0. /\ \A t \in Slots : t # s => step'[t] = step[t] /\ pages'[t] = pages[t] /\ wrote'[t] = wrote[t]
      /\ \A t \in Slots : Rendering(t)' <=> command'[t] = "render"
      /\ \A t \in Slots : t # s => Rendering(t)' = Rendering(t)
      /\ s \in DOMAIN step /\ wrote[s] \in Nat
  BY OthersStay DEF ControlInv, VTypes, Rendering
<1>1. \A t, u \in Slots : Rendering(t)' /\ Rendering(u)' => t = u
  BY <1>0 DEF Alone
<1>2. CASE V!WriteCode(s)
  <2> DEFINE i == wrote[s] + 1
  <2>1. /\ i \in 1 .. Len(pages[s]) /\ DOMAIN pages[s] = 1 .. Len(pages[s])
        /\ folder' = [j \in DOMAIN folder \cup {i} |-> IF j = i THEN pages[s][i].code ELSE folder[j]]
        /\ wrote'[s] = i
        /\ step'[s] = IF i = Len(pages[s]) THEN "handout" ELSE "code"
    BY <1>2, WriteCodeDoes
  <2>2. step[s] = "code" /\ pages' = pages /\ manual' = manual /\ handout' = handout
    BY <1>2 DEF V!WriteCode
  <2>3. Written(s) /\ Unwritten(s)
    BY <2>2 DEF FilesInv
  <2>4. i > 0 /\ 1 .. i = 1 .. wrote[s] \cup {i} /\ i \notin 1 .. wrote[s]
    BY <1>0
  <2> HIDE DEF i
  <2>5. /\ DOMAIN folder' = DOMAIN folder \cup {i} /\ folder'[i] = pages[s][i].code
        /\ \A j \in DOMAIN folder : j # i => folder'[j] = folder[j]
    BY <2>1
  <2>6. \A j \in 1 .. i : j \in DOMAIN folder' /\ folder'[j] = pages[s][j].code
    BY <2>3, <2>4, <2>5 DEF Written
  <2>7. Written(s)'
    BY <2>1, <2>2, <2>6 DEF Written
  <2>8. Unwritten(s)'
    BY <2>1, <2>2, <2>3, <2>4, <2>5 DEF Unwritten
  <2>9. step'[s] = "handout" => FolderHas(pages[s])'
    BY <2>1, <2>2, <2>6 DEF FolderHas
  <2>10. step'[s] \in {"code", "handout"} /\ wrote'[s] > 0 /\ Rendering(s)'
    BY <2>1, <2>4 DEF Rendering
  <2>11. \A t \in Slots : t # s => ~Rendering(t) /\ ~Rendering(t)'
    BY <1>0, <1>1, <2>10
  <2>12. \A t \in Slots : t # s => wrote'[t] = 0 /\ step'[t] \notin {"code", "handout", "manual"}
    BY <1>0, <2>11 DEF FilesInv, Rendering
  <2>13. \A t \in Slots : step[t] # "manual"
    BY <2>2, <2>11 DEF Rendering
  <2>14. HandoutHas(manual)'
    BY <2>2, <2>13 DEF FilesInv, HandoutHas
  <2> QED BY <1>1, <2>7, <2>8, <2>9, <2>10, <2>12, <2>14 DEF FilesInv
<1>3. CASE V!WriteHandout(s)
  <2>1. /\ step[s] = "handout" /\ step'[s] = "manual" /\ pages' = pages /\ manual' = manual
        /\ folder' = folder /\ wrote' = wrote
        /\ handout' = [i \in DOMAIN pages[s] |-> pages[s][i].row]
    BY <1>3 DEF V!WriteHandout, V!Goto, VTypes
  <2>2. FolderHas(pages[s])' /\ HandoutHas(pages[s])' /\ wrote'[s] > 0 /\ Rendering(s)'
    BY <2>1 DEF FilesInv, FolderHas, HandoutHas, Rendering
  <2>3. \A t \in Slots : t # s => ~Rendering(t) /\ ~Rendering(t)'
    BY <1>0, <1>1, <2>2
  <2>4. \A t \in Slots : t # s => wrote'[t] = 0 /\ step'[t] \notin {"code", "handout", "manual"}
    BY <1>0, <2>3 DEF FilesInv, Rendering
  <2> QED BY <1>1, <2>1, <2>2, <2>4 DEF FilesInv
<1>4. CASE V!WriteManual(s)
  <2>1. /\ step[s] = "manual" /\ step'[s] = "take" /\ manual' = pages[s]
        /\ folder' = folder /\ handout' = handout /\ wrote'[s] = 0
    BY <1>4, EndDoes DEF V!WriteManual
  <2>2. FolderHas(pages[s]) /\ HandoutHas(pages[s])
    BY <2>1 DEF FilesInv
  <2>3. FolderHas(manual)' /\ HandoutHas(manual)'
    BY <2>1, <2>2 DEF FolderHas, HandoutHas
  <2>4. \A t \in Slots : t # s => wrote'[t] = 0 /\ step'[t] \notin {"code", "handout", "manual"}
    BY <1>0, <2>1 DEF FilesInv, Rendering
  <2> QED BY <1>1, <2>1, <2>3, <2>4 DEF FilesInv
<1>5. CASE V!End(s) /\ ~V!WriteManual(s)
  <2>1. /\ step'[s] = "take" /\ wrote'[s] = 0 /\ UNCHANGED <<folder, handout, manual>>
        /\ command'[s] = "idle"
    BY <1>5, EndDoes DEF Does, V!StartGenerate, V!StartReverify, V!Take, V!Solve, V!Save, V!Finish,
          V!Cut, V!StartRender, V!WriteCode, V!WriteHandout, V!StopRender, V!files, V!End, V!Goto,
          V!Begin, VTypes
  <2>2. \A m : FolderHas(m)' = FolderHas(m) /\ HandoutHas(m)' = HandoutHas(m)
    BY <2>1 DEF FolderHas, HandoutHas
  <2>3. \A t \in Slots : t # s /\ Rendering(s) => ~Rendering(t)
    BY DEF FilesInv
  <2>4. Rendering(s) /\ wrote[s] > 0 => manual = pages[s]
    BY <2>1 DEF Tears, Ends, ControlInv
  <2>5. FolderHas(manual) \/ \E t \in Slots : t # s /\ Rendering(t) /\ wrote[t] > 0
    <3>1. CASE ~Rendering(s) \/ ~(wrote[s] > 0)
      BY <3>1 DEF FilesInv
    <3>2. CASE Rendering(s) /\ wrote[s] > 0 /\ step[s] \in {"handout", "manual"}
      BY <2>4, <3>2 DEF FilesInv
    <3>3. CASE Rendering(s) /\ wrote[s] > 0 /\ step[s] = "code"
      <4>1. Written(s) /\ Unwritten(s) /\ manual = pages[s]
        BY <2>4, <3>3 DEF FilesInv
      <4> QED BY <4>1 DEF Written, Unwritten, FolderHas
    <3> QED BY <3>1, <3>2, <3>3 DEF Rendering
  <2>6. HandoutHas(manual) \/ \E t \in Slots : t # s /\ step[t] = "manual"
    <3>1. CASE step[s] = "manual"
      <4>1. manual = pages[s] /\ HandoutHas(pages[s])
        BY <2>4, <3>1 DEF FilesInv, Rendering
      <4> QED BY <4>1
    <3> QED BY <3>1 DEF FilesInv
  <2>7. FolderHas(manual)' \/ \E t \in Slots : Rendering(t)' /\ wrote'[t] > 0
    BY <1>0, <2>1, <2>2, <2>5 DEF FolderHas
  <2>8. HandoutHas(manual)' \/ \E t \in Slots : step'[t] = "manual"
    BY <1>0, <2>1, <2>2, <2>6 DEF HandoutHas
  <2>9. ASSUME NEW t \in Slots
        PROVE  /\ ~Rendering(t)' => wrote'[t] = 0
               /\ step'[t] = "code" => Written(t)' /\ Unwritten(t)'
               /\ step'[t] \in {"handout", "manual"} => wrote'[t] > 0 /\ FolderHas(pages[t])'
               /\ step'[t] = "manual" => HandoutHas(pages[t])'
    <3>1. CASE t = s
      BY <2>1, <3>1
    <3>2. CASE t # s
      BY <1>0, <2>1, <3>2 DEF FilesInv, FolderHas, HandoutHas, Written, Unwritten
    <3> QED BY <3>1, <3>2
  <2> QED BY <1>1, <2>7, <2>8, <2>9 DEF FilesInv
<1>6. CASE ~V!WriteCode(s) /\ ~V!WriteHandout(s) /\ ~V!WriteManual(s) /\ ~V!End(s)
  <2>1. /\ UNCHANGED <<folder, handout, manual>> /\ wrote' = wrote
        /\ step'[s] \notin {"handout", "manual"} /\ ~Rendering(s)
    BY <1>6, IdleTakes DEF Does, V!StartGenerate, V!StartReverify, V!Take, V!Solve, V!Save, V!Finish,
          V!Cut, V!StartRender, V!StopRender, V!files, V!Goto, V!Begin, VTypes, ControlInv, Rendering
  <2>2. wrote'[s] = 0
    BY <2>1 DEF FilesInv
  <2>3. FolderHas(manual)' = FolderHas(manual) /\ HandoutHas(manual)' = HandoutHas(manual)
    BY <2>1 DEF FolderHas, HandoutHas
  <2>4. FolderHas(manual)' \/ \E t \in Slots : Rendering(t)' /\ wrote'[t] > 0
    BY <1>0, <2>1, <2>3 DEF FilesInv
  <2>5. HandoutHas(manual)' \/ \E t \in Slots : step'[t] = "manual"
    BY <1>0, <2>1, <2>3 DEF FilesInv, Rendering
  <2>6. ASSUME step'[s] = "code" PROVE Written(s)' /\ Unwritten(s)'
    <3>1. \A t \in Slots : t # s => ~Rendering(t)
      BY <1>0, <1>1, <2>6 DEF Rendering
    <3>2. FolderHas(manual)
      BY <2>1, <3>1 DEF FilesInv
    <3> QED BY <2>1, <2>2, <3>2 DEF FolderHas, Written, Unwritten
  <2>7. ASSUME NEW t \in Slots
        PROVE  /\ ~Rendering(t)' => wrote'[t] = 0
               /\ step'[t] = "code" => Written(t)' /\ Unwritten(t)'
               /\ step'[t] \in {"handout", "manual"} => wrote'[t] > 0 /\ FolderHas(pages[t])'
               /\ step'[t] = "manual" => HandoutHas(pages[t])'
    <3>1. CASE t = s
      BY <2>1, <2>2, <2>6, <3>1
    <3>2. CASE t # s
      BY <1>0, <2>1, <3>2 DEF FilesInv, FolderHas, HandoutHas, Written, Unwritten
    <3> QED BY <3>1, <3>2
  <2> QED BY <1>1, <2>4, <2>5, <2>7 DEF FilesInv
<1> QED BY <1>2, <1>3, <1>4, <1>5, <1>6

-----------------------------------------------------------------------------
(* The invariant of the whole.                                             *)

PracticeInv ==
    /\ phase # "handed" => TypeOK
    /\ VTypes
    /\ ControlInv
    /\ TaskInv
    /\ ~mixed => SoundInv
    /\ ~doubled => SingleInv
    /\ ~torn => FilesInv

(* The invariants are about the commands, not about the selection.         *)
LEMMA Unmoved ==
    ASSUME UNCHANGED <<variants, folder, handout, manual, starts, command, step, work, cur, pages, wrote>>
    PROVE  /\ ControlInv => ControlInv'
           /\ TaskInv => TaskInv'
           /\ SoundInv => SoundInv'
           /\ SingleInv => SingleInv'
           /\ FilesInv => FilesInv'
<1>1. \A s \in Slots : Busy(s)' = Busy(s) /\ InHand(s)' = InHand(s) /\ Rendering(s)' = Rendering(s)
  BY DEF Busy, InHand, Rendering
<1>2. \A code, answer : Sound(code, answer)' = Sound(code, answer)
  BY DEF Sound
<1>3. ControlInv => ControlInv'
  BY <1>1 DEF ControlInv
<1>4. TaskInv => TaskInv'
  <2>1. \A s \in Slots : TasksOf(s) => TasksOf(s)'
    BY <1>1, <1>2 DEF TasksOf
  <2> QED BY <2>1 DEF TaskInv, TasksOf
<1>5. SoundInv => SoundInv'
  <2>1. \A s \in Slots : MemoryOf(s)' = MemoryOf(s)
    BY <1>1 DEF MemoryOf
  <2>2. /\ \A ps : PagesSound(ps)' = PagesSound(ps)
        /\ RowsSound => RowsSound'
        /\ Alone("reverify") => Alone("reverify")'
    BY <1>2 DEF PagesSound, RowsSound, Alone
  <2> QED BY <2>1, <2>2 DEF SoundInv
<1>6. SingleInv => SingleInv'
  BY <1>1 DEF SingleInv, Made, Alone
<1>7. FilesInv => FilesInv'
  BY <1>1 DEF FilesInv, FolderHas, HandoutHas, Written, Unwritten
<1> QED BY <1>3, <1>4, <1>5, <1>6, <1>7

(* Nor do the types change with it, but for the set handed over.           *)
LEMMA TypesUnmoved ==
    ASSUME VTypes, chosen' \in SUBSET Concepts,
           UNCHANGED <<variants, folder, handout, manual, starts, command, step, work, cur, pages, wrote>>
    PROVE  VTypes'
BY DEF VTypes

(* The invariant holds in every state (cli/main.py, reverify.py,           *)
(* render.py).                                                             *)
THEOREM PracticeInvariance == PracticeSpec => []PracticeInv
<1>1. PracticeInit => PracticeInv
  <2> SUFFICES ASSUME PracticeInit PROVE PracticeInv
    OBVIOUS
  <2>1. TypeOK /\ V!Init
    BY InitTyped DEF PracticeInit
  <2>2. VTypes
    BY <2>1, EmptySeq, Constants DEF V!Init, VTypes
  <2>3. /\ \A s \in Slots : command[s] = "idle" /\ step[s] = "take" /\ work[s] = {} /\ pages[s] = << >> /\ wrote[s] = 0
        /\ variants = << >> /\ folder = << >> /\ handout = << >> /\ manual = << >>
    BY <2>1 DEF V!Init
  <2>4. ControlInv /\ TaskInv
    BY <2>3 DEF ControlInv, TaskInv, TasksOf, InHand, Busy, Rendering
  <2>5. SoundInv
    BY <2>3 DEF SoundInv, Alone, MemoryOf, RowsSound, PagesSound
  <2>6. SingleInv
    BY <2>3 DEF SingleInv, Alone, Made
  <2>7. FilesInv
    BY <2>3 DEF FilesInv, Rendering, FolderHas, HandoutHas
  <2> QED BY <2>1, <2>2, <2>4, <2>5, <2>6, <2>7 DEF PracticeInv
<1>2. PracticeInv /\ [PracticeNext]_<<vars, vvars, ghosts>> => PracticeInv'
  <2> SUFFICES ASSUME PracticeInv, [PracticeNext]_<<vars, vvars, ghosts>> PROVE PracticeInv'
    OBVIOUS
  <2>1. CASE [Next]_vars /\ UNCHANGED <<vvars, ghosts>>
    <3>1. phase' # "handed" => TypeOK'
      <4>1. phase' # "handed" => phase # "handed"
        BY <2>1 DEF Next, Refuse, Gather, Consider, NextPass, vars, Passes, Tiers
      <4> QED BY <2>1, <4>1, StepTyped DEF PracticeInv
    <3>2. VTypes'
      BY <2>1, TypesUnmoved DEF PracticeInv, vvars, VTypes
    <3> QED BY <2>1, <3>1, <3>2, Unmoved DEF PracticeInv, vvars, ghosts
  <2>2. CASE Hand /\ UNCHANGED ghosts
    <3>1. chosen' \in SUBSET Concepts /\ phase' = "handed"
      BY <2>2 DEF Hand, PracticeInv, TypeOK
    <3>2. VTypes'
      BY <2>2, <3>1, TypesUnmoved DEF PracticeInv, Hand
    <3> QED BY <2>2, <3>1, <3>2, Unmoved DEF PracticeInv, Hand, ghosts
  <2>3. CASE /\ phase = "handed"
             /\ V!Next
             /\ doubled' = (doubled \/ Together("generate"))
             /\ mixed' = (mixed \/ Together("reverify")
                                \/ \E s \in Slots : Ends(s) /\ variants' # variants)
             /\ torn' = (torn \/ Together("render")
                              \/ \E s \in Slots : /\ Ends(s) /\ wrote[s] > 0
                                                  /\ manual' = manual /\ manual # pages[s])
             /\ UNCHANGED vars
    <3>1. PICK s \in Slots : Does(s)
      BY <2>3, SlotDoes
    <3>2. VTypes' /\ ControlInv' /\ TaskInv'
      BY <3>1, VTyped, ControlKept, TasksKept DEF PracticeInv
    <3>3. \A c : ~Together(c) => Alone(c)'
      BY DEF Together, Alone
    <3>4. ASSUME ~mixed' PROVE SoundInv'
      <4>1. ~mixed /\ ~Together("reverify") /\ ~(Ends(s) /\ variants' # variants)
        BY Zenon, <2>3, <3>4
      <4>2. SoundInv /\ Alone("reverify")'
        BY <3>3, <4>1 DEF PracticeInv
      <4>3. RowsSound'
        BY <3>1, <4>1, <4>2, RowsSoundKept DEF PracticeInv
      <4>4. \A t \in Slots : MemoryOf(t)' /\ PagesSound(pages[t])' /\ PagesSound(manual)'
        BY <3>1, <4>2, MemoryKept, PagesSoundKept DEF PracticeInv
      <4> QED BY <4>2, <4>3, <4>4 DEF SoundInv
    <3>5. ASSUME ~doubled' PROVE SingleInv'
      <4>1. ~doubled /\ ~Together("generate")
        BY Zenon, <2>3, <3>5
      <4> QED BY <3>1, <3>3, <4>1, SingleKept DEF PracticeInv
    <3>6. ASSUME ~torn' PROVE FilesInv'
      <4>1. ~torn /\ ~Together("render") /\ ~Tears(s)
        BY Zenon, <2>3, <3>6 DEF Tears
      <4> QED BY <3>1, <3>2, <3>3, <4>1, FilesKept DEF PracticeInv
    <3>7. phase' = "handed"
      BY <2>3 DEF vars
    <3> QED BY <3>2, <3>4, <3>5, <3>6, <3>7 DEF PracticeInv
  <2>4. CASE UNCHANGED <<vars, vvars, ghosts>>
    BY <2>1, <2>4
  <2> QED BY <2>1, <2>2, <2>3, <2>4 DEF PracticeNext
<1> QED BY <1>1, <1>2, PTL DEF PracticeSpec

(* Type correctness of what the commands work on.                          *)
THEOREM PracticeTypes == PracticeSpec => [](VTypes /\ V!TypeOK)
<1>1. PracticeInv => VTypes /\ V!TypeOK
  BY TypesAgain DEF PracticeInv
<1> QED BY <1>1, PracticeInvariance, PTL

(* The answer of a verified variant is what its own program printed in a   *)
(* run to its end, over any number of generations, jobs, re-verifications  *)
(* and interruptions, unless runs of run_reverify overlapped or were cut   *)
(* short and committed (codegen.py:87-128, reverify.py:58-78).             *)
THEOREM AnswersFromTheirCode == PracticeSpec => []AnswerIsFromItsCode
<1>1. PracticeInv => AnswerIsFromItsCode
  BY DEF PracticeInv, SoundInv, RowsSound, AnswerIsFromItsCode
<1> QED BY <1>1, PracticeInvariance, PTL

(* Unless two generate commands overlapped, none leaves a second verified  *)
(* variant of a concept, though run_reverify may fail the first while a    *)
(* second one that read it as verified is still to write it: a row is      *)
(* never verified again (cli/main.py:221-230, reverify.py:58-78).          *)
THEOREM OneVerified == PracticeSpec => []OneVerifiedPerConcept
<1>1. PracticeInv => OneVerifiedPerConcept
  BY DEF PracticeInv, SingleInv, Made, OneVerifiedPerConcept
<1> QED BY <1>1, PracticeInvariance, PTL

(* When no render is under way, program files, handout and manual are of   *)
(* one set, each problem with its own program and its own answer,          *)
(* whatever was done to the rows meanwhile, unless renders overlapped or   *)
(* one was stopped between its files (render.py:355-404).                  *)
THEOREM FilesAgree == PracticeSpec => []RenderedFilesAgree
<1>1. ASSUME PracticeInv PROVE RenderedFilesAgree
  <2>1. ASSUME ~torn, \A s \in Slots : command[s] # "render"
        PROVE  FolderHas(manual) /\ HandoutHas(manual)
    <3>1. \A s \in Slots : ~Rendering(s)
      BY <1>1, <2>1 DEF PracticeInv, ControlInv
    <3> QED BY <1>1, <2>1, <3>1 DEF PracticeInv, FilesInv, Rendering
  <2>2. ASSUME ~mixed PROVE PagesSound(manual)
    BY <1>1, <2>2 DEF PracticeInv, SoundInv
  <2> QED BY <2>1, <2>2 DEF FolderHas, HandoutHas, PagesSound, RenderedFilesAgree
<1> QED BY <1>1, PracticeInvariance, PTL

-----------------------------------------------------------------------------
(* Verdicts on answers.                                                    *)

(* A set of naturals has a least one.                                      *)
LEMMA LeastExists ==
    ASSUME NEW S \in SUBSET Nat, S # {}
    PROVE  \E m \in S : \A k \in S : m <= k
<1> DEFINE R == StrictSubsetOrdering(Nat)
           F == {0 .. n : n \in S}
<1>1. IsWellFoundedOn(R, FiniteSubsetsOf(Nat))
  BY FS_StrictSubsetOrderingWellFounded
<1>2. F \subseteq FiniteSubsetsOf(Nat) /\ F # {}
  <2>1. \A n \in Nat : 0 .. n \in SUBSET Nat /\ IsFiniteSet(0 .. n)
    BY FS_Interval
  <2> QED BY <2>1 DEF FiniteSubsetsOf
<1> HIDE DEF R
<1>3. PICK X \in F : \A Y \in F : ~ (<<Y, X>> \in R)
  <2> HIDE DEF F
  <2> QED BY <1>1, <1>2, WFMin
<1>4. PICK m \in S : X = 0 .. m
  OBVIOUS
<1>5. ASSUME NEW k \in S, k < m PROVE FALSE
  <2>1. 0 .. k \in F /\ 0 .. k \subseteq 0 .. m /\ m \in 0 .. m /\ m \notin 0 .. k
    BY <1>5
  <2>2. <<0 .. k, 0 .. m>> \in R
    BY <2>1 DEF R, StrictSubsetOrdering
  <2> QED BY <1>3, <1>4, <2>1, <2>2
<1> QED BY <1>5

(* Min is the least one.                                                   *)
LEMMA MinIsLeast ==
    ASSUME NEW S \in SUBSET Nat, S # {}
    PROVE  Min(S) \in S /\ \A k \in S : Min(S) <= k
BY LeastExists DEF Min

(* Max is the greatest one.                                                *)
LEMMA MaxIs ==
    ASSUME NEW S \in SUBSET Int, NEW m \in S, \A k \in S : k <= m
    PROVE  Max(S) = m
<1>1. \A x \in S : (\A y \in S : x >= y) => x = m
  OBVIOUS
<1>2. \A y \in S : m >= y
  OBVIOUS
<1> QED BY <1>1, <1>2 DEF Max

(* Multiplication keeps the order, and so does division.                   *)
LEMMA Times ==
    ASSUME NEW x \in Nat, NEW y \in Nat, NEW z \in Nat, x <= y
    PROVE  x * z <= y * z
OBVIOUS

LEMMA Over ==
    ASSUME NEW x \in Nat, NEW y \in Nat, NEW z \in Nat \ {0}, x * z <= y * z
    PROVE  x <= y
OBVIOUS

(* Ratios, compared without division, are in an order.                     *)
LEMMA Ratios ==
    ASSUME NEW a \in Nat, NEW b \in Nat, NEW c \in Nat,
           NEW p \in Nat \ {0}, NEW q \in Nat \ {0}, NEW r \in Nat \ {0},
           a * q <= b * p, b * r <= c * q
    PROVE  a * r <= c * p
<1>1. /\ a * q \in Nat /\ b * p \in Nat /\ b * r \in Nat
      /\ c * q \in Nat /\ a * r \in Nat /\ c * p \in Nat
  OBVIOUS
<1>2. (a * q) * r <= (b * p) * r /\ (b * r) * p <= (c * q) * p
  BY <1>1, Times
<1>3. (a * q) * r = (a * r) * q /\ (b * p) * r = (b * r) * p /\ (c * q) * p = (c * p) * q
  OBVIOUS
<1>4. (a * r) * q <= (c * p) * q
  <2>1. (a * q) * r \in Nat /\ (b * p) * r \in Nat /\ (c * q) * p \in Nat
    BY <1>1
  <2> QED BY <1>2, <1>3, <2>1
<1> QED BY <1>1, <1>4, Over

(* A value that was read is a number.                                      *)
Number(ref) == ToSI(ref) \in Int

(* The distance of two numbers.                                            *)
LEMMA Distance == ASSUME NEW x \in Int, NEW y \in Int PROVE Abs(x - y) \in Nat /\ Abs(x) \in Nat
BY DEF Abs

(* Among some results there is a nearest one.                              *)
LEMMA NearestIs ==
    ASSUME NEW solver \in Seq(Int), NEW unused \in SUBSET DOMAIN solver, unused # {},
           NEW ref, Number(ref)
    PROVE  /\ Nearest(solver, unused, ref) \in unused
           /\ Comparable(ref) =>
                \A j \in unused : Abs(solver[Nearest(solver, unused, ref)] - ToSI(ref))
                                    <= Abs(solver[j] - ToSI(ref))
<1> DEFINE off(i) == Abs(solver[i] - ToSI(ref))
           Offs == {off(i) : i \in unused}
           near == {i \in unused : \A j \in unused : off(i) <= off(j)}
<1>1. DOMAIN solver \in SUBSET Nat /\ \A i \in DOMAIN solver : solver[i] \in Int
  OBVIOUS
<1>2. \A i \in unused : off(i) \in Nat
  BY <1>1, Distance DEF Number
<1>3. Offs \in SUBSET Nat /\ Offs # {}
  BY <1>2
<1>4. PICK d \in Offs : \A e \in Offs : d <= e
  <2> HIDE DEF Offs
  <2> QED BY <1>3, LeastExists
<1>5. near # {}
  <2> HIDE DEF off
  <2> QED BY <1>4
<1>6. near \in SUBSET Nat /\ unused \in SUBSET Nat
  BY <1>1
<1>7. CASE Comparable(ref)
  <2>1. Nearest(solver, unused, ref) = Min(near)
    BY <1>7 DEF Nearest
  <2>2. Min(near) \in near
    <3> HIDE DEF near
    <3> QED BY <1>5, <1>6, MinIsLeast
  <2> QED BY <2>1, <2>2
<1>8. CASE ~ Comparable(ref)
  <2>1. Nearest(solver, unused, ref) = Min(unused)
    BY <1>8 DEF Nearest
  <2> QED BY <1>6, <1>8, <2>1, MinIsLeast
<1> QED BY <1>7, <1>8

(* One turn of the loop of _match_book_values_to_solver.                   *)
Taken(acc, ref, solver) ==
    IF acc.unused = {} THEN [acc EXCEPT !.matched = FALSE]
    ELSE [unused  |-> acc.unused \ {Nearest(solver, acc.unused, ref)},
          matched |-> /\ acc.matched
                      /\ Confirms(solver[Nearest(solver, acc.unused, ref)], ref)]

Untaken(solver) == [unused |-> DOMAIN solver, matched |-> TRUE]

(* What Match folds: what comes of every set of values, the last one last. *)
Unfolds(f, solver, refs, places) ==
    f = [s \in SUBSET places |->
            IF s = {} THEN Untaken(solver)
            ELSE Taken(f[s \ {Max(s)}], refs[Max(s)], solver)]

(* One value more.                                                         *)
LEMMA UnfoldsOn ==
    ASSUME NEW solver, NEW refs, NEW m \in Nat \ {0}, NEW g, Unfolds(g, solver, refs, 1 .. m - 1)
    PROVE  \E f : Unfolds(f, solver, refs, 1 .. m)
<1> DEFINE f == [s \in SUBSET (1 .. m) |->
                    IF m \in s THEN Taken(g[s \ {m}], refs[m], solver) ELSE g[s]]
<1>1. \A s \in SUBSET (1 .. m - 1) : /\ s \in SUBSET (1 .. m) /\ m \notin s /\ f[s] = g[s]
  OBVIOUS
<1>2. ASSUME NEW s \in SUBSET (1 .. m)
      PROVE  f[s] = IF s = {} THEN Untaken(solver)
                    ELSE Taken(f[s \ {Max(s)}], refs[Max(s)], solver)
  <2>1. CASE m \in s
    <3>1. Max(s) = m
      <4>1. s \in SUBSET Int /\ \A k \in s : k <= m
        OBVIOUS
      <4> QED BY <2>1, <4>1, MaxIs
    <3>2. s \ {m} \in SUBSET (1 .. m - 1)
      OBVIOUS
    <3>3. f[s] = Taken(g[s \ {m}], refs[m], solver)
      BY <2>1
    <3>4. f[s \ {m}] = g[s \ {m}]
      BY <1>1, <3>2
    <3> HIDE DEF f
    <3> QED BY <2>1, <3>1, <3>3, <3>4
  <2>2. CASE m \notin s
    <3>1. s \in SUBSET (1 .. m - 1) /\ s \ {Max(s)} \in SUBSET (1 .. m - 1)
      <4>1. \A k \in s : k \in 1 .. m - 1
        BY <2>2
      <4> QED BY <4>1, Zenon
    <3>2. f[s] = g[s] /\ f[s \ {Max(s)}] = g[s \ {Max(s)}]
      BY <1>1, <3>1
    <3>3. g[s] = IF s = {} THEN Untaken(solver)
                 ELSE Taken(g[s \ {Max(s)}], refs[Max(s)], solver)
      BY <3>1, Zenon DEF Unfolds
    <3> HIDE DEF f
    <3> QED BY <3>2, <3>3
  <2> QED BY <2>1, <2>2
<1>3. f = [s \in SUBSET (1 .. m) |-> f[s]]
  OBVIOUS
<1> HIDE DEF f
<1>4. Unfolds(f, solver, refs, 1 .. m)
  BY <1>2, <1>3, Zenon DEF Unfolds
<1> QED BY <1>4, Zenon

(* The fold exists, so Match is it.                                        *)
LEMMA MatchUnfolds ==
    ASSUME NEW solver, NEW refs, NEW len \in Nat, DOMAIN refs = 1 .. len
    PROVE  \E f : Unfolds(f, solver, refs, 1 .. len) /\ Match(solver, refs) = f[1 .. len].matched
<1> DEFINE Lacks == {k \in Nat : ~ \E f : Unfolds(f, solver, refs, 1 .. k)}
           it == CHOOSE f : Unfolds(f, solver, refs, 1 .. len)
<1>1. Lacks = {}
  <2> SUFFICES ASSUME Lacks # {} PROVE FALSE
    OBVIOUS
  <2>1. PICK m \in Lacks : \A k \in Lacks : m <= k
    <3> HIDE DEF Lacks
    <3>1. Lacks \in SUBSET Nat
      BY DEF Lacks
    <3> QED BY <3>1, LeastExists
  <2>2. m = 0
    <3> SUFFICES ASSUME m # 0 PROVE FALSE
      OBVIOUS
    <3>1. m \in Nat \ {0} /\ m - 1 \in Nat /\ ~ (m <= m - 1)
      OBVIOUS
    <3>2. m - 1 \notin Lacks
      <4> HIDE DEF Lacks
      <4> QED BY <2>1, <3>1
    <3>3. PICK g : Unfolds(g, solver, refs, 1 .. m - 1)
      BY <3>1, <3>2
    <3> QED BY <2>1, <3>1, <3>3, UnfoldsOn
  <2>3. Unfolds([s \in {{}} |-> Untaken(solver)], solver, refs, 1 .. 0)
    <3>1. SUBSET (1 .. 0) = {{}}
      OBVIOUS
    <3> DEFINE e == [s \in {{}} |-> Untaken(solver)]
    <3>2. e = [s \in {{}} |-> IF s = {} THEN Untaken(solver)
                             ELSE Taken(e[s \ {Max(s)}], refs[Max(s)], solver)]
      OBVIOUS
    <3> HIDE DEF e
    <3> QED BY <3>1, <3>2, Zenon DEF Unfolds, e
  <2> QED BY <2>1, <2>2, <2>3
<1>2. Unfolds(it, solver, refs, 1 .. len)
  <2>1. \E f : Unfolds(f, solver, refs, 1 .. len)
    BY <1>1
  <2> QED BY <2>1, Zenon
<1>3. Match(solver, refs) = it[1 .. len].matched
  BY Zenon DEF Match, FoldLeft, MapThenFoldSet, Taken, Untaken, Unfolds
<1> QED BY <1>2, <1>3

(* Before the first value, and after each one.                             *)
LEMMA UnfoldsFrom ==
    ASSUME NEW solver, NEW refs, NEW len \in Nat, NEW f, Unfolds(f, solver, refs, 1 .. len)
    PROVE  f[1 .. 0] = Untaken(solver)
<1>1. {} \in SUBSET (1 .. len) /\ 1 .. 0 = {}
  OBVIOUS
<1> QED BY <1>1 DEF Unfolds

LEMMA UnfoldsBy ==
    ASSUME NEW solver, NEW refs, NEW len \in Nat, NEW f, Unfolds(f, solver, refs, 1 .. len),
           NEW k \in 1 .. len
    PROVE  f[1 .. k] = Taken(f[1 .. k - 1], refs[k], solver)
<1>1. 1 .. k \in SUBSET (1 .. len)
  OBVIOUS
<1>2. 1 .. k \in SUBSET Int /\ k \in 1 .. k /\ \A j \in 1 .. k : j <= k
  OBVIOUS
<1>3. Max(1 .. k) = k
  BY <1>2, MaxIs
<1>4. (1 .. k) \ {k} = 1 .. k - 1
  OBVIOUS
<1>5. f[1 .. k] = IF 1 .. k = {} THEN Untaken(solver)
                  ELSE Taken(f[(1 .. k) \ {Max(1 .. k)}], refs[Max(1 .. k)], solver)
  BY <1>1, Zenon DEF Unfolds
<1> QED BY <1>2, <1>3, <1>4, <1>5

Records(solver) == [unused : SUBSET DOMAIN solver, matched : BOOLEAN]

(* Each of the first k values has a taken result of its own.               *)
Assigned(g, spent, solver, refs, k) ==
    /\ g \in [1 .. k -> spent]
    /\ \A j, l \in 1 .. k : j # l => g[j] # g[l]
    /\ \A l \in 1 .. k : Confirms(solver[g[l]], refs[l])

(* What is known when the first k values have had their turn.              *)
MatchedSoFar(acc, solver, refs, k) ==
    /\ acc \in Records(solver)
    /\ acc.matched => \E g : Assigned(g, DOMAIN solver \ acc.unused, solver, refs, k)

(* What a turn does to the results that are left.                          *)
LEMMA TakenIs ==
    ASSUME NEW solver \in Seq(Int), NEW ref, Number(ref), NEW acc \in Records(solver)
    PROVE  /\ Taken(acc, ref, solver) \in Records(solver)
           /\ acc.unused = {} => ~ Taken(acc, ref, solver).matched
           /\ acc.unused # {} =>
                LET i == Nearest(solver, acc.unused, ref) IN
                /\ i \in acc.unused
                /\ Taken(acc, ref, solver).unused = acc.unused \ {i}
                /\ Taken(acc, ref, solver).matched <=> acc.matched /\ Confirms(solver[i], ref)
<1>1. /\ acc.unused \in SUBSET DOMAIN solver /\ acc.matched \in BOOLEAN
      /\ acc = [unused |-> acc.unused, matched |-> acc.matched]
  BY DEF Records
<1>2. CASE acc.unused = {}
  <2>1. Taken(acc, ref, solver) = [unused |-> acc.unused, matched |-> FALSE]
    BY <1>1, <1>2 DEF Taken
  <2> QED BY <1>1, <1>2, <2>1 DEF Records
<1>3. CASE acc.unused # {}
  <2> DEFINE i == Nearest(solver, acc.unused, ref)
             b == acc.matched /\ Confirms(solver[i], ref)
  <2>1. i \in acc.unused
    BY <1>1, <1>3, NearestIs
  <2>2. b \in BOOLEAN
    OBVIOUS
  <2>3. Taken(acc, ref, solver) = [unused |-> acc.unused \ {i}, matched |-> b]
    BY <1>3 DEF Taken
  <2> HIDE DEF i
  <2>4. /\ Taken(acc, ref, solver).unused = acc.unused \ {i}
        /\ Taken(acc, ref, solver).matched = b
    <3> HIDE DEF b
    <3> QED BY <2>3
  <2>5. Taken(acc, ref, solver) \in Records(solver)
    <3> HIDE DEF b
    <3> QED BY <1>1, <2>2, <2>3 DEF Records
  <2> QED BY <1>3, <2>1, <2>4, <2>5 DEF i
<1> QED BY <1>2, <1>3

(* The next value keeps it so.                                             *)
LEMMA MatchedOn ==
    ASSUME NEW solver \in Seq(Int), NEW refs, NEW k \in Nat, Number(refs[k + 1]), NEW acc,
           MatchedSoFar(acc, solver, refs, k)
    PROVE  MatchedSoFar(Taken(acc, refs[k + 1], solver), solver, refs, k + 1)
<1> DEFINE now == Taken(acc, refs[k + 1], solver)
           i == Nearest(solver, acc.unused, refs[k + 1])
<1>1. acc \in Records(solver) /\ acc.unused \in SUBSET DOMAIN solver
  BY DEF MatchedSoFar, Records
<1>2. /\ now \in Records(solver)
      /\ acc.unused = {} => ~ now.matched
      /\ acc.unused # {} => /\ i \in acc.unused
                            /\ now.unused = acc.unused \ {i}
                            /\ now.matched <=> acc.matched /\ Confirms(solver[i], refs[k + 1])
  BY <1>1, TakenIs
<1> HIDE DEF now, i
<1>3. ASSUME now.matched
      PROVE  \E g : Assigned(g, DOMAIN solver \ now.unused, solver, refs, k + 1)
  <2>1. /\ i \in acc.unused /\ now.unused = acc.unused \ {i}
        /\ acc.matched /\ Confirms(solver[i], refs[k + 1])
    BY <1>2, <1>3, Zenon
  <2>2. PICK g : Assigned(g, DOMAIN solver \ acc.unused, solver, refs, k)
    BY <2>1, Zenon DEF MatchedSoFar
  <2> DEFINE h == [l \in 1 .. k + 1 |-> IF l = k + 1 THEN i ELSE g[l]]
  <2>3. g \in [1 .. k -> DOMAIN solver \ acc.unused]
    BY <2>2 DEF Assigned
  <2>4. \A l \in 1 .. k : l # k + 1 /\ l \in 1 .. k + 1 /\ h[l] = g[l] /\ g[l] # i
    BY <2>1, <2>3
  <2>5. h[k + 1] = i /\ k + 1 \in 1 .. k + 1 /\ \A l \in 1 .. k + 1 : l = k + 1 \/ l \in 1 .. k
    OBVIOUS
  <2>6. h \in [1 .. k + 1 -> DOMAIN solver \ now.unused]
    BY <1>1, <2>1, <2>3
  <2> HIDE DEF h
  <2>7. \A j, l \in 1 .. k + 1 : j # l => h[j] # h[l]
    BY <2>2, <2>4, <2>5, Zenon DEF Assigned
  <2>8. \A l \in 1 .. k + 1 : Confirms(solver[h[l]], refs[l])
    BY <2>1, <2>2, <2>4, <2>5, Zenon DEF Assigned
  <2>9. Assigned(h, DOMAIN solver \ now.unused, solver, refs, k + 1)
    BY <2>6, <2>7, <2>8, Zenon DEF Assigned
  <2> QED BY <2>9, Zenon
<1> QED BY <1>2, <1>3, Zenon DEF MatchedSoFar, now

(* A match is an assignment (calibration.py:72-102): each value of the     *)
(* book has a result of its own that confirms it.                          *)
LEMMA MatchAssigns ==
    ASSUME NEW solver \in Seq(Int), NEW refs, NEW len \in Nat, DOMAIN refs = 1 .. len,
           \A k \in 1 .. len : Number(refs[k]), Match(solver, refs)
    PROVE  Assignable(solver, refs)
<1>1. PICK f : Unfolds(f, solver, refs, 1 .. len) /\ Match(solver, refs) = f[1 .. len].matched
  BY MatchUnfolds
<1> DEFINE Off == {k \in Nat : k <= len /\ ~ MatchedSoFar(f[1 .. k], solver, refs, k)}
<1>2. Off = {}
  <2> SUFFICES ASSUME Off # {} PROVE FALSE
    OBVIOUS
  <2>1. PICK m \in Off : \A k \in Off : m <= k
    <3> HIDE DEF Off
    <3>1. Off \in SUBSET Nat
      BY DEF Off
    <3> QED BY <3>1, LeastExists
  <2>2. m \in Nat /\ m <= len
    OBVIOUS
  <2>3. CASE m = 0
    <3>1. f[1 .. m] = Untaken(solver)
      <4> HIDE DEF Off
      <4> QED BY <1>1, <2>3, UnfoldsFrom
    <3>2. Assigned(<< >>, DOMAIN solver \ DOMAIN solver, solver, refs, 0)
      BY DEF Assigned
    <3>3. /\ Untaken(solver) \in Records(solver)
          /\ Untaken(solver).unused = DOMAIN solver
      BY DEF Untaken, Records
    <3>4. MatchedSoFar(Untaken(solver), solver, refs, 0)
      BY <3>2, <3>3 DEF MatchedSoFar
    <3> QED BY <2>1, <2>3, <3>1, <3>4
  <2>4. CASE m # 0
    <3>1. m - 1 \in Nat /\ m - 1 <= len /\ (m - 1) + 1 = m /\ m \in 1 .. len /\ ~ (m <= m - 1)
      BY <2>2, <2>4
    <3>2. MatchedSoFar(f[1 .. m - 1], solver, refs, m - 1)
      <4>1. m - 1 \notin Off
        <5> HIDE DEF Off
        <5> QED BY <2>1, <3>1
      <4> QED BY <3>1, <4>1
    <3>3. f[1 .. m] = Taken(f[1 .. m - 1], refs[m], solver)
      <4> HIDE DEF Off
      <4> QED BY <1>1, <3>1, UnfoldsBy
    <3>4. MatchedSoFar(Taken(f[1 .. m - 1], refs[(m - 1) + 1], solver), solver, refs, (m - 1) + 1)
      BY <3>1, <3>2, MatchedOn
    <3> QED BY <2>1, <3>1, <3>3, <3>4
  <2> QED BY <2>3, <2>4
<1>3. MatchedSoFar(f[1 .. len], solver, refs, len)
  BY <1>2
<1>4. PICK g : Assigned(g, DOMAIN solver \ f[1 .. len].unused, solver, refs, len)
  BY <1>1, <1>3, Zenon DEF MatchedSoFar
<1>5. g \in [DOMAIN refs -> DOMAIN solver]
  BY <1>4 DEF Assigned
<1> QED BY <1>4, <1>5, Zenon DEF Assigned, Assignable

(* While no match has failed, the taken results confirm earlier values.    *)
ConfirmedSoFar(acc, solver, refs, k) ==
    /\ acc \in Records(solver)
    /\ acc.matched
    /\ \A i \in DOMAIN solver \ acc.unused : \E j \in 1 .. k : Confirms(solver[i], refs[j])

(* A result that is nearer confirms as well.                               *)
LEMMA NearerConfirms ==
    ASSUME NEW ref, Number(ref), Comparable(ref), NEW x \in Int, NEW y \in Int,
           Abs(x - ToSI(ref)) <= Abs(y - ToSI(ref)), Confirms(y, ref)
    PROVE  Confirms(x, ref)
<1>1. /\ Abs(x - ToSI(ref)) \in Nat /\ Abs(y - ToSI(ref)) \in Nat /\ Abs(ToSI(ref)) \in Nat
      /\ Inverse_tol \in Nat
  BY Distance, AnswerComparisonAssumption DEF Number
<1>2. Abs(x - ToSI(ref)) * Inverse_tol <= Abs(y - ToSI(ref)) * Inverse_tol
  BY <1>1, Times
<1>3. Abs(y - ToSI(ref)) * Inverse_tol <= Abs(ToSI(ref))
  BY DEF Confirms
<1>4. /\ Abs(x - ToSI(ref)) * Inverse_tol \in Nat /\ Abs(y - ToSI(ref)) * Inverse_tol \in Nat
  BY <1>1
<1> QED BY <1>1, <1>2, <1>3, <1>4 DEF Confirms

(* The next value finds a result that nothing else could have used.        *)
LEMMA ConfirmedOn ==
    ASSUME NEW solver \in Seq(Int), NEW refs, NEW len \in Nat, DOMAIN refs = 1 .. len,
           NEW k \in Nat, k < len, Number(refs[k + 1]), NEW acc,
           ConfirmedSoFar(acc, solver, refs, k),
           Assignable(solver, refs), Distinguishable(solver, refs)
    PROVE  ConfirmedSoFar(Taken(acc, refs[k + 1], solver), solver, refs, k + 1)
<1> DEFINE now == Taken(acc, refs[k + 1], solver)
           i == Nearest(solver, acc.unused, refs[k + 1])
<1>1. acc \in Records(solver) /\ acc.unused \in SUBSET DOMAIN solver /\ k + 1 \in DOMAIN refs
  BY DEF ConfirmedSoFar, Records
<1>2. /\ now \in Records(solver)
      /\ acc.unused # {} => /\ i \in acc.unused
                            /\ now.unused = acc.unused \ {i}
                            /\ now.matched <=> acc.matched /\ Confirms(solver[i], refs[k + 1])
  BY <1>1, TakenIs
<1>3. PICK t \in DOMAIN solver : Confirms(solver[t], refs[k + 1])
  <2>1. PICK f \in [DOMAIN refs -> DOMAIN solver] :
          \A l \in DOMAIN refs : Confirms(solver[f[l]], refs[l])
    BY Zenon DEF Assignable
  <2>2. f[k + 1] \in DOMAIN solver
    BY <1>1, <2>1
  <2> QED BY <1>1, <2>1, <2>2, Zenon
<1>4. t \in acc.unused
  <2> SUFFICES ASSUME t \notin acc.unused PROVE FALSE
    OBVIOUS
  <2>1. PICK j \in 1 .. k : Confirms(solver[t], refs[j])
    BY Zenon DEF ConfirmedSoFar
  <2>2. j \in DOMAIN refs /\ j # k + 1
    OBVIOUS
  <2>3. j = k + 1
    BY <1>1, <1>3, <2>1, <2>2, Zenon DEF Distinguishable
  <2> QED BY <2>2, <2>3
<1>5. Comparable(refs[k + 1])
  BY <1>1, Zenon DEF Distinguishable
<1>6. Abs(solver[i] - ToSI(refs[k + 1])) <= Abs(solver[t] - ToSI(refs[k + 1]))
  BY <1>1, <1>4, <1>5, NearestIs
<1> HIDE DEF now, i
<1>7. i \in acc.unused
  BY <1>2, <1>4
<1>8. solver[i] \in Int /\ solver[t] \in Int
  BY <1>1, <1>7
<1>9. Confirms(solver[i], refs[k + 1])
  BY <1>3, <1>5, <1>6, <1>8, NearerConfirms
<1>10. now.matched
  BY <1>2, <1>4, <1>9, Zenon DEF ConfirmedSoFar
<1>11. ASSUME NEW l \in DOMAIN solver \ now.unused
       PROVE  \E j \in 1 .. k + 1 : Confirms(solver[l], refs[j])
  <2>1. now.unused = acc.unused \ {i}
    BY <1>2, <1>4
  <2>2. CASE l = i
    <3>1. k + 1 \in 1 .. k + 1
      OBVIOUS
    <3> QED BY <1>9, <2>2, <3>1, Zenon
  <2>3. CASE l # i
    <3>1. PICK j \in 1 .. k : Confirms(solver[l], refs[j])
      BY <2>1, <2>3, Zenon DEF ConfirmedSoFar
    <3>2. j \in 1 .. k + 1
      OBVIOUS
    <3> QED BY <3>1, <3>2, Zenon
  <2> QED BY <2>2, <2>3
<1> QED BY <1>2, <1>10, <1>11, Zenon DEF ConfirmedSoFar, now

(* No assignment is missed when it is the only one (calibration.py:72-102).*)
LEMMA AssignableMatches ==
    ASSUME NEW solver \in Seq(Int), NEW refs, NEW len \in Nat, DOMAIN refs = 1 .. len,
           \A k \in 1 .. len : Number(refs[k]),
           Assignable(solver, refs), Distinguishable(solver, refs)
    PROVE  Match(solver, refs)
<1>1. PICK f : Unfolds(f, solver, refs, 1 .. len) /\ Match(solver, refs) = f[1 .. len].matched
  BY MatchUnfolds
<1> DEFINE Off == {k \in Nat : k <= len /\ ~ ConfirmedSoFar(f[1 .. k], solver, refs, k)}
<1>2. Off = {}
  <2> SUFFICES ASSUME Off # {} PROVE FALSE
    OBVIOUS
  <2>1. PICK m \in Off : \A k \in Off : m <= k
    <3> HIDE DEF Off
    <3>1. Off \in SUBSET Nat
      BY DEF Off
    <3> QED BY <3>1, LeastExists
  <2>2. m \in Nat /\ m <= len
    OBVIOUS
  <2>3. CASE m = 0
    <3>1. f[1 .. m] = Untaken(solver)
      <4> HIDE DEF Off
      <4> QED BY <1>1, <2>3, UnfoldsFrom
    <3>2. /\ Untaken(solver) \in Records(solver)
          /\ Untaken(solver).unused = DOMAIN solver
          /\ Untaken(solver).matched
      BY DEF Untaken, Records
    <3>3. ConfirmedSoFar(Untaken(solver), solver, refs, 0)
      BY <3>2 DEF ConfirmedSoFar
    <3> QED BY <2>1, <2>3, <3>1, <3>3
  <2>4. CASE m # 0
    <3>1. /\ m - 1 \in Nat /\ m - 1 <= len /\ (m - 1) + 1 = m /\ m \in 1 .. len
          /\ m - 1 < len /\ ~ (m <= m - 1)
      BY <2>2, <2>4
    <3>2. ConfirmedSoFar(f[1 .. m - 1], solver, refs, m - 1)
      <4>1. m - 1 \notin Off
        <5> HIDE DEF Off
        <5> QED BY <2>1, <3>1
      <4> QED BY <3>1, <4>1
    <3>3. f[1 .. m] = Taken(f[1 .. m - 1], refs[m], solver)
      <4> HIDE DEF Off
      <4> QED BY <1>1, <3>1, UnfoldsBy
    <3>4. ConfirmedSoFar(Taken(f[1 .. m - 1], refs[(m - 1) + 1], solver), solver, refs, (m - 1) + 1)
      <4> HIDE DEF Off
      <4>1. Number(refs[(m - 1) + 1])
        BY <3>1
      <4> QED BY <3>1, <3>2, <4>1, ConfirmedOn
    <3> QED BY <2>1, <3>1, <3>3, <3>4
  <2> QED BY <2>3, <2>4
<1>3. ConfirmedSoFar(f[1 .. len], solver, refs, len)
  BY <1>2
<1> QED BY <1>1, <1>3, Zenon DEF ConfirmedSoFar

(* Of the values that are not 0 one differs least, relatively.             *)
Least(b, x, refs, k) ==
    \A j \in 1 .. k :
        Comparable(refs[j]) =>
            Abs(x - ToSI(refs[b])) * Abs(ToSI(refs[j])) <= Abs(x - ToSI(refs[j])) * Abs(ToSI(refs[b]))

LEMMA LeastDiffers ==
    ASSUME NEW x \in Int, NEW refs, NEW len \in Nat,
           \A k \in 1 .. len : Number(refs[k]),
           NEW c \in 1 .. len, Comparable(refs[c])
    PROVE  \E b \in 1 .. len : Comparable(refs[b]) /\ Least(b, x, refs, len)
<1> DEFINE diff(k) == Abs(x - ToSI(refs[k]))
           size(k) == Abs(ToSI(refs[k]))
           Best(b, k) == Comparable(refs[b]) /\ Least(b, x, refs, k)
           Off == {k \in Nat : /\ k <= len
                               /\ \E j \in 1 .. k : Comparable(refs[j])
                               /\ ~ \E b \in 1 .. k : Best(b, k)}
<1>1. \A k \in 1 .. len : diff(k) \in Nat /\ size(k) \in Nat
  BY Distance DEF Number
<1>2. \A k \in 1 .. len : Comparable(refs[k]) => size(k) \in Nat \ {0}
  BY <1>1 DEF Comparable, Number, Abs
<1>3. Off = {}
  <2> SUFFICES ASSUME Off # {} PROVE FALSE
    OBVIOUS
  <2>1. PICK m \in Off : \A k \in Off : m <= k
    <3> HIDE DEF Off
    <3>1. Off \in SUBSET Nat
      BY DEF Off
    <3> QED BY <3>1, LeastExists
  <2>2. /\ m \in Nat /\ m <= len
        /\ \E j \in 1 .. m : Comparable(refs[j])
        /\ ~ \E b \in 1 .. m : Best(b, m)
    BY <2>1
  <2>3. m \in 1 .. len /\ m - 1 \in Nat /\ m - 1 <= len /\ ~ (m <= m - 1)
    BY <2>2
  <2>4. \A j \in 1 .. m : j = m \/ j \in 1 .. m - 1
    BY <2>2
  <2>5. m - 1 \notin Off
    <3> HIDE DEF Off
    <3> QED BY <2>1, <2>3
  <2> HIDE DEF Off
  <2>6. CASE \E j \in 1 .. m - 1 : Comparable(refs[j])
    <3>1. PICK b \in 1 .. m - 1 : Best(b, m - 1)
      <4> HIDE DEF Best
      <4> QED BY <2>3, <2>5, <2>6 DEF Off
    <3>2. b \in 1 .. m /\ b \in 1 .. len /\ Comparable(refs[b])
      BY <2>2, <3>1
    <3>3. \A j \in 1 .. m - 1 : Comparable(refs[j]) => diff(b) * size(j) <= diff(j) * size(b)
      BY <3>1 DEF Least
    <3>4. CASE Comparable(refs[m]) => diff(b) * size(m) <= diff(m) * size(b)
      <4>1. Best(b, m)
        <5> HIDE DEF diff, size
        <5>1. \A j \in 1 .. m : Comparable(refs[j]) => diff(b) * size(j) <= diff(j) * size(b)
          BY <2>4, <3>3, <3>4
        <5> QED BY <3>2, <5>1 DEF Least, diff, size
      <4> HIDE DEF Best
      <4> QED BY <2>2, <3>2, <4>1
    <3>5. CASE Comparable(refs[m]) /\ ~ (diff(b) * size(m) <= diff(m) * size(b))
      <4> HIDE DEF diff, size
      <4>1. /\ diff(b) \in Nat /\ diff(m) \in Nat /\ size(b) \in Nat \ {0} /\ size(m) \in Nat \ {0}
        BY <1>1, <1>2, <2>3, <3>2, <3>5
      <4>2. diff(m) * size(b) <= diff(b) * size(m)
        <5>1. diff(m) * size(b) \in Nat /\ diff(b) * size(m) \in Nat
          BY <4>1
        <5> QED BY <3>5, <5>1
      <4>3. ASSUME NEW j \in 1 .. m, Comparable(refs[j])
            PROVE  diff(m) * size(j) <= diff(j) * size(m)
        <5>1. j \in 1 .. len
          BY <2>2
        <5>2. diff(j) \in Nat /\ size(j) \in Nat \ {0}
          BY <1>1, <1>2, <4>3, <5>1
        <5>3. CASE j = m
          BY <4>1, <5>3
        <5>4. CASE j \in 1 .. m - 1
          <6>1. diff(b) * size(j) <= diff(j) * size(b)
            BY <3>3, <4>3, <5>4
          <6> QED BY <4>1, <4>2, <5>2, <6>1, Ratios
        <5> QED BY <2>4, <5>3, <5>4
      <4>4. m \in 1 .. m
        BY <2>3
      <4>5. Best(m, m)
        BY <3>5, <4>3 DEF Least, diff, size
      <4> HIDE DEF Best
      <4> QED BY <2>2, <4>4, <4>5
    <3> QED BY <3>4, <3>5
  <2>7. CASE ~ \E j \in 1 .. m - 1 : Comparable(refs[j])
    <3>1. Comparable(refs[m]) /\ m \in 1 .. m /\ \A j \in 1 .. m : Comparable(refs[j]) => j = m
      BY <2>2, <2>3, <2>4, <2>7
    <3>2. diff(m) * size(m) <= diff(m) * size(m)
      <4>1. diff(m) * size(m) \in Nat
        BY <1>1, <2>3
      <4> QED BY <4>1
    <3>3. Best(m, m)
      BY <3>1, <3>2 DEF Least
    <3> HIDE DEF Best
    <3> QED BY <2>2, <3>1, <3>3
  <2> QED BY <2>6, <2>7
<1>4. len \in Nat /\ len <= len
  OBVIOUS
<1>5. PICK b \in 1 .. len : Best(b, len)
  <2> HIDE DEF Best
  <2> QED BY <1>3, <1>4
<1> QED BY <1>5

(* A blind answer agrees exactly when each result has a value, not 0, that *)
(* confirms it (blind_resolve_batch.py:129-146).                           *)
LEMMA AgreesIs ==
    ASSUME NEW solver \in Seq(Int), NEW refs, NEW len \in Nat, DOMAIN refs = 1 .. len,
           \A k \in 1 .. len : Number(refs[k])
    PROVE  Agrees(solver, refs) <=> Confirmed(solver, refs)
<1> DEFINE seen == {k \in DOMAIN refs : Comparable(refs[k])}
           diff(i, k) == Abs(solver[i] - ToSI(refs[k]))
           size(k) == Abs(ToSI(refs[k]))
           Yes(i, k) == /\ \A j \in seen : diff(i, k) * size(j) <= diff(i, j) * size(k)
                        /\ diff(i, k) * Inverse_tol <= size(k)
<1>1. Agrees(solver, refs) <=> \A i \in DOMAIN solver : \E k \in seen : Yes(i, k)
  BY Zenon DEF Agrees
<1>2. Confirmed(solver, refs) <=> \A i \in DOMAIN solver : \E k \in seen : diff(i, k) * Inverse_tol <= size(k)
  BY Zenon DEF Confirmed, Confirms
<1>3. ASSUME NEW i \in DOMAIN solver, NEW k \in seen, diff(i, k) * Inverse_tol <= size(k)
      PROVE  \E b \in seen : Yes(i, b)
  <2>1. solver[i] \in Int /\ k \in 1 .. len /\ Comparable(refs[k]) /\ Inverse_tol \in Nat
    BY AnswerComparisonAssumption
  <2>2. PICK b \in 1 .. len : Comparable(refs[b]) /\ Least(b, solver[i], refs, len)
    BY <2>1, LeastDiffers
  <2>3. b \in seen /\ \A j \in seen : diff(i, b) * size(j) <= diff(i, j) * size(b)
    BY <2>2 DEF Least
  <2>4. /\ diff(i, b) \in Nat /\ diff(i, k) \in Nat
        /\ size(b) \in Nat \ {0} /\ size(k) \in Nat \ {0}
    <3>1. \A j \in {b, k} : diff(i, j) \in Nat /\ size(j) \in Nat
      BY <2>1, Distance DEF Number
    <3>2. ToSI(refs[b]) \in Int \ {0} /\ ToSI(refs[k]) \in Int \ {0}
      BY <2>1, <2>2 DEF Comparable, Number
    <3> QED BY <3>1, <3>2 DEF Abs
  <2>5. diff(i, b) * size(k) <= diff(i, k) * size(b)
    BY <2>3
  <2> HIDE DEF diff, size
  <2>6. diff(i, b) * Inverse_tol <= 1 * size(b)
    <3>1. CASE Inverse_tol = 0
      BY <2>4, <3>1
    <3>2. CASE Inverse_tol # 0
      <4>1. Inverse_tol \in Nat \ {0} /\ 1 \in Nat
        BY <2>1, <3>2
      <4>2. diff(i, k) * Inverse_tol <= 1 * size(k)
        BY <1>3, <2>4
      <4> QED BY <2>4, <2>5, <4>1, <4>2, Ratios
    <3> QED BY <3>1, <3>2
  <2>7. diff(i, b) * Inverse_tol <= size(b)
    BY <2>4, <2>6
  <2>8. Yes(i, b)
    <3> HIDE DEF seen
    <3> QED BY <2>3, <2>7
  <2> HIDE DEF Yes
  <2> QED BY <2>3, <2>8
<1>4. ASSUME NEW i \in DOMAIN solver, NEW k \in seen, Yes(i, k)
      PROVE  diff(i, k) * Inverse_tol <= size(k)
  BY <1>4
<1> HIDE DEF seen, diff, size, Yes
<1> QED BY <1>1, <1>2, <1>3, <1>4, Zenon

(* What calibration and the blind re-solve compare are numbers.            *)
LEMMA ValuesAreNumbers ==
    ASSUME NEW refs \in References
    PROVE  /\ Len(refs) \in Nat /\ DOMAIN refs = 1 .. Len(refs)
           /\ DOMAIN Backfilled(refs) = 1 .. Len(refs)
           /\ \A k \in 1 .. Len(refs) : Number(refs[k]) /\ Number(Backfilled(refs)[k])
<1> DEFINE R == [value : Int, unit : STRING]
<1>1. refs \in Seq(R)
  BY AnswerComparisonAssumption
<1> HIDE DEF R
<1>2. Len(refs) \in Nat /\ DOMAIN refs = 1 .. Len(refs)
  BY <1>1
<1>3. ASSUME NEW ref, ref.value \in Int PROVE Number(ref)
  <2>1. CASE ref.unit \in DOMAIN Units
    <3>1. Units[ref.unit].mult \in Int /\ Units[ref.unit].add \in Int
      BY <2>1, AnswerComparisonAssumption
    <3>2. ref.value * Units[ref.unit].mult + Units[ref.unit].add \in Int
      BY <1>3, <3>1
    <3> QED BY <2>1, <3>2 DEF Number, ToSI
  <2>2. CASE ref.unit \notin DOMAIN Units
    BY <1>3, <2>2 DEF Number, ToSI
  <2> QED BY <2>1, <2>2
<1>4. ASSUME NEW k \in 1 .. Len(refs)
      PROVE  refs[k].value \in Int /\ Backfilled(refs)[k].value \in Int
  <2>1. refs[k] \in [value : Int, unit : STRING]
    <3>1. refs[k] \in R
      BY <1>1, <1>2
    <3> QED BY <3>1 DEF R
  <2>2. \E u : Backfilled(refs)[k] = [refs[k] EXCEPT !.unit = u]
    BY <1>2, Zenon DEF Backfilled
  <2> QED BY <2>1, <2>2
<1>5. DOMAIN Backfilled(refs) = 1 .. Len(refs)
  BY <1>2 DEF Backfilled
<1> QED BY <1>2, <1>3, <1>4, <1>5

(* A match in calibration is an assignment of results to the values of the *)
(* book, and none is missed that is the only one; a blind answer agrees    *)
(* just when each result has a value that confirms it: for any results,    *)
(* values, units and tolerance (calibration.py:72-102,                     *)
(* blind_resolve_batch.py:129-146).                                        *)
THEOREM VerdictsHold == PracticeSpec => []VerdictsAreRight
<1>1. ASSUME NEW solver \in Solvers, NEW refs \in References
      PROVE  /\ Match(solver, Backfilled(refs)) => Assignable(solver, Backfilled(refs))
             /\ Assignable(solver, Backfilled(refs)) /\ Distinguishable(solver, Backfilled(refs))
                  => Match(solver, Backfilled(refs))
             /\ Agrees(solver, refs) <=> Confirmed(solver, refs)
  <2>1. solver \in Seq(Int)
    BY AnswerComparisonAssumption
  <2>2. PICK len \in Nat :
          /\ DOMAIN refs = 1 .. len /\ DOMAIN Backfilled(refs) = 1 .. len
          /\ \A k \in 1 .. len : Number(refs[k]) /\ Number(Backfilled(refs)[k])
    BY ValuesAreNumbers
  <2>3. Match(solver, Backfilled(refs)) => Assignable(solver, Backfilled(refs))
    BY <2>1, <2>2, MatchAssigns
  <2>4. Assignable(solver, Backfilled(refs)) /\ Distinguishable(solver, Backfilled(refs))
          => Match(solver, Backfilled(refs))
    BY <2>1, <2>2, AssignableMatches
  <2>5. Agrees(solver, refs) <=> Confirmed(solver, refs)
    BY <2>1, <2>2, AgreesIs
  <2> QED BY <2>3, <2>4, <2>5, Zenon
<1>2. VerdictsAreRight
  BY <1>1, Zenon DEF VerdictsAreRight
<1> QED BY <1>2, PTL
===============================================================================
