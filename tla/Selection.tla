------------------------------ MODULE Selection ------------------------------
(***************************************************************************)
(* S7 (src/practice_forge/selection/selection.py): the problem set that is *)
(* drawn from the scored concepts of a book.  A greedy construction, one   *)
(* concept after the other: a pass per difficulty tier, a pass to fill up  *)
(* whatever the tier, and a pass to fill up whatever the similarity.  The  *)
(* cap per section and the cap on physics-informed concepts hold in every  *)
(* pass; what was given up on the way is reported.                         *)
(*                                                                         *)
(* A concept is a cluster with its representative card.  Of a card, what   *)
(* the construction reads: its section, its label and composite score, if  *)
(* it is physics-informed, and which cards it is similar to (a cosine of   *)
(* at least MAX_PAIRWISE_COSINE).                                          *)
(***************************************************************************)
EXTENDS Integers, FiniteSets, FiniteSetsExt

CONSTANTS
    Concepts,
    Sections,
    Pools,          \* what the tables may hold of the concepts of a book
    Requests,       \* what may be asked for
    NoMix,          \* no explicit difficulty mix
    MaxPerSection,  \* 3
    MaxPhysics      \* 2

Tiers == {"easy", "medium", "hard"}
Rank == [easy |-> 0, medium |-> 1, hard |-> 2]

Mix == [Tiers -> Nat]

Pool == [section : [Concepts -> Sections], label : [Concepts -> 0 .. 2],
         score : [Concepts -> Nat], scored : SUBSET Concepts,
         physics : SUBSET Concepts, similar : SUBSET (Concepts \X Concepts)]

(* sections is empty for the whole book; issued are the concepts the       *)
(* course has had already.                                                 *)
Request == [target : Nat, mix : Mix \cup {NoMix}, sections : SUBSET Sections,
            issued : SUBSET Concepts]

ASSUME SelectionAssumption ==
    /\ IsFiniteSet(Concepts)
    /\ IsFiniteSet(Sections)
    /\ \A p \in Pools : p \in Pool /\ \A pair \in p.similar : <<pair[2], pair[1]>> \in p.similar
    /\ Requests \subseteq Request
    /\ NoMix \notin Mix
    /\ MaxPerSection \in Nat
    /\ MaxPhysics \in Nat

VARIABLES
    pool,       \* the tables; never change
    request,    \* what was asked for; never changes
    phase,      \* the pass, or how the selection ended
    tier,       \* the tier of each concept
    todo,       \* the concepts the pass has not come to
    taken,      \* how many it has taken
    selected,   \* what all passes have taken
    reports,    \* the relaxations: of the "mix", of the "cosine"
    reachable   \* can_reach_target

vars == <<pool, request, phase, tier, todo, taken, selected, reports, reachable>>

Passes == {"easy", "medium", "hard", "backfill", "relax"}

-----------------------------------------------------------------------------
(* What was asked for.                                                     *)

Base == [easy |-> 6, medium |-> 9, hard |-> 5]

Floor(n) == [k \in Tiers |-> (Base[k] * n) \div 20]

MixSum(mix) == mix["easy"] + mix["medium"] + mix["hard"]

(* k comes before j in the order of the remainders, ties as in the table.  *)
Before(k, j, n) ==
    \/ (Base[k] * n) % 20 > (Base[j] * n) % 20
    \/ (Base[k] * n) % 20 = (Base[j] * n) % 20 /\ Rank[k] < Rank[j]

(* _scale_difficulty_mix: what the floors leave over, two at most, goes to *)
(* the tiers with the largest remainders.                                  *)
ScaledMix(n) ==
    LET left == n - MixSum(Floor(n)) IN
    [k \in Tiers |->
        IF \/ left = 1 /\ \A j \in Tiers \ {k} : Before(k, j, n)
           \/ left = 2 /\ \E j \in Tiers \ {k} : Before(k, j, n)
        THEN Floor(n)[k] + 1 ELSE Floor(n)[k]]

Target == request.target

TargetMix == IF request.mix = NoMix THEN ScaledMix(Target) ELSE request.mix

(* With few sections asked for, each may give more.                        *)
SectionCap ==
    LET k == Cardinality(request.sections) IN
    IF k = 0 THEN MaxPerSection
    ELSE LET share == (Target + k - 1) \div k IN
         IF share > MaxPerSection THEN share ELSE MaxPerSection

Members ==
    {m \in pool.scored \ request.issued :
        request.sections = {} \/ pool.section[m] \in request.sections}

-----------------------------------------------------------------------------
(* Construction.                                                           *)

(* Lower in the order that is cut into thirds: by label, then by score.    *)
Easier(a, b) ==
    \/ pool.label[a] < pool.label[b]
    \/ pool.label[a] = pool.label[b] /\ pool.score[a] < pool.score[b]

(* _assign_percentile_difficulty: thirds of the members by position; equal *)
(* ones are in any order.                                                  *)
Thirds(t) ==
    LET n == Cardinality(Members)
        in(k) == {m \in Members : t[m] = k}
    IN  /\ Cardinality(in("easy")) = (n + 2) \div 3
        /\ Cardinality(in("easy")) + Cardinality(in("medium")) = (2 * n + 2) \div 3
        /\ \A a, b \in Members : Easier(a, b) => Rank[t[a]] <= Rank[t[b]]

InSection(set, s) == {m \in set : pool.section[m] = s}

(* Fault: relaxing the similarity relaxes the section cap as well.         *)
FitsRelaxingAll(m) ==
    \/ phase = "relax"
    \/ /\ Cardinality(InSection(selected, pool.section[m])) < SectionCap
       /\ m \in pool.physics => Cardinality(selected \cap pool.physics) < MaxPhysics
       /\ \A s \in selected : <<s, m>> \notin pool.similar

Fits(m) ==
    /\ Cardinality(InSection(selected, pool.section[m])) < SectionCap
    /\ m \in pool.physics => Cardinality(selected \cap pool.physics) < MaxPhysics
    /\ phase # "relax" => \A s \in selected : <<s, m>> \notin pool.similar

(* The pass may take another one.                                          *)
Open == IF phase \in Tiers THEN taken < TargetMix[phase]
        ELSE Cardinality(selected) < Target

TypeOK ==
    /\ pool \in Pool
    /\ request \in Request
    /\ phase \in Passes \cup {"start", "returned", "raised"}
    /\ tier \in [Concepts -> Tiers]
    /\ todo \in SUBSET Concepts
    /\ taken \in Nat
    /\ selected \in SUBSET Concepts
    /\ reports \in SUBSET {"mix", "cosine"}
    /\ reachable \in BOOLEAN

Init ==
    /\ pool \in Pools
    /\ request \in Requests
    /\ phase = "start"
    /\ tier = [m \in Concepts |-> "easy"]
    /\ todo = {}
    /\ taken = 0
    /\ selected = {}
    /\ reports = {}
    /\ reachable = FALSE

(* An explicit mix that does not add up.                                   *)
Refuse ==
    /\ phase = "start"
    /\ request.mix # NoMix
    /\ MixSum(request.mix) # Target
    /\ phase' = "raised"
    /\ UNCHANGED <<pool, request, tier, todo, taken, selected, reports, reachable>>

(* Gather the pool; with too few members return them all, and say so.      *)
Gather ==
    /\ phase = "start"
    /\ request.mix # NoMix => MixSum(request.mix) = Target
    /\ tier' \in [Concepts -> Tiers]
    /\ \A m \in Concepts \ Members : tier'[m] = tier[m]
    /\ Thirds(tier')
    /\ IF Cardinality(Members) < Target
       THEN phase' = "returned" /\ selected' = Members /\ UNCHANGED todo
       ELSE /\ phase' = "easy"
            /\ todo' = {m \in Members : tier'[m] = "easy"}
            /\ UNCHANGED selected
    /\ UNCHANGED <<pool, request, taken, reports, reachable>>

(* The next member of the pass, by score, is taken if it fits.             *)
Consider(m) ==
    /\ phase \in Passes
    /\ Open
    /\ m \in todo
    /\ \A o \in todo : pool.score[o] <= pool.score[m]
    /\ todo' = todo \ {m}
    /\ IF Fits(m)
       THEN selected' = selected \cup {m} /\ taken' = taken + 1
       ELSE UNCHANGED <<selected, taken>>
    /\ UNCHANGED <<pool, request, phase, tier, reports, reachable>>

Short == Cardinality(selected) < Target

NextPhase ==
    CASE phase = "easy" -> "medium"
      [] phase = "medium" -> "hard"
      [] phase = "hard" /\ Short -> "backfill"
      [] phase = "backfill" /\ Short -> "relax"
      [] OTHER -> "returned"

(* Fault: the relaxing pass comes only to what the filling pass left over. *)
CandidatesForget(next) ==
    CASE next \in Tiers -> {m \in Members : tier[m] = next}
      [] next = "backfill" -> Members \ selected
      [] next = "relax" -> todo
      [] OTHER -> {}

Candidates(next) ==
    CASE next \in Tiers -> {m \in Members : tier[m] = next}
      [] next \in {"backfill", "relax"} -> Members \ selected
      [] OTHER -> {}

(* Fault: filling up is reported when it is done for the similar ones.     *)
RelaxedLate == IF phase = "relax" /\ taken > 0 THEN {"mix", "cosine"} ELSE {}

(* A pass that filled up is reported if it took any.                       *)
Relaxed ==
    CASE phase = "backfill" /\ taken > 0 -> {"mix"}
      [] phase = "relax" /\ taken > 0 -> {"cosine"}
      [] OTHER -> {}

(* The pass is over: the next tier, or filling up while the set is short.  *)
(* The set is returned as one that reaches the target, short or not.       *)
NextPass ==
    /\ phase \in Passes
    /\ ~Open \/ todo = {}
    /\ phase' = NextPhase
    /\ taken' = 0
    /\ todo' = Candidates(NextPhase)
    /\ reports' = reports \cup Relaxed
    /\ reachable' = (NextPhase = "returned")
    /\ UNCHANGED <<pool, request, tier, selected>>

Next ==
    \/ Refuse
    \/ Gather
    \/ \E m \in Concepts : Consider(m)
    \/ NextPass

Spec == Init /\ [][Next]_vars

-----------------------------------------------------------------------------
(* _check_hard_constraints, of those that the construction is about.       *)
Checks ==
    [section |-> \A s \in Sections : Cardinality(InSection(selected, s)) <= SectionCap,
     physics |-> Cardinality(selected \cap pool.physics) <= MaxPhysics,
     mix     |-> \A k \in Tiers : Cardinality({m \in selected : tier[m] = k}) = TargetMix[k],
     cosine  |-> \A a, b \in selected : a # b => <<a, b>> \notin pool.similar]

-----------------------------------------------------------------------------
(* Properties.                                                             *)

(* In no pass, and in no set that is returned as reaching its target, are  *)
(* the caps exceeded, whatever was relaxed; the check that is run on the   *)
(* finished set finds what the counters of the construction kept           *)
(* (selection.py:116-166, 205-222).                                        *)
CapsHold ==
    phase \in Passes \/ reachable =>
        Checks.section /\ Checks.physics /\ Cardinality(selected) <= Target

(* What the returned set gave up is reported: two similar concepts only    *)
(* with the relaxation of the cosine; another mix than the one asked for,  *)
(* in a set of the size asked for, only with that of the mix or the cosine *)
(* (selection.py:249-275).                                                 *)
RelaxationsAreReported ==
    reachable =>
        /\ Checks.cosine \/ "cosine" \in reports
        /\ Checks.mix \/ Cardinality(selected) < Target \/ reports # {}

(* The set is short only when it cannot be helped: no concept that was     *)
(* left out would fit under the caps (selection.py:257-268).               *)
ShortOnlyIfBlocked ==
    reachable /\ Cardinality(selected) < Target =>
        \A m \in Members \ selected :
            \/ Cardinality(InSection(selected, pool.section[m])) >= SectionCap
            \/ m \in pool.physics /\ Cardinality(selected \cap pool.physics) >= MaxPhysics
==============================================================================
