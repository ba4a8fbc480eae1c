-------------------------- MODULE AnswerComparison --------------------------
(***************************************************************************)
(* When an answer is held to confirm another                               *)
(* (src/practice_forge/verification): the solver's results against the     *)
(* values of the book's printed answer (calibration.py) and against those  *)
(* of a second model (blind_resolve_batch.py).  A solver's result is a     *)
(* number in SI units; a reference is a value with the unit it was read    *)
(* with, or "" for none.  Reading numbers and units out of text is left    *)
(* out.                                                                    *)
(***************************************************************************)
EXTENDS Integers, Sequences, SequencesExt, FiniteSets

CONSTANTS
    Units,       \* of the units in the table, [mult, add]; "" is <<1, 0>>
    Inverse_tol, \* 100: values may differ by a hundredth
    Solvers,     \* the results of solvers that are looked at
    References   \* the references that are

ASSUME AnswerComparisonAssumption ==
    /\ \A u \in DOMAIN Units : Units[u].mult \in Int /\ Units[u].add \in Int
    /\ Inverse_tol \in Nat
    /\ Solvers \subseteq Seq(Int)
    /\ References \subseteq Seq([value : Int, unit : STRING])

Abs(x) == IF x < 0 THEN -x ELSE x

(* parse_numeric_values: a value without a unit has that of the next one   *)
(* that has one ("0.718, 1.005 kJ/kg K").                                  *)
Backfilled(refs) ==
    [i \in DOMAIN refs |->
        LET later == {j \in i .. Len(refs) : refs[j].unit # ""} IN
        [refs[i] EXCEPT !.unit = IF later = {} THEN "" ELSE refs[Min(later)].unit]]

(* to_si: a unit that is not in the table leaves the value as it is.       *)
ToSI(ref) ==
    IF ref.unit \in DOMAIN Units
    THEN ref.value * Units[ref.unit].mult + Units[ref.unit].add
    ELSE ref.value

(* compare_values; relative to 0 there is no difference, only equality.    *)
Comparable(ref) == ToSI(ref) # 0

Confirms(si, ref) ==
    IF Comparable(ref) THEN Abs(si - ToSI(ref)) * Inverse_tol <= Abs(ToSI(ref))
    ELSE si = 0

(* The unused result that is nearest to the reference, the first if no     *)
(* difference tells them apart.                                            *)
Nearest(solver, unused, ref) ==
    IF Comparable(ref)
    THEN Min({i \in unused : \A j \in unused :
                 Abs(solver[i] - ToSI(ref)) <= Abs(solver[j] - ToSI(ref))})
    ELSE Min(unused)

(* Fault: a result may stand for several values.                           *)
MatchReusing(solver, refs) ==
    \A k \in DOMAIN refs :
        DOMAIN solver # {} /\ Confirms(solver[Nearest(solver, DOMAIN solver, refs[k])], refs[k])

(* _match_book_values_to_solver: value after value takes the nearest       *)
(* result, which is used up whether it matches or not.                     *)
Match(solver, refs) ==
    FoldLeft(LAMBDA acc, ref :
                 IF acc.unused = {} THEN [acc EXCEPT !.matched = FALSE]
                 ELSE LET i == Nearest(solver, acc.unused, ref) IN
                      [unused  |-> acc.unused \ {i},
                       matched |-> acc.matched /\ Confirms(solver[i], ref)],
             [unused |-> DOMAIN solver, matched |-> TRUE], refs).matched

(* run_blind_resolve_batch: of each result, the value that differs least,  *)
(* relatively, is within the tolerance; a value of 0 is never compared.    *)
Agrees(solver, refs) ==
    \A i \in DOMAIN solver :
        LET diff(k) == Abs(solver[i] - ToSI(refs[k]))
            size(k) == Abs(ToSI(refs[k]))
            seen == {k \in DOMAIN refs : Comparable(refs[k])}
        IN \E k \in seen :
            /\ \A j \in seen : diff(k) * size(j) <= diff(j) * size(k)
            /\ diff(k) * Inverse_tol <= size(k)

-----------------------------------------------------------------------------
(* What the verdicts are held against.                                     *)

(* Every value of the book has a result of its own that confirms it.       *)
Assignable(solver, refs) ==
    \E f \in [DOMAIN refs -> DOMAIN solver] :
        /\ \A j, k \in DOMAIN refs : j # k => f[j] # f[k]
        /\ \A k \in DOMAIN refs : Confirms(solver[f[k]], refs[k])

(* No result would do for two values, and no value is 0.                   *)
Distinguishable(solver, refs) ==
    /\ \A k \in DOMAIN refs : Comparable(refs[k])
    /\ \A i \in DOMAIN solver, j, k \in DOMAIN refs :
         Confirms(solver[i], refs[j]) /\ Confirms(solver[i], refs[k]) => j = k

(* Every result has a value of the other model, not 0, that confirms it.   *)
Confirmed(solver, refs) ==
    \A i \in DOMAIN solver :
        \E k \in DOMAIN refs : Comparable(refs[k]) /\ Confirms(solver[i], refs[k])
=============================================================================
