------------------------------- MODULE Practice ------------------------------
(***************************************************************************)
(* A problem set from its selection to its files: Selection returns a set, *)
(* and the commands of Verification work on it.  A selection of the same   *)
(* tables returns the same set, so it is handed over once; what Selection  *)
(* has in its variables is of no use after that, and is cleared.  Ghosts   *)
(* remember which commands overlapped or were cut short.  Calibration and  *)
(* the blind re-solve, in AnswerComparison, write nothing.                 *)
(***************************************************************************)
EXTENDS Selection, AnswerComparison

CONSTANTS
    HandedOver,  \* of the sets that selection returns, the one carried on with
    Programs, Ran, None, Slots, MaxVariants, MaxStarts, MaxCommands

VARIABLES
    chosen, variants, folder, handout, manual, starts, command, step, work, cur, pages,
    wrote,
    doubled,     \* two generate commands were under way at once
    mixed,       \* two reverify runs were, or one was cut short and committed
    torn         \* two renders were, or one was stopped between its files

V == INSTANCE Verification

ASSUME PracticeAssumption == V!VerificationAssumption

ghosts == <<doubled, mixed, torn>>
vvars  == <<chosen, variants, folder, handout, manual, starts, command, step, work, cur, pages,
            wrote>>

PracticeInit ==
    /\ Init
    /\ chosen = {}
    /\ V!Init
    /\ doubled = FALSE
    /\ mixed = FALSE
    /\ torn = FALSE

Hand ==
    /\ phase = "returned"
    /\ reachable
    /\ selected = HandedOver
    /\ chosen' = selected
    /\ phase' = "handed"
    /\ pool' = CHOOSE p \in Pools : TRUE
    /\ request' = CHOOSE r \in Requests : TRUE
    /\ tier' = [m \in Concepts |-> "easy"]
    /\ todo' = {} /\ taken' = 0 /\ selected' = {} /\ reports' = {} /\ reachable' = FALSE
    /\ UNCHANGED <<variants, folder, handout, manual, starts, command, step, work, cur, pages,
                   wrote>>

Together(c) == \E s, t \in Slots : s # t /\ command'[s] = c /\ command'[t] = c

Ends(s) == command[s] # "idle" /\ command'[s] = "idle"

PracticeNext ==
    \/ Next /\ UNCHANGED <<vvars, ghosts>>
    \/ Hand /\ UNCHANGED ghosts
    \/ /\ phase = "handed"
       /\ V!Next
       /\ doubled' = (doubled \/ Together("generate"))
       /\ mixed' = (mixed \/ Together("reverify")
                          \/ \E s \in Slots : Ends(s) /\ variants' # variants)
       /\ torn' = (torn \/ Together("render")
                        \/ \E s \in Slots : /\ Ends(s) /\ wrote[s] > 0
                                            /\ manual' = manual /\ manual # pages[s])
       /\ UNCHANGED vars

PracticeSpec == PracticeInit /\ [][PracticeNext]_<<vars, vvars, ghosts>>

-----------------------------------------------------------------------------
(* Properties.                                                             *)

(* An answer that its own program gave, in a run to its end.               *)
Sound(code, answer) ==
    /\ code \in Programs
    /\ ~Ran[code].timed_out /\ ~Ran[code].oom_killed /\ Ran[code].exit = 0
    /\ answer = Ran[code].printed /\ answer # None

(* The answer of a verified variant is what its own program printed, and   *)
(* that program ran to its end, over retries, failures and a quota that is *)
(* spent at any call; runs of run_reverify that overlap or are cut short   *)
(* and committed are excepted, as they write the columns they changed      *)
(* (codegen.py:87-128, reverify.py:58-78).                                 *)
AnswerIsFromItsCode ==
    ~mixed => \A i \in DOMAIN variants :
        variants[i].status = "verified" => Sound(variants[i].code, variants[i].answer)

(* The files that a render leaves belong together, whatever generate, job  *)
(* and reverify did to the rows between one file and the next: manual and  *)
(* handout hold the same problems, each with the program that is in its    *)
(* file and the answer that it printed (render.py:355-404).                *)
RenderedFilesAgree ==
    ~torn /\ (\A s \in Slots : command[s] # "render") =>
        /\ handout = [i \in DOMAIN manual |-> manual[i].row]
        /\ DOMAIN manual \subseteq DOMAIN folder
        /\ \A i \in DOMAIN manual :
             /\ folder[i] = manual[i].code
             /\ ~mixed => Sound(manual[i].code, manual[i].answer)

(* Unless two generate commands overlapped, they leave at most one         *)
(* verified variant of a concept, though run_reverify may fail one and     *)
(* another is made in its place, while a second run_reverify that read it  *)
(* as verified is still to write it (cli/main.py:221-230,                  *)
(* reverify.py:58-78).                                                     *)
OneVerifiedPerConcept ==
    ~doubled => \A i, j \in DOMAIN variants :
        /\ variants[i].by = "generate" /\ variants[i].status = "verified"
        /\ variants[j].by = "generate" /\ variants[j].status = "verified"
        /\ variants[i].concept = variants[j].concept
        => i = j

(* Calibration matches only where each value of the book has a result of   *)
(* its own, and misses that only where one result would do for two values  *)
(* or a value is 0; a blind answer agrees exactly when each result has a   *)
(* value, not 0, that confirms it (calibration.py:72-102,                  *)
(* blind_resolve_batch.py:129-146).  Both write nothing, and are looked at *)
(* once, before the first command.                                         *)
VerdictsAreRight ==
    phase = "handed" /\ (\A c \in DOMAIN starts : starts[c] = 0) =>
        \A solver \in Solvers, refs \in References :
            LET book == Backfilled(refs) IN
            /\ Match(solver, book) => Assignable(solver, book)
            /\ Assignable(solver, book) /\ Distinguishable(solver, book) => Match(solver, book)
            /\ Agrees(solver, refs) <=> Confirmed(solver, refs)
==============================================================================
