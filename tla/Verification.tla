----------------------------- MODULE Verification ----------------------------
(***************************************************************************)
(* From selected concepts to files: variants are generated and solved      *)
(* (S8, S9 Part A) by `pf generate` and by the worker's jobs, solved again *)
(* by run_reverify, and rendered by `pf render` (S10).  Each command is a  *)
(* process with a database session of its own, started by hand, at any     *)
(* time.                                                                   *)
(*                                                                         *)
(* Of the programs that the LLM writes, what matters is how the sandbox    *)
(* reports a run of each (sandbox/runner.py); a program runs the same each *)
(* time.  An answer is what some program printed.                          *)
(***************************************************************************)
EXTENDS Integers, Sequences, FiniteSets, Functions

CONSTANTS
    Concepts,     \* numbers; a set is in their order
    Programs,
    Ran,          \* how the run of each ends
    None,         \* no answer, no program, nothing printed
    Slots,
    MaxVariants,
    MaxStarts,    \* how often each command is started
    MaxCommands   \* how many are, in all

Commands == {"generate", "job", "reverify", "render"}

Statuses == {"pending", "verified", "failed"}

(* What the constants are; the module that instantiates this one assumes   *)
(* it.                                                                     *)
VerificationAssumption ==
    /\ Concepts \subseteq Nat
    /\ IsFiniteSet(Concepts)
    /\ None \notin Programs
    /\ DOMAIN Ran = Programs
    /\ \A p \in Programs : /\ Ran[p].exit \in Nat
                           /\ {Ran[p].timed_out, Ran[p].oom_killed} \subseteq BOOLEAN
    /\ IsFiniteSet(Slots)
    /\ MaxVariants \in Nat
    /\ MaxStarts \in [Commands -> Nat]
    /\ MaxCommands \in Nat

VARIABLES
    chosen,       \* the concepts that selection returns
    variants,     \* rows of variants
    folder,       \* the files of the programs, by their number
    handout,      \* the problems of the student handout
    manual,       \* the problems, programs and answers of the manual
    starts,
    command,      \* the command of a slot, or idle
    step,         \* where it stands
    work,         \* what it is still to solve, with the rows as it read them
    cur,          \* the one it is solving
    pages,        \* what it is rendering
    wrote         \* how many programs of it are in their files

files == <<folder, handout, manual>>
local == <<step, work, cur, pages, wrote>>
vars  == <<chosen, variants, files, starts, command, local>>

-----------------------------------------------------------------------------
(* Fault: a killed program may have exited with 0.                         *)
OkByExit(p) == Ran[p].exit = 0

(* SandboxResult.ok                                                        *)
Ok(p) == Ran[p].exit = 0 /\ ~Ran[p].timed_out /\ ~Ran[p].oom_killed

(* _parse_results: the values of the RESULT lines, if there are any.       *)
Printed(p) == Ran[p].printed

Code == Programs \cup {None}

Answer == {Printed(p) : p \in Programs} \cup {None}

Variant == [concept : Concepts, by : {"generate", "job"}, status : Statuses,
            code : Code, answer : Answer]

Task == [row : 0 .. MaxVariants, base : Variant, now : Variant]

Page == [row : 1 .. MaxVariants, code : Code, answer : Answer]

Verified(c) == {i \in DOMAIN variants : variants[i].concept = c /\ variants[i].status = "verified"}

(* generate_variant, not solved yet.                                       *)
Fresh(c, by) == [concept |-> c, by |-> by, status |-> "pending", code |-> None, answer |-> None]

ToSolve(row, variant) == [row |-> row, base |-> variant, now |-> variant]

NoTask == ToSolve(0, Fresh(0, "job"))

(* _collect_rendered_problems: of each selected concept that has one, the  *)
(* verified variant with the highest id; ids are random.                   *)
Collected ==
    {pick \in [{c \in chosen : Verified(c) # {}} -> DOMAIN variants] :
        \A c \in DOMAIN pick : pick[c] \in Verified(c)}

TypeOK ==
    /\ chosen \in SUBSET Concepts
    /\ variants \in Seq(Variant) /\ Len(variants) <= MaxVariants
    /\ \A i \in DOMAIN folder : i \in Nat /\ folder[i] \in Code
    /\ handout \in Seq(1 .. MaxVariants)
    /\ manual \in Seq(Page)
    /\ starts \in [Commands -> Nat]
    /\ command \in [Slots -> Commands \cup {"idle"}]
    /\ step \in [Slots -> {"take", "solve", "retry", "save", "code", "handout", "manual"}]
    /\ work \in [Slots -> SUBSET Task]
    /\ cur \in [Slots -> Task \cup {NoTask}]
    /\ pages \in [Slots -> Seq(Page)]
    /\ wrote \in [Slots -> Nat]

Init ==
    /\ chosen \in SUBSET Concepts
    /\ variants = << >>
    /\ folder = << >>
    /\ handout = << >>
    /\ manual = << >>
    /\ starts = [c \in Commands |-> 0]
    /\ command = [s \in Slots |-> "idle"]
    /\ step = [s \in Slots |-> "take"]
    /\ work = [s \in Slots |-> {}]
    /\ cur = [s \in Slots |-> NoTask]
    /\ pages = [s \in Slots |-> << >>]
    /\ wrote = [s \in Slots |-> 0]

Begin(s, c) ==
    /\ command[s] = "idle"
    /\ starts[c] < MaxStarts[c]
    /\ SumFunction(starts) < MaxCommands
    /\ starts' = [starts EXCEPT ![c] = @ + 1]
    /\ command' = [command EXCEPT ![s] = c]

End(s) ==
    /\ command' = [command EXCEPT ![s] = "idle"]
    /\ step' = [step EXCEPT ![s] = "take"]
    /\ work' = [work EXCEPT ![s] = {}]
    /\ cur' = [cur EXCEPT ![s] = NoTask]
    /\ pages' = [pages EXCEPT ![s] = << >>]
    /\ wrote' = [wrote EXCEPT ![s] = 0]
    /\ UNCHANGED <<chosen, starts>>

Goto(s, p) == step' = [step EXCEPT ![s] = p]

-----------------------------------------------------------------------------
(* Solving.                                                                *)

(* by is "generate" for the command line and "job" for the worker.         *)
StartGenerate(s, by) ==
    /\ Begin(s, by)
    /\ work' = [work EXCEPT ![s] = {ToSolve(0, Fresh(c, by)) : c \in chosen}]
    /\ UNCHANGED <<chosen, variants, files, step, cur, pages, wrote>>

(* run_reverify reads all its rows first.                                  *)
StartReverify(s) ==
    /\ Begin(s, "reverify")
    /\ \E pick \in Collected :
         work' = [work EXCEPT ![s] = {ToSolve(pick[c], variants[pick[c]]) : c \in DOMAIN pick}]
    /\ UNCHANGED <<chosen, variants, files, step, cur, pages, wrote>>

(* Fault: what is verified already is generated again.                     *)
TakeAll(s, task) ==
    /\ command[s] \in {"generate", "job", "reverify"}
    /\ step[s] = "take"
    /\ task \in work[s]
    /\ work' = [work EXCEPT ![s] = @ \ {task}]
    /\ \/ command[s] # "reverify" /\ UNCHANGED <<step, cur>>
       \/ cur' = [cur EXCEPT ![s] = task] /\ Goto(s, "solve")
    /\ UNCHANGED <<chosen, variants, files, starts, command, pages, wrote>>

(* The next one.  The command line skips a concept that has a verified     *)
(* variant; one is given up whose statement does not parse, or that is     *)
(* past --limit.                                                           *)
Take(s, task) ==
    /\ command[s] \in {"generate", "job", "reverify"}
    /\ step[s] = "take"
    /\ task \in work[s]
    /\ work' = [work EXCEPT ![s] = @ \ {task}]
    /\ \/ command[s] # "reverify" /\ UNCHANGED <<step, cur>>
       \/ /\ command[s] = "generate" => Verified(task.base.concept) = {}
          /\ cur' = [cur EXCEPT ![s] = task]
          /\ Goto(s, "solve")
    /\ UNCHANGED <<chosen, variants, files, starts, command, pages, wrote>>

(* One program, and its run; the program is kept before it has run.  After *)
(* a second one that is no good the variant is failed and its answer, if   *)
(* it had one, stays.                                                      *)
Solve(s, code) ==
    /\ step[s] \in {"solve", "retry"}
    /\ LET now == cur[s].now IN
       IF Ok(code) /\ Printed(code) # None
       THEN /\ cur' = [cur EXCEPT ![s].now =
                  [now EXCEPT !.code = code, !.answer = Printed(code), !.status = "verified"]]
            /\ Goto(s, "save")
       ELSE IF step[s] = "solve"
       THEN /\ cur' = [cur EXCEPT ![s].now.code = code]
            /\ Goto(s, "retry")
       ELSE /\ cur' = [cur EXCEPT ![s].now.code = code, ![s].now.status = "failed"]
            /\ Goto(s, "save")
    /\ UNCHANGED <<chosen, variants, files, starts, command, work, pages, wrote>>

(* An update writes the columns that differ from what was read; a new      *)
(* program always does.                                                    *)
Flushed(task) ==
    [variants[task.row] EXCEPT
        !.code   = task.now.code,
        !.answer = IF task.now.answer # task.base.answer THEN task.now.answer ELSE @,
        !.status = IF task.now.status # task.base.status THEN task.now.status ELSE @]

(* One commit per variant.  The worker drops one that is not verified.     *)
Save(s) ==
    /\ step[s] = "save"
    /\ variants' =
         CASE command[s] = "reverify" -> [variants EXCEPT ![cur[s].row] = Flushed(cur[s])]
           [] command[s] = "job" /\ cur[s].now.status # "verified" -> variants
           [] OTHER -> Append(variants, cur[s].now)
    /\ Len(variants') <= MaxVariants
    /\ cur' = [cur EXCEPT ![s] = NoTask]
    /\ Goto(s, "take")
    /\ UNCHANGED <<chosen, files, starts, command, work, pages, wrote>>

Finish(s) ==
    /\ command[s] \in {"generate", "job", "reverify"}
    /\ step[s] = "take"
    /\ work[s] = {}
    /\ End(s)
    /\ UNCHANGED <<variants, files>>

(* The quota is spent, and a call is not made.  It ends the command and    *)
(* rolls back, but run_reverify returns: of the variant it was at it       *)
(* leaves a new program in the session, which the caller's session_scope   *)
(* commits if nothing else is raised.                                      *)
Cut(s) ==
    /\ command[s] \in {"generate", "job", "reverify"}
    /\ step[s] \in {"take", "solve", "retry"}
    /\ \/ UNCHANGED variants
       \/ /\ command[s] = "reverify"
          /\ step[s] = "retry"
          /\ variants' = [variants EXCEPT ![cur[s].row] = Flushed(cur[s])]
    /\ End(s)
    /\ UNCHANGED files

-----------------------------------------------------------------------------
(* Rendering.                                                              *)

(* Read the rows of the problems, in the order of their concepts.          *)
StartRender(s) ==
    /\ Begin(s, "render")
    /\ \E pick \in Collected :
         /\ DOMAIN pick # {}
         /\ \E order \in [1 .. Cardinality(DOMAIN pick) -> DOMAIN pick] :
              /\ \A i, j \in DOMAIN order : i < j => order[i] < order[j]
              /\ pages' = [pages EXCEPT ![s] =
                    [i \in DOMAIN order |->
                        LET v == pick[order[i]] IN
                        [row |-> v, code |-> variants[v].code, answer |-> variants[v].answer]]]
    /\ Goto(s, "code")
    /\ UNCHANGED <<chosen, variants, files, work, cur, wrote>>

(* The next program; files of a longer set that was there before stay.     *)
WriteCode(s) ==
    /\ step[s] = "code"
    /\ \E i \in DOMAIN pages[s] :
         /\ i = wrote[s] + 1
         /\ folder' = [j \in DOMAIN folder \cup {i} |->
                          IF j = i THEN pages[s][i].code ELSE folder[j]]
         /\ wrote' = [wrote EXCEPT ![s] = i]
         /\ Goto(s, IF i = Len(pages[s]) THEN "handout" ELSE "code")
    /\ UNCHANGED <<chosen, variants, handout, manual, starts, command, work, cur, pages>>

WriteHandout(s) ==
    /\ step[s] = "handout"
    /\ handout' = [i \in DOMAIN pages[s] |-> pages[s][i].row]
    /\ Goto(s, "manual")
    /\ UNCHANGED <<chosen, variants, folder, manual, starts, command, work, cur, pages, wrote>>

(* Fault: the manual is put together from the rows as they are by now.     *)
WriteManualAnew(s) ==
    /\ step[s] = "manual"
    /\ manual' = [i \in DOMAIN pages[s] |->
           LET v == pages[s][i].row IN
           [row |-> v, code |-> variants[v].code, answer |-> variants[v].answer]]
    /\ End(s)
    /\ UNCHANGED <<variants, folder, handout>>

WriteManual(s) ==
    /\ step[s] = "manual"
    /\ manual' = pages[s]
    /\ End(s)
    /\ UNCHANGED <<variants, folder, handout>>

(* Compiling a document fails, or the process is stopped.                  *)
StopRender(s) ==
    /\ command[s] = "render"
    /\ End(s)
    /\ UNCHANGED <<variants, files>>

Next ==
    \E s \in Slots :
        \/ \E by \in {"generate", "job"} : StartGenerate(s, by)
        \/ StartReverify(s)
        \/ \E task \in work[s] : Take(s, task)
        \/ \E code \in Programs : Solve(s, code)
        \/ Save(s) \/ Finish(s) \/ Cut(s)
        \/ StartRender(s) \/ WriteCode(s) \/ WriteHandout(s) \/ WriteManual(s) \/ StopRender(s)

Spec == Init /\ [][Next]_vars
==============================================================================
