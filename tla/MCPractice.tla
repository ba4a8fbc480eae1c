------------------------------ MODULE MCPractice -----------------------------
(* Practice for TLC, with two commands at once.                            *)
EXTENDS Practice, TLC

CONSTANTS s1, s2

Perms == Permutations({s1, s2})

Both(a, b) == {<<a, b>>, <<b, a>>}

MCSims == {{}, Both(4, 3), Both(4, 2) \cup Both(3, 1), Both(4, 3) \cup Both(4, 2)}

(* The scores differ and are higher for a higher number.                   *)
MCPools ==
    {[section |-> s, label |-> l, score |-> [m \in Concepts |-> m], scored |-> Concepts,
      physics |-> ph, similar |-> sim] :
        s \in {f \in [Concepts -> Sections] : f[1] = "a"},
        l \in [Concepts -> {0, 2}], ph \in {{}, {2, 4}}, sim \in MCSims}

MCRequests ==
    {[target |-> t, mix |-> NoMix, sections |-> c, issued |-> i] :
        t \in {2, 3}, c \in {{}, {"a"}}, i \in {{}, {4}}}
    \cup {[target |-> 3, mix |-> [easy |-> e, medium |-> 0, hard |-> 2],
           sections |-> {}, issued |-> {}] : e \in {0, 1}}

MCMaxStarts == [generate |-> 2, job |-> 1, reverify |-> 2, render |-> 2]

MCPrograms == {"p", "q", "killed"}

(* One is killed for its memory when it has printed its result.            *)
MCRan ==
    [p \in MCPrograms |->
        [exit |-> 0, timed_out |-> FALSE, oom_killed |-> p = "killed",
         printed |-> IF p = "q" THEN "w" ELSE "v"]]

(* A kilo-unit, and one that does not start at 0.                          *)
MCUnits ==
    [u \in {"k", "c"} |-> IF u = "k" THEN [mult |-> 10, add |-> 0] ELSE [mult |-> 1, add |-> 10]]

MCSolvers == UNION {[1 .. n -> {0, 9, 10, 11, 20}] : n \in 1 .. 3}

MCReferences ==
    UNION {[1 .. n -> [value : {0, 1, 2, 10, 11}, unit : {"", "k", "c"}]] : n \in 1 .. 2}

-----------------------------------------------------------------------------
(* Properties.                                                             *)

(* What the code says of itself: a set that cannot reach its target is     *)
(* reported as such, never returned short as one that does (cli/main.py:   *)
(* 364-365, selection.py:10-13).                                           *)
NeverShortSilently == reachable => Cardinality(selected) = Target
==============================================================================
