------------------------------ MODULE MCIngest -------------------------------
(* Ingest for TLC, with a ghost that remembers whether two runs were ever  *)
(* under way at once.                                                      *)
EXTENDS Ingest, TLC

CONSTANTS f1, f2, f3, e1, e2

(* Two scans of one edition and another book.                              *)
Editions == [f \in Files |-> IF f = f3 THEN e2 ELSE e1]
Pages    == [f \in Files |-> IF f = f1 THEN {1, 2, 3} ELSE {1, 2}]

VARIABLE overlapped

MCInit == Init /\ overlapped = FALSE

MCNext == Next /\ overlapped' = (overlapped \/ Cardinality(Running') > 1)

MCSpec == MCInit /\ [][MCNext]_<<vars, overlapped>>

Symmetry == Permutations(Runs)

-----------------------------------------------------------------------------
(* Runs that never overlap are never refused by an index, whatever earlier *)
(* ones left half done, so their jobs do not stay RUNNING.                 *)
OneAtATimeNeverRefused == ~overlapped => \A t \in Runs : pc[t] # "aborted"

(* Runs that never overlap need the death of one to put two books of an    *)
(* edition on the shelf of one discipline (pipeline.py:7-8, 317-334).      *)
OneAtATimeDuplicatesOnlyAfterCrash ==
    ~overlapped /\ (\A t \in Runs : pc[t] # "crashed") => OneBookPerEdition
==============================================================================
