------------------------------ MODULE MCUpload -------------------------------
(* Upload for TLC, with a ghost that remembers whether the client ever had *)
(* two PATCHes in hand at once.                                            *)
EXTENDS Upload

VARIABLE overlapped

MCInit == Init /\ overlapped = FALSE

MCNext == Next /\ overlapped' = (overlapped \/ Cardinality(InHand') > 1)

MCSpec == MCInit /\ [][MCNext]_<<vars, overlapped>> /\ Fairness

-----------------------------------------------------------------------------
(* A client that sends a PATCH only once the one before is over, answered  *)
(* or not, has its upload ingested once (books.py:7-8).                    *)
OneAtATimeIngestedOnce == ~overlapped => IngestedOnce
==============================================================================
