--------------------------- MODULE MCRateLimiter -----------------------------
(* RateLimiter for TLC: two threads share a limiter and a third has one of *)
(* its own.  Ghosts remember which limiters were used and whether a        *)
(* process died in the middle of a save.                                   *)
EXTENDS RateLimiter

CONSTANTS l1, l2, t1, t2, t3, k1, k2

Layout == [t \in Callers |-> IF t = t3 THEN l2 ELSE l1]
Quotas == [k \in Keys |-> IF k = k1 THEN 2 ELSE 1]

VARIABLES used, died

MCInit == Init /\ used = {} /\ died = FALSE

MCNext ==
    /\ Next
    /\ used' = used \cup {l \in Limiters : holder'[l] # NoCaller}
    /\ died' = (died \/ \E t \in Callers :
                          pc[t] = "write" /\ pc'[t] = "idle" /\ granted' = granted)

MCSpec == MCInit /\ [][MCNext]_<<vars, used, died>>

OneLimiterOnly == (\A l, m \in used : l = m) /\ ~died

-----------------------------------------------------------------------------
(* While all calls go through one limiter, and no process dies in the      *)
(* middle of a save, no call beyond rpd is let through, and the file counts*)
(* every call that was, whenever no thread is inside the lock              *)
(* (rate_limiter.py:1-3, 93-96).                                           *)
QuotaKeptByOneLimiter ==
    OneLimiterOnly =>
        /\ QuotaKept
        /\ (\A l \in Limiters : holder[l] = NoCaller) =>
               \A k \in Keys : LoadState[k] = granted[k]
==============================================================================
