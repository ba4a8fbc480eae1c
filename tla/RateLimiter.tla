----------------------------- MODULE RateLimiter -----------------------------
(***************************************************************************)
(* The daily request quota (src/practice_forge/llm/rate_limiter.py): a     *)
(* counter per provider, model and UTC date in one JSON file.  acquire()   *)
(* loads the file, refuses the call when the count has reached rpd, else   *)
(* saves the count plus one, all under a lock that belongs to one          *)
(* RateLimiter object.  Every LLMClient and every embed_texts call makes   *)
(* its own object, in every worker, API and CLI process, on the same file. *)
(*                                                                         *)
(* Saving is Path.write_text: the file is truncated, then written.  The    *)
(* RPM pacing that follows is module TokenBucket.                          *)
(***************************************************************************)
EXTENDS Integers, FiniteSets

CONSTANTS
    Callers,      \* threads that call acquire()
    Limiters,     \* RateLimiter objects, one process each
    LimiterOf,    \* the object a caller uses
    Keys,         \* "provider:model:date"
    Rpd,          \* the daily quota of a key
    CrashPoints,  \* where a process may die inside acquire()
    MaxCalls,     \* bound: the calls one caller makes
    Torn,         \* a file that does not parse
    NoCaller      \* the holder of a free lock

ASSUME RateLimiterAssumption ==
    /\ LimiterOf \in [Callers -> Limiters]
    /\ Rpd \in [Keys -> Nat]
    /\ CrashPoints \subseteq {"load", "truncate", "write"}
    /\ MaxCalls \in Nat
    /\ NoCaller \notin Callers
    /\ Torn \notin [Keys -> Nat]

VARIABLES
    file,         \* the counts the file holds, or Torn
    holder,       \* holder[l]: the caller inside limiter l's lock, or NoCaller
    pc,
    key,          \* the key a caller asks for
    buf,          \* the counts a caller is about to save
    calls,        \* calls made so far, for the bound
    granted       \* ghost: calls acquire() let through, by key

vars == <<file, holder, pc, key, buf, calls, granted>>

Counts == [Keys -> Nat]
Zero == [k \in Keys |-> 0]

TypeOK ==
    /\ file \in Counts \cup {Torn}
    /\ holder \in [Limiters -> Callers \cup {NoCaller}]
    /\ pc \in [Callers -> {"idle", "lock", "load", "truncate", "write", "refused"}]
    /\ key \in [Callers -> Keys]
    /\ buf \in [Callers -> Counts]
    /\ calls \in [Callers -> Nat]
    /\ granted \in Counts

(* No file yet is a file of zeros: _load_state answers {} for both.        *)
Init ==
    /\ file = Zero
    /\ holder = [l \in Limiters |-> NoCaller]
    /\ pc = [t \in Callers |-> "idle"]
    /\ key \in [Callers -> Keys]
    /\ buf = [t \in Callers |-> Zero]
    /\ calls = [t \in Callers |-> 0]
    /\ granted = Zero

Goto(t, p) == pc' = [pc EXCEPT ![t] = p]

Unlock(t) == holder' = [holder EXCEPT ![LimiterOf[t]] = NoCaller]

(* A file that does not parse counts as empty, for every key.              *)
LoadState == IF file = Torn THEN Zero ELSE file

Call(t, k) ==
    /\ pc[t] \in {"idle", "refused"}
    /\ calls[t] < MaxCalls
    /\ key' = [key EXCEPT ![t] = k]
    /\ calls' = [calls EXCEPT ![t] = @ + 1]
    /\ Goto(t, "lock")
    /\ UNCHANGED <<file, holder, buf, granted>>

Lock(t) ==
    /\ pc[t] = "lock"
    /\ holder[LimiterOf[t]] = NoCaller
    /\ holder' = [holder EXCEPT ![LimiterOf[t]] = t]
    /\ Goto(t, "load")
    /\ UNCHANGED <<file, key, buf, calls, granted>>

(* Fault: the quota admits one call too many.                              *)
LoadLate(t) ==
    /\ pc[t] = "load"
    /\ \/ /\ LoadState[key[t]] > Rpd[key[t]]
          /\ Goto(t, "refused")
          /\ Unlock(t)
          /\ UNCHANGED buf
       \/ /\ LoadState[key[t]] <= Rpd[key[t]]
          /\ buf' = [buf EXCEPT ![t] = [LoadState EXCEPT ![key[t]] = @ + 1]]
          /\ Goto(t, "truncate")
          /\ UNCHANGED holder
    /\ UNCHANGED <<file, key, calls, granted>>

(* Fault: the last call of the quota is refused.                           *)
LoadEarly(t) ==
    /\ pc[t] = "load"
    /\ \/ /\ LoadState[key[t]] + 1 >= Rpd[key[t]]
          /\ Goto(t, "refused")
          /\ Unlock(t)
          /\ UNCHANGED buf
       \/ /\ LoadState[key[t]] + 1 < Rpd[key[t]]
          /\ buf' = [buf EXCEPT ![t] = [LoadState EXCEPT ![key[t]] = @ + 1]]
          /\ Goto(t, "truncate")
          /\ UNCHANGED holder
    /\ UNCHANGED <<file, key, calls, granted>>

(* Load the file and compare; DailyQuotaExhausted leaves the lock.         *)
Load(t) ==
    /\ pc[t] = "load"
    /\ \/ /\ LoadState[key[t]] >= Rpd[key[t]]
          /\ Goto(t, "refused")
          /\ Unlock(t)
          /\ UNCHANGED buf
       \/ /\ LoadState[key[t]] < Rpd[key[t]]
          /\ buf' = [buf EXCEPT ![t] = [LoadState EXCEPT ![key[t]] = @ + 1]]
          /\ Goto(t, "truncate")
          /\ UNCHANGED holder
    /\ UNCHANGED <<file, key, calls, granted>>

(* write_text opens the file for writing, which empties it ...             *)
Truncate(t) ==
    /\ pc[t] = "truncate"
    /\ file' = Torn
    /\ Goto(t, "write")
    /\ UNCHANGED <<holder, key, buf, calls, granted>>

(* ... and then writes from offset 0.  Over what another process wrote     *)
(* since, a shorter text leaves the tail of the longer one behind.         *)
Write(t) ==
    /\ pc[t] = "write"
    /\ \/ file' = buf[t]
       \/ file # Torn /\ file' = Torn
    /\ granted' = [granted EXCEPT ![key[t]] = @ + 1]
    /\ Goto(t, "idle")
    /\ Unlock(t)
    /\ UNCHANGED <<key, buf, calls>>

(* A process dies, and with it every call on its limiter.                  *)
Crash(l) ==
    /\ holder[l] # NoCaller
    /\ pc[holder[l]] \in CrashPoints
    /\ pc' = [t \in Callers |-> IF LimiterOf[t] = l THEN "idle" ELSE pc[t]]
    /\ holder' = [holder EXCEPT ![l] = NoCaller]
    /\ UNCHANGED <<file, key, buf, calls, granted>>

Step(t) == Lock(t) \/ Load(t) \/ Truncate(t) \/ Write(t)

Next ==
    \/ \E t \in Callers : (\E k \in Keys : Call(t, k)) \/ Step(t)
    \/ \E l \in Limiters : Crash(l)

Spec == Init /\ [][Next]_vars

-----------------------------------------------------------------------------
(* Properties.                                                             *)

(* No call beyond rpd is let through (rate_limiter.py:1-3, "enforcing      *)
(* RPD").  It takes a single limiter, and no death in the middle of a save.*)
QuotaKept == \A k \in Keys : granted[k] <= Rpd[k]

(* With any number of processes and crashes the file never counts a call   *)
(* that was not let through: lost and torn writes only lose counts.        *)
NeverOvercounts ==
    file # Torn => \A k \in Keys : file[k] <= granted[k]

(* With any number of processes and crashes a call is refused only when    *)
(* rpd calls really were let through: races never stop a run early.        *)
RefusedOnlyWhenSpent ==
    \A t \in Callers : pc[t] = "refused" => granted[key[t]] >= Rpd[key[t]]

InLock == {"load", "truncate", "write"}

(* The lock of a limiter is held by nobody who has left acquire(), by the  *)
(* exception, by returning or by dying: no caller waits for ever.          *)
LockIsReleased ==
    \A l \in Limiters : holder[l] # NoCaller =>
        LimiterOf[holder[l]] = l /\ pc[holder[l]] \in InLock

-----------------------------------------------------------------------------
(* The inductive invariants of the proofs.                                 *)

(* What a caller is about to save was counted from calls let through.      *)
SaveInv ==
    /\ NeverOvercounts
    /\ RefusedOnlyWhenSpent
    /\ \A t \in Callers, k \in Keys : pc[t] \in {"truncate", "write"} =>
         buf[t][k] <= granted[k] + (IF k = key[t] THEN 1 ELSE 0)

LockInv ==
    /\ LockIsReleased
    /\ \A t \in Callers : pc[t] \in InLock => holder[LimiterOf[t]] = t

(* With one limiter the file is exact except while a save is under way.    *)
ExactInv ==
    /\ QuotaKept
    /\ (\A t \in Callers : pc[t] # "write") => file = granted
    /\ \A t \in Callers : pc[t] = "write" => file = Torn
    /\ \A t \in Callers : pc[t] \in {"truncate", "write"} =>
         /\ granted[key[t]] < Rpd[key[t]]
         /\ buf[t] = [granted EXCEPT ![key[t]] = @ + 1]
==============================================================================
