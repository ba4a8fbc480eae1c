----------------------------- MODULE TokenBucket -----------------------------
(***************************************************************************)
(* RPM pacing (_TokenBucket in src/practice_forge/llm/rate_limiter.py).    *)
(* Time is in seconds and Window is the 60 of the code.  The bucket is     *)
(* kept in units of 1/Window token, so that the refill of rpm/60 tokens    *)
(* per second is rpm units and no fraction is lost.                        *)
(*                                                                         *)
(* An observer opens one window at any moment and counts what is acquired  *)
(* from then until Window seconds later.                                   *)
(***************************************************************************)
EXTENDS Integers

CONSTANTS
    Rpm,
    Window,
    MaxSleep,     \* the longest sleep between two looks at the bucket
    MaxTime       \* bound: the clock stops here

ASSUME TokenBucketAssumption ==
    /\ Rpm \in Nat \ {0}
    /\ Window \in Nat \ {0}
    /\ MaxSleep \in Nat \ {0}
    /\ MaxTime \in Nat

VARIABLES
    now,
    tokens,       \* _tokens, in units
    last,         \* _last_refill
    waiting,      \* a caller is inside acquire()
    from,         \* ghost: when the observer's window opened, or Closed
    count,        \* ghost: acquisitions in it
    sleeps        \* ghost: times the caller has slept

vars == <<now, tokens, last, waiting, from, count, sleeps>>

Closed == -1
Capacity == Rpm * Window

TypeOK ==
    /\ now \in Nat
    /\ tokens \in 0..Capacity
    /\ last \in Nat
    /\ waiting \in BOOLEAN
    /\ from \in Nat \cup {Closed}
    /\ count \in Nat
    /\ sleeps \in Nat

Init ==
    /\ now = 0
    /\ tokens = Capacity
    /\ last = 0
    /\ waiting = FALSE
    /\ from = Closed
    /\ count = 0
    /\ sleeps = 0

Smaller(a, b) == IF a <= b THEN a ELSE b

(* Fault: the refill is not capped.                                        *)
RefilledUncapped == tokens + (now - last) * Rpm

(* What the bucket holds once refilled up to now.                          *)
Refilled == Smaller(Capacity, tokens + (now - last) * Rpm)

InWindow == from # Closed /\ now <= from + Window

Call ==
    /\ ~waiting
    /\ waiting' = TRUE
    /\ sleeps' = 0
    /\ UNCHANGED <<now, tokens, last, from, count>>

(* One turn of the loop of acquire(): refill, then take a token ...        *)
Take ==
    /\ waiting
    /\ Refilled >= Window
    /\ tokens' = Refilled - Window
    /\ last' = now
    /\ waiting' = FALSE
    /\ count' = IF InWindow THEN count + 1 ELSE count
    /\ UNCHANGED <<now, from, sleeps>>

(* ... or sleep for the time the missing part of a token needs, cut off at *)
(* MaxSleep; the scheduler may wake the caller later than asked.           *)
Sleep ==
    /\ waiting
    /\ Refilled < Window
    /\ tokens' = Refilled
    /\ last' = now
    /\ \E d \in 1..(MaxTime - now) :
         /\ \/ d >= MaxSleep
            \/ d * Rpm >= Window - Refilled
         /\ now' = now + d
    /\ sleeps' = sleeps + 1
    /\ UNCHANGED <<waiting, from, count>>

(* Time passes outside sleep() too.                                        *)
Tick ==
    /\ now < MaxTime
    /\ now' = now + 1
    /\ UNCHANGED <<tokens, last, waiting, from, count, sleeps>>

OpenWindow ==
    /\ from = Closed
    /\ from' = now
    /\ count' = 0
    /\ UNCHANGED <<now, tokens, last, waiting, sleeps>>

Next == Call \/ Take \/ Sleep \/ Tick \/ OpenWindow

Spec == Init /\ [][Next]_vars

-----------------------------------------------------------------------------
(* Properties.                                                             *)

(* A full bucket plus the refill of a window: at most 2 * Rpm acquisitions *)
(* in any window, wherever it starts.  The docstring (rate_limiter.py:42)  *)
(* says Rpm, which a burst after a pause exceeds.                          *)
AtMostTwiceRpm == count <= 2 * Rpm

(* acquire() does not loop for long: MaxSleep by MaxSleep the sleeps make   *)
(* up the missing token, and the last one needs no other, for no refill is *)
(* forgotten between two looks at the bucket.                              *)
SleepsBounded == waiting /\ sleeps > 0 => (sleeps - 1) * MaxSleep * Rpm < Window

-----------------------------------------------------------------------------
(* What the bound rests on: every acquisition of the open window has been  *)
(* paid for from the bucket as it was when the window opened, at most      *)
(* Capacity, or from the refill since.                                     *)
Paid ==
    /\ last <= now
    /\ from # Closed => from <= now
    /\ from = Closed => count = 0
    /\ from # Closed /\ last >= from /\ now <= from + Window =>
         count * Window + tokens <= Capacity + (last - from) * Rpm
    /\ from # Closed /\ last < from => count = 0
    /\ AtMostTwiceRpm

(* The bucket of a sleeping caller holds what it slept for so far, but for *)
(* the last sleep, which is long or ends with a full token.                *)
SleptFor ==
    /\ tokens < Window
    /\ (sleeps - 1) * MaxSleep * Rpm <= tokens
    /\ now - last >= MaxSleep \/ tokens + (now - last) * Rpm >= Window

Slept == waiting /\ sleeps > 0 => SleptFor
==============================================================================
