-------------------------- MODULE TokenBucketProofs --------------------------
(***************************************************************************)
(* The bound on the request rate, for every rpm and every window length.   *)
(* Terms such as Rpm * Window are products of parameters; the facts about  *)
(* them are proved once and named, so that the steps are linear.           *)
(***************************************************************************)
EXTENDS TokenBucket, TLAPS

LEMMA Products ==
    ASSUME NEW a \in Nat, NEW b \in Nat
    PROVE  a * b \in Nat
OBVIOUS

LEMMA CapacityNat == Capacity \in Nat /\ Capacity >= Window
<1>1. Capacity \in Nat
  BY TokenBucketAssumption, Products DEF Capacity
<1>2. Rpm * Window = Window + (Rpm - 1) * Window
  BY TokenBucketAssumption
<1>3. (Rpm - 1) * Window \in Nat
  BY TokenBucketAssumption, Products
<1> QED
  BY <1>1, <1>2, <1>3, TokenBucketAssumption DEF Capacity

(* The refill since the last look, and what the bucket then holds.         *)
LEMMA RefillBounds ==
    ASSUME TypeOK, last <= now
    PROVE  /\ (now - last) * Rpm \in Nat
           /\ Refilled \in 0..Capacity
           /\ Refilled <= tokens + (now - last) * Rpm
<1>1. (now - last) * Rpm \in Nat
  BY Products, TokenBucketAssumption DEF TypeOK
<1> QED
  BY <1>1, CapacityNat DEF TypeOK, Refilled, Smaller

(* Type correctness; the clock never runs behind the bucket.               *)
LEMMA WaitingStep ==
    waiting \in BOOLEAN /\ [Next]_vars => waiting' \in BOOLEAN
BY Zenon DEF Next, Call, Take, Sleep, Tick, OpenWindow, vars

Clock == last <= now

Numbers ==
    /\ now \in Nat
    /\ last \in Nat
    /\ tokens \in 0..Capacity
    /\ from \in Nat \cup {Closed}
    /\ count \in Nat
    /\ sleeps \in Nat
    /\ last <= now

LEMMA TypeIsNumbers == TypeOK /\ Clock <=> waiting \in BOOLEAN /\ Numbers
BY Zenon DEF TypeOK, Clock, Numbers

LEMMA NumbersStep ==
    ASSUME TypeOK, Clock, [Next]_vars
    PROVE  Numbers'
<1>1. /\ now \in Nat
      /\ last \in Nat
      /\ tokens \in 0..Capacity
      /\ from \in Nat \cup {Closed}
      /\ count \in Nat
      /\ sleeps \in Nat
      /\ last <= now
  BY TypeIsNumbers, Zenon DEF Numbers
<1>2. Refilled \in 0..Capacity
  BY RefillBounds, Zenon DEF Clock
<1>3. CASE Call
  BY <1>1, <1>3 DEF Call, Numbers, Capacity
<1>4. CASE Take
  <2>1. Refilled - Window \in 0..Capacity
    BY <1>4, <1>2, CapacityNat, TokenBucketAssumption DEF Take
  <2>2. count' \in Nat
    BY <1>1, <1>4 DEF Take
  <2> QED
    BY <1>1, <1>4, <2>1, <2>2 DEF Take, Numbers, Capacity
<1>5. CASE Sleep
  <2>1. PICK d \in 1..(MaxTime - now) : now' = now + d
    BY <1>5 DEF Sleep
  <2>2. now' \in Nat /\ now <= now'
    BY <1>1, <2>1, TokenBucketAssumption
  <2> QED
    BY <1>1, <1>2, <1>5, <2>2 DEF Sleep, Numbers, Capacity
<1>6. CASE Tick
  BY <1>1, <1>6 DEF Tick, Numbers, Capacity
<1>7. CASE OpenWindow
  BY <1>1, <1>7 DEF OpenWindow, Numbers, Capacity
<1>8. CASE UNCHANGED vars
  BY <1>1, <1>8 DEF vars, Numbers, Capacity
<1> QED
  BY <1>3, <1>4, <1>5, <1>6, <1>7, <1>8, Zenon DEF Next

THEOREM TypeCorrect == Spec => [](TypeOK /\ Clock)
<1>1. Init => TypeOK /\ Clock
  <2> SUFFICES ASSUME Init PROVE TypeOK /\ Clock
    OBVIOUS
  <2>1. waiting \in BOOLEAN
    BY Zenon DEF Init
  <2>2. tokens \in 0..Capacity
    BY CapacityNat DEF Init
  <2>3. now \in Nat /\ last \in Nat /\ count \in Nat /\ sleeps \in Nat /\ last <= now
    BY DEF Init
  <2>4. from \in Nat \cup {Closed}
    BY DEF Init
  <2> QED
    BY <2>1, <2>2, <2>3, <2>4, Zenon DEF TypeOK, Clock
<1>2. TypeOK /\ Clock /\ [Next]_vars => (TypeOK /\ Clock)'
  BY WaitingStep, NumbersStep, Zenon DEF TypeOK, Clock, Numbers
<1> QED
  BY <1>1, <1>2, PTL DEF Spec

LEMMA Distribute ==
    ASSUME NEW a \in Int, NEW b \in Int, NEW r \in Int
    PROVE  (a + b) * r = a * r + b * r
OBVIOUS

LEMMA Cancel ==
    ASSUME NEW n \in Nat, NEW m \in Nat, NEW w \in Nat \ {0}, n * w <= m * w
    PROVE  n <= m
<1>1. CASE m < n
  <2>1. n * w = m * w + (n - m) * w
    BY Distribute
  <2>2. (n - m) * w = (n - m - 1) * w + w
    BY Distribute
  <2>3. (n - m - 1) * w \in Nat
    BY Products, <1>1
  <2>4. m * w \in Nat /\ n * w \in Nat
    BY Products
  <2> QED
    BY <2>1, <2>2, <2>3, <2>4
<1> QED
  BY <1>1

(* The refill of an interval within the window is at most a full bucket.   *)
LEMMA WindowRefill ==
    ASSUME NEW d \in Nat, d <= Window
    PROVE  d * Rpm \in Nat /\ d * Rpm <= Capacity
<1>1. d * Rpm \in Nat /\ (Window - d) * Rpm \in Nat
  BY Products, TokenBucketAssumption
<1>2. Window * Rpm = d * Rpm + (Window - d) * Rpm
  BY Distribute, TokenBucketAssumption
<1> QED
  BY <1>1, <1>2, TokenBucketAssumption DEF Capacity

(* What a refill to b leaves of the account: the observer's window is      *)
(* open, and the bucket is looked at inside it.                            *)
LEMMA Refill ==
    ASSUME TypeOK, Paid, from # Closed, now <= from + Window
    PROVE  count * Window + Refilled <= Capacity + (now - from) * Rpm
<1>0. /\ now \in Nat /\ last \in Nat /\ tokens \in Nat /\ from \in Nat /\ count \in Nat
      /\ from <= now /\ last <= now
  BY DEF TypeOK, Paid, Closed, Capacity
<1>1. (now - from) * Rpm \in Nat
  BY <1>0, Products, TokenBucketAssumption
<1>2. CASE last >= from
  <2>1. count * Window + tokens <= Capacity + (last - from) * Rpm
    BY <1>2 DEF Paid
  <2>2. (now - from) * Rpm = (last - from) * Rpm + (now - last) * Rpm
    BY <1>0, Distribute, TokenBucketAssumption
  <2>3. Refilled \in Nat /\ Refilled <= tokens + (now - last) * Rpm
    BY <1>0, RefillBounds, CapacityNat
  <2>4. (last - from) * Rpm \in Nat /\ (now - last) * Rpm \in Nat /\ count * Window \in Nat
    BY <1>0, <1>2, Products, TokenBucketAssumption
  <2> QED
    BY <1>0, <1>1, <2>1, <2>2, <2>3, <2>4, CapacityNat
<1>3. CASE last < from
  <2>1. count = 0 /\ 0 * Window = 0
    BY <1>3, TokenBucketAssumption DEF Paid
  <2>2. Refilled \in 0..Capacity
    BY <1>0, RefillBounds
  <2> QED
    BY <1>1, <2>1, <2>2, CapacityNat
<1> QED
  BY <1>0, <1>2, <1>3

LEMMA PaidStep ==
    ASSUME TypeOK, Clock, Paid, [Next]_vars
    PROVE  Paid'
<1>0. /\ now \in Nat /\ last \in Nat /\ tokens \in Nat /\ count \in Nat
      /\ from \in Nat \cup {Closed}
      /\ last <= now
  BY CapacityNat DEF TypeOK, Clock
<1>1. CASE Take
  <2>1. now' = now /\ last' = now /\ from' = from /\ tokens' = Refilled - Window
    BY <1>1 DEF Take
  <2>2. CASE InWindow
    <3>1. count' = count + 1 /\ from # Closed /\ now <= from + Window
      BY <1>1, <2>2 DEF Take, InWindow
    <3>2. from \in Nat /\ from <= now /\ now - from \in Nat /\ now - from <= Window
      BY <1>0, <3>1, TokenBucketAssumption DEF Paid
    <3>3. count * Window + Refilled <= Capacity + (now - from) * Rpm
      BY <3>1, Refill
    <3>4. (count + 1) * Window = count * Window + Window
      BY <1>0, Distribute, TokenBucketAssumption
    <3>5. Refilled \in Nat /\ Refilled >= Window
      BY <1>0, <1>1, RefillBounds, CapacityNat DEF Take
    <3>6. (now - from) * Rpm \in Nat /\ (now - from) * Rpm <= Capacity
      BY <3>2, WindowRefill
    <3>7. count * Window \in Nat
      BY <1>0, Products, TokenBucketAssumption
    <3>8. (count + 1) * Window + (Refilled - Window) <= Capacity + (now - from) * Rpm
      BY <3>3, <3>4, <3>5, <3>6, <3>7, CapacityNat, TokenBucketAssumption
    <3>9. (count + 1) * Window <= Capacity + Capacity
      BY <3>4, <3>5, <3>6, <3>7, <3>8, CapacityNat, TokenBucketAssumption
    <3>10. Capacity + Capacity = (2 * Rpm) * Window
      BY TokenBucketAssumption DEF Capacity
    <3>11. count + 1 <= 2 * Rpm
      BY <1>0, <3>9, <3>10, Cancel, TokenBucketAssumption
    <3> QED
      BY <1>0, <2>1, <3>1, <3>2, <3>8, <3>11 DEF Paid, AtMostTwiceRpm, Capacity, Closed
  <2>3. CASE ~InWindow
    <3>1. count' = count
      BY <1>1, <2>3 DEF Take
    <3> QED
      BY <1>0, <2>1, <2>3, <3>1 DEF Paid, AtMostTwiceRpm, InWindow, Closed
  <2> QED
    BY <2>2, <2>3
<1>2. CASE Sleep
  <2>1. last' = now /\ from' = from /\ tokens' = Refilled /\ count' = count
    BY <1>2 DEF Sleep
  <2>2. PICK d \in 1..(MaxTime - now) : now' = now + d
    BY <1>2 DEF Sleep
  <2>3. now' \in Nat /\ now <= now'
    BY <1>0, <2>2, TokenBucketAssumption
  <2>4. from # Closed => from \in Nat /\ from <= now
    BY <1>0 DEF Paid
  <2>5. from # Closed /\ now' <= from + Window =>
          count * Window + Refilled <= Capacity + (now - from) * Rpm
    <3> SUFFICES ASSUME from # Closed, now' <= from + Window
                 PROVE  count * Window + Refilled <= Capacity + (now - from) * Rpm
      OBVIOUS
    <3>1. now <= from + Window
      BY <1>0, <2>3, <2>4, TokenBucketAssumption
    <3> QED
      BY <3>1, Refill
  <2>6. ~(from # Closed /\ now < from)
    BY <1>0, <2>4
  <2> QED
    BY <1>0, <2>1, <2>3, <2>4, <2>5, <2>6 DEF Paid, AtMostTwiceRpm, Capacity, Closed
<1>3. CASE OpenWindow
  <2>1. /\ now' = now /\ last' = last /\ tokens' = tokens
        /\ from' = now /\ count' = 0
    BY <1>3 DEF OpenWindow
  <2>2. 0 * Window = 0 /\ (now - now) * Rpm = 0
    BY <1>0, TokenBucketAssumption
  <2>3. last >= now => last = now
    BY <1>0
  <2>4. tokens <= Capacity
    BY DEF TypeOK, Capacity
  <2> QED
    BY <1>0, <2>1, <2>2, <2>3, <2>4, CapacityNat, TokenBucketAssumption
    DEF Paid, AtMostTwiceRpm, Capacity, Closed
<1>4. CASE Tick
  <2>1. /\ now' = now + 1 /\ last' = last /\ tokens' = tokens
        /\ from' = from /\ count' = count
    BY <1>4 DEF Tick
  <2>2. from # Closed => from \in Nat
    BY <1>0
  <2>3. from # Closed /\ now' <= from + Window => now <= from + Window
    BY <1>0, <2>1, <2>2, TokenBucketAssumption
  <2> QED
    BY <1>0, <2>1, <2>2, <2>3 DEF Paid, AtMostTwiceRpm, Capacity, Closed
<1>5. CASE Call \/ UNCHANGED vars
  <2>1. /\ now' = now /\ last' = last /\ tokens' = tokens
        /\ from' = from /\ count' = count
    BY <1>5, Zenon DEF Call, vars
  <2> QED
    BY <2>1, Zenon DEF Paid, AtMostTwiceRpm, Capacity, Closed
<1> QED
  BY <1>1, <1>2, <1>3, <1>4, <1>5, Zenon DEF Next

(* At most 2 * Rpm acquisitions in any window of Window seconds, whatever  *)
(* the order of sleeps, wake-ups and calls.                                *)
THEOREM RateBounded == Spec => []AtMostTwiceRpm
<1>1. Init => Paid
  BY TokenBucketAssumption DEF Init, Paid, AtMostTwiceRpm, Closed
<1>2. TypeOK /\ Clock /\ Paid /\ [Next]_vars => Paid'
  BY PaidStep
<1>3. Paid => AtMostTwiceRpm
  BY DEF Paid
<1> QED
  BY TypeCorrect, <1>1, <1>2, <1>3, PTL DEF Spec

-----------------------------------------------------------------------------
(* The number of sleeps.                                                   *)

LEMMA Monotone ==
    ASSUME NEW a \in Nat, NEW b \in Nat, NEW r \in Nat, a <= b
    PROVE  a * r <= b * r
<1>1. b * r = a * r + (b - a) * r
  BY Distribute
<1>2. a * r \in Nat /\ (b - a) * r \in Nat
  BY Products
<1> QED
  BY <1>1, <1>2

(* A sleep puts what the one before it was worth into the bucket.          *)
LEMMA SleepStep ==
    ASSUME TypeOK, Clock, sleeps > 0 => SleptFor, Sleep
    PROVE  SleptFor'
<1>0. /\ now \in Nat /\ last \in Nat /\ tokens \in Nat /\ sleeps \in Nat
      /\ last <= now
      /\ Rpm \in Nat /\ MaxSleep \in Nat /\ Window \in Nat
  BY CapacityNat, TokenBucketAssumption DEF TypeOK, Clock
<1>1. /\ tokens' = Refilled /\ last' = now /\ sleeps' = sleeps + 1
      /\ Refilled < Window
  BY Zenon DEF Sleep
<1>2. PICK d \in 1..(MaxTime - now) :
             /\ d >= MaxSleep \/ d * Rpm >= Window - Refilled
             /\ now' = now + d
  BY Zenon DEF Sleep
<1>3. d \in Nat /\ now' - last' = d
  BY <1>0, <1>1, <1>2, TokenBucketAssumption
<1>4. Refilled \in Nat
  BY <1>0, RefillBounds, CapacityNat
<1>5. now' - last' >= MaxSleep \/ tokens' + (now' - last') * Rpm >= Window
  <2>1. d * Rpm \in Nat
    BY <1>0, <1>3, Products
  <2> QED
    BY <1>0, <1>1, <1>2, <1>3, <1>4, <2>1
<1>6. (sleeps' - 1) * MaxSleep * Rpm <= tokens'
  <2>1. sleeps' - 1 = sleeps
    BY <1>0, <1>1
  <2>2. CASE sleeps = 0
    <3>1. 0 * MaxSleep * Rpm = 0
      BY <1>0
    <3> QED
      BY <1>1, <1>4, <2>1, <2>2, <3>1
  <2>3. CASE sleeps > 0
    <3>1. Refilled = tokens + (now - last) * Rpm
      BY <1>0, <1>1, CapacityNat, RefillBounds DEF Refilled, Smaller
    <3>2. now - last >= MaxSleep
      BY <1>1, <2>3, <3>1, <1>0, <1>4 DEF SleptFor
    <3>3. MaxSleep * Rpm <= (now - last) * Rpm
      BY <1>0, <3>2, Monotone
    <3>4. (sleeps - 1) * MaxSleep * Rpm <= tokens
      BY <2>3 DEF SleptFor
    <3>5. sleeps * MaxSleep * Rpm = (sleeps - 1) * MaxSleep * Rpm + MaxSleep * Rpm
      <4>1. sleeps * MaxSleep = (sleeps - 1) * MaxSleep + MaxSleep
        BY <1>0, Distribute
      <4>2. (sleeps - 1) * MaxSleep \in Int
        BY <1>0, <2>3, Products
      <4> QED
        BY <1>0, <4>1, <4>2, Distribute
    <3>6. (sleeps - 1) * MaxSleep * Rpm \in Nat /\ MaxSleep * Rpm \in Nat /\ (now - last) * Rpm \in Nat
      <4>1. sleeps - 1 \in Nat /\ now - last \in Nat
        BY <1>0, <2>3
      <4> QED
        BY <1>0, <4>1, Products
    <3> QED
      BY <1>0, <1>1, <2>1, <3>1, <3>3, <3>4, <3>5, <3>6
  <2> QED
    BY <1>0, <2>2, <2>3
<1> QED
  BY <1>1, <1>5, <1>6 DEF SleptFor

(* Time that passes only adds to what the bucket is owed.                  *)
LEMMA SleptStep ==
    ASSUME TypeOK, Clock, Slept, [Next]_vars
    PROVE  Slept'
<1>1. CASE Sleep
  <2>1. sleeps > 0 => SleptFor
    BY <1>1, Zenon DEF Slept, Sleep
  <2> QED
    BY <1>1, <2>1, SleepStep, Zenon DEF Slept
<1>2. CASE Tick
  <2>1. UNCHANGED <<waiting, sleeps>>
    BY <1>2, Zenon DEF Tick
  <2>2. ASSUME SleptFor PROVE SleptFor'
    <3>1. /\ now \in Nat /\ last \in Nat /\ tokens \in Nat
          /\ last <= now
          /\ Rpm \in Nat /\ MaxSleep \in Nat /\ Window \in Nat
      BY CapacityNat, TokenBucketAssumption DEF TypeOK, Clock
    <3>2. now' = now + 1 /\ UNCHANGED <<last, tokens, sleeps>>
      BY <1>2 DEF Tick
    <3>3. (now - last) * Rpm <= (now + 1 - last) * Rpm
      BY <3>1, Monotone
    <3>4. (now - last) * Rpm \in Nat /\ (now + 1 - last) * Rpm \in Nat
      BY <3>1, Products
    <3>5. now' - last' >= MaxSleep \/ tokens' + (now' - last') * Rpm >= Window
      BY <2>2, <3>1, <3>2, <3>3, <3>4 DEF SleptFor
    <3> QED
      BY <2>2, <3>2, <3>5 DEF SleptFor
  <2> QED
    BY <2>1, <2>2, Zenon DEF Slept
<1>3. CASE Take
  BY <1>3, Zenon DEF Take, Slept
<1>4. CASE Call
  <2>1. ~(sleeps' > 0)
    BY <1>4 DEF Call
  <2> QED
    BY <2>1, Zenon DEF Slept
<1>5. CASE OpenWindow \/ UNCHANGED vars
  <2>1. UNCHANGED <<waiting, sleeps, tokens, now, last>>
    BY <1>5, Zenon DEF OpenWindow, vars
  <2> QED
    BY <2>1, Zenon DEF Slept, SleptFor
<1> QED
  BY <1>1, <1>2, <1>3, <1>4, <1>5, Zenon DEF Next

(* All sleeps of an acquire() but the last, at MaxSleep each, are worth    *)
(* less than a token.                                                      *)
THEOREM SleepsAreBounded == Spec => []SleepsBounded
<1>1. Init => Slept
  BY Zenon DEF Init, Slept
<1>2. TypeOK /\ Clock /\ Slept /\ [Next]_vars => Slept'
  BY SleptStep
<1>3. TypeOK /\ Slept => SleepsBounded
  <2>1. ASSUME TypeOK, SleptFor, sleeps > 0
        PROVE  (sleeps - 1) * MaxSleep * Rpm < Window
    <3>1. sleeps - 1 \in Nat /\ tokens \in Nat
      BY <2>1, CapacityNat DEF TypeOK
    <3>2. (sleeps - 1) * MaxSleep * Rpm \in Nat
      BY <3>1, Products, TokenBucketAssumption
    <3> QED
      BY <2>1, <3>1, <3>2, TokenBucketAssumption DEF SleptFor
  <2> QED
    BY <2>1, Zenon DEF Slept, SleepsBounded
<1> QED
  BY TypeCorrect, <1>1, <1>2, <1>3, PTL DEF Spec
==============================================================================
