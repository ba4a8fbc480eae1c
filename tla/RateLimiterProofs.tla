-------------------------- MODULE RateLimiterProofs --------------------------
(***************************************************************************)
(* What the daily counter guarantees for every number of threads,          *)
(* processes and keys: never an early refusal, whatever races and crashes; *)
(* and the quota itself, when one limiter serves all callers and no        *)
(* process dies in the middle of a save.                                   *)
(***************************************************************************)
EXTENDS MCRateLimiter, TLAPS

(* Type correctness.                                                       *)
THEOREM TypeCorrect == Spec => []TypeOK
<1>1. Init => TypeOK
  BY RateLimiterAssumption DEF Init, TypeOK, Zero, Counts
<1>2. TypeOK /\ [Next]_vars => TypeOK'
  <2> SUFFICES ASSUME TypeOK, [Next]_vars PROVE TypeOK'
    OBVIOUS
  <2> USE RateLimiterAssumption DEF TypeOK, Counts
  <2>1. ASSUME NEW t \in Callers, NEW k \in Keys, Call(t, k)
        PROVE  TypeOK'
    BY <2>1 DEF Call, Goto
  <2>a. ASSUME NEW t \in Callers, Lock(t)
        PROVE  TypeOK'
    BY <2>a DEF Lock, Goto
  <2>2. ASSUME NEW t \in Callers, Load(t)
        PROVE  TypeOK'
    <3>1. LoadState \in [Keys -> Nat]
      BY DEF LoadState, Zero
    <3>2. [LoadState EXCEPT ![key[t]] = @ + 1] \in [Keys -> Nat]
      BY <3>1
    <3>3. buf' \in [Callers -> [Keys -> Nat]]
      BY <2>2, <3>2 DEF Load
    <3>4. pc' \in [Callers -> {"idle", "lock", "load", "truncate", "write", "refused"}]
      BY <2>2 DEF Load, Goto
    <3>5. holder' \in [Limiters -> Callers \cup {NoCaller}]
      BY <2>2 DEF Load, Unlock
    <3> QED
      BY <2>2, <3>3, <3>4, <3>5 DEF Load
  <2>3. ASSUME NEW t \in Callers, Truncate(t)
        PROVE  TypeOK'
    BY <2>3 DEF Truncate, Goto
  <2>4. ASSUME NEW t \in Callers, Write(t)
        PROVE  TypeOK'
    BY <2>4 DEF Write, Goto, Unlock
  <2>5. ASSUME NEW l \in Limiters, Crash(l)
        PROVE  TypeOK'
    BY <2>5 DEF Crash
  <2>6. CASE UNCHANGED vars
    BY <2>6 DEF vars
  <2> QED
    BY <2>1, <2>a, <2>2, <2>3, <2>4, <2>5, <2>6 DEF Next, Step
<1> QED
  BY <1>1, <1>2, PTL DEF Spec

(* Races and crashes only ever lose counts: the file never holds more than *)
(* was let through, so nobody is refused before the quota is spent.        *)
THEOREM NeverRefusedEarly == Spec => [](NeverOvercounts /\ RefusedOnlyWhenSpent)
<1>1. Init => SaveInv
  BY DEF Init, SaveInv, NeverOvercounts, RefusedOnlyWhenSpent, Zero
<1>2. TypeOK /\ SaveInv /\ [Next]_vars => SaveInv'
  <2> SUFFICES ASSUME TypeOK, SaveInv, [Next]_vars PROVE SaveInv'
    OBVIOUS
  <2> USE RateLimiterAssumption DEF TypeOK, Counts, SaveInv, NeverOvercounts, RefusedOnlyWhenSpent
  <2>1. ASSUME NEW t \in Callers, NEW k \in Keys, Call(t, k)
        PROVE  SaveInv'
    BY <2>1 DEF Call, Goto
  <2>a. ASSUME NEW t \in Callers, Lock(t)
        PROVE  SaveInv'
    BY <2>a DEF Lock, Goto
  <2>2. ASSUME NEW t \in Callers, Load(t)
        PROVE  SaveInv'
    <3>1. LoadState \in [Keys -> Nat] /\ \A k \in Keys : LoadState[k] <= granted[k]
      BY DEF LoadState, Zero
    <3>2. CASE LoadState[key[t]] >= Rpd[key[t]]
      BY <2>2, <3>1, <3>2 DEF Load, Goto, Unlock
    <3>3. CASE LoadState[key[t]] < Rpd[key[t]]
      <4>1. /\ buf' = [buf EXCEPT ![t] = [LoadState EXCEPT ![key[t]] = @ + 1]]
            /\ pc' = [pc EXCEPT ![t] = "truncate"]
            /\ UNCHANGED <<file, key, granted>>
        BY <2>2, <3>1, <3>3 DEF Load, Goto
      <4>2. \A k \in Keys : buf'[t][k] <= granted[k] + (IF k = key[t] THEN 1 ELSE 0)
        BY <3>1, <4>1
      <4> QED
        BY <4>1, <4>2
    <3> QED
      BY <3>1, <3>2, <3>3
  <2>3. ASSUME NEW t \in Callers, Truncate(t)
        PROVE  SaveInv'
    BY <2>3 DEF Truncate, Goto
  <2>4. ASSUME NEW t \in Callers, Write(t)
        PROVE  SaveInv'
    <3>1. /\ granted' = [granted EXCEPT ![key[t]] = @ + 1]
          /\ pc' = [pc EXCEPT ![t] = "idle"]
          /\ UNCHANGED <<key, buf>>
          /\ pc[t] = "write"
          /\ file' = buf[t] \/ file' = Torn
      BY <2>4 DEF Write, Goto
    <3>2. \A k \in Keys : granted'[k] = granted[k] + (IF k = key[t] THEN 1 ELSE 0)
      BY <3>1
    <3> QED
      BY <3>1, <3>2
  <2>5. ASSUME NEW l \in Limiters, Crash(l)
        PROVE  SaveInv'
    BY <2>5 DEF Crash
  <2>6. CASE UNCHANGED vars
    BY <2>6 DEF vars
  <2> QED
    BY <2>1, <2>a, <2>2, <2>3, <2>4, <2>5, <2>6 DEF Next, Step
<1>3. SaveInv => NeverOvercounts /\ RefusedOnlyWhenSpent
  BY DEF SaveInv
<1> QED
  BY <1>1, <1>2, <1>3, TypeCorrect, PTL DEF Spec

(* A caller past Lock holds its limiter's lock, and nobody else holds one. *)
LEMMA Locking == Spec => []LockInv
<1>1. Init => LockInv
  BY RateLimiterAssumption DEF Init, LockInv, LockIsReleased, InLock
<1>2. TypeOK /\ LockInv /\ [Next]_vars => LockInv'
  <2> SUFFICES ASSUME TypeOK, LockInv, [Next]_vars PROVE LockInv'
    OBVIOUS
  <2> USE RateLimiterAssumption DEF TypeOK, LockInv, LockIsReleased, InLock
  <2>1. ASSUME NEW t \in Callers, NEW k \in Keys, Call(t, k)
        PROVE  LockInv'
    BY <2>1 DEF Call, Goto
  <2>a. ASSUME NEW t \in Callers, Lock(t)
        PROVE  LockInv'
    BY <2>a DEF Lock, Goto
  <2>2. ASSUME NEW t \in Callers, Load(t)
        PROVE  LockInv'
    BY <2>2 DEF Load, Goto, Unlock
  <2>3. ASSUME NEW t \in Callers, Truncate(t) \/ Write(t)
        PROVE  LockInv'
    BY <2>3 DEF Truncate, Write, Goto, Unlock
  <2>4. ASSUME NEW l \in Limiters, Crash(l)
        PROVE  LockInv'
    BY <2>4 DEF Crash
  <2>5. CASE UNCHANGED vars
    BY <2>5 DEF vars
  <2> QED
    BY <2>1, <2>a, <2>2, <2>3, <2>4, <2>5 DEF Next, Step
<1> QED
  BY <1>1, <1>2, TypeCorrect, PTL DEF Spec

(* acquire() leaves its lock free however it ends, whatever dies.          *)
THEOREM LockNeverKept == Spec => []LockIsReleased
<1>1. LockInv => LockIsReleased
  BY DEF LockInv
<1> QED
  BY <1>1, Locking, PTL

-----------------------------------------------------------------------------
(* One limiter.                                                            *)

AloneInLock == \A t, u \in Callers : pc[t] \in InLock /\ pc[u] \in InLock => t = u

DiesWriting(t) == pc[t] = "write" /\ pc'[t] = "idle" /\ granted' = granted

(* While callers are alone in the lock and none dies between emptying the  *)
(* file and writing it, the file is exact outside a save.                  *)
LEMMA ExactStep ==
  ASSUME TypeOK, LockInv, ExactInv, AloneInLock, Next,
         AloneInLock', \A t \in Callers : ~DiesWriting(t)
  PROVE  ExactInv'
<1> USE RateLimiterAssumption
    DEF TypeOK, Counts, AloneInLock, ExactInv, QuotaKept, InLock
<1>1. ASSUME NEW t \in Callers, NEW k \in Keys, Call(t, k)
      PROVE  ExactInv'
  BY <1>1 DEF Call, Goto
<1>2. ASSUME NEW t \in Callers, Lock(t)
      PROVE  ExactInv'
  <2>1. \A u \in Callers \ {t} : pc[u] \notin InLock
    BY <1>2 DEF Lock, Goto
  <2> QED
    BY <1>2, <2>1 DEF Lock, Goto
<1>3. ASSUME NEW t \in Callers, Load(t)
      PROVE  ExactInv'
  <2>1. \A u \in Callers \ {t} : pc[u] \notin InLock
    BY <1>3 DEF Load
  <2>2. file = granted /\ LoadState = granted
    BY <1>3, <2>1 DEF Load, LoadState
  <2> QED
    BY <1>3, <2>1, <2>2 DEF Load, Goto
<1>4. ASSUME NEW t \in Callers, Truncate(t)
      PROVE  ExactInv'
  BY <1>4 DEF Truncate, Goto
<1>5. ASSUME NEW t \in Callers, Write(t)
      PROVE  ExactInv'
  <2>1. pc[t] = "write" /\ file = Torn
    BY <1>5 DEF Write
  <2>2. \A u \in Callers \ {t} : pc[u] \notin InLock
    BY <2>1
  <2>3. /\ granted' = [granted EXCEPT ![key[t]] = @ + 1]
        /\ pc' = [pc EXCEPT ![t] = "idle"]
        /\ file' = granted'
    BY <1>5, <2>1 DEF Write, Goto
  <2>4. granted[key[t]] < Rpd[key[t]]
    BY <2>1
  <2>5. \A k \in Keys : granted'[k] <= Rpd[k]
    BY <2>3, <2>4
  <2> QED
    BY <2>2, <2>3, <2>5
<1>6. ASSUME NEW l \in Limiters, Crash(l)
      PROVE  ExactInv'
  <2>1. /\ pc' = [t \in Callers |-> IF LimiterOf[t] = l THEN "idle" ELSE pc[t]]
        /\ UNCHANGED <<file, key, buf, granted>>
    BY <1>6 DEF Crash
  <2>2. \A t \in Callers : pc'[t] = pc[t] \/ pc'[t] = "idle"
    BY <2>1
  <2>3. \A t \in Callers : pc[t] = "write" => pc'[t] = "write"
    BY <2>1, <2>2 DEF DiesWriting
  <2> QED
    BY <2>1, <2>2, <2>3
<1> QED
  BY <1>1, <1>2, <1>3, <1>4, <1>5, <1>6 DEF Next, Step

(* One limiter for all callers and no death between truncating and writing *)
(* keep the quota: no key is let through more than rpd times.              *)
THEOREM QuotaWithOneLimiter ==
  ASSUME NEW l \in Limiters, \A t \in Callers : LimiterOf[t] = l,
         "write" \notin CrashPoints
  PROVE  Spec => []QuotaKept
<1> USE RateLimiterAssumption
<1>1. Init => ExactInv
  BY DEF Init, ExactInv, QuotaKept, Zero
<1>2. LockInv => AloneInLock
  BY DEF LockInv, AloneInLock
<1>3. ASSUME TypeOK, LockInv, Next, NEW t \in Callers PROVE ~DiesWriting(t)
  <2> SUFFICES ASSUME DiesWriting(t) PROVE FALSE
    OBVIOUS
  <2> USE <1>3 DEF DiesWriting, TypeOK, Counts
  <2>1. ASSUME NEW u \in Callers,
               (\E k \in Keys : Call(u, k)) \/ Lock(u) \/ Load(u) \/ Truncate(u)
        PROVE  FALSE
    BY <2>1 DEF Call, Lock, Load, Truncate, Goto
  <2>2. ASSUME NEW u \in Callers, Write(u)
        PROVE  FALSE
    BY <2>2 DEF Write
  <2>3. ASSUME NEW m \in Limiters, Crash(m)
        PROVE  FALSE
    BY <2>3 DEF Crash, LockInv, InLock
  <2> QED
    BY <2>1, <2>2, <2>3 DEF Next, Step
<1>4. TypeOK /\ LockInv /\ LockInv' /\ ExactInv /\ [Next]_vars => ExactInv'
  <2>1. CASE UNCHANGED vars
    BY <2>1 DEF vars, ExactInv, QuotaKept
  <2> QED
    BY <1>2, <1>3, <2>1, ExactStep DEF AloneInLock, LockInv
<1>5. ExactInv => QuotaKept
  BY DEF ExactInv
<1> QED
  BY <1>1, <1>4, <1>5, TypeCorrect, Locking, PTL DEF Spec

(* However many limiters there are: as long as only one of them has been   *)
(* used, and no process died while it wrote, the quota is kept and the file*)
(* counts every call that was let through.                                 *)
THEOREM QuotaWhileOneLimiterIsUsed == MCSpec => []QuotaKeptByOneLimiter
<1> USE RateLimiterAssumption
<1> DEFINE UsedInv == \A l \in Limiters : holder[l] # NoCaller => l \in used
           I == UsedInv /\ (OneLimiterOnly => ExactInv)
<1>1. MCInit => I
  BY DEF MCInit, Init, ExactInv, QuotaKept, Zero
<1>2. MCSpec => Spec
  <2>1. MCInit => Init
    BY DEF MCInit
  <2>2. [MCNext]_<<vars, used, died>> => [Next]_vars
    BY DEF MCNext
  <2> QED
    BY <2>1, <2>2, PTL DEF MCSpec, Spec
<1>3. TypeOK /\ LockInv /\ UsedInv /\ OneLimiterOnly => AloneInLock
  BY DEF TypeOK, LockInv, OneLimiterOnly, AloneInLock
<1>4. TypeOK /\ TypeOK' /\ LockInv /\ LockInv' /\ I /\ [MCNext]_<<vars, used, died>> => I'
  <2> SUFFICES ASSUME TypeOK, TypeOK', LockInv, LockInv', I, [MCNext]_<<vars, used, died>> PROVE I'
    OBVIOUS
  <2>1. CASE MCNext
    <3>1. UsedInv'
      BY <2>1 DEF MCNext
    <3>2. ASSUME OneLimiterOnly' PROVE ExactInv'
      <4>1. OneLimiterOnly /\ \A t \in Callers : ~DiesWriting(t)
        BY <2>1, <3>2 DEF MCNext, OneLimiterOnly, DiesWriting
      <4>2. AloneInLock
        BY <1>3, <4>1
      <4>3. AloneInLock'
        <5>1. ASSUME NEW t \in Callers, NEW u \in Callers, pc'[t] \in InLock, pc'[u] \in InLock
              PROVE  t = u
          <6>1. holder'[LimiterOf[t]] = t /\ holder'[LimiterOf[u]] = u
            BY <5>1 DEF LockInv, InLock
          <6>2. LimiterOf[t] \in used' /\ LimiterOf[u] \in used'
            BY <3>1, <6>1
          <6> QED
            BY <3>2, <6>1, <6>2 DEF OneLimiterOnly
        <5> QED
          BY <5>1 DEF AloneInLock, InLock
      <4> QED
        BY <2>1, <4>1, <4>2, <4>3, ExactStep DEF MCNext
    <3> QED
      BY <3>1, <3>2
  <2>2. CASE UNCHANGED <<vars, used, died>>
    BY <2>2 DEF vars, OneLimiterOnly, ExactInv, QuotaKept
  <2> QED
    BY <2>1, <2>2
<1>5. TypeOK /\ LockInv /\ I => QuotaKeptByOneLimiter
  <2> SUFFICES ASSUME TypeOK, LockInv, ExactInv
               PROVE  /\ QuotaKept
                      /\ (\A l \in Limiters : holder[l] = NoCaller) =>
                            \A k \in Keys : LoadState[k] = granted[k]
    BY DEF QuotaKeptByOneLimiter
  <2>1. ASSUME \A l \in Limiters : holder[l] = NoCaller
        PROVE  file = granted /\ file # Torn
    <3>1. \A t \in Callers : pc[t] # "write"
      BY <2>1 DEF LockInv, InLock
    <3> QED
      BY <3>1 DEF ExactInv, TypeOK, Counts
  <2> QED
    BY <2>1 DEF ExactInv, LoadState
<1> QED
  BY <1>1, <1>2, <1>4, <1>5, TypeCorrect, Locking, PTL DEF MCSpec
==============================================================================
