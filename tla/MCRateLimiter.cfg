CONSTANTS
    l1 = l1  l2 = l2
    t1 = t1  t2 = t2  t3 = t3
    k1 = k1  k2 = k2
    Callers = {t1, t2, t3}
    Limiters = {l1, l2}
    LimiterOf <- Layout
    Keys = {k1, k2}
    Rpd <- Quotas
    CrashPoints = {"load", "truncate", "write"}
    MaxCalls = 2
    Torn = Torn
    NoCaller = NoCaller
SPECIFICATION MCSpec
INVARIANTS
    QuotaKeptByOneLimiter
    RefusedOnlyWhenSpent
CHECK_DEADLOCK FALSE
