\* Violated: a rotation accepted before the replay stores its token after it.
SPECIFICATION Spec
CONSTANTS
    Users = {u1}
    Tokens = {t1, t2, t3}
    Requests = {r1, r2}
    RefreshTtl = 2
    AccessTtl = 1
    MaxTime = 0
    Null = Null
INVARIANT ReplayEndsEverySession
CHECK_DEADLOCK FALSE
