\* Violated: two rotations of one token overlap at their await.
SPECIFICATION Spec
CONSTANTS
    Users = {u1}
    Tokens = {t1, t2, t3}
    Requests = {r1, r2}
    RefreshTtl = 2
    AccessTtl = 1
    MaxTime = 0
    Null = Null
INVARIANT SingleUse
CHECK_DEADLOCK FALSE
