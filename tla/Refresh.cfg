\* Two users and a clock that outlives the first tokens.
SPECIFICATION Spec
CONSTANTS
    Users = {u1, u2}
    Tokens = {t1, t2, t3}
    Requests = {r1, r2}
    RefreshTtl = 1
    AccessTtl = 1
    MaxTime = 1
    Null = Null
SYMMETRY Symmetry
INVARIANTS TypeOK RotatedHasReplacement PromisedEndIsKept
PROPERTIES OverIsFinal RevocationIsPermanent ImplementsSessions
\* The pool of tokens and the clock run out, and then nothing is left to do.
CHECK_DEADLOCK FALSE
