\* Two tabs refresh the token they share.
SPECIFICATION Spec
CONSTANTS
    Tabs = {tab1, tab2}
    Callers = {c1}
    Tokens = {t1, t2, t3}
    MaxReloads = 0
    Null = Null
INVARIANT NoRotatedReplay
