\* One page, two calls at once, up to two reloads: nothing used up is presented or kept
\* before a reload, and no caller hangs.
SPECIFICATION OrderedSpec
CONSTANTS
    Tabs = {tab1}
    Callers = {c1, c2}
    Tokens = {1, 2}
    MaxReloads = 2
    Null = Null
INVARIANTS TypeOK NoRotatedReplay StoredIsHonoured WaitersHaveARefresh
PROPERTY EveryCallSettles
