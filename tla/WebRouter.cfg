\* Two users of one browser, with and without the edge, two page loads.
SPECIFICATION FairSpec
CONSTANTS
    Users = {alice, bob}
    MaxLoads = 2
    Null = Null
INVARIANTS TypeOK ProfileIsCurrent NoFormBehindAccess
PROPERTIES NavigationSettles StrangerSeesForm
\* An Access sign-out unloads the page, and the page loads may be used up.
CHECK_DEADLOCK FALSE
