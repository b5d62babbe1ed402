\* One API, one reset under it: health over a file that is gone.
SPECIFICATION Spec
CONSTANTS
    Environments <- FewEnvironments
    Files = {f1, f2}
    MaxImage = 1
    MaxUps = 1
    MaxFaults = 0
    MaxResets = 1
    None = None
INVARIANT HealthIsGenuine
CHECK_DEADLOCK FALSE
