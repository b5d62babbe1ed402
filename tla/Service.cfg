\* Two images, two ups, two faults, an environment with any form of the secret
\* and of the values of Access, one reset.
SPECIFICATION FairSpec
CONSTANTS
    Environments <- SomeEnvironments
    Files = {f1, f2}
    MaxImage = 2
    MaxUps = 2
    MaxFaults = 2
    MaxResets = 1
    None = None
INVARIANTS TypeOK FailsClosed TwoRepairsSuffice HealthMeansQueryable
PROPERTIES WebOpensOnService Recovers
CHECK_DEADLOCK FALSE
