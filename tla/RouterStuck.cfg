\* One user, one page: what happens when a refresh fails.
SPECIFICATION FairSpec
CONSTANTS
    Users = {alice}
    MaxLoads = 1
    Null = Null
PROPERTY LossShowsForm
CHECK_DEADLOCK FALSE
