\* Two requests and a seed run race for the accounts of one person.
SPECIFICATION Spec
CONSTANTS
    lower = lower
    upper = upper
    Emails = {lower, upper}
    Normal <- MCNormal
    Ids = {i1, i2, i3}
    Requests = {r1, r2}
    Seeds = {s1}
    Null = Null
SYMMETRY Symmetry
INVARIANTS TypeOK PrincipalIsCaller EdgeCallerHasProfile CreatedIsTrue OneAccountPerPerson
PROPERTIES AccountsAreStable ProvisioningIsEntitled
