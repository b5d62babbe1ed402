\* Sums of up to three amounts, every exchange and every credential, and
\* sessions of every pair of TTLs.
SPECIFICATION Spec
CONSTANTS
    MaxMinorUnits = 103
    MaxAmounts = 3
    Texts <- SomeTexts
    Ttls <- SomeTtls
    Instants = {0, 1, 999, 1500}
    Delays = {0, 1, 1001}
    Refused = Refused
    Absent = Absent
INVARIANTS TypeOK ParsedExactly RoundTrip SumsAreExact
           ErrorsAreUnderstood TokensOnlyWhenTold RepliesAreDeclared
           AcceptedAreIssued RefusalsAreExplained RefusedLoginsLookAlike
           AccessDiesFirst
