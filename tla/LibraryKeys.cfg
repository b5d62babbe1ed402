\* Every token at the edge's door, with every key set.
SPECIFICATION Spec
CONSTANTS
    MaxMinorUnits = 103
    MaxAmounts = 0
    Texts = {}
    Ttls = {}
    Instants = {}
    Delays = {}
    Refused = Refused
    Absent = Absent
INVARIANT OutagesAreNamed
