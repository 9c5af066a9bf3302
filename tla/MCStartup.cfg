\* Three processes start against three migration files, with three faults.
SPECIFICATION FairSpec
CONSTANTS
    Processes = {p1, p2, p3}
    Files = 3
    NotRepeatable = {2}
    MaxFaults = 3
INVARIANTS
    RecordedIffApplied
    ServesOnFullSchema
PROPERTIES
    AlwaysServesAgain
