SPECIFICATION FairSpec
INVARIANTS
    NilMeansAccepted
    NothingInClear
    ReleasedOnce
PROPERTIES
    CallReturns
