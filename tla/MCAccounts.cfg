\* Two signups or logins at a time and two starts, with a fault.
SPECIFICATION FairSpec
CONSTANTS
    Handlers = {h1, h2}
    Starters = {p1, p2}
    Emails = {"new", "old"}
    Legacy = {"old"}
    OldHashes = {"old"}
    MaxRequests = 3
    MaxStarts = 2
    MaxFaults = 1
INVARIANTS
    NoOrphan
    WorkspacesDistinct
    DuplicatesBounded
PROPERTIES
    EveryRequestAnswered
