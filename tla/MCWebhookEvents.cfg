\* Two bodies that share an event, an old row, two deliveries and two replays.
SPECIFICATION FairSpec
CONSTANTS
    Events <- SharedEvents
    Bodies <- SharedBodies
    Legacy <- SharedLegacy
    Handlers = {h1, h2}
    Replayers = {r1, r2}
    ReplayLimit = 2
    MaxDups = 0
    MaxReplays = 2
    MaxFaults = 1
INVARIANTS
    AppliedOnce
    ListsMatchLog
    AckedIsRecorded
PROPERTIES
    EveryBodySettles
