SPECIFICATION Spec
CONSTANTS
    Events <- SharedEvents
    Bodies <- SharedBodies
    Legacy <- SharedLegacy
    Handlers = {h1}
    Replayers = {r1}
    ReplayLimit = 1
    MaxDups = 0
    MaxReplays = 0
    MaxFaults = 1
INVARIANTS
    FailureIsLogged
