\* Further properties on the instance of MCWebhookEvents.cfg.
SPECIFICATION Spec
CONSTANTS
    Events <- SharedEvents
    Bodies <- SharedBodies
    Legacy <- SharedLegacy
    Handlers = {h1, h2}
    Replayers = {r1, r2}
    ReplayLimit = 2
    MaxDups = 0
    MaxReplays = 2
    MaxFaults = 1
INVARIANTS
    TypeOK
    AttemptsCounted
