\* Further properties on the instance of MCAccounts.cfg.
SPECIFICATION Spec
CONSTANTS
    Handlers = {h1, h2}
    Starters = {p1, p2}
    Emails = {"new", "old"}
    Legacy = {"old"}
    OldHashes = {"old"}
    MaxRequests = 3
    MaxStarts = 2
    MaxFaults = 1
INVARIANTS
    TypeOK
    OneSignupWins
    KnownSessionsExpire
