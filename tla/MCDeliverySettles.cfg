SPECIFICATION FairSpec
CONSTANTS
    Messages = {1}
    Workers = {w1}
    Recoverers = {r1}
    Operators = {o1}
    MaxAttempts = 2
    RecoveryLimit = 1
    MaxFaults = 1
    MaxRetries = 1
    MaxCopies = 1
PROPERTIES
    EveryMessageSettles
