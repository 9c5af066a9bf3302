SPECIFICATION Spec
CONSTANTS
    Messages = {1}
    Workers = {w1}
    Recoverers = {r1}
    Operators = {o1}
    MaxAttempts = 2
    RecoveryLimit = 1
    MaxFaults = 0
    MaxRetries = 0
    MaxCopies = 2
PROPERTIES
    BackoffIsKept
