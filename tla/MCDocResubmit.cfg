SPECIFICATION Spec
CONSTANTS
    Messages = {1}
    Workers = {w1}
    Recoverers = {r1}
    Operators = {o1}
    MaxAttempts = 1
    RecoveryLimit = 1
    MaxFaults = 1
    MaxRetries = 2
    MaxCopies = 1
PROPERTIES
    AckedIsNeverResubmitted
