\* One message, two workers, recovery, an operator, a fault and two manual retries: safety only.
SPECIFICATION Spec
CONSTANTS
    Messages = {1}
    Workers = {w1, w2}
    Recoverers = {r1}
    Operators = {o1}
    MaxAttempts = 2
    RecoveryLimit = 1
    MaxFaults = 1
    MaxRetries = 2
    MaxCopies = 1
INVARIANTS
    ClaimExclusive
    NoResendAfterAck
    AttemptsDense
    SentIsRecorded
    SubmissionBudget
    BlockedIsNotSubmitted
PROPERTIES
    OutcomeIsFinal
SYMMETRY WorkerSymmetry
