\* As MCDeliverySafety.cfg with a second fault, and further properties.
SPECIFICATION Spec
CONSTANTS
    Messages = {1}
    Workers = {w1, w2}
    Recoverers = {r1}
    Operators = {o1}
    MaxAttempts = 2
    RecoveryLimit = 1
    MaxFaults = 2
    MaxRetries = 2
    MaxCopies = 1
INVARIANTS
    TypeOK
    EntriesHaveRows
    ClaimExclusive
    NoResendAfterAck
    AttemptsDense
    SentIsRecorded
    FailedAfterBudget
    SubmissionBudget
    ScheduleOnlyWhileQueued
    BlockedIsNotSubmitted
PROPERTIES
    OutcomeIsFinal
SYMMETRY WorkerSymmetry
