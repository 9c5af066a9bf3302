\* Three messages, two consumers; no symmetry, since liveness is checked.
SPECIFICATION FairSpec
CONSTANTS
    Ids = {1, 2, 3}
    Consumers = {c1, c2}
    Capacity = 3
INVARIANTS
    RetryIsNotPassed
    ReadyIsNotOvertaken
PROPERTIES
    ImplementsWorkQueue
    NeitherStarves
