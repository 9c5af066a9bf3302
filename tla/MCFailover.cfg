\* Two workers and two operators over three stored accounts, or none.
SPECIFICATION Spec
CONSTANTS
    Names = {"a", "b", "c"}
    Providers = {p1}
    Workers = {w1, w2}
    Operators = {o1, o2}
    Threshold = 1
    Window = 2
    Cooldown = 1
    InitialAccounts <- ThreeOrNone
    MaxTime = 2
    MaxSends = 4
    MaxEdits = 2
INVARIANTS
    OneActive
    BurstBounded
SYMMETRY FailoverSymmetry
