\* Further properties on the instance of MCFailover.cfg.
SPECIFICATION Spec
CONSTANTS
    Names = {"a", "b", "c"}
    Providers = {p1}
    Workers = {w1, w2}
    Operators = {o1, o2}
    Threshold = 1
    Window = 2
    Cooldown = 1
    InitialAccounts <- ThreeOrNone
    MaxTime = 2
    MaxSends = 4
    MaxEdits = 2
INVARIANTS
    TypeOK
SYMMETRY FailoverSymmetry
