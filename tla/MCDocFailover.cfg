\* Two accounts at two relays, no cooldown.
SPECIFICATION Spec
CONSTANTS
    Names = {"a", "b"}
    Providers = {p1, p2}
    Workers = {w1, w2}
    Operators = {}
    Threshold = 2
    Window = 3
    Cooldown = 0
    InitialAccounts <- TwoAccounts
    MaxTime = 3
    MaxSends = 4
    MaxEdits = 0
INVARIANTS
    SwitchOnlyFromFailing
