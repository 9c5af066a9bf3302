SPECIFICATION Spec
CONSTANTS
    Handlers = {c1, c2}
    Domains = {d1, d2}
    ConfigBlocked = {}
    WorkspacePerHour = 2
    DomainPerHour = 1
    PolicyRates = {0, 1}
    Hour = 2
    MaxTime = 3
    MaxCalls = 4
    MaxPosts = 0
    MaxFaults = 0
INVARIANTS
    PolicyLimitKept
SYMMETRY HandlerSymmetry
