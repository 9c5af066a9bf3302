\* Further properties on the instance of MCAccess.cfg.
SPECIFICATION Spec
CONSTANTS
    u1 = u1  w1 = w1  w2 = w2  h1 = h1  h2 = h2  k1 = k1  k2 = k2
    Handlers = {h1, h2}
    Users = {u1}
    Workspaces = {w1, w2}
    Keys = {k1, k2}
    Names = {"app"}
    Homes <- BothOrNone
    Held <- NoneOrOther
    Calls <- MCCalls
    Default = w1
    MaxChanges = 1
    None = None
SYMMETRY AccessSymmetry
INVARIANTS
    TypeOK
