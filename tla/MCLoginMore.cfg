\* Further properties on the instance of MCLoginBound.cfg.
SPECIFICATION Spec
CONSTANTS
    h1 = h1  h2 = h2
    Handlers = {h1, h2}
    maxFailures = 3
    failureWindow = 3
    lockout = 2
    MaxStay = 1
    MaxFaults = 1
    MaxWrong = 11
SYMMETRY HandlerSymmetry
INVARIANTS
    TypeOK
    CounterExpires
