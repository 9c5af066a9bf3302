--------------------------- MODULE MCLoginLimiter ---------------------------
EXTENDS LoginLimiter, TLC

CONSTANTS h1, h2

HandlerSymmetry == Permutations(Handlers)
=============================================================================
