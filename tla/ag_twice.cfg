\* A request decided at one gate is decided again at the other.
SPECIFICATION Spec
CONSTANTS
    g1 = g1  g2 = g2  r1 = r1  r2 = r2  r3 = r3
    Gates <- MCTwoGates
    Requests <- MCTwoRequests
    Limit = 2
    StoreMayFail = FALSE
INVARIANTS
    DecidedOnce
