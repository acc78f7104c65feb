\* One gate that may restart at any time, as many requests as the limit.
SPECIFICATION FairSpec
CONSTANTS
    g1 = g1  g2 = g2  r1 = r1  r2 = r2  r3 = r3
    Gates <- MCOneGate
    Requests <- MCThreeRequests
    Limit = 3
    StoreMayFail = FALSE
INVARIANTS
    TypeOK
    DecidableOnce
PROPERTIES
    WaitEnds
