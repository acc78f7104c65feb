\* Two threads on one campaign, either of which may die in the middle of a call.
SPECIFICATION Spec
CONSTANTS
    c1 = c1  t1 = t1  t2 = t2
    Campaigns <- MCCampaigns
    Threads <- MCThreads
    Methods <- MCMethods
    MaxCrashes = 1
INVARIANTS
    TypeOK
    StatusesAreExplained
    LiveWasPrepared
SYMMETRY MCSymmetry
\* A campaign in a terminal status takes no further step.
CHECK_DEADLOCK FALSE
