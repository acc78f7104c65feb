\* A campaign leaves a terminal status.
SPECIFICATION Spec
CONSTANTS
    c1 = c1  t1 = t1  t2 = t2
    Campaigns <- MCCampaigns
    Threads <- MCThreads
    Methods <- MCMethods
    MaxCrashes = 1
PROPERTIES
    TerminalIsFinal
\* A campaign in a terminal status takes no further step.
CHECK_DEADLOCK FALSE
