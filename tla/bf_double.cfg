\* Approve-all, clicked twice.
SPECIFICATION FairSpec
CONSTANTS
    ctv = ctv  social = social  p1 = p1  p2 = p2  r1 = r1  r2 = r2
    None = None  Itself = itself
    Channels <- MCChannels
    Branding = ctv
    Social <- MCSocial
    Items <- MCFewItems
    MaxItems = 1
    Allocations <- MCFewAllocations
    Budget = 3
    Requests <- MCRequests
    Wants <- MCAll
    AutoApprove = {FALSE}
    StoreMayFail = FALSE
INVARIANTS
    BookedOnce
\* The process may die and is not restarted, and a finished job takes no step.
CHECK_DEADLOCK FALSE
