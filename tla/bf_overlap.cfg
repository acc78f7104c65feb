\* Jobs that approve themselves, or whose approve-all overlaps with another
\* approval, with a store that may lose any write.
SPECIFICATION Spec
CONSTANTS
    ctv = ctv  social = social  p1 = p1  p2 = p2  r1 = r1  r2 = r2
    None = None  Itself = itself
    Channels <- MCChannels
    Branding = ctv
    Social <- MCSocial
    Items <- MCFewItems
    MaxItems = 1
    Allocations <- MCFewAllocations
    Budget = 3
    Requests <- MCRequests
    Wants <- MCMixed
    AutoApprove = {TRUE, FALSE}
    StoreMayFail = TRUE
INVARIANTS
    ApprovedOnly
    BookingsReported
\* The process may die and is not restarted, and a finished job takes no step.
CHECK_DEADLOCK FALSE
