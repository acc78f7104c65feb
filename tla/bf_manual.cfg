\* Approvals of named products, which the event loop serializes.
SPECIFICATION FairSpec
CONSTANTS
    ctv = ctv  social = social  p1 = p1  p2 = p2  r1 = r1  r2 = r2
    None = None  Itself = itself
    Channels <- MCChannels
    Branding = ctv
    Social <- MCSocial
    Items <- MCItems
    MaxItems = 2
    Allocations <- MCAllocations
    Budget = 3
    Requests <- MCRequests
    Wants <- MCSelective
    AutoApprove = {FALSE}
    StoreMayFail = FALSE
INVARIANTS
    TypeOK
    BookedOnce
    WithinBudget
    ConsolidatesAll
    RecordsAgree
    CompletedMeansBooked
PROPERTIES
    ApprovalAnswered
    JobLeavesRunning
\* The process may die and is not restarted, and a finished job takes no step.
CHECK_DEADLOCK FALSE
