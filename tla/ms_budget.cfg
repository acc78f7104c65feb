\* A deal is booked whose cost exceeds the budget of the run.
SPECIFICATION FairSpec
CONSTANTS
    a = a
    b = b
    d = d
    None = None
    Sellers = {a, b, d}
    Excluded = {}
    Blocked = {}
    NoDomain = {}
    Approved <- MCApproved
    Denied <- MCDenied
    SgpEnforce = TRUE
    SgpConfigured = TRUE
    UnknownPolicy = "block"
    Prices <- MCPrices
    Effective <- MCFlatEffective
    MaxCpm = 3
    TargetCpm = 2
    BandLimit = 4
    NegotiationEnabled = FALSE
    MaxRounds = 1
    HasPlan = FALSE
    HasCapabilities = FALSE
    MaxRetries = 1
    Count = 2
    Volume = 1
    Budget = 2
INVARIANTS
    WithinApprovedBudget
\* A finished run takes no step.
CHECK_DEADLOCK FALSE
