SPECIFICATION FairSpec
CONSTANTS
    a = a
    b = b
    d = d
    None = None
    Sellers = {a, b, d}
    Excluded = {}
    Blocked = {}
    NoDomain = {}
    Approved <- MCApproved
    Denied <- MCDenied
    SgpEnforce = TRUE
    SgpConfigured = TRUE
    UnknownPolicy = "block"
    Prices <- MCPrices
    Effective <- MCEffective
    MaxCpm = 3
    TargetCpm = 2
    BandLimit = 4
    NegotiationEnabled = TRUE
    MaxRounds = 3
    HasPlan = FALSE
    HasCapabilities = FALSE
    MaxRetries = 2
    Count = 2
    Volume = 1
    Budget = 4
INVARIANTS
    TypeOK
    CeilingHolds
    NegotiatedPriceStands
    VettedSellersOnly
    OneDealPerSeller
PROPERTIES
    RunEnds
    KeepsPromise
\* A finished run takes no step.
CHECK_DEADLOCK FALSE
