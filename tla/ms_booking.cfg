SPECIFICATION FairSpec
CONSTANTS
    a = a
    b = b
    d = d
    None = None
    Sellers = {a, b, d}
    Excluded = {}
    Blocked = {}
    NoDomain = {}
    Approved <- MCUnknownB
    Denied = {}
    SgpEnforce = TRUE
    SgpConfigured = TRUE
    UnknownPolicy = "warn"
    Prices <- MCPrices
    Effective <- MCFlatEffective
    MaxCpm = None
    TargetCpm = None
    BandLimit = 0
    NegotiationEnabled = TRUE
    MaxRounds = 3
    HasPlan = TRUE
    HasCapabilities = TRUE
    MaxRetries = 3
    Count = 2
    Volume = 1
    Budget = 2
INVARIANTS
    OneDealPerQuote
    VerdictsAccount
\* A finished run takes no step.
CHECK_DEADLOCK FALSE
