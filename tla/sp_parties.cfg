\* The buyer's dealings with other parties, one component at a time.
SPECIFICATION PartiesSpec
CONSTANTS
    d1 = d1  d2 = d2  nd = nd  t1 = t1  t2 = t2  t3 = t3  c1 = c1  c2 = c2  e1 = e1  e2 = e2
    p1 = p1  p2 = p2  p3 = p3  p4 = p4  v1 = v1  v2 = v2  i1 = i1  i2 = i2  i3 = i3  i4 = i4  i5 = i5
    Domains <- MCDomains
    Host <- MCHost
    Products <- MCProducts
    Setup <- MCSetup
    Tools <- MCTools
    Dotted <- MCDotted
    NoDomain = nd
    ApprovalTTL = 1
    Latency = 1
    Batch = 1
    MaxRetries = 1
    SgpHorizon = 2
    Discoverers <- MCCallers
    Ceiling = 2
    MaxAges = {0, 3}
    CapHorizon = 3
    Lookers <- MCCallers
    RegistryTTL = 0
    AnswerDelay = 1
    DirHorizon = 2
    Coroutines <- MCCallers
    Contexts = {d1, d2}
    NoContext = nd
    MaxOpenings = 2
    MaxToolCalls = 3
    CatalogueItems = {i1, i2, i3, i4, i5}
    ItemShape <- MCShapes
    AskedProduct = p1
    OtherProducts = {p2}
    NoProduct = nd
    MaxPage = 2
    MaxSent = 3
    TargetCpm = 2
    MaxCpm = 4
    Concession = 1
    MaxRounds = 4
    SellerPrices = {3, 5, 6, 7, 8}
    DeskCallers = {c1}
    ListPrices = {0, 1000, 1333}
    DealVolumes = {0, 5}
    Targets = {1400}
    NoTarget = nd
    DealCeiling = 1150
    SmallVolume = 5
    LargeVolume = 10
    MaxReprices = 1
    MaxIssued = 1
    RankedSellers = {v1, v2}
    RawCpms = {0, 10, 12}
    FeePct <- MCFees
    TechFee <- MCTechFee
    FillRates = {40, 80}
    NoFill = nd
    MaxQuotes = 2
    Briefs <- MCBriefs
    SellerCaps <- MCSellerCaps
    Catalogue = {"s1", "s2", "c1"}
    KitSellers = {v1, v2}
    Packages <- MCPackages
    StatedTotals = {1}
    Unstated <- NoTotal
    MaxAsked = 2
INVARIANTS
    PartiesTypeOK
    DealRestsOnApproval
    LookupsAreFresh
    NothingStaysOpen
    NothingIsMisread
    ReportsAreComplete
    TermsHold
SYMMETRY MCSymmetry
\* Every component's bounds end its behaviours.
CHECK_DEADLOCK FALSE
