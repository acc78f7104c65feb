\* What the operator's desk keeps, one component at a time.
SPECIFICATION DesksSpec
CONSTANTS
    o1 = o1  o2 = o2  o3 = o3  o4 = o4  blank = blank  b1 = b1  b2 = b2
    g1 = g1  g2 = g2  r1 = r1  d1 = d1  q1 = q1  t1 = t1  t2 = t2  t3 = t3  none = none
    Keys = {k1, k2}
    Labels = {l1}
    Servers = {s1}
    Clis = {c1}
    Mounted = {s1}
    LegacyKey = lg
    NoKey = nk
    MaxUses = 1
    Emitters = {e1, e2}
    Audited = {e1}
    Limit = 1
    Watchers = {w1}
    Loggers = {g1, g2}
    Configurations = 1
    Offers = {o1, o2, o3, o4}
    Shape <- MCShape
    NoId = "no id"
    Listings <- MCListings
    Texts <- MCTexts
    Blank = blank
    Filters = {"all", "active", "odd"}
    PageSize = 2
    MaxPages = 3
    OverFetch = 1
    MaxImports = 2
    Sessions = {p1, p2}
    DeskSellers = {a1, a2}
    Statuses = {"pending", "booked"}
    Initial = "pending"
    MaxCalls = 3
    Openers = {p1, p2}
    Columns = {x1, x2}
    MaxKills = 2
    WizardSteps = {1, 2, 3, 8}
    DeveloperSteps = {1, 2, 3}
    DetectedSteps = {1, 2}
    LaunchStep = 8
    NoStep = 9
    MaxAnswers = 4
    Channels = {b1, b2}
    Allocation <- MCAllocation
    Total = 100
    Flight = 3
    WarningPct = 10
    CriticalPct = 25
    MinAmount = 5
    MaxPct = 20
    Deliveries = {20, 30}
    MaxSpend = 60
    MaxSnapshots = 2
INVARIANTS
    DesksTypeOK
    OneActivePerLabel
    AcknowledgedIsKept
    StoresAreWhole
    PacingIsSound
    ReviewersAreHeeded
    RowsAreExplained
PROPERTIES
    DecisionsHold
\* Every component's bounds end its behaviours.
CHECK_DEADLOCK FALSE
