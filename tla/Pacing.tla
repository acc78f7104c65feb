--------------------------------- MODULE Pacing ---------------------------------
(***************************************************************************)
(* The pacing engine, the snapshots it takes of a campaign, the store that *)
(* keeps them, and the reports and tools that read the last one kept.      *)
(*                                                                         *)
(* Abstractions.  Money is in cents and time in parts of the flight.       *)
(* Percentages are in hundredths and rounded as the code rounds them (a    *)
(* tie, which floats hardly hit, goes up).  Each channel has one deal.     *)
(***************************************************************************)
EXTENDS Integers, Sequences, FiniteSets, FiniteSetsExt, SequencesExt

CONSTANTS
    Channels,
    Allocation,                     \* each channel's allocated_budget
    Total,                          \* the campaign's total_budget
    Flight,                         \* ticks from flight_start to flight_end
    WarningPct, CriticalPct,        \* PacingConfig, alike for under and over
    MinAmount, MaxPct,              \* min_reallocation_amount, max_reallocation_pct
    Deliveries,                     \* what a channel may spend at a time (external)
    MaxSpend,                       \* bound: a channel's spend
    MaxSnapshots                    \* bound: snapshots kept

ASSUME PacingAssumption ==
    /\ Allocation \in [Channels -> Nat] /\ Total \in Nat /\ Flight \in Nat \ {0}
    /\ {WarningPct, CriticalPct, MinAmount, MaxPct, MaxSpend, MaxSnapshots} \subseteq Nat
    /\ WarningPct <= CriticalPct /\ Deliveries \subseteq Nat \ {0}

VARIABLES
    now,        \* the time of the flight
    spent,      \* each channel's spend (external)
    draft,      \* a snapshot generated and not yet saved
    kept,       \* PacingStore: snapshots in the order in which they were written
    announced,  \* events published with the last snapshot generated
    report      \* full_report: the snapshot each section was made from, so far

pacingVars == <<now, spent, draft, kept, announced, report>>

NoDraft   == [at |-> -1]
NoSection == -1

--------------------------------------------------------------------------------
(* The engine.                                                             *)

\* round(n / d), for n and d not negative.
Rounded(n, d) == (2 * n + d) \div (2 * d)
Least(a, b) == IF a <= b THEN a ELSE b
Size(x) == IF x < 0 THEN -x ELSE x

\* calculate_expected_spend.
ExpectedAt(t) ==
    IF Total <= 0 \/ t <= 0 THEN 0 ELSE IF t >= Flight THEN Total ELSE Rounded(Total * t, Flight)
\* calculate_pacing_pct and calculate_deviation_pct, of a spend against n / d.
PacingPct(s, n, d) == IF n <= 0 THEN 0 ELSE Rounded(10000 * s * d, n)
DeviationPct(s, n, d) == IF n <= 0 THEN 0 ELSE PacingPct(s, n, d) - 10000

\* detect_deviation: the level and the direction of the alert, or no alert.
Alerts == {"critical", "warning"} \X {"under", "over"}
Beyond(dev, level) == Size(dev) > 100 * (IF level = "critical" THEN CriticalPct ELSE WarningPct)
DetectDeviation(s, expected) ==
    LET dev == DeviationPct(s, expected, 1) IN
    {a \in Alerts :
        /\ expected > 0 /\ a[2] = IF dev < 0 THEN "under" ELSE "over"
        /\ Beyond(dev, a[1]) /\ (a[1] = "warning" => ~Beyond(dev, "critical"))}

\* propose_reallocations: from every channel that is under to every one that is over.
\* A channel's share of the expected spend is ShareOf(...) / Total.
ShareOf(snap, c) == snap.expected * Allocation[c]
ChannelDeviation(snap, c) == DeviationPct(snap.spend[c], ShareOf(snap, c), Total)
Under(snap) == {c \in Channels : Allocation[c] > 0 /\ ShareOf(snap, c) > 0
                                 /\ ChannelDeviation(snap, c) < -100 * WarningPct}
Over(snap)  == {c \in Channels : Allocation[c] > 0 /\ ShareOf(snap, c) > 0
                                 /\ ChannelDeviation(snap, c) > 100 * WarningPct}
Gap(snap, c) == Size(ShareOf(snap, c) - snap.spend[c] * Total)
\* Mutant: the source's gap alone decides.
AmountOfSource(snap, s, t) ==
    Rounded(Least(Gap(snap, s), (Total * Total * MaxPct) \div 100), Total)
Amount(snap, s, t) ==
    Rounded(Least(Least(Gap(snap, s), Gap(snap, t)), (Total * Total * MaxPct) \div 100), Total)
Proposals(snap) ==
    IF Total <= 0 \/ snap.expected <= 0 THEN {}
    ELSE {[from |-> p[1], to |-> p[2], amount |-> Amount(snap, p[1], p[2])] :
              p \in {q \in Under(snap) \X Over(snap) : Amount(snap, q[1], q[2]) >= MinAmount}}

TotalSpend(snap) == MapThenSumSet(LAMBDA c : snap.spend[c], Channels)

--------------------------------------------------------------------------------
\* Time passes and channels spend (external).
Deliver ==
    /\ now < Flight + 1 /\ now' = now + 1
    /\ \E c \in Channels, s \in Deliveries \cup {0} :
         /\ spent[c] + s <= MaxSpend /\ spent' = [spent EXCEPT ![c] = @ + s]
    /\ UNCHANGED <<draft, kept, announced, report>>

PacingInit ==
    /\ now = 0 /\ spent = [c \in Channels |-> 0] /\ draft = NoDraft /\ kept = <<>>
    /\ announced = {} /\ report = <<>>

\* The events of a snapshot: one for itself, one if it is off its pace, one for each
\* proposal.
SnapshotTaken(snap)     == {<<"taken", snap.at>>}
DeviationEvents(snap)   == {<<"deviation", a>> : a \in DetectDeviation(TotalSpend(snap), snap.expected)}
ReallocationEvents(snap) == {<<"reallocate", p>> : p \in Proposals(snap)}
\* _emit_sync: without a bus, or when publishing fails, the events are lost.
EmitSync(events) == announced' \in {{}, events}

\* generate_snapshot.
GenerateSnapshot ==
    /\ draft = NoDraft /\ Len(kept) < MaxSnapshots
    /\ draft' = [at |-> now, spend |-> spent, expected |-> ExpectedAt(now)]
    /\ EmitSync(SnapshotTaken(draft') \cup DeviationEvents(draft') \cup ReallocationEvents(draft'))
    /\ UNCHANGED <<now, spent, kept, report>>

\* save_pacing_snapshot; the caller may also drop it.
SaveSnapshot ==
    /\ draft # NoDraft /\ draft' = NoDraft
    /\ kept' \in {kept, Append(kept, draft)}
    /\ UNCHANGED <<now, spent, announced, report>>

\* get_latest_pacing_snapshot: the last one written, whatever time it is of.
Latest == IF kept = <<>> THEN NoSection ELSE Len(kept)

\* get_campaign_report reads the store once for each section: status, pacing, deals.
CampaignReport ==
    /\ report' = IF Len(report) = 3 THEN <<Latest>> ELSE Append(report, Latest)
    /\ UNCHANGED <<now, spent, draft, kept, announced>>

PacingNext == Deliver \/ GenerateSnapshot \/ SaveSnapshot \/ CampaignReport
PacingSpec == PacingInit /\ [][PacingNext]_pacingVars

--------------------------------------------------------------------------------
(* What is read of a snapshot, or without one: NoDraft.                    *)

Overall(snap) == DeviationPct(TotalSpend(snap), snap.expected, 1)
\* check_pacing: the campaign's status in a word.
\* Mutant: on the threshold counts.
StatusAtThreshold(snap) ==
    IF snap = NoDraft THEN "no_data"
    ELSE IF Overall(snap) <= -1000 THEN "behind"
    ELSE IF Overall(snap) >= 1000 THEN "ahead" ELSE "on_track"
CheckPacing(snap) ==
    IF snap = NoDraft THEN "no_data"
    ELSE IF Overall(snap) < -1000 THEN "behind"
    ELSE IF Overall(snap) > 1000 THEN "ahead" ELSE "on_track"
\* get_pacing_report: the same word, but a campaign of which nothing is spent and
\* nothing is expected has no data.
PacingReport(snap) ==
    IF snap = NoDraft \/ (TotalSpend(snap) = 0 /\ snap.expected = 0) THEN "no_data"
    ELSE CheckPacing(snap)

\* _generate_pacing_alerts: the campaign and every channel that is 10% or more off,
\* critical from 20% on.  A channel of which nothing is expected yet is 100% under.
Severity(dev) == IF Size(dev) >= 2000 THEN "critical" ELSE IF Size(dev) >= 1000 THEN "warning"
                 ELSE "none"
ChannelAlert(snap, c) == Severity(PacingPct(snap.spend[c], ShareOf(snap, c), Total) - 10000)
PacingAlerts(snap) ==
    {<<"campaign", Severity(Overall(snap))>>} \cup {<<c, ChannelAlert(snap, c)>> : c \in Channels}
\* pacing_dashboard.
PacingDashboard(snap) ==
    IF snap = NoDraft THEN [spend |-> 0, alerts |-> {}]
    ELSE [spend |-> TotalSpend(snap), alerts |-> {a \in PacingAlerts(snap) : a[2] # "none"}]

\* The spend that campaign_status_summary, get_campaign_status and review_budgets show,
\* and the sum of the deals' that deal_report shows.
StatusSummary(snap)  == IF snap = NoDraft THEN 0 ELSE TotalSpend(snap)
CampaignStatus(snap) == IF snap = NoDraft THEN 0 ELSE TotalSpend(snap)
ReviewBudgets(snap)  == IF snap = NoDraft THEN 0 ELSE TotalSpend(snap)
DealReport(snap) ==
    IF snap = NoDraft THEN 0 ELSE MapThenSumSet(LAMBDA c : snap.spend[c], Channels)

--------------------------------------------------------------------------------
(* Properties.                                                             *)

\* Type invariant of the pacing records.
PacingTypeOK ==
    /\ now \in 0 .. Flight + 1 /\ spent \in [Channels -> 0 .. MaxSpend]
    /\ \A i \in 1 .. Len(kept) :
         /\ kept[i].at \in 0 .. Flight + 1 /\ kept[i].expected \in 0 .. Total
         /\ kept[i].spend \in [Channels -> 0 .. MaxSpend]
    /\ Len(kept) <= MaxSnapshots
    /\ report \in UNION {[1 .. n -> {NoSection} \cup 1 .. MaxSnapshots] : n \in 0 .. 3}

\* A reallocation, if it is followed, does what it is for: the channel that gives
\* budget away was under its share and is, to the cent, still not over it, the one that
\* receives it was over its share and is still not under it, and nothing moves that the
\* giving channel was not allocated.
ReallocationsAreSound ==
    \A i \in 1 .. Len(kept) : \A p \in Proposals(kept[i]) :
        LET snap == kept[i] IN
        /\ p.from # p.to /\ p.amount >= MinAmount /\ p.amount <= Allocation[p.from]
        /\ 100 * p.amount <= Total * MaxPct + 100
        /\ snap.spend[p.from] * Total <= snap.expected * (Allocation[p.from] - p.amount) + Total
        /\ snap.spend[p.to] * Total >= snap.expected * (Allocation[p.to] + p.amount) - Total

\* The places that judge a snapshot agree: the status in a word says behind or ahead
\* exactly when the engine, at its default thresholds, raises an alert, and if the events
\* of a snapshot were published the alert is among them; an alert of the engine is one
\* on the dashboard, and as severe; and every tool shows the same spend.  The sections
\* of one report never step back in time.
VerdictsCohere ==
    /\ \A snap \in {NoDraft, draft} \cup ToSet(kept) :
         /\ PacingReport(snap) # "no_data" => PacingReport(snap) = CheckPacing(snap)
         /\ {StatusSummary(snap), CampaignStatus(snap), ReviewBudgets(snap), DealReport(snap)}
              = {PacingDashboard(snap).spend}
         /\ snap # NoDraft =>
              LET alert == DetectDeviation(TotalSpend(snap), snap.expected) IN
              /\ CheckPacing(snap) = "behind" <=> \E a \in alert : a[2] = "under"
              /\ CheckPacing(snap) = "ahead"  <=> \E a \in alert : a[2] = "over"
              /\ alert # {} => \E a \in PacingDashboard(snap).alerts : a[1] = "campaign"
              /\ \A a \in alert :
                    a[1] = "critical" => <<"campaign", "critical">> \in PacingDashboard(snap).alerts
    /\ draft # NoDraft /\ announced # {} =>
         (CheckPacing(draft) \in {"behind", "ahead"} <=> \E e \in announced : e[1] = "deviation")
    /\ \A j \in 1 .. Len(report) - 1 : report[j] <= report[j + 1]

\* A channel is called off its pace on the dashboard only if something was expected
\* of it: before the flight starts nothing is.
NoAlarmBeforeFlight ==
    \A i \in 1 .. Len(kept), c \in Channels :
        kept[i].expected = 0 => ChannelAlert(kept[i], c) = "none"
================================================================================
