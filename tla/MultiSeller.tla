------------------------------ MODULE MultiSeller ------------------------------
(***************************************************************************)
(* One run of MultiSellerOrchestrator.orchestrate: discover and vet        *)
(* sellers, collect quotes concurrently, rank them under the CPM ceiling,  *)
(* negotiate the quotes that lie just above it, and book through           *)
(* DealsClient, whose calls may time out, be retried, or fail after the    *)
(* seller has already committed the deal.                                  *)
(*                                                                         *)
(* Abstractions.  Prices are integer micros (the unit of the two money     *)
(* guards).  A seller answers anything it likes: a quote or counter is a   *)
(* nondeterministic choice of a price.  The composite score that orders    *)
(* the ranked quotes (price, fill rate) is abstracted to an arbitrary      *)
(* order in which priced quotes come before unpriced ones.  Events, audit  *)
(* rows and log lines are left out.                                        *)
(***************************************************************************)
EXTENDS Integers, FiniteSets

CONSTANTS
    Sellers,            \* agent cards the registry may return
    Excluded,           \* InventoryRequirements.excluded_sellers
    Blocked,            \* sellers whose trust_level is BLOCKED
    NoDomain,           \* sellers whose URL yields no SGP domain
    Approved, Denied,   \* SGP portfolio; every other seller is unknown to it
    SgpEnforce,         \* sgp_enforce
    SgpConfigured,      \* sgp_client is not None
    UnknownPolicy,      \* sgp_unknown_policy: "block", "warn" or "allow"
    Prices,             \* the CPMs a seller may quote or counter with
    Effective,          \* Effective[s][p]: p after deal-type markup and fees
    MaxCpm,             \* inventory_requirements.max_cpm, or None
    TargetCpm,          \* deal_params.target_cpm, or None
    BandLimit,          \* max_cpm * NegotiationConfig.band
    NegotiationEnabled, \* NegotiationConfig.enabled
    MaxRounds,          \* NegotiationConfig.max_rounds
    HasPlan,            \* deal_params.audience_plan is not None
    HasCapabilities,    \* a capability client is configured (pre-flight)
    MaxRetries,         \* DealsClient max_retries
    Count,              \* max_deals
    Volume,             \* thousands of impressions requested
    Budget,             \* the budget handed to orchestrate
    None                \* Python's None

ASSUME SellersAssumption ==
    /\ IsFiniteSet(Sellers)
    /\ \A S \in {Excluded, Blocked, NoDomain, Approved, Denied} : S \subseteq Sellers
ASSUME PriceAssumption ==
    /\ Prices \subseteq Nat
    /\ MaxCpm \in Prices \cup {None} /\ TargetCpm \in Prices \cup {None}
    /\ BandLimit \in Nat
    /\ None \notin Nat
\* Normalization only ever adds to the quoted price: the PA markup and the
\* supply-path fees of QuoteNormalizer are non-negative.
ASSUME EffectiveAssumption ==
    /\ Effective \in [Sellers -> [Prices -> Nat]]
    /\ \A s \in Sellers : \A p \in Prices : Effective[s][p] >= p
ASSUME BoundsAssumption ==
    /\ MaxRounds \in Nat \ {0} /\ MaxRetries \in Nat \ {0}
    /\ Count \in Nat /\ Volume \in Nat /\ Budget \in Nat
ASSUME FlagsAssumption ==
    {SgpEnforce, SgpConfigured, NegotiationEnabled, HasPlan, HasCapabilities}
        \subseteq BOOLEAN

Quote == [seller : Sellers, kind : {"rfq", "requote"}, price : Prices \cup {None}]
Talk  == [quote : Quote, round : 1..MaxRounds, agreed : Prices \cup {None}]
\* A DealsClient.book_deal in progress: its plan, its idempotency key (the
\* first mint for the quote or the second), and how often it has been sent.
Keys  == 1..2
Call  == [quote : Quote, plan : {"none", "full", "degraded"}, preflight : BOOLEAN,
          key : Keys, attempt : 1..MaxRetries]
Deal  == [quote : Quote, key : Keys]

ASSUME NoneAssumption == None \notin Talk /\ None \notin Call

VARIABLES
    stage,        \* where orchestrate is
    discovered,   \* sellers discover_sellers returned
    answered,     \* sellers whose quote request has been settled
    quotes,       \* quote_results that carry a quote
    band,         \* above-ceiling quotes still to be negotiated
    talk,         \* the negotiation in progress, or None
    stated,       \* <<seller, price>>: prices a seller named or accepted
    remaining,    \* ranked quotes the booking loop has not reached
    call,         \* the booking in progress, or None
    booked,       \* DealSelection.booked_deals
    failed,       \* quotes in DealSelection.failed_bookings
    incompatible, \* DealSelection.incompatible_sellers
    committed     \* the deals sellers hold (external)

vars == <<stage, discovered, answered, quotes, band, talk, stated, remaining,
          call, booked, failed, incompatible, committed>>
quoting   == <<answered, quotes>>
talking   == <<band, talk, stated>>
booking   == <<remaining, call, booked, failed, incompatible, committed>>

Init ==
    /\ stage = "discover"
    /\ discovered = {} /\ answered = {} /\ quotes = {}
    /\ band = {} /\ talk = None /\ stated = {}
    /\ remaining = {} /\ call = None /\ booked = {} /\ failed = {}
    /\ incompatible = {} /\ committed = {}

--------------------------------------------------------------------------------
(* Stage 1: discovery and the SGP vendor gate, which fails closed.         *)

SgpKeeps(s) ==
    /\ s \notin NoDomain
    /\ \/ s \in Approved
       \/ s \notin Approved \cup Denied /\ UnknownPolicy \in {"allow", "warn"}

\* Mutant: without a working portfolio lookup every seller passes.
SgpGateOpen(found, lookupOk) ==
    IF SgpEnforce /\ SgpConfigured /\ lookupOk THEN {s \in found : SgpKeeps(s)} ELSE found

SgpGate(found, lookupOk) ==
    IF ~SgpEnforce THEN found
    ELSE IF ~SgpConfigured \/ ~lookupOk THEN {}
    ELSE {s \in found : SgpKeeps(s)}

DiscoverSellers ==
    /\ stage = "discover"
    /\ \E found \in SUBSET Sellers, lookupOk \in BOOLEAN :
          discovered' = SgpGate(found \ (Excluded \cup Blocked), lookupOk)
    /\ stage' = IF discovered' = {} THEN "done" ELSE "quote"
    /\ UNCHANGED <<quoting, talking, booking>>

--------------------------------------------------------------------------------
(* Stage 2: concurrent quote requests, isolated from one another.          *)

QuoteArrives(s) ==
    /\ stage = "quote" /\ s \in discovered \ answered
    /\ answered' = answered \cup {s}
    /\ \E p \in Prices \cup {None} :
          quotes' = quotes \cup {[seller |-> s, kind |-> "rfq", price |-> p]}
    /\ UNCHANGED <<stage, discovered, talking, booking>>

\* A timeout, an error, or no equivalent product in the seller's catalog.
QuoteFails(s) ==
    /\ stage = "quote" /\ s \in discovered \ answered
    /\ answered' = answered \cup {s}
    /\ UNCHANGED <<stage, discovered, quotes, talking, booking>>

--------------------------------------------------------------------------------
(* Stage 3: the ceiling filter on normalized prices.                       *)

EffectiveCpm(q) == IF q.price = None THEN None ELSE Effective[q.seller][q.price]

\* Mutants: unpriced quotes survive the ceiling; the ceiling is the band's.
RankUnpriced(qs) ==
    {q \in qs : MaxCpm # None /\ q.price # None => EffectiveCpm(q) <= MaxCpm}
RankBand(qs) ==
    {q \in qs : MaxCpm # None => q.price # None /\ EffectiveCpm(q) <= BandLimit}

Rank(qs) ==
    IF MaxCpm = None THEN qs
    ELSE {q \in qs : q.price # None /\ EffectiveCpm(q) <= MaxCpm}

InBand(qs) ==
    {q \in qs : /\ q.price # None
                /\ EffectiveCpm(q) > MaxCpm /\ EffectiveCpm(q) <= BandLimit}

StartBooking(ranked) ==
    /\ remaining' = ranked
    /\ stage' = IF ranked = {} THEN "done" ELSE "book"

\* Mutant: the evaluation waits for a quote from every seller.
AllQuoted   == {q.seller : q \in quotes} = discovered
AllAnswered == answered = discovered

EvaluateAndRank ==
    /\ stage = "quote" /\ AllAnswered
    /\ IF NegotiationEnabled /\ MaxCpm # None
       THEN stage' = "negotiate" /\ band' = InBand(quotes) /\ UNCHANGED remaining
       ELSE StartBooking(Rank(quotes)) /\ UNCHANGED band
    /\ UNCHANGED <<discovered, quoting, talk, stated,
                   call, booked, failed, incompatible, committed>>

--------------------------------------------------------------------------------
(* Stage 3.5: negotiate above-ceiling quotes, one after the other.         *)

OpenPrice == IF TargetCpm = None \/ TargetCpm > MaxCpm THEN MaxCpm ELSE TargetCpm

Acceptable(p) == p # None /\ p <= MaxCpm

\* The buyer walks away: the negotiation yields no quote.
Walk ==
    /\ talk' = None
    /\ UNCHANGED <<stage, discovered, quoting, band, booking>>

Agree(p) ==
    /\ talk' = [talk EXCEPT !.agreed = p]
    /\ UNCHANGED <<stage, discovered, quoting, band, booking>>

\* POST /proposals fails, is rejected, or carries no counter price.
ProposalUnavailable(q) ==
    /\ stage = "negotiate" /\ talk = None /\ q \in band
    /\ band' = band \ {q}
    /\ UNCHANGED <<stage, discovered, quoting, talk, stated, booking>>

\* The proposal is answered by "accept" (of the opening price) or by the
\* seller's first counter price, which is round 1.
ProposalAnswered(q) ==
    /\ stage = "negotiate" /\ talk = None /\ q \in band
    /\ band' = band \ {q}
    /\ \E p \in Prices, accepted \in BOOLEAN :
          LET named == IF accepted THEN OpenPrice ELSE p
          IN  /\ stated' = stated \cup {<<q.seller, named>>}
              /\ talk' = [quote |-> q, round |-> 1,
                          agreed |-> IF Acceptable(named) THEN named ELSE None]
    /\ UNCHANGED <<stage, discovered, quoting, booking>>

Countering ==
    /\ stage = "negotiate" /\ talk # None
    /\ talk.agreed = None /\ talk.round < MaxRounds

\* One response to the standing offer.  An acceptable price is taken whatever
\* the action says; "accept" with any other price, "reject" and "final_offer"
\* end the talk.
CounterAnswered(action, p) ==
    /\ Countering
    /\ stated' = IF p = None THEN stated ELSE stated \cup {<<talk.quote.seller, p>>}
    /\ IF Acceptable(p) THEN Agree(p)
       ELSE IF action = "counter"
       THEN /\ talk' = [talk EXCEPT !.round = @ + 1]
            /\ UNCHANGED <<stage, discovered, quoting, band, booking>>
       ELSE Walk

CounterFails == Countering /\ Walk /\ UNCHANGED stated

RoundsExhausted ==
    /\ stage = "negotiate" /\ talk # None
    /\ talk.agreed = None /\ talk.round >= MaxRounds
    /\ Walk /\ UNCHANGED stated

\* Mutant: the price of the re-quote is not compared with the agreed one.
BookableAnyPrice(p) == p # None /\ p <= MaxCpm

Bookable(p) == p # None /\ p <= MaxCpm /\ p = talk.agreed

\* The agreed price is quoted afresh; any other price is refused.
Requote ==
    /\ stage = "negotiate" /\ talk # None /\ talk.agreed # None
    /\ \E p \in Prices \cup {None} :
          quotes' = IF Bookable(p)
                    THEN quotes \cup {[seller |-> talk.quote.seller,
                                       kind |-> "requote", price |-> p]}
                    ELSE quotes
    /\ talk' = None
    /\ UNCHANGED <<stage, discovered, answered, band, stated, booking>>

RequoteFails ==
    /\ stage = "negotiate" /\ talk # None /\ talk.agreed # None
    /\ Walk /\ UNCHANGED stated

FinishNegotiation ==
    /\ stage = "negotiate" /\ talk = None /\ band = {}
    /\ StartBooking(Rank(quotes))
    /\ UNCHANGED <<discovered, quoting, talking,
                   call, booked, failed, incompatible, committed>>

--------------------------------------------------------------------------------
(* Stage 4: book the ranked quotes, best first, up to Count deals.         *)

\* evaluate_and_rank hands compare_quotes no minimum_spends, so every ranked
\* quote carries normalize_quote's default of 0.0.
MinimumSpend(q) == 0

Affordable(q) == ~(MinimumSpend(q) > 0 /\ MinimumSpend(q) > Budget)

\* Priced quotes precede unpriced ones in the ranking.
Next1(q) == q.price # None \/ \A r \in remaining : r.price = None

\* Mutant: the count is compared off by one.
OneMoreWanted == Cardinality(booked) <= Count
MoreWanted    == Cardinality(booked) < Count

BookNext(q) ==
    /\ stage = "book" /\ call = None /\ MoreWanted
    /\ q \in remaining /\ Affordable(q) /\ Next1(q)
    /\ remaining' = remaining \ {q}
    /\ call' = [quote |-> q, plan |-> IF HasPlan THEN "full" ELSE "none",
                preflight |-> HasPlan /\ HasCapabilities, key |-> 1, attempt |-> 1]
    /\ UNCHANGED <<stage, discovered, quoting, talking,
                   booked, failed, incompatible, committed>>

FinishBooking ==
    /\ stage = "book" /\ call = None
    /\ ~MoreWanted \/ \A q \in remaining : ~Affordable(q)
    /\ stage' = "done"
    /\ UNCHANGED <<discovered, quoting, talking, booking>>

\* Mutants: a failure is not recorded; the loop goes on with a finished call.
FailUnrecorded == failed' = failed
KeepCall       == call' = call

Fail      == failed' = failed \cup {call.quote}
Exclude   == incompatible' = incompatible \cup {call.quote.seller}
EndOfCall == call' = None

\* Capability discovery and degradation before the first attempt.
PreflightPasses ==
    /\ call # None /\ call.preflight
    /\ call' = [call EXCEPT !.preflight = FALSE]
    /\ UNCHANGED <<stage, discovered, quoting, talking,
                   remaining, booked, failed, incompatible, committed>>

PreflightRejects ==
    /\ call # None /\ call.preflight
    /\ Fail /\ Exclude /\ EndOfCall
    /\ UNCHANGED <<stage, discovered, quoting, talking, remaining, booked, committed>>

Posting == call # None /\ ~call.preflight

\* The deal a seller holds for the current request; a request that repeats a
\* key finds the deal already there.
TheDeal    == [quote |-> call.quote, key |-> call.key]
SellerMayCommit == committed' \in {committed, committed \cup {TheDeal}}

BookingConfirmed ==
    /\ Posting
    /\ committed' = committed \cup {TheDeal}
    /\ booked' = booked \cup {TheDeal}
    /\ EndOfCall
    /\ UNCHANGED <<stage, discovered, quoting, talking, remaining, failed, incompatible>>

\* Mutants: one attempt too many; every attempt mints an idempotency key.
MayResendOnceMore(c) == c.attempt <= MaxRetries
ResendNewKey(c)      == [c EXCEPT !.attempt = @ + 1, !.key = 2]

MayResend(c) == c.attempt < MaxRetries
Resend(c) == [c EXCEPT !.attempt = @ + 1]

\* A timeout or a 502/503/504: the seller may have committed all the same.
BookingTimesOut ==
    /\ Posting /\ MayResend(call)
    /\ SellerMayCommit
    /\ call' = Resend(call)
    /\ UNCHANGED <<stage, discovered, quoting, talking,
                   remaining, booked, failed, incompatible>>

\* The last timeout, a transport error, or any status that is not retried.
\* A failure of the degraded request also marks the seller incompatible.
BookingFails ==
    /\ Posting
    /\ SellerMayCommit
    /\ Fail /\ EndOfCall
    /\ IF call.plan = "degraded" THEN Exclude ELSE UNCHANGED incompatible
    /\ UNCHANGED <<stage, discovered, quoting, talking, remaining, booked>>

\* A 2xx whose body is not a DealBookingResponse: not a DealsClientError.
BookingGarbled ==
    /\ Posting
    /\ committed' = committed \cup {TheDeal}
    /\ Fail /\ EndOfCall
    /\ UNCHANGED <<stage, discovered, quoting, talking, remaining, booked, incompatible>>

\* 400 audience_plan_unsupported.  The first one is answered with a degraded
\* plan, which is a new book_deal under a new key, unless nothing would be
\* left of the plan; the second one gives the seller up.
AudienceUnsupported ==
    /\ Posting /\ call.plan # "none" /\ TheDeal \notin committed
    /\ \/ /\ call.plan = "full"
          /\ call' = [call EXCEPT !.plan = "degraded", !.key = @ + 1, !.attempt = 1]
          /\ UNCHANGED <<failed, incompatible>>
       \/ Fail /\ Exclude /\ EndOfCall
    /\ UNCHANGED <<stage, discovered, quoting, talking, remaining, booked, committed>>

Next ==
    \/ DiscoverSellers
    \/ \E s \in Sellers : QuoteArrives(s) \/ QuoteFails(s)
    \/ EvaluateAndRank
    \/ \E q \in band : ProposalUnavailable(q) \/ ProposalAnswered(q)
    \/ \E action \in {"accept", "counter", "final_offer", "reject"},
          p \in Prices \cup {None} : CounterAnswered(action, p)
    \/ CounterFails \/ RoundsExhausted \/ Requote \/ RequoteFails
    \/ FinishNegotiation
    \/ \E q \in remaining : BookNext(q)
    \/ FinishBooking
    \/ PreflightPasses \/ PreflightRejects
    \/ BookingConfirmed \/ BookingTimesOut \/ BookingFails
    \/ BookingGarbled \/ AudienceUnsupported

Spec == Init /\ [][Next]_vars

\* Every await of the run is bounded by a timeout, so the run keeps stepping.
FairSpec == Spec /\ WF_vars(Next)

--------------------------------------------------------------------------------
(* Properties.                                                             *)

Stages == {"discover", "quote", "negotiate", "book", "done"}

\* Type invariant.
TypeOK ==
    /\ stage \in Stages
    /\ discovered \subseteq Sellers /\ answered \subseteq Sellers
    /\ quotes \subseteq Quote /\ band \subseteq Quote /\ remaining \subseteq Quote
    /\ talk \in Talk \cup {None}
    /\ stated \subseteq Sellers \X Prices
    /\ call \in Call \cup {None}
    /\ booked \subseteq Deal /\ committed \subseteq Deal
    /\ failed \subseteq Quote /\ incompatible \subseteq Sellers

\* "Never book above the ceiling": no seller ever holds a deal priced above
\* max_cpm, on a plain quote, on a negotiated one, or on one the buyer lost
\* track of (evaluate_and_rank and the re-quote guard of _negotiate_quote).
CeilingHolds ==
    MaxCpm # None =>
        \A d \in committed : d.quote.price # None /\ d.quote.price <= MaxCpm

\* "Never book a price we did not agree to": a deal struck on a re-quote is at
\* a price its seller itself named or accepted in the negotiation.
NegotiatedPriceStands ==
    \A d \in committed :
        d.quote.kind = "requote" => <<d.quote.seller, d.quote.price>> \in stated

\* Resending a booking and degrading its audience plan never leave a seller
\* holding two deals for one quote (_request_with_retry resends one body, so
\* one idempotency key; the degraded plan follows only a refusal).
OneDealPerQuote ==
    \A d, e \in committed : d.quote = e.quote => d = e

MayBeVetted(s) ==
    s \notin Excluded \cup Blocked /\ (SgpEnforce => SgpConfigured /\ SgpKeeps(s))

\* Only sellers that survived the exclusion list, the block list and, when it
\* is enforced, the SGP gate ever hold a deal.
VettedSellersOnly == \A d \in committed : MayBeVetted(d.quote.seller)

\* Where everything comes from, at every point of the run: sellers from
\* vetting, quotes from vetted sellers, re-quotes from a price their seller
\* stated, and whatever is being booked or is held by a seller from the ranked
\* quotes.  CeilingHolds, NegotiatedPriceStands and VettedSellersOnly follow.
VettingSound ==
    /\ stage = "discover" => discovered = {}
    /\ \A s \in discovered : MayBeVetted(s)
QuotesSound ==
    \A q \in quotes :
        /\ q.seller \in discovered
        /\ q.kind = "requote" => <<q.seller, q.price>> \in stated
TalkSound ==
    /\ stage = "negotiate" => MaxCpm # None
    /\ band \subseteq quotes
    /\ talk # None =>
          /\ talk.quote \in quotes
          /\ talk.agreed # None => <<talk.quote.seller, talk.agreed>> \in stated
BookingSound ==
    /\ remaining \subseteq Rank(quotes)
    /\ call # None =>
          /\ call.quote \in Rank(quotes)
          /\ call.plan # "degraded" => call.key = 1
    /\ \A d \in committed : d.quote \in Rank(quotes)
Provenance == VettingSound /\ QuotesSound /\ TalkSound /\ BookingSound

\* A seller's above-ceiling quote never competes with its own negotiated
\* re-quote: the run books at most one deal from each seller.
OneDealPerSeller ==
    \A d, e \in booked : d.quote.seller = e.quote.seller => d = e

\* The selection accounts for every deal: what it reports as booked a seller
\* holds, and what a seller holds is reported as booked or as failed, or is
\* still being booked.
SelectionAccounts ==
    /\ booked \subseteq committed
    /\ \A d \in committed : \/ d \in booked
                            \/ d.quote \in failed
                            \/ call # None /\ call.quote = d.quote

\* A seller is given up as incompatible only together with a failed quote, and
\* holds no booked deal: no deal is both booked and reported failed.
NoVerdictContradicted ==
    /\ \A d \in booked : d.quote \notin failed /\ d.quote.seller \notin incompatible
    /\ \A s \in incompatible : \E q \in failed : q.seller = s

\* select_and_book reports at most Count deals.
AtMostCount == Cardinality(booked) <= Count

\* What orchestrate() answers is the truth about the deals: every deal a seller
\* holds is reported once, as booked or as failed, through resends, refusals,
\* degraded plans and lost replies, and no more are booked than were asked for.
VerdictsAccount == SelectionAccounts /\ NoVerdictContradicted /\ AtMostCount

\* Why a seller has one chance only: until the booking starts it has one quote
\* of each kind at most, a negotiation is about an above-ceiling quote that has
\* no re-quote yet, and a quote that has one is itself not ranked.
InTalks == band \cup {q \in quotes : talk # None /\ q = talk.quote}
PoolSound ==
    /\ \A q \in quotes : q.seller \in answered
    /\ \A q, r \in quotes : q.seller = r.seller =>
          \/ q = r
          \/ q.kind = "requote" /\ r.kind = "rfq" /\ r \notin Rank(quotes)
          \/ r.kind = "requote" /\ q.kind = "rfq" /\ q \notin Rank(quotes)
    /\ stage \in {"discover", "quote"} => \A q \in quotes : q.kind = "rfq"
    /\ stage # "negotiate" => talk = None
    /\ talk # None => talk.quote \notin band
    /\ \A q \in InTalks :
          /\ q.kind = "rfq" /\ q \notin Rank(quotes)
          /\ \A r \in quotes : r.seller = q.seller => r = q

\* The booking loop at every point: nothing is booked before it; the quote in
\* hand is new to sellers and verdicts except under the key in hand; quotes not
\* yet reached are new to both; and no verdict is contradicted or missing.
LoopSound ==
    /\ stage \in {"discover", "quote", "negotiate"} =>
          committed = {} /\ failed = {}
    /\ call # None =>
          /\ stage = "book" /\ MoreWanted
          /\ call.quote \notin remaining \cup failed
          /\ TheDeal \notin booked
          /\ \A d \in committed : d.quote = call.quote => d = TheDeal
    /\ \A d \in committed : d.quote \notin remaining
    /\ failed \subseteq Rank(quotes) \ remaining
LoopAccounts ==
    /\ IsFiniteSet(booked) /\ AtMostCount
    /\ OneDealPerQuote /\ SelectionAccounts
    /\ \A d \in booked : d.quote \notin failed
    /\ \A s \in incompatible : \E q \in failed : q.seller = s
Accounting == PoolSound /\ LoopSound /\ LoopAccounts

\* Every run ends: rounds, resends and the ranked list are all bounded.
RunEnds == <>(stage = "done")

\* _book_approved: the budget of the call is a ceiling, "so the orchestrator
\* cannot commit money beyond what the human approved".
WithinApprovedBudget ==
    \A d \in booked : d.quote.price # None => Volume * d.quote.price <= Budget

\* The run implements Procurement: deals are the abstract deals, a stage past
\* discovery is an open run, and "done" is a closed one.
Promise == INSTANCE Procurement WITH
    Vendors       <- Sellers,
    Vettable      <- {s \in Sellers : MayBeVetted(s)},
    Refs          <- Deal,
    SellerOf      <- [r \in Deal |-> r.quote.seller],
    WithinCeiling <- {r \in Deal : MaxCpm = None \/ Acceptable(r.quote.price)},
    vetted        <- discovered,
    struck        <- committed,
    taken         <- booked,
    closed        <- (stage = "done")

\* What a run promises holds of every interleaving of answers and losses.
KeepsPromise == Promise!PSpec
================================================================================
