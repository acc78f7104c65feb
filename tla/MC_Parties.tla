------------------------------- MODULE MC_Parties -------------------------------
(***************************************************************************)
(* Instances of the modules about the buyer's dealings with other parties: *)
(* registries, the diligence platform, sellers and their APIs.             *)
(*                                                                         *)
(* They share no variable, and each property is about one of them, so that *)
(* interleaving them would show nothing more: a behaviour here is one of   *)
(* one component, the variable part, and the others stay where they start. *)
(***************************************************************************)
EXTENDS SgpGate, CapabilityCache, SellerDirectory, SellerClient, OpenDirect,
        Negotiation, PricingDesk, QuoteRanking, AudiencePlanning, MediaKits

VARIABLE part

Parts == {"sgp", "capabilities", "directory", "client", "catalogue", "bookings",
          "negotiation", "pricing", "ranking", "audience", "kits"}

partyVars == <<sgpVars, capVars, dirVars, clientVars, odVars, ngVars, deskPriceVars,
               rankVars, audVars, kitVars>>

FirstBrief == CHOOSE b \in Briefs : TRUE
NoIdentity == [identity |-> {}, negotiable |-> TRUE]

PartiesInit ==
    /\ part \in Parts
    /\ SgpInit /\ CapInit /\ DirInit /\ ClientInit /\ OdInit /\ NgInit /\ RankInit /\ KitInit
    /\ PricingInit /\ AudInit
    /\ part # "directory" => backend = "iab"
    /\ part # "pricing" => access = NoIdentity /\ listed.cpm = 0
    /\ part # "audience" => brief = FirstBrief

\* A step of one component leaves the others alone.
Sgp ==
    /\ part = "sgp" /\ SgpNext
    /\ UNCHANGED <<capVars, dirVars, clientVars, odVars, ngVars, deskPriceVars,
                   rankVars, audVars, kitVars>>
Cap ==
    /\ part = "capabilities" /\ CapNext
    /\ UNCHANGED <<sgpVars, dirVars, clientVars, odVars, ngVars, deskPriceVars,
                   rankVars, audVars, kitVars>>
Dir ==
    /\ part = "directory" /\ DirNext
    /\ UNCHANGED <<sgpVars, capVars, clientVars, odVars, ngVars, deskPriceVars,
                   rankVars, audVars, kitVars>>
Client ==
    /\ part = "client" /\ ClientNext
    /\ UNCHANGED <<sgpVars, capVars, dirVars, odVars, ngVars, deskPriceVars,
                   rankVars, audVars, kitVars>>
\* OpenDirect in two parts, its searches and its bookings.
Od ==
    /\ part \in {"catalogue", "bookings"} /\ OdNext
    /\ part = "catalogue" => UNCHANGED bookVars
    /\ part = "bookings" => UNCHANGED catalogueVars
    /\ UNCHANGED <<sgpVars, capVars, dirVars, clientVars, ngVars, deskPriceVars,
                   rankVars, audVars, kitVars>>
Ng ==
    /\ part = "negotiation" /\ NgNext
    /\ UNCHANGED <<sgpVars, capVars, dirVars, clientVars, odVars, deskPriceVars,
                   rankVars, audVars, kitVars>>
Pricing ==
    /\ part = "pricing" /\ PricingNext
    /\ UNCHANGED <<sgpVars, capVars, dirVars, clientVars, odVars, ngVars,
                   rankVars, audVars, kitVars>>
Ranking ==
    /\ part = "ranking" /\ RankNext
    /\ UNCHANGED <<sgpVars, capVars, dirVars, clientVars, odVars, ngVars,
                   deskPriceVars, audVars, kitVars>>
Aud ==
    /\ part = "audience" /\ AudNext
    /\ UNCHANGED <<sgpVars, capVars, dirVars, clientVars, odVars, ngVars,
                   deskPriceVars, rankVars, kitVars>>
Kit ==
    /\ part = "kits" /\ KitNext
    /\ UNCHANGED <<sgpVars, capVars, dirVars, clientVars, odVars, ngVars,
                   deskPriceVars, rankVars, audVars>>

PartiesNext ==
    /\ Sgp \/ Cap \/ Dir \/ Client \/ Od \/ Ng \/ Pricing \/ Ranking \/ Aud \/ Kit
    /\ UNCHANGED part

PartiesSpec == PartiesInit /\ [][PartiesNext]_<<part, partyVars>>

--------------------------------------------------------------------------------
(* The instances.                                                          *)

CONSTANTS d1, d2, nd, t1, t2, t3, c1, c2, e1, e2, p1, p2, p3, p4, v1, v2,
          i1, i2, i3, i4, i5

\* SgpGate: two domains, one of them spelled in two ways, and a tool of each kind.
MCDomains  == {d1, d2}
MCHost     == t1 :> d1 @@ t2 :> d2 @@ t3 :> d1
MCProducts == p1 :> [readable |-> TRUE, domain |-> t1, publisher |-> nd]
           @@ p2 :> [readable |-> TRUE, domain |-> nd, publisher |-> t2]
           @@ p3 :> [readable |-> TRUE, domain |-> t3, publisher |-> nd]
           @@ p4 :> [readable |-> TRUE, domain |-> nd, publisher |-> t3]
MCSetup    == c1 :> [kind |-> "request", enforce |-> TRUE, policy |-> "block",
                     lists |-> {{p1}}]
           @@ c2 :> [kind |-> "discover", enforce |-> TRUE, policy |-> "warn",
                     lists |-> {{p2, p3}}]
MCTools    == {c1, c2}
MCDotted   == {t2}

\* The callers of the caches and of the seller client are interchangeable.
MCCallers  == {e1, e2}
MCSymmetry == Permutations(MCCallers)

\* OpenDirect: an item of every shape.
MCShapes == i1 :> "ok" @@ i2 :> "other_format" @@ i3 :> "unreadable"
         @@ i4 :> "unconvertible" @@ i5 :> "dear"

\* QuoteRanking: one seller with fees and one without.
MCFees    == v1 :> 0 @@ v2 :> 15
MCTechFee == v1 :> 0 @@ v2 :> 50

\* AudiencePlanning: references of the three types, one out of date; plans with every
\* role, duplicates, and a strict and a lax reading.
S1 == AudienceRef("standard", "s1", "current", "US")
S2 == AudienceRef("standard", "s2", "old", "US")
C1 == AudienceRef("contextual", "c1", "current", "US")
A1 == AudienceRef("agentic", "a1", "current", "US")
G1 == [A1 EXCEPT !.jurisdiction = "GLOBAL"]
Strictness(c, e, a) == [primary |-> "required", constraints |-> c, extensions |-> e, agentic |-> a]
Lax    == Strictness("preferred", "optional", "optional")
Strict == Strictness("required", "optional", "required")
MCPlans == {AudienceOf(S1, <<C1, S1>>, <<S2>>, <<S2>>), AudienceOf(C1, <<S1>>, <<A1, S1>>, <<>>),
            AudienceOf(A1, <<S1, C1>>, <<>>, <<A1>>)}
Briefed(a, text, kpis, objective, strict) ==
    [audience |-> a, legacy |-> <<>>, text |-> text, kpis |-> kpis, objective |-> objective,
     strict |-> strict, flight |-> <<1, 2>>, channels |-> {<<"ctv", 100>>}]
NoPlanYet == Briefed(NoAudience, {}, {}, "AWARENESS", Lax)
MCBriefs ==
    {Briefed(p, t, {"precision"}, o, s) :
        p \in {NoAudience} \cup MCPlans, t \in {{}, {"agentic", "standard"}},
        o \in {"REACH", "CONVERSION"}, s \in {Lax, Strict}}
    \cup {Briefed(NoAudience, {"other"}, {}, "AWARENESS", Lax),
          Briefed(AudienceOf(S1, <<G1>>, <<>>, <<>>), {}, {}, "REACH", Lax),
          Briefed(AudienceOf([C1 EXCEPT !.version = "old"], <<>>, <<>>, <<>>), {}, {}, "REACH", Lax),
          [NoPlanYet EXCEPT !.legacy = <<"s1", "s2">>, !.kpis = {"reach"},
                            !.objective = "CONSIDERATION",
                            !.channels = {<<"ctv", 60>>, <<"display", 40>>}],
          [NoPlanYet EXCEPT !.text = {"agentic phrase"}, !.flight = <<2, 1>>],
          [NoPlanYet EXCEPT !.text = {"agentic phrase", "contextual"},
                            !.channels = {<<"ctv", 90>>}]}
MCSellerCaps ==
    {CapableOf({"current"}, {}, FALSE, {"constraints"}, Max3(1, 0, 0)),
     CapableOf({"current", "old"}, {"current"}, TRUE, {"constraints", "extensions"}, Max3(2, 1, 0)),
     CapableOf({"current"}, {"current"}, TRUE, Roles, Max3(3, 2, 2)),
     CapableOf({"old"}, {"current"}, FALSE, {"extensions", "exclusions"}, Max3(0, 1, 1)),
     CapableOf({"current"}, {"current"}, FALSE, {"constraints"}, Max3(1, 0, 0)),
     CapableOf({"current"}, {"current"}, FALSE, {}, Max3(0, 0, 0))}

\* MediaKits: a seller of two packages and one of one.
MCPackages == v1 :> <<p1, p2>> @@ v2 :> <<p3>>
NoTotal    == -1

--------------------------------------------------------------------------------
(* What the run checks.                                                    *)

\* Type invariant: every component's, where it moves.
PartiesTypeOK ==
    CASE part = "sgp"          -> SgpTypeOK
      [] part = "capabilities" -> CapTypeOK
      [] part = "directory"    -> DirTypeOK
      [] part = "client"       -> ClientTypeOK
      [] part \in {"catalogue", "bookings"} -> OdTypeOK
      [] part = "negotiation"  -> NgTypeOK
      [] part = "pricing"      -> PricingTypeOK
      [] part = "ranking"      -> RankTypeOK
      [] part = "audience"     -> AudTypeOK
      [] part = "kits"         -> KitTypeOK

\* What a cache serves, capabilities of a seller or an agent card, was given no longer
\* ago than its lifetime, its seller's max-age and the longest request allow.
LookupsAreFresh ==
    /\ part = "capabilities" => HitsAreFresh
    /\ part = "directory" => CardsAreRecent

\* Nothing that was opened at a seller is left open: a negotiation that the buyer leaves
\* is declined to the seller, and overlapping calls share one connection.
NothingStaysOpen ==
    /\ part = "negotiation" => NothingLeftOpen
    /\ part = "client" => OneConnection

\* What the buyer reads is neither lost nor taken for something else: a booking audience
\* loses no reference without an event that says so and the first request sent fits what
\* the seller can do, a page of products accounts for every item, and no ranking puts a
\* dearer and poorer quote before a cheaper and better one.
NothingIsMisread ==
    /\ part = "audience" => NothingLostSilently /\ FirstRequestFits
    /\ part = "catalogue" => PageAccounts
    /\ part = "ranking" => RankingRespectsDominance

\* What the tools report of an order or of several media kits is what the sellers did and
\* answered.
ReportsAreComplete ==
    /\ part = "bookings" => ReportsAreTrue
    /\ part = "kits" => SellersAreIsolated

\* Money: no Deal ID above the ceiling or at a price that was not on offer, and no counter
\* outside the strategy's limits.
TermsHold ==
    /\ part = "pricing" => DealTermsHold
    /\ part = "negotiation" => OffersWithinLimits
================================================================================
