---------------------------- MODULE PricingDesk ----------------------------
(***************************************************************************)
(* The deal tools' own pricing: what get_pricing shows, what request_deal  *)
(* and the unified client issue a Deal ID at, and the spend ceiling        *)
(* between the two.  The seller may reprice its product at any moment, in  *)
(* particular while a request waits for the diligence platform.            *)
(*                                                                         *)
(* Prices are in cents; inside the calculator they are in 1/10000 of a     *)
(* cent, so that both percentages are exact.  round(x, 2) of a tie goes up.*)
(***************************************************************************)
EXTENDS Naturals, FiniteSets

CONSTANTS
    DeskCallers,    \* overlapping calls of one RequestDealTool
    ListPrices,     \* list prices the seller may publish; 0: no number
    DealVolumes,    \* impressions a caller may ask for; 0: none given
    Targets,        \* target CPMs a caller may ask for
    NoTarget,       \* target_cpm is None
    DealCeiling,    \* the tool's max_cpm
    SmallVolume,    \* the 5M threshold
    LargeVolume,    \* the 10M threshold
    MaxReprices,    \* bound on the seller's repricings
    MaxIssued       \* bound on the deals issued and on the prices shown

ASSUME PricingAssumption ==
    /\ ListPrices \subseteq Nat /\ DealVolumes \subseteq Nat /\ Targets \subseteq Nat
    /\ NoTarget \notin Nat /\ DealCeiling \in Nat
    /\ SmallVolume \in Nat \ {0} /\ LargeVolume \in Nat
    /\ MaxReprices \in Nat /\ MaxIssued \in Nat

VARIABLES
    access,     \* the buyer's identity and whether the product is negotiable
    listed,     \* [cpm, version] of the product at the seller
    asking,     \* what each call of the tool is waiting with
    shown,      \* the prices the buyer has been shown
    issued      \* the deals issued

deskPriceVars == <<access, listed, asking, shown, issued>>

DealTypes == {"PG", "PD", "PA"}

\* BuyerIdentity: get_access_tier, get_discount_percentage; BuyerContext.can_negotiate.
AccessTier(identity) ==
    CASE "advertiser" \in identity -> "advertiser"
      [] "agency" \in identity \ {"advertiser"} -> "agency"
      [] identity = {"seat"} -> "seat"
      [] identity = {} -> "public"
DiscountPercentage == [public |-> 0, seat |-> 5, agency |-> 10, advertiser |-> 15]
CanNegotiate(tier) == tier \in {"agency", "advertiser"}
BuyerTier == AccessTier(access.identity)

\* PricingCalculator._get_volume_discount.
VolumeDiscount(volume, tier) ==
    IF ~CanNegotiate(tier) THEN 0
    ELSE IF volume >= LargeVolume THEN 10
    ELSE IF volume >= SmallVolume THEN 5 ELSE 0

Tiered(cpm, tier) == cpm * (100 - DiscountPercentage[tier]) * 100
FloorPrice(cpm, tier) == cpm * (100 - DiscountPercentage[tier]) * 90

\* PricingCalculator.calculate: a negotiated price replaces the volume discount; it is the
\* target itself when that is at or above the floor, even when it is above the list.
FinalPrice(cpm, volume, target) ==
    IF target # NoTarget /\ CanNegotiate(BuyerTier) /\ access.negotiable
    THEN IF target * 10000 >= FloorPrice(cpm, BuyerTier)
         THEN target * 10000 ELSE FloorPrice(cpm, BuyerTier)
    ELSE (Tiered(cpm, BuyerTier) \div 100) * (100 - VolumeDiscount(volume, BuyerTier))

Cents(x) == (x + 5000) \div 10000

-----------------------------------------------------------------------------
PricingInit ==
    /\ access \in [identity : SUBSET {"seat", "agency", "advertiser"}, negotiable : BOOLEAN]
    /\ listed \in [cpm : ListPrices, version : {0}]
    /\ asking = [c \in DeskCallers |-> [at |-> "idle"]]
    /\ shown = {} /\ issued = {}

\* The seller publishes another price (external).
Reprice ==
    /\ listed.version < MaxReprices
    /\ \E p \in ListPrices : listed' = [cpm |-> p, version |-> listed.version + 1]
    /\ UNCHANGED <<access, asking, shown, issued>>

\* GetPricingTool._get_deal_options: the types it calls available.
DealOptions(tier) == IF tier = "public" THEN {"PA"} ELSE DealTypes

\* GetPricingTool._format_pricing: no target is ever part of it.
Shown(volume) ==
    [cpm |-> listed.cpm, volume |-> volume, types |-> DealOptions(BuyerTier),
     price |-> Cents(FinalPrice(listed.cpm, volume, NoTarget))]
ShowPrice(volume) ==
    /\ listed.cpm # 0 /\ Cardinality(shown) < MaxIssued
    /\ shown' = shown \cup {Shown(volume)}
    /\ UNCHANGED <<access, listed, asking, issued>>

\* UnifiedClient.get_pricing: only a buyer with an identity is given a price.
ClientShowsPrice(volume) ==
    /\ listed.cpm # 0 /\ access.identity # {} /\ Cardinality(shown) < MaxIssued
    /\ shown' = shown \cup {[Shown(volume) EXCEPT !.types = DealTypes]}
    /\ UNCHANGED <<access, listed, asking, issued>>

\* RequestDealTool._arun: the refusals before the product is fetched.  A target of 0 is
\* falsy and passes.
Admissible(type, volume, target) ==
    /\ type = "PG" => volume # 0
    /\ target \notin {NoTarget, 0} => CanNegotiate(BuyerTier)

\* build_deal_request_payload, with the price of the product fetched.
DealRequested(type, volume, target) ==
    [at |-> "gate", type |-> type, volume |-> volume, target |-> target, cpm |-> listed.cpm]

AskForDeal(c, type, volume, target) ==
    /\ asking[c].at = "idle" /\ Cardinality(issued) < MaxIssued
    /\ Admissible(type, volume, target)
    /\ asking' = [asking EXCEPT ![c] = DealRequested(type, volume, target)]
    /\ UNCHANGED <<access, listed, shown, issued>>

AskEnds(c) == asking' = [asking EXCEPT ![c] = [at |-> "idle"]]

\* _check_sgp_approval (SgpGate) refuses the request.
Blocked(c) ==
    /\ asking[c].at = "gate" /\ AskEnds(c)
    /\ UNCHANGED <<access, listed, shown, issued>>

\* enforce_spend_ceiling(final_cpm, total_cost, max_cpm): without a budget only the CPM is
\* compared.  Mutant: the list price after the tier's discount is.
ListWithinCeiling(r) == Cents(Tiered(r.cpm, BuyerTier)) <= DealCeiling
WithinCeiling(r) == Cents(FinalPrice(r.cpm, r.volume, r.target)) <= DealCeiling

\* generate_deal_id: a fresh identifier, whatever the product and the buyer.
DealId == Cardinality(issued) + 1
Issue(via, r) ==
    issued' = issued \cup {[id |-> DealId, via |-> via, type |-> r.type, volume |-> r.volume,
                            target |-> r.target, cpm |-> r.cpm,
                            price |-> Cents(FinalPrice(r.cpm, r.volume, r.target))]}

\* _create_deal_response prices the product fetched before the gate.
CreateDeal(c) ==
    /\ asking[c].at = "gate" /\ asking[c].cpm # 0 /\ WithinCeiling(asking[c])
    /\ Cardinality(issued) < MaxIssued
    /\ Issue("tool", asking[c]) /\ AskEnds(c)
    /\ UNCHANGED <<access, listed, shown>>

\* No price, or SpendCeilingExceeded.
RejectDeal(c) ==
    /\ asking[c].at = "gate" /\ (asking[c].cpm = 0 \/ ~WithinCeiling(asking[c]))
    /\ AskEnds(c)
    /\ UNCHANGED <<access, listed, shown, issued>>

\* QuoteFlowClient.get_pricing and build_deal_data: no deal without a price, and no ceiling.
HasPricing(r) == r.cpm # 0
BuildDealData(r) == IF HasPricing(r) THEN Issue("client", r) ELSE UNCHANGED issued

\* UnifiedClient.request_deal: no refusal by tier or type.
ClientDeal(type, volume, target) ==
    /\ Cardinality(issued) < MaxIssued
    /\ BuildDealData(DealRequested(type, volume, target))
    /\ UNCHANGED <<access, listed, asking, shown>>

PricingNext ==
    \/ Reprice
    \/ \E v \in DealVolumes : ShowPrice(v) \/ ClientShowsPrice(v)
    \/ \E t \in DealTypes, v \in DealVolumes, g \in Targets \cup {NoTarget} :
          \/ \E c \in DeskCallers : AskForDeal(c, t, v, g)
          \/ ClientDeal(t, v, g)
    \/ \E c \in DeskCallers : Blocked(c) \/ CreateDeal(c) \/ RejectDeal(c)

PricingSpec == PricingInit /\ [][PricingNext]_deskPriceVars

-----------------------------------------------------------------------------
Requests == [at : {"idle"}] \cup
    [at : {"gate"}, type : DealTypes, volume : DealVolumes, target : Targets \cup {NoTarget},
     cpm : ListPrices]

\* Type invariant of the pricing desk.
PricingTypeOK ==
    /\ access \in [identity : SUBSET {"seat", "agency", "advertiser"}, negotiable : BOOLEAN]
    /\ listed \in [cpm : ListPrices, version : 0 .. MaxReprices]
    /\ asking \in [DeskCallers -> Requests]
    /\ shown \subseteq [cpm : ListPrices, volume : DealVolumes, types : SUBSET DealTypes, price : Nat]
    /\ issued \subseteq [id : 1 .. MaxIssued, via : {"tool", "client"}, type : DealTypes,
                         volume : DealVolumes, target : Targets \cup {NoTarget},
                         cpm : ListPrices, price : Nat]

(* A deal the tool issues is within the ceiling whatever the seller did    *)
(* while the request waited; no deal is below the negotiation floor of the *)
(* list price it was made at; and a deal asked for without a target costs  *)
(* exactly what the buyer had been shown for that list price and volume.   *)
DealTermsHold ==
    \A d \in issued :
        /\ d.via = "tool" => d.price <= DealCeiling /\ (d.type = "PG" => d.volume # 0)
        /\ d.price * 10000 + 5000 >= FloorPrice(d.cpm, BuyerTier)
        /\ \A s \in shown :
              d.target = NoTarget /\ s.cpm = d.cpm /\ s.volume = d.volume => s.price = d.price
=============================================================================
