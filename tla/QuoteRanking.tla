---------------------------- MODULE QuoteRanking ----------------------------
(***************************************************************************)
(* QuoteNormalizer: how the quotes of several sellers are brought to one   *)
(* effective CPM, scored against each other and ordered.                   *)
(*                                                                         *)
(* CPMs are in units of 1/100 of RawUnit and fees in percent, so that an   *)
(* effective CPM is an integer; scores are in hundredths of a point.       *)
(***************************************************************************)
EXTENDS Naturals, Sequences, SequencesExt, Subsequences

CONSTANTS
    RankedSellers,  \* the sellers that may quote
    RawCpms,        \* final_cpm values; 0: the seller quoted no price
    FeePct,         \* [seller -> intermediary fee, percent of the raw CPM]
    TechFee,        \* [seller -> tech fee, in the units of an effective CPM]
    FillRates,      \* estimated fill rates in percent; NoFill: not given
    NoFill,
    MaxQuotes       \* bound on the quotes compared

ASSUME RankAssumption ==
    /\ RawCpms \subseteq Nat /\ FillRates \subseteq 0 .. 100
    /\ FeePct \in [RankedSellers -> Nat] /\ TechFee \in [RankedSellers -> Nat]

VARIABLES incoming, ranking

rankVars == <<incoming, ranking>>

QuoteTypes == {"PG", "PD", "PA", "other"}
QuoteRecords == [seller : RankedSellers, raw : RawCpms, type : QuoteTypes,
                 fill : FillRates \cup {NoFill}]

\* _apply_deal_type_adjustment: an auction clears 20% above its floor
Adjusted(q) == IF q.type = "PA" THEN q.raw * 120 ELSE q.raw * 100
\* _estimate_fees
Fees(q) == q.raw * FeePct[q.seller] + TechFee[q.seller]
\* Mutant: fees and clearing price are left out.
EffectiveIsRaw(q) == q.raw * 100
Effective(q) == Adjusted(q) + Fees(q)

DealTypeScore == [PG |-> 100, PD |-> 70, PA |-> 40, other |-> 50]
FillScore(q) == IF q.fill = NoFill THEN 70 ELSE q.fill

Priced(qs) == Picked(qs, {i \in DOMAIN qs : qs[i].raw # 0})
Unpriced(qs) == Picked(qs, {i \in DOMAIN qs : qs[i].raw = 0})

Cheapest(qs) == CHOOSE e \in {Effective(qs[i]) : i \in DOMAIN qs} :
                    \A i \in DOMAIN qs : e <= Effective(qs[i])
Dearest(qs) == CHOOSE e \in {Effective(qs[i]) : i \in DOMAIN qs} :
                    \A i \in DOMAIN qs : e >= Effective(qs[i])

\* round(x, 2) of a / b points, in hundredths
Hundredths(a, b) == (200 * a + b) \div (2 * b)

\* _score_quote: one quote alone is scored against an absolute scale, on
\* which a CPM costs two points for every unit
AbsoluteCpm(q) == LET cost == 2 * Effective(q) IN IF cost >= 10000 THEN 0 ELSE 10000 - cost
\* _rescore_relative: several are scored against the cheapest and the dearest
RelativeCpm(q, qs) ==
    IF Dearest(qs) = Cheapest(qs) THEN 10000
    ELSE Hundredths(100 * (Dearest(qs) - Effective(q)), Dearest(qs) - Cheapest(qs))

Score(q, qs) ==
    ((60 * (IF Len(qs) = 1 THEN AbsoluteCpm(q) ELSE RelativeCpm(q, qs))) \div 100)
        + 20 * DealTypeScore[q.type] + 20 * FillScore(q)

\* list.sort(reverse=True) keeps the order of equal scores
Ordered(qs) ==
    LET Better(i, j) == \/ Score(qs[i], qs) > Score(qs[j], qs)
                        \/ Score(qs[i], qs) = Score(qs[j], qs) /\ i < j
        order == InOrder(DOMAIN qs, Better)
    IN  [k \in DOMAIN qs |-> qs[order[k]]]

RankInit == incoming = <<>> /\ ranking = <<>>

\* a seller's answer arrives (in whatever order the sellers answer)
Quoted(q) ==
    /\ ranking = <<>> /\ Len(incoming) < MaxQuotes
    /\ incoming' = Append(incoming, q)
    /\ UNCHANGED ranking

\* compare_quotes
CompareQuotes ==
    /\ incoming # <<>> /\ ranking = <<>>
    /\ ranking' = Ordered(Priced(incoming)) \o Unpriced(incoming)
    /\ UNCHANGED incoming

RankNext == CompareQuotes \/ \E q \in QuoteRecords : Quoted(q)

RankSpec == RankInit /\ [][RankNext]_rankVars

-----------------------------------------------------------------------------
RankTypeOK == incoming \in Seq(QuoteRecords) /\ ranking \in Seq(QuoteRecords)

\* What a quote costs the buyer, fees and clearing price included
TrueCost(q) == q.raw * (IF q.type = "PA" THEN 120 ELSE 100)
                 + q.raw * FeePct[q.seller] + TechFee[q.seller]

Dominates(p, q) ==
    /\ p.raw # 0
    /\ \/ q.raw = 0
       \/ /\ TrueCost(p) < TrueCost(q) /\ FillScore(p) >= FillScore(q)
          /\ DealTypeScore[p.type] >= DealTypeScore[q.type]

(* Whatever the order the sellers answered in, a quote that costs the      *)
(* buyer less, is of no worse a deal type and fills no less is ranked      *)
(* before the quote it beats, a quote without a price is last, and every   *)
(* quote is ranked exactly once.                                           *)
RankingRespectsDominance ==
    ranking # <<>> =>
        /\ Len(ranking) = Len(incoming)
        /\ \A q \in ToSet(incoming) :
              Cardinality({k \in DOMAIN ranking : ranking[k] = q})
                = Cardinality({k \in DOMAIN incoming : incoming[k] = q})
        /\ \A i, j \in DOMAIN ranking : Dominates(ranking[i], ranking[j]) => i < j
=============================================================================
