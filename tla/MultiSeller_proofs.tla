-------------------------- MODULE MultiSeller_proofs ---------------------------
(***************************************************************************)
(* Proofs about MultiSeller for every set of sellers, every price range,   *)
(* and every bound: the types, the provenance of deals, the three money    *)
(* and vetting guarantees that follow from it, the number of deals, and    *)
(* the implementation of Procurement.                                      *)
(***************************************************************************)
EXTENDS MultiSeller, FiniteSetTheorems, TLAPS

\* What the assumptions say of the constants, for the leaves below.
LEMMA ConstantFacts ==
    /\ Excluded \subseteq Sellers /\ Blocked \subseteq Sellers
    /\ Prices \subseteq Nat /\ None \notin Nat
    /\ MaxCpm \in Prices \cup {None} /\ TargetCpm \in Prices \cup {None}
    /\ Effective \in [Sellers -> [Prices -> Nat]]
    /\ \A s \in Sellers : \A p \in Prices : Effective[s][p] >= p
    /\ MaxRounds \in Nat \ {0} /\ MaxRetries \in Nat \ {0}
    /\ None \notin Talk /\ None \notin Call
BY SellersAssumption, PriceAssumption, EffectiveAssumption, BoundsAssumption,
   NoneAssumption

\* The ceiling filter keeps quotes only, and under a ceiling only quotes whose
\* raw price is within it, since normalization never lowers a price.
LEMMA RankSound ==
    ASSUME NEW qs, qs \subseteq Quote
    PROVE  /\ Rank(qs) \subseteq qs
           /\ MaxCpm # None =>
                \A q \in Rank(qs) : q.price # None /\ q.price <= MaxCpm
<1>1. Rank(qs) \subseteq qs
  BY DEF Rank
<1>2. ASSUME MaxCpm # None, NEW q \in Rank(qs)
      PROVE  q.price # None /\ q.price <= MaxCpm
  <2>1. q \in Quote /\ q.price # None /\ EffectiveCpm(q) <= MaxCpm
    BY <1>2 DEF Rank
  <2>2. q.seller \in Sellers /\ q.price \in Prices
    BY <2>1 DEF Quote
  <2>3. EffectiveCpm(q) = Effective[q.seller][q.price]
    BY <2>1 DEF EffectiveCpm
  <2>4. Effective[q.seller][q.price] \in Nat /\ Effective[q.seller][q.price] >= q.price
    BY <2>2, ConstantFacts
  <2>5. MaxCpm \in Nat /\ q.price \in Nat
    BY <1>2, <2>2, ConstantFacts
  <2>. QED
    BY <2>1, <2>3, <2>4, <2>5
<1>. QED
  BY <1>1, <1>2

\* The price an offer opens at is a price.
LEMMA OpenPriceIsPrice == MaxCpm # None => OpenPrice \in Prices
BY ConstantFacts DEF OpenPrice

\* Inductive: each part needs the one before it, and all need the types.
IInv == TypeOK /\ Provenance

\* orchestrate starts with nothing discovered, quoted or booked.
LEMMA InitIInv == Init => IInv
BY DEF Init, IInv, TypeOK, Provenance, VettingSound, QuotesSound, TalkSound,
       BookingSound, Stages

\* Every step keeps the types.
LEMMA TypeStep == IInv /\ [Next]_vars => TypeOK'
<1>. SUFFICES ASSUME IInv, [Next]_vars PROVE TypeOK'
  OBVIOUS
<1>. USE ConstantFacts DEF IInv, TypeOK, Stages
<1>1. CASE DiscoverSellers
  BY <1>1 DEF DiscoverSellers, SgpGate, quoting, talking, booking
<1>2. ASSUME NEW s \in Sellers, QuoteArrives(s)
      PROVE  TypeOK'
  BY <1>2 DEF QuoteArrives, talking, booking, Quote
<1>3. ASSUME NEW s \in Sellers, QuoteFails(s)
      PROVE  TypeOK'
  BY <1>3 DEF QuoteFails, talking, booking
<1>4. CASE EvaluateAndRank
  BY <1>4, RankSound DEF EvaluateAndRank, quoting, StartBooking, InBand
<1>5. ASSUME NEW q \in band, ProposalUnavailable(q)
      PROVE  TypeOK'
  BY <1>5 DEF ProposalUnavailable, quoting, booking
<1>6. ASSUME NEW q \in band, ProposalAnswered(q)
      PROVE  TypeOK'
  BY <1>6, OpenPriceIsPrice DEF ProposalAnswered, quoting, booking,
     Acceptable, Talk, TalkSound, Provenance, Quote
<1>7. ASSUME NEW action \in {"accept", "counter", "final_offer", "reject"},
             NEW p \in Prices \cup {None}, CounterAnswered(action, p)
      PROVE  TypeOK'
  <2>1. talk \in Talk /\ talk.round + 1 \in 1..MaxRounds /\ MaxRounds \in Nat
    BY <1>7 DEF CounterAnswered, Countering, Talk
  <2>2. stated' \subseteq Sellers \X Prices
    BY <1>7, <2>1 DEF CounterAnswered, Talk, Quote
  <2>3. talk' \in Talk \cup {None}
    <3>1. CASE Acceptable(p)
      <4>1. p \in Prices
        BY <3>1 DEF Acceptable
      <4>. QED
        BY <1>7, <2>1, <3>1, <4>1 DEF CounterAnswered, Agree, Talk
    <3>2. CASE ~Acceptable(p) /\ action = "counter"
      BY <1>7, <2>1, <3>2 DEF CounterAnswered, Talk
    <3>3. CASE ~Acceptable(p) /\ action # "counter"
      BY <1>7, <3>3 DEF CounterAnswered, Walk
    <3>. QED
      BY <3>1, <3>2, <3>3
  <2>. QED
    BY <1>7, <2>2, <2>3 DEF CounterAnswered, Agree, Walk, quoting, booking
<1>8. CASE CounterFails
  BY <1>8 DEF CounterFails, Countering, Walk, quoting, booking
<1>9. CASE RoundsExhausted
  BY <1>9 DEF RoundsExhausted, Walk, quoting, booking
<1>10. CASE Requote
  BY <1>10 DEF Requote, booking, Bookable, Talk, Quote
<1>11. CASE RequoteFails
  BY <1>11 DEF RequoteFails, Walk, quoting, booking
<1>12. CASE FinishNegotiation
  BY <1>12, RankSound DEF FinishNegotiation, StartBooking, quoting, talking
<1>13. ASSUME NEW q \in remaining, BookNext(q)
      PROVE  TypeOK'
  <2>1. q \in Quote /\ (HasPlan /\ HasCapabilities) \in BOOLEAN /\ 1 \in 1..MaxRetries
    BY <1>13
  <2>2. call' \in Call
    BY <1>13, <2>1 DEF BookNext, Call, Keys
  <2>. QED
    BY <1>13, <2>2 DEF BookNext, quoting, talking
<1>14. CASE FinishBooking
  BY <1>14 DEF FinishBooking, quoting, talking, booking
<1>15. CASE PreflightPasses
  BY <1>15 DEF PreflightPasses, quoting, talking, Call
<1>16. CASE PreflightRejects
  BY <1>16 DEF PreflightRejects, Fail, Exclude, EndOfCall, quoting, talking,
     Call, Quote
<1>17. CASE BookingConfirmed
  BY <1>17 DEF BookingConfirmed, Posting, TheDeal, EndOfCall, quoting,
     talking, Call, Deal
<1>18. CASE BookingTimesOut
  BY <1>18 DEF BookingTimesOut, Posting, TheDeal, SellerMayCommit, MayResend, Resend,
     quoting, talking, Call, Deal
<1>19. CASE BookingFails
  BY <1>19 DEF BookingFails, Posting, TheDeal, SellerMayCommit, Fail, Exclude,
     EndOfCall, quoting, talking, Call, Deal, Quote
<1>20. CASE BookingGarbled
  BY <1>20 DEF BookingGarbled, Posting, TheDeal, Fail, EndOfCall, quoting,
     talking, Call, Deal
<1>21. CASE AudienceUnsupported
  <2>1. call \in Call /\ call.quote \in Quote /\ call.quote.seller \in Sellers
    BY <1>21 DEF AudienceUnsupported, Posting, Call, Quote
  <2>2. CASE call' = [call EXCEPT !.plan = "degraded", !.key = @ + 1, !.attempt = 1]
             /\ call.plan = "full" /\ UNCHANGED <<failed, incompatible>>
    <3>1. call.key + 1 \in Keys /\ 1 \in 1..MaxRetries
      BY <1>21, <2>2 DEF AudienceUnsupported, Posting, BookingSound, Provenance, Keys
    <3>2. call' \in Call
      BY <2>1, <2>2, <3>1 DEF Call
    <3>. QED
      BY <1>21, <2>2, <3>2 DEF AudienceUnsupported, quoting, talking
  <2>3. CASE Fail /\ Exclude /\ EndOfCall
    BY <1>21, <2>1, <2>3 DEF AudienceUnsupported, Fail, Exclude, EndOfCall,
       quoting, talking
  <2>. QED
    BY <1>21, <2>2, <2>3 DEF AudienceUnsupported
<1>22. CASE UNCHANGED vars
  BY <1>22 DEF vars
<1>. QED
  BY <1>1, <1>2, <1>3, <1>4, <1>5, <1>6, <1>7, <1>8, <1>9, <1>10, <1>11, <1>12, <1>13, <1>14, <1>15, <1>16, <1>17, <1>18, <1>19, <1>20, <1>21, <1>22 DEF Next

\* Vetting happens once; nothing later adds a seller.
LEMMA VettingStep == IInv /\ [Next]_vars => VettingSound'
<1>. SUFFICES ASSUME IInv, [Next]_vars PROVE VettingSound'
  OBVIOUS
<1>. USE DEF IInv, Provenance, VettingSound
<1>1. CASE DiscoverSellers
  <2>1. ASSUME NEW s \in discovered' PROVE MayBeVetted(s)
    BY <1>1, <2>1 DEF DiscoverSellers, SgpGate, MayBeVetted
  <2>2. stage' # "discover"
    BY <1>1 DEF DiscoverSellers
  <2>. QED
    BY <2>1, <2>2 DEF MayBeVetted, SgpKeeps
<1>2. CASE ~DiscoverSellers
  <2>1. UNCHANGED discovered /\ (stage' = "discover" => stage = "discover")
    BY <1>2 DEF Next, vars, QuoteArrives, QuoteFails, EvaluateAndRank,
       ProposalUnavailable, ProposalAnswered, CounterAnswered, CounterFails,
       RoundsExhausted, Requote, RequoteFails, FinishNegotiation, BookNext,
       FinishBooking, PreflightPasses, PreflightRejects, BookingConfirmed,
       BookingTimesOut, BookingFails, BookingGarbled, AudienceUnsupported,
       Walk, Agree, StartBooking
  <2>. QED
    BY <2>1 DEF MayBeVetted, SgpKeeps
<1>. QED
  BY <1>1, <1>2

\* A quote enters the pool only from a vetted seller, and a re-quote only at
\* the agreed price, which its seller stated.
LEMMA QuotesStep == IInv /\ [Next]_vars => QuotesSound'
<1>. SUFFICES ASSUME IInv, [Next]_vars PROVE QuotesSound'
  OBVIOUS
<1>. USE DEF IInv, Provenance, QuotesSound
<1>1. CASE DiscoverSellers
  <2>1. quotes = {} /\ quotes' = {}
    BY <1>1 DEF DiscoverSellers, VettingSound, quoting
  <2>. QED
    BY <2>1
<1>2. ASSUME NEW s \in Sellers, QuoteArrives(s)
      PROVE  QuotesSound'
  <2>1. UNCHANGED <<discovered, stated>> /\ s \in discovered
    BY <1>2 DEF QuoteArrives, talking
  <2>2. PICK p \in Prices \cup {None} :
          quotes' = quotes \cup {[seller |-> s, kind |-> "rfq", price |-> p]}
    BY <1>2 DEF QuoteArrives
  <2>3. ASSUME NEW q \in quotes', q \notin quotes
        PROVE  q.seller = s /\ q.kind = "rfq"
    BY <2>2, <2>3
  <2>. QED
    BY <2>1, <2>3
<1>3. CASE Requote
  <2>1. talk \in Talk /\ talk.quote \in quotes
        /\ <<talk.quote.seller, talk.agreed>> \in stated
    BY <1>3 DEF Requote, TypeOK, TalkSound
  <2>2. ASSUME NEW q \in quotes', q \notin quotes
        PROVE  q.seller = talk.quote.seller /\ q.price = talk.agreed
    BY <1>3, <2>2 DEF Requote, Bookable
  <2>3. UNCHANGED <<discovered, stated>>
    BY <1>3 DEF Requote
  <2>. QED
    BY <2>1, <2>2, <2>3
<1>4. CASE UNCHANGED <<quotes, discovered>> /\ stated \subseteq stated'
  BY <1>4
<1>5. ASSUME ~DiscoverSellers, ~Requote, \A s \in Sellers : ~QuoteArrives(s)
      PROVE  UNCHANGED <<quotes, discovered>> /\ stated \subseteq stated'
  BY <1>5 DEF Next, vars, QuoteFails, EvaluateAndRank, quoting, talking,
     ProposalUnavailable, ProposalAnswered, CounterAnswered, CounterFails,
     RoundsExhausted, RequoteFails, FinishNegotiation, BookNext,
     FinishBooking, PreflightPasses, PreflightRejects, BookingConfirmed,
     BookingTimesOut, BookingFails, BookingGarbled, AudienceUnsupported,
     Walk, Agree
<1>. QED
  BY <1>1, <1>2, <1>3, <1>4, <1>5

\* The negotiation in progress is about a pooled quote, and its agreed price
\* was stated by the seller.
LEMMA TalkStep == IInv /\ [Next]_vars => TalkSound'
<1>. SUFFICES ASSUME IInv, [Next]_vars PROVE TalkSound'
  OBVIOUS
<1>. USE DEF IInv, Provenance, TalkSound
<1>1. CASE EvaluateAndRank
  BY <1>1 DEF EvaluateAndRank, StartBooking, InBand, quoting
<1>2. ASSUME NEW q \in band, ProposalUnavailable(q)
      PROVE  TalkSound'
  BY <1>2 DEF ProposalUnavailable, quoting
<1>3. ASSUME NEW q \in band, ProposalAnswered(q)
      PROVE  TalkSound'
  <2>1. q \in quotes /\ UNCHANGED <<quotes, stage>> /\ band' \subseteq quotes
    BY <1>3 DEF ProposalAnswered, quoting
  <2>2. PICK named : /\ stated' = stated \cup {<<q.seller, named>>}
                     /\ talk' = [quote |-> q, round |-> 1,
                          agreed |-> IF Acceptable(named) THEN named ELSE None]
    BY <1>3 DEF ProposalAnswered
  <2>3. talk'.quote = q /\ (talk'.agreed # None => talk'.agreed = named)
    BY <2>2
  <2>. QED
    BY <1>3, <2>1, <2>2, <2>3 DEF ProposalAnswered
<1>4. ASSUME NEW action \in {"accept", "counter", "final_offer", "reject"},
             NEW p \in Prices \cup {None}, CounterAnswered(action, p)
      PROVE  TalkSound'
  <2>1. /\ talk \in Talk /\ talk.agreed = None
        /\ UNCHANGED <<quotes, stage, band>>
    BY <1>4 DEF CounterAnswered, Countering, Agree, Walk, quoting, TypeOK
  <2>2. CASE Acceptable(p)
    <3>1. talk' = [talk EXCEPT !.agreed = p]
      BY <1>4, <2>2 DEF CounterAnswered, Agree
    <3>2. <<talk.quote.seller, p>> \in stated'
      BY <1>4, <2>2 DEF CounterAnswered, Acceptable
    <3>3. talk'.quote = talk.quote /\ talk'.agreed = p
      BY <2>1, <3>1 DEF Talk
    <3>. QED
      BY <1>4, <2>1, <3>2, <3>3 DEF CounterAnswered, Countering
  <2>3. CASE ~Acceptable(p) /\ action = "counter"
    <3>1. talk' = [talk EXCEPT !.round = @ + 1]
      BY <1>4, <2>3 DEF CounterAnswered
    <3>2. talk'.quote = talk.quote /\ talk'.agreed = None
      BY <2>1, <3>1 DEF Talk
    <3>. QED
      BY <1>4, <2>1, <3>2 DEF CounterAnswered, Countering
  <2>4. CASE ~Acceptable(p) /\ action # "counter"
    BY <1>4, <2>1, <2>4 DEF CounterAnswered, Walk
  <2>. QED
    BY <2>2, <2>3, <2>4
<1>5. CASE CounterFails \/ RoundsExhausted \/ RequoteFails
  BY <1>5 DEF CounterFails, RoundsExhausted, RequoteFails, Walk, quoting
<1>6. CASE Requote
  BY <1>6 DEF Requote
<1>7. CASE FinishNegotiation
  BY <1>7 DEF FinishNegotiation, StartBooking, quoting, talking
<1>8. CASE \/ DiscoverSellers
           \/ \E s \in Sellers : QuoteArrives(s) \/ QuoteFails(s)
  BY <1>8 DEF DiscoverSellers, QuoteArrives, QuoteFails, quoting, talking
<1>9. CASE UNCHANGED <<stage, quotes, band, talk, stated>>
  BY <1>9
<1>10. CASE FinishBooking
  BY <1>10 DEF FinishBooking, quoting, talking
<1>. QED
  BY <1>1, <1>2, <1>3, <1>4, <1>5, <1>6, <1>7, <1>8, <1>9, <1>10
     DEF Next, vars, BookNext, PreflightPasses, PreflightRejects,
         BookingConfirmed, BookingTimesOut, BookingFails, BookingGarbled,
         AudienceUnsupported, quoting, talking

\* What is being booked, and what a seller holds, was ranked.
LEMMA BookingStep == IInv /\ [Next]_vars => BookingSound'
<1>. SUFFICES ASSUME IInv, [Next]_vars PROVE BookingSound'
  OBVIOUS
<1>. USE DEF IInv, Provenance, BookingSound
<1>1. quotes \subseteq quotes'
  <2>1. CASE DiscoverSellers
    BY <2>1 DEF DiscoverSellers, quoting
  <2>. QED
    BY <2>1 DEF Next, vars, QuoteArrives, QuoteFails, EvaluateAndRank, quoting,
     ProposalUnavailable, ProposalAnswered, CounterAnswered, CounterFails,
     RoundsExhausted, Requote, RequoteFails, FinishNegotiation, BookNext,
     FinishBooking, PreflightPasses, PreflightRejects, BookingConfirmed,
     BookingTimesOut, BookingFails, BookingGarbled, AudienceUnsupported,
     Walk, Agree
<1>2. Rank(quotes) \subseteq Rank(quotes)'
  BY <1>1 DEF Rank, EffectiveCpm
<1>3. CASE UNCHANGED booking
  BY <1>2, <1>3 DEF booking
<1>4. CASE EvaluateAndRank \/ FinishNegotiation
  BY <1>2, <1>4 DEF EvaluateAndRank, FinishNegotiation, StartBooking, quoting,
     Rank, EffectiveCpm
<1>5. ASSUME NEW q \in remaining, BookNext(q)
      PROVE  BookingSound'
  BY <1>2, <1>5 DEF BookNext
<1>6. CASE PreflightPasses
  BY <1>2, <1>6 DEF PreflightPasses, TypeOK, Call
<1>7. CASE PreflightRejects
  BY <1>2, <1>7 DEF PreflightRejects, EndOfCall
<1>8. CASE BookingConfirmed \/ BookingFails \/ BookingGarbled
  <2>1. call' = None /\ UNCHANGED remaining /\ call.quote \in Rank(quotes)
        /\ committed' \subseteq committed \cup {TheDeal}
    BY <1>8 DEF BookingConfirmed, BookingFails, BookingGarbled, EndOfCall,
       Posting, SellerMayCommit
  <2>. QED
    BY <1>2, <2>1 DEF TheDeal
<1>9. CASE BookingTimesOut
  <2>1. /\ call \in Call /\ UNCHANGED remaining /\ call.quote \in Rank(quotes)
        /\ committed' \subseteq committed \cup {TheDeal}
        /\ call' = [call EXCEPT !.attempt = @ + 1]
    BY <1>9 DEF BookingTimesOut, Posting, SellerMayCommit, Resend, TypeOK
  <2>2. call'.quote = call.quote /\ call'.plan = call.plan /\ call'.key = call.key
    BY <2>1 DEF Call
  <2>3. call # None
    BY <1>9 DEF BookingTimesOut, Posting
  <2>. QED
    BY <1>2, <2>1, <2>2, <2>3 DEF TheDeal
<1>10. CASE AudienceUnsupported
  <2>1. call # None /\ call \in Call /\ UNCHANGED <<remaining, committed>>
    BY <1>10 DEF AudienceUnsupported, Posting, TypeOK
  <2>2. CASE call' = [call EXCEPT !.plan = "degraded", !.key = @ + 1, !.attempt = 1]
    <3>1. call'.quote = call.quote /\ call'.plan = "degraded"
      BY <2>1, <2>2 DEF Call
    <3>. QED
      BY <1>2, <2>1, <3>1
  <2>3. CASE call' = None
    BY <1>2, <2>1, <2>3
  <2>. QED
    BY <1>10, <2>2, <2>3 DEF AudienceUnsupported, EndOfCall
<1>. QED
  <2>1. CASE UNCHANGED vars
    BY <1>3, <2>1 DEF vars, booking
  <2>2. CASE \/ DiscoverSellers \/ FinishBooking
             \/ \E s \in Sellers : QuoteArrives(s) \/ QuoteFails(s)
             \/ \E q \in band : ProposalUnavailable(q) \/ ProposalAnswered(q)
             \/ CounterFails \/ RoundsExhausted \/ Requote \/ RequoteFails
             \/ \E action \in {"accept", "counter", "final_offer", "reject"},
                   p \in Prices \cup {None} : CounterAnswered(action, p)
    BY <1>3, <2>2 DEF DiscoverSellers, FinishBooking, QuoteArrives, QuoteFails,
       ProposalUnavailable, ProposalAnswered, CounterAnswered, CounterFails,
       RoundsExhausted, Requote, RequoteFails, Walk, Agree
  <2>. QED
    BY <1>4, <1>5, <1>6, <1>7, <1>8, <1>9, <1>10, <2>1, <2>2 DEF Next

\* No handler of the run breaks the types or the provenance of a deal.
LEMMA StepIInv == IInv /\ [Next]_vars => IInv'
BY TypeStep, VettingStep, QuotesStep, TalkStep, BookingStep DEF IInv, Provenance

\* Types and provenance hold together at every point of every run.
THEOREM InductiveInvariant == Spec => []IInv
BY InitIInv, StepIInv, PTL DEF Spec

\* The variables keep their types in every run.
THEOREM TypeCorrect == Spec => []TypeOK
BY InductiveInvariant, PTL DEF IInv

\* Every deal a seller holds, every booking in progress and every ranked quote
\* traces back to a vetted seller's quote.
THEOREM ProvenanceHolds == Spec => []Provenance
BY InductiveInvariant, PTL DEF IInv

\* No seller ever holds a deal above the ceiling, whatever is lost or resent.
THEOREM CeilingAlwaysHolds == Spec => []CeilingHolds
<1>1. IInv => CeilingHolds
  BY RankSound DEF IInv, TypeOK, Provenance, BookingSound, CeilingHolds
<1>. QED
  BY <1>1, InductiveInvariant, PTL

\* A deal on a negotiated quote is at a price its seller named or accepted.
THEOREM NegotiatedPriceAlwaysStands == Spec => []NegotiatedPriceStands
<1>1. IInv => NegotiatedPriceStands
  BY RankSound DEF IInv, TypeOK, Provenance, BookingSound, QuotesSound,
     NegotiatedPriceStands
<1>. QED
  BY <1>1, InductiveInvariant, PTL

\* Only vetted sellers ever hold a deal.
THEOREM OnlyVettedSellers == Spec => []VettedSellersOnly
<1>1. IInv => VettedSellersOnly
  BY RankSound DEF IInv, TypeOK, Provenance, BookingSound, QuotesSound,
     VettingSound, VettedSellersOnly
<1>. QED
  BY <1>1, InductiveInvariant, PTL

--------------------------------------------------------------------------------
(* One deal per quote and per seller, a selection that accounts for every  *)
(* deal, the bound on booked deals, and the implementation of Procurement. *)

\* Inductive: IInv says where deals come from, Accounting how often they occur.
Inv == IInv /\ Accounting

\* Whether a quote is ranked depends on the quote alone, not on the pool.
LEMMA RankLocal ==
    ASSUME NEW qs, NEW ps, NEW q \in qs \cap ps
    PROVE  q \in Rank(qs) <=> q \in Rank(ps)
BY DEF Rank

\* A quote in the negotiation band is above the ceiling.
LEMMA BandIsUnranked ==
    ASSUME TypeOK, MaxCpm # None
    PROVE  \A q \in InBand(quotes) : q \in quotes /\ q \notin Rank(quotes)
<1>. SUFFICES ASSUME NEW q \in InBand(quotes)
              PROVE  q \in quotes /\ q \notin Rank(quotes)
  OBVIOUS
<1>1. q \in Quote /\ q.price # None /\ EffectiveCpm(q) > MaxCpm
  BY DEF InBand, TypeOK
<1>2. q.seller \in Sellers /\ q.price \in Prices
  BY <1>1 DEF Quote
<1>3. EffectiveCpm(q) \in Nat /\ MaxCpm \in Nat
  BY <1>1, <1>2, ConstantFacts DEF EffectiveCpm
<1>. QED
  BY <1>1, <1>3 DEF InBand, Rank

\* A seller has at most one ranked quote.
LEMMA RankedOnce ==
    ASSUME Inv, NEW q \in Rank(quotes), NEW r \in Rank(quotes), q.seller = r.seller
    PROVE  q = r
<1>1. q \in quotes /\ r \in quotes
  BY DEF Rank
<1>. QED
  BY <1>1 DEF Inv, Accounting, PoolSound

\* The pool and the loop are sound before anything is discovered.
LEMMA InitAccounting == Init => Accounting
<1>. SUFFICES ASSUME Init PROVE Accounting
  OBVIOUS
<1>1. IsFiniteSet(booked) /\ Cardinality(booked) = 0
  BY FS_EmptySet DEF Init
<1>2. Cardinality(booked) <= Count
  BY <1>1, BoundsAssumption
<1>. QED
  BY <1>1, <1>2 DEF Init, Accounting, PoolSound, InTalks, LoopSound, LoopAccounts,
     AtMostCount, OneDealPerQuote, SelectionAccounts, Rank

\* Quotes and negotiations give every seller one chance only.
LEMMA PoolStep == Inv /\ [Next]_vars => PoolSound'
<1>. SUFFICES ASSUME Inv, [Next]_vars PROVE PoolSound'
  OBVIOUS
<1>. USE DEF Inv, IInv, Accounting, PoolSound, InTalks
<1>1. CASE DiscoverSellers
  <2>1. quotes = {} /\ quotes' = {} /\ band = {} /\ band' = {} /\ talk' = talk
    BY <1>1 DEF DiscoverSellers, Provenance, VettingSound, QuotesSound, TalkSound,
       quoting, talking
  <2>2. talk = None
    BY <1>1 DEF DiscoverSellers
  <2>. QED
    BY <2>1, <2>2
<1>2. ASSUME NEW s \in Sellers, QuoteArrives(s)
      PROVE  PoolSound'
  <2>1. PICK p \in Prices \cup {None} :
          quotes' = quotes \cup {[seller |-> s, kind |-> "rfq", price |-> p]}
    BY <1>2 DEF QuoteArrives
  <2>2. \A q \in quotes : q.seller # s /\ q.kind = "rfq"
    BY <1>2 DEF QuoteArrives
  <2>3. \A q \in quotes' : q \in quotes \/ (q.seller = s /\ q.kind = "rfq")
    BY <2>1
  <2>4. \A q, r \in quotes' : q.seller = r.seller => q = r
    BY <2>1, <2>2
  <2>5. talk = None /\ UNCHANGED <<stage, talk, band>> /\ stage = "quote"
        /\ answered' = answered \cup {s}
    BY <1>2 DEF QuoteArrives, talking
  <2>6. \A q \in band : q \in quotes /\ q \notin Rank(quotes')
    BY <2>1, RankLocal DEF Provenance, TalkSound
  <2>. QED
    BY <2>1, <2>2, <2>3, <2>4, <2>5, <2>6
<1>3. ASSUME NEW s \in Sellers, QuoteFails(s)
      PROVE  PoolSound'
  BY <1>3 DEF QuoteFails, talking
<1>4. CASE EvaluateAndRank
  <2>1. talk = None /\ UNCHANGED <<quotes, talk, answered>> /\ stage = "quote" /\ stage' # "quote"
        /\ stage' # "discover"
    BY <1>4 DEF EvaluateAndRank, quoting, StartBooking
  <2>2. \A q, r \in quotes : q.seller = r.seller => q = r
    BY <2>1
  <2>3. \A q \in band' : q \in quotes /\ q \notin Rank(quotes)
    BY <1>4, BandIsUnranked DEF EvaluateAndRank, Provenance, TalkSound
  <2>. QED
    BY <2>1, <2>2, <2>3
<1>5. ASSUME NEW q \in band, ProposalUnavailable(q) \/ ProposalAnswered(q)
      PROVE  PoolSound'
  <2>1. /\ UNCHANGED <<stage, quotes, answered>> /\ stage = "negotiate" /\ talk = None
        /\ band' = band \ {q} /\ q \in quotes
    BY <1>5 DEF ProposalUnavailable, ProposalAnswered, quoting, Provenance, TalkSound
  <2>2. talk' # None => talk'.quote = q
    BY <1>5 DEF ProposalUnavailable, ProposalAnswered
  <2>. QED
    BY <2>1, <2>2
<1>6. ASSUME NEW action \in {"accept", "counter", "final_offer", "reject"},
             NEW p \in Prices \cup {None}, CounterAnswered(action, p)
      PROVE  PoolSound'
  <2>1. talk \in Talk /\ talk # None
    BY <1>6 DEF CounterAnswered, Countering, TypeOK
  <2>2. UNCHANGED <<stage, quotes, answered, band>> /\ stage = "negotiate"
    BY <1>6 DEF CounterAnswered, Countering, Agree, Walk, quoting
  <2>3. talk' # None => talk'.quote = talk.quote
    BY <1>6, <2>1 DEF CounterAnswered, Agree, Walk, Talk
  <2>. QED
    BY <2>1, <2>2, <2>3
<1>7. CASE CounterFails \/ RoundsExhausted \/ RequoteFails
  BY <1>7 DEF CounterFails, RoundsExhausted, RequoteFails, Walk, quoting
<1>8. CASE Requote
  <2>1. /\ talk # None /\ talk \in Talk /\ talk.quote \in quotes /\ talk.quote \in InTalks
        /\ talk' = None /\ UNCHANGED <<stage, answered, band>> /\ stage = "negotiate"
    BY <1>8 DEF Requote, TypeOK, Provenance, TalkSound
  <2>2. PICK p \in Prices \cup {None} :
          quotes' = IF Bookable(p)
                    THEN quotes \cup {[seller |-> talk.quote.seller,
                                       kind |-> "requote", price |-> p]}
                    ELSE quotes
    BY <1>8 DEF Requote
  <2>3. CASE ~Bookable(p)
    BY <2>1, <2>2, <2>3
  <2>4. CASE Bookable(p)
    <3>. DEFINE new == [seller |-> talk.quote.seller, kind |-> "requote", price |-> p]
    <3>1. quotes' = quotes \cup {new} /\ new.seller = talk.quote.seller /\ new.kind = "requote"
      BY <2>2, <2>4
    <3>2. \A r \in quotes : r.seller = new.seller => r = talk.quote
      BY <2>1, <3>1
    <3>3. talk.quote.kind = "rfq" /\ talk.quote \notin Rank(quotes)
      BY <2>1
    <3>4. \A r \in quotes : r \in Rank(quotes') <=> r \in Rank(quotes)
      BY <3>1, RankLocal
    <3>5. \A q \in band : q.seller # new.seller /\ q \in quotes
      <4>1. \A q \in band : q \in quotes /\ q # talk.quote
        BY <2>1 DEF Provenance, TalkSound
      <4>. QED
        BY <3>2, <4>1
    <3>6. \A q \in quotes' : q.seller \in answered
      BY <2>1, <3>1
    <3>. HIDE DEF new
    <3>7. \A q, r \in quotes' : q.seller = r.seller =>
            \/ q = r
            \/ q.kind = "requote" /\ r.kind = "rfq" /\ r \notin Rank(quotes')
            \/ r.kind = "requote" /\ q.kind = "rfq" /\ q \notin Rank(quotes')
      BY <3>1, <3>2, <3>3, <3>4
    <3>8. \A q \in InTalks' : q \in band
      BY <2>1
    <3>. QED
      BY <2>1, <3>1, <3>4, <3>5, <3>6, <3>7, <3>8
  <2>. QED
    BY <2>3, <2>4
<1>9. CASE FinishNegotiation
  BY <1>9 DEF FinishNegotiation, StartBooking, quoting, talking
<1>10. CASE FinishBooking
  BY <1>10 DEF FinishBooking, quoting, talking
<1>11. CASE UNCHANGED <<stage, answered, quotes, band, talk>>
  BY <1>11
<1>. QED
  BY <1>1, <1>2, <1>3, <1>4, <1>5, <1>6, <1>7, <1>8, <1>9, <1>10, <1>11
     DEF Next, vars, BookNext, PreflightPasses, PreflightRejects,
         BookingConfirmed, BookingTimesOut, BookingFails, BookingGarbled,
         AudienceUnsupported, quoting, talking

\* What the booking loop's invariant says of the booking in hand.
LEMMA CallFacts ==
    ASSUME Inv, call # None
    PROVE  /\ call \in Call /\ stage = "book" /\ Cardinality(booked) < Count
           /\ call.quote \in Rank(quotes) /\ call.quote \notin remaining \cup failed
           /\ TheDeal.quote = call.quote /\ TheDeal \in Deal /\ TheDeal \notin booked
           /\ \A d \in committed : d.quote = call.quote => d = TheDeal
BY DEF Inv, IInv, TypeOK, Provenance, BookingSound, Accounting, LoopSound,
       MoreWanted, TheDeal, Deal, Call

\* A ranked quote stays ranked: quotes are only added to the pool.
LEMMA RankGrows == Inv /\ [Next]_vars => Rank(quotes) \subseteq Rank(quotes')
<1>. SUFFICES ASSUME Inv, [Next]_vars PROVE quotes \subseteq quotes'
  BY DEF Rank
<1>1. CASE DiscoverSellers
  BY <1>1 DEF DiscoverSellers, quoting
<1>2. CASE ~DiscoverSellers
  BY <1>2 DEF Next, vars, QuoteArrives, QuoteFails, EvaluateAndRank, quoting,
     ProposalUnavailable, ProposalAnswered, CounterAnswered, CounterFails,
     RoundsExhausted, Requote, RequoteFails, FinishNegotiation, BookNext,
     FinishBooking, PreflightPasses, PreflightRejects, BookingConfirmed,
     BookingTimesOut, BookingFails, BookingGarbled, AudienceUnsupported,
     Walk, Agree
<1>. QED
  BY <1>1, <1>2

Early == {"discover", "quote", "negotiate"}

\* The steps before the booking loop touch no deal and no verdict.
LEMMA EarlySteps ==
    ASSUME Inv,
           \/ DiscoverSellers
           \/ \E s \in Sellers : QuoteArrives(s) \/ QuoteFails(s)
           \/ EvaluateAndRank
           \/ \E q \in band : ProposalUnavailable(q) \/ ProposalAnswered(q)
           \/ \E action \in {"accept", "counter", "final_offer", "reject"},
                 p \in Prices \cup {None} : CounterAnswered(action, p)
           \/ CounterFails \/ RoundsExhausted \/ Requote \/ RequoteFails
           \/ FinishNegotiation
    PROVE  /\ stage \in Early /\ call = None
           /\ committed = {} /\ failed = {} /\ booked = {}
           /\ UNCHANGED <<call, booked, failed, incompatible, committed>>
<1>1. stage \in Early /\ UNCHANGED <<call, booked, failed, incompatible, committed>>
  BY DEF Early, DiscoverSellers, QuoteArrives, QuoteFails, EvaluateAndRank,
     ProposalUnavailable, ProposalAnswered, CounterAnswered, Countering,
     CounterFails, RoundsExhausted, Requote, RequoteFails, FinishNegotiation,
     Walk, Agree, booking
<1>. QED
  BY <1>1 DEF Early, Inv, Accounting, LoopSound, LoopAccounts, SelectionAccounts

\* The verdict "failed" on the booking in hand keeps the loop sound.
LEMMA FailedCall ==
    ASSUME Inv, call # None, call' = None, failed' = failed \cup {call.quote},
           UNCHANGED <<stage, remaining, booked>>,
           committed' \in {committed, committed \cup {TheDeal}},
           incompatible' \in {incompatible, incompatible \cup {call.quote.seller}},
           Rank(quotes) \subseteq Rank(quotes')
    PROVE  LoopSound' /\ LoopAccounts'
<1>. USE CallFacts
<1>. USE DEF Inv, Accounting
<1>1. \A d \in committed' : d \in committed \/ d = TheDeal
  OBVIOUS
<1>2. LoopSound'
  BY <1>1 DEF LoopSound
<1>3. OneDealPerQuote'
  BY <1>1 DEF LoopAccounts, OneDealPerQuote
<1>4. SelectionAccounts'
  BY <1>1 DEF LoopAccounts, SelectionAccounts
<1>5. \A d \in booked : d.quote # call.quote
  BY DEF LoopAccounts, SelectionAccounts
<1>6. \A s \in incompatible' : \E q \in failed' : q.seller = s
  BY DEF LoopAccounts
<1>. QED
  BY <1>2, <1>3, <1>4, <1>5, <1>6 DEF LoopAccounts, AtMostCount

\* No step of the run breaks the booking loop's invariant.
LEMMA LoopStep == Inv /\ [Next]_vars => LoopSound' /\ LoopAccounts'
<1>. SUFFICES ASSUME Inv, [Next]_vars PROVE LoopSound' /\ LoopAccounts'
  OBVIOUS
<1>. USE RankGrows DEF Inv, Accounting
<1>0. MaxRetries \in Nat /\ Count \in Nat
  BY BoundsAssumption
<1>1. CASE \/ DiscoverSellers
           \/ \E s \in Sellers : QuoteArrives(s) \/ QuoteFails(s)
           \/ EvaluateAndRank
           \/ \E q \in band : ProposalUnavailable(q) \/ ProposalAnswered(q)
           \/ \E action \in {"accept", "counter", "final_offer", "reject"},
                 p \in Prices \cup {None} : CounterAnswered(action, p)
           \/ CounterFails \/ RoundsExhausted \/ Requote \/ RequoteFails
           \/ FinishNegotiation
  <2>1. /\ stage \in Early /\ call = None
        /\ committed = {} /\ failed = {} /\ booked = {}
        /\ UNCHANGED <<call, booked, failed, incompatible, committed>>
    BY <1>1, EarlySteps
  <2>. QED
    BY <2>1 DEF LoopSound, LoopAccounts, AtMostCount, OneDealPerQuote,
       SelectionAccounts
<1>2. ASSUME NEW q \in remaining, BookNext(q)
      PROVE  LoopSound' /\ LoopAccounts'
  <2>1. /\ stage = "book" /\ MoreWanted /\ call = None
        /\ remaining' = remaining \ {q} /\ call' # None /\ call'.quote = q
        /\ UNCHANGED <<stage, quotes, booked, failed, incompatible, committed>>
    <3>1. call' = [quote |-> q, plan |-> IF HasPlan THEN "full" ELSE "none",
                   preflight |-> HasPlan /\ HasCapabilities, key |-> 1, attempt |-> 1]
      BY <1>2 DEF BookNext
    <3>2. q \in Quote /\ (HasPlan /\ HasCapabilities) \in BOOLEAN /\ 1 \in 1..MaxRetries
      BY ConstantFacts DEF IInv, TypeOK
    <3>3. call' \in Call
      BY <3>1, <3>2 DEF Call, Keys
    <3>. QED
      BY <1>2, <3>1, <3>3, ConstantFacts DEF BookNext, quoting
  <2>2. \A d \in committed : d.quote # q
    BY DEF LoopSound
  <2>3. TheDeal'.quote = q
    BY <2>1 DEF TheDeal
  <2>4. TheDeal' \notin booked
    BY <2>2, <2>3 DEF LoopAccounts, SelectionAccounts
  <2>. QED
    BY <2>1, <2>2, <2>4 DEF LoopSound, LoopAccounts, MoreWanted, AtMostCount,
       OneDealPerQuote, SelectionAccounts
<1>3. CASE FinishBooking
  BY <1>3 DEF FinishBooking, quoting, booking, LoopSound, LoopAccounts, AtMostCount,
     OneDealPerQuote, SelectionAccounts
<1>4. CASE PreflightPasses \/ BookingTimesOut
  <2>1. call # None /\ call \in Call
    BY <1>4 DEF PreflightPasses, BookingTimesOut, Posting, IInv, TypeOK
  <2>2. call' # None /\ call'.quote = call.quote /\ call'.key = call.key
    <3>1. call' = [call EXCEPT !.preflight = FALSE] \/ call' = [call EXCEPT !.attempt = @ + 1]
      BY <1>4 DEF PreflightPasses, BookingTimesOut, Resend
    <3>2. call'.quote = call.quote /\ call'.key = call.key
      BY <2>1, <3>1 DEF Call
    <3>3. call' \in Call \cup {None}
      BY <2>1, TypeStep DEF IInv, TypeOK
    <3>4. CASE call' = [call EXCEPT !.preflight = FALSE]
      <4>1. call' \in Call
        BY <2>1, <3>4 DEF Call
      <4>. QED
        BY <3>2, <4>1, ConstantFacts
    <3>5. CASE call' = [call EXCEPT !.attempt = @ + 1] /\ call.attempt < MaxRetries
      <4>1. call.attempt + 1 \in 1..MaxRetries
        BY <2>1, <3>5, <1>0 DEF Call
      <4>2. call' \in Call
        BY <2>1, <3>5, <4>1 DEF Call
      <4>. QED
        BY <3>2, <4>2, ConstantFacts
    <3>. QED
      BY <1>4, <3>4, <3>5 DEF PreflightPasses, BookingTimesOut, Resend, MayResend
  <2>3. TheDeal' = TheDeal /\ committed' \in {committed, committed \cup {TheDeal}}
        /\ UNCHANGED <<stage, quotes, remaining, booked, failed, incompatible>>
    BY <1>4, <2>2 DEF PreflightPasses, BookingTimesOut, SellerMayCommit, TheDeal, quoting
  <2>4. \A d \in committed' : d \in committed \/ d = TheDeal
    BY <2>3
  <2>. HIDE DEF TheDeal
  <2>5. LoopSound'
    BY <2>1, <2>2, <2>3, <2>4, CallFacts DEF LoopSound, MoreWanted
  <2>6. OneDealPerQuote' /\ SelectionAccounts'
    BY <2>1, <2>2, <2>3, <2>4, CallFacts DEF LoopAccounts, OneDealPerQuote, SelectionAccounts
  <2>. QED
    BY <2>3, <2>5, <2>6 DEF LoopAccounts, AtMostCount
<1>5. CASE PreflightRejects \/ BookingFails \/ BookingGarbled
  <2>1. /\ call # None /\ call' = None /\ failed' = failed \cup {call.quote}
        /\ UNCHANGED <<stage, remaining, booked>>
        /\ committed' \in {committed, committed \cup {TheDeal}}
        /\ incompatible' \in {incompatible, incompatible \cup {call.quote.seller}}
    BY <1>5 DEF PreflightRejects, BookingFails, BookingGarbled, Posting, Fail,
       Exclude, EndOfCall, SellerMayCommit
  <2>. QED
    BY <2>1, FailedCall
<1>6. CASE BookingConfirmed
  <2>1. /\ call # None /\ call' = None /\ booked' = booked \cup {TheDeal}
        /\ committed' = committed \cup {TheDeal}
        /\ UNCHANGED <<stage, quotes, remaining, failed, incompatible>>
    BY <1>6 DEF BookingConfirmed, Posting, EndOfCall, quoting
  <2>2. IsFiniteSet(booked') /\ Cardinality(booked') = Cardinality(booked) + 1
    BY <2>1, CallFacts, FS_AddElement DEF LoopAccounts
  <2>3. Cardinality(booked) \in Nat
    BY FS_CardinalityType DEF LoopAccounts
  <2>4. Cardinality(booked') <= Count
    BY <1>0, <2>1, <2>2, <2>3, CallFacts
  <2>. HIDE DEF TheDeal
  <2>5. LoopSound'
    BY <2>1, CallFacts DEF LoopSound
  <2>6. OneDealPerQuote' /\ SelectionAccounts'
    BY <2>1, CallFacts DEF LoopAccounts, OneDealPerQuote, SelectionAccounts
  <2>7. \A d \in booked' : d.quote \notin failed'
    BY <2>1, CallFacts DEF LoopAccounts
  <2>. QED
    BY <2>1, <2>2, <2>4, <2>5, <2>6, <2>7 DEF LoopAccounts, AtMostCount
<1>7. CASE AudienceUnsupported
  <2>1. /\ call # None /\ call \in Call /\ TheDeal \notin committed
        /\ UNCHANGED <<stage, quotes, remaining, booked, committed>>
    BY <1>7 DEF AudienceUnsupported, Posting, IInv, TypeOK, quoting
  <2>2. CASE /\ call' = [call EXCEPT !.plan = "degraded", !.key = @ + 1, !.attempt = 1]
             /\ call.plan = "full"
             /\ UNCHANGED <<failed, incompatible>>
    <3>1. call.key + 1 \in Keys /\ 1 \in 1..MaxRetries
      BY <2>1, <2>2, ConstantFacts DEF Provenance, BookingSound, Keys, IInv
    <3>2. call' \in Call /\ call' # None
      BY <2>1, <2>2, <3>1, ConstantFacts DEF Call
    <3>3. call'.quote = call.quote /\ TheDeal'.quote = call.quote
      BY <2>1, <2>2 DEF Call, TheDeal
    <3>4. \A d \in committed : d.quote # call.quote
      BY <2>1, CallFacts
    <3>5. TheDeal' \notin booked
      BY <3>3, <3>4 DEF LoopAccounts, SelectionAccounts
    <3>6. LoopSound'
      BY <2>1, <2>2, <3>2, <3>3, <3>4, <3>5, CallFacts DEF LoopSound, MoreWanted
    <3>. QED
      BY <2>1, <2>2, <3>2, <3>3, <3>6 DEF LoopAccounts, AtMostCount, OneDealPerQuote,
         SelectionAccounts
  <2>3. CASE Fail /\ Exclude /\ EndOfCall
    BY <2>1, <2>3, FailedCall DEF Fail, Exclude, EndOfCall
  <2>. QED
    BY <1>7, <2>2, <2>3 DEF AudienceUnsupported
<1>8. CASE UNCHANGED vars
  <2>. QED
    BY <1>8 DEF vars, LoopSound, LoopAccounts, AtMostCount, OneDealPerQuote,
       SelectionAccounts, TheDeal, MoreWanted
<1>. QED
  BY <1>1, <1>2, <1>3, <1>4, <1>5, <1>6, <1>7, <1>8 DEF Next

\* No handler of the run breaks the invariant.
LEMMA StepInv == Inv /\ [Next]_vars => Inv'
BY StepIInv, PoolStep, LoopStep DEF Inv, Accounting

\* The strengthened invariant holds at every point of every run.
THEOREM InvHolds == Spec => []Inv
<1>1. Init => Inv
  BY InitIInv, InitAccounting DEF Inv
<1>. QED
  BY <1>1, StepInv, PTL DEF Spec

\* The pool gives each seller one chance and the loop accounts for its deals.
THEOREM AccountingHolds == Spec => []Accounting
BY InvHolds, PTL DEF Inv

\* Resends and degraded plans never leave a seller with two deals for a quote.
THEOREM OneDealForAQuote == Spec => []OneDealPerQuote
<1>1. Inv => OneDealPerQuote
  BY DEF Inv, Accounting, LoopAccounts
<1>. QED
  BY <1>1, InvHolds, PTL

\* A negotiated re-quote never makes a second deal with the same seller.
THEOREM OneDealWithASeller == Spec => []OneDealPerSeller
<1>1. Inv => OneDealPerSeller
  BY RankedOnce DEF Inv, IInv, Provenance, BookingSound, Accounting, LoopAccounts,
     SelectionAccounts, OneDealPerQuote, OneDealPerSeller
<1>. QED
  BY <1>1, InvHolds, PTL

\* Every deal a seller holds is booked, failed, or still in hand.
THEOREM EveryDealIsAccountedFor == Spec => []SelectionAccounts
<1>1. Inv => SelectionAccounts
  BY DEF Inv, Accounting, LoopAccounts
<1>. QED
  BY <1>1, InvHolds, PTL

\* No deal is both booked and failed, and no given-up seller has one booked.
THEOREM VerdictsAgree == Spec => []NoVerdictContradicted
<1>1. ASSUME Inv, NEW d \in booked, d.quote.seller \in incompatible PROVE FALSE
  <2>1. PICK q \in failed : q.seller = d.quote.seller
    BY <1>1 DEF Inv, Accounting, LoopAccounts
  <2>2. q \in Rank(quotes) /\ d.quote \in Rank(quotes)
    BY <1>1 DEF Inv, IInv, Provenance, BookingSound, Accounting, LoopSound,
       LoopAccounts, SelectionAccounts
  <2>3. q = d.quote
    BY <1>1, <2>1, <2>2, RankedOnce
  <2>. QED
    BY <1>1, <2>3 DEF Inv, Accounting, LoopAccounts
<1>2. Inv => NoVerdictContradicted
  BY <1>1 DEF Inv, Accounting, LoopAccounts, NoVerdictContradicted
<1>. QED
  BY <1>2, InvHolds, PTL

\* The selection never reports more than Count booked deals.
THEOREM NeverMoreThanCount == Spec => []AtMostCount
<1>1. Inv => AtMostCount
  BY DEF Inv, Accounting, LoopAccounts
<1>. QED
  BY <1>1, InvHolds, PTL

\* What a run answers accounts for every deal, for any sellers, prices, resends
\* and count.
THEOREM VerdictsAlwaysAccount == Spec => []VerdictsAccount
<1>1. SelectionAccounts /\ NoVerdictContradicted /\ AtMostCount => VerdictsAccount
  BY DEF VerdictsAccount
<1>. QED
  BY <1>1, EveryDealIsAccountedFor, VerdictsAgree, NeverMoreThanCount, PTL

--------------------------------------------------------------------------------
(* MultiSeller implements Procurement.                                     *)

\* A deal for the quote in hand is one the promise allows.
LEMMA DealIsStrikable ==
    ASSUME Inv, call # None
    PROVE  TheDeal \in Deal /\ Promise!Strikable(TheDeal)
<1>1. /\ TheDeal \in Deal /\ TheDeal.quote = call.quote /\ stage = "book"
      /\ call.quote \in Rank(quotes)
  BY CallFacts
<1>2. call.quote \in quotes /\ call.quote \in Quote /\ quotes \subseteq Quote
  BY <1>1 DEF Rank, Inv, IInv, TypeOK
<1>3. call.quote.seller \in discovered
  BY <1>2 DEF Inv, IInv, Provenance, QuotesSound
<1>4. MaxCpm = None \/ Acceptable(call.quote.price)
  BY <1>1, <1>2, RankSound DEF Acceptable
<1>. QED
  BY <1>1, <1>3, <1>4 DEF Promise!Strikable

\* Every step of the run is a step of the promise, or none of its business.
LEMMA StepKeepsPromise ==
    Inv /\ [Next]_vars => [Promise!PNext]_(Promise!pvars)
<1>. SUFFICES ASSUME Inv, [Next]_vars
              PROVE  Promise!PNext \/ UNCHANGED Promise!pvars
  OBVIOUS
<1>. USE DEF Promise!PNext, Promise!pvars
<1>1. CASE DiscoverSellers
  <2>1. stage = "discover" /\ discovered = {} /\ UNCHANGED <<committed, booked>>
    BY <1>1 DEF DiscoverSellers, booking, Inv, IInv, Provenance, VettingSound
  <2>2. committed = {}
    BY <2>1 DEF Inv, Accounting, LoopSound
  <2>3. discovered' \subseteq {s \in Sellers : MayBeVetted(s)}
    <3>1. discovered' \subseteq Sellers
      BY TypeStep DEF Inv, TypeOK
    <3>2. \A s \in discovered' : MayBeVetted(s)
      BY <1>1 DEF DiscoverSellers, SgpGate, MayBeVetted
    <3>. QED
      BY <3>1, <3>2
  <2>4. (stage' = "done") = (discovered' = {})
    BY <1>1 DEF DiscoverSellers
  <2>5. Promise!Vet
    BY <2>1, <2>2, <2>3, <2>4 DEF Promise!Vet
  <2>. QED
    BY <2>5
<1>2. CASE \/ \E s \in Sellers : QuoteArrives(s) \/ QuoteFails(s)
           \/ \E q \in band : ProposalUnavailable(q) \/ ProposalAnswered(q)
           \/ \E action \in {"accept", "counter", "final_offer", "reject"},
                 p \in Prices \cup {None} : CounterAnswered(action, p)
           \/ CounterFails \/ RoundsExhausted \/ Requote \/ RequoteFails
           \/ \E q \in remaining : BookNext(q)
           \/ PreflightPasses \/ PreflightRejects \/ AudienceUnsupported
  BY <1>2 DEF QuoteArrives, QuoteFails, ProposalUnavailable, ProposalAnswered,
     CounterAnswered, CounterFails, RoundsExhausted, Requote, RequoteFails,
     BookNext, PreflightPasses, PreflightRejects, AudienceUnsupported,
     Walk, Agree, booking, quoting
<1>3. CASE EvaluateAndRank \/ FinishNegotiation \/ FinishBooking
  <2>1. stage # "done" /\ UNCHANGED <<discovered, committed, booked>>
    BY <1>3 DEF EvaluateAndRank, FinishNegotiation, FinishBooking, booking
  <2>2. CASE stage' = "done"
    BY <2>1, <2>2 DEF Promise!Close
  <2>3. CASE stage' # "done"
    BY <2>1, <2>3
  <2>. QED
    BY <2>2, <2>3
<1>4. CASE BookingConfirmed
  <2>1. /\ call # None /\ UNCHANGED <<stage, discovered>>
        /\ committed' = committed \cup {TheDeal} /\ booked' = booked \cup {TheDeal}
    BY <1>4 DEF BookingConfirmed, Posting
  <2>2. Promise!Strikable(TheDeal) /\ TheDeal \in Deal \ booked
        /\ Cardinality(booked) < Count
    BY <2>1, DealIsStrikable, CallFacts
  <2>3. Promise!Cardinality(booked) = Cardinality(booked)
    BY DEF Promise!Cardinality, Cardinality
  <2>. HIDE DEF TheDeal
  <2>4. Promise!Take
    BY <2>1, <2>2, <2>3 DEF Promise!Take
  <2>. QED
    BY <2>4
<1>5. CASE BookingTimesOut \/ BookingFails \/ BookingGarbled
  <2>1. /\ call # None /\ UNCHANGED <<stage, discovered, booked>>
        /\ committed' \in {committed, committed \cup {TheDeal}}
    BY <1>5 DEF BookingTimesOut, BookingFails, BookingGarbled, Posting, SellerMayCommit
  <2>2. Promise!Strikable(TheDeal) /\ TheDeal \in Deal
    BY <2>1, DealIsStrikable
  <2>. HIDE DEF TheDeal
  <2>3. CASE committed' = committed \cup {TheDeal}
    BY <2>1, <2>2, <2>3 DEF Promise!Strike
  <2>. QED
    BY <2>1, <2>3
<1>6. CASE UNCHANGED vars
  BY <1>6 DEF vars
<1>. QED
  BY <1>1, <1>2, <1>3, <1>4, <1>5, <1>6 DEF Next

\* A run of the orchestrator implements the promise of a procurement run.
THEOREM ImplementsProcurement == Spec => KeepsPromise
<1>1. Init => Promise!PInit
  BY DEF Init, Promise!PInit
<1>2. Spec => Promise!PInit /\ [][Promise!PNext]_(Promise!pvars)
  BY <1>1, StepKeepsPromise, InvHolds, PTL DEF Spec
<1>. QED
  BY <1>2 DEF KeepsPromise, Promise!PSpec
================================================================================
