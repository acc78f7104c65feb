------------------------------ MODULE Negotiation ------------------------------
(***************************************************************************)
(* NegotiationClient: a proposal is posted, and auto_negotiate with        *)
(* SimpleThresholdStrategy posts offers one at a time until one side       *)
(* accepts, the seller rejects, or the strategy walks away.  Any request   *)
(* may fail, with or without the seller having acted on it, and the        *)
(* failure is raised.                                                      *)
(*                                                                         *)
(* Abstractions.  One negotiation.  A price is a whole number of units,    *)
(* which the conversion to and from micros keeps.                          *)
(***************************************************************************)
EXTENDS Integers

CONSTANTS
    TargetCpm, MaxCpm, Concession, MaxRounds,   \* SimpleThresholdStrategy
    SellerPrices                                \* prices that the seller may name

ASSUME NegotiationAssumption ==
    /\ {TargetCpm, MaxCpm, Concession} \subseteq Nat /\ TargetCpm <= MaxCpm
    /\ MaxRounds \in Nat \ {0} /\ SellerPrices \subseteq Nat

Unset == -1
Actions == {"counter", "accept", "reject", "final_offer"}

VARIABLES
    talk,       \* where auto_negotiate is
    offer,      \* our_last_offer
    ask,        \* current_seller_price
    previous,   \* seller_previous_price, Unset for None
    rounds,     \* rounds recorded in the session
    result,     \* the outcome returned and the price with it
    stands      \* the negotiation as the seller sees it (external)

ngVars == <<talk, offer, ask, previous, rounds, result, stands>>

NoResult == [outcome |-> "none", price |-> Unset]
Finish(outcome, price) ==
    talk' = "done" /\ result' = [outcome |-> outcome, price |-> price]

NgInit ==
    /\ talk = "idle" /\ offer = Unset /\ ask = Unset /\ previous = Unset /\ rounds = 0
    /\ result = NoResult /\ stands = "none"

\* SimpleThresholdStrategy.should_accept, next_offer and should_walk_away.
ShouldAccept(price) == price <= MaxCpm
\* Mutant: a concession is added to an offer that is at the limit.
NextOfferUncapped == IF offer = Unset THEN TargetCpm ELSE offer + Concession
NextOffer ==
    IF offer = Unset THEN TargetCpm
    ELSE IF offer + Concession < MaxCpm THEN offer + Concession ELSE MaxCpm
\* Mutant: one round more than the limit.
ShouldWalkAwayLate == rounds > MaxRounds \/ (previous # Unset /\ ask >= previous)
ShouldWalkAway == rounds >= MaxRounds \/ (previous # Unset /\ ask >= previous)

--------------------------------------------------------------------------------
\* to_wire_negotiation_message: what is posted to the seller.  A decline has no price.
ToWire(action) ==
    [action |-> action,
     buyerPrice |-> CASE action = "counter" -> NextOffer [] action = "accept" -> ask
                      [] OTHER -> Unset]

\* normalize_negotiation_round_response: an enveloped round and a flat one read alike,
\* but a flat one without a price reads as 0, and without an action as a counter, where
\* an enveloped price of null makes the session invalid, which raises.
NormalizeRound(answer) ==
    [price |-> IF answer.price # Unset THEN answer.price ELSE 0, action |-> answer.action]
Readable(answer) == ~(answer.enveloped /\ answer.price = Unset)

\* What the seller makes of a message (external).
Stands(action) ==
    CASE action = "accept" -> "agreed" [] action = "reject" -> "rejected" [] OTHER -> "open"
SellerAnswers ==
    [enveloped : BOOLEAN, price : SellerPrices \cup {Unset}, action : Actions]

\* submit_proposal opens a proposal with the seller, which is what is negotiated.
SubmitProposal ==
    /\ talk = "idle" /\ talk' = "new"
    /\ UNCHANGED <<offer, ask, previous, rounds, result, stands>>

\* The package does not allow negotiation: nothing is sent.
Disabled ==
    /\ talk = "new" /\ Finish("declined", Unset)
    /\ UNCHANGED <<offer, ask, previous, rounds, stands>>

\* start_negotiation posts the opening offer.
StartNegotiation ==
    /\ talk = "new" /\ talk' = "starting" /\ offer' = ToWire("counter").buyerPrice
    /\ UNCHANGED <<ask, previous, rounds, result, stands>>

\* The round is recorded.  An accept ends the negotiation at the price that the seller
\* names; a price within the limit is accepted, also when it comes with a reject.
Settled(round, otherwise) ==
    /\ ask' = round.price /\ rounds' = rounds + 1 /\ stands' = Stands(round.action)
    /\ IF round.action = "accept" THEN Finish("accepted", round.price)
       ELSE IF ShouldAccept(round.price) THEN talk' = "accepting" /\ UNCHANGED result
       ELSE otherwise
    /\ UNCHANGED <<offer, previous>>

\* The seller answers the opening: a reject is not looked at.
OpeningAnswered ==
    /\ talk = "starting"
    /\ \E answer \in SellerAnswers : /\ Readable(answer)
         /\ Settled(NormalizeRound(answer), talk' = "choosing" /\ UNCHANGED result)

\* The seller answers a counter: a reject ends the negotiation.
CounterAnswered ==
    /\ talk = "countering"
    /\ \E answer \in SellerAnswers : /\ Readable(answer)
         /\ Settled(NormalizeRound(answer),
                    IF answer.action = "reject" THEN Finish("walked_away", Unset)
                    ELSE talk' = "choosing" /\ UNCHANGED result)

\* The strategy walks away: the seller is told first.
\* Mutant: the seller is not told.
WalkAwaySilently ==
    /\ talk = "choosing" /\ ShouldWalkAway /\ Finish("walked_away", Unset)
    /\ UNCHANGED <<offer, ask, previous, rounds, stands>>
WalkAway ==
    /\ talk = "choosing" /\ ShouldWalkAway /\ talk' = "declining"
    /\ UNCHANGED <<offer, ask, previous, rounds, result, stands>>

\* counter_offer posts the next offer.
CounterOffer ==
    /\ talk = "choosing" /\ ~ShouldWalkAway
    /\ previous' = ask /\ offer' = ToWire("counter").buyerPrice /\ talk' = "countering"
    /\ UNCHANGED <<ask, rounds, result, stands>>

\* accept and decline are confirmed.
Accept ==
    /\ talk = "accepting" /\ stands' = "agreed" /\ Finish("accepted", ToWire("accept").buyerPrice)
    /\ UNCHANGED <<offer, ask, previous, rounds>>
Decline ==
    /\ talk = "declining" /\ stands' = "closed" /\ Finish("walked_away", ToWire("reject").buyerPrice)
    /\ UNCHANGED <<offer, ask, previous, rounds>>

\* A request fails, or its answer is lost or unusable; auto_negotiate raises.
Raise ==
    /\ talk \in {"starting", "countering", "accepting", "declining"}
    /\ Finish("raised", Unset)
    /\ \/ UNCHANGED stands
       \/ /\ talk \in {"starting", "countering"}
          /\ \E action \in Actions : stands' = Stands(action)
       \/ talk = "accepting" /\ stands' = "agreed"
       \/ talk = "declining" /\ stands' = "closed"
    /\ UNCHANGED <<offer, ask, previous, rounds>>

NgNext ==
    \/ SubmitProposal \/ Disabled \/ StartNegotiation \/ OpeningAnswered \/ WalkAway
    \/ CounterOffer \/ CounterAnswered \/ Accept \/ Decline \/ Raise

NgSpec == NgInit /\ [][NgNext]_ngVars

--------------------------------------------------------------------------------
(* Properties.                                                             *)

\* Type invariant of the negotiation.
NgTypeOK ==
    /\ talk \in {"idle", "new", "starting", "countering", "choosing", "accepting", "declining", "done"}
    /\ offer \in Nat \cup {Unset} /\ previous \in Nat \cup {Unset}
    /\ ask \in SellerPrices \cup {0, Unset} /\ rounds \in Nat
    /\ result \in [outcome : {"none", "accepted", "walked_away", "declined", "raised"},
                   price : SellerPrices \cup {0, Unset}]
    /\ stands \in {"none", "open", "agreed", "rejected", "closed"}

\* No offer is ever above the limit, and the rounds are never more than agreed on:
\* what the strategy decides round by round holds of the whole exchange.
OffersWithinLimits == offer <= MaxCpm /\ rounds <= MaxRounds

\* A negotiation that auto_negotiate reports as accepted or abandoned is not left open
\* with the seller: it was told, or it said so itself.
NothingLeftOpen == result.outcome \in {"accepted", "walked_away"} => stands # "open"

\* The strategy's documentation: max_cpm is the absolute ceiling that is accepted.
AcceptedWithinMax == result.outcome = "accepted" => result.price <= MaxCpm
================================================================================
