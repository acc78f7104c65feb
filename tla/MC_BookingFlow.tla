---------------------------- MODULE MC_BookingFlow ----------------------------
(* Instances of BookingFlow for TLC: a seller channel and a social one.       *)
EXTENDS BookingFlow

CONSTANTS ctv, social, p1, p2, r1, r2

MCChannels == {ctv, social}
MCSocial   == {social}

\* p1 is proposed twice, once at a cost that the allocations clamp.
MCItems ==
    {[product |-> p1, cost |-> 1, impressions |-> 2],
     [product |-> p1, cost |-> 3, impressions |-> 1],
     [product |-> p2, cost |-> 2, impressions |-> 1]}
MCFewItems ==
    {[product |-> p1, cost |-> 1, impressions |-> 2],
     [product |-> p2, cost |-> 2, impressions |-> 1]}

\* The first split is within the budget of 3, the second exceeds it, the third
\* leaves a channel out.
MCSplit(c, s)     == [ch \in MCChannels |-> IF ch = ctv THEN c ELSE s]
MCAllocations     == {MCSplit(2, 1), MCSplit(2, 2), MCSplit(3, 0)}
MCFewAllocations  == {MCSplit(2, 2)}

MCRequests == {r1, r2}
\* One operator approves both products by name, the other one of them.
MCSelective == [r \in MCRequests |-> IF r = r1 THEN {p1, p2} ELSE {p2}]
\* One approves everything, the other one product.
MCMixed     == [r \in MCRequests |-> IF r = r1 THEN None ELSE {p1}]
\* The same operator clicks twice.
MCAll       == [r \in MCRequests |-> None]
================================================================================
