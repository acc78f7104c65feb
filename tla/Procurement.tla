------------------------------ MODULE Procurement ------------------------------
(***************************************************************************)
(* What a procurement run promises, with no mention of quotes, rounds,     *)
(* retries or timeouts: sellers are vetted once; deals are struck only     *)
(* with vetted sellers and only at prices within the ceiling; the buyer    *)
(* books no more than Count of the deals struck, each exactly once; and    *)
(* nothing happens after the run is closed.                                *)
(***************************************************************************)
EXTENDS Integers, FiniteSets

CONSTANTS
    Vendors,        \* all sellers
    Vettable,       \* the sellers that may ever be vetted
    Refs,           \* identities of deals
    SellerOf,       \* SellerOf[r]: the seller of deal r
    WithinCeiling,  \* the deals whose price is within the ceiling
    Count

VARIABLES
    vetted,         \* sellers that passed vetting
    struck,         \* deals sellers hold
    taken,          \* deals the buyer knows and has booked
    closed

pvars == <<vetted, struck, taken, closed>>

PInit ==
    /\ vetted = {} /\ struck = {} /\ taken = {} /\ closed = FALSE

\* Vetting decides once which sellers the run may deal with; if none may, the
\* run closes with nothing struck.
Vet ==
    /\ ~closed /\ vetted = {} /\ struck = {}
    /\ vetted' \in SUBSET Vettable
    /\ closed' = (vetted' = {})
    /\ UNCHANGED <<struck, taken>>

\* A deal the buyer may strike now.
Strikable(r) == ~closed /\ SellerOf[r] \in vetted /\ r \in WithinCeiling

\* A seller commits to a deal and the buyer does not hear of it (yet).
Strike ==
    /\ \E r \in Refs : Strikable(r) /\ struck' = struck \cup {r}
    /\ UNCHANGED <<vetted, taken, closed>>

\* The buyer books a deal: one it strikes now, or one struck on an earlier try.
Take ==
    /\ Cardinality(taken) < Count
    /\ \E r \in Refs \ taken :
          /\ Strikable(r)
          /\ struck' = struck \cup {r}
          /\ taken' = taken \cup {r}
    /\ UNCHANGED <<vetted, closed>>

Close ==
    /\ ~closed /\ closed' = TRUE
    /\ UNCHANGED <<vetted, struck, taken>>

PNext == Vet \/ Strike \/ Take \/ Close

PSpec == PInit /\ [][PNext]_pvars
================================================================================
