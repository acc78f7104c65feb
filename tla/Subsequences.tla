------------------------------ MODULE Subsequences ------------------------------
(***************************************************************************)
(* What a loop with a condition keeps of a list, and what sorting makes of *)
(* a set.  SelectSeq and SetToSortSeq compute the same; these say it of    *)
(* positions, which proofs can follow.                                     *)
(***************************************************************************)
EXTENDS Naturals, Sequences, FiniteSets

\* A set in an order: at k, the element that k - 1 come before.
InOrder(S, before(_, _)) ==
    [k \in 1 .. Cardinality(S) |->
        CHOOSE x \in S : Cardinality({y \in S : before(y, x)}) = k - 1]

\* The items of a sequence at some of its positions, in the order of the sequence.
Picked(s, I) ==
    LET at == InOrder(I, LAMBDA i, j : i < j) IN [k \in DOMAIN at |-> s[at[k]]]
================================================================================
