---------------------------- MODULE MC_ApprovalGate ----------------------------
(* Instances of ApprovalGate for TLC.                                         *)
EXTENDS ApprovalGate, TLC

CONSTANTS g1, g2, r1, r2, r3

MCOneGate       == {g1}
MCTwoGates      == {g1, g2}
MCTwoRequests   == {r1, r2}
MCThreeRequests == {r1, r2, r3}

\* Gates and requests are interchangeable; only used without liveness.
MCSymmetry == Permutations(MCTwoGates) \cup Permutations(MCTwoRequests)
================================================================================
