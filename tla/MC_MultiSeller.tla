--------------------------- MODULE MC_MultiSeller ----------------------------
(* Small instances of MultiSeller: sellers a and b, and a vendor d that the  *)
(* SGP portfolio denies.                                                     *)
EXTENDS MultiSeller

CONSTANTS a, b, d

MCPrices == 1..4

\* Vendor b sits behind an intermediary: its fees add one to every price.
MCEffective == [s \in Sellers |-> [p \in Prices |-> IF s = b THEN p + 1 ELSE p]]
MCFlatEffective == [s \in Sellers |-> [p \in Prices |-> p]]

MCNone == {}
MCApproved == {a, b}
MCUnknownB == {a}
MCDenied == {d}
==============================================================================
