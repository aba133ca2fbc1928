------------------------------ MODULE MCHarjus ------------------------------
(* The whole program on one triangle of the example market, for TLC.       *)
EXTENDS Harjus, ExampleMarket

TriBalance   == [a \in TriAssets |-> IF a = "A" THEN 4 ELSE 0]
OnePath      == {PathABC}
MCQuantities == {2}
MCReported   == {0, 2}
MCPrices     == {1, 2}
Better       == {1}
=============================================================================
