----------------------------- MODULE MCPricing ------------------------------
(* The engine with prices on one triangle of the example market, traded    *)
(* from each of its assets, in tenths, for TLC.                            *)
EXTENDS Pricing, ExampleMarket

PathCAB      == <<Short("CA"), Long("BA"), Long("CB")>>
TriPaths     == {PathABC, PathBAC, PathCAB}
TriBalance   == [a \in TriAssets |->
    CASE a = "A" -> 60 [] a = "B" -> 30 [] OTHER -> 20]
Steps        == [s \in Triangle |-> IF s = "CB" THEN 4 ELSE 2]
Notionals    == [s \in Triangle |-> IF s = "BA" THEN 8 ELSE 3]
Values       == [a \in TriAssets |-> 10]
Q(bid, bq, ask, aq) ==
    [bidPrice |-> bid, bidQty |-> bq, askPrice |-> ask, askQty |-> aq]
MCQuotes     == {Q(5, 40, 8, 40),
                 Q(17, 20, 20, 20), Q(0, 0, 6, 40)}
MCQuantities == 0..200
MCReported   == {20}
MCPrices     == 0..20
=============================================================================
