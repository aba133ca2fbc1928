----------------------------- MODULE MCTrading ------------------------------
(* The engine and the exchange on the example market, for TLC.             *)
EXTENDS Trading, ExampleMarket

MCBalance    == [a \in MCAssets |-> CASE a = "A" -> 4 [] a = "B" -> 2 [] OTHER -> 0]
LeanBalance  == [a \in MCAssets |-> IF a = "A" THEN 4 ELSE 0]
OnePath      == {PathABC}
MCQuantities == {2}
MCReported   == {0, 2}
MCPrices     == {1, 2}
Better       == {1}
=============================================================================
