------------------------------ MODULE MCWorker ------------------------------
(* The open trading engine on the example market, for TLC.                 *)
EXTENDS Worker, ExampleMarket

MCBalance == [a \in MCAssets |-> CASE a = "A" -> 2 [] a = "B" -> 1 [] OTHER -> 0]
WorkerFees   == {NoFee, FeeIn("A")}
MCQuantities == {1}
MCReported   == {0, 1}
MCPrices     == {1, 2}
=============================================================================
