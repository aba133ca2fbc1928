------------------------------ MODULE Trading -------------------------------
(***************************************************************************)
(* The trading engine and the exchange, without the threads and queues     *)
(* between them: every order reaches the exchange, every report reaches    *)
(* the engine, reports of different orders in any order.  This is where    *)
(* the engine's books are compared with the true account.                  *)
(***************************************************************************)
EXTENDS Worker

CONSTANTS
    FinalFees,       \* fee maps of the reports that complete an order
    PartialFees,     \* fee maps of the reports that do not
    Improvements     \* by how much a fill can be better than its limit

ASSUME FillsAssumption ==
    /\ FinalFees \subseteq FeeDeltas /\ PartialFees \subseteq FeeDeltas
    /\ \A n \in Improvements : n \in Nat

VARIABLES
    toExchange,      \* orders the exchange has not decided yet: [id, trade]
    wire,            \* order id -> its reports still to arrive
    account,         \* the true balance
    outcome          \* history: order id -> what the exchange decided

exchangeVars == <<toExchange, wire, account, outcome>>
tradingVars  == <<workerVars, exchangeVars>>

ExchangeInit ==
    /\ toExchange = << >>
    /\ wire = << >>
    /\ account = InitialBalance
    /\ outcome = << >>

TradingInit == WorkerInit /\ ExchangeInit

-----------------------------------------------------------------------------
(* The exchange (external).  A fill-or-kill order is decided at once: it   *)
(* is rejected when the account cannot pay for it, expires, or is filled   *)
(* completely, in one trade or in two.  Reports of one order arrive in     *)
(* order; reports of different orders interleave freely.                   *)

NoFees == [a \in Assets |-> 0]

Message(id, status, used, recv, fees) ==
    [id |-> id, status |-> status, usedQty |-> used, recvQty |-> recv,
     feeDelta |-> fees]

(* The two quantities (used, received) of a complete fill: at the limit    *)
(* price or better.                                                        *)
Fill(trade, better) ==
    IF trade.position = "LONG"
    THEN [used |-> usedQty(trade) - better, recv |-> recvQty(trade)]
    ELSE [used |-> usedQty(trade), recv |-> recvQty(trade) + better]

(* The order at the head of the line is decided.                           *)
Decide(verdict, reports, change) ==
    LET id == Head(toExchange).id
    IN  /\ toExchange' = Tail(toExchange)
        /\ wire' = Emplace(wire, id, reports)
        /\ outcome' = Emplace(outcome, id, verdict)
        /\ account' = Added(account, change)
        /\ UNCHANGED workerVars

Affordable(trade) == account[usedCurrency(trade)] >= usedQty(trade)

ExchangeRejects ==
    /\ toExchange # << >>
    /\ LET order == Head(toExchange)
       IN  /\ ~Affordable(order.trade)
           /\ Decide("rejected",
                     <<Message(order.id, "REJECTED", 0, 0, NoFees)>>, NoFees)

ExchangeExpires ==
    /\ toExchange # << >>
    /\ LET order == Head(toExchange)
       IN  /\ Affordable(order.trade)
           /\ Decide("expired", <<Message(order.id, "NEW", 0, 0, NoFees),
                                  Message(order.id, "EXPIRED", 0, 0, NoFees)>>,
                     NoFees)

(* A fill in one trade, or in two when the quantity can be divided: the    *)
(* quantities of a report are cumulative, its fees are those of its trade. *)
ExchangeFills ==
    /\ toExchange # << >>
    /\ LET id    == Head(toExchange).id
           trade == Head(toExchange).trade
           new   == Message(id, "NEW", 0, 0, NoFees)
       IN  /\ Affordable(trade)
           /\ \E better \in Improvements, fee \in FinalFees :
                LET full  == Fill(trade, better)
                    moved == AddedAt(AddedAt(fee, usedCurrency(trade), -full.used),
                                     recvCurrency(trade), full.recv)
                    last  == Message(id, "FILLED", full.used, full.recv, fee)
                IN  \/ Decide("filled", <<new, last>>, moved)
                    \/ \E fee1 \in PartialFees :
                         /\ trade.orderQty > 1
                         /\ Decide("filled",
                              <<new, Message(id, "FILLED", full.used \div 2,
                                             full.recv \div 2, fee1), last>>,
                              Added(moved, fee1))

ExchangeStep == ExchangeRejects \/ ExchangeExpires \/ ExchangeFills

-----------------------------------------------------------------------------
(* The engine, connected directly.                                         *)

(* The orders of the execution that was launched in this step, in order.   *)
LaunchedOrders ==
    IF nextId' = nextId THEN << >>
    ELSE [i \in 1..pendingOrdersCount'[nextId] |->
             [id |-> <<nextId, i>>, trade |-> executionIdMap'[<<nextId, i>>].trade]]

PriceUpdate(symbol) ==
    /\ processPriceUpdate(symbol)
    /\ toExchange' = toExchange \o LaunchedOrders
    /\ UNCHANGED <<wire, account, outcome>>

(* The next report of an order leaves the wire.                            *)
TakeReport(id) ==
    wire' = IF Len(wire[id]) = 1 THEN Erase(wire, id)
            ELSE [wire EXCEPT ![id] = Tail(@)]

ReportArrives(id) ==
    /\ id \in DOMAIN wire
    /\ processReport(Head(wire[id]))
    /\ TakeReport(id)
    /\ UNCHANGED <<toExchange, account, outcome>>

TradingNext ==
    \/ \E symbol \in Symbols : PriceUpdate(symbol)
    \/ \E id \in OrderIds : ReportArrives(id)
    \/ ExchangeStep

TradingSpec == TradingInit /\ [][TradingNext]_tradingVars

-----------------------------------------------------------------------------
(* Properties.                                                             *)

(* What the last report of an order on the wire still has to bring in.     *)
InTransit(id, asset) ==
    LET r     == wire[id][Len(wire[id])]
        trade == executionIdMap[id].trade
    IN  IF r.status # "FILLED" THEN 0
        ELSE r.feeDelta[asset]
             + (IF asset = recvCurrency(trade) THEN r.recvQty ELSE 0)
             - (IF asset = usedCurrency(trade) THEN r.usedQty ELSE 0)

(* Nothing is counted twice and nothing is forgotten: at every moment the  *)
(* true account is the tracked balance, plus the deltas of the live        *)
(* executions (which hold the reserved budget), plus the fills the         *)
(* exchange has made and the engine has not booked yet.                    *)
BooksBalance ==
    \A a \in Assets : account[a] = balance[a]
        + SumFunction([e \in DOMAIN executionsMap |-> executionsMap[e].delta[a]])
        + SumFunction([id \in DOMAIN wire |-> InTransit(id, a)])

(* When no execution is live the tracked balance is the true one           *)
(* (Worker.h:5-7, "keeping track of balance").                             *)
BalanceTracksAccount == DOMAIN executionsMap = {} => balance = account

(* Worker.cpp:196 of a rejected order: "should happen only after expired   *)
(* order".  An order is refused for lack of funds only when an earlier     *)
(* order of its execution expired and left it unfunded.                    *)
RejectedOnlyAfterExpired ==
    \A id \in DOMAIN outcome : outcome[id] = "rejected" =>
        \E i \in 1..id[2]-1 : outcome[<<id[1], i>>] = "expired"
=============================================================================
