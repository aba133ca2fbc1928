------------------------------ MODULE Pricing -------------------------------
(***************************************************************************)
(* The trading engine with prices: what module Worker leaves open, which   *)
(* opportunity is executed and with which quantities, is computed here as  *)
(* in src/src/Opportunity.cpp and src/src/Trade.cpp.                       *)
(*                                                                         *)
(* The order quantities and the profit an Opportunity keeps are not state  *)
(* of the model: update() computes both anew before they are read.         *)
(***************************************************************************)
EXTENDS Worker

CONSTANTS
    Quotes,              \* the best bids and asks that are explored
    baseAssetIncrement,  \* Symbol::baseAssetIncrement, the step of a quantity
    minNotional,         \* Symbol::minNotional, the least value of an order
    commission,          \* the commission per trade
    relativeValue        \* asset -> its value in Bitcoin

ASSUME QuotesAssumption ==
    /\ Quotes \subseteq [bidPrice : Nat, bidQty : Nat,
                         askPrice : Nat, askQty : Nat]
    /\ baseAssetIncrement \in [Symbols -> Nat]
    /\ minNotional \in [Symbols -> Nat]
    /\ commission \in Nat
    /\ relativeValue \in [Assets -> Nat]

VARIABLE quote           \* the bid and ask of every Symbol object

pricingVars == <<workerVars, quote>>

(* No price has been received yet: the members of Symbol are zero.         *)
NoQuote == [bidPrice |-> 0, bidQty |-> 0, askPrice |-> 0, askQty |-> 0]

PricingInit ==
    /\ WorkerInit
    /\ quote = [s \in Symbols |-> NoQuote]

-----------------------------------------------------------------------------
(* Trade, at the quotes m.                                                 *)

isLong(trade)        == trade.position = "LONG"
orderPrice(m, trade) == IF isLong(trade) THEN m[trade.symbol].askPrice
                                         ELSE m[trade.symbol].bidPrice
offerQty(m, trade)   == IF isLong(trade) THEN m[trade.symbol].askQty
                                         ELSE m[trade.symbol].bidQty

(* The trade frozen with a quantity.                                       *)
Order(m, trade, qty) ==
    [symbol |-> trade.symbol, position |-> trade.position,
     orderQty |-> qty, orderPrice |-> orderPrice(m, trade)]

(* Mutant: the quantity is not checked against minNotional.                *)
recalculateAnyValue(m, trade, budget) ==
    LET affordable == IF isLong(trade) THEN Over(budget, orderPrice(m, trade))
                                       ELSE budget
        stepped    == affordable
                        - Remainder(affordable, baseAssetIncrement[trade.symbol])
    IN  Smaller(stepped, offerQty(m, trade))

(* Mutant: the budget of a LONG trade is not divided by the price.         *)
recalculateInBudgetUnits(m, trade, budget) ==
    LET stepped == budget - Remainder(budget, baseAssetIncrement[trade.symbol])
        most    == Smaller(stepped, offerQty(m, trade))
    IN  IF Times(most, orderPrice(m, trade)) < minNotional[trade.symbol]
        THEN 0 ELSE most

recalculateOrderQty(m, trade, budget) ==
    LET affordable == IF isLong(trade) THEN Over(budget, orderPrice(m, trade))
                                       ELSE budget
        stepped    == affordable
                        - Remainder(affordable, baseAssetIncrement[trade.symbol])
        most       == Smaller(stepped, offerQty(m, trade))
    IN  IF Times(most, orderPrice(m, trade)) < minNotional[trade.symbol]
        THEN 0 ELSE most

-----------------------------------------------------------------------------
(* Opportunity::update.                                                    *)

(* What a quantity becomes by a trade, capped by the offer.  usedQty() of  *)
(* a LONG trade is a quote quantity already, and is multiplied by the      *)
(* price again.                                                            *)
AfterTrade(m, trade, acc) ==
    LET price == orderPrice(m, trade)
        offer == usedQty(Order(m, trade, offerQty(m, trade)))
    IN  IF isLong(trade) THEN Over(Smaller(acc, Times(offer, price)), price)
                         ELSE Times(Smaller(acc, offer), price)

(* Early return: a LONG trade without a price.                             *)
calculateMaxQtyAfterTrades(m, path, budget) ==
    LET acc[i \in 0..Len(path)] ==
            IF i = 0 THEN budget ELSE AfterTrade(m, path[i], acc[i-1])
    IN  IF \E i \in DOMAIN path : isLong(path[i]) /\ orderPrice(m, path[i]) = 0
        THEN 0 ELSE acc[Len(path)]

(* What a trade has to be given to return a quantity.                      *)
BeforeTrade(m, trade, acc) ==
    IF isLong(trade) THEN Times(acc, orderPrice(m, trade))
                     ELSE Over(acc, orderPrice(m, trade))

(* Early return: a SHORT trade without a price.                            *)
calculateStartingAssetQty(m, path, qty) ==
    LET acc[i \in 1..Len(path) + 1] ==
            IF i = Len(path) + 1 THEN qty
            ELSE BeforeTrade(m, path[i], acc[i+1])
    IN  IF \E i \in DOMAIN path : ~isLong(path[i]) /\ orderPrice(m, path[i]) = 0
        THEN 0 ELSE acc[1]

(* The orders of an opportunity, each trade with the proceeds of the one   *)
(* before it.                                                              *)
UpdatedOrders(m, path, budget) ==
    LET capacity == calculateStartingAssetQty(m, path,
                        calculateMaxQtyAfterTrades(m, path, budget))
        order[i \in DOMAIN path] ==
            LET given == IF i = 1 THEN capacity ELSE recvQty(order[i-1])
            IN  Order(m, path[i], recalculateOrderQty(m, path[i], given))
    IN  [i \in DOMAIN path |-> order[i]]

totalProfit(path, orders) ==
    LET kept == kPrecision - Times(commission, Len(path) * kPrecision)
        gain == Times(recvQty(orders[Len(path)]), kept) - usedQty(orders[1])
    IN  Times(gain, relativeValue[StartingAsset(path)])

-----------------------------------------------------------------------------
(* Worker::processPriceUpdate.                                             *)

(* The loop over the opportunities of the symbol: those that may be        *)
(* executed, with their orders and profit.                                 *)
Candidates(m, symbol) ==
    LET affected == {path \in TradingPaths :
                        /\ symbol \in SymbolsOf(path)
                        /\ balance[StartingAsset(path)] > 0}
        updated  == {[path |-> path, orders |->
                        UpdatedOrders(m, path, balance[StartingAsset(path)])] :
                        path \in affected}
    IN  {c \in updated : /\ totalProfit(c.path, c.orders) > 0
                         /\ SymbolsOf(c.path) \cap reserved = {}}

(* The candidates of the greatest profit; equal ones are ordered by the    *)
(* hash map, that is, in any way.                                          *)
Best(candidates) ==
    {c \in candidates : \A d \in candidates :
        totalProfit(c.path, c.orders) >= totalProfit(d.path, d.orders)}

PricedUpdate(symbol, q) ==
    /\ quote' = [quote EXCEPT ![symbol] = q]
    /\ LET candidates == Candidates(quote', symbol)
       IN  \/ candidates = {} /\ UNCHANGED workerVars
           \/ /\ nextId \in ExecutionIds
              /\ \E best \in Best(candidates) : Launch(best.path, best.orders)

PricingNext ==
    \/ \E symbol \in Symbols, q \in Quotes : PricedUpdate(symbol, q)
    \/ \E r \in Report : processReport(r) /\ UNCHANGED quote

PricingSpec == PricingInit /\ [][PricingNext]_pricingVars

-----------------------------------------------------------------------------
(* Properties.                                                             *)

LaunchFunded ==
    nextId' # nextId =>
        LET path   == executionsMap'[nextId].path
            orders == [i \in DOMAIN path |->
                          executionIdMap'[<<nextId, i>>].trade]
        IN  Profitable(orders, balance[StartingAsset(path)])

Acceptable(m, order) ==
    /\ order.orderQty \in 1..offerQty(m, order)
    /\ Remainder(order.orderQty, baseAssetIncrement[order.symbol]) = 0
    /\ Times(order.orderQty, order.orderPrice) >= minNotional[order.symbol]

LaunchAcceptable ==
    nextId' # nextId =>
        \A o \in DOMAIN executionIdMap' \ DOMAIN executionIdMap :
            Acceptable(quote', executionIdMap'[o].trade)

(* What the orders of a launched execution rely on (Worker!ExecuteBest):   *)
(* the first spends at most the balance, every other one at most the       *)
(* proceeds of the one before it, and the cycle gains, whichever quotes    *)
(* are known, missing or out of date and however often the quantities were *)
(* rounded.                                                                *)
OrdersFunded == [][LaunchFunded]_pricingVars

(* An order that is sent asks for no more than is offered, in whole steps, *)
(* and is worth minNotional (Trade.cpp:34, 41): the exchange does not      *)
(* refuse it for its size.                                                 *)
OrdersAcceptable == [][LaunchAcceptable]_pricingVars

=============================================================================
