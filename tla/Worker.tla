------------------------------- MODULE Worker -------------------------------
(***************************************************************************)
(* The trading engine: src/src/Worker.cpp with the objects it owns         *)
(* (Balance, ReservedTrades, Execution, StaticTrade).                      *)
(*                                                                         *)
(* The engine is single threaded.  A price update may start one execution: *)
(* its symbols are reserved, its budget is taken from the tracked balance, *)
(* and one fill-or-kill order per trade is handed to the application.  An  *)
(* execution report settles (part of) an order.  When the last order of an *)
(* execution is settled its delta is booked and its symbols are released.  *)
(*                                                                         *)
(* The specification is open: a report with any content may arrive at any  *)
(* time, for any order id, any number of times.  What holds here holds     *)
(* whatever the exchange and the network do; module Harjus closes it.      *)
(***************************************************************************)
EXTENDS PreciseNumber, Sequences, FiniteSets, Functions

CONSTANTS
    Assets,          \* the currencies
    Symbols,         \* the markets
    BaseAsset,       \* Symbol::baseAsset,  [Symbols -> Assets]
    QuoteAsset,      \* Symbol::quoteAsset, [Symbols -> Assets]
    TradingPaths,    \* the cycles the mapper found: sequences of trades
    InitialBalance,  \* the balance read from the exchange at start
    Quantities,      \* order quantities that are explored
    Reported,        \* reported quantities that are explored
    Prices,          \* order prices that are explored
    FeeDeltas,       \* fee maps a report can carry, [Assets -> Int]
    MaxTrades,       \* length of the longest cycle the mapper looks for
    MaxExecutions    \* bound: how many executions are started

Positions == {"LONG", "SHORT"}
Trade     == [symbol : Symbols, position : Positions]

ASSUME MarketAssumption ==
    /\ BaseAsset \in [Symbols -> Assets]
    /\ QuoteAsset \in [Symbols -> Assets]

ASSUME PathsAssumption ==
    \A path \in TradingPaths :
        /\ path \in [1..Len(path) -> Trade]
        /\ Len(path) \in 1..MaxTrades
        /\ \A i, j \in DOMAIN path : path[i].symbol = path[j].symbol => i = j

ASSUME BalanceAssumption == InitialBalance \in [Assets -> Nat]

ASSUME NumbersAssumption ==
    /\ \A q \in Quantities : q \in Nat
    /\ \A q \in Reported : q \in Nat
    /\ \A p \in Prices : p \in Nat
    /\ \A fee \in FeeDeltas : fee \in [Assets -> Int]
    /\ MaxTrades \in Nat
    /\ MaxExecutions \in Nat

VARIABLES
    balance,             \* _balance: asset -> tracked amount (0: no entry)
    reserved,            \* _reservedTrades: symbols of live executions
    executionsMap,       \* _executionsMap: execution id -> (path, delta)
    executionIdMap,      \* _executionIdMap: order id -> (trade, execution id)
    pendingOrdersCount,  \* _pendingOrdersCount: execution id -> open orders
    failedExecutions,    \* _failedExecutions
    nextId               \* the next fresh id generateId() returns

ledger     == <<balance, reserved>>
books      == <<executionsMap, executionIdMap, pendingOrdersCount,
                failedExecutions, nextId>>
workerVars == <<ledger, books>>

-----------------------------------------------------------------------------
(* Trades, orders and reports.                                             *)

ExecutionIds == 1..MaxExecutions
OrderIds     == ExecutionIds \X (1..MaxTrades)
Statuses     == {"NEW", "FILLED", "EXPIRED", "REJECTED"}

StaticTrade == [symbol : Symbols, position : Positions,
                orderQty : Quantities, orderPrice : Prices]

Execution == [path : TradingPaths, delta : [Assets -> Int]]

Report == [id : OrderIds, status : Statuses, usedQty : Reported,
           recvQty : Reported, feeDelta : FeeDeltas]

usedCurrency(trade) == IF trade.position = "LONG" THEN QuoteAsset[trade.symbol]
                                                  ELSE BaseAsset[trade.symbol]
recvCurrency(trade) == IF trade.position = "LONG" THEN BaseAsset[trade.symbol]
                                                  ELSE QuoteAsset[trade.symbol]

usedQty(order) == IF order.position = "LONG"
                  THEN Times(order.orderQty, order.orderPrice)
                  ELSE order.orderQty
recvQty(order) == IF order.position = "LONG"
                  THEN order.orderQty
                  ELSE Times(order.orderQty, order.orderPrice)

SymbolsOf(path)     == {path[i].symbol : i \in DOMAIN path}
StartingAsset(path) == usedCurrency(path[1])

(* std::unordered_map: emplace of a fresh key, erase of a key.             *)
Emplace(map, key, value) ==
    [k \in DOMAIN map \cup {key} |-> IF k = key THEN value ELSE map[k]]
Erase(map, key) == Restrict(map, DOMAIN map \ {key})

(* Balance::updateBalance and the additions to a delta.                    *)
Added(map, more)             == [a \in Assets |-> map[a] + more[a]]
AddedAt(map, asset, amount)  == [map EXCEPT ![asset] = @ + amount]
-----------------------------------------------------------------------------
WorkerInit ==
    /\ balance = InitialBalance
    /\ reserved = {}
    /\ executionsMap = << >>
    /\ executionIdMap = << >>
    /\ pendingOrdersCount = << >>
    /\ failedExecutions = {}
    /\ nextId = 1

-----------------------------------------------------------------------------
(* Worker::processPriceUpdate.                                             *)
(*                                                                         *)
(* The quantities Opportunity::update computes depend on the prices of all *)
(* the symbols of a path.  Prices are not state here: which of the updated *)
(* symbol's paths is the most profitable one, and with which quantities,   *)
(* is any choice that satisfies what update() guarantees (each trade spends*)
(* at most what the one before it returns, the first at most the budget).  *)

Orders(path, qty, price) ==
    [i \in DOMAIN path |-> [symbol |-> path[i].symbol,
                            position |-> path[i].position,
                            orderQty |-> qty[i], orderPrice |-> price[i]]]

Profitable(orders, budget) ==
    /\ usedQty(orders[1]) <= budget
    /\ \A i \in 1..Len(orders)-1 : usedQty(orders[i+1]) <= recvQty(orders[i])
    /\ recvQty(orders[Len(orders)]) > usedQty(orders[1])

NewOrderIds(path) == {nextId} \X (1..Len(path))

(* Mutant: currencies are reserved in place of markets.                    *)
ReserveCurrencies(path, capacity) ==
    /\ reserved' = reserved \cup {StartingAsset(path)}
    /\ balance' = AddedAt(balance, StartingAsset(path), -capacity)

reserveBudgetAndSymbols(path, capacity) ==
    /\ reserved' = reserved \cup SymbolsOf(path)
    /\ balance' = AddedAt(balance, StartingAsset(path), -capacity)

(* Mutant: the delta does not give the reserved budget back.               *)
LaunchForgetsBudget(path, orders) ==
    /\ reserveBudgetAndSymbols(path, usedQty(orders[1]))
    /\ executionIdMap' =
          [o \in DOMAIN executionIdMap \cup NewOrderIds(path) |->
              IF o \in NewOrderIds(path)
              THEN [trade |-> orders[o[2]], executionId |-> nextId]
              ELSE executionIdMap[o]]
    /\ executionsMap' = Emplace(executionsMap, nextId,
          [path |-> path, delta |-> [a \in Assets |-> 0]])
    /\ pendingOrdersCount' = Emplace(pendingOrdersCount, nextId, Len(path))
    /\ nextId' = nextId + 1
    /\ UNCHANGED failedExecutions

Launch(path, orders) ==
    LET capacity == usedQty(orders[1])
        start    == StartingAsset(path)
        none     == [a \in Assets |-> 0]
    IN  /\ reserveBudgetAndSymbols(path, capacity)
        /\ executionIdMap' =
              [o \in DOMAIN executionIdMap \cup NewOrderIds(path) |->
                  IF o \in NewOrderIds(path)
                  THEN [trade |-> orders[o[2]], executionId |-> nextId]
                  ELSE executionIdMap[o]]
        /\ executionsMap' = Emplace(executionsMap, nextId,
              [path |-> path, delta |-> AddedAt(none, start, capacity)])
        /\ pendingOrdersCount' =
              Emplace(pendingOrdersCount, nextId, Len(path))
        /\ nextId' = nextId + 1
        /\ UNCHANGED failedExecutions

(* Mutant: reserved symbols are not looked at.                             *)
ExecuteReserved(symbol) ==
    /\ nextId \in ExecutionIds
    /\ \E path \in TradingPaths :
          /\ symbol \in SymbolsOf(path)
          /\ balance[StartingAsset(path)] > 0
          /\ \E qty \in [DOMAIN path -> Quantities],
                price \in [DOMAIN path -> Prices] :
               LET orders == Orders(path, qty, price)
               IN  /\ Profitable(orders, balance[StartingAsset(path)])
                   /\ Launch(path, orders)

(* The best opportunity on the updated symbol is executed.                 *)
ExecuteBest(symbol) ==
    /\ nextId \in ExecutionIds
    /\ \E path \in TradingPaths :
          /\ symbol \in SymbolsOf(path)
          /\ balance[StartingAsset(path)] > 0
          /\ SymbolsOf(path) \cap reserved = {}
          /\ \E qty \in [DOMAIN path -> Quantities],
                price \in [DOMAIN path -> Prices] :
               LET orders == Orders(path, qty, price)
               IN  /\ Profitable(orders, balance[StartingAsset(path)])
                   /\ Launch(path, orders)

(* No affected opportunity is profitable and free: nothing but prices.     *)
NoOpportunity(symbol) == UNCHANGED workerVars

processPriceUpdate(symbol) == ExecuteBest(symbol) \/ NoOpportunity(symbol)

-----------------------------------------------------------------------------
(* Worker::processReport.                                                  *)

ExecutionOf(id) == executionsMap[executionIdMap[id].executionId]

(* The execution has no open order left: its maps are cleaned up, its      *)
(* delta is booked and its symbols are freed.                              *)
FinishKeepsFailed(e, delta) ==     \* mutant: _failedExecutions keeps it
    /\ executionsMap' = Erase(executionsMap, e)
    /\ pendingOrdersCount' = Erase(pendingOrdersCount, e)
    /\ balance' = Added(balance, delta)
    /\ reserved' = reserved \ SymbolsOf(executionsMap[e].path)
    /\ UNCHANGED failedExecutions

Finish(e, delta) ==
    /\ executionsMap' = Erase(executionsMap, e)
    /\ pendingOrdersCount' = Erase(pendingOrdersCount, e)
    /\ failedExecutions' = failedExecutions \ {e}
    /\ balance' = Added(balance, delta)
    /\ reserved' = reserved \ SymbolsOf(executionsMap[e].path)

(* Orders of the execution are still open: its delta is stored.            *)
CarryOnReleasing(e, delta, failed) ==    \* mutant: symbols are freed already
    /\ executionsMap' = [executionsMap EXCEPT ![e].delta = delta]
    /\ pendingOrdersCount' = [pendingOrdersCount EXCEPT ![e] = @ - 1]
    /\ failedExecutions' = failedExecutions \cup failed
    /\ reserved' = reserved \ SymbolsOf(executionsMap[e].path)
    /\ UNCHANGED balance

CarryOn(e, delta, failed) ==
    /\ executionsMap' = [executionsMap EXCEPT ![e].delta = delta]
    /\ pendingOrdersCount' = [pendingOrdersCount EXCEPT ![e] = @ - 1]
    /\ failedExecutions' = failedExecutions \cup failed
    /\ UNCHANGED ledger

(* Mutant: the order stays in the id map, so a repeated report counts.     *)
SettleKeepsOrder(id, delta, failed) ==
    LET e == executionIdMap[id].executionId
    IN  /\ IF pendingOrdersCount[e] = 1 THEN Finish(e, delta)
                                        ELSE CarryOn(e, delta, failed)
        /\ UNCHANGED <<executionIdMap, nextId>>

(* Mutant: an execution is given up with its first failed order.           *)
SettleGivesUp(id, delta, failed) ==
    LET e == executionIdMap[id].executionId
    IN  IF pendingOrdersCount[e] = 1 \/ failed # {}
        THEN /\ executionIdMap' = Restrict(executionIdMap,
                   {o \in DOMAIN executionIdMap :
                       executionIdMap[o].executionId # e})
             /\ Finish(e, delta)
             /\ UNCHANGED nextId
        ELSE /\ executionIdMap' = Erase(executionIdMap, id)
             /\ CarryOn(e, delta, failed)
             /\ UNCHANGED nextId

(* The tail of processReport: the order is settled, and with the last one  *)
(* the execution.                                                          *)
Settle(id, delta, failed) ==
    LET e == executionIdMap[id].executionId
    IN  /\ executionIdMap' = Erase(executionIdMap, id)
        /\ IF pendingOrdersCount[e] = 1 THEN Finish(e, delta)
                                        ELSE CarryOn(e, delta, failed)
        /\ UNCHANGED nextId

(* An id that is not in the map: logged and dropped.                       *)
ReportUnknown(r) ==
    /\ r.id \notin DOMAIN executionIdMap
    /\ UNCHANGED workerVars

ReportNew(r) ==
    /\ r.id \in DOMAIN executionIdMap
    /\ r.status = "NEW"
    /\ UNCHANGED workerVars

ReportFailed(r) ==
    /\ r.id \in DOMAIN executionIdMap
    /\ r.status \in {"REJECTED", "EXPIRED"}
    /\ Settle(r.id, ExecutionOf(r.id).delta, {executionIdMap[r.id].executionId})

(* The quantity that says whether the order is complete.                   *)
compareQty(r) == IF executionIdMap[r.id].trade.position = "LONG"
                 THEN r.recvQty ELSE r.usedQty

(* The fees were added to a local copy of the delta only, which the early  *)
(* return discards.                                                        *)
ReportPartial(r) ==
    /\ r.id \in DOMAIN executionIdMap
    /\ r.status = "FILLED"
    /\ compareQty(r) < executionIdMap[r.id].trade.orderQty
    /\ UNCHANGED workerVars

(* Mutant: the fees of a fill are not booked.                              *)
FilledDeltaNoFees(r) ==
    LET trade == executionIdMap[r.id].trade
    IN  AddedAt(AddedAt(ExecutionOf(r.id).delta, usedCurrency(trade), -r.usedQty),
                recvCurrency(trade), r.recvQty)

FilledDelta(r) ==
    LET trade == executionIdMap[r.id].trade
        fees  == Added(ExecutionOf(r.id).delta, r.feeDelta)
    IN  AddedAt(AddedAt(fees, usedCurrency(trade), -r.usedQty),
                recvCurrency(trade), r.recvQty)

ReportFilled(r) ==
    /\ r.id \in DOMAIN executionIdMap
    /\ r.status = "FILLED"
    /\ compareQty(r) >= executionIdMap[r.id].trade.orderQty
    /\ Settle(r.id, FilledDelta(r), {})

processReport(r) ==
    \/ ReportUnknown(r)
    \/ ReportNew(r)
    \/ ReportFailed(r)
    \/ ReportPartial(r)
    \/ ReportFilled(r)

-----------------------------------------------------------------------------
WorkerNext ==
    \/ \E symbol \in Symbols : processPriceUpdate(symbol)
    \/ \E r \in Report : processReport(r)

WorkerSpec == WorkerInit /\ [][WorkerNext]_workerVars

-----------------------------------------------------------------------------
(* Properties.                                                             *)

OrdersOf(e) == {o \in DOMAIN executionIdMap :
                    executionIdMap[o].executionId = e}

(* Every map of the engine has the keys and values its declaration in      *)
(* src/include/Worker.h:63-71 gives it.                                    *)
TypeOK ==
    /\ balance \in [Assets -> Int]
    /\ reserved \in SUBSET Symbols
    /\ executionsMap \in [DOMAIN executionsMap -> Execution]
    /\ DOMAIN executionsMap \subseteq ExecutionIds
    /\ executionIdMap \in [DOMAIN executionIdMap ->
                              [trade : StaticTrade, executionId : ExecutionIds]]
    /\ DOMAIN executionIdMap \subseteq OrderIds
    /\ pendingOrdersCount \in [DOMAIN pendingOrdersCount -> Int]
    /\ failedExecutions \in SUBSET ExecutionIds
    /\ nextId \in 1..MaxExecutions + 1

(* The set of reserved symbols is exactly what the live executions need,   *)
(* and no two of them need the same one: releaseAll (Worker.cpp:286) never *)
(* frees a symbol that another execution still trades.                     *)
ReservationsExact ==
    /\ reserved = UNION {SymbolsOf(executionsMap[e].path) :
                            e \in DOMAIN executionsMap}
    /\ \A e, f \in DOMAIN executionsMap : e # f =>
          SymbolsOf(executionsMap[e].path)
            \cap SymbolsOf(executionsMap[f].path) = {}

(* _executionsMap.at(executionId) (Worker.cpp:180) never throws: an order  *)
(* in the id map belongs to a live execution; and a live execution always  *)
(* has a pending count, which _failedExecutions never outlives.            *)
LookupsSafe ==
    /\ \A o \in DOMAIN executionIdMap :
          executionIdMap[o].executionId \in DOMAIN executionsMap
    /\ DOMAIN pendingOrdersCount = DOMAIN executionsMap
    /\ failedExecutions \subseteq DOMAIN executionsMap

(* The pending count of an execution is the number of its orders that are  *)
(* still in the id map, and is positive: an execution is settled by the    *)
(* report that settles its last order, neither earlier nor never, however  *)
(* often reports of other or of already settled orders arrive.             *)
PendingExact ==
    \A e \in DOMAIN executionsMap :
        /\ pendingOrdersCount[e] = Cardinality(OrdersOf(e))
        /\ pendingOrdersCount[e] > 0

(* At most one order is open per market at any time (the point of          *)
(* ReservedTrades), and that market is reserved.                           *)
OneOpenOrderPerSymbol ==
    \A o \in DOMAIN executionIdMap :
        /\ executionIdMap[o].trade.symbol \in reserved
        /\ \A p \in DOMAIN executionIdMap :
              executionIdMap[o].trade.symbol = executionIdMap[p].trade.symbol
                => o = p

(* The engine implements the abstract lock manager: an execution holds its *)
(* path's symbols from its launch to its settlement.                       *)
Held == [e \in DOMAIN executionsMap |-> SymbolsOf(executionsMap[e].path)]
Bundles == {SymbolsOf(path) : path \in TradingPaths}

Locking == INSTANCE SymbolLocks WITH Holders <- ExecutionIds,
    Locks <- Symbols, held <- Held, used <- 1..nextId - 1

ImplementsLocks == Locking!LocksSpec
=============================================================================
