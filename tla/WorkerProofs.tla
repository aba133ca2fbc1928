---------------------------- MODULE WorkerProofs ----------------------------
(***************************************************************************)
(* Theorems about the trading engine of module Worker, for every market,   *)
(* every set of trading paths and every content and order of the reports.  *)
(***************************************************************************)
EXTENDS Worker, FiniteSetTheorems, TLAPS

(* What ties the ids to each other: order <<e, i>> is the i-th trade of    *)
(* execution e, and only ids that were handed out are in use.              *)
IdsStructured ==
    /\ \A e \in DOMAIN executionsMap : e < nextId
    /\ \A o \in DOMAIN executionIdMap :
          /\ executionIdMap[o].executionId = o[1]
          /\ o[1] \in DOMAIN executionsMap
          /\ o[2] \in DOMAIN executionsMap[o[1]].path
          /\ executionIdMap[o].trade.symbol
               = executionsMap[o[1]].path[o[2]].symbol

(* The inductive invariant.  None of its parts is inductive alone: a       *)
(* settlement reads all the maps through the ids.                          *)
IInv == /\ TypeOK
        /\ ReservationsExact
        /\ LookupsSafe
        /\ PendingExact
        /\ IdsStructured

-----------------------------------------------------------------------------
(* Facts about the operators.                                              *)

(* The currencies of a trade are assets.                                   *)
LEMMA CurrenciesAreAssets ==
    ASSUME NEW trade, trade.symbol \in Symbols
    PROVE  usedCurrency(trade) \in Assets /\ recvCurrency(trade) \in Assets
BY MarketAssumption DEF usedCurrency, recvCurrency

(* Adding an amount to one entry of a map, or a whole map, keeps its type. *)
LEMMA AdditionsAreMaps ==
    ASSUME NEW map \in [Assets -> Int]
    PROVE  /\ \A more \in [Assets -> Int] : Added(map, more) \in [Assets -> Int]
           /\ \A asset \in Assets, amount \in Int :
                AddedAt(map, asset, amount) \in [Assets -> Int]
BY DEF Added, AddedAt

(* A path's symbols are symbols, and its first trade spends an asset.      *)
LEMMA PathFacts ==
    ASSUME NEW path \in TradingPaths
    PROVE  /\ DOMAIN path = 1..Len(path)
           /\ Len(path) \in Nat /\ Len(path) >= 1 /\ Len(path) <= MaxTrades
           /\ \A i \in DOMAIN path : path[i] \in Trade
           /\ SymbolsOf(path) \subseteq Symbols
           /\ StartingAsset(path) \in Assets
           /\ \A i, j \in DOMAIN path : path[i].symbol = path[j].symbol => i = j
<1>1. /\ path \in [1..Len(path) -> Trade]
      /\ Len(path) \in 1..MaxTrades
      /\ \A i, j \in DOMAIN path : path[i].symbol = path[j].symbol => i = j
  BY PathsAssumption
<1>2. MaxTrades \in Nat
  BY NumbersAssumption
<1>3. /\ DOMAIN path = 1..Len(path)
      /\ Len(path) \in Nat /\ Len(path) >= 1 /\ Len(path) <= MaxTrades
      /\ \A i \in DOMAIN path : path[i] \in Trade
  BY <1>1, <1>2
<1>4. SymbolsOf(path) \subseteq Symbols
  BY <1>3 DEF SymbolsOf, Trade
<1>5. StartingAsset(path) \in Assets
  <2>1. path[1].symbol \in Symbols
    BY <1>3 DEF Trade
  <2> QED BY <2>1, CurrenciesAreAssets DEF StartingAsset
<1> QED BY <1>1, <1>3, <1>4, <1>5

(* The order ids are finite in number, so are those of one execution.      *)
LEMMA OrderIdsFinite ==
    /\ IsFiniteSet(OrderIds)
    /\ \A e : \A n \in Nat : /\ IsFiniteSet({e} \X (1..n))
                             /\ Cardinality({e} \X (1..n)) = n
<1>1. IsFiniteSet(ExecutionIds) /\ IsFiniteSet(1..MaxTrades)
  BY NumbersAssumption, FS_Interval DEF ExecutionIds
<1>2. IsFiniteSet(OrderIds)
  BY <1>1, FS_Product DEF OrderIds
<1>3. ASSUME NEW e, NEW n \in Nat
      PROVE  /\ IsFiniteSet({e} \X (1..n))
             /\ Cardinality({e} \X (1..n)) = n
  <2>1. IsFiniteSet({e}) /\ Cardinality({e}) = 1
    BY FS_Singleton
  <2>2. IsFiniteSet(1..n) /\ Cardinality(1..n) = n
    BY FS_Interval
  <2>3. /\ IsFiniteSet({e} \X (1..n))
        /\ Cardinality({e} \X (1..n)) = Cardinality({e}) * Cardinality(1..n)
    BY <2>1, <2>2, FS_Product, Zenon
  <2> QED BY <2>1, <2>2, <2>3, SMT
<1> QED BY <1>2, <1>3

-----------------------------------------------------------------------------
(* Launching an execution.                                                 *)

(* The orders built for a path are static trades on the path's symbols.    *)
LEMMA OrdersAreStaticTrades ==
    ASSUME NEW path \in TradingPaths,
           NEW qty \in [DOMAIN path -> Quantities],
           NEW price \in [DOMAIN path -> Prices]
    PROVE  /\ Orders(path, qty, price) \in [DOMAIN path -> StaticTrade]
           /\ \A i \in DOMAIN path :
                Orders(path, qty, price)[i].symbol = path[i].symbol
BY PathFacts DEF Orders, StaticTrade, Trade

(* The capacity of an execution is an integer.                             *)
LEMMA CapacityType ==
    ASSUME NEW order \in StaticTrade
    PROVE  usedQty(order) \in Int
<1>1. order.orderQty \in Int /\ order.orderPrice \in Int
  BY NumbersAssumption DEF StaticTrade
<1>2. Times(order.orderQty, order.orderPrice) \in Int
  <2>1. \A m, n \in Int : m * n \in Int
    OBVIOUS
  <2>2. \A n \in Int : Truncated(n, kPrecision) \in Int
    BY PrecisionAssumption DEF Truncated
  <2> QED BY <1>1, <2>1, <2>2 DEF Times
<1> QED BY <1>1, <1>2 DEF usedQty

(* processPriceUpdate preserves the inductive invariant when it launches   *)
(* an execution (Worker.cpp:126-159).                                      *)
LEMMA LaunchPreservesIInv ==
    ASSUME IInv, nextId \in ExecutionIds,
           NEW path \in TradingPaths,
           SymbolsOf(path) \cap reserved = {},
           NEW orders \in [DOMAIN path -> StaticTrade],
           \A i \in DOMAIN path : orders[i].symbol = path[i].symbol,
           Launch(path, orders)
    PROVE  IInv'
<1> DEFINE new   == NewOrderIds(path)
           cap   == usedQty(orders[1])
           none  == [a \in Assets |-> 0]
           exec  == [path |-> path,
                     delta |-> AddedAt(none, StartingAsset(path), cap)]
<1>p. /\ DOMAIN path = 1..Len(path)
      /\ Len(path) \in Nat /\ Len(path) >= 1 /\ Len(path) <= MaxTrades
      /\ SymbolsOf(path) \subseteq Symbols
      /\ StartingAsset(path) \in Assets
  BY PathFacts
<1>c. cap \in Int
  BY <1>p, CapacityType
<1>n. MaxExecutions \in Nat /\ MaxTrades \in Nat
  BY NumbersAssumption
<1>t. TypeOK /\ ReservationsExact /\ LookupsSafe /\ PendingExact /\ IdsStructured
  BY DEF IInv
<1>l. /\ reserved' = reserved \cup SymbolsOf(path)
      /\ balance' = AddedAt(balance, StartingAsset(path), -cap)
      /\ executionIdMap' = [o \in DOMAIN executionIdMap \cup new |->
                              IF o \in new
                              THEN [trade |-> orders[o[2]], executionId |-> nextId]
                              ELSE executionIdMap[o]]
      /\ executionsMap' = Emplace(executionsMap, nextId, exec)
      /\ pendingOrdersCount' = Emplace(pendingOrdersCount, nextId, Len(path))
      /\ nextId' = nextId + 1
      /\ failedExecutions' = failedExecutions
  BY DEF Launch, reserveBudgetAndSymbols
<1> HIDE DEF cap, exec
<1>e. /\ exec \in Execution
      /\ exec.path = path
  <2>1. none \in [Assets -> Int]
    OBVIOUS
  <2>2. AddedAt(none, StartingAsset(path), cap) \in [Assets -> Int]
    BY <2>1, <1>p, <1>c, AdditionsAreMaps
  <2> QED BY <2>2 DEF exec, Execution
<1>f. nextId \notin DOMAIN executionsMap
  BY <1>t, <1>n DEF IdsStructured, ExecutionIds, TypeOK
<1>m. /\ DOMAIN executionsMap' = DOMAIN executionsMap \cup {nextId}
      /\ executionsMap'[nextId] = exec
      /\ \A e \in DOMAIN executionsMap : executionsMap'[e] = executionsMap[e]
  BY <1>l, <1>f DEF Emplace
<1>k. /\ DOMAIN pendingOrdersCount' = DOMAIN pendingOrdersCount \cup {nextId}
      /\ pendingOrdersCount'[nextId] = Len(path)
      /\ \A e \in DOMAIN executionsMap :
           pendingOrdersCount'[e] = pendingOrdersCount[e]
  BY <1>l, <1>f, <1>t DEF Emplace, LookupsSafe
<1>i. /\ DOMAIN executionIdMap' = DOMAIN executionIdMap \cup new
      /\ \A o \in new : executionIdMap'[o] =
                         [trade |-> orders[o[2]], executionId |-> nextId]
      /\ \A o \in DOMAIN executionIdMap :
            o \notin new /\ executionIdMap'[o] = executionIdMap[o]
  <2>1. \A o \in DOMAIN executionIdMap : o[1] # nextId
    BY <1>t, <1>f DEF IdsStructured
  <2>2. \A o \in new : o[1] = nextId
    BY DEF NewOrderIds
  <2> QED BY <1>l, <2>1, <2>2
<1>w. \A o \in new : /\ o[1] = nextId
                     /\ o[2] \in 1..Len(path)
                     /\ o \in OrderIds
  BY <1>p, <1>n DEF NewOrderIds, OrderIds
<1>1. TypeOK'
  <2>1. balance' \in [Assets -> Int]
    <3>1. -cap \in Int
      BY <1>c
    <3> QED BY <3>1, <1>l, <1>p, <1>t, AdditionsAreMaps DEF TypeOK
  <2>2. reserved' \in SUBSET Symbols
    BY <1>l, <1>p, <1>t DEF TypeOK
  <2>3. /\ executionsMap' \in [DOMAIN executionsMap' -> Execution]
        /\ DOMAIN executionsMap' \subseteq ExecutionIds
    BY <1>l, <1>m, <1>e, <1>t DEF TypeOK, Emplace
  <2>4. /\ executionIdMap' \in [DOMAIN executionIdMap' ->
                  [trade : StaticTrade, executionId : ExecutionIds]]
        /\ DOMAIN executionIdMap' \subseteq OrderIds
    <3>1. \A o \in new : [trade |-> orders[o[2]], executionId |-> nextId]
                         \in [trade : StaticTrade, executionId : ExecutionIds]
      BY <1>w, <1>p
    <3>2. \A o \in DOMAIN executionIdMap : executionIdMap[o]
                         \in [trade : StaticTrade, executionId : ExecutionIds]
      BY <1>t DEF TypeOK
    <3>3. \A o \in DOMAIN executionIdMap' : executionIdMap'[o]
                         \in [trade : StaticTrade, executionId : ExecutionIds]
      BY <3>1, <3>2, <1>i
    <3> QED BY <3>3, <1>l, <1>i, <1>w, <1>t DEF TypeOK
  <2>5. pendingOrdersCount' \in [DOMAIN pendingOrdersCount' -> Int]
    BY <1>l, <1>p, <1>t DEF TypeOK, Emplace
  <2>6. /\ failedExecutions' \in SUBSET ExecutionIds
        /\ nextId' \in 1..MaxExecutions + 1
    BY <1>l, <1>n, <1>t DEF TypeOK, ExecutionIds
  <2> QED BY <2>1, <2>2, <2>3, <2>4, <2>5, <2>6 DEF TypeOK
<1>2. ReservationsExact'
  <2>1. \A e \in DOMAIN executionsMap :
          SymbolsOf(executionsMap[e].path) \subseteq reserved
    BY <1>t DEF ReservationsExact
  <2>2. \A e \in DOMAIN executionsMap' :
          SymbolsOf(executionsMap'[e].path) =
             IF e = nextId THEN SymbolsOf(path)
                           ELSE SymbolsOf(executionsMap[e].path)
    BY <1>m, <1>e, <1>f
  <2>3. reserved' = UNION {SymbolsOf(executionsMap'[e].path) :
                             e \in DOMAIN executionsMap'}
    BY <1>l, <1>m, <1>f, <2>2, <1>t DEF ReservationsExact
  <2>4. \A e, f \in DOMAIN executionsMap' : e # f =>
          SymbolsOf(executionsMap'[e].path)
            \cap SymbolsOf(executionsMap'[f].path) = {}
    BY <1>m, <1>f, <2>1, <2>2, <1>t DEF ReservationsExact
  <2> QED BY <2>3, <2>4 DEF ReservationsExact, SymbolsOf
<1>3. LookupsSafe'
  BY <1>l, <1>m, <1>k, <1>i, <1>t DEF LookupsSafe
<1>4. PendingExact'
  <2> SUFFICES ASSUME NEW e \in DOMAIN executionsMap'
               PROVE  /\ pendingOrdersCount'[e] = Cardinality(OrdersOf(e)')
                      /\ pendingOrdersCount'[e] > 0
    BY DEF PendingExact
  <2>1. CASE e = nextId
    <3>1. OrdersOf(e)' = new
      BY <2>1, <1>i, <1>t, <1>f DEF OrdersOf, IdsStructured
    <3>2. Cardinality(new) = Len(path)
      BY <1>p, OrderIdsFinite DEF NewOrderIds
    <3> QED BY <3>1, <3>2, <2>1, <1>k, <1>p
  <2>2. CASE e # nextId
    <3>1. e \in DOMAIN executionsMap
      BY <2>2, <1>m
    <3>2. OrdersOf(e)' = OrdersOf(e)
      BY <2>2, <1>i DEF OrdersOf
    <3> QED BY <3>1, <3>2, <1>k, <1>t DEF PendingExact
  <2> QED BY <2>1, <2>2
<1>5. IdsStructured'
  <2>1. \A e \in DOMAIN executionsMap' : e < nextId'
    BY <1>l, <1>m, <1>n, <1>t DEF IdsStructured, TypeOK, ExecutionIds
  <2>2. ASSUME NEW o \in DOMAIN executionIdMap'
        PROVE  /\ executionIdMap'[o].executionId = o[1]
               /\ o[1] \in DOMAIN executionsMap'
               /\ o[2] \in DOMAIN executionsMap'[o[1]].path
               /\ executionIdMap'[o].trade.symbol
                    = executionsMap'[o[1]].path[o[2]].symbol
    <3>1. CASE o \in new
      BY <3>1, <1>i, <1>w, <1>m, <1>e, <1>p
    <3>2. CASE o \in DOMAIN executionIdMap
      BY <3>2, <1>i, <1>m, <1>t DEF IdsStructured
    <3> QED BY <3>1, <3>2, <1>i
  <2> QED BY <2>1, <2>2 DEF IdsStructured
<1> QED BY <1>1, <1>2, <1>3, <1>4, <1>5 DEF IInv

-----------------------------------------------------------------------------
(* Settling an order.                                                      *)

(* processReport preserves the inductive invariant when it settles an      *)
(* order, whether or not it is the last one of its execution               *)
(* (Worker.cpp:258-287).                                                   *)
LEMMA SettlePreservesIInv ==
    ASSUME IInv,
           NEW id \in DOMAIN executionIdMap,
           NEW delta \in [Assets -> Int],
           NEW failed \in SUBSET {executionIdMap[id].executionId},
           Settle(id, delta, failed)
    PROVE  IInv'
<1> DEFINE x    == executionIdMap[id].executionId
           left == pendingOrdersCount[x] - 1
<1>t. TypeOK /\ ReservationsExact /\ LookupsSafe /\ PendingExact /\ IdsStructured
  BY DEF IInv
<1>x. /\ x \in DOMAIN executionsMap
      /\ x \in DOMAIN pendingOrdersCount
      /\ x \in ExecutionIds
      /\ left \in Int
  BY <1>t DEF LookupsSafe, TypeOK
<1>s. /\ executionIdMap' = Erase(executionIdMap, id)
      /\ nextId' = nextId
      /\ left = 0 =>
           /\ executionsMap' = Erase(executionsMap, x)
           /\ pendingOrdersCount' = Erase(pendingOrdersCount, x)
           /\ failedExecutions' = failedExecutions \ {x}
           /\ balance' = Added(balance, delta)
           /\ reserved' = reserved \ SymbolsOf(executionsMap[x].path)
      /\ left # 0 =>
           /\ executionsMap' = [executionsMap EXCEPT ![x].delta = delta]
           /\ pendingOrdersCount' = [pendingOrdersCount EXCEPT ![x] = left]
           /\ failedExecutions' = failedExecutions \cup failed
           /\ balance' = balance
           /\ reserved' = reserved
  BY <1>x DEF Settle, Finish, CarryOn, ledger
<1>i. /\ DOMAIN executionIdMap' = DOMAIN executionIdMap \ {id}
      /\ \A o \in DOMAIN executionIdMap' : executionIdMap'[o] = executionIdMap[o]
  BY <1>s DEF Erase, Restrict
<1>o. \A e : OrdersOf(e)' = OrdersOf(e) \ {id}
  BY <1>i DEF OrdersOf
<1>y. id \in OrdersOf(x)
  BY DEF OrdersOf
<1>z. \A e : /\ IsFiniteSet(OrdersOf(e))
             /\ Cardinality(OrdersOf(e)) \in Nat
             /\ Cardinality(OrdersOf(e)') =
                  IF e = x THEN Cardinality(OrdersOf(e)) - 1
                           ELSE Cardinality(OrdersOf(e))
  <2> TAKE e
  <2>1. IsFiniteSet(OrdersOf(e))
    <3>1. OrdersOf(e) \in SUBSET OrderIds
      BY <1>t DEF OrdersOf, TypeOK
    <3> QED BY <3>1, OrderIdsFinite, FS_Subset
  <2>2. Cardinality(OrdersOf(e)) \in Nat
    BY <2>1, FS_CardinalityType
  <2>3. id \in OrdersOf(e) <=> e = x
    BY DEF OrdersOf
  <2>4. Cardinality(OrdersOf(e) \ {id}) =
          IF id \in OrdersOf(e) THEN Cardinality(OrdersOf(e)) - 1
                                ELSE Cardinality(OrdersOf(e))
    BY <2>1, FS_RemoveElement
  <2> QED BY <2>1, <2>2, <2>3, <2>4, <1>o
<1>p. executionIdMap' \in [DOMAIN executionIdMap' ->
                            [trade : StaticTrade, executionId : ExecutionIds]]
  BY <1>s, <1>t DEF TypeOK, Erase, Restrict
<1>1. CASE left = 0
  <2>s. /\ executionsMap' = Erase(executionsMap, x)
        /\ pendingOrdersCount' = Erase(pendingOrdersCount, x)
        /\ failedExecutions' = failedExecutions \ {x}
        /\ balance' = Added(balance, delta)
        /\ reserved' = reserved \ SymbolsOf(executionsMap[x].path)
    BY <1>1, <1>s
  <2>m. /\ DOMAIN executionsMap' = DOMAIN executionsMap \ {x}
        /\ \A e \in DOMAIN executionsMap' : executionsMap'[e] = executionsMap[e]
        /\ DOMAIN pendingOrdersCount' = DOMAIN pendingOrdersCount \ {x}
        /\ \A e \in DOMAIN pendingOrdersCount' :
              pendingOrdersCount'[e] = pendingOrdersCount[e]
    BY <2>s DEF Erase, Restrict
  <2>e. OrdersOf(x) = {id}
    <3>1. Cardinality(OrdersOf(x)) = 1
      BY <1>1, <1>x, <1>t DEF PendingExact
    <3>f. IsFiniteSet(OrdersOf(x))
      BY <1>z
    <3>r. Cardinality(OrdersOf(x) \ {id}) =
            IF id \in OrdersOf(x) THEN Cardinality(OrdersOf(x)) - 1
                                  ELSE Cardinality(OrdersOf(x))
      BY <3>f, FS_RemoveElement
    <3>2. Cardinality(OrdersOf(x) \ {id}) = 0
      BY <3>1, <3>r, <1>y
    <3>3. IsFiniteSet(OrdersOf(x) \ {id})
      BY <3>f, FS_RemoveElement
    <3>4. OrdersOf(x) \ {id} = {}
      BY <3>2, <3>3, FS_EmptySet
    <3> QED BY <3>4, <1>y
  <2>g. \A o \in DOMAIN executionIdMap' : executionIdMap[o].executionId # x
    BY <2>e, <1>i DEF OrdersOf
  <2>1. TypeOK'
    <3>1. balance' \in [Assets -> Int]
      BY <2>s, <1>t, AdditionsAreMaps DEF TypeOK
    <3>2. /\ executionsMap' \in [DOMAIN executionsMap' -> Execution]
          /\ pendingOrdersCount' \in [DOMAIN pendingOrdersCount' -> Int]
      BY <2>s, <1>t DEF TypeOK, Erase, Restrict
    <3> QED BY <3>1, <3>2, <1>p, <1>i, <1>s, <2>s, <2>m, <1>t DEF TypeOK
  <2>2. ReservationsExact'
    <3>1. \A e \in DOMAIN executionsMap' :
            SymbolsOf(executionsMap'[e].path) = SymbolsOf(executionsMap[e].path)
      BY <2>m
    <3>2. reserved' = UNION {SymbolsOf(executionsMap'[e].path) :
                               e \in DOMAIN executionsMap'}
      BY <3>1, <2>s, <2>m, <1>x, <1>t DEF ReservationsExact
    <3>3. \A e, f \in DOMAIN executionsMap' : e # f =>
            SymbolsOf(executionsMap'[e].path)
              \cap SymbolsOf(executionsMap'[f].path) = {}
      BY <3>1, <2>m, <1>t DEF ReservationsExact
    <3> QED BY <3>2, <3>3 DEF ReservationsExact, SymbolsOf
  <2>3. LookupsSafe'
    BY <2>s, <2>m, <2>g, <1>i, <1>t DEF LookupsSafe
  <2>4. PendingExact'
    BY <2>m, <1>z, <1>t DEF PendingExact, LookupsSafe
  <2>5. IdsStructured'
    BY <2>m, <2>g, <1>i, <1>s, <1>t DEF IdsStructured
  <2> QED BY <2>1, <2>2, <2>3, <2>4, <2>5 DEF IInv
<1>2. CASE left # 0
  <2>s. /\ executionsMap' = [executionsMap EXCEPT ![x].delta = delta]
        /\ pendingOrdersCount' = [pendingOrdersCount EXCEPT ![x] = left]
        /\ failedExecutions' = failedExecutions \cup failed
        /\ balance' = balance
        /\ reserved' = reserved
    BY <1>2, <1>s
  <2>a. \A e \in DOMAIN executionsMap : executionsMap[e] \in Execution
    BY <1>t DEF TypeOK
  <2>m. /\ DOMAIN executionsMap' = DOMAIN executionsMap
        /\ \A e \in DOMAIN executionsMap :
              executionsMap'[e].path = executionsMap[e].path
        /\ executionsMap' \in [DOMAIN executionsMap' -> Execution]
        /\ DOMAIN pendingOrdersCount' = DOMAIN pendingOrdersCount
        /\ \A e \in DOMAIN pendingOrdersCount : pendingOrdersCount'[e] =
              IF e = x THEN left ELSE pendingOrdersCount[e]
    BY <2>s, <2>a, <1>t DEF Execution, TypeOK
  <2>1. TypeOK'
    BY <2>s, <2>m, <1>x, <1>p, <1>i, <1>s, <1>t DEF TypeOK
  <2>2. ReservationsExact'
    <3>1. \A e \in DOMAIN executionsMap' :
            SymbolsOf(executionsMap'[e].path) = SymbolsOf(executionsMap[e].path)
      BY <2>m
    <3>2. reserved' = UNION {SymbolsOf(executionsMap'[e].path) :
                               e \in DOMAIN executionsMap'}
      BY <3>1, <2>s, <2>m, <1>t DEF ReservationsExact
    <3>3. \A e, f \in DOMAIN executionsMap' : e # f =>
            SymbolsOf(executionsMap'[e].path)
              \cap SymbolsOf(executionsMap'[f].path) = {}
      BY <3>1, <2>m, <1>t DEF ReservationsExact
    <3> QED BY <3>2, <3>3 DEF ReservationsExact, SymbolsOf
  <2>3. LookupsSafe'
    BY <2>s, <2>m, <1>i, <1>x, <1>t DEF LookupsSafe
  <2>4. PendingExact'
    <3> SUFFICES ASSUME NEW e \in DOMAIN executionsMap'
                 PROVE  /\ pendingOrdersCount'[e] = Cardinality(OrdersOf(e)')
                        /\ pendingOrdersCount'[e] > 0
      BY DEF PendingExact
    <3>1. /\ e \in DOMAIN executionsMap
          /\ e \in DOMAIN pendingOrdersCount
          /\ pendingOrdersCount[e] = Cardinality(OrdersOf(e))
          /\ pendingOrdersCount[e] > 0
      BY <2>m, <1>t DEF PendingExact, LookupsSafe
    <3> QED BY <3>1, <2>m, <1>z, <1>2
  <2>5. IdsStructured'
    BY <2>m, <1>i, <1>s, <1>t DEF IdsStructured
  <2> QED BY <2>1, <2>2, <2>3, <2>4, <2>5 DEF IInv
<1> QED BY <1>1, <1>2

-----------------------------------------------------------------------------
(* Every step of the engine.                                               *)

(* The amounts of a report are integers, whatever its id and status.       *)
Numeric(r) == /\ r.usedQty \in Int /\ r.recvQty \in Int
              /\ r.feeDelta \in [Assets -> Int]

(* The reports of the open specification are of this kind.                 *)
LEMMA ReportsAreNumeric == \A r \in Report : Numeric(r)
BY NumbersAssumption DEF Report, Numeric

(* The delta a filled report leaves behind is a map of integers.           *)
LEMMA FilledDeltaType ==
    ASSUME IInv, NEW r, Numeric(r), r.id \in DOMAIN executionIdMap
    PROVE  /\ ExecutionOf(r.id).delta \in [Assets -> Int]
           /\ FilledDelta(r) \in [Assets -> Int]
<1> DEFINE trade == executionIdMap[r.id].trade
<1>1. ExecutionOf(r.id).delta \in [Assets -> Int]
  BY DEF IInv, TypeOK, LookupsSafe, ExecutionOf, Execution
<1>2. /\ usedCurrency(trade) \in Assets
      /\ recvCurrency(trade) \in Assets
  <2>1. trade.symbol \in Symbols
    BY DEF IInv, TypeOK, StaticTrade
  <2> QED BY <2>1, CurrenciesAreAssets
<1>3. /\ r.feeDelta \in [Assets -> Int]
      /\ -r.usedQty \in Int /\ r.recvQty \in Int
  BY DEF Numeric
<1>4. Added(ExecutionOf(r.id).delta, r.feeDelta) \in [Assets -> Int]
  BY <1>1, <1>3, AdditionsAreMaps
<1>5. AddedAt(Added(ExecutionOf(r.id).delta, r.feeDelta),
              usedCurrency(trade), -r.usedQty) \in [Assets -> Int]
  BY <1>2, <1>3, <1>4, AdditionsAreMaps
<1>6. FilledDelta(r) \in [Assets -> Int]
  BY <1>2, <1>3, <1>5, AdditionsAreMaps DEF FilledDelta
<1> QED BY <1>1, <1>6

(* A report changes nothing or settles one order.                          *)
LEMMA ReportSettles ==
    ASSUME IInv, NEW r, Numeric(r), processReport(r)
    PROVE  \/ UNCHANGED workerVars
           \/ /\ r.id \in DOMAIN executionIdMap
              /\ \E delta \in [Assets -> Int] :
                   \E failed \in SUBSET {executionIdMap[r.id].executionId} :
                      Settle(r.id, delta, failed)
<1>1. CASE ReportUnknown(r) \/ ReportNew(r) \/ ReportPartial(r)
  BY <1>1 DEF ReportUnknown, ReportNew, ReportPartial
<1>2. CASE ReportFailed(r)
  BY <1>2, FilledDeltaType DEF ReportFailed
<1>3. CASE ReportFilled(r)
  BY <1>3, FilledDeltaType DEF ReportFilled
<1> QED BY <1>1, <1>2, <1>3 DEF processReport

(* A price update changes nothing or launches one execution on symbols     *)
(* that are all free.                                                      *)
LEMMA PriceUpdateLaunches ==
    ASSUME IInv, NEW symbol \in Symbols, processPriceUpdate(symbol)
    PROVE  \/ UNCHANGED workerVars
           \/ /\ nextId \in ExecutionIds
              /\ \E path \in TradingPaths :
                   /\ SymbolsOf(path) \cap reserved = {}
                   /\ \E orders \in [DOMAIN path -> StaticTrade] :
                        /\ \A i \in DOMAIN path : orders[i].symbol = path[i].symbol
                        /\ Launch(path, orders)
<1>1. CASE NoOpportunity(symbol)
  BY <1>1 DEF NoOpportunity
<1>2. CASE ExecuteBest(symbol)
  <2>1. PICK path \in TradingPaths :
          /\ SymbolsOf(path) \cap reserved = {}
          /\ \E qty \in [DOMAIN path -> Quantities],
                price \in [DOMAIN path -> Prices] :
                   Launch(path, Orders(path, qty, price))
    BY <1>2 DEF ExecuteBest
  <2>2. PICK qty \in [DOMAIN path -> Quantities],
             price \in [DOMAIN path -> Prices] :
                Launch(path, Orders(path, qty, price))
    BY <2>1
  <2>3. /\ Orders(path, qty, price) \in [DOMAIN path -> StaticTrade]
        /\ \A i \in DOMAIN path :
             Orders(path, qty, price)[i].symbol = path[i].symbol
    BY OrdersAreStaticTrades
  <2> QED BY <1>2, <2>1, <2>2, <2>3 DEF ExecuteBest
<1> QED BY <1>1, <1>2 DEF processPriceUpdate

(* The invariant holds at start.                                           *)
LEMMA InitIInv == WorkerInit => IInv
<1> SUFFICES ASSUME WorkerInit PROVE IInv
  OBVIOUS
<1>1. /\ DOMAIN executionsMap = {} /\ DOMAIN executionIdMap = {}
      /\ DOMAIN pendingOrdersCount = {}
  BY DEF WorkerInit
<1>2. TypeOK
  <2>1. balance \in [Assets -> Int]
    BY BalanceAssumption DEF WorkerInit
  <2>2. /\ executionsMap \in [DOMAIN executionsMap -> Execution]
        /\ executionIdMap \in [DOMAIN executionIdMap ->
                  [trade : StaticTrade, executionId : ExecutionIds]]
        /\ pendingOrdersCount \in [DOMAIN pendingOrdersCount -> Int]
    BY DEF WorkerInit
  <2> QED BY <2>1, <2>2, <1>1, NumbersAssumption DEF WorkerInit, TypeOK
<1>3. ReservationsExact
  BY <1>1 DEF WorkerInit, ReservationsExact
<1>4. LookupsSafe /\ PendingExact /\ IdsStructured
  BY <1>1 DEF WorkerInit, LookupsSafe, PendingExact, IdsStructured
<1> QED BY <1>2, <1>3, <1>4 DEF IInv

(* Steps that leave the engine alone preserve the invariant.               *)
LEMMA StutterIInv == IInv /\ UNCHANGED workerVars => IInv'
<1> SUFFICES ASSUME IInv, UNCHANGED workerVars PROVE IInv'
  OBVIOUS
<1>1. /\ balance' = balance /\ reserved' = reserved
      /\ executionsMap' = executionsMap /\ executionIdMap' = executionIdMap
      /\ pendingOrdersCount' = pendingOrdersCount
      /\ failedExecutions' = failedExecutions /\ nextId' = nextId
  BY DEF workerVars, ledger, books
<1>2. TypeOK' /\ LookupsSafe' /\ IdsStructured'
  BY <1>1 DEF IInv, TypeOK, LookupsSafe, IdsStructured
<1>3. ReservationsExact'
  <2>1. /\ reserved' = UNION {SymbolsOf(executionsMap'[e].path) :
                                e \in DOMAIN executionsMap'}
        /\ \A e, f \in DOMAIN executionsMap' : e # f =>
             SymbolsOf(executionsMap'[e].path)
               \cap SymbolsOf(executionsMap'[f].path) = {}
    BY <1>1 DEF IInv, ReservationsExact
  <2> QED BY <2>1 DEF ReservationsExact, SymbolsOf
<1>4. PendingExact'
  BY <1>1 DEF IInv, PendingExact, OrdersOf
<1> QED BY <1>2, <1>3, <1>4 DEF IInv

(* Every step preserves the inductive invariant.                           *)
LEMMA NextIInv == IInv /\ [WorkerNext]_workerVars => IInv'
<1> SUFFICES ASSUME IInv, [WorkerNext]_workerVars PROVE IInv'
  OBVIOUS
<1>1. ASSUME NEW symbol \in Symbols, processPriceUpdate(symbol) PROVE IInv'
  <2>1. CASE UNCHANGED workerVars
    BY <2>1, StutterIInv
  <2>2. CASE ~ UNCHANGED workerVars
    <3>1. nextId \in ExecutionIds
      BY <1>1, <2>2, PriceUpdateLaunches
    <3>2. PICK path \in TradingPaths :
            /\ SymbolsOf(path) \cap reserved = {}
            /\ \E orders \in [DOMAIN path -> StaticTrade] :
                 /\ \A i \in DOMAIN path : orders[i].symbol = path[i].symbol
                 /\ Launch(path, orders)
      BY <1>1, <2>2, PriceUpdateLaunches
    <3> QED BY <3>1, <3>2, LaunchPreservesIInv
  <2> QED BY <2>1, <2>2
<1>2. ASSUME NEW r \in Report, processReport(r) PROVE IInv'
  BY <1>2, ReportsAreNumeric, ReportSettles, SettlePreservesIInv, StutterIInv
<1>3. CASE UNCHANGED workerVars
  BY <1>3, StutterIInv
<1> QED BY <1>1, <1>2, <1>3 DEF WorkerNext

(* The engine keeps the inductive invariant, whatever reports arrive.      *)
THEOREM WorkerInvariant == WorkerSpec => []IInv
BY InitIInv, NextIInv, PTL DEF WorkerSpec

(* In a state of the invariant an open order has its market for itself,    *)
(* and that market is reserved.                                            *)
LEMMA OpenOrdersApart == IInv => OneOpenOrderPerSymbol
<1> SUFFICES ASSUME IInv, NEW o \in DOMAIN executionIdMap
             PROVE  /\ executionIdMap[o].trade.symbol \in reserved
                    /\ \A p \in DOMAIN executionIdMap :
                         executionIdMap[o].trade.symbol
                           = executionIdMap[p].trade.symbol => o = p
  BY DEF OneOpenOrderPerSymbol
<1>1. \A p \in DOMAIN executionIdMap :
        /\ p[1] \in DOMAIN executionsMap
        /\ p[2] \in DOMAIN executionsMap[p[1]].path
        /\ executionIdMap[p].trade.symbol
             = executionsMap[p[1]].path[p[2]].symbol
        /\ executionIdMap[p].trade.symbol
             \in SymbolsOf(executionsMap[p[1]].path)
  BY DEF IInv, IdsStructured, SymbolsOf
<1>2. executionIdMap[o].trade.symbol \in reserved
  BY <1>1 DEF IInv, ReservationsExact
<1>3. ASSUME NEW p \in DOMAIN executionIdMap,
             executionIdMap[o].trade.symbol = executionIdMap[p].trade.symbol
      PROVE  o = p
  <2>1. p[1] = o[1]
    BY <1>1, <1>3 DEF IInv, ReservationsExact
  <2>2. executionsMap[o[1]].path \in TradingPaths
    BY <1>1 DEF IInv, TypeOK, Execution
  <2>3. p[2] = o[2]
    BY <1>1, <1>3, <2>1, <2>2, PathFacts
  <2>4. o \in OrderIds /\ p \in OrderIds
    BY DEF IInv, TypeOK
  <2> QED BY <2>1, <2>3, <2>4 DEF OrderIds
<1> QED BY <1>2, <1>3

-----------------------------------------------------------------------------
(* The results.                                                            *)

(* Every map keeps its declared keys and values.                           *)
THEOREM WorkerTypeOK == WorkerSpec => []TypeOK
<1>1. IInv => TypeOK
  BY DEF IInv
<1> QED BY <1>1, WorkerInvariant, PTL

(* The reserved symbols are exactly those of the live executions, which    *)
(* never share one.                                                        *)
THEOREM WorkerReservationsExact == WorkerSpec => []ReservationsExact
<1>1. IInv => ReservationsExact
  BY DEF IInv
<1> QED BY <1>1, WorkerInvariant, PTL

(* No lookup of processReport throws.                                      *)
THEOREM WorkerLookupsSafe == WorkerSpec => []LookupsSafe
<1>1. IInv => LookupsSafe
  BY DEF IInv
<1> QED BY <1>1, WorkerInvariant, PTL

(* The pending count is the number of open orders and is never zero.       *)
THEOREM WorkerPendingExact == WorkerSpec => []PendingExact
<1>1. IInv => PendingExact
  BY DEF IInv
<1> QED BY <1>1, WorkerInvariant, PTL

(* Two open orders are never on the same market.                           *)
THEOREM WorkerOneOpenOrderPerSymbol == WorkerSpec => []OneOpenOrderPerSymbol
BY OpenOrdersApart, WorkerInvariant, PTL

(* The engine implements the abstract lock manager.                        *)
THEOREM WorkerImplementsLocks == WorkerSpec => ImplementsLocks
<1>1. WorkerInit => Locking!LocksInit
  <2> SUFFICES ASSUME WorkerInit PROVE Held = << >> /\ 1..nextId - 1 = {}
    BY DEF Locking!LocksInit
  <2>1. DOMAIN executionsMap = {}
    BY DEF WorkerInit
  <2>2. Held = << >>
    BY <2>1 DEF Held
  <2>3. 1..nextId - 1 = {}
    BY DEF WorkerInit
  <2> QED BY <2>2, <2>3
<1>2. IInv /\ [WorkerNext]_workerVars
        => [Locking!LocksNext]_(Locking!lockVars)
  <2> SUFFICES ASSUME IInv, [WorkerNext]_workerVars
               PROVE  \/ \E h \in ExecutionIds, bundle \in Bundles :
                              Locking!Acquire(h, bundle)
                      \/ \E h \in ExecutionIds : Locking!Release(h)
                      \/ Held' = Held /\ (1..nextId - 1)' = 1..nextId - 1
    BY DEF Locking!LocksNext, Locking!lockVars
  <2>1. CASE UNCHANGED workerVars
    <3>1. executionsMap' = executionsMap /\ nextId' = nextId
      BY <2>1 DEF workerVars, books
    <3> QED BY <3>1 DEF Held
  <2>2. ASSUME nextId \in ExecutionIds,
               NEW path \in TradingPaths, SymbolsOf(path) \cap reserved = {},
               NEW orders, Launch(path, orders)
        PROVE  Locking!Acquire(nextId, SymbolsOf(path))
    <3>1. \A g \in DOMAIN executionsMap : g < nextId
      BY DEF IInv, IdsStructured
    <3>2. /\ nextId' = nextId + 1 /\ nextId \in Nat /\ nextId >= 1
          /\ nextId \notin DOMAIN executionsMap
      BY <2>2, <3>1, NumbersAssumption DEF Launch, ExecutionIds
    <3>3. \A g \in DOMAIN Held : Held[g] \cap SymbolsOf(path) = {}
      BY <2>2 DEF Held, IInv, ReservationsExact
    <3>4. /\ DOMAIN executionsMap' = DOMAIN executionsMap \cup {nextId}
          /\ executionsMap'[nextId].path = path
          /\ \A g \in DOMAIN executionsMap : executionsMap'[g] = executionsMap[g]
      BY <2>2, <3>2 DEF Launch, Emplace
    <3>5. Held' = [g \in DOMAIN executionsMap' |-> SymbolsOf(executionsMap'[g].path)]
      BY DEF Held, SymbolsOf
    <3>6. Held' = [g \in DOMAIN Held \cup {nextId} |->
                     IF g = nextId THEN SymbolsOf(path) ELSE Held[g]]
      BY <3>2, <3>4, <3>5 DEF Held
    <3>7. /\ nextId \in ExecutionIds \ (1..nextId - 1)
          /\ (1..nextId - 1)' = (1..nextId - 1) \cup {nextId}
      BY <2>2, <3>2
    <3> QED BY <3>3, <3>6, <3>7 DEF Locking!Acquire
  <2>3. ASSUME NEW id \in DOMAIN executionIdMap, NEW delta, NEW failed,
               Settle(id, delta, failed)
        PROVE  \/ \E h \in ExecutionIds : Locking!Release(h)
               \/ Held' = Held /\ (1..nextId - 1)' = 1..nextId - 1
    <3> DEFINE x == executionIdMap[id].executionId
    <3>1. /\ x \in DOMAIN executionsMap /\ x \in ExecutionIds
          /\ nextId' = nextId
      BY <2>3 DEF IInv, LookupsSafe, TypeOK, Settle
    <3>c. pendingOrdersCount[x] \in Int
      BY <3>1 DEF IInv, LookupsSafe, TypeOK
    <3>2. Held' = [g \in DOMAIN executionsMap' |-> SymbolsOf(executionsMap'[g].path)]
      BY DEF Held, SymbolsOf
    <3>3. CASE pendingOrdersCount[x] - 1 = 0
      <4>1. /\ DOMAIN executionsMap' = DOMAIN executionsMap \ {x}
            /\ \A g \in DOMAIN executionsMap' : executionsMap'[g] = executionsMap[g]
        BY <2>3, <3>3, <3>c DEF Settle, Finish, Erase, Restrict
      <4>2. Held' = [g \in DOMAIN Held \ {x} |-> Held[g]]
        BY <3>2, <4>1 DEF Held
      <4>3. x \in DOMAIN Held
        BY <3>1 DEF Held
      <4> QED BY <3>1, <4>2, <4>3 DEF Locking!Release
    <3>4. CASE pendingOrdersCount[x] - 1 # 0
      <4>1. executionsMap' = [executionsMap EXCEPT ![x].delta = delta]
        BY <2>3, <3>4, <3>c DEF Settle, CarryOn
      <4>2. /\ DOMAIN executionsMap' = DOMAIN executionsMap
            /\ \A g \in DOMAIN executionsMap :
                 executionsMap'[g].path = executionsMap[g].path
        BY <4>1 DEF IInv, TypeOK, Execution
      <4>3. Held' = Held
        BY <3>2, <4>2 DEF Held
      <4> QED BY <3>1, <4>3
    <3> QED BY <3>3, <3>4
  <2>4. CASE \E symbol \in Symbols : processPriceUpdate(symbol)
    BY <2>1, <2>2, <2>4, PriceUpdateLaunches DEF Bundles
  <2>5. CASE \E r \in Report : processReport(r)
    BY <2>1, <2>3, <2>5, ReportsAreNumeric, ReportSettles
  <2> QED BY <2>1, <2>4, <2>5 DEF WorkerNext
<1> QED BY <1>1, <1>2, WorkerInvariant, PTL
        DEF WorkerSpec, ImplementsLocks, Locking!LocksSpec
=============================================================================
