--------------------------- MODULE TradingProofs ----------------------------
(***************************************************************************)
(* The books of the trading engine balance, for every market, every set of *)
(* trading paths, every fill and every order of arrival of the reports.    *)
(***************************************************************************)
EXTENDS Trading, WorkerProofs, SumProofs

(* What the engine has on its books of an asset: the tracked amount and    *)
(* the deltas of the live executions, which hold the reserved budgets.     *)
Deltas(a) == [e \in DOMAIN executionsMap |-> executionsMap[e].delta[a]]
Booked(a) == balance[a] + SumFunction(Deltas(a))

-----------------------------------------------------------------------------
(* How the steps of the engine move its books.                             *)

(* The terms of a book are integers and finite in number.                  *)
LEMMA BooksType ==
    ASSUME IInv, NEW a \in Assets
    PROVE  /\ IsFiniteSet(DOMAIN executionsMap)
           /\ Deltas(a) \in [DOMAIN executionsMap -> Int]
           /\ balance[a] \in Int
           /\ SumFunction(Deltas(a)) \in Int
           /\ Booked(a) \in Int
<1>1. IsFiniteSet(DOMAIN executionsMap)
  <2>1. IsFiniteSet(ExecutionIds)
    BY NumbersAssumption, FS_Interval DEF ExecutionIds
  <2> QED BY <2>1, FS_Subset DEF IInv, TypeOK
<1>2. Deltas(a) \in [DOMAIN executionsMap -> Int]
  BY DEF IInv, TypeOK, Execution, Deltas
<1>3. balance[a] \in Int
  BY DEF IInv, TypeOK
<1>4. SumFunction(Deltas(a)) \in Int
  BY <1>1, <1>2, SumType
<1> QED BY <1>1, <1>2, <1>3, <1>4 DEF Booked

(* Launching an execution moves its budget from the balance to its delta   *)
(* (Worker.cpp:138-157): the books are what they were.                     *)
LEMMA LaunchKeepsBooks ==
    ASSUME IInv, IInv', nextId \in ExecutionIds,
           NEW path \in TradingPaths,
           NEW orders \in [DOMAIN path -> StaticTrade],
           Launch(path, orders), NEW a \in Assets
    PROVE  Booked(a)' = Booked(a)
<1> DEFINE cap  == usedQty(orders[1])
           none == [b \in Assets |-> 0]
           start == StartingAsset(path)
           part == IF a = start THEN cap ELSE 0
<1>1. cap \in Int /\ start \in Assets
  BY PathFacts, CapacityType
<1>2. /\ balance' = AddedAt(balance, start, -cap)
      /\ executionsMap' = Emplace(executionsMap, nextId,
                             [path |-> path, delta |-> AddedAt(none, start, cap)])
  BY DEF Launch, reserveBudgetAndSymbols
<1> HIDE DEF cap, start
<1>3. balance'[a] = balance[a] - part
  <2>1. balance \in [Assets -> Int]
    BY DEF IInv, TypeOK
  <2> QED BY <1>1, <1>2, <2>1 DEF AddedAt
<1>4. AddedAt(none, start, cap)[a] = part
  BY <1>1 DEF AddedAt
<1>5. nextId \notin DOMAIN executionsMap
  BY NumbersAssumption DEF IInv, TypeOK, IdsStructured, ExecutionIds
<1>6. /\ Deltas(a)' = [e \in DOMAIN executionsMap' |-> executionsMap'[e].delta[a]]
      /\ DOMAIN executionsMap' = DOMAIN executionsMap \cup {nextId}
      /\ Deltas(a)'[nextId] = part
      /\ \A e \in DOMAIN executionsMap : Deltas(a)'[e] = Deltas(a)[e]
  BY <1>2, <1>4, <1>5 DEF Deltas, Emplace
<1>7. Deltas(a)' \in [DOMAIN executionsMap \cup {nextId} -> Int]
  BY <1>6, BooksType DEF IInv, TypeOK, Execution, Deltas
<1>8. SumFunction(Deltas(a)') = SumFunction(Deltas(a)) + part
  <2> DEFINE f == Deltas(a)
             g == Deltas(a)'
             S == DOMAIN executionsMap
  <2>1. /\ IsFiniteSet(S) /\ f \in [S -> Int] /\ g \in [S \cup {nextId} -> Int]
        /\ nextId \notin S /\ g[nextId] = part /\ \A e \in S : g[e] = f[e]
    BY <1>5, <1>6, <1>7, BooksType
  <2> HIDE DEF f, g, S
  <2>2. SumFunction(g) = SumFunction(f) + part
    BY <2>1, SumAdd
  <2> QED BY <2>2 DEF f, g
<1>9. /\ balance[a] \in Int /\ SumFunction(Deltas(a)) \in Int /\ part \in Int
  BY <1>1, BooksType
<1>10. Booked(a)' = (balance[a] - part) + (SumFunction(Deltas(a)) + part)
  BY <1>3, <1>8 DEF Booked
<1> QED BY <1>9, <1>10 DEF Booked

(* Settling an order with a new delta moves the books by the difference    *)
(* between the new delta and the old one, whether the delta stays with the *)
(* execution or is booked with its last order (Worker.cpp:258-287).        *)
LEMMA SettleMovesBooks ==
    ASSUME IInv, NEW id \in DOMAIN executionIdMap,
           NEW delta \in [Assets -> Int],
           NEW failed \in SUBSET {executionIdMap[id].executionId},
           Settle(id, delta, failed), NEW a \in Assets
    PROVE  Booked(a)' = Booked(a) + delta[a] - ExecutionOf(id).delta[a]
<1> DEFINE ex     == executionIdMap[id].executionId
           before == Deltas(a)
           after  == Deltas(a)'
           S      == DOMAIN executionsMap
           old    == ExecutionOf(id).delta[a]
<1>1. /\ ex \in S /\ pendingOrdersCount[ex] \in Int
      /\ executionsMap \in [S -> Execution]
      /\ balance \in [Assets -> Int]
  BY DEF IInv, TypeOK, LookupsSafe
<1>2. before[ex] = old /\ delta[a] \in Int /\ old \in Int
  BY <1>1 DEF Deltas, ExecutionOf, Execution
<1>3. after = [e \in DOMAIN executionsMap' |-> executionsMap'[e].delta[a]]
  BY DEF Deltas
<1>t. /\ IsFiniteSet(S) /\ before \in [S -> Int]
      /\ balance[a] \in Int /\ SumFunction(before) \in Int
  BY BooksType
<1>4. CASE pendingOrdersCount[ex] = 1
  <2>1. /\ executionsMap' = Erase(executionsMap, ex)
        /\ balance' = Added(balance, delta)
    BY <1>4 DEF Settle, Finish
  <2>2. balance'[a] = balance[a] + delta[a]
    BY <2>1 DEF Added
  <2>3. /\ DOMAIN executionsMap' = S \ {ex}
        /\ \A e \in S \ {ex} : executionsMap'[e] = executionsMap[e]
    BY <2>1 DEF Erase, Restrict
  <2> DEFINE T == S \ {ex}
  <2>4. after \in [T -> Int] /\ \A e \in T : after[e] = before[e]
    BY <1>t, <1>3, <2>3 DEF Deltas
  <2>b. /\ Booked(a)' = balance'[a] + SumFunction(after)
        /\ Booked(a) = balance[a] + SumFunction(before)
    BY DEF Booked
  <2>c. IsFiniteSet(T)
    BY <1>t, FS_RemoveElement
  <2>d. ex \notin T /\ S = T \cup {ex}
    BY <1>1
  <2> HIDE DEF before, after, S, T, old, ex
  <2>5. SumFunction(before) = SumFunction(after) + before[ex]
    <3>1. before \in [T \cup {ex} -> Int] /\ \A e \in T : before[e] = after[e]
      BY <1>t, <2>4, <2>d
    <3>2. ex \notin T /\ after \in [T -> Int]
      BY <2>d, <2>4
    <3>3. ASSUME NEW k \in [T \cup {ex} -> Int], \A e \in T : k[e] = after[e]
          PROVE  SumFunction(k) = SumFunction(after) + k[ex]
      BY <2>c, <3>2, <3>3, SumAdd
    <3> QED BY <3>1, <3>3
  <2>6. SumFunction(after) \in Int
    BY <2>4, <2>c, SumType
  <2> QED BY <1>2, <1>t, <2>2, <2>5, <2>6, <2>b DEF old
<1>5. CASE pendingOrdersCount[ex] # 1
  <2>1. /\ executionsMap' = [executionsMap EXCEPT ![ex].delta = delta]
        /\ balance' = balance
    BY <1>5 DEF Settle, CarryOn, ledger
  <2>2. /\ DOMAIN executionsMap' = S
        /\ executionsMap'[ex].delta = delta
        /\ \A e \in S \ {ex} : executionsMap'[e] = executionsMap[e]
    BY <1>1, <2>1 DEF Execution
  <2>3. /\ after \in [S -> Int] /\ after[ex] = delta[a]
        /\ \A e \in S \ {ex} : after[e] = before[e]
    BY <1>1, <1>2, <1>t, <1>3, <2>2 DEF Deltas
  <2>b. /\ Booked(a)' = balance'[a] + SumFunction(after)
        /\ Booked(a) = balance[a] + SumFunction(before)
    BY DEF Booked
  <2> HIDE DEF before, after, S, old, ex
  <2>4. SumFunction(after) = SumFunction(before) - before[ex] + after[ex]
    BY <1>1, <1>t, <2>3, SumChange
  <2> QED BY <1>2, <1>t, <2>1, <2>3, <2>4, <2>b DEF old
<1> QED BY <1>4, <1>5

-----------------------------------------------------------------------------
(* Orders on their way and reports on their way back.                      *)

Order == [id : OrderIds, trade : StaticTrade]
Msg   == [id : OrderIds, status : Statuses \cup {"OTHER"},
          usedQty : Int, recvQty : Int, feeDelta : [Assets -> Int]]

(* The ids of a queue of orders, each of which is in it once and is for    *)
(* the trade the engine has in its id map.                                 *)
Ids(q)          == {q[i].id : i \in 1..Len(q)}
Unique(q)       == \A i, j \in 1..Len(q) : q[i].id = q[j].id => i = j
Tracks(q, map)  == \A i \in 1..Len(q) : /\ q[i].id \in DOMAIN map
                                        /\ q[i].trade = map[q[i].id].trade
OrderQueue(q)   == q \in Seq(Order) /\ Unique(q)

(* Taking the first order out of a queue.                                  *)
LEMMA TailOfQueue ==
    ASSUME NEW q, OrderQueue(q), q # << >>
    PROVE  /\ OrderQueue(Tail(q))
           /\ Head(q) \in Order /\ Head(q).id \in Ids(q)
           /\ Ids(Tail(q)) = Ids(q) \ {Head(q).id}
           /\ \A map : Tracks(q, map) =>
                 /\ Tracks(Tail(q), map)
                 /\ Head(q).id \in DOMAIN map
                 /\ Head(q).trade = map[Head(q).id].trade
<1>1. /\ q \in Seq(Order) /\ Len(q) \in Nat /\ Len(q) >= 1
      /\ Head(q) = q[1] /\ q[1] \in Order
      /\ Tail(q) \in Seq(Order) /\ Len(Tail(q)) = Len(q) - 1
      /\ \A i \in 1..Len(q) - 1 : Tail(q)[i] = q[i + 1]
  BY DEF OrderQueue
<1>2. \A i \in 1..Len(q) - 1 : i + 1 \in 1..Len(q) /\ i + 1 # 1
  BY <1>1
<1>3. Unique(Tail(q))
  BY <1>1, <1>2 DEF OrderQueue, Unique
<1>4. Head(q).id \in Ids(q)
  BY <1>1 DEF Ids
<1>5. Ids(Tail(q)) \subseteq Ids(q) \ {Head(q).id}
  <2> SUFFICES ASSUME NEW i \in 1..Len(q) - 1
               PROVE  Tail(q)[i].id \in Ids(q) \ {Head(q).id}
    BY <1>1 DEF Ids
  <2>1. Tail(q)[i] = q[i + 1] /\ i + 1 \in 1..Len(q) /\ i + 1 # 1 /\ 1 \in 1..Len(q)
    BY <1>1, <1>2
  <2>2. q[i + 1].id # q[1].id
    BY <2>1 DEF OrderQueue, Unique
  <2> QED BY <1>1, <2>1, <2>2 DEF Ids
<1>6. Ids(q) \ {Head(q).id} \subseteq Ids(Tail(q))
  <2> SUFFICES ASSUME NEW i \in 1..Len(q), q[i].id # Head(q).id
               PROVE  q[i].id \in Ids(Tail(q))
    BY DEF Ids
  <2>1. i - 1 \in 1..Len(q) - 1 /\ (i - 1) + 1 = i
    BY <1>1
  <2>2. Tail(q)[i - 1] = q[i]
    BY <1>1, <2>1
  <2> QED BY <1>1, <2>1, <2>2 DEF Ids
<1>7. ASSUME NEW map, Tracks(q, map)
      PROVE  /\ Tracks(Tail(q), map)
             /\ Head(q).id \in DOMAIN map
             /\ Head(q).trade = map[Head(q).id].trade
  BY <1>1, <1>2, <1>7 DEF Tracks
<1> QED BY <1>1, <1>3, <1>4, <1>5, <1>6, <1>7 DEF OrderQueue

(* Putting an order at the end of a queue it is not in.                    *)
LEMMA AppendToQueue ==
    ASSUME NEW q, OrderQueue(q), NEW x \in Order, x.id \notin Ids(q)
    PROVE  /\ OrderQueue(Append(q, x))
           /\ Ids(Append(q, x)) = Ids(q) \cup {x.id}
           /\ \A map : Tracks(q, map) /\ x.id \in DOMAIN map
                         /\ x.trade = map[x.id].trade
                       => Tracks(Append(q, x), map)
<1>1. /\ q \in Seq(Order) /\ Len(q) \in Nat
      /\ Append(q, x) \in Seq(Order) /\ Len(Append(q, x)) = Len(q) + 1
      /\ Append(q, x)[Len(q) + 1] = x
      /\ \A i \in 1..Len(q) : Append(q, x)[i] = q[i]
  BY DEF OrderQueue
<1>2. \A i \in 1..Len(q) + 1 : i \in 1..Len(q) \/ i = Len(q) + 1
  BY <1>1
<1>3. \A i \in 1..Len(q) : q[i].id # x.id
  BY DEF Ids
<1>4. Unique(Append(q, x))
  BY <1>1, <1>2, <1>3 DEF OrderQueue, Unique
<1>5. Ids(Append(q, x)) = Ids(q) \cup {x.id}
  <2>1. ASSUME NEW i \in 1..Len(q) + 1
        PROVE  Append(q, x)[i].id \in Ids(q) \cup {x.id}
    BY <1>1, <1>2 DEF Ids
  <2>2. ASSUME NEW i \in 1..Len(q) PROVE q[i].id \in Ids(Append(q, x))
    <3>1. i \in 1..Len(q) + 1 /\ Append(q, x)[i] = q[i]
      BY <1>1
    <3> QED BY <1>1, <3>1 DEF Ids
  <2>3. x.id \in Ids(Append(q, x))
    <3>1. Len(q) + 1 \in 1..Len(q) + 1
      BY <1>1
    <3> QED BY <1>1, <3>1 DEF Ids
  <2>4. Ids(Append(q, x)) \subseteq Ids(q) \cup {x.id}
    BY <1>1, <2>1 DEF Ids
  <2>5. Ids(q) \subseteq Ids(Append(q, x))
    BY <2>2 DEF Ids
  <2> QED BY <2>3, <2>4, <2>5
<1>6. ASSUME NEW map, Tracks(q, map), x.id \in DOMAIN map,
             x.trade = map[x.id].trade
      PROVE  Tracks(Append(q, x), map)
  BY <1>1, <1>2, <1>6 DEF Tracks
<1> QED BY <1>1, <1>4, <1>5, <1>6 DEF OrderQueue

(* Putting a queue of other orders behind a queue.                         *)
LEMMA ConcatQueues ==
    ASSUME NEW q, OrderQueue(q), NEW p, OrderQueue(p), Ids(q) \cap Ids(p) = {}
    PROVE  /\ OrderQueue(q \o p)
           /\ Ids(q \o p) = Ids(q) \cup Ids(p)
           /\ \A map : Tracks(q, map) /\ Tracks(p, map) => Tracks(q \o p, map)
<1>1. /\ q \in Seq(Order) /\ Len(q) \in Nat
      /\ p \in Seq(Order) /\ Len(p) \in Nat
      /\ q \o p \in Seq(Order) /\ Len(q \o p) = Len(q) + Len(p)
  BY DEF OrderQueue
<1>2. \A i \in 1..Len(q) + Len(p) :
         \/ i \in 1..Len(q) /\ (q \o p)[i] = q[i]
         \/ i - Len(q) \in 1..Len(p) /\ (q \o p)[i] = p[i - Len(q)]
  BY <1>1
<1>3. /\ \A i \in 1..Len(q) : i \in 1..Len(q \o p) /\ (q \o p)[i] = q[i]
      /\ \A i \in 1..Len(p) : /\ Len(q) + i \in 1..Len(q \o p)
                              /\ (q \o p)[Len(q) + i] = p[i]
  BY <1>1
<1>4. \A i \in 1..Len(q), j \in 1..Len(p) : q[i].id # p[j].id
  BY DEF Ids
<1>5. Unique(q \o p)
  <2> SUFFICES ASSUME NEW i \in 1..Len(q) + Len(p), NEW j \in 1..Len(q) + Len(p),
                      (q \o p)[i].id = (q \o p)[j].id
               PROVE  i = j
    BY <1>1 DEF Unique
  <2>1. CASE i \in 1..Len(q) /\ (q \o p)[i] = q[i]
    BY <1>2, <1>4, <2>1 DEF OrderQueue, Unique
  <2>2. CASE i - Len(q) \in 1..Len(p) /\ (q \o p)[i] = p[i - Len(q)]
    <3>1. j - Len(q) \in 1..Len(p) /\ (q \o p)[j] = p[j - Len(q)]
      BY <1>2, <1>4, <2>2
    <3>2. i - Len(q) = j - Len(q)
      BY <2>2, <3>1 DEF OrderQueue, Unique
    <3> QED BY <1>1, <3>2
  <2> QED BY <1>2, <2>1, <2>2
<1>6. Ids(q \o p) \subseteq Ids(q) \cup Ids(p)
  BY <1>1, <1>2 DEF Ids
<1>7. Ids(q) \subseteq Ids(q \o p) /\ Ids(p) \subseteq Ids(q \o p)
  <2>1. \A i \in 1..Len(q) : q[i].id \in Ids(q \o p)
    BY <1>3 DEF Ids
  <2>2. \A i \in 1..Len(p) : p[i].id \in Ids(q \o p)
    BY <1>3 DEF Ids
  <2> QED BY <2>1, <2>2 DEF Ids
<1>8. ASSUME NEW map, Tracks(q, map), Tracks(p, map) PROVE Tracks(q \o p, map)
  BY <1>1, <1>2, <1>8 DEF Tracks
<1> QED BY <1>1, <1>5, <1>6, <1>7, <1>8 DEF OrderQueue

(* A report that completes a fill, one that is the last of its order, and  *)
(* one after which another will come.                                      *)
Completes(r, trade) ==
    /\ r.status = "FILLED"
    /\ trade.orderQty <= IF trade.position = "LONG" THEN r.recvQty ELSE r.usedQty
LastReport(r, trade) ==
    r.status \in {"REJECTED", "EXPIRED", "OTHER"} \/ Completes(r, trade)
EarlierReport(r, trade) ==
    r.status = "NEW" \/ (r.status = "FILLED" /\ ~Completes(r, trade))

(* What a last report brings in of an asset.                               *)
Effect(r, trade, a) ==
    IF r.status # "FILLED" THEN 0
    ELSE r.feeDelta[a] + (IF a = recvCurrency(trade) THEN r.recvQty ELSE 0)
                       - (IF a = usedCurrency(trade) THEN r.usedQty ELSE 0)

(* The reports of one order that are still to arrive.                      *)
Chain(w, id, trade) ==
    /\ w \in Seq(Msg) /\ w # << >>
    /\ \A k \in 1..Len(w) :
          /\ w[k].id = id
          /\ k < Len(w) => EarlierReport(w[k], trade)
          /\ k = Len(w) => LastReport(w[k], trade)

(* The first report of a chain, and what is left without it.               *)
LEMMA FirstOfChain ==
    ASSUME NEW w, NEW id, NEW trade, Chain(w, id, trade)
    PROVE  /\ Head(w) \in Msg /\ Head(w).id = id /\ Numeric(Head(w))
           /\ w[Len(w)] \in Msg /\ LastReport(w[Len(w)], trade)
           /\ Len(w) = 1 => Head(w) = w[Len(w)]
           /\ Len(w) # 1 => /\ EarlierReport(Head(w), trade)
                            /\ Chain(Tail(w), id, trade)
                            /\ Tail(w)[Len(Tail(w))] = w[Len(w)]
<1>1. /\ w \in Seq(Msg) /\ Len(w) \in Nat /\ Len(w) >= 1
      /\ Head(w) = w[1] /\ w[1] \in Msg /\ w[Len(w)] \in Msg
      /\ 1 \in 1..Len(w) /\ Len(w) \in 1..Len(w)
      /\ Tail(w) \in Seq(Msg) /\ Len(Tail(w)) = Len(w) - 1
      /\ \A k \in 1..Len(w) - 1 : Tail(w)[k] = w[k + 1]
  BY DEF Chain
<1>2. Numeric(Head(w)) /\ Head(w).id = id /\ LastReport(w[Len(w)], trade)
  BY <1>1 DEF Chain, Numeric, Msg
<1>3. ASSUME Len(w) # 1
      PROVE  /\ EarlierReport(Head(w), trade)
             /\ Chain(Tail(w), id, trade)
             /\ Tail(w)[Len(Tail(w))] = w[Len(w)]
  <2>n. \A n \in Nat : n >= 1 /\ n # 1 =>
           n > 1 /\ n - 1 # 0 /\ n - 1 \in 1..n - 1 /\ (n - 1) + 1 = n
    OBVIOUS
  <2>m. Len(w) > 1 /\ Len(w) - 1 # 0
    BY <1>1, <1>3, <2>n
  <2>1. EarlierReport(Head(w), trade)
    BY <1>1, <2>m DEF Chain
  <2>2. /\ Len(w) - 1 \in 1..Len(w) - 1 /\ (Len(w) - 1) + 1 = Len(w)
        /\ Tail(w) # << >>
    <3>1. Len(<< >>) = 0
      OBVIOUS
    <3> QED BY <1>1, <1>3, <2>n, <2>m, <3>1
  <2>3. Tail(w)[Len(Tail(w))] = w[Len(w)]
    BY <1>1, <2>2
  <2>4. ASSUME NEW k \in 1..Len(w) - 1
        PROVE  /\ Tail(w)[k].id = id
               /\ k < Len(w) - 1 => EarlierReport(Tail(w)[k], trade)
               /\ k = Len(w) - 1 => LastReport(Tail(w)[k], trade)
    <3>1. Tail(w)[k] = w[k + 1] /\ k + 1 \in 1..Len(w)
      BY <1>1
    <3>2. (k < Len(w) - 1 <=> k + 1 < Len(w)) /\ (k = Len(w) - 1 <=> k + 1 = Len(w))
      BY <1>1
    <3> QED BY <3>1, <3>2 DEF Chain
  <2> QED BY <1>1, <2>1, <2>2, <2>3, <2>4 DEF Chain
<1> QED BY <1>1, <1>2, <1>3

-----------------------------------------------------------------------------
(* What a report does, by its place in the chain.                          *)

(* A report that is not the last of its order changes nothing.             *)
LEMMA EarlierChangesNothing ==
    ASSUME NEW r, processReport(r),
           \/ r.id \notin DOMAIN executionIdMap
           \/ EarlierReport(r, executionIdMap[r.id].trade)
    PROVE  UNCHANGED workerVars
<1>1. CASE ReportUnknown(r) \/ ReportNew(r) \/ ReportPartial(r)
  BY <1>1 DEF ReportUnknown, ReportNew, ReportPartial
<1>2. CASE ReportFailed(r)
  BY <1>2 DEF ReportFailed, EarlierReport
<1>3. CASE ReportFilled(r)
  BY <1>3 DEF ReportFilled, EarlierReport, Completes, compareQty
<1> QED BY <1>1, <1>2, <1>3 DEF processReport

(* The last report of an open order settles it, and its effect is what the *)
(* delta gains (Worker.cpp:184-256).                                       *)
LEMMA LastSettles ==
    ASSUME IInv, NEW r \in Msg, processReport(r),
           r.id \in DOMAIN executionIdMap,
           LastReport(r, executionIdMap[r.id].trade), r.status # "OTHER"
    PROVE  \E delta \in [Assets -> Int] :
             \E failed \in SUBSET {executionIdMap[r.id].executionId} :
                /\ Settle(r.id, delta, failed)
                /\ \A a \in Assets : delta[a] = ExecutionOf(r.id).delta[a]
                       + Effect(r, executionIdMap[r.id].trade, a)
<1> DEFINE trade == executionIdMap[r.id].trade
           old   == ExecutionOf(r.id).delta
<1>n. Numeric(r)
  BY DEF Numeric, Msg
<1>d. old \in [Assets -> Int] /\ FilledDelta(r) \in [Assets -> Int]
  BY <1>n, FilledDeltaType
<1>1. CASE ReportUnknown(r) \/ ReportNew(r)
  BY <1>1 DEF ReportUnknown, ReportNew, LastReport, Completes
<1>2. CASE ReportPartial(r)
  <2>1. compareQty(r) < trade.orderQty /\ r.status = "FILLED"
    BY <1>2 DEF ReportPartial
  <2>2. trade.orderQty <= compareQty(r)
    BY <2>1 DEF LastReport, Completes, compareQty
  <2>3. trade.orderQty \in Int /\ compareQty(r) \in Int
    BY <1>n, NumbersAssumption
       DEF IInv, TypeOK, StaticTrade, compareQty, Numeric
  <2> QED BY <2>1, <2>2, <2>3
<1>3. CASE ReportFailed(r)
  <2>1. r.status # "FILLED" /\ Settle(r.id, old, {executionIdMap[r.id].executionId})
    BY <1>3 DEF ReportFailed
  <2>2. \A a \in Assets : old[a] = old[a] + Effect(r, trade, a)
    BY <1>d, <2>1 DEF Effect
  <2> QED BY <1>d, <2>1, <2>2
<1>4. CASE ReportFilled(r)
  <2>1. r.status = "FILLED" /\ Settle(r.id, FilledDelta(r), {})
    BY <1>4 DEF ReportFilled
  <2> DEFINE fees == Added(old, r.feeDelta)
             u    == usedCurrency(trade)
             v    == recvCurrency(trade)
  <2>2. trade.symbol \in Symbols
    BY DEF IInv, TypeOK, StaticTrade
  <2>3. u \in Assets /\ v \in Assets
    BY <2>2, CurrenciesAreAssets
  <2>4. FilledDelta(r) = [[fees EXCEPT ![u] = @ + -r.usedQty]
                             EXCEPT ![v] = @ + r.recvQty]
    BY DEF FilledDelta, AddedAt
  <2>5. fees = [a \in Assets |-> old[a] + r.feeDelta[a]]
    BY DEF Added
  <2>e. \A a \in Assets : Effect(r, trade, a) =
          r.feeDelta[a] + (IF a = v THEN r.recvQty ELSE 0)
                        - (IF a = u THEN r.usedQty ELSE 0)
    BY <2>1 DEF Effect
  <2> HIDE DEF old, u, v, trade, fees
  <2>6. \A a \in Assets : FilledDelta(r)[a] = old[a] + Effect(r, trade, a)
    BY <1>d, <1>n, <2>3, <2>4, <2>5, <2>e DEF Numeric
  <2>7. {} \in SUBSET {executionIdMap[r.id].executionId}
    OBVIOUS
  <2> QED BY <1>d, <2>1, <2>6, <2>7 DEF old, trade
<1> QED BY <1>1, <1>2, <1>3, <1>4 DEF processReport

-----------------------------------------------------------------------------
(* What the exchange decides.                                              *)

(* Fees are charged with the report that completes an order.  Without this *)
(* the books do not balance: processReport drops the fees of a partial     *)
(* fill (Worker.cpp:209-243).                                              *)
FeesOnCompletion == PartialFees \subseteq {NoFees}

(* A decision answers the first order of the line with a chain of reports, *)
(* and changes the account by what the last of them will bring in, when    *)
(* all fees come with the last.                                            *)
Decides(reports, change) ==
    LET order == Head(toExchange)
    IN  /\ Chain(reports, order.id, order.trade)
        /\ change \in [Assets -> Int]
        /\ FeesOnCompletion => \A a \in Assets :
              change[a] = Effect(reports[Len(reports)], order.trade, a)

(* The quantities of an order are integers.                                *)
LEMMA QuantityTypes ==
    ASSUME NEW trade \in StaticTrade
    PROVE  /\ usedQty(trade) \in Int /\ recvQty(trade) \in Int
           /\ trade.orderQty \in Nat
           /\ usedCurrency(trade) \in Assets /\ recvCurrency(trade) \in Assets
<1>1. trade.orderQty \in Nat /\ trade.orderPrice \in Nat /\ trade.symbol \in Symbols
  BY NumbersAssumption DEF StaticTrade
<1>2. usedQty(trade) \in Int
  BY CapacityType
<1>3. recvQty(trade) \in Int
  <2>1. \A m, n \in Nat : m * n \in Int
    OBVIOUS
  <2>2. \A n \in Int : Truncated(n, kPrecision) \in Int
    BY PrecisionAssumption DEF Truncated
  <2>3. Times(trade.orderQty, trade.orderPrice) \in Int
    BY <1>1, <2>1, <2>2 DEF Times
  <2> QED BY <1>1, <2>3 DEF recvQty
<1> QED BY <1>1, <1>2, <1>3, CurrenciesAreAssets

(* The decision of the exchange on an order it has in its line, whichever  *)
(* it is.                                                                  *)
LEMMA ExchangeDecides ==
    ASSUME OrderQueue(toExchange), ExchangeStep
    PROVE  /\ toExchange # << >>
           /\ \E verdict, reports, change :
                Decide(verdict, reports, change) /\ Decides(reports, change)
<1> DEFINE order == Head(toExchange)
           id    == order.id
           trade == order.trade
           new   == Message(id, "NEW", 0, 0, NoFees)
<1>1. toExchange # << >>
  BY DEF ExchangeStep, ExchangeRejects, ExchangeExpires, ExchangeFills
<1>2. order \in Order
  BY <1>1, TailOfQueue
<1>3. id \in OrderIds /\ trade \in StaticTrade
  BY <1>2 DEF Order
<1> HIDE DEF order
<1>4. NoFees \in [Assets -> Int] /\ \A a \in Assets : NoFees[a] = 0
  BY DEF NoFees
<1>6. new \in Msg /\ new.id = id /\ new.status = "NEW"
  BY <1>3, <1>4 DEF Message, Msg, Statuses
<1>c. /\ \A r \in Msg : r.id = id /\ LastReport(r, trade)
             => Chain(<<r>>, id, trade) /\ <<r>>[Len(<<r>>)] = r
      /\ \A n, r \in Msg :
             n.id = id /\ r.id = id /\ EarlierReport(n, trade) /\ LastReport(r, trade)
             => Chain(<<n, r>>, id, trade) /\ <<n, r>>[Len(<<n, r>>)] = r
      /\ \A n, m, r \in Msg :
             /\ n.id = id /\ m.id = id /\ r.id = id
             /\ EarlierReport(n, trade) /\ EarlierReport(m, trade)
             /\ LastReport(r, trade)
             => Chain(<<n, m, r>>, id, trade) /\ <<n, m, r>>[Len(<<n, m, r>>)] = r
  BY DEF Chain
<1>e. EarlierReport(new, trade)
  BY <1>6 DEF EarlierReport
<1>7. CASE ExchangeRejects
  <2> DEFINE r == Message(id, "REJECTED", 0, 0, NoFees)
  <2>1. Decide("rejected", <<r>>, NoFees)
    BY <1>7 DEF ExchangeRejects, order
  <2>2. r \in Msg /\ r.id = id /\ r.status = "REJECTED"
    BY <1>3, <1>4 DEF Message, Msg, Statuses
  <2> HIDE DEF r
  <2>3. LastReport(r, trade) /\ \A a \in Assets : Effect(r, trade, a) = 0
    BY <2>2 DEF LastReport, Effect
  <2>4. Decides(<<r>>, NoFees)
    BY <1>4, <1>c, <2>2, <2>3 DEF Decides, order
  <2> QED BY <1>1, <2>1, <2>4
<1>8. CASE ExchangeExpires
  <2> DEFINE r == Message(id, "EXPIRED", 0, 0, NoFees)
  <2>1. Decide("expired", <<new, r>>, NoFees)
    BY <1>8 DEF ExchangeExpires, order
  <2>2. r \in Msg /\ r.id = id /\ r.status = "EXPIRED"
    BY <1>3, <1>4 DEF Message, Msg, Statuses
  <2> HIDE DEF r, new
  <2>3. LastReport(r, trade) /\ \A a \in Assets : Effect(r, trade, a) = 0
    BY <2>2 DEF LastReport, Effect
  <2>4. Decides(<<new, r>>, NoFees)
    BY <1>4, <1>6, <1>c, <1>e, <2>2, <2>3 DEF Decides, order
  <2> QED BY <1>1, <2>1, <2>4
<1>9. CASE ExchangeFills
  <2>1. PICK better \in Improvements, fee \in FinalFees :
          LET full  == Fill(trade, better)
              moved == AddedAt(AddedAt(fee, usedCurrency(trade), -full.used),
                               recvCurrency(trade), full.recv)
              last  == Message(id, "FILLED", full.used, full.recv, fee)
          IN  \/ Decide("filled", <<new, last>>, moved)
              \/ \E fee1 \in PartialFees :
                   /\ trade.orderQty > 1
                   /\ Decide("filled",
                        <<new, Message(id, "FILLED", full.used \div 2,
                                       full.recv \div 2, fee1), last>>,
                        Added(moved, fee1))
    BY <1>9 DEF ExchangeFills, order
  <2> DEFINE full  == Fill(trade, better)
             u     == usedCurrency(trade)
             v     == recvCurrency(trade)
             moved == AddedAt(AddedAt(fee, u, -full.used), v, full.recv)
             last  == Message(id, "FILLED", full.used, full.recv, fee)
  <2>q. /\ trade.orderQty \in Nat /\ u \in Assets /\ v \in Assets
        /\ usedQty(trade) \in Int /\ recvQty(trade) \in Int
    BY <1>3, QuantityTypes
  <2>2. /\ full.used \in Int /\ full.recv \in Int
        /\ trade.position = "LONG" => full.recv = trade.orderQty
        /\ trade.position # "LONG" => full.used = trade.orderQty
    BY <2>q, FillsAssumption DEF Fill, usedQty, recvQty
  <2>3. fee \in [Assets -> Int]
    BY FillsAssumption, NumbersAssumption
  <2>4. /\ last \in Msg /\ last.id = id /\ last.status = "FILLED"
        /\ last.usedQty = full.used /\ last.recvQty = full.recv
        /\ last.feeDelta = fee
    <3> HIDE DEF full
    <3> QED BY <1>3, <2>2, <2>3 DEF Message, Msg, Statuses
  <2>5. LastReport(last, trade)
    <3> HIDE DEF last, full
    <3> QED BY <2>q, <2>2, <2>4 DEF LastReport, Completes
  <2>6. /\ moved \in [Assets -> Int]
        /\ \A a \in Assets : moved[a] = Effect(last, trade, a)
    <3> HIDE DEF last, full
    <3>1. \A a \in Assets : Effect(last, trade, a) =
            fee[a] + (IF a = v THEN full.recv ELSE 0)
                   - (IF a = u THEN full.used ELSE 0)
      BY <2>4 DEF Effect
    <3>2. moved = [[fee EXCEPT ![u] = @ + -full.used] EXCEPT ![v] = @ + full.recv]
      BY DEF AddedAt
    <3> HIDE DEF u, v, moved
    <3> QED BY <2>q, <2>2, <2>3, <3>1, <3>2
  <2>7. CASE Decide("filled", <<new, last>>, moved)
    <3> HIDE DEF last, moved, new
    <3>1. Decides(<<new, last>>, moved)
      BY <1>6, <1>c, <1>e, <2>4, <2>5, <2>6 DEF Decides, order
    <3> QED BY <1>1, <2>7, <3>1
  <2>8. ASSUME NEW fee1 \in PartialFees, trade.orderQty > 1,
               Decide("filled",
                  <<new, Message(id, "FILLED", full.used \div 2,
                                 full.recv \div 2, fee1), last>>,
                  Added(moved, fee1))
        PROVE  \E verdict, reports, change :
                  Decide(verdict, reports, change) /\ Decides(reports, change)
    <3> DEFINE part == Message(id, "FILLED", full.used \div 2, full.recv \div 2, fee1)
    <3>1. fee1 \in [Assets -> Int]
      BY FillsAssumption, NumbersAssumption
    <3>2. full.used \div 2 \in Int /\ full.recv \div 2 \in Int
      <4> HIDE DEF full
      <4> QED BY <2>2
    <3>3. /\ part \in Msg /\ part.id = id /\ part.status = "FILLED"
          /\ part.usedQty = full.used \div 2 /\ part.recvQty = full.recv \div 2
      <4> HIDE DEF full
      <4> QED BY <1>3, <1>4, <3>1, <3>2 DEF Message, Msg, Statuses
    <3>4. EarlierReport(part, trade)
      <4> HIDE DEF part, full
      <4>1. \A n \in Nat : n > 1 => ~(n <= n \div 2)
        OBVIOUS
      <4> QED BY <2>q, <2>2, <2>8, <3>3, <4>1 DEF EarlierReport, Completes
    <3> HIDE DEF last, moved, new, part
    <3>5. /\ Added(moved, fee1) \in [Assets -> Int]
          /\ FeesOnCompletion => Added(moved, fee1) = moved
      <4>1. FeesOnCompletion => fee1 = NoFees
        BY DEF FeesOnCompletion
      <4> QED BY <1>4, <2>6, <3>1, <4>1 DEF Added
    <3>6. Decide("filled", <<new, part, last>>, Added(moved, fee1))
      BY <2>8 DEF part
    <3>7. Decides(<<new, part, last>>, Added(moved, fee1))
      <4>1. /\ Chain(<<new, part, last>>, id, trade)
            /\ <<new, part, last>>[Len(<<new, part, last>>)] = last
        BY <1>6, <1>c, <1>e, <2>4, <2>5, <3>3, <3>4
      <4> QED BY <2>6, <3>5, <4>1 DEF Decides, order
    <3> QED BY <3>6, <3>7
  <2> QED BY <1>1, <2>1, <2>7, <2>8
<1> QED BY <1>7, <1>8, <1>9 DEF ExchangeStep

-----------------------------------------------------------------------------
(* The id map and the queues.                                              *)

(* A queue is tracked by any map that agrees on the orders in it.          *)
LEMMA TracksAgain ==
    ASSUME NEW q, NEW map, Tracks(q, map), NEW other,
           \A o \in Ids(q) : o \in DOMAIN map =>
              o \in DOMAIN other /\ other[o] = map[o]
    PROVE  Tracks(q, other)
<1>1. \A i \in 1..Len(q) : q[i].id \in Ids(q)
  BY DEF Ids
<1> QED BY <1>1 DEF Tracks

(* The orders in a tracked queue are in the map.                           *)
LEMMA TrackedIds ==
    ASSUME NEW q, NEW map, Tracks(q, map)
    PROVE  Ids(q) \subseteq DOMAIN map
BY DEF Ids, Tracks

(* No order of the next execution is in the map yet.                       *)
LEMMA NextIdIsFresh ==
    ASSUME IInv, nextId \in ExecutionIds
    PROVE  \A o \in DOMAIN executionIdMap : o[1] # nextId
<1>1. \A e \in DOMAIN executionsMap : e < nextId /\ e \in Int
  BY NumbersAssumption DEF IInv, TypeOK, IdsStructured, ExecutionIds
<1>2. nextId \notin DOMAIN executionsMap
  BY <1>1, NumbersAssumption DEF ExecutionIds
<1> QED BY <1>2 DEF IInv, IdsStructured

(* A launch hands out one order per trade of the path, each under a fresh  *)
(* id, and leaves the orders in the id map alone (Worker.cpp:126-159).     *)
LEMMA LaunchHandsOut ==
    ASSUME IInv, nextId \in ExecutionIds,
           NEW path \in TradingPaths,
           NEW orders \in [DOMAIN path -> StaticTrade],
           Launch(path, orders)
    PROVE  /\ OrderQueue(LaunchedOrders) /\ LaunchedOrders # << >>
           /\ Tracks(LaunchedOrders, executionIdMap')
           /\ \A o \in Ids(LaunchedOrders) : o \in OrderIds /\ o[1] = nextId
           /\ Ids(LaunchedOrders) \cap DOMAIN executionIdMap = {}
           /\ DOMAIN executionIdMap' = DOMAIN executionIdMap \cup Ids(LaunchedOrders)
           /\ \A o \in DOMAIN executionIdMap :
                 executionIdMap'[o] = executionIdMap[o]
<1> DEFINE new == NewOrderIds(path)
           q   == [i \in 1..Len(path) |-> [id |-> <<nextId, i>>, trade |-> orders[i]]]
<1>p. /\ DOMAIN path = 1..Len(path)
      /\ Len(path) \in Nat /\ Len(path) >= 1 /\ Len(path) <= MaxTrades
  BY PathFacts
<1>n. MaxTrades \in Nat /\ nextId \in Nat
  BY NumbersAssumption DEF ExecutionIds
<1>1. /\ executionIdMap' = [o \in DOMAIN executionIdMap \cup new |->
                              IF o \in new
                              THEN [trade |-> orders[o[2]], executionId |-> nextId]
                              ELSE executionIdMap[o]]
      /\ pendingOrdersCount' = Emplace(pendingOrdersCount, nextId, Len(path))
      /\ nextId' = nextId + 1
  BY DEF Launch
<1>2. nextId' # nextId /\ pendingOrdersCount'[nextId] = Len(path)
  BY <1>1, <1>n DEF Emplace
<1>3. \A i \in 1..Len(path) : /\ <<nextId, i>> \in new
                              /\ <<nextId, i>> \in OrderIds
                              /\ executionIdMap'[<<nextId, i>>].trade = orders[i]
  <2> TAKE i \in 1..Len(path)
  <2>1. <<nextId, i>> \in new
    BY DEF NewOrderIds
  <2>2. <<nextId, i>> \in OrderIds
    BY <1>p, <1>n DEF OrderIds
  <2> QED BY <1>1, <2>1, <2>2
<1>4. LaunchedOrders = q
  BY <1>2, <1>3 DEF LaunchedOrders
<1>5. /\ q \in Seq(Order) /\ Len(q) = Len(path) /\ q # << >>
      /\ \A i \in 1..Len(path) : q[i].id = <<nextId, i>> /\ q[i].trade = orders[i]
  <2>1. \A i \in 1..Len(path) : q[i] \in Order
    BY <1>3, <1>p DEF Order
  <2>2. q \in Seq(Order) /\ Len(q) = Len(path)
    BY <1>p, <2>1
  <2> QED BY <1>p, <2>2
<1> HIDE DEF q
<1>6. OrderQueue(q)
  BY <1>5 DEF OrderQueue, Unique
<1>7. Tracks(q, executionIdMap')
  BY <1>1, <1>3, <1>5 DEF Tracks
<1>8. Ids(q) = new
  <2>1. Ids(q) = {<<nextId, i>> : i \in 1..Len(path)}
    BY <1>5 DEF Ids
  <2>2. new = {<<nextId, i>> : i \in 1..Len(path)}
    BY DEF NewOrderIds
  <2> QED BY <2>1, <2>2
<1>9. \A o \in new : o \in OrderIds /\ o[1] = nextId
  BY <1>p, <1>n DEF NewOrderIds, OrderIds
<1>10. new \cap DOMAIN executionIdMap = {}
  BY <1>9, NextIdIsFresh
<1> HIDE DEF new
<1>11. /\ DOMAIN executionIdMap' = DOMAIN executionIdMap \cup new
       /\ \A o \in DOMAIN executionIdMap : executionIdMap'[o] = executionIdMap[o]
  BY <1>1, <1>10
<1> QED BY <1>4, <1>5, <1>6, <1>7, <1>8, <1>9, <1>10, <1>11

(* A step that leaves the engine alone launches nothing.                   *)
LEMMA NothingLaunched ==
    ASSUME UNCHANGED workerVars
    PROVE  LaunchedOrders = << >>
BY DEF workerVars, books, LaunchedOrders

(* Settling takes one order out of the id map and leaves the others.       *)
LEMMA SettleTakesOne ==
    ASSUME NEW id \in DOMAIN executionIdMap, NEW delta, NEW failed,
           Settle(id, delta, failed)
    PROVE  /\ DOMAIN executionIdMap' = DOMAIN executionIdMap \ {id}
           /\ \A o \in DOMAIN executionIdMap \ {id} :
                 executionIdMap'[o] = executionIdMap[o]
           /\ nextId' = nextId
BY DEF Settle, Erase, Restrict

-----------------------------------------------------------------------------
(* The inductive invariant of the engine and the exchange: an order is in  *)
(* one place at a time (the line of the exchange, or the wire with its     *)
(* reports), it is still open in the engine while it is there, and the     *)
(* books balance.                                                          *)

InWire(a) == [id \in DOMAIN wire |-> InTransit(id, a)]

OnTheWire == /\ wire \in [DOMAIN wire -> Seq(Msg)]
             /\ DOMAIN wire \subseteq DOMAIN executionIdMap
             /\ \A id \in DOMAIN wire :
                   Chain(wire[id], id, executionIdMap[id].trade)

InLine == /\ OrderQueue(toExchange)
          /\ Tracks(toExchange, executionIdMap)
          /\ Ids(toExchange) \cap DOMAIN wire = {}

TInv == /\ IInv
        /\ account \in [Assets -> Int]
        /\ OnTheWire
        /\ InLine
        /\ BooksBalance

(* What a last report brings in is an integer.                             *)
LEMMA EffectType ==
    ASSUME NEW r \in Msg, NEW trade, NEW a \in Assets
    PROVE  Effect(r, trade, a) \in Int
BY DEF Effect, Msg

(* The amounts in transit are the effects of the last reports.             *)
LEMMA InWireType ==
    ASSUME IInv, OnTheWire, NEW a \in Assets
    PROVE  /\ IsFiniteSet(DOMAIN wire)
           /\ InWire(a) \in [DOMAIN wire -> Int]
           /\ \A id \in DOMAIN wire : InWire(a)[id] =
                Effect(wire[id][Len(wire[id])], executionIdMap[id].trade, a)
           /\ SumFunction(InWire(a)) \in Int
<1>1. DOMAIN wire \in SUBSET OrderIds
  BY DEF IInv, TypeOK, OnTheWire
<1>2. IsFiniteSet(DOMAIN wire)
  BY <1>1, OrderIdsFinite, FS_Subset
<1>3. \A id \in DOMAIN wire : InWire(a)[id] =
         Effect(wire[id][Len(wire[id])], executionIdMap[id].trade, a)
  BY DEF InWire, InTransit, Effect
<1>4. \A id \in DOMAIN wire : wire[id][Len(wire[id])] \in Msg
  BY FirstOfChain DEF OnTheWire
<1>5. InWire(a) \in [DOMAIN wire -> Int]
  <2>1. \A id \in DOMAIN wire : InWire(a)[id] \in Int
    BY <1>3, <1>4, EffectType
  <2>2. InWire(a) = [id \in DOMAIN wire |-> InWire(a)[id]]
    BY DEF InWire
  <2> HIDE DEF InWire
  <2> QED BY <2>1, <2>2
<1>6. SumFunction(InWire(a)) \in Int
  BY <1>2, <1>5, SumType
<1> QED BY <1>2, <1>3, <1>5, <1>6

(* The property in the terms above.                                        *)
LEMMA BooksBalanceMeans ==
    BooksBalance <=> \A a \in Assets :
                        account[a] = Booked(a) + SumFunction(InWire(a))
BY DEF BooksBalance, Booked, Deltas, InWire

(* The same in the next state.                                             *)
LEMMA BooksBalanceMeansNext ==
    BooksBalance' <=> \A a \in Assets :
                        account'[a] = Booked(a)' + SumFunction(InWire(a)')
BY DEF BooksBalance, Booked, Deltas, InWire

(* It all holds at start.                                                  *)
LEMMA InitTInv == TradingInit => TInv
<1> SUFFICES ASSUME TradingInit PROVE TInv
  OBVIOUS
<1>1. WorkerInit /\ ExchangeInit
  BY DEF TradingInit
<1>2. IInv
  BY <1>1, InitIInv
<1>3. account \in [Assets -> Int]
  BY <1>1, BalanceAssumption DEF ExchangeInit
<1>4. DOMAIN wire = {} /\ DOMAIN executionsMap = {}
  BY <1>1 DEF ExchangeInit, WorkerInit
<1>5. OnTheWire
  BY <1>1, <1>4 DEF OnTheWire, ExchangeInit
<1>6. InLine
  BY <1>1, <1>4 DEF InLine, ExchangeInit, OrderQueue, Unique, Tracks
<1>7. BooksBalance
  <2> SUFFICES ASSUME NEW a \in Assets
               PROVE  account[a] = Booked(a) + SumFunction(InWire(a))
    BY BooksBalanceMeans
  <2>1. SumFunction(InWire(a)) = 0
    BY <1>2, <1>4, <1>5, InWireType, SumOfZeros
  <2>2. SumFunction(Deltas(a)) = 0
    BY <1>2, <1>4, BooksType, SumOfZeros
  <2>3. account[a] = balance[a] /\ balance[a] \in Int
    BY <1>1, <1>2, BooksType DEF ExchangeInit, WorkerInit
  <2> QED BY <2>1, <2>2, <2>3 DEF Booked
<1> QED BY <1>2, <1>3, <1>5, <1>6, <1>7 DEF TInv

(* When the engine does not move and neither does a wire that the map of   *)
(* open orders still covers, the books and what is in transit stay.        *)
LEMMA SameBooks ==
    ASSUME UNCHANGED workerVars, NEW a
    PROVE  Booked(a)' = Booked(a)
BY DEF workerVars, ledger, books, Booked, Deltas

(* A price update preserves the invariant: it launches an execution or     *)
(* leaves everything as it is.                                             *)
LEMMA PriceUpdateTInv ==
    ASSUME TInv, NEW symbol \in Symbols, PriceUpdate(symbol)
    PROVE  TInv'
<1>i. IInv /\ OnTheWire /\ InLine /\ BooksBalance /\ account \in [Assets -> Int]
  BY DEF TInv
<1>u. wire' = wire /\ account' = account /\ toExchange' = toExchange \o LaunchedOrders
  BY DEF PriceUpdate
<1>1. CASE UNCHANGED workerVars
  <2>1. IInv'
    BY <1>1, <1>i, StutterIInv
  <2>2. executionIdMap' = executionIdMap
    BY <1>1 DEF workerVars, books
  <2>3. toExchange' = toExchange
    BY <1>1, <1>u, <1>i, NothingLaunched DEF InLine, OrderQueue
  <2>4. OnTheWire' /\ InLine'
    BY <1>i, <1>u, <2>2, <2>3
       DEF OnTheWire, InLine, OrderQueue, Unique, Tracks, Ids
  <2>5. \A a \in Assets : InWire(a)' = InWire(a)
    BY <1>u, <2>2 DEF InWire, InTransit
  <2>6. BooksBalance'
    BY <1>1, <1>i, <1>u, <2>5, SameBooks, BooksBalanceMeans, BooksBalanceMeansNext
  <2> QED BY <1>i, <1>u, <2>1, <2>4, <2>6 DEF TInv
<1>2. CASE ~ UNCHANGED workerVars
  <2>1. nextId \in ExecutionIds
    BY <1>2, <1>i, PriceUpdateLaunches DEF PriceUpdate
  <2>2. PICK path \in TradingPaths :
          /\ SymbolsOf(path) \cap reserved = {}
          /\ \E orders \in [DOMAIN path -> StaticTrade] :
               /\ \A i \in DOMAIN path : orders[i].symbol = path[i].symbol
               /\ Launch(path, orders)
    BY <1>2, <1>i, PriceUpdateLaunches DEF PriceUpdate
  <2>3. PICK orders \in [DOMAIN path -> StaticTrade] :
          /\ \A i \in DOMAIN path : orders[i].symbol = path[i].symbol
          /\ Launch(path, orders)
    BY <2>2
  <2>4. IInv'
    BY <1>i, <2>1, <2>2, <2>3, LaunchPreservesIInv
  <2> DEFINE q == LaunchedOrders
  <2>5. /\ OrderQueue(q) /\ Tracks(q, executionIdMap')
        /\ Ids(q) \cap DOMAIN executionIdMap = {}
        /\ DOMAIN executionIdMap \subseteq DOMAIN executionIdMap'
        /\ \A o \in DOMAIN executionIdMap : executionIdMap'[o] = executionIdMap[o]
    <3>1. DOMAIN executionIdMap' = DOMAIN executionIdMap \cup Ids(q)
      BY <1>i, <2>1, <2>3, LaunchHandsOut
    <3> QED BY <3>1, <1>i, <2>1, <2>3, LaunchHandsOut
  <2>6. OnTheWire'
    <3>1. /\ DOMAIN wire \subseteq DOMAIN executionIdMap'
          /\ \A id \in DOMAIN wire : executionIdMap'[id] = executionIdMap[id]
      BY <1>i, <2>5 DEF OnTheWire
    <3> QED BY <1>i, <1>u, <3>1 DEF OnTheWire
  <2>u. toExchange' = toExchange \o q
    BY <1>u
  <2> HIDE DEF q
  <2>7. InLine'
    <3>1. Ids(toExchange) \subseteq DOMAIN executionIdMap
      BY <1>i, TrackedIds DEF InLine
    <3>2. Ids(toExchange) \cap Ids(q) = {}
      BY <2>5, <3>1
    <3>3. Tracks(toExchange, executionIdMap')
      BY <1>i, <2>5, TracksAgain DEF InLine
    <3>4. /\ OrderQueue(toExchange \o q)
          /\ Ids(toExchange \o q) = Ids(toExchange) \cup Ids(q)
          /\ Tracks(toExchange \o q, executionIdMap')
      BY <1>i, <2>5, <3>2, <3>3, ConcatQueues DEF InLine
    <3>5. OrderQueue(toExchange') /\ Tracks(toExchange', executionIdMap')
      BY <2>u, <3>4
    <3>6. Ids(toExchange') \cap DOMAIN wire = {}
      BY <1>i, <2>u, <2>5, <3>4 DEF InLine, OnTheWire
    <3>7. /\ OrderQueue(toExchange)' <=> OrderQueue(toExchange')
          /\ Tracks(toExchange, executionIdMap)' <=> Tracks(toExchange', executionIdMap')
          /\ Ids(toExchange)' = Ids(toExchange')
      BY DEF OrderQueue, Unique, Tracks, Ids
    <3> QED BY <1>u, <3>5, <3>6, <3>7 DEF InLine
  <2>8. \A a \in Assets : InWire(a)' = InWire(a)
    <3>1. \A id \in DOMAIN wire : executionIdMap'[id] = executionIdMap[id]
      BY <1>i, <2>5 DEF OnTheWire
    <3> QED BY <1>u, <3>1 DEF InWire, InTransit
  <2>9. BooksBalance'
    BY <1>i, <1>u, <2>1, <2>3, <2>4, <2>8, LaunchKeepsBooks,
       BooksBalanceMeans, BooksBalanceMeansNext
  <2> QED BY <1>i, <1>u, <2>4, <2>6, <2>7, <2>9 DEF TInv
<1> QED BY <1>1, <1>2

(* A report that arrives preserves the invariant: what leaves the wire is  *)
(* what the books gain.                                                    *)
LEMMA ReportArrivesTInv ==
    ASSUME TInv, NEW id \in OrderIds, ReportArrives(id)
    PROVE  TInv'
<1> DEFINE w     == wire[id]
           r     == Head(w)
           trade == executionIdMap[id].trade
<1>i. IInv /\ OnTheWire /\ InLine /\ BooksBalance /\ account \in [Assets -> Int]
  BY DEF TInv
<1>u. /\ id \in DOMAIN wire /\ processReport(r)
      /\ wire' = IF Len(w) = 1 THEN Erase(wire, id) ELSE [wire EXCEPT ![id] = Tail(@)]
      /\ account' = account /\ toExchange' = toExchange
  BY DEF ReportArrives, TakeReport
<1>c. Chain(w, id, trade) /\ id \in DOMAIN executionIdMap
  BY <1>i, <1>u DEF OnTheWire
<1>h. /\ r \in Msg /\ r.id = id /\ Numeric(r)
      /\ w[Len(w)] \in Msg /\ LastReport(w[Len(w)], trade)
      /\ Len(w) = 1 => r = w[Len(w)]
      /\ Len(w) # 1 => /\ EarlierReport(r, trade)
                       /\ Chain(Tail(w), id, trade)
                       /\ Tail(w)[Len(Tail(w))] = w[Len(w)]
  BY <1>c, FirstOfChain
<1>1. CASE Len(w) = 1
  <2>w. /\ DOMAIN wire' = DOMAIN wire \ {id}
        /\ wire' = [o \in DOMAIN wire \ {id} |-> wire[o]]
    BY <1>1, <1>u DEF Erase, Restrict
  <2>l. r = w[Len(w)] /\ LastReport(r, trade)
    BY <1>1, <1>h
  <2>o. r.status # "OTHER"
    <3>1. \/ r.id \notin DOMAIN executionIdMap
          \/ r.status \in {"NEW", "REJECTED", "EXPIRED", "FILLED"}
      BY <1>u DEF processReport, ReportUnknown, ReportNew, ReportFailed,
                  ReportPartial, ReportFilled
    <3> QED BY <1>c, <1>h, <3>1
  <2>1. PICK delta \in [Assets -> Int] :
          \E failed \in SUBSET {executionIdMap[r.id].executionId} :
             /\ Settle(r.id, delta, failed)
             /\ \A a \in Assets : delta[a] = ExecutionOf(r.id).delta[a]
                    + Effect(r, executionIdMap[r.id].trade, a)
    <3> HIDE DEF r
    <3> QED BY <1>i, <1>u, <1>h, <1>c, <2>l, <2>o, LastSettles
  <2>2. PICK failed \in SUBSET {executionIdMap[id].executionId} :
          /\ Settle(id, delta, failed)
          /\ \A a \in Assets : delta[a] = ExecutionOf(id).delta[a]
                 + Effect(r, trade, a)
    BY <1>h, <2>1
  <2>3. IInv'
    BY <1>i, <1>c, <2>2, SettlePreservesIInv
  <2>4. /\ DOMAIN executionIdMap' = DOMAIN executionIdMap \ {id}
        /\ \A o \in DOMAIN executionIdMap \ {id} :
              executionIdMap'[o] = executionIdMap[o]
    BY <1>c, <2>2, SettleTakesOne
  <2>5. OnTheWire'
    <3>1. \A o \in DOMAIN wire \ {id} :
             /\ o \in DOMAIN executionIdMap'
             /\ wire'[o] = wire[o] /\ executionIdMap'[o] = executionIdMap[o]
      BY <1>i, <2>w, <2>4 DEF OnTheWire
    <3> QED BY <1>i, <2>w, <3>1 DEF OnTheWire
  <2>6. InLine'
    <3>1. id \notin Ids(toExchange)
      BY <1>i, <1>u DEF InLine
    <3>2. Tracks(toExchange, executionIdMap')
      BY <1>i, <2>4, <3>1, TracksAgain DEF InLine
    <3>3. Tracks(toExchange, executionIdMap)'
      BY <1>u, <3>2 DEF Tracks
    <3>4. /\ OrderQueue(toExchange)' <=> OrderQueue(toExchange)
          /\ Ids(toExchange)' = Ids(toExchange)
      BY <1>u DEF OrderQueue, Unique, Ids
    <3> QED BY <1>i, <2>w, <3>3, <3>4 DEF InLine
  <2>7. ASSUME NEW a \in Assets
        PROVE  account'[a] = Booked(a)' + SumFunction(InWire(a)')
    <3> DEFINE T      == DOMAIN wire \ {id}
               before == InWire(a)
               after  == InWire(a)'
               gain   == Effect(r, trade, a)
    <3>1. /\ IsFiniteSet(DOMAIN wire) /\ before \in [DOMAIN wire -> Int]
          /\ before[id] = gain /\ SumFunction(before) \in Int
      BY <1>i, <1>u, <2>l, InWireType
    <3>2. after \in [T -> Int] /\ \A o \in T : after[o] = before[o]
      <4>1. \A o \in T : wire'[o] = wire[o] /\ executionIdMap'[o] = executionIdMap[o]
        BY <1>i, <2>w, <2>4 DEF OnTheWire
      <4>2. after = [o \in T |-> before[o]]
        BY <2>w, <4>1 DEF InWire, InTransit
      <4> HIDE DEF after, before
      <4> QED BY <3>1, <4>2
    <3>3. IsFiniteSet(T)
      BY <3>1, FS_RemoveElement
    <3>4. SumFunction(before) = SumFunction(after) + gain
      <4>1. before \in [T \cup {id} -> Int]
        BY <1>u, <3>1
      <4>t. id \notin T /\ after \in [T -> Int]
        BY <3>2
      <4> HIDE DEF before, after, T, gain
      <4>2. ASSUME NEW k \in [T \cup {id} -> Int], \A o \in T : k[o] = after[o]
            PROVE  SumFunction(k) = SumFunction(after) + k[id]
        BY <3>3, <4>t, <4>2, SumAdd
      <4> QED BY <3>1, <3>2, <4>1, <4>2
    <3>5. Booked(a)' = Booked(a) + delta[a] - ExecutionOf(id).delta[a]
      BY <1>i, <1>c, <2>2, SettleMovesBooks
    <3>6. delta[a] = ExecutionOf(id).delta[a] + gain
      BY <2>2
    <3>7. /\ ExecutionOf(id).delta[a] \in Int
          /\ gain \in Int /\ Booked(a) \in Int
      <4>1. ExecutionOf(id).delta \in [Assets -> Int]
        BY <1>i, <1>c DEF IInv, TypeOK, LookupsSafe, ExecutionOf, Execution
      <4> HIDE DEF r, trade
      <4> QED BY <1>i, <1>h, <4>1, EffectType, BooksType
    <3>8. account[a] = Booked(a) + SumFunction(before)
      BY <1>i, BooksBalanceMeans
    <3>9. SumFunction(after) \in Int
      <4> HIDE DEF after, T
      <4> QED BY <3>2, <3>3, SumType
    <3> HIDE DEF before, gain
    <3>10. Booked(a)' = Booked(a) + gain
      BY <3>5, <3>6, <3>7
    <3>11. account'[a] = Booked(a)' + SumFunction(after)
      BY <1>u, <3>4, <3>7, <3>8, <3>9, <3>10
    <3> QED BY <3>11
  <2>8. BooksBalance'
    BY <2>7, BooksBalanceMeansNext
  <2> QED BY <1>i, <1>u, <2>3, <2>5, <2>6, <2>8 DEF TInv
<1>2. CASE Len(w) # 1
  <2>1. UNCHANGED workerVars
    BY <1>2, <1>u, <1>h, EarlierChangesNothing
  <2>2. IInv' /\ executionIdMap' = executionIdMap
    BY <1>i, <2>1, StutterIInv DEF workerVars, books
  <2>w. /\ DOMAIN wire' = DOMAIN wire
        /\ wire' = [o \in DOMAIN wire |-> IF o = id THEN Tail(w) ELSE wire[o]]
    BY <1>2, <1>u, <1>i DEF OnTheWire
  <2>3. OnTheWire'
    <3>1. \A o \in DOMAIN wire : Chain(wire'[o], o, executionIdMap[o].trade)
      BY <1>i, <1>2, <1>h, <2>w DEF OnTheWire
    <3>2. \A o \in DOMAIN wire : wire'[o] \in Seq(Msg)
      BY <3>1 DEF Chain
    <3> QED BY <1>i, <2>2, <2>w, <3>1, <3>2 DEF OnTheWire
  <2>4. InLine'
    BY <1>i, <1>u, <2>2, <2>w DEF InLine, OrderQueue, Unique, Tracks, Ids
  <2>5. ASSUME NEW a \in Assets PROVE InWire(a)' = InWire(a)
    <3>1. \A o \in DOMAIN wire : wire'[o][Len(wire'[o])] = wire[o][Len(wire[o])]
      BY <1>2, <1>h, <2>w
    <3> QED BY <2>2, <2>w, <3>1 DEF InWire, InTransit
  <2>6. BooksBalance'
    BY <1>i, <1>u, <2>1, <2>5, SameBooks, BooksBalanceMeans, BooksBalanceMeansNext
  <2> QED BY <1>i, <1>u, <2>2, <2>3, <2>4, <2>6 DEF TInv
<1> QED BY <1>1, <1>2

(* A decision of the exchange preserves the invariant: the account moves   *)
(* by what goes on the wire.                                               *)
LEMMA ExchangeTInv ==
    ASSUME FeesOnCompletion, TInv, ExchangeStep
    PROVE  TInv'
<1>i. IInv /\ OnTheWire /\ InLine /\ BooksBalance /\ account \in [Assets -> Int]
  BY DEF TInv
<1>q. OrderQueue(toExchange) /\ Tracks(toExchange, executionIdMap)
  BY <1>i DEF InLine
<1>1. toExchange # << >>
  BY <1>q, ExchangeDecides
<1>2. PICK verdict, reports, change :
        Decide(verdict, reports, change) /\ Decides(reports, change)
  BY <1>q, ExchangeDecides
<1> DEFINE order == Head(toExchange)
           id    == order.id
           last  == reports[Len(reports)]
<1>u. /\ toExchange' = Tail(toExchange)
      /\ wire' = Emplace(wire, id, reports)
      /\ account' = Added(account, change)
      /\ UNCHANGED workerVars
  BY <1>2 DEF Decide
<1>d. /\ Chain(reports, id, order.trade)
      /\ change \in [Assets -> Int]
      /\ \A a \in Assets : change[a] = Effect(last, order.trade, a)
  BY <1>2 DEF Decides
<1>3. /\ OrderQueue(Tail(toExchange)) /\ Tracks(Tail(toExchange), executionIdMap)
      /\ id \in Ids(toExchange) /\ id \in DOMAIN executionIdMap
      /\ Ids(Tail(toExchange)) = Ids(toExchange) \ {id}
      /\ order.trade = executionIdMap[id].trade
  BY <1>q, <1>1, TailOfQueue
<1>4. id \notin DOMAIN wire
  BY <1>i, <1>3 DEF InLine
<1>5. IInv' /\ executionIdMap' = executionIdMap
  BY <1>i, <1>u, StutterIInv DEF workerVars, books
<1> HIDE DEF order, id
<1>w. /\ DOMAIN wire' = DOMAIN wire \cup {id}
      /\ wire' = [o \in DOMAIN wire \cup {id} |-> IF o = id THEN reports ELSE wire[o]]
  BY <1>u DEF Emplace
<1>6. OnTheWire'
  <2>1. \A o \in DOMAIN wire \cup {id} : Chain(wire'[o], o, executionIdMap[o].trade)
    BY <1>i, <1>d, <1>3, <1>w DEF OnTheWire
  <2>2. \A o \in DOMAIN wire \cup {id} : wire'[o] \in Seq(Msg)
    BY <2>1 DEF Chain
  <2> QED BY <1>i, <1>3, <1>5, <1>w, <2>1, <2>2 DEF OnTheWire
<1>7. InLine'
  <2>1. /\ OrderQueue(toExchange)' <=> OrderQueue(Tail(toExchange))
        /\ Tracks(toExchange, executionIdMap)' <=> Tracks(Tail(toExchange), executionIdMap)
        /\ Ids(toExchange)' = Ids(Tail(toExchange))
    BY <1>u, <1>5 DEF OrderQueue, Unique, Tracks, Ids
  <2> QED BY <1>i, <1>3, <1>w, <2>1 DEF InLine
<1>8. account' \in [Assets -> Int]
  BY <1>i, <1>d, <1>u, AdditionsAreMaps
<1>9. ASSUME NEW a \in Assets
      PROVE  account'[a] = Booked(a)' + SumFunction(InWire(a)')
  <2> DEFINE S      == DOMAIN wire
             before == InWire(a)
             after  == InWire(a)'
             gain   == change[a]
  <2>1. /\ IsFiniteSet(S) /\ before \in [S -> Int] /\ SumFunction(before) \in Int
    BY <1>i, InWireType
  <2>2. /\ after[id] = gain
        /\ \A o \in S : after[o] = before[o]
        /\ DOMAIN after = S \cup {id}
        /\ after = [o \in S \cup {id} |-> after[o]]
    <3>1. \A o \in S : wire'[o] = wire[o]
      BY <1>4, <1>w
    <3>2. wire'[id] = reports
      BY <1>w
    <3>3. gain = Effect(last, executionIdMap[id].trade, a)
      BY <1>d, <1>3
    <3> QED BY <1>5, <1>w, <3>1, <3>2, <3>3 DEF InWire, InTransit, Effect
  <2>3. gain \in Int /\ account[a] \in Int /\ Booked(a) \in Int
    BY <1>i, <1>d, BooksType
  <2>4. account'[a] = account[a] + gain
    BY <1>u DEF Added
  <2>5. Booked(a)' = Booked(a)
    BY <1>u, SameBooks
  <2>6. account[a] = Booked(a) + SumFunction(before)
    BY <1>i, BooksBalanceMeans
  <2>7. id \notin S
    BY <1>4
  <2>s. IsFiniteSet(S)
    BY <2>1
  <2> HIDE DEF S, before, after, gain
  <2>8. after \in [S \cup {id} -> Int]
    BY <2>1, <2>2, <2>3
  <2>9. SumFunction(after) = SumFunction(before) + after[id]
    <3>1. ASSUME NEW f \in [S -> Int], NEW g \in [S \cup {id} -> Int],
                 \A o \in S : g[o] = f[o]
          PROVE  SumFunction(g) = SumFunction(f) + g[id]
      BY <2>s, <2>7, <3>1, SumAdd
    <3> QED BY <2>1, <2>2, <2>8, <3>1
  <2>10. account'[a] = Booked(a)' + SumFunction(after)
    BY <2>1, <2>2, <2>3, <2>4, <2>5, <2>6, <2>9
  <2> QED BY <2>10 DEF after
<1>10. BooksBalance'
  BY <1>9, BooksBalanceMeansNext
<1> QED BY <1>5, <1>6, <1>7, <1>8, <1>10 DEF TInv

(* Steps that move nothing preserve the invariant.                         *)
LEMMA StutterTInv == TInv /\ UNCHANGED tradingVars => TInv'
<1> SUFFICES ASSUME TInv, UNCHANGED tradingVars PROVE TInv'
  OBVIOUS
<1>1. /\ UNCHANGED workerVars /\ executionIdMap' = executionIdMap
      /\ toExchange' = toExchange /\ wire' = wire /\ account' = account
  BY DEF tradingVars, exchangeVars, workerVars, books
<1>2. IInv'
  BY <1>1, StutterIInv DEF TInv
<1>3. OnTheWire' /\ InLine'
  BY <1>1 DEF TInv, OnTheWire, InLine, OrderQueue, Unique, Tracks, Ids
<1>4. \A a \in Assets : InWire(a)' = InWire(a)
  BY <1>1 DEF InWire, InTransit
<1>5. BooksBalance'
  BY <1>1, <1>4, SameBooks, BooksBalanceMeans, BooksBalanceMeansNext DEF TInv
<1> QED BY <1>1, <1>2, <1>3, <1>5 DEF TInv

-----------------------------------------------------------------------------
(* The results.                                                            *)

(* The engine and the exchange keep the inductive invariant.               *)
THEOREM TradingInvariant ==
    ASSUME FeesOnCompletion
    PROVE  TradingSpec => []TInv
<1>1. TInv /\ [TradingNext]_tradingVars => TInv'
  BY PriceUpdateTInv, ReportArrivesTInv, ExchangeTInv, StutterTInv
     DEF TradingNext
<1> QED BY <1>1, InitTInv, PTL DEF TradingSpec

(* The true account is at every moment the tracked balance, the deltas of  *)
(* the live executions and the fills that were not booked yet, whatever    *)
(* the interleaving of reports and launches (Worker.cpp:126-287).          *)
THEOREM TradingBooksBalance ==
    ASSUME FeesOnCompletion
    PROVE  TradingSpec => []BooksBalance
<1>1. TInv => BooksBalance
  BY DEF TInv
<1> QED BY <1>1, TradingInvariant, PTL

(* When no execution is live, the tracked balance is the true account.     *)
THEOREM TradingBalanceTracksAccount ==
    ASSUME FeesOnCompletion
    PROVE  TradingSpec => []BalanceTracksAccount
<1>1. TInv => BalanceTracksAccount
  <2> SUFFICES ASSUME TInv, DOMAIN executionsMap = {} PROVE balance = account
    BY DEF BalanceTracksAccount
  <2>i. IInv /\ OnTheWire
    BY DEF TInv
  <2>1. DOMAIN executionIdMap = {}
    BY <2>i DEF IInv, LookupsSafe
  <2>2. DOMAIN wire = {}
    BY <2>i, <2>1 DEF OnTheWire
  <2>3. ASSUME NEW a \in Assets PROVE account[a] = balance[a]
    <3>1. SumFunction(InWire(a)) = 0
      BY <2>i, <2>2, InWireType, SumOfZeros
    <3>2. SumFunction(Deltas(a)) = 0
      BY <2>i, BooksType, SumOfZeros
    <3>3. account[a] = Booked(a) + SumFunction(InWire(a)) /\ balance[a] \in Int
      BY <2>i, BooksBalanceMeans, BooksType DEF TInv
    <3> QED BY <3>1, <3>2, <3>3 DEF Booked
  <2> QED BY <2>3 DEF TInv, IInv, TypeOK
<1> QED BY <1>1, TradingInvariant, PTL
=============================================================================
