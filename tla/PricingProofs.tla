--------------------------- MODULE PricingProofs ----------------------------
(***************************************************************************)
(* The arithmetic of the quantities, for every precision, price, offer,    *)
(* step size and budget.                                                   *)
(***************************************************************************)
EXTENDS Pricing, WorkerProofs, SumProofs

-----------------------------------------------------------------------------
(* Natural numbers.                                                        *)

(* What \div returns is a natural number, and the divisor times it is the  *)
(* largest multiple that does not exceed the dividend.                     *)
LEMMA DivFacts ==
    ASSUME NEW n \in Nat, NEW d \in Nat \ {0}
    PROVE  /\ n \div d \in Nat
           /\ d * (n \div d) <= n
           /\ n < d * (n \div d) + d
OBVIOUS

(* A multiple of the divisor that does not exceed the dividend is bounded  *)
(* by the quotient, and a quotient by a number whose multiple exceeds it.  *)
LEMMA DivBounds ==
    ASSUME NEW n \in Nat, NEW d \in Nat \ {0}, NEW q \in Nat
    PROVE  /\ d * q <= n => q <= n \div d
           /\ n <= d * q => n \div d <= q
<1> DEFINE r == n \div d
<1>1. r \in Nat /\ d * r <= n /\ n < d * r + d
  BY DivFacts
<1> HIDE DEF r
<1>2. ASSUME d * q <= n PROVE q <= r
  <2>1. SUFFICES ASSUME q >= r + 1 PROVE FALSE
    BY <1>1
  <2>2. d * q >= d * (r + 1)
    BY <2>1, <1>1
  <2>3. d * (r + 1) = d * r + d
    BY <1>1
  <2> QED BY <2>2, <2>3, <1>1, <1>2
<1>3. ASSUME n <= d * q PROVE r <= q
  <2>1. SUFFICES ASSUME r >= q + 1 PROVE FALSE
    BY <1>1
  <2>2. d * r >= d * (q + 1)
    BY <2>1, <1>1
  <2>3. d * (q + 1) = d * q + d
    OBVIOUS
  <2> QED BY <2>2, <2>3, <1>1, <1>3
<1> QED BY <1>2, <1>3 DEF r

-----------------------------------------------------------------------------
(* PreciseNumber.                                                          *)

(* Products and quotients of amounts that are not negative are plain       *)
(* divisions.                                                              *)
LEMMA ProductsAndQuotients ==
    ASSUME NEW a \in Nat, NEW b \in Nat
    PROVE  /\ a * b \in Nat /\ a * kPrecision \in Nat
           /\ Times(a, b) = (a * b) \div kPrecision
           /\ Times(a, b) \in Nat
           /\ Over(a, b) \in Nat
           /\ b # 0 => Over(a, b) = (a * kPrecision) \div b
<1>1. kPrecision \in Nat \ {0}
  BY PrecisionAssumption
<1>2. a * b \in Nat /\ a * kPrecision \in Nat
  BY <1>1
<1>3. /\ Times(a, b) = (a * b) \div kPrecision
      /\ b # 0 => Over(a, b) = (a * kPrecision) \div b
  BY <1>2 DEF Times, Over, Truncated
<1>4. (a * b) \div kPrecision \in Nat
  BY <1>1, <1>2, DivFacts
<1>5. b # 0 => (a * kPrecision) \div b \in Nat
  BY <1>2, DivFacts
<1>6. b = 0 => Over(a, b) = 0
  BY DEF Over
<1> QED BY <1>2, <1>3, <1>4, <1>5, <1>6

(* A product grows with its factor.                                        *)
LEMMA TimesMonotone ==
    ASSUME NEW a \in Nat, NEW c \in Nat, NEW p \in Nat, a <= c
    PROVE  Times(a, p) <= Times(c, p)
<1> DEFINE r == Times(a, p)
<1>1. kPrecision \in Nat \ {0}
  BY PrecisionAssumption
<1>2. /\ a * p \in Nat /\ c * p \in Nat
      /\ r \in Nat /\ r = (a * p) \div kPrecision
      /\ Times(c, p) = (c * p) \div kPrecision
  BY ProductsAndQuotients
<1>3. kPrecision * r <= a * p
  BY <1>1, <1>2, DivFacts
<1>4. a * p <= c * p
  OBVIOUS
<1> HIDE DEF r
<1>5. kPrecision * r <= c * p
  <2>1. kPrecision * r \in Nat
    BY <1>1, <1>2
  <2> QED BY <2>1, <1>2, <1>3, <1>4
<1>6. r <= (c * p) \div kPrecision
  BY <1>1, <1>2, <1>5, DivBounds
<1> QED BY <1>2, <1>6 DEF r

(* A quotient grows with its dividend.                                     *)
LEMMA OverMonotone ==
    ASSUME NEW a \in Nat, NEW c \in Nat, NEW p \in Nat, a <= c
    PROVE  Over(a, p) <= Over(c, p)
<1> DEFINE r == Over(a, p)
<1>1. CASE p = 0
  BY <1>1 DEF Over
<1>2. CASE p # 0
  <2>1. kPrecision \in Nat \ {0} /\ p \in Nat \ {0}
    BY <1>2, PrecisionAssumption
  <2>2. /\ a * kPrecision \in Nat /\ c * kPrecision \in Nat
        /\ r \in Nat /\ r = (a * kPrecision) \div p
        /\ Over(c, p) = (c * kPrecision) \div p
    BY <1>2, ProductsAndQuotients
  <2>3. p * r <= a * kPrecision
    BY <2>1, <2>2, DivFacts
  <2>4. a * kPrecision <= c * kPrecision
    BY <2>1
  <2> HIDE DEF r
  <2>5. p * r <= c * kPrecision
    <3>1. p * r \in Nat
      BY <2>2
    <3> QED BY <3>1, <2>2, <2>3, <2>4
  <2>6. r <= (c * kPrecision) \div p
    BY <2>1, <2>2, <2>5, DivBounds
  <2> QED BY <2>2, <2>6 DEF r
<1> QED BY <1>1, <1>2

(* What an amount buys costs no more than the amount, however often it is  *)
(* rounded.                                                                *)
LEMMA TimesOver ==
    ASSUME NEW a \in Nat, NEW p \in Nat
    PROVE  Times(Over(a, p), p) <= a
<1> DEFINE q == Over(a, p)
<1>1. kPrecision \in Nat \ {0}
  BY PrecisionAssumption
<1>2. q \in Nat /\ a * kPrecision \in Nat
  BY ProductsAndQuotients
<1>3. q * p \in Nat /\ Times(q, p) = (q * p) \div kPrecision
  BY <1>2, ProductsAndQuotients
<1>4. q * p <= kPrecision * a
  <2>1. CASE p = 0
    <3>1. q * p = 0
      BY <2>1, <1>2
    <3> QED BY <3>1, <1>1, <1>2
  <2>2. CASE p # 0
    <3>1. q = (a * kPrecision) \div p
      BY <2>2, ProductsAndQuotients
    <3>2. p * q <= a * kPrecision
      BY <2>2, <1>2, <3>1, DivFacts
    <3> HIDE DEF q
    <3>3. p * q = q * p /\ a * kPrecision = kPrecision * a
      BY <1>1, <1>2
    <3> QED BY <3>2, <3>3
  <2> QED BY <2>1, <2>2
<1> HIDE DEF q
<1>5. (q * p) \div kPrecision <= a
  BY <1>1, <1>3, <1>4, DivBounds
<1> QED BY <1>3, <1>5 DEF q

(* What the proceeds of an amount would be bought back with is no more     *)
(* than the amount.                                                        *)
LEMMA OverTimes ==
    ASSUME NEW a \in Nat, NEW p \in Nat
    PROVE  Over(Times(a, p), p) <= a
<1> DEFINE t == Times(a, p)
<1>1. kPrecision \in Nat \ {0}
  BY PrecisionAssumption
<1>2. t \in Nat /\ a * p \in Nat /\ t = (a * p) \div kPrecision
  BY ProductsAndQuotients
<1>3. t * kPrecision \in Nat /\ (p # 0 => Over(t, p) = (t * kPrecision) \div p)
  BY <1>2, ProductsAndQuotients
<1>4. kPrecision * t <= a * p
  BY <1>1, <1>2, DivFacts
<1> HIDE DEF t
<1>5. CASE p = 0
  BY <1>5 DEF Over, t
<1>6. CASE p # 0
  <2>1. t * kPrecision <= p * a
    <3>1. t * kPrecision = kPrecision * t /\ a * p = p * a
      BY <1>1, <1>2
    <3> QED BY <3>1, <1>4
  <2>2. (t * kPrecision) \div p <= a
    BY <1>3, <1>6, <2>1, DivBounds
  <2> QED BY <1>3, <1>6, <2>2 DEF t
<1> QED BY <1>5, <1>6

-----------------------------------------------------------------------------
(* Trades.                                                                 *)

(* Rounding down to a step, and capping by an offer, keep a quantity       *)
(* natural and do not increase it.                                         *)
LEMMA SteppedDown ==
    ASSUME NEW q \in Nat, NEW step \in Nat, NEW offer \in Nat
    PROVE  /\ q - Remainder(q, step) \in Nat
           /\ q - Remainder(q, step) <= q
           /\ Smaller(q, offer) \in Nat
           /\ Smaller(q, offer) <= q /\ Smaller(q, offer) <= offer
<1>1. Remainder(q, step) \in Nat /\ Remainder(q, step) <= q
  <2>1. CASE step = 0
    BY <2>1 DEF Remainder
  <2>2. CASE step # 0
    <3>1. q % step \in Nat /\ q % step <= q
      BY <2>2
    <3> QED BY <3>1, <2>2 DEF Remainder
  <2> QED BY <2>1, <2>2
<1>2. /\ Smaller(q, offer) \in Nat
      /\ Smaller(q, offer) <= q /\ Smaller(q, offer) <= offer
  BY DEF Smaller
<1> QED BY <1>1, <1>2

(* Trade::recalculateOrderQty (Trade.cpp:28-50) never asks for more than   *)
(* is offered, nor spends more than it is given: rounding, the step size   *)
(* and minNotional only lower the quantity.  This is why each order of an  *)
(* execution is covered by the proceeds of the one before it.              *)
THEOREM TradeWithinBudget ==
    ASSUME NEW m, NEW trade \in Trade, NEW budget \in Nat,
           orderPrice(m, trade) \in Nat, offerQty(m, trade) \in Nat
    PROVE  LET qty == recalculateOrderQty(m, trade, budget)
           IN  /\ qty \in Nat
               /\ qty <= offerQty(m, trade)
               /\ usedQty(Order(m, trade, qty)) <= budget
<1> DEFINE price      == orderPrice(m, trade)
           offer      == offerQty(m, trade)
           affordable == IF isLong(trade) THEN Over(budget, price) ELSE budget
           stepped    == affordable
                           - Remainder(affordable, baseAssetIncrement[trade.symbol])
           most       == Smaller(stepped, offer)
           qty        == recalculateOrderQty(m, trade, budget)
<1>1. price \in Nat /\ offer \in Nat
  OBVIOUS
<1>2. baseAssetIncrement[trade.symbol] \in Nat
  BY QuotesAssumption DEF Trade
<1>3. affordable \in Nat
  BY <1>1, ProductsAndQuotients
<1>4. stepped \in Nat /\ stepped <= affordable
  BY <1>1, <1>2, <1>3, SteppedDown
<1>5. most \in Nat /\ most <= stepped /\ most <= offer
  BY <1>1, <1>2, <1>4, SteppedDown
<1>6. qty = 0 \/ qty = most
  BY DEF recalculateOrderQty
<1> HIDE DEF price, offer, stepped, most, qty
<1>7. qty \in Nat /\ qty <= affordable /\ qty <= offer
  BY <1>1, <1>3, <1>4, <1>5, <1>6
<1>8. usedQty(Order(m, trade, qty))
        = IF isLong(trade) THEN Times(qty, price) ELSE qty
  BY DEF usedQty, Order, isLong, price
<1>9. CASE isLong(trade)
  <2>1. affordable = Over(budget, price)
    BY <1>9
  <2> HIDE DEF affordable
  <2>2. Times(qty, price) <= Times(affordable, price)
    BY <1>1, <1>3, <1>7, TimesMonotone
  <2>3. Times(affordable, price) <= budget
    BY <1>1, <2>1, TimesOver
  <2>4. Times(qty, price) \in Nat /\ Times(affordable, price) \in Nat
    BY <1>1, <1>3, <1>7, ProductsAndQuotients
  <2>5. Times(qty, price) <= budget
    BY <2>2, <2>3, <2>4
  <2> QED BY <1>7, <1>8, <1>9, <2>5 DEF qty, offer
<1>10. CASE ~isLong(trade)
  BY <1>7, <1>8, <1>10 DEF qty, offer
<1> QED BY <1>9, <1>10

(* What rounding down to a step leaves is a whole number of steps.         *)
LEMMA SteppedIsMultiple ==
    ASSUME NEW q \in Nat, NEW step \in Nat
    PROVE  Remainder(q - Remainder(q, step), step) = 0
<1>1. CASE step = 0
  BY <1>1 DEF Remainder
<1>2. CASE step # 0
  <2> DEFINE r == q % step
             k == q \div step
             x == q - r
             j == x \div step
             s == x % step
  <2>1. k \in Nat /\ r \in Nat /\ r < step /\ q = step * k + r
    BY <1>2
  <2>2. x \in Nat /\ x = step * k
    BY <2>1
  <2> HIDE DEF r, k, x
  <2>3. j \in Nat /\ s \in Nat /\ s < step /\ x = step * j + s
    <3>1. x \in Nat
      BY <2>2
    <3> QED BY <1>2, <3>1
  <2> HIDE DEF j, s
  <2>4. ~ (k > j)
    <3> SUFFICES ASSUME k >= j + 1 PROVE FALSE
      BY <2>1, <2>3
    <3>1. step * k >= step * (j + 1) /\ step * (j + 1) = step * j + step
      BY <2>1, <2>3
    <3>2. step * k \in Nat /\ step * j \in Nat
      BY <2>1, <2>3
    <3> QED BY <2>2, <2>3, <3>1, <3>2
  <2>5. ~ (k < j)
    <3> SUFFICES ASSUME j >= k + 1 PROVE FALSE
      BY <2>1, <2>3
    <3>1. step * j >= step * (k + 1) /\ step * (k + 1) = step * k + step
      BY <2>1, <2>3
    <3>2. step * k \in Nat /\ step * j \in Nat
      BY <2>1, <2>3
    <3> QED BY <1>2, <2>2, <2>3, <3>1, <3>2
  <2>6. k = j
    BY <2>1, <2>3, <2>4, <2>5
  <2>7. s = 0
    <3>1. step * k \in Nat
      BY <2>1
    <3> QED BY <2>2, <2>3, <2>6, <3>1
  <2> QED BY <1>2, <2>7 DEF Remainder, r, x, s
<1> QED BY <1>1, <1>2

(* Nothing multiplied, or divided, is nothing.                             *)
LEMMA NothingScaled ==
    ASSUME NEW p \in Nat
    PROVE  Times(0, p) = 0 /\ Over(0, p) = 0
<1>1. kPrecision \in Nat \ {0} /\ 0 * p = 0 /\ 0 * kPrecision = 0
  BY PrecisionAssumption
<1>2. \A d \in Nat \ {0} : 0 \div d = 0
  <2> TAKE d \in Nat \ {0}
  <2>1. 0 \div d \in Nat /\ 0 \div d <= 0
    BY DivFacts, DivBounds
  <2> QED BY <2>1
<1> QED BY <1>1, <1>2 DEF Times, Over, Truncated

(* The quantity a trade asks for, when it asks for anything, is in whole   *)
(* steps, given that the offer is, and is worth minNotional (Trade.cpp:34, *)
(* 41); it asks for nothing when it is given nothing.                      *)
LEMMA TradeAcceptable ==
    ASSUME NEW m, NEW trade \in Trade, NEW budget \in Nat,
           orderPrice(m, trade) \in Nat, offerQty(m, trade) \in Nat,
           Remainder(offerQty(m, trade), baseAssetIncrement[trade.symbol]) = 0,
           recalculateOrderQty(m, trade, budget) > 0
    PROVE  LET qty == recalculateOrderQty(m, trade, budget)
           IN  /\ budget > 0
               /\ Remainder(qty, baseAssetIncrement[trade.symbol]) = 0
               /\ Times(qty, orderPrice(m, trade)) >= minNotional[trade.symbol]
<1> DEFINE price      == orderPrice(m, trade)
           offer      == offerQty(m, trade)
           step       == baseAssetIncrement[trade.symbol]
           affordable == IF isLong(trade) THEN Over(budget, price) ELSE budget
           stepped    == affordable - Remainder(affordable, step)
           most       == Smaller(stepped, offer)
           qty        == recalculateOrderQty(m, trade, budget)
<1>1. price \in Nat /\ offer \in Nat /\ Remainder(offer, step) = 0
  OBVIOUS
<1>2. step \in Nat /\ minNotional[trade.symbol] \in Nat
  BY QuotesAssumption DEF Trade
<1>3. affordable \in Nat
  BY <1>1, ProductsAndQuotients
<1>4. budget = 0 => affordable = 0
  BY <1>1, NothingScaled
<1>5. /\ stepped \in Nat /\ stepped <= affordable
      /\ Remainder(stepped, step) = 0
  <2> HIDE DEF affordable, step
  <2> QED BY <1>1, <1>2, <1>3, SteppedDown, SteppedIsMultiple
<1>6. qty = IF Times(most, price) < minNotional[trade.symbol] THEN 0 ELSE most
  BY DEF recalculateOrderQty
<1>7. qty > 0
  OBVIOUS
<1> HIDE DEF price, offer, step, affordable, stepped, qty
<1>8. most \in Nat /\ most <= stepped /\ Remainder(most, step) = 0
  BY <1>1, <1>5 DEF Smaller
<1> HIDE DEF most
<1>9. qty = most /\ ~ (Times(most, price) < minNotional[trade.symbol])
  BY <1>6, <1>7
<1>10. Times(most, price) \in Nat
  BY <1>1, <1>8, ProductsAndQuotients
<1>11. budget > 0
  BY <1>3, <1>4, <1>5, <1>7, <1>8, <1>9
<1>12. Times(qty, price) >= minNotional[trade.symbol]
  BY <1>2, <1>9, <1>10
<1> QED BY <1>8, <1>9, <1>11, <1>12 DEF qty, price, step

(* A quantity carried through a trade, capped by the offer, and back again *)
(* has not grown (Opportunity.cpp:40-43 against 59-69), also when less is  *)
(* carried back.                                                           *)
LEMMA RoundTrip ==
    ASSUME NEW m, NEW trade, NEW acc \in Nat, NEW back \in Nat,
           orderPrice(m, trade) \in Nat, offerQty(m, trade) \in Nat,
           back <= AfterTrade(m, trade, acc)
    PROVE  /\ BeforeTrade(m, trade, back) \in Nat
           /\ BeforeTrade(m, trade, back) <= acc
<1> DEFINE price == orderPrice(m, trade)
           offer == usedQty(Order(m, trade, offerQty(m, trade)))
           cap   == IF isLong(trade) THEN Times(offer, price) ELSE offer
           kept  == Smaller(acc, cap)
<1>1. price \in Nat
  OBVIOUS
<1>2. offer \in Nat
  BY ProductsAndQuotients DEF usedQty, Order, isLong
<1> HIDE DEF price, offer
<1>3. cap \in Nat
  BY <1>1, <1>2, ProductsAndQuotients
<1>4. kept \in Nat /\ kept <= acc
  BY <1>3, SteppedDown
<1>5. AfterTrade(m, trade, acc)
        = IF isLong(trade) THEN Over(kept, price) ELSE Times(kept, price)
  BY DEF AfterTrade, price, offer
<1>6. BeforeTrade(m, trade, back)
        = IF isLong(trade) THEN Times(back, price) ELSE Over(back, price)
  BY DEF BeforeTrade, price
<1> HIDE DEF kept
<1>7. CASE isLong(trade)
  <2>1. back <= Over(kept, price) /\ Over(kept, price) \in Nat
    BY <1>1, <1>4, <1>5, <1>7, ProductsAndQuotients
  <2>2. /\ Times(back, price) <= Times(Over(kept, price), price)
        /\ Times(back, price) \in Nat
        /\ Times(Over(kept, price), price) \in Nat
    BY <1>1, <2>1, TimesMonotone, ProductsAndQuotients
  <2>3. Times(Over(kept, price), price) <= kept
    BY <1>1, <1>4, TimesOver
  <2>4. Times(back, price) <= acc
    BY <1>4, <2>2, <2>3
  <2> QED BY <1>6, <1>7, <2>2, <2>4
<1>8. CASE ~isLong(trade)
  <2>1. back <= Times(kept, price) /\ Times(kept, price) \in Nat
    BY <1>1, <1>4, <1>5, <1>8, ProductsAndQuotients
  <2>2. /\ Over(back, price) <= Over(Times(kept, price), price)
        /\ Over(back, price) \in Nat
        /\ Over(Times(kept, price), price) \in Nat
    BY <1>1, <2>1, OverMonotone, ProductsAndQuotients
  <2>3. Over(Times(kept, price), price) <= kept
    BY <1>1, <1>4, OverTimes
  <2>4. Over(back, price) <= acc
    BY <1>4, <2>2, <2>3
  <2> QED BY <1>6, <1>8, <2>2, <2>4
<1> QED BY <1>7, <1>8

(* What a trade returns is a natural number.                               *)
LEMMA AfterTradeType ==
    ASSUME NEW m, NEW trade, NEW acc \in Nat,
           orderPrice(m, trade) \in Nat, offerQty(m, trade) \in Nat
    PROVE  AfterTrade(m, trade, acc) \in Nat
<1> DEFINE price == orderPrice(m, trade)
           offer == usedQty(Order(m, trade, offerQty(m, trade)))
<1>1. offer \in Nat
  BY ProductsAndQuotients DEF usedQty, Order, isLong
<1>2. price \in Nat
  OBVIOUS
<1> HIDE DEF price, offer
<1>3. Times(offer, price) \in Nat
  BY <1>1, <1>2, ProductsAndQuotients
<1>4. Smaller(acc, Times(offer, price)) \in Nat /\ Smaller(acc, offer) \in Nat
  BY <1>1, <1>3, SteppedDown
<1>5. /\ Over(Smaller(acc, Times(offer, price)), price) \in Nat
      /\ Times(Smaller(acc, offer), price) \in Nat
  BY <1>2, <1>4, ProductsAndQuotients
<1> QED BY <1>5 DEF AfterTrade, price, offer

-----------------------------------------------------------------------------
(* Paths of any length: the loops over the trades.                         *)

(* What a trade has to be given is a natural number.                       *)
LEMMA BeforeTradeType ==
    ASSUME NEW m, NEW trade, NEW acc \in Nat, orderPrice(m, trade) \in Nat
    PROVE  BeforeTrade(m, trade, acc) \in Nat
BY ProductsAndQuotients DEF BeforeTrade

(* The prices and offers along a path are natural numbers.                 *)
Quoted(m, path) ==
    /\ Len(path) \in Nat
    /\ \A i \in 1..Len(path) : /\ orderPrice(m, path[i]) \in Nat
                               /\ offerQty(m, path[i]) \in Nat

(* acc is what a budget becomes trade by trade.                            *)
Forward(m, path, budget, acc) ==
    /\ acc \in [0..Len(path) -> Nat] /\ acc[0] = budget
    /\ \A i \in 1..Len(path) : acc[i] = AfterTrade(m, path[i], acc[i - 1])

(* acc is what has to be given to return a quantity, trade by trade.       *)
Backward(m, path, qty, acc) ==
    /\ acc \in [1..Len(path) + 1 -> Nat] /\ acc[Len(path) + 1] = qty
    /\ \A i \in 1..Len(path) : acc[i] = BeforeTrade(m, path[i], acc[i + 1])

(* The loop of calculateMaxQtyAfterTrades.                                 *)
LEMMA MaxQtyIsForward ==
    ASSUME NEW m, NEW path, Quoted(m, path), NEW budget \in Nat
    PROVE  \E acc : /\ Forward(m, path, budget, acc)
                    /\ calculateMaxQtyAfterTrades(m, path, budget)
                          \in {0, acc[Len(path)]}
<1> DEFINE n   == Len(path)
           F   == [p \in (1..n) \X Nat |-> AfterTrade(m, path[p[1]], p[2])]
           Eq(f) == f = [i \in 0..Len(path) |->
                       IF i = 0 THEN budget ELSE AfterTrade(m, path[i], f[i-1])]
           acc == CHOOSE f : Eq(f)
<1>1. n \in Nat
  BY DEF Quoted
<1>2. \A i \in 1..n, x \in Nat : AfterTrade(m, path[i], x) \in Nat
  BY AfterTradeType DEF Quoted
<1>3. F \in [(1..n) \X Nat -> Nat]
  BY <1>2
<1>4. \A i \in 1..n, x \in Nat : F[<<i, x>>] = AfterTrade(m, path[i], x)
  OBVIOUS
<1> HIDE DEF F
<1>5. PICK g \in [0..n -> Nat] : Ascends(g, F, n, budget)
  BY <1>1, <1>3, StepsUp
<1>6. \A i \in 1..n : g[i] = AfterTrade(m, path[i], g[i - 1])
  <2> TAKE i \in 1..n
  <2>1. g[i] = F[<<i, g[i - 1]>>] /\ g[i - 1] \in Nat
    BY <1>1, <1>5 DEF Ascends
  <2> QED BY <1>4, <2>1
<1>7. Eq(g)
  <2>1. g[0] = budget
    BY <1>5 DEF Ascends
  <2>2. \A i \in 0..n : g[i] = IF i = 0 THEN budget ELSE AfterTrade(m, path[i], g[i-1])
    BY <1>1, <1>6, <2>1
  <2> QED BY <1>5, <2>2
<1>8. Eq(acc)
  <2> HIDE DEF Eq
  <2> QED BY <1>7
<1>9. calculateMaxQtyAfterTrades(m, path, budget) \in {0, acc[Len(path)]}
  BY DEF calculateMaxQtyAfterTrades
<1> HIDE DEF acc
<1>10. acc[0] = budget /\ \A i \in 1..n : acc[i] = AfterTrade(m, path[i], acc[i - 1])
  BY <1>1, <1>8
<1>11. DOMAIN acc = 0..n /\ acc = [i \in 0..n |-> acc[i]]
  BY <1>8
<1>12. \A i \in 0..n : acc[i] \in Nat
  <2> DEFINE T == {i \in 0..n : acc[i] \in Nat}
  <2>1. 0 \in T
    BY <1>1, <1>10
  <2>2. \A i \in 0..n-1 : i \in T => i + 1 \in T
    <3> TAKE i \in 0..n-1
    <3> HAVE i \in T
    <3>1. i + 1 \in 1..n /\ i + 1 \in 0..n /\ (i + 1) - 1 = i /\ acc[i] \in Nat
      BY <1>1
    <3>2. acc[i + 1] = AfterTrade(m, path[i + 1], acc[i])
      BY <1>10, <3>1
    <3> QED BY <1>2, <3>1, <3>2
  <2> HIDE DEF T
  <2>3. \A i \in 0..n : i \in T
    BY <1>1, <2>1, <2>2, ReachedUpwards
  <2> QED BY <2>3 DEF T
<1>13. acc \in [0..n -> Nat]
  BY <1>11, <1>12
<1> QED BY <1>9, <1>10, <1>13 DEF Forward

(* The loop of calculateStartingAssetQty, from the last trade to the       *)
(* first.                                                                  *)
LEMMA StartingQtyIsBackward ==
    ASSUME NEW m, NEW path, Quoted(m, path), NEW qty \in Nat
    PROVE  \E acc : /\ Backward(m, path, qty, acc)
                    /\ calculateStartingAssetQty(m, path, qty) \in {0, acc[1]}
<1> DEFINE n   == Len(path)
           F   == [p \in (1..n) \X Nat |-> BeforeTrade(m, path[p[1]], p[2])]
           Eq(f) == f = [i \in 1..Len(path) + 1 |->
                       IF i = Len(path) + 1 THEN qty
                       ELSE BeforeTrade(m, path[i], f[i+1])]
           acc == CHOOSE f : Eq(f)
<1>1. n \in Nat
  BY DEF Quoted
<1>2. \A i \in 1..n, x \in Nat : BeforeTrade(m, path[i], x) \in Nat
  BY BeforeTradeType DEF Quoted
<1>3. F \in [(1..n) \X Nat -> Nat]
  BY <1>2
<1>4. \A i \in 1..n, x \in Nat : F[<<i, x>>] = BeforeTrade(m, path[i], x)
  OBVIOUS
<1> HIDE DEF F
<1>5. PICK g \in [1..n+1 -> Nat] : Descends(g, F, n, qty)
  BY <1>1, <1>3, StepsDown
<1>6. \A i \in 1..n : g[i] = BeforeTrade(m, path[i], g[i + 1])
  <2> TAKE i \in 1..n
  <2>1. g[i] = F[<<i, g[i + 1]>>] /\ g[i + 1] \in Nat
    BY <1>1, <1>5 DEF Descends
  <2> QED BY <1>4, <2>1
<1>7. Eq(g)
  <2>1. g[n + 1] = qty
    BY <1>5 DEF Descends
  <2>2. \A i \in 1..n+1 : g[i] = IF i = n + 1 THEN qty ELSE BeforeTrade(m, path[i], g[i+1])
    BY <1>1, <1>6, <2>1
  <2> QED BY <1>5, <2>2
<1>8. Eq(acc)
  <2> HIDE DEF Eq
  <2> QED BY <1>7
<1>9. calculateStartingAssetQty(m, path, qty) \in {0, acc[1]}
  BY DEF calculateStartingAssetQty
<1> HIDE DEF acc
<1>10. acc[n + 1] = qty /\ \A i \in 1..n : acc[i] = BeforeTrade(m, path[i], acc[i + 1])
  BY <1>1, <1>8
<1>11. DOMAIN acc = 1..n+1 /\ acc = [i \in 1..n+1 |-> acc[i]]
  BY <1>8
<1>12. \A i \in 0..n : acc[i + 1] \in Nat
  <2> DEFINE T == {i \in 0..n : acc[i + 1] \in Nat}
  <2>1. n \in T
    BY <1>1, <1>10
  <2>2. \A i \in 1..n : i \in T => i - 1 \in T
    <3> TAKE i \in 1..n
    <3> HAVE i \in T
    <3>1. i - 1 \in 0..n /\ (i - 1) + 1 = i /\ acc[i + 1] \in Nat
      BY <1>1
    <3>2. acc[i] = BeforeTrade(m, path[i], acc[i + 1])
      BY <1>10
    <3> QED BY <1>2, <3>1, <3>2
  <2> HIDE DEF T
  <2>3. \A i \in 0..n : i \in T
    BY <1>1, <2>1, <2>2, ReachedDownwards
  <2> QED BY <2>3 DEF T
<1>13. \A i \in 1..n+1 : i - 1 \in 0..n /\ (i - 1) + 1 = i
  BY <1>1
<1>14. acc \in [1..n+1 -> Nat]
  <2>1. \A i \in 1..n+1 : acc[i] \in Nat
    <3> TAKE i \in 1..n+1
    <3> DEFINE k == i - 1
    <3>1. k \in 0..n /\ k + 1 = i
      BY <1>13
    <3> HIDE DEF k
    <3> QED BY <1>12, <3>1
  <2> QED BY <1>11, <2>1
<1> QED BY <1>9, <1>10, <1>14 DEF Backward

(* The capacity of a path never exceeds the budget it was computed from    *)
(* (Opportunity.cpp:77-79): going through the trades and back does not     *)
(* create money, although the cap of line 40 is in the wrong unit.         *)
THEOREM CapacityWithinBudget ==
    ASSUME NEW m, NEW path, Quoted(m, path), NEW budget \in Nat
    PROVE  LET capacity == calculateStartingAssetQty(m, path,
                               calculateMaxQtyAfterTrades(m, path, budget))
           IN  capacity \in Nat /\ capacity <= budget
<1> DEFINE n        == Len(path)
           qty      == calculateMaxQtyAfterTrades(m, path, budget)
           capacity == calculateStartingAssetQty(m, path, qty)
<1>1. /\ n \in Nat
      /\ \A i \in 1..n : orderPrice(m, path[i]) \in Nat /\ offerQty(m, path[i]) \in Nat
  BY DEF Quoted
<1>2. PICK acc : Forward(m, path, budget, acc) /\ qty \in {0, acc[n]}
  BY MaxQtyIsForward
<1>3. /\ acc \in [0..n -> Nat] /\ acc[0] = budget
      /\ \A i \in 1..n : acc[i] = AfterTrade(m, path[i], acc[i - 1])
  BY <1>2 DEF Forward
<1>4. qty \in Nat /\ qty <= acc[n]
  <2>1. acc[n] \in Nat
    BY <1>1, <1>3
  <2> QED BY <1>2, <2>1
<1>5. PICK back : Backward(m, path, qty, back) /\ capacity \in {0, back[1]}
  <2> HIDE DEF qty
  <2> QED BY <1>4, StartingQtyIsBackward
<1> HIDE DEF qty
<1>6. /\ back \in [1..n+1 -> Nat] /\ back[n + 1] = qty
      /\ \A i \in 1..n : back[i] = BeforeTrade(m, path[i], back[i + 1])
  BY <1>5 DEF Backward
<1>7. \A i \in 0..n : back[i + 1] <= acc[i]
  <2> DEFINE T == {i \in 0..n : back[i + 1] <= acc[i]}
  <2>1. n \in T
    BY <1>1, <1>4, <1>6
  <2>2. \A i \in 1..n : i \in T => i - 1 \in T
    <3> TAKE i \in 1..n
    <3> HAVE i \in T
    <3>1. /\ i - 1 \in 0..n /\ (i - 1) + 1 = i
          /\ back[i + 1] \in Nat /\ acc[i - 1] \in Nat
          /\ back[i + 1] <= acc[i]
      <4>1. i - 1 \in 0..n /\ (i - 1) + 1 = i /\ i + 1 \in 1..n+1
        BY <1>1
      <4>2. back[i + 1] \in Nat /\ acc[i - 1] \in Nat
        BY <1>3, <1>6, <4>1
      <4> QED BY <4>1, <4>2
    <3>2. acc[i] = AfterTrade(m, path[i], acc[i - 1])
      BY <1>3
    <3> DEFINE a == acc[i - 1]
               b == back[i + 1]
    <3>3. a \in Nat /\ b \in Nat /\ b <= AfterTrade(m, path[i], a)
      BY <3>1, <3>2
    <3>4. orderPrice(m, path[i]) \in Nat /\ offerQty(m, path[i]) \in Nat
      BY <1>1
    <3> HIDE DEF a, b
    <3>5. BeforeTrade(m, path[i], b) <= a
      BY <3>3, <3>4, RoundTrip
    <3>6. back[i] <= acc[i - 1]
      BY <1>6, <3>5 DEF a, b
    <3> QED BY <3>1, <3>6
  <2> HIDE DEF T
  <2>3. \A i \in 0..n : i \in T
    BY <1>1, <2>1, <2>2, ReachedDownwards
  <2> QED BY <2>3 DEF T
<1>8. back[1] \in Nat /\ back[1] <= budget
  <2>1. 0 \in 0..n /\ 1 \in 1..n+1 /\ 0 + 1 = 1
    BY <1>1
  <2>2. back[0 + 1] <= acc[0]
    BY <1>7, <2>1
  <2> QED BY <1>3, <1>6, <2>1, <2>2
<1>9. capacity \in Nat /\ capacity <= budget
  BY <1>5, <1>8
<1> QED BY <1>9 DEF qty

(* given is what each order has to spend: the capacity, then the proceeds  *)
(* of the order before it.                                                 *)
Chained(m, path, capacity, orders, given) ==
    /\ given \in [0..Len(path) -> Nat] /\ given[0] = capacity
    /\ orders = [i \in 1..Len(path) |-> orders[i]]
    /\ \A i \in 1..Len(path) :
          /\ orders[i] = Order(m, path[i],
                               recalculateOrderQty(m, path[i], given[i - 1]))
          /\ given[i] = recvQty(orders[i])

(* Orders of natural quantities spend and return natural amounts.          *)
LEMMA OrderAmounts ==
    ASSUME NEW m, NEW trade, orderPrice(m, trade) \in Nat, NEW q \in Nat
    PROVE  /\ usedQty(Order(m, trade, q)) \in Nat
           /\ recvQty(Order(m, trade, q)) \in Nat
BY ProductsAndQuotients DEF usedQty, recvQty, Order, isLong

(* The loop of Opportunity::update over the trades.                        *)
LEMMA OrdersAreChained ==
    ASSUME NEW m, NEW path \in TradingPaths, Quoted(m, path), NEW budget \in Nat
    PROVE  LET capacity == calculateStartingAssetQty(m, path,
                               calculateMaxQtyAfterTrades(m, path, budget))
           IN  \E given : Chained(m, path, capacity,
                                  UpdatedOrders(m, path, budget), given)
<1> DEFINE n == Len(path)
           capacity == calculateStartingAssetQty(m, path,
                           calculateMaxQtyAfterTrades(m, path, budget))
           O(i, x) == Order(m, path[i], recalculateOrderQty(m, path[i], x))
           F == [p \in (1..n) \X Nat |-> recvQty(O(p[1], p[2]))]
           Eq(f) == f = [i \in DOMAIN path |->
                       LET given == IF i = 1 THEN capacity ELSE recvQty(f[i-1])
                       IN  Order(m, path[i], recalculateOrderQty(m, path[i], given))]
           order == CHOOSE f : Eq(f)
           orders == UpdatedOrders(m, path, budget)
<1>1. /\ n \in Nat /\ DOMAIN path = 1..n
      /\ \A i \in 1..n : /\ path[i] \in Trade
                         /\ orderPrice(m, path[i]) \in Nat
                         /\ offerQty(m, path[i]) \in Nat
  BY PathFacts DEF Quoted
<1>2. capacity \in Nat
  BY CapacityWithinBudget
<1>3. orders = [i \in DOMAIN path |-> order[i]]
  BY DEF UpdatedOrders
<1> HIDE DEF capacity, orders
<1>4. \A i \in 1..n, x \in Nat : recvQty(O(i, x)) \in Nat
  <2> TAKE i \in 1..n, x \in Nat
  <2>1. recalculateOrderQty(m, path[i], x) \in Nat
    BY <1>1, TradeWithinBudget
  <2> QED BY <1>1, <2>1, OrderAmounts
<1> HIDE DEF O
<1>5. F \in [(1..n) \X Nat -> Nat]
  BY <1>4
<1>6. \A i \in 1..n, x \in Nat : F[<<i, x>>] = recvQty(O(i, x))
  OBVIOUS
<1> HIDE DEF F
<1>7. PICK g \in [0..n -> Nat] : Ascends(g, F, n, capacity)
  BY <1>1, <1>2, <1>5, StepsUp
<1>8. g[0] = capacity /\ \A i \in 1..n : g[i] = recvQty(O(i, g[i - 1]))
  <2> SUFFICES ASSUME NEW i \in 1..n PROVE g[i] = recvQty(O(i, g[i - 1]))
    BY <1>7 DEF Ascends
  <2>1. i - 1 \in 0..n
    BY <1>1
  <2>2. g[i - 1] \in Nat
    BY <2>1
  <2>3. g[i] = F[<<i, g[i - 1]>>]
    BY <1>7 DEF Ascends
  <2> QED BY <1>6, <2>2, <2>3
<1> DEFINE w == [i \in 1..n |-> O(i, g[i - 1])]
<1>9. \A i \in 1..n : w[i] = O(i, IF i = 1 THEN capacity ELSE recvQty(w[i - 1]))
  <2> TAKE i \in 1..n
  <2>1. w[i] = O(i, g[i - 1])
    OBVIOUS
  <2>2. CASE i = 1
    BY <1>8, <2>1, <2>2
  <2>3. CASE i # 1
    <3>1. i - 1 \in 1..n
      BY <1>1, <2>3
    <3>2. g[i - 1] = recvQty(O(i - 1, g[(i - 1) - 1])) /\ w[i - 1] = O(i - 1, g[(i - 1) - 1])
      BY <1>8, <3>1
    <3> QED BY <2>1, <2>3, <3>2
  <2> QED BY <2>2, <2>3
<1>10. w = [i \in 1..n |-> w[i]]
  OBVIOUS
<1> HIDE DEF w
<1>11. Eq(w)
  <2>1. \A i \in 1..n : w[i] =
            LET given == IF i = 1 THEN capacity ELSE recvQty(w[i-1])
            IN  Order(m, path[i], recalculateOrderQty(m, path[i], given))
    BY <1>9 DEF O
  <2> QED BY <1>1, <1>10, <2>1
<1>12. Eq(order)
  <2> HIDE DEF Eq
  <2> QED BY <1>11
<1> HIDE DEF order
<1>13. \A i \in 1..n : order[i] = O(i, IF i = 1 THEN capacity ELSE recvQty(order[i - 1]))
  <2>1. \A i \in 1..n : order[i] =
            LET given == IF i = 1 THEN capacity ELSE recvQty(order[i-1])
            IN  Order(m, path[i], recalculateOrderQty(m, path[i], given))
    BY <1>1, <1>12
  <2> QED BY <2>1 DEF O
<1> HIDE DEF Eq
<1> DEFINE given == [i \in 0..n |-> IF i = 0 THEN capacity ELSE recvQty(order[i])]
<1>14. /\ given[0] = capacity
       /\ \A i \in 1..n : given[i] = recvQty(order[i])
       /\ \A i \in 1..n : order[i] = O(i, given[i - 1])
  <2>1. 0 \in 0..n /\ \A i \in 1..n : i \in 0..n /\ i # 0 /\ i - 1 \in 0..n
                                       /\ (i - 1 = 0 <=> i = 1)
    BY <1>1
  <2> QED BY <1>13, <2>1
<1>15. given = [i \in 0..n |-> given[i]]
  OBVIOUS
<1> HIDE DEF given
<1>16. \A i \in 0..n : given[i] \in Nat
  <2> DEFINE T == {i \in 0..n : given[i] \in Nat}
  <2>1. 0 \in T
    BY <1>1, <1>2, <1>14
  <2>2. \A i \in 0..n-1 : i \in T => i + 1 \in T
    <3> TAKE i \in 0..n-1
    <3> HAVE i \in T
    <3>1. i + 1 \in 1..n /\ i + 1 \in 0..n /\ (i + 1) - 1 = i /\ given[i] \in Nat
      BY <1>1
    <3>2. given[i + 1] = recvQty(O(i + 1, given[i]))
      BY <1>14, <3>1
    <3> QED BY <1>4, <3>1, <3>2
  <2> HIDE DEF T
  <2>3. \A i \in 0..n : i \in T
    BY <1>1, <2>1, <2>2, ReachedUpwards
  <2> QED BY <2>3 DEF T
<1>17. given \in [0..n -> Nat]
  BY <1>15, <1>16
<1>18. orders = [i \in 1..n |-> orders[i]] /\ \A i \in 1..n : orders[i] = order[i]
  BY <1>1, <1>3
<1>19. Chained(m, path, capacity, orders, given)
  BY <1>14, <1>17, <1>18 DEF Chained, O
<1> QED BY <1>19 DEF capacity, orders

(* An amount scaled by less than one does not grow, and a negative factor  *)
(* leaves nothing.                                                         *)
LEMMA TimesFraction ==
    ASSUME NEW a \in Nat, NEW f \in Int, f <= kPrecision
    PROVE  Times(a, f) \in Int /\ Times(a, f) <= a
<1>1. kPrecision \in Nat \ {0}
  BY PrecisionAssumption
<1>2. CASE f >= 0
  <2>1. f \in Nat
    BY <1>2
  <2>2. /\ a * f \in Nat /\ Times(a, f) \in Nat
        /\ Times(a, f) = (a * f) \div kPrecision
    BY <2>1, ProductsAndQuotients
  <2>3. a * f <= kPrecision * a
    <3>1. a * f <= a * kPrecision
      BY <1>1, <2>1
    <3>2. a * kPrecision = kPrecision * a
      BY <1>1
    <3> QED BY <3>1, <3>2
  <2>4. (a * f) \div kPrecision <= a
    BY <1>1, <2>2, <2>3, DivBounds
  <2> QED BY <2>2, <2>4
<1>3. CASE f < 0
  <2>1. CASE a = 0
    <3>1. a * f = 0
      BY <2>1
    <3>2. 0 \div kPrecision = 0
      <4>1. 0 \div kPrecision \in Nat /\ 0 \div kPrecision <= 0
        BY <1>1, DivFacts, DivBounds
      <4> QED BY <4>1
    <3> QED BY <2>1, <3>1, <3>2 DEF Times, Truncated
  <2>2. CASE a # 0
    <3>1. a * f \in Int /\ a * f < 0
      BY <1>3, <2>2
    <3>2. (-(a * f)) \div kPrecision \in Nat
      BY <1>1, <3>1, DivFacts
    <3>3. Times(a, f) = -((-(a * f)) \div kPrecision)
      BY <3>1 DEF Times, Truncated
    <3> QED BY <3>2, <3>3
  <2> QED BY <2>1, <2>2
<1> QED BY <1>2, <1>3

(* A positive product with a factor that is not negative has a positive    *)
(* first factor.                                                           *)
LEMMA TimesPositive ==
    ASSUME NEW a \in Int, NEW v \in Nat, Times(a, v) > 0
    PROVE  a > 0
<1> SUFFICES ASSUME a <= 0 PROVE FALSE
  OBVIOUS
<1>1. kPrecision \in Nat \ {0}
  BY PrecisionAssumption
<1>2. a * v \in Int /\ a * v <= 0
  OBVIOUS
<1>3. CASE a * v = 0
  <2>1. 0 \div kPrecision \in Nat /\ 0 \div kPrecision <= 0
    BY <1>1, DivFacts, DivBounds
  <2>2. Times(a, v) = 0 \div kPrecision
    BY <1>3 DEF Times, Truncated
  <2> QED BY <2>1, <2>2
<1>4. CASE a * v < 0
  <2>1. (-(a * v)) \div kPrecision \in Nat
    BY <1>1, <1>2, <1>4, DivFacts
  <2>2. Times(a, v) = -((-(a * v)) \div kPrecision)
    BY <1>2, <1>4 DEF Times, Truncated
  <2> QED BY <2>1, <2>2
<1> QED BY <1>2, <1>3, <1>4

(* Amounts along a path of profitable orders.                              *)
LEMMA ChainAmounts ==
    ASSUME NEW m, NEW path \in TradingPaths, Quoted(m, path),
           NEW capacity, NEW orders, NEW given,
           Chained(m, path, capacity, orders, given)
    PROVE  \A i \in 1..Len(path) :
              /\ recalculateOrderQty(m, path[i], given[i - 1]) \in Nat
              /\ given[i - 1] \in Nat /\ given[i] \in Nat
              /\ recvQty(orders[i]) = given[i] /\ usedQty(orders[i]) \in Nat
              /\ usedQty(orders[i]) <= given[i - 1]
<1> SUFFICES ASSUME NEW i \in 1..Len(path)
             PROVE  /\ recalculateOrderQty(m, path[i], given[i - 1]) \in Nat
                    /\ given[i - 1] \in Nat /\ given[i] \in Nat
                    /\ recvQty(orders[i]) = given[i] /\ usedQty(orders[i]) \in Nat
                    /\ usedQty(orders[i]) <= given[i - 1]
  OBVIOUS
<1>1. /\ path[i] \in Trade /\ orderPrice(m, path[i]) \in Nat
      /\ offerQty(m, path[i]) \in Nat /\ Len(path) \in Nat
  BY PathFacts DEF Quoted
<1> DEFINE x == given[i - 1]
           q == recalculateOrderQty(m, path[i], x)
<1>2. x \in Nat /\ given[i] \in Nat
  BY <1>1 DEF Chained
<1>3. orders[i] = Order(m, path[i], q) /\ given[i] = recvQty(orders[i])
  BY DEF Chained
<1> HIDE DEF x
<1>4. q \in Nat /\ usedQty(Order(m, path[i], q)) <= x
  BY <1>1, <1>2, TradeWithinBudget
<1> HIDE DEF q
<1>5. usedQty(orders[i]) \in Nat
  BY <1>1, <1>3, <1>4, OrderAmounts
<1> QED BY <1>2, <1>3, <1>4, <1>5 DEF x, q

(* A path with a profit returns more than it spends, the commission not    *)
(* counted.                                                                *)
LEMMA ProfitIsGain ==
    ASSUME NEW path \in TradingPaths, NEW orders, totalProfit(path, orders) > 0,
           recvQty(orders[Len(path)]) \in Nat, usedQty(orders[1]) \in Nat
    PROVE  recvQty(orders[Len(path)]) > usedQty(orders[1])
<1> DEFINE last  == recvQty(orders[Len(path)])
           all   == Len(path) * kPrecision
           kept  == kPrecision - Times(commission, all)
           gain  == Times(last, kept) - usedQty(orders[1])
           value == relativeValue[StartingAsset(path)]
<1>1. Len(path) \in Nat /\ StartingAsset(path) \in Assets
  BY PathFacts
<1>2. kPrecision \in Nat /\ all \in Nat
  BY <1>1, PrecisionAssumption
<1>3. Times(commission, all) \in Nat
  BY <1>2, QuotesAssumption, ProductsAndQuotients
<1>4. kept \in Int /\ kept <= kPrecision
  BY <1>2, <1>3
<1>5. value \in Nat
  BY <1>1, QuotesAssumption
<1>6. Times(gain, value) > 0
  BY DEF totalProfit
<1> HIDE DEF kept, value, all
<1>7. Times(last, kept) \in Int /\ Times(last, kept) <= last
  BY <1>4, TimesFraction
<1>8. gain \in Int
  BY <1>7
<1>9. gain > 0
  BY <1>5, <1>6, <1>8, TimesPositive
<1> QED BY <1>7, <1>9

(* What update() guarantees of a profitable path (Opportunity.cpp:75-100): *)
(* the orders are natural quantities at the current prices, each is funded *)
(* by the one before it, the first by the budget, and the last returns     *)
(* more than the first spends, the commission not counted.                 *)
THEOREM PathProfitable ==
    ASSUME NEW m, NEW path \in TradingPaths, Quoted(m, path), NEW budget \in Nat,
           totalProfit(path, UpdatedOrders(m, path, budget)) > 0
    PROVE  LET orders == UpdatedOrders(m, path, budget)
           IN  /\ \E qty, price \in [DOMAIN path -> Nat] :
                     orders = Orders(path, qty, price)
               /\ Profitable(orders, budget)
<1> DEFINE n        == Len(path)
           orders   == UpdatedOrders(m, path, budget)
           capacity == calculateStartingAssetQty(m, path,
                           calculateMaxQtyAfterTrades(m, path, budget))
<1>1. /\ n \in Nat /\ n >= 1 /\ DOMAIN path = 1..n
      /\ \A i \in 1..n : orderPrice(m, path[i]) \in Nat
  BY PathFacts DEF Quoted
<1>2. PICK given : Chained(m, path, capacity, orders, given)
  BY OrdersAreChained
<1>3. capacity \in Nat /\ capacity <= budget
  BY CapacityWithinBudget
<1>4. totalProfit(path, orders) > 0
  OBVIOUS
<1> HIDE DEF orders, capacity
<1>5. \A i \in 1..n :
         /\ recalculateOrderQty(m, path[i], given[i - 1]) \in Nat
         /\ given[i - 1] \in Nat /\ given[i] \in Nat
         /\ recvQty(orders[i]) = given[i] /\ usedQty(orders[i]) \in Nat
         /\ usedQty(orders[i]) <= given[i - 1]
  BY <1>2, ChainAmounts
<1>6. /\ given[0] = capacity /\ orders = [i \in 1..n |-> orders[i]]
      /\ \A i \in 1..n : orders[i] =
            Order(m, path[i], recalculateOrderQty(m, path[i], given[i - 1]))
  BY <1>2 DEF Chained
<1>7. \E qty, price \in [DOMAIN path -> Nat] : orders = Orders(path, qty, price)
  <2> DEFINE qty   == [i \in 1..n |-> recalculateOrderQty(m, path[i], given[i - 1])]
             price == [i \in 1..n |-> orderPrice(m, path[i])]
  <2>1. qty \in [1..n -> Nat] /\ price \in [1..n -> Nat]
    BY <1>1, <1>5
  <2>2. \A i \in 1..n : orders[i] = Order(m, path[i], qty[i])
    BY <1>6
  <2> HIDE DEF qty
  <2>3. orders = [i \in 1..n |-> Order(m, path[i], qty[i])]
    BY <1>6, <2>2
  <2>4. orders = Orders(path, qty, price)
    BY <1>1, <2>3 DEF Orders, Order
  <2> QED BY <1>1, <2>1, <2>4
<1>8. recvQty(orders[n]) > usedQty(orders[1])
  <2>1. 1 \in 1..n /\ n \in 1..n
    BY <1>1
  <2>2. recvQty(orders[n]) \in Nat /\ usedQty(orders[1]) \in Nat
    BY <1>5, <2>1
  <2> QED BY <1>4, <2>2, ProfitIsGain
<1>9. Len(orders) = n
  BY <1>1, <1>6
<1>10. usedQty(orders[1]) <= budget
  <2>1. 1 \in 1..n /\ 1 - 1 = 0
    BY <1>1
  <2>2. usedQty(orders[1]) <= given[1 - 1] /\ usedQty(orders[1]) \in Nat
    BY <1>5, <2>1
  <2> QED BY <1>3, <1>6, <2>1, <2>2
<1>11. \A i \in 1..n-1 : usedQty(orders[i+1]) <= recvQty(orders[i])
  <2> TAKE i \in 1..n-1
  <2>1. i \in 1..n /\ i + 1 \in 1..n /\ (i + 1) - 1 = i
    BY <1>1
  <2>2. recvQty(orders[i]) = given[i]
    BY <1>5, <2>1
  <2>3. usedQty(orders[i + 1]) <= given[(i + 1) - 1]
    BY <1>5, <2>1
  <2> QED BY <2>1, <2>2, <2>3
<1>12. Profitable(orders, budget)
  BY <1>8, <1>9, <1>10, <1>11 DEF Profitable
<1> QED BY <1>7, <1>12 DEF orders

(* Every offer is a whole number of the steps of its symbol.               *)
OfferedInSteps(m) ==
    \A s \in Symbols :
        /\ Remainder(m[s].bidQty, baseAssetIncrement[s]) = 0
        /\ Remainder(m[s].askQty, baseAssetIncrement[s]) = 0

(* When the last order of a chain returns something, every order asks for  *)
(* something, in whole steps, and for no more than is offered.             *)
LEMMA ChainAcceptable ==
    ASSUME NEW m, NEW path \in TradingPaths, Quoted(m, path),
           OfferedInSteps(m),
           NEW capacity, NEW orders, NEW given,
           Chained(m, path, capacity, orders, given),
           given[Len(path)] > 0
    PROVE  \A i \in 1..Len(path) : Acceptable(m, orders[i])
<1> DEFINE n    == Len(path)
           Q(i) == recalculateOrderQty(m, path[i], given[i - 1])
<1>1. /\ n \in Nat
      /\ \A i \in 1..n :
            /\ path[i] \in Trade /\ orderPrice(m, path[i]) \in Nat
            /\ offerQty(m, path[i]) \in Nat
            /\ Remainder(offerQty(m, path[i]),
                         baseAssetIncrement[path[i].symbol]) = 0
  BY PathFacts DEF Quoted, OfferedInSteps, offerQty, Trade
<1>2. \A i \in 1..n : /\ Q(i) \in Nat /\ given[i - 1] \in Nat /\ given[i] \in Nat
                      /\ given[i] = recvQty(Order(m, path[i], Q(i)))
                      /\ orders[i] = Order(m, path[i], Q(i))
  <2>1. \A i \in 1..n : Q(i) \in Nat /\ given[i - 1] \in Nat /\ given[i] \in Nat
    BY ChainAmounts
  <2>2. \A i \in 1..n : /\ given[i] = recvQty(Order(m, path[i], Q(i)))
                        /\ orders[i] = Order(m, path[i], Q(i))
    BY DEF Chained
  <2> QED BY <2>1, <2>2
<1>3. \A i \in 1..n : Q(i) > 0 => given[i - 1] > 0
  BY <1>1, <1>2, TradeAcceptable
<1>4. \A i \in 1..n : given[i] > 0 => Q(i) > 0
  <2> TAKE i \in 1..n
  <2> HAVE given[i] > 0
  <2>1. Q(i) \in Nat /\ given[i] = recvQty(Order(m, path[i], Q(i)))
    BY <1>2
  <2>2. orderPrice(m, path[i]) \in Nat
    BY <1>1
  <2> HIDE DEF Q
  <2>3. SUFFICES ASSUME Q(i) = 0 PROVE FALSE
    BY <2>1
  <2>4. recvQty(Order(m, path[i], 0)) = 0
    BY <2>2, NothingScaled DEF recvQty, Order, isLong
  <2> QED BY <2>1, <2>3, <2>4
<1> HIDE DEF Q
<1>5. \A i \in 0..n : given[i] > 0
  <2> DEFINE T == {i \in 0..n : given[i] > 0}
  <2>1. n \in T
    BY <1>1
  <2>2. \A i \in 1..n : i \in T => i - 1 \in T
    <3> TAKE i \in 1..n
    <3> HAVE i \in T
    <3>1. i - 1 \in 0..n
      BY <1>1
    <3> QED BY <1>3, <1>4, <3>1
  <2> HIDE DEF T
  <2>3. \A i \in 0..n : i \in T
    BY <1>1, <2>1, <2>2, ReachedDownwards
  <2> QED BY <2>3 DEF T
<1> TAKE i \in 1..n
<1> DEFINE x == given[i - 1]
           q == Q(i)
           p == orderPrice(m, path[i])
           s == path[i].symbol
<1>6. i \in 0..n
  BY <1>1
<1>7. q > 0 /\ q \in Nat /\ x \in Nat
  BY <1>2, <1>4, <1>5, <1>6
<1>8. q = recalculateOrderQty(m, path[i], x)
  BY DEF Q
<1> HIDE DEF x, q
<1>9. q <= offerQty(m, path[i])
  BY <1>1, <1>7, <1>8, TradeWithinBudget
<1>10. Remainder(q, baseAssetIncrement[s]) = 0 /\ Times(q, p) >= minNotional[s]
  BY <1>1, <1>7, <1>8, TradeAcceptable
<1>11. orders[i] = Order(m, path[i], q)
  BY <1>2 DEF q
<1>12. /\ orders[i].orderQty = q /\ orders[i].orderPrice = p
       /\ orders[i].symbol = s
       /\ offerQty(m, orders[i]) = offerQty(m, path[i])
  BY <1>11 DEF Order, offerQty, isLong
<1>13. q \in 1..offerQty(m, path[i])
  BY <1>1, <1>7, <1>9
<1> HIDE DEF p, s
<1> QED BY <1>10, <1>12, <1>13 DEF Acceptable

(* The orders of a profitable path are acceptable to the exchange.         *)
LEMMA PathAcceptable ==
    ASSUME NEW m, NEW path \in TradingPaths, Quoted(m, path),
           OfferedInSteps(m), NEW budget \in Nat,
           totalProfit(path, UpdatedOrders(m, path, budget)) > 0
    PROVE  \A i \in 1..Len(path) :
              Acceptable(m, UpdatedOrders(m, path, budget)[i])
<1> DEFINE n        == Len(path)
           orders   == UpdatedOrders(m, path, budget)
           capacity == calculateStartingAssetQty(m, path,
                           calculateMaxQtyAfterTrades(m, path, budget))
<1>1. n \in Nat /\ n >= 1
  BY PathFacts
<1>2. PICK given : Chained(m, path, capacity, orders, given)
  BY OrdersAreChained
<1>3. totalProfit(path, orders) > 0
  OBVIOUS
<1> HIDE DEF orders, capacity
<1>4. /\ recvQty(orders[n]) = given[n] /\ given[n] \in Nat
      /\ usedQty(orders[1]) \in Nat
  <2>1. 1 \in 1..n /\ n \in 1..n
    BY <1>1
  <2> QED BY <1>2, <2>1, ChainAmounts
<1>5. recvQty(orders[n]) > usedQty(orders[1])
  BY <1>3, <1>4, ProfitIsGain
<1>6. given[n] > 0
  BY <1>4, <1>5
<1>7. \A i \in 1..n : Acceptable(m, orders[i])
  BY <1>2, <1>6, ChainAcceptable
<1> QED BY <1>7 DEF orders

-----------------------------------------------------------------------------
(* The engine with prices.                                                 *)

(* The quotes are natural numbers.                                         *)
QuoteType == quote \in [Symbols -> [bidPrice : Nat, bidQty : Nat,
                                    askPrice : Nat, askQty : Nat]]

(* Quantities and prices are not bounded.                                  *)
UnboundedMarket == Quantities = Nat /\ Prices = Nat

(* The quotes along a path are natural numbers.                            *)
LEMMA PathQuoted ==
    ASSUME NEW m \in [Symbols -> [bidPrice : Nat, bidQty : Nat,
                                  askPrice : Nat, askQty : Nat]],
           NEW path \in TradingPaths
    PROVE  Quoted(m, path)
<1>1. /\ Len(path) \in Nat /\ \A i \in 1..Len(path) : path[i].symbol \in Symbols
  BY PathFacts DEF Trade
<1> QED BY <1>1 DEF Quoted, orderPrice, offerQty

(* A launch with computed quantities is a launch with funded ones.         *)
LEMMA PricedLaunch ==
    ASSUME UnboundedMarket, IInv, QuoteType', NEW symbol \in Symbols,
           nextId \in ExecutionIds,
           NEW best \in Candidates(quote', symbol),
           Launch(best.path, best.orders)
    PROVE  ExecuteBest(symbol) /\ LaunchFunded
<1> DEFINE m      == quote'
           path   == best.path
           orders == best.orders
           budget == balance[StartingAsset(path)]
<1>1. /\ path \in TradingPaths /\ symbol \in SymbolsOf(path)
      /\ budget > 0
      /\ orders = UpdatedOrders(m, path, budget)
      /\ totalProfit(path, orders) > 0
      /\ SymbolsOf(path) \cap reserved = {}
  BY DEF Candidates
<1>2. /\ DOMAIN path = 1..Len(path) /\ StartingAsset(path) \in Assets
  BY <1>1, PathFacts
<1>3. budget \in Nat
  BY <1>1, <1>2 DEF IInv, TypeOK
<1>4. Quoted(m, path)
  BY <1>1, PathQuoted DEF QuoteType
<1>5. /\ \E qty, price \in [DOMAIN path -> Nat] :
            orders = Orders(path, qty, price)
      /\ Profitable(orders, budget)
  <2> HIDE DEF m, path, orders, budget
  <2> QED BY <1>1, <1>3, <1>4, PathProfitable
<1>6. Launch(path, orders)
  OBVIOUS
<1> HIDE DEF m, path, orders
<1>7. ExecuteBest(symbol)
  <2>1. PICK qty, price \in [DOMAIN path -> Nat] :
            orders = Orders(path, qty, price)
    BY <1>5
  <2>2. /\ qty \in [DOMAIN path -> Quantities]
        /\ price \in [DOMAIN path -> Prices]
    BY DEF UnboundedMarket
  <2>3. /\ Profitable(Orders(path, qty, price), budget)
        /\ Launch(path, Orders(path, qty, price))
    BY <1>5, <1>6, <2>1
  <2> QED BY <1>1, <2>2, <2>3 DEF ExecuteBest
<1>8. LaunchFunded
  <2>1. executionsMap'[nextId].path = path
    BY <1>6 DEF Launch, Emplace
  <2>2. \A i \in DOMAIN path : executionIdMap'[<<nextId, i>>].trade = orders[i]
    <3> TAKE i \in DOMAIN path
    <3>1. <<nextId, i>> \in NewOrderIds(path)
      BY <1>2 DEF NewOrderIds
    <3>2. executionIdMap' =
            [o \in DOMAIN executionIdMap \cup NewOrderIds(path) |->
                IF o \in NewOrderIds(path)
                THEN [trade |-> orders[o[2]], executionId |-> nextId]
                ELSE executionIdMap[o]]
      BY <1>6 DEF Launch
    <3> QED BY <3>1, <3>2
  <2>3. orders = [i \in DOMAIN path |-> orders[i]]
    BY <1>5 DEF Orders
  <2>4. [i \in DOMAIN path |-> executionIdMap'[<<nextId, i>>].trade] = orders
    BY <2>2, <2>3
  <2> QED BY <1>5, <2>1, <2>4 DEF LaunchFunded
<1> QED BY <1>7, <1>8

(* Every step of the engine with prices is a step of the engine or leaves  *)
(* it alone, keeps the quotes natural, and launches funded orders only.    *)
LEMMA PricingStep ==
    ASSUME UnboundedMarket, IInv, QuoteType, [PricingNext]_pricingVars
    PROVE  [WorkerNext]_workerVars /\ QuoteType' /\ [LaunchFunded]_pricingVars
<1>1. CASE UNCHANGED pricingVars
  BY <1>1 DEF pricingVars, QuoteType
<1>2. ASSUME NEW symbol \in Symbols, NEW q \in Quotes, PricedUpdate(symbol, q)
      PROVE  [WorkerNext]_workerVars /\ QuoteType' /\ LaunchFunded
  <2>1. QuoteType'
    BY <1>2, QuotesAssumption DEF PricedUpdate, QuoteType
  <2>2. CASE UNCHANGED workerVars
    BY <2>1, <2>2 DEF LaunchFunded, workerVars, books
  <2>3. CASE ~ UNCHANGED workerVars
    <3>1. /\ nextId \in ExecutionIds
          /\ \E best \in Best(Candidates(quote', symbol)) :
                Launch(best.path, best.orders)
      BY <1>2, <2>3 DEF PricedUpdate
    <3>2. PICK best \in Candidates(quote', symbol) :
             Launch(best.path, best.orders)
      BY <3>1 DEF Best
    <3>3. ExecuteBest(symbol) /\ LaunchFunded
      BY <2>1, <3>1, <3>2, PricedLaunch
    <3> QED BY <2>1, <3>3 DEF WorkerNext, processPriceUpdate
  <2> QED BY <2>2, <2>3
<1>3. ASSUME NEW r \in Report, processReport(r), UNCHANGED quote
      PROVE  [WorkerNext]_workerVars /\ QuoteType' /\ LaunchFunded
  <2>1. QuoteType'
    BY <1>3 DEF QuoteType
  <2>2. nextId' = nextId
    BY <1>3, ReportsAreNumeric, ReportSettles DEF Settle, workerVars, books
  <2> QED BY <1>3, <2>1, <2>2 DEF WorkerNext, LaunchFunded
<1> QED BY <1>1, <1>2, <1>3 DEF PricingNext

(* The engine with prices keeps the inductive invariant of the engine.     *)
LEMMA PricingInvariant ==
    ASSUME UnboundedMarket
    PROVE  PricingSpec => [](IInv /\ QuoteType)
<1>1. PricingInit => IInv /\ QuoteType
  BY InitIInv DEF PricingInit, QuoteType, NoQuote
<1>2. IInv /\ QuoteType /\ [PricingNext]_pricingVars => IInv' /\ QuoteType'
  BY PricingStep, NextIInv
<1> QED BY <1>1, <1>2, PTL DEF PricingSpec

(* The engine with prices implements the engine whose quantities are left  *)
(* open: what is proved of module Worker holds with the quantities the     *)
(* code computes, on every market and for paths of any length.             *)
THEOREM PricingImplementsWorker ==
    ASSUME UnboundedMarket
    PROVE  PricingSpec => WorkerSpec
<1>1. PricingInit => WorkerInit
  BY DEF PricingInit
<1>2. IInv /\ QuoteType /\ [PricingNext]_pricingVars => [WorkerNext]_workerVars
  BY PricingStep
<1> QED BY <1>1, <1>2, PricingInvariant, PTL DEF PricingSpec, WorkerSpec

(* Whatever the quotes are, and however the quantities are rounded, every  *)
(* order of a launched execution is funded (Trade.cpp:28-50,               *)
(* Opportunity.cpp:23-100).                                                *)
THEOREM PricingOrdersFunded ==
    ASSUME UnboundedMarket
    PROVE  PricingSpec => OrdersFunded
<1>1. IInv /\ QuoteType /\ [PricingNext]_pricingVars
        => [LaunchFunded]_pricingVars
  BY PricingStep
<1> QED BY <1>1, PricingInvariant, PTL DEF PricingSpec, OrdersFunded

(* The exchange quotes in whole steps.  recalculateOrderQty rounds down to *)
(* a step first and takes the smaller of that and the offer afterwards     *)
(* (Trade.cpp:34-38), so the code relies on it.                            *)
QuotedInSteps ==
    \A q \in Quotes, s \in Symbols :
        /\ Remainder(q.bidQty, baseAssetIncrement[s]) = 0
        /\ Remainder(q.askQty, baseAssetIncrement[s]) = 0

(* The offers known to the engine are in whole steps.                      *)
OfferSteps == OfferedInSteps(quote)

(* Quotes in whole steps make offers in whole steps, before and after the  *)
(* first of them.                                                          *)
LEMMA OffersStayInSteps ==
    ASSUME QuotedInSteps
    PROVE  /\ PricingInit => OfferSteps
           /\ QuoteType /\ OfferSteps /\ [PricingNext]_pricingVars
                => OfferSteps'
<1>1. ASSUME PricingInit PROVE OfferSteps
  <2> SUFFICES ASSUME NEW s \in Symbols
               PROVE  Remainder(0, baseAssetIncrement[s]) = 0
    BY <1>1 DEF PricingInit, NoQuote, OfferedInSteps, OfferSteps
  <2>1. baseAssetIncrement[s] \in Nat
    BY QuotesAssumption
  <2> QED BY <2>1 DEF Remainder
<1>2. ASSUME QuoteType, OfferSteps, [PricingNext]_pricingVars
      PROVE  OfferSteps'
  <2>1. CASE quote' = quote
    BY <1>2, <2>1 DEF OfferSteps, OfferedInSteps
  <2>2. CASE quote' # quote
    <3>1. PICK symbol \in Symbols, q \in Quotes : PricedUpdate(symbol, q)
      BY <1>2, <2>2 DEF PricingNext, pricingVars
    <3>2. quote' = [quote EXCEPT ![symbol] = q]
      BY <3>1 DEF PricedUpdate
    <3> SUFFICES ASSUME NEW s \in Symbols
                 PROVE  /\ Remainder(quote'[s].bidQty, baseAssetIncrement[s]) = 0
                        /\ Remainder(quote'[s].askQty, baseAssetIncrement[s]) = 0
      BY DEF OfferedInSteps, OfferSteps
    <3>3. CASE s = symbol
      <4>1. quote'[s] = q
        BY <1>2, <3>2, <3>3 DEF QuoteType
      <4> QED BY <4>1 DEF QuotedInSteps
    <3>4. CASE s # symbol
      <4>1. quote'[s] = quote[s]
        BY <1>2, <3>2, <3>4 DEF QuoteType
      <4> QED BY <1>2, <4>1 DEF OfferedInSteps, OfferSteps
    <3> QED BY <3>3, <3>4
  <2> QED BY <2>1, <2>2
<1> QED BY <1>1, <1>2

(* A launch at offers in whole steps sends acceptable orders.              *)
LEMMA AcceptableLaunch ==
    ASSUME IInv, QuoteType', OfferSteps', NEW symbol \in Symbols,
           NEW best \in Candidates(quote', symbol),
           Launch(best.path, best.orders)
    PROVE  LaunchAcceptable
<1> DEFINE m      == quote'
           path   == best.path
           orders == best.orders
           budget == balance[StartingAsset(path)]
<1>1. /\ path \in TradingPaths /\ budget > 0
      /\ orders = UpdatedOrders(m, path, budget)
      /\ totalProfit(path, orders) > 0
  BY DEF Candidates
<1>2. StartingAsset(path) \in Assets
  BY <1>1, PathFacts
<1>3. budget \in Nat
  BY <1>1, <1>2 DEF IInv, TypeOK
<1>4. Quoted(m, path)
  BY <1>1, PathQuoted DEF QuoteType
<1>5. \A i \in 1..Len(path) : Acceptable(m, orders[i])
  <2> HIDE DEF m, path, orders, budget
  <2>1. OfferedInSteps(m)
    BY DEF m, OfferSteps
  <2> QED BY <1>1, <1>3, <1>4, <2>1, PathAcceptable
<1>6. executionIdMap' =
        [o \in DOMAIN executionIdMap \cup NewOrderIds(path) |->
            IF o \in NewOrderIds(path)
            THEN [trade |-> orders[o[2]], executionId |-> nextId]
            ELSE executionIdMap[o]]
  BY DEF Launch
<1> HIDE DEF path, orders
<1> SUFFICES ASSUME NEW o \in DOMAIN executionIdMap' \ DOMAIN executionIdMap
             PROVE  Acceptable(m, executionIdMap'[o].trade)
  BY DEF LaunchAcceptable
<1>7. o \in NewOrderIds(path)
  BY <1>6
<1>8. o[2] \in 1..Len(path) /\ executionIdMap'[o].trade = orders[o[2]]
  BY <1>6, <1>7 DEF NewOrderIds
<1> QED BY <1>5, <1>8

(* On an exchange that quotes in whole steps no order is refused for its   *)
(* size: every order sent asks for something, for no more than is offered, *)
(* in whole steps, and is worth minNotional (Trade.cpp:28-50), whichever   *)
(* quotes are known, missing or out of date.                               *)
THEOREM PricingOrdersAcceptable ==
    ASSUME UnboundedMarket, QuotedInSteps
    PROVE  PricingSpec => OrdersAcceptable
<1>1. PricingInit => OfferSteps
  BY OffersStayInSteps
<1>2. QuoteType /\ OfferSteps /\ [PricingNext]_pricingVars
        => OfferSteps'
  BY OffersStayInSteps
<1>3. IInv /\ QuoteType /\ OfferSteps /\ [PricingNext]_pricingVars
        => [LaunchAcceptable]_pricingVars
  <2> SUFFICES ASSUME IInv, QuoteType, OfferSteps,
                      [PricingNext]_pricingVars, nextId' # nextId
               PROVE  LaunchAcceptable
    BY DEF LaunchAcceptable
  <2>1. OfferSteps' /\ QuoteType'
    BY <1>2, PricingStep
  <2>2. CASE UNCHANGED pricingVars
    BY <2>2 DEF pricingVars, workerVars, books
  <2>3. ASSUME NEW r \in Report, processReport(r)
        PROVE  FALSE
    BY <2>3, ReportsAreNumeric, ReportSettles DEF Settle, workerVars, books
  <2>4. ASSUME NEW symbol \in Symbols, NEW q \in Quotes, PricedUpdate(symbol, q)
        PROVE  LaunchAcceptable
    <3>1. ~ UNCHANGED workerVars
      BY DEF workerVars, books
    <3>2. \E best \in Best(Candidates(quote', symbol)) :
             Launch(best.path, best.orders)
      BY <2>4, <3>1 DEF PricedUpdate
    <3>3. PICK best \in Candidates(quote', symbol) :
             Launch(best.path, best.orders)
      BY <3>2 DEF Best
    <3> QED BY <2>1, <3>3, AcceptableLaunch
  <2> QED BY <2>2, <2>3, <2>4 DEF PricingNext
<1> QED BY <1>1, <1>2, <1>3, PricingInvariant, PTL
        DEF PricingSpec, OrdersAcceptable
=============================================================================
