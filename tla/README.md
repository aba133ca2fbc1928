# Harjus: a TLA+ model

Harjus is a triangular-arbitrage bot for a spot exchange. It reads balances and
markets over REST at start, computes the trading cycles once, and from then on
works on FIX messages: a price update may start an *execution* (one fill-or-kill
limit order per trade of a cycle, all sent at once), and execution reports
settle it. This directory models the program from the exchange's first answer to
the last thread's end: start-up and the cycle mapper, the market data feed, the
trading engine and its arithmetic, the queues and threads around it, the FIX
session with its sequence numbers and timeouts, the initiator with its
connections, and shutdown.

## 1. Inventory

| Component | State | Operations | Interacts with |
|---|---|---|---|
| `Worker` (`src/src/Worker.cpp`) | `_executionsMap`, `_executionIdMap`, `_pendingOrdersCount`, `_failedExecutions`, opportunities | `processPriceUpdate`, `processReport`, `run` | pops both queues; calls `IApplication::submitOrder`; owns `ReservedTrades`, shares `Balance` |
| `Balance`, `ReservedTrades` | asset -> amount; set of symbols | `updateBalance`, `reserveAll`, `releaseAll` | called by `Worker` only |
| `Execution`, `StaticTrade`, `ExecutionReport` | immutable values | constructors | copied between the above |
| `Opportunity`, `Trade`, `PreciseNumber` | order quantities, profit, capacity; fixed-point numbers | `update`, `recalculateOrderQty`, arithmetic | read the prices in `Symbol`, which `Worker` writes |
| `Application` (`HarjusApplication.cpp`) | session ids, pointers to the queues | FIX callbacks, parsers, `submitOrder` | pushes prices and reports; hands orders to the initiator's queue |
| Initiator and connection (`flashfix`) | pending/connected/disconnected sessions, `m_outboundQueue`, sockets | `doConnect`, `socketThread`, `processOutboundQueue`, `stop` | run `Session::next`, `Session::send` on micro threads of one OS thread |
| `Session` (`flashfix/src/Session.cpp`) | logon flags, sequence numbers, timers, store | `next`, `nextLogon`, `sendRaw`, `disconnect`, resend handling | calls the application's callbacks |
| `Main` | `running`, `isShuttingDown` | start, wait for a signal, shutdown | starts worker and initiator thread, joins the worker, stops the initiator |
| `Arbmapper` | none (pure) | finds the cycles of 3 or more trades | result given to `Worker` |
| `Exchange` (REST), `Configuration`, `FixConfig`, `Ed25519` | none after start | read balances, symbols, values; settings; signing | used by `main` before the threads start |

What is hard, and what each component owes:

* **Interleaved executions.** Several executions are live at once and their
  reports arrive interleaved, repeated or late. The engine's four maps and the
  reservation set must agree after every report; no two open orders may be on
  one market.
* **Money.** The budget of an execution leaves the balance at launch and comes
  back in a delta. Tracked balance, deltas and fills on the way must add up to
  the true account.
* **Bounded queues whose results are ignored, orders before logon, broken
  links.** A loss must never be mistaken for a settlement.
* **Shutdown.** The worker drains its executions before the sessions are closed;
  this needs the reports to keep flowing, and it must end.
* **Arithmetic.** Quantities are divided, multiplied, rounded to step sizes and
  capped by offers at every trade, with quotes that may be missing or stale; each
  order must still be covered by the one before it and acceptable in size.

* **The FIX session.** Messages are lost, repeated, asked for again and overtaken
  by retransmissions; the application must still be given each message once and
  in order, and no order may be sent twice. Every gap and every logout must end.
* **Connections.** `stop()` on the main thread, the connect loop and the micro
  threads work on the same sets: no session twice connected, no SSL object freed
  twice, an end in every case.
* **Start-up and feed.** The cycles must be complete, closed and followed by market
  data, and a price the engine computes with must be a price of the exchange.

`PROJECT.json` lists the hazards one by one, each with its line and the
properties that cover it.

## 2. Modules

| Module | Models | Built on |
|---|---|---|
| `PreciseNumber` | fixed-point numbers: products, quotients, `fmod`, `min` | - |
| `Worker` | the engine with `Balance`, `ReservedTrades`, `Execution`, `StaticTrade`; an open system: any report may arrive at any time | `PreciseNumber` |
| `SymbolLocks` | abstract specification: bundles of locks taken and given back as a whole | - |
| `WorkerProofs` | theorems about `Worker` | `Worker` |
| `Pricing` | the engine with quotes as state: `Opportunity`, `Trade`, the choice of the best opportunity | `Worker` |
| `PricingProofs` | theorems about the arithmetic and about `Pricing` | `Pricing`, `WorkerProofs`, `SumProofs` |
| `Trading` | engine and exchange connected directly: books against account | `Worker` |
| `Harjus` | threads, queues, order entry session, shutdown, exchange | `Trading` |
| `Delivery` | abstract specification: messages handed over in order, each once, per connection | - |
| `Session` | one FIX session (`Session.cpp`, `SessionState.h`) with its read loop; an open system: any message may arrive | - |
| `FixLink` | the session, a FIX counterparty, and a stream that garbles messages | `Session`, `Delivery` |
| `Initiator` | `Initiator.cpp` and the F-Stack initiator: session sets, connect loop, micro threads, `stop()` | - |
| `InitiatorProofs` | theorems about `Initiator` | `Initiator` |
| `Startup` | what `main` does before the threads run: `Exchange`, `Arbmapper`, the constructors of `Application` and `Worker` | `PreciseNumber` |
| `MarketData` | the feed after start-up: messages, parsers, price queue, the prices the worker stores | `Startup` |
| `SumProofs` | lemmas: least elements, smallest sets, functions defined step by step, sums over finite sets, flattened sequences | - |
| `TradingProofs` | theorems about `Trading` | `Trading`, `WorkerProofs`, `SumProofs` |
| `HarjusProofs` | theorems about `Harjus` | `Harjus`, `TradingProofs` |
| `MarketDataProofs` | theorems about `Startup` and `MarketData` | `MarketData`, `SumProofs` |
| `SessionProofs` | theorems about `Session` with its counterparty, and the refinement of `Delivery` | `FixLink`, `SumProofs` |
| `ExampleMarket` | five assets, six symbols, three cycles for TLC | - |
| `MCWorker`, `MCTrading`, `MCHarjus`, `MCPricing`, `MCSession`, `MCInitiator`, `MCMarketData` | the instances that are checked | the above |

### Worker

Each variable is the member of the same name (`Reported` bounds the quantities in
reports). `balance` and a delta are total
maps (an absent entry of the C++ map counts as 0 and `operator[]` creates it
with 0, so the two are the same). `executionsMap` keeps the path and the delta
of an execution. `generateId` returns 8 random characters; the model gives the
n-th execution the id `n` and its i-th order `<<n, i>>`, i.e. ids do not collide.

`processPriceUpdate` picks the most profitable opportunity among those of the
updated symbol. Which one that is and its quantities depend on prices, which
are not state here: `ExecuteBest` takes *any* path of the symbol whose starting
asset has a positive balance and none of whose symbols is reserved, with *any*
quantities that `Opportunity::update` can produce: the first trade spends at
most the balance, every further trade at most what the one before it returns
at the order price, and the cycle gains. `Launch` is the rest of the handler.

`processReport` is split by its cases: `ReportUnknown`, `ReportNew`,
`ReportFailed` (rejected, expired), `ReportPartial`, `ReportFilled`; the last
three of the switch continue in `Settle` (remove the order, decrement the count,
finish at zero). `ReportPartial` changes nothing: the fees were added to a local
copy.

Definitions marked *Mutant* are faulty variants of the definition that follows
them. They are not used in any specification; replacing the definition by its
mutant makes the property named in `PROJECT.json` fail, which shows that the
property depends on that code.

### Pricing

`quote` holds the bid and ask members of every `Symbol`; `PricedUpdate` is
`processPriceUpdate` as a whole, with the four assignments to the symbol, the
loop over the opportunities and the launch. The quantities and the profit that an
`Opportunity` keeps between updates are not state, since `update()` computes both
before they are read and `resetOrderQty` discards the old ones. The loops of
`Opportunity.cpp` are recursive functions over the trades; their early returns
(a price of zero) are conditions on the path. `std::unordered_multimap` decides
between equally profitable opportunities: the model takes any of them.

`AfterTrade` keeps the cap of `Opportunity.cpp:40`, where the offer of a LONG trade
is multiplied by the price twice. At a price above one the cap is too loose, so the
computed maximum is then not "the maximum quantity ... after all trades" of the comment at
line 20, but no order exceeds its offer, which `recalculateOrderQty` looks at again.
Offers in `MCPricing` are multiples of the step
size, as an exchange's are; `recalculateOrderQty` rounds before it caps, so
`OrdersAcceptable` depends on it.

### Trading

The exchange is external and modelled from what the code expects of it: a
fill-or-kill limit order is rejected for lack of funds, expires, or is filled
completely at the limit or better, in one or two trades; the reports of one
order arrive in order, those of different orders in any order; quantities in a
report are cumulative, fees are per trade. `account` is the true balance and
`outcome` a history variable.

### Harjus

One action per loop step, callback and step of `main`: the worker thread
(`PopPrice`, `submitOrder` once per order, `PopReport`, the drain), the
initiator thread (`block`, then in its loop `Connect`, `LogonAccepted`,
`SessionTimeout`, `LoggedOut`, `SendOrder`, `onExecutionReport`, `onMarketData`, and
`LoopEnds`), the main thread (`RequestStop`, `JoinWorker`, the steps of `stop()`:
`StopTooEarly` or `StopBegins`, `WaitEnds`, `OnStop`, and the join of the initiator's
thread, `JoinInitiator`) and the environment (`LinkBreaks`, `Exchange`). `stop()` is
here as it concerns one session; `Initiator` has it in full.
The effect of `processPriceUpdate` on the worker's own maps is one step, since no
other thread reads them; its `submitOrder` calls are steps of their own, because
the initiator thread empties the queue at the same time.

The order entry session is `disconnected`, `logonSent`, `loggedOn`, or `dead` (the
link is gone and the session does not know: `read()` takes end-of-file for a
timeout). `SendOrder` summarises `processOutboundQueue` and
`Session::sendRaw`: only a logged-on session transmits; before the Logon the
message is refused, between Logon and its answer it is stored, and a resend is
withheld by `toApp` because of its PossDupFlag. An exception in a callback
(`onLogout` outside shutdown, an unhandled report type) ends the process. `lost`
is a history variable: orders dropped or never transmitted, final reports
dropped.

### Session and FixLink

The functions of `Session.cpp` are operators from a session state to the next one
and keep their names (`nextNow` is `next(now)`); the actions are their callers: the
socket thread's `read()` and `processStream` (`Receive`, `ReceiveGarbled`,
`ReceiveBadLength`, `StreamEnds`, `ReadTimeout`, `ReadFails`), the loop of `nextQueued`, the
outbound queue, the main thread, and time. The record `s` holds the members of
`SessionState`; `received` and `sent` are the ages of `lastReceivedTime` and
`lastSentTime`; `delivered` and `transmitted` are history. `market` distinguishes a
market data session, whose `onLogon` sends the subscription, from order entry. The
settings are those of `FixConfig.cpp` (an initiator with `ResetOnLogout`,
`ResetOnDisconnect`), so branches that other settings would need are absent. A
message is its kind, number, PossDupFlag and one argument.

An exception that leaves a callback ends the process (`aborted`): `onLogout` throws
outside shutdown, so any disconnect of a logged-on session before shutdown does, and
`generateReject` throws when no Logon was received, which only `nextSequenceReset` does
not catch.

`FixLink` adds the counterparty, which is external and follows FIX: it answers
resend requests with repetitions and gap fills, asks again when it sees a gap,
answers test requests and logouts, and sends messages of its own (`PeerKinds`).
The stream keeps the order but may damage a message in either direction or fail
altogether (`StreamFails`: an SSL read error, and what was under way is gone); an
unreadable `BodyLength` makes the parser drop its buffer and `processStream` handle
the previous message once more. Behaviour of the code that the model keeps and that
is worth knowing:

* a gap fill may pass over a queued message, which stays in the queue until the
  next disconnect; a Logon that resets the numbers in-session keeps the queue too;
* a lost retransmission is not asked for again (`Session.cpp:1369`); messages beyond
  the gap do not refresh `lastReceivedTime`, so the timeout ends such a session;
* a connection that is closed before the Logon is answered leaves `sentLogon` set, so
  the next connection sends no Logon and times out;
* an order sent between our Logon and its answer takes number 2, is stored, and is
  gap-filled later: it is never transmitted (run `unsent`).

### Initiator

The session sets, `m_threads`, `m_stop` and `m_cleanupDone` are variables of the same
names; a connection is a session and a number, and `conn` says where its micro thread
is. `connect` covers the three ends of `doConnect`: nothing happened, pending without
a connection (`SSL_new` failed; the session is then never tried again), or a micro
thread was started. `stop()` is one action per step between which other threads may
run: the copy of the connected set, each `logout`, the seconds of waiting,
`setDisconnected`, `m_stop`, `onStop`. Micro threads change places only where they
wait, so each action runs to such a point; the main thread interleaves anywhere
outside the mutex. What a session does is reduced to `logsOn` and `logsOut`.

### Startup and MarketData

`Startup` is `main` up to the start of the threads. What the exchange answers and what
the configuration says are chosen in `Init` from `Answers` and `Configurations`. The
iteration order of `std::unordered_map` matters in one place, `boost::edge` between
assets that several markets join, and there the model takes any (`FirstEdges`); where
two markets value the same asset the model takes either value.
`tiernan_all_cycles` is Boost's and external: each elementary cycle once.

In `MarketData` a quote (price and quantity of one side) is a number, and zero means
that the side has none. The exchange's book changes with the groups it sends. A
message gives a side at most one quote, and a deletion in the same message is of the
quote that it replaces. The parser's loop is one action per group, the pushes one
action per update, because the worker pops at the same time. `processPriceUpdate` is
the storing of the prices only; what it computes from them is in `Pricing`.

## 3. Runs

| Run | Instance | Result |
|---|---|---|
| `worker` | 3 paths over 6 symbols, 2 executions, quantity 1, prices {1,2}, two fee maps, any report any time; 41,941 states | maps, counts and reservations consistent; implements `SymbolLocks` |
| `trading` | the same market, quantity 2 (so fills can be partial), price improvement 1, a fee on every completing fill; 693,051 states | `BooksBalance`, `BalanceTracksAccount` |
| `harjus` | one triangle, one execution of three orders, report queue 2, outbound queue 2, price queue 1; 407,904 states | the invariants, and `ShutdownCompletes` from the moment the initiator runs |
| `pricing` | one triangle traded from each of its three assets, tenths, three quotes per symbol besides the missing one, 2 executions; 20,417 states | every launched order is funded and acceptable |
| `partial_fees` | as `trading`, fees on partial fills too | **violated**: the fees of partial fills are not booked (`Worker.cpp:236`) |
| `rejects` | as `trading`, fee in a received asset | **violated**: an order is rejected although nothing expired (`Worker.cpp:196`) |
| `unsent` | as `harjus` | **violated**: an order queued before the logon is never sent (`HarjusApplication.h:64-66`) |
| `session` | 3 messages of the counterparty of all four kinds, 1 garbled message, 1 order, 2 connections, both kinds of session; 2,027,386 states | delivery exact and in order, no order twice, implements `Delivery` |
| `session_live` | application messages and logouts, 1 garbled message, 1 connection, with fairness; 54,414 states | `GapEnds`, `LogoutEnds` |
| `initiator` | 2 sessions, 3 connections each, 2 seconds of waiting; about 30,000 states | the invariants and `StopCompletes` |
| `feed` | 7 markets over 4 assets (two markets join the same pair), cycles up to 4, asset list, static paths, 1, 2 and 4 sessions; snapshots and one incremental message of 3 groups, price queue 2; 1,015,688 states | cycles complete and well formed, every market followed, no session swamped, no stale quote |
| `unknown_values` | as `feed`, with a price for every market against Bitcoin | **violated**: an asset without a Bitcoin market gets the value zero (`Exchange.cpp:224`) |

Bounds. `MaxExecutions` bounds `nextId`, an identifier that only grows; two
executions are enough for sharing and not sharing symbols, for one to finish
before, during and after the other, and for a symbol to be reserved again. Three
trades are the cycle length the program is run with. Two of the paths share only
an asset (concurrent executions on one budget), two share all symbols (mutual
exclusion). The queue sizes in `harjus` are smaller than the number of elements
one execution can put into them (three orders; up to nine reports), so both
queues do overflow; the true size is 1000. Partial fills need a quantity that
can be divided, hence quantity 2.

In `pricing` the quotes put each price below and above one, with one that has no
bid; step sizes and least values differ between symbols so that quantities are
rounded, capped and refused. One reported quantity, large enough to fill an order,
is enough to return and grow the balance between two launches.

In `session` three messages of the counterparty are its Logon and two more, so that
one can be lost and one come too early; one damaged message is enough for a gap in
either direction, and two connections for what a first one leaves behind. The
heartbeat interval is one unit of time, so that a heartbeat, a test request and the
timeout are due after 1, 2 and 3 units (1, 1.2 and 2.4 intervals).
Three connections per session in `initiator` allow a failure, a loss and a
connection during `stop()`. In `feed` three groups are two for one market with one
of another between them; `MaxMarkets` keeps the feed to configurations with three
subscribed markets, while the start-up is checked for all. `SymbolsPerSession`, 1000 in
the code, is 2: four markets are too many for one session, three are not, though
their share is above 2. The queue of two is smaller than the three snapshots, so
updates are dropped.

`CHECK_DEADLOCK FALSE` in `session`, `session_live`, `initiator`, `feed` and `unknown_values`: a process
that has aborted or ended, and an exchange that sends nothing more, may stop.

Fairness (`Harjus!Fairness`, used only for `ShutdownCompletes` and
`QueuedOrdersAreSent`). Weak fairness of the worker loop, the main thread and the
initiator's steps, of its start (`block`) and its end (`LoopEnds`) too:
operating-system scheduling, and the initiator's loop that visits every session and its
queue on each round; the logout of a session that `stop()` disabled (`LoggedOut`) has a
timeout. Weak fairness of the exchange's
answers: FIX guarantees them on a connected session. Nothing is assumed of
signals, market data or broken links. `ShutdownCompletes` has to except a loss:
after one, the drain loop of `Worker::run` waits for a report that never comes
(`lost # {}`), which is what the code does. It is stated from the moment the
initiator's thread has cleared `m_stop`, because without that condition it fails
(`StopTooEarly`, `Initiator.cpp:236`): `stop()` returns at once, `block()` then clears
the flag, the loop runs for ever and main hangs in the destructor of the jthread
(`Main.cpp:185`).

`FixLink!FairLinkSpec`: weak fairness of the socket thread (`read()` returns after a
second at the latest), of the clock, of reading what has arrived, and of the
counterparty's reading; not of its sending. `Initiator!FairSpec`: weak fairness of
the loop and of the main thread only; a connection may take for ever (F-Stack's
`mt_recv` yields, so it does not hold up the loop). `StopCompletes` is stated from
the moment `m_stop` is clear: a `stop()` that overtakes `block()` returns at once
(`Initiator.cpp:236`), and `main` then waits for ever.

The wait of `Worker::run` with nothing to do is a busy loop, so the model never
deadlocks; when the process has ended, `Ended` stutters.

## 4. Proofs

### Worker

`WorkerProofs` is checked by TLAPS for every market, every set of paths that
satisfies the assumptions, every number of executions and every content, order
and repetition of reports. The assumptions (`MarketAssumption`,
`PathsAssumption`, `BalanceAssumption`, `NumbersAssumption`) say that symbols
have two assets, that a path is non-empty and has no symbol twice (the mapper
looks for simple cycles), and that amounts are natural numbers.

`IInv` is the conjunction of `TypeOK`, `ReservationsExact`, `LookupsSafe`,
`PendingExact` and `IdsStructured` (order `<<e, i>>` belongs to execution `e`,
is its i-th trade, and only ids that were handed out are in use). The parts need
each other: that a release frees nothing of another execution needs the
disjointness in `ReservationsExact`; that a count of 1 means "this was the last
order" needs `PendingExact`; that a new id is fresh, and that the orders of one
execution are on different markets, needs `IdsStructured`. Two lemmas carry the
induction: `LaunchPreservesIInv` and `SettlePreservesIInv`; `ReportSettles` and
`PriceUpdateLaunches` reduce the handlers to them or to stuttering.

Proved: `WorkerInvariant` (`[]IInv`), `WorkerTypeOK`, `WorkerReservationsExact`,
`WorkerLookupsSafe`, `WorkerPendingExact`, `WorkerOneOpenOrderPerSymbol`, and
`WorkerImplementsLocks` (the refinement of `SymbolLocks`).

### Pricing

`PricingProofs` starts from the arithmetic of `PreciseNumber` for every precision:
products and quotients are monotone (`TimesMonotone`, `OverMonotone`), and buying
and paying, or selling and buying back, never creates an amount (`TimesOver`,
`OverTimes`). From these:

* `TradeWithinBudget`: `recalculateOrderQty` spends at most what it is given and
  asks for at most what is offered, for all step sizes and least values;
* `RoundTrip`, and from it `CapacityWithinBudget`: through the trades and back, the
  capacity never exceeds the budget; the misplaced factor of line 40 only moves
  the cap;
* `PathProfitable`: a positive computed profit means funded orders and a gain;
* `PricingOrdersFunded` (the property `OrdersFunded`) and `PricingImplementsWorker`
  (the refinement `PricingSpec => WorkerSpec`), by induction on `IInv` and the type
  of the quotes. The refinement is what justifies leaving the quantities open in
  `Worker`: the theorems of `WorkerProofs` hold with the computed ones;
* `PricingOrdersAcceptable` (the property `OrdersAcceptable`): `TradeAcceptable` says what
  `recalculateOrderQty` guarantees of one order, and `ChainAcceptable` that a quantity of
  zero, its way to refuse, makes all quantities after it zero (`NothingScaled`), so
  that a profit is only computed when no trade was refused.

All of them are for paths of any length. The loops of `Opportunity.cpp` are recursive
functions over the trades, and what they keep invariant is carried from trade to
trade by `StepsUp` and `StepsDown` of `SumProofs`.

Two hypotheses are stated where they are needed. `UnboundedMarket`: the sets
`Quantities` and `Prices`, which bound what TLC explores in `Worker`, are all natural
numbers. `QuotedInSteps`, for `PricingOrdersAcceptable` only: the exchange quotes
quantities in whole steps of each symbol. The code relies on it: `recalculateOrderQty`
rounds down to a step first and takes the smaller of that and the offer afterwards
(`Trade.cpp:34-38`), so an offer between two steps would be ordered as it is.

### Initiator

`InitiatorProofs` proves, for any set of sessions and any number of connections and
seconds, `TypeCorrect`, `NeverTwoConnections`, `EverySSLFreedOnce` and
`StopIsOrderly`. The inductive invariant adds to `TypeOK`, `OneConnection` and
`OrderlyStop`: a live connection's session is not free to be connected, unless
`stop()` has disabled it (`Guarded`); what `stop()` copied and logged out stays
disabled until the loop has ended (`Disabled`); an SSL object that is not freed is in
`m_threads` or in the clean-up's copy, never in both (`Held`); and a session that is
logged on is read by a connection and, until `stop()` takes the connected sessions
away, is among them (`Reached`). `Guarded` and `Disabled` are
what make the early `setDisconnected` of `stop()` harmless: the connect loop finds
those sessions disconnected but disabled.

### Sums

The balance equation adds up a function over a set that changes. The library's
induction theorems have an operator parameter that the provers cannot instantiate;
`SumProofs` does the induction by the smallest counterexample instead
(`LeastElement`, `SmallestSet`: a non-empty set of finite sets has one of least
cardinality). From it: a sum over integers is an integer (`SumType`), grows by the
value of a new element (`SumAdd`), and changes by the difference when one value changes
(`SumChange`).

The same argument gives what recursive functions need. What holds at 0 and is passed
on by every step holds up to `n` (`ReachedUpwards`, and `ReachedDownwards` from `n`), and
a function given by its first value and its step exists and obeys the step at every
number (`StepsUp`, `StepsDown`); `FlattenRecursion` does it for `FlattenSeq`.

### Trading

`TInv` adds to the engine's `IInv` that the account has its type, that the orders in the
exchange's line are open, are those of the engine and are in no second place (`InLine`),
that every order on the wire is open and has there the tail of a well-formed chain of
reports: acknowledgement, partial fill, last report, with cumulative quantities that
end at what the order asked for (`OnTheWire`); and `BooksBalance`. Without the
second and the third, a report could settle an order the account knows nothing of.

`TradingInvariant`, `TradingBooksBalance` and `TradingBalanceTracksAccount` have the
hypothesis `FeesOnCompletion`: no fees on partial fills. The code does not guarantee
it, and run `partial_fees` shows what happens without it (finding at `Worker.cpp:236`);
the theorems say that this is the only way the books can fail.

### Harjus

`HarjusInvariant` is `Flow /\ Control`. `Control` says how far the threads have come with
each other: from the join of the worker on, all through `stop()`, the worker has stopped, the
shutdown is announced and no exception has ended the process. `Flow` says where the orders are: each open order is in at most one of
the worker's hands, the outbound queue, the exchange's line, the wire, the report queue
(its last report) and `lost`, and each of these holds open orders only (`Places`); and
where the money is, provided `FeesOnCompletion`: each asset of the account is what is
booked plus a share for each order, nothing before the exchange has decided and the
effect of its last report after (`Accounted`). The share is existential because a lost
report leaves one that no state shows any more. From these: `HarjusNothingOpenAtExit`
(the worker returns when no execution is live, so none of the places holds an order),
`HarjusLossPinsExecution`, `HarjusOrderlyExit`, and with `FeesOnCompletion`
`HarjusBalanceTracksAccount`.

### Startup and MarketData

The theorems assume what `StartupAssumption` and `FeedAssumption` say: finitely many
symbols, each with two different assets; prices and lengths that are natural numbers;
books whose sides have a quote or none; static paths that are sequences of trades.

`Started` says what each stage of the start leaves behind: markets among the
exchange's, values, paths of trades on those markets (closed ones, if they come from the
mapper), the division, the index. `MapperPathsCloseUp` needs that the trades along a ring
of at least three assets are on different markets whichever of several parallel
markets `boost::edge` returns, and that a rotation of a ring is one (`RingCloses`,
`RingRotated`). `MarketsFollowed` needs `DivisionKeepsAll`: the pieces that
`divideSymbolsEvenly` cuts, with the remainder given to the first sessions, are the
whole list. `SessionSharesBounded` needs of the same pieces that none is above the average
rounded up; with the check that the constructor makes before, which counts
`symbols.size() / 1000` without the rest, `ShareBound` gives that a session never gets
twice the 1000 (it may get 1999).

`MapperToursOnce` says that the mapper misses nothing and repeats nothing. A rotation
moves positions around a circle (`ShiftFacts`, `RotatedIs`), two rotations make one
(`RotatedTwice`), and so the rotations of a ring are the same set from whichever of its
assets one starts (`TurningsSame`). The search reports one rotation of each elementary
cycle, hence every cycle is a rotation of exactly one that is reported
(`ReportedOnce`), and since a ring has no asset twice its rotations differ. The
paths made of one reported cycle therefore tour its rotations once each (`CyclePaths`);
the parts for different cycles share no tour, so flattening them keeps "once each"
(`ToursFlatten`, `FoundPaths`); the filter keeps exactly the tours whose assets are on
the list (`KeptTours`); and a sequence without repetition is as long as its set of tours
is large (`ToursCounted`). `Toured` is the part of `Started` that carries this from the
mapper to the end of the start.

`Feed` says of every symbol that the parser's update about it, if there is one, is on
each side the exchange's quote or none, has the quote where the message gave it in
full, and has none on a side that the message did not speak of; and if the parser has no
update and the last one was not dropped, that the last update in the queue, or what
the worker holds if there is none, is so too (`Latest`). The sides the message spoke of are needed because
a later group of the message may change the book of a side that was already entered:
the exchange gives a side at most one quote in a message, so the entered quote stays.
From it: `FeedNoStaleQuote`, `FeedStatedQuotesArrive`, `FeedTypeCorrect`.

### Session

`SessionProofs` is about `LinkSpec`: the session and a counterparty that follows the
protocol, over a stream that garbles messages in both directions, with orders, test
requests, timeouts, logouts, shutdown and reconnects. The theorems hold for every value of
the bounds (`MaxPeer`, `MaxGarbled`, `MaxOrders`, `MaxConnections`) and every heartbeat
interval; they assume `TimesAssumption` (the timeouts are no longer than the ages the
clock can reach) and `PeerAssumption` (the kinds of message the counterparty sends of its
own accord), and nothing else.

`LinkInv` has these parts, each there because another needs it:

* `Sound`: the members have their types; a message the session holds is well formed
  (`Carried`: a resend request or a gap fill names a number); the orders written have
  different numbers below the next one (`Unique`, which is `OrdersAtMostOnce` made
  inductive).
* As long as no exception has ended the session, it is `Off` or `On`. `On` says what
  `DeliveredExactly` says, and that every queued message is one the counterparty has
  sent, or a gap fill over messages that are no application messages (`Told`). This
  is what makes it safe to hand over a queued message later, and to jump with a gap fill.
  `Off` says that nothing was handed over and that the queue holds no message with
  number 1: a Logon that came later would otherwise meet it.
* `Placed`, `Fresh`, `Told` of the message read last: where the socket thread is. They
  are needed because a `BodyLength` that is no number makes `processStream` handle the
  message it still holds a second time (`Connection.cpp:258`). The second time its number
  is below the expected one, or it is a Logon just accepted, or the session is
  disabled.
* `Inbox`: what is under way is `Told`, and a Logon is the first message and finds the
  session waiting. `Outbox`: a session that the counterparty has not answered has written
  Logons alone, and later no resend request asks for message 1. Without this a repeated
  Logon could reset the numbers in the middle of a session.
* `draining = FALSE => Queued = {}`, which is `NothingInTurnWaits`.

Every operator of `Session` that changes the session has a lemma that says which
members it leaves alone (`Frame`) and what it makes of the others; every handler then has
one for an `Off` and one for an `On` session, and the steps of the session come down
to two kinds: those that take something from the stream (`Consumes`) and those that
do not (`Spares`).

Proved: `LinkInvariant`, `TypeCorrect`, `DeliversExactly`, `NothingWaits`, `OrdersOnce`,
and `SessionDeliversInOrder`, the refinement of `Delivery`. For the last, `Hands` says
what a step gives the application: nothing, the application message with the expected
number, or nothing more because the connection has ended; `NextPosted` shows that the
message with the expected number is the next one posted, because the application messages
of a part of the log begin those of the whole log (`AppsOfBegins`).

### Only model-checked

* Liveness (`ShutdownCompletes`, `StopCompletes`, `GapEnds`, `LogoutEnds`): out of the
  prover's reach.

Every invariant and every action property of a passing run is also proved, and so are
the two refinements among the properties.

## 5. Not modelled

* The conversions of `PreciseNumber` from and to text, and the formatting of
  prices and quantities in orders.
* Of the session layer: messages with a wrong SendingTime or wrong CompIDs,
  `NextExpectedMsgSeqNum`, the FIXT branches, the acceptor's half, and a
  SequenceReset in reset mode from the counterparty of `FixLink` (the handler is in
  `Session`). A possible duplicate is taken to carry a valid OrigSendingTime: the
  rejects of `doPossDup` (`Session.cpp:1310-1334`) are left out. So are the business
  rejects for messages that `fromApp` does not support or that lack a field
  (`Session.cpp:1538-1580`): the exchange's messages are those of its specification.
  The data race between `logout()` on the main thread and the session's
  thread is the interleaving of `Logout` with the other actions.
* A Logon with ResetSeqNumFlag in the middle of a session, while early messages are
  queued: `Session` keeps the queue as the code does (`Session.cpp:249`), but the
  counterparty of `FixLink` sends such a Logon only first, so no property says anything
  about what then becomes of the queue. Nothing in the repository says what should.
* A first group of an incremental refresh without a symbol, and a symbol that was not
  subscribed to: `HarjusApplication.cpp:436` and `486` throw and the process ends.
* The search for the header and the checksum in `Parser.cpp`; TLS and F-Stack.
* HTTP, JSON, the symbol filters of `getSymbols`, `Configuration`, `FixConfig`,
  `Ed25519`: input and output at start. Static trading paths are taken as they are,
  by the code too: nothing checks that they close or use a market once.
* That no session gets more than the 1000 symbols that the comment of the `Application`
  constructor speaks of is not stated: the check (`HarjusApplication.cpp:40`) truncates, so
  four sessions accept up to 4999 symbols. `SharesBounded` states what holds.
* The message classes under `flashfix/include/fix*`, the field tables, `pugixml`,
  `double-conversion` and the rest of the vendored QuickFIX code: about 99% of the
  repository's lines, generated or third-party, with no state or control of the
  program's own. The share of all lines that the modules cover is small for this
  reason; of `src/src` and of the session, initiator and connection code they cover
  most.
* Collisions of random ids (36^8 values).

## 6. Plan

1. *Done:* `Worker`, `SymbolLocks`, `WorkerProofs`, `Trading`, `Harjus`.
2. *Done:* `PreciseNumber`, `Pricing`, `PricingProofs`.
3. *Done:* `Initiator`, `InitiatorProofs`.
4. *Done:* `Session`, `FixLink`, `Delivery`.
5. *Done:* `Startup` (`Arbmapper`, `getRelativeValues`, the division of the symbols),
   `MarketData`.
6. *Done:* `SumProofs`, `TradingProofs`, `HarjusProofs`, `MarketDataProofs`,
   `SessionProofs`.
7. *Done:* theorems about `EveryTourOnce`, `SharesBounded` and `OrdersAcceptable`; the
   theorems about prices for paths of any length.
