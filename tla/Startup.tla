------------------------------ MODULE Startup -------------------------------
(***************************************************************************)
(* What main does before the threads run (src/src/Main.cpp): it reads the  *)
(* markets and their prices from the exchange (Exchange.cpp), values every *)
(* asset in Bitcoin, finds the cycles to trade (Arbmapper.cpp), divides    *)
(* their markets among the market data sessions (HarjusApplication.cpp)    *)
(* and indexes the cycles by market (the constructor in Worker.cpp).  An   *)
(* exception anywhere ends the program.                                    *)
(*                                                                         *)
(* What the exchange answers and what the configuration says are chosen    *)
(* once, at the start.  std::unordered_map is iterated in an unknown       *)
(* order: where the order shows, the model takes any.                      *)
(***************************************************************************)
EXTENDS PreciseNumber, SequencesExt, FiniteSetsExt

CONSTANTS
    Symbols,           \* the names of markets
    BaseAsset,         \* Symbol::baseAsset, by name
    QuoteAsset,        \* Symbol::quoteAsset, by name
    Bitcoin,           \* the asset "BTC"
    Answers,           \* what the exchange may answer:
                       \*   spot: markets with isSpotTradingAllowed,
                       \*   ticker: the price of some of them,
                       \*   book: the sides of a market (module MarketData)
    Configurations,    \* assets, maxDepth, staticPaths, numSessions
    SymbolsPerSession  \* 1000 in the code

ASSUME StartupAssumption ==
    /\ IsFiniteSet(Symbols)
    /\ \A s \in Symbols : BaseAsset[s] # QuoteAsset[s]
    /\ \A a \in Answers :
           /\ a.spot \subseteq Symbols
           /\ \A s \in DOMAIN a.ticker : a.ticker[s] \in Nat
    /\ \A c \in Configurations :
           /\ c.numSessions \in Nat \ {0}
           /\ c.maxDepth \in Nat
           /\ c.staticPaths \in
                  Seq(Seq([symbol : STRING, position : {"LONG", "SHORT"}]))
    /\ SymbolsPerSession \in Nat \ {0}

VARIABLES
    stage,           \* what main does next
    answer,          \* the exchange's answers
    config,          \* the configuration
    symbolMap,       \* the markets that are traded
    relativeValues,  \* asset -> value in Bitcoin
    tradingPaths,    \* the cycles, a sequence of sequences of trades
    dividedSymbols,  \* market data session -> its markets, in order
    opportunities    \* the worker's _opportunities: market -> path indexes

startupVars == <<stage, answer, config, symbolMap, relativeValues,
                 tradingPaths, dividedSymbols, opportunities>>

StartupInit ==
    /\ stage = "balance"
    /\ answer \in Answers
    /\ config \in Configurations
    /\ symbolMap = {}
    /\ relativeValues = << >>
    /\ tradingPaths = << >>
    /\ dividedSymbols = << >>
    /\ opportunities = << >>

-----------------------------------------------------------------------------
(* Exchange.cpp: three REST calls, each of which throws when there is no   *)
(* answer, when it is an error or when it cannot be parsed.                *)

Fetching == stage \in {"balance", "symbols", "values"}

requestFails ==
    /\ Fetching
    /\ stage' = "failed"
    /\ UNCHANGED <<answer, config, symbolMap, relativeValues, tradingPaths,
                   dividedSymbols, opportunities>>

(* What getBalance returns is the InitialBalance of module Worker.         *)
getBalance ==
    /\ stage = "balance"
    /\ stage' = "symbols"
    /\ UNCHANGED <<answer, config, symbolMap, relativeValues, tradingPaths,
                   dividedSymbols, opportunities>>

getSymbols ==
    /\ stage = "symbols"
    /\ symbolMap' = answer.spot
    /\ stage' = "values"
    /\ UNCHANGED <<answer, config, relativeValues, tradingPaths,
                   dividedSymbols, opportunities>>

AssetsOf(s) == {BaseAsset[s], QuoteAsset[s]}
uniqueAssets == UNION {AssetsOf(s) : s \in symbolMap}

(* A market the ticker does not name gets the map's default, zero.         *)
symbolPrice(s) == IF s \in DOMAIN answer.ticker THEN answer.ticker[s] ELSE 0

(* The values in Bitcoin that the markets give to an asset.                *)
ValuesOf(a) ==
    {symbolPrice(s) : s \in {t \in symbolMap : AssetsOf(t) = {a, Bitcoin}
                                             /\ QuoteAsset[t] = Bitcoin}}
    \cup {Over(kPrecision, symbolPrice(s)) :
              s \in {t \in symbolMap : AssetsOf(t) = {a, Bitcoin}
                                     /\ BaseAsset[t] = Bitcoin}}

(* std::numeric_limits knows nothing of PreciseNumber: its max() is a      *)
(* PreciseNumber that was default constructed.                             *)
numericLimitsMax == 0

lowestValue == Min({numericLimitsMax} \cup UNION {ValuesOf(a) : a \in uniqueAssets})

getRelativeValues ==
    /\ stage = "values"
    /\ relativeValues' \in
           {values \in [uniqueAssets \cup {Bitcoin} ->
                          {kPrecision, lowestValue}
                          \cup UNION {ValuesOf(a) : a \in uniqueAssets}] :
               /\ values[Bitcoin] = kPrecision
               /\ \A a \in uniqueAssets \ {Bitcoin} :
                      IF ValuesOf(a) = {} THEN values[a] = lowestValue
                                          ELSE values[a] \in ValuesOf(a)}
    /\ stage' = "paths"
    /\ UNCHANGED <<answer, config, symbolMap, tradingPaths, dividedSymbols,
                   opportunities>>

-----------------------------------------------------------------------------
(* Arbmapper.cpp.                                                          *)

usedCurrency(trade) == IF trade.position = "LONG" THEN QuoteAsset[trade.symbol]
                                                  ELSE BaseAsset[trade.symbol]
recvCurrency(trade) == IF trade.position = "LONG" THEN BaseAsset[trade.symbol]
                                                  ELSE QuoteAsset[trade.symbol]

(* buildGraph: each market is an edge from its quote to its base asset,    *)
(* the long trade, and one back, the short trade.                          *)
Edges == {[symbol |-> s, position |-> p] :
              s \in symbolMap, p \in {"LONG", "SHORT"}}
Joined(u, v) == \E e \in Edges : usedCurrency(e) = u /\ recvCurrency(e) = v

(* The elements of a set in the order some iteration yields them.          *)
Listed(S) == FoldSet(LAMBDA x, seq : Append(seq, x), << >>, S)

Following(i, n) == (i % n) + 1
Rotated(seq, i) == SubSeq(seq, i, Len(seq)) \o SubSeq(seq, 1, i - 1)

(* The elementary cycles of at most maxDepth assets and at least 3, as     *)
(* sequences of assets; boost::tiernan_all_cycles reports each one once,   *)
(* whichever of its assets comes first, and parallel edges do not repeat   *)
(* it.                                                                     *)
ElementaryCycles(min, max) ==
    {c \in UNION {[1..n -> uniqueAssets] : n \in min..max} :
        /\ IsInjective(c)
        /\ \A i \in DOMAIN c : Joined(c[i], c[Following(i, Len(c))])}
tiernan_all_cycles(min, max) ==
    {CHOOSE c \in cycle : TRUE :
        cycle \in {{Rotated(c, i) : i \in DOMAIN c} :
                       c \in ElementaryCycles(min, max)}}

(* boost::edge: of the markets that join two assets, the one that was      *)
(* added first stands for both directions.                                 *)
FirstEdges ==
    {first \in [{AssetsOf(s) : s \in symbolMap} -> symbolMap] :
        \A pair \in DOMAIN first : AssetsOf(first[pair]) = pair}

(* Mutant: the position is that of the other direction.                    *)
TradeAgainst(first, u, v) ==
    [symbol |-> first[{u, v}],
     position |-> IF BaseAsset[first[{u, v}]] = u THEN "LONG" ELSE "SHORT"]

TradeAlong(first, u, v) ==
    [symbol |-> first[{u, v}],
     position |-> IF QuoteAsset[first[{u, v}]] = u THEN "LONG" ELSE "SHORT"]

rotations(path) == [i \in 1..Len(path) |-> Rotated(path, i)]

(* CycleVisitor::cycle                                                     *)
cycle(first, c) ==
    rotations([i \in DOMAIN c |->
                   TradeAlong(first, c[i], c[Following(i, Len(c))])])

findCycles(first, maxDepth) ==
    LET found == Listed(tiernan_all_cycles(3, maxDepth))
    IN  FlattenSeq([i \in DOMAIN found |-> cycle(first, found[i])])

(* Mutant: one asset of the list is enough.                                *)
AllowedByOne(path, assets) ==
    \/ assets = {}
    \/ \E i \in DOMAIN path : usedCurrency(path[i]) \in assets

Allowed(path, assets) ==
    \/ assets = {}
    \/ \A i \in DOMAIN path : {usedCurrency(path[i]), recvCurrency(path[i])}
                                  \subseteq assets

(* std::erase_if of the paths that are not allowed.                        *)
Kept(paths, assets) ==
    FlattenSeq([i \in DOMAIN paths |->
        IF Allowed(paths[i], assets) THEN <<paths[i]>> ELSE << >>])

getTradingPaths ==
    /\ stage = "paths" /\ config.staticPaths = << >>
    /\ \E first \in FirstEdges :
           tradingPaths' = Kept(findCycles(first, config.maxDepth),
                                config.assets)
    /\ stage' = "application"
    /\ UNCHANGED <<answer, config, symbolMap, relativeValues, dividedSymbols,
                   opportunities>>

(* The paths the configuration gives, of markets the exchange must know.   *)
useStaticPaths ==
    /\ stage = "paths" /\ config.staticPaths # << >>
    /\ IF \A i \in DOMAIN config.staticPaths :
              \A j \in DOMAIN config.staticPaths[i] :
                  config.staticPaths[i][j].symbol \in symbolMap
       THEN tradingPaths' = config.staticPaths /\ stage' = "application"
       ELSE stage' = "failed" /\ UNCHANGED tradingPaths
    /\ UNCHANGED <<answer, config, symbolMap, relativeValues, dividedSymbols,
                   opportunities>>

-----------------------------------------------------------------------------
(* The constructors of the application and of the worker.                  *)

SymbolsOn(path) == {path[j].symbol : j \in DOMAIN path}

getUniqueSymbolsForTradingPaths ==
    Listed(UNION {SymbolsOn(tradingPaths[i]) : i \in DOMAIN tradingPaths})

(* Mutant: the remainder is left out.                                      *)
divideSymbolsRoundly(symbols, numSessions) ==
    LET each == Len(symbols) \div numSessions
    IN  [i \in 1..numSessions |->
            SubSeq(symbols, (i - 1) * each + 1, i * each)]

(* The first remainder sessions take one symbol more than the others.      *)
divideSymbolsEvenly(symbols, numSessions) ==
    LET each      == Len(symbols) \div numSessions
        remainder == Len(symbols) % numSessions
        before(i) == i * each + Smaller(i, remainder)
    IN  [i \in 1..numSessions |->
            SubSeq(symbols, before(i - 1) + 1, before(i))]

(* Mutant: too few sessions are not refused.                               *)
ApplicationUnchecked ==
    /\ stage = "application"
    /\ dividedSymbols' = divideSymbolsEvenly(getUniqueSymbolsForTradingPaths,
                                             config.numSessions)
    /\ stage' = "worker"
    /\ UNCHANGED <<answer, config, symbolMap, relativeValues, tradingPaths,
                   opportunities>>

Application ==
    /\ stage = "application"
    /\ LET symbols == getUniqueSymbolsForTradingPaths
       IN  IF config.numSessions < Len(symbols) \div SymbolsPerSession
           THEN stage' = "failed" /\ UNCHANGED dividedSymbols
           ELSE /\ dividedSymbols' =
                       divideSymbolsEvenly(symbols, config.numSessions)
                /\ stage' = "worker"
    /\ UNCHANGED <<answer, config, symbolMap, relativeValues, tradingPaths,
                   opportunities>>

Worker ==
    /\ stage = "worker"
    /\ opportunities' = 
           [s \in symbolMap |->
               {i \in DOMAIN tradingPaths : s \in SymbolsOn(tradingPaths[i])}]
    /\ stage' = "ready"
    /\ UNCHANGED <<answer, config, symbolMap, relativeValues, tradingPaths,
                   dividedSymbols>>

(* The worker thread and the initiator are started; nothing of the above   *)
(* changes from here on.                                                   *)
start ==
    /\ stage = "ready"
    /\ stage' = "running"
    /\ UNCHANGED <<answer, config, symbolMap, relativeValues, tradingPaths,
                   dividedSymbols, opportunities>>

StartupNext ==
    \/ requestFails \/ getBalance \/ getSymbols \/ getRelativeValues
    \/ getTradingPaths \/ useStaticPaths \/ Application \/ Worker \/ start

-----------------------------------------------------------------------------
(* Properties.                                                             *)

(* All is computed and no thread runs yet.                                 *)
Ready == stage = "ready"

(* The assets a path passes through.                                       *)
Tour(path) == [i \in DOMAIN path |-> usedCurrency(path[i])]

(* The arbitrage mapper misses nothing and repeats nothing: the paths it   *)
(* returns pass through every sequence of 3 to maxDepth different assets   *)
(* of the list that markets join into a ring, each from each of its assets *)
(* exactly once (Arbmapper.cpp, getTradingPaths: cycle search, rotations   *)
(* and asset filter together).                                             *)
EveryTourOnce ==
    Ready /\ config.staticPaths = << >> =>
        LET allowed == IF config.assets = {} THEN uniqueAssets
                                             ELSE config.assets
            rings == {t \in UNION {[1..n -> allowed] : n \in 3..config.maxDepth} :
                         /\ IsInjective(t)
                         /\ \A i \in DOMAIN t : \E s \in symbolMap :
                                AssetsOf(s) = {t[i], t[Following(i, Len(t))]}}
        IN  /\ {Tour(tradingPaths[i]) : i \in DOMAIN tradingPaths} = rings
            /\ Len(tradingPaths) = Cardinality(rings)

(* What the engine assumes of a path holds of every path the mapper gives  *)
(* it: each trade spends what the one before it returned, the last one     *)
(* returns what the first one spent, no market occurs twice, although      *)
(* boost::edge replaces parallel markets by one another (CycleVisitor), so *)
(* that the reservation of markets and the order ids of an execution are   *)
(* unambiguous in Worker.cpp.                                              *)
PathsCloseUp ==
    Ready /\ config.staticPaths = << >> =>
        \A k \in DOMAIN tradingPaths :
            LET path == tradingPaths[k] IN
            /\ Cardinality(SymbolsOn(path)) = Len(path)
            /\ \A i \in DOMAIN path : recvCurrency(path[i]) =
                   usedCurrency(path[Following(i, Len(path))])

(* No path trades blind: every market of every path is subscribed to on    *)
(* exactly one market data session (HarjusApplication.cpp,                 *)
(* divideSymbolsEvenly), its updates make the engine look at that path     *)
(* again (the multimap of the constructor in Worker.cpp), the sessions'    *)
(* shares differ by at most one, and nothing else is subscribed to.        *)
EveryMarketFollowed ==
    Ready =>
        LET all == FlattenSeq(dividedSymbols)
        IN  /\ \A i \in DOMAIN tradingPaths :
                   \A s \in SymbolsOn(tradingPaths[i]) : i \in opportunities[s]
            /\ ToSet(all) = {s \in symbolMap : opportunities[s] # {}}
            /\ IsInjective(all)
            /\ \A k, l \in DOMAIN dividedSymbols :
                   Len(dividedSymbols[k]) <= Len(dividedSymbols[l]) + 1

(* No session is swamped: the constructor refuses to start with fewer than *)
(* one session for every 1000 symbols (HarjusApplication.cpp:40), and      *)
(* although it counts the full thousands only, and the division gives some *)
(* sessions one symbol more, no session ever gets 2000.                    *)
SharesBounded ==
    Ready => \A k \in DOMAIN dividedSymbols :
                 Len(dividedSymbols[k]) < 2 * SymbolsPerSession

(* Exchange.cpp:242: "Assign lowest value to currencies not tradable to    *)
(* Bitcoin", and ExchangeTest.cpp:88: "Verify all values are greater than  *)
(* 0".  An asset that no market trades against Bitcoin has the lowest of   *)
(* the values that the markets give to the other assets.                   *)
UnknownValuesLowest ==
    LET known == UNION {ValuesOf(a) : a \in uniqueAssets}
    IN  Ready /\ known # {} =>
            \A a \in uniqueAssets \ {Bitcoin} :
                ValuesOf(a) = {} => relativeValues[a] = Min(known)
=============================================================================
