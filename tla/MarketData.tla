----------------------------- MODULE MarketData -----------------------------
(***************************************************************************)
(* The market data feed of the started program: what the exchange sends on *)
(* a market data session, the application's parsers of it                  *)
(* (HarjusApplication.cpp), the queue to the worker and the prices the     *)
(* worker stores in a symbol (Worker::processPriceUpdate).                 *)
(*                                                                         *)
(* A quote is the price and the quantity of one side of a market; only     *)
(* which quote it is matters here, and NoQuote stands for the zeros of a   *)
(* side without one.  The initiator thread reads one group of a message    *)
(* after the other while the worker thread pops updates.                   *)
(***************************************************************************)
EXTENDS Startup

CONSTANTS
    Quotes,          \* quotes that are explored
    PriceQueueSize,  \* QUEUE_SIZE of priceUpdateQueue
    MaxMessages,     \* bound: incremental messages
    MaxGroups,       \* bound: groups of an incremental message
    MaxMarkets       \* bound: subscriptions that get any message

NoQuote == 0
Sides   == {"BID", "OFFER"}
NoSides == [side \in Sides |-> NoQuote]

ASSUME FeedAssumption ==
    /\ NoQuote \notin Quotes
    /\ \A a \in Answers : a.book \in [Sides -> Quotes \cup {NoQuote}]
    /\ PriceQueueSize \in Nat /\ MaxMessages \in Nat /\ MaxGroups \in Nat
    /\ MaxMarkets \in Nat

VARIABLES
    market,      \* the top of the exchange's books: symbol -> side -> quote
    priceQueue,  \* priceUpdateQueue: [symbol, sides]
    prices,      \* what the worker knows: symbol -> side -> quote
    parser,      \* the message the initiator thread is at
    unknown,     \* subscribed symbols whose snapshot was not sent yet
    messages,    \* incremental messages sent so far
    stated,      \* history: sides the last message on a symbol gave in full
    dropped      \* history: symbols whose last update found the queue full

feedVars == <<market, priceQueue, prices, parser, unknown, messages, stated,
              dropped>>
vars == <<startupVars, feedVars>>

(* reading: "none", "groups" of the message, or "push" of its updates;     *)
(* symbol: the one that groups without a symbol are about; restated: sides *)
(* the message gave a quote to.                                            *)
Idle == [reading |-> "none", session |-> 0, symbol |-> "", updates |-> << >>,
         groups |-> 0, restated |-> {}]

FeedInit ==
    /\ market = [s \in Symbols |-> answer.book]
    /\ priceQueue = << >>
    /\ prices = [s \in Symbols |-> NoSides]
    /\ parser = Idle
    /\ unknown = Symbols
    /\ messages = 0
    /\ stated = {}
    /\ dropped = {}

Init == StartupInit /\ FeedInit

-----------------------------------------------------------------------------
(* HarjusApplication.cpp, on the initiator thread.                         *)

(* Mutant: a full queue grows.                                             *)
pushGrows(update) ==
    /\ priceQueue' = Append(priceQueue, update)
    /\ dropped' = dropped \ {update.symbol}

(* priceUpdateQueue->push, whose result is ignored.                        *)
push(update) ==
    IF Len(priceQueue) < PriceQueueSize
    THEN /\ priceQueue' = Append(priceQueue, update)
         /\ dropped' = dropped \ {update.symbol}
    ELSE /\ dropped' = dropped \cup {update.symbol}
         /\ UNCHANGED priceQueue

(* onMessage(MarketDataSnapshotFullRefresh): the message has a group for   *)
(* each side that has a quote, and the other side stays zero.              *)
onSnapshot(k, s) ==
    /\ stage = "running" /\ parser = Idle
    /\ Len(FlattenSeq(dividedSymbols)) <= MaxMarkets
    /\ s \in unknown \cap ToSet(dividedSymbols[k])
    /\ unknown' = unknown \ {s}
    /\ push([symbol |-> s, sides |-> market[s]])
    /\ stated' = stated \cup ({s} \X Sides)
    /\ UNCHANGED <<startupVars, market, prices, parser, messages>>

(* onMessage(MarketDataIncrementalRefresh) starts to parse a message of    *)
(* session k.                                                              *)
onIncremental(k) ==
    /\ stage = "running" /\ parser = Idle
    /\ messages < MaxMessages
    /\ ToSet(dividedSymbols[k]) \ unknown # {}
    /\ messages' = messages + 1
    /\ parser' = [Idle EXCEPT !.reading = "groups", !.session = k]
    /\ UNCHANGED <<startupVars, market, priceQueue, prices, unknown, stated,
                   dropped>>

(* A group may leave the symbol out when it is that of the group before.   *)
GroupSymbols ==
    (ToSet(dividedSymbols[parser.session]) \ unknown)
    \cup (IF parser.symbol = "" THEN {} ELSE {""})

(* The exchange's book after a group (external): a new or changed quote    *)
(* replaces the side's, and a deletion empties the side unless the message *)
(* has given it another quote.                                             *)
BookAfter(s, side, action, quote) ==
    IF action = "DELETE"
    THEN IF <<s, side>> \in parser.restated THEN market[s][side] ELSE NoQuote
    ELSE quote

(* The update of a symbol, which its first group creates.                  *)
updateFor(updates, s) ==
    IF \E i \in DOMAIN updates : updates[i].symbol = s THEN updates
    ELSE Append(updates, [symbol |-> s, sides |-> NoSides])

(* Mutant: a quote is entered in the last update.                          *)
enteredLast(updates, s, side, quote) ==
    [updates EXCEPT ![Len(updates)].sides[side] = quote]

entered(updates, s, side, quote) ==
    [i \in DOMAIN updates |->
        IF updates[i].symbol = s THEN [updates[i] EXCEPT !.sides[side] = quote]
                                 ELSE updates[i]]

(* One turn of the parser's loop.  Only new and changed quotes that come   *)
(* with a size are entered.                                                *)
readGroup(named, side, action, sized, quote) ==
    /\ parser.reading = "groups" /\ parser.groups < MaxGroups
    /\ LET s     == IF named = "" THEN parser.symbol ELSE named
           first == \A i \in DOMAIN parser.updates : parser.updates[i].symbol # s
           known == updateFor(parser.updates, s)
           full  == action \in {"NEW", "CHANGE"} /\ sized
       IN  /\ action = "DELETE" \/
                  (quote # market[s][side] /\ <<s, side>> \notin parser.restated)
           /\ market' = [market EXCEPT
                             ![s][side] = BookAfter(s, side, action, quote)]
           /\ parser' = [parser EXCEPT
                  !.symbol   = s,
                  !.groups   = @ + 1,
                  !.updates  = IF full THEN entered(known, s, side, quote)
                                       ELSE known,
                  !.restated = IF action = "DELETE" THEN @
                                                    ELSE @ \cup {<<s, side>>}]
           /\ stated' = (IF first THEN stated \ ({s} \X Sides) ELSE stated)
                        \cup (IF full THEN {<<s, side>>} ELSE {})
    /\ UNCHANGED <<startupVars, priceQueue, prices, unknown, messages, dropped>>

(* The message has no more groups.                                         *)
parsed ==
    /\ parser.reading = "groups" /\ parser.groups > 0
    /\ parser' = [parser EXCEPT !.reading = "push"]
    /\ UNCHANGED <<startupVars, market, priceQueue, prices, unknown, messages,
                   stated, dropped>>

(* onMessage pushes the updates one after the other.                       *)
pushUpdate ==
    /\ parser.reading = "push"
    /\ push(Head(parser.updates))
    /\ parser' = IF Len(parser.updates) = 1 THEN Idle
                 ELSE [parser EXCEPT !.updates = Tail(@)]
    /\ UNCHANGED <<startupVars, market, prices, unknown, messages, stated>>

-----------------------------------------------------------------------------
(* Mutant: a side the update leaves at zero keeps its old price.           *)
processPriceUpdateSides ==
    /\ priceQueue # << >>
    /\ prices' = [prices EXCEPT ![Head(priceQueue).symbol] =
           [side \in Sides |-> IF Head(priceQueue).sides[side] = NoQuote
                              THEN @[side] ELSE Head(priceQueue).sides[side]]]
    /\ priceQueue' = Tail(priceQueue)
    /\ UNCHANGED <<startupVars, market, parser, unknown, messages, stated,
                   dropped>>

(* Worker::processPriceUpdate on the worker thread stores all the prices   *)
(* of the update, the zeros too.                                           *)
processPriceUpdate ==
    /\ priceQueue # << >>
    /\ prices' = [prices EXCEPT ![Head(priceQueue).symbol] =
                                    Head(priceQueue).sides]
    /\ priceQueue' = Tail(priceQueue)
    /\ UNCHANGED <<startupVars, market, parser, unknown, messages, stated,
                   dropped>>

FeedNext ==
    \/ \E k \in DOMAIN dividedSymbols :
          onIncremental(k) \/ \E s \in Symbols : onSnapshot(k, s)
    \/ /\ parser.reading = "groups"
       /\ \E named \in GroupSymbols, side \in Sides :
             \/ \E quote \in Quotes :
                   \/ readGroup(named, side, "NEW", TRUE, quote)
                   \/ \E sized \in BOOLEAN :
                         readGroup(named, side, "CHANGE", sized, quote)
             \/ readGroup(named, side, "DELETE", FALSE, NoQuote)
    \/ parsed \/ pushUpdate \/ processPriceUpdate

Next == (StartupNext /\ UNCHANGED feedVars) \/ FeedNext

Spec == Init /\ [][Next]_vars

-----------------------------------------------------------------------------
(* Properties.                                                             *)

(* The exchange's message about s has been parsed, and what it pushed has  *)
(* reached the worker or there was no room for it.                         *)
Settled(s) ==
    /\ \A i \in DOMAIN parser.updates : parser.updates[i].symbol # s
    /\ \A i \in DOMAIN priceQueue : priceQueue[i].symbol # s

(* The types of the variables.                                             *)
TypeOK ==
    /\ stage \in {"balance", "symbols", "values", "paths", "application",
                  "worker", "ready", "running", "failed"}
    /\ answer \in Answers /\ config \in Configurations
    /\ symbolMap \subseteq Symbols
    /\ \A i \in DOMAIN tradingPaths : tradingPaths[i] \in
           Seq([symbol : Symbols, position : {"LONG", "SHORT"}])
    /\ \A k \in DOMAIN dividedSymbols : dividedSymbols[k] \in Seq(Symbols)
    /\ market \in [Symbols -> [Sides -> Quotes \cup {NoQuote}]]
    /\ prices \in [Symbols -> [Sides -> Quotes \cup {NoQuote}]]
    /\ Len(priceQueue) <= PriceQueueSize
    /\ parser.reading = "push" => parser.updates # << >>
    /\ dropped \subseteq Symbols /\ unknown \subseteq Symbols

(* The engine never computes with a quote the exchange has replaced or     *)
(* withdrawn once the messages have been handled: what a symbol holds is   *)
(* the exchange's quote or zero, which no opportunity trades on.  A lost   *)
(* update, of which the push to a full queue says nothing, is the only     *)
(* exception, and the next update of the symbol repairs it                 *)
(* (HarjusApplication.cpp, both parsers, and Worker::processPriceUpdate,   *)
(* which overwrites the side a one-sided message leaves out).              *)
NoStaleQuote ==
    \A s \in Symbols \ dropped, side \in Sides :
        Settled(s) => prices[s][side] \in {market[s][side], NoQuote}

(* What the last message on a symbol gave in full is what the engine       *)
(* computes with, whichever groups of other symbols, sides and actions     *)
(* were before and after it in the message, and whether they named their   *)
(* symbol or not.                                                          *)
StatedQuotesArrive ==
    \A s \in Symbols \ dropped, side \in Sides :
        Settled(s) /\ <<s, side>> \in stated => prices[s][side] = market[s][side]
=============================================================================
