---------------------------- MODULE MCMarketData ----------------------------
(* Four assets and seven markets, of which two join the same assets, for   *)
(* TLC: sets of markets, asset lists, lengths and numbers of sessions.     *)
EXTENDS MarketData

Pairs == [BTCUSD |-> <<"BTC", "USD">>, ETHBTC |-> <<"ETH", "BTC">>,
          ETHUSD |-> <<"ETH", "USD">>, USDETH |-> <<"USD", "ETH">>,
          XRPETH |-> <<"XRP", "ETH">>, XRPUSD |-> <<"XRP", "USD">>,
          XRPBTC |-> <<"XRP", "BTC">>]
MCSymbols == DOMAIN Pairs
MCBase    == [s \in MCSymbols |-> Pairs[s][1]]
MCQuote   == [s \in MCSymbols |-> Pairs[s][2]]
Ticker    == [BTCUSD |-> 400]

Book      == [BID |-> 1, OFFER |-> NoQuote]
MCAnswers == [spot : {MCSymbols, MCSymbols \ {"XRPBTC"},
                      MCSymbols \ {"XRPBTC", "BTCUSD"}},
              ticker : {Ticker}, book : {Book}]

(* A price for every market against Bitcoin; none has XRP.                 *)
FullTicker  == [BTCUSD |-> 400, ETHBTC |-> 7]
FullAnswers == [spot : {MCSymbols \ {"XRPBTC"}}, ticker : {FullTicker},
                book : {Book}]

Long(s)  == [symbol |-> s, position |-> "LONG"]
Short(s) == [symbol |-> s, position |-> "SHORT"]
Static   == << <<Long("ETHBTC"), Short("ETHUSD"), Long("BTCUSD")>> >>
Static4  == << <<Long("ETHBTC"), Long("XRPETH"), Short("XRPUSD"),
                 Long("BTCUSD")>> >>    \* too many markets for one session
MCConfigurations ==
    [assets : {{}}, maxDepth : {2, 4}, staticPaths : {<< >>},
     numSessions : {2}]
    \cup [assets : {{"BTC", "ETH", "USD"}}, maxDepth : {3},
          staticPaths : {<< >>}, numSessions : {2}]
    \cup [assets : {{}}, maxDepth : {3}, staticPaths : {Static},
          numSessions : {4}]
    \cup [assets : {{}}, maxDepth : {3}, staticPaths : {Static4},
          numSessions : {1}]
=============================================================================
