SPECIFICATION Spec
CONSTANTS
    kPrecision = 100
    Symbols <- MCSymbols
    BaseAsset <- MCBase
    QuoteAsset <- MCQuote
    Bitcoin = "BTC"
    Answers <- MCAnswers
    Configurations <- MCConfigurations
    SymbolsPerSession = 2
    Quotes = {1, 2}
    PriceQueueSize = 2
    MaxMessages = 1
    MaxGroups = 3
    MaxMarkets = 3
INVARIANTS
    TypeOK
    EveryTourOnce
    PathsCloseUp
    EveryMarketFollowed
    SharesBounded
    NoStaleQuote
    StatedQuotesArrive
CHECK_DEADLOCK FALSE
