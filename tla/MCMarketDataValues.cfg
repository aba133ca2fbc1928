SPECIFICATION Spec
CONSTANTS
    kPrecision = 100
    Symbols <- MCSymbols
    BaseAsset <- MCBase
    QuoteAsset <- MCQuote
    Bitcoin = "BTC"
    Answers <- FullAnswers
    Configurations <- MCConfigurations
    SymbolsPerSession = 2
    Quotes = {1, 2}
    PriceQueueSize = 2
    MaxMessages = 1
    MaxGroups = 3
    MaxMarkets = 3
INVARIANT
    UnknownValuesLowest
CHECK_DEADLOCK FALSE
