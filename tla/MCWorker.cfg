SPECIFICATION WorkerSpec
CONSTANTS
    Assets <- MCAssets
    Symbols <- MCSymbols
    BaseAsset <- MCBase
    QuoteAsset <- MCQuote
    TradingPaths <- MCPaths
    InitialBalance <- MCBalance
    Quantities <- MCQuantities
    Reported <- MCReported
    kPrecision = 1
    Prices <- MCPrices
    FeeDeltas <- WorkerFees
    MaxTrades = 3
    MaxExecutions = 2
INVARIANTS
    TypeOK
    ReservationsExact
    LookupsSafe
    PendingExact
    OneOpenOrderPerSymbol
PROPERTIES
    ImplementsLocks
