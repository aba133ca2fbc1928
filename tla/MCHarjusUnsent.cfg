SPECIFICATION FairSpec
CONSTANTS
    Assets <- TriAssets
    Symbols <- Triangle
    BaseAsset <- TriBase
    QuoteAsset <- TriQuote
    TradingPaths <- OnePath
    InitialBalance <- TriBalance
    Quantities <- MCQuantities
    Reported <- MCReported
    kPrecision = 1
    Prices <- MCPrices
    FeeDeltas <- TriFees
    FinalFees <- TriFeesInA
    MaxTrades = 3
    MaxExecutions = 1
    PriceQueueSize = 1
    ReportQueueSize = 2
    OutboundQueueSize = 2
    PartialFees <- TriNoFees
    Improvements <- Better
PROPERTIES
    QueuedOrdersAreSent
