SPECIFICATION PricingSpec
CONSTANTS
    Assets <- TriAssets
    Symbols <- Triangle
    BaseAsset <- TriBase
    QuoteAsset <- TriQuote
    TradingPaths <- TriPaths
    InitialBalance <- TriBalance
    Quantities <- MCQuantities
    Reported <- MCReported
    kPrecision = 10
    Prices <- MCPrices
    FeeDeltas <- TriNoFees
    MaxTrades = 3
    MaxExecutions = 2
    Quotes <- MCQuotes
    baseAssetIncrement <- Steps
    minNotional <- Notionals
    commission = 1
    relativeValue <- Values
PROPERTIES
    OrdersAcceptable
    OrdersFunded
