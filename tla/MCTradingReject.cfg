SPECIFICATION TradingSpec
CONSTANTS
    Assets <- MCAssets
    Symbols <- MCSymbols
    BaseAsset <- MCBase
    QuoteAsset <- MCQuote
    TradingPaths <- OnePath
    InitialBalance <- LeanBalance
    Quantities <- MCQuantities
    Reported <- MCReported
    kPrecision = 1
    Prices <- MCPrices
    FeeDeltas <- MCFees
    FinalFees <- FeesInB
    PartialFees <- MCNoFees
    Improvements <- Better
    MaxTrades = 3
    MaxExecutions = 1
INVARIANTS
    RejectedOnlyAfterExpired
