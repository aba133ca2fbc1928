SPECIFICATION TradingSpec
CONSTANTS
    Assets <- MCAssets
    Symbols <- MCSymbols
    BaseAsset <- MCBase
    QuoteAsset <- MCQuote
    TradingPaths <- MCPaths
    InitialBalance <- MCBalance
    Quantities <- MCQuantities
    Reported <- MCReported
    kPrecision = 1
    Prices <- MCPrices
    FeeDeltas <- MCFees
    FinalFees <- FeesInA
    PartialFees <- MCNoFees
    Improvements <- Better
    MaxTrades = 3
    MaxExecutions = 2
INVARIANTS
    BooksBalance
    BalanceTracksAccount
