SPECIFICATION StoreSpec
CONSTANTS
    NResults = 3
    MaxResults = 2
    Symbol <- MCSymbol
    Upper <- MCUpper
    Trades <- MCTrades
    Equity <- MCEquity
    PageSizes <- MCPageSizes
    IsoDays = {1, 2, 3}
INVARIANTS SavedIsReadable DeletedStaysGone ViewsAgree
CHECK_DEADLOCK FALSE
