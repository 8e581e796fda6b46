SPECIFICATION Spec
CONSTANTS
    NResults = 2
    MaxResults = 1
    Symbol <- MCSymbol
    Upper <- MCUpper
    Trades <- MCTrades
    Equity <- MCEquity
    PageSizes <- MCPageSizes
    IsoDays = {}
    Children <- MCChildren
    MaxPolls = 1
    MaxPipelines = 1
    Cancellable = {1}
    Deletable <- MCDeletable
INVARIANTS ResultsBacked
PROPERTIES PipelinesSettle KeepsLifecycle
CHECK_DEADLOCK FALSE
