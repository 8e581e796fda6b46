SPECIFICATION MCSpec
CHECK_DEADLOCK FALSE
CONSTANTS
    Nodes <- MCNodes
    Tree <- MCTree
    Entry <- MCEntry
    Exit <- MCExit
    NoTree = 0
    Risk <- MCRisk
    Bars <- MCBars
    MaxBars = 3
    Requests <- MCRequests
    Uncovered <- MCUncovered
INVARIANTS
    SignalsReplayable
    BracketAroundClose
    RunsAsDefined
    CatalogueHonest
    ParityHonest
