CONSTANTS
    Listed <- Handlers
    Command <- MCCommand
    Style = {"chunks", "line"}
    Noise = {48}
    MaxAsked = 2
    BufSize = 2
SPECIFICATION FairSpec
INVARIANTS TypeOK LookupIsDetermined OnlySetStrays OnlyEmptyWordsFreeWild
PROPERTIES ImplementsRequestStream EveryCommandIsAnswered
CHECK_DEADLOCK FALSE
