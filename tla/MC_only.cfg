\* Store mode (Stash), two connections, parse errors and empty messages
\* possible: answers are routed to the connection whose message they are
\* about, and the cooker's answers stay in txnr order.
CONSTANTS
    MaxConns = 2
    MaxTxnr = 2
    NParsers = 1
    QueueSize = 1
    Direct = FALSE
    Test = FALSE
    ParseOutcomes <- MCParseAll
    StashOutcomes <- MCStashOutcomes
    FilterOutcomes <- MCFilterOutcomes
    NoMsg = NoMsg
    IntBits = 8
SPECIFICATION Spec
PROPERTY CookerEnds
