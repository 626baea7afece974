\* A message the parser rejects leaves its txnr pending in comm for ever.
CONSTANTS
    MaxConns = 1
    MaxTxnr = 2
    NParsers = 1
    QueueSize = 1
    Direct = TRUE
    Test = FALSE
    ParseOutcomes <- MCParseAll
    StashOutcomes <- MCStashOutcomes
    FilterOutcomes <- MCFilterOutcomes
    NoMsg = NoMsg
    IntBits = 8
SPECIFICATION Spec
INVARIANT NoOrphanTxnr
