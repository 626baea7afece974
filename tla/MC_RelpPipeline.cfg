\* Kafka mode, one connection, every message parses: ordering, no orphan
\* txnr, and every received txnr answered.
CONSTANTS
    MaxConns = 1
    MaxTxnr = 3
    NParsers = 2
    QueueSize = 2
    Direct = TRUE
    Test = FALSE
    ParseOutcomes <- MCParseOk
    StashOutcomes <- MCStashOutcomes
    FilterOutcomes <- MCFilterOutcomes
    NoMsg = NoMsg
    IntBits = 8
SPECIFICATION Spec
INVARIANT TypeOK
INVARIANT AcksOrdered
INVARIANT NoOrphanTxnr
INVARIANT RelpSplitMatchesFraming
PROPERTY EveryReceivedAnswered
PROPERTY AckSpec
