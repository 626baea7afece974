\* Every mode, two parsers, every failure the code handles.  In Kafka mode
\* and after a fatal Stash the stop hangs (see the violation runs), so the
\* model stops there: deadlock is not what this run is about.
CONSTANTS
    p1 = p1
    p2 = p2
    Parsers <- MCParsers
    Modes = {"kafka", "test", "store"}
    MaxStarts = 3
    NoListener = TRUE
    ProducerFails = TRUE
    StashFatal = TRUE
    KafkaFatal = TRUE
SPECIFICATION Spec
INVARIANT WorkersStopped
PROPERTY FinalIsFinal
PROPERTY WaitingRetries
PROPERTY StopReturnsTestMode
CHECK_DEADLOCK FALSE
