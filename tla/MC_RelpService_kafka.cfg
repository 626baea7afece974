\* Kafka mode, no failure: RelpService.Stop after a successful start.
CONSTANTS
    p1 = p1
    p2 = p2
    Parsers <- MCParsers
    Modes = {"kafka"}
    MaxStarts = 2
    NoListener = FALSE
    ProducerFails = FALSE
    StashFatal = FALSE
    KafkaFatal = FALSE
SPECIFICATION Spec
PROPERTY StopReturns
CHECK_DEADLOCK FALSE
