SPECIFICATION Spec
CONSTANTS
    MaxCalls = 4
    MaxGathers = 0
    MaxEmits = 1
    StartReplies = {"started"}
    MetricsReplies = {"metrics"}
    Unsolicited = {}
    CreateFails = FALSE
    ChildCrashes = FALSE
    ChildHangs = FALSE
    StartTimeouts = TRUE
PROPERTY CallReturns
CHECK_DEADLOCK FALSE
