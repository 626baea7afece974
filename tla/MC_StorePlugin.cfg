\* The Store plugin: a child that may misbehave, crash and ignore shutdown,
\* every timer may fire, and two messages stashed at any moment, drained
\* one GetMany at a time.  Deadlock is not checked: a hang of the controller is
\* the subject of the plugin_start_timeout_hang run; this one checks its
\* safety and the store's delivery in every reachable state.
SPECIFICATION StoreSpec
CONSTANTS
    MaxCalls = 4
    MaxGathers = 1
    MaxEmits = 1
    StartReplies = {"started", "starterror"}
    MetricsReplies = {"metrics", "badmetrics"}
    Unsolicited = {"syslog", "unknown"}
    CreateFails = TRUE
    ChildCrashes = TRUE
    ChildHangs = TRUE
    StartTimeouts = TRUE
    MaxMsgs = 2
    Batch = 1
INVARIANTS StoreTypeOK CreatedTracksProcess StartedHasListener
INVARIANTS PipeInStashOrder ShutdownFlushes
PROPERTIES ShutdownReapsChild StashDelivered
CHECK_DEADLOCK FALSE
