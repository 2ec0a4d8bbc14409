\* One parent and one child over five minutes, every handler and crash.
CONSTANTS
    Key <- HostAndContainer
    ClusterOf <- NoClusters
    NoCluster = NoCluster
    CooldownMin = 1
    ReminderMaxMin = 2
    ReminderBackoffOn = TRUE
    StabilizeMin = 2
    SuppressDependents = TRUE
    SilenceMinutes = {}
    RetentionMin = 1
    MaxTime = 5
    MaxRows = 3
SPECIFICATION Spec
INVARIANTS TypeOK UniqueActive SuppressorIsParent TriggeredIsAccountedFor ResolvedIsAccountedFor
PROPERTIES HistoryIsFinal ImplementsContract
