\* A container's alert, mailed about before its host went offline.
CONSTANTS
    Key <- OfflineAndDown
    ClusterOf <- OneCluster
    NoCluster = NoCluster
    CooldownMin = 2
    ReminderMaxMin = 2
    ReminderBackoffOn = TRUE
    StabilizeMin = 1
    SuppressDependents = TRUE
    SilenceMinutes = {}
    RetentionMin = 1
    MaxTime = 4
    MaxRows = 2
SPECIFICATION Spec
PROPERTIES AftermathReplacesResolution
