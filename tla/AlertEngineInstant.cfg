\* Without a stabilisation window: instant mails, a chain of two parents, a type that resolves silently.
CONSTANTS
    Key <- HostNodeBackup
    ClusterOf <- NoClusters
    NoCluster = NoCluster
    CooldownMin = 1
    ReminderMaxMin = 2
    ReminderBackoffOn = TRUE
    StabilizeMin = 0
    SuppressDependents = TRUE
    SilenceMinutes = {1}
    RetentionMin = 0
    MaxTime = 1
    MaxRows = 3
SPECIFICATION Spec

PROPERTIES ImplementsContract
