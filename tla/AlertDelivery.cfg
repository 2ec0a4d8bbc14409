\* Two runs in flight at most, with one request or exit in two minutes.
CONSTANTS
    Key <- HostAndContainer
    ClusterOf <- NoClusters
    NoCluster = NoCluster
    CooldownMin = 2
    ReminderMaxMin = 2
    ReminderBackoffOn = TRUE
    StabilizeMin = 0
    SuppressDependents = TRUE
    SilenceMinutes = {}
    RetentionMin = 1
    MaxTime = 2
    MaxRows = 3
    RulePatches <- MuteOrDisable
    SnoozeMinutes = {1}
    MaxSending = 2
    MaxHandled = 1
SPECIFICATION DeliverySpec
INVARIANTS DeliveryTypeOK ReaderIsUpToDate
PROPERTIES AftermathIsOfItsRun MailsDrain
