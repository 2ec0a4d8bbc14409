\* A container that stops and stays stopped, collected as often as it is evaluated.
CONSTANTS
    Host <- OneHost
    Container = {"c1"}
    Excluded = {}
    Checked = {"container_down"}
    Reported = {"running", "failed"}
    HostOfflineMinutes = 1
    HostReportingMinutes = 1
    MaxInFlight = 1
    Key <- PipelineKeys
    ClusterOf <- NoClusters
    NoCluster = NoCluster
    CooldownMin = 2
    ReminderMaxMin = 2
    ReminderBackoffOn = TRUE
    StabilizeMin = 1
    SuppressDependents = TRUE
    SilenceMinutes = {}
    RetentionMin = 9
    MaxTime = 2
    MaxRows = 1
SPECIFICATION PipelineSpec
INVARIANTS DownOutageIsMailed
