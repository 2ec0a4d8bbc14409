\* One host with one container: health check failures and silence.
CONSTANTS
    Host <- OneHost
    Container = {"c1"}
    Excluded = {}
    Checked = {"container_unhealthy", "host_offline"}
    Reported = {"running", "unhealthy"}
    HostOfflineMinutes = 1
    HostReportingMinutes = 1
    MaxInFlight = 1
    Key <- PipelineKeys
    ClusterOf <- NoClusters
    NoCluster = NoCluster
    CooldownMin = 2
    ReminderMaxMin = 2
    ReminderBackoffOn = TRUE
    StabilizeMin = 2
    SuppressDependents = TRUE
    SilenceMinutes = {}
    RetentionMin = 9
    MaxTime = 7
    MaxRows = 2
SPECIFICATION PipelineSpec
INVARIANTS PipelineTypeOK LevelOutageIsMailed HostRecoveryCloses
PROPERTIES ResolutionMeansRecovery
