\* The bounds of each part are explained in the README.
CONSTANTS
    c1 = c1
    c2 = c2
    err = err
    note = note
    Process = {p1, p2}
    InContainer = {p2}
    Argv <- ArgvOf
    BufferMaxCycles = 1
    MaxEventsPerMessage = 3
    MaxLooks = 1
    MaxWire = 1
    MaxLosses = 2
    MaxLives = 3
    MaxBreaks = 1
    Text = {err, note}
    Matching = {err}
    TailLines = 2
    Retention = 2
    MaxLines = 2
    MaxMisses = 1
    Situations <- SomeSituations
    Tags = {"error"}
    MinSamples = 2
    MaxVotes = 2
    MaxEpisodes = 2
    MaxReboots = 1
    Containers = {c1, c2}
    Hot = {c1}
    Sustained = 2
    Day = 2
    Week = 3
    Restarts = 1
    MaxContainers = 5
    MaxUpdates = 2
    MaxMishaps = 2
SPECIFICATION ContainersSpec
INVARIANTS
    ContainersTypeOK
    UpdatesLeaveOne
PROPERTIES
    RestartsAreTold
    MatchesSettle
    FindingsKeepUp
    InsightsSettle
    ProcessesAreTold
\* The bounds on starts, votes, lines and updates stop some parts.
CHECK_DEADLOCK FALSE
