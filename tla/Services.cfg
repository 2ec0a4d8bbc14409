\* The bounds of each service are explained in the README.
CONSTANTS
    Container = {c1}
    Timeout <- HalfMinutes
    StaleAfter = 0
    AgentClock <- OneBehind
    MaxRequests = 2
    MaxFaults = 1
    Horizon = 2
    n1 = n1
    n2 = n2
    v1 = v1
    v2 = v2
    Node = {n1, n2}
    ClusterNode = {n1, n2}
    Object = {v1, v2}
    MaxChanges = 1
    MaxTroubles = 1
    g1 = g1
    g2 = g2
    h1 = h1
    Guest = {g1, g2}
    Host = {h1}
    Inside <- InTheFirst
    Identities <- TwoGuests
    MaxUpsets = 2
    MaxStored = 3
    CheckEnd = 3
    MaxCuts = 1
    e1 = e1
    e2 = e2
    Endpoints <- TwoEndpoints
    Https = {e1}
    CONCURRENCY = 1
    Threshold = 2
    MaxRounds = 2
    MaxEdits = 1
SPECIFICATION ServicesSpec
INVARIANTS
    ServicesTypeOK
    ChecksPartition
    StartsServe
PROPERTIES
    RequestsAreSound
    LinksAreOwn
    MonitorSettles
    ListingsAreTrue
\* The bounded clock of the requests stops.
CHECK_DEADLOCK FALSE
