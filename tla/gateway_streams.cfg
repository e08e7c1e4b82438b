\* One scan after the registry holds findings, and one client.
CONSTANTS
    s1 = s1
    x1 = x1
    x2 = x2
    None = None
    Subscribers = {s1}
    Contents <- TwoBodies
    Requests <- NoRequests
    MaxSize = 4
    QueueCap = 2
    MaxItems = 4
    OffLoop = FALSE
    Scans = {x1}
    Products = {"soc", "vuln"}
    Sources <- KnownSources
    Rules <- OneRule
    Raising = {}
    Breaking = {"host"}
    Correlate <- HostCorrelate
SPECIFICATION GatewaySpec
INVARIANTS
    NoOrphanCorrelation
PROPERTY
    Spec
CHECK_DEADLOCK FALSE
