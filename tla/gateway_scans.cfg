\* Two scans, a rule that raises and a rule that may break.
CONSTANTS
    s1 = s1
    x1 = x1
    x2 = x2
    None = None
    Subscribers = {}
    Contents <- TwoBodies
    Requests <- NoRequests
    MaxSize = 4
    QueueCap = 1
    MaxItems = 4
    OffLoop = FALSE
    Scans <- TwoScans
    Products = {"soc", "vuln"}
    Sources <- KnownSources
    Rules <- TwoRules
    Raising = {"boom"}
    Breaking = {"host"}
    Correlate <- HostCorrelate
SYMMETRY Interchangeable
SPECIFICATION GatewaySpec
INVARIANTS
    GatewayTypeOK
    CorrelationsUpToDate
CHECK_DEADLOCK FALSE
