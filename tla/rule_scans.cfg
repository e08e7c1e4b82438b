\* Two scans while built-in rules go and two rules of one id come and go.
CONSTANTS
    None = None
    brute = brute
    strict = strict
    cve = cve
    generator = generator
    e1 = e1
    e2 = e2
    Rules <- FourRules
    IdOf <- RuleIds
    Contexts <- ThreeContexts
    MaxFloat = 1
    Does <- FourDo
    Scans <- TwoScans
    Selections <- TwoSelections
    Preloaded <- BuiltIns
    MaxChanges = 2
    KnownVulnerable = {"old"}
    Threshold <- TwoThresholds
SPECIFICATION FairSpec
INVARIANTS
    WholeScanIsAtomic
    SelectionIsServed
    BruteForceReported
PROPERTY
    ScansEnd
CHECK_DEADLOCK FALSE
