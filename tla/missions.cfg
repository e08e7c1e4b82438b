\* Two missions share router and audit file; retries, torn records, close(), and
\* interrupts of the one that runs on the main thread.
CONSTANTS
    m1 = m1
    m2 = m2
    Missions <- TwoMissions
    Team <- TwoTeams
    Given <- TwoGiven
    TierOf <- RoleTiers
    Served <- TwoTiers
    Calls <- FiveCalls
    Unroutable <- Failing
    MaxAttempts = 2
    Backend = "jsonl"
    Interruptible <- OnMainThread
SPECIFICATION MissionFairSpec
INVARIANTS
    TypeOK
    TrailMatchesOutcomes
    LossIsBounded
    SpanMatchesOutcome
    MissionTypeOK
    ResultsMatchCalls
    PromptsSeeEarlier
    TrailInRoleOrder
PROPERTY
    MissionsReturn
CHECK_DEADLOCK FALSE
