\* Every short environment and file, with and without explicit rules.
CONSTANTS
    None = None
    Environments <- SomeEnvironments
    Files <- SomeFiles
    RuleLists <- SomeRules
    Models <- SomeModels
SPECIFICATION Spec
INVARIANTS
    MergeIsFaithful
    DefaultCallsAreSound
CHECK_DEADLOCK FALSE
