\* Two calls, one write of the audit file may fail.
CONSTANTS
    c1 = c1
    c2 = c2
    Calls = {c1, c2}
    Unroutable = {}
    MaxAttempts = 3
    Backend = "jsonl"
    Interruptible = {}
SPECIFICATION Spec
PROPERTY
    AuditFailureHarmless
CHECK_DEADLOCK FALSE
