\* Two threads share a registry while an operator edits two files.
CONSTANTS
    a = a
    b = b
    d = d
    broken = broken
    k1 = k1
    k2 = k2
    None = None
    Versions <- TwoVersions
    Contents = {a, b, d, broken}
    Malformed = {broken}
    Callers = {k1, k2}
    Initially <- OneFile
    MaxEdits = 3
SYMMETRY Alike
SPECIFICATION Spec
INVARIANTS
    TypeOK
    ServedWasWritten
    LatestIsFresh
    ContentsAreFew
CHECK_DEADLOCK FALSE
