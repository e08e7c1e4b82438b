\* Spans nested three deep under a tracer that may fail at every call.
CONSTANTS
    None = None
    Remote = Remote
    MaxSpans = 4
    MaxDepth = 3
SPECIFICATION Spec
INVARIANTS
    OutcomeIsTheBodys
    EnteredIsExited
    ContextIsInnermost
    ParentIsKnown
CHECK_DEADLOCK FALSE
