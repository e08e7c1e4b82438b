\* Single cases over all fields and rules; pairs with every wrapping of a reply.
CONSTANTS
    None = None
    Wrong = Wrong
    Escapes = Escapes
    odd = odd
    Suites <- SmallSuites
SPECIFICATION Spec
INVARIANTS
    TypeOK
    VerdictsAreRight
    EveryCaseIsJudged
CHECK_DEADLOCK FALSE
