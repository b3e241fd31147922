SPECIFICATION Spec
CONSTANTS
    Flow = {f1, f2}
    Pair = {p1, p2}
    NoPair = NoPair
INVARIANTS
    TypeOK
    OneRefresh
PROPERTIES
    PresentedOnce
    SessionKept
    LogoutEndsSession
    FlowEnds
