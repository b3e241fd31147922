\* Two requests at once, one connection more than they can hold while waiting and
\* one transaction that may fail to start
CONSTANTS
    Worker = {w1, w2}
    Conn = {c1, c2, c3, c4, c5, c6}
    Kinds = {"create", "change"}
    MaxUnstarted = 1
SPECIFICATION Spec
INVARIANTS
    TypeOK
    NotStuck
    OnlyStartsLeak
PROPERTIES
    Answered
