\* Two users of one tab, two notifications of one of them, two calls at once
CONSTANTS
    u1 = u1
    User = {u1, u2}
    Tenanted = {u1}
    Nobody = Nobody
    MaxAttempts = 2
    Note = {n1, n2}
    For <- MCFor
    Flow = {f1, f2}
    NoNote = NoNote
    MaxEars = 2
SPECIFICATION Spec
CONSTRAINT Followed
SYMMETRY Symmetry
INVARIANTS
    TypeOK
    
    KeepsTrying
    BellExact
