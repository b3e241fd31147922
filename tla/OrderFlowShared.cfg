\* Two requests at once on one order of up to two lines
CONSTANTS
    o1 = o1
    o2 = o2
    w1 = w1
    w2 = w2
    Order = {o1}
    Item = {i1, i2}
    Table = {t1}
    Worker = {w1, w2}
    Desk <- SharedDesk
    MaxLines = 2
    Ops = {"create", "remove", "kitchen", "patch"}
    OrderTargets = {"completed"}
    ItemTargets = {"ready"}
    TableTargets = {"reserved"}
SPECIFICATION Spec
CHECK_DEADLOCK FALSE
SYMMETRY SharedSymmetry
INVARIANTS
    TypeOK
    Inv
    LinesKept
    TotalWholeOrZero
