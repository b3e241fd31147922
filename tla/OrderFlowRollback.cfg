\* One request at a time: what a failed request leaves behind
CONSTANTS
    o1 = o1
    o2 = o2
    w1 = w1
    w2 = w2
    Order = {o1, o2}
    Item = {i1, i2}
    Table = {t1}
    Worker = {w1}
    Desk <- SharedDesk
    MaxLines = 1
    Ops = {"create", "rewrite", "remove"}
    OrderTargets = {"preparing", "completed"}
    ItemTargets = {"ready"}
    TableTargets = {"reserved"}
SPECIFICATION Spec
CHECK_DEADLOCK FALSE
PROPERTIES
    RollbackOnError
