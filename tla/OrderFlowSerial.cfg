\* One request at a time, two orders that may share a table
CONSTANTS
    o1 = o1
    o2 = o2
    w1 = w1
    w2 = w2
    Order = {o1, o2}
    Item = {i1, i2}
    Table = {t1}
    Worker = {w1}
    Desk <- SharedDesk
    MaxLines = 2
    Ops = {"create", "rewrite", "remove", "status", "item", "table", "kitchen"}
    OrderTargets = {"completed"}
    ItemTargets = {"ready"}
    TableTargets = {"reserved"}
SPECIFICATION Spec
SYMMETRY SerialSymmetry
INVARIANTS
    PlacedOrderPriced
PROPERTIES
    KitchenLeavesOrderInStep
    CompletionFreesTable
