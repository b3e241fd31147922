\* Two requests at once, each on a stock of its own
CONSTANTS
    s1 = s1
    s2 = s2
    w1 = w1
    w2 = w2
    Stock = {s1, s2}
    MenuItem = {m1, m2}
    Worker = {w1, w2}
    Desk <- PrivateDesk
    Actions = {"decrease", "adjustment"}
    Quantities = {200}
    Amounts <- Negative
    Minima = {100}
    Edits <- EitherField
    MaxSold = 200
    MaxQuantity = 200
SPECIFICATION Spec
INVARIANTS
    Own
PROPERTIES
    ImplementsStockLevels
