\* Two requests at once on one stock
CONSTANTS
    s1 = s1
    s2 = s2
    w1 = w1
    w2 = w2
    Stock = {s1}
    MenuItem = {m1}
    Worker = {w1, w2}
    Desk <- SharedDesk
    Actions = {"increase", "decrease", "adjustment", "waste"}
    Quantities = {100, 200}
    Amounts <- BothSigns
    Minima = {100}
    Edits <- EitherField
    MaxSold = 200
    MaxQuantity = 200
SPECIFICATION Spec
INVARIANTS
    TypeOK
    NeverNegative
    NeverUnderstated
    Inv
SYMMETRY Symmetry
