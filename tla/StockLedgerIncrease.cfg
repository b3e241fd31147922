\* One request at a time: what an increase adds
CONSTANTS
    s1 = s1
    s2 = s2
    w1 = w1
    w2 = w2
    Stock = {s1}
    MenuItem = {m1}
    Worker = {w1}
    Desk <- SharedDesk
    Actions = {"increase"}
    Quantities = {200}
    Amounts = {100, 500}
    Minima = {100}
    Edits <- EitherField
    MaxSold = 200
    MaxQuantity = 300
SPECIFICATION Spec
PROPERTIES
    IncreaseAdds
