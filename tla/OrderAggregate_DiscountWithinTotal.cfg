\* Two ordinary items, nothing saved.
SPECIFICATION Spec
CONSTANTS
    Product = {p1, p2}
    Price <- MCPrice
    Discount <- MCOrdinaryDiscount
    Units <- MCOrdinaryUnits
    IntMax = 7
    Session = {s1}
    MaxItems = 2
    MaxLoads = 0
INVARIANTS
    DiscountWithinTotal
