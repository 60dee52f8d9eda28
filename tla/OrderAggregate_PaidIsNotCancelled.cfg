\* Two sessions work on copies of one order.
SPECIFICATION Spec
CONSTANTS
    Product = {p1}
    Price <- MCPrice
    Discount <- MCDiscount
    Units <- MCUnits
    IntMax = 3
    Session = {s1, s2}
    MaxItems = 1
    MaxLoads = 3
PROPERTIES
    PaidIsNotCancelled
