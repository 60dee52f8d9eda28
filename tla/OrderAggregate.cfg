\* Three items out of all combinations, two sessions, three loads.
SPECIFICATION Spec
CONSTANTS
    Product = {p1, p2}
    Price <- MCPrice
    Discount <- MCDiscount
    Units <- MCUnits
    IntMax = 3
    Session = {s1, s2}
    MaxItems = 3
    MaxLoads = 3
INVARIANTS
    TypeOK
    TotalIsCombined
    HighestDiscountWins
    EventsFollowTheFlow
    StatusIsAnnounced
