----------------------------- MODULE OrderItems -----------------------------
(***************************************************************************)
(* The lines of an order: Order.AddOrderItem and the OrderItem it creates  *)
(* or changes, as functions of the list of lines.  Prices and discounts    *)
(* are decimals, which do not overflow here; units are an int, which wraps.*)
(***************************************************************************)
EXTENDS Integers, SequencesExt, FiniteSetsExt

CONSTANTS
    Product,   \* product ids
    Price,     \* unit prices
    Discount,  \* discounts
    Units,     \* numbers of units
    IntMax     \* int.MaxValue

ASSUME ItemAssumption ==
    /\ Price \subseteq Nat
    /\ Discount \subseteq Int
    /\ IntMax \in Nat
    /\ Units \subseteq -IntMax .. IntMax

Line == [product : Product, price : Price, discount : Discount,
         units : -IntMax - 1 .. IntMax]

(* What a caller asks for.                                                 *)
Item == [product : Product, price : Price, discount : Discount, units : Units]

Wrap(n) == ((n + IntMax + 1) % (2 * IntMax + 2)) - IntMax - 1

(* existingOrderForProduct                                                 *)
LinesOf(lines, p) == {i \in DOMAIN lines : lines[i].product = p}

(* The constructor of OrderItem throws.                                    *)
InvalidLine(item) ==
    item.units <= 0 \/ item.price * item.units < item.discount

(* The later discount wins.                                                *)
LatestDiscount(line, item) == item.discount

HigherDiscount(line, item) ==
    IF item.discount > line.discount THEN item.discount ELSE line.discount

(* SetNewDiscount or AddUnits throws.                                      *)
InvalidMerge(line, item) ==
    \/ item.discount > line.discount /\ item.discount < 0
    \/ item.units < 0

(* The later units replace the earlier ones.                               *)
MergedUnitsOverwritten(line, item) == item.units

MergedUnits(line, item) == Wrap(line.units + item.units)

(* The price of the first item of a product stays.                         *)
Merged(line, item) ==
    [line EXCEPT !.discount = HigherDiscount(line, item),
                 !.units = MergedUnits(line, item)]

AddOrderItemThrows(lines, item) ==
    \/ LinesOf(lines, item.product) = {} /\ InvalidLine(item)
    \/ \E i \in LinesOf(lines, item.product) : InvalidMerge(lines[i], item)

AddOrderItem(lines, item) ==
    IF LinesOf(lines, item.product) = {}
    THEN Append(lines, item)
    ELSE [i \in DOMAIN lines |->
            IF lines[i].product = item.product THEN Merged(lines[i], item) ELSE lines[i]]

(* SetNewDiscount has taken effect when AddUnits throws.                   *)
AfterThrow(lines, item) ==
    [i \in DOMAIN lines |->
        IF lines[i].product = item.product /\ item.discount >= 0
        THEN [lines[i] EXCEPT !.discount = HigherDiscount(lines[i], item)]
        ELSE lines[i]]

Sum(s) == FoldLeft(+, 0, s)

GetTotal(lines) == Sum([i \in DOMAIN lines |-> lines[i].units * lines[i].price])
=============================================================================
