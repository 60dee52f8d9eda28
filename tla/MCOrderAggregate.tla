-------------------------- MODULE MCOrderAggregate --------------------------
(* Small inputs of OrderAggregate.                                         *)
EXTENDS OrderAggregate

MCPrice == {1, 2}
MCDiscount == {-1, 0, 1, 3}
MCUnits == {-1, 0, 1, 2}

(* Only what a buyer would enter.                                          *)
MCOrdinaryDiscount == {0, 1, 3}
MCOrdinaryUnits == {1, 2}
=============================================================================
