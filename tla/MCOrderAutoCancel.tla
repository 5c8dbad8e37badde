-------------------------- MODULE MCOrderAutoCancel --------------------------
(* Two orders sharing one physical inventory; only o1 has a promo code; o1 holds a *)
(* static virtual stock row, o2 a legacy script placeholder; one unbound    *)
(* item; a batch limit of 1 so that two due orders need two ticks.          *)
EXTENDS OrderAutoCancel, TLC

CONSTANTS o1, o2, s1, i1, v1, v2, p1

MCOrderItems ==
    o1 :> << [inv |-> i1, qty |-> 1], [inv |-> NoInventory, qty |-> 2] >> @@
    o2 :> << [inv |-> i1, qty |-> 1] >>
MCOrderPromo == o1 :> p1 @@ o2 :> NoPromo
MCStockOwner == v1 :> o1 @@ v2 :> o2
MCStockKind  == v1 :> "static" @@ v2 :> "script"
=============================================================================
