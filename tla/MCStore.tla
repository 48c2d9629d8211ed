------------------------------ MODULE MCStore ------------------------------
(***************************************************************************)
(* Boxes in stock and a book out of stock, from two suppliers, one of      *)
(* which can be typed in two ways (in StoreSelection.cfg).  Four boxes     *)
(* make a client Selection, eight of them Elite.                           *)
(***************************************************************************)
EXTENDS Store

Folding == [k \in SupplierKeys |-> IF k = "s1" THEN "S1" ELSE k]

Shop ==
    [p \in ProductKeys |->
        IF p = "box"
        THEN [supplier |-> "S1", period |-> 5, price |-> 400, stock |-> 12]
        ELSE [supplier |-> "W2", period |-> 3, price |-> 300, stock |-> 0]]
=============================================================================
