-------------------------- MODULE ArmedPurchaseMC --------------------------
(* An instance of ArmedPurchase: two events of one product and one of       *)
(* another, so that a batch holds a second event of what is being bought    *)
(* and one of something else; the second event gets an order number that a  *)
(* payable page does not have; a lease of one unit.                         *)
EXTENDS ArmedPurchase

Wares == [e \in Event |-> IF e = 3 THEN "q" ELSE "p"]
=============================================================================
