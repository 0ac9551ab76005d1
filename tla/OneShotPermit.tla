--------------------------- MODULE OneShotPermit ---------------------------
(***************************************************************************)
(* What the purchase-intent ledger promises, without its states.           *)
(*                                                                         *)
(* Every event may open at most one purchase.  A purchase holds its        *)
(* product until it is discarded before its permission was spent, or until *)
(* the merchant is known to have closed the order it led to.  The          *)
(* permission to send the order is spent at most once, never after an      *)
(* order is known, and a spent permission never lets the product go before *)
(* an order was seen.  Nothing here can be undone by a restart: there is   *)
(* no action that takes an element out of used, spent or found.            *)
(***************************************************************************)

CONSTANTS
  Event,      (* the stock events, each of which may open one purchase     *)
  Product,    (* the products they are about                               *)
  ProductOf   (* the product of an event                                   *)

VARIABLES
  open,       (* the purchases that hold their product                     *)
  used,       (* the events that ever opened a purchase                    *)
  spent,      (* the purchases whose permission to send was spent          *)
  found       (* the purchases whose order was seen at the merchant        *)

permitVars == <<open, used, spent, found>>

Init ==
  /\ open = {}
  /\ used = {}
  /\ spent = {}
  /\ found = {}

(* A fresh event opens a purchase of a product nobody holds. *)
Open(e) ==
  /\ e \notin used
  /\ \A f \in open : ProductOf[f] # ProductOf[e]
  /\ open' = open \cup {e}
  /\ used' = used \cup {e}
  /\ UNCHANGED <<spent, found>>

(* The one permission to send the order of a purchase. *)
Spend(e) ==
  /\ e \in open
  /\ e \notin spent \cup found
  /\ spent' = spent \cup {e}
  /\ UNCHANGED <<open, used, found>>

(* An order of this purchase is seen at the merchant. *)
Find(e) ==
  /\ e \in open
  /\ e \notin found
  /\ found' = found \cup {e}
  /\ UNCHANGED <<open, used, spent>>

(* A purchase whose permission is unspent lets its product go. *)
Discard(e) ==
  /\ e \in open
  /\ e \notin spent \cup found
  /\ open' = open \ {e}
  /\ UNCHANGED <<used, spent, found>>

(* The merchant closed the order that was seen. *)
Settle(e) ==
  /\ e \in open
  /\ e \in found
  /\ open' = open \ {e}
  /\ UNCHANGED <<used, spent, found>>

Next == \E e \in Event : Open(e) \/ Spend(e) \/ Find(e) \/ Discard(e) \/ Settle(e)

Spec == Init /\ [][Next]_permitVars
=============================================================================
