------------------------------ MODULE WatchMC ------------------------------
(* Instances of Watch: two products of one look, which are both sold out or *)
(* both on sale, or of which one is unknown.  Five minutes are a unit.      *)
EXTENDS Watch

Seen(a, b) == [p \in {1, 2} |-> [stock |-> IF p = 1 THEN a ELSE b, look |-> "plain"]]
Pages == {Seen("SOLD_OUT", "SOLD_OUT"), Seen("AVAILABLE", "AVAILABLE"),
          Seen("UNKNOWN", "AVAILABLE")}
Slot == {[interval |-> 1, lease |-> 2]}

Both == {[kind |-> k, prepare |-> TRUE] : k \in {"script", "monitor"}}
Scripts == {[kind |-> "script", prepare |-> TRUE]}
=============================================================================
