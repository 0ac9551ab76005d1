---------------------------- MODULE PagedScanMC ----------------------------
(* An instance of PagedScan: two products, a plain look and one with an     *)
(* annual offer; a front page alone, with a group, with two groups that     *)
(* link each other, and one that leads to more pages than a traversal has.  *)
EXTENDS PagedScan

Shown(a, b, look) == [p \in {1, 2} |-> [stock |-> IF p = 1 THEN a ELSE b, look |-> look]]
First(stock) == [p \in {1} |-> [stock |-> stock, look |-> "plain"]]
Showing == {<<>>, First("SOLD_OUT"), First("AVAILABLE"),
            Shown("UNKNOWN", "SOLD_OUT", "plain"), Shown("AVAILABLE", "AVAILABLE", "plain"),
            Shown("AVAILABLE", "UNKNOWN", "annual")}

Linking(links) == [u \in 0 .. 4 |-> IF u \in DOMAIN links THEN links[u] ELSE {}]
Shops == {Linking(<<>>), Linking(0 :> {1} @@ 1 :> {1}), Linking(0 :> {1, 2} @@ 1 :> {2} @@ 2 :> {1}),
          Linking(0 :> {1, 2, 3} @@ 2 :> {4})}
Slot == {[interval |-> 1, lease |-> 2]}
=============================================================================
