--------------------------- MODULE IntentLedgerMC ---------------------------
(* An instance of the intent ledger for TLC. *)
EXTENDS IntentLedger, TLC

CONSTANTS host, q1

(* Two events of one BandwagonHost product, which may hold one intent between *)
(* them; of the quotes that pages may show, the product offered one.          *)
OneProduct == [e \in Event |-> host]
OneProvider == [p \in Product |-> "bandwagon"]
OfferOne == [e \in Event |-> {q1}]

(* Neither the events nor the numbers of orders are told apart. *)
Alike == Permutations(Event) \cup Permutations(OrderId)
=============================================================================
