----------------------------- MODULE EventStore -----------------------------
(***************************************************************************)
(* The catalogue baseline of one provider and its events: the Store of     *)
(* storage/database.py, with the classification of core/opportunity.py.    *)
(* Every method is one transaction.  Rows of other providers are never     *)
(* touched, and the tables of runs and of sent notifications, which        *)
(* nothing reads back, are left out.                                       *)
(*                                                                         *)
(* An observation of a product is its stock and its look; a look stands    *)
(* for everything else (name, prices, groups, URL, metadata).  A change of *)
(* look is an opportunity of its own when it brings an offer of a kind the *)
(* product did not have: an annual price, a new group, a new order URL,    *)
(* public instead of hidden.  For Apple's inventory see ApplePickup.        *)
(***************************************************************************)
EXTENDS Integers, Sequences, FiniteSets

CONSTANTS
  Product,            (* product ids, numbered in the order of a page      *)
  Look,
  Offer,              (* the looks that carry such an offer                *)
  None,
  MaxRevision,        (* bound of the revisions of a product               *)
  MaxEvents           (* bound of the events                               *)

Stock == {"AVAILABLE", "SOLD_OUT", "UNKNOWN"}
Observation == [stock : Stock, look : Look]

ASSUME StoreAssumption ==
  /\ Product \subseteq Nat /\ IsFiniteSet(Product)
  /\ Offer \subseteq Look
  /\ None \notin [stock : Stock, look : Look, revision : Nat]
  /\ None \notin {"NEW_PRODUCT", "RESTOCK", "PRODUCT_CHANGED"}
  /\ MaxRevision \in Nat
  /\ MaxEvents \in Nat

VARIABLES
  baseline,           (* the provider has a baseline                       *)
  product,            (* its rows, None where there is none                *)
  event,              (* the events, in the order of their creation        *)
  sighted             (* history: the last definite stock of a product     *)

storeVars == <<baseline, product, event, sighted>>

(* What a worker writes while it is busy, and when it is not.  RUNNING comes *)
(* from claim_event alone; WORKING stands for the words of the steps in      *)
(* between (DETECTED ... NOTIFYING), DONE for every final one.               *)
InFlight == {"RUNNING", "WORKING"}
Status == InFlight \cup {"PENDING", "DONE", "INTERRUPTED"}
Kind == {"NEW_PRODUCT", "RESTOCK", "PRODUCT_CHANGED"}
Event == [product : Product, kind : Kind, revision : Nat, look : Look,
          opportunity : BOOLEAN, candidate : BOOLEAN, status : Status]

StoreInit ==
  /\ baseline = FALSE
  /\ product = [p \in Product |-> None]
  /\ event = <<>>
  /\ sighted = [p \in Product |-> "UNKNOWN"]

-----------------------------------------------------------------------------
(* Mutant of Merged: what was last seen is what is stored. *)
LastSeen(p, obs) == obs

(* An UNKNOWN stock does not replace what was known. *)
Merged(p, obs) ==
  IF product[p] # None /\ obs.stock = "UNKNOWN"
  THEN [obs EXCEPT !.stock = product[p].stock] ELSE obs

Changed(p, obs) ==
  \/ Merged(p, obs).stock # product[p].stock
  \/ Merged(p, obs).look # product[p].look

(* Mutant of Revision: the restocks of a product are one change. *)
RevisionOfLook(p, obs) ==
  IF product[p] = None THEN IF baseline THEN 1 ELSE 0
  ELSE IF obs.look # product[p].look THEN product[p].revision + 1
  ELSE product[p].revision

Revision(p, obs) ==
  IF product[p] = None THEN IF baseline THEN 1 ELSE 0
  ELSE IF Changed(p, obs) THEN product[p].revision + 1
  ELSE product[p].revision

(* The type of the event that an observation makes, if any. *)
BackInStock(p, obs) ==
  product[p].stock = "SOLD_OUT" /\ Merged(p, obs).stock = "AVAILABLE"

EventType(p, obs) ==
  IF product[p] = None THEN "NEW_PRODUCT"
  ELSE IF BackInStock(p, obs) THEN "RESTOCK"
  ELSE IF obs.look # product[p].look THEN "PRODUCT_CHANGED"
  ELSE None

(* classify_event, on the stored row and the fresh observation. *)
Opportunity(p, obs) ==
  LET row == product[p] IN
  IF row = None THEN TRUE
  ELSE \/ row.stock = "SOLD_OUT" /\ obs.stock = "AVAILABLE"
       \/ obs.look \in Offer /\ row.look \notin Offer

NewEvent(p, obs) ==
  [product |-> p, kind |-> EventType(p, obs), revision |-> Revision(p, obs),
   look |-> obs.look, opportunity |-> Opportunity(p, obs),
   candidate |-> Opportunity(p, obs) /\ obs.stock = "AVAILABLE", status |-> "PENDING"]

(* A finite set of numbers as an increasing sequence. *)
InOrder(S) ==
  CHOOSE s \in [1 .. Cardinality(S) -> S] : \A i, j \in DOMAIN s : i < j => s[i] < s[j]

(* The events of one scan, in the order of the page; none without baseline. *)
Eventful(scan) == {p \in DOMAIN scan : baseline /\ EventType(p, scan[p]) # None}

NewEvents(scan) ==
  LET order == InOrder(Eventful(scan))
  IN [i \in 1 .. Cardinality(Eventful(scan)) |-> NewEvent(order[i], scan[order[i]])]

(* The rows after a scan; a product that is missing keeps its row. *)
Rows(scan) == [p \in Product |->
  IF p \notin DOMAIN scan THEN product[p]
  ELSE [stock |-> Merged(p, scan[p]).stock, look |-> scan[p].look,
        revision |-> Revision(p, scan[p])]]

Sight(scan) == [p \in Product |->
  IF p \in DOMAIN scan /\ scan[p].stock # "UNKNOWN" THEN scan[p].stock ELSE sighted[p]]

WithinBounds(scan) ==
  /\ \A p \in DOMAIN scan : Revision(p, scan[p]) <= MaxRevision
  /\ Len(event) + Len(NewEvents(scan)) <= MaxEvents

(* ingest: one complete catalogue, or nothing.  The first one makes the      *)
(* baseline and no events.                                                   *)
Ingest(scan) ==
  /\ scan # <<>> /\ WithinBounds(scan)
  /\ event' = event \o NewEvents(scan)
  /\ product' = Rows(scan)
  /\ sighted' = Sight(scan)
  /\ baseline' = TRUE

(* claim_event: the one permission to work on an event. *)
ClaimEvent(e) ==
  /\ event[e].status = "PENDING"
  /\ event' = [event EXCEPT ![e].status = "RUNNING"]
  /\ UNCHANGED <<baseline, product, sighted>>

(* update_event: any status but the two it may not write. *)
UpdateEvent(e, status) ==
  /\ status \in {"WORKING", "DONE", "INTERRUPTED"}
  /\ event' = [event EXCEPT ![e].status = status]
  /\ UNCHANGED <<baseline, product, sighted>>

(* recover_interrupted, at the start of a monitor. *)
RecoverInterrupted ==
  /\ event' = [e \in DOMAIN event |->
       IF event[e].status \in InFlight THEN [event[e] EXCEPT !.status = "INTERRUPTED"]
       ELSE event[e]]
  /\ UNCHANGED <<baseline, product, sighted>>

Scan == UNION {[S -> Observation] : S \in (SUBSET Product) \ {{}}}

StoreNext ==
  \/ \E scan \in Scan : Ingest(scan)
  \/ \E e \in DOMAIN event :
       \/ ClaimEvent(e)
       \/ \E status \in {"WORKING", "DONE", "INTERRUPTED"} : UpdateEvent(e, status)
  \/ RecoverInterrupted

StoreSpec == StoreInit /\ [][StoreNext]_storeVars

-----------------------------------------------------------------------------
(* The rows are rows of the tables; a baseline and its rows come together. *)
StoreTypeOK ==
  /\ baseline \in BOOLEAN
  /\ \A p \in Product :
       \/ product[p] = None
       \/ baseline /\ product[p] \in [stock : Stock, look : Look, revision : 0 .. MaxRevision]
  /\ \A e \in DOMAIN event : event[e] \in Event

(* The key that keeps an event from being created twice (provider, product, *)
(* revision, type) is never met again by a later change: the look-up of the *)
(* key in _create_event, which is left out here, finds nothing.             *)
EveryChangeHasItsKey ==
  \A d, e \in DOMAIN event :
    d # e => event[d].product # event[e].product \/ event[d].revision # event[e].revision

(* "SOLD_OUT -> UNKNOWN -> AVAILABLE is still one confirmed RESTOCK, whereas *)
(* AVAILABLE -> UNKNOWN -> AVAILABLE is not" (ingest): a restock event comes *)
(* exactly when a product is seen available whose last definite sighting,    *)
(* however many scans ago, was sold out.                                     *)
Restocked(p) == sighted[p] = "SOLD_OUT" /\ sighted'[p] = "AVAILABLE"

RestocksAreSeen ==
  [][\A p \in Product :
       Restocked(p) <=> \E e \in DOMAIN event' \ DOMAIN event :
                          event'[e].product = p /\ event'[e].kind = "RESTOCK"]_storeVars
=============================================================================
