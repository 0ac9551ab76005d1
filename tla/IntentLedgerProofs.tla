------------------------- MODULE IntentLedgerProofs -------------------------
(***************************************************************************)
(* Proofs about the purchase-intent ledger, for every set of events,       *)
(* products, identifiers and quotes and every clock bound.                 *)
(*                                                                         *)
(* Every action rewrites single rows, so the inductive invariant is a      *)
(* predicate on one row, RowOK, plus the uniqueness of active products.    *)
(***************************************************************************)
EXTENDS IntentLedger, TLAPS

Dispatched == Unresolved \cup {"ORDER_SUBMIT_FAILED"}
Closed == {"ORDER_EXPIRED", "ORDER_CANCELLED"}
Payable == {"PAYMENT_READY", "WAITING_FOR_USER"}

(* What every single row of event e satisfies.  It is stronger than the    *)
(* invariants: evidence, URL and precheck are tied to the row also in the  *)
(* states where no invariant asks for it yet.                              *)
RowOK(e, r) ==
  /\ r.order # None <=> r.state \in Observed \cup Closed
  /\ r.state \in PreSubmit \cup {"NO_INTENT", "PRE_SUBMIT_ABORTED"} =>
       r.submit = None
  /\ r.state \in Dispatched => r.submit # None
  /\ r.nonce # None => r.submit # None /\ r.precheck # None
  /\ r.precheck # None => r.precheck.quote \in Offered[e]
  /\ r.url # None => r.url = r.invoice
  /\ r.evidence # None =>
       /\ r.evidence.order = r.order
       /\ r.evidence.invoice = r.invoice
       /\ r.evidence.url = r.url
       /\ r.nonce # None => r.evidence.quote = r.precheck.quote
  /\ r.state \in Payable => r.evidence # None /\ r.verified
  /\ r.state = "NO_INTENT" => r = NoIntent

RowsOK == \A e \in Event : RowOK(e, intent[e])

IInv == TypeOK /\ RowsOK /\ OneActivePerProduct

IsActive(r) == r.state \notin Terminal \cup {"NO_INTENT"}

(* What a rewritten row may not forget. *)
FactsKept(old, r) ==
  /\ Kept(old.cart, r.cart) /\ Kept(old.order, r.order)
  /\ Kept(old.invoice, r.invoice) /\ Kept(old.url, r.url)
  /\ Kept(old.nonce, r.nonce) /\ Kept(old.submit, r.submit)
  /\ old.submit # None => r.precheck = old.precheck

(* What rewriting a row means for its permit: nothing, spending it, seeing *)
(* its order, or letting the product go.                                   *)
PermitSame(old, r) ==
  /\ r.submit = old.submit
  /\ r.order = old.order
  /\ IsActive(r) <=> IsActive(old)

PermitSpent(old, r) ==
  /\ IsActive(old) /\ IsActive(r)
  /\ old.submit = None /\ r.submit # None
  /\ old.order = None /\ r.order = None

OrderSeen(old, r) ==
  /\ IsActive(old) /\ IsActive(r)
  /\ old.order = None /\ r.order # None
  /\ r.submit = old.submit

ProductFreed(old, r) ==
  /\ IsActive(old) /\ ~IsActive(r)
  /\ r.submit = old.submit /\ r.order = old.order
  /\ old.order # None \/ old.submit = None

PermitStep(old, r) ==
  /\ old.state # "NO_INTENT" /\ r.state # "NO_INTENT"
  /\ \/ PermitSame(old, r) \/ PermitSpent(old, r)
     \/ OrderSeen(old, r) \/ ProductFreed(old, r)

(* The step rewrites the row of e to r, a row as good as any that forgets  *)
(* nothing and is a step of its permit.                                    *)
Rewrites(e, r) ==
  /\ r \in Row
  /\ RowOK(e, r)
  /\ FactsKept(intent[e], r)
  /\ PermitStep(intent[e], r)
  /\ intent' = [intent EXCEPT ![e] = r]
  /\ now' = now

WithState(row, s, v) == [row EXCEPT !.state = s, !.verified = v]

(* Merging fills the four fields of a result and leaves the others. *)
LEMMA MergedFields ==
  ASSUME NEW row \in Row, NEW res \in Result
  PROVE  LET m == Merged(row, res) IN
         /\ m \in Row
         /\ m.state = row.state /\ m.submit = row.submit /\ m.nonce = row.nonce
         /\ m.precheck = row.precheck /\ m.cart = row.cart
         /\ m.order = OrElse(res.order, row.order)
         /\ m.invoice = OrElse(res.invoice, row.invoice)
         /\ m.url = OrElse(res.url, row.url)
         /\ m.evidence = OrElse(res.evidence, row.evidence)
  <1> DEFINE m == Merged(row, res)
             o == OrElse(res.order, row.order)
             i == OrElse(res.invoice, row.invoice)
             u == OrElse(res.url, row.url)
             v == OrElse(res.evidence, row.evidence)
  <1>1. o \in OrderId \cup {None} /\ i \in InvoiceId \cup {None}
    BY DEF Row, Result, OrElse
  <1>2. u \in InvoiceId \cup {None} /\ v \in Evidence \cup {None}
    BY DEF Row, Result, OrElse
  <1>3. m = [row EXCEPT !.order = o, !.invoice = i, !.url = u, !.evidence = v]
    BY DEF Merged
  <1> HIDE DEF o, i, u, v, m
  <1>4. [row EXCEPT !.order = o, !.invoice = i, !.url = u, !.evidence = v] \in Row
    BY <1>1, <1>2 DEF Row
  <1>5. m.order = o /\ m.invoice = i /\ m.state = row.state
    BY <1>3 DEF Row
  <1>6. /\ m.url = u /\ m.evidence = v
        /\ m.nonce = row.nonce /\ m.submit = row.submit
        /\ m.precheck = row.precheck /\ m.cart = row.cart
    BY <1>3 DEF Row
  <1> QED
    BY <1>3, <1>4, <1>5, <1>6 DEF o, i, u, v, m

LEMMA StateFields ==
  ASSUME NEW row \in Row, NEW s \in State, NEW v \in BOOLEAN
  PROVE  LET p == WithState(row, s, v) IN
         /\ p \in Row
         /\ p.state = s /\ p.verified = v
         /\ p.submit = row.submit /\ p.nonce = row.nonce
         /\ p.precheck = row.precheck /\ p.cart = row.cart
         /\ p.order = row.order /\ p.invoice = row.invoice /\ p.url = row.url
         /\ p.evidence = row.evidence
  <1> DEFINE p == WithState(row, s, v)
  <1>0. [row EXCEPT !.state = s, !.verified = v] \in Row
    BY DEF Row
  <1>1. p \in Row
    BY <1>0 DEF WithState
  <1>2. /\ p.state = s /\ p.verified = v
        /\ p.submit = row.submit /\ p.nonce = row.nonce
    BY DEF Row, WithState
  <1>3. /\ p.precheck = row.precheck /\ p.cart = row.cart /\ p.order = row.order
        /\ p.invoice = row.invoice /\ p.url = row.url
        /\ p.evidence = row.evidence
    BY DEF Row, WithState
  <1> QED
    BY <1>1, <1>2, <1>3

USE DEF Terminal, PreSubmit, Unresolved, Observed, ResultStates, State,
        Dispatched, Closed, Payable

(* NULL is no identifier and no time. *)
LEMMA NoneApart ==
  /\ None \notin Time
  /\ None \notin OrderId /\ None \notin InvoiceId /\ None \notin Nonce
  BY LedgerAssumption

LEMMA RewriteKeeps ==
  ASSUME IInv, NEW e \in Event, NEW r, Rewrites(e, r)
  PROVE  IInv'
  <1>1. intent' \in [Event -> Row] /\ now' \in Time
    BY DEF IInv, TypeOK, Rewrites
  <1>2. \A f \in Event : intent'[f] = IF f = e THEN r ELSE intent[f]
    BY DEF IInv, TypeOK, Rewrites
  <1>3. RowsOK'
    BY <1>2 DEF IInv, RowsOK, RowOK, Rewrites
  <1>4. \A f \in Event : Active(f)' => Active(f)
    BY <1>2 DEF Rewrites, Active, IsActive, PermitStep, PermitSame, PermitSpent,
                OrderSeen, ProductFreed
  <1>5. OneActivePerProduct'
    BY <1>4 DEF IInv, OneActivePerProduct
  <1> QED
    BY <1>1, <1>3, <1>5 DEF IInv, TypeOK

LEMMA SetCartRewrites ==
  ASSUME IInv, NEW e \in Event, NEW c \in CartId, SetCart(e, c)
  PROVE  \E r : Rewrites(e, r)
  <1> DEFINE r == [intent[e] EXCEPT !.cart = c, !.state = "CART_READY"]
  <1>1. intent' = [intent EXCEPT ![e] = r]
    BY DEF SetCart, IInv, TypeOK
  <1>2. intent[e] \in Row /\ RowOK(e, intent[e])
    BY DEF IInv, TypeOK, RowsOK
  <1>3. r \in Row
    BY <1>2 DEF Row
  <1>4. RowOK(e, r)
    BY <1>2, <1>3 DEF Row, RowOK, SetCart
  <1>5. FactsKept(intent[e], r)
    BY <1>2 DEF Row, RowOK, FactsKept, Kept, SetCart
  <1>6. PermitStep(intent[e], r)
    BY <1>2, <1>4 DEF Row, RowOK, PermitStep, PermitSame, IsActive, SetCart
  <1> QED
    BY <1>1, <1>3, <1>4, <1>5, <1>6 DEF Rewrites, SetCart

LEMMA CheckoutReadyRewrites ==
  ASSUME IInv, NEW e \in Event, MarkCheckoutReady(e)
  PROVE  \E r : Rewrites(e, r)
  <1> DEFINE r == [intent[e] EXCEPT !.state = "CHECKOUT_READY"]
  <1>1. intent' = [intent EXCEPT ![e] = r]
    BY DEF MarkCheckoutReady, IInv, TypeOK
  <1>2. intent[e] \in Row /\ RowOK(e, intent[e])
    BY DEF IInv, TypeOK, RowsOK
  <1>3. r \in Row
    BY <1>2 DEF Row, MarkCheckoutReady
  <1>4. RowOK(e, r)
    BY <1>2, <1>3 DEF Row, RowOK, MarkCheckoutReady
  <1>5. FactsKept(intent[e], r)
    BY <1>2 DEF Row, RowOK, FactsKept, Kept, MarkCheckoutReady
  <1>6. PermitStep(intent[e], r)
    BY <1>2, <1>4 DEF Row, RowOK, PermitStep, PermitSame, IsActive, MarkCheckoutReady
  <1> QED
    BY <1>1, <1>3, <1>4, <1>5, <1>6 DEF Rewrites, MarkCheckoutReady

LEMMA MarkSubmittingRewrites ==
  ASSUME IInv, NEW e \in Event, MarkSubmitting(e)
  PROVE  \E r : Rewrites(e, r)
  <1> DEFINE r == [intent[e] EXCEPT !.state = "ORDER_SUBMITTING", !.submit = now]
  <1>1. intent' = [intent EXCEPT ![e] = r]
    BY DEF MarkSubmitting, IInv, TypeOK
  <1>2. intent[e] \in Row /\ RowOK(e, intent[e])
    BY DEF IInv, TypeOK, RowsOK
  <1>0. now \in Time
    BY DEF IInv, TypeOK
  <1>3. r \in Row
    BY <1>0, <1>2 DEF Row
  <1>4. RowOK(e, r)
    <2>1. /\ r.state = "ORDER_SUBMITTING" /\ r.submit = now
          /\ r.order = intent[e].order /\ r.invoice = intent[e].invoice
          /\ r.url = intent[e].url /\ r.nonce = intent[e].nonce
          /\ r.precheck = intent[e].precheck /\ r.evidence = intent[e].evidence
      BY <1>2 DEF Row
    <2>2. now # None
      BY <1>0, NoneApart
    <2>3. intent[e].order = None /\ intent[e].nonce = None
      BY <1>2 DEF RowOK, MarkSubmitting
    <2> QED
      BY <1>2, <2>1, <2>2, <2>3 DEF RowOK
  <1>5. FactsKept(intent[e], r)
    BY <1>2 DEF Row, RowOK, FactsKept, Kept, MarkSubmitting
  <1>6. PermitStep(intent[e], r)
    BY <1>2, <1>4 DEF Row, RowOK, PermitStep, PermitSpent, IsActive, MarkSubmitting
  <1> QED
    BY <1>1, <1>3, <1>4, <1>5, <1>6 DEF Rewrites, MarkSubmitting

LEMMA PrecheckRewrites ==
  ASSUME IInv, NEW e \in Event, NEW id \in PrecheckId, NEW at \in Time,
         NEW quote \in Quote, SetOrderPrecheck(e, id, at, quote)
  PROVE  \E r : Rewrites(e, r)
  <1> DEFINE r == [intent[e] EXCEPT !.state = "ORDER_PRECHECK",
                                !.precheck = [id |-> id, at |-> at, quote |-> quote]]
  <1>1. intent' = [intent EXCEPT ![e] = r]
    BY DEF SetOrderPrecheck, IInv, TypeOK, Precheck
  <1>2. intent[e] \in Row /\ RowOK(e, intent[e])
    BY DEF IInv, TypeOK, RowsOK
  <1>0. [id |-> id, at |-> at, quote |-> quote] \in Precheck
    BY DEF Precheck
  <1>3. r \in Row
    BY <1>0, <1>2 DEF Row
  <1>4. RowOK(e, r)
    BY <1>2, <1>3 DEF Row, RowOK, SetOrderPrecheck
  <1>5. FactsKept(intent[e], r)
    BY <1>2 DEF Row, RowOK, FactsKept, Kept, SetOrderPrecheck
  <1>6. PermitStep(intent[e], r)
    BY <1>2, <1>4 DEF Row, RowOK, PermitStep, PermitSame, IsActive, SetOrderPrecheck
  <1> QED
    BY <1>1, <1>3, <1>4, <1>5, <1>6 DEF Rewrites, SetOrderPrecheck

LEMMA BeginSubmissionRewrites ==
  ASSUME IInv, NEW e \in Event, NEW nonce \in Nonce, NEW id \in PrecheckId,
         NEW issued \in Time, BeginOrderSubmission(e, nonce, id, issued)
  PROVE  \E r : Rewrites(e, r)
  <1> DEFINE r == [intent[e] EXCEPT !.state = "ORDER_SUBMITTING", !.nonce = nonce,
                                !.submit = issued]
  <1>1. intent' = [intent EXCEPT ![e] = r]
    BY DEF BeginOrderSubmission, IInv, TypeOK
  <1>2. intent[e] \in Row /\ RowOK(e, intent[e])
    BY DEF IInv, TypeOK, RowsOK
  <1>3. r \in Row
    BY <1>2 DEF Row, BeginOrderSubmission
  <1>4. RowOK(e, r)
    <2>1. /\ r.state = "ORDER_SUBMITTING" /\ r.submit = issued /\ r.nonce = nonce
          /\ r.order = intent[e].order /\ r.invoice = intent[e].invoice
          /\ r.url = intent[e].url
          /\ r.precheck = intent[e].precheck /\ r.evidence = intent[e].evidence
      BY <1>2 DEF Row
    <2>2. issued # None
      BY NoneApart
    <2>3. /\ intent[e].order = None
          /\ intent[e].precheck # None
          /\ intent[e].evidence = None
      <3>1. intent[e].order = None /\ intent[e].precheck # None
        BY <1>2 DEF RowOK, BeginOrderSubmission
      <3>2. ASSUME intent[e].evidence # None PROVE FALSE
        BY <1>2, <3>1, <3>2, NoneApart DEF RowOK, Row, Evidence
      <3> QED
        BY <3>1, <3>2
    <2> QED
      BY <1>2, <2>1, <2>2, <2>3 DEF RowOK
  <1>5. FactsKept(intent[e], r)
    BY <1>2 DEF Row, RowOK, FactsKept, Kept, BeginOrderSubmission
  <1>6. PermitStep(intent[e], r)
    BY <1>2, <1>4 DEF Row, RowOK, PermitStep, PermitSpent, IsActive, BeginOrderSubmission
  <1> QED
    BY <1>1, <1>3, <1>4, <1>5, <1>6 DEF Rewrites, BeginOrderSubmission

LEMMA ClaimRewrites ==
  ASSUME IInv, NEW e \in Event, ClaimPaymentNotification(e)
  PROVE  \E r : Rewrites(e, r)
  <1> DEFINE r == [intent[e] EXCEPT !.notified = TRUE]
  <1>1. intent' = [intent EXCEPT ![e] = r]
    BY DEF ClaimPaymentNotification, IInv, TypeOK
  <1>2. intent[e] \in Row /\ RowOK(e, intent[e])
    BY DEF IInv, TypeOK, RowsOK
  <1>3. r \in Row
    BY <1>2 DEF Row, ClaimPaymentNotification
  <1>4. RowOK(e, r)
    BY <1>2, <1>3 DEF Row, RowOK, ClaimPaymentNotification
  <1>5. FactsKept(intent[e], r)
    BY <1>2 DEF Row, RowOK, FactsKept, Kept, ClaimPaymentNotification
  <1>6. PermitStep(intent[e], r)
    BY <1>2, <1>4 DEF Row, RowOK, PermitStep, PermitSame, IsActive, ClaimPaymentNotification
  <1> QED
    BY <1>1, <1>3, <1>4, <1>5, <1>6 DEF Rewrites, ClaimPaymentNotification

LEMMA MarkUncertainRewrites ==
  ASSUME IInv, NEW e \in Event, MarkUncertain(e)
  PROVE  \E r : Rewrites(e, r)
  <1> DEFINE r == [intent[e] EXCEPT !.state = UncertainState(intent[e])]
  <1>1. intent' = [intent EXCEPT ![e] = r]
    BY DEF MarkUncertain, IInv, TypeOK, UncertainState
  <1>2. intent[e] \in Row /\ RowOK(e, intent[e])
    BY DEF IInv, TypeOK, RowsOK
  <1>3. r \in Row
    BY <1>2 DEF Row, MarkUncertain, UncertainState
  <1>4. RowOK(e, r)
    BY <1>2, <1>3 DEF Row, RowOK, MarkUncertain, UncertainState
  <1>5. FactsKept(intent[e], r)
    BY <1>2 DEF Row, RowOK, FactsKept, Kept, MarkUncertain
  <1>6. PermitStep(intent[e], r)
    BY <1>2, <1>4 DEF Row, RowOK, PermitStep, PermitSame, IsActive, MarkUncertain, UncertainState
  <1> QED
    BY <1>1, <1>3, <1>4, <1>5, <1>6 DEF Rewrites, MarkUncertain

LEMMA AbsentRewrites ==
  ASSUME IInv, NEW e \in Event, NEW nonce \in Nonce \cup {None}, NEW at \in Time,
         NEW quote \in Quote, ReconcileAbsent(e, nonce, at, quote)
  PROVE  \E r : Rewrites(e, r)
  <1> DEFINE r == [intent[e] EXCEPT !.state = "ORDER_SUBMIT_FAILED"]
  <1>1. intent' = [intent EXCEPT ![e] = r]
    BY DEF ReconcileAbsent, IInv, TypeOK
  <1>2. intent[e] \in Row /\ RowOK(e, intent[e])
    BY DEF IInv, TypeOK, RowsOK
  <1>3. r \in Row
    BY <1>2 DEF Row, ReconcileAbsent
  <1>4. RowOK(e, r)
    BY <1>2, <1>3 DEF Row, RowOK, ReconcileAbsent
  <1>5. FactsKept(intent[e], r)
    BY <1>2 DEF Row, RowOK, FactsKept, Kept, ReconcileAbsent
  <1>6. PermitStep(intent[e], r)
    BY <1>2, <1>4 DEF Row, RowOK, PermitStep, PermitSame, IsActive, ReconcileAbsent
  <1> QED
    BY <1>1, <1>3, <1>4, <1>5, <1>6 DEF Rewrites, ReconcileAbsent

LEMMA UnknownRewrites ==
  ASSUME IInv, NEW e \in Event, ReconcileUnknown(e)
  PROVE  \E r : Rewrites(e, r)
  <1> DEFINE r == [intent[e] EXCEPT !.state = UncertainState(intent[e])]
  <1>1. intent' = [intent EXCEPT ![e] = r]
    BY DEF ReconcileUnknown, IInv, TypeOK, UncertainState
  <1>2. intent[e] \in Row /\ RowOK(e, intent[e])
    BY DEF IInv, TypeOK, RowsOK
  <1>3. r \in Row
    BY <1>2 DEF Row, ReconcileUnknown, UncertainState
  <1>4. RowOK(e, r)
    BY <1>2, <1>3 DEF Row, RowOK, ReconcileUnknown, UncertainState
  <1>5. FactsKept(intent[e], r)
    BY <1>2 DEF Row, RowOK, FactsKept, Kept, ReconcileUnknown
  <1>6. PermitStep(intent[e], r)
    BY <1>2, <1>4 DEF Row, RowOK, PermitStep, PermitSame, IsActive, ReconcileUnknown, UncertainState
  <1> QED
    BY <1>1, <1>3, <1>4, <1>5, <1>6 DEF Rewrites, ReconcileUnknown

LEMMA WaitingRewrites ==
  ASSUME IInv, NEW e \in Event, MarkWaiting(e)
  PROVE  \E r : Rewrites(e, r)
  <1> DEFINE r == [intent[e] EXCEPT !.state = "WAITING_FOR_USER"]
  <1>1. intent' = [intent EXCEPT ![e] = r]
    BY DEF MarkWaiting, IInv, TypeOK
  <1>2. intent[e] \in Row /\ RowOK(e, intent[e])
    BY DEF IInv, TypeOK, RowsOK
  <1>3. r \in Row
    BY <1>2 DEF Row, MarkWaiting
  <1>4. RowOK(e, r)
    BY <1>2, <1>3 DEF Row, RowOK, MarkWaiting
  <1>5. FactsKept(intent[e], r)
    BY <1>2 DEF Row, RowOK, FactsKept, Kept, MarkWaiting
  <1>6. PermitStep(intent[e], r)
    BY <1>2, <1>4 DEF Row, RowOK, PermitStep, PermitSame, IsActive, MarkWaiting
  <1> QED
    BY <1>1, <1>3, <1>4, <1>5, <1>6 DEF Rewrites, MarkWaiting

LEMMA AbortRewrites ==
  ASSUME IInv, NEW e \in Event, AbortBeforeSubmit(e)
  PROVE  \E r : Rewrites(e, r)
  <1> DEFINE r == [intent[e] EXCEPT !.state = "PRE_SUBMIT_ABORTED"]
  <1>1. intent' = [intent EXCEPT ![e] = r]
    BY DEF AbortBeforeSubmit, IInv, TypeOK
  <1>2. intent[e] \in Row /\ RowOK(e, intent[e])
    BY DEF IInv, TypeOK, RowsOK
  <1>3. r \in Row
    BY <1>2 DEF Row, AbortBeforeSubmit
  <1>4. RowOK(e, r)
    BY <1>2, <1>3 DEF Row, RowOK, AbortBeforeSubmit
  <1>5. FactsKept(intent[e], r)
    BY <1>2 DEF Row, RowOK, FactsKept, Kept, AbortBeforeSubmit
  <1>6. PermitStep(intent[e], r)
    BY <1>2, <1>4 DEF Row, RowOK, PermitStep, ProductFreed, IsActive, AbortBeforeSubmit
  <1> QED
    BY <1>1, <1>3, <1>4, <1>5, <1>6 DEF Rewrites, AbortBeforeSubmit

LEMMA TerminalRewrites ==
  ASSUME IInv, NEW e \in Event, NEW outcome, NEW order, NEW invoice, RecordTerminal(e, outcome, order, invoice)
  PROVE  \E r : Rewrites(e, r)
  <1> DEFINE r == [intent[e] EXCEPT !.state = outcome, !.verified = FALSE]
  <1>1. intent' = [intent EXCEPT ![e] = r]
    BY DEF RecordTerminal, IInv, TypeOK
  <1>2. intent[e] \in Row /\ RowOK(e, intent[e])
    BY DEF IInv, TypeOK, RowsOK
  <1>3. r \in Row
    BY <1>2 DEF Row, RecordTerminal
  <1>4. RowOK(e, r)
    BY <1>2, <1>3 DEF Row, RowOK, RecordTerminal
  <1>5. FactsKept(intent[e], r)
    BY <1>2 DEF Row, RowOK, FactsKept, Kept, RecordTerminal
  <1>6. PermitStep(intent[e], r)
    BY <1>2, <1>4 DEF Row, RowOK, PermitStep, PermitSame, ProductFreed, IsActive, RecordTerminal
  <1> QED
    BY <1>1, <1>3, <1>4, <1>5, <1>6 DEF Rewrites, RecordTerminal

LEMMA SearchingRewrites ==
  ASSUME IInv, NEW e \in Event, Searching(e)
  PROVE  \E r : Rewrites(e, r)
  <1> DEFINE r == [intent[e] EXCEPT !.state =
                    CASE @ = "ORDER_CREATED" -> "INVOICE_SEARCHING"
                      [] @ = "INVOICE_CREATED" -> "PAYMENT_LINK_SEARCHING"
                      [] OTHER -> "RECONCILING"]
  <1>1. intent' = [intent EXCEPT ![e] = r]
    BY DEF Searching, IInv, TypeOK
  <1>2. intent[e] \in Row /\ RowOK(e, intent[e])
    BY DEF IInv, TypeOK, RowsOK
  <1>3. r \in Row
    BY <1>2 DEF Row, Searching
  <1>4. RowOK(e, r)
    BY <1>2, <1>3 DEF Row, RowOK, Searching
  <1>5. FactsKept(intent[e], r)
    BY <1>2 DEF Row, RowOK, FactsKept, Kept, Searching
  <1>6. PermitStep(intent[e], r)
    BY <1>2, <1>4 DEF Row, RowOK, PermitStep, PermitSame, IsActive, Searching
  <1> QED
    BY <1>1, <1>3, <1>4, <1>5, <1>6 DEF Rewrites, Searching

(* What a result that contradicts nothing makes of an open row. *)
LEMMA PersistedOK ==
  ASSUME NEW e \in Event, NEW row \in Row, RowOK(e, row),
         row.state \in ResultStates \cup PreSubmit,
         NEW res \in Result, ResultAccepted(e, row, res)
  PROVE  /\ Persisted(row, res) \in Row
         /\ RowOK(e, Persisted(row, res))
         /\ FactsKept(row, Persisted(row, res))
         /\ PermitStep(row, Persisted(row, res))
  <1> DEFINE m == Merged(row, res)
             p == Persisted(row, res)
  <1>1. /\ m \in Row
        /\ m.state = row.state /\ m.submit = row.submit /\ m.nonce = row.nonce
        /\ m.precheck = row.precheck /\ m.cart = row.cart
        /\ m.order = OrElse(res.order, row.order)
        /\ m.invoice = OrElse(res.invoice, row.invoice)
        /\ m.url = OrElse(res.url, row.url)
        /\ m.evidence = OrElse(res.evidence, row.evidence)
    BY MergedFields
  <1>2. p = [m EXCEPT !.state = ResultState(row, m), !.verified = m.evidence # None]
    BY DEF Persisted
  <1>3. /\ ResultState(row, m) \in Observed
        /\ ResultState(row, m) \in Payable => m.evidence # None
    BY DEF ResultState
  <1>4. /\ p \in Row
        /\ p.state = ResultState(row, m)
        /\ p.verified = (m.evidence # None)
        /\ p.submit = m.submit /\ p.nonce = m.nonce /\ p.precheck = m.precheck
        /\ p.cart = m.cart
        /\ p.order = m.order /\ p.invoice = m.invoice /\ p.url = m.url
        /\ p.evidence = m.evidence
    <2> DEFINE s == ResultState(row, m)
               v == m.evidence # None
    <2>1. s \in State /\ v \in BOOLEAN
      BY <1>3
    <2>2. p = WithState(m, s, v) /\ m \in Row
      BY <1>1, <1>2 DEF WithState
    <2> HIDE DEF m, p, s, v
    <2>3. /\ p \in Row
          /\ p.state = s /\ p.verified = v
          /\ p.submit = m.submit /\ p.nonce = m.nonce /\ p.precheck = m.precheck
          /\ p.cart = m.cart
          /\ p.order = m.order /\ p.invoice = m.invoice /\ p.url = m.url
          /\ p.evidence = m.evidence
      BY <2>1, <2>2, StateFields
    <2> QED
      BY <2>3 DEF s, v
  <1>5. m.order # None /\ (m.url # None => m.url = m.invoice)
    BY DEF ResultAccepted
  <1>6. m.evidence # None =>
          /\ m.evidence.order = m.order
          /\ m.evidence.invoice = m.invoice
          /\ m.evidence.url = m.url
          /\ m.nonce # None => m.evidence.quote = m.precheck.quote
    <2>1. CASE res.evidence # None
      <3>1. m.evidence = res.evidence /\ EvidenceValid(e, m, res.evidence)
        BY <1>1, <2>1 DEF ResultAccepted, OrElse
      <3> QED
        BY <3>1 DEF EvidenceValid
    <2>2. CASE res.evidence = None /\ row.evidence # None
      <3>1. m.evidence = row.evidence /\ row.evidence \in Evidence
        BY <1>1, <2>2 DEF OrElse, Row
      <3>2. row.evidence.order # None /\ row.evidence.invoice # None
            /\ row.evidence.url # None
        BY <3>1, NoneApart DEF Evidence
      <3>3. /\ row.evidence.order = row.order
            /\ row.evidence.invoice = row.invoice
            /\ row.evidence.url = row.url
            /\ row.nonce # None => row.evidence.quote = row.precheck.quote
        BY <2>2 DEF RowOK
      <3>4. m.order = row.order /\ m.invoice = row.invoice /\ m.url = row.url
        BY <1>1, <3>2, <3>3 DEF ResultAccepted, Contradicts, OrElse
      <3> QED
        BY <1>1, <3>1, <3>3, <3>4
    <2>3. CASE res.evidence = None /\ row.evidence = None
      BY <1>1, <2>3 DEF OrElse
    <2> QED
      BY <2>1, <2>2, <2>3
  <1>7. /\ row.nonce # None => row.submit # None /\ row.precheck # None
        /\ row.precheck # None => row.precheck.quote \in Offered[e]
    BY DEF RowOK
  <1>8. p.state \in Observed /\ (p.state \in Payable => p.evidence # None /\ p.verified)
    BY <1>3, <1>4
  <1> HIDE DEF m, p
  <1>9. RowOK(e, p)
    BY <1>1, <1>4, <1>5, <1>6, <1>7, <1>8 DEF RowOK
  <1>10. FactsKept(row, p)
    BY <1>1, <1>4 DEF FactsKept, Kept, OrElse, ResultAccepted, Contradicts
  <1>12. PermitStep(row, p)
    BY <1>1, <1>4, <1>5, <1>8, <1>10
       DEF PermitStep, PermitSame, OrderSeen, FactsKept, Kept, IsActive
  <1> QED
    BY <1>4, <1>9, <1>10, <1>12 DEF p

LEMMA ResultRewrites ==
  ASSUME IInv, NEW e \in Event, NEW res \in Result,
         PersistResult(e, res) \/ ReconcileFound(e, res)
  PROVE  \E r : Rewrites(e, r)
  <1>1. intent[e] \in Row /\ RowOK(e, intent[e])
    BY DEF IInv, TypeOK, RowsOK
  <1>2. /\ intent[e].state \in ResultStates \cup PreSubmit
        /\ ResultAccepted(e, intent[e], res)
        /\ intent' = [intent EXCEPT ![e] = Persisted(intent[e], res)]
        /\ now' = now
    BY DEF PersistResult, ReconcileFound
  <1>3. Persisted(intent[e], res) \in Row /\ RowOK(e, Persisted(intent[e], res))
    BY <1>1, <1>2, PersistedOK
  <1>4. /\ FactsKept(intent[e], Persisted(intent[e], res))
        /\ PermitStep(intent[e], Persisted(intent[e], res))
    BY <1>1, <1>2, PersistedOK
  <1> QED
    BY <1>2, <1>3, <1>4 DEF Rewrites

(* An unresolved row stays a good row in any unresolved state. *)
LEMMA UncertainRow ==
  ASSUME NEW e \in Event, NEW row \in Row, RowOK(e, row),
         row.state = "ORDER_SUBMITTING", NEW s \in Unresolved
  PROVE  /\ [row EXCEPT !.state = s] \in Row
         /\ RowOK(e, [row EXCEPT !.state = s])
         /\ [row EXCEPT !.state = s].state = s
  <1> DEFINE r == [row EXCEPT !.state = s]
  <1>1. r \in Row
    BY DEF Row
  <1>2. /\ r.state = s /\ r.submit = row.submit /\ r.nonce = row.nonce
        /\ r.precheck = row.precheck /\ r.order = row.order
        /\ r.invoice = row.invoice /\ r.url = row.url
        /\ r.evidence = row.evidence
    BY DEF Row
  <1>3. RowOK(e, r)
    BY <1>2 DEF RowOK
  <1> QED
    BY <1>1, <1>2, <1>3

(* The statements that rewrite every interrupted row at once. *)
LEMMA BulkKeeps ==
  ASSUME IInv, RecoverInterrupted \/ HaltSubmissions
  PROVE  IInv'
  <1>1. ASSUME NEW e \in Event
        PROVE  /\ intent'[e] \in Row /\ RowOK(e, intent'[e])
               /\ IsActive(intent'[e]) => Active(e)
    <2>1. intent[e] \in Row /\ RowOK(e, intent[e])
      BY DEF IInv, TypeOK, RowsOK
    <2>2. \/ intent'[e] = intent[e]
          \/ /\ intent[e].state = "ORDER_SUBMITTING"
             /\ \E s \in Unresolved : intent'[e] = [intent[e] EXCEPT !.state = s]
      BY DEF RecoverInterrupted, HaltSubmissions, UncertainState
    <2>3. CASE intent'[e] = intent[e]
      BY <2>1, <2>3 DEF IsActive, Active
    <2>4. CASE /\ intent[e].state = "ORDER_SUBMITTING"
               /\ \E s \in Unresolved : intent'[e] = [intent[e] EXCEPT !.state = s]
      <3>1. Active(e)
        BY <2>4 DEF Active
      <3>2. PICK s \in Unresolved : intent'[e] = [intent[e] EXCEPT !.state = s]
        BY <2>4
      <3>3. /\ [intent[e] EXCEPT !.state = s] \in Row
            /\ RowOK(e, [intent[e] EXCEPT !.state = s])
        BY <2>1, <2>4, UncertainRow
      <3> QED
        BY <3>1, <3>2, <3>3
    <2> QED
      BY <2>2, <2>3, <2>4
  <1>2. intent' \in [Event -> Row] /\ now' = now
    <2>1. intent' = [e \in Event |-> intent'[e]]
      BY DEF RecoverInterrupted, HaltSubmissions
    <2> QED
      BY <1>1, <2>1 DEF RecoverInterrupted, HaltSubmissions
  <1>3. TypeOK' /\ RowsOK'
    BY <1>1, <1>2 DEF IInv, TypeOK, RowsOK
  <1>4. \A f \in Event : Active(f)' => Active(f)
    BY <1>1 DEF Active, IsActive
  <1>5. OneActivePerProduct'
    BY <1>4 DEF IInv, OneActivePerProduct
  <1> QED
    BY <1>3, <1>5 DEF IInv

(* A fresh intent: its product has no active one. *)
LEMMA CreateKeeps ==
  ASSUME IInv, NEW e \in Event, Create(e)
  PROVE  IInv'
  <1> DEFINE r == [intent[e] EXCEPT !.state = "INTENT_CREATED"]
  <1>1. intent' = [intent EXCEPT ![e] = r]
    BY DEF Create, IInv, TypeOK
  <1>2. intent[e] \in Row /\ RowOK(e, intent[e])
    BY DEF IInv, TypeOK, RowsOK
  <1>3. intent[e] = NoIntent
    BY <1>2 DEF RowOK, Create
  <1>4. r \in Row
    BY <1>2 DEF Row
  <1>5. RowOK(e, r)
    BY <1>3 DEF RowOK, NoIntent
  <1>6. \A f \in Event : intent'[f] = IF f = e THEN r ELSE intent[f]
    BY <1>1 DEF IInv, TypeOK
  <1>7. TypeOK' /\ RowsOK'
    <2>1. intent' \in [Event -> Row] /\ now' \in Time
      BY <1>1, <1>4 DEF IInv, TypeOK, Create
    <2>2. RowsOK'
      BY <1>5, <1>6 DEF IInv, RowsOK
    <2> QED
      BY <2>1, <2>2 DEF TypeOK
  <1>8. \A f \in Event : f # e /\ Active(f)' => Active(f)
    BY <1>6 DEF Active
  <1>9. OneActivePerProduct'
    BY <1>8 DEF IInv, OneActivePerProduct, Create
  <1> QED
    BY <1>7, <1>9 DEF IInv

LEMMA TickKeeps ==
  ASSUME IInv, Tick
  PROVE  IInv'
  <1>1. now' \in Time
    BY LedgerAssumption DEF Tick, IInv, TypeOK, Time
  <1> QED
    BY <1>1 DEF Tick, IInv, TypeOK, RowsOK, OneActivePerProduct, Active

LEMMA StutterKeeps ==
  ASSUME IInv, UNCHANGED vars
  PROVE  IInv'
  BY DEF vars, IInv, TypeOK, RowsOK, OneActivePerProduct, Active

LEMMA InitIInv == Init => IInv
  <1> SUFFICES ASSUME Init PROVE IInv
    OBVIOUS
  <1>1. NoIntent \in Row
    BY DEF NoIntent, Row
  <1>2. \A e \in Event : RowOK(e, NoIntent)
    BY DEF RowOK, NoIntent
  <1>3. TypeOK
    BY <1>1, LedgerAssumption DEF Init, TypeOK, Time
  <1>4. \A e \in Event : ~Active(e)
    BY DEF Init, Active, NoIntent
  <1> QED
    BY <1>2, <1>3, <1>4 DEF Init, IInv, RowsOK, OneActivePerProduct

(* A step of the ledger opens an intent, rewrites one row, is one of the two *)
(* bulk statements, or moves the clock.                                     *)
LEMMA NextCases ==
  ASSUME IInv, Next
  PROVE  \/ \E e \in Event : Create(e)
         \/ \E e \in Event : \E r : Rewrites(e, r)
         \/ RecoverInterrupted \/ HaltSubmissions
         \/ Tick
  <1>1. ASSUME NEW e \in Event, Advance(e)
        PROVE  Create(e) \/ \E r : Rewrites(e, r)
    <2>1. CASE Create(e)
      BY <2>1
    <2>2. CASE \E c \in CartId : SetCart(e, c)
      BY <2>2, SetCartRewrites
    <2>3. CASE MarkCheckoutReady(e)
      BY <2>3, CheckoutReadyRewrites
    <2>4. CASE MarkSubmitting(e)
      BY <2>4, MarkSubmittingRewrites
    <2>5. CASE \E id \in PrecheckId, at \in Time, q \in Quote :
                 SetOrderPrecheck(e, id, at, q)
      BY <2>5, PrecheckRewrites
    <2>6. CASE \E n \in Nonce, id \in PrecheckId, at \in Time :
                 BeginOrderSubmission(e, n, id, at)
      BY <2>6, BeginSubmissionRewrites
    <2>7. CASE ClaimPaymentNotification(e)
      BY <2>7, ClaimRewrites
    <2>8. CASE Searching(e)
      BY <2>8, SearchingRewrites
    <2>9. CASE MarkUncertain(e)
      BY <2>9, MarkUncertainRewrites
    <2>10. CASE MarkWaiting(e)
      BY <2>10, WaitingRewrites
    <2>11. CASE AbortBeforeSubmit(e)
      BY <2>11, AbortRewrites
    <2>12. CASE \E outcome \in Terminal, o \in OrderId, i \in InvoiceId \cup {None} :
                  RecordTerminal(e, outcome, o, i)
      BY <2>12, TerminalRewrites
    <2> QED
      BY <1>1, <2>1, <2>2, <2>3, <2>4, <2>5, <2>6, <2>7, <2>8, <2>9, <2>10,
         <2>11, <2>12 DEF Advance
  <1>2. ASSUME NEW e \in Event, Reconcile(e)
        PROVE  \E r : Rewrites(e, r)
    <2>1. CASE \E res \in Result : PersistResult(e, res) \/ ReconcileFound(e, res)
      BY <2>1, ResultRewrites
    <2>2. CASE \E n \in Nonce \cup {None}, at \in Time, q \in Quote :
                 ReconcileAbsent(e, n, at, q)
      BY <2>2, AbsentRewrites
    <2>3. CASE ReconcileUnknown(e)
      BY <2>3, UnknownRewrites
    <2> QED
      BY <1>2, <2>1, <2>2, <2>3 DEF Reconcile
  <1> QED
    BY <1>1, <1>2 DEF Next

(* Every step of the ledger keeps the invariant. *)
LEMMA NextIInv ==
  ASSUME IInv, [Next]_vars
  PROVE  IInv'
  <1>1. CASE Next
    <2>1. CASE \E e \in Event : Create(e)
      BY <2>1, CreateKeeps
    <2>2. CASE \E e \in Event : \E r : Rewrites(e, r)
      BY <2>2, RewriteKeeps
    <2>3. CASE RecoverInterrupted \/ HaltSubmissions
      BY <2>3, BulkKeeps
    <2>4. CASE Tick
      BY <2>4, TickKeeps
    <2> QED
      BY <1>1, <2>1, <2>2, <2>3, <2>4, NextCases
  <1>2. CASE UNCHANGED vars
    BY <1>2, StutterKeeps
  <1> QED
    BY <1>1, <1>2

THEOREM Invariance == Spec => []IInv
  BY InitIInv, NextIInv, PTL DEF Spec

(* The ledger is well typed for every set of events and identifiers. *)
THEOREM TypeCorrect == Spec => []TypeOK
  <1>1. IInv => TypeOK
    BY DEF IInv
  <1> QED
    BY <1>1, Invariance, PTL

(* One active intent per product, for any number of events and products: the *)
(* check in create() and the statements that never revive a terminal row.    *)
THEOREM ProductLock == Spec => []OneActivePerProduct
  <1>1. IInv => OneActivePerProduct
    BY DEF IInv
  <1> QED
    BY <1>1, Invariance, PTL

(* State and order column agree whatever the methods of IntentStore and the *)
(* broker's own UPDATE interleave to.                                       *)
THEOREM OrderAgreement == Spec => []OrderStateAgreement
  <1>1. IInv => OrderStateAgreement
    BY DEF IInv, RowsOK, RowOK, OrderStateAgreement
  <1> QED
    BY <1>1, Invariance, PTL

(* No payment page without evidence of exactly this order and quote. *)
THEOREM PaymentProof == Spec => []PaymentIsProved
  <1>1. ASSUME IInv, NEW e \in Event, intent[e].state \in Payable
        PROVE  /\ intent[e].verified
               /\ intent[e].evidence # None
               /\ intent[e].evidence.order = intent[e].order
               /\ intent[e].evidence.invoice = intent[e].invoice
               /\ intent[e].evidence.url = intent[e].url
               /\ intent[e].url = intent[e].invoice
               /\ intent[e].nonce # None =>
                    /\ intent[e].evidence.quote = intent[e].precheck.quote
                    /\ intent[e].evidence.quote \in Offered[e]
    <2>1. intent[e] \in Row /\ RowOK(e, intent[e])
      BY <1>1 DEF IInv, TypeOK, RowsOK
    <2>2. intent[e].evidence # None /\ intent[e].evidence \in Evidence
      BY <1>1, <2>1 DEF RowOK, Row
    <2>3. intent[e].evidence.url # None
      BY <2>2, NoneApart DEF Evidence
    <2>4. intent[e].evidence.url = intent[e].url
      BY <2>1, <2>2 DEF RowOK
    <2> QED
      BY <1>1, <2>1, <2>2, <2>3, <2>4 DEF RowOK
  <1>2. IInv => PaymentIsProved
    BY <1>1 DEF PaymentIsProved
  <1> QED
    BY <1>2, Invariance, PTL

(* A dispatched submission is never dropped from what a restart reads back, *)
(* unless its fate is known.                                                *)
THEOREM FateTracked == Spec => []FateIsTracked
  <1>1. ASSUME IInv, NEW e \in Event, intent[e].submit # None
        PROVE  \/ InRecovery(e)
               \/ intent[e].state \in {"PAYMENT_READY", "WAITING_FOR_USER",
                                       "ORDER_SUBMIT_FAILED"}
               \/ /\ intent[e].order # None
                  /\ intent[e].state \in {"ORDER_EXPIRED", "ORDER_CANCELLED"}
    <2>1. intent[e] \in Row /\ RowOK(e, intent[e])
      BY <1>1 DEF IInv, TypeOK, RowsOK
    <2>2. intent[e].state \in State \cup {"NO_INTENT"}
      BY <2>1 DEF Row
    <2>3. intent[e].state \notin PreSubmit \cup {"NO_INTENT", "PRE_SUBMIT_ABORTED"}
      BY <1>1, <2>1 DEF RowOK
    <2> QED
      BY <2>1, <2>2, <2>3 DEF RowOK, InRecovery
  <1>2. IInv => FateIsTracked
    BY <1>1 DEF FateIsTracked
  <1> QED
    BY <1>2, Invariance, PTL

(* A bulk statement changes the state of a row it found submitting. *)
LEMMA BulkRows ==
  ASSUME IInv, RecoverInterrupted \/ HaltSubmissions, NEW e \in Event
  PROVE  FactsKept(intent[e], intent'[e]) /\ PermitSame(intent[e], intent'[e])
  <1>1. intent[e] \in Row
    BY DEF IInv, TypeOK
  <1>2. CASE intent'[e] = intent[e]
    BY <1>2 DEF FactsKept, Kept, PermitSame
  <1>3. CASE /\ intent[e].state = "ORDER_SUBMITTING"
             /\ \E s \in Unresolved : intent'[e] = [intent[e] EXCEPT !.state = s]
    <2>1. PICK s \in Unresolved : intent'[e] = [intent[e] EXCEPT !.state = s]
      BY <1>3
    <2>2. /\ intent'[e].state = s /\ intent'[e].submit = intent[e].submit
          /\ intent'[e].order = intent[e].order /\ intent'[e].cart = intent[e].cart
          /\ intent'[e].invoice = intent[e].invoice /\ intent'[e].url = intent[e].url
      BY <1>1, <2>1 DEF Row
    <2>3. /\ intent'[e].nonce = intent[e].nonce
          /\ intent'[e].precheck = intent[e].precheck
      BY <1>1, <2>1 DEF Row
    <2> QED
      BY <1>3, <2>1, <2>2, <2>3 DEF FactsKept, Kept, PermitSame, IsActive
  <1> QED
    BY <1>2, <1>3 DEF RecoverInterrupted, HaltSubmissions, UncertainState

(* Creating an intent changes only the state of its row. *)
LEMMA CreatedRow ==
  ASSUME IInv, NEW e \in Event, Create(e)
  PROVE  /\ intent[e] = NoIntent
         /\ intent' = [intent EXCEPT ![e] = intent'[e]]
         /\ intent'[e] = [NoIntent EXCEPT !.state = "INTENT_CREATED"]
  BY DEF IInv, TypeOK, RowsOK, RowOK, Create

Facts == \A e \in Event : FactsKept(intent[e], intent'[e])

LEMMA NextFacts ==
  ASSUME IInv, [Next]_vars
  PROVE  Facts
  <1>1. CASE \E e \in Event : Create(e)
    <2>1. PICK e \in Event : Create(e)
      BY <1>1
    <2>2. /\ intent[e] = NoIntent
          /\ intent' = [intent EXCEPT ![e] = intent'[e]]
          /\ intent'[e] = [NoIntent EXCEPT !.state = "INTENT_CREATED"]
      BY <2>1, CreatedRow
    <2>3. FactsKept(intent[e], intent'[e])
      BY <2>2 DEF NoIntent, FactsKept, Kept
    <2>4. \A f \in Event : f # e => intent'[f] = intent[f]
      BY <2>2 DEF IInv, TypeOK
    <2> QED
      BY <2>3, <2>4 DEF Facts, FactsKept, Kept
  <1>2. CASE \E e \in Event : \E r : Rewrites(e, r)
    <2>1. PICK e \in Event : \E r : Rewrites(e, r)
      BY <1>2
    <2>2. PICK r : Rewrites(e, r)
      BY <2>1
    <2>3. intent'[e] = r /\ \A f \in Event : f # e => intent'[f] = intent[f]
      BY <2>2 DEF Rewrites, IInv, TypeOK
    <2> QED
      BY <2>2, <2>3 DEF Rewrites, Facts, FactsKept, Kept
  <1>3. CASE RecoverInterrupted \/ HaltSubmissions
    BY <1>3, BulkRows DEF Facts
  <1>4. CASE intent' = intent
    BY <1>4 DEF Facts, FactsKept, Kept
  <1>5. Tick \/ UNCHANGED vars => intent' = intent
    BY DEF Tick, vars
  <1> QED
    BY <1>1, <1>2, <1>3, <1>4, <1>5, NextCases

(* No step of any method forgets or replaces what is known of a submission. *)
THEOREM FactsAreKept == Spec => SubmissionFactsKept
  <1>1. IInv /\ [Next]_vars =>
          [\A e \in Event :
             /\ Kept(intent[e].cart, intent'[e].cart)
             /\ Kept(intent[e].order, intent'[e].order)
             /\ Kept(intent[e].invoice, intent'[e].invoice)
             /\ Kept(intent[e].url, intent'[e].url)
             /\ Kept(intent[e].nonce, intent'[e].nonce)
             /\ Kept(intent[e].submit, intent'[e].submit)
             /\ intent[e].submit # None => intent'[e].precheck = intent[e].precheck]_vars
    BY NextFacts DEF Facts, FactsKept
  <1> QED
    BY <1>1, Invariance, PTL DEF Spec, SubmissionFactsKept

(* The four sets of the permit, as the instance sees them. *)
Opened == {e \in Event : Active(e)}
UsedUp == {e \in Event : intent[e].state # "NO_INTENT"}
SpentOnes == {e \in Event : intent[e].submit # None}
FoundOnes == {e \in Event : intent[e].order # None}

LEMMA InitPermit == Init => Permit!Init
  BY DEF Init, NoIntent, Permit!Init, Active

LEMMA CreateOpens ==
  ASSUME IInv, NEW e \in Event, Create(e)
  PROVE  Permit!Open(e)
  <1>1. /\ intent[e] = NoIntent
        /\ intent' = [intent EXCEPT ![e] = intent'[e]]
        /\ intent'[e] = [NoIntent EXCEPT !.state = "INTENT_CREATED"]
    BY CreatedRow
  <1>2. /\ intent'[e].state = "INTENT_CREATED" /\ intent'[e].submit = intent[e].submit
        /\ intent'[e].order = intent[e].order
    BY <1>1 DEF NoIntent
  <1>3. \A f \in Event : f # e => intent'[f] = intent[f]
    BY <1>1 DEF IInv, TypeOK
  <1>4. Opened' = Opened \cup {e} /\ UsedUp' = UsedUp \cup {e}
    BY <1>2, <1>3 DEF Opened, UsedUp, Active
  <1>5. SpentOnes' = SpentOnes /\ FoundOnes' = FoundOnes
    BY <1>2, <1>3 DEF SpentOnes, FoundOnes
  <1>6. e \notin UsedUp /\ \A f \in Opened : ProductOf[f] # ProductOf[e]
    BY DEF UsedUp, Opened, Create
  <1> QED
    BY <1>4, <1>5, <1>6 DEF Permit!Open, Opened, UsedUp, SpentOnes, FoundOnes

LEMMA RewritesPermit ==
  ASSUME IInv, NEW e \in Event, NEW r, Rewrites(e, r)
  PROVE  [Permit!Next]_(Permit!permitVars)
  <1>1. intent'[e] = r /\ \A f \in Event : f # e => intent'[f] = intent[f]
    BY DEF Rewrites, IInv, TypeOK
  <1>2. UsedUp' = UsedUp
    BY <1>1 DEF UsedUp, Rewrites, PermitStep
  <1>3. CASE PermitSame(intent[e], r)
    <2>1. Opened' = Opened /\ SpentOnes' = SpentOnes /\ FoundOnes' = FoundOnes
      BY <1>1, <1>3 DEF PermitSame, IsActive, Opened, SpentOnes, FoundOnes, Active
    <2> QED
      BY <1>2, <2>1 DEF Permit!permitVars, Opened, UsedUp, SpentOnes, FoundOnes
  <1>4. CASE PermitSpent(intent[e], r)
    <2>1. Opened' = Opened /\ FoundOnes' = FoundOnes
      BY <1>1, <1>4 DEF PermitSpent, IsActive, Opened, FoundOnes, Active
    <2>2. SpentOnes' = SpentOnes \cup {e}
      BY <1>1, <1>4 DEF PermitSpent, SpentOnes
    <2>3. e \in Opened /\ e \notin SpentOnes \cup FoundOnes
      BY <1>4 DEF PermitSpent, IsActive, Opened, SpentOnes, FoundOnes, Active
    <2>4. Permit!Spend(e)
      BY <1>2, <2>1, <2>2, <2>3
         DEF Permit!Spend, Opened, UsedUp, SpentOnes, FoundOnes
    <2> QED
      BY <2>4 DEF Permit!Next
  <1>5. CASE OrderSeen(intent[e], r)
    <2>1. Opened' = Opened /\ SpentOnes' = SpentOnes
      BY <1>1, <1>5 DEF OrderSeen, IsActive, Opened, SpentOnes, Active
    <2>2. FoundOnes' = FoundOnes \cup {e}
      BY <1>1, <1>5 DEF OrderSeen, FoundOnes
    <2>3. e \in Opened /\ e \notin FoundOnes
      BY <1>5 DEF OrderSeen, IsActive, Opened, FoundOnes, Active
    <2>4. Permit!Find(e)
      BY <1>2, <2>1, <2>2, <2>3
         DEF Permit!Find, Opened, UsedUp, SpentOnes, FoundOnes
    <2> QED
      BY <2>4 DEF Permit!Next
  <1>6. CASE ProductFreed(intent[e], r)
    <2>1. SpentOnes' = SpentOnes /\ FoundOnes' = FoundOnes
      BY <1>1, <1>6 DEF ProductFreed, SpentOnes, FoundOnes
    <2>2. Opened' = Opened \ {e} /\ e \in Opened
      BY <1>1, <1>6 DEF ProductFreed, IsActive, Opened, Active
    <2>3. Permit!Settle(e) \/ Permit!Discard(e)
      BY <1>2, <1>6, <2>1, <2>2
         DEF ProductFreed, Permit!Settle, Permit!Discard, Opened, UsedUp, SpentOnes,
             FoundOnes
    <2> QED
      BY <2>3 DEF Permit!Next
  <1> QED
    BY <1>3, <1>4, <1>5, <1>6 DEF Rewrites, PermitStep

LEMMA NextPermit ==
  ASSUME IInv, [Next]_vars
  PROVE  [Permit!Next]_(Permit!permitVars)
  <1>1. CASE \E e \in Event : Create(e)
    BY <1>1, CreateOpens DEF Permit!Next
  <1>2. CASE \E e \in Event : \E r : Rewrites(e, r)
    BY <1>2, RewritesPermit
  <1>3. CASE RecoverInterrupted \/ HaltSubmissions
    <2>1. \A e \in Event : PermitSame(intent[e], intent'[e])
      BY <1>3, BulkRows
    <2>2. Opened' = Opened /\ SpentOnes' = SpentOnes /\ FoundOnes' = FoundOnes
      BY <2>1 DEF PermitSame, IsActive, Opened, SpentOnes, FoundOnes, Active
    <2>3. \A e \in Event : intent'[e].state = "NO_INTENT" <=> intent[e].state = "NO_INTENT"
      <3>1. ASSUME NEW e \in Event
            PROVE  \/ intent'[e] = intent[e]
                   \/ /\ intent[e].state = "ORDER_SUBMITTING"
                      /\ \E s \in Unresolved : intent'[e] = [intent[e] EXCEPT !.state = s]
        BY <1>3 DEF RecoverInterrupted, HaltSubmissions, UncertainState
      <3>2. ASSUME NEW e \in Event, NEW s \in Unresolved,
                   intent'[e] = [intent[e] EXCEPT !.state = s]
            PROVE  intent'[e].state = s
        BY <3>2 DEF IInv, TypeOK, Row
      <3> QED
        BY <3>1, <3>2
    <2>4. UsedUp' = UsedUp
      BY <2>3 DEF UsedUp
    <2> QED
      BY <2>2, <2>4 DEF Permit!permitVars, Opened, UsedUp, SpentOnes, FoundOnes
  <1>4. CASE intent' = intent
    BY <1>4 DEF Permit!permitVars, Active
  <1>5. Tick \/ UNCHANGED vars => intent' = intent
    BY DEF Tick, vars
  <1> QED
    BY <1>1, <1>2, <1>3, <1>4, <1>5, NextCases

(* The ledger implements the one-shot permit for every set of events: an    *)
(* intent is dispatched at most once, and its product is not let go before  *)
(* its order was seen and closed.                                           *)
THEOREM PermitImplemented == Spec => ImplementsPermit
  BY InitPermit, NextPermit, Invariance, PTL DEF Spec, ImplementsPermit, Permit!Spec

=============================================================================
