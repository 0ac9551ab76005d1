---------------------------- MODULE IntentLedger ----------------------------
(***************************************************************************)
(* The durable purchase-intent ledger, autograb/storage/intents.py.        *)
(*                                                                         *)
(* One action per public method of IntentStore that writes, plus the one   *)
(* statement of the Edge broker that writes the same column.  Every method *)
(* is one SQLite transaction and therefore one step; a ValueError rolls    *)
(* the transaction back, so the refusals are the guards.  Callers are left *)
(* free: any method may be called at any time with any argument, by any of *)
(* the processes that open the database.                                   *)
(*                                                                         *)
(* event_id is UNIQUE, so an intent is named by the event it was made for. *)
(* Data kept only for reading by people (timestamps of the steps, amounts  *)
(* as text, the status word of the last reconciliation) is left out; an    *)
(* invoice URL is the invoice it names (validate_payment_url accepts       *)
(* exactly one spelling per invoice); a quote stands for the amount, the   *)
(* currency, the billing period and the browser tab it was read in.        *)
(***************************************************************************)
EXTENDS Integers

CONSTANTS
  Event, Product,
  ProductOf,          (* the product an event is about                     *)
  ProviderOf,         (* the provider that sells a product                 *)
  CartId, OrderId, InvoiceId, Nonce, PrecheckId, Quote,
  Offered,            (* the quotes in the product an event carries        *)
  None,               (* SQL NULL                                          *)
  MaxTime,            (* bound of the clock                                *)
  Fresh,              (* 60 s: age limit of a precheck and of a permit     *)
  AbsenceFresh        (* 120 s: age limit of an observed absence           *)

Provider == {"bandwagon", "dmit", "vmiss", "vps", "apple"}
Merchant == {"bandwagon", "dmit"}   (* the providers with an order adapter *)
Time == 0 .. MaxTime

ASSUME LedgerAssumption ==
  /\ ProductOf \in [Event -> Product]
  /\ ProviderOf \in [Product -> Provider]
  /\ Offered \in [Event -> SUBSET Quote]
  /\ None \notin CartId \cup OrderId \cup InvoiceId \cup Nonce
  /\ None \notin [id : PrecheckId, at : Time, quote : Quote]
  /\ None \notin [order : OrderId, invoice : InvoiceId, url : InvoiceId,
                  quote : Quote]
  /\ None \notin Time
  /\ MaxTime \in Nat
  /\ Fresh \in Nat
  /\ AbsenceFresh \in Nat

Terminal == {"ORDER_EXPIRED", "ORDER_CANCELLED", "PRE_SUBMIT_ABORTED"}
PreSubmit == {"INTENT_CREATED", "CART_READY", "CHECKOUT_READY", "ORDER_PRECHECK"}
Unresolved == {"ORDER_SUBMITTING", "RECONCILIATION_REQUIRED", "ORDER_UNCERTAIN",
               "RECONCILING"}
Observed == {"ORDER_CREATED", "INVOICE_SEARCHING", "INVOICE_CREATED",
             "PAYMENT_LINK_SEARCHING", "PAYMENT_URL_READY", "PAYMENT_READY",
             "WAITING_FOR_USER"}
ResultStates == Unresolved \cup Observed \cup {"ORDER_SUBMIT_FAILED"}
State == Terminal \cup PreSubmit \cup ResultStates

Precheck == [id : PrecheckId, at : Time, quote : Quote]
Evidence == [order : OrderId, invoice : InvoiceId, url : InvoiceId, quote : Quote]
Result == [order : OrderId \cup {None}, invoice : InvoiceId \cup {None},
           url : InvoiceId \cup {None}, evidence : Evidence \cup {None}]

(* A row of purchase_intents; "NO_INTENT" where the event has none. *)
Row == [state : State \cup {"NO_INTENT"}, cart : CartId \cup {None},
        order : OrderId \cup {None}, invoice : InvoiceId \cup {None},
        url : InvoiceId \cup {None}, submit : Time \cup {None},
        nonce : Nonce \cup {None}, precheck : Precheck \cup {None},
        evidence : Evidence \cup {None}, verified : BOOLEAN,
        notified : BOOLEAN]

NoIntent == [state |-> "NO_INTENT", cart |-> None, order |-> None,
             invoice |-> None, url |-> None, submit |-> None, nonce |-> None,
             precheck |-> None, evidence |-> None, verified |-> FALSE,
             notified |-> FALSE]

VARIABLES
  intent,             (* the row of every event                            *)
  now                 (* the wall clock                                    *)

vars == <<intent, now>>

Init ==
  /\ intent = [e \in Event |-> NoIntent]
  /\ now = 0

Active(e) == intent[e].state \notin Terminal \cup {"NO_INTENT"}

(* 0 <= now - t <= limit: neither in the future nor too old. *)
RecentAt(t, limit) == t <= now /\ now - t <= limit

-----------------------------------------------------------------------------
(* Mutant of Create: forgets the active intents of the product. *)
CreateUnchecked(e) ==
  /\ intent[e].state = "NO_INTENT"
  /\ intent' = [intent EXCEPT ![e].state = "INTENT_CREATED"]
  /\ UNCHANGED now

(* IntentStore.create: refused when the event has an intent, or the product *)
(* an active one. *)
Create(e) ==
  /\ intent[e].state = "NO_INTENT"
  /\ \A f \in Event : ProductOf[f] = ProductOf[e] => ~Active(f)
  /\ intent' = [intent EXCEPT ![e].state = "INTENT_CREATED"]
  /\ UNCHANGED now

SetCart(e, c) ==
  /\ intent[e].state \in {"INTENT_CREATED", "CART_READY"}
  /\ intent[e].cart \in {None, c}
  /\ intent' = [intent EXCEPT ![e].cart = c, ![e].state = "CART_READY"]
  /\ UNCHANGED now

MarkCheckoutReady(e) ==
  /\ intent[e].state \in {"CART_READY", "CHECKOUT_READY"}
  /\ intent' = [intent EXCEPT ![e].state = "CHECKOUT_READY"]
  /\ UNCHANGED now

(* The dispatch permission of the browser path: BandwagonHost only. *)
MarkSubmitting(e) ==
  /\ ProviderOf[ProductOf[e]] = "bandwagon"
  /\ intent[e].state = "CHECKOUT_READY"
  /\ intent[e].submit = None
  /\ intent' = [intent EXCEPT ![e].state = "ORDER_SUBMITTING", ![e].submit = now]
  /\ UNCHANGED now

(* A read-only look at the order page, taken at most Fresh ago, that quotes *)
(* what the event's own product offered. *)
SetOrderPrecheck(e, id, at, quote) ==
  /\ ProviderOf[ProductOf[e]] \in Merchant
  /\ intent[e].state \in {"CHECKOUT_READY", "ORDER_PRECHECK"}
  /\ intent[e].submit = None
  /\ RecentAt(at, Fresh)
  /\ quote \in Offered[e]
  /\ intent' = [intent EXCEPT ![e].state = "ORDER_PRECHECK",
                              ![e].precheck = [id |-> id, at |-> at, quote |-> quote]]
  /\ UNCHANGED now

(* The dispatch permission of the Edge path: it commits the permit's nonce. *)
(* The submission counts from the moment the permit was issued.             *)
BeginOrderSubmission(e, nonce, id, issued) ==
  /\ RecentAt(issued, Fresh)
  /\ ProviderOf[ProductOf[e]] \in Merchant
  /\ intent[e].state = "ORDER_PRECHECK"
  /\ intent[e].submit = None
  /\ intent[e].nonce = None
  /\ intent[e].precheck # None
  /\ intent[e].precheck.id = id
  /\ RecentAt(intent[e].precheck.at, Fresh)
  /\ \A f \in Event : intent[f].nonce # nonce       \* unique index on nonces
  /\ intent' = [intent EXCEPT ![e].state = "ORDER_SUBMITTING",
                              ![e].nonce = nonce, ![e].submit = issued]
  /\ UNCHANGED now

ClaimPaymentNotification(e) ==
  /\ intent[e].state = "PAYMENT_READY"
  /\ intent[e].verified
  /\ ~intent[e].notified
  /\ intent' = [intent EXCEPT ![e].notified = TRUE]
  /\ UNCHANGED now

Searching(e) ==
  /\ intent[e].state \in {"ORDER_CREATED", "INVOICE_CREATED", "ORDER_UNCERTAIN",
                          "RECONCILIATION_REQUIRED"}
  /\ intent' = [intent EXCEPT ![e].state =
                  CASE @ = "ORDER_CREATED" -> "INVOICE_SEARCHING"
                    [] @ = "INVOICE_CREATED" -> "PAYMENT_LINK_SEARCHING"
                    [] OTHER -> "RECONCILING"]
  /\ UNCHANGED now

(* The state an unresolved submission is kept in. *)
UncertainState(row) ==
  IF row.nonce # None THEN "ORDER_UNCERTAIN" ELSE "RECONCILIATION_REQUIRED"

MarkUncertain(e) ==
  /\ intent[e].state \in Unresolved
  /\ intent' = [intent EXCEPT ![e].state = UncertainState(intent[e])]
  /\ UNCHANGED now

-----------------------------------------------------------------------------
(* IntentStore._persist_result: what the row and the reported result say    *)
(* together, when the result contradicts nothing already known.             *)
OrElse(new, old) == IF new # None THEN new ELSE old

Merged(row, res) ==
  [row EXCEPT !.order = OrElse(res.order, @),
              !.invoice = OrElse(res.invoice, @),
              !.url = OrElse(res.url, @),
              !.evidence = OrElse(res.evidence, @)]

Contradicts(new, old) == new # None /\ old # None /\ new # old

(* Mutant of EvidenceValid: any quote will do. *)
EvidenceOfAnyQuote(e, m, ev) ==
  /\ ProviderOf[ProductOf[e]] \in Merchant
  /\ <<ev.order, ev.invoice, ev.url>> = <<m.order, m.invoice, m.url>>

(* _validate_verification: the page evidence is of exactly this order, and *)
(* of the quote that was prechecked when a nonce was committed.            *)
EvidenceValid(e, m, ev) ==
  /\ ProviderOf[ProductOf[e]] \in Merchant
  /\ <<ev.order, ev.invoice, ev.url>> = <<m.order, m.invoice, m.url>>
  /\ m.nonce # None => m.precheck # None /\ ev.quote = m.precheck.quote

(* Mutant of ResultAccepted: the last reported order wins. *)
LastResultWins(e, row, res) ==
  LET m == Merged(row, res) IN
  /\ ~Contradicts(res.invoice, row.invoice)
  /\ ~Contradicts(res.url, row.url)
  /\ m.order # None
  /\ m.url # None => m.url = m.invoice /\ ProviderOf[ProductOf[e]] \in Merchant
  /\ res.evidence # None => EvidenceValid(e, m, res.evidence)
  /\ m.evidence # None => m.invoice # None /\ m.url # None

ResultAccepted(e, row, res) ==
  LET m == Merged(row, res) IN
  /\ ~Contradicts(res.order, row.order)
  /\ ~Contradicts(res.invoice, row.invoice)
  /\ ~Contradicts(res.url, row.url)
  /\ m.order # None
  /\ m.url # None => m.url = m.invoice /\ ProviderOf[ProductOf[e]] \in Merchant
  /\ res.evidence # None => EvidenceValid(e, m, res.evidence)
  /\ m.evidence # None => m.invoice # None /\ m.url # None

ResultState(row, m) ==
  CASE m.evidence # None /\ row.state = "WAITING_FOR_USER" -> "WAITING_FOR_USER"
    [] m.evidence # None /\ row.state # "WAITING_FOR_USER" -> "PAYMENT_READY"
    [] m.evidence = None /\ m.url # None -> "PAYMENT_URL_READY"
    [] m.evidence = None /\ m.url = None /\ m.invoice # None -> "INVOICE_CREATED"
    [] OTHER -> "ORDER_CREATED"

Persisted(row, res) ==
  LET m == Merged(row, res) IN
  [m EXCEPT !.state = ResultState(row, m), !.verified = m.evidence # None]

PersistResult(e, res) ==
  /\ intent[e].state \in ResultStates
  /\ ResultAccepted(e, intent[e], res)
  /\ intent' = [intent EXCEPT ![e] = Persisted(intent[e], res)]
  /\ UNCHANGED now

(* reconcile(FOUND): also before any dispatch. *)
ReconcileFound(e, res) ==
  /\ intent[e].state \in ResultStates \cup PreSubmit
  /\ ResultAccepted(e, intent[e], res)
  /\ intent' = [intent EXCEPT ![e] = Persisted(intent[e], res)]
  /\ UNCHANGED now

(* The absence of a committed submission is taken from an observation of    *)
(* its nonce and its quote made after the submission began.                 *)
AbsenceProved(e, nonce, at, quote) ==
  /\ nonce = intent[e].nonce
  /\ at >= intent[e].submit
  /\ RecentAt(at, AbsenceFresh)
  /\ intent[e].precheck # None /\ quote = intent[e].precheck.quote

(* Mutant of ReconcileAbsent: an absence is believed over a known order. *)
AbsenceOverrules(e, nonce, at, quote) ==
  /\ intent[e].state \in ResultStates \cup PreSubmit
  /\ intent[e].submit # None
  /\ IF intent[e].nonce # None THEN AbsenceProved(e, nonce, at, quote)
                               ELSE nonce = None
  /\ intent' = [intent EXCEPT ![e].state = "ORDER_SUBMIT_FAILED"]
  /\ UNCHANGED now

ReconcileAbsent(e, nonce, at, quote) ==
  /\ intent[e].state \in ResultStates \cup PreSubmit
  /\ intent[e].submit # None
  /\ intent[e].order = None
  /\ IF intent[e].nonce # None THEN AbsenceProved(e, nonce, at, quote)
                               ELSE nonce = None
  /\ intent' = [intent EXCEPT ![e].state = "ORDER_SUBMIT_FAILED"]
  /\ UNCHANGED now

ReconcileUnknown(e) ==
  /\ intent[e].state \in ResultStates \cup PreSubmit
  /\ intent[e].submit # None
  /\ intent[e].order = None         \* with a known order the row stays as it is
  /\ intent' = [intent EXCEPT ![e].state = UncertainState(intent[e])]
  /\ UNCHANGED now

-----------------------------------------------------------------------------
MarkWaiting(e) ==
  /\ intent[e].state \in {"PAYMENT_READY", "WAITING_FOR_USER"}
  /\ intent' = [intent EXCEPT ![e].state = "WAITING_FOR_USER"]
  /\ UNCHANGED now

(* Mutant of AbortBeforeSubmit: a failed submission is cleaned up like an  *)
(* intent that was never dispatched.                                       *)
AbortAfterFailure(e) ==
  /\ intent[e].state \in PreSubmit \cup {"ORDER_SUBMIT_FAILED"}
  /\ intent' = [intent EXCEPT ![e].state = "PRE_SUBMIT_ABORTED"]
  /\ UNCHANGED now

AbortBeforeSubmit(e) ==
  /\ intent[e].state \in PreSubmit
  /\ intent[e].submit = None
  /\ intent' = [intent EXCEPT ![e].state = "PRE_SUBMIT_ABORTED"]
  /\ UNCHANGED now

(* The merchant closed exactly this order; a second report of the same     *)
(* outcome is accepted again.                                              *)
RecordTerminal(e, outcome, order, invoice) ==
  /\ outcome \in {"ORDER_EXPIRED", "ORDER_CANCELLED"}
  /\ intent[e].state # "NO_INTENT"
  /\ intent[e].order # None
  /\ intent[e].state \notin Terminal \ {outcome}
  /\ order = intent[e].order /\ invoice = intent[e].invoice
  /\ intent' = [intent EXCEPT ![e].state = outcome, ![e].verified = FALSE]
  /\ UNCHANGED now

(* At every start of a process that owns the ledger. *)
RecoverInterrupted ==
  /\ intent' = [e \in Event |->
                  IF intent[e].state = "ORDER_SUBMITTING"
                  THEN [intent[e] EXCEPT !.state = UncertainState(intent[e])]
                  ELSE intent[e]]
  /\ UNCHANGED now

(* EdgeBroker._halt, run by the native host on a disconnect or by a DISARM *)
(* that needs no process lock: it writes the column behind IntentStore.    *)
HaltSubmissions ==
  /\ intent' = [e \in Event |->
                  IF intent[e].state = "ORDER_SUBMITTING" /\ intent[e].nonce # None
                  THEN [intent[e] EXCEPT !.state = "ORDER_UNCERTAIN"]
                  ELSE intent[e]]
  /\ UNCHANGED now

Tick ==
  /\ now < MaxTime
  /\ now' = now + 1
  /\ UNCHANGED intent

Reconcile(e) ==
  \/ \E res \in Result : PersistResult(e, res) \/ ReconcileFound(e, res)
  \/ \E n \in Nonce \cup {None}, at \in Time, q \in Quote : ReconcileAbsent(e, n, at, q)
  \/ ReconcileUnknown(e)

Advance(e) ==
  \/ Create(e)
  \/ \E c \in CartId : SetCart(e, c)
  \/ MarkCheckoutReady(e)
  \/ MarkSubmitting(e)
  \/ \E id \in PrecheckId, at \in Time, q \in Quote : SetOrderPrecheck(e, id, at, q)
  \/ \E n \in Nonce, id \in PrecheckId, at \in Time : BeginOrderSubmission(e, n, id, at)
  \/ ClaimPaymentNotification(e)
  \/ Searching(e)
  \/ MarkUncertain(e)
  \/ MarkWaiting(e)
  \/ AbortBeforeSubmit(e)
  \/ \E outcome \in Terminal, o \in OrderId, i \in InvoiceId \cup {None} :
       RecordTerminal(e, outcome, o, i)

Next ==
  \/ \E e \in Event : Advance(e) \/ Reconcile(e)
  \/ RecoverInterrupted
  \/ HaltSubmissions
  \/ Tick

Spec == Init /\ [][Next]_vars

-----------------------------------------------------------------------------
(* Mutant of InRecovery: the list of states predates RECONCILING. *)
InRecoveryBefore(e) ==
  intent[e].state \in {"ORDER_SUBMITTING", "RECONCILIATION_REQUIRED",
    "ORDER_UNCERTAIN", "ORDER_CREATED", "INVOICE_CREATED", "PAYMENT_URL_READY",
    "INVOICE_SEARCHING", "PAYMENT_LINK_SEARCHING"}

(* The rows PurchaseRunner.recover reads back after a restart: the states of *)
(* recovery_intents.                                                         *)
InRecovery(e) ==
  intent[e].state \in Unresolved \cup
    {"ORDER_CREATED", "INVOICE_CREATED", "PAYMENT_URL_READY",
     "INVOICE_SEARCHING", "PAYMENT_LINK_SEARCHING"}

(* Every row is a row of the table: states and columns hold what the schema *)
(* and the methods of IntentStore may write.                                *)
TypeOK ==
  /\ intent \in [Event -> Row]
  /\ now \in Time

(* Two active intents never share a product, whatever the order in which    *)
(* creations, cancellations and server closures of several events mix       *)
(* (purchase_intents_active_product and the check in create).               *)
OneActivePerProduct ==
  \A e, f \in Event :
    Active(e) /\ Active(f) /\ ProductOf[e] = ProductOf[f] => e = f

(* The state and the order column never disagree: a row with an order is    *)
(* never called unresolved, failed or aborted, by any late disarm, restart, *)
(* failed read or confirmed absence, and a row that reports an order has    *)
(* one.                                                                     *)
OrderStateAgreement ==
  \A e \in Event :
    intent[e].order # None
      <=> intent[e].state \in Observed \cup {"ORDER_EXPIRED", "ORDER_CANCELLED"}

(* A payment page is offered to the user only with evidence of this very    *)
(* order, invoice and URL, and after a committed nonce only for the quote   *)
(* that was prechecked, which the event's own product offered.              *)
PaymentIsProved ==
  \A e \in Event :
    intent[e].state \in {"PAYMENT_READY", "WAITING_FOR_USER"} =>
      /\ intent[e].verified
      /\ intent[e].evidence # None
      /\ intent[e].evidence.order = intent[e].order
      /\ intent[e].evidence.invoice = intent[e].invoice
      /\ intent[e].evidence.url = intent[e].url
      /\ intent[e].url = intent[e].invoice
      /\ intent[e].nonce # None =>
           /\ intent[e].evidence.quote = intent[e].precheck.quote
           /\ intent[e].evidence.quote \in Offered[e]

(* The fate of a dispatched submission is never dropped: it is on the list  *)
(* recover() reads, proved payable, waiting for the user, confirmed absent  *)
(* (left to the operator, still holding the product), or closed by the      *)
(* merchant.                                                                *)
FateIsTracked ==
  \A e \in Event :
    intent[e].submit # None =>
      \/ InRecovery(e)
      \/ intent[e].state \in {"PAYMENT_READY", "WAITING_FOR_USER",
                              "ORDER_SUBMIT_FAILED"}
      \/ intent[e].order # None /\ intent[e].state \in {"ORDER_EXPIRED", "ORDER_CANCELLED"}

Kept(old, new) == old # None => new = old

(* What is known of a submission is never replaced or forgotten: the cart,  *)
(* the order, the invoice, its URL, the nonce and the time of dispatch, and *)
(* from the dispatch on the precheck it was made from.                      *)
SubmissionFactsKept ==
  [][\A e \in Event :
       /\ Kept(intent[e].cart, intent'[e].cart)
       /\ Kept(intent[e].order, intent'[e].order)
       /\ Kept(intent[e].invoice, intent'[e].invoice)
       /\ Kept(intent[e].url, intent'[e].url)
       /\ Kept(intent[e].nonce, intent'[e].nonce)
       /\ Kept(intent[e].submit, intent'[e].submit)
       /\ intent[e].submit # None => intent'[e].precheck = intent[e].precheck]_vars

(* The ledger implements the one-shot permit: at most one dispatch per      *)
(* intent, none once an order is known, and the product of a dispatched     *)
(* intent is released only after the merchant closed its order.             *)
Permit == INSTANCE OneShotPermit WITH
            open <- {e \in Event : Active(e)},
            used <- {e \in Event : intent[e].state # "NO_INTENT"},
            spent <- {e \in Event : intent[e].submit # None},
            found <- {e \in Event : intent[e].order # None}

ImplementsPermit == Permit!Spec
=============================================================================
