--------------------------- MODULE ArmedPurchase ---------------------------
(***************************************************************************)
(* The armed worker over Playwright: phase2_cli.py arm and reconcile, the  *)
(* purchase runner they drive (PurchaseRunner.process and recover), the    *)
(* LiveGuard that may revoke the run between any two awaits (module        *)
(* LiveGuard), and the ledger they write (module IntentLedger, several     *)
(* events of several products).                                            *)
(*                                                                         *)
(* One run at a time holds data/autograb.lock; every writer of events does, *)
(* so only this run claims the events it finds, and the answers STALE_EVENT *)
(* and ALREADY_CLAIMED stay unused.  A step is a stretch between two       *)
(* awaits, or one transaction where several follow each other: the process *)
(* may be killed between them.                                             *)
(*                                                                         *)
(* The order boundary of the repository's adapter is not reviewed yet, so  *)
(* its preflight never passes; the model is the worker with a provider     *)
(* whose preflight can pass, the one its tests run.  A preflight is dated  *)
(* when its last check returns and used before the next await: its age     *)
(* limits cannot bite here and are left out, as are events that are no     *)
(* opportunity.                                                            *)
(***************************************************************************)
EXTENDS Integers, Sequences

CONSTANTS
  Event, Product, ProductOf, None,
  Cart, TheOrder, TheInvoice, TheQuote,
  Decimal,            (* the events whose order gets a decimal number: the *)
                      (* ledger takes any other, a payable page does not   *)
  Hours, Settings, MaxTime,        (* of LiveGuard                         *)
  Command,            (* what runs are started for                         *)
  MaxRuns             (* bound of the runs                                 *)

VARIABLES
  intent,             (* of IntentLedger                                   *)
  now, mono, signals, guard, since,     (* of LiveGuard                    *)
  run,                (* the process that holds the lock, and how often it *)
                      (* asked for an order                                *)
  known,              (* the events in the store                           *)
  told,               (* what the events table says became of an event     *)
  asked,              (* calls of submit_unpaid_order                      *)
  lost                (* events whose process was killed at work on them   *)

(* Nothing on this path asks how old a row is: the ledger's clock stands.   *)
Ledger == INSTANCE IntentLedger WITH
  now <- 0, MaxTime <- 0,
  ProviderOf <- [p \in Product |-> "bandwagon"], CartId <- {Cart},
  OrderId <- {TheOrder}, InvoiceId <- {TheInvoice}, Nonce <- {}, PrecheckId <- {},
  Quote <- {TheQuote}, Offered <- [e \in Event |-> {TheQuote}],
  Fresh <- 0, AbsenceFresh <- 0

Guard == INSTANCE LiveGuard

ASSUME ArmedAssumption ==
  /\ Guard!GuardAssumption
  /\ ProductOf \in [Event -> Product]
  /\ Decimal \subseteq Event
  /\ Command \subseteq {"arm", "reconcile"}
  /\ None \notin Event /\ None \notin Command /\ None # 0
  /\ MaxRuns \in Nat

clocks == <<now, mono, signals>>
vars == <<intent, clocks, guard, since, run, known, told, asked, lost>>

Awaits == {"preflight", "discover", "check1", "verify", "check2", "cart",
           "check3", "submit", "reconcile", "mail", "wait", "hold"}
Steps == Awaits \cup {"idle", "top", "next", "ready", "mark", "claim", "done"}

(* The ends of a purchase nobody was asked for.  HUMAN: login or captcha. *)
Unasked == {"HUMAN", "LIVE_NOT_ARMED", "FAILED", "PRE_SUBMIT_ABORTED", "INTERRUPTED"}

(* No run: n were started. *)
Idle(n) == [pc |-> "idle", command |-> None, event |-> None, queue |-> {},
            chain |-> <<>>, asks |-> 0, n |-> n]

Init ==
  /\ Ledger!Init
  /\ Guard!Init
  /\ run = Idle(0)
  /\ known = {}
  /\ told = [e \in Event |-> "PENDING"]
  /\ asked = [e \in Event |-> 0]
  /\ lost = {}

row(e) == intent[e]
Live == run.pc # "idle"
Goto(pc) == run' = [run EXCEPT !.pc = pc]
Walk(pc, steps) == run' = [run EXCEPT !.pc = pc, !.chain = @ \o steps]
Tell(e, what) == told' = [told EXCEPT ![e] = what]

(* The finally clause: the lease and the lock go with the run. *)
Ended == Idle(run.n)

-----------------------------------------------------------------------------
(* The state graph of a purchase, core/purchase_state.py: where EDGES lets a  *)
(* state go.  transition() asks for an edge, and before PAYMENT_READY for the *)
(* evidence (Refuses, below).  A human block or a failure is recorded without *)
(* a transition.                                                              *)

(* Mutant of AfterDoubt: an order that was found exists, and stays there. *)
AfterDoubtOneWay ==
  [ORDER_UNCERTAIN |-> {"RECONCILING"},
   RECONCILING |-> {"ORDER_CREATED", "ORDER_UNCERTAIN", "ORDER_SUBMIT_FAILED"},
   RECONCILIATION_REQUIRED |-> {"ORDER_ALREADY_EXISTS", "ORDER_SUBMIT_FAILED"},
   ORDER_ALREADY_EXISTS |-> {"INVOICE_CREATED", "INVOICE_NOT_FOUND"}]

AfterDoubt ==
  [ORDER_UNCERTAIN |-> {"RECONCILING"},
   RECONCILING |-> {"ORDER_CREATED", "ORDER_UNCERTAIN", "ORDER_SUBMIT_FAILED"},
   RECONCILIATION_REQUIRED |-> {"ORDER_ALREADY_EXISTS", "ORDER_SUBMIT_FAILED"},
   ORDER_ALREADY_EXISTS |-> {"ORDER_CREATED", "INVOICE_NOT_FOUND"}]

BeforeDispatch ==
  [INTENT_CREATED |-> {"DETECTED"}, DETECTED |-> {"VERIFYING"},
   VERIFYING |-> {"PRODUCT_VERIFIED"}, PRODUCT_VERIFIED |-> {"OPENING_BROWSER"},
   OPENING_BROWSER |-> {"CART_READY"}, CART_READY |-> {"CHECKOUT_READY"},
   CHECKOUT_READY |-> {"ORDER_PRECHECK", "ORDER_SUBMITTING", "ORDER_ALREADY_EXISTS"},
   ORDER_PRECHECK |-> {"ORDER_SUBMITTING", "CHECKOUT_READY"}]

AfterDispatch ==
  [ORDER_SUBMITTING |-> {"ORDER_CREATED", "ORDER_UNCERTAIN", "RECONCILIATION_REQUIRED",
                         "ORDER_SUBMIT_FAILED"},
   ORDER_CREATED |-> {"INVOICE_SEARCHING", "INVOICE_CREATED", "INVOICE_NOT_FOUND"},
   INVOICE_SEARCHING |-> {"INVOICE_CREATED", "RECONCILING"},
   INVOICE_NOT_FOUND |-> {"RECONCILIATION_REQUIRED"},
   INVOICE_CREATED |-> {"PAYMENT_LINK_SEARCHING", "PAYMENT_URL_READY",
                        "PAYMENT_URL_NOT_FOUND"},
   PAYMENT_LINK_SEARCHING |-> {"PAYMENT_URL_READY", "PAYMENT_READY", "RECONCILING"},
   PAYMENT_URL_NOT_FOUND |-> {"RECONCILIATION_REQUIRED"},
   PAYMENT_URL_READY |-> {"PAYMENT_READY", "PAYMENT_GATEWAY_SELECTION_REQUIRED"},
   PAYMENT_READY |-> {"WAITING_FOR_USER", "ORDER_EXPIRED", "ORDER_CANCELLED"},
   WAITING_FOR_USER |-> {"ORDER_EXPIRED", "ORDER_CANCELLED"},
   PAYMENT_GATEWAY_SELECTION_REQUIRED |-> {"RECONCILIATION_REQUIRED"}]

Goes(s, t) ==
  \E G \in {BeforeDispatch, AfterDispatch, AfterDoubt} : s \in DOMAIN G /\ t \in G[s]

-----------------------------------------------------------------------------
(* phase2_cli.run_phase2: the run and its loop. *)

(* The intents recover() reads again. *)
Pending == {e \in Event : Ledger!InRecovery(e) \/ row(e).state = "PAYMENT_READY"}

Start(command) ==
  /\ ~Live
  /\ run.n < MaxRuns
  /\ Ledger!RecoverInterrupted
  /\ run' = [Ended EXCEPT !.n = @ + 1, !.command = command,
       !.queue = IF command = "reconcile" THEN Pending ELSE {},
       !.pc = IF command = "reconcile" THEN "next"
              ELSE IF "stop" \in signals THEN "idle" ELSE "preflight"]
  /\ UNCHANGED <<clocks, guard, since, known, told, asked, lost>>

Arm(d) ==
  /\ run.pc = "preflight"
  /\ Guard!Arm(d)
  /\ Goto("top")
  /\ UNCHANGED <<intent, clocks, known, told, asked, lost>>

(* A preflight that does not pass, a kill switch, a page that cannot be read: *)
(* an AutoGrabError ends the run.                                             *)
Refused ==
  /\ run.pc \in {"preflight", "discover"}
  /\ Guard!Disarm
  /\ run' = Ended
  /\ UNCHANGED <<intent, clocks, known, told, asked, lost>>

MayGoOn == Guard!Stands /\ "stop" \notin signals

LoopTop ==
  /\ run.pc = "top"
  /\ IF MayGoOn THEN Goto("discover") /\ UNCHANGED <<guard, since>>
                ELSE run' = Ended /\ Guard!Disarm
  /\ UNCHANGED <<intent, clocks, known, told, asked, lost>>

(* The catalogue is read and ingested: the events of changes nobody had seen. *)
Discover(found) ==
  /\ run.pc = "discover"
  /\ known' = known \cup found
  /\ run' = [run EXCEPT !.pc = "next", !.queue = found]
  /\ UNCHANGED <<intent, clocks, guard, since, told, asked, lost>>

(* No event is left.  monitoring_wait ends at once on a stop signal. *)
QueueEmpty ==
  /\ run.pc = "next"
  /\ run.queue = {}
  /\ IF run.command = "arm" /\ "stop" \notin signals
     THEN Goto("wait") /\ UNCHANGED <<guard, since>>
     ELSE run' = Ended /\ Guard!Disarm
  /\ UNCHANGED <<intent, clocks, known, told, asked, lost>>

Waited ==
  /\ run.pc = "wait"
  /\ IF "stop" \in signals THEN run' = Ended /\ Guard!Disarm
                           ELSE Goto("top") /\ UNCHANGED <<guard, since>>
  /\ UNCHANGED <<intent, clocks, known, told, asked, lost>>

(* The lease or the monitoring ended before the next event. *)
StopBeforeNext ==
  /\ run.pc = "next" /\ run.command = "arm"
  /\ run.queue # {}
  /\ ~MayGoOn
  /\ run' = Ended
  /\ Guard!Disarm
  /\ UNCHANGED <<intent, clocks, known, told, asked, lost>>

(* Mutant of Done: an event that failed lets the next one have its turn. *)
DoneGoesOn ==
  /\ run.pc = "done"
  /\ IF run.command = "reconcile" \/ told[run.event] \in {"FAILED", "RECONCILIATION_REQUIRED"}
     THEN Goto("next") /\ UNCHANGED <<guard, since>>
     ELSE /\ Guard!Disarm
          /\ run' = Ended \/ Goto("hold")
  /\ UNCHANGED <<intent, clocks, known, told, asked, lost>>

(* Whatever process() answered ends the arming.  The browser may stay open   *)
(* for its user.  recover() goes on with the next intent.                    *)
Done ==
  /\ run.pc = "done"
  /\ IF run.command = "reconcile"
     THEN Goto("next") /\ UNCHANGED <<guard, since>>
     ELSE /\ Guard!Disarm
          /\ run' = Ended \/ Goto("hold")
  /\ UNCHANGED <<intent, clocks, known, told, asked, lost>>

BrowserClosed ==
  /\ run.pc = "hold"
  /\ run' = Ended
  /\ UNCHANGED <<intent, clocks, guard, since, known, told, asked, lost>>

-----------------------------------------------------------------------------
(* PurchaseRunner.process, up to the dispatch. *)
Holders(e) == {f \in Event : Ledger!Active(f) /\ ProductOf[f] = ProductOf[e]}

(* The product has an active intent: nothing is claimed. *)
AlreadyOrdered(e) ==
  /\ run.pc = "next" /\ run.command = "arm"
  /\ e \in run.queue
  /\ MayGoOn
  /\ Holders(e) # {}
  /\ run' = [run EXCEPT !.pc = "done", !.event = e]
  /\ UNCHANGED <<intent, clocks, guard, since, known, told, asked, lost>>

Claim(e) ==
  /\ run.pc = "next" /\ run.command = "arm"
  /\ e \in run.queue
  /\ MayGoOn
  /\ Holders(e) = {}
  /\ told[e] = "PENDING"
  /\ Tell(e, "CLAIMED")
  /\ run' = [run EXCEPT !.pc = "check1", !.event = e, !.queue = @ \ {e},
                        !.chain = <<"INTENT_CREATED">>]
  /\ UNCHANGED <<intent, clocks, guard, since, known, asked, lost>>

(* The first guard: nothing of the merchant is touched before it. *)
Open ==
  /\ run.pc = "check1"
  /\ Guard!Stands
  /\ Ledger!Create(run.event)
  /\ Tell(run.event, "VERIFYING")
  /\ Walk("verify", <<"DETECTED", "VERIFYING">>)
  /\ UNCHANGED <<clocks, guard, since, known, asked, lost>>

(* check_product, then open_product: two awaits that fail in the same way. *)
Verified ==
  /\ run.pc = "verify"
  /\ Tell(run.event, "OPENING_BROWSER")
  /\ Walk("check2", <<"PRODUCT_VERIFIED", "OPENING_BROWSER">>)
  /\ UNCHANGED <<intent, clocks, guard, since, known, asked, lost>>

(* The second guard, before the first change to the cart. *)
EnterCart ==
  /\ run.pc = "check2"
  /\ Guard!Stands
  /\ Goto("cart")
  /\ UNCHANGED <<intent, clocks, guard, since, known, told, asked, lost>>

Prepared ==
  /\ run.pc = "cart"
  /\ Ledger!SetCart(run.event, Cart)
  /\ Tell(run.event, "CART_READY")
  /\ Walk("ready", <<"CART_READY">>)
  /\ UNCHANGED <<clocks, guard, since, known, asked, lost>>

CheckoutReady ==
  /\ run.pc = "ready"
  /\ Ledger!MarkCheckoutReady(run.event)
  /\ Tell(run.event, "CHECKOUT_READY")
  /\ Walk("mark", <<"CHECKOUT_READY">>)
  /\ UNCHANGED <<clocks, guard, since, known, asked, lost>>

(* The single permission is stored before the last look at the guard. *)
Mark ==
  /\ run.pc = "mark"
  /\ Ledger!MarkSubmitting(run.event)
  /\ Tell(run.event, "ORDER_SUBMITTING")
  /\ Walk("check3", <<"ORDER_SUBMITTING">>)
  /\ UNCHANGED <<clocks, guard, since, known, asked, lost>>

Ask ==
  /\ asked' = [asked EXCEPT ![run.event] = @ + 1]
  /\ run' = [run EXCEPT !.pc = "submit", !.asks = @ + 1]

(* The third guard; no await before the request. *)
Dispatch ==
  /\ run.pc = "check3"
  /\ Guard!Stands
  /\ Ask
  /\ UNCHANGED <<intent, clocks, guard, since, known, told, lost>>

-----------------------------------------------------------------------------
(* The receipt of the order, and the notice to its user. *)
Receipts ==
  LET R(i, u, ev) == [order |-> TheOrder, invoice |-> i, url |-> u, evidence |-> ev]
  IN {R(None, None, None), R(TheInvoice, None, None), R(TheInvoice, TheInvoice, None),
      R(TheInvoice, TheInvoice, [order |-> TheOrder, invoice |-> TheInvoice,
                                 url |-> TheInvoice, quote |-> TheQuote])}

(* Only evidence of this very read makes the page payable now. *)
Proved(r, res) == r.verified /\ res.evidence # None

(* assert_payment_ready: transition() raises, for the number of the order,  *)
(* over a receipt that was just stored.                                     *)
Refuses(e, res) == Proved(intent'[e], res) /\ e \notin Decimal

(* _unverified_status: a page not read again is not reported as payable. *)
Unverified(r) ==
  IF r.state \in {"PAYMENT_READY", "WAITING_FOR_USER"} THEN "RECONCILIATION_REQUIRED"
                                                     ELSE r.state

(* The states _finish_receipt asks for with the row r it stored. *)
ReceiptSteps(r, res) ==
  CASE r.invoice = None -> <<"ORDER_CREATED", "INVOICE_NOT_FOUND">>
    [] r.invoice # None /\ r.url = None ->
         <<"ORDER_CREATED", "INVOICE_CREATED", "PAYMENT_URL_NOT_FOUND">>
    [] r.invoice # None /\ r.url # None /\ ~Proved(r, res) ->
         <<"ORDER_CREATED", "INVOICE_CREATED", "PAYMENT_URL_READY">>
    [] OTHER -> <<"ORDER_CREATED", "INVOICE_CREATED", "PAYMENT_URL_READY", "PAYMENT_READY">>

(* An error over it leads to pc, with the event told what. *)
FinishReceipt(e, res, before, pc, what) ==
  LET steps == ReceiptSteps(intent'[e], res) IN
  /\ run' = [run EXCEPT !.chain = before \o steps, !.pc =
       CASE Refuses(e, res) -> pc
         [] Proved(intent'[e], res) /\ ~Refuses(e, res) -> "claim"
         [] OTHER -> "done"]
  /\ Tell(e, IF Refuses(e, res) THEN what ELSE steps[Len(steps)])

(* The error handler of process() has the order looked up. *)
Receipt(res) ==
  /\ run.pc = "submit"
  /\ Ledger!PersistResult(run.event, res)
  /\ FinishReceipt(run.event, res, run.chain, "reconcile", "PAYMENT_URL_READY")
  /\ UNCHANGED <<clocks, guard, since, known, asked, lost>>

(* A mail that was claimed before is not sent again. *)
ClaimNotice ==
  /\ run.pc = "claim"
  /\ IF row(run.event).notified
     THEN /\ Ledger!MarkWaiting(run.event)
          /\ Tell(run.event, "WAITING_FOR_USER")
          /\ Walk("done", <<"WAITING_FOR_USER">>)
     ELSE /\ Ledger!ClaimPaymentNotification(run.event)
          /\ Goto("mail")
          /\ UNCHANGED told
  /\ UNCHANGED <<clocks, guard, since, known, asked, lost>>

(* Sent or not, the order waits for its user. *)
Mailed ==
  /\ run.pc = "mail"
  /\ Ledger!MarkWaiting(run.event)
  /\ Tell(run.event, "WAITING_FOR_USER")
  /\ Walk("done", <<"WAITING_FOR_USER">>)
  /\ UNCHANGED <<clocks, guard, since, known, asked, lost>>

-----------------------------------------------------------------------------
(* What can fail.  A check that fails for the session or the lease disarms. *)
Disarms(why) ==
  IF run.pc \in {"check1", "check2", "check3"} /\ why # "FAILED"
  THEN Guard!Disarm ELSE UNCHANGED <<guard, since>>

(* Mutant of FailBeforeAsking: the intent stays. *)
FailAndKeep(why) ==
  /\ run.pc \in {"check1", "verify", "check2", "cart"}
  /\ why = "LIVE_NOT_ARMED" => run.pc \in {"check1", "check2"}
  /\ Disarms(why)
  /\ Tell(run.event, why)
  /\ Goto("done")
  /\ UNCHANGED <<intent, clocks, known, asked, lost>>

FailBeforeAsking(why) ==
  /\ run.pc \in {"check1", "verify", "check2", "cart"}
  /\ why = "LIVE_NOT_ARMED" => run.pc \in {"check1", "check2"}
  /\ Disarms(why)
  /\ IF run.pc = "check1" THEN UNCHANGED intent
                          ELSE Ledger!AbortBeforeSubmit(run.event)
  /\ Tell(run.event, why)
  /\ Goto("done")
  /\ UNCHANGED <<clocks, known, asked, lost>>

(* Mutant of FailAsking: the last guard's refusal is a failure like another. *)
FailAskingEarly(why) ==
  /\ run.pc \in {"check3", "submit"}
  /\ why = "LIVE_NOT_ARMED" => run.pc = "check3"
  /\ Disarms(why)
  /\ Ledger!MarkUncertain(run.event)
  /\ Tell(run.event, why)
  /\ Goto("done")
  /\ UNCHANGED <<clocks, known, asked, lost>>

(* From the stored permission on, the merchant is read, never asked again. *)
FailAsking(why) ==
  /\ run.pc \in {"check3", "submit"}
  /\ why = "LIVE_NOT_ARMED" => run.pc = "check3"
  /\ Disarms(why)
  /\ Ledger!MarkUncertain(run.event)
  /\ Goto("reconcile")
  /\ UNCHANGED <<clocks, known, told, asked, lost>>

(* recover(): the next intent. *)
Recover(e) ==
  /\ run.pc = "next" /\ run.command = "reconcile"
  /\ e \in run.queue
  /\ run' = [run EXCEPT !.pc = "reconcile", !.event = e, !.queue = @ \ {e}]
  /\ UNCHANGED <<intent, clocks, guard, since, known, told, asked, lost>>

(* _reconcile_one; the second persist of _finish_receipt writes the same row. *)
Found(res) ==
  /\ run.pc = "reconcile"
  /\ Ledger!ReconcileFound(run.event, res)
  /\ FinishReceipt(run.event, res, <<"RECONCILIATION_REQUIRED", "ORDER_ALREADY_EXISTS">>,
                   "done", Unverified(intent'[run.event]))
  /\ UNCHANGED <<clocks, guard, since, known, asked, lost>>

(* Mutant of Absent: an order the merchant does not know may be asked again. *)
AbsentReleases ==
  /\ run.pc = "reconcile"
  /\ row(run.event).order = None
  /\ intent' = [intent EXCEPT ![run.event].state = "PRE_SUBMIT_ABORTED"]
  /\ Tell(run.event, "ORDER_SUBMIT_FAILED")
  /\ Goto("done")
  /\ UNCHANGED <<clocks, guard, since, known, asked, lost>>

(* Confirmed absent: nobody may ask again but a person. *)
Absent ==
  /\ run.pc = "reconcile"
  /\ Ledger!ReconcileAbsent(run.event, None, now, TheQuote)
  /\ Tell(run.event, "ORDER_SUBMIT_FAILED")
  /\ Goto("done")
  /\ UNCHANGED <<clocks, guard, since, known, asked, lost>>

(* The merchant's answer is inconclusive, contradicts the row, or fails. *)
Unresolved ==
  /\ run.pc = "reconcile"
  /\ IF row(run.event).order = None THEN Ledger!ReconcileUnknown(run.event)
                                    ELSE UNCHANGED intent
  /\ Tell(run.event, Unverified(intent'[run.event]))
  /\ Goto("done")
  /\ UNCHANGED <<clocks, guard, since, known, asked, lost>>

-----------------------------------------------------------------------------
(* Ctrl-C at an await: process() leaves a state behind that tells what may   *)
(* have been sent.  Outside process, and in the reconciliation its error     *)
(* handler runs, the row is already in order.                                *)
Reread == run.command = "reconcile" \/ run.chain[1] = "RECONCILIATION_REQUIRED"

Interrupt ==
  /\ run.pc \in Awaits
  /\ run' = Ended
  /\ Guard!Disarm
  /\ CASE run.pc = "check1" ->
            Tell(run.event, "INTERRUPTED") /\ UNCHANGED intent
       [] run.pc \in {"verify", "check2", "cart"} ->
            Ledger!AbortBeforeSubmit(run.event) /\ Tell(run.event, "PRE_SUBMIT_ABORTED")
       [] run.pc \in {"check3", "submit"} ->
            /\ Ledger!MarkUncertain(run.event)
            /\ Tell(run.event, "RECONCILIATION_REQUIRED")
       [] run.pc = "mail" /\ ~Reread ->
            Tell(run.event, "PAYMENT_READY") /\ UNCHANGED intent
       [] OTHER -> UNCHANGED <<intent, told>>
  /\ UNCHANGED <<clocks, known, asked, lost>>

(* What only a running process works on. *)
Unfinished == Ledger!PreSubmit \cup {"ORDER_SUBMITTING"}

(* The process is killed: nothing of it runs any more. *)
Killed ==
  /\ Live
  /\ run' = Ended
  /\ Guard!Disarm
  /\ lost' = IF run.event # None /\ row(run.event).state \in Unfinished
             THEN lost \cup {run.event} ELSE lost
  /\ UNCHANGED <<intent, clocks, known, told, asked>>

Purchase ==
  \/ \E e \in Event : AlreadyOrdered(e) \/ Claim(e) \/ Recover(e)
  \/ Open \/ Verified \/ EnterCart \/ Prepared \/ CheckoutReady \/ Mark
  \/ Dispatch
  \/ \E res \in Receipts : Receipt(res) \/ Found(res)
  \/ ClaimNotice \/ Mailed
  \/ \E why \in {"HUMAN", "LIVE_NOT_ARMED", "FAILED"} :
       FailBeforeAsking(why) \/ FailAsking(why)
  \/ Absent \/ Unresolved

Worker ==
  \/ \E d \in Hours : Arm(d)
  \/ Refused \/ LoopTop \/ QueueEmpty \/ Waited \/ StopBeforeNext \/ Done
  \/ \E found \in SUBSET (Event \ known) : Discover(found)
  \/ Purchase

Outside ==
  /\ Guard!Outside
  /\ UNCHANGED <<intent, run, known, told, asked, lost>>

Next ==
  \/ \E command \in Command : Start(command)
  \/ Worker
  \/ BrowserClosed
  \/ Outside
  \/ Interrupt \/ Killed

Spec == Init /\ [][Next]_vars

-----------------------------------------------------------------------------
TypeOK ==
  /\ Ledger!TypeOK
  /\ Guard!TypeOK
  /\ run \in [pc : Steps, command : Command \cup {None}, event : Event \cup {None},
              queue : SUBSET Event, chain : Seq(STRING), asks : Nat, n : 0 .. MaxRuns]
  /\ known \subseteq Event
  /\ DOMAIN told = Event
  /\ asked \in [Event -> Nat]
  /\ lost \subseteq Event

(* One arming asks for one order at most: whatever the first purchase ends   *)
(* with (a failure, a login, an unknown fate), the events found with it are  *)
(* not bought under the same lease.                                          *)
OneOrderPerArming == run.asks <= 1

(* The merchant is asked once for a product, over all its events, runs,      *)
(* kills and recoveries, and what was asked is remembered by an active       *)
(* intent with its time of dispatch.                                         *)
AskedOncePerProduct ==
  \A e \in Event : asked[e] > 0 =>
    /\ asked[e] = 1
    /\ Ledger!Active(e) /\ row(e).submit # None
    /\ \A f \in Event \ {e} : ProductOf[f] = ProductOf[e] => asked[f] = 0

(* An event reported as failed, refused or stopped has not asked for an      *)
(* order, and holds its product no longer.                                   *)
FailedMeansUnasked ==
  \A e \in Event : told[e] \in Unasked => asked[e] = 0 /\ ~Ledger!Active(e)

(* A run that ends by itself or by Ctrl-C leaves no intent in the middle of  *)
(* its way: it is aborted or its submission is in doubt, on the list the     *)
(* next start reads.  Only a killed process leaves one.                      *)
EndedRunsLetGo ==
  ~Live => \A e \in Event : row(e).state \in Unfinished => e \in lost

(* The states asked of transition() follow each other in the state graph, on *)
(* the way to the dispatch, through any receipt, and through a receipt that  *)
(* was only found later: over an order that was just stored it raises for no *)
(* missing edge, only for an order number that assert_payment_ready refuses  *)
(* and the ledger took.  Such an order is never reported as payable, nor as  *)
(* waiting for a user, who was not told of it.                               *)
StaysOnGraph ==
  /\ \A i \in 1 .. Len(run.chain) - 1 : Goes(run.chain[i], run.chain[i + 1])
  /\ \A e \in Event : told[e] \in {"PAYMENT_READY", "WAITING_FOR_USER"} => e \in Decimal

(* An order is asked for only while the lease stands, and unless the wall    *)
(* clock was set and the machine slept, within the hours it was taken for.   *)
AskedWithinHours ==
  [][run'.asks > run.asks =>
       /\ Guard!Stands
       /\ since.wall \/ since.mono => since.elapsed < guard.deadline - guard.armed]_vars
=============================================================================
