-------------------------- MODULE OrderSubmission --------------------------
(***************************************************************************)
(* One order, from the checkout page to the payment notice, across the     *)
(* four programs it passes through:                                        *)
(*   cli     order-precheck, order-smoke and order-reconcile, one at a     *)
(*           time under data/autograb.lock (order_cli.py, purchase.py,     *)
(*           edge_order.py, live.py)                                       *)
(*   host    the native host that Edge starts, with the command queue it   *)
(*           shares with the cli in SQLite (native_host.py, broker.py)     *)
(*   ext     the extension's service worker (order-flow.js)                *)
(*   tab     the content script in the merchant's page (order-adapter.js)  *)
(* They share the intent ledger (module IntentLedger, one event here), the *)
(* command queue and the kill-switch file.  Every database transaction, and *)
(* every stretch of the extension between two awaits that others can tell  *)
(* apart, is one step.  Any process may stop between two of its steps.     *)
(*                                                                         *)
(* An exchange may time out at any moment: its 20 s are not counted.  What *)
(* is counted is the life of the permit.                                   *)
(***************************************************************************)
EXTENDS Integers, Sequences

CONSTANTS
  Item, Goods,        (* the event of this order, and its product          *)
  Cart, TheOrder, TheInvoice, TheQuote, None,
  Fresh,              (* 60 s: the longest life of a precheck and a permit *)
  MaxTime,            (* bound of the clock                                *)
  MaxRuns,            (* bound of the cli's runs; a run names its nonce    *)
  MaxCmds,            (* bound of the order commands                       *)
  MaxConn,            (* bound of the native connections                   *)
  MaxDoc,             (* bound of the documents the tab shows              *)
  Goals               (* what the runs are started for                     *)

ASSUME OrderAssumption ==
  /\ {Fresh, MaxTime, MaxRuns, MaxCmds} \subseteq Nat
  /\ {MaxConn, MaxDoc} \subseteq Nat \ {0}
  /\ Goals \subseteq {"precheck", "smoke", "reconcile"}
  /\ None \notin Nat \cup {Cart, TheOrder, TheInvoice}

VARIABLES
  intent, now,        (* the ledger and the clock                          *)
  cli, cmds, broker, host, wire, ext, tab,
  signal,             (* the disarm or stop file exists                    *)
  clicks,             (* clicks on Complete Order                          *)
  placed,             (* the merchant has the order                        *)
  mails               (* payment notices handed to SMTP                    *)

vars == <<intent, now, cli, cmds, broker, host, wire, ext, tab, signal, clicks,
          placed, mails>>

Ledger == INSTANCE IntentLedger WITH
  Event <- {Item}, Product <- {Goods},
  ProductOf <- [e \in {Item} |-> Goods], ProviderOf <- [p \in {Goods} |-> "dmit"],
  CartId <- {Cart}, OrderId <- {TheOrder}, InvoiceId <- {TheInvoice},
  Nonce <- 1 .. MaxRuns, PrecheckId <- 1 .. MaxCmds, Quote <- {TheQuote},
  Offered <- [e \in {Item} |-> {TheQuote}], AbsenceFresh <- 2 * Fresh

row == intent[Item]
Cmd == 1 .. MaxCmds
Conn == 0 .. MaxConn                        \* 0: no connection
Permit == [nonce : 1 .. MaxRuns, precheck : Cmd, issued : Ledger!Time, expires : Nat]
Found == {"ORDER_FOUND", "ORDER_AND_LINK", "PAYMENT_READY"}
Outcome == Found \cup {"PRECHECK_READY", "UNKNOWN", "LOGIN_REQUIRED"}
Command == [type : {"ORDER_PRECHECK", "SUBMIT_ORDER", "RECONCILE_ORDER"},
            status : {"QUEUED", "DISPATCHED", "DONE", "HALTED"},
            conn : Conn, run : 1 .. MaxRuns, permit : Permit \cup {None},
            nonce : 1 .. MaxRuns \cup {None}, outcome : Outcome \cup {None},
            at : Ledger!Time \cup {None}]      \* observed_at
Waiting == {"first", "final", "submit", "reconcile"}   \* exchanges of the cli

Init ==
  /\ intent = [e \in {Item} |-> [Ledger!NoIntent EXCEPT !.state = "CHECKOUT_READY",
                                                        !.cart = Cart]]
  /\ now = 0
  /\ cli = [pc |-> "idle", goal |-> None, run |-> 0, cmd |-> 0, armed |-> None,
            permit |-> None]
  /\ cmds = <<>>
  /\ broker = [connected |-> TRUE, conn |-> 1, disarm |-> FALSE]
  /\ host = "up"
  /\ wire = [toExt |-> <<>>, toHost |-> <<>>]
  /\ ext = [conn |-> 1, state |-> "CHECKOUT_READY", journal |-> None, nonces |-> {},
            precheck |-> None, op |-> None]
  /\ tab = [doc |-> 1, used |-> {}, req |-> None]
  /\ signal = FALSE
  /\ clicks = 0
  /\ placed = FALSE
  /\ mails = 0

Goto(pc) == cli' = [cli EXCEPT !.pc = pc]
Exit(pc) == cli' = [cli EXCEPT !.pc = pc, !.cmd = 0, !.armed = None, !.permit = None]

world == <<tab, clicks, placed>>
edge == <<broker, host, wire, ext>>

-----------------------------------------------------------------------------
(* The command queue: EdgeBroker. *)
Pending(i) == cmds[i].status \in {"QUEUED", "DISPATCHED"}
Halted == [i \in DOMAIN cmds |->
             IF Pending(i) THEN [cmds[i] EXCEPT !.status = "HALTED"] ELSE cmds[i]]

(* EdgeBroker._halt *)
Halt == cmds' = Halted /\ Ledger!HaltSubmissions

PermitFresh(p) == p.issued <= now /\ now < p.expires

(* The kernel lock of _exchange: it is there as long as the process is. *)
LeaseHeld(nonce) ==
  cli.pc = "submit" /\ cli.cmd # 0 /\ cli.permit.nonce = nonce

(* The checks of enqueue_order. *)
Admits(type, p) ==
  /\ broker.connected
  /\ \A i \in DOMAIN cmds : ~Pending(i)
  /\ type = "ORDER_PRECHECK" =>
       row.state \in {"CHECKOUT_READY", "ORDER_PRECHECK"} /\ row.submit = None
  /\ type = "SUBMIT_ORDER" =>
       /\ row.state = "ORDER_SUBMITTING" /\ row.nonce = p.nonce
       /\ row.precheck # None /\ row.precheck.id = p.precheck
       /\ PermitFresh(p)
       /\ \A i \in DOMAIN cmds : cmds[i].type # "SUBMIT_ORDER"

(* The checks a submission passes again when the host takes it. *)
Authorized(i) ==
  LET p == cmds[i].permit IN
  /\ row.state = "ORDER_SUBMITTING" /\ row.nonce = p.nonce /\ row.submit = p.issued
  /\ row.order = None /\ row.invoice = None
  /\ row.precheck # None /\ row.precheck.id = p.precheck
  /\ i = Len(cmds)                          \* edge_command_id
  /\ LeaseHeld(p.nonce)
  /\ PermitFresh(p)
  /\ ~signal

-----------------------------------------------------------------------------
(* The cli. *)
Live == cli.pc \notin {"idle", "dead"}

(* Every command first recovers what an earlier process left. *)
Start(goal) ==
  /\ ~Live
  /\ cli.run < MaxRuns
  /\ Ledger!RecoverInterrupted
  /\ cli' = [cli EXCEPT !.run = @ + 1, !.goal = goal, !.pc =
       CASE goal = "reconcile" /\ row.submit # None -> "search"
         [] goal # "reconcile" /\ row.submit = None /\ (goal = "smoke" => ~signal) -> "first"
         [] OTHER -> "idle"]
  /\ UNCHANGED <<cmds, edge, world, signal, mails>>

Kind == CASE cli.pc \in {"first", "final"} -> "ORDER_PRECHECK"
          [] cli.pc = "submit" -> "SUBMIT_ORDER"
          [] OTHER -> "RECONCILE_ORDER"

EnqueueOrder ==
  /\ cli.pc \in Waiting /\ cli.cmd = 0
  /\ Len(cmds) < MaxCmds
  /\ Admits(Kind, cli.permit)
  /\ cmds' = Append(cmds, [type |-> Kind, status |-> "QUEUED", conn |-> 0,
       run |-> cli.run, permit |-> IF cli.pc = "submit" THEN cli.permit ELSE None,
       nonce |-> row.nonce, outcome |-> None, at |-> None])
  /\ cli' = [cli EXCEPT !.cmd = Len(cmds) + 1]
  /\ UNCHANGED <<intent, now, edge, world, signal, mails>>

(* Where a failed exchange leads: a submission must be accounted for; so     *)
(* must a cancelled reconciliation of the run that submitted.                *)
AfterFailure ==
  IF cli.pc = "submit" THEN {"unsure"}
  ELSE IF cli.pc = "reconcile" /\ cli.goal = "smoke" THEN {"unsure", "idle"}
  ELSE {"idle"}

Refused ==
  /\ cli.pc \in Waiting /\ cli.cmd = 0
  /\ ~Admits(Kind, cli.permit)
  /\ \E pc \in AfterFailure : Exit(pc)
  /\ UNCHANGED <<intent, now, cmds, edge, world, signal, mails>>

(* Mutant of GiveUp: the abandoned command stays in the queue. *)
GiveUpOnly ==
  /\ cli.pc \in Waiting /\ cli.cmd # 0
  /\ \E pc \in AfterFailure : Exit(pc)
  /\ UNCHANGED <<intent, now, cmds, edge, world, signal, mails>>

(* Mutant of GiveUp: only bad news ends the wait, there is no deadline. *)
GiveUpOnBadNews ==
  /\ cli.pc \in Waiting /\ cli.cmd # 0
  /\ cmds[cli.cmd].status = "HALTED" \/ ~broker.connected
  /\ cmds' = IF Pending(cli.cmd) THEN [cmds EXCEPT ![cli.cmd].status = "HALTED"]
             ELSE cmds
  /\ \E pc \in AfterFailure : Exit(pc)
  /\ UNCHANGED <<intent, now, edge, world, signal, mails>>

(* Timeout, lost connection, halted command, Ctrl-C: the finally clause of   *)
(* _exchange takes the command out of the queue.                             *)
GiveUp ==
  /\ cli.pc \in Waiting /\ cli.cmd # 0
  /\ cmds' = IF Pending(cli.cmd) THEN [cmds EXCEPT ![cli.cmd].status = "HALTED"]
             ELSE cmds
  /\ \E pc \in AfterFailure : Exit(pc)
  /\ UNCHANGED <<intent, now, edge, world, signal, mails>>

Answered == cli.cmd # 0 /\ cmds[cli.cmd].outcome # None
Answer == cmds[cli.cmd].outcome

(* precheck_checkout: a reading that came too late is refused by the ledger. *)
TakePrecheck ==
  /\ cli.pc \in {"first", "final"} /\ Answered
  /\ IF Answer # "PRECHECK_READY" \/ ~Ledger!RecentAt(cmds[cli.cmd].at, Fresh)
     THEN Exit("idle") /\ UNCHANGED <<intent, now>>
     ELSE /\ Ledger!SetOrderPrecheck(Item, cli.cmd, cmds[cli.cmd].at, TheQuote)
          /\ cli' = [cli EXCEPT !.cmd = 0, !.pc =
               CASE cli.goal = "precheck" -> "idle"
                 [] cli.goal # "precheck" /\ cli.pc = "first" -> "arm"
                 [] OTHER -> "issue"]
  /\ UNCHANGED <<cmds, edge, world, signal, mails>>

(* RealOrderSmokeGuard: armed for one run, closed by the clock and by the    *)
(* kill switch; every check of it also asks for a connection (preflight).    *)
GuardOpen ==
  ~signal /\ cli.armed # None /\ now < cli.armed + Fresh /\ broker.connected

ArmSmoke ==
  /\ cli.pc = "arm"
  /\ IF ~signal /\ broker.connected
     THEN cli' = [cli EXCEPT !.armed = now, !.pc = "final"]
     ELSE Exit("idle")
  /\ UNCHANGED <<intent, now, cmds, edge, world, signal, mails>>

(* issue_permit and begin_order_submission: from here on the order counts as *)
(* submitted.                                                                *)
Authorize ==
  /\ cli.pc = "issue"
  /\ GuardOpen
  /\ Ledger!BeginOrderSubmission(Item, cli.run, row.precheck.id, now)
  /\ cli' = [cli EXCEPT !.pc = "assert", !.permit =
       [nonce |-> cli.run, precheck |-> row.precheck.id, issued |-> now,
        expires |-> cli.armed + Fresh]]
  /\ UNCHANGED <<cmds, edge, world, signal, mails>>

NotAuthorized ==
  /\ cli.pc = "issue"
  /\ ~GuardOpen \/ ~Ledger!RecentAt(row.precheck.at, Fresh)
  /\ Exit("idle")
  /\ UNCHANGED <<intent, now, cmds, edge, world, signal, mails>>

AssertPermit ==
  /\ cli.pc = "assert"
  /\ Goto(IF GuardOpen THEN "submit" ELSE "unsure")
  /\ UNCHANGED <<intent, now, cmds, edge, world, signal, mails>>

(* The extension never claims an order from a submission: whatever it        *)
(* answered, the outcome is looked up.                                       *)
TakeSubmission ==
  /\ cli.pc = "submit" /\ Answered
  /\ cli' = [cli EXCEPT !.pc = "unresolved", !.cmd = 0]
  /\ UNCHANGED <<intent, now, cmds, edge, world, signal, mails>>

Unresolved ==
  /\ cli.pc = "unresolved"
  /\ Ledger!MarkUncertain(Item)
  /\ Goto("search")
  /\ UNCHANGED <<cmds, edge, world, signal, mails>>

(* Mutant of Unsure: the error path returns at once. *)
UnsureReturns ==
  /\ cli.pc = "unsure"
  /\ Exit("idle")
  /\ UNCHANGED <<intent, now, cmds, edge, world, signal, mails>>

(* The error paths of submit_checkout. *)
Unsure ==
  /\ cli.pc = "unsure"
  /\ IF row.order = None THEN Ledger!MarkUncertain(Item) ELSE UNCHANGED <<intent, now>>
  /\ Exit("idle")
  /\ UNCHANGED <<cmds, edge, world, signal, mails>>

(* IntentStore.searching leaves the states it has no successor for. *)
Searched ==
  IF row.state \in {"ORDER_CREATED", "INVOICE_CREATED", "ORDER_UNCERTAIN",
                    "RECONCILIATION_REQUIRED"}
  THEN Ledger!Searching(Item) ELSE UNCHANGED <<intent, now>>

(* _reconcile_one *)
Search ==
  /\ cli.pc = "search"
  /\ Searched
  /\ Goto("reconcile")
  /\ UNCHANGED <<cmds, edge, world, signal, mails>>

(* EdgeOrderProvider._receipt *)
Receipt(outcome) ==
  LET link == IF outcome = "ORDER_FOUND" THEN None ELSE TheInvoice IN
  [order |-> TheOrder, invoice |-> link, url |-> link, evidence |->
     IF outcome # "PAYMENT_READY" THEN None
     ELSE [order |-> TheOrder, invoice |-> TheInvoice, url |-> TheInvoice,
           quote |-> TheQuote]]

(* reconcile(FOUND), and persist_result of the same receipt, which changes   *)
(* nothing more.                                                             *)
TakeOrder ==
  /\ cli.pc = "reconcile" /\ Answered
  /\ Answer \in Found
  /\ Ledger!ReconcileFound(Item, Receipt(Answer))
  /\ Goto("receipt")
  /\ UNCHANGED <<cmds, edge, world, signal, mails>>

TakeNoOrder ==
  /\ cli.pc = "reconcile" /\ Answered
  /\ Answer \notin Found
  /\ IF Answer = "UNKNOWN" /\ row.order = None
     THEN Ledger!ReconcileUnknown(Item) ELSE UNCHANGED <<intent, now>>
  /\ Exit("idle")
  /\ UNCHANGED <<cmds, edge, world, signal, mails>>

(* _finish_receipt: only evidence of this very answer leads to a notice. *)
FinishReceipt ==
  /\ cli.pc = "receipt"
  /\ IF row.invoice = None \/ row.url = None THEN Searched /\ Exit("idle")
     ELSE /\ UNCHANGED <<intent, now>>
          /\ IF row.verified /\ Answer = "PAYMENT_READY" THEN Goto("notify")
             ELSE Exit("idle")
  /\ UNCHANGED <<cmds, edge, world, signal, mails>>

(* Mutant of ClaimNotice: the claim is not asked. *)
ClaimAnyway ==
  /\ cli.pc = "notify"
  /\ IF row.state = "PAYMENT_READY"
     THEN intent' = [intent EXCEPT ![Item].notified = TRUE] /\ now' = now /\ Goto("mail")
     ELSE Ledger!MarkWaiting(Item) /\ Exit("idle")
  /\ UNCHANGED <<cmds, edge, world, signal, mails>>

(* _notify_payment: claimed in the ledger before SMTP is asked. *)
ClaimNotice ==
  /\ cli.pc = "notify"
  /\ IF row.state = "PAYMENT_READY" /\ row.verified /\ ~row.notified
     THEN Ledger!ClaimPaymentNotification(Item) /\ Goto("mail")
     ELSE Ledger!MarkWaiting(Item) /\ Exit("idle")
  /\ UNCHANGED <<cmds, edge, world, signal, mails>>

SendNotice ==
  /\ cli.pc = "mail"
  /\ mails' = mails + 1
  /\ Goto("sent")
  /\ UNCHANGED <<intent, now, cmds, edge, world, signal>>

NoticeSent ==
  /\ cli.pc = "sent"
  /\ Ledger!MarkWaiting(Item)
  /\ Exit("idle")
  /\ UNCHANGED <<cmds, edge, world, signal, mails>>

(* The process is killed: nothing of it is left but the database. *)
Dies ==
  /\ Live
  /\ Exit("dead")
  /\ UNCHANGED <<intent, now, cmds, edge, world, signal, mails>>

Cli ==
  \/ EnqueueOrder \/ Refused \/ GiveUp \/ TakePrecheck \/ ArmSmoke \/ Authorize
  \/ NotAuthorized \/ AssertPermit \/ TakeSubmission \/ Unresolved \/ Unsure
  \/ Search \/ TakeOrder \/ TakeNoOrder \/ FinishReceipt \/ ClaimNotice
  \/ SendNotice \/ NoticeSent

-----------------------------------------------------------------------------
(* The native host. *)

(* Mutant of NextCommand: the authorizer is not asked for again. *)
NextCommandUnchecked ==
  /\ host = "up" /\ broker.connected
  /\ IF broker.disarm
     THEN /\ broker' = [broker EXCEPT !.disarm = FALSE]
          /\ wire' = [wire EXCEPT !.toExt = Append(@, 0)]
          /\ UNCHANGED <<cmds, intent, now>>
     ELSE \E i \in DOMAIN cmds :
            /\ cmds[i].status = "QUEUED"
            /\ cmds' = [cmds EXCEPT ![i].status = "DISPATCHED", ![i].conn = broker.conn]
            /\ wire' = [wire EXCEPT !.toExt = Append(@, i)]
            /\ UNCHANGED <<intent, now, broker>>
  /\ UNCHANGED <<cli, host, ext, world, signal, mails>>

(* A DISARM goes first; a submission that is no longer authorized halts the  *)
(* queue instead of being sent.                                              *)
NextCommand ==
  /\ host = "up" /\ broker.connected
  /\ IF broker.disarm
     THEN /\ broker' = [broker EXCEPT !.disarm = FALSE]
          /\ wire' = [wire EXCEPT !.toExt = Append(@, 0)]
          /\ UNCHANGED <<cmds, intent, now>>
     ELSE \E i \in DOMAIN cmds :
            /\ cmds[i].status = "QUEUED"
            /\ IF cmds[i].type = "SUBMIT_ORDER" /\ ~Authorized(i)
               THEN Halt /\ UNCHANGED wire
               ELSE /\ cmds' = [cmds EXCEPT ![i].status = "DISPATCHED",
                                            ![i].conn = broker.conn]
                    /\ wire' = [wire EXCEPT !.toExt = Append(@, i)]
                    /\ UNCHANGED <<intent, now>>
            /\ UNCHANGED broker
  /\ UNCHANGED <<cli, host, ext, world, signal, mails>>

(* The host leaves through broker.disconnect(); what it wrote to the pipe    *)
(* may still arrive, what it did not read is lost.                           *)
HostLeaves ==
  /\ Halt
  /\ broker' = [broker EXCEPT !.connected = FALSE]
  /\ host' = "down"
  /\ wire' = [wire EXCEPT !.toHost = <<>>]

(* _order_observation: an answer to anything but the command that is out on  *)
(* this connection is a protocol error, and ends the host.                   *)
ReceiveObservation ==
  /\ host = "up" /\ wire.toHost # <<>>
  /\ LET m == Head(wire.toHost) IN
     IF /\ broker.connected
        /\ cmds[m.cmd].status = "DISPATCHED" /\ cmds[m.cmd].conn = broker.conn
     THEN /\ cmds' = [cmds EXCEPT ![m.cmd].status = "DONE", ![m.cmd].at = m.at,
                                  ![m.cmd].outcome = m.outcome]
          /\ wire' = [wire EXCEPT !.toHost = Tail(@)]
          /\ UNCHANGED <<intent, now, broker, host>>
     ELSE HostLeaves
  /\ UNCHANGED <<cli, ext, world, signal, mails>>

(* End of the pipe, a signal, a lost heartbeat. *)
HostStops ==
  /\ host = "up"
  /\ HostLeaves
  /\ UNCHANGED <<cli, ext, world, signal, mails>>

(* SIGKILL: the database still says connected, until the heartbeat is old. *)
HostKilled ==
  /\ host = "up"
  /\ host' = "down"
  /\ wire' = [wire EXCEPT !.toHost = <<>>]
  /\ UNCHANGED <<intent, now, cli, cmds, broker, ext, world, signal, mails>>

HeartbeatLapses ==
  /\ host = "down" /\ broker.connected
  /\ broker' = [broker EXCEPT !.connected = FALSE]
  /\ UNCHANGED <<intent, now, cli, cmds, host, wire, ext, world, signal, mails>>

(* The user's DISARM: the file first, then the command; a host that sees the *)
(* file change enqueues the same command.  The user may clear the file at    *)
(* any time, in a command of its own: no lock orders it against the others.  *)
SignalDisarm ==
  /\ ~signal
  /\ signal' = TRUE
  /\ UNCHANGED <<intent, now, cli, cmds, edge, world, mails>>

ClearSignal ==
  /\ signal
  /\ signal' = FALSE
  /\ UNCHANGED <<intent, now, cli, cmds, edge, world, mails>>

(* A disarm command enqueues after it wrote the file, which may have been    *)
(* cleared again by then.                                                    *)
EnqueueDisarm ==
  /\ ~broker.disarm /\ \A k \in DOMAIN wire.toExt : wire.toExt[k] # 0  \* bound: one at a time
  /\ Halt
  /\ broker' = [broker EXCEPT !.disarm = TRUE]
  /\ UNCHANGED <<cli, host, wire, ext, world, signal, mails>>

-----------------------------------------------------------------------------
(* The service worker: handle and handleOrderCommand.  op is the command it  *)
(* is busy with; live says that current() still holds for it: no disconnect, *)
(* restart or DISARM since it began.                                         *)
Stale(op) == IF op = None THEN None ELSE [op EXCEPT !.live = FALSE]

(* event(): nothing is said without a port; a dead host reads nothing. *)
Said(i, outcome) ==
  IF ext.conn = 0 \/ host = "down" THEN wire.toHost
  ELSE Append(wire.toHost, [cmd |-> i, outcome |-> outcome,
                            at |-> IF outcome = "PRECHECK_READY" THEN now ELSE None])
Emit(i, outcome) == wire' = [wire EXCEPT !.toHost = Said(i, outcome)]

Doing(type, pc) ==
  ext.op # None /\ ext.op.live /\ ext.op.pc = pc /\ cmds[ext.op.cmd].type = type

(* What is refused at once: a second command, a submission without a         *)
(* precheck, anything but a reconciliation once a dispatch is journaled.     *)
RefusedAtOnce(i) ==
  \/ ext.op # None
  \/ cmds[i].type = "SUBMIT_ORDER" /\ ext.precheck = None
  \/ cmds[i].type # "RECONCILE_ORDER" /\ ext.journal # None

(* A command changes the context (its revision): the messages whose receipt  *)
(* was being saved meanwhile, DISARM included, are dropped with it.          *)
Overtakes ==
  \E k \in DOMAIN wire.toExt : wire' = [wire EXCEPT !.toExt = SubSeq(@, k + 1, Len(@))]

Receive ==
  /\ ext.conn # 0 /\ wire.toExt # <<>>
  /\ LET i == Head(wire.toExt) IN
     CASE i = 0 ->
            /\ ext' = [ext EXCEPT !.op = Stale(@), !.state =
                         IF @ = "CHECKOUT_READY" THEN @ ELSE "DISARMED"]
            /\ Overtakes
       [] i # 0 /\ RefusedAtOnce(i) ->
            /\ UNCHANGED ext
            /\ wire' = [toExt |-> Tail(wire.toExt), toHost |-> Said(i, "UNKNOWN")]
       [] OTHER ->
            /\ ext' = [ext EXCEPT !.op = [cmd |-> i, pc |-> "begun", doc |-> tab.doc,
                                          live |-> ext.state # "DISARMED"]]
            /\ Overtakes
  /\ UNCHANGED <<intent, now, cli, cmds, broker, host, world, signal, mails>>

(* The page is the checkout page and shows the product, its price, a session *)
(* and the no-charge notice.                                                 *)
ExtPrecheck ==
  /\ Doing("ORDER_PRECHECK", "begun")
  /\ ext' = [ext EXCEPT !.op = None, !.state = "ORDER", !.precheck =
               [id |-> ext.op.cmd, doc |-> tab.doc, at |-> now, conn |-> ext.conn]]
  /\ Emit(ext.op.cmd, "PRECHECK_READY")
  /\ UNCHANGED <<intent, now, cli, cmds, broker, host, world, signal, mails>>

(* The page is anything else, or cannot be read.  (What is missing is told   *)
(* apart only where the cli does.)                                           *)
ExtUnverified ==
  /\ ext.op # None /\ ext.op.live /\ ext.op.pc = "begun"
  /\ \E p \in {None, ext.precheck}, s \in {"ORDER", ext.state} :
       ext' = [ext EXCEPT !.op = None, !.precheck = p, !.state = s]
  /\ \/ Emit(ext.op.cmd, "UNKNOWN")
     \/ cmds[ext.op.cmd].type = "RECONCILE_ORDER" /\ Emit(ext.op.cmd, "LOGIN_REQUIRED")
  /\ UNCHANGED <<intent, now, cli, cmds, broker, host, world, signal, mails>>

(* Mutant of ExtJournal: the dispatch is remembered in memory only. *)
ExtJournalForgotten ==
  /\ Doing("SUBMIT_ORDER", "begun")
  /\ LET p == cmds[ext.op.cmd].permit IN
     /\ ext.precheck # None /\ ext.precheck.id = p.precheck
     /\ ext.precheck.doc = tab.doc
     /\ ext' = [ext EXCEPT !.precheck = None, !.state = "ORDER",
          !.op = [@ EXCEPT !.pc = "journaled", !.doc = tab.doc]]
  /\ UNCHANGED <<intent, now, cli, cmds, broker, host, wire, world, signal, mails>>

(* The page is read once more, and is the same document; the dispatch and    *)
(* its nonce are saved before anything is sent.                              *)
ExtJournal ==
  /\ Doing("SUBMIT_ORDER", "begun")
  /\ LET p == cmds[ext.op.cmd].permit IN
     /\ ext.precheck # None /\ ext.precheck.id = p.precheck
     /\ ext.precheck.conn = ext.conn
     /\ ext.precheck.doc = tab.doc
     /\ now - ext.precheck.at <= Fresh
     /\ p.nonce \notin ext.nonces
     /\ ext' = [ext EXCEPT !.journal = p.nonce, !.nonces = @ \cup {p.nonce},
          !.precheck = None, !.state = "ORDER",
          !.op = [@ EXCEPT !.pc = "journaled", !.doc = tab.doc]]
  /\ UNCHANGED <<intent, now, cli, cmds, broker, host, wire, world, signal, mails>>

(* To the very document that was checked; if it is gone there is no answer. *)
ExtSend ==
  /\ Doing("SUBMIT_ORDER", "journaled")
  /\ LET p == cmds[ext.op.cmd].permit IN
     /\ now < p.expires
     /\ tab' = IF tab.doc # ext.op.doc THEN tab
               ELSE [tab EXCEPT !.req = [nonce |-> p.nonce, expires |-> p.expires]]
  /\ ext' = [ext EXCEPT !.op.pc = "sent"]
  /\ UNCHANGED <<intent, now, cli, cmds, broker, host, wire, signal, clicks, placed, mails>>

(* The permit ran out, or the journal could not be saved. *)
ExtNotSent ==
  /\ Doing("SUBMIT_ORDER", "journaled")
  /\ ext' = [ext EXCEPT !.op = None]
  /\ Emit(ext.op.cmd, "UNKNOWN")
  /\ UNCHANGED <<intent, now, cli, cmds, broker, host, world, signal, mails>>

(* Whatever the page replied, the outcome of a submission is UNKNOWN. *)
ExtReply ==
  /\ Doing("SUBMIT_ORDER", "sent") /\ tab.req = None
  /\ ext' = [ext EXCEPT !.op = None]
  /\ Emit(ext.op.cmd, "UNKNOWN")
  /\ UNCHANGED <<intent, now, cli, cmds, broker, host, world, signal, mails>>

(* The page shows this order; a link to its invoice is followed once. *)
ExtReconcile ==
  /\ Doing("RECONCILE_ORDER", "begun")
  /\ placed
  /\ cmds[ext.op.cmd].nonce # None
  /\ ext.journal # None => cmds[ext.op.cmd].nonce = ext.journal
  /\ \E outcome \in Found :
       /\ Emit(ext.op.cmd, outcome)
       /\ tab' = IF outcome = "ORDER_AND_LINK" /\ tab.doc < MaxDoc
                 THEN [doc |-> tab.doc + 1, used |-> {}, req |-> None] ELSE tab
  /\ ext' = [ext EXCEPT !.op = None, !.state = "ORDER"]
  /\ UNCHANGED <<intent, now, cli, cmds, broker, host, signal, clicks, placed, mails>>

(* current() no longer holds: nothing is said, unless the command ends in an *)
(* exception, which is reported on whatever connection there is.             *)
ExtDrops ==
  /\ ext.op # None /\ ~ext.op.live
  /\ ext.op.pc = "sent" => tab.req = None
  /\ ext' = [ext EXCEPT !.op = None]
  /\ \/ UNCHANGED wire
     \/ ext.op.pc # "sent" /\ Emit(ext.op.cmd, "UNKNOWN")
  /\ UNCHANGED <<intent, now, cli, cmds, broker, host, world, signal, mails>>

Paused(state) == IF state = "CHECKOUT_READY" THEN state ELSE "ORDER"

ExtDisconnected ==
  /\ ext.conn # 0 /\ host = "down"
  /\ ext' = [ext EXCEPT !.conn = 0, !.precheck = None, !.op = Stale(@),
                        !.state = Paused(@)]
  /\ wire' = [wire EXCEPT !.toExt = <<>>]
  /\ UNCHANGED <<intent, now, cli, cmds, broker, host, world, signal, mails>>

(* The worker is stopped and restored from storage; its port is gone. *)
ExtRestarts ==
  /\ ext.conn # 0 \/ ext.op # None
  /\ ext' = [ext EXCEPT !.conn = 0, !.precheck = None, !.op = None, !.state = Paused(@)]
  /\ wire' = [wire EXCEPT !.toExt = <<>>]
  /\ UNCHANGED <<intent, now, cli, cmds, broker, host, world, signal, mails>>

(* connectNative starts a host, which distrusts what it finds (disconnect),  *)
(* and attach reports the new connection to it.                              *)
Connect ==
  /\ ext.conn = 0 /\ host = "down"
  /\ broker.conn < MaxConn
  /\ Halt
  /\ broker' = [broker EXCEPT !.connected = TRUE, !.conn = @ + 1]
  /\ host' = "up"
  /\ ext' = [ext EXCEPT !.conn = broker.conn + 1]
  /\ wire' = [toExt |-> <<>>, toHost |-> <<>>]
  /\ UNCHANGED <<cli, world, signal, mails>>

-----------------------------------------------------------------------------
(* The page. *)

(* Mutant of TabClick: the permit is not looked at again. *)
TabClickLate ==
  /\ tab.req # None
  /\ tab.req.nonce \notin tab.used
  /\ tab' = [tab EXCEPT !.used = @ \cup {tab.req.nonce}, !.req = None]
  /\ clicks' = clicks + 1
  /\ UNCHANGED <<intent, now, cli, cmds, edge, signal, placed, mails>>

TabClick ==
  /\ tab.req # None
  /\ tab.req.nonce \notin tab.used
  /\ now < tab.req.expires
  /\ tab' = [tab EXCEPT !.used = @ \cup {tab.req.nonce}, !.req = None]
  /\ clicks' = clicks + 1
  /\ UNCHANGED <<intent, now, cli, cmds, edge, signal, placed, mails>>

TabRefuses ==
  /\ tab.req # None
  /\ tab' = [tab EXCEPT !.req = None]
  /\ UNCHANGED <<intent, now, cli, cmds, edge, signal, clicks, placed, mails>>

(* A new document knows no consumed permit, and no pending request. *)
Navigate ==
  /\ tab.doc < MaxDoc
  /\ tab' = [doc |-> tab.doc + 1, used |-> {}, req |-> None]
  /\ UNCHANGED <<intent, now, cli, cmds, edge, signal, clicks, placed, mails>>

MerchantAccepts ==
  /\ clicks > 0 /\ ~placed
  /\ placed' = TRUE
  /\ UNCHANGED <<intent, now, cli, cmds, edge, tab, signal, clicks, mails>>

Passes ==
  /\ Ledger!Tick
  /\ UNCHANGED <<cli, cmds, edge, world, signal, mails>>

Edge ==
  \/ NextCommand \/ ReceiveObservation \/ HostStops \/ HostKilled \/ HeartbeatLapses
  \/ Receive \/ ExtPrecheck \/ ExtUnverified \/ ExtJournal \/ ExtSend \/ ExtNotSent
  \/ ExtReply \/ ExtReconcile \/ ExtDrops \/ ExtDisconnected \/ ExtRestarts \/ Connect
  \/ TabClick \/ TabRefuses \/ Navigate \/ MerchantAccepts

Next ==
  \/ \E goal \in Goals : Start(goal)
  \/ Cli \/ Dies
  \/ Edge
  \/ SignalDisarm \/ ClearSignal \/ EnqueueDisarm
  \/ Passes

(* A cli that is alive goes on; everything else may stop for ever. *)
Spec == Init /\ [][Next]_vars /\ WF_vars(Cli)

-----------------------------------------------------------------------------
CliState == Waiting \cup {"idle", "dead", "arm", "issue", "assert", "unresolved",
                         "unsure", "search", "receipt", "notify", "mail", "sent"}
Process == [pc : CliState, goal : Goals \cup {None}, run : 0 .. MaxRuns, cmd : 0 .. MaxCmds,
            armed : Ledger!Time \cup {None}, permit : Permit \cup {None}]
Operation == [cmd : Cmd, pc : {"begun", "journaled", "sent"}, doc : 1 .. MaxDoc, live : BOOLEAN]
Reading == [id : Cmd, doc : 1 .. MaxDoc, at : Ledger!Time, conn : Conn]

(* The records hold what the programs may put into them. *)
TypeOK ==
  /\ Ledger!TypeOK
  /\ cli \in Process /\ cli.cmd <= Len(cmds)
  /\ cli.pc \notin {"idle", "dead"} => cli.run # 0
  /\ cmds \in Seq(Command) /\ Len(cmds) <= MaxCmds
  /\ broker \in [connected : BOOLEAN, conn : Conn \ {0}, disarm : BOOLEAN]
  /\ host \in {"up", "down"}
  /\ wire \in [toExt : Seq(0 .. MaxCmds),
              toHost : Seq([cmd : Cmd, outcome : Outcome, at : Ledger!Time \cup {None}])]
  /\ \A k \in DOMAIN wire.toExt : wire.toExt[k] <= Len(cmds)
  /\ \A k \in DOMAIN wire.toHost : wire.toHost[k].cmd <= Len(cmds)
  /\ ext \in [conn : Conn, state : {"CHECKOUT_READY", "ORDER", "DISARMED"},
             journal : 1 .. MaxRuns \cup {None}, nonces : SUBSET (1 .. MaxRuns),
             precheck : Reading \cup {None}, op : Operation \cup {None}]
  /\ ext.op # None => ext.op.cmd <= Len(cmds)
  /\ tab \in [doc : 1 .. MaxDoc, used : SUBSET (1 .. MaxRuns),
             req : [nonce : 1 .. MaxRuns, expires : Nat] \cup {None}]
  /\ signal \in BOOLEAN /\ placed \in BOOLEAN
  /\ clicks \in Nat /\ mails \in Nat

(* A click on Complete Order finds every layer above it prepared to refuse   *)
(* the next one: the ledger has the dispatch and its nonce, the extension    *)
(* has journaled that nonce durably, the queue holds the submission.         *)
EveryLayerRemembers ==
  clicks > 0 =>
    /\ row.submit # None /\ row.nonce # None
    /\ ext.journal = row.nonce /\ row.nonce \in ext.nonces
    /\ \E i \in DOMAIN cmds : cmds[i].type = "SUBMIT_ORDER" /\ cmds[i].nonce = row.nonce

(* A click happens once, not before the permit was issued and not after its  *)
(* longest life, on a precheck that was current when it was issued: neither  *)
(* timeouts nor restarts nor a slow page stretch it.                         *)
ClickWithinPermit ==
  [][clicks' > clicks =>
       /\ clicks = 0
       /\ row.submit <= now /\ now < row.submit + Fresh
       /\ row.precheck.at <= row.submit /\ row.submit - row.precheck.at <= Fresh]_vars

(* The answer to an exchange the cli gave up is never taken for a result:    *)
(* while the run that asked is alive, only the exchange it waits in ends     *)
(* DONE.                                                                     *)
AnswersAreAwaited ==
  [][\A i \in DOMAIN cmds :
       cmds[i].status # "DONE" /\ cmds'[i].status = "DONE" =>
         \/ cli.cmd = i
         \/ cli.pc = "dead" \/ cmds[i].run # cli.run]_vars

(* No run leaves a submission undecided: ORDER_SUBMITTING outlives the       *)
(* process that committed it only if that process died, until the next one.  *)
SubmittingIsOwned ==
  row.state = "ORDER_SUBMITTING" =>
    cli.pc \in {"assert", "submit", "unresolved", "unsure", "dead"}

(* One order is announced at most once, by whichever runs find it payable. *)
AnnouncedOnce == mails <= 1

(* A dispatch the ledger has committed and the host has not taken.           *)
Untaken ==
  /\ row.submit # None
  /\ \A i \in DOMAIN cmds : cmds[i].type = "SUBMIT_ORDER" => cmds[i].conn = 0

(* It is revoked for good by a DISARM the queue heard, by a lost connection  *)
(* (either leaves ORDER_UNCERTAIN) and by the end of the process.            *)
Revoked ==
  Untaken /\ (row.state # "ORDER_SUBMITTING" \/ cli.pc \in {"idle", "dead"})

(* A revocation is never undone, and never followed by a click.  The kill    *)
(* switch is only a file, which is read when the host takes the command and  *)
(* may be cleared before: it revokes as long as it stands and no longer.     *)
RevokedNeverClicks ==
  [][/\ Revoked => Revoked' /\ clicks' = 0
     /\ Untaken /\ signal /\ signal' => Untaken' /\ clicks' = 0]_vars

(* Every run comes to an end, whatever the host, the extension and the page  *)
(* fail to answer, unless the bound on commands keeps it from asking.        *)
RunEnds == [](Live => <>(~Live \/ Len(cmds) = MaxCmds))

(* What purchase.py says of recover(): a crash between the durable           *)
(* PAYMENT_READY and its notification is recoverable.                        *)
NoticeBeforeWaiting == row.state = "WAITING_FOR_USER" => mails > 0
=============================================================================
