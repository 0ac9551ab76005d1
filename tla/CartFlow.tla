------------------------------ MODULE CartFlow ------------------------------
(***************************************************************************)
(* One DRY_RUN from the product page to a verified checkout: the core's    *)
(* row and queue (CartBroker), the native host, the extension's controller *)
(* (service-worker.js), the page with its content script, the merchant's   *)
(* cart, and the user.                                                     *)
(*                                                                         *)
(* The controller is one thread with awaits.  pump is cut where it awaits  *)
(* a tab, a reading, a write to storage or the answer of the page, but not *)
(* at the write of a pause, nor of an answer that nothing was done; handle *)
(* where it awaits the write of the receipt and the new tab.  What the     *)
(* code compares by revision is kept as a flag that every bump clears.     *)
(* What is stored and what is in memory are one record, since each write   *)
(* follows its assignments without an await.  A document is what it is     *)
(* recognised as; its identity is kept as "still the same document".       *)
(***************************************************************************)
EXTENDS CartBroker

CONSTANTS
  Types,            (* the commands that are given                         *)
  MaxRebuilds,      (* MAX_CART_REBUILDS                                   *)
  MaxQuirks,        (* bound: what goes wrong or changes from outside      *)
  MaxEvents,        (* bound: events on the wire                           *)
  MayBeStale        (* bound: whether the merchant gives one stale answer  *)

VARIABLES
  host,                 (* the native host runs                            *)
  commands, events,     (* the wire: command numbers, events               *)
  active,               (* the controller's stored intent                  *)
  worker,               (* the controller's memory                         *)
  pump,                 (* where pump stands and what it has read          *)
  tab,                  (* document, navigation and request under way      *)
  cart,                 (* the merchant's side                             *)
  quirks

linkVars == <<host, commands, events>>
vars == <<coreVars, linkVars, active, worker, pump, tab, cart, quirks>>

ASSUME CartFlowAssumption ==
  /\ Types \subseteq Type
  /\ {MaxRebuilds, MaxQuirks, MaxEvents} \subseteq Nat
  /\ MayBeStale \in BOOLEAN

Terminal == {"CHECKOUT_READY", "CANCELLED"}
Resumable == {"WAITING_FOR_HUMAN", "PAUSED_DISCONNECTED", "PAUSED_RESTART", "PAUSED_UNCERTAIN", "DISARMED", "FAILED"}
Stage == {"PRODUCT", "CONFIGURATION", "CART", "CHECKOUT"}
Odd == {"CHALLENGE", "LOGIN", "UNKNOWN", "FOREIGN"}

(* MUTATIONS, with the page each is started from. *)
Mutation == [
  SELECT_PUBLIC_BILLING |-> [from |-> "PRODUCT", target |-> "PRODUCT", checkpoint |-> "PUBLIC_BILLING_SELECTED"],
  OPEN_CONFIGURATION |-> [from |-> "PRODUCT", target |-> "CONFIGURATION", checkpoint |-> "CONFIGURATION_OPENED"],
  CONFIGURE_PRODUCT |-> [from |-> "CONFIGURATION", target |-> "CONFIGURATION", checkpoint |-> "CONFIGURED"],
  ADD_TO_CART |-> [from |-> "CONFIGURATION", target |-> "CART", checkpoint |-> "CART_READY"],
  OPEN_CHECKOUT |-> [from |-> "CART", target |-> "CHECKOUT", checkpoint |-> "CHECKOUT_READY"]]
(* The mutation that pump makes at a checkpoint. *)
Following == [
  START |-> "SELECT_PUBLIC_BILLING", PUBLIC_BILLING_SELECTED |-> "OPEN_CONFIGURATION",
  CONFIGURATION_OPENED |-> "CONFIGURE_PRODUCT", CONFIGURED |-> "ADD_TO_CART", CART_READY |-> "OPEN_CHECKOUT"]
(* At these checkpoints the page is verified once more before the mutation. *)
Rechecked == {"PUBLIC_BILLING_SELECTED", "CONFIGURED", "CART_READY"}
(* ... and at these the first reading must already be of the right page.    *)
Guarded == {"START", "PUBLIC_BILLING_SELECTED", "CONFIGURATION_OPENED"}

(* A document: its stage and what it shows.  FINE is the expected product,  *)
(* with configuration_0 where there is an index; LATER another index.       *)
Document == [stage : Stage \cup Odd \cup {"CLOSED"},
             shows : {"FINE", "SOLD_OUT", "LATER", "EMPTY", "REVIEW", "LOGIN"}]
NoDocument == [stage |-> "CLOSED", shows |-> "FINE"]
NoJournal == [name |-> "NONE", status |-> "NONE"]
NoRequest == [name |-> "NONE", bound |-> "NONE", alive |-> FALSE]
IdlePump == [at |-> "IDLE", fresh |-> FALSE, here |-> FALSE, cmd |-> 0, page |-> NoDocument,
             again |-> NoDocument, same |-> FALSE, answer |-> "NONE"]

Init ==
  /\ CoreInit
  /\ host = FALSE /\ commands = <<>> /\ events = <<>>
  /\ active = [state |-> "NONE", checkpoint |-> "START", cmd |-> 0, tab |-> FALSE, journal |-> NoJournal,
               bound |-> "NONE", recheck |-> FALSE, empty |-> "NONE", rebuilds |-> 0, openOnly |-> FALSE]
  /\ worker = [on |-> FALSE, normal |-> FALSE, opening |-> "NO", hands |-> <<>>]
  /\ pump = IdlePump
  /\ tab = [doc |-> NoDocument, nav |-> "NONE", request |-> NoRequest, acted |-> FALSE]
  /\ cart = [items |-> 0, post |-> FALSE, stale |-> FALSE, posts |-> 0]
  /\ quirks = 0

-----------------------------------------------------------------------------
(* Sending and pausing. *)

Quirk == quirks < MaxQuirks /\ quirks' = quirks + 1

Event(kind, cmd) == [kind |-> kind, code |-> "NONE", cmd |-> cmd, uncertain |-> FALSE]
Opened(code) == [kind |-> "PAGE_OPENED", code |-> code, cmd |-> active.cmd, uncertain |-> FALSE]

(* event: nothing is sent without a port, and a dead host reads nothing. *)
Post(new) ==
  /\ Len(events) + Len(new) <= MaxEvents
  /\ events' = IF worker.on /\ host THEN events \o new ELSE events
  /\ UNCHANGED <<host, commands>>
Silent == UNCHANGED linkVars

Stale(hands) == [i \in DOMAIN hands |-> [hands[i] EXCEPT !.fresh = FALSE]]
(* The revision changes: what was read or received before it is void. *)
Bumped == [worker EXCEPT !.normal = FALSE, !.hands = Stale(@), !.opening = IF @ = "STORED" THEN "VOID" ELSE @]
Voided == [pump EXCEPT !.fresh = FALSE]

(* pause of a controller whose record became a; before is what it posted in the same step. *)
Pause(a, state, kind, before) ==
  /\ active' = [a EXCEPT !.state = state]
  /\ worker' = Bumped
  /\ Post(Append(before, [Event(kind, a.cmd) EXCEPT !.uncertain = a.journal.status = "DISPATCHED"]))

-----------------------------------------------------------------------------
(* The native host and the connection. *)

(* Bound: one cancellation and one disarm; a resume may be repeated. *)
EnqueueCommand(type) ==
  /\ type \in {"CANCEL_INTENT", "DISARM"} => \A k \in DOMAIN queue : queue[k].type # type
  /\ Enqueue(type)
  /\ UNCHANGED <<linkVars, active, worker, pump, tab, cart, quirks>>

HostSends(k) ==
  /\ host
  /\ Dispatch(k)
  /\ commands' = Append(commands, k)
  /\ UNCHANGED <<host, events, active, worker, pump, tab, cart, quirks>>

(* An event that the broker refuses ends the host. *)
HostTakes ==
  /\ host
  /\ events # <<>>
  /\ IF Accepts(Head(events))
     THEN /\ Take(Head(events))
          /\ events' = Tail(events)
          /\ UNCHANGED <<host, commands>>
     ELSE /\ Disconnect
          /\ host' = FALSE /\ commands' = <<>> /\ events' = <<>>
  /\ UNCHANGED <<active, worker, pump, tab, cart, quirks>>

(* The host ends in order (a signal, end of file, heartbeat lost), or is killed and leaves the rows as they are. *)
HostEnds ==
  /\ host
  /\ worker.on => Quirk
  /\ ~worker.on => UNCHANGED quirks
  /\ Disconnect \/ UNCHANGED coreVars
  /\ host' = FALSE /\ commands' = <<>> /\ events' = <<>>
  /\ UNCHANGED <<active, worker, pump, tab, cart>>

(* connectNative starts a host, which first disconnects what it finds; attach posts EDGE_READY. *)
Connect ==
  /\ ~host
  /\ ~worker.on
  /\ Disconnect
  /\ host' = TRUE /\ commands' = <<>> /\ events' = <<Event("READY", 0)>>
  /\ worker' = [worker EXCEPT !.on = TRUE]
  /\ UNCHANGED <<active, pump, tab, cart, quirks>>

(* disconnected: the port closes under the controller. *)
LosePort ==
  /\ worker.on
  /\ ~host
  /\ worker' = [Bumped EXCEPT !.on = FALSE]
  /\ active' = IF active.state \in Terminal \cup {"NONE"} THEN active ELSE [active EXCEPT !.state = "PAUSED_DISCONNECTED"]
  /\ pump' = Voided
  /\ UNCHANGED <<coreVars, linkVars, tab, cart, quirks>>

(* The browser stops the worker: memory is gone, restore pauses the intent, and the host meets the end of its input. *)
WorkerRestarts ==
  /\ Quirk
  /\ worker' = [on |-> FALSE, normal |-> FALSE, opening |-> "NO", hands |-> <<>>]
  /\ active' = IF active.state \in Terminal \cup {"NONE"} THEN active ELSE [active EXCEPT !.state = "PAUSED_RESTART"]
  /\ pump' = IdlePump
  /\ commands' = <<>>
  /\ UNCHANGED <<coreVars, host, events, tab, cart>>

-----------------------------------------------------------------------------
(* handle: the receipt is stored, then the command acts if no revision came in between. *)

Receive ==
  /\ worker.on
  /\ commands # <<>>
  /\ commands' = Tail(commands)
  /\ worker' = [worker EXCEPT !.hands = Append(@, [cmd |-> Head(commands), fresh |-> TRUE])]
  /\ UNCHANGED <<coreVars, host, events, active, pump, tab, cart, quirks>>

Hand == Head(worker.hands)
Due == worker.hands # <<>>
Done(w) == [w EXCEPT !.hands = Tail(@)]
Commanded(type) == Due /\ Hand.fresh /\ queue[Hand.cmd].type = type
Reject == Post(<<Event("FAILED", Hand.cmd)>>) /\ worker' = Done(worker) /\ UNCHANGED <<active, pump>>

(* COMMAND_CONTEXT_CHANGED: nothing is done and nothing is answered. *)
DropCommand ==
  /\ Due
  /\ ~Hand.fresh
  /\ worker' = Done(worker)
  /\ UNCHANGED <<coreVars, linkVars, active, pump, tab, cart, quirks>>

ActOnDisarm ==
  /\ Commanded("DISARM")
  /\ active' = IF active.state \in Terminal \cup {"NONE"} THEN active ELSE [active EXCEPT !.state = "DISARMED"]
  /\ worker' = Done(Bumped)
  /\ pump' = Voided
  /\ Post(<<Event("READY", Hand.cmd)>>)
  /\ UNCHANGED <<coreVars, tab, cart, quirks>>

ActOnCancel ==
  /\ Commanded("CANCEL_INTENT")
  /\ IF active.state = "NONE" THEN Reject
     ELSE /\ active' = [active EXCEPT !.state = "CANCELLED", !.cmd = Hand.cmd]
          /\ worker' = Done([Bumped EXCEPT !.normal = worker.normal])
          /\ pump' = Voided
          /\ Post(<<[Event("FAILED", Hand.cmd) EXCEPT !.code = "CANCELLED"]>>)
  /\ UNCHANGED <<coreVars, tab, cart, quirks>>

ActOnResume ==
  /\ Commanded("RESUME_INTENT")
  /\ IF active.state \notin Resumable \/ ~worker.normal THEN Reject
     ELSE /\ active' = [active EXCEPT !.state = "RUNNING", !.cmd = Hand.cmd,
                          !.recheck = active.checkpoint = "CART_READY", !.empty = "NONE"]
          /\ worker' = Done([Bumped EXCEPT !.normal = worker.normal])
          /\ pump' = Voided
          /\ Silent
  /\ UNCHANGED <<coreVars, tab, cart, quirks>>

(* A new intent, or the start of one that was only opened. *)
ActOnStart(type) ==
  /\ Commanded(type)
  /\ IF active.state = "NONE"
     THEN /\ active' = [active EXCEPT !.state = "RUNNING", !.cmd = Hand.cmd, !.openOnly = type = "OPEN_PRODUCT"]
          /\ worker' = [Done(Bumped) EXCEPT !.opening = "STORED"]
          /\ pump' = Voided
          /\ Silent
     ELSE IF type = "START_DRY_RUN" /\ active.state = "OPENED" /\ active.journal = NoJournal
     THEN /\ active' = [active EXCEPT !.state = "RUNNING", !.cmd = Hand.cmd, !.openOnly = FALSE]
          /\ worker' = Done([Bumped EXCEPT !.normal = worker.normal])
          /\ pump' = Voided
          /\ Silent
     ELSE Reject
  /\ UNCHANGED <<coreVars, tab, cart, quirks>>

(* tabs.create is called if the new intent still stands once it is stored; *)
(* its tab is taken, or its failure pauses, whatever came in between.       *)
CreateTab ==
  /\ worker.opening \in {"STORED", "VOID"}
  /\ worker' = [worker EXCEPT !.opening = IF @ = "STORED" THEN "CREATING" ELSE "NO"]
  /\ UNCHANGED <<coreVars, linkVars, active, pump, tab, cart, quirks>>

TabArrives ==
  /\ worker.opening = "CREATING"
  /\ active' = [active EXCEPT !.tab = TRUE]
  /\ tab' = [tab EXCEPT !.doc = [stage |-> "UNKNOWN", shows |-> "FINE"], !.nav = "PRODUCT"]
  /\ worker' = [worker EXCEPT !.opening = "NO"]
  /\ UNCHANGED <<coreVars, linkVars, pump, cart, quirks>>

TabFails ==
  /\ worker.opening = "CREATING"
  /\ Quirk
  /\ active' = [active EXCEPT !.state = "FAILED"]
  /\ worker' = [Bumped EXCEPT !.opening = "NO"]
  /\ Post(<<Event("FAILED", active.cmd)>>)
  /\ pump' = Voided
  /\ UNCHANGED <<coreVars, tab, cart>>

-----------------------------------------------------------------------------
(* pump. *)

PumpEnds == pump' = IdlePump
PumpPauses(a, state, kind, before) == Pause(a, state, kind, before) /\ PumpEnds
KeepsOn == UNCHANGED <<active, worker>>

(* pump begins with a look at the tab: it waits for a page that loads,     *)
(* pauses on another site or a closed tab, and reads everything else.      *)
PumpBegins ==
  /\ pump.at = "IDLE"
  /\ worker.on
  /\ active.tab
  /\ active.state \notin Terminal
  /\ CASE tab.doc.stage = "FOREIGN" /\ tab.nav = "NONE" ->
            /\ active.state # "FAILED"
            /\ PumpPauses(active, "FAILED", "SITE_CHANGED", <<>>)
       [] tab.doc.stage = "CLOSED" -> PumpPauses(active, "PAUSED_UNCERTAIN", "FAILED", <<>>)
       [] OTHER ->
            /\ tab.doc.stage # "FOREIGN"
            /\ pump' = [IdlePump EXCEPT !.at = "READ", !.fresh = TRUE, !.here = TRUE, !.cmd = active.cmd, !.page = tab.doc]
            /\ KeepsOn /\ Silent
  /\ UNCHANGED <<coreVars, tab, cart, quirks>>

(* After every await: what was read or sent under an older revision is dropped. *)
PumpDrops ==
  /\ pump.at \in {"READ", "AGAIN", "STORED", "ANSWERED", "REPORT"}
  /\ ~pump.fresh
  /\ ~(pump.at = "REPORT" /\ pump.answer = "VERIFIED")
  /\ PumpEnds
  /\ UNCHANGED <<coreVars, linkVars, active, worker, tab, cart, quirks>>

(* A paused controller only observes, and reports a normal page once. *)
PumpObserves ==
  /\ pump.at = "READ"
  /\ pump.fresh
  /\ active.state \notin {"RUNNING", "OPENED"}
  /\ IF pump.page.stage \in Stage /\ ~worker.normal
     THEN worker' = [worker EXCEPT !.normal = TRUE] /\ Post(<<Opened("NONE")>>)
     ELSE UNCHANGED worker /\ Silent
  /\ PumpEnds
  /\ UNCHANGED <<coreVars, active, tab, cart, quirks>>

(* The second reading, of whatever document is there now. *)
ReadAgain == [pump EXCEPT !.at = "AGAIN", !.again = tab.doc, !.here = TRUE, !.same = active.empty = "HERE"]
(* mutate: the journal is stored before the page hears of it. *)
Stores(a, name) ==
  /\ active' = [a EXCEPT !.journal = [name |-> name, status |-> "DISPATCHED"]]
  /\ pump' = [pump EXCEPT !.at = "STORED"]

PumpDecides ==
  /\ pump.at = "READ"
  /\ pump.fresh
  /\ active.state \in {"RUNNING", "OPENED"}
  /\ LET stage == pump.page.stage
         report == <<Opened("NONE")>>
         refuse(state) == PumpPauses(active, state, "SITE_CHANGED", report)
         again == pump' = ReadAgain /\ Post(report) /\ KeepsOn
         name == Following[active.checkpoint]
     IN IF stage \in {"CHALLENGE", "LOGIN"} THEN PumpPauses(active, "WAITING_FOR_HUMAN", "HUMAN", <<>>)
        ELSE IF active.openOnly THEN active' = [active EXCEPT !.state = "OPENED"] /\ PumpEnds /\ Post(report) /\ UNCHANGED worker
        ELSE IF active.recheck
        THEN IF active.bound # "NONE" /\ stage \in {"CART", "CHECKOUT"} THEN again ELSE refuse("PAUSED_UNCERTAIN")
        ELSE IF active.journal.status = "DISPATCHED"
        THEN IF stage = Mutation[active.journal.name].target THEN again ELSE refuse("PAUSED_UNCERTAIN")
        ELSE IF active.checkpoint = "CHECKOUT_READY" THEN refuse("FAILED")
        ELSE IF active.checkpoint \in Guarded /\ stage # Mutation[name].from THEN refuse("FAILED")
        ELSE IF active.checkpoint \in Rechecked THEN again
        ELSE Stores(active, name) /\ Post(report) /\ UNCHANGED worker
  /\ UNCHANGED <<coreVars, tab, cart, quirks>>

-----------------------------------------------------------------------------
(* What a second reading decides. *)

Index(doc) == CASE doc.shows = "FINE" -> "FIRST" [] doc.shows = "LATER" -> "LATER" [] OTHER -> "NONE"
(* verifyProduct, verifyCart, verifyCheckout: stage, contents and, once it is bound, the index. *)
Verified(doc, stage) ==
  /\ doc.stage = stage
  /\ Index(doc) # "NONE"
  /\ active.bound = "NONE" \/ stage = "CHECKOUT" \/ Index(doc) = active.bound
NeedsHuman(doc) == doc.stage \in {"CHALLENGE", "LOGIN"} \/ doc.shows = "LOGIN"

(* What is stored before it is reported: the step after the write does it. *)
Reports(a, what) ==
  /\ active' = a
  /\ pump' = [pump EXCEPT !.at = "REPORT", !.answer = what]
  /\ UNCHANGED worker /\ Silent

(* Mutant of VerifiesMutation: a result that is not there yet is waited for. *)
VerifiesMutationPatiently ==
  LET m == Mutation[active.journal.name]
      verified == [active EXCEPT
        !.journal.status = "VERIFIED", !.checkpoint = m.checkpoint,
        !.bound = IF active.journal.name = "OPEN_CONFIGURATION" THEN Index(pump.again) ELSE @]
  IN IF Verified(pump.again, m.target) THEN Reports(verified, "VERIFIED")
     ELSE PumpEnds /\ KeepsOn /\ Silent

(* verifyMutation. *)
VerifiesMutation ==
  LET m == Mutation[active.journal.name]
      verified == [active EXCEPT
        !.journal.status = "VERIFIED", !.checkpoint = m.checkpoint,
        !.bound = IF active.journal.name = "OPEN_CONFIGURATION" THEN Index(pump.again) ELSE @]
  IN IF Verified(pump.again, m.target) THEN Reports(verified, "VERIFIED")
     ELSE PumpPauses(active, "PAUSED_UNCERTAIN", "SITE_CHANGED", <<>>)

(* Mutant of ResumesCart: the first empty document is believed. *)
ResumesCartAtOnce ==
  LET stage == pump.page.stage
      kept == [active EXCEPT !.journal = NoJournal, !.recheck = FALSE, !.empty = "NONE"]
  IN CASE Verified(pump.again, stage) -> Reports(kept, "KEPT")
       [] stage = "CART" /\ pump.again = [stage |-> "CART", shows |-> "EMPTY"] /\ active.rebuilds < MaxRebuilds ->
            Reports([kept EXCEPT !.rebuilds = @ + 1, !.checkpoint = "START", !.bound = "NONE"], "REBUILT")
       [] OTHER -> PumpPauses(active, "PAUSED_UNCERTAIN", "SITE_CHANGED", <<>>)

(* Mutant of ResumesCart: a checkout is taken over with its open journal. *)
ResumesCartOpen ==
  LET stage == pump.page.stage
      kept == [active EXCEPT !.recheck = FALSE, !.empty = "NONE"]
  IN IF Verified(pump.again, stage)
     THEN Reports(IF stage = "CHECKOUT" THEN [kept EXCEPT !.checkpoint = "CHECKOUT_READY"] ELSE kept, "KEPT")
     ELSE PumpPauses(active, "PAUSED_UNCERTAIN", "SITE_CHANGED", <<>>)

(* resumeCart: a cart that is there is kept; one that two documents showed *)
(* empty is built again from the start, a limited number of times.         *)
ResumesCart ==
  LET stage == pump.page.stage
      emptied == stage = "CART" /\ pump.again = [stage |-> "CART", shows |-> "EMPTY"]
      kept == [active EXCEPT !.journal = NoJournal, !.recheck = FALSE, !.empty = "NONE"]
      ready == [kept EXCEPT !.checkpoint = "CHECKOUT_READY", !.state = "CHECKOUT_READY"]
      rebuilt == [kept EXCEPT !.rebuilds = @ + 1, !.checkpoint = "START", !.bound = "NONE"]
  IN CASE Verified(pump.again, stage) -> Reports(IF stage = "CHECKOUT" THEN ready ELSE kept, "KEPT")
       [] emptied /\ active.empty = "NONE" ->
            Reports([active EXCEPT !.empty = IF pump.here THEN "HERE" ELSE "GONE"], "EMPTY")
       [] emptied /\ active.empty # "NONE" /\ ~pump.same /\ active.rebuilds < MaxRebuilds -> Reports(rebuilt, "REBUILT")
       [] OTHER -> PumpPauses(active, "PAUSED_UNCERTAIN", "SITE_CHANGED", <<>>)

(* The report and the navigation after the write.  Only verifyMutation does *)
(* not look at the revision again.                                          *)
PumpReports ==
  /\ pump.at = "REPORT"
  /\ pump.answer = "VERIFIED" \/ pump.fresh
  /\ CASE pump.answer \in {"EMPTY", "REBUILT"} ->
            /\ Post(<<Opened(IF pump.answer = "REBUILT" THEN "REBUILDING" ELSE "NONE")>>)
            /\ tab' = [tab EXCEPT !.nav = IF pump.answer = "REBUILT" THEN "PRODUCT" ELSE "CART"]
            /\ UNCHANGED active
       [] active.checkpoint \in {"CART_READY", "CHECKOUT_READY"} /\ pump.answer \in {"VERIFIED", "KEPT"} ->
            /\ Post(<<Event(active.checkpoint, active.cmd)>>)
            /\ active' = IF active.checkpoint = "CHECKOUT_READY" THEN [active EXCEPT !.state = "CHECKOUT_READY"] ELSE active
            /\ UNCHANGED tab
       [] OTHER -> Silent /\ UNCHANGED <<active, tab>>
  /\ PumpEnds
  /\ UNCHANGED <<coreVars, worker, cart, quirks>>

(* The recheck of a page before the next mutation is made. *)
GoesOn ==
  LET name == Following[active.checkpoint] IN
  IF Verified(pump.again, Mutation[name].from)
  THEN /\ Stores(active, name)
       /\ Post(IF name = "ADD_TO_CART" THEN <<Event("PRODUCT_VERIFIED", active.cmd)>> ELSE <<>>)
       /\ UNCHANGED worker
  ELSE PumpPauses(active, "FAILED", "SITE_CHANGED", <<>>)

PumpVerifies ==
  /\ pump.at = "AGAIN"
  /\ pump.fresh
  /\ IF NeedsHuman(pump.again) THEN PumpPauses(active, "WAITING_FOR_HUMAN", "HUMAN", <<>>)
     ELSE IF pump.again.stage \in {"CLOSED", "FOREIGN"} THEN PumpPauses(active, "PAUSED_UNCERTAIN", "FAILED", <<>>)
     ELSE IF active.recheck THEN ResumesCart
     ELSE IF active.journal.status = "DISPATCHED" THEN VerifiesMutation
     ELSE GoesOn
  /\ UNCHANGED <<coreVars, tab, cart, quirks>>

(* Mutant of PumpSends: nothing is compared after the write. *)
PumpSendsAnyway ==
  /\ pump.at = "STORED"
  /\ tab.request = NoRequest
  /\ tab' = [tab EXCEPT !.request = [name |-> active.journal.name, bound |-> active.bound, alive |-> pump.here]]
  /\ pump' = [pump EXCEPT !.at = "SENT"]
  /\ UNCHANGED <<coreVars, linkVars, active, worker, cart, quirks>>

(* The stored mutation is sent to the document that was read last. *)
PumpSends ==
  /\ pump.at = "STORED"
  /\ pump.fresh
  /\ active.state = "RUNNING"
  /\ tab.request = NoRequest
  /\ tab' = [tab EXCEPT !.request = [name |-> active.journal.name, bound |-> active.bound, alive |-> pump.here]]
  /\ pump' = [pump EXCEPT !.at = "SENT"]
  /\ UNCHANGED <<coreVars, linkVars, active, worker, cart, quirks>>

(* Only an answer that proves that nothing was done releases the journal. *)
PumpHears ==
  /\ pump.at = "ANSWERED"
  /\ pump.fresh
  /\ LET released == [active EXCEPT !.journal.status = "NOT_APPLIED"] IN
     CASE pump.answer = "NONE" -> PumpEnds /\ KeepsOn /\ Silent
       [] pump.answer = "UNKNOWN" -> PumpPauses(active, "PAUSED_UNCERTAIN", "SITE_CHANGED", <<>>)
       [] pump.answer = "HUMAN" -> PumpPauses(released, "WAITING_FOR_HUMAN", "HUMAN", <<>>)
       [] pump.answer = "REFUSED" -> PumpPauses(released, "PAUSED_UNCERTAIN", "SITE_CHANGED", <<>>)
       [] pump.answer = "SOLD_OUT" -> PumpPauses(released, "PAUSED_UNCERTAIN", "SOLD_OUT", <<>>)
  /\ UNCHANGED <<coreVars, tab, cart, quirks>>

-----------------------------------------------------------------------------
(* The content script and the adapter: one request, checked again in the page. *)

Evidence(r) ==
  CASE r.name = "SELECT_PUBLIC_BILLING" -> tab.doc.stage = "PRODUCT"
    [] r.name = "OPEN_CONFIGURATION" -> tab.doc = [stage |-> "PRODUCT", shows |-> "FINE"]
    [] r.name = "CONFIGURE_PRODUCT" -> tab.doc.stage = "CONFIGURATION" /\ Index(tab.doc) = r.bound
    [] r.name = "ADD_TO_CART" ->
         tab.doc.stage = "CONFIGURATION" /\ Index(tab.doc) = r.bound /\ r.bound = "FIRST"
    [] r.name = "OPEN_CHECKOUT" -> tab.doc.stage = "CART" /\ Index(tab.doc) = r.bound

Refusal == IF tab.doc.stage = "CHALLENGE" THEN "HUMAN" ELSE IF tab.doc.shows = "SOLD_OUT" THEN "SOLD_OUT" ELSE "REFUSED"
Answer(text) == IF pump.at = "SENT" THEN [pump EXCEPT !.at = "ANSWERED", !.answer = text] ELSE pump

Navigates(r) == Mutation[r.name].from # Mutation[r.name].target

(* A document leaves once: a second attempt is answered, with no word on what the first one did. *)
PageActs ==
  /\ tab.request # NoRequest
  /\ tab.request.alive
  /\ LET r == tab.request
         done == [tab EXCEPT !.request = NoRequest]
     IN CASE ~Evidence(r) -> tab' = done /\ pump' = Answer(Refusal) /\ UNCHANGED cart
          [] Evidence(r) /\ ~Navigates(r) -> tab' = done /\ pump' = Answer("NONE") /\ UNCHANGED cart
          [] Evidence(r) /\ Navigates(r) /\ tab.acted -> tab' = done /\ pump' = Answer("UNKNOWN") /\ UNCHANGED cart
          [] OTHER ->
               /\ tab' = [done EXCEPT !.nav = Mutation[r.name].target, !.acted = TRUE]
               /\ cart' = IF r.name = "ADD_TO_CART" THEN [cart EXCEPT !.post = TRUE, !.posts = @ + 1] ELSE cart
               /\ pump' = Answer("NONE")
  /\ UNCHANGED <<coreVars, linkVars, active, worker, quirks>>

(* The document is gone: the channel closes without an answer. *)
RequestLost ==
  /\ tab.request # NoRequest
  /\ ~tab.request.alive
  /\ tab' = [tab EXCEPT !.request = NoRequest]
  /\ pump' = Answer("NONE")
  /\ UNCHANGED <<coreVars, linkVars, active, worker, cart, quirks>>

-----------------------------------------------------------------------------
(* The merchant, the tab and the user (external). *)

(* A new document: everything that was bound to the old one is cut off. *)
NewDocument(doc) ==
  [doc |-> doc, nav |-> "NONE", acted |-> FALSE,
   request |-> IF tab.request = NoRequest THEN NoRequest ELSE [tab.request EXCEPT !.alive = FALSE]]
Shows(doc) ==
  /\ tab' = NewDocument(doc)
  /\ pump' = [pump EXCEPT !.here = FALSE]
  /\ active' = [active EXCEPT !.empty = IF @ = "HERE" THEN "GONE" ELSE @]
  /\ UNCHANGED <<coreVars, linkVars, worker>>

(* What the merchant shows: the cart as it is, and a configuration under any index. *)
Lands(target) ==
  CASE target = "CONFIGURATION" -> {"FINE", "LATER"}
    [] target = "CART" -> IF cart.items = 0 THEN {"EMPTY"} ELSE IF cart.items = 1 THEN {"FINE"} ELSE {"REVIEW"}
    [] OTHER -> {"FINE"}

Loads ==
  /\ tab.nav # "NONE"
  /\ LET target == IF tab.nav = "CHECKOUT" /\ cart.items = 0 THEN "CART" ELSE tab.nav IN
     \E shows \in Lands(target) : Shows([stage |-> target, shows |-> shows])
  /\ UNCHANGED <<cart, quirks>>

(* A challenge, a login, an error or another site instead; sold out; a login at the checkout. *)
LoadsOddly ==
  /\ tab.nav # "NONE"
  /\ Quirk
  /\ \/ \E stage \in Odd : Shows([stage |-> stage, shows |-> "FINE"])
     \/ tab.nav = "PRODUCT" /\ Shows([stage |-> "PRODUCT", shows |-> "SOLD_OUT"])
     \/ tab.nav = "CHECKOUT" /\ Shows([stage |-> "CHECKOUT", shows |-> "LOGIN"])
  /\ UNCHANGED cart

(* One stale answer that looks empty, which the two readings are made for; *)
(* it is not counted as a quirk.                                           *)
LoadsStale ==
  /\ tab.nav = "CART"
  /\ cart.items > 0
  /\ MayBeStale /\ ~cart.stale
  /\ Shows([stage |-> "CART", shows |-> "EMPTY"])
  /\ cart' = [cart EXCEPT !.stale = TRUE]
  /\ UNCHANGED quirks

(* The merchant works on a submitted form when it likes; it may refuse it. *)
TakesPost ==
  /\ cart.post
  /\ cart' = [cart EXCEPT !.post = FALSE, !.items = @ + 1]
  /\ UNCHANGED <<coreVars, linkVars, active, worker, pump, tab, quirks>>

RefusesPost ==
  /\ cart.post
  /\ Quirk
  /\ cart' = [cart EXCEPT !.post = FALSE]
  /\ UNCHANGED <<coreVars, linkVars, active, worker, pump, tab>>

CartIsLost ==
  /\ cart.items > 0
  /\ Quirk
  /\ cart' = [cart EXCEPT !.items = 0]
  /\ UNCHANGED <<coreVars, linkVars, active, worker, pump, tab>>

(* The page changes under the reader: an overlay, or a product that sells out. *)
PageChanges ==
  /\ tab.doc.stage \in Stage
  /\ Quirk
  /\ \/ tab' = [tab EXCEPT !.doc.stage = "CHALLENGE"]
     \/ tab.doc = [stage |-> "PRODUCT", shows |-> "FINE"] /\ tab' = [tab EXCEPT !.doc.shows = "SOLD_OUT"]
  /\ UNCHANGED <<coreVars, linkVars, active, worker, pump, cart>>

(* The user goes to a page of the merchant: to get past an odd one, or just so. *)
UserGoesTo(stage) ==
  /\ active.tab
  /\ tab.doc.stage # "CLOSED"
  /\ tab.nav = "NONE"
  /\ IF tab.doc.stage \in Odd \/ tab.doc.shows # "FINE" THEN UNCHANGED quirks ELSE Quirk
  /\ tab' = [tab EXCEPT !.nav = stage]
  /\ UNCHANGED <<coreVars, linkVars, active, worker, pump, cart>>

(* onRemoved. *)
UserClosesTab ==
  /\ active.tab
  /\ tab.doc.stage # "CLOSED"
  /\ Quirk
  /\ tab' = NewDocument(NoDocument)
  /\ IF active.state \in Terminal
     THEN pump' = [pump EXCEPT !.here = FALSE] /\ KeepsOn /\ Silent
     ELSE pump' = [Voided EXCEPT !.here = FALSE] /\ Pause(active, "PAUSED_UNCERTAIN", "FAILED", <<>>)
  /\ UNCHANGED <<coreVars, cart>>

-----------------------------------------------------------------------------

Handle == Receive \/ DropCommand \/ ActOnDisarm \/ ActOnCancel \/ ActOnResume
          \/ (\E type \in Starting : ActOnStart(type)) \/ CreateTab \/ TabArrives
Pump == PumpBegins \/ PumpDrops \/ PumpObserves \/ PumpDecides \/ PumpVerifies
        \/ PumpReports \/ PumpSends \/ PumpHears
Page == PageActs \/ RequestLost
Environment == LoadsOddly \/ LoadsStale \/ TakesPost \/ RefusesPost \/ CartIsLost \/ PageChanges
               \/ TabFails \/ UserClosesTab \/ \E stage \in Stage : UserGoesTo(stage)

Next ==
  \/ \E type \in Types : EnqueueCommand(type)
  \/ \E k \in DOMAIN queue : HostSends(k)
  \/ HostTakes \/ HostEnds \/ Connect \/ LosePort \/ WorkerRestarts
  \/ Handle \/ Pump \/ Page \/ Loads \/ Environment

Spec == Init /\ [][Next]_vars

(* The interval calls pump again and again, a write to storage and the new  *)
(* tab come or fail, the page answers or its channel closes, a page load    *)
(* ends, the host reads its input, and the port of a dead host closes.      *)
FairSpec ==
  /\ Spec
  /\ WF_vars(Pump) /\ WF_vars(Handle \/ TabFails)
  /\ WF_vars(Page) /\ WF_vars(Loads)
  /\ WF_vars(HostTakes) /\ WF_vars(LosePort)

-----------------------------------------------------------------------------
(* What the records of the flow hold. *)
Journal == {NoJournal} \cup [name : DOMAIN Mutation, status : {"DISPATCHED", "VERIFIED", "NOT_APPLIED"}]
Bound == {"NONE", "FIRST", "LATER"}
Controller == [
  state : Resumable \cup Terminal \cup {"NONE", "RUNNING", "OPENED"},
  checkpoint : DOMAIN Following \cup {"CHECKOUT_READY"}, cmd : 0 .. MaxCommands, tab : BOOLEAN,
  journal : Journal, bound : Bound, recheck : BOOLEAN, empty : {"NONE", "HERE", "GONE"},
  rebuilds : 0 .. MaxRebuilds, openOnly : BOOLEAN]
Memory == [on : BOOLEAN, normal : BOOLEAN, opening : {"NO", "STORED", "VOID", "CREATING"},
           hands : Seq([cmd : 1 .. MaxCommands, fresh : BOOLEAN])]
Round == [
  at : {"IDLE", "READ", "AGAIN", "STORED", "SENT", "ANSWERED", "REPORT"},
  fresh : BOOLEAN, here : BOOLEAN, cmd : 0 .. MaxCommands, page : Document, again : Document, same : BOOLEAN,
  answer : {"NONE", "UNKNOWN", "HUMAN", "REFUSED", "SOLD_OUT", "VERIFIED", "KEPT", "EMPTY", "REBUILT"}]
Request == {NoRequest} \cup [name : DOMAIN Mutation, bound : Bound, alive : BOOLEAN]
Tab == [doc : Document, nav : Stage \cup {"NONE"}, request : Request, acted : BOOLEAN]
Merchant == [items : Nat, post : BOOLEAN, stale : BOOLEAN, posts : Nat]
(* A note of a rebuild or of a cancellation has its own kind of event. *)
Sendable == {m \in CoreEvent : /\ m.code = "REBUILDING" => m.kind = "PAGE_OPENED"
                               /\ m.code = "CANCELLED" => m.kind = "FAILED"}

TypeOK ==
  /\ CoreTypeOK
  /\ host \in BOOLEAN
  /\ commands \in Seq(1 .. MaxCommands)
  /\ events \in Seq(Sendable)
  /\ active \in Controller /\ worker \in Memory /\ pump \in Round
  /\ tab \in Tab /\ cart \in Merchant
  /\ quirks \in Nat

(* The configuration form is never submitted into a cart that already holds *)
(* the product, nor while an earlier submission may still arrive: not after *)
(* a lost answer, a restart, a stale page or a resume.  Every submission    *)
(* but the first has a rebuild of its own, counted and stored before it.    *)
AddedOnce ==
  [][cart'.posts > cart.posts =>
       cart.items = 0 /\ ~cart.post /\ cart.posts <= active.rebuilds]_vars

(* A mutation is sent for the command under which its page was read: what   *)
(* was read before a DISARM, a pause or a lost connection does not act      *)
(* under the command that resumes.                                          *)
ActsForItsCommand ==
  [][tab.request = NoRequest /\ tab'.request # NoRequest =>
       active.state = "RUNNING" /\ active.cmd = pump.cmd]_vars

(* The core calls ready only what the controller has verified: a cart that  *)
(* was submitted, a checkout, and no mutation of unknown outcome with it.   *)
CoreTrustsVerified ==
  /\ row.state \in {"CART_READY", "CHECKOUT_READY"} => cart.posts > 0
  /\ row.state = "CHECKOUT_READY" => active.checkpoint = "CHECKOUT_READY"
  /\ row.edge = "CHECKOUT_READY" => active.journal.status # "DISPATCHED"

(* An intent that the core released as read-only has changed nothing at the *)
(* merchant, and nothing is on its way that could: a worker that has only   *)
(* disarms in its hands, and a tab without a request.                       *)
ReleasedUntouched ==
  row.state = "ABORTED" =>
    /\ cart.posts = 0 /\ active.journal = NoJournal /\ tab.request = NoRequest
    /\ \A k \in DOMAIN worker.hands : queue[worker.hands[k].cmd].type = "DISARM"

(* A run comes to rest: at a checkout, a pause or an open page.             *)
RunSettles == active.state = "RUNNING" ~> active.state # "RUNNING"

(* "New writes stop an active run": a DISARM that the worker has dealt with *)
(* leaves no run.                                                           *)
DisarmStopsTheRun ==
  [][Due /\ queue[Hand.cmd].type = "DISARM" /\ Len(worker'.hands) < Len(worker.hands) => active'.state # "RUNNING"]_vars

=============================================================================
