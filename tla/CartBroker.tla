----------------------------- MODULE CartBroker -----------------------------
(***************************************************************************)
(* The core's side of the cart flow (edge/broker.py): the edge columns of  *)
(* one intent's row, the durable queue of commands, and what each event of *)
(* the extension may do to them.  Every operation is one transaction.  An  *)
(* event that is refused raises ProtocolError, which ends the native host: *)
(* all it leaves behind is a Disconnect.                                   *)
(*                                                                         *)
(* A command is its place in the queue.  The product, the tab and the cart *)
(* of the messages are those of the one intent; order commands, PING and   *)
(* the notices are left out (OrderSubmission has the first).               *)
(***************************************************************************)
EXTENDS Naturals, Sequences

CONSTANT MaxCommands        (* bound: commands ever put into the queue     *)

ASSUME CommandsAssumption == MaxCommands \in Nat

VARIABLES
  row,        (* the intent's row in purchase_intents                      *)
  queue,      (* edge_commands in the order of rowid                       *)
  open        (* edge_transport_state.connected                            *)

coreVars == <<row, queue, open>>

Paused == {"WAITING_FOR_HUMAN", "DISCONNECTED", "DISARMED", "FAILED", "SITE_CHANGED"}
Finished == {"CHECKOUT_READY", "CANCELLED", "SOLD_OUT"}
Starting == {"OPEN_PRODUCT", "START_DRY_RUN"}
Running == Starting \cup {"RESUME_INTENT"}
Type == Running \cup {"CANCEL_INTENT", "DISARM"}
Pending == {"QUEUED", "DISPATCHED"}

Command == [type : Type, status : Pending \cup {"HALTED", "PAUSED", "DONE"},
            here : BOOLEAN]              \* dispatched on this connection
Row == [state : {"INTENT_CREATED", "CART_READY", "CHECKOUT_READY", "ABORTED"},
        edge : Paused \cup Finished \cup {"NONE", "QUEUED", "RUNNING", "OPENED"},
        check : {"NONE", "PAGE_OPENED", "PRODUCT_VERIFIED", "CART_READY", "CHECKOUT_READY"},
        cmd : 0 .. MaxCommands,          \* edge_command_id
        cart : BOOLEAN,                  \* cart_identifier is configuration_0
        uncertain : BOOLEAN,             \* edge_mutation_uncertain
        normal : BOOLEAN,                \* edge_normal_returned
        current : BOOLEAN]               \* edge_transport_state.current_intent

Kind == {"PAGE_OPENED", "PRODUCT_VERIFIED", "CART_READY", "CHECKOUT_READY",
         "HUMAN", "FAILED", "SITE_CHANGED", "SOLD_OUT"}
CoreEvent == [kind : Kind \cup {"READY"}, code : {"NONE", "REBUILDING", "CANCELLED"},
              cmd : 0 .. MaxCommands, uncertain : BOOLEAN]

CoreTypeOK ==
  /\ row \in Row
  /\ queue \in Seq(Command)
  /\ Len(queue) <= MaxCommands
  /\ open \in BOOLEAN

CoreInit ==
  /\ row = [state |-> "INTENT_CREATED", edge |-> "NONE", check |-> "NONE", cmd |-> 0, cart |-> FALSE,
            uncertain |-> FALSE, normal |-> FALSE, current |-> FALSE]
  /\ queue = <<>>
  /\ open = FALSE

(* _required_intent: an intent that is over takes no command and no event. *)
Admissible == row.state # "ABORTED"

(* Mutant of Halted: what was sent goes back into the queue. *)
HaltedAgain == [k \in DOMAIN queue |->
  IF queue[k].type = "DISARM" THEN queue[k]
  ELSE CASE queue[k].status = "QUEUED" -> [queue[k] EXCEPT !.status = "HALTED"]
         [] queue[k].status = "DISPATCHED" -> [queue[k] EXCEPT !.status = "QUEUED"]
         [] OTHER -> queue[k]]

(* _halt: DISARM has no intent, and stays in the queue. *)
Halted == [k \in DOMAIN queue |->
             IF queue[k].status \in Pending /\ queue[k].type # "DISARM"
             THEN [queue[k] EXCEPT !.status = "HALTED"] ELSE queue[k]]
HaltedRow(reason) ==
  IF row.current /\ row.edge \notin Finished
  THEN [row EXCEPT !.edge = reason, !.normal = FALSE] ELSE row

Disconnect ==
  /\ row' = HaltedRow("DISCONNECTED")
  /\ queue' = Halted
  /\ open' = FALSE

-----------------------------------------------------------------------------
(* The queue. *)

Queued == {k \in DOMAIN queue : queue[k].status = "QUEUED"}
New(type) == [type |-> type, status |-> "QUEUED", here |-> FALSE]
Claimed(edge) == [row EXCEPT !.edge = edge, !.cmd = Len(queue) + 1, !.normal = FALSE, !.current = TRUE]

(* enqueue of OPEN_PRODUCT and START_DRY_RUN; the callers have seen a connection. *)
EnqueueStart(type) ==
  /\ Admissible
  /\ open
  /\ row.edge \in (IF type = "START_DRY_RUN" THEN {"NONE", "OPENED"} ELSE {"NONE"})
  /\ row.state = "INTENT_CREATED"
  /\ \A k \in Queued : queue[k].type = "DISARM"
  /\ row' = Claimed("QUEUED")
  /\ queue' = Append(queue, New(type))

(* A cancellation has no product, and a resume repeats the product of the *)
(* command before it.                                                     *)
EnqueueResume ==
  /\ Admissible
  /\ open
  /\ row.edge \in Paused
  /\ row.normal
  /\ queue[row.cmd].type \in Running
  /\ row' = Claimed("QUEUED")
  /\ queue' = Append(queue, New("RESUME_INTENT"))

(* Mutant of EnqueueCancel: only a disarm halts what is under way. *)
EnqueueCancelOnly ==
  /\ Admissible
  /\ row' = Claimed("CANCELLED")
  /\ queue' = Append(queue, New("CANCEL_INTENT"))

EnqueueCancel ==
  /\ Admissible
  /\ row' = Claimed("CANCELLED")
  /\ queue' = Append(Halted, New("CANCEL_INTENT"))

EnqueueDisarm ==
  /\ row' = HaltedRow("DISARMED")
  /\ queue' = Append(Halted, New("DISARM"))

Enqueue(type) ==
  /\ Len(queue) < MaxCommands
  /\ \/ type \in Starting /\ EnqueueStart(type)
     \/ type = "RESUME_INTENT" /\ EnqueueResume
     \/ type = "CANCEL_INTENT" /\ EnqueueCancel
     \/ type = "DISARM" /\ EnqueueDisarm
  /\ UNCHANGED open

Rank(k) == CASE queue[k].type = "DISARM" -> 0 [] queue[k].type = "CANCEL_INTENT" -> 1 [] OTHER -> 2

(* next_command: a command is dispatched once, and only while connected. *)
Dispatch(k) ==
  /\ open
  /\ k \in Queued
  /\ \A j \in Queued : Rank(k) < Rank(j) \/ (Rank(k) = Rank(j) /\ k <= j)
  /\ queue' = [queue EXCEPT ![k].status = "DISPATCHED", ![k].here = TRUE]
  /\ row' = IF queue[k].type \in Running THEN [row EXCEPT !.edge = "RUNNING"] ELSE row
  /\ UNCHANGED open

-----------------------------------------------------------------------------
(* handle_event. *)

Recovers(m) == m.kind = "PAGE_OPENED" /\ row.edge \in Paused
ReadsOpened(m) ==
  /\ m.kind = "PAGE_OPENED"
  /\ row.edge = "OPENED"
  /\ queue[m.cmd].type = "OPEN_PRODUCT"
  /\ queue[m.cmd].status = "DONE"

(* The event belongs to the command that is under way, on this connection. *)
Correlated(m) ==
  /\ open
  /\ m.cmd \in DOMAIN queue
  /\ Admissible
  /\ row.current
  /\ m.cmd = row.cmd
  /\ queue[m.cmd].status \in {"DISPATCHED", "PAUSED"} \/ Recovers(m) \/ ReadsOpened(m)
  /\ queue[m.cmd].here \/ Recovers(m)

InSequence(m) ==
  CASE m.kind = "PAGE_OPENED" /\ m.code = "REBUILDING" ->
         /\ queue[m.cmd].type = "RESUME_INTENT"
         /\ row.edge = "RUNNING"
         /\ row.check = "CART_READY"
         /\ row.state = "CART_READY"
         /\ row.cart
    [] m.kind = "PAGE_OPENED" /\ m.code # "REBUILDING" -> row.edge \in Paused \cup {"RUNNING"} \/ ReadsOpened(m)
    [] m.kind = "PRODUCT_VERIFIED" -> row.edge = "RUNNING" /\ row.check \in {"PAGE_OPENED", "PRODUCT_VERIFIED"}
    [] m.kind = "CART_READY" -> row.edge = "RUNNING" /\ row.check \in {"PRODUCT_VERIFIED", "CART_READY"}
    [] m.kind = "CHECKOUT_READY" -> row.edge = "RUNNING" /\ row.check = "CART_READY" /\ row.state = "CART_READY"
    [] m.kind = "HUMAN" -> row.edge \notin Finished
    [] OTHER -> TRUE

FirstCheck == IF row.check = "NONE" THEN "PAGE_OPENED" ELSE row.check
Acknowledged(m) == m.kind = "FAILED" /\ m.code = "CANCELLED" /\ queue[m.cmd].type = "CANCEL_INTENT"
Ended(status, m) == [queue EXCEPT ![m.cmd].status = status]

(* What an event in sequence makes of the row, before the release. *)
After(m) ==
  LET noted == [row EXCEPT !.uncertain = @ \/ m.uncertain] IN
  CASE m.kind = "PAGE_OPENED" /\ m.code = "REBUILDING" -> [noted EXCEPT !.check = "PAGE_OPENED"]
    [] m.kind = "PAGE_OPENED" /\ m.code # "REBUILDING" /\ row.edge \in Paused -> [noted EXCEPT !.normal = TRUE]
    [] m.kind = "PAGE_OPENED" /\ m.code # "REBUILDING" /\ row.edge \notin Paused ->
         [noted EXCEPT !.check = FirstCheck,
                       !.edge = IF queue[m.cmd].type = "OPEN_PRODUCT" THEN "OPENED" ELSE @]
    [] m.kind = "PRODUCT_VERIFIED" -> [noted EXCEPT !.check = "PRODUCT_VERIFIED"]
    [] m.kind = "CART_READY" ->
         [noted EXCEPT !.state = "CART_READY", !.check = "CART_READY", !.cart = TRUE, !.uncertain = FALSE]
    [] m.kind = "CHECKOUT_READY" ->
         [noted EXCEPT !.state = "CHECKOUT_READY", !.check = "CHECKOUT_READY", !.edge = "CHECKOUT_READY",
                       !.uncertain = FALSE]
    [] m.kind = "HUMAN" -> [noted EXCEPT !.edge = "WAITING_FOR_HUMAN", !.normal = FALSE]
    [] OTHER -> [noted EXCEPT !.edge = IF Acknowledged(m) THEN "CANCELLED" ELSE m.kind, !.normal = FALSE]

QueueAfter(m) ==
  CASE m.kind = "PAGE_OPENED" ->
         IF queue[m.cmd].type = "OPEN_PRODUCT" /\ row.edge \notin Paused THEN Ended("DONE", m) ELSE queue
    [] m.kind = "CHECKOUT_READY" -> Ended("DONE", m)
    [] m.kind \in {"HUMAN", "FAILED", "SITE_CHANGED", "SOLD_OUT"} -> Ended(IF Acknowledged(m) THEN "DONE" ELSE "PAUSED", m)
    [] OTHER -> queue

(* Mutant of Releasable: the row alone says that nothing was changed. *)
ReleasableByRow(m) ==
  /\ Acknowledged(m)
  /\ row.state = "INTENT_CREATED"
  /\ row.check \in {"NONE", "PAGE_OPENED"}
  /\ ~(row.uncertain \/ m.uncertain)
  /\ ~row.cart

(* _release_cancelled_diagnostic: the intent only ever looked at a page. *)
Releasable(m) ==
  /\ Acknowledged(m)
  /\ row.state = "INTENT_CREATED"
  /\ row.check \in {"NONE", "PAGE_OPENED"}
  /\ ~(row.uncertain \/ m.uncertain)
  /\ ~row.cart
  /\ \A k \in DOMAIN queue :
       queue[k].type # "DISARM" =>
         /\ queue[k].type \in {"OPEN_PRODUCT", "CANCEL_INTENT"}
         /\ k # m.cmd => queue[k].status \notin Pending
  /\ \E k \in DOMAIN queue : queue[k].type = "OPEN_PRODUCT"

Accepts(m) ==
  IF m.kind = "READY"
  THEN IF m.cmd = 0 THEN ~open
       ELSE /\ m.cmd \in DOMAIN queue
            /\ queue[m.cmd].type = "DISARM"
            /\ queue[m.cmd].status = "DISPATCHED"
            /\ queue[m.cmd].here
  ELSE Correlated(m) /\ InSequence(m)

(* EDGE_READY: the handshake of a connection, or the answer to a DISARM. *)
HandleReady(m) ==
  /\ m.kind = "READY"
  /\ open' = TRUE
  /\ queue' = IF m.cmd = 0 THEN [k \in DOMAIN queue |-> [queue[k] EXCEPT !.here = FALSE]] ELSE Ended("DONE", m)
  /\ UNCHANGED row

HandleEvent(m) ==
  /\ m.kind \in Kind
  /\ row' = IF Releasable(m) THEN [After(m) EXCEPT !.state = "ABORTED", !.current = FALSE] ELSE After(m)
  /\ queue' = QueueAfter(m)
  /\ UNCHANGED open

Take(m) == Accepts(m) /\ (HandleReady(m) \/ HandleEvent(m))

-----------------------------------------------------------------------------
(* The broker on its own, against an extension that posts anything. *)

CoreNext ==
  \/ Disconnect
  \/ \E type \in Type : Enqueue(type)
  \/ \E k \in DOMAIN queue : Dispatch(k)
  \/ \E m \in CoreEvent :
       /\ m.code = "REBUILDING" => m.kind = "PAGE_OPENED"
       /\ m.code = "CANCELLED" => m.kind = "FAILED"
       /\ Take(m)

CoreSpec == CoreInit /\ [][CoreNext]_coreVars

-----------------------------------------------------------------------------
(* What the columns and the queue promise whatever the extension posts. *)

(* Of the commands of an intent at most one is queued or under way, and it *)
(* is the one the row names: two callers, a halt, a cancellation and late  *)
(* events never leave an older command that could still be delivered.      *)
OneCommandRuns ==
  \A k \in DOMAIN queue :
    queue[k].status \in Pending /\ queue[k].type # "DISARM" => k = row.cmd

(* A command that was sent, halted, paused or done is not sent again: what *)
(* the worker did with it is unknown, and only a new command may continue. *)
SentOnce ==
  [][\A k \in DOMAIN queue :
       queue[k].status # "QUEUED" => queue'[k].status \in {queue[k].status, "HALTED", "PAUSED", "DONE"}]_coreVars

(* An intent is released as read-only only when no command that may change *)
(* a cart was ever put into its queue, and nothing of it is under way.     *)
ReleasedReadOnly ==
  row.state = "ABORTED" =>
    /\ \A k \in DOMAIN queue : queue[k].type \in {"OPEN_PRODUCT", "CANCEL_INTENT", "DISARM"}
    /\ \A k \in DOMAIN queue : queue[k].status \in Pending => queue[k].type = "DISARM"
    /\ ~row.cart /\ ~row.uncertain /\ ~row.current

(* The core holds a checkout only with the cart it verified before, and no *)
(* later event, halt or cancellation takes it back.                        *)
CheckoutStands ==
  [][/\ row'.state = "CHECKOUT_READY" => row'.cart
     /\ row.state = "CHECKOUT_READY" => row'.state = "CHECKOUT_READY"]_coreVars

=============================================================================
