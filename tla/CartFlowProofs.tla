--------------------------- MODULE CartFlowProofs ---------------------------
(***************************************************************************)
(* Proofs about CartBroker and CartFlow, for any number of commands,       *)
(* rebuilds, events on the wire and things that go wrong.                  *)
(*                                                                         *)
(* The core first.  None of its properties is inductive: that only one     *)
(* command is under way needs to know in which edge states one may be      *)
(* pending at all; that a checkout stands needs to know that no command    *)
(* can set an intent which reached it running again.                       *)
(*                                                                         *)
(* CartFlow implements CartBroker, so what is shown of the core holds in   *)
(* it.  The rest of the invariant follows a command from the queue over    *)
(* the wire into the worker's hands, and a mutation from the journal into  *)
(* the page and to the merchant.                                           *)
(***************************************************************************)
EXTENDS CartFlow, SequenceTheorems, TLAPS

-----------------------------------------------------------------------------
(* The core. *)

(* A pending command of the intent is the one the row names, in an edge    *)
(* state that waits for one: a paused, opened or new intent has none.      *)
OneUnderWay ==
  \A k \in DOMAIN queue :
    queue[k].status \in Pending /\ queue[k].type # "DISARM" =>
      k = row.cmd /\ row.edge \in {"QUEUED", "RUNNING", "CANCELLED"}

(* An intent with a checkout is done with its command, or cancelled since. *)
CheckoutIsOver ==
  row.state = "CHECKOUT_READY" =>
    /\ row.cmd \in DOMAIN queue
    /\ row.edge \notin {"NONE", "QUEUED", "RUNNING", "OPENED"}
    /\ \/ row.edge = "CHECKOUT_READY" /\ queue[row.cmd].status = "DONE"
       \/ queue[row.cmd].type = "CANCEL_INTENT"

CartIsHeld == row.state \in {"CART_READY", "CHECKOUT_READY"} => row.cart

Inv == CoreTypeOK /\ OneUnderWay /\ CheckoutIsOver /\ CartIsHeld /\ ReleasedReadOnly

-----------------------------------------------------------------------------
(* The queue: it is rewritten in place, or a command is put at its end. *)

LEMMA QueueTyped ==
  ASSUME CoreTypeOK
  PROVE  /\ queue \in Seq(Command) /\ Len(queue) \in Nat /\ DOMAIN queue = 1 .. Len(queue)
         /\ \A k \in DOMAIN queue : queue[k] \in Command
         /\ row \in Row
BY LenProperties, ElementOfSeq DEF CoreTypeOK

LEMMA Rewritten ==
  ASSUME CoreTypeOK, NEW q \in [DOMAIN queue -> Command]
  PROVE  q \in Seq(Command) /\ Len(q) = Len(queue) /\ DOMAIN q = DOMAIN queue
<1>1. Len(queue) \in Nat /\ q \in [1 .. Len(queue) -> Command]
  BY QueueTyped
<1>2. q \in Seq(Command)
  BY <1>1, SeqDef
<1> QED
  BY <1>1, <1>2, LenProperties, QueueTyped

LEMMA Appended ==
  ASSUME NEW q \in Seq(Command), NEW c \in Command
  PROVE  /\ Append(q, c) \in Seq(Command)
         /\ Len(Append(q, c)) = Len(q) + 1
         /\ DOMAIN Append(q, c) = DOMAIN q \cup {Len(q) + 1}
         /\ \A k \in DOMAIN q : Append(q, c)[k] = q[k]
         /\ Append(q, c)[Len(q) + 1] = c
         /\ Len(q) + 1 \notin DOMAIN q
<1>1. Len(q) \in Nat /\ DOMAIN q = 1 .. Len(q)
  BY LenProperties
<1>2. /\ Append(q, c) \in Seq(Command)
      /\ Len(Append(q, c)) = Len(q) + 1
      /\ \A k \in 1 .. Len(q) : Append(q, c)[k] = q[k]
      /\ Append(q, c)[Len(q) + 1] = c
  BY AppendProperties
<1>3. DOMAIN Append(q, c) = 1 .. Len(q) + 1
  BY <1>2, LenProperties
<1> QED
  BY <1>1, <1>2, <1>3

(* A halt leaves nothing of the intent pending, and changes nothing else. *)
LEMMA HaltedFacts ==
  ASSUME CoreTypeOK
  PROVE  /\ Halted \in Seq(Command) /\ Len(Halted) = Len(queue) /\ DOMAIN Halted = DOMAIN queue
         /\ \A k \in DOMAIN queue :
              /\ Halted[k].type = queue[k].type
              /\ Halted[k].status \in Pending => Halted[k].type = "DISARM"
              /\ Halted[k].status = queue[k].status \/ Halted[k].status = "HALTED"
              /\ queue[k].status \notin Pending => Halted[k].status = queue[k].status
<1>1. \A k \in DOMAIN queue : queue[k] \in Command
  BY QueueTyped
<1>2. Halted \in [DOMAIN queue -> Command]
  BY <1>1 DEF Halted, Command
<1>3. \A k \in DOMAIN queue :
        /\ Halted[k].type = queue[k].type
        /\ Halted[k].status \in Pending => Halted[k].type = "DISARM"
        /\ Halted[k].status = queue[k].status \/ Halted[k].status = "HALTED"
        /\ queue[k].status \notin Pending => Halted[k].status = queue[k].status
  BY <1>1 DEF Halted, Command, Pending
<1> QED
  BY <1>2, <1>3, Rewritten

LEMMA HaltedRowFacts ==
  ASSUME CoreTypeOK, NEW reason \in {"DISCONNECTED", "DISARMED"}
  PROVE  /\ HaltedRow(reason) \in Row
         /\ HaltedRow(reason).state = row.state /\ HaltedRow(reason).cmd = row.cmd
         /\ HaltedRow(reason).cart = row.cart /\ HaltedRow(reason).uncertain = row.uncertain
         /\ HaltedRow(reason).current = row.current
         /\ \/ HaltedRow(reason).edge = row.edge
            \/ HaltedRow(reason).edge = reason /\ row.edge \notin Finished
<1>1. row \in Row
  BY QueueTyped
<1>2. CASE ~(row.current /\ row.edge \notin Finished)
  BY <1>1, <1>2 DEF HaltedRow
<1>3. CASE row.current /\ row.edge \notin Finished
  <2>1. HaltedRow(reason) = [row EXCEPT !.edge = reason, !.normal = FALSE]
    BY <1>3 DEF HaltedRow
  <2>2. reason \in Paused
    BY DEF Paused
  <2> QED
    BY <1>1, <1>3, <2>1, <2>2 DEF Row
<1> QED
  BY <1>2, <1>3

LEMMA ClaimedFacts ==
  ASSUME CoreTypeOK, Len(queue) < MaxCommands, NEW edge \in {"QUEUED", "CANCELLED"}
  PROVE  /\ Claimed(edge) \in Row
         /\ Claimed(edge).edge = edge /\ Claimed(edge).cmd = Len(queue) + 1
         /\ Claimed(edge).state = row.state /\ Claimed(edge).cart = row.cart
<1>1. row \in Row /\ Len(queue) \in Nat
  BY QueueTyped
<1>2. Len(queue) + 1 \in 0 .. MaxCommands
  BY <1>1, CommandsAssumption
<1> QED
  BY <1>1, <1>2 DEF Claimed, Row, Finished

-----------------------------------------------------------------------------
(* Events. *)

(* What an event makes of the row: its command stays, the state moves only  *)
(* with the cart and the checkout, and the edge only as the kind says.      *)
LEMMA AfterFacts ==
  ASSUME CoreTypeOK, NEW m \in CoreEvent, m.kind \in Kind
  PROVE  /\ After(m) \in Row
         /\ After(m).cmd = row.cmd /\ After(m).current = row.current
         /\ \/ After(m).state = row.state /\ After(m).cart = row.cart
            \/ m.kind \in {"CART_READY", "CHECKOUT_READY"} /\ After(m).state = m.kind
         /\ m.kind \in {"CART_READY", "CHECKOUT_READY"} => After(m).state = m.kind
         /\ m.kind = "CART_READY" => After(m).cart
         /\ After(m).cart = row.cart \/ m.kind = "CART_READY"
         /\ m.kind = "CHECKOUT_READY" => After(m).edge = "CHECKOUT_READY"
         /\ m.kind \in {"PRODUCT_VERIFIED", "CART_READY"} => After(m).edge = row.edge
         /\ m.kind = "PAGE_OPENED" =>
              \/ After(m).edge = row.edge
              \/ row.edge \notin Paused /\ After(m).edge = "OPENED" /\ queue[m.cmd].type = "OPEN_PRODUCT"
         /\ m.kind = "HUMAN" => After(m).edge = "WAITING_FOR_HUMAN"
         /\ m.kind \in {"FAILED", "SITE_CHANGED", "SOLD_OUT"} =>
              After(m).edge = IF Acknowledged(m) THEN "CANCELLED" ELSE m.kind
         /\ Acknowledged(m) /\ m.kind \in {"FAILED", "SITE_CHANGED", "SOLD_OUT"} =>
              After(m).uncertain = (row.uncertain \/ m.uncertain)
<1> DEFINE noted == [row EXCEPT !.uncertain = @ \/ m.uncertain]
<1>1. row \in Row /\ m.uncertain \in BOOLEAN
  BY QueueTyped DEF CoreEvent
<1>2. /\ noted \in Row /\ noted.uncertain = (row.uncertain \/ m.uncertain)
      /\ noted.edge = row.edge /\ noted.state = row.state /\ noted.cmd = row.cmd
      /\ noted.cart = row.cart /\ noted.current = row.current /\ noted.check = row.check
  BY <1>1 DEF Row
<1>3. CASE m.kind = "PAGE_OPENED"
  <2>1. CASE m.code = "REBUILDING"
    <3>1. After(m) = [noted EXCEPT !.check = "PAGE_OPENED"]
      BY <1>3, <2>1 DEF After
    <3> HIDE DEF noted
    <3>2. /\ After(m) \in Row /\ After(m).cmd = noted.cmd /\ After(m).current = noted.current
          /\ After(m).state = noted.state /\ After(m).cart = noted.cart /\ After(m).edge = noted.edge
      BY <1>2, <3>1 DEF Row
    <3> QED
      BY <1>2, <1>3, <3>2
  <2>2. CASE m.code # "REBUILDING" /\ row.edge \in Paused
    <3>1. After(m) = [noted EXCEPT !.normal = TRUE]
      BY <1>3, <2>2 DEF After
    <3> HIDE DEF noted
    <3>2. /\ After(m) \in Row /\ After(m).cmd = noted.cmd /\ After(m).current = noted.current
          /\ After(m).state = noted.state /\ After(m).cart = noted.cart /\ After(m).edge = noted.edge
      BY <1>2, <3>1 DEF Row
    <3> QED
      BY <1>2, <1>3, <3>2
  <2>3. CASE m.code # "REBUILDING" /\ row.edge \notin Paused
    <3> DEFINE edge == IF queue[m.cmd].type = "OPEN_PRODUCT" THEN "OPENED" ELSE noted.edge
    <3>1. After(m) = [noted EXCEPT !.check = FirstCheck, !.edge = edge]
      BY <1>3, <2>3 DEF After
    <3>2. FirstCheck \in {"PAGE_OPENED", "PRODUCT_VERIFIED", "CART_READY", "CHECKOUT_READY"}
      BY <1>1 DEF FirstCheck, Row
    <3>3. edge \in {"OPENED", noted.edge} /\ (edge # noted.edge => edge = "OPENED" /\ queue[m.cmd].type = "OPEN_PRODUCT")
      OBVIOUS
    <3> HIDE DEF noted, edge
    <3> QED
      BY <1>2, <1>3, <2>3, <3>1, <3>2, <3>3 DEF Row
  <2> QED
    BY <2>1, <2>2, <2>3
<1>4. CASE m.kind = "PRODUCT_VERIFIED"
  <2>1. After(m) = [noted EXCEPT !.check = "PRODUCT_VERIFIED"]
    BY <1>4 DEF After
  <2> HIDE DEF noted
  <2> QED
    BY <1>2, <1>4, <2>1 DEF Row
<1>5. CASE m.kind = "CART_READY"
  <2>1. After(m) = [noted EXCEPT !.state = "CART_READY", !.check = "CART_READY", !.cart = TRUE, !.uncertain = FALSE]
    BY <1>5 DEF After
  <2> HIDE DEF noted
  <2> QED
    BY <1>2, <1>5, <2>1 DEF Row
<1>6. CASE m.kind = "CHECKOUT_READY"
  <2>1. After(m) = [noted EXCEPT !.state = "CHECKOUT_READY", !.check = "CHECKOUT_READY", !.edge = "CHECKOUT_READY",
                                 !.uncertain = FALSE]
    BY <1>6 DEF After
  <2> HIDE DEF noted
  <2> QED
    BY <1>2, <1>6, <2>1 DEF Row, Finished
<1>7. CASE m.kind = "HUMAN"
  <2>1. After(m) = [noted EXCEPT !.edge = "WAITING_FOR_HUMAN", !.normal = FALSE]
    BY <1>7 DEF After
  <2> HIDE DEF noted
  <2> QED
    BY <1>2, <1>7, <2>1 DEF Row, Paused
<1>8. CASE m.kind \in {"FAILED", "SITE_CHANGED", "SOLD_OUT"}
  <2> DEFINE edge == IF Acknowledged(m) THEN "CANCELLED" ELSE m.kind
  <2>1. After(m) = [noted EXCEPT !.edge = edge, !.normal = FALSE]
    BY <1>8 DEF After
  <2>2. edge \in Paused \cup Finished
    BY <1>8 DEF Paused, Finished
  <2>3. edge = IF Acknowledged(m) THEN "CANCELLED" ELSE m.kind
    OBVIOUS
  <2> HIDE DEF noted, edge
  <2>4. After(m) \in Row /\ After(m).edge = edge /\ After(m).uncertain = noted.uncertain
        /\ After(m).cmd = noted.cmd /\ After(m).current = noted.current
        /\ After(m).state = noted.state /\ After(m).cart = noted.cart
    BY <1>2, <2>1, <2>2 DEF Row
  <2> QED
    BY <1>2, <1>8, <2>3, <2>4
<1> QED
  BY <1>3, <1>4, <1>5, <1>6, <1>7, <1>8 DEF Kind

LEMMA EndedFacts ==
  ASSUME CoreTypeOK, NEW m \in CoreEvent, m.cmd \in DOMAIN queue, NEW status \in {"PAUSED", "DONE"}
  PROVE  /\ Ended(status, m) \in [DOMAIN queue -> Command]
         /\ \A k \in DOMAIN queue :
              /\ Ended(status, m)[k].type = queue[k].type
              /\ k # m.cmd => Ended(status, m)[k].status = queue[k].status
         /\ Ended(status, m)[m.cmd].status = status
<1>1. \A k \in DOMAIN queue : queue[k] \in Command
  BY QueueTyped
<1>2. queue \in [DOMAIN queue -> Command]
  BY <1>1, QueueTyped, SeqDef
<1>3. [queue[m.cmd] EXCEPT !.status = status] \in Command
  BY <1>1 DEF Command
<1>4. Ended(status, m) = [queue EXCEPT ![m.cmd] = [queue[m.cmd] EXCEPT !.status = status]]
  BY DEF Ended
<1>5. [queue[m.cmd] EXCEPT !.status = status].type = queue[m.cmd].type
      /\ [queue[m.cmd] EXCEPT !.status = status].status = status
  BY <1>1 DEF Command
<1> DEFINE c == [queue[m.cmd] EXCEPT !.status = status]
<1> HIDE DEF c
<1> QED
  BY <1>2, <1>3, <1>4, <1>5 DEF c

(* An event ends its own command or leaves the queue alone. *)
LEMMA QueueAfterFacts ==
  ASSUME CoreTypeOK, NEW m \in CoreEvent, m.kind \in Kind, m.cmd \in DOMAIN queue
  PROVE  /\ QueueAfter(m) \in Seq(Command) /\ Len(QueueAfter(m)) = Len(queue) /\ DOMAIN QueueAfter(m) = DOMAIN queue
         /\ \A k \in DOMAIN queue :
              /\ QueueAfter(m)[k].type = queue[k].type
              /\ \/ QueueAfter(m)[k].status = queue[k].status
                 \/ k = m.cmd /\ QueueAfter(m)[k].status \in {"PAUSED", "DONE"}
         /\ m.kind \in {"HUMAN", "FAILED", "SITE_CHANGED", "SOLD_OUT"} => QueueAfter(m)[m.cmd].status \in {"PAUSED", "DONE"}
         /\ m.kind = "CHECKOUT_READY" \/ Acknowledged(m) => QueueAfter(m)[m.cmd].status = "DONE"
         /\ m.kind = "PAGE_OPENED" /\ queue[m.cmd].type = "OPEN_PRODUCT" /\ row.edge \notin Paused =>
              QueueAfter(m)[m.cmd].status = "DONE"
<1>1. QueueAfter(m) = queue \/ \E s \in {"PAUSED", "DONE"} : QueueAfter(m) = Ended(s, m)
  BY DEF QueueAfter, Kind
<1>2. QueueAfter(m) = queue \/ QueueAfter(m) \in [DOMAIN queue -> Command]
  BY <1>1, EndedFacts
<1>3. QueueAfter(m) \in Seq(Command) /\ Len(QueueAfter(m)) = Len(queue) /\ DOMAIN QueueAfter(m) = DOMAIN queue
  BY <1>2, Rewritten, QueueTyped
<1>4. \A k \in DOMAIN queue :
        /\ QueueAfter(m)[k].type = queue[k].type
        /\ \/ QueueAfter(m)[k].status = queue[k].status
           \/ k = m.cmd /\ QueueAfter(m)[k].status \in {"PAUSED", "DONE"}
  BY <1>1, EndedFacts
<1>5. m.kind \in {"HUMAN", "FAILED", "SITE_CHANGED", "SOLD_OUT"} =>
        QueueAfter(m) = Ended(IF Acknowledged(m) THEN "DONE" ELSE "PAUSED", m)
  BY DEF QueueAfter
<1>6. m.kind = "CHECKOUT_READY" => QueueAfter(m) = Ended("DONE", m)
  BY DEF QueueAfter
<1>7. m.kind = "PAGE_OPENED" /\ queue[m.cmd].type = "OPEN_PRODUCT" /\ row.edge \notin Paused =>
        QueueAfter(m) = Ended("DONE", m)
  BY DEF QueueAfter
<1>8. Acknowledged(m) => m.kind = "FAILED"
  BY DEF Acknowledged
<1>9. Ended("DONE", m)[m.cmd].status = "DONE" /\ Ended("PAUSED", m)[m.cmd].status = "PAUSED"
  BY EndedFacts
<1>10. m.kind \in {"HUMAN", "FAILED", "SITE_CHANGED", "SOLD_OUT"} => QueueAfter(m)[m.cmd].status \in {"PAUSED", "DONE"}
  BY <1>5, <1>9
<1>11. m.kind = "CHECKOUT_READY" \/ Acknowledged(m) => QueueAfter(m)[m.cmd].status = "DONE"
  BY <1>5, <1>6, <1>8, <1>9
<1>12. m.kind = "PAGE_OPENED" /\ queue[m.cmd].type = "OPEN_PRODUCT" /\ row.edge \notin Paused =>
         QueueAfter(m)[m.cmd].status = "DONE"
  BY <1>7, <1>9
<1> QED
  BY <1>3, <1>4, <1>10, <1>11, <1>12

-----------------------------------------------------------------------------
(* Every step keeps the invariant. *)

LEMMA DisconnectKeeps == ASSUME Inv, Disconnect PROVE Inv'
<1>1. CoreTypeOK
  BY DEF Inv
<1>2. row' = HaltedRow("DISCONNECTED") /\ queue' = Halted /\ open' = FALSE
  BY DEF Disconnect
<1>3. CoreTypeOK'
  BY <1>1, <1>2, HaltedFacts, HaltedRowFacts DEF CoreTypeOK
<1>4. OneUnderWay'
  BY <1>1, <1>2, HaltedFacts DEF OneUnderWay
<1>5. CheckoutIsOver'
  <2>1. Paused \cap {"NONE", "QUEUED", "RUNNING", "OPENED"} = {} /\ "CHECKOUT_READY" \in Finished
        /\ "DISCONNECTED" \in Paused /\ "DONE" \notin Pending
    BY DEF Paused, Finished, Pending
  <2> QED
    BY <1>1, <1>2, <2>1, HaltedFacts, HaltedRowFacts DEF Inv, CheckoutIsOver
<1>6. CartIsHeld'
  BY <1>1, <1>2, HaltedRowFacts DEF Inv, CartIsHeld
<1>7. ReleasedReadOnly'
  BY <1>1, <1>2, HaltedFacts, HaltedRowFacts DEF Inv, ReleasedReadOnly
<1> QED
  BY <1>3, <1>4, <1>5, <1>6, <1>7 DEF Inv

(* A new command finds nothing of the intent under way. *)
LEMMA NothingPending ==
  ASSUME Inv, row.edge \in Paused \cup {"NONE", "OPENED"}, NEW k \in DOMAIN queue
  PROVE  queue[k].status \in Pending => queue[k].type = "DISARM"
BY DEF Inv, OneUnderWay, Paused

(* A command of the intent that takes its place in the row, and in a queue *)
(* of which nothing of the intent is pending.                              *)
LEMMA ClaimKeeps ==
  ASSUME Inv, Len(queue) < MaxCommands, open' = open,
         NEW q \in Seq(Command), DOMAIN q = DOMAIN queue, Len(q) = Len(queue),
         \A k \in DOMAIN queue : q[k].status \in Pending => q[k].type = "DISARM",
         NEW edge \in {"QUEUED", "CANCELLED"}, NEW type \in Type,
         row' = Claimed(edge), queue' = Append(q, New(type)),
         row.state # "ABORTED",
         row.state # "CHECKOUT_READY" \/ (edge = "CANCELLED" /\ type = "CANCEL_INTENT")
  PROVE  Inv'
<1>1. CoreTypeOK /\ Len(queue) \in Nat /\ DOMAIN queue = 1 .. Len(queue)
  BY QueueTyped DEF Inv
<1>2. New(type) \in Command /\ New(type).type = type
  BY DEF New, Command, Pending
<1>3. /\ Append(q, New(type)) \in Seq(Command)
      /\ Len(Append(q, New(type))) = Len(q) + 1
      /\ DOMAIN Append(q, New(type)) = DOMAIN q \cup {Len(q) + 1}
      /\ \A k \in DOMAIN q : Append(q, New(type))[k] = q[k]
      /\ Append(q, New(type))[Len(q) + 1] = New(type)
  BY <1>2, Appended
<1>4. CoreTypeOK'
  <2>1. Len(queue) + 1 <= MaxCommands
    BY <1>1, CommandsAssumption
  <2> QED
    BY <1>1, <1>3, <2>1, ClaimedFacts DEF CoreTypeOK
<1>5. OneUnderWay'
  BY <1>1, <1>3, ClaimedFacts DEF OneUnderWay
<1>6. CheckoutIsOver'
  BY <1>1, <1>2, <1>3, ClaimedFacts DEF CheckoutIsOver
<1>7. CartIsHeld'
  BY <1>1, ClaimedFacts DEF Inv, CartIsHeld
<1>8. ReleasedReadOnly'
  BY <1>1, ClaimedFacts DEF ReleasedReadOnly
<1> QED
  BY <1>4, <1>5, <1>6, <1>7, <1>8 DEF Inv

LEMMA EnqueueKeeps == ASSUME Inv, NEW type \in Type, Enqueue(type) PROVE Inv'
<1>1. CoreTypeOK /\ queue \in Seq(Command) /\ Len(queue) < MaxCommands /\ open' = open
  BY DEF Inv, CoreTypeOK, Enqueue
<1>2. CASE type \in Starting /\ EnqueueStart(type)
  <2>1. /\ row.edge \in {"NONE", "OPENED"} /\ row.state = "INTENT_CREATED"
        /\ row' = Claimed("QUEUED") /\ queue' = Append(queue, New(type))
    BY <1>2 DEF EnqueueStart
  <2> QED
    BY <1>1, <2>1, NothingPending, ClaimKeeps
<1>3. CASE type = "RESUME_INTENT" /\ EnqueueResume
  <2>1. /\ row.edge \in Paused /\ row.state # "ABORTED" /\ queue[row.cmd].type \in Running
        /\ row' = Claimed("QUEUED") /\ queue' = Append(queue, New(type))
    BY <1>3 DEF EnqueueResume, Admissible
  <2>2. row.state # "CHECKOUT_READY"
    BY <2>1 DEF Inv, CheckoutIsOver, Paused, Running, Starting
  <2> QED
    BY <1>1, <2>1, <2>2, NothingPending, ClaimKeeps
<1>4. CASE type = "CANCEL_INTENT" /\ EnqueueCancel
  <2>1. /\ row.state # "ABORTED"
        /\ row' = Claimed("CANCELLED") /\ queue' = Append(Halted, New(type))
    BY <1>4 DEF EnqueueCancel, Admissible
  <2> QED
    BY <1>1, <1>4, <2>1, HaltedFacts, ClaimKeeps
<1>5. CASE type = "DISARM" /\ EnqueueDisarm
  <2>1. row' = HaltedRow("DISARMED") /\ queue' = Append(Halted, New("DISARM"))
    BY <1>5 DEF EnqueueDisarm
  <2>2. New("DISARM") \in Command /\ New("DISARM").type = "DISARM"
    BY DEF New, Command, Pending, Type
  <2>3. /\ Append(Halted, New("DISARM")) \in Seq(Command)
        /\ Len(Append(Halted, New("DISARM"))) = Len(queue) + 1
        /\ DOMAIN Append(Halted, New("DISARM")) = DOMAIN queue \cup {Len(queue) + 1}
        /\ \A k \in DOMAIN queue : Append(Halted, New("DISARM"))[k] = Halted[k]
        /\ Append(Halted, New("DISARM"))[Len(queue) + 1] = New("DISARM")
        /\ Len(queue) + 1 \notin DOMAIN queue
    BY <1>1, <2>2, HaltedFacts, Appended
  <2>4. CoreTypeOK'
    <3>1. Len(queue) + 1 <= MaxCommands
      BY <1>1, QueueTyped, CommandsAssumption
    <3> QED
      BY <1>1, <2>1, <2>3, <3>1, HaltedRowFacts DEF CoreTypeOK
  <2>5. OneUnderWay'
    BY <1>1, <2>1, <2>2, <2>3, HaltedFacts DEF OneUnderWay
  <2>6. CheckoutIsOver'
    <3>1. Paused \cap {"NONE", "QUEUED", "RUNNING", "OPENED"} = {} /\ "CHECKOUT_READY" \in Finished
          /\ "DISARMED" \in Paused /\ "DONE" \notin Pending
      BY DEF Paused, Finished, Pending
    <3> QED
      BY <1>1, <2>1, <2>3, <3>1, HaltedFacts, HaltedRowFacts DEF Inv, CheckoutIsOver
  <2>7. CartIsHeld'
    BY <1>1, <2>1, HaltedRowFacts DEF Inv, CartIsHeld
  <2>8. ReleasedReadOnly'
    BY <1>1, <2>1, <2>2, <2>3, HaltedFacts, HaltedRowFacts DEF Inv, ReleasedReadOnly
  <2> QED
    BY <2>4, <2>5, <2>6, <2>7, <2>8 DEF Inv
<1> QED
  BY <1>2, <1>3, <1>4, <1>5 DEF Enqueue

LEMMA DispatchKeeps == ASSUME Inv, NEW k \in DOMAIN queue, Dispatch(k) PROVE Inv'
<1> DEFINE sent == [queue[k] EXCEPT !.status = "DISPATCHED", !.here = TRUE]
<1>1. CoreTypeOK /\ queue[k] \in Command /\ row \in Row /\ \A j \in DOMAIN queue : queue[j] \in Command
  BY QueueTyped DEF Inv
<1>2. /\ queue[k].status = "QUEUED" /\ open' = open
      /\ queue' = [queue EXCEPT ![k] = sent]
      /\ row' = IF queue[k].type \in Running THEN [row EXCEPT !.edge = "RUNNING"] ELSE row
  BY <1>1 DEF Dispatch, Queued, Command
<1>3. sent \in Command /\ sent.type = queue[k].type /\ sent.status = "DISPATCHED"
  BY <1>1 DEF Command, Pending
<1> HIDE DEF sent
<1>4. queue' \in Seq(Command) /\ Len(queue') = Len(queue) /\ DOMAIN queue' = DOMAIN queue
  <2>1. queue' \in [DOMAIN queue -> Command]
    BY <1>1, <1>2, <1>3, QueueTyped, SeqDef
  <2> QED
    BY <1>1, <2>1, Rewritten
<1>5. /\ row' \in Row /\ row'.state = row.state /\ row'.cmd = row.cmd /\ row'.cart = row.cart
      /\ row'.uncertain = row.uncertain /\ row'.current = row.current
      /\ row'.edge = IF queue[k].type \in Running THEN "RUNNING" ELSE row.edge
  BY <1>1, <1>2 DEF Row
<1>6. \A j \in DOMAIN queue :
        /\ queue'[j].type = queue[j].type
        /\ queue'[j].status = IF j = k THEN "DISPATCHED" ELSE queue[j].status
  BY <1>1, <1>2, <1>3, QueueTyped
<1>7. CoreTypeOK'
  BY <1>1, <1>2, <1>4, <1>5 DEF CoreTypeOK
<1>8. queue[k].type # "DISARM" => k = row.cmd /\ row.edge \in {"QUEUED", "RUNNING", "CANCELLED"}
  BY <1>2 DEF Inv, OneUnderWay, Pending
<1>9. OneUnderWay'
  BY <1>2, <1>4, <1>5, <1>6, <1>8 DEF Inv, OneUnderWay, Pending
<1>10. CheckoutIsOver'
  <2>1. ASSUME row.state = "CHECKOUT_READY"
        PROVE  queue[k].type \notin Running /\ (queue[k].type # "DISARM" => queue[row.cmd].type = "CANCEL_INTENT")
    BY <1>2, <1>8, <2>1 DEF Inv, CheckoutIsOver, Running, Starting
  <2> QED
    BY <1>2, <1>4, <1>5, <1>6, <2>1 DEF Inv, CheckoutIsOver
<1>11. CartIsHeld'
  BY <1>5 DEF Inv, CartIsHeld
<1>12. ReleasedReadOnly'
  BY <1>2, <1>4, <1>5, <1>6 DEF Inv, ReleasedReadOnly, Pending
<1> QED
  BY <1>7, <1>9, <1>10, <1>11, <1>12 DEF Inv

LEMMA ReadyKeeps == ASSUME Inv, NEW m \in CoreEvent, Accepts(m), HandleReady(m) PROVE Inv'
<1>1. CoreTypeOK /\ \A k \in DOMAIN queue : queue[k] \in Command
  BY QueueTyped DEF Inv
<1>2. m.kind = "READY" /\ open' = TRUE /\ row' = row
  BY DEF HandleReady
<1>3. /\ queue' \in [DOMAIN queue -> Command]
      /\ \A k \in DOMAIN queue :
           /\ queue'[k].type = queue[k].type
           /\ \/ queue'[k].status = queue[k].status
              \/ queue[k].type = "DISARM" /\ queue'[k].status = "DONE"
  <2>1. CASE m.cmd = 0
    <3>1. queue' = [k \in DOMAIN queue |-> [queue[k] EXCEPT !.here = FALSE]]
      BY <2>1 DEF HandleReady
    <3>2. \A k \in DOMAIN queue :
            /\ [queue[k] EXCEPT !.here = FALSE] \in Command
            /\ [queue[k] EXCEPT !.here = FALSE].type = queue[k].type
            /\ [queue[k] EXCEPT !.here = FALSE].status = queue[k].status
      BY <1>1 DEF Command
    <3> QED
      BY <3>1, <3>2
  <2>2. CASE m.cmd # 0
    <3>1. m.cmd \in DOMAIN queue /\ queue[m.cmd].type = "DISARM"
      BY <1>2, <2>2 DEF Accepts
    <3>2. queue' = Ended("DONE", m)
      BY <2>2 DEF HandleReady
    <3> QED
      BY <1>1, <3>1, <3>2, EndedFacts
  <2> QED
    BY <2>1, <2>2
<1>4. queue' \in Seq(Command) /\ Len(queue') = Len(queue) /\ DOMAIN queue' = DOMAIN queue
  BY <1>1, <1>3, Rewritten
<1>5. CoreTypeOK'
  BY <1>1, <1>2, <1>4 DEF CoreTypeOK
<1>6. OneUnderWay'
  BY <1>2, <1>3, <1>4 DEF Inv, OneUnderWay, Pending
<1>7. CheckoutIsOver'
  BY <1>2, <1>3, <1>4 DEF Inv, CheckoutIsOver
<1>8. CartIsHeld'
  BY <1>2 DEF Inv, CartIsHeld
<1>9. ReleasedReadOnly'
  BY <1>2, <1>3, <1>4 DEF Inv, ReleasedReadOnly, Pending
<1> QED
  BY <1>5, <1>6, <1>7, <1>8, <1>9 DEF Inv

LEMMA EventKeeps == ASSUME Inv, NEW m \in CoreEvent, Accepts(m), HandleEvent(m) PROVE Inv'
<1> DEFINE after == After(m)
<1>1. CoreTypeOK /\ m.kind \in Kind /\ m.kind # "READY"
  BY DEF Inv, HandleEvent, Kind
<1>2. Correlated(m) /\ InSequence(m)
  BY <1>1 DEF Accepts
<1>3. m.cmd \in DOMAIN queue /\ m.cmd = row.cmd /\ row.state # "ABORTED"
  BY <1>2 DEF Correlated, Admissible
<1>4. /\ queue' = QueueAfter(m) /\ open' = open
      /\ row' = IF Releasable(m) THEN [after EXCEPT !.state = "ABORTED", !.current = FALSE] ELSE after
  BY DEF HandleEvent
<1>5. after \in Row
  BY <1>1, AfterFacts
<1> HIDE DEF after
<1>6. /\ row' \in Row /\ row'.cmd = after.cmd /\ row'.edge = after.edge /\ row'.cart = after.cart
      /\ row'.uncertain = after.uncertain
      /\ Releasable(m) => row'.state = "ABORTED" /\ row'.current = FALSE
      /\ ~Releasable(m) => row'.state = after.state
  BY <1>4, <1>5 DEF Row
<1>7. Acknowledged(m) => m.kind = "FAILED"
  BY DEF Acknowledged
<1>8. CoreTypeOK'
  BY <1>1, <1>3, <1>4, <1>6, QueueAfterFacts DEF CoreTypeOK
<1>9. OneUnderWay'
  <2> SUFFICES ASSUME NEW k \in DOMAIN queue', queue'[k].status \in Pending, queue'[k].type # "DISARM"
               PROVE  k = row'.cmd /\ row'.edge \in {"QUEUED", "RUNNING", "CANCELLED"}
    BY DEF OneUnderWay
  <2>1. k \in DOMAIN queue /\ queue'[k].type = queue[k].type /\ queue'[k].status = queue[k].status
    BY <1>1, <1>3, <1>4, QueueAfterFacts DEF Pending
  <2>2. k = row.cmd /\ row.edge \in {"QUEUED", "RUNNING", "CANCELLED"}
    BY <2>1 DEF Inv, OneUnderWay
  <2>3. m.kind \in {"PAGE_OPENED", "PRODUCT_VERIFIED", "CART_READY"}
    BY <1>1, <1>3, <1>4, <2>2, QueueAfterFacts DEF Kind, Pending
  <2>4. after.edge = row.edge
    BY <1>1, <1>3, <1>4, <2>2, <2>3, AfterFacts, QueueAfterFacts DEF Pending, after
  <2> QED
    BY <1>1, <1>6, <2>2, <2>4, AfterFacts DEF after
<1>10. CheckoutIsOver'
  <2> SUFFICES ASSUME row'.state = "CHECKOUT_READY" PROVE CheckoutIsOver'
    BY DEF CheckoutIsOver
  <2>1. after.state = "CHECKOUT_READY"
    BY <1>6
  <2>2. row'.cmd = row.cmd /\ row'.cmd \in DOMAIN queue'
    BY <1>1, <1>3, <1>4, <1>6, AfterFacts, QueueAfterFacts DEF after
  <2>3. CASE m.kind = "CHECKOUT_READY"
    BY <1>1, <1>3, <1>4, <1>6, <2>2, <2>3, AfterFacts, QueueAfterFacts DEF CheckoutIsOver, after
  <2>4. CASE m.kind # "CHECKOUT_READY"
    <3>1. row.state = "CHECKOUT_READY" /\ m.kind # "CART_READY"
      BY <1>1, <2>1, <2>4, AfterFacts DEF after
    <3>2. queue[row.cmd].type = "CANCEL_INTENT" /\ row.edge \notin {"NONE", "QUEUED", "RUNNING", "OPENED"}
      BY <1>2, <1>3, <3>1 DEF Inv, CheckoutIsOver, Correlated, Recovers, ReadsOpened, Paused
    <3>3. queue'[row'.cmd].type = "CANCEL_INTENT"
      BY <1>1, <1>3, <1>4, <2>2, <3>2, QueueAfterFacts
    <3>4. after.edge \notin {"NONE", "QUEUED", "RUNNING", "OPENED"}
      BY <1>1, <1>3, <2>4, <3>1, <3>2, AfterFacts DEF Kind, after
    <3> QED
      BY <1>6, <2>2, <3>3, <3>4 DEF CheckoutIsOver
  <2> QED
    BY <2>3, <2>4
<1>11. CartIsHeld'
  <2>1. m.kind = "CHECKOUT_READY" => row.state = "CART_READY"
    BY <1>2 DEF InSequence
  <2>2. after.state \in {"CART_READY", "CHECKOUT_READY"} => after.cart
    BY <1>1, <2>1, AfterFacts DEF Inv, CartIsHeld, after
  <2> QED
    BY <1>6, <2>2 DEF CartIsHeld
<1>12. ReleasedReadOnly'
  <2> SUFFICES ASSUME row'.state = "ABORTED" PROVE ReleasedReadOnly'
    BY DEF ReleasedReadOnly
  <2>1. Releasable(m)
    <3>1. after.state # "ABORTED"
      BY <1>1, <1>3, AfterFacts DEF after
    <3> QED
      BY <1>6, <3>1
  <2>2. /\ Acknowledged(m) /\ ~row.cart /\ ~row.uncertain /\ ~m.uncertain
        /\ \A k \in DOMAIN queue :
             queue[k].type # "DISARM" =>
               /\ queue[k].type \in {"OPEN_PRODUCT", "CANCEL_INTENT"}
               /\ k # m.cmd => queue[k].status \notin Pending
    BY <2>1 DEF Releasable
  <2>3. ~row'.cart /\ ~row'.uncertain /\ ~row'.current
    BY <1>1, <1>6, <1>7, <2>1, <2>2, AfterFacts DEF after
  <2>4. \A k \in DOMAIN queue' :
          /\ queue'[k].type \in {"OPEN_PRODUCT", "CANCEL_INTENT", "DISARM"}
          /\ queue'[k].status \in Pending => queue'[k].type = "DISARM"
    BY <1>1, <1>3, <1>4, <2>2, QueueAfterFacts DEF Pending
  <2> QED
    BY <2>3, <2>4 DEF ReleasedReadOnly
<1> QED
  BY <1>8, <1>9, <1>10, <1>11, <1>12 DEF Inv

-----------------------------------------------------------------------------
(* The theorems. *)

LEMMA InvInit == CoreInit => Inv
<1> SUFFICES ASSUME CoreInit PROVE Inv
  OBVIOUS
<1>1. queue = <<>> /\ queue \in Seq(Command) /\ Len(queue) = 0 /\ DOMAIN queue = {}
  BY EmptySeq DEF CoreInit
<1>2. row \in Row
  <2>1. 0 \in 0 .. MaxCommands
    BY CommandsAssumption
  <2> QED
    BY <2>1 DEF CoreInit, Row
<1>3. row.state = "INTENT_CREATED" /\ open = FALSE
  BY DEF CoreInit
<1>4. CoreTypeOK
  <2>1. Len(queue) <= MaxCommands
    BY <1>1, CommandsAssumption
  <2>2. open \in BOOLEAN
    BY <1>3
  <2> QED
    BY <1>1, <1>2, <2>1, <2>2, Zenon DEF CoreTypeOK
<1> QED
  BY <1>1, <1>3, <1>4, Zenon DEF Inv, OneUnderWay, CheckoutIsOver, CartIsHeld, ReleasedReadOnly

LEMMA InvNext == Inv /\ [CoreNext]_coreVars => Inv'
<1> SUFFICES ASSUME Inv, [CoreNext]_coreVars PROVE Inv'
  OBVIOUS
<1>1. CASE Disconnect
  BY <1>1, DisconnectKeeps
<1>2. ASSUME NEW type \in Type, Enqueue(type) PROVE Inv'
  BY <1>2, EnqueueKeeps
<1>3. ASSUME NEW k \in DOMAIN queue, Dispatch(k) PROVE Inv'
  BY <1>3, DispatchKeeps
<1>4. ASSUME NEW m \in CoreEvent, Take(m) PROVE Inv'
  BY <1>4, ReadyKeeps, EventKeeps DEF Take
<1>5. CASE UNCHANGED coreVars
  BY <1>5 DEF coreVars, Inv, CoreTypeOK, OneUnderWay, CheckoutIsOver, CartIsHeld, ReleasedReadOnly
<1> QED
  BY <1>1, <1>2, <1>3, <1>4, <1>5 DEF CoreNext

LEMMA Invariance == CoreSpec => []Inv
BY InvInit, InvNext, PTL DEF CoreSpec

(* The columns and the queue hold what the schema and the code put there. *)
THEOREM TypeCorrect == CoreSpec => []CoreTypeOK
<1>1. Inv => CoreTypeOK
  BY DEF Inv
<1> QED
  BY <1>1, Invariance, PTL

(* Of the commands of an intent at most one is queued or under way, the one *)
(* of the row, whatever the extension posts and whenever connections end.   *)
THEOREM OnlyTheRowsCommand == CoreSpec => []OneCommandRuns
<1>1. Inv => OneCommandRuns
  BY DEF Inv, OneUnderWay, OneCommandRuns
<1> QED
  BY <1>1, Invariance, PTL

(* _release_cancelled_diagnostic frees an intent only if no command that can *)
(* change a cart was ever queued for it, and afterwards none can be.         *)
THEOREM ReleaseIsReadOnly == CoreSpec => []ReleasedReadOnly
<1>1. Inv => ReleasedReadOnly
  BY DEF Inv
<1> QED
  BY <1>1, Invariance, PTL

(* A step of the broker sends only what is queued, and puts nothing back. *)
LEMMA StepSendsOnce ==
  ASSUME Inv, [CoreNext]_coreVars, NEW k \in DOMAIN queue, queue[k].status # "QUEUED"
  PROVE  queue'[k].status \in {queue[k].status, "HALTED", "PAUSED", "DONE"}
<1>0. CoreTypeOK /\ queue \in Seq(Command) /\ \A j \in DOMAIN queue : queue[j] \in Command
  BY QueueTyped DEF Inv, CoreTypeOK
<1>1. CASE Disconnect
  BY <1>0, <1>1, HaltedFacts DEF Disconnect
<1>2. ASSUME NEW type \in Type, Enqueue(type) PROVE queue'[k].status \in {queue[k].status, "HALTED", "PAUSED", "DONE"}
  <2>1. \E q \in {queue, Halted} : \E t \in Type : queue' = Append(q, New(t))
    BY <1>2 DEF Enqueue, EnqueueStart, EnqueueResume, EnqueueCancel, EnqueueDisarm, Type, Running
  <2>2. PICK q \in {queue, Halted} : \E t \in Type : queue' = Append(q, New(t))
    BY <2>1
  <2>3. PICK t \in Type : queue' = Append(q, New(t))
    BY <2>2
  <2>4. New(t) \in Command
    BY DEF New, Command, Pending
  <2>5. q \in Seq(Command) /\ k \in DOMAIN q /\ q[k].status \in {queue[k].status, "HALTED"}
    BY <1>0, HaltedFacts
  <2>6. queue'[k] = q[k]
    BY <2>3, <2>4, <2>5, Appended
  <2> QED
    BY <2>5, <2>6
<1>3. ASSUME NEW j \in DOMAIN queue, Dispatch(j) PROVE queue'[k].status \in {queue[k].status, "HALTED", "PAUSED", "DONE"}
  <2>1. j # k
    BY <1>3 DEF Dispatch, Queued
  <2>2. queue'[k] = queue[k]
    BY <1>0, <1>3, <2>1 DEF Dispatch
  <2> QED
    BY <2>2
<1>4. ASSUME NEW m \in CoreEvent, Take(m) PROVE queue'[k].status \in {queue[k].status, "HALTED", "PAUSED", "DONE"}
  <2>1. CASE Accepts(m) /\ HandleReady(m)
    <3>1. CASE m.cmd = 0
      <4>1. queue'[k] = [queue[k] EXCEPT !.here = FALSE]
        BY <2>1, <3>1 DEF HandleReady
      <4> QED
        BY <1>0, <4>1 DEF Command
    <3>2. CASE m.cmd # 0
      <4>1. m.cmd \in DOMAIN queue /\ queue' = Ended("DONE", m)
        BY <2>1, <3>2 DEF HandleReady, Accepts
      <4> QED
        BY <1>0, <4>1, EndedFacts
    <3> QED
      BY <3>1, <3>2
  <2>2. CASE Accepts(m) /\ HandleEvent(m)
    <3>1. m.kind \in Kind /\ m.cmd \in DOMAIN queue /\ queue' = QueueAfter(m)
      BY <2>2 DEF Accepts, HandleEvent, Correlated, Kind
    <3> QED
      BY <1>0, <3>1, QueueAfterFacts
  <2> QED
    BY <1>4, <2>1, <2>2 DEF Take
<1>5. CASE UNCHANGED coreVars
  BY <1>5 DEF coreVars
<1> QED
  BY <1>1, <1>2, <1>3, <1>4, <1>5 DEF CoreNext

(* next_command dispatches a command once: whatever was sent, halted, paused *)
(* or done never goes back into the queue.                                   *)
THEOREM NothingIsSentTwice == CoreSpec => SentOnce
<1>1. Inv /\ [CoreNext]_coreVars =>
        [\A k \in DOMAIN queue :
           queue[k].status # "QUEUED" => queue'[k].status \in {queue[k].status, "HALTED", "PAUSED", "DONE"}]_coreVars
  BY StepSendsOnce
<1> QED
  BY <1>1, Invariance, PTL DEF CoreSpec, SentOnce

(* A step takes no checkout back, and reaches one only with the cart. *)
LEMMA StepKeepsCheckout ==
  ASSUME Inv, Inv', [CoreNext]_coreVars
  PROVE  /\ row'.state = "CHECKOUT_READY" => row'.cart
         /\ row.state = "CHECKOUT_READY" => row'.state = "CHECKOUT_READY"
<1>1. row'.state = "CHECKOUT_READY" => row'.cart
  BY DEF Inv, CartIsHeld
<1>2. ASSUME row.state = "CHECKOUT_READY" PROVE row'.state = "CHECKOUT_READY"
  <2>0. CoreTypeOK
    BY DEF Inv
  <2>1. CASE Disconnect
    BY <1>2, <2>0, <2>1, HaltedRowFacts DEF Disconnect
  <2>2. ASSUME NEW type \in Type, Enqueue(type) PROVE row'.state = "CHECKOUT_READY"
    <3>1. Len(queue) < MaxCommands
      BY <2>2 DEF Enqueue
    <3>2. row' \in {Claimed("QUEUED"), Claimed("CANCELLED"), HaltedRow("DISARMED")}
      BY <2>2 DEF Enqueue, EnqueueStart, EnqueueResume, EnqueueCancel, EnqueueDisarm
    <3> QED
      BY <1>2, <2>0, <3>1, <3>2, ClaimedFacts, HaltedRowFacts
  <2>3. ASSUME NEW k \in DOMAIN queue, Dispatch(k) PROVE row'.state = "CHECKOUT_READY"
    <3>1. row \in Row /\ row' \in {row, [row EXCEPT !.edge = "RUNNING"]}
      BY <2>0, <2>3, QueueTyped DEF Dispatch
    <3> QED
      BY <1>2, <3>1 DEF Row
  <2>4. ASSUME NEW m \in CoreEvent, Take(m) PROVE row'.state = "CHECKOUT_READY"
    <3>1. CASE Accepts(m) /\ HandleReady(m)
      BY <1>2, <3>1 DEF HandleReady
    <3>2. CASE Accepts(m) /\ HandleEvent(m)
      <4>1. m.kind \in Kind /\ Correlated(m) /\ InSequence(m) /\ ~Releasable(m) /\ row' = After(m)
        BY <1>2, <3>2 DEF Accepts, HandleEvent, Kind, Releasable
      <4>2. m.cmd = row.cmd
        BY <4>1 DEF Correlated
      <4>3. row.edge # "RUNNING"
        BY <1>2 DEF Inv, CheckoutIsOver
      <4>4. m.kind # "CART_READY"
        BY <4>1, <4>3 DEF InSequence
      <4> QED
        BY <1>2, <2>0, <4>1, <4>4, AfterFacts
    <3> QED
      BY <2>4, <3>1, <3>2 DEF Take
  <2>5. CASE UNCHANGED coreVars
    BY <1>2, <2>5 DEF coreVars
  <2> QED
    BY <2>1, <2>2, <2>3, <2>4, <2>5 DEF CoreNext
<1> QED
  BY <1>1, <1>2

(* The core holds a checkout only with the cart it verified, and nothing that *)
(* arrives later, a halt or a cancellation takes it back.                     *)
THEOREM CheckoutIsKept == CoreSpec => CheckoutStands
<1>1. Inv /\ Inv' /\ [CoreNext]_coreVars =>
        [/\ row'.state = "CHECKOUT_READY" => row'.cart
         /\ row.state = "CHECKOUT_READY" => row'.state = "CHECKOUT_READY"]_coreVars
  BY StepKeepsCheckout
<1> QED
  BY <1>1, Invariance, PTL DEF CoreSpec, CheckoutStands

-----------------------------------------------------------------------------
(* The flow. *)

(* What the core dispatched is on the wire or in the worker's hands, in the *)
(* order of the queue; a DISARM overtakes the commands of the intent.      *)
Acts(k) == queue[k].type # "DISARM"
Given(k) == k \in DOMAIN queue /\ queue[k].status # "QUEUED" /\ (Acts(k) => k <= row.cmd)

DeliveryOK ==
  /\ \A i \in DOMAIN worker.hands : Given(worker.hands[i].cmd)
  /\ \A i \in DOMAIN commands : Given(commands[i])
  /\ \A i, j \in DOMAIN worker.hands :
       i < j /\ Acts(worker.hands[i].cmd) /\ Acts(worker.hands[j].cmd) => worker.hands[i].cmd < worker.hands[j].cmd
  /\ \A i, j \in DOMAIN commands : i < j /\ Acts(commands[i]) /\ Acts(commands[j]) => commands[i] < commands[j]
  /\ \A i \in DOMAIN worker.hands, j \in DOMAIN commands :
       Acts(worker.hands[i].cmd) /\ Acts(commands[j]) => worker.hands[i].cmd < commands[j]

(* When the worker has cancelled, only what was dispatched later is left.  *)
Cancels(m) == m.kind = "FAILED" /\ m.code = "CANCELLED"
CancelOK ==
  \A n \in DOMAIN events : Cancels(events[n]) =>
    /\ Given(events[n].cmd) /\ Acts(events[n].cmd)
    /\ \A i \in DOMAIN worker.hands : Acts(worker.hands[i].cmd) => worker.hands[i].cmd > events[n].cmd
    /\ \A i \in DOMAIN commands : Acts(commands[i]) => commands[i] > events[n].cmd

(* A released intent has no command on its way.                            *)
ReleaseOK ==
  row.state = "ABORTED" =>
    /\ \A i \in DOMAIN worker.hands : ~Acts(worker.hands[i].cmd)
    /\ \A i \in DOMAIN commands : ~Acts(commands[i])

(* An intent that was only ever opened or cancelled has done nothing.      *)
LooksOnly == \A k \in DOMAIN queue : queue[k].type \in {"OPEN_PRODUCT", "CANCEL_INTENT", "DISARM"}
LookOK ==
  LooksOnly =>
    /\ cart.posts = 0 /\ active.journal = NoJournal /\ tab.request = NoRequest
    /\ active.openOnly \/ active.state = "NONE"
    /\ pump.at \in {"IDLE", "READ"}
OpeningOK ==
  active.state = "NONE" => worker.opening = "NO" /\ ~active.tab /\ pump.at = "IDLE"

RowCommandOK == row.cmd <= Len(queue)
EdgeOK == row.edge = "CHECKOUT_READY" => row.state = "CHECKOUT_READY"

(* The controller: a journal is of the mutation that follows the checkpoint. *)
ControlOK ==
  /\ pump.fresh => active.cmd = pump.cmd
  /\ active.journal.status = "DISPATCHED" =>
       active.checkpoint # "CHECKOUT_READY" /\ active.journal.name = Following[active.checkpoint]
  /\ active.recheck => active.checkpoint = "CART_READY"
  /\ active.empty # "NONE" => active.recheck
  /\ pump.at = "AGAIN" => active.checkpoint # "CHECKOUT_READY"
  /\ pump.at \in {"STORED", "SENT", "ANSWERED"} => active.journal.status = "DISPATCHED"

Full(doc) == doc.stage = "CART" /\ Index(doc) # "NONE"
Empty(doc) == doc.stage = "CART" /\ doc.shows = "EMPTY"
Adding == active.journal = [name |-> "ADD_TO_CART", status |-> "DISPATCHED"]
Refusals == {"HUMAN", "REFUSED", "SOLD_OUT"}
Asked == tab.request.name = "ADD_TO_CART"

(* Nothing that was submitted is there or may still arrive, and no page     *)
(* shows a cart of it: only then may the form be submitted.                *)
Clear ==
  /\ cart.items = 0 /\ ~cart.post /\ cart.posts <= active.rebuilds
  /\ ~Full(tab.doc)

RequestOK ==
  /\ pump.at = "SENT" => tab.request.name = active.journal.name
  /\ pump.at = "ANSWERED" => tab.request = NoRequest /\ pump.answer \in {"NONE", "UNKNOWN"} \cup Refusals
  /\ Asked => Adding /\ Clear /\ pump.at # "STORED" /\ ~(pump.at = "AGAIN" /\ Full(pump.again))

(* The form may be submitted before its journal is stored, and after an     *)
(* answer that proves that it was not.                                     *)
ClearOK ==
  /\ active.checkpoint \notin {"CART_READY", "CHECKOUT_READY"} /\ ~Adding => Clear
  /\ Adding /\ (pump.at = "STORED" \/ (pump.at = "ANSWERED" /\ pump.answer \in Refusals)) => Clear

(* A page that shows the cart proves that the submission has arrived.      *)
CartOK ==
  /\ cart.posts <= active.rebuilds + 1
  /\ cart.items > 0 => ~cart.post
  /\ Full(tab.doc) \/ (pump.at = "AGAIN" /\ Full(pump.again)) \/ active.checkpoint = "CART_READY" => ~cart.post

(* A verified cart that looks empty is lost, or it is the one stale answer: *)
(* two documents that look empty are a loss.                               *)
EmptyOK ==
  LET trusted == active.checkpoint = "CART_READY" \/ (pump.at = "AGAIN" /\ Full(pump.again))
      read == active.checkpoint = "CART_READY" /\ pump.at = "AGAIN" /\ Empty(pump.again)
  IN
  /\ trusted /\ Empty(tab.doc) /\ cart.items > 0 => cart.stale
  /\ active.empty # "NONE" /\ cart.items > 0 => cart.stale
  /\ active.empty = "GONE" /\ Empty(tab.doc) => cart.items = 0
  /\ read /\ cart.items > 0 => cart.stale
  /\ read /\ ~pump.here /\ Empty(tab.doc) => cart.items = 0
  /\ read /\ active.empty # "NONE" /\ ~pump.same => cart.items = 0 /\ ~Full(tab.doc)

(* What counts as a proof of a submission.                                 *)
Bears(doc) == doc.stage \in {"CART", "CHECKOUT"} /\ Index(doc) # "NONE"
ProofOK ==
  /\ cart.items > 0 \/ cart.post \/ Bears(tab.doc) \/ (pump.at = "AGAIN" /\ Bears(pump.again))
       \/ active.checkpoint \in {"CART_READY", "CHECKOUT_READY"} => cart.posts > 0
  /\ \A n \in DOMAIN events :
       events[n].kind \in {"CART_READY", "CHECKOUT_READY"} =>
         cart.posts > 0 /\ (events[n].kind = "CHECKOUT_READY" => active.checkpoint = "CHECKOUT_READY")
  /\ row.state \in {"CART_READY", "CHECKOUT_READY"} => cart.posts > 0
  /\ row.state = "CHECKOUT_READY" => active.checkpoint = "CHECKOUT_READY"

FlowInv ==
  /\ Inv /\ TypeOK
  /\ DeliveryOK /\ CancelOK /\ ReleaseOK /\ LookOK /\ OpeningOK /\ EdgeOK /\ RowCommandOK
  /\ ControlOK /\ RequestOK /\ ClearOK /\ CartOK /\ EmptyOK /\ ProofOK


-----------------------------------------------------------------------------
(* The wire. *)

LEMMA TypesOfFlow ==
  ASSUME TypeOK
  PROVE  /\ CoreTypeOK /\ host \in BOOLEAN /\ commands \in Seq(1 .. MaxCommands) /\ events \in Seq(Sendable)
         /\ active \in Controller /\ worker \in Memory /\ pump \in Round /\ tab \in Tab /\ cart \in Merchant
         /\ quirks \in Nat
BY DEF TypeOK

LEMMA TailFacts ==
  ASSUME NEW S, NEW s \in Seq(S), s # <<>>
  PROVE  /\ Head(s) \in S /\ Head(s) = s[1] /\ 1 \in DOMAIN s
         /\ Tail(s) \in Seq(S)
         /\ \A i \in DOMAIN Tail(s) : i \in Nat \ {0} /\ i + 1 \in DOMAIN s /\ Tail(s)[i] = s[i + 1]
<1>1. Len(s) \in Nat /\ Len(s) # 0 /\ DOMAIN s = 1 .. Len(s)
  BY LenProperties, EmptySeq
<1>2. /\ Head(s) \in S /\ Head(s) = s[1] /\ Tail(s) \in Seq(S) /\ Len(Tail(s)) = Len(s) - 1
      /\ \A i \in 1 .. Len(Tail(s)) : Tail(s)[i] = s[i + 1]
  BY HeadTailProperties
<1>3. DOMAIN Tail(s) = 1 .. Len(Tail(s))
  BY <1>2, LenProperties
<1> QED
  BY <1>1, <1>2, <1>3

(* Every step of the flow is a step of the core or leaves it alone.         *)
LEMMA StepOfCore == ASSUME TypeOK, [Next]_vars PROVE [CoreNext]_coreVars
<1>1. ASSUME NEW type \in Types, EnqueueCommand(type) PROVE CoreNext
  BY <1>1, CartFlowAssumption DEF EnqueueCommand, CoreNext
<1>2. ASSUME NEW k \in DOMAIN queue, HostSends(k) PROVE CoreNext
  BY <1>2 DEF HostSends, CoreNext
<1>3. CASE HostTakes
  <2>1. CASE Accepts(Head(events))
    <3>1. Head(events) \in Sendable
      BY <1>3, TypesOfFlow, TailFacts DEF HostTakes
    <3>2. Take(Head(events))
      BY <1>3, <2>1 DEF HostTakes
    <3>3. \E m \in CoreEvent : /\ m.code = "REBUILDING" => m.kind = "PAGE_OPENED"
                               /\ m.code = "CANCELLED" => m.kind = "FAILED"
                               /\ Take(m)
      BY <3>1, <3>2 DEF Sendable
    <3> QED
      BY <3>3 DEF CoreNext
  <2>2. CASE ~Accepts(Head(events))
    BY <1>3, <2>2 DEF HostTakes, CoreNext
  <2> QED
    BY <2>1, <2>2
<1>4. CASE HostEnds
  BY <1>4 DEF HostEnds, CoreNext
<1>5. CASE Connect
  BY <1>5 DEF Connect, CoreNext
<1>6. CASE LosePort \/ WorkerRestarts \/ Handle
  BY <1>6 DEF LosePort, WorkerRestarts, Handle, Receive, DropCommand, ActOnDisarm, ActOnCancel, ActOnResume,
    ActOnStart, CreateTab, TabArrives
<1>7. CASE Pump \/ Page
  BY <1>7 DEF Pump, Page, PumpBegins, PumpDrops, PumpObserves, PumpDecides, PumpVerifies, PumpReports, PumpSends,
    PumpHears, PageActs, RequestLost
<1>8. CASE Loads \/ Environment
  BY <1>8 DEF Loads, Environment, LoadsOddly, LoadsStale, Shows, TakesPost, RefusesPost, CartIsLost, PageChanges,
    TabFails, UserClosesTab, UserGoesTo
<1>9. CASE UNCHANGED vars
  BY <1>9 DEF vars
<1> QED
  BY <1>1, <1>2, <1>3, <1>4, <1>5, <1>6, <1>7, <1>8, <1>9 DEF Next

(* The queue only grows, and a command keeps its type.                      *)
LEMMA QueueGrows ==
  ASSUME Inv, RowCommandOK, [CoreNext]_coreVars
  PROVE  /\ \A k \in DOMAIN queue : k \in DOMAIN queue' /\ queue'[k].type = queue[k].type
         /\ row.cmd <= row'.cmd /\ RowCommandOK'
<1>0. /\ CoreTypeOK /\ queue \in Seq(Command) /\ \A j \in DOMAIN queue : queue[j] \in Command
      /\ row \in Row /\ row.cmd \in 0 .. MaxCommands /\ MaxCommands \in Nat /\ Len(queue) \in Nat
      /\ DOMAIN queue = 1 .. Len(queue)
  BY QueueTyped, CommandsAssumption DEF Inv, CoreTypeOK, Row
<1> DEFINE P == /\ \A k \in DOMAIN queue : k \in DOMAIN queue' /\ queue'[k].type = queue[k].type
                /\ row'.cmd = row.cmd \/ (row'.cmd = Len(queue) + 1 /\ row'.cmd \in DOMAIN queue')
<1>1. ASSUME Disconnect PROVE P
  BY <1>0, <1>1, HaltedFacts, HaltedRowFacts DEF Disconnect
<1>2. ASSUME NEW type \in Type, Enqueue(type) PROVE P
  <2>1. PICK q \in {queue, Halted} : \E t \in Type : queue' = Append(q, New(t))
    BY <1>2 DEF Enqueue, EnqueueStart, EnqueueResume, EnqueueCancel, EnqueueDisarm, Type, Running
  <2>2. PICK t \in Type : queue' = Append(q, New(t))
    BY <2>1
  <2>3. New(t) \in Command
    BY DEF New, Command, Pending
  <2>4. q \in Seq(Command) /\ DOMAIN q = DOMAIN queue /\ \A k \in DOMAIN queue : q[k].type = queue[k].type
    BY <1>0, HaltedFacts
  <2>5. /\ \A k \in DOMAIN queue : k \in DOMAIN queue' /\ queue'[k].type = queue[k].type
        /\ Len(q) + 1 \in DOMAIN queue'
    BY <2>2, <2>3, <2>4, Appended
  <2>8. Len(q) = Len(queue)
    BY <1>0, HaltedFacts
  <2>6. row' \in {Claimed("QUEUED"), Claimed("CANCELLED"), HaltedRow("DISARMED")} /\ Len(queue) < MaxCommands
    BY <1>2 DEF Enqueue, EnqueueStart, EnqueueResume, EnqueueCancel, EnqueueDisarm
  <2>7. row'.cmd \in {Len(queue) + 1, row.cmd}
    BY <1>0, <2>6, ClaimedFacts, HaltedRowFacts
  <2> QED
    BY <1>0, <2>5, <2>7, <2>8
<1>3. ASSUME NEW j \in DOMAIN queue, Dispatch(j) PROVE P
  <2>1. queue' = [queue EXCEPT ![j] = [queue[j] EXCEPT !.status = "DISPATCHED", !.here = TRUE]]
    BY <1>0, <1>3 DEF Dispatch, Command
  <2>2. \A k \in DOMAIN queue : k \in DOMAIN queue' /\ queue'[k].type = queue[k].type
    BY <1>0, <2>1 DEF Command
  <2>3. row'.cmd = row.cmd
    BY <1>0, <1>3 DEF Dispatch, Row
  <2> QED
    BY <1>0, <2>2, <2>3
<1>4. ASSUME NEW m \in CoreEvent, Take(m) PROVE P
  <2>1. CASE Accepts(m) /\ HandleReady(m)
    <3>1. row' = row
      BY <2>1 DEF HandleReady
    <3>2. CASE m.cmd = 0
      BY <1>0, <2>1, <3>1, <3>2 DEF HandleReady, Command
    <3>3. CASE m.cmd # 0
      <4>1. m.cmd \in DOMAIN queue /\ queue' = Ended("DONE", m)
        BY <2>1, <3>3 DEF HandleReady, Accepts
      <4> QED
        BY <1>0, <3>1, <4>1, EndedFacts
    <3> QED
      BY <3>2, <3>3
  <2>2. CASE Accepts(m) /\ HandleEvent(m)
    <3>1. m.kind \in Kind /\ m.cmd \in DOMAIN queue /\ queue' = QueueAfter(m)
      BY <2>2 DEF Accepts, HandleEvent, Correlated, Kind
    <3>2. row' = IF Releasable(m) THEN [After(m) EXCEPT !.state = "ABORTED", !.current = FALSE] ELSE After(m)
      BY <2>2 DEF HandleEvent
    <3>3. After(m) \in Row /\ After(m).cmd = row.cmd
      BY <1>0, <3>1, AfterFacts
    <3>4. row'.cmd = row.cmd
      BY <3>2, <3>3 DEF Row
    <3> QED
      BY <1>0, <3>1, <3>4, QueueAfterFacts
  <2> QED
    BY <1>4, <2>1, <2>2 DEF Take
<1>5. ASSUME UNCHANGED coreVars PROVE P
  BY <1>0, <1>5 DEF coreVars
<1>6. P
  BY <1>1, <1>2, <1>3, <1>4, <1>5 DEF CoreNext
<1>7. Len(queue') \in Nat /\ DOMAIN queue' = 1 .. Len(queue')
  <2>1. Inv'
    BY InvNext
  <2>2. queue' \in Seq(Command)
    BY <2>1 DEF Inv, CoreTypeOK
  <2> QED
    BY <2>2, LenProperties
<1> QED
  BY <1>0, <1>6, <1>7 DEF RowCommandOK

(* Only an event that is accepted moves the state of the intent.            *)
LEMMA StateStays ==
  ASSUME Inv, Disconnect \/ (\E type \in Type : Enqueue(type)) \/ (\E k \in DOMAIN queue : Dispatch(k))
              \/ UNCHANGED coreVars
  PROVE  row'.state = row.state /\ (row'.edge = row.edge \/ row'.edge # "CHECKOUT_READY")
<1>0. CoreTypeOK /\ row \in Row
  BY QueueTyped DEF Inv
<1>1. CASE Disconnect
  BY <1>0, <1>1, HaltedRowFacts DEF Disconnect
<1>2. CASE \E type \in Type : Enqueue(type)
  <2>1. row' \in {Claimed("QUEUED"), Claimed("CANCELLED"), HaltedRow("DISARMED")} /\ Len(queue) < MaxCommands
    BY <1>2 DEF Enqueue, EnqueueStart, EnqueueResume, EnqueueCancel, EnqueueDisarm
  <2> QED
    BY <1>0, <2>1, ClaimedFacts, HaltedRowFacts
<1>3. CASE \E k \in DOMAIN queue : Dispatch(k)
  BY <1>0, <1>3 DEF Dispatch, Row
<1>4. CASE UNCHANGED coreVars
  BY <1>4 DEF coreVars
<1> QED
  BY <1>1, <1>2, <1>3, <1>4

LEMMA EventMoves ==
  ASSUME Inv, EdgeOK, NEW m \in CoreEvent, Take(m)
  PROVE  /\ EdgeOK'
         /\ \/ row'.state = row.state
            \/ m.kind \in {"CART_READY", "CHECKOUT_READY"} /\ row'.state = m.kind
            \/ row'.state = "ABORTED" /\ Cancels(m) /\ m.cmd = row.cmd /\ row'.cmd = row.cmd
<1>0. CoreTypeOK /\ row \in Row
  BY QueueTyped DEF Inv
<1>1. CASE Accepts(m) /\ HandleReady(m)
  BY <1>1 DEF HandleReady, EdgeOK
<1>2. CASE Accepts(m) /\ HandleEvent(m)
  <2>1. /\ m.kind \in Kind /\ Correlated(m) /\ InSequence(m) /\ m.cmd = row.cmd
        /\ row' = IF Releasable(m) THEN [After(m) EXCEPT !.state = "ABORTED", !.current = FALSE] ELSE After(m)
    BY <1>2 DEF Accepts, HandleEvent, Kind, Correlated
  <2>2. /\ After(m) \in Row /\ After(m).cmd = row.cmd
        /\ \/ After(m).state = row.state
           \/ m.kind \in {"CART_READY", "CHECKOUT_READY"} /\ After(m).state = m.kind
    BY <1>0, <2>1, AfterFacts
  <2>3. ASSUME After(m).edge = "CHECKOUT_READY" PROVE m.kind = "CHECKOUT_READY" /\ After(m).state = m.kind
    <3>1. m.kind # "CHECKOUT_READY" => row.edge = "CHECKOUT_READY"
      BY <1>0, <2>1, <2>3, AfterFacts DEF Kind
    <3>2. row.edge = "CHECKOUT_READY" => m.kind \in {"FAILED", "SITE_CHANGED", "SOLD_OUT"}
      BY <2>1 DEF InSequence, Kind, Paused, ReadsOpened, Finished
    <3>3. m.kind \notin {"FAILED", "SITE_CHANGED", "SOLD_OUT"}
      BY <1>0, <2>1, <2>3, AfterFacts
    <3> QED
      BY <1>0, <2>1, <3>1, <3>2, <3>3, AfterFacts
  <2>4. CASE Releasable(m)
    <3>1. Acknowledged(m) /\ Cancels(m)
      BY <2>4 DEF Releasable, Acknowledged, Cancels
    <3>2. row'.state = "ABORTED" /\ row'.edge = After(m).edge /\ row'.cmd = After(m).cmd
      BY <2>1, <2>2, <2>4 DEF Row
    <3> QED
      BY <2>1, <2>2, <2>3, <3>1, <3>2 DEF EdgeOK, Cancels
  <2>5. CASE ~Releasable(m)
    BY <2>1, <2>2, <2>3, <2>5 DEF EdgeOK
  <2> QED
    BY <2>4, <2>5
<1> QED
  BY <1>1, <1>2 DEF Take

-----------------------------------------------------------------------------
(* The commands on their way. *)

(* Nothing new is dispatched; at most the first command leaves the hands, and *)
(* if the worker says that it cancelled, that is the one.                   *)
LEMMA OnTheirWay ==
  ASSUME DeliveryOK, CancelOK, ReleaseOK,
         \A k \in DOMAIN queue : /\ k \in DOMAIN queue' /\ queue'[k].type = queue[k].type
                                 /\ queue[k].status # "QUEUED" => queue'[k].status # "QUEUED",
         row.cmd <= row'.cmd, row.cmd \in Nat, row'.cmd \in Nat, DOMAIN queue \subseteq Nat,
         NEW d \in {0, 1},
         \A i \in DOMAIN worker'.hands : i \in Nat \ {0} /\ i + d \in DOMAIN worker.hands
                                           /\ worker'.hands[i].cmd = worker.hands[i + d].cmd,
         d = 1 => 1 \in DOMAIN worker.hands,
         commands' \in {commands, <<>>},
         \A n \in DOMAIN events' :
           \/ \E k \in DOMAIN events : events'[n] = events[k]
           \/ ~Cancels(events'[n])
           \/ d = 1 /\ events'[n].cmd = worker.hands[1].cmd /\ Acts(worker.hands[1].cmd)
  PROVE  DeliveryOK' /\ CancelOK' /\ ((row'.state = "ABORTED" => row.state = "ABORTED") => ReleaseOK')
<1> DEFINE acts(k) == queue'[k].type # "DISARM"
           given(k) == k \in DOMAIN queue' /\ queue'[k].status # "QUEUED" /\ (acts(k) => k <= row'.cmd)
<1>0. DOMAIN <<>> = {}
  OBVIOUS
<1>1. \A k : Given(k) => k \in Nat /\ given(k) /\ (acts(k) <=> Acts(k))
  BY DEF Given, Acts
<1>2. /\ \A i \in DOMAIN worker.hands : Given(worker.hands[i].cmd)
      /\ \A i \in DOMAIN commands : Given(commands[i])
  BY DEF DeliveryOK
<1>3. \A i \in DOMAIN commands' : i \in DOMAIN commands /\ commands'[i] = commands[i]
  BY <1>0
<1>4. \A i \in DOMAIN worker'.hands :
        /\ i \in Nat /\ i + d \in DOMAIN worker.hands /\ worker'.hands[i].cmd = worker.hands[i + d].cmd
        /\ worker.hands[i + d].cmd \in Nat /\ given(worker.hands[i + d].cmd)
        /\ acts(worker.hands[i + d].cmd) <=> Acts(worker.hands[i + d].cmd)
  BY <1>1, <1>2
<1>5. \A i \in DOMAIN commands' :
        /\ i \in DOMAIN commands /\ commands'[i] = commands[i]
        /\ commands[i] \in Nat /\ given(commands[i]) /\ (acts(commands[i]) <=> Acts(commands[i]))
  BY <1>1, <1>2, <1>3
<1> HIDE DEF acts, given
<1>6. /\ \A i \in DOMAIN worker'.hands : given(worker'.hands[i].cmd)
      /\ \A i \in DOMAIN commands' : given(commands'[i])
      /\ \A i, j \in DOMAIN worker'.hands :
           i < j /\ acts(worker'.hands[i].cmd) /\ acts(worker'.hands[j].cmd) => worker'.hands[i].cmd < worker'.hands[j].cmd
      /\ \A i, j \in DOMAIN commands' : i < j /\ acts(commands'[i]) /\ acts(commands'[j]) => commands'[i] < commands'[j]
      /\ \A i \in DOMAIN worker'.hands, j \in DOMAIN commands' :
           acts(worker'.hands[i].cmd) /\ acts(commands'[j]) => worker'.hands[i].cmd < commands'[j]
  <2>1. \A i, j \in DOMAIN worker'.hands :
           i < j /\ acts(worker'.hands[i].cmd) /\ acts(worker'.hands[j].cmd) => worker'.hands[i].cmd < worker'.hands[j].cmd
    <3> SUFFICES ASSUME NEW i \in DOMAIN worker'.hands, NEW j \in DOMAIN worker'.hands, i < j,
                        acts(worker'.hands[i].cmd), acts(worker'.hands[j].cmd)
                 PROVE  worker'.hands[i].cmd < worker'.hands[j].cmd
      OBVIOUS
    <3>1. i + d < j + d
      BY <1>4
    <3> QED
      BY <1>4, <3>1 DEF DeliveryOK
  <2> QED
    BY <1>4, <1>5, <2>1 DEF DeliveryOK
<1>7. DeliveryOK'
  BY <1>6 DEF DeliveryOK, Given, Acts, given, acts
<1>8. ASSUME NEW n \in DOMAIN events', Cancels(events'[n])
      PROVE  /\ given(events'[n].cmd) /\ acts(events'[n].cmd)
             /\ \A i \in DOMAIN worker'.hands : acts(worker'.hands[i].cmd) => worker'.hands[i].cmd > events'[n].cmd
             /\ \A i \in DOMAIN commands' : acts(commands'[i]) => commands'[i] > events'[n].cmd
  <2>1. CASE \E k \in DOMAIN events : events'[n] = events[k]
    <3>1. PICK k \in DOMAIN events : events'[n] = events[k]
      BY <2>1
    <3>2. /\ Given(events[k].cmd) /\ Acts(events[k].cmd)
          /\ \A i \in DOMAIN worker.hands : Acts(worker.hands[i].cmd) => worker.hands[i].cmd > events[k].cmd
          /\ \A i \in DOMAIN commands : Acts(commands[i]) => commands[i] > events[k].cmd
      BY <1>8, <3>1 DEF CancelOK
    <3> QED
      BY <1>1, <1>4, <1>5, <3>1, <3>2
  <2>2. CASE d = 1 /\ events'[n].cmd = worker.hands[1].cmd /\ Acts(worker.hands[1].cmd)
    <3>1. 1 \in DOMAIN worker.hands /\ Given(worker.hands[1].cmd)
      BY <1>2, <2>2
    <3>2. \A i \in DOMAIN worker'.hands : acts(worker'.hands[i].cmd) => worker'.hands[i].cmd > events'[n].cmd
      <4> SUFFICES ASSUME NEW i \in DOMAIN worker'.hands, acts(worker'.hands[i].cmd)
                   PROVE  worker'.hands[i].cmd > events'[n].cmd
        OBVIOUS
      <4>1. 1 < i + d
        BY <2>2
      <4>3. worker.hands[1].cmd < worker.hands[i + d].cmd
        BY <1>4, <2>2, <3>1, <4>1 DEF DeliveryOK
      <4> QED
        BY <1>1, <1>4, <2>2, <3>1, <4>3
    <3>3. \A i \in DOMAIN commands' : acts(commands'[i]) => commands'[i] > events'[n].cmd
      BY <1>1, <1>5, <2>2, <3>1 DEF DeliveryOK
    <3> QED
      BY <1>1, <2>2, <3>1, <3>2, <3>3
  <2> QED
    BY <1>8, <2>1, <2>2
<1>9. CancelOK'
  BY <1>8 DEF CancelOK, Given, Acts, given, acts
<1>10. ASSUME row'.state = "ABORTED" => row.state = "ABORTED" PROVE ReleaseOK'
  <2>1. row'.state = "ABORTED" =>
          /\ \A i \in DOMAIN worker'.hands : ~acts(worker'.hands[i].cmd)
          /\ \A i \in DOMAIN commands' : ~acts(commands'[i])
    BY <1>4, <1>5, <1>10 DEF ReleaseOK
  <2> QED
    BY <2>1 DEF ReleaseOK, Acts, acts
<1> QED
  BY <1>7, <1>9, <1>10


-----------------------------------------------------------------------------
(* What an action leaves behind: its types, and, unless it is one of those  *)
(* that move a command, the commands where they are.                       *)

FlowTypes ==
  /\ host \in BOOLEAN /\ commands \in Seq(1 .. MaxCommands) /\ events \in Seq(Sendable)
  /\ active \in Controller /\ worker \in Memory /\ pump \in Round /\ tab \in Tab /\ cart \in Merchant
  /\ quirks \in Nat

SameHands(w) ==
  \A i \in DOMAIN w.hands : i \in DOMAIN worker.hands /\ w.hands[i].cmd = worker.hands[i].cmd

Ready(m) == m.kind \in {"CART_READY", "CHECKOUT_READY"}
Plain(m) == ~Cancels(m) /\ ~Ready(m)

WireStays ==
  /\ UNCHANGED coreVars
  /\ SameHands(worker')
  /\ commands' \in {commands, <<>>}
  /\ \A n \in DOMAIN events' : (\E k \in DOMAIN events : events'[n] = events[k]) \/ ~Cancels(events'[n])

NoneReady ==
  \A n \in DOMAIN events' : (\E k \in DOMAIN events : events'[n] = events[k]) \/ ~Ready(events'[n])

LEMMA SingleFacts ==
  ASSUME NEW S, NEW x \in S
  PROVE  <<x>> \in Seq(S) /\ Len(<<x>>) = 1 /\ DOMAIN <<x>> = {1} /\ <<x>>[1] = x
OBVIOUS

LEMMA JoinFacts ==
  ASSUME NEW S, NEW s \in Seq(S), NEW t \in Seq(S)
  PROVE  /\ s \o t \in Seq(S)
         /\ \A n \in DOMAIN (s \o t) :
              (\E k \in DOMAIN s : (s \o t)[n] = s[k]) \/ (\E k \in DOMAIN t : (s \o t)[n] = t[k])
<1>1. /\ s \o t \in Seq(S) /\ Len(s \o t) = Len(s) + Len(t)
      /\ \A i \in 1 .. Len(s) + Len(t) : (s \o t)[i] = IF i <= Len(s) THEN s[i] ELSE t[i - Len(s)]
  BY ConcatProperties
<1>2. /\ Len(s) \in Nat /\ Len(t) \in Nat /\ DOMAIN s = 1 .. Len(s) /\ DOMAIN t = 1 .. Len(t)
      /\ DOMAIN (s \o t) = 1 .. Len(s) + Len(t)
  BY <1>1, LenProperties
<1> QED
  BY <1>1, <1>2

LEMMA Posted ==
  ASSUME FlowTypes, NEW new \in Seq(Sendable), Post(new)
  PROVE  /\ events' \in Seq(Sendable) /\ host' = host /\ commands' = commands
         /\ \A n \in DOMAIN events' :
              (\E k \in DOMAIN events : events'[n] = events[k]) \/ (\E k \in DOMAIN new : events'[n] = new[k])
<1>1. (events' = events \/ events' = events \o new) /\ host' = host /\ commands' = commands
  BY DEF Post
<1>2. events \in Seq(Sendable)
  BY DEF FlowTypes
<1>3. CASE events' = events
  BY <1>1, <1>2, <1>3
<1>4. CASE events' = events \o new
  BY <1>1, <1>2, <1>4, JoinFacts
<1> QED
  BY <1>1, <1>3, <1>4

LEMMA EventFacts ==
  ASSUME NEW cmd \in 0 .. MaxCommands, NEW kind \in Kind \cup {"READY"}
  PROVE  /\ Event(kind, cmd) \in Sendable /\ Event(kind, cmd).kind = kind /\ Event(kind, cmd).cmd = cmd
         /\ ~Cancels(Event(kind, cmd))
         /\ [Event("FAILED", cmd) EXCEPT !.code = "CANCELLED"] \in Sendable
         /\ [Event("FAILED", cmd) EXCEPT !.code = "CANCELLED"].cmd = cmd
         /\ ~Ready([Event("FAILED", cmd) EXCEPT !.code = "CANCELLED"])
BY DEF Event, Sendable, CoreEvent, Cancels, Ready, Kind

LEMMA OpenedFacts ==
  ASSUME FlowTypes, NEW code \in {"NONE", "REBUILDING"}
  PROVE  Opened(code) \in Sendable /\ ~Cancels(Opened(code)) /\ ~Ready(Opened(code))
BY DEF FlowTypes, Controller, Opened, Sendable, CoreEvent, Cancels, Ready, Kind

LEMMA BumpedFacts ==
  ASSUME FlowTypes
  PROVE  /\ Bumped \in Memory /\ SameHands(Bumped) /\ DOMAIN Bumped.hands = DOMAIN worker.hands
         /\ Bumped.on = worker.on /\ Bumped.normal = FALSE
         /\ Bumped.opening = IF worker.opening = "STORED" THEN "VOID" ELSE worker.opening
<1> DEFINE hands == Stale(worker.hands)
           opening == IF worker.opening = "STORED" THEN "VOID" ELSE worker.opening
           R == [cmd : 1 .. MaxCommands, fresh : BOOLEAN]
<1>1. worker \in Memory /\ worker.hands \in Seq(R)
  BY DEF FlowTypes, Memory
<1>2. Len(worker.hands) \in Nat /\ DOMAIN worker.hands = 1 .. Len(worker.hands)
      /\ \A i \in DOMAIN worker.hands : worker.hands[i] \in R
  BY <1>1, LenProperties, ElementOfSeq
<1>3. /\ hands \in [1 .. Len(worker.hands) -> R] /\ DOMAIN hands = DOMAIN worker.hands
      /\ \A i \in DOMAIN worker.hands : hands[i].cmd = worker.hands[i].cmd
  BY <1>2 DEF Stale
<1> HIDE DEF R
<1>4. hands \in Seq(R)
  BY <1>2, <1>3, SeqDef
<1>5. Bumped = [worker EXCEPT !.normal = FALSE, !.hands = hands, !.opening = opening]
  BY DEF Bumped
<1>6. opening \in {"NO", "STORED", "VOID", "CREATING"}
  BY <1>1 DEF Memory
<1> USE DEF R
<1> HIDE DEF hands, opening
<1>7. Bumped \in Memory /\ Bumped.hands = hands /\ Bumped.on = worker.on /\ Bumped.normal = FALSE
      /\ Bumped.opening = opening
  BY <1>1, <1>4, <1>5, <1>6 DEF Memory
<1> QED
  BY <1>3, <1>7 DEF SameHands, opening

(* A pause keeps everything of the record but the state.                    *)
LEMMA PauseMoves ==
  ASSUME FlowTypes, NEW a \in Controller, NEW state \in Resumable,
         NEW kind \in {"FAILED", "SITE_CHANGED", "HUMAN", "SOLD_OUT"},
         NEW before \in {<<>>, <<Opened("NONE")>>}, Pause(a, state, kind, before)
  PROVE  /\ active' = [a EXCEPT !.state = state] /\ active' \in Controller
         /\ worker' = Bumped /\ worker' \in Memory /\ SameHands(worker')
         /\ events' \in Seq(Sendable) /\ host' = host /\ commands' = commands
         /\ \A n \in DOMAIN events' : (\E k \in DOMAIN events : events'[n] = events[k]) \/ Plain(events'[n])
<1> DEFINE u == a.journal.status = "DISPATCHED"
           m == [Event(kind, a.cmd) EXCEPT !.uncertain = u]
<1>1. m \in Sendable /\ Plain(m)
  <2>1. a.cmd \in 0 .. MaxCommands /\ u \in BOOLEAN /\ kind \in Kind
    BY DEF Controller, Kind
  <2> HIDE DEF u
  <2>2. m = [kind |-> kind, code |-> "NONE", cmd |-> a.cmd, uncertain |-> u]
    BY DEF Event
  <2>3. m \in Sendable /\ m.kind = kind /\ ~Cancels(m)
    BY <2>1, <2>2 DEF Sendable, CoreEvent, Cancels
  <2> QED
    BY <2>3 DEF Plain, Ready
<1>2. before \in Seq(Sendable) /\ \A k \in DOMAIN before : Plain(before[k])
  <2>1. <<>> \in Seq(Sendable) /\ DOMAIN <<>> = {}
    OBVIOUS
  <2>2. Opened("NONE") \in Sendable /\ Plain(Opened("NONE"))
    BY OpenedFacts DEF Plain
  <2>3. <<Opened("NONE")>> \in Seq(Sendable) /\ \A k \in DOMAIN <<Opened("NONE")>> : Plain(<<Opened("NONE")>>[k])
    BY <2>2, SingleFacts
  <2>4. CASE before = <<>>
    BY <2>1, <2>4
  <2>5. CASE before = <<Opened("NONE")>>
    BY <2>3, <2>5
  <2> QED
    BY <2>4, <2>5
<1>3. active' = [a EXCEPT !.state = state] /\ worker' = Bumped /\ Post(Append(before, m))
  BY DEF Pause
<1> HIDE DEF m
<1>4. /\ Append(before, m) \in Seq(Sendable)
      /\ \A k \in DOMAIN Append(before, m) : Plain(Append(before, m)[k])
  <2>1. /\ Append(before, m) \in Seq(Sendable) /\ Len(Append(before, m)) = Len(before) + 1
        /\ \A k \in 1 .. Len(before) : Append(before, m)[k] = before[k]
        /\ Append(before, m)[Len(before) + 1] = m
    BY <1>1, <1>2, AppendProperties
  <2>2. DOMAIN Append(before, m) = 1 .. Len(before) + 1 /\ DOMAIN before = 1 .. Len(before) /\ Len(before) \in Nat
    BY <1>2, <2>1, LenProperties
  <2> QED
    BY <1>1, <1>2, <2>1, <2>2
<1>5. active' \in Controller
  BY <1>3 DEF Controller
<1> QED
  BY <1>3, <1>4, <1>5, BumpedFacts, Posted

-----------------------------------------------------------------------------
(* What is kept of a round of the pump, of the record and of the page when  *)
(* nothing that the invariant speaks of moves.                             *)

RecordStays ==
  /\ active'.checkpoint = active.checkpoint /\ active'.journal = active.journal
  /\ active'.rebuilds = active.rebuilds /\ active'.recheck = active.recheck
  /\ active'.empty = active.empty /\ active'.openOnly = active.openOnly
  /\ active'.state = "NONE" <=> active.state = "NONE"
  /\ active'.state = "NONE" =>
       worker'.opening \in {worker.opening, "NO"} /\ active'.tab = active.tab /\ pump'.at \in {pump.at, "IDLE"}

PumpRests ==
  \/ pump'.at \in {"IDLE", "READ"}
  \/ /\ pump'.at = pump.at /\ pump'.again = pump.again /\ pump'.here = pump.here
     /\ pump'.same = pump.same /\ pump'.answer = pump.answer

FreshStays == pump'.fresh => active'.cmd = pump'.cmd

PageStays == cart' = cart /\ tab'.doc = tab.doc /\ tab'.request = tab.request

Rests == RecordStays /\ PumpRests /\ FreshStays /\ PageStays

PartsOK == LookOK /\ OpeningOK /\ ControlOK /\ RequestOK /\ ClearOK /\ CartOK /\ EmptyOK

Moves == FlowTypes' /\ WireStays /\ NoneReady
Quiet == Moves /\ Rests

LEMMA RestKeeps ==
  ASSUME PartsOK, Rests, LooksOnly' => LooksOnly
  PROVE  PartsOK'
<1>1. LookOK'
  BY DEF PartsOK, Rests, RecordStays, PumpRests, PageStays, LookOK
<1>2. OpeningOK'
  BY DEF PartsOK, Rests, RecordStays, OpeningOK
<1>3. ControlOK'
  BY DEF PartsOK, Rests, RecordStays, PumpRests, FreshStays, ControlOK
<1>4. RequestOK'
  BY DEF PartsOK, Rests, RecordStays, PumpRests, PageStays, RequestOK, Asked, Adding, Clear, Full
<1>5. ClearOK'
  BY DEF PartsOK, Rests, RecordStays, PumpRests, PageStays, ClearOK, Adding, Clear, Refusals
<1>6. CartOK'
  BY DEF PartsOK, Rests, RecordStays, PumpRests, PageStays, CartOK
<1>7. EmptyOK'
  BY DEF PartsOK, Rests, RecordStays, PumpRests, PageStays, EmptyOK
<1> QED
  BY <1>1, <1>2, <1>3, <1>4, <1>5, <1>6, <1>7 DEF PartsOK

-----------------------------------------------------------------------------
(* The actions that leave all of this at rest. *)

LEMMA IdleFacts ==
  ASSUME FlowTypes
  PROVE  /\ IdlePump \in Round /\ IdlePump.at = "IDLE" /\ IdlePump.fresh = FALSE
         /\ Voided \in Round /\ Voided.fresh = FALSE /\ Voided.at = pump.at /\ Voided.again = pump.again
         /\ Voided.here = pump.here /\ Voided.same = pump.same /\ Voided.answer = pump.answer
<1>1. 0 \in 0 .. MaxCommands
  BY CommandsAssumption
<1>2. NoDocument \in Document
  BY DEF NoDocument, Document
<1>3. pump \in Round
  BY DEF FlowTypes
<1>4. IdlePump \in Round /\ IdlePump.at = "IDLE" /\ IdlePump.fresh = FALSE
  BY <1>1, <1>2 DEF IdlePump, Round
<1> QED
  BY <1>3, <1>4 DEF Voided, Round

LEMMA EmptyHands ==
  ASSUME NEW on \in BOOLEAN
  PROVE  /\ [on |-> on, normal |-> FALSE, opening |-> "NO", hands |-> <<>>] \in Memory
         /\ <<>> \in Seq(1 .. MaxCommands) /\ DOMAIN <<>> = {}
BY DEF Memory

LEMMA SilentWire ==
  ASSUME FlowTypes, UNCHANGED coreVars, SameHands(worker'), Silent
  PROVE  /\ host' \in BOOLEAN /\ commands' \in Seq(1 .. MaxCommands) /\ events' \in Seq(Sendable)
         /\ WireStays /\ NoneReady
BY DEF FlowTypes, Silent, linkVars, WireStays, NoneReady

LEMMA KeptHands == ASSUME worker' = worker PROVE SameHands(worker')
BY DEF SameHands

LEMMA PausesQuietly ==
  ASSUME FlowTypes, PartsOK, active.state # "NONE", NEW state \in Resumable,
         NEW kind \in {"FAILED", "SITE_CHANGED", "HUMAN", "SOLD_OUT"},
         NEW before \in {<<>>, <<Opened("NONE")>>}, Pause(active, state, kind, before),
         pump'.at \in {"IDLE", "READ"} \/ PumpRests, pump' \in Round, pump'.fresh = FALSE,
         UNCHANGED coreVars, tab' = tab, cart' = cart, quirks' \in Nat
  PROVE  Quiet
<1>1. /\ active' = [active EXCEPT !.state = state] /\ active' \in Controller
      /\ worker' \in Memory /\ SameHands(worker')
      /\ events' \in Seq(Sendable) /\ host' = host /\ commands' = commands
      /\ \A n \in DOMAIN events' : (\E k \in DOMAIN events : events'[n] = events[k]) \/ Plain(events'[n])
  BY PauseMoves DEF FlowTypes
<1>2. FlowTypes'
  BY <1>1 DEF FlowTypes
<1>3. WireStays /\ NoneReady
  BY <1>1 DEF WireStays, NoneReady, Plain
<1>4. RecordStays
  BY <1>1 DEF RecordStays, FlowTypes, Controller, Resumable
<1>5. PumpRests /\ FreshStays /\ PageStays
  BY DEF PumpRests, FreshStays, PageStays
<1> QED
  BY <1>2, <1>3, <1>4, <1>5 DEF Quiet, Moves, Rests

LEMMA PumpPausesQuietly ==
  ASSUME FlowTypes, PartsOK, active.state # "NONE", NEW state \in Resumable,
         NEW kind \in {"FAILED", "SITE_CHANGED", "HUMAN", "SOLD_OUT"},
         NEW before \in {<<>>, <<Opened("NONE")>>}, PumpPauses(active, state, kind, before),
         UNCHANGED <<coreVars, tab, cart, quirks>>
  PROVE  Quiet
<1>1. Pause(active, state, kind, before) /\ pump' = IdlePump
  BY DEF PumpPauses, PumpEnds
<1>2. tab' = tab /\ cart' = cart /\ quirks' \in Nat /\ UNCHANGED coreVars
  BY DEF FlowTypes
<1> QED
  BY <1>1, <1>2, IdleFacts, PausesQuietly

LEMMA LosesQuietly == ASSUME FlowTypes, PartsOK, LosePort PROVE Quiet
<1>1. /\ worker' = [Bumped EXCEPT !.on = FALSE] /\ pump' = Voided
      /\ active' = IF active.state \in Terminal \cup {"NONE"} THEN active ELSE [active EXCEPT !.state = "PAUSED_DISCONNECTED"]
      /\ UNCHANGED coreVars /\ UNCHANGED linkVars /\ tab' = tab /\ cart' = cart /\ quirks' = quirks
  BY DEF LosePort
<1>2. worker' \in Memory /\ SameHands(worker') /\ worker'.opening = Bumped.opening
  BY <1>1, BumpedFacts DEF Memory, SameHands
<1>3. active \in Controller /\ active' \in Controller
  BY <1>1 DEF FlowTypes, Controller, Resumable
<1>4. FlowTypes' /\ WireStays /\ NoneReady
  BY <1>1, <1>2, <1>3, IdleFacts, SilentWire DEF FlowTypes, Silent
<1>5. RecordStays
  BY <1>1, <1>2, <1>3, BumpedFacts, IdleFacts DEF RecordStays, Controller, PartsOK, OpeningOK
<1>6. PumpRests /\ FreshStays /\ PageStays
  BY <1>1, IdleFacts DEF PumpRests, FreshStays, PageStays
<1> QED
  BY <1>4, <1>5, <1>6 DEF Quiet, Moves, Rests

LEMMA RestartsQuietly == ASSUME FlowTypes, PartsOK, WorkerRestarts PROVE Quiet
<1>1. /\ worker' = [on |-> FALSE, normal |-> FALSE, opening |-> "NO", hands |-> <<>>] /\ pump' = IdlePump
      /\ active' = IF active.state \in Terminal \cup {"NONE"} THEN active ELSE [active EXCEPT !.state = "PAUSED_RESTART"]
      /\ UNCHANGED coreVars /\ commands' = <<>> /\ host' = host /\ events' = events /\ tab' = tab /\ cart' = cart
      /\ quirks' = quirks + 1
  BY DEF WorkerRestarts, Quirk
<1>2. worker' \in Memory /\ SameHands(worker') /\ commands' \in Seq(1 .. MaxCommands) /\ worker'.opening = "NO"
  BY <1>1, EmptyHands DEF SameHands
<1>3. active \in Controller /\ active' \in Controller
  BY <1>1 DEF FlowTypes, Controller, Resumable
<1>4. FlowTypes'
  BY <1>1, <1>2, <1>3, IdleFacts DEF FlowTypes
<1>5. WireStays /\ NoneReady
  BY <1>1, <1>2 DEF WireStays, NoneReady
<1>6. RecordStays
  BY <1>1, <1>2, <1>3, IdleFacts DEF RecordStays, Controller
<1>7. PumpRests /\ FreshStays /\ PageStays
  BY <1>1, IdleFacts DEF PumpRests, FreshStays, PageStays
<1> QED
  BY <1>4, <1>5, <1>6, <1>7 DEF Quiet, Moves, Rests

LEMMA CreatesQuietly == ASSUME FlowTypes, PartsOK, CreateTab PROVE Quiet
<1>1. /\ worker' = [worker EXCEPT !.opening = IF @ = "STORED" THEN "CREATING" ELSE "NO"]
      /\ worker.opening \in {"STORED", "VOID"}
      /\ active' = active /\ pump' = pump
      /\ UNCHANGED coreVars /\ UNCHANGED linkVars /\ tab' = tab /\ cart' = cart /\ quirks' = quirks
  BY DEF CreateTab
<1>2. worker' \in Memory /\ SameHands(worker')
  BY <1>1 DEF FlowTypes, Memory, SameHands
<1>3. FlowTypes' /\ WireStays /\ NoneReady
  BY <1>1, <1>2, SilentWire DEF FlowTypes, Silent
<1>4. RecordStays
  BY <1>1 DEF RecordStays, PartsOK, OpeningOK
<1>5. PumpRests /\ FreshStays /\ PageStays
  BY <1>1 DEF PumpRests, FreshStays, PageStays, PartsOK, ControlOK
<1> QED
  BY <1>3, <1>4, <1>5 DEF Quiet, Moves, Rests

LEMMA FailsQuietly == ASSUME FlowTypes, PartsOK, TabFails PROVE Quiet
<1>1. /\ worker' = [Bumped EXCEPT !.opening = "NO"] /\ pump' = Voided
      /\ worker.opening = "CREATING" /\ active' = [active EXCEPT !.state = "FAILED"]
      /\ Post(<<Event("FAILED", active.cmd)>>)
      /\ UNCHANGED coreVars /\ tab' = tab /\ cart' = cart /\ quirks' = quirks + 1
  BY DEF TabFails, Quirk
<1>2. worker' \in Memory /\ SameHands(worker')
  BY <1>1, BumpedFacts DEF Memory, SameHands
<1>3. active \in Controller /\ active' \in Controller
  BY <1>1 DEF FlowTypes, Controller, Resumable
<1>4. /\ events' \in Seq(Sendable) /\ host' = host /\ commands' = commands
      /\ \A n \in DOMAIN events' : (\E k \in DOMAIN events : events'[n] = events[k]) \/ Plain(events'[n])
  <2> DEFINE m == Event("FAILED", active.cmd)
  <2>1. active.cmd \in 0 .. MaxCommands /\ "FAILED" \in Kind
    BY <1>3 DEF Controller, Kind
  <2>2. m \in Sendable /\ Plain(m)
    <3>1. m \in Sendable /\ m.kind = "FAILED" /\ ~Cancels(m)
      BY <2>1, EventFacts
    <3> QED
      BY <3>1 DEF Plain, Ready
  <2>3. Post(<<m>>)
    BY <1>1
  <2> HIDE DEF m
  <2>4. <<m>> \in Seq(Sendable) /\ \A k \in DOMAIN <<m>> : Plain(<<m>>[k])
    BY <2>2, SingleFacts
  <2> QED
    BY <2>3, <2>4, Posted
<1>5. FlowTypes'
  BY <1>1, <1>2, <1>3, <1>4, IdleFacts DEF FlowTypes
<1>6. WireStays /\ NoneReady
  BY <1>1, <1>2, <1>4 DEF WireStays, NoneReady, Plain
<1>7. RecordStays
  BY <1>1, <1>3 DEF RecordStays, Controller, PartsOK, OpeningOK
<1>8. PumpRests /\ FreshStays /\ PageStays
  BY <1>1, IdleFacts DEF PumpRests, FreshStays, PageStays
<1> QED
  BY <1>5, <1>6, <1>7, <1>8 DEF Quiet, Moves, Rests

(* A round that ends, or goes on as it was, posts nothing and touches nothing. *)
LEMMA BeginsQuietly == ASSUME FlowTypes, PartsOK, PumpBegins PROVE Quiet
<1>1. active.state # "NONE" /\ UNCHANGED <<coreVars, tab, cart, quirks>>
  BY DEF PumpBegins, PartsOK, OpeningOK
<1>2. <<>> \in {<<>>, <<Opened("NONE")>>} /\ {"FAILED", "PAUSED_UNCERTAIN"} \subseteq Resumable
  BY DEF Resumable
<1>3. CASE PumpPauses(active, "FAILED", "SITE_CHANGED", <<>>)
  BY <1>1, <1>2, <1>3, PumpPausesQuietly
<1>4. CASE PumpPauses(active, "PAUSED_UNCERTAIN", "FAILED", <<>>)
  BY <1>1, <1>2, <1>4, PumpPausesQuietly
<1>5. CASE /\ pump' = [IdlePump EXCEPT !.at = "READ", !.fresh = TRUE, !.here = TRUE, !.cmd = active.cmd, !.page = tab.doc]
           /\ KeepsOn /\ Silent
  <2>1. active' = active /\ worker' = worker /\ UNCHANGED coreVars /\ tab' = tab /\ cart' = cart /\ quirks' = quirks
    BY <1>1, <1>5 DEF KeepsOn
  <2>2. pump' \in Round /\ pump'.at = "READ" /\ pump'.cmd = active.cmd
    <3>1. IdlePump \in Round /\ active.cmd \in 0 .. MaxCommands /\ tab.doc \in Document
      BY IdleFacts DEF FlowTypes, Controller, Tab
    <3> QED
      BY <1>5, <3>1 DEF Round
  <2>3. FlowTypes' /\ WireStays /\ NoneReady
    BY <1>5, <2>1, <2>2, SilentWire, KeptHands DEF FlowTypes
  <2>4. Rests
    BY <1>1, <2>1, <2>2 DEF Rests, RecordStays, PumpRests, FreshStays, PageStays
  <2> QED
    BY <2>3, <2>4 DEF Quiet, Moves
<1> QED
  BY <1>3, <1>4, <1>5 DEF PumpBegins

LEMMA EndsQuietly ==
  ASSUME FlowTypes, PartsOK, UNCHANGED <<coreVars, linkVars, active, worker, tab, cart, quirks>>, PumpEnds
  PROVE  Quiet
<1>1. pump' = IdlePump /\ active' = active /\ worker' = worker /\ UNCHANGED coreVars /\ UNCHANGED linkVars /\ tab' = tab
      /\ cart' = cart /\ quirks' = quirks
  BY DEF PumpEnds
<1>2. FlowTypes' /\ WireStays /\ NoneReady
  BY <1>1, IdleFacts, SilentWire, KeptHands DEF FlowTypes, Silent
<1>3. Rests
  BY <1>1, IdleFacts DEF Rests, RecordStays, PumpRests, FreshStays, PageStays
<1> QED
  BY <1>2, <1>3 DEF Quiet, Moves

LEMMA DropsQuietly == ASSUME FlowTypes, PartsOK, PumpDrops PROVE Quiet
BY EndsQuietly DEF PumpDrops

LEMMA ObservesQuietly == ASSUME FlowTypes, PartsOK, PumpObserves PROVE Quiet
<1>1. CASE worker' = worker /\ Silent
  BY <1>1, EndsQuietly DEF PumpObserves, Silent
<1>2. CASE worker' = [worker EXCEPT !.normal = TRUE] /\ Post(<<Opened("NONE")>>)
  <2>1. pump' = IdlePump /\ active' = active /\ UNCHANGED coreVars /\ tab' = tab /\ cart' = cart /\ quirks' = quirks
    BY DEF PumpObserves, PumpEnds
  <2>2. worker' \in Memory /\ SameHands(worker') /\ worker'.opening = worker.opening
    BY <1>2 DEF FlowTypes, Memory, SameHands
  <2>3. /\ events' \in Seq(Sendable) /\ host' = host /\ commands' = commands
        /\ \A n \in DOMAIN events' : (\E k \in DOMAIN events : events'[n] = events[k]) \/ Plain(events'[n])
    <3> DEFINE m == Opened("NONE")
    <3>1. m \in Sendable /\ Plain(m)
      BY OpenedFacts DEF Plain
    <3>2. Post(<<m>>)
      BY <1>2
    <3> HIDE DEF m
    <3>3. <<m>> \in Seq(Sendable) /\ \A k \in DOMAIN <<m>> : Plain(<<m>>[k])
      BY <3>1, SingleFacts
    <3> QED
      BY <3>2, <3>3, Posted
  <2>4. FlowTypes'
    BY <2>1, <2>2, <2>3, IdleFacts DEF FlowTypes
  <2>5. WireStays /\ NoneReady
    BY <2>1, <2>2, <2>3 DEF WireStays, NoneReady, Plain
  <2>6. Rests
    BY <2>1, <2>2, IdleFacts DEF Rests, RecordStays, PumpRests, FreshStays, PageStays
  <2> QED
    BY <2>4, <2>5, <2>6 DEF Quiet, Moves
<1> QED
  BY <1>1, <1>2 DEF PumpObserves

LEMMA GoesQuietly == ASSUME FlowTypes, PartsOK, NEW stage \in Stage, UserGoesTo(stage) PROVE Quiet
<1>1. /\ tab' = [tab EXCEPT !.nav = stage] /\ active' = active /\ worker' = worker /\ pump' = pump /\ cart' = cart
      /\ UNCHANGED coreVars /\ UNCHANGED linkVars /\ quirks' \in Nat
  BY DEF UserGoesTo, Quirk, FlowTypes
<1>2. tab' \in Tab /\ tab'.doc = tab.doc /\ tab'.request = tab.request
  BY <1>1 DEF FlowTypes, Tab
<1>3. FlowTypes' /\ WireStays /\ NoneReady
  BY <1>1, <1>2, SilentWire, KeptHands DEF FlowTypes, Silent
<1>4. Rests
  BY <1>1, <1>2 DEF Rests, RecordStays, PumpRests, FreshStays, PageStays, PartsOK, ControlOK
<1> QED
  BY <1>3, <1>4 DEF Quiet, Moves

LEMMA KeepsQuietly == ASSUME FlowTypes, PartsOK, UNCHANGED vars PROVE Quiet
<1>1. /\ tab' = tab /\ active' = active /\ worker' = worker /\ pump' = pump /\ cart' = cart
      /\ UNCHANGED coreVars /\ UNCHANGED linkVars /\ quirks' = quirks
  BY DEF vars
<1>2. FlowTypes' /\ WireStays /\ NoneReady
  BY <1>1, SilentWire, KeptHands DEF FlowTypes, Silent
<1>3. Rests
  BY <1>1 DEF Rests, RecordStays, PumpRests, FreshStays, PageStays, PartsOK, ControlOK
<1> QED
  BY <1>2, <1>3 DEF Quiet, Moves

-----------------------------------------------------------------------------
(* The actions that take the first command out of the worker's hands. *)

HandleStays ==
  /\ UNCHANGED coreVars
  /\ Due /\ 1 \in DOMAIN worker.hands
  /\ \A i \in DOMAIN worker'.hands :
       i \in Nat \ {0} /\ i + 1 \in DOMAIN worker.hands /\ worker'.hands[i].cmd = worker.hands[i + 1].cmd
  /\ commands' = commands
  /\ \A n \in DOMAIN events' :
       \/ \E k \in DOMAIN events : events'[n] = events[k]
       \/ ~Cancels(events'[n])
       \/ events'[n].cmd = worker.hands[1].cmd /\ Acts(worker.hands[1].cmd)

LEMMA DoneFacts ==
  ASSUME FlowTypes, Due, NEW w \in Memory, SameHands(w), DOMAIN w.hands = DOMAIN worker.hands
  PROVE  /\ Done(w) \in Memory /\ Done(w).opening = w.opening
         /\ Hand = worker.hands[1] /\ Hand.cmd \in 1 .. MaxCommands /\ 1 \in DOMAIN worker.hands
         /\ \A i \in DOMAIN Done(w).hands :
              i \in Nat \ {0} /\ i + 1 \in DOMAIN worker.hands /\ Done(w).hands[i].cmd = worker.hands[i + 1].cmd
<1> DEFINE R == [cmd : 1 .. MaxCommands, fresh : BOOLEAN]
<1>1. worker.hands \in Seq(R) /\ w.hands \in Seq(R) /\ worker.hands # <<>>
  BY DEF FlowTypes, Memory, Due
<1>2. Hand \in R /\ Hand = worker.hands[1] /\ 1 \in DOMAIN worker.hands
  <2> HIDE DEF R
  <2> QED
    BY <1>1, TailFacts DEF Hand
<1>3. w.hands # <<>>
  BY <1>2
<1>4. /\ Tail(w.hands) \in Seq(R)
      /\ \A i \in DOMAIN Tail(w.hands) : i \in Nat \ {0} /\ i + 1 \in DOMAIN w.hands /\ Tail(w.hands)[i] = w.hands[i + 1]
  <2> HIDE DEF R
  <2> QED
    BY <1>1, <1>3, TailFacts
<1>5. Done(w) \in Memory /\ Done(w).opening = w.opening /\ Done(w).hands = Tail(w.hands)
  BY <1>4 DEF Done, Memory
<1>6. \A i \in DOMAIN w.hands : i \in DOMAIN worker.hands /\ w.hands[i].cmd = worker.hands[i].cmd
  BY DEF SameHands
<1>7. Hand.cmd \in 1 .. MaxCommands
  BY <1>2
<1> QED
  BY <1>2, <1>4, <1>5, <1>6, <1>7

(* The answer to a command takes its place; a cancellation says so.         *)
LEMMA AnswersOnce ==
  ASSUME FlowTypes, Due, UNCHANGED coreVars, worker' \in Memory,
         1 \in DOMAIN worker.hands,
         \A i \in DOMAIN worker'.hands :
           i \in Nat \ {0} /\ i + 1 \in DOMAIN worker.hands /\ worker'.hands[i].cmd = worker.hands[i + 1].cmd,
         NEW m \in Sendable, ~Ready(m), Post(<<m>>),
         ~Cancels(m) \/ (m.cmd = worker.hands[1].cmd /\ Acts(worker.hands[1].cmd))
  PROVE  HandleStays /\ NoneReady /\ host' \in BOOLEAN /\ commands' \in Seq(1 .. MaxCommands) /\ events' \in Seq(Sendable)
<1>1. <<m>> \in Seq(Sendable) /\ \A k \in DOMAIN <<m>> : <<m>>[k] = m
  BY SingleFacts
<1>2. /\ events' \in Seq(Sendable) /\ host' = host /\ commands' = commands
      /\ \A n \in DOMAIN events' : (\E k \in DOMAIN events : events'[n] = events[k]) \/ events'[n] = m
  BY <1>1, Posted
<1> QED
  BY <1>2 DEF HandleStays, NoneReady, FlowTypes

LEMMA HandlesSilently ==
  ASSUME FlowTypes, Due, UNCHANGED coreVars, Silent, 1 \in DOMAIN worker.hands,
         \A i \in DOMAIN worker'.hands :
           i \in Nat \ {0} /\ i + 1 \in DOMAIN worker.hands /\ worker'.hands[i].cmd = worker.hands[i + 1].cmd
  PROVE  HandleStays /\ NoneReady /\ host' \in BOOLEAN /\ commands' \in Seq(1 .. MaxCommands) /\ events' \in Seq(Sendable)
BY DEF Silent, linkVars, HandleStays, NoneReady, FlowTypes

Handled == FlowTypes' /\ HandleStays /\ NoneReady

LEMMA RejectHandled ==
  ASSUME FlowTypes, PartsOK, Due, Reject, UNCHANGED <<coreVars, tab, cart, quirks>>
  PROVE  Handled /\ Rests
<1>1. /\ worker' = Done(worker) /\ active' = active /\ pump' = pump /\ Post(<<Event("FAILED", Hand.cmd)>>)
      /\ UNCHANGED coreVars /\ tab' = tab /\ cart' = cart /\ quirks' = quirks
  BY DEF Reject
<1>2. worker \in Memory /\ SameHands(worker)
  BY DEF FlowTypes, SameHands
<1>3. /\ worker' \in Memory /\ worker'.opening = worker.opening /\ Hand.cmd \in 0 .. MaxCommands /\ 1 \in DOMAIN worker.hands
      /\ \A i \in DOMAIN worker'.hands :
           i \in Nat \ {0} /\ i + 1 \in DOMAIN worker.hands /\ worker'.hands[i].cmd = worker.hands[i + 1].cmd
  BY <1>1, <1>2, DoneFacts
<1>4. Event("FAILED", Hand.cmd) \in Sendable /\ ~Cancels(Event("FAILED", Hand.cmd)) /\ ~Ready(Event("FAILED", Hand.cmd))
  <2> DEFINE m == Event("FAILED", Hand.cmd)
  <2>1. "FAILED" \in Kind
    BY DEF Kind
  <2>2. m \in Sendable /\ m.kind = "FAILED" /\ ~Cancels(m)
    BY <1>3, <2>1, EventFacts
  <2> HIDE DEF m
  <2>3. ~Ready(m)
    BY <2>2 DEF Ready
  <2> QED
    BY <2>2, <2>3 DEF m
<1>5. HandleStays /\ NoneReady /\ host' \in BOOLEAN /\ commands' \in Seq(1 .. MaxCommands) /\ events' \in Seq(Sendable)
  BY <1>1, <1>3, <1>4, AnswersOnce
<1>6. FlowTypes'
  BY <1>1, <1>3, <1>5 DEF FlowTypes
<1>7. Rests
  BY <1>1, <1>3 DEF Rests, RecordStays, PumpRests, FreshStays, PageStays, PartsOK, ControlOK
<1> QED
  BY <1>5, <1>6, <1>7 DEF Handled

LEMMA DropHandled == ASSUME FlowTypes, PartsOK, DropCommand PROVE Handled /\ Rests
<1>1. /\ worker' = Done(worker) /\ active' = active /\ pump' = pump /\ UNCHANGED linkVars
      /\ UNCHANGED coreVars /\ tab' = tab /\ cart' = cart /\ quirks' = quirks /\ Due
  BY DEF DropCommand
<1>2. worker \in Memory /\ SameHands(worker)
  BY DEF FlowTypes, SameHands
<1>3. /\ worker' \in Memory /\ worker'.opening = worker.opening /\ 1 \in DOMAIN worker.hands
      /\ \A i \in DOMAIN worker'.hands :
           i \in Nat \ {0} /\ i + 1 \in DOMAIN worker.hands /\ worker'.hands[i].cmd = worker.hands[i + 1].cmd
  BY <1>1, <1>2, DoneFacts
<1>4. HandleStays /\ NoneReady /\ host' \in BOOLEAN /\ commands' \in Seq(1 .. MaxCommands) /\ events' \in Seq(Sendable)
  BY <1>1, <1>3, HandlesSilently DEF Silent
<1>5. FlowTypes'
  BY <1>1, <1>3, <1>4 DEF FlowTypes
<1>6. Rests
  BY <1>1, <1>3 DEF Rests, RecordStays, PumpRests, FreshStays, PageStays, PartsOK, ControlOK
<1> QED
  BY <1>4, <1>5, <1>6 DEF Handled

LEMMA DisarmHandled == ASSUME FlowTypes, PartsOK, ActOnDisarm PROVE Handled /\ Rests
<1>1. /\ worker' = Done(Bumped) /\ pump' = Voided /\ Post(<<Event("READY", Hand.cmd)>>) /\ Due
      /\ active' = IF active.state \in Terminal \cup {"NONE"} THEN active ELSE [active EXCEPT !.state = "DISARMED"]
      /\ UNCHANGED coreVars /\ tab' = tab /\ cart' = cart /\ quirks' = quirks
  BY DEF ActOnDisarm, Commanded
<1>3. /\ worker' \in Memory /\ worker'.opening = Bumped.opening /\ Hand.cmd \in 0 .. MaxCommands /\ 1 \in DOMAIN worker.hands
      /\ \A i \in DOMAIN worker'.hands :
           i \in Nat \ {0} /\ i + 1 \in DOMAIN worker.hands /\ worker'.hands[i].cmd = worker.hands[i + 1].cmd
  BY <1>1, BumpedFacts, DoneFacts
<1>4. Event("READY", Hand.cmd) \in Sendable /\ ~Cancels(Event("READY", Hand.cmd)) /\ ~Ready(Event("READY", Hand.cmd))
  <2> DEFINE m == Event("READY", Hand.cmd)
  <2>2. m \in Sendable /\ m.kind = "READY" /\ ~Cancels(m)
    BY <1>3, EventFacts
  <2> HIDE DEF m
  <2>3. ~Ready(m)
    BY <2>2 DEF Ready
  <2> QED
    BY <2>2, <2>3 DEF m
<1>5. HandleStays /\ NoneReady /\ host' \in BOOLEAN /\ commands' \in Seq(1 .. MaxCommands) /\ events' \in Seq(Sendable)
  BY <1>1, <1>3, <1>4, AnswersOnce
<1>6. active \in Controller /\ active' \in Controller
  BY <1>1 DEF FlowTypes, Controller, Resumable
<1>7. FlowTypes'
  BY <1>1, <1>3, <1>5, <1>6, IdleFacts DEF FlowTypes
<1>8. RecordStays
  BY <1>1, <1>3, <1>6, BumpedFacts, IdleFacts DEF RecordStays, Controller, PartsOK, OpeningOK
<1>9. PumpRests /\ FreshStays /\ PageStays
  BY <1>1, IdleFacts DEF PumpRests, FreshStays, PageStays
<1> QED
  BY <1>5, <1>7, <1>8, <1>9 DEF Handled, Rests

LEMMA BumpedNormal ==
  ASSUME FlowTypes, Due
  PROVE  LET w == [Bumped EXCEPT !.normal = worker.normal] IN
         /\ Done(w) \in Memory /\ Done(w).opening = Bumped.opening
         /\ Hand.cmd \in 0 .. MaxCommands /\ 1 \in DOMAIN worker.hands /\ Hand = worker.hands[1]
         /\ \A i \in DOMAIN Done(w).hands :
              i \in Nat \ {0} /\ i + 1 \in DOMAIN worker.hands /\ Done(w).hands[i].cmd = worker.hands[i + 1].cmd
<1> DEFINE w == [Bumped EXCEPT !.normal = worker.normal]
<1>1. /\ w \in Memory /\ w.hands = Bumped.hands /\ w.opening = Bumped.opening
      /\ DOMAIN Bumped.hands = DOMAIN worker.hands /\ SameHands(Bumped)
  <2>1. worker.normal \in BOOLEAN
    BY DEF FlowTypes, Memory
  <2> QED
    BY <2>1, BumpedFacts DEF Memory
<1>2. SameHands(w)
  BY <1>1 DEF SameHands
<1> HIDE DEF w
<1>3. /\ Done(w) \in Memory /\ Done(w).opening = Bumped.opening
      /\ Hand.cmd \in 0 .. MaxCommands /\ 1 \in DOMAIN worker.hands /\ Hand = worker.hands[1]
      /\ \A i \in DOMAIN Done(w).hands :
           i \in Nat \ {0} /\ i + 1 \in DOMAIN worker.hands /\ Done(w).hands[i].cmd = worker.hands[i + 1].cmd
  BY <1>1, <1>2, DoneFacts
<1> QED
  BY <1>3 DEF w

LEMMA CancelHandled == ASSUME FlowTypes, PartsOK, ActOnCancel PROVE Handled /\ Rests
<1>1. CASE Reject
  BY <1>1, RejectHandled DEF ActOnCancel, Commanded
<1>2. CASE ~Reject
  <2> DEFINE m == [Event("FAILED", Hand.cmd) EXCEPT !.code = "CANCELLED"]
  <2>1. /\ active.state # "NONE" /\ active' = [active EXCEPT !.state = "CANCELLED", !.cmd = Hand.cmd]
        /\ worker' = Done([Bumped EXCEPT !.normal = worker.normal]) /\ pump' = Voided /\ Post(<<m>>)
        /\ Due /\ queue[Hand.cmd].type = "CANCEL_INTENT"
        /\ UNCHANGED coreVars /\ tab' = tab /\ cart' = cart /\ quirks' = quirks
    BY <1>2 DEF ActOnCancel, Commanded
  <2>2. /\ worker' \in Memory /\ Hand.cmd \in 0 .. MaxCommands /\ 1 \in DOMAIN worker.hands /\ Hand = worker.hands[1]
        /\ \A i \in DOMAIN worker'.hands :
             i \in Nat \ {0} /\ i + 1 \in DOMAIN worker.hands /\ worker'.hands[i].cmd = worker.hands[i + 1].cmd
    BY <2>1, BumpedNormal
  <2>3. m \in Sendable /\ ~Ready(m) /\ m.cmd = worker.hands[1].cmd /\ Acts(worker.hands[1].cmd)
    <3>1. "FAILED" \in Kind
      BY DEF Kind
    <3> QED
      BY <2>1, <2>2, <3>1, EventFacts DEF Acts
  <2> HIDE DEF m
  <2>4. HandleStays /\ NoneReady /\ host' \in BOOLEAN /\ commands' \in Seq(1 .. MaxCommands) /\ events' \in Seq(Sendable)
    BY <2>1, <2>2, <2>3, AnswersOnce
  <2>5. active \in Controller /\ active' \in Controller
    BY <2>1, <2>2 DEF FlowTypes, Controller, Terminal
  <2>6. FlowTypes'
    BY <2>1, <2>2, <2>4, <2>5, IdleFacts DEF FlowTypes
  <2>7. RecordStays
    BY <2>1, <2>5 DEF RecordStays, Controller
  <2>8. PumpRests /\ FreshStays /\ PageStays
    BY <2>1, IdleFacts DEF PumpRests, FreshStays, PageStays
  <2> QED
    BY <2>4, <2>6, <2>7, <2>8 DEF Handled, Rests
<1> QED
  BY <1>1, <1>2

(* A run begins or goes on: what was read before it is void.               *)
LEMMA BeginsAnew ==
  ASSUME FlowTypes, PartsOK, UNCHANGED coreVars, tab' = tab, cart' = cart, pump' = Voided,
         active'.state = "RUNNING", active'.checkpoint = active.checkpoint, active'.journal = active.journal,
         active'.rebuilds = active.rebuilds,
         \/ active'.recheck = active.recheck /\ active'.empty = active.empty
         \/ active'.recheck = (active.checkpoint = "CART_READY") /\ active'.empty = "NONE",
         LooksOnly => active'.openOnly
  PROVE  PartsOK'
<1>1. LooksOnly' = LooksOnly /\ pump'.at = pump.at /\ pump'.again = pump.again /\ pump'.here = pump.here
      /\ pump'.same = pump.same /\ pump'.answer = pump.answer /\ ~pump'.fresh
  BY IdleFacts DEF LooksOnly, coreVars
<1>2. LookOK'
  BY <1>1 DEF PartsOK, LookOK
<1>3. OpeningOK'
  BY DEF OpeningOK
<1>4. ControlOK'
  BY <1>1 DEF PartsOK, ControlOK
<1>5. RequestOK'
  BY <1>1 DEF PartsOK, RequestOK, Asked, Adding, Clear, Full
<1>6. ClearOK'
  BY <1>1 DEF PartsOK, ClearOK, Adding, Clear
<1>7. CartOK'
  BY <1>1 DEF PartsOK, CartOK
<1>8. EmptyOK'
  BY <1>1 DEF PartsOK, EmptyOK
<1> QED
  BY <1>2, <1>3, <1>4, <1>5, <1>6, <1>7, <1>8 DEF PartsOK

LEMMA ResumeHandled == ASSUME FlowTypes, PartsOK, DeliveryOK, ActOnResume PROVE Handled /\ (Rests \/ PartsOK')
<1>1. CASE Reject
  BY <1>1, RejectHandled DEF ActOnResume, Commanded
<1>2. CASE ~Reject
  <2>1. /\ active' = [active EXCEPT !.state = "RUNNING", !.cmd = Hand.cmd,
                         !.recheck = active.checkpoint = "CART_READY", !.empty = "NONE"]
        /\ worker' = Done([Bumped EXCEPT !.normal = worker.normal]) /\ pump' = Voided /\ Silent
        /\ Due /\ queue[Hand.cmd].type = "RESUME_INTENT"
        /\ UNCHANGED coreVars /\ tab' = tab /\ cart' = cart /\ quirks' = quirks
    BY <1>2 DEF ActOnResume, Commanded
  <2>2. /\ worker' \in Memory /\ Hand.cmd \in 0 .. MaxCommands /\ 1 \in DOMAIN worker.hands /\ Hand = worker.hands[1]
        /\ \A i \in DOMAIN worker'.hands :
             i \in Nat \ {0} /\ i + 1 \in DOMAIN worker.hands /\ worker'.hands[i].cmd = worker.hands[i + 1].cmd
    BY <2>1, BumpedNormal
  <2>3. HandleStays /\ NoneReady /\ host' \in BOOLEAN /\ commands' \in Seq(1 .. MaxCommands) /\ events' \in Seq(Sendable)
    BY <2>1, <2>2, HandlesSilently
  <2>4. active \in Controller
    BY DEF FlowTypes
  <2>5. /\ active' \in Controller /\ active'.state = "RUNNING" /\ active'.checkpoint = active.checkpoint
        /\ active'.journal = active.journal /\ active'.rebuilds = active.rebuilds
        /\ active'.recheck = (active.checkpoint = "CART_READY") /\ active'.empty = "NONE"
    <3> DEFINE u == active.checkpoint = "CART_READY"
    <3>1. active' = [active EXCEPT !.state = "RUNNING", !.cmd = Hand.cmd, !.recheck = u, !.empty = "NONE"] /\ u \in BOOLEAN
      BY <2>1
    <3> HIDE DEF u
    <3>2. active' = [state |-> "RUNNING", checkpoint |-> active.checkpoint, cmd |-> Hand.cmd, tab |-> active.tab,
                     journal |-> active.journal, bound |-> active.bound, recheck |-> u, empty |-> "NONE",
                     rebuilds |-> active.rebuilds, openOnly |-> active.openOnly]
      BY <2>4, <3>1 DEF Controller
    <3>3. active' \in Controller
      BY <2>2, <2>4, <3>1, <3>2 DEF Controller
    <3>4. active'.recheck = u
      BY <3>2
    <3>5. active'.state = "RUNNING" /\ active'.checkpoint = active.checkpoint
        /\ active'.journal = active.journal /\ active'.rebuilds = active.rebuilds /\ active'.empty = "NONE"
      BY <3>2
    <3> QED
      BY <3>3, <3>4, <3>5 DEF u
  <2>6. FlowTypes'
    BY <2>1, <2>2, <2>3, <2>5, IdleFacts DEF FlowTypes
  <2>7. ~LooksOnly
    <3>1. worker.hands[1].cmd \in DOMAIN queue
      BY <2>2 DEF DeliveryOK, Given
    <3> QED
      BY <2>1, <2>2, <3>1 DEF LooksOnly
  <2>8. PartsOK'
    BY <2>1, <2>5, <2>7, BeginsAnew
  <2> QED
    BY <2>3, <2>6, <2>8 DEF Handled
<1> QED
  BY <1>1, <1>2

LEMMA StartHandled ==
  ASSUME FlowTypes, PartsOK, DeliveryOK, NEW type \in Starting, ActOnStart(type)
  PROVE  Handled /\ (Rests \/ PartsOK')
<1>1. /\ Due /\ queue[Hand.cmd].type = type /\ type \in {"OPEN_PRODUCT", "START_DRY_RUN"}
      /\ UNCHANGED coreVars /\ tab' = tab /\ cart' = cart /\ quirks' = quirks
  BY DEF ActOnStart, Commanded, Starting
<1>2. CASE Reject
  BY <1>1, <1>2, RejectHandled
<1>3. ~LooksOnly \/ type = "OPEN_PRODUCT"
  <2>1. worker.hands[1].cmd \in DOMAIN queue /\ Hand = worker.hands[1]
    BY <1>1, BumpedNormal DEF DeliveryOK, Given
  <2> QED
    BY <1>1, <2>1 DEF LooksOnly
<1>4. active \in Controller
  BY DEF FlowTypes
<1>5. CASE /\ active' = [active EXCEPT !.state = "RUNNING", !.cmd = Hand.cmd, !.openOnly = type = "OPEN_PRODUCT"]
           /\ worker' = [Done(Bumped) EXCEPT !.opening = "STORED"] /\ pump' = Voided /\ Silent
  <2>1. /\ Done(Bumped) \in Memory /\ Hand.cmd \in 0 .. MaxCommands /\ 1 \in DOMAIN worker.hands
        /\ \A i \in DOMAIN Done(Bumped).hands :
             i \in Nat \ {0} /\ i + 1 \in DOMAIN worker.hands /\ Done(Bumped).hands[i].cmd = worker.hands[i + 1].cmd
    BY <1>1, BumpedFacts, DoneFacts
  <2>2. worker' \in Memory /\ worker'.hands = Done(Bumped).hands
    BY <1>5, <2>1 DEF Memory
  <2>3. HandleStays /\ NoneReady /\ host' \in BOOLEAN /\ commands' \in Seq(1 .. MaxCommands) /\ events' \in Seq(Sendable)
    BY <1>1, <1>5, <2>1, <2>2, HandlesSilently
  <2>5. /\ active' \in Controller /\ active'.state = "RUNNING" /\ active'.checkpoint = active.checkpoint
        /\ active'.journal = active.journal /\ active'.rebuilds = active.rebuilds
        /\ active'.recheck = active.recheck /\ active'.empty = active.empty /\ (LooksOnly => active'.openOnly)
    <3> DEFINE u == type = "OPEN_PRODUCT"
    <3>1. active' = [active EXCEPT !.state = "RUNNING", !.cmd = Hand.cmd, !.openOnly = u] /\ u \in BOOLEAN /\ (LooksOnly => u)
      BY <1>3, <1>5
    <3> HIDE DEF u
    <3>2. active' = [state |-> "RUNNING", checkpoint |-> active.checkpoint, cmd |-> Hand.cmd, tab |-> active.tab,
                     journal |-> active.journal, bound |-> active.bound, recheck |-> active.recheck, empty |-> active.empty,
                     rebuilds |-> active.rebuilds, openOnly |-> u]
      BY <1>4, <3>1 DEF Controller
    <3>3. active' \in Controller
      BY <1>4, <2>1, <3>1, <3>2 DEF Controller
    <3>4. active'.openOnly = u /\ active'.recheck = active.recheck
      BY <3>2
    <3>5. active'.state = "RUNNING" /\ active'.checkpoint = active.checkpoint
        /\ active'.journal = active.journal /\ active'.rebuilds = active.rebuilds /\ active'.empty = active.empty
      BY <3>2
    <3> QED
      BY <3>1, <3>3, <3>4, <3>5
  <2>6. FlowTypes'
    BY <1>1, <1>5, <2>2, <2>3, <2>5, IdleFacts DEF FlowTypes
  <2>8. PartsOK'
    BY <1>1, <1>5, <2>5, BeginsAnew
  <2> QED
    BY <2>3, <2>6, <2>8 DEF Handled
<1>6. CASE /\ type = "START_DRY_RUN"
           /\ active' = [active EXCEPT !.state = "RUNNING", !.cmd = Hand.cmd, !.openOnly = FALSE]
           /\ worker' = Done([Bumped EXCEPT !.normal = worker.normal]) /\ pump' = Voided /\ Silent
  <2>1. /\ worker' \in Memory /\ Hand.cmd \in 0 .. MaxCommands /\ 1 \in DOMAIN worker.hands
        /\ \A i \in DOMAIN worker'.hands :
             i \in Nat \ {0} /\ i + 1 \in DOMAIN worker.hands /\ worker'.hands[i].cmd = worker.hands[i + 1].cmd
    BY <1>1, <1>6, BumpedNormal
  <2>3. HandleStays /\ NoneReady /\ host' \in BOOLEAN /\ commands' \in Seq(1 .. MaxCommands) /\ events' \in Seq(Sendable)
    BY <1>1, <1>6, <2>1, HandlesSilently
  <2>5. /\ active' \in Controller /\ active'.state = "RUNNING" /\ active'.checkpoint = active.checkpoint
        /\ active'.journal = active.journal /\ active'.rebuilds = active.rebuilds
        /\ active'.recheck = active.recheck /\ active'.empty = active.empty
    BY <1>4, <1>6, <2>1 DEF Controller
  <2>6. FlowTypes'
    BY <1>1, <1>6, <2>1, <2>3, <2>5, IdleFacts DEF FlowTypes
  <2>8. PartsOK'
    BY <1>1, <1>3, <1>6, <2>5, BeginsAnew
  <2> QED
    BY <2>3, <2>6, <2>8 DEF Handled
<1> QED
  BY <1>2, <1>5, <1>6 DEF ActOnStart

-----------------------------------------------------------------------------
(* The actions of the pump that read again, store, send and hear. *)

LEMMA ShowsFacts ==
  ASSUME NEW doc \in Document
  PROVE  /\ Index(doc) \in Bound
         /\ Full(doc) => ~Empty(doc)
         /\ doc.stage # "CART" => ~Full(doc) /\ ~Empty(doc)
BY DEF Index, Bound, Full, Empty

LEMMA PostsPlainly ==
  ASSUME FlowTypes, NEW m \in Sendable, Plain(m), Post(<<m>>), UNCHANGED coreVars, worker' = worker
  PROVE  /\ host' \in BOOLEAN /\ commands' \in Seq(1 .. MaxCommands) /\ events' \in Seq(Sendable)
         /\ WireStays /\ NoneReady
<1>1. <<m>> \in Seq(Sendable) /\ \A k \in DOMAIN <<m>> : <<m>>[k] = m
  BY SingleFacts
<1>2. /\ events' \in Seq(Sendable) /\ host' = host /\ commands' = commands
      /\ \A n \in DOMAIN events' : (\E k \in DOMAIN events : events'[n] = events[k]) \/ events'[n] = m
  BY <1>1, Posted
<1>3. SameHands(worker')
  BY KeptHands
<1> QED
  BY <1>2, <1>3 DEF FlowTypes, WireStays, NoneReady, Plain

LEMMA OpenedPlainly == ASSUME FlowTypes, NEW code \in {"NONE", "REBUILDING"} PROVE Opened(code) \in Sendable /\ Plain(Opened(code))
BY OpenedFacts DEF Plain

LEMMA RequestFacts ==
  ASSUME NEW r \in Request, r # NoRequest
  PROVE  /\ r.name \in DOMAIN Mutation /\ r.name # "NONE" /\ r.bound \in Bound /\ r.alive \in BOOLEAN
         /\ [r EXCEPT !.alive = FALSE] \in Request /\ [r EXCEPT !.alive = FALSE].name = r.name
         /\ [r EXCEPT !.alive = FALSE] # NoRequest
<1>1. DOMAIN Mutation = {"SELECT_PUBLIC_BILLING", "OPEN_CONFIGURATION", "CONFIGURE_PRODUCT", "ADD_TO_CART", "OPEN_CHECKOUT"}
  BY DEF Mutation
<1>2. r \in [name : DOMAIN Mutation, bound : Bound, alive : BOOLEAN]
  BY DEF Request
<1>3. r.name \in DOMAIN Mutation /\ r.name # "NONE" /\ r.bound \in Bound /\ r.alive \in BOOLEAN
  BY <1>1, <1>2
<1> DEFINE c == [r EXCEPT !.alive = FALSE]
<1>4. c \in [name : DOMAIN Mutation, bound : Bound, alive : BOOLEAN] /\ c.name = r.name
  BY <1>2
<1>5. NoRequest.name = "NONE"
  BY DEF NoRequest
<1> QED
  BY <1>3, <1>4, <1>5 DEF Request

(* Outside the cart nothing is trusted and nothing is read as empty.       *)
LEMMA LeavesCart ==
  ASSUME PartsOK, NEW doc \in Document, doc.stage # "CART", tab'.doc = doc,
         tab'.request = tab.request \/ (tab.request # NoRequest /\ tab'.request = [tab.request EXCEPT !.alive = FALSE]),
         tab.request \in Request, cart' = cart, RecordStays, LooksOnly' = LooksOnly,
         pump'.at = pump.at, pump'.again = pump.again, pump'.same = pump.same, pump'.answer = pump.answer,
         pump'.here = pump.here \/ pump'.here = FALSE, FreshStays
  PROVE  PartsOK'
<1>1. ~Full(tab'.doc) /\ ~Empty(tab'.doc)
  BY ShowsFacts
<1>2. tab'.request.name = tab.request.name /\ (tab'.request = NoRequest <=> tab.request = NoRequest)
  BY RequestFacts
<1>3. LookOK'
  BY <1>2 DEF PartsOK, LookOK, RecordStays
<1>4. OpeningOK'
  BY DEF PartsOK, OpeningOK, RecordStays
<1>5. ControlOK'
  BY DEF PartsOK, ControlOK, RecordStays, FreshStays
<1>6. RequestOK'
  BY <1>1, <1>2 DEF PartsOK, RequestOK, RecordStays, Asked, Adding, Clear
<1>7. ClearOK'
  BY <1>1 DEF PartsOK, ClearOK, RecordStays, Adding, Clear
<1>8. CartOK'
  BY <1>1 DEF PartsOK, CartOK, RecordStays
<1>9. EmptyOK'
  BY <1>1 DEF PartsOK, EmptyOK, RecordStays
<1> QED
  BY <1>3, <1>4, <1>5, <1>6, <1>7, <1>8, <1>9 DEF PartsOK

LEMMA ArrivesSafely == ASSUME FlowTypes, PartsOK, TabArrives PROVE Moves /\ PartsOK'
<1> DEFINE doc == [stage |-> "UNKNOWN", shows |-> "FINE"]
<1>1. /\ worker.opening = "CREATING" /\ active' = [active EXCEPT !.tab = TRUE]
      /\ tab' = [tab EXCEPT !.doc = doc, !.nav = "PRODUCT"] /\ worker' = [worker EXCEPT !.opening = "NO"]
      /\ UNCHANGED coreVars /\ UNCHANGED linkVars /\ pump' = pump /\ cart' = cart /\ quirks' = quirks
  BY DEF TabArrives
<1>2. doc \in Document /\ doc.stage # "CART"
  BY DEF Document, Odd
<1> HIDE DEF doc
<1>3. tab' \in Tab /\ tab'.doc = doc /\ tab'.request = tab.request /\ tab.request \in Request
  BY <1>1, <1>2 DEF FlowTypes, Tab, Stage
<1>4. worker' \in Memory /\ SameHands(worker')
  BY <1>1 DEF FlowTypes, Memory, SameHands
<1>5. active' \in Controller
  BY <1>1 DEF FlowTypes, Controller
<1>6. Moves
  BY <1>1, <1>3, <1>4, <1>5, SilentWire DEF FlowTypes, Silent, Moves
<1>7. RecordStays /\ FreshStays
  BY <1>1 DEF RecordStays, FreshStays, PartsOK, OpeningOK, ControlOK, FlowTypes, Controller
<1>8. LooksOnly' = LooksOnly
  BY <1>1 DEF LooksOnly, coreVars
<1> QED
  BY <1>1, <1>2, <1>3, <1>6, <1>7, <1>8, LeavesCart

(* The second reading sees the document that is there.                     *)
LEMMA AgainKeeps ==
  ASSUME FlowTypes, PartsOK, pump' = ReadAgain, UNCHANGED coreVars, active' = active, worker' = worker, tab' = tab,
         cart' = cart, pump.fresh, active.state # "NONE", ~active.openOnly, active.checkpoint # "CHECKOUT_READY"
  PROVE  PartsOK' /\ pump' \in Round
<1>1. /\ pump' \in Round /\ pump'.at = "AGAIN" /\ pump'.again = tab.doc /\ pump'.here = TRUE
      /\ pump'.same = (active.empty = "HERE") /\ pump'.fresh = pump.fresh /\ pump'.cmd = pump.cmd
  <2> DEFINE u == active.empty = "HERE"
  <2>1. pump \in Round /\ tab.doc \in Document /\ u \in BOOLEAN
    BY DEF FlowTypes, Tab
  <2>2. pump' = [pump EXCEPT !.at = "AGAIN", !.again = tab.doc, !.here = TRUE, !.same = u]
    BY DEF ReadAgain
  <2> HIDE DEF u
  <2>3. pump' = [at |-> "AGAIN", fresh |-> pump.fresh, here |-> TRUE, cmd |-> pump.cmd, page |-> pump.page,
                 again |-> tab.doc, same |-> u, answer |-> pump.answer]
    BY <2>1, <2>2 DEF Round
  <2>4. pump' \in Round
    BY <2>1, <2>3 DEF Round
  <2>5. pump'.same = u
    BY <2>3
  <2>6. pump'.at = "AGAIN" /\ pump'.again = tab.doc /\ pump'.here = TRUE /\ pump'.fresh = pump.fresh /\ pump'.cmd = pump.cmd
    BY <2>3
  <2> QED
    BY <2>4, <2>5, <2>6 DEF u
<1>2. ~LooksOnly /\ LooksOnly' = LooksOnly
  BY DEF PartsOK, LookOK, LooksOnly, coreVars
<1>3. Full(tab.doc) => ~Empty(tab.doc)
  BY ShowsFacts DEF FlowTypes, Tab
<1>4. LookOK' /\ OpeningOK'
  BY <1>2 DEF LookOK, OpeningOK
<1>5. ControlOK'
  BY <1>1 DEF PartsOK, ControlOK
<1>6. RequestOK'
  BY <1>1 DEF PartsOK, RequestOK, Asked, Adding, Clear
<1>7. ClearOK'
  BY <1>1 DEF PartsOK, ClearOK, Adding, Clear
<1>8. CartOK'
  BY <1>1 DEF PartsOK, CartOK
<1>9. EmptyOK'
  BY <1>1, <1>3 DEF PartsOK, EmptyOK, FlowTypes, Controller
<1> QED
  BY <1>1, <1>4, <1>5, <1>6, <1>7, <1>8, <1>9 DEF PartsOK

(* A journal is stored while the form may be submitted, and for nothing else *)
(* than the mutation that follows.                                         *)
LEMMA StoresKeep ==
  ASSUME FlowTypes, PartsOK, UNCHANGED coreVars, worker' = worker, tab' = tab, cart' = cart,
         pump.fresh, active.state # "NONE", ~LooksOnly, active.checkpoint # "CHECKOUT_READY",
         ~active.recheck, active.journal.status # "DISPATCHED", Stores(active, Following[active.checkpoint])
  PROVE  PartsOK' /\ pump' \in Round /\ active' \in Controller
<1> DEFINE name == Following[active.checkpoint]
           j == [name |-> name, status |-> "DISPATCHED"]
<1>1. active' = [active EXCEPT !.journal = j] /\ pump' = [pump EXCEPT !.at = "STORED"]
  BY DEF Stores
<1>2. active \in Controller /\ pump \in Round
  BY DEF FlowTypes
<1>3. name \in DOMAIN Mutation /\ j \in Journal
  BY <1>2 DEF Controller, Following, Mutation, Journal
<1>4. name = "ADD_TO_CART" => active.checkpoint \notin {"CART_READY", "CHECKOUT_READY"}
  BY DEF Following
<1> HIDE DEF name
<1>5. /\ active' \in Controller /\ active'.journal.name = name /\ active'.journal.status = "DISPATCHED" /\ active'.state = active.state
      /\ active'.checkpoint = active.checkpoint /\ active'.cmd = active.cmd /\ active'.rebuilds = active.rebuilds
      /\ active'.recheck = active.recheck /\ active'.empty = active.empty /\ active'.journal = j
  BY <1>1, <1>2, <1>3 DEF Controller
<1>6. /\ pump' \in Round /\ pump'.at = "STORED" /\ pump'.fresh = pump.fresh /\ pump'.cmd = pump.cmd
  BY <1>1, <1>2 DEF Round
<1>7. ~Adding /\ ~Asked /\ active.empty = "NONE"
  BY DEF Adding, PartsOK, RequestOK, ControlOK
<1>8. LookOK' /\ OpeningOK'
  <2>1. LooksOnly' = LooksOnly
    BY DEF LooksOnly, coreVars
  <2> QED
    BY <1>5, <2>1 DEF LookOK, OpeningOK
<1>9. ControlOK'
  <2>1. active'.journal.name = Following[active'.checkpoint]
    BY <1>5 DEF name
  <2> QED
    BY <1>5, <1>6, <1>7, <2>1 DEF PartsOK, ControlOK
<1>10. RequestOK'
  BY <1>6, <1>7 DEF RequestOK, Asked
<1>11. ClearOK'
  <2>1. active'.journal = [name |-> "ADD_TO_CART", status |-> "DISPATCHED"] => name = "ADD_TO_CART"
    BY <1>5
  <2>2. active.checkpoint \notin {"CART_READY", "CHECKOUT_READY"} => Clear'
    BY <1>5, <1>7 DEF PartsOK, ClearOK, Clear
  <2> QED
    BY <1>4, <1>5, <2>1, <2>2 DEF ClearOK, Adding
<1>12. CartOK'
  BY <1>5, <1>6 DEF PartsOK, CartOK
<1>13. EmptyOK'
  BY <1>5, <1>6, <1>7 DEF PartsOK, EmptyOK
<1> QED
  BY <1>5, <1>6, <1>8, <1>9, <1>10, <1>11, <1>12, <1>13 DEF PartsOK

LEMMA DecidesSafely == ASSUME FlowTypes, PartsOK, PumpDecides PROVE Quiet \/ (Moves /\ PartsOK')
<1> DEFINE m == Opened("NONE")
           report == <<Opened("NONE")>>
<1>1. /\ pump.at = "READ" /\ pump.fresh /\ active.state \in {"RUNNING", "OPENED"}
      /\ UNCHANGED <<coreVars, tab, cart, quirks>>
      /\ UNCHANGED coreVars /\ tab' = tab /\ cart' = cart /\ quirks' = quirks
  BY DEF PumpDecides
<1>2. {"WAITING_FOR_HUMAN", "PAUSED_UNCERTAIN", "FAILED"} \subseteq Resumable
  BY DEF Resumable
<1>3. active \in Controller /\ pump \in Round
  BY DEF FlowTypes
<1>4. m \in Sendable /\ Plain(m)
  BY OpenedPlainly
<1>5. CASE PumpPauses(active, "WAITING_FOR_HUMAN", "HUMAN", <<>>)
  BY <1>1, <1>2, <1>5, PumpPausesQuietly
<1>6. CASE active' = [active EXCEPT !.state = "OPENED"] /\ PumpEnds /\ Post(report) /\ UNCHANGED worker
  <2>1. active' \in Controller
    BY <1>3, <1>6 DEF Controller
  <2>2. Moves
    BY <1>1, <1>4, <1>6, <2>1, IdleFacts, PostsPlainly DEF Moves, FlowTypes, PumpEnds
  <2>3. Rests
    BY <1>1, <1>3, <1>6, IdleFacts DEF Rests, RecordStays, PumpRests, FreshStays, PageStays, PumpEnds, Controller
  <2> QED
    BY <2>2, <2>3 DEF Quiet
<1>7. CASE PumpPauses(active, "PAUSED_UNCERTAIN", "SITE_CHANGED", report)
  BY <1>1, <1>2, <1>7, PumpPausesQuietly
<1>8. CASE PumpPauses(active, "FAILED", "SITE_CHANGED", report)
  BY <1>1, <1>2, <1>8, PumpPausesQuietly
<1>9. CASE /\ pump' = ReadAgain /\ Post(report) /\ KeepsOn
           /\ ~active.openOnly /\ active.checkpoint # "CHECKOUT_READY"
  <2>1. active' = active /\ worker' = worker
    BY <1>9 DEF KeepsOn
  <2>2. PartsOK' /\ pump' \in Round
    BY <1>1, <1>9, <2>1, AgainKeeps
  <2>3. Moves
    BY <1>1, <1>4, <1>9, <2>1, <2>2, PostsPlainly DEF Moves, FlowTypes
  <2> QED
    BY <2>2, <2>3
<1>10. CASE /\ Stores(active, Following[active.checkpoint]) /\ Post(report) /\ UNCHANGED worker
            /\ ~active.openOnly /\ ~active.recheck /\ active.journal.status # "DISPATCHED"
            /\ active.checkpoint # "CHECKOUT_READY"
  <2>1. ~LooksOnly
    BY <1>1, <1>10 DEF PartsOK, LookOK
  <2>2. PartsOK' /\ pump' \in Round /\ active' \in Controller
    BY <1>1, <1>10, <2>1, StoresKeep
  <2>3. Moves
    BY <1>1, <1>4, <1>10, <2>2, PostsPlainly DEF Moves, FlowTypes
  <2> QED
    BY <2>2, <2>3
<1>11. /\ active.recheck => active.checkpoint = "CART_READY"
       /\ active.journal.status = "DISPATCHED" => active.checkpoint # "CHECKOUT_READY"
       /\ active.checkpoint \in Rechecked => active.checkpoint # "CHECKOUT_READY"
  BY DEF PartsOK, ControlOK, Rechecked
<1> QED
  BY <1>5, <1>6, <1>7, <1>8, <1>9, <1>10, <1>11 DEF PumpDecides

LEMMA SendsSafely == ASSUME FlowTypes, PartsOK, PumpSends PROVE Moves /\ PartsOK'
<1> DEFINE r == [name |-> active.journal.name, bound |-> active.bound, alive |-> pump.here]
<1>1. /\ pump.at = "STORED" /\ tab' = [tab EXCEPT !.request = r] /\ pump' = [pump EXCEPT !.at = "SENT"]
      /\ pump.fresh /\ active' = active /\ worker' = worker /\ cart' = cart /\ quirks' = quirks
      /\ UNCHANGED coreVars /\ UNCHANGED linkVars
  BY DEF PumpSends
<1>2. active.journal.status = "DISPATCHED"
  BY <1>1 DEF PartsOK, ControlOK
<1>3. active.journal.name \in DOMAIN Mutation /\ active.bound \in Bound /\ pump.here \in BOOLEAN
  <2>1. active \in Controller /\ pump \in Round
    BY DEF FlowTypes
  <2>2. active.journal \in Journal /\ active.bound \in Bound /\ pump.here \in BOOLEAN
    BY <2>1 DEF Controller, Round
  <2>3. active.journal # NoJournal
    BY <1>2 DEF NoJournal
  <2> QED
    BY <2>2, <2>3 DEF Journal
<1>4. r \in Request /\ r.name = active.journal.name
  BY <1>3 DEF Request
<1> HIDE DEF r
<1>5. tab' \in Tab /\ tab'.request = r /\ tab'.doc = tab.doc
  BY <1>1, <1>4 DEF FlowTypes, Tab
<1>6. /\ pump' \in Round /\ pump'.at = "SENT" /\ pump'.fresh = pump.fresh /\ pump'.cmd = pump.cmd
      /\ pump'.again = pump.again
  BY <1>1 DEF FlowTypes, Round
<1>7. Moves
  BY <1>1, <1>5, <1>6, SilentWire, KeptHands DEF Moves, FlowTypes, Silent
<1>8. LookOK' /\ OpeningOK'
  <2>1. ~LooksOnly' /\ active.state # "NONE"
    BY <1>1 DEF PartsOK, LookOK, OpeningOK, LooksOnly, coreVars
  <2> QED
    BY <1>1, <2>1 DEF LookOK, OpeningOK
<1>9. ControlOK'
  BY <1>1, <1>2, <1>6 DEF PartsOK, ControlOK
<1>10. RequestOK'
  <2>1. Adding => Clear
    BY <1>1 DEF PartsOK, ClearOK
  <2>2. Asked' => Adding
    <3>1. active.journal \in Journal /\ active.journal # NoJournal
      BY <1>2 DEF FlowTypes, Controller, NoJournal
    <3>2. active.journal \in [name : DOMAIN Mutation, status : {"DISPATCHED", "VERIFIED", "NOT_APPLIED"}]
      BY <3>1 DEF Journal
    <3>3. active.journal.name = "ADD_TO_CART" => active.journal = [name |-> "ADD_TO_CART", status |-> "DISPATCHED"]
      BY <1>2, <3>2
    <3> QED
      BY <1>4, <1>5, <3>3 DEF Asked, Adding
  <2>3. Adding' = Adding /\ Clear' = Clear
    BY <1>1, <1>5 DEF Adding, Clear
  <2>4. tab'.request.name = active'.journal.name
    BY <1>1, <1>4, <1>5
  <2> QED
    BY <1>6, <2>1, <2>2, <2>3, <2>4 DEF RequestOK
<1>11. ClearOK'
  BY <1>1, <1>5, <1>6 DEF PartsOK, ClearOK, Adding, Clear
<1>12. CartOK' /\ EmptyOK'
  BY <1>1, <1>5, <1>6 DEF PartsOK, CartOK, EmptyOK
<1> QED
  BY <1>7, <1>8, <1>9, <1>10, <1>11, <1>12 DEF PartsOK

(* An answer that proves that nothing was done closes the journal again.   *)
LEMMA HearsSafely == ASSUME FlowTypes, PartsOK, PumpHears PROVE Quiet \/ (Moves /\ PartsOK')
<1> DEFINE j == [active.journal EXCEPT !.status = "NOT_APPLIED"]
           released == [active EXCEPT !.journal = j]
<1>1. /\ pump.at = "ANSWERED" /\ pump.fresh /\ UNCHANGED <<coreVars, tab, cart, quirks>>
      /\ UNCHANGED coreVars /\ tab' = tab /\ cart' = cart /\ quirks' = quirks /\ active.state # "NONE"
  BY DEF PumpHears, PartsOK, OpeningOK
<1>2. {"WAITING_FOR_HUMAN", "PAUSED_UNCERTAIN"} \subseteq Resumable
  BY DEF Resumable
<1>3. CASE PumpEnds /\ KeepsOn /\ Silent
  BY <1>1, <1>3, EndsQuietly DEF KeepsOn, Silent
<1>4. CASE PumpPauses(active, "PAUSED_UNCERTAIN", "SITE_CHANGED", <<>>)
  BY <1>1, <1>2, <1>4, PumpPausesQuietly
<1>5. ASSUME pump.answer \in Refusals, NEW state \in Resumable, NEW kind \in {"HUMAN", "SITE_CHANGED", "SOLD_OUT"},
             PumpPauses(released, state, kind, <<>>)
      PROVE  Moves /\ PartsOK'
  <2>1. /\ active \in Controller /\ active.journal.status = "DISPATCHED" /\ active.journal \in Journal
    BY <1>1 DEF FlowTypes, Controller, PartsOK, ControlOK
  <2>2. j \in Journal /\ j.status = "NOT_APPLIED"
    <3>1. active.journal \in [name : DOMAIN Mutation, status : {"DISPATCHED", "VERIFIED", "NOT_APPLIED"}]
      BY <2>1 DEF Journal, NoJournal
    <3> QED
      BY <3>1 DEF Journal
  <2> HIDE DEF j
  <2>3. released \in Controller
    BY <2>1, <2>2 DEF Controller
  <2>4. /\ active' = [released EXCEPT !.state = state] /\ active' \in Controller
        /\ worker' = Bumped /\ worker' \in Memory /\ SameHands(worker')
        /\ events' \in Seq(Sendable) /\ host' = host /\ commands' = commands
        /\ \A n \in DOMAIN events' : (\E k \in DOMAIN events : events'[n] = events[k]) \/ Plain(events'[n])
        /\ pump' = IdlePump
    <3>1. Pause(released, state, kind, <<>>) /\ pump' = IdlePump
      BY <1>5 DEF PumpPauses, PumpEnds
    <3>2. kind \in {"FAILED", "SITE_CHANGED", "HUMAN", "SOLD_OUT"}
      OBVIOUS
    <3> HIDE DEF released
    <3> QED
      BY <2>3, <3>1, <3>2, PauseMoves
  <2>5. /\ active'.state # "NONE" /\ active'.checkpoint = active.checkpoint /\ active'.journal = j
        /\ active'.rebuilds = active.rebuilds /\ active'.recheck = active.recheck /\ active'.empty = active.empty
    BY <2>1, <2>4 DEF Controller, Resumable
  <2>6. Moves
    BY <1>1, <2>4, IdleFacts DEF Moves, FlowTypes, WireStays, NoneReady, Plain
  <2>7. ~Asked /\ (active.checkpoint \notin {"CART_READY", "CHECKOUT_READY"} => Clear)
    <3>1. ~Asked
      BY <1>1 DEF PartsOK, RequestOK, Asked, NoRequest
    <3> QED
      BY <1>1, <1>5, <3>1 DEF PartsOK, ClearOK
  <2>8. pump'.at = "IDLE" /\ pump'.fresh = FALSE
    BY <2>4, IdleFacts
  <2>9. LookOK' /\ OpeningOK'
    <3>1. ~LooksOnly'
      BY <1>1 DEF PartsOK, LookOK, LooksOnly, coreVars
    <3> QED
      BY <2>5, <3>1 DEF LookOK, OpeningOK
  <2>10. ControlOK'
    BY <2>2, <2>5, <2>8 DEF PartsOK, ControlOK
  <2>11. RequestOK' /\ ClearOK'
    BY <1>1, <2>2, <2>5, <2>7, <2>8 DEF RequestOK, ClearOK, Asked, Clear
  <2>12. CartOK' /\ EmptyOK'
    BY <1>1, <2>5, <2>8 DEF PartsOK, CartOK, EmptyOK
  <2> QED
    BY <2>6, <2>9, <2>10, <2>11, <2>12 DEF PartsOK
<1>6. CASE pump.answer \in Refusals /\ PumpPauses(released, "WAITING_FOR_HUMAN", "HUMAN", <<>>)
  BY <1>2, <1>5, <1>6
<1>7. CASE pump.answer \in Refusals /\ PumpPauses(released, "PAUSED_UNCERTAIN", "SITE_CHANGED", <<>>)
  BY <1>2, <1>5, <1>7
<1>8. CASE pump.answer \in Refusals /\ PumpPauses(released, "PAUSED_UNCERTAIN", "SOLD_OUT", <<>>)
  BY <1>2, <1>5, <1>8
<1>9. released = [active EXCEPT !.journal.status = "NOT_APPLIED"]
  OBVIOUS
<1> HIDE DEF released
<1>10. CASE pump.answer = "NONE"
  BY <1>3, <1>10 DEF PumpHears
<1>11. CASE pump.answer = "UNKNOWN"
  BY <1>4, <1>11 DEF PumpHears
<1>12. CASE pump.answer = "HUMAN"
  BY <1>6, <1>9, <1>12 DEF PumpHears, Refusals
<1>13. CASE pump.answer = "REFUSED"
  BY <1>7, <1>9, <1>13 DEF PumpHears, Refusals
<1>14. CASE pump.answer = "SOLD_OUT"
  BY <1>8, <1>9, <1>14 DEF PumpHears, Refusals
<1>15. CASE pump.answer \in {"VERIFIED", "KEPT", "EMPTY", "REBUILT"}
  BY <1>1, <1>15 DEF PartsOK, RequestOK, Refusals
<1>16. pump.answer \in {"NONE", "UNKNOWN", "HUMAN", "REFUSED", "SOLD_OUT", "VERIFIED", "KEPT", "EMPTY", "REBUILT"}
  BY DEF FlowTypes, Round
<1> QED
  BY <1>10, <1>11, <1>12, <1>13, <1>14, <1>15, <1>16

-----------------------------------------------------------------------------
(* What a second reading decides. *)

LEMMA ReportsMoves ==
  ASSUME FlowTypes, NEW a \in Controller, NEW what \in {"VERIFIED", "KEPT", "EMPTY", "REBUILT"}, Reports(a, what),
         UNCHANGED <<coreVars, tab, cart, quirks>>
  PROVE  Moves /\ active' = a /\ pump'.at = "REPORT" /\ pump'.fresh = pump.fresh /\ pump'.cmd = pump.cmd
         /\ tab' = tab /\ cart' = cart /\ UNCHANGED coreVars
<1>1. /\ active' = a /\ pump' = [pump EXCEPT !.at = "REPORT", !.answer = what] /\ worker' = worker /\ Silent
      /\ UNCHANGED coreVars /\ tab' = tab /\ cart' = cart /\ quirks' = quirks
  BY DEF Reports
<1>2. pump' \in Round /\ pump'.at = "REPORT" /\ pump'.fresh = pump.fresh /\ pump'.cmd = pump.cmd
  BY <1>1 DEF FlowTypes, Round
<1> QED
  BY <1>1, <1>2, SilentWire, KeptHands DEF Moves, FlowTypes

(* verifyMutation: the checkpoint moves on, with the page that proves it.   *)
LEMMA VerifiesSafely ==
  ASSUME FlowTypes, PartsOK, pump.at = "AGAIN", pump.fresh, ~active.recheck, active.journal.status = "DISPATCHED",
         VerifiesMutation, UNCHANGED <<coreVars, tab, cart, quirks>>
  PROVE  Quiet \/ (Moves /\ PartsOK')
<1> DEFINE name == active.journal.name
           m == Mutation[name]
           j == [active.journal EXCEPT !.status = "VERIFIED"]
           bound == IF name = "OPEN_CONFIGURATION" THEN Index(pump.again) ELSE active.bound
           verified == [active EXCEPT !.journal = j, !.checkpoint = m.checkpoint, !.bound = bound]
<1>1. active \in Controller /\ pump \in Round /\ active.state # "NONE" /\ ~LooksOnly
  BY DEF FlowTypes, PartsOK, LookOK, OpeningOK
<1>2. /\ active.checkpoint # "CHECKOUT_READY" /\ name = Following[active.checkpoint]
      /\ active.checkpoint \in DOMAIN Following /\ active.empty = "NONE"
  BY <1>1 DEF PartsOK, ControlOK, Controller
<1>3. CASE PumpPauses(active, "PAUSED_UNCERTAIN", "SITE_CHANGED", <<>>)
  <2>1. "PAUSED_UNCERTAIN" \in Resumable
    BY DEF Resumable
  <2> QED
    BY <1>1, <1>3, <2>1, PumpPausesQuietly
<1>4. CASE Verified(pump.again, m.target) /\ Reports(verified, "VERIFIED")
  <2>1. /\ m.checkpoint \in DOMAIN Following \cup {"CHECKOUT_READY"}
        /\ m.checkpoint = "CART_READY" => name = "ADD_TO_CART" /\ m.target = "CART"
        /\ name = "ADD_TO_CART" => m.checkpoint = "CART_READY"
        /\ m.checkpoint \notin {"CART_READY", "CHECKOUT_READY"} =>
             active.checkpoint \notin {"CART_READY", "CHECKOUT_READY"} /\ name # "ADD_TO_CART"
    BY <1>2 DEF Following, Mutation
  <2>2. active.journal \in [name : DOMAIN Mutation, status : {"DISPATCHED", "VERIFIED", "NOT_APPLIED"}]
    BY <1>1 DEF Controller, Journal, NoJournal
  <2>3. j \in Journal /\ j.status = "VERIFIED" /\ j.name = name
    BY <2>2 DEF Journal
  <2>4. bound \in Bound
    BY <1>1, ShowsFacts DEF Round, Controller
  <2> HIDE DEF j, bound, m
  <2>5. /\ verified \in Controller /\ verified.state = active.state /\ verified.checkpoint = m.checkpoint
        /\ verified.journal = j /\ verified.recheck = active.recheck /\ verified.empty = active.empty
        /\ verified.rebuilds = active.rebuilds /\ verified.cmd = active.cmd
    BY <1>1, <2>1, <2>3, <2>4 DEF Controller
  <2> HIDE DEF verified
  <2>6. /\ Moves /\ active' = verified /\ pump'.at = "REPORT" /\ pump'.fresh = pump.fresh /\ pump'.cmd = pump.cmd
        /\ tab' = tab /\ cart' = cart /\ UNCHANGED coreVars
    BY <1>4, <2>5, ReportsMoves
  <2>7. m.checkpoint = "CART_READY" => Full(pump.again)
    BY <1>4, <2>1 DEF Verified, Full
  <2>8. ~Adding \/ m.checkpoint = "CART_READY"
    BY <2>1 DEF Adding
  <2>9. LookOK' /\ OpeningOK'
    <3>1. ~LooksOnly'
      BY <1>1, <2>6 DEF LooksOnly, coreVars
    <3> QED
      BY <1>1, <2>5, <2>6, <3>1 DEF LookOK, OpeningOK
  <2>10. ControlOK'
    BY <1>2, <2>3, <2>5, <2>6 DEF PartsOK, ControlOK
  <2>11. RequestOK'
    <3>1. ~Asked
      BY <2>7, <2>8 DEF PartsOK, RequestOK
    <3> QED
      BY <2>6, <3>1 DEF RequestOK, Asked
  <2>12. ClearOK'
    <3>1. m.checkpoint \notin {"CART_READY", "CHECKOUT_READY"} => Clear
      BY <2>1, <2>8 DEF PartsOK, ClearOK
    <3> QED
      BY <2>5, <2>6, <3>1 DEF ClearOK, Clear
  <2>13. CartOK'
    BY <2>5, <2>6, <2>7 DEF PartsOK, CartOK
  <2>14. EmptyOK'
    BY <1>2, <2>5, <2>6, <2>7 DEF PartsOK, EmptyOK
  <2> QED
    BY <2>6, <2>9, <2>10, <2>11, <2>12, <2>13, <2>14 DEF PartsOK
<1>5. verified = [active EXCEPT !.journal.status = "VERIFIED", !.checkpoint = m.checkpoint,
                    !.bound = IF active.journal.name = "OPEN_CONFIGURATION" THEN Index(pump.again) ELSE @]
  BY <1>1 DEF Controller
<1> QED
  BY <1>3, <1>4, <1>5 DEF VerifiesMutation

(* resumeCart: it keeps the cart that it finds, waits for a second document *)
(* that looks empty, or counts a rebuild; a cart that was verified once has *)
(* no submission on its way.                                               *)
LEMMA ResumesSafely ==
  ASSUME FlowTypes, PartsOK, pump.at = "AGAIN", pump.fresh, active.recheck,
         ResumesCart, UNCHANGED <<coreVars, tab, cart, quirks>>
  PROVE  Quiet \/ (Moves /\ PartsOK')
<1> DEFINE stage == pump.page.stage
           emptied == stage = "CART" /\ pump.again = [stage |-> "CART", shows |-> "EMPTY"]
           kept == [active EXCEPT !.journal = NoJournal, !.recheck = FALSE, !.empty = "NONE"]
           ready == [kept EXCEPT !.checkpoint = "CHECKOUT_READY", !.state = "CHECKOUT_READY"]
           once == [active EXCEPT !.empty = IF pump.here THEN "HERE" ELSE "GONE"]
           rebuilt == [kept EXCEPT !.rebuilds = @ + 1, !.checkpoint = "START", !.bound = "NONE"]
<1>1. active \in Controller /\ pump \in Round /\ active.state # "NONE" /\ ~LooksOnly
  BY DEF FlowTypes, PartsOK, LookOK, OpeningOK
<1>2. active.checkpoint = "CART_READY" /\ ~Adding /\ ~Asked /\ ~cart.post
  <2>1. active.checkpoint = "CART_READY"
    BY DEF PartsOK, ControlOK
  <2>2. active.journal.status = "DISPATCHED" => active.journal.name = "OPEN_CHECKOUT"
    BY <2>1 DEF PartsOK, ControlOK, Following
  <2> QED
    BY <2>1, <2>2 DEF PartsOK, Adding, RequestOK, CartOK
<1>3. NoJournal \in Journal /\ NoJournal.status = "NONE" /\ NoJournal.name = "NONE"
  BY DEF Journal, NoJournal
<1>4. ASSUME NEW a \in Controller, NEW what \in {"KEPT", "EMPTY", "REBUILT"}, Reports(a, what),
             a.state # "NONE", a.cmd = active.cmd, ~(a.journal = [name |-> "ADD_TO_CART", status |-> "DISPATCHED"]),
             a.journal.status = "DISPATCHED" => a.checkpoint = active.checkpoint /\ a.journal = active.journal,
             a.recheck => a.checkpoint = "CART_READY", a.empty # "NONE" => a.recheck,
             a.checkpoint \in {"CART_READY", "CHECKOUT_READY"} \/
               (cart.items = 0 /\ ~Full(tab.doc) /\ a.rebuilds = active.rebuilds + 1),
             a.checkpoint \in {"CART_READY", "CHECKOUT_READY"} => a.rebuilds = active.rebuilds,
             a.empty # "NONE" => (cart.items > 0 => cart.stale) /\ (a.empty = "GONE" /\ Empty(tab.doc) => cart.items = 0)
      PROVE  Moves /\ PartsOK'
  <2>1. /\ Moves /\ active' = a /\ pump'.at = "REPORT" /\ pump'.fresh = pump.fresh /\ pump'.cmd = pump.cmd
        /\ tab' = tab /\ cart' = cart /\ UNCHANGED coreVars
    BY <1>4, ReportsMoves
  <2>2. LookOK' /\ OpeningOK'
    <3>1. ~LooksOnly'
      BY <1>1, <2>1 DEF LooksOnly, coreVars
    <3> QED
      BY <1>4, <2>1, <3>1 DEF LookOK, OpeningOK
  <2>3. ControlOK'
    BY <1>2, <1>4, <2>1 DEF PartsOK, ControlOK
  <2>4. RequestOK'
    BY <1>2, <2>1 DEF RequestOK, Asked
  <2>5. ClearOK'
    <3>1. a.checkpoint \notin {"CART_READY", "CHECKOUT_READY"} => Clear'
      <4>1. cart.posts <= active.rebuilds + 1
        BY DEF PartsOK, CartOK
      <4> QED
        BY <1>2, <1>4, <2>1, <4>1 DEF Clear
    <3> QED
      BY <1>4, <2>1, <3>1 DEF ClearOK, Adding
  <2>6. CartOK'
    <3>1. cart.posts <= a.rebuilds + 1
      BY <1>1, <1>4 DEF PartsOK, CartOK, FlowTypes, Merchant, Controller
    <3> QED
      BY <1>2, <2>1, <3>1 DEF PartsOK, CartOK
  <2>7. EmptyOK'
    BY <1>2, <1>4, <2>1 DEF PartsOK, EmptyOK
  <2> QED
    BY <2>1, <2>2, <2>3, <2>4, <2>5, <2>6, <2>7 DEF PartsOK
<1>5. /\ kept \in Controller /\ kept.state = active.state /\ kept.cmd = active.cmd /\ kept.journal = NoJournal
      /\ kept.recheck = FALSE /\ kept.empty = "NONE" /\ kept.checkpoint = active.checkpoint /\ kept.rebuilds = active.rebuilds
  BY <1>1, <1>3 DEF Controller
<1>6. once = [active EXCEPT !.empty = IF pump.here THEN "HERE" ELSE "GONE"]
  OBVIOUS
<1> HIDE DEF kept
<1>7. /\ ready \in Controller /\ ready.state = "CHECKOUT_READY" /\ ready.cmd = active.cmd /\ ready.journal = NoJournal
      /\ ready.recheck = FALSE /\ ready.empty = "NONE" /\ ready.checkpoint = "CHECKOUT_READY" /\ ready.rebuilds = active.rebuilds
  BY <1>5 DEF Controller, Terminal
<1> HIDE DEF ready, once
<1>8. CASE Reports(kept, "KEPT")
  BY <1>1, <1>2, <1>3, <1>4, <1>5, <1>8
<1>9. CASE Reports(ready, "KEPT")
  BY <1>3, <1>4, <1>7, <1>9
<1>10. CASE emptied /\ active.empty = "NONE" /\ Reports(once, "EMPTY")
  <2>1. /\ once \in Controller /\ once.state = active.state /\ once.cmd = active.cmd /\ once.journal = active.journal
        /\ once.recheck = active.recheck /\ once.checkpoint = active.checkpoint /\ once.rebuilds = active.rebuilds
        /\ once.empty = IF pump.here THEN "HERE" ELSE "GONE"
    BY <1>1, <1>6 DEF Controller
  <2>2. Empty(pump.again)
    BY <1>10 DEF Empty
  <2>3. /\ cart.items > 0 => cart.stale
        /\ ~pump.here /\ Empty(tab.doc) => cart.items = 0
    BY <1>2, <2>2 DEF PartsOK, EmptyOK
  <2>4. once.empty = "GONE" => ~pump.here
    BY <2>1
  <2>5. ~(once.journal = [name |-> "ADD_TO_CART", status |-> "DISPATCHED"])
    BY <1>2, <2>1 DEF Adding
  <2> QED
    BY <1>1, <1>2, <1>4, <1>10, <2>1, <2>3, <2>4, <2>5
<1>11. CASE emptied /\ active.empty # "NONE" /\ ~pump.same /\ active.rebuilds < MaxRebuilds /\ Reports(rebuilt, "REBUILT")
  <2>1. active.rebuilds + 1 \in 0 .. MaxRebuilds
    BY <1>1, <1>11, CartFlowAssumption DEF Controller
  <2>2. /\ rebuilt \in Controller /\ rebuilt.state = active.state /\ rebuilt.cmd = active.cmd /\ rebuilt.journal = NoJournal
        /\ rebuilt.recheck = FALSE /\ rebuilt.empty = "NONE" /\ rebuilt.checkpoint = "START"
        /\ rebuilt.rebuilds = active.rebuilds + 1
    BY <1>5, <2>1 DEF Controller, Following, Bound
  <2>3. Empty(pump.again)
    BY <1>11 DEF Empty
  <2>4. cart.items = 0 /\ ~Full(tab.doc)
    BY <1>2, <1>11, <2>3 DEF PartsOK, EmptyOK
  <2> HIDE DEF rebuilt
  <2> QED
    BY <1>1, <1>3, <1>4, <1>11, <2>2, <2>4
<1>12. CASE PumpPauses(active, "PAUSED_UNCERTAIN", "SITE_CHANGED", <<>>)
  <2>1. "PAUSED_UNCERTAIN" \in Resumable
    BY DEF Resumable
  <2> QED
    BY <1>1, <1>12, <2>1, PumpPausesQuietly
<1> QED
  BY <1>8, <1>9, <1>10, <1>11, <1>12 DEF ResumesCart, kept, ready, once

LEMMA GoesOnSafely ==
  ASSUME FlowTypes, PartsOK, pump.at = "AGAIN", pump.fresh, ~active.recheck, active.journal.status # "DISPATCHED",
         GoesOn, UNCHANGED <<coreVars, tab, cart, quirks>>
  PROVE  Quiet \/ (Moves /\ PartsOK')
<1>1. /\ active \in Controller /\ active.state # "NONE" /\ ~LooksOnly /\ active.checkpoint # "CHECKOUT_READY"
      /\ UNCHANGED coreVars /\ tab' = tab /\ cart' = cart /\ quirks' = quirks
  BY DEF FlowTypes, PartsOK, LookOK, OpeningOK, ControlOK
<1>2. CASE PumpPauses(active, "FAILED", "SITE_CHANGED", <<>>)
  <2>1. "FAILED" \in Resumable
    BY DEF Resumable
  <2> QED
    BY <1>1, <1>2, <2>1, PumpPausesQuietly
<1>3. CASE /\ Stores(active, Following[active.checkpoint]) /\ UNCHANGED worker
           /\ Post(IF Following[active.checkpoint] = "ADD_TO_CART" THEN <<Event("PRODUCT_VERIFIED", active.cmd)>> ELSE <<>>)
  <2>1. worker' = worker
    BY <1>3
  <2>2. PartsOK' /\ pump' \in Round /\ active' \in Controller
    BY <1>1, <1>3, <2>1, StoresKeep
  <2>3. CASE Post(<<Event("PRODUCT_VERIFIED", active.cmd)>>)
    <3> DEFINE m == Event("PRODUCT_VERIFIED", active.cmd)
    <3>1. m \in Sendable /\ m.kind = "PRODUCT_VERIFIED" /\ ~Cancels(m)
      <4>1. "PRODUCT_VERIFIED" \in Kind \cup {"READY"} /\ active.cmd \in 0 .. MaxCommands
        BY <1>1 DEF Kind, Controller
      <4> QED
        BY <4>1, EventFacts
    <3>2. Post(<<m>>)
      BY <2>3
    <3> HIDE DEF m
    <3>3. Plain(m)
      BY <3>1 DEF Plain, Ready
    <3> QED
      BY <1>1, <2>1, <2>2, <3>1, <3>2, <3>3, PostsPlainly DEF Moves, FlowTypes
  <2>4. CASE Post(<<>>)
    <3>1. <<>> \in Seq(Sendable) /\ DOMAIN <<>> = {}
      OBVIOUS
    <3>2. /\ events' \in Seq(Sendable) /\ host' = host /\ commands' = commands
          /\ \A n \in DOMAIN events' : \E k \in DOMAIN events : events'[n] = events[k]
      BY <2>4, <3>1, Posted
    <3> QED
      BY <1>1, <2>1, <2>2, <3>2, KeptHands DEF Moves, FlowTypes, WireStays, NoneReady
  <2> QED
    BY <1>3, <2>3, <2>4
<1> QED
  BY <1>2, <1>3 DEF GoesOn

LEMMA VerifiesAllSafely == ASSUME FlowTypes, PartsOK, PumpVerifies PROVE Quiet \/ (Moves /\ PartsOK')
<1>1. /\ pump.at = "AGAIN" /\ pump.fresh /\ UNCHANGED <<coreVars, tab, cart, quirks>> /\ active.state # "NONE"
  BY DEF PumpVerifies, PartsOK, OpeningOK
<1>2. {"WAITING_FOR_HUMAN", "PAUSED_UNCERTAIN"} \subseteq Resumable
  BY DEF Resumable
<1>3. CASE PumpPauses(active, "WAITING_FOR_HUMAN", "HUMAN", <<>>)
  BY <1>1, <1>2, <1>3, PumpPausesQuietly
<1>4. CASE PumpPauses(active, "PAUSED_UNCERTAIN", "FAILED", <<>>)
  BY <1>1, <1>2, <1>4, PumpPausesQuietly
<1>5. CASE active.recheck /\ ResumesCart
  BY <1>1, <1>5, ResumesSafely
<1>6. CASE ~active.recheck /\ active.journal.status = "DISPATCHED" /\ VerifiesMutation
  BY <1>1, <1>6, VerifiesSafely
<1>7. CASE ~active.recheck /\ active.journal.status # "DISPATCHED" /\ GoesOn
  BY <1>1, <1>7, GoesOnSafely
<1> QED
  BY <1>3, <1>4, <1>5, <1>6, <1>7 DEF PumpVerifies

(* What is reported ready is the checkpoint.                               *)
ReadyIsVerified ==
  \A n \in DOMAIN events' :
    (\E k \in DOMAIN events : events'[n] = events[k]) \/ ~Ready(events'[n]) \/ events'[n].kind = active.checkpoint

LEMMA ReportsQuietly ==
  ASSUME FlowTypes, PartsOK, PumpReports
  PROVE  FlowTypes' /\ WireStays /\ ReadyIsVerified /\ Rests
<1>1. /\ pump.at = "REPORT" /\ pump' = IdlePump /\ UNCHANGED coreVars /\ worker' = worker /\ cart' = cart
      /\ quirks' = quirks /\ active.state # "NONE" /\ active \in Controller /\ tab \in Tab
  BY DEF PumpReports, PumpEnds, PartsOK, OpeningOK, FlowTypes
<1>2. ASSUME NEW m \in Sendable, Post(<<m>>), ~Cancels(m), ~Ready(m) \/ m.kind = active.checkpoint
      PROVE  /\ host' \in BOOLEAN /\ commands' \in Seq(1 .. MaxCommands) /\ events' \in Seq(Sendable)
             /\ WireStays /\ ReadyIsVerified
  <2>1. <<m>> \in Seq(Sendable) /\ \A k \in DOMAIN <<m>> : <<m>>[k] = m
    BY SingleFacts
  <2>2. /\ events' \in Seq(Sendable) /\ host' = host /\ commands' = commands
        /\ \A n \in DOMAIN events' : (\E k \in DOMAIN events : events'[n] = events[k]) \/ events'[n] = m
    BY <1>2, <2>1, Posted
  <2> QED
    BY <1>1, <1>2, <2>2, KeptHands DEF FlowTypes, WireStays, ReadyIsVerified
<1>3. CASE /\ Post(<<Opened(IF pump.answer = "REBUILT" THEN "REBUILDING" ELSE "NONE")>>)
           /\ tab' = [tab EXCEPT !.nav = IF pump.answer = "REBUILT" THEN "PRODUCT" ELSE "CART"]
           /\ UNCHANGED active
  <2>1. PICK code \in {"NONE", "REBUILDING"} : Post(<<Opened(code)>>)
    BY <1>3
  <2>2. Opened(code) \in Sendable /\ ~Cancels(Opened(code)) /\ ~Ready(Opened(code))
    BY OpenedFacts
  <2>3. /\ host' \in BOOLEAN /\ commands' \in Seq(1 .. MaxCommands) /\ events' \in Seq(Sendable)
        /\ WireStays /\ ReadyIsVerified
    BY <1>2, <2>1, <2>2
  <2>4. tab' \in Tab /\ tab'.doc = tab.doc /\ tab'.request = tab.request
    BY <1>1, <1>3 DEF Tab, Stage
  <2>5. FlowTypes'
    BY <1>1, <1>3, <2>3, <2>4, IdleFacts DEF FlowTypes
  <2>6. Rests
    BY <1>1, <1>3, <2>4, IdleFacts DEF Rests, RecordStays, PumpRests, FreshStays, PageStays
  <2> QED
    BY <2>3, <2>5, <2>6
<1>4. CASE /\ active.checkpoint \in {"CART_READY", "CHECKOUT_READY"}
           /\ Post(<<Event(active.checkpoint, active.cmd)>>)
           /\ active' = IF active.checkpoint = "CHECKOUT_READY" THEN [active EXCEPT !.state = "CHECKOUT_READY"] ELSE active
           /\ UNCHANGED tab
  <2>1. active.checkpoint \in Kind \cup {"READY"} /\ active.cmd \in 0 .. MaxCommands
    BY <1>1, <1>4 DEF Kind, Controller
  <2> DEFINE m == Event(active.checkpoint, active.cmd)
  <2>2. m \in Sendable /\ ~Cancels(m) /\ m.kind = active.checkpoint
    BY <2>1, EventFacts
  <2>3. Post(<<m>>)
    BY <1>4
  <2> HIDE DEF m
  <2>4. /\ host' \in BOOLEAN /\ commands' \in Seq(1 .. MaxCommands) /\ events' \in Seq(Sendable)
        /\ WireStays /\ ReadyIsVerified
    BY <1>2, <2>2, <2>3
  <2>5. /\ active' \in Controller /\ active'.state # "NONE" /\ active'.checkpoint = active.checkpoint
        /\ active'.journal = active.journal /\ active'.rebuilds = active.rebuilds /\ active'.recheck = active.recheck
        /\ active'.empty = active.empty /\ active'.openOnly = active.openOnly
    BY <1>1, <1>4 DEF Controller, Terminal
  <2>6. FlowTypes'
    BY <1>1, <1>4, <2>4, <2>5, IdleFacts DEF FlowTypes
  <2>7. Rests
    BY <1>1, <1>4, <2>5, IdleFacts DEF Rests, RecordStays, PumpRests, FreshStays, PageStays
  <2> QED
    BY <2>4, <2>6, <2>7
<1>5. CASE Silent /\ active' = active /\ tab' = tab
  <2>1. Quiet
    BY <1>1, <1>5, EndsQuietly DEF PumpEnds, Silent
  <2> QED
    BY <2>1 DEF Quiet, Moves, NoneReady, ReadyIsVerified
<1> QED
  BY <1>3, <1>4, <1>5 DEF PumpReports

-----------------------------------------------------------------------------
(* The page. *)

LEMMA AnswerFacts ==
  ASSUME FlowTypes, NEW text \in {"NONE", "UNKNOWN"} \cup Refusals
  PROVE  /\ Answer(text) \in Round
         /\ \/ Answer(text) = pump /\ pump.at # "SENT"
            \/ pump.at = "SENT" /\ Answer(text).at = "ANSWERED" /\ Answer(text).answer = text
         /\ Answer(text).fresh = pump.fresh /\ Answer(text).cmd = pump.cmd
BY DEF FlowTypes, Round, Answer, Refusals

(* A request is over: it left nothing behind, or it submitted the form.    *)
LEMMA AnswersSafely ==
  ASSUME FlowTypes, PartsOK, tab.request # NoRequest, NEW text \in {"NONE", "UNKNOWN"} \cup Refusals,
         pump' = Answer(text), tab' \in Tab, tab'.request = NoRequest, tab'.doc = tab.doc,
         UNCHANGED <<coreVars, linkVars, active, worker, quirks>>,
         \/ cart' = cart
         \/ Asked /\ cart' = [cart EXCEPT !.post = TRUE, !.posts = @ + 1] /\ text = "NONE"
  PROVE  Moves /\ PartsOK'
<1>1. /\ UNCHANGED coreVars /\ UNCHANGED linkVars /\ active' = active /\ worker' = worker /\ quirks' = quirks
      /\ cart \in Merchant /\ active \in Controller
  BY DEF FlowTypes
<1>2. /\ pump' \in Round /\ pump'.fresh = pump.fresh /\ pump'.cmd = pump.cmd
      /\ \/ pump' = pump /\ pump.at # "SENT"
         \/ pump.at = "SENT" /\ pump'.at = "ANSWERED" /\ pump'.answer = text
  BY AnswerFacts
<1>3. /\ cart' \in Merchant /\ cart'.items = cart.items /\ cart'.stale = cart.stale
      /\ \/ cart'.post = cart.post /\ cart'.posts = cart.posts
         \/ Asked /\ cart'.posts = cart.posts + 1 /\ text = "NONE"
  <2>1. CASE cart' = cart
    BY <1>1, <2>1
  <2>2. CASE Asked /\ cart' = [cart EXCEPT !.post = TRUE, !.posts = @ + 1] /\ text = "NONE"
    <3>1. cart' = [items |-> cart.items, post |-> TRUE, stale |-> cart.stale, posts |-> cart.posts + 1]
      BY <1>1, <2>2 DEF Merchant
    <3>2. cart'.items = cart.items /\ cart'.stale = cart.stale /\ cart'.posts = cart.posts + 1
      BY <3>1
    <3>3. cart' \in Merchant
      BY <1>1, <3>1 DEF Merchant
    <3> QED
      BY <2>2, <3>2, <3>3
  <2> QED
    BY <2>1, <2>2
<1>4. Moves
  BY <1>1, <1>2, <1>3, SilentWire, KeptHands DEF Moves, FlowTypes, Silent
<1>5. ~Asked'
  BY DEF Asked, NoRequest
<1>6. pump.at # "ANSWERED"
  BY DEF PartsOK, RequestOK
<1>7. LookOK' /\ OpeningOK'
  <2>2. ~LooksOnly /\ LooksOnly' = LooksOnly
    BY <1>1 DEF PartsOK, LookOK, LooksOnly, coreVars
  <2>3. OpeningOK'
    BY <1>1, <1>2 DEF PartsOK, OpeningOK
  <2> QED
    BY <2>2, <2>3 DEF LookOK
<1>8. ControlOK'
  BY <1>1, <1>2 DEF PartsOK, ControlOK
<1>9. RequestOK'
  BY <1>2, <1>5, <1>6 DEF RequestOK
<1>10. ASSUME Asked PROVE Adding /\ Clear /\ pump.at # "STORED" /\ ~(pump.at = "AGAIN" /\ Full(pump.again)) /\ active.checkpoint = "CONFIGURED"
  <2>1. Adding /\ Clear /\ pump.at # "STORED" /\ ~(pump.at = "AGAIN" /\ Full(pump.again))
    BY <1>10 DEF PartsOK, RequestOK
  <2>2. active.journal.status = "DISPATCHED" /\ active.journal.name = "ADD_TO_CART"
    BY <2>1 DEF Adding
  <2>3. active.checkpoint # "CHECKOUT_READY" /\ Following[active.checkpoint] = "ADD_TO_CART"
    BY <2>2 DEF PartsOK, ControlOK
  <2> QED
    BY <1>1, <2>1, <2>3 DEF Controller, Following
<1>11. ClearOK'
  <2>1. CASE cart'.post = cart.post /\ cart'.posts = cart.posts
    <3>1. Clear' = Clear
      BY <1>1, <1>3, <2>1 DEF Clear
    <3>2. Adding /\ pump.at = "SENT" => Clear
      BY DEF PartsOK, RequestOK, Asked, Adding
    <3> QED
      BY <1>1, <1>2, <3>1, <3>2 DEF PartsOK, ClearOK, Adding
  <2>2. CASE Asked /\ text = "NONE"
    BY <1>1, <1>2, <1>6, <1>10, <2>2 DEF ClearOK, Adding, Refusals
  <2> QED
    BY <1>3, <2>1, <2>2
<1>12. CartOK'
  <2>1. CASE cart'.post = cart.post /\ cart'.posts = cart.posts
    BY <1>1, <1>2, <1>3, <2>1 DEF PartsOK, CartOK
  <2>2. CASE Asked /\ cart'.posts = cart.posts + 1
    <3>1. cart'.posts <= active.rebuilds + 1 /\ cart'.items = 0
      BY <1>1, <1>3, <1>10, <2>2 DEF Clear, Merchant, Controller
    <3> QED
      BY <1>1, <1>2, <1>10, <2>2, <3>1 DEF CartOK, Clear
  <2> QED
    BY <1>3, <2>1, <2>2
<1>13. EmptyOK'
  BY <1>1, <1>2, <1>3 DEF PartsOK, EmptyOK
<1> QED
  BY <1>4, <1>7, <1>8, <1>9, <1>11, <1>12, <1>13 DEF PartsOK

LEMMA ActsSafely == ASSUME FlowTypes, PartsOK, PageActs PROVE Moves /\ PartsOK'
<1> DEFINE r == tab.request
           done == [tab EXCEPT !.request = NoRequest]
           gone == [done EXCEPT !.nav = Mutation[r.name].target, !.acted = TRUE]
<1>1. r # NoRequest /\ UNCHANGED <<coreVars, linkVars, active, worker, quirks>> /\ r \in Request /\ tab \in Tab
  BY DEF PageActs, FlowTypes, Tab
<1>2. done \in Tab /\ done.request = NoRequest /\ done.doc = tab.doc
  BY <1>1 DEF Tab, Request
<1>3. Refusal \in Refusals
  BY DEF Refusal, Refusals
<1>4. CASE tab' = done /\ pump' = Answer(Refusal) /\ UNCHANGED cart
  BY <1>1, <1>2, <1>3, <1>4, AnswersSafely
<1>5. CASE tab' = done /\ pump' = Answer("NONE") /\ UNCHANGED cart
  BY <1>1, <1>2, <1>5, AnswersSafely
<1>6. CASE tab' = done /\ pump' = Answer("UNKNOWN") /\ UNCHANGED cart
  BY <1>1, <1>2, <1>6, AnswersSafely
<1>7. CASE /\ tab' = gone /\ pump' = Answer("NONE")
           /\ cart' = IF r.name = "ADD_TO_CART" THEN [cart EXCEPT !.post = TRUE, !.posts = @ + 1] ELSE cart
  <2>1. Mutation[r.name].target \in Stage
    <3>1. r.name \in DOMAIN Mutation
      BY <1>1, RequestFacts
    <3> QED
      BY <3>1 DEF Mutation, Stage
  <2> HIDE DEF done
  <2>2. gone \in Tab /\ gone.request = NoRequest /\ gone.doc = tab.doc
    BY <1>2, <2>1 DEF Tab
  <2>3. cart' = cart \/ (Asked /\ cart' = [cart EXCEPT !.post = TRUE, !.posts = @ + 1])
    BY <1>7 DEF Asked
  <2> HIDE DEF gone
  <2> QED
    BY <1>1, <1>7, <2>2, <2>3, AnswersSafely
<1> QED
  BY <1>4, <1>5, <1>6, <1>7 DEF PageActs

LEMMA LosesRequestSafely == ASSUME FlowTypes, PartsOK, RequestLost PROVE Moves /\ PartsOK'
<1>1. /\ tab.request # NoRequest /\ tab' = [tab EXCEPT !.request = NoRequest] /\ pump' = Answer("NONE") /\ cart' = cart
      /\ UNCHANGED <<coreVars, linkVars, active, worker, quirks>>
  BY DEF RequestLost
<1>2. tab' \in Tab /\ tab'.request = NoRequest /\ tab'.doc = tab.doc
  BY <1>1 DEF FlowTypes, Tab, Request
<1> QED
  BY <1>1, <1>2, AnswersSafely

-----------------------------------------------------------------------------
(* The merchant and the user. *)

(* A page of the cart tells the truth, except for the one stale answer.    *)
LEMMA ShowsSafely ==
  ASSUME FlowTypes, PartsOK, NEW doc \in Document, Shows(doc), quirks' \in Nat,
         Full(doc) => cart.items > 0,
         \/ cart' = cart /\ (Empty(doc) => cart.items = 0)
         \/ cart' = [cart EXCEPT !.stale = TRUE] /\ ~cart.stale /\ cart.items > 0 /\ ~Full(doc)
  PROVE  Moves /\ PartsOK'
<1>1. /\ tab' = NewDocument(doc) /\ pump' = [pump EXCEPT !.here = FALSE]
      /\ active' = [active EXCEPT !.empty = IF @ = "HERE" THEN "GONE" ELSE @]
      /\ UNCHANGED coreVars /\ UNCHANGED linkVars /\ worker' = worker
      /\ active \in Controller /\ pump \in Round /\ tab \in Tab /\ cart \in Merchant /\ tab.request \in Request
  BY DEF Shows, FlowTypes, Tab
<1>2. /\ tab' \in Tab /\ tab'.doc = doc /\ tab'.request.name = tab.request.name
      /\ tab'.request = NoRequest <=> tab.request = NoRequest
  <2> DEFINE q == IF tab.request = NoRequest THEN NoRequest ELSE [tab.request EXCEPT !.alive = FALSE]
  <2>1. tab' = [doc |-> doc, nav |-> "NONE", acted |-> FALSE, request |-> q]
    BY <1>1 DEF NewDocument
  <2>2. q \in Request /\ q.name = tab.request.name /\ (q = NoRequest <=> tab.request = NoRequest)
    BY <1>1, RequestFacts
  <2> HIDE DEF q
  <2>3. tab' \in Tab /\ tab'.doc = doc /\ tab'.request = q
    BY <2>1, <2>2 DEF Tab
  <2> QED
    BY <2>2, <2>3
<1>3. /\ pump' \in Round /\ pump'.at = pump.at /\ pump'.again = pump.again /\ pump'.same = pump.same
      /\ pump'.answer = pump.answer /\ pump'.here = FALSE /\ pump'.fresh = pump.fresh /\ pump'.cmd = pump.cmd
  <2>1. pump' = [at |-> pump.at, fresh |-> pump.fresh, here |-> FALSE, cmd |-> pump.cmd, page |-> pump.page,
                 again |-> pump.again, same |-> pump.same, answer |-> pump.answer]
    BY <1>1 DEF Round
  <2>2. pump' \in Round
    BY <1>1, <2>1 DEF Round
  <2> QED
    BY <2>1, <2>2
<1>4. /\ active' \in Controller /\ active'.state = active.state /\ active'.checkpoint = active.checkpoint
      /\ active'.journal = active.journal /\ active'.rebuilds = active.rebuilds /\ active'.recheck = active.recheck
      /\ active'.openOnly = active.openOnly /\ active'.cmd = active.cmd /\ active'.tab = active.tab
      /\ active'.empty = IF active.empty = "HERE" THEN "GONE" ELSE active.empty
  <2> DEFINE e == IF active.empty = "HERE" THEN "GONE" ELSE active.empty
  <2>1. e \in {"NONE", "HERE", "GONE"}
    BY <1>1 DEF Controller
  <2>2. active' = [active EXCEPT !.empty = e]
    BY <1>1
  <2> HIDE DEF e
  <2>3. active' = [state |-> active.state, checkpoint |-> active.checkpoint, cmd |-> active.cmd, tab |-> active.tab,
                   journal |-> active.journal, bound |-> active.bound, recheck |-> active.recheck, empty |-> e,
                   rebuilds |-> active.rebuilds, openOnly |-> active.openOnly]
    BY <1>1, <2>2 DEF Controller
  <2>4. active' \in Controller
    BY <1>1, <2>1, <2>3 DEF Controller
  <2>5. active'.empty = e
    BY <2>3
  <2>6. /\ active'.state = active.state /\ active'.checkpoint = active.checkpoint
        /\ active'.journal = active.journal /\ active'.rebuilds = active.rebuilds /\ active'.recheck = active.recheck
        /\ active'.openOnly = active.openOnly /\ active'.cmd = active.cmd /\ active'.tab = active.tab
    BY <2>3
  <2> QED
    BY <2>4, <2>5, <2>6 DEF e
<1>5. /\ cart' \in Merchant /\ cart'.items = cart.items /\ cart'.post = cart.post /\ cart'.posts = cart.posts
      /\ cart.stale => cart'.stale
      /\ \/ Empty(doc) => cart.items = 0
         \/ cart'.stale /\ ~cart.stale /\ cart.items > 0
  <2>1. CASE cart' = cart /\ (Empty(doc) => cart.items = 0)
    BY <1>1, <2>1
  <2>2. CASE cart' = [cart EXCEPT !.stale = TRUE] /\ ~cart.stale /\ cart.items > 0
    <3>1. cart' = [items |-> cart.items, post |-> cart.post, stale |-> TRUE, posts |-> cart.posts]
      BY <1>1, <2>2 DEF Merchant
    <3>2. cart' \in Merchant
      BY <1>1, <3>1 DEF Merchant
    <3>3. cart'.items = cart.items /\ cart'.post = cart.post /\ cart'.posts = cart.posts /\ cart'.stale = TRUE
      BY <3>1
    <3> QED
      BY <2>2, <3>2, <3>3
  <2> QED
    BY <2>1, <2>2
<1>6. Moves
  BY <1>1, <1>2, <1>3, <1>4, <1>5, SilentWire, KeptHands DEF Moves, FlowTypes, Silent
<1>7. LookOK' /\ OpeningOK'
  <2>1. LooksOnly' = LooksOnly
    BY <1>1 DEF LooksOnly, coreVars
  <2> QED
    BY <1>1, <1>2, <1>3, <1>4, <1>5, <2>1 DEF PartsOK, LookOK, OpeningOK
<1>8. ControlOK'
  BY <1>3, <1>4 DEF PartsOK, ControlOK
<1>9. Adding' = Adding /\ Asked' = Asked /\ (Clear => Clear')
  BY <1>1, <1>2, <1>4, <1>5 DEF Adding, Asked, Clear, Merchant
<1>10. RequestOK'
  BY <1>2, <1>3, <1>4, <1>9 DEF PartsOK, RequestOK
<1>11. ClearOK'
  BY <1>3, <1>4, <1>9 DEF PartsOK, ClearOK
<1>12. CartOK'
  BY <1>2, <1>3, <1>4, <1>5 DEF PartsOK, CartOK
<1>13. EmptyOK'
  <2> DEFINE trusted == active.checkpoint = "CART_READY" \/ (pump.at = "AGAIN" /\ Full(pump.again))
             read == active.checkpoint = "CART_READY" /\ pump.at = "AGAIN" /\ Empty(pump.again)
             stale == cart'.stale
  <2>1. /\ active.empty # "NONE" /\ cart.items > 0 => cart.stale
        /\ read /\ cart.items > 0 => cart.stale
        /\ read /\ active.empty # "NONE" /\ ~pump.same => cart.items = 0
    BY DEF PartsOK, EmptyOK
  <2>2. active'.empty # "NONE" <=> active.empty # "NONE"
    BY <1>4
  <2>3. trusted /\ Empty(doc) /\ cart.items > 0 => cart'.stale
    BY <1>5
  <2>4. active'.empty # "NONE" /\ cart.items > 0 => cart'.stale
    BY <1>5, <2>1, <2>2
  <2>5. active'.empty = "GONE" /\ Empty(doc) => cart.items = 0
    BY <1>1, <1>5, <2>1, <2>2 DEF Merchant
  <2>6. read /\ cart.items > 0 => cart'.stale
    BY <1>5, <2>1
  <2>7. read /\ Empty(doc) => cart.items = 0
    BY <1>1, <1>5, <2>1 DEF Merchant
  <2>8. read /\ active'.empty # "NONE" /\ ~pump.same => cart.items = 0 /\ ~Full(doc)
    BY <1>1, <2>1, <2>2 DEF Merchant
  <2>9. /\ (trusted <=> active'.checkpoint = "CART_READY" \/ (pump'.at = "AGAIN" /\ Full(pump'.again)))
        /\ (read <=> active'.checkpoint = "CART_READY" /\ pump'.at = "AGAIN" /\ Empty(pump'.again))
    BY <1>3, <1>4
  <2> HIDE DEF trusted, read
  <2> QED
    BY <1>2, <1>3, <1>5, <2>3, <2>4, <2>5, <2>6, <2>7, <2>8, <2>9 DEF EmptyOK
<1> QED
  BY <1>6, <1>7, <1>8, <1>10, <1>11, <1>12, <1>13 DEF PartsOK

LEMMA LoadsSafely == ASSUME FlowTypes, PartsOK, Loads PROVE Moves /\ PartsOK'
<1> DEFINE target == IF tab.nav = "CHECKOUT" /\ cart.items = 0 THEN "CART" ELSE tab.nav
<1>1. tab.nav # "NONE" /\ cart' = cart /\ quirks' \in Nat /\ cart \in Merchant /\ tab.nav \in Stage
  BY DEF Loads, FlowTypes, Tab
<1>2. PICK shows \in Lands(target) : Shows([stage |-> target, shows |-> shows])
  BY DEF Loads
<1> DEFINE doc == [stage |-> target, shows |-> shows]
<1>3. /\ shows \in {"FINE", "LATER", "EMPTY", "REVIEW"}
      /\ target = "CART" => shows = (IF cart.items = 0 THEN "EMPTY" ELSE IF cart.items = 1 THEN "FINE" ELSE "REVIEW")
  BY <1>2 DEF Lands
<1>4. target \in Stage
  BY <1>1 DEF Stage
<1> HIDE DEF target
<1>5. doc \in Document /\ doc.stage = target /\ doc.shows = shows
  BY <1>3, <1>4 DEF Document
<1> HIDE DEF doc
<1>6. /\ Full(doc) => cart.items > 0
      /\ Empty(doc) => cart.items = 0
  BY <1>1, <1>3, <1>5 DEF Full, Empty, Index, Merchant
<1>7. Shows(doc)
  BY <1>2 DEF doc
<1> QED
  BY <1>1, <1>5, <1>6, <1>7, ShowsSafely

LEMMA LoadsOddlySafely == ASSUME FlowTypes, PartsOK, LoadsOddly PROVE Moves /\ PartsOK'
<1>1. cart' = cart /\ quirks' \in Nat
  BY DEF LoadsOddly, Quirk, FlowTypes
<1>2. ASSUME NEW stage \in Stage \cup Odd, stage # "CART", NEW shows \in {"FINE", "SOLD_OUT", "LOGIN"},
             Shows([stage |-> stage, shows |-> shows])
      PROVE  Moves /\ PartsOK'
  <2> DEFINE doc == [stage |-> stage, shows |-> shows]
  <2>1. doc \in Document /\ doc.stage # "CART"
    BY <1>2 DEF Document
  <2>2. Shows(doc)
    BY <1>2
  <2> HIDE DEF doc
  <2>3. ~Full(doc) /\ ~Empty(doc)
    BY <2>1, ShowsFacts
  <2> QED
    BY <1>1, <2>1, <2>2, <2>3, ShowsSafely
<1>3. CASE \E stage \in Odd : Shows([stage |-> stage, shows |-> "FINE"])
  <2>1. PICK stage \in Odd : Shows([stage |-> stage, shows |-> "FINE"])
    BY <1>3
  <2>2. stage # "CART"
    BY DEF Odd
  <2> QED
    BY <1>2, <2>1, <2>2
<1>4. CASE Shows([stage |-> "PRODUCT", shows |-> "SOLD_OUT"])
  BY <1>2, <1>4 DEF Stage
<1>5. CASE Shows([stage |-> "CHECKOUT", shows |-> "LOGIN"])
  BY <1>2, <1>5 DEF Stage
<1> QED
  BY <1>3, <1>4, <1>5 DEF LoadsOddly

LEMMA LoadsStaleSafely == ASSUME FlowTypes, PartsOK, LoadsStale PROVE Moves /\ PartsOK'
<1> DEFINE doc == [stage |-> "CART", shows |-> "EMPTY"]
<1>1. /\ Shows(doc) /\ cart' = [cart EXCEPT !.stale = TRUE] /\ ~cart.stale /\ cart.items > 0 /\ quirks' \in Nat
  BY DEF LoadsStale, FlowTypes
<1>2. doc \in Document /\ Empty(doc)
  BY DEF Document, Stage, Empty
<1> HIDE DEF doc
<1>3. ~Full(doc)
  BY <1>2, ShowsFacts
<1> QED
  BY <1>1, <1>2, <1>3, ShowsSafely

(* The merchant's side moves: what follows from a clear cart does not, since *)
(* it was not clear.                                                       *)
LEMMA MerchantSafely ==
  ASSUME FlowTypes, PartsOK, ~(cart.items = 0 /\ ~cart.post), cart' \in Merchant, ~cart'.post,
         cart'.posts = cart.posts, cart'.stale = cart.stale, quirks' \in Nat,
         cart'.items > 0 => cart.items > 0 \/ cart.post,
         UNCHANGED <<coreVars, linkVars, active, worker, pump, tab>>
  PROVE  Moves /\ PartsOK'
<1>1. /\ UNCHANGED coreVars /\ UNCHANGED linkVars /\ active' = active /\ worker' = worker /\ pump' = pump /\ tab' = tab
      /\ cart \in Merchant
  BY DEF FlowTypes
<1>2. Moves
  BY <1>1, SilentWire, KeptHands DEF Moves, FlowTypes, Silent
<1>3. ~Clear /\ ~Asked /\ (cart.posts > 0 => ~LooksOnly)
  BY DEF Clear, PartsOK, RequestOK, LookOK
<1>4. LookOK' /\ OpeningOK'
  <2>1. LooksOnly' = LooksOnly
    BY <1>1 DEF LooksOnly, coreVars
  <2> QED
    BY <1>1, <2>1 DEF PartsOK, LookOK, OpeningOK
<1>5. ControlOK'
  BY <1>1 DEF PartsOK, ControlOK
<1>6. Adding' = Adding /\ Asked' = Asked
  BY <1>1 DEF Adding, Asked
<1>7. RequestOK'
  BY <1>1, <1>3, <1>6 DEF PartsOK, RequestOK
<1>8. ClearOK'
  BY <1>1, <1>3, <1>6 DEF PartsOK, ClearOK
<1>9. CartOK'
  BY <1>1 DEF PartsOK, CartOK
<1>10. cart.post =>
         /\ active.checkpoint # "CART_READY" /\ ~Full(tab.doc) /\ ~(pump.at = "AGAIN" /\ Full(pump.again))
         /\ active.empty = "NONE"
  BY DEF PartsOK, CartOK, ControlOK
<1>11. cart'.items > 0 => cart.items > 0 \/ cart.post
  OBVIOUS
<1>12. cart.items \in Nat /\ cart'.items \in Nat
  BY <1>1 DEF Merchant
<1>13. EmptyOK'
  <2>1. CASE cart.post
    BY <1>1, <1>10, <2>1 DEF EmptyOK
  <2>2. CASE ~cart.post
    <3>1. cart.items = 0 => cart'.items = 0
      BY <1>12, <2>2
    <3>2. EmptyOK
      BY DEF PartsOK
    <3> QED
      BY <1>1, <1>11, <2>2, <3>1, <3>2 DEF EmptyOK
  <2> QED
    BY <2>1, <2>2
<1> QED
  BY <1>2, <1>4, <1>5, <1>7, <1>8, <1>9, <1>13 DEF PartsOK

LEMMA MerchantActsSafely ==
  ASSUME FlowTypes, PartsOK, TakesPost \/ RefusesPost \/ CartIsLost
  PROVE  Moves /\ PartsOK' /\ cart'.posts = cart.posts /\ cart' \in Merchant
         /\ (cart'.items > 0 \/ cart'.post => cart.items > 0 \/ cart.post)
         /\ UNCHANGED <<coreVars, linkVars, active, worker, pump, tab>>
<1>1. cart \in Merchant /\ quirks' \in Nat /\ UNCHANGED <<coreVars, linkVars, active, worker, pump, tab>>
  BY DEF FlowTypes, TakesPost, RefusesPost, CartIsLost, Quirk
<1>2. CASE TakesPost
  <2>1. cart.post /\ cart' = [items |-> cart.items + 1, post |-> FALSE, stale |-> cart.stale, posts |-> cart.posts]
    BY <1>1, <1>2 DEF TakesPost, Merchant
  <2>2. cart' \in Merchant /\ ~cart'.post /\ cart'.posts = cart.posts /\ cart'.stale = cart.stale
    BY <1>1, <2>1 DEF Merchant
  <2> QED
    BY <1>1, <2>1, <2>2, MerchantSafely
<1>3. CASE RefusesPost
  <2>1. cart.post /\ cart' = [items |-> cart.items, post |-> FALSE, stale |-> cart.stale, posts |-> cart.posts]
    BY <1>1, <1>3 DEF RefusesPost, Merchant
  <2>2. cart' \in Merchant /\ ~cart'.post /\ cart'.posts = cart.posts /\ cart'.stale = cart.stale
    BY <1>1, <2>1 DEF Merchant
  <2> QED
    BY <1>1, <2>1, <2>2, MerchantSafely
<1>4. CASE CartIsLost
  <2>1. cart.items > 0 /\ cart' = [items |-> 0, post |-> cart.post, stale |-> cart.stale, posts |-> cart.posts]
    BY <1>1, <1>4 DEF CartIsLost, Merchant
  <2>2. cart' \in Merchant /\ cart'.post = cart.post /\ cart'.posts = cart.posts /\ cart'.stale = cart.stale /\ cart'.items = 0
    BY <1>1, <2>1 DEF Merchant
  <2>3. ~cart.post
    BY <2>1 DEF PartsOK, CartOK
  <2>4. cart.items # 0
    BY <1>1, <2>1 DEF Merchant
  <2> QED
    BY <1>1, <2>1, <2>2, <2>3, <2>4, MerchantSafely
<1> QED
  BY <1>2, <1>3, <1>4

LEMMA ChangesSafely == ASSUME FlowTypes, PartsOK, PageChanges PROVE Moves /\ PartsOK'
<1>1. /\ UNCHANGED coreVars /\ UNCHANGED linkVars /\ active' = active /\ worker' = worker /\ pump' = pump
      /\ cart' = cart /\ quirks' \in Nat /\ tab \in Tab /\ tab.doc \in Document /\ tab.request \in Request
  BY DEF PageChanges, Quirk, FlowTypes, Tab
<1>2. PICK doc \in Document : doc.stage # "CART" /\ tab' = [tab EXCEPT !.doc = doc]
  <2>1. CASE tab' = [tab EXCEPT !.doc.stage = "CHALLENGE"]
    <3> DEFINE doc == [tab.doc EXCEPT !.stage = "CHALLENGE"]
    <3>1. doc \in Document /\ doc.stage # "CART" /\ tab' = [tab EXCEPT !.doc = doc]
      BY <1>1, <2>1 DEF Document, Odd, Tab
    <3> QED
      BY <3>1
  <2>2. CASE tab.doc = [stage |-> "PRODUCT", shows |-> "FINE"] /\ tab' = [tab EXCEPT !.doc.shows = "SOLD_OUT"]
    <3> DEFINE doc == [tab.doc EXCEPT !.shows = "SOLD_OUT"]
    <3>1. doc \in Document /\ doc.stage # "CART" /\ tab' = [tab EXCEPT !.doc = doc]
      BY <1>1, <2>2 DEF Document, Tab
    <3> QED
      BY <3>1
  <2> QED
    BY <2>1, <2>2 DEF PageChanges
<1>3. tab' \in Tab /\ tab'.doc = doc /\ tab'.request = tab.request
  BY <1>1, <1>2 DEF Tab
<1>4. Moves
  BY <1>1, <1>3, SilentWire, KeptHands DEF Moves, FlowTypes, Silent
<1>5. RecordStays /\ FreshStays /\ LooksOnly' = LooksOnly
  BY <1>1 DEF RecordStays, FreshStays, PartsOK, ControlOK, LooksOnly, coreVars
<1> QED
  BY <1>1, <1>2, <1>3, <1>4, <1>5, LeavesCart

LEMMA ClosesSafely == ASSUME FlowTypes, PartsOK, UserClosesTab PROVE Moves /\ PartsOK'
<1>1. /\ active.tab /\ tab' = NewDocument(NoDocument) /\ quirks' \in Nat /\ UNCHANGED coreVars /\ cart' = cart
      /\ tab \in Tab /\ tab.request \in Request /\ active.state # "NONE" /\ pump \in Round
  BY DEF UserClosesTab, Quirk, FlowTypes, Tab, PartsOK, OpeningOK
<1>2. NoDocument \in Document /\ NoDocument.stage # "CART"
  BY DEF NoDocument, Document
<1>3. /\ tab' \in Tab /\ tab'.doc = NoDocument
      /\ tab'.request = tab.request \/ (tab.request # NoRequest /\ tab'.request = [tab.request EXCEPT !.alive = FALSE])
  <2> DEFINE q == IF tab.request = NoRequest THEN NoRequest ELSE [tab.request EXCEPT !.alive = FALSE]
  <2>1. tab' = [doc |-> NoDocument, nav |-> "NONE", acted |-> FALSE, request |-> q]
    BY <1>1 DEF NewDocument
  <2>2. q \in Request
    BY <1>1, RequestFacts
  <2>3. q = tab.request \/ (tab.request # NoRequest /\ q = [tab.request EXCEPT !.alive = FALSE])
    OBVIOUS
  <2> HIDE DEF q
  <2>4. tab' \in Tab /\ tab'.doc = NoDocument /\ tab'.request = q
    BY <1>2, <2>1, <2>2 DEF Tab
  <2> QED
    BY <2>3, <2>4
<1>4. LooksOnly' = LooksOnly
  BY <1>1 DEF LooksOnly, coreVars
<1>5. CASE pump' = [pump EXCEPT !.here = FALSE] /\ KeepsOn /\ Silent
  <2>1. active' = active /\ worker' = worker
    BY <1>5 DEF KeepsOn
  <2>2. pump' = [at |-> pump.at, fresh |-> pump.fresh, here |-> FALSE, cmd |-> pump.cmd, page |-> pump.page,
                 again |-> pump.again, same |-> pump.same, answer |-> pump.answer]
    BY <1>1, <1>5 DEF Round
  <2>3. /\ pump' \in Round /\ pump'.at = pump.at /\ pump'.again = pump.again /\ pump'.same = pump.same
        /\ pump'.answer = pump.answer /\ pump'.here = FALSE /\ pump'.fresh = pump.fresh /\ pump'.cmd = pump.cmd
    BY <1>1, <2>2 DEF Round
  <2>4. Moves
    BY <1>1, <1>3, <1>5, <2>1, <2>3, SilentWire, KeptHands DEF Moves, FlowTypes
  <2>5. RecordStays /\ FreshStays
    BY <2>1, <2>3 DEF RecordStays, FreshStays, PartsOK, ControlOK
  <2> QED
    BY <1>1, <1>2, <1>3, <1>4, <2>3, <2>4, <2>5, LeavesCart
<1>6. CASE pump' = [Voided EXCEPT !.here = FALSE] /\ Pause(active, "PAUSED_UNCERTAIN", "FAILED", <<>>)
  <2>1. pump' = [at |-> pump.at, fresh |-> FALSE, here |-> FALSE, cmd |-> pump.cmd, page |-> pump.page,
                 again |-> pump.again, same |-> pump.same, answer |-> pump.answer]
    BY <1>1, <1>6 DEF Round, Voided
  <2>2. /\ pump' \in Round /\ pump'.at = pump.at /\ pump'.again = pump.again /\ pump'.same = pump.same
        /\ pump'.answer = pump.answer /\ pump'.here = FALSE /\ pump'.fresh = FALSE
    BY <1>1, <2>1 DEF Round
  <2>3. active \in Controller /\ "PAUSED_UNCERTAIN" \in Resumable
    BY DEF FlowTypes, Resumable
  <2>4. /\ active' = [active EXCEPT !.state = "PAUSED_UNCERTAIN"] /\ active' \in Controller
        /\ worker' = Bumped /\ worker' \in Memory /\ SameHands(worker')
        /\ events' \in Seq(Sendable) /\ host' = host /\ commands' = commands
        /\ \A n \in DOMAIN events' : (\E k \in DOMAIN events : events'[n] = events[k]) \/ Plain(events'[n])
    BY <1>6, <2>3, PauseMoves
  <2>5. Moves
    BY <1>1, <1>3, <2>2, <2>4 DEF Moves, FlowTypes, WireStays, NoneReady, Plain
  <2>6. RecordStays /\ FreshStays
    BY <1>1, <2>2, <2>3, <2>4 DEF RecordStays, FreshStays, Controller
  <2> QED
    BY <1>1, <1>2, <1>3, <1>4, <2>2, <2>5, <2>6, LeavesCart
<1> QED
  BY <1>5, <1>6 DEF UserClosesTab

-----------------------------------------------------------------------------
(* The steps together: the wire. *)

Wire == DeliveryOK /\ CancelOK /\ ReleaseOK

LEMMA FlowParts ==
  ASSUME FlowInv
  PROVE  /\ Inv /\ TypeOK /\ FlowTypes /\ CoreTypeOK /\ PartsOK /\ DeliveryOK /\ CancelOK /\ ReleaseOK /\ Wire
         /\ EdgeOK /\ RowCommandOK /\ ProofOK
BY DEF FlowInv, TypeOK, FlowTypes, PartsOK, Wire

(* What any step leaves true of the queue.                                 *)
LEMMA StepFacts ==
  ASSUME FlowInv, [Next]_vars
  PROVE  /\ [CoreNext]_coreVars /\ Inv' /\ CoreTypeOK' /\ RowCommandOK'
         /\ \A k \in DOMAIN queue : /\ k \in DOMAIN queue' /\ queue'[k].type = queue[k].type
                                    /\ queue[k].status # "QUEUED" => queue'[k].status # "QUEUED"
         /\ row.cmd <= row'.cmd /\ row.cmd \in Nat /\ row'.cmd \in Nat /\ DOMAIN queue \subseteq Nat
         /\ LooksOnly' => LooksOnly
<1>1. [CoreNext]_coreVars
  BY FlowParts, StepOfCore
<1>2. Inv' /\ CoreTypeOK'
  <2>1. Inv'
    BY <1>1, FlowParts, InvNext
  <2> QED
    BY <2>1 DEF Inv
<1>3. /\ \A k \in DOMAIN queue : k \in DOMAIN queue' /\ queue'[k].type = queue[k].type
      /\ row.cmd <= row'.cmd /\ RowCommandOK'
  BY <1>1, FlowParts, QueueGrows
<1>4. \A k \in DOMAIN queue : queue[k].status # "QUEUED" => queue'[k].status # "QUEUED"
  <2> SUFFICES ASSUME NEW k \in DOMAIN queue, queue[k].status # "QUEUED" PROVE queue'[k].status # "QUEUED"
    OBVIOUS
  <2>1. queue'[k].status \in {queue[k].status, "HALTED", "PAUSED", "DONE"}
    BY <1>1, FlowParts, StepSendsOnce
  <2> QED
    BY <2>1
<1>5. row.cmd \in Nat /\ row'.cmd \in Nat /\ DOMAIN queue \subseteq Nat
  <2>1. row \in Row /\ row' \in Row /\ DOMAIN queue = 1 .. Len(queue) /\ Len(queue) \in Nat
    BY <1>2, FlowParts, QueueTyped DEF CoreTypeOK
  <2> QED
    BY <2>1, CommandsAssumption DEF Row
<1>6. LooksOnly' => LooksOnly
  BY <1>3 DEF LooksOnly
<1> QED
  BY <1>1, <1>2, <1>3, <1>4, <1>5, <1>6

LEMMA HandIndices ==
  ASSUME FlowTypes
  PROVE  /\ \A i \in DOMAIN worker.hands : i \in Nat \ {0}
         /\ DOMAIN commands = 1 .. Len(commands) /\ Len(commands) \in Nat
         /\ DOMAIN worker.hands = 1 .. Len(worker.hands) /\ Len(worker.hands) \in Nat
BY LenProperties DEF FlowTypes, Memory

LEMMA WireQuietly ==
  ASSUME FlowInv, [Next]_vars, SameHands(worker'), commands' \in {commands, <<>>},
         \A n \in DOMAIN events' : (\E k \in DOMAIN events : events'[n] = events[k]) \/ ~Cancels(events'[n])
  PROVE  DeliveryOK' /\ CancelOK' /\ ((row'.state = "ABORTED" => row.state = "ABORTED") => ReleaseOK')
<1>1. \A i \in DOMAIN worker'.hands : i \in Nat \ {0} /\ i + 0 \in DOMAIN worker.hands
                                        /\ worker'.hands[i].cmd = worker.hands[i + 0].cmd
  BY FlowParts, HandIndices DEF SameHands
<1>2. 0 \in {0, 1}
  OBVIOUS
<1> QED
  BY <1>1, <1>2, FlowParts, StepFacts, OnTheirWay

LEMMA MovesWire == ASSUME FlowInv, [Next]_vars, WireStays PROVE Wire' /\ EdgeOK'
<1>1. row'.state = row.state /\ row'.edge = row.edge
  BY DEF WireStays, coreVars
<1>2. DeliveryOK' /\ CancelOK' /\ ReleaseOK'
  BY <1>1, WireQuietly DEF WireStays
<1>3. EdgeOK'
  BY <1>1, FlowParts DEF EdgeOK
<1> QED
  BY <1>2, <1>3 DEF Wire

LEMMA HandledWire == ASSUME FlowInv, [Next]_vars, Handled PROVE Wire' /\ EdgeOK'
<1>1. row'.state = row.state /\ row'.edge = row.edge /\ HandleStays
  BY DEF Handled, HandleStays, coreVars
<1>2. 1 \in {0, 1}
  OBVIOUS
<1>3. commands' \in {commands, <<>>}
  BY <1>1 DEF HandleStays
<1>4. DeliveryOK' /\ CancelOK' /\ ReleaseOK'
  BY <1>1, <1>2, <1>3, FlowParts, StepFacts, OnTheirWay DEF HandleStays
<1>5. EdgeOK'
  BY <1>1, FlowParts DEF EdgeOK
<1> QED
  BY <1>4, <1>5 DEF Wire

(* A step of the core that is not an event.                                *)
LEMMA CoreWire ==
  ASSUME FlowInv, [Next]_vars, SameHands(worker'), commands' \in {commands, <<>>},
         Disconnect \/ (\E type \in Type : Enqueue(type)) \/ UNCHANGED coreVars,
         \A n \in DOMAIN events' : (\E k \in DOMAIN events : events'[n] = events[k]) \/ ~Cancels(events'[n])
  PROVE  Wire' /\ EdgeOK' /\ row'.state = row.state
<1>1. row'.state = row.state /\ (row'.edge = row.edge \/ row'.edge # "CHECKOUT_READY")
  BY FlowParts, StateStays
<1>2. DeliveryOK' /\ CancelOK' /\ ReleaseOK'
  BY <1>1, WireQuietly
<1>3. EdgeOK'
  BY <1>1, FlowParts DEF EdgeOK
<1> QED
  BY <1>1, <1>2, <1>3 DEF Wire

(* The first event goes to the core: if it releases the intent, everything  *)
(* on its way was dispatched after the last command there is.              *)
LEMMA TakesWire ==
  ASSUME FlowInv, [Next]_vars, HostTakes, Accepts(Head(events))
  PROVE  /\ Wire' /\ EdgeOK'
         /\ \/ row'.state = row.state
            \/ 1 \in DOMAIN events /\ Ready(events[1]) /\ row'.state = events[1].kind
            \/ row'.state = "ABORTED"
         /\ \A n \in DOMAIN events' : \E k \in DOMAIN events : events'[n] = events[k]
<1> DEFINE m == Head(events)
<1>1. /\ Take(m) /\ events' = Tail(events) /\ commands' = commands /\ worker' = worker /\ events # <<>>
  BY DEF HostTakes
<1>2. events \in Seq(Sendable)
  BY FlowParts DEF FlowTypes
<1>3. /\ m \in Sendable /\ m = events[1] /\ 1 \in DOMAIN events
      /\ \A n \in DOMAIN events' : \E k \in DOMAIN events : events'[n] = events[k]
  BY <1>1, <1>2, TailFacts
<1>4. m \in CoreEvent
  BY <1>3 DEF Sendable
<1> HIDE DEF m
<1>5. /\ EdgeOK'
      /\ \/ row'.state = row.state
         \/ m.kind \in {"CART_READY", "CHECKOUT_READY"} /\ row'.state = m.kind
         \/ row'.state = "ABORTED" /\ Cancels(m) /\ m.cmd = row.cmd /\ row'.cmd = row.cmd
  BY <1>1, <1>4, FlowParts, EventMoves
<1>6. DeliveryOK' /\ CancelOK' /\ ((row'.state = "ABORTED" => row.state = "ABORTED") => ReleaseOK')
  BY <1>1, <1>3, KeptHands, WireQuietly
<1>7. CASE row'.state = "ABORTED" /\ row.state # "ABORTED"
  <2>1. Cancels(events[1]) /\ events[1].cmd = row.cmd
    BY <1>3, <1>5, <1>7
  <2>2. /\ \A i \in DOMAIN worker.hands : Given(worker.hands[i].cmd)
        /\ \A i \in DOMAIN commands : Given(commands[i])
        /\ \A i \in DOMAIN worker.hands : Acts(worker.hands[i].cmd) => worker.hands[i].cmd > row.cmd
        /\ \A i \in DOMAIN commands : Acts(commands[i]) => commands[i] > row.cmd
    BY <1>3, <2>1, FlowParts DEF DeliveryOK, CancelOK
  <2>3. /\ \A i \in DOMAIN worker.hands : worker.hands[i].cmd \in DOMAIN queue /\ ~Acts(worker.hands[i].cmd)
        /\ \A i \in DOMAIN commands : commands[i] \in DOMAIN queue /\ ~Acts(commands[i])
    BY <2>2, StepFacts DEF Given
  <2>4. /\ \A i \in DOMAIN worker'.hands : queue'[worker'.hands[i].cmd].type = "DISARM"
        /\ \A i \in DOMAIN commands' : queue'[commands'[i]].type = "DISARM"
    BY <1>1, <2>3, StepFacts DEF Acts
  <2>5. ReleaseOK'
    BY <2>4 DEF ReleaseOK, Acts
  <2> QED
    BY <1>3, <1>5, <1>6, <1>7, <2>5 DEF Wire
<1>8. CASE row'.state = "ABORTED" => row.state = "ABORTED"
  BY <1>3, <1>5, <1>6, <1>8 DEF Wire, Ready
<1> QED
  BY <1>7, <1>8

(* next_command sends the command that the row names, after all others.    *)
LEMMA SendsWire ==
  ASSUME FlowInv, [Next]_vars, NEW k \in DOMAIN queue, HostSends(k)
  PROVE  Wire' /\ EdgeOK' /\ row'.state = row.state /\ FlowTypes'
<1> DEFINE acts(j) == queue'[j].type # "DISARM"
           given(j) == j \in DOMAIN queue' /\ queue'[j].status # "QUEUED" /\ (acts(j) => j <= row'.cmd)
<1>1. /\ Dispatch(k) /\ commands' = Append(commands, k) /\ worker' = worker /\ events' = events
      /\ host' = host /\ active' = active /\ pump' = pump /\ tab' = tab /\ cart' = cart /\ quirks' = quirks
  BY DEF HostSends
<1>2. /\ row \in Row /\ queue \in Seq(Command) /\ \A j \in DOMAIN queue : queue[j] \in Command
      /\ DOMAIN queue = 1 .. Len(queue) /\ Len(queue) \in Nat /\ Len(queue) <= MaxCommands
  BY FlowParts, QueueTyped DEF CoreTypeOK
<1>3. /\ queue[k].status = "QUEUED" /\ row'.cmd = row.cmd /\ row'.state = row.state
      /\ queue' = [queue EXCEPT ![k] = [queue[k] EXCEPT !.status = "DISPATCHED", !.here = TRUE]]
  BY <1>1, <1>2 DEF Dispatch, Queued, Command, Row
<1>4. queue'[k].status = "DISPATCHED" /\ k \in DOMAIN queue'
  BY <1>2, <1>3 DEF Command
<1>5. Acts(k) => k = row.cmd
  BY <1>3, FlowParts DEF Inv, OneUnderWay, Pending, Acts
<1>6. row.state = "ABORTED" => ~Acts(k)
  BY <1>3, FlowParts DEF Inv, ReleasedReadOnly, Pending, Acts
<1>7. k \in Nat /\ k \in 1 .. MaxCommands /\ row.cmd \in Nat
  BY <1>2, StepFacts, CommandsAssumption
<1>8. \A j : Given(j) => j \in Nat /\ given(j) /\ (acts(j) <=> Acts(j)) /\ j # k /\ (Acts(j) => j <= row.cmd)
  BY <1>3, StepFacts DEF Given, Acts
<1>9. given(k) /\ (acts(k) <=> Acts(k))
  BY <1>3, <1>4, <1>5, <1>7, StepFacts DEF Acts
<1>10. /\ commands' \in Seq(1 .. MaxCommands) /\ DOMAIN commands' = DOMAIN commands \cup {Len(commands) + 1}
       /\ \A i \in DOMAIN commands : commands'[i] = commands[i] /\ i \in Nat /\ i <= Len(commands)
       /\ commands'[Len(commands) + 1] = k /\ Len(commands) \in Nat
  <2> DEFINE S == 1 .. MaxCommands
  <2>1. commands \in Seq(S) /\ k \in S
    BY <1>7, FlowParts DEF FlowTypes
  <2> HIDE DEF S
  <2>2. /\ Append(commands, k) \in Seq(S) /\ Len(Append(commands, k)) = Len(commands) + 1
        /\ \A i \in 1 .. Len(commands) : Append(commands, k)[i] = commands[i]
        /\ Append(commands, k)[Len(commands) + 1] = k
    BY <2>1, AppendProperties
  <2>3. DOMAIN Append(commands, k) = 1 .. Len(commands) + 1 /\ DOMAIN commands = 1 .. Len(commands) /\ Len(commands) \in Nat
    BY <2>1, <2>2, LenProperties
  <2> QED
    BY <1>1, <2>2, <2>3 DEF S
<1>11. /\ \A i \in DOMAIN worker.hands : Given(worker.hands[i].cmd)
       /\ \A i \in DOMAIN commands : Given(commands[i])
  BY FlowParts DEF DeliveryOK
<1> HIDE DEF acts, given
<1>12. /\ \A i \in DOMAIN worker.hands : given(worker.hands[i].cmd)
       /\ \A i \in DOMAIN commands' : given(commands'[i])
       /\ \A i, j \in DOMAIN worker.hands :
            i < j /\ acts(worker.hands[i].cmd) /\ acts(worker.hands[j].cmd) => worker.hands[i].cmd < worker.hands[j].cmd
       /\ \A i, j \in DOMAIN commands' : i < j /\ acts(commands'[i]) /\ acts(commands'[j]) => commands'[i] < commands'[j]
       /\ \A i \in DOMAIN worker.hands, j \in DOMAIN commands' :
            acts(worker.hands[i].cmd) /\ acts(commands'[j]) => worker.hands[i].cmd < commands'[j]
  <2>1. \A j : Given(j) /\ acts(j) /\ acts(k) => j < k
    BY <1>5, <1>7, <1>8, <1>9
  <2>2. /\ \A i \in DOMAIN worker.hands : given(worker.hands[i].cmd)
        /\ \A i \in DOMAIN commands' : given(commands'[i])
    BY <1>8, <1>9, <1>10, <1>11
  <2>3. \A i, j \in DOMAIN worker.hands :
          i < j /\ acts(worker.hands[i].cmd) /\ acts(worker.hands[j].cmd) => worker.hands[i].cmd < worker.hands[j].cmd
    BY <1>8, <1>11, FlowParts DEF DeliveryOK
  <2>4. ASSUME NEW i \in DOMAIN commands', NEW j \in DOMAIN commands', i < j, acts(commands'[i]), acts(commands'[j])
        PROVE  commands'[i] < commands'[j]
    <3>1. i \in DOMAIN commands /\ commands'[i] = commands[i]
      BY <1>10, <2>4
    <3>2. CASE j \in DOMAIN commands
      BY <1>8, <1>10, <1>11, <2>4, <3>1, <3>2, FlowParts DEF DeliveryOK
    <3>3. CASE j = Len(commands) + 1
      BY <1>10, <1>11, <2>1, <2>4, <3>1, <3>3
    <3> QED
      BY <1>10, <3>2, <3>3
  <2>5. ASSUME NEW i \in DOMAIN worker.hands, NEW j \in DOMAIN commands', acts(worker.hands[i].cmd), acts(commands'[j])
        PROVE  worker.hands[i].cmd < commands'[j]
    <3>1. CASE j \in DOMAIN commands
      BY <1>8, <1>10, <1>11, <2>5, <3>1, FlowParts DEF DeliveryOK
    <3>2. CASE j = Len(commands) + 1
      BY <1>10, <1>11, <2>1, <2>5, <3>2
    <3> QED
      BY <1>10, <3>1, <3>2
  <2> QED
    BY <2>2, <2>3, <2>4, <2>5
<1>13. DeliveryOK'
  BY <1>1, <1>12 DEF DeliveryOK, Given, Acts, given, acts
<1>14. ASSUME NEW n \in DOMAIN events, Cancels(events[n])
       PROVE  /\ given(events[n].cmd) /\ acts(events[n].cmd)
              /\ \A i \in DOMAIN worker.hands : acts(worker.hands[i].cmd) => worker.hands[i].cmd > events[n].cmd
              /\ \A i \in DOMAIN commands' : acts(commands'[i]) => commands'[i] > events[n].cmd
  <2>1. /\ Given(events[n].cmd) /\ Acts(events[n].cmd)
        /\ \A i \in DOMAIN worker.hands : Acts(worker.hands[i].cmd) => worker.hands[i].cmd > events[n].cmd
        /\ \A i \in DOMAIN commands : Acts(commands[i]) => commands[i] > events[n].cmd
    BY <1>14, FlowParts DEF CancelOK
  <2>2. acts(k) => k > events[n].cmd
    BY <1>5, <1>7, <1>8, <1>9, <2>1
  <2> QED
    BY <1>8, <1>10, <1>11, <2>1, <2>2
<1>15. CancelOK'
  BY <1>1, <1>14 DEF CancelOK, Given, Acts, given, acts
<1>16. ReleaseOK'
  <2>1. row.state = "ABORTED" =>
          /\ \A i \in DOMAIN worker.hands : ~acts(worker.hands[i].cmd)
          /\ \A i \in DOMAIN commands' : ~acts(commands'[i])
    BY <1>6, <1>8, <1>9, <1>10, <1>11, FlowParts DEF ReleaseOK
  <2> QED
    BY <1>1, <1>3, <2>1 DEF ReleaseOK, Acts, acts
<1>17. EdgeOK'
  <2>1. \E j \in DOMAIN queue : Dispatch(j)
    BY <1>1
  <2>2. row'.edge = row.edge \/ row'.edge # "CHECKOUT_READY"
    BY <2>1, FlowParts, StateStays
  <2> QED
    BY <1>3, <2>2, FlowParts DEF EdgeOK
<1>18. FlowTypes'
  BY <1>1, <1>10, FlowParts DEF FlowTypes
<1> QED
  BY <1>3, <1>13, <1>15, <1>16, <1>17, <1>18 DEF Wire

(* The command that was sent first is received first.                      *)
LEMMA ReceivesWire ==
  ASSUME FlowInv, [Next]_vars, Receive
  PROVE  Wire' /\ EdgeOK' /\ FlowTypes' /\ UNCHANGED coreVars
<1> DEFINE R == [cmd : 1 .. MaxCommands, fresh : BOOLEAN]
           h == [cmd |-> Head(commands), fresh |-> TRUE]
           N == Len(worker.hands)
<1>1. /\ commands # <<>> /\ commands' = Tail(commands) /\ worker' = [worker EXCEPT !.hands = Append(@, h)]
      /\ UNCHANGED coreVars /\ row' = row /\ queue' = queue /\ events' = events
      /\ host' = host /\ active' = active /\ pump' = pump /\ tab' = tab /\ cart' = cart /\ quirks' = quirks
  BY DEF Receive, coreVars
<1>2. worker \in Memory /\ worker.hands \in Seq(R) /\ commands \in Seq(1 .. MaxCommands) /\ N \in Nat
      /\ DOMAIN worker.hands = 1 .. N
  BY FlowParts, HandIndices DEF FlowTypes, Memory
<1>3. /\ Head(commands) \in 1 .. MaxCommands /\ Head(commands) = commands[1] /\ 1 \in DOMAIN commands
      /\ commands' \in Seq(1 .. MaxCommands)
      /\ \A i \in DOMAIN commands' : i \in Nat \ {0} /\ i + 1 \in DOMAIN commands /\ commands'[i] = commands[i + 1]
  <2> DEFINE S == 1 .. MaxCommands
  <2>1. commands \in Seq(S) /\ commands # <<>>
    BY <1>1, <1>2
  <2> HIDE DEF S
  <2>2. /\ Head(commands) \in S /\ Head(commands) = commands[1] /\ 1 \in DOMAIN commands /\ Tail(commands) \in Seq(S)
        /\ \A i \in DOMAIN Tail(commands) : i \in Nat \ {0} /\ i + 1 \in DOMAIN commands /\ Tail(commands)[i] = commands[i + 1]
    BY <2>1, TailFacts
  <2> QED
    BY <1>1, <2>2 DEF S
<1>4. h \in R /\ h.cmd = commands[1]
  BY <1>3
<1> HIDE DEF h
<1>5. /\ Append(worker.hands, h) \in Seq(R)
      /\ DOMAIN Append(worker.hands, h) = 1 .. N + 1
      /\ \A i \in DOMAIN worker.hands : Append(worker.hands, h)[i] = worker.hands[i]
      /\ Append(worker.hands, h)[N + 1] = h
  <2> HIDE DEF R
  <2>1. /\ Append(worker.hands, h) \in Seq(R) /\ Len(Append(worker.hands, h)) = N + 1
        /\ \A i \in 1 .. N : Append(worker.hands, h)[i] = worker.hands[i]
        /\ Append(worker.hands, h)[N + 1] = h
    BY <1>2, <1>4, AppendProperties
  <2> QED
    BY <1>2, <2>1, LenProperties
<1>6. worker' \in Memory /\ worker'.hands = Append(worker.hands, h)
  BY <1>1, <1>2, <1>5 DEF Memory
<1>7. FlowTypes'
  BY <1>1, <1>3, <1>6, FlowParts DEF FlowTypes
<1> HIDE DEF R
<1>8. \A i \in DOMAIN worker'.hands :
        \/ i \in DOMAIN worker.hands /\ worker'.hands[i].cmd = worker.hands[i].cmd /\ i <= N /\ i \in Nat
        \/ i = N + 1 /\ worker'.hands[i].cmd = commands[1]
  BY <1>2, <1>4, <1>5, <1>6
<1>9. /\ \A i \in DOMAIN worker.hands : Given(worker.hands[i].cmd)
      /\ \A i \in DOMAIN commands : Given(commands[i])
      /\ \A i, j \in DOMAIN worker.hands :
           i < j /\ Acts(worker.hands[i].cmd) /\ Acts(worker.hands[j].cmd) => worker.hands[i].cmd < worker.hands[j].cmd
      /\ \A i, j \in DOMAIN commands : i < j /\ Acts(commands[i]) /\ Acts(commands[j]) => commands[i] < commands[j]
      /\ \A i \in DOMAIN worker.hands, j \in DOMAIN commands :
           Acts(worker.hands[i].cmd) /\ Acts(commands[j]) => worker.hands[i].cmd < commands[j]
  BY FlowParts DEF DeliveryOK
<1>10. /\ \A i \in DOMAIN worker'.hands : Given(worker'.hands[i].cmd)
       /\ \A i \in DOMAIN commands' : Given(commands'[i])
       /\ \A i, j \in DOMAIN worker'.hands :
            i < j /\ Acts(worker'.hands[i].cmd) /\ Acts(worker'.hands[j].cmd) => worker'.hands[i].cmd < worker'.hands[j].cmd
       /\ \A i, j \in DOMAIN commands' : i < j /\ Acts(commands'[i]) /\ Acts(commands'[j]) => commands'[i] < commands'[j]
       /\ \A i \in DOMAIN worker'.hands, j \in DOMAIN commands' :
            Acts(worker'.hands[i].cmd) /\ Acts(commands'[j]) => worker'.hands[i].cmd < commands'[j]
  <2>1. /\ \A i \in DOMAIN worker'.hands : Given(worker'.hands[i].cmd)
        /\ \A i \in DOMAIN commands' : Given(commands'[i])
    BY <1>3, <1>8, <1>9
  <2>2. ASSUME NEW i \in DOMAIN worker'.hands, NEW j \in DOMAIN worker'.hands, i < j,
               Acts(worker'.hands[i].cmd), Acts(worker'.hands[j].cmd)
        PROVE  worker'.hands[i].cmd < worker'.hands[j].cmd
    <3>1. i \in DOMAIN worker.hands /\ worker'.hands[i].cmd = worker.hands[i].cmd
      BY <1>2, <1>8, <2>2
    <3>2. CASE j \in DOMAIN worker.hands /\ worker'.hands[j].cmd = worker.hands[j].cmd
      BY <1>9, <2>2, <3>1, <3>2
    <3>3. CASE j = N + 1 /\ worker'.hands[j].cmd = commands[1]
      BY <1>3, <1>9, <2>2, <3>1, <3>3
    <3> QED
      BY <1>8, <3>2, <3>3
  <2>3. ASSUME NEW i \in DOMAIN commands', NEW j \in DOMAIN commands', i < j, Acts(commands'[i]), Acts(commands'[j])
        PROVE  commands'[i] < commands'[j]
    <3>1. /\ i + 1 \in DOMAIN commands /\ commands'[i] = commands[i + 1]
          /\ j + 1 \in DOMAIN commands /\ commands'[j] = commands[j + 1] /\ i + 1 < j + 1
      BY <1>3, <2>3
    <3> QED
      BY <1>9, <2>3, <3>1
  <2>4. ASSUME NEW i \in DOMAIN worker'.hands, NEW j \in DOMAIN commands', Acts(worker'.hands[i].cmd), Acts(commands'[j])
        PROVE  worker'.hands[i].cmd < commands'[j]
    <3>1. j + 1 \in DOMAIN commands /\ commands'[j] = commands[j + 1] /\ 1 < j + 1 /\ 1 \in DOMAIN commands
      BY <1>3
    <3>2. CASE i \in DOMAIN worker.hands /\ worker'.hands[i].cmd = worker.hands[i].cmd
      BY <1>9, <2>4, <3>1, <3>2
    <3>3. CASE worker'.hands[i].cmd = commands[1]
      BY <1>9, <2>4, <3>1, <3>3
    <3> QED
      BY <1>8, <3>2, <3>3
  <2> QED
    BY <2>1, <2>2, <2>3, <2>4
<1>11. DeliveryOK'
  BY <1>1, <1>10 DEF DeliveryOK, Given, Acts
<1>12. ASSUME NEW n \in DOMAIN events, Cancels(events[n])
       PROVE  /\ Given(events[n].cmd) /\ Acts(events[n].cmd)
              /\ \A i \in DOMAIN worker'.hands : Acts(worker'.hands[i].cmd) => worker'.hands[i].cmd > events[n].cmd
              /\ \A i \in DOMAIN commands' : Acts(commands'[i]) => commands'[i] > events[n].cmd
  <2>1. /\ Given(events[n].cmd) /\ Acts(events[n].cmd)
        /\ \A i \in DOMAIN worker.hands : Acts(worker.hands[i].cmd) => worker.hands[i].cmd > events[n].cmd
        /\ \A i \in DOMAIN commands : Acts(commands[i]) => commands[i] > events[n].cmd
    BY <1>12, FlowParts DEF CancelOK
  <2> QED
    BY <1>3, <1>8, <2>1
<1>13. CancelOK'
  BY <1>1, <1>12 DEF CancelOK, Given, Acts
<1>14. ReleaseOK'
  <2>1. row.state = "ABORTED" =>
          /\ \A i \in DOMAIN worker'.hands : ~Acts(worker'.hands[i].cmd)
          /\ \A i \in DOMAIN commands' : ~Acts(commands'[i])
    BY <1>3, <1>8, FlowParts DEF ReleaseOK
  <2> QED
    BY <1>1, <2>1 DEF ReleaseOK, Acts
<1>15. EdgeOK'
  BY <1>1, FlowParts DEF EdgeOK
<1> QED
  BY <1>1, <1>7, <1>11, <1>13, <1>14, <1>15 DEF Wire

-----------------------------------------------------------------------------
(* The steps together: what proves a submission. *)

PageProof ==
  cart.items > 0 \/ cart.post \/ Bears(tab.doc) \/ (pump.at = "AGAIN" /\ Bears(pump.again))
    \/ active.checkpoint \in {"CART_READY", "CHECKOUT_READY"} => cart.posts > 0

ProofMoves ==
  /\ cart'.posts >= cart.posts
  /\ active.checkpoint = "CHECKOUT_READY" => active'.checkpoint = "CHECKOUT_READY"
  /\ PageProof'

LEMMA ProofKeeps ==
  ASSUME FlowTypes, ProofOK, cart' = cart, tab'.doc = tab.doc \/ ~Bears(tab'.doc),
         \/ pump'.at # "AGAIN"
         \/ pump'.at = pump.at /\ pump'.again = pump.again
         \/ pump'.again = tab.doc,
         active'.checkpoint = active.checkpoint
  PROVE  ProofMoves
<1>1. cart.posts \in Nat
  BY DEF FlowTypes, Merchant
<1>2. PageProof
  BY DEF ProofOK, PageProof
<1>3. PageProof'
  BY <1>2 DEF PageProof
<1> QED
  BY <1>1, <1>3 DEF ProofMoves

LEMMA RestsProof == ASSUME FlowTypes, ProofOK, Rests PROVE ProofMoves
BY ProofKeeps DEF Rests, RecordStays, PumpRests, PageStays

LEMMA HandlesProof ==
  ASSUME FlowTypes, ProofOK, ActOnResume \/ \E type \in Starting : ActOnStart(type)
  PROVE  ProofMoves
<1>1. active \in Controller /\ pump \in Round
  BY DEF FlowTypes
<1>2. cart' = cart /\ tab' = tab /\ pump' \in {pump, Voided} /\ active'.checkpoint = active.checkpoint
  BY <1>1 DEF ActOnResume, ActOnStart, Reject, Controller
<1>3. pump'.at = pump.at /\ pump'.again = pump.again
  BY <1>2, IdleFacts
<1> QED
  BY <1>2, <1>3, ProofKeeps

LEMMA PumpProof ==
  ASSUME FlowTypes, PartsOK, ProofOK, PumpDecides \/ PumpSends \/ PumpHears \/ PumpVerifies
  PROVE  Rests \/ ProofMoves
<1>0. active \in Controller /\ pump \in Round /\ cart \in Merchant /\ pump.again \in Document
  BY DEF FlowTypes, Round
<1>1. CASE PumpDecides
  <2>1. cart' = cart /\ tab' = tab
    BY <1>1 DEF PumpDecides
  <2>2. active'.checkpoint = active.checkpoint
    BY <1>0, <1>1 DEF PumpDecides, PumpPauses, Pause, Stores, KeepsOn, Controller
  <2>3. pump' = IdlePump \/ pump' = ReadAgain \/ pump' = [pump EXCEPT !.at = "STORED"]
    BY <1>1 DEF PumpDecides, PumpPauses, PumpEnds, Stores
  <2>4. pump'.at # "AGAIN" \/ pump'.again = tab.doc
    <3> DEFINE u == active.empty = "HERE"
    <3>1. CASE pump' = ReadAgain
      <4>1. pump' = [pump EXCEPT !.at = "AGAIN", !.again = tab.doc, !.here = TRUE, !.same = u]
        BY <3>1 DEF ReadAgain
      <4> HIDE DEF u
      <4> QED
        BY <1>0, <4>1 DEF Round
    <3>2. CASE pump' = [pump EXCEPT !.at = "STORED"]
      BY <1>0, <3>2 DEF Round
    <3> QED
      BY <2>3, <3>1, <3>2 DEF IdlePump
  <2> QED
    BY <2>1, <2>2, <2>4, ProofKeeps
<1>2. CASE PumpSends
  <2>1. /\ cart' = cart /\ active' = active /\ pump' = [pump EXCEPT !.at = "SENT"]
        /\ \E r : tab' = [tab EXCEPT !.request = r]
    BY <1>2 DEF PumpSends
  <2>2. tab'.doc = tab.doc /\ pump'.at # "AGAIN"
    BY <1>0, <2>1 DEF FlowTypes, Tab, Round
  <2> QED
    BY <2>1, <2>2, ProofKeeps
<1>3. CASE PumpHears
  <2>1. /\ cart' = cart /\ tab' = tab /\ pump' = IdlePump
        /\ active'.checkpoint = active.checkpoint
    <3>1. pump.answer \in {"NONE", "UNKNOWN", "HUMAN", "REFUSED", "SOLD_OUT"}
      BY <1>3 DEF PumpHears, PartsOK, RequestOK, Refusals
    <3> QED
      BY <1>0, <1>3, <3>1 DEF PumpHears, PumpPauses, Pause, PumpEnds, KeepsOn, Controller
  <2> QED
    BY <2>1, ProofKeeps DEF IdlePump
<1>4. CASE PumpVerifies
  <2>1. /\ cart' = cart /\ tab' = tab /\ pump.at = "AGAIN" /\ active.checkpoint # "CHECKOUT_READY" /\ cart.posts \in Nat
    BY <1>0, <1>4 DEF PumpVerifies, PartsOK, ControlOK, Merchant
  <2>2. ASSUME active'.checkpoint = active.checkpoint, pump'.at # "AGAIN" PROVE ProofMoves
    BY <2>1, <2>2, ProofKeeps
  <2>3. ASSUME NEW state, NEW kind, PumpPauses(active, state, kind, <<>>) PROVE ProofMoves
    BY <1>0, <2>2, <2>3 DEF PumpPauses, Pause, PumpEnds, IdlePump, Controller
  <2>4. ASSUME ResumesCart, active.recheck PROVE ProofMoves
    <3>1. active.checkpoint = "CART_READY" /\ cart.posts > 0
      BY <2>4 DEF PartsOK, ControlOK, ProofOK
    <3>2. pump'.at # "AGAIN"
      <4>1. ASSUME NEW a, NEW what, Reports(a, what) PROVE pump'.at # "AGAIN"
        <5>1. pump' = [pump EXCEPT !.at = "REPORT", !.answer = what]
          BY <4>1 DEF Reports
        <5> QED
          BY <1>0, <5>1 DEF Round
      <4>2. ASSUME NEW a, NEW state, NEW kind, PumpPauses(a, state, kind, <<>>) PROVE pump'.at # "AGAIN"
        BY <4>2 DEF PumpPauses, PumpEnds, IdlePump
      <4>3. (\E a, what : Reports(a, what)) \/ PumpPauses(active, "PAUSED_UNCERTAIN", "SITE_CHANGED", <<>>)
        BY <2>4 DEF ResumesCart
      <4> QED
        BY <4>1, <4>2, <4>3
    <3> QED
      BY <2>1, <3>1, <3>2 DEF ProofMoves, PageProof
  <2>5. ASSUME VerifiesMutation, active.journal.status = "DISPATCHED" PROVE ProofMoves
    <3> DEFINE m == Mutation[active.journal.name]
    <3>1. CASE Verified(pump.again, m.target) /\ pump'.at = "REPORT" /\ active'.checkpoint = m.checkpoint
      <4>1. m.checkpoint \in {"CART_READY", "CHECKOUT_READY"} => m.target \in {"CART", "CHECKOUT"}
        <5>1. active.journal.name \in DOMAIN Mutation
          BY <1>0, <2>5 DEF Controller, Journal, NoJournal
        <5> QED
          BY <5>1 DEF Mutation
      <4>2. m.checkpoint \in {"CART_READY", "CHECKOUT_READY"} => Bears(pump.again)
        BY <3>1, <4>1 DEF Verified, Bears
      <4>3. PageProof
        BY DEF ProofOK, PageProof
      <4> HIDE DEF m
      <4> QED
        BY <2>1, <3>1, <4>2, <4>3 DEF ProofMoves, PageProof
    <3>2. CASE PumpPauses(active, "PAUSED_UNCERTAIN", "SITE_CHANGED", <<>>)
      BY <2>3, <3>2
    <3> QED
      BY <1>0, <2>5, <3>1, <3>2 DEF VerifiesMutation, Reports, Controller, Round
  <2>6. ASSUME GoesOn PROVE ProofMoves
    <3>1. CASE Stores(active, Following[active.checkpoint])
      BY <1>0, <2>2, <3>1 DEF Stores, Controller, Round
    <3>2. CASE PumpPauses(active, "FAILED", "SITE_CHANGED", <<>>)
      BY <2>3, <3>2
    <3> QED
      BY <2>6, <3>1, <3>2 DEF GoesOn
  <2> QED
    BY <1>4, <2>3, <2>4, <2>5, <2>6 DEF PumpVerifies
<1> QED
  BY <1>1, <1>2, <1>3, <1>4

LEMMA PageActsProof == ASSUME FlowTypes, PartsOK, ProofOK, Page PROVE ProofMoves
<1>0. active \in Controller /\ pump \in Round /\ cart \in Merchant /\ tab \in Tab
  BY DEF FlowTypes
<1>1. /\ active' = active /\ tab'.doc = tab.doc
      /\ (\E text : pump' = Answer(text))
      /\ cart' = cart \/ cart' = [cart EXCEPT !.post = TRUE, !.posts = @ + 1]
  BY <1>0 DEF Page, PageActs, RequestLost, Tab
<1>2. pump'.at # "AGAIN" \/ (pump'.at = pump.at /\ pump'.again = pump.again)
  BY <1>0, <1>1 DEF Answer, Round
<1>3. CASE cart' = cart
  BY <1>1, <1>2, <1>3, ProofKeeps
<1>4. CASE cart' = [cart EXCEPT !.post = TRUE, !.posts = @ + 1]
  <2>1. cart'.posts = cart.posts + 1 /\ cart.posts \in Nat
    BY <1>0, <1>4 DEF Merchant
  <2> QED
    BY <1>1, <2>1 DEF ProofMoves, PageProof
<1> QED
  BY <1>1, <1>3, <1>4

LEMMA ShowsProof ==
  ASSUME FlowTypes, ProofOK, NEW doc \in Document, Shows(doc), Bears(doc) => cart.items > 0,
         cart' = cart \/ cart' = [cart EXCEPT !.stale = TRUE]
  PROVE  ProofMoves
<1>1. /\ tab'.doc = doc /\ pump'.at = pump.at /\ pump'.again = pump.again /\ active'.checkpoint = active.checkpoint
      /\ cart \in Merchant
  BY DEF Shows, NewDocument, FlowTypes, Round, Controller
<1>2. cart'.items = cart.items /\ cart'.posts = cart.posts /\ cart'.post = cart.post /\ cart.posts \in Nat
  <2>1. CASE cart' = cart
    BY <1>1, <2>1 DEF Merchant
  <2>2. CASE cart' = [cart EXCEPT !.stale = TRUE]
    BY <1>1, <2>2 DEF Merchant
  <2> QED
    BY <2>1, <2>2
<1>3. PageProof
  BY DEF ProofOK, PageProof
<1> QED
  BY <1>1, <1>2, <1>3 DEF ProofMoves, PageProof

LEMMA LoadProof == ASSUME FlowTypes, ProofOK, Loads \/ LoadsOddly \/ LoadsStale PROVE ProofMoves
<1>0. cart \in Merchant /\ tab.nav \in Stage \cup {"NONE"}
  BY DEF FlowTypes, Tab
<1>1. ASSUME NEW stage \in Stage \cup Odd, NEW shows \in {"FINE", "SOLD_OUT", "LATER", "EMPTY", "REVIEW", "LOGIN"},
             Shows([stage |-> stage, shows |-> shows]),
             stage \in {"CART", "CHECKOUT"} /\ shows \in {"FINE", "LATER"} => cart.items > 0,
             cart' = cart \/ cart' = [cart EXCEPT !.stale = TRUE]
      PROVE  ProofMoves
  <2> DEFINE doc == [stage |-> stage, shows |-> shows]
  <2>1. doc \in Document /\ doc.stage = stage /\ doc.shows = shows /\ Shows(doc)
    BY <1>1 DEF Document
  <2> HIDE DEF doc
  <2>2. Bears(doc) => cart.items > 0
    BY <1>1, <2>1 DEF Bears, Index
  <2> QED
    BY <1>1, <2>1, <2>2, ShowsProof
<1>2. CASE Loads
  <2> DEFINE target == IF tab.nav = "CHECKOUT" /\ cart.items = 0 THEN "CART" ELSE tab.nav
  <2>1. PICK shows \in Lands(target) : Shows([stage |-> target, shows |-> shows])
    BY <1>2 DEF Loads
  <2>2. cart' = cart /\ target \in Stage
    BY <1>0, <1>2 DEF Loads, Stage
  <2>3. target = "CHECKOUT" => cart.items > 0
    BY <1>0 DEF Merchant
  <2> HIDE DEF target
  <2>4. /\ shows \in {"FINE", "LATER", "EMPTY", "REVIEW"}
        /\ target = "CART" => shows = (IF cart.items = 0 THEN "EMPTY" ELSE IF cart.items = 1 THEN "FINE" ELSE "REVIEW")
    BY <2>1 DEF Lands
  <2>5. target = "CART" /\ shows \in {"FINE", "LATER"} => cart.items > 0
    BY <1>0, <2>4 DEF Merchant
  <2> QED
    BY <1>1, <2>1, <2>2, <2>3, <2>4, <2>5
<1>3. CASE LoadsOddly
  <2>1. cart' = cart
    BY <1>3 DEF LoadsOddly
  <2>2. ASSUME NEW stage \in Odd, Shows([stage |-> stage, shows |-> "FINE"]) PROVE ProofMoves
    <3>1. stage \notin {"CART", "CHECKOUT"}
      BY DEF Odd
    <3> QED
      BY <1>1, <2>1, <2>2, <3>1
  <2>3. CASE Shows([stage |-> "PRODUCT", shows |-> "SOLD_OUT"])
    BY <1>1, <2>1, <2>3 DEF Stage
  <2>4. CASE Shows([stage |-> "CHECKOUT", shows |-> "LOGIN"])
    BY <1>1, <2>1, <2>4 DEF Stage
  <2> QED
    BY <1>3, <2>2, <2>3, <2>4 DEF LoadsOddly
<1>4. CASE LoadsStale
  BY <1>1, <1>4 DEF LoadsStale, Stage
<1> QED
  BY <1>2, <1>3, <1>4

LEMMA OutsideProof ==
  ASSUME FlowTypes, PartsOK, ProofOK, TabArrives \/ TakesPost \/ RefusesPost \/ CartIsLost \/ PageChanges \/ UserClosesTab
  PROVE  ProofMoves
<1>0. active \in Controller /\ pump \in Round /\ cart \in Merchant /\ tab \in Tab /\ tab.doc \in Document
  BY DEF FlowTypes, Tab
<1>1. CASE TakesPost \/ RefusesPost \/ CartIsLost
  <2>1. /\ cart'.posts = cart.posts /\ cart.posts \in Nat
        /\ (cart'.items > 0 \/ cart'.post => cart.items > 0 \/ cart.post)
        /\ UNCHANGED <<coreVars, linkVars, active, worker, pump, tab>>
    BY <1>0, <1>1, MerchantActsSafely DEF Merchant
  <2>2. PageProof
    BY DEF ProofOK, PageProof
  <2> QED
    BY <2>1, <2>2 DEF ProofMoves, PageProof
<1>2. CASE TabArrives
  <2>1. /\ cart' = cart /\ pump' = pump /\ active'.checkpoint = active.checkpoint
        /\ tab'.doc = [stage |-> "UNKNOWN", shows |-> "FINE"]
    BY <1>0, <1>2 DEF TabArrives, Controller, Tab
  <2>2. ~Bears(tab'.doc)
    BY <2>1 DEF Bears
  <2> QED
    BY <2>1, <2>2, ProofKeeps
<1>3. CASE PageChanges
  <2>1. cart' = cart /\ pump' = pump /\ active' = active
    BY <1>3 DEF PageChanges
  <2>2. tab'.doc.stage \in {"CHALLENGE", "PRODUCT"}
    BY <1>0, <1>3 DEF PageChanges, Tab, Document
  <2>3. ~Bears(tab'.doc)
    BY <2>2 DEF Bears
  <2> QED
    BY <2>1, <2>3, ProofKeeps
<1>4. CASE UserClosesTab
  <2>1. cart' = cart /\ tab'.doc = NoDocument
    BY <1>4 DEF UserClosesTab, NewDocument
  <2>2. pump'.at = pump.at /\ pump'.again = pump.again /\ active'.checkpoint = active.checkpoint
    BY <1>0, <1>4 DEF UserClosesTab, Pause, KeepsOn, Voided, Round, Controller
  <2>3. ~Bears(tab'.doc)
    BY <2>1 DEF Bears, NoDocument
  <2> QED
    BY <2>1, <2>2, <2>3, ProofKeeps
<1> QED
  BY <1>1, <1>2, <1>3, <1>4

-----------------------------------------------------------------------------
(* The steps together: the whole invariant. *)

(* What the core may call ready was posted, and what is posted is verified. *)
LEMMA ProofHolds ==
  ASSUME FlowTypes, FlowTypes', ProofOK, ProofMoves, ReadyIsVerified,
         \/ row'.state = row.state
         \/ row'.state = "ABORTED"
         \/ 1 \in DOMAIN events /\ Ready(events[1]) /\ row'.state = events[1].kind
  PROVE  ProofOK'
<1>1. cart.posts \in Nat /\ cart'.posts \in Nat /\ cart'.posts >= cart.posts
  BY DEF FlowTypes, Merchant, ProofMoves
<1>2. cart.posts > 0 => cart'.posts > 0
  BY <1>1
<1>3. active.checkpoint = "CHECKOUT_READY" => active'.checkpoint = "CHECKOUT_READY"
  BY DEF ProofMoves
<1>4. \A n \in DOMAIN events : Ready(events[n]) =>
        cart.posts > 0 /\ (events[n].kind = "CHECKOUT_READY" => active.checkpoint = "CHECKOUT_READY")
  BY DEF ProofOK, Ready
<1>5. ASSUME NEW n \in DOMAIN events', Ready(events'[n])
      PROVE  cart'.posts > 0 /\ (events'[n].kind = "CHECKOUT_READY" => active'.checkpoint = "CHECKOUT_READY")
  <2>1. CASE \E k \in DOMAIN events : events'[n] = events[k]
    BY <1>2, <1>3, <1>4, <1>5, <2>1
  <2>2. CASE events'[n].kind = active.checkpoint
    <3>1. cart.posts > 0
      BY <1>5, <2>2 DEF Ready, ProofOK
    <3> QED
      BY <1>2, <1>3, <2>2, <3>1
  <2> QED
    BY <1>5, <2>1, <2>2 DEF ReadyIsVerified
<1>6. /\ row'.state \in {"CART_READY", "CHECKOUT_READY"} => cart'.posts > 0
      /\ row'.state = "CHECKOUT_READY" => active'.checkpoint = "CHECKOUT_READY"
  <2>1. /\ row.state \in {"CART_READY", "CHECKOUT_READY"} => cart.posts > 0
        /\ row.state = "CHECKOUT_READY" => active.checkpoint = "CHECKOUT_READY"
    BY DEF ProofOK
  <2> QED
    BY <1>2, <1>3, <1>4, <2>1
<1>7. PageProof'
  BY DEF ProofMoves
<1> QED
  BY <1>5, <1>6, <1>7 DEF ProofOK, PageProof, Ready

LEMMA Assembles ==
  ASSUME FlowInv, [Next]_vars, FlowTypes', Wire', EdgeOK', Rests \/ PartsOK', Rests \/ ProofMoves, ReadyIsVerified,
         \/ row'.state = row.state
         \/ row'.state = "ABORTED"
         \/ 1 \in DOMAIN events /\ Ready(events[1]) /\ row'.state = events[1].kind
  PROVE  FlowInv'
<1>1. PartsOK'
  BY FlowParts, StepFacts, RestKeeps
<1>2. ProofOK'
  BY FlowParts, RestsProof, ProofHolds
<1>3. TypeOK'
  BY StepFacts DEF TypeOK, FlowTypes
<1> QED
  BY <1>1, <1>2, <1>3, StepFacts DEF FlowInv, PartsOK, Wire

(* ... for the actions that leave the commands where they are ...          *)
LEMMA MovesHold ==
  ASSUME FlowInv, [Next]_vars, FlowTypes', WireStays, NoneReady \/ ReadyIsVerified,
         Rests \/ PartsOK', Rests \/ ProofMoves
  PROVE  FlowInv'
<1>1. Wire' /\ EdgeOK' /\ row'.state = row.state /\ ReadyIsVerified
  BY MovesWire DEF WireStays, coreVars, NoneReady, ReadyIsVerified
<1> QED
  BY <1>1, Assembles

(* ... and for those that take one out of the worker's hands.              *)
LEMMA HandledHold ==
  ASSUME FlowInv, [Next]_vars, Handled, Rests \/ PartsOK', Rests \/ ProofMoves
  PROVE  FlowInv'
<1>1. Wire' /\ EdgeOK'
  BY HandledWire
<1>2. FlowTypes' /\ ReadyIsVerified /\ row'.state = row.state
  BY DEF Handled, HandleStays, coreVars, NoneReady, ReadyIsVerified
<1> QED
  BY <1>1, <1>2, Assembles

LEMMA ExtensionRests ==
  ASSUME PartsOK, active' = active, pump' = pump, tab' = tab, cart' = cart, worker'.opening = worker.opening
  PROVE  Rests
BY DEF PartsOK, ControlOK, Rests, RecordStays, PumpRests, FreshStays, PageStays

(* The core and the host move on their own.                                *)
LEMMA CoreHolds ==
  ASSUME FlowInv, [Next]_vars,
         (\E type \in Types : EnqueueCommand(type)) \/ (HostTakes /\ ~Accepts(Head(events))) \/ HostEnds
  PROVE  FlowInv'
<1>0. FlowTypes /\ PartsOK
  BY FlowParts
<1>1. /\ active' = active /\ pump' = pump /\ tab' = tab /\ cart' = cart /\ worker' = worker
      /\ Disconnect \/ (\E type \in Type : Enqueue(type)) \/ UNCHANGED coreVars
      /\ commands' \in {commands, <<>>} /\ events' \in {events, <<>>} /\ host' \in {host, FALSE}
  BY CartFlowAssumption DEF EnqueueCommand, linkVars, HostTakes, HostEnds
<1>2. quirks' \in Nat
  <2>1. quirks \in Nat /\ worker.on \in BOOLEAN
    BY <1>0 DEF FlowTypes, Memory
  <2> QED
    BY <2>1 DEF EnqueueCommand, HostTakes, HostEnds, Quirk
<1>3. <<>> \in Seq(1 .. MaxCommands) /\ <<>> \in Seq(Sendable) /\ DOMAIN <<>> = {}
  OBVIOUS
<1>4. FlowTypes'
  BY <1>0, <1>1, <1>2, <1>3 DEF FlowTypes
<1>5. \A n \in DOMAIN events' : \E k \in DOMAIN events : events'[n] = events[k]
  BY <1>1, <1>3
<1>6. Wire' /\ EdgeOK' /\ row'.state = row.state
  BY <1>1, <1>5, KeptHands, CoreWire
<1>7. ReadyIsVerified
  BY <1>5 DEF ReadyIsVerified
<1> QED
  BY <1>0, <1>1, <1>4, <1>6, <1>7, ExtensionRests, Assembles

LEMMA ConnectHolds == ASSUME FlowInv, [Next]_vars, Connect PROVE FlowInv'
<1> DEFINE m == Event("READY", 0)
<1>0. FlowTypes /\ PartsOK
  BY FlowParts
<1>1. /\ active' = active /\ pump' = pump /\ tab' = tab /\ cart' = cart /\ Disconnect
      /\ commands' = <<>> /\ events' = <<m>> /\ host' = TRUE /\ quirks' = quirks
      /\ worker' = [worker EXCEPT !.on = TRUE]
  BY DEF Connect
<1>2. m \in Sendable /\ m.kind = "READY" /\ ~Cancels(m)
  <2>1. 0 \in 0 .. MaxCommands
    BY CommandsAssumption
  <2> QED
    BY <2>1, EventFacts
<1> HIDE DEF m
<1>3. <<>> \in Seq(1 .. MaxCommands) /\ events' \in Seq(Sendable) /\ \A n \in DOMAIN events' : events'[n] = m
  BY <1>1, <1>2, SingleFacts
<1>4. worker' \in Memory /\ worker'.opening = worker.opening /\ SameHands(worker')
  BY <1>0, <1>1 DEF FlowTypes, Memory, SameHands
<1>5. FlowTypes'
  BY <1>0, <1>1, <1>3, <1>4 DEF FlowTypes
<1>6. Wire' /\ EdgeOK' /\ row'.state = row.state
  BY <1>1, <1>2, <1>3, <1>4, CoreWire
<1>7. ReadyIsVerified
  BY <1>2, <1>3 DEF ReadyIsVerified, Ready
<1> QED
  BY <1>0, <1>1, <1>4, <1>5, <1>6, <1>7, ExtensionRests, Assembles

LEMMA TakesHolds == ASSUME FlowInv, [Next]_vars, HostTakes, Accepts(Head(events)) PROVE FlowInv'
<1>0. FlowTypes /\ PartsOK
  BY FlowParts
<1>1. /\ active' = active /\ pump' = pump /\ tab' = tab /\ cart' = cart /\ worker' = worker
      /\ commands' = commands /\ events' = Tail(events) /\ events # <<>> /\ host' = host /\ quirks' = quirks
  BY DEF HostTakes
<1>2. events' \in Seq(Sendable)
  <2>1. events \in Seq(Sendable)
    BY <1>0 DEF FlowTypes
  <2> QED
    BY <1>1, <2>1, TailFacts
<1>3. FlowTypes'
  BY <1>0, <1>1, <1>2 DEF FlowTypes
<1>4. ReadyIsVerified
  BY TakesWire DEF ReadyIsVerified
<1> QED
  BY <1>0, <1>1, <1>3, <1>4, TakesWire, ExtensionRests, Assembles

LEMMA WireActionsHold ==
  ASSUME FlowInv, [Next]_vars, Receive \/ \E k \in DOMAIN queue : HostSends(k)
  PROVE  FlowInv'
<1>1. Wire' /\ EdgeOK' /\ FlowTypes' /\ row'.state = row.state
  BY SendsWire, ReceivesWire DEF coreVars
<1>2. /\ active' = active /\ pump' = pump /\ tab' = tab /\ cart' = cart /\ worker'.opening = worker.opening
      /\ events' = events
  BY FlowParts DEF HostSends, Receive, FlowTypes, Memory
<1>3. ReadyIsVerified
  BY <1>2 DEF ReadyIsVerified
<1> QED
  BY <1>1, <1>2, <1>3, FlowParts, ExtensionRests, Assembles

LEMMA HandleHolds == ASSUME FlowInv, [Next]_vars, Handle PROVE FlowInv'
<1>0. FlowTypes /\ PartsOK /\ DeliveryOK /\ ProofOK
  BY FlowParts
<1>1. CASE Receive
  BY <1>1, WireActionsHold
<1>2. CASE DropCommand \/ ActOnDisarm \/ ActOnCancel
  BY <1>0, <1>2, DropHandled, DisarmHandled, CancelHandled, HandledHold
<1>3. CASE ActOnResume \/ \E type \in Starting : ActOnStart(type)
  BY <1>0, <1>3, ResumeHandled, StartHandled, HandlesProof, HandledHold
<1>4. CASE CreateTab
  BY <1>0, <1>4, CreatesQuietly, MovesHold DEF Quiet, Moves
<1>5. CASE TabArrives
  BY <1>0, <1>5, ArrivesSafely, OutsideProof, MovesHold DEF Moves
<1> QED
  BY <1>1, <1>2, <1>3, <1>4, <1>5 DEF Handle

LEMMA PumpHolds == ASSUME FlowInv, [Next]_vars, Pump PROVE FlowInv'
<1>0. FlowTypes /\ PartsOK /\ ProofOK
  BY FlowParts
<1>1. CASE PumpBegins \/ PumpDrops \/ PumpObserves
  BY <1>0, <1>1, BeginsQuietly, DropsQuietly, ObservesQuietly, MovesHold DEF Quiet, Moves
<1>2. CASE PumpDecides \/ PumpHears \/ PumpVerifies
  BY <1>0, <1>2, DecidesSafely, HearsSafely, VerifiesAllSafely, PumpProof, MovesHold DEF Quiet, Moves
<1>3. CASE PumpSends
  BY <1>0, <1>3, SendsSafely, PumpProof, MovesHold DEF Moves
<1>4. CASE PumpReports
  BY <1>0, <1>4, ReportsQuietly, MovesHold
<1> QED
  BY <1>1, <1>2, <1>3, <1>4 DEF Pump

LEMMA OutsideHolds == ASSUME FlowInv, [Next]_vars, Page \/ Loads \/ Environment PROVE FlowInv'
<1>0. FlowTypes /\ PartsOK /\ ProofOK
  BY FlowParts
<1>1. CASE Page
  BY <1>0, <1>1, ActsSafely, LosesRequestSafely, PageActsProof, MovesHold DEF Moves, Page
<1>2. CASE Loads \/ LoadsOddly \/ LoadsStale
  BY <1>0, <1>2, LoadsSafely, LoadsOddlySafely, LoadsStaleSafely, LoadProof, MovesHold DEF Moves
<1>3. CASE TakesPost \/ RefusesPost \/ CartIsLost
  BY <1>0, <1>3, MerchantActsSafely, OutsideProof, MovesHold DEF Moves
<1>4. CASE PageChanges \/ UserClosesTab
  BY <1>0, <1>4, ChangesSafely, ClosesSafely, OutsideProof, MovesHold DEF Moves
<1>5. CASE TabFails
  BY <1>0, <1>5, FailsQuietly, MovesHold DEF Quiet, Moves
<1>6. CASE \E stage \in Stage : UserGoesTo(stage)
  BY <1>0, <1>6, GoesQuietly, MovesHold DEF Quiet, Moves
<1> QED
  BY <1>1, <1>2, <1>3, <1>4, <1>5, <1>6 DEF Environment

LEMMA FlowNext == FlowInv /\ [Next]_vars => FlowInv'
<1> SUFFICES ASSUME FlowInv, [Next]_vars PROVE FlowInv'
  OBVIOUS
<1>0. FlowTypes /\ PartsOK
  BY FlowParts
<1>1. CASE (\E type \in Types : EnqueueCommand(type)) \/ HostTakes \/ HostEnds
  BY <1>1, CoreHolds, TakesHolds
<1>2. CASE \E k \in DOMAIN queue : HostSends(k)
  BY <1>2, WireActionsHold
<1>3. CASE Connect
  BY <1>3, ConnectHolds
<1>4. CASE LosePort \/ WorkerRestarts
  BY <1>0, <1>4, LosesQuietly, RestartsQuietly, MovesHold DEF Quiet, Moves
<1>5. CASE Handle \/ Pump \/ Page \/ Loads \/ Environment
  BY <1>5, HandleHolds, PumpHolds, OutsideHolds
<1>6. CASE UNCHANGED vars
  BY <1>0, <1>6, KeepsQuietly, MovesHold DEF Quiet, Moves
<1> QED
  BY <1>1, <1>2, <1>3, <1>4, <1>5, <1>6 DEF Next

LEMMA FlowInit == Init => FlowInv
<1> SUFFICES ASSUME Init PROVE FlowInv
  OBVIOUS
<1>1. /\ CoreInit /\ host = FALSE /\ commands = <<>> /\ events = <<>> /\ pump = IdlePump /\ quirks = 0
      /\ active = [state |-> "NONE", checkpoint |-> "START", cmd |-> 0, tab |-> FALSE, journal |-> NoJournal,
                   bound |-> "NONE", recheck |-> FALSE, empty |-> "NONE", rebuilds |-> 0, openOnly |-> FALSE]
      /\ worker = [on |-> FALSE, normal |-> FALSE, opening |-> "NO", hands |-> <<>>]
      /\ tab = [doc |-> NoDocument, nav |-> "NONE", request |-> NoRequest, acted |-> FALSE]
      /\ cart = [items |-> 0, post |-> FALSE, stale |-> FALSE, posts |-> 0]
  BY DEF Init
<1>2. Inv /\ CoreTypeOK /\ row.state = "INTENT_CREATED" /\ row.edge = "NONE" /\ row.cmd = 0 /\ queue = <<>>
  <2>1. Inv
    BY <1>1, InvInit
  <2> QED
    BY <1>1, <2>1 DEF Inv, CoreInit
<1>3. <<>> \in Seq(1 .. MaxCommands) /\ <<>> \in Seq(Sendable) /\ DOMAIN <<>> = {}
      /\ <<>> \in Seq([cmd : 1 .. MaxCommands, fresh : BOOLEAN])
  OBVIOUS
<1>4. 0 \in 0 .. MaxCommands /\ 0 \in 0 .. MaxRebuilds
  BY CommandsAssumption, CartFlowAssumption
<1>5. NoDocument \in Document
  BY DEF NoDocument, Document
<1>6. active \in Controller
  BY <1>1, <1>4 DEF Controller, Following, Journal, Bound
<1>7. worker \in Memory
  BY <1>1, <1>3 DEF Memory
<1>8. pump \in Round
  BY <1>1, <1>4, <1>5 DEF IdlePump, Round
<1>9. tab \in Tab /\ cart \in Merchant
  BY <1>1, <1>5 DEF Tab, Request, Merchant
<1>10. TypeOK
  BY <1>1, <1>2, <1>3, <1>6, <1>7, <1>8, <1>9 DEF TypeOK
<1>11. DeliveryOK /\ CancelOK /\ ReleaseOK /\ EdgeOK
  BY <1>1, <1>2, <1>3 DEF DeliveryOK, CancelOK, ReleaseOK, EdgeOK
<1>12. RowCommandOK
  BY <1>2, EmptySeq DEF RowCommandOK
<1>13. ~Full(tab.doc) /\ ~Empty(tab.doc) /\ ~Bears(tab.doc)
  BY <1>1 DEF NoDocument, Full, Empty, Bears
<1>14. pump.at = "IDLE" /\ pump.fresh = FALSE
  BY <1>1 DEF IdlePump
<1>15. ~Adding /\ ~Asked /\ Clear
  BY <1>1, <1>13 DEF Adding, Asked, Clear, NoJournal, NoRequest
<1>16. LookOK /\ OpeningOK
  BY <1>1, <1>14 DEF LookOK, OpeningOK
<1>17. ControlOK
  BY <1>1, <1>14 DEF ControlOK, NoJournal
<1>18. RequestOK /\ ClearOK /\ CartOK
  BY <1>1, <1>13, <1>14, <1>15 DEF RequestOK, ClearOK, CartOK
<1>19. EmptyOK
  BY <1>1, <1>14 DEF EmptyOK
<1>20. ProofOK
  BY <1>1, <1>2, <1>3, <1>13, <1>14 DEF ProofOK
<1> QED
  BY <1>2, <1>10, <1>11, <1>12, <1>16, <1>17, <1>18, <1>19, <1>20 DEF FlowInv

-----------------------------------------------------------------------------
(* The theorems. *)

(* The inductive invariant of the flow.                                    *)
THEOREM FlowInvariance == Spec => []FlowInv
BY FlowInit, FlowNext, PTL DEF Spec

(* The flow implements the broker: whatever the controller, the page and    *)
(* the merchant do, the row and the queue move as CartBroker says.         *)
THEOREM FlowImplementsCore == Spec => CoreSpec
<1>1. Init => CoreInit
  BY DEF Init
<1>2. FlowInv /\ [Next]_vars => [CoreNext]_coreVars
  BY FlowParts, StepOfCore
<1> QED
  BY <1>1, <1>2, FlowInvariance, PTL DEF Spec, CoreSpec

(* The records of the controller, the page and the wire hold what the code  *)
(* puts there; no number of rebuilds exceeds the limit.                    *)
THEOREM FlowTypeCorrect == Spec => []TypeOK
<1>1. FlowInv => TypeOK
  BY DEF FlowInv
<1> QED
  BY <1>1, FlowInvariance, PTL

(* One command of the intent is queued or under way, the one of the row,    *)
(* with the real worker and the real wire at the other end.                *)
THEOREM FlowRunsOneCommand == Spec => []OneCommandRuns
BY FlowImplementsCore, OnlyTheRowsCommand

(* No command goes back into the queue, whatever is lost on the way.       *)
THEOREM FlowSendsOnce == Spec => SentOnce
BY FlowImplementsCore, NothingIsSentTwice

(* The configuration form is submitted only into a cart without the product *)
(* and without a submission that may still arrive, and every submission but *)
(* the first has a counted rebuild of its own.                             *)
THEOREM AddsOnce == Spec => AddedOnce
<1>1. FlowInv /\ [Next]_vars =>
        [cart'.posts > cart.posts => cart.items = 0 /\ ~cart.post /\ cart.posts <= active.rebuilds]_vars
  <2> SUFFICES ASSUME FlowInv, Next, cart'.posts > cart.posts
               PROVE  cart.items = 0 /\ ~cart.post /\ cart.posts <= active.rebuilds
    OBVIOUS
  <2>1. FlowTypes /\ PartsOK /\ cart \in Merchant /\ cart.posts \in Nat
    BY FlowParts DEF FlowTypes, Merchant
  <2>2. cart' # cart
    BY <2>1
  <2>3. PageActs \/ LoadsStale \/ TakesPost \/ RefusesPost \/ CartIsLost
    BY <2>2 DEF Next, EnqueueCommand, HostSends, HostTakes, HostEnds, Connect, LosePort, WorkerRestarts, Handle, Receive,
      DropCommand, ActOnDisarm, ActOnCancel, ActOnResume, ActOnStart, CreateTab, TabArrives, Pump, PumpBegins, PumpDrops,
      PumpObserves, PumpDecides, PumpVerifies, PumpReports, PumpSends, PumpHears, Page, RequestLost, Loads, Environment,
      LoadsOddly, PageChanges, TabFails, UserClosesTab, UserGoesTo
  <2>4. ~(LoadsStale \/ TakesPost \/ RefusesPost \/ CartIsLost)
    <3>1. LoadsStale => cart'.posts = cart.posts
      BY <2>1 DEF LoadsStale, Merchant
    <3>2. TakesPost \/ RefusesPost \/ CartIsLost => cart'.posts = cart.posts
      BY <2>1, MerchantActsSafely
    <3> QED
      BY <2>1, <3>1, <3>2
  <2>5. tab.request.name = "ADD_TO_CART"
    BY <2>2, <2>3, <2>4 DEF PageActs
  <2> QED
    BY <2>1, <2>5 DEF PartsOK, RequestOK, Asked, Clear
<1> QED
  BY <1>1, FlowInvariance, PTL DEF Spec, AddedOnce

(* A mutation is sent for the command under which its page was read: no     *)
(* DISARM, pause or lost connection lies between the reading and the act.  *)
THEOREM MutatesForItsCommand == Spec => ActsForItsCommand
<1>1. FlowInv /\ [Next]_vars =>
        [tab.request = NoRequest /\ tab'.request # NoRequest => active.state = "RUNNING" /\ active.cmd = pump.cmd]_vars
  <2> SUFFICES ASSUME FlowInv, Next, tab.request = NoRequest, tab'.request # NoRequest
               PROVE  active.state = "RUNNING" /\ active.cmd = pump.cmd
    OBVIOUS
  <2>1. tab' # tab /\ tab \in Tab
    BY FlowParts DEF FlowTypes
  <2>2. ASSUME NEW doc, tab' = NewDocument(doc) PROVE FALSE
    BY <2>2 DEF NewDocument
  <2>3. TabArrives \/ PumpReports \/ PumpSends \/ Page \/ Loads \/ LoadsOddly \/ LoadsStale \/ PageChanges \/ UserClosesTab
          \/ \E stage \in Stage : UserGoesTo(stage)
    BY <2>1 DEF Next, EnqueueCommand, HostSends, HostTakes, HostEnds, Connect, LosePort, WorkerRestarts, Handle, Receive,
      DropCommand, ActOnDisarm, ActOnCancel, ActOnResume, ActOnStart, CreateTab, Pump, PumpBegins, PumpDrops,
      PumpObserves, PumpDecides, PumpVerifies, PumpHears, Environment, TakesPost, RefusesPost, CartIsLost, TabFails
  <2>4. ~(Loads \/ LoadsOddly \/ LoadsStale \/ UserClosesTab)
    BY <2>2 DEF Loads, LoadsOddly, LoadsStale, UserClosesTab, Shows
  <2>5. ~(TabArrives \/ PumpReports \/ PageChanges \/ \E stage \in Stage : UserGoesTo(stage))
    BY <2>1 DEF TabArrives, PumpReports, PageChanges, UserGoesTo, Tab, Document
  <2>6. ~Page
    BY DEF Page, PageActs, RequestLost
  <2>7. PumpSends
    BY <2>3, <2>4, <2>5, <2>6
  <2> QED
    BY <2>7 DEF PumpSends, FlowInv, ControlOK
<1> QED
  BY <1>1, FlowInvariance, PTL DEF Spec, ActsForItsCommand

(* What the core calls ready, the controller has verified: a submitted cart *)
(* or a checkout, and no mutation of unknown outcome with it.              *)
THEOREM CoreTrustsOnlyVerified == Spec => []CoreTrustsVerified
<1>1. FlowInv => CoreTrustsVerified
  BY DEF FlowInv, ProofOK, EdgeOK, ControlOK, CoreTrustsVerified
<1> QED
  BY <1>1, FlowInvariance, PTL

(* An intent released as read-only has touched nothing, and nothing is on   *)
(* its way that could.                                                     *)
THEOREM ReleaseTouchesNothing == Spec => []ReleasedUntouched
<1>1. FlowInv => ReleasedUntouched
  <2> SUFFICES ASSUME FlowInv, row.state = "ABORTED" PROVE ReleasedUntouched
    BY DEF ReleasedUntouched
  <2>1. LooksOnly
    BY DEF FlowInv, Inv, ReleasedReadOnly, LooksOnly
  <2> QED
    BY <2>1 DEF FlowInv, LookOK, ReleaseOK, Acts, ReleasedUntouched
<1> QED
  BY <1>1, FlowInvariance, PTL
=============================================================================
