----------------------- MODULE OrderSubmissionProofs -----------------------
(***************************************************************************)
(* Proofs about one order on its way through the cli, the queue, the       *)
(* extension and the page, for any number of runs, commands, connections   *)
(* and documents and any durations.                                        *)
(*                                                                         *)
(* The permission to click is one token that changes hands: the ledger     *)
(* commits it, the cli holds it, the queue holds one submission for it,    *)
(* the extension journals it and the page is given one request.  The       *)
(* invariant says at each hand that it is still the token the ledger       *)
(* committed, and that the hands before it will not give it a second time. *)
(***************************************************************************)
EXTENDS OrderSubmission, SequenceTheorems, TLAPS

Submits(i) == cmds[i].type = "SUBMIT_ORDER"
Undispatched == {"CHECKOUT_READY", "ORDER_PRECHECK", "ORDER_SUBMITTING"}
Noticing == {"receipt", "notify", "mail", "sent"}

(* The ledger: a dispatch has its nonce and a precheck that was fresh.     *)
RowOK ==
  /\ row.nonce = None <=> row.submit = None
  /\ row.submit # None =>
       /\ row.submit <= now
       /\ row.precheck # None
       /\ row.precheck.at <= row.submit /\ row.submit - row.precheck.at <= Fresh
  /\ row.state \in Undispatched => row.order = None

(* A permit is the one the ledger committed, and lives no longer than that. *)
Committed(p) ==
  /\ p \in Permit
  /\ row.submit # None
  /\ p.nonce = row.nonce /\ p.issued = row.submit
  /\ p.expires <= row.submit + Fresh

CliOK ==
  /\ cli.armed # None => cli.armed <= now
  /\ cli.pc \in {"assert", "submit"} => Committed(cli.permit)

(* The queue holds at most one submission, of the committed permit.        *)
QueueOK ==
  \A i \in DOMAIN cmds :
    Submits(i) =>
      /\ Committed(cmds[i].permit) /\ cmds[i].nonce = row.nonce
      /\ \A j \in DOMAIN cmds : Submits(j) => j = i

(* Only the exchange the live run waits in can still be answered.          *)
ExchangeOK ==
  /\ \A i \in DOMAIN cmds :
       /\ cmds[i].outcome # None =>
            cmds[i].status = "DONE" /\ (cmds[i].outcome = "PRECHECK_READY" => cmds[i].at # None)
       /\ cmds[i].run <= cli.run
       /\ Pending(i) /\ cmds[i].run = cli.run => i = cli.cmd \/ cli.pc = "dead"
  /\ cli.cmd # 0 => cli.pc \in Waiting \cup Noticing
  /\ cli.pc \in Noticing => cli.cmd # 0 /\ cmds[cli.cmd].outcome # None
  /\ \A k \in DOMAIN wire.toHost : wire.toHost[k].outcome = "PRECHECK_READY" => wire.toHost[k].at # None

(* What the extension has in hand was dispatched to it.                    *)
DeliveredOK ==
  /\ \A k \in DOMAIN wire.toExt : wire.toExt[k] # 0 => cmds[wire.toExt[k]].conn # 0
  /\ ext.op # None => cmds[ext.op.cmd].conn # 0
  /\ ext.op # None /\ ext.op.pc # "begun" => Submits(ext.op.cmd)

Journaled(i) ==
  /\ Submits(i) /\ cmds[i].conn # 0
  /\ ext.journal = cmds[i].permit.nonce /\ ext.nonces = {cmds[i].permit.nonce}

(* Before the journal there was no request, before the sending no click, and *)
(* a request still to be decided is the first.                             *)
ClickOK ==
  /\ clicks <= 1
  /\ ext.nonces = {} =>
       clicks = 0 /\ tab.req = None /\ (ext.op # None => ext.op.pc = "begun")
  /\ ext.nonces # {} => \E i \in DOMAIN cmds : Journaled(i)
  /\ ext.op # None /\ ext.op.pc = "journaled" => clicks = 0 /\ tab.req = None
  /\ tab.req # None =>
       /\ clicks = 0
       /\ \E i \in DOMAIN cmds :
            Submits(i) /\ tab.req.nonce = cmds[i].permit.nonce /\ tab.req.expires = cmds[i].permit.expires

(* A notice is claimed before it is sent.                                  *)
NoticeOK ==
  /\ mails <= 1
  /\ mails > 0 => row.notified
  /\ cli.pc = "mail" => row.notified /\ mails = 0

Inv ==
  /\ TypeOK
  /\ RowOK /\ CliOK /\ QueueOK /\ ExchangeOK /\ DeliveredOK /\ ClickOK /\ NoticeOK
  /\ SubmittingIsOwned

-----------------------------------------------------------------------------
(* The ledger.  Every call but the one that begins the submission keeps the *)
(* facts of the dispatch, and calls nothing undispatched that was not.     *)

Keeps(r) ==
  /\ r.nonce = row.nonce /\ r.submit = row.submit
  /\ row.submit # None => r.precheck = row.precheck
  /\ row.notified => r.notified
  /\ r.state \in Undispatched => row.state \in Undispatched /\ r.order = row.order
  /\ r.state = "ORDER_SUBMITTING" => row.state = "ORDER_SUBMITTING"

Moves ==
  /\ Ledger!TypeOK'
  /\ now <= now'
  /\ Keeps(row')

LEMMA RowTyped ==
  ASSUME TypeOK
  PROVE  /\ intent \in [{Item} -> Ledger!Row] /\ row \in Ledger!Row
         /\ now \in 0 .. MaxTime /\ now \in Nat /\ None \notin Nat
BY OrderAssumption DEF TypeOK, Ledger!TypeOK, Ledger!Time, row

LEMMA Rewritten ==
  ASSUME TypeOK, NEW r \in Ledger!Row, Keeps(r), intent' = [intent EXCEPT ![Item] = r], now' = now
  PROVE  Moves /\ row' = r
<1>1. row' = r /\ intent' \in [{Item} -> Ledger!Row]
  BY RowTyped DEF row
<1> QED
  BY <1>1, RowTyped DEF Moves, Ledger!TypeOK, Ledger!Time

LEMMA Unmoved ==
  ASSUME TypeOK, intent' = intent, now' = now
  PROVE  Moves /\ row' = row
<1>1. row' = row
  BY DEF row
<1> QED
  BY <1>1, RowTyped DEF Moves, Keeps, Ledger!TypeOK, Ledger!Time

(* Only the state of the row is written. *)
LEMMA StateWritten ==
  ASSUME TypeOK, NEW s \in Ledger!State, s \notin Undispatched,
         intent' = [intent EXCEPT ![Item].state = s], now' = now
  PROVE  Moves /\ row'.state = s /\ row'.order = row.order /\ row'.notified = row.notified
<1> DEFINE r == [row EXCEPT !.state = s]
<1>1. row \in Ledger!Row
  BY RowTyped
<1>2. /\ r \in Ledger!Row
      /\ r.state = s /\ r.order = row.order /\ r.notified = row.notified
      /\ r.nonce = row.nonce /\ r.submit = row.submit /\ r.precheck = row.precheck
  BY <1>1 DEF Ledger!Row
<1>3. intent' = [intent EXCEPT ![Item] = r]
  BY RowTyped DEF row
<1>4. "ORDER_SUBMITTING" \in Undispatched
  BY DEF Undispatched
<1> HIDE DEF r
<1>5. Keeps(r)
  BY <1>2, <1>4 DEF Keeps
<1> QED
  BY <1>2, <1>3, <1>5, Rewritten

LEMMA UncertainMoves ==
  ASSUME TypeOK, Ledger!MarkUncertain(Item)
  PROVE  Moves /\ row'.state # "ORDER_SUBMITTING"
<1>1. /\ Ledger!UncertainState(row) \in Ledger!State \ Undispatched
      /\ Ledger!UncertainState(row) # "ORDER_SUBMITTING"
  BY DEF Ledger!UncertainState, Ledger!State, Ledger!ResultStates, Ledger!Unresolved, Undispatched
<1> QED
  BY <1>1, StateWritten DEF Ledger!MarkUncertain, row

LEMMA UnknownMoves ==
  ASSUME TypeOK, Ledger!ReconcileUnknown(Item)
  PROVE  Moves
<1>1. Ledger!UncertainState(row) \in Ledger!State \ Undispatched
  BY DEF Ledger!UncertainState, Ledger!State, Ledger!ResultStates, Ledger!Unresolved, Undispatched
<1> QED
  BY <1>1, StateWritten DEF Ledger!ReconcileUnknown, row

LEMMA WaitingMoves ==
  ASSUME TypeOK, Ledger!MarkWaiting(Item)
  PROVE  Moves
<1>1. "WAITING_FOR_USER" \in Ledger!State \ Undispatched
  BY DEF Ledger!State, Ledger!ResultStates, Ledger!Observed, Undispatched
<1> QED
  BY <1>1, StateWritten DEF Ledger!MarkWaiting

LEMMA SearchedMoves ==
  ASSUME TypeOK, Searched
  PROVE  Moves
<1>1. CASE UNCHANGED <<intent, now>>
  BY <1>1, Unmoved
<1>2. CASE Ledger!Searching(Item)
  <2> DEFINE s == CASE row.state = "ORDER_CREATED" -> "INVOICE_SEARCHING"
                    [] row.state = "INVOICE_CREATED" -> "PAYMENT_LINK_SEARCHING"
                    [] OTHER -> "RECONCILING"
  <2>1. s \in Ledger!State \ Undispatched
    BY DEF Ledger!State, Ledger!ResultStates, Ledger!Unresolved, Ledger!Observed, Undispatched
  <2>2. intent' = [intent EXCEPT ![Item].state = s] /\ now' = now
    BY <1>2 DEF Ledger!Searching, row
  <2> HIDE DEF s
  <2> QED
    BY <2>1, <2>2, StateWritten
<1> QED
  BY <1>1, <1>2 DEF Searched

LEMMA ClaimMoves ==
  ASSUME TypeOK, Ledger!ClaimPaymentNotification(Item)
  PROVE  Moves /\ ~row.notified /\ row'.notified
<1> DEFINE r == [row EXCEPT !.notified = TRUE]
<1>1. row \in Ledger!Row
  BY RowTyped
<1>2. /\ r \in Ledger!Row
      /\ r.state = row.state /\ r.order = row.order /\ r.notified
      /\ r.nonce = row.nonce /\ r.submit = row.submit /\ r.precheck = row.precheck
  BY <1>1 DEF Ledger!Row
<1>3. intent' = [intent EXCEPT ![Item] = r] /\ now' = now /\ ~row.notified
  BY RowTyped DEF row, Ledger!ClaimPaymentNotification
<1> HIDE DEF r
<1>4. Keeps(r)
  BY <1>2 DEF Keeps
<1> QED
  BY <1>2, <1>3, <1>4, Rewritten

(* A reading of the order page is only taken before the dispatch. *)
LEMMA PrecheckMoves ==
  ASSUME TypeOK, RowOK, NEW id \in Cmd, NEW at \in Ledger!Time, Ledger!SetOrderPrecheck(Item, id, at, TheQuote)
  PROVE  Moves
<1> DEFINE c == [id |-> id, at |-> at, quote |-> TheQuote]
           r == [row EXCEPT !.state = "ORDER_PRECHECK", !.precheck = c]
<1>1. row \in Ledger!Row /\ c \in Ledger!Precheck
  BY RowTyped DEF Ledger!Precheck, Cmd
<1>2. "ORDER_PRECHECK" \in Ledger!State
  BY DEF Ledger!State, Ledger!PreSubmit
<1> HIDE DEF c
<1>3. /\ r \in Ledger!Row
      /\ r.state = "ORDER_PRECHECK" /\ r.order = row.order /\ r.notified = row.notified
      /\ r.nonce = row.nonce /\ r.submit = row.submit
  BY <1>1, <1>2 DEF Ledger!Row
<1>4. /\ intent' = [intent EXCEPT ![Item] = r] /\ now' = now
      /\ row.state \in {"CHECKOUT_READY", "ORDER_PRECHECK"} /\ row.submit = None
  BY RowTyped DEF row, Ledger!SetOrderPrecheck, c
<1> HIDE DEF r
<1>5. Keeps(r)
  BY <1>3, <1>4 DEF Keeps, Undispatched
<1> QED
  BY <1>3, <1>4, <1>5, Rewritten

(* The permission to send: the time and the nonce of it are new, and the   *)
(* precheck it rests on is fresh.                                          *)
LEMMA BeginsSubmission ==
  ASSUME TypeOK, RowOK, NEW nonce \in 1 .. MaxRuns, NEW id, Ledger!BeginOrderSubmission(Item, nonce, id, now)
  PROVE  /\ Ledger!TypeOK' /\ now' = now
         /\ row.submit = None
         /\ row'.nonce = nonce /\ row'.submit = now
         /\ row'.precheck = row.precheck /\ row.precheck # None
         /\ row.precheck.id = id
         /\ row.precheck.at <= now /\ now - row.precheck.at <= Fresh
         /\ row'.order = None /\ row'.notified = row.notified
<1> DEFINE r == [row EXCEPT !.state = "ORDER_SUBMITTING", !.nonce = nonce, !.submit = now]
<1>1. row \in Ledger!Row /\ now \in Ledger!Time
  BY RowTyped DEF Ledger!Time
<1>2. "ORDER_SUBMITTING" \in Ledger!State
  BY DEF Ledger!State, Ledger!ResultStates, Ledger!Unresolved
<1>3. /\ r \in Ledger!Row
      /\ r.nonce = nonce /\ r.submit = now /\ r.order = row.order /\ r.notified = row.notified
      /\ r.precheck = row.precheck
  BY <1>1, <1>2 DEF Ledger!Row
<1>4. /\ intent' = [intent EXCEPT ![Item] = r] /\ now' = now
      /\ row.state = "ORDER_PRECHECK" /\ row.submit = None
      /\ row.precheck # None /\ row.precheck.id = id
      /\ row.precheck.at <= now /\ now - row.precheck.at <= Fresh
  BY RowTyped DEF row, Ledger!BeginOrderSubmission, Ledger!RecentAt
<1> HIDE DEF r
<1>5. row' = r /\ intent' \in [{Item} -> Ledger!Row]
  BY <1>3, <1>4, RowTyped DEF row
<1>6. row.order = None
  BY <1>4 DEF RowOK, Undispatched
<1> QED
  BY <1>1, <1>3, <1>4, <1>5, <1>6 DEF Ledger!TypeOK

(* What a process that ends, or starts, leaves no submission under way.     *)
LEMMA RecoveryMoves ==
  ASSUME TypeOK, Ledger!RecoverInterrupted
  PROVE  Moves /\ row'.state # "ORDER_SUBMITTING"
<1>1. /\ Ledger!UncertainState(row) \in Ledger!State \ Undispatched
      /\ Ledger!UncertainState(row) # "ORDER_SUBMITTING"
  BY DEF Ledger!UncertainState, Ledger!State, Ledger!ResultStates, Ledger!Unresolved, Undispatched
<1>2. CASE row.state = "ORDER_SUBMITTING"
  <2>1. intent' = [intent EXCEPT ![Item].state = Ledger!UncertainState(row)] /\ now' = now
    BY <1>2, RowTyped DEF row, Ledger!RecoverInterrupted
  <2> QED
    BY <1>1, <2>1, StateWritten
<1>3. CASE row.state # "ORDER_SUBMITTING"
  <2>1. intent' = intent /\ now' = now
    BY <1>3, RowTyped DEF row, Ledger!RecoverInterrupted
  <2> QED
    BY <1>3, <2>1, Unmoved
<1> QED
  BY <1>2, <1>3

LEMMA HaltMoves ==
  ASSUME TypeOK, Ledger!HaltSubmissions
  PROVE  Moves
<1>1. "ORDER_UNCERTAIN" \in Ledger!State \ Undispatched
  BY DEF Ledger!State, Ledger!ResultStates, Ledger!Unresolved, Undispatched
<1>2. CASE row.state = "ORDER_SUBMITTING" /\ row.nonce # None
  <2>1. intent' = [intent EXCEPT ![Item].state = "ORDER_UNCERTAIN"] /\ now' = now
    BY <1>2, RowTyped DEF row, Ledger!HaltSubmissions
  <2> QED
    BY <1>1, <2>1, StateWritten
<1>3. CASE ~(row.state = "ORDER_SUBMITTING" /\ row.nonce # None)
  <2>1. intent' = intent /\ now' = now
    BY <1>3, RowTyped DEF row, Ledger!HaltSubmissions
  <2> QED
    BY <2>1, Unmoved
<1> QED
  BY <1>2, <1>3

LEMMA TickMoves ==
  ASSUME TypeOK, Ledger!Tick
  PROVE  Moves /\ row' = row
<1>1. row' = row
  BY DEF row, Ledger!Tick
<1> QED
  BY <1>1, RowTyped, OrderAssumption DEF Moves, Keeps, Ledger!TypeOK, Ledger!Time, Ledger!Tick

(* An order that was found leads out of the states before the dispatch. *)
LEMMA FoundMoves ==
  ASSUME TypeOK, NEW outcome \in Outcome, Ledger!ReconcileFound(Item, Receipt(outcome))
  PROVE  Moves
<1> DEFINE res == Receipt(outcome)
           o == Ledger!OrElse(res.order, row.order)
           i == Ledger!OrElse(res.invoice, row.invoice)
           u == Ledger!OrElse(res.url, row.url)
           e == Ledger!OrElse(res.evidence, row.evidence)
           m == Ledger!Merged(row, res)
           s == Ledger!ResultState(row, m)
           v == m.evidence # None
           r == Ledger!Persisted(row, res)
<1>1. row \in Ledger!Row
  BY RowTyped
<1>2. res \in Ledger!Result
  BY DEF Receipt, Ledger!Result, Ledger!Evidence
<1>3. /\ o \in {TheOrder} \cup {None} /\ i \in {TheInvoice} \cup {None} /\ u \in {TheInvoice} \cup {None}
      /\ e \in Ledger!Evidence \cup {None}
  <2> HIDE DEF res
  <2> QED
    BY <1>1, <1>2 DEF Ledger!OrElse, Ledger!Row, Ledger!Result
<1>4. s \in Ledger!State \ Undispatched /\ v \in BOOLEAN
  BY DEF Ledger!ResultState, Ledger!State, Ledger!ResultStates, Ledger!Observed, Undispatched
<1>5. m = [row EXCEPT !.order = o, !.invoice = i, !.url = u, !.evidence = e]
  BY DEF Ledger!Merged
<1>6. r = [m EXCEPT !.state = s, !.verified = v]
  BY DEF Ledger!Persisted
<1>7. intent' = [intent EXCEPT ![Item] = r] /\ now' = now
  BY DEF row, Ledger!ReconcileFound
<1> HIDE DEF res, o, i, u, e, m, s, v, r
<1>8. /\ m \in Ledger!Row
      /\ m.nonce = row.nonce /\ m.submit = row.submit /\ m.precheck = row.precheck
      /\ m.notified = row.notified
  BY <1>1, <1>3, <1>5 DEF Ledger!Row
<1>9. /\ r \in Ledger!Row
      /\ r.state \notin Undispatched
      /\ r.nonce = row.nonce /\ r.submit = row.submit /\ r.precheck = row.precheck
      /\ r.notified = row.notified
  BY <1>4, <1>6, <1>8 DEF Ledger!Row
<1>10. Keeps(r)
  BY <1>9 DEF Keeps, Undispatched
<1> QED
  BY <1>7, <1>9, <1>10, Rewritten

-----------------------------------------------------------------------------
(* The queue: a command is rewritten in its place, or put at the end. *)

LEMMA QueueTyped ==
  ASSUME TypeOK
  PROVE  /\ cmds \in Seq(Command) /\ Len(cmds) \in Nat /\ DOMAIN cmds = 1 .. Len(cmds)
         /\ \A i \in DOMAIN cmds : cmds[i] \in Command /\ i \in Cmd
         /\ cli \in Process /\ MaxCmds \in Nat
<1>1. cmds \in Seq(Command) /\ Len(cmds) <= MaxCmds /\ cli \in Process /\ MaxCmds \in Nat
  BY OrderAssumption DEF TypeOK
<1>2. Len(cmds) \in Nat /\ DOMAIN cmds = 1 .. Len(cmds)
  BY <1>1, LenProperties
<1>3. \A i \in DOMAIN cmds : cmds[i] \in Command
  BY <1>1, <1>2, ElementOfSeq
<1> QED
  BY <1>1, <1>2, <1>3 DEF Cmd

(* What no rewriting of a command changes; that it was dispatched stays too. *)
Same(i) ==
  /\ cmds'[i] \in Command
  /\ cmds'[i].type = cmds[i].type /\ cmds'[i].permit = cmds[i].permit
  /\ cmds'[i].nonce = cmds[i].nonce /\ cmds'[i].run = cmds[i].run
  /\ cmds[i].conn # 0 => cmds'[i].conn # 0
QueueKept ==
  /\ cmds' \in Seq(Command) /\ Len(cmds') = Len(cmds) /\ DOMAIN cmds' = DOMAIN cmds
  /\ \A i \in DOMAIN cmds : Same(i)
(* ... and neither is it answered, nor does it become pending again. *)
Unanswered(i) ==
  /\ cmds'[i].outcome = cmds[i].outcome /\ cmds'[i].at = cmds[i].at
  /\ Pending(i)' => Pending(i)
  /\ cmds'[i].status = "DONE" <=> cmds[i].status = "DONE"
NothingAnswered == QueueKept /\ \A i \in DOMAIN cmds : Unanswered(i)
(* ... nor is it dispatched. *)
Rests == \A i \in DOMAIN cmds : cmds'[i].conn = cmds[i].conn

LEMMA InPlace ==
  ASSUME TypeOK, NEW q \in [DOMAIN cmds -> Command], cmds' = q, \A i \in DOMAIN cmds : Same(i)
  PROVE  QueueKept
<1>1. q \in [1 .. Len(cmds) -> Command] /\ Len(cmds) \in Nat
  BY QueueTyped
<1>2. q \in Seq(Command)
  BY <1>1, SeqDef
<1>3. Len(q) = Len(cmds) /\ DOMAIN q = DOMAIN cmds
  BY <1>1, <1>2, LenProperties
<1> QED
  BY <1>2, <1>3 DEF QueueKept

LEMMA QueueSame ==
  ASSUME TypeOK, cmds' = cmds
  PROVE  NothingAnswered /\ Rests
BY QueueTyped DEF NothingAnswered, QueueKept, Same, Unanswered, Pending, Rests

LEMMA QueueHalted ==
  ASSUME TypeOK, cmds' = Halted
  PROVE  NothingAnswered /\ Rests
<1>1. \A i \in DOMAIN cmds : cmds[i] \in Command
  BY QueueTyped
<1>2. Halted \in [DOMAIN cmds -> Command]
  BY <1>1 DEF Halted, Command
<1>3. \A i \in DOMAIN cmds : Same(i) /\ Unanswered(i) /\ cmds'[i].conn = cmds[i].conn
  BY <1>1 DEF Halted, Same, Unanswered, Pending, Command
<1> QED
  BY <1>2, <1>3, InPlace DEF NothingAnswered, Rests

(* GiveUp: the command that was waited for leaves the queue. *)
LEMMA QueueGivenUp ==
  ASSUME TypeOK, cli.cmd # 0,
         cmds' = IF Pending(cli.cmd) THEN [cmds EXCEPT ![cli.cmd].status = "HALTED"] ELSE cmds
  PROVE  NothingAnswered /\ Rests /\ cmds'[cli.cmd].status \notin {"QUEUED", "DISPATCHED"}
<1>1. \A i \in DOMAIN cmds : cmds[i] \in Command
  BY QueueTyped
<1>2. cli.cmd \in DOMAIN cmds
  BY QueueTyped DEF TypeOK, Process
<1>3. CASE ~Pending(cli.cmd)
  <2>1. cmds' = cmds
    BY <1>3
  <2>2. cmds'[cli.cmd].status \notin {"QUEUED", "DISPATCHED"}
    BY <1>3, <2>1 DEF Pending
  <2> QED
    BY <2>1, <2>2, QueueSame
<1>4. CASE Pending(cli.cmd)
  <2> DEFINE i == cli.cmd
             c == [cmds[i] EXCEPT !.status = "HALTED"]
             q == [cmds EXCEPT ![i] = c]
  <2>1. /\ c \in Command /\ c.conn = cmds[i].conn /\ c.status = "HALTED" /\ c.at = cmds[i].at
        /\ c.type = cmds[i].type /\ c.permit = cmds[i].permit /\ c.nonce = cmds[i].nonce
        /\ c.run = cmds[i].run /\ c.outcome = cmds[i].outcome
    BY <1>1, <1>2 DEF Command
  <2>2. cmds' = q
    BY <1>4, QueueTyped
  <2> HIDE DEF c
  <2>3. q \in [DOMAIN cmds -> Command]
    BY <1>1, <2>1, QueueTyped
  <2>4. cmds'[i] = c /\ \A j \in DOMAIN cmds \ {i} : cmds'[j] = cmds[j]
    BY <1>2, <2>2, QueueTyped
  <2>5. \A j \in DOMAIN cmds : Same(j) /\ Unanswered(j) /\ cmds'[j].conn = cmds[j].conn
    BY <1>1, <1>4, <2>1, <2>4 DEF Same, Unanswered, Pending
  <2> QED
    BY <2>1, <2>2, <2>3, <2>4, <2>5, InPlace DEF NothingAnswered, Rests
<1> QED
  BY <1>3, <1>4

LEMMA QueueDispatched ==
  ASSUME TypeOK, NEW i \in DOMAIN cmds, cmds[i].status = "QUEUED",
         cmds' = [cmds EXCEPT ![i].status = "DISPATCHED", ![i].conn = broker.conn]
  PROVE  /\ NothingAnswered /\ cmds'[i].conn # 0
         /\ \A j \in DOMAIN cmds \ {i} : cmds'[j] = cmds[j]
<1>1. \A j \in DOMAIN cmds : cmds[j] \in Command
  BY QueueTyped
<1>2. broker.conn \in Conn \ {0}
  BY DEF TypeOK
<1> DEFINE c == [cmds[i] EXCEPT !.status = "DISPATCHED", !.conn = broker.conn]
           q == [cmds EXCEPT ![i] = c]
<1>3. /\ c \in Command /\ c.conn # 0 /\ c.status = "DISPATCHED"
      /\ c.type = cmds[i].type /\ c.permit = cmds[i].permit /\ c.nonce = cmds[i].nonce
      /\ c.run = cmds[i].run /\ c.outcome = cmds[i].outcome /\ c.at = cmds[i].at
  BY <1>1, <1>2 DEF Command
<1>4. cmds' = q
  BY QueueTyped
<1> HIDE DEF c
<1>5. q \in [DOMAIN cmds -> Command]
  BY <1>1, <1>3, QueueTyped
<1>6. cmds'[i] = c /\ \A j \in DOMAIN cmds \ {i} : cmds'[j] = cmds[j]
  BY <1>4, QueueTyped
<1>7. \A j \in DOMAIN cmds : Same(j) /\ Unanswered(j)
  BY <1>1, <1>3, <1>6 DEF Same, Unanswered, Pending
<1> QED
  BY <1>3, <1>4, <1>5, <1>6, <1>7, InPlace DEF NothingAnswered

LEMMA QueueAnswered ==
  ASSUME TypeOK, NEW i \in DOMAIN cmds, NEW at \in Ledger!Time \cup {None}, NEW outcome \in Outcome,
         cmds' = [cmds EXCEPT ![i].status = "DONE", ![i].at = at, ![i].outcome = outcome]
  PROVE  /\ QueueKept
         /\ cmds'[i].status = "DONE" /\ cmds'[i].at = at /\ cmds'[i].outcome = outcome
         /\ Rests
         /\ \A j \in DOMAIN cmds \ {i} : cmds'[j] = cmds[j]
<1>1. \A j \in DOMAIN cmds : cmds[j] \in Command
  BY QueueTyped
<1> DEFINE c == [cmds[i] EXCEPT !.status = "DONE", !.at = at, !.outcome = outcome]
           q == [cmds EXCEPT ![i] = c]
<1>3. /\ c \in Command /\ c.conn = cmds[i].conn /\ c.status = "DONE" /\ c.at = at /\ c.outcome = outcome
      /\ c.type = cmds[i].type /\ c.permit = cmds[i].permit /\ c.nonce = cmds[i].nonce
      /\ c.run = cmds[i].run
  BY <1>1 DEF Command
<1>4. cmds' = q
  BY QueueTyped
<1> HIDE DEF c
<1>5. q \in [DOMAIN cmds -> Command]
  BY <1>1, <1>3, QueueTyped
<1>6. cmds'[i] = c /\ \A j \in DOMAIN cmds \ {i} : cmds'[j] = cmds[j]
  BY <1>4, QueueTyped
<1>7. \A j \in DOMAIN cmds : Same(j) /\ cmds'[j].conn = cmds[j].conn
  BY <1>1, <1>3, <1>6 DEF Same
<1> QED
  BY <1>3, <1>4, <1>5, <1>6, <1>7, InPlace DEF Rests

(* EnqueueOrder: the command at the end is new, all others stay. *)
LEMMA QueueExtended ==
  ASSUME TypeOK, Len(cmds) < MaxCmds, NEW c \in Command, cmds' = Append(cmds, c)
  PROVE  /\ cmds' \in Seq(Command) /\ Len(cmds') = Len(cmds) + 1 /\ Len(cmds') <= MaxCmds
         /\ DOMAIN cmds' = DOMAIN cmds \cup {Len(cmds) + 1} /\ Len(cmds) + 1 \notin DOMAIN cmds
         /\ \A i \in DOMAIN cmds : cmds'[i] = cmds[i]
         /\ cmds'[Len(cmds) + 1] = c
<1>1. cmds \in Seq(Command) /\ Len(cmds) \in Nat /\ DOMAIN cmds = 1 .. Len(cmds) /\ MaxCmds \in Nat
  BY QueueTyped
<1>2. /\ Append(cmds, c) \in Seq(Command)
      /\ Len(Append(cmds, c)) = Len(cmds) + 1
      /\ \A i \in 1 .. Len(cmds) : Append(cmds, c)[i] = cmds[i]
      /\ Append(cmds, c)[Len(cmds) + 1] = c
  BY <1>1, AppendProperties
<1>3. DOMAIN Append(cmds, c) = 1 .. Len(cmds) + 1
  BY <1>2, LenProperties
<1> QED
  BY <1>1, <1>2, <1>3

-----------------------------------------------------------------------------
(* The steps.  The browser and the host leave the cli alone, the cli leaves *)
(* them alone.                                                             *)

LEMMA EdgeFrame ==
  ASSUME Edge
  PROVE  UNCHANGED <<cli, signal, mails>>
<1> USE DEF edge, world, HostLeaves
<1>1. CASE NextCommand
  BY <1>1 DEF NextCommand
<1>2. CASE ReceiveObservation \/ HostStops \/ HostKilled \/ HeartbeatLapses
  BY <1>2 DEF ReceiveObservation, HostStops, HostKilled, HeartbeatLapses
<1>3. CASE Receive \/ ExtPrecheck \/ ExtUnverified \/ ExtJournal
  BY <1>3 DEF Receive, ExtPrecheck, ExtUnverified, ExtJournal
<1>4. CASE ExtSend \/ ExtNotSent \/ ExtReply \/ ExtReconcile \/ ExtDrops
  BY <1>4 DEF ExtSend, ExtNotSent, ExtReply, ExtReconcile, ExtDrops
<1>5. CASE ExtDisconnected \/ ExtRestarts \/ Connect
  BY <1>5 DEF ExtDisconnected, ExtRestarts, Connect
<1>6. CASE TabClick \/ TabRefuses \/ Navigate \/ MerchantAccepts
  BY <1>6 DEF TabClick, TabRefuses, Navigate, MerchantAccepts
<1> QED
  BY <1>1, <1>2, <1>3, <1>4, <1>5, <1>6 DEF Edge

CliStep == Cli \/ Dies \/ \E goal \in Goals : Start(goal)

LEMMA CliFrame ==
  ASSUME CliStep
  PROVE  UNCHANGED <<broker, host, wire, ext, tab, clicks, placed, signal>>
<1> USE DEF edge, world
<1>1. CASE EnqueueOrder \/ Refused \/ GiveUp \/ TakePrecheck
  BY <1>1 DEF EnqueueOrder, Refused, GiveUp, TakePrecheck
<1>2. CASE ArmSmoke \/ Authorize \/ NotAuthorized \/ AssertPermit \/ TakeSubmission
  BY <1>2 DEF ArmSmoke, Authorize, NotAuthorized, AssertPermit, TakeSubmission
<1>3. CASE Unresolved \/ Unsure \/ Search \/ TakeOrder \/ TakeNoOrder
  BY <1>3 DEF Unresolved, Unsure, Search, TakeOrder, TakeNoOrder
<1>4. CASE FinishReceipt \/ ClaimNotice \/ SendNotice \/ NoticeSent
  BY <1>4 DEF FinishReceipt, ClaimNotice, SendNotice, NoticeSent
<1>5. CASE Dies \/ \E goal \in Goals : Start(goal)
  BY <1>5 DEF Dies, Start
<1> QED
  BY <1>1, <1>2, <1>3, <1>4, <1>5 DEF CliStep, Cli

LEMMA ByWhom ==
  ASSUME Next
  PROVE  CliStep \/ Edge \/ SignalDisarm \/ ClearSignal \/ EnqueueDisarm \/ Passes
BY DEF Next, CliStep

(* The command a process waits for, and the one an answer is about.        *)
LEMMA Awaited ==
  ASSUME TypeOK, cli.cmd # 0
  PROVE  cli.cmd \in DOMAIN cmds /\ cli.cmd \in Cmd /\ cmds[cli.cmd] \in Command
<1>1. cli.cmd \in DOMAIN cmds
  BY QueueTyped DEF TypeOK, Process
<1> QED
  BY <1>1, QueueTyped

LEMMA Arrived ==
  ASSUME TypeOK, wire.toHost # <<>>
  PROVE  /\ Head(wire.toHost) = wire.toHost[1] /\ 1 \in DOMAIN wire.toHost
         /\ Head(wire.toHost).cmd \in DOMAIN cmds
         /\ Head(wire.toHost).outcome \in Outcome
         /\ Head(wire.toHost).at \in Ledger!Time \cup {None}
<1> DEFINE M == [cmd : Cmd, outcome : Outcome, at : Ledger!Time \cup {None}]
<1>1. wire.toHost \in Seq(M)
  BY DEF TypeOK
<1>2. Head(wire.toHost) = wire.toHost[1] /\ 1 \in DOMAIN wire.toHost /\ wire.toHost[1] \in M
  <2> HIDE DEF M
  <2>1. Len(wire.toHost) \in Nat \ {0} /\ DOMAIN wire.toHost = 1 .. Len(wire.toHost)
    BY <1>1, EmptySeq, LenProperties
  <2>2. Head(wire.toHost) = wire.toHost[1] /\ 1 \in DOMAIN wire.toHost
    BY <1>1, <2>1
  <2> QED
    BY <1>1, <2>1, <2>2, ElementOfSeq
<1>3. wire.toHost[1].cmd <= Len(cmds)
  BY <1>2 DEF TypeOK
<1> QED
  BY <1>2, <1>3, QueueTyped DEF Cmd

(* The ledger moves on with every step but the one that commits the permit. *)
LEMMA LedgerMoves ==
  ASSUME TypeOK, RowOK, ExchangeOK, Next
  PROVE  Moves \/ Authorize
<1>1. CASE Cli
  <2>1. CASE EnqueueOrder \/ Refused \/ GiveUp \/ ArmSmoke \/ NotAuthorized \/ AssertPermit
             \/ TakeSubmission \/ SendNotice
    BY <2>1, Unmoved DEF EnqueueOrder, Refused, GiveUp, ArmSmoke, NotAuthorized, AssertPermit,
                         TakeSubmission, SendNotice
  <2>2. CASE TakePrecheck
    <3>1. CASE UNCHANGED <<intent, now>>
      BY <3>1, Unmoved
    <3>2. CASE ~UNCHANGED <<intent, now>>
      <4>1. /\ Ledger!SetOrderPrecheck(Item, cli.cmd, cmds[cli.cmd].at, TheQuote)
            /\ cli.cmd # 0 /\ cmds[cli.cmd].outcome # None /\ cmds[cli.cmd].outcome = "PRECHECK_READY"
        BY <2>2, <3>2 DEF TakePrecheck, Answered, Answer
      <4>2. cmds[cli.cmd].at \in Ledger!Time
        BY <4>1, Awaited DEF ExchangeOK, Command
      <4> QED
        BY <4>1, <4>2, Awaited, PrecheckMoves
    <3> QED
      BY <3>1, <3>2
  <2>3. CASE Unresolved \/ Unsure
    BY <2>3, UncertainMoves, Unmoved DEF Unresolved, Unsure
  <2>4. CASE Search \/ FinishReceipt
    BY <2>4, SearchedMoves, Unmoved DEF Search, FinishReceipt
  <2>5. CASE TakeOrder
    BY <2>5, FoundMoves DEF TakeOrder, Outcome
  <2>6. CASE TakeNoOrder
    BY <2>6, UnknownMoves, Unmoved DEF TakeNoOrder
  <2>7. CASE ClaimNotice \/ NoticeSent
    BY <2>7, ClaimMoves, WaitingMoves DEF ClaimNotice, NoticeSent
  <2> QED
    BY <1>1, <2>1, <2>2, <2>3, <2>4, <2>5, <2>6, <2>7 DEF Cli
<1>2. CASE Dies \/ \E goal \in Goals : Start(goal)
  BY <1>2, Unmoved, RecoveryMoves DEF Dies, Start
<1>3. CASE Edge
  <2>1. CASE NextCommand \/ ReceiveObservation \/ HostStops \/ Connect
    BY <2>1, Unmoved, HaltMoves DEF NextCommand, ReceiveObservation, HostStops, HostLeaves, Halt, Connect
  <2>2. CASE HostKilled \/ HeartbeatLapses \/ Receive \/ ExtPrecheck \/ ExtUnverified \/ ExtJournal
             \/ ExtSend \/ ExtNotSent \/ ExtReply
    BY <2>2, Unmoved DEF HostKilled, HeartbeatLapses, Receive, ExtPrecheck, ExtUnverified, ExtJournal,
                         ExtSend, ExtNotSent, ExtReply
  <2>3. CASE ExtReconcile \/ ExtDrops \/ ExtDisconnected \/ ExtRestarts \/ TabClick \/ TabRefuses
             \/ Navigate \/ MerchantAccepts
    BY <2>3, Unmoved DEF ExtReconcile, ExtDrops, ExtDisconnected, ExtRestarts, TabClick, TabRefuses,
                         Navigate, MerchantAccepts
  <2> QED
    BY <1>3, <2>1, <2>2, <2>3 DEF Edge
<1>4. CASE SignalDisarm \/ ClearSignal \/ EnqueueDisarm \/ Passes
  BY <1>4, Unmoved, HaltMoves, TickMoves DEF SignalDisarm, ClearSignal, EnqueueDisarm, Halt, Passes
<1> QED
  BY <1>1, <1>2, <1>3, <1>4 DEF Next

(* Only the host's report of an answer ends an exchange, only the cli opens *)
(* one.                                                                    *)
LEMMA QueueMoves ==
  ASSUME TypeOK, Next
  PROVE  \/ NothingAnswered /\ (Rests \/ NextCommand)
         \/ ReceiveObservation /\ QueueKept /\ Rests
         \/ EnqueueOrder
<1>1. CASE Cli
  <2>1. CASE GiveUp
    BY <2>1, QueueGivenUp DEF GiveUp
  <2>2. CASE ~EnqueueOrder /\ ~GiveUp
    BY <1>1, <2>2, QueueSame DEF Cli, Refused, TakePrecheck, ArmSmoke, Authorize, NotAuthorized,
      AssertPermit, TakeSubmission, Unresolved, Unsure, Search, TakeOrder, TakeNoOrder, FinishReceipt,
      ClaimNotice, SendNotice, NoticeSent
  <2> QED
    BY <2>1, <2>2
<1>2. CASE Dies \/ \E goal \in Goals : Start(goal)
  BY <1>2, QueueSame DEF Dies, Start
<1>3. CASE Edge
  <2>1. CASE NextCommand
    BY <2>1, QueueSame, QueueHalted, QueueDispatched DEF NextCommand, Halt
  <2>2. CASE ReceiveObservation
    <3> DEFINE m == Head(wire.toHost)
    <3>1. \/ cmds' = Halted
          \/ cmds' = [cmds EXCEPT ![m.cmd].status = "DONE", ![m.cmd].at = m.at, ![m.cmd].outcome = m.outcome]
      BY <2>2 DEF ReceiveObservation, HostLeaves, Halt
    <3>2. m.cmd \in DOMAIN cmds /\ m.outcome \in Outcome /\ m.at \in Ledger!Time \cup {None}
      BY <2>2, Arrived DEF ReceiveObservation
    <3> HIDE DEF m
    <3>3. CASE cmds' = Halted
      BY <3>3, QueueHalted
    <3>4. CASE cmds' = [cmds EXCEPT ![m.cmd].status = "DONE", ![m.cmd].at = m.at,
                                    ![m.cmd].outcome = m.outcome]
      <4> DEFINE i == m.cmd
                 at == m.at
                 outcome == m.outcome
      <4>1. cmds' = [cmds EXCEPT ![i].status = "DONE", ![i].at = at, ![i].outcome = outcome]
        BY <3>4
      <4> HIDE DEF i, at, outcome
      <4> QED
        BY <2>2, <3>2, <4>1, QueueAnswered DEF i, at, outcome
    <3> QED
      BY <2>2, <3>1, <3>3, <3>4
  <2>3. CASE HostStops \/ Connect
    BY <2>3, QueueHalted DEF HostStops, HostLeaves, Halt, Connect
  <2>4. CASE HostKilled \/ HeartbeatLapses \/ Receive \/ ExtPrecheck \/ ExtUnverified \/ ExtJournal
             \/ ExtSend \/ ExtNotSent \/ ExtReply
    BY <2>4, QueueSame DEF HostKilled, HeartbeatLapses, Receive, ExtPrecheck, ExtUnverified, ExtJournal,
                           ExtSend, ExtNotSent, ExtReply
  <2>5. CASE ExtReconcile \/ ExtDrops \/ ExtDisconnected \/ ExtRestarts \/ TabClick \/ TabRefuses
             \/ Navigate \/ MerchantAccepts
    BY <2>5, QueueSame DEF ExtReconcile, ExtDrops, ExtDisconnected, ExtRestarts, TabClick, TabRefuses,
                           Navigate, MerchantAccepts
  <2> QED
    BY <1>3, <2>1, <2>2, <2>3, <2>4, <2>5 DEF Edge
<1>4. CASE SignalDisarm \/ ClearSignal \/ EnqueueDisarm \/ Passes
  BY <1>4, QueueSame, QueueHalted DEF SignalDisarm, ClearSignal, EnqueueDisarm, Halt, Passes
<1> QED
  BY <1>1, <1>2, <1>3, <1>4 DEF Next

-----------------------------------------------------------------------------
(* The process of the cli. *)

CliTyped ==
  /\ cli \in Process /\ cli.cmd <= Len(cmds)
  /\ cli.pc \notin {"idle", "dead"} => cli.run # 0

LEMMA CliFields ==
  ASSUME TypeOK
  PROVE  /\ cli \in Process /\ cli.cmd \in Nat /\ cli.cmd <= Len(cmds) /\ Len(cmds) \in Nat
         /\ cli.run \in Nat /\ 0 \in Nat /\ MaxRuns \in Nat /\ 0 \in 0 .. MaxCmds
         /\ cli.pc \notin {"idle", "dead"} => cli.run \in 1 .. MaxRuns
BY QueueTyped, OrderAssumption DEF TypeOK, Process

(* Leaving the run, and going on with it. *)
LEMMA Exits ==
  ASSUME TypeOK, NEW pc \in {"idle", "dead", "unsure"}, cli.pc \notin {"idle", "dead"},
         Len(cmds) <= Len(cmds'), Len(cmds') \in Nat, Exit(pc)
  PROVE  /\ CliTyped' /\ cli'.pc = pc /\ cli'.run = cli.run /\ cli'.cmd = 0
         /\ cli'.armed = None /\ cli'.goal = cli.goal
<1>1. /\ cli'.pc = pc /\ cli'.run = cli.run /\ cli'.cmd = 0
      /\ cli'.armed = None /\ cli'.goal = cli.goal
  BY CliFields DEF Exit, Process
<1>2. cli' \in Process
  BY CliFields DEF Exit, Process, CliState
<1> QED
  BY <1>1, <1>2, CliFields DEF CliTyped

LEMMA Goes ==
  ASSUME TypeOK, NEW pc \in CliState, cli.pc \notin {"idle", "dead"},
         Len(cmds) <= Len(cmds'), Len(cmds') \in Nat, Goto(pc)
  PROVE  /\ CliTyped' /\ cli'.pc = pc /\ cli'.run = cli.run /\ cli'.cmd = cli.cmd
         /\ cli'.armed = cli.armed /\ cli'.permit = cli.permit
BY CliFields DEF Goto, CliTyped, Process, CliState

(* What a step makes of the run: it ends; or it goes on, in the same run,   *)
(* with the permit and the arming it has, and waits for no other command;   *)
(* or it is one of the steps that give it something new.                    *)
Ends == cli'.pc \in {"idle", "dead", "unsure"} /\ cli'.cmd = 0 /\ cli'.armed = None
GoesOn ==
  /\ cli.pc \notin {"idle", "dead"}
  /\ cli'.armed = cli.armed
  /\ cli'.pc \in {"assert", "submit"} => cli.pc \in {"assert", "submit"} /\ cli'.permit = cli.permit
  /\ cli'.pc \in Noticing => cli'.cmd = cli.cmd /\ (cli.pc \in Noticing \/ TakeOrder)
  /\ cli'.cmd \in {cli.cmd, 0}
  /\ cli'.cmd # cli.cmd => cmds[cli.cmd].outcome # None
  /\ cli'.cmd # 0 => cli'.pc \in Noticing \/ cli.pc \notin Waiting \cup Noticing

LEMMA CliMoves ==
  ASSUME TypeOK, CliStep, Len(cmds) <= Len(cmds'), Len(cmds') \in Nat
  PROVE  \/ EnqueueOrder \/ Authorize \/ ArmSmoke \/ \E goal \in Goals : Start(goal)
         \/ CliTyped' /\ cli'.run = cli.run /\ (Ends \/ GoesOn)
<1> USE DEF AfterFailure, Waiting, Ends, Noticing
<1>1. CASE Refused \/ GiveUp \/ NotAuthorized \/ Unsure
  <2>1. /\ \E pc \in {"idle", "unsure"} : Exit(pc)
        /\ cli.pc \notin {"idle", "dead"}
    BY <1>1 DEF Refused, GiveUp, NotAuthorized, Unsure
  <2> QED
    BY <2>1, Exits
<1>2. CASE TakePrecheck
  <2>1. CASE Exit("idle")
    BY <1>2, <2>1, Exits DEF TakePrecheck
  <2>2. CASE ~Exit("idle")
    <3> DEFINE pc == CASE cli.goal = "precheck" -> "idle"
                       [] cli.goal # "precheck" /\ cli.pc = "first" -> "arm"
                       [] OTHER -> "issue"
    <3>1. cli' = [cli EXCEPT !.cmd = 0, !.pc = pc] /\ cli.pc \in {"first", "final"} /\ Answered
      BY <1>2, <2>2 DEF TakePrecheck
    <3>2. pc \in {"idle", "arm", "issue"}
      OBVIOUS
    <3> HIDE DEF pc
    <3>3. /\ cli'.pc = pc /\ cli'.run = cli.run /\ cli'.cmd = 0 /\ cli'.armed = cli.armed
      BY <3>1, CliFields DEF Process
    <3>4. cli' \in Process
      BY <3>1, <3>2, CliFields DEF Process, CliState
    <3>5. CliTyped'
      BY <3>1, <3>3, <3>4, CliFields DEF CliTyped
    <3>6. GoesOn
      BY <3>1, <3>2, <3>3 DEF GoesOn, Answered
    <3> QED
      BY <3>3, <3>5, <3>6
  <2> QED
    BY <2>1, <2>2
<1>3. CASE AssertPermit
  BY <1>3, Exits, Goes DEF AssertPermit, GoesOn, CliState
<1>4. CASE TakeSubmission
  <2>1. cli' = [cli EXCEPT !.pc = "unresolved", !.cmd = 0] /\ cli.pc = "submit" /\ Answered
    BY <1>4 DEF TakeSubmission
  <2>2. cli'.pc = "unresolved" /\ cli'.run = cli.run /\ cli'.cmd = 0 /\ cli'.armed = cli.armed
    BY <2>1, CliFields DEF Process
  <2>3. cli' \in Process
    BY <2>1, CliFields DEF Process, CliState
  <2>4. CliTyped'
    BY <2>1, <2>2, <2>3, CliFields DEF CliTyped
  <2>5. GoesOn
    BY <2>1, <2>2 DEF GoesOn, Answered
  <2> QED
    BY <2>2, <2>4, <2>5
<1>5. CASE Unresolved \/ Search
  BY <1>5, Goes DEF Unresolved, Search, GoesOn, CliState
<1>6. CASE TakeOrder
  BY <1>6, Goes DEF TakeOrder, GoesOn, CliState
<1>7. CASE TakeNoOrder
  BY <1>7, Exits DEF TakeNoOrder
<1>8. CASE FinishReceipt
  BY <1>8, Exits, Goes DEF FinishReceipt, GoesOn, CliState
<1>9. CASE ClaimNotice
  BY <1>9, Exits, Goes DEF ClaimNotice, GoesOn, CliState
<1>10. CASE SendNotice
  BY <1>10, Goes DEF SendNotice, GoesOn, CliState
<1>11. CASE NoticeSent
  BY <1>11, Exits DEF NoticeSent
<1>12. CASE Dies
  BY <1>12, Exits DEF Dies, Live
<1> QED
  BY <1>1, <1>2, <1>3, <1>4, <1>5, <1>6, <1>7, <1>8, <1>9, <1>10, <1>11, <1>12 DEF CliStep, Cli

(* The steps that give the run something new. *)
LEMMA Starts ==
  ASSUME TypeOK, NEW goal \in Goals, Start(goal)
  PROVE  /\ CliTyped' /\ cli'.run = cli.run + 1 /\ cli'.pc \in {"search", "first", "idle"}
         /\ cli'.cmd = cli.cmd /\ cli'.armed = cli.armed
<1> DEFINE pc == CASE goal = "reconcile" /\ row.submit # None -> "search"
                   [] goal # "reconcile" /\ row.submit = None /\ (goal = "smoke" => ~signal) -> "first"
                   [] OTHER -> "idle"
<1>1. cli' = [cli EXCEPT !.run = @ + 1, !.goal = goal, !.pc = pc] /\ cli.run < MaxRuns /\ cmds' = cmds
  BY DEF Start
<1>2. pc \in {"search", "first", "idle"}
  OBVIOUS
<1> HIDE DEF pc
<1>3. /\ cli'.pc = pc /\ cli'.run = cli.run + 1 /\ cli'.cmd = cli.cmd /\ cli'.armed = cli.armed
  BY <1>1, CliFields DEF Process
<1>4. cli' \in Process
  <2> DEFINE n == cli.run + 1
  <2>1. n \in 0 .. MaxRuns /\ goal \in Goals \cup {None} /\ pc \in CliState
    BY <1>1, <1>2, CliFields DEF CliState, Waiting
  <2>2. cli' = [cli EXCEPT !.run = n, !.goal = goal, !.pc = pc]
    BY <1>1
  <2> HIDE DEF n
  <2> QED
    BY <2>1, <2>2, CliFields DEF Process
<1> QED
  BY <1>1, <1>2, <1>3, <1>4, CliFields DEF CliTyped

LEMMA Arms ==
  ASSUME TypeOK, ArmSmoke
  PROVE  /\ CliTyped' /\ cli'.run = cli.run /\ cli'.pc \in {"final", "idle"} /\ cli'.cmd \in {0, cli.cmd}
         /\ cli'.armed # None => cli'.armed = now
<1>1. cmds' = cmds /\ cli.pc = "arm"
  BY DEF ArmSmoke
<1>2. CASE Exit("idle")
  BY <1>1, <1>2, CliFields, Exits
<1>3. CASE ~Exit("idle")
  <2>1. cli' = [cli EXCEPT !.armed = now, !.pc = "final"]
    BY <1>3 DEF ArmSmoke
  <2>2. /\ cli'.pc = "final" /\ cli'.run = cli.run /\ cli'.cmd = cli.cmd /\ cli'.armed = now
    BY <2>1, CliFields DEF Process
  <2>3. cli' \in Process
    BY <2>1, CliFields, RowTyped DEF Process, CliState, Waiting, Ledger!Time
  <2> QED
    BY <1>1, <2>2, <2>3, CliFields DEF CliTyped
<1> QED
  BY <1>2, <1>3

(* The permit that is committed is the one the run holds. *)
LEMMA Authorizes ==
  ASSUME TypeOK, RowOK, CliOK, Authorize
  PROVE  /\ Ledger!TypeOK' /\ now' = now /\ row.submit = None
         /\ row'.nonce # None /\ row'.submit = now
         /\ row'.precheck = row.precheck /\ row.precheck # None
         /\ row.precheck.at <= now /\ now - row.precheck.at <= Fresh
         /\ row'.order = None /\ row'.notified = row.notified
         /\ CliTyped' /\ cli'.run = cli.run /\ cli'.pc = "assert" /\ cli'.cmd = cli.cmd
         /\ cli'.armed = cli.armed /\ cmds' = cmds
         /\ Committed(cli.permit)'
<1> DEFINE id == row.precheck.id
           p == [nonce |-> cli.run, precheck |-> id, issued |-> now, expires |-> cli.armed + Fresh]
<1>1. /\ cli.pc = "issue" /\ cmds' = cmds /\ cli' = [cli EXCEPT !.pc = "assert", !.permit = p]
      /\ cli.armed # None
      /\ Ledger!BeginOrderSubmission(Item, cli.run, id, now)
  BY DEF Authorize, GuardOpen
<1>2. cli.run \in 1 .. MaxRuns /\ cli.run # None
  BY <1>1, CliFields, OrderAssumption
<1>3. cli.armed \in Nat /\ cli.armed <= now /\ Fresh \in Nat /\ now \in Nat /\ now \in Ledger!Time
  BY <1>1, CliFields, RowTyped, OrderAssumption DEF CliOK, Process, Ledger!Time
<1>4. row \in Ledger!Row /\ row.precheck # None
  BY <1>1, <1>2, RowTyped, BeginsSubmission
<1>5. id \in Cmd
  BY <1>4 DEF Ledger!Row, Ledger!Precheck, Cmd
<1>6. p \in Permit
  BY <1>2, <1>3, <1>5 DEF Permit
<1>7. p.nonce = cli.run /\ p.issued = now /\ p.expires = cli.armed + Fresh
  OBVIOUS
<1>8. /\ CliTyped' /\ cli'.run = cli.run /\ cli'.pc = "assert" /\ cli'.cmd = cli.cmd
      /\ cli'.armed = cli.armed /\ cli'.permit = p
  <2> HIDE DEF p
  <2>1. /\ cli'.run = cli.run /\ cli'.pc = "assert" /\ cli'.cmd = cli.cmd
        /\ cli'.armed = cli.armed /\ cli'.permit = p
    BY <1>1, CliFields DEF Process
  <2>2. cli' \in Process
    BY <1>1, <1>6, CliFields DEF Process, CliState
  <2> QED
    BY <1>1, <2>1, <2>2, CliFields DEF CliTyped
<1> HIDE DEF p
<1>9. /\ Ledger!TypeOK' /\ now' = now /\ row.submit = None
      /\ row'.nonce = cli.run /\ row'.submit = now
      /\ row'.precheck = row.precheck
      /\ row.precheck.at <= now /\ now - row.precheck.at <= Fresh
      /\ row'.order = None /\ row'.notified = row.notified
  BY <1>1, <1>2, BeginsSubmission
<1>10. Committed(cli.permit)'
  <2>1. now # None
    BY <1>3, RowTyped
  <2>2. p.expires <= now + Fresh
    BY <1>3, <1>7
  <2>3. cli'.permit \in Permit' /\ row'.submit # None
    BY <1>6, <1>8, <1>9, <2>1 DEF Permit, Cmd
  <2>4. /\ cli'.permit.nonce = row'.nonce /\ cli'.permit.issued = row'.submit
        /\ cli'.permit.expires <= row'.submit + Fresh
    BY <1>7, <1>8, <1>9, <2>2
  <2> QED
    BY <2>3, <2>4 DEF Committed
<1> QED
  BY <1>1, <1>2, <1>4, <1>8, <1>9, <1>10

-----------------------------------------------------------------------------
(* The queue only grows; what it holds keeps its meaning. *)

Grows ==
  /\ cmds' \in Seq(Command) /\ Len(cmds') \in Nat /\ Len(cmds') <= MaxCmds /\ Len(cmds) <= Len(cmds')
  /\ DOMAIN cmds' = 1 .. Len(cmds')
  /\ \A i \in DOMAIN cmds : i \in DOMAIN cmds' /\ Same(i)

LEMMA Kinds ==
  ASSUME cli.pc \in Waiting
  PROVE  Kind = "SUBMIT_ORDER" <=> cli.pc = "submit"
BY DEF Kind, Waiting

(* The command of a submission carries the permit the run holds.           *)
LEMMA Enqueues ==
  ASSUME TypeOK, CliOK, EnqueueOrder
  PROVE  LET n == Len(cmds) + 1 IN
         /\ Grows /\ DOMAIN cmds' = DOMAIN cmds \cup {n} /\ n \notin DOMAIN cmds
         /\ \A i \in DOMAIN cmds : cmds'[i] = cmds[i]
         /\ cmds'[n].type = Kind /\ cmds'[n].run = cli.run /\ cmds'[n].conn = 0
         /\ cmds'[n].nonce = row.nonce /\ cmds'[n].outcome = None
         /\ cli.pc = "submit" => cmds'[n].permit = cli.permit
         /\ CliTyped' /\ cli'.cmd = n /\ cli'.pc = cli.pc /\ cli'.run = cli.run
         /\ cli'.armed = cli.armed /\ cli'.permit = cli.permit
<1> DEFINE n == Len(cmds) + 1
           p == IF cli.pc = "submit" THEN cli.permit ELSE None
           c == [type |-> Kind, status |-> "QUEUED", conn |-> 0, run |-> cli.run, permit |-> p,
                 nonce |-> row.nonce, outcome |-> None, at |-> None]
<1>1. /\ cli.pc \in Waiting /\ Len(cmds) < MaxCmds
      /\ cmds' = Append(cmds, c) /\ cli' = [cli EXCEPT !.cmd = n]
  BY DEF EnqueueOrder
<1>2. cli.run \in 1 .. MaxRuns
  BY <1>1, CliFields DEF Waiting
<1>3. p \in Permit \cup {None}
  BY DEF CliOK, Committed
<1>4. row.nonce \in 1 .. MaxRuns \cup {None}
  BY RowTyped DEF Ledger!Row
<1>5. Kind \in {"ORDER_PRECHECK", "SUBMIT_ORDER", "RECONCILE_ORDER"} /\ 0 \in Conn
  BY OrderAssumption DEF Kind, Conn
<1>6. /\ c.type = Kind /\ c.run = cli.run /\ c.conn = 0 /\ c.nonce = row.nonce /\ c.outcome = None
      /\ c.permit = p
  OBVIOUS
<1>7. c \in Command
  <2> DEFINE k == Kind
             m == row.nonce
             r == cli.run
  <2>1. /\ k \in {"ORDER_PRECHECK", "SUBMIT_ORDER", "RECONCILE_ORDER"} /\ m \in 1 .. MaxRuns \cup {None}
        /\ r \in 1 .. MaxRuns /\ p \in Permit \cup {None} /\ 0 \in Conn
    BY <1>2, <1>3, <1>4, <1>5
  <2>2. c = [type |-> k, status |-> "QUEUED", conn |-> 0, run |-> r, permit |-> p,
             nonce |-> m, outcome |-> None, at |-> None]
    OBVIOUS
  <2> HIDE DEF k, m, r, p, c
  <2> QED
    BY <2>1, <2>2 DEF Command
<1> HIDE DEF c
<1>8. /\ cmds' \in Seq(Command) /\ Len(cmds') = n /\ n <= MaxCmds
      /\ DOMAIN cmds' = DOMAIN cmds \cup {n} /\ n \notin DOMAIN cmds
      /\ \A i \in DOMAIN cmds : cmds'[i] = cmds[i]
      /\ cmds'[n] = c
  BY <1>1, <1>7, QueueExtended
<1>9. Grows
  BY <1>8, QueueTyped DEF Grows, Same
<1>10. /\ cli'.cmd = n /\ cli'.pc = cli.pc /\ cli'.run = cli.run
       /\ cli'.armed = cli.armed /\ cli'.permit = cli.permit
  BY <1>1, CliFields DEF Process
<1>11. cli' \in Process
  <2>1. n \in 0 .. MaxCmds
    BY <1>1, QueueTyped
  <2> HIDE DEF n
  <2> QED
    BY <1>1, <2>1, CliFields DEF Process
<1>12. CliTyped'
  BY <1>1, <1>2, <1>8, <1>10, <1>11, CliFields DEF CliTyped
<1> QED
  BY <1>6, <1>8, <1>9, <1>10, <1>12

LEMMA Growth ==
  ASSUME TypeOK, CliOK, Next
  PROVE  Grows
<1>1. CASE QueueKept
  BY <1>1, QueueTyped DEF QueueKept, Grows, TypeOK
<1>2. CASE EnqueueOrder
  BY <1>2, Enqueues
<1> QED
  BY <1>1, <1>2, QueueMoves DEF NothingAnswered

-----------------------------------------------------------------------------
(* The pipe between the host and the extension. *)

Message == [cmd : Cmd, outcome : Outcome, at : Ledger!Time \cup {None}]
Sendable(q, x) == x <= Len(q) /\ (x # 0 => q[x].conn # 0)
Readable(q, m) == m.cmd <= Len(q) /\ (m.outcome = "PRECHECK_READY" => m.at # None)
WireOK ==
  /\ wire \in [toExt : Seq(0 .. MaxCmds), toHost : Seq(Message)]
  /\ \A k \in DOMAIN wire.toExt : Sendable(cmds, wire.toExt[k])
  /\ \A k \in DOMAIN wire.toHost : Readable(cmds, wire.toHost[k])

LEMMA WireFacts ==
  ASSUME TypeOK, ExchangeOK, DeliveredOK
  PROVE  WireOK
BY DEF TypeOK, ExchangeOK, DeliveredOK, WireOK, Message, Sendable, Readable

LEMMA Appended ==
  ASSUME NEW S, NEW s \in Seq(S), NEW x \in S
  PROVE  /\ Append(s, x) \in Seq(S)
         /\ \A k \in DOMAIN Append(s, x) : Append(s, x)[k] = x \/ (k \in DOMAIN s /\ Append(s, x)[k] = s[k])
<1>1. Len(s) \in Nat /\ DOMAIN s = 1 .. Len(s)
  BY LenProperties
<1>2. /\ Append(s, x) \in Seq(S) /\ Len(Append(s, x)) = Len(s) + 1
      /\ \A i \in 1 .. Len(s) : Append(s, x)[i] = s[i]
      /\ Append(s, x)[Len(s) + 1] = x
  BY AppendProperties
<1>3. DOMAIN Append(s, x) = 1 .. Len(s) + 1
  BY <1>2, LenProperties
<1> QED
  BY <1>1, <1>2, <1>3

LEMMA Tailed ==
  ASSUME NEW S, NEW s \in Seq(S), s # <<>>
  PROVE  /\ Tail(s) \in Seq(S)
         /\ \A k \in DOMAIN Tail(s) : k + 1 \in DOMAIN s /\ Tail(s)[k] = s[k + 1]
<1>1. /\ Tail(s) \in Seq(S) /\ Len(Tail(s)) = Len(s) - 1
      /\ \A i \in 1 .. Len(Tail(s)) : Tail(s)[i] = s[i + 1]
  BY HeadTailProperties
<1>2. Len(s) \in Nat /\ DOMAIN s = 1 .. Len(s) /\ DOMAIN Tail(s) = 1 .. Len(Tail(s))
  BY <1>1, LenProperties
<1> QED
  BY <1>1, <1>2

LEMMA Dropped ==
  ASSUME NEW S, NEW s \in Seq(S), NEW k \in DOMAIN s
  PROVE  /\ SubSeq(s, k + 1, Len(s)) \in Seq(S)
         /\ \A j \in DOMAIN SubSeq(s, k + 1, Len(s)) :
              j + k \in DOMAIN s /\ SubSeq(s, k + 1, Len(s))[j] = s[j + k]
<1> DEFINE r == SubSeq(s, k + 1, Len(s))
<1>1. Len(s) \in Nat /\ DOMAIN s = 1 .. Len(s) /\ k \in 1 .. Len(s)
  BY LenProperties
<1>2. \A i \in k + 1 .. Len(s) : s[i] \in S
  BY <1>1, ElementOfSeq
<1>3. r \in Seq(S) /\ Len(r) = Len(s) - k /\ \A j \in 1 .. Len(s) - k : r[j] = s[j + k]
  <2>1. k + 1 \in Int /\ Len(s) \in Int /\ (k + 1 <= Len(s) \/ Len(s) - k = 0)
    BY <1>1
  <2> QED
    BY <1>1, <1>2, <2>1, SubSeqProperties
<1>4. DOMAIN r = 1 .. Len(s) - k
  BY <1>1, <1>3, LenProperties
<1> HIDE DEF r
<1>5. \A j \in DOMAIN r : j + k \in DOMAIN s /\ r[j] = s[j + k]
  BY <1>1, <1>3, <1>4
<1> QED
  BY <1>3, <1>5 DEF r

(* Every way the two ends of the pipe are rewritten. *)
ToExtMoves ==
  \/ wire'.toExt \in {wire.toExt, <<>>}
  \/ wire.toExt # <<>> /\ wire'.toExt = Tail(wire.toExt)
  \/ \E k \in DOMAIN wire.toExt : wire'.toExt = SubSeq(wire.toExt, k + 1, Len(wire.toExt))
  \/ \E x \in 0 .. MaxCmds : Sendable(cmds', x) /\ wire'.toExt = Append(wire.toExt, x)
ToHostMoves ==
  \/ wire'.toHost \in {wire.toHost, <<>>}
  \/ wire.toHost # <<>> /\ wire'.toHost = Tail(wire.toHost)
  \/ \E m \in Message : Readable(cmds', m) /\ wire'.toHost = Append(wire.toHost, m)

LEMMA WireKept ==
  ASSUME TypeOK, ExchangeOK, DeliveredOK, Grows, ToExtMoves, ToHostMoves,
         wire' = [toExt |-> wire'.toExt, toHost |-> wire'.toHost]
  PROVE  WireOK'
<1>0. WireOK
  BY WireFacts
<1>1. \A x \in 0 .. MaxCmds : Sendable(cmds, x) => Sendable(cmds', x)
  BY QueueTyped, OrderAssumption DEF Sendable, Grows, Same
<1>2. \A m \in Message : Readable(cmds, m) => Readable(cmds', m)
  BY QueueTyped DEF Readable, Grows, Message, Cmd
<1>3. /\ wire.toExt \in Seq(0 .. MaxCmds) /\ wire.toHost \in Seq(Message)
      /\ \A k \in DOMAIN wire.toExt : wire.toExt[k] \in 0 .. MaxCmds /\ Sendable(cmds, wire.toExt[k])
      /\ \A k \in DOMAIN wire.toHost : wire.toHost[k] \in Message /\ Readable(cmds, wire.toHost[k])
  <2>1. wire.toExt \in Seq(0 .. MaxCmds) /\ wire.toHost \in Seq(Message)
    BY <1>0 DEF WireOK
  <2>2. \A k \in DOMAIN wire.toExt : wire.toExt[k] \in 0 .. MaxCmds
    BY <2>1, ElementOfSeq, LenProperties
  <2>3. \A k \in DOMAIN wire.toHost : wire.toHost[k] \in Message
    BY <2>1, ElementOfSeq, LenProperties
  <2> QED
    BY <1>0, <2>1, <2>2, <2>3 DEF WireOK
<1>4. wire'.toExt \in Seq(0 .. MaxCmds) /\ \A k \in DOMAIN wire'.toExt : Sendable(cmds', wire'.toExt[k])
  <2>1. CASE wire'.toExt = wire.toExt
    BY <1>1, <1>3, <2>1
  <2>2. CASE wire'.toExt = <<>>
    BY <2>2, EmptySeq
  <2>3. CASE wire.toExt # <<>> /\ wire'.toExt = Tail(wire.toExt)
    <3>1. /\ Tail(wire.toExt) \in Seq(0 .. MaxCmds)
          /\ \A k \in DOMAIN Tail(wire.toExt) :
               k + 1 \in DOMAIN wire.toExt /\ Tail(wire.toExt)[k] = wire.toExt[k + 1]
      BY <1>3, <2>3, Tailed
    <3> QED
      BY <1>1, <1>3, <2>3, <3>1
  <2>4. CASE \E x \in 0 .. MaxCmds : Sendable(cmds', x) /\ wire'.toExt = Append(wire.toExt, x)
    <3>1. PICK x \in 0 .. MaxCmds : Sendable(cmds', x) /\ wire'.toExt = Append(wire.toExt, x)
      BY <2>4
    <3> QED
      BY <1>1, <1>3, <3>1, Appended
  <2>5. CASE \E k \in DOMAIN wire.toExt : wire'.toExt = SubSeq(wire.toExt, k + 1, Len(wire.toExt))
    <3>1. PICK k \in DOMAIN wire.toExt : wire'.toExt = SubSeq(wire.toExt, k + 1, Len(wire.toExt))
      BY <2>5
    <3> DEFINE r == SubSeq(wire.toExt, k + 1, Len(wire.toExt))
    <3>2. /\ r \in Seq(0 .. MaxCmds)
          /\ \A j \in DOMAIN r : j + k \in DOMAIN wire.toExt /\ r[j] = wire.toExt[j + k]
      BY <1>3, Dropped
    <3>3. wire'.toExt = r
      BY <3>1
    <3> HIDE DEF r
    <3> QED
      BY <1>1, <1>3, <3>2, <3>3
  <2> QED
    BY <2>1, <2>2, <2>3, <2>4, <2>5 DEF ToExtMoves
<1>5. wire'.toHost \in Seq(Message) /\ \A k \in DOMAIN wire'.toHost : Readable(cmds', wire'.toHost[k])
  <2>1. CASE wire'.toHost = wire.toHost
    BY <1>2, <1>3, <2>1
  <2>2. CASE wire'.toHost = <<>>
    BY <2>2, EmptySeq
  <2>3. CASE wire.toHost # <<>> /\ wire'.toHost = Tail(wire.toHost)
    <3>1. /\ Tail(wire.toHost) \in Seq(Message)
          /\ \A k \in DOMAIN Tail(wire.toHost) :
               k + 1 \in DOMAIN wire.toHost /\ Tail(wire.toHost)[k] = wire.toHost[k + 1]
      BY <1>3, <2>3, Tailed
    <3> QED
      BY <1>2, <1>3, <2>3, <3>1
  <2>4. CASE \E m \in Message : Readable(cmds', m) /\ wire'.toHost = Append(wire.toHost, m)
    <3>1. PICK m \in Message : Readable(cmds', m) /\ wire'.toHost = Append(wire.toHost, m)
      BY <2>4
    <3> QED
      BY <1>2, <1>3, <3>1, Appended
  <2> QED
    BY <2>1, <2>2, <2>3, <2>4 DEF ToHostMoves
<1>6. wire' \in [toExt : Seq(0 .. MaxCmds), toHost : Seq(Message)]
  BY <1>4, <1>5
<1>7. Message' = Message
  BY DEF Message, Cmd
<1> QED
  BY <1>4, <1>5, <1>6, <1>7 DEF WireOK

(* What the extension says is about a command of the queue. *)
LEMMA Says ==
  ASSUME TypeOK, Grows, NEW i \in DOMAIN cmds, NEW outcome \in Outcome
  PROVE  \/ Said(i, outcome) = wire.toHost
         \/ \E m \in Message : Readable(cmds', m) /\ Said(i, outcome) = Append(wire.toHost, m)
<1> DEFINE at == IF outcome = "PRECHECK_READY" THEN now ELSE None
           m == [cmd |-> i, outcome |-> outcome, at |-> at]
<1>1. at \in Ledger!Time \cup {None} /\ (outcome = "PRECHECK_READY" => at # None)
  BY RowTyped DEF Ledger!Time
<1>2. i \in Cmd /\ i <= Len(cmds')
  BY QueueTyped DEF Grows
<1>3. m \in Message /\ Readable(cmds', m)
  <2> HIDE DEF at
  <2> QED
    BY <1>1, <1>2 DEF Message, Readable
<1>4. Said(i, outcome) \in {wire.toHost, Append(wire.toHost, m)}
  BY DEF Said
<1> HIDE DEF m
<1> QED
  BY <1>3, <1>4

LEMMA Emits ==
  ASSUME TypeOK, Grows, NEW i \in DOMAIN cmds, NEW outcome \in Outcome, Emit(i, outcome)
  PROVE  ToExtMoves /\ ToHostMoves /\ wire' = [toExt |-> wire'.toExt, toHost |-> wire'.toHost]
<1>1. wire \in [toExt : Seq(0 .. MaxCmds), toHost : Seq(Message)]
  BY DEF TypeOK, Message
<1> DEFINE s == Said(i, outcome)
<1>2. wire' = [wire EXCEPT !.toHost = s]
  BY DEF Emit
<1> HIDE DEF s
<1>3. wire'.toExt = wire.toExt /\ wire'.toHost = s /\ wire' = [toExt |-> wire'.toExt, toHost |-> wire'.toHost]
  BY <1>1, <1>2
<1> QED
  BY <1>3, Says DEF ToExtMoves, ToHostMoves, s

LEMMA Sent ==
  ASSUME TypeOK, DeliveredOK, wire.toExt # <<>>
  PROVE  Head(wire.toExt) \in 0 .. MaxCmds /\ Sendable(cmds, Head(wire.toExt))
<1>1. wire.toExt \in Seq(0 .. MaxCmds)
  BY DEF TypeOK
<1>2. Len(wire.toExt) \in Nat \ {0} /\ DOMAIN wire.toExt = 1 .. Len(wire.toExt)
  BY <1>1, EmptySeq, LenProperties
<1>3. Head(wire.toExt) = wire.toExt[1] /\ 1 \in DOMAIN wire.toExt
  BY <1>1, <1>2
<1>4. wire.toExt[1] \in 0 .. MaxCmds
  <2> DEFINE S == 0 .. MaxCmds
             s == wire.toExt
  <2>1. s \in Seq(S) /\ 1 \in 1 .. Len(s)
    BY <1>1, <1>2
  <2> HIDE DEF S, s
  <2>2. s[1] \in S
    BY <2>1, ElementOfSeq
  <2> QED
    BY <2>2 DEF S, s
<1>5. wire.toExt[1] <= Len(cmds)
  BY <1>3 DEF TypeOK
<1>6. wire.toExt[1] # 0 => cmds[wire.toExt[1]].conn # 0
  BY <1>3 DEF DeliveredOK
<1> QED
  BY <1>3, <1>4, <1>5, <1>6 DEF Sendable

(* The command the extension is busy with. *)
LEMMA Busy ==
  ASSUME TypeOK, ext.op # None
  PROVE  ext.op \in Operation /\ ext.op.cmd \in DOMAIN cmds /\ cmds[ext.op.cmd] \in Command
<1>1. ext.op \in Operation
  BY DEF TypeOK
<1>2. ext.op.cmd \in DOMAIN cmds
  <2>1. ext.op.cmd <= Len(cmds)
    BY DEF TypeOK
  <2> QED
    BY <1>1, <2>1, QueueTyped DEF Operation, Cmd
<1> QED
  BY <1>1, <1>2, QueueTyped

LEMMA WireMoves ==
  ASSUME TypeOK, DeliveredOK, Grows, Next
  PROVE  ToExtMoves /\ ToHostMoves /\ wire' = [toExt |-> wire'.toExt, toHost |-> wire'.toHost]
<1>1. wire \in [toExt : Seq(0 .. MaxCmds), toHost : Seq(Message)]
  BY DEF TypeOK, Message
<1>2. CASE wire' = wire
  BY <1>1, <1>2 DEF ToExtMoves, ToHostMoves
<1>3. CASE NextCommand
  <2>1. CASE broker.disarm
    <3>1. wire' = [wire EXCEPT !.toExt = Append(@, 0)]
      BY <1>3, <2>1 DEF NextCommand
    <3>2. /\ wire'.toExt = Append(wire.toExt, 0) /\ wire'.toHost = wire.toHost
          /\ wire' = [toExt |-> wire'.toExt, toHost |-> wire'.toHost]
      BY <1>1, <3>1
    <3>3. 0 \in 0 .. MaxCmds /\ Sendable(cmds', 0)
      BY OrderAssumption DEF Sendable, Grows
    <3> QED
      BY <3>2, <3>3 DEF ToExtMoves, ToHostMoves
  <2>2. CASE ~broker.disarm /\ wire' # wire
    <3>1. PICK i \in DOMAIN cmds :
            /\ cmds[i].status = "QUEUED"
            /\ cmds' = [cmds EXCEPT ![i].status = "DISPATCHED", ![i].conn = broker.conn]
            /\ wire' = [wire EXCEPT !.toExt = Append(@, i)]
      BY <1>3, <2>2 DEF NextCommand
    <3>2. /\ wire'.toExt = Append(wire.toExt, i) /\ wire'.toHost = wire.toHost
          /\ wire' = [toExt |-> wire'.toExt, toHost |-> wire'.toHost]
      BY <1>1, <3>1
    <3>3. cmds'[i].conn # 0
      BY <3>1, QueueDispatched
    <3>4. i \in 0 .. MaxCmds /\ Sendable(cmds', i)
      BY <3>3, QueueTyped DEF Sendable, Grows, Cmd
    <3> QED
      BY <3>2, <3>4 DEF ToExtMoves, ToHostMoves
  <2> QED
    BY <1>2, <2>1, <2>2
<1>4. CASE ReceiveObservation
  <2>1. wire.toHost # <<>> /\ wire' \in {[wire EXCEPT !.toHost = Tail(@)], [wire EXCEPT !.toHost = <<>>]}
    BY <1>4 DEF ReceiveObservation, HostLeaves
  <2>2. /\ wire'.toExt = wire.toExt /\ wire'.toHost \in {Tail(wire.toHost), <<>>}
        /\ wire' = [toExt |-> wire'.toExt, toHost |-> wire'.toHost]
    BY <1>1, <2>1
  <2> QED
    BY <2>1, <2>2 DEF ToExtMoves, ToHostMoves
<1>5. CASE HostStops \/ HostKilled
  <2>1. wire' = [wire EXCEPT !.toHost = <<>>]
    BY <1>5 DEF HostStops, HostKilled, HostLeaves
  <2>2. /\ wire'.toExt = wire.toExt /\ wire'.toHost = <<>>
        /\ wire' = [toExt |-> wire'.toExt, toHost |-> wire'.toHost]
    BY <1>1, <2>1
  <2> QED
    BY <2>2 DEF ToExtMoves, ToHostMoves
<1>6. CASE Receive
  <2> DEFINE i == Head(wire.toExt)
  <2>1. /\ wire.toExt # <<>>
        /\ \/ Overtakes
           \/ i # 0 /\ wire' = [toExt |-> Tail(wire.toExt), toHost |-> Said(i, "UNKNOWN")]
    BY <1>6 DEF Receive
  <2>2. CASE Overtakes
    <3>1. PICK k \in DOMAIN wire.toExt :
            wire' = [wire EXCEPT !.toExt = SubSeq(@, k + 1, Len(@))]
      BY <2>2 DEF Overtakes
    <3>2. /\ wire'.toExt = SubSeq(wire.toExt, k + 1, Len(wire.toExt)) /\ wire'.toHost = wire.toHost
          /\ wire' = [toExt |-> wire'.toExt, toHost |-> wire'.toHost]
      BY <1>1, <3>1
    <3> QED
      BY <3>2 DEF ToExtMoves, ToHostMoves
  <2>3. CASE i # 0 /\ wire' = [toExt |-> Tail(wire.toExt), toHost |-> Said(i, "UNKNOWN")]
    <3>1. i \in DOMAIN cmds
      BY <2>1, <2>3, Sent, QueueTyped DEF Sendable
    <3>2. /\ wire'.toExt = Tail(wire.toExt) /\ wire'.toHost = Said(i, "UNKNOWN")
          /\ wire' = [toExt |-> wire'.toExt, toHost |-> wire'.toHost]
      BY <2>3
    <3> HIDE DEF i
    <3> QED
      BY <2>1, <3>1, <3>2, Says DEF ToExtMoves, ToHostMoves, Outcome
  <2> QED
    BY <2>1, <2>2, <2>3
<1>7. CASE \E outcome \in Outcome : ext.op # None /\ Emit(ext.op.cmd, outcome)
  BY <1>7, Busy, Emits
<1>8. CASE ExtDisconnected \/ ExtRestarts
  <2>1. wire' = [wire EXCEPT !.toExt = <<>>]
    BY <1>8 DEF ExtDisconnected, ExtRestarts
  <2>2. /\ wire'.toExt = <<>> /\ wire'.toHost = wire.toHost
        /\ wire' = [toExt |-> wire'.toExt, toHost |-> wire'.toHost]
    BY <1>1, <2>1
  <2> QED
    BY <2>2 DEF ToExtMoves, ToHostMoves
<1>9. CASE Connect
  BY <1>9 DEF Connect, ToExtMoves, ToHostMoves
<1>10. ASSUME ExtPrecheck \/ ExtUnverified \/ ExtNotSent \/ ExtReply \/ ExtReconcile \/ ExtDrops
       PROVE  wire' = wire \/ \E outcome \in Outcome : ext.op # None /\ Emit(ext.op.cmd, outcome)
  BY <1>10 DEF ExtPrecheck, ExtUnverified, ExtNotSent, ExtReply, ExtReconcile, ExtDrops, Doing, Outcome
<1>11. ASSUME HeartbeatLapses \/ ExtJournal \/ ExtSend \/ TabClick \/ TabRefuses \/ Navigate \/ MerchantAccepts
       PROVE  wire' = wire
  BY <1>11 DEF HeartbeatLapses, ExtJournal, ExtSend, TabClick, TabRefuses, Navigate, MerchantAccepts, edge
<1>12. ASSUME SignalDisarm \/ ClearSignal \/ EnqueueDisarm \/ Passes \/ CliStep
       PROVE  wire' = wire
  BY <1>12, CliFrame DEF SignalDisarm, ClearSignal, EnqueueDisarm, Passes, edge
<1> QED
  BY <1>2, <1>3, <1>4, <1>5, <1>6, <1>7, <1>8, <1>9, <1>10, <1>11, <1>12, ByWhom DEF Edge

-----------------------------------------------------------------------------
(* The extension. *)

Extension == [conn : Conn, state : {"CHECKOUT_READY", "ORDER", "DISARMED"},
              journal : 1 .. MaxRuns \cup {None}, nonces : SUBSET (1 .. MaxRuns),
              precheck : Reading \cup {None}, op : Operation \cup {None}]

(* Its command was dispatched to it, and past the beginning it submits.     *)
InHand(op, q) ==
  op # None =>
    /\ op.cmd <= Len(q) /\ q[op.cmd].conn # 0
    /\ op.pc # "begun" => q[op.cmd].type = "SUBMIT_ORDER"

LEMMA ExtFacts ==
  ASSUME TypeOK, DeliveredOK
  PROVE  /\ ext \in Extension /\ InHand(ext.op, cmds)
         /\ tab.doc \in 1 .. MaxDoc /\ now \in Ledger!Time
         /\ broker.conn \in Conn \ {0} /\ None \notin 1 .. MaxRuns
BY RowTyped, OrderAssumption DEF TypeOK, DeliveredOK, Extension, InHand, Ledger!Time, Submits

LEMMA HandKept ==
  ASSUME TypeOK, Grows, NEW op \in Operation \cup {None}, InHand(op, cmds)
  PROVE  InHand(op, cmds')
<1>1. op # None => op.cmd \in Cmd
  BY DEF Operation
<1>2. op # None /\ op.cmd <= Len(cmds) => op.cmd \in DOMAIN cmds
  BY <1>1, QueueTyped DEF Cmd
<1> QED
  BY <1>1, <1>2, QueueTyped DEF InHand, Grows, Same, Cmd

(* What becomes of the command in hand: it stays, is marked stale, is done  *)
(* with; a new one begins; a submission goes on.                           *)
OpMoves ==
  \/ ext'.op \in {ext.op, Stale(ext.op), None}
  \/ ext'.op \in Operation /\ ext'.op.pc = "begun" /\ Sendable(cmds, ext'.op.cmd)
  \/ /\ ext.op # None /\ Submits(ext.op.cmd)
     /\ ext'.op \in Operation /\ ext'.op.cmd = ext.op.cmd
     /\ \/ ExtJournal /\ ext'.op.pc = "journaled"
        \/ ExtSend /\ ext'.op.pc = "sent"

LEMMA OpKept ==
  ASSUME TypeOK, DeliveredOK, Grows, OpMoves
  PROVE  ext'.op \in Operation \cup {None} /\ InHand(ext'.op, cmds')
<1>1. ext.op \in Operation \cup {None} /\ InHand(ext.op, cmds)
  BY ExtFacts DEF Extension
<1>2. CASE ext'.op = Stale(ext.op)
  <2>1. CASE ext.op = None
    BY <1>2, <2>1 DEF Stale, InHand
  <2>2. CASE ext.op # None
    <3>1. ext'.op = [ext.op EXCEPT !.live = FALSE] /\ ext.op \in Operation
      BY <1>1, <1>2, <2>2 DEF Stale
    <3>2. ext'.op \in Operation /\ ext'.op.cmd = ext.op.cmd /\ ext'.op.pc = ext.op.pc
      BY <3>1 DEF Operation
    <3>3. InHand(ext'.op, cmds)
      BY <1>1, <2>2, <3>2 DEF InHand
    <3> QED
      BY <3>2, <3>3, HandKept
  <2> QED
    BY <2>1, <2>2
<1>3. CASE ext'.op \in Operation /\ ext'.op.pc = "begun" /\ Sendable(cmds, ext'.op.cmd)
  <2>1. ext'.op.cmd # 0
    BY <1>3 DEF Operation, Cmd
  <2>2. InHand(ext'.op, cmds)
    BY <1>3, <2>1 DEF InHand, Sendable
  <2> QED
    BY <1>3, <2>2, HandKept
<1>4. CASE /\ ext.op # None /\ Submits(ext.op.cmd)
           /\ ext'.op \in Operation /\ ext'.op.cmd = ext.op.cmd
  <2>1. InHand(ext'.op, cmds)
    BY <1>1, <1>4 DEF InHand, Submits
  <2> QED
    BY <1>4, <2>1, HandKept
<1>5. CASE ext'.op \in {ext.op, None}
  BY <1>1, <1>5, HandKept DEF InHand
<1> QED
  BY <1>2, <1>3, <1>4, <1>5 DEF OpMoves

(* A reading of the page, the journal of a dispatch, a new connection: the  *)
(* other fields of the extension.                                          *)
ExtMoves ==
  /\ ext' = [conn |-> ext'.conn, state |-> ext'.state, journal |-> ext'.journal, nonces |-> ext'.nonces,
             precheck |-> ext'.precheck, op |-> ext'.op]
  /\ ext'.conn \in Conn /\ ext'.state \in {"CHECKOUT_READY", "ORDER", "DISARMED"}
  /\ ext'.precheck \in Reading \cup {None}
  /\ ExtJournal \/ (ext'.journal = ext.journal /\ ext'.nonces = ext.nonces)

(* The submission in hand is the one the queue holds for the permit. *)
LEMMA Journals ==
  ASSUME TypeOK, QueueOK, DeliveredOK, ExtJournal
  PROVE  LET i == ext.op.cmd IN
         /\ ext.op # None /\ ext.op.pc = "begun" /\ i \in DOMAIN cmds /\ Submits(i) /\ cmds[i].conn # 0
         /\ Committed(cmds[i].permit) /\ cmds[i].permit.nonce \in 1 .. MaxRuns
         /\ cmds[i].permit.nonce \notin ext.nonces
         /\ ext'.journal = cmds[i].permit.nonce /\ ext'.nonces = ext.nonces \cup {cmds[i].permit.nonce}
         /\ cmds' = cmds /\ row' = row /\ tab' = tab /\ clicks' = clicks
<1> DEFINE i == ext.op.cmd
           p == cmds[i].permit
<1>1. /\ ext.op # None /\ ext.op.pc = "begun" /\ cmds[i].type = "SUBMIT_ORDER"
      /\ p.nonce \notin ext.nonces
      /\ ext' = [ext EXCEPT !.journal = p.nonce, !.nonces = @ \cup {p.nonce},
                            !.precheck = None, !.state = "ORDER",
                            !.op = [@ EXCEPT !.pc = "journaled", !.doc = tab.doc]]
      /\ cmds' = cmds /\ intent' = intent /\ tab' = tab /\ clicks' = clicks
  BY DEF ExtJournal, Doing, world
<1>2. i \in DOMAIN cmds
  BY <1>1, Busy
<1>3. Committed(p) /\ Submits(i)
  BY <1>1, <1>2 DEF QueueOK, Submits
<1>4. p.nonce \in 1 .. MaxRuns
  BY <1>3 DEF Committed, Permit
<1>5. cmds[i].conn # 0
  BY <1>1 DEF DeliveredOK
<1>6. ext'.journal = p.nonce /\ ext'.nonces = ext.nonces \cup {p.nonce}
  <2> DEFINE op == [ext.op EXCEPT !.pc = "journaled", !.doc = tab.doc]
             n == p.nonce
  <2>1. ext' = [ext EXCEPT !.journal = n, !.nonces = @ \cup {n}, !.precheck = None, !.state = "ORDER", !.op = op]
    BY <1>1
  <2> HIDE DEF op, n
  <2>2. ext'.journal = n /\ ext'.nonces = ext.nonces \cup {n}
    BY <2>1, ExtFacts DEF Extension
  <2> QED
    BY <2>2 DEF n
<1>7. row' = row
  BY <1>1 DEF row
<1> QED
  BY <1>1, <1>2, <1>3, <1>4, <1>5, <1>6, <1>7

LEMMA ExtSteps ==
  ASSUME TypeOK, DeliveredOK, QueueOK, Next
  PROVE  OpMoves /\ ExtMoves
<1>0. /\ ext \in Extension /\ tab.doc \in 1 .. MaxDoc /\ now \in Ledger!Time
      /\ broker.conn \in Conn \ {0} /\ 0 \in Conn
  BY ExtFacts, OrderAssumption DEF Conn
<1>1. CASE ext' = ext
  BY <1>0, <1>1 DEF OpMoves, ExtMoves, Extension
<1>2. CASE Receive
  <2> DEFINE i == Head(wire.toExt)
             op == [cmd |-> i, pc |-> "begun", doc |-> tab.doc, live |-> ext.state # "DISARMED"]
  <2>1. wire.toExt # <<>>
    BY <1>2 DEF Receive
  <2>2. \/ i = 0 /\ ext' = [ext EXCEPT !.op = Stale(@), !.state = IF @ = "CHECKOUT_READY" THEN @ ELSE "DISARMED"]
        \/ ext' = ext
        \/ i # 0 /\ ext' = [ext EXCEPT !.op = op]
    BY <1>2 DEF Receive
  <2>3. CASE i = 0 /\ ext' = [ext EXCEPT !.op = Stale(@), !.state = IF @ = "CHECKOUT_READY" THEN @ ELSE "DISARMED"]
    <3> DEFINE o == Stale(ext.op)
               s == IF ext.state = "CHECKOUT_READY" THEN ext.state ELSE "DISARMED"
    <3>1. ext' = [ext EXCEPT !.op = o, !.state = s] /\ s \in {"CHECKOUT_READY", "ORDER", "DISARMED"}
      BY <2>3
    <3> HIDE DEF o, s
    <3>2. ext'.op = o
      BY <1>0, <3>1 DEF Extension
    <3>3. ExtMoves
      BY <1>0, <3>1 DEF Extension, ExtMoves
    <3> QED
      BY <3>2, <3>3 DEF OpMoves, o
  <2>4. CASE i # 0 /\ ext' = [ext EXCEPT !.op = op]
    <3>1. i \in Cmd /\ Sendable(cmds, i)
      BY <2>1, <2>4, Sent DEF Cmd
    <3>2. op \in Operation /\ op.pc = "begun" /\ op.cmd = i
      <4> DEFINE live == ext.state # "DISARMED"
      <4>1. live \in BOOLEAN
        OBVIOUS
      <4> HIDE DEF i, live
      <4> QED
        BY <1>0, <3>1, <4>1 DEF Operation
    <3> HIDE DEF op
    <3>3. ext'.op = op
      BY <1>0, <2>4 DEF Extension
    <3>4. ExtMoves
      BY <1>0, <2>4 DEF Extension, ExtMoves
    <3> QED
      BY <3>1, <3>2, <3>3, <3>4 DEF OpMoves
  <2> QED
    BY <1>1, <2>2, <2>3, <2>4
<1>3. CASE ExtPrecheck
  <2> DEFINE r == [id |-> ext.op.cmd, doc |-> tab.doc, at |-> now, conn |-> ext.conn]
  <2>1. ext.op # None /\ ext' = [ext EXCEPT !.op = None, !.state = "ORDER", !.precheck = r]
    BY <1>3 DEF ExtPrecheck, Doing
  <2>2. ext.op.cmd \in Cmd /\ ext.conn \in Conn
    BY <1>0, <2>1, Busy DEF Operation, Extension
  <2>3. r \in Reading
    BY <1>0, <2>2 DEF Reading
  <2> HIDE DEF r
  <2> QED
    BY <1>0, <2>1, <2>3 DEF Extension, OpMoves, ExtMoves
<1>4. CASE ExtUnverified
  <2>1. PICK p \in {None, ext.precheck}, s \in {"ORDER", ext.state} :
          ext' = [ext EXCEPT !.op = None, !.precheck = p, !.state = s]
    BY <1>4 DEF ExtUnverified
  <2> QED
    BY <1>0, <2>1 DEF Extension, OpMoves, ExtMoves
<1>5. CASE ExtJournal
  <2> DEFINE n == cmds[ext.op.cmd].permit.nonce
             op == [ext.op EXCEPT !.pc = "journaled", !.doc = tab.doc]
  <2>1. /\ ext' = [ext EXCEPT !.journal = n, !.nonces = @ \cup {n}, !.precheck = None, !.state = "ORDER", !.op = op]
        /\ ext.op # None /\ Submits(ext.op.cmd)
    BY <1>5 DEF ExtJournal, Doing, Submits
  <2>2. op \in Operation /\ op.cmd = ext.op.cmd /\ op.pc = "journaled"
    BY <1>0, <2>1, Busy DEF Operation
  <2> HIDE DEF op, n
  <2>3. ext'.op = op
    BY <1>0, <2>1 DEF Extension
  <2>4. ExtMoves
    BY <1>0, <1>5, <2>1 DEF Extension, ExtMoves
  <2> QED
    BY <1>5, <2>1, <2>2, <2>3, <2>4 DEF OpMoves
<1>6. CASE ExtSend
  <2> DEFINE op == [ext.op EXCEPT !.pc = "sent"]
  <2>1. ext' = [ext EXCEPT !.op = op] /\ ext.op # None /\ Submits(ext.op.cmd)
    <3>1. ext' = [ext EXCEPT !.op.pc = "sent"] /\ ext.op # None /\ Submits(ext.op.cmd)
      BY <1>6 DEF ExtSend, Doing, Submits
    <3> QED
      BY <1>0, <3>1 DEF Extension
  <2>2. op \in Operation /\ op.cmd = ext.op.cmd /\ op.pc = "sent"
    BY <2>1, Busy DEF Operation
  <2> HIDE DEF op
  <2>3. ext'.op = op
    BY <1>0, <2>1 DEF Extension
  <2>4. ExtMoves
    BY <1>0, <2>1 DEF Extension, ExtMoves
  <2> QED
    BY <1>6, <2>1, <2>2, <2>3, <2>4 DEF OpMoves
<1>7. CASE ExtNotSent \/ ExtReply \/ ExtDrops
  <2>1. ext' = [ext EXCEPT !.op = None]
    BY <1>7 DEF ExtNotSent, ExtReply, ExtDrops
  <2> QED
    BY <1>0, <2>1 DEF Extension, OpMoves, ExtMoves
<1>8. CASE ExtReconcile
  <2>1. ext' = [ext EXCEPT !.op = None, !.state = "ORDER"]
    BY <1>8 DEF ExtReconcile
  <2> QED
    BY <1>0, <2>1 DEF Extension, OpMoves, ExtMoves
<1>9. CASE ExtDisconnected
  <2> DEFINE o == Stale(ext.op)
             s == Paused(ext.state)
  <2>1. ext' = [ext EXCEPT !.conn = 0, !.precheck = None, !.op = o, !.state = s]
    BY <1>9 DEF ExtDisconnected
  <2>2. s \in {"CHECKOUT_READY", "ORDER", "DISARMED"}
    BY <1>0 DEF Paused, Extension
  <2> HIDE DEF o, s
  <2>3. ext'.op = o
    BY <1>0, <2>1 DEF Extension
  <2>4. ExtMoves
    BY <1>0, <2>1, <2>2 DEF Extension, ExtMoves
  <2> QED
    BY <2>3, <2>4 DEF OpMoves, o
<1>10. CASE ExtRestarts
  <2> DEFINE s == Paused(ext.state)
  <2>1. ext' = [ext EXCEPT !.conn = 0, !.precheck = None, !.op = None, !.state = s]
    BY <1>10 DEF ExtRestarts
  <2>2. s \in {"CHECKOUT_READY", "ORDER", "DISARMED"}
    BY <1>0 DEF Paused, Extension
  <2> HIDE DEF s
  <2> QED
    BY <1>0, <2>1, <2>2 DEF Extension, OpMoves, ExtMoves
<1>11. CASE Connect
  <2> DEFINE n == broker.conn + 1
  <2>1. ext' = [ext EXCEPT !.conn = n] /\ broker.conn < MaxConn
    BY <1>11 DEF Connect
  <2>2. n \in Conn
    BY <1>0, <2>1, OrderAssumption DEF Conn
  <2> HIDE DEF n
  <2> QED
    BY <1>0, <2>1, <2>2 DEF Extension, OpMoves, ExtMoves
<1>12. ASSUME NextCommand \/ ReceiveObservation \/ HostStops \/ HostKilled \/ HeartbeatLapses
              \/ TabClick \/ TabRefuses \/ Navigate \/ MerchantAccepts
       PROVE  ext' = ext
  BY <1>12 DEF NextCommand, ReceiveObservation, HostStops, HostKilled, HeartbeatLapses, TabClick,
               TabRefuses, Navigate, MerchantAccepts, edge
<1>13. ASSUME SignalDisarm \/ ClearSignal \/ EnqueueDisarm \/ Passes \/ CliStep
       PROVE  ext' = ext
  BY <1>13, CliFrame DEF SignalDisarm, ClearSignal, EnqueueDisarm, Passes, edge
<1> QED
  BY <1>1, <1>2, <1>3, <1>4, <1>5, <1>6, <1>7, <1>8, <1>9, <1>10, <1>11, <1>12, <1>13, ByWhom DEF Edge

LEMMA ExtKept ==
  ASSUME TypeOK, DeliveredOK, QueueOK, Grows, Next
  PROVE  ext' \in Extension' /\ InHand(ext'.op, cmds')
<1>1. ext'.op \in Operation \cup {None} /\ InHand(ext'.op, cmds') /\ ExtMoves
  BY ExtSteps, OpKept
<1>2. ext'.journal \in 1 .. MaxRuns \cup {None} /\ ext'.nonces \in SUBSET (1 .. MaxRuns)
  <2>1. ext.journal \in 1 .. MaxRuns \cup {None} /\ ext.nonces \in SUBSET (1 .. MaxRuns)
    BY ExtFacts DEF Extension
  <2>2. CASE ExtJournal
    BY <2>1, <2>2, Journals
  <2> QED
    BY <1>1, <2>1, <2>2 DEF ExtMoves
<1>3. ext' \in Extension
  BY <1>1, <1>2 DEF ExtMoves, Extension
<1> QED
  BY <1>1, <1>3 DEF Extension, Conn, Reading, Operation, Cmd, Ledger!Time

-----------------------------------------------------------------------------
(* The page, the host and the counters. *)

Page == [doc : 1 .. MaxDoc, used : SUBSET (1 .. MaxRuns),
         req : [nonce : 1 .. MaxRuns, expires : Nat] \cup {None}]

(* The document changes, the request is given, decided or lost with it.     *)
LEMMA PageMoves ==
  ASSUME TypeOK, QueueOK, Next
  PROVE  /\ tab' \in Page
         /\ ~ExtSend => tab'.req \in {tab.req, None}
         /\ clicks' = clicks \/ (TabClick /\ tab'.req = None)
<1>0. tab \in Page /\ MaxDoc \in Nat
  BY OrderAssumption DEF TypeOK, Page
<1>1. CASE tab' = tab /\ clicks' = clicks
  BY <1>0, <1>1
<1>2. CASE ExtSend
  <2> DEFINE p == cmds[ext.op.cmd].permit
             r == [nonce |-> p.nonce, expires |-> p.expires]
  <2>1. /\ ext.op # None /\ Submits(ext.op.cmd) /\ clicks' = clicks
        /\ tab' = tab \/ tab' = [tab EXCEPT !.req = r]
    BY <1>2 DEF ExtSend, Doing, Submits
  <2>2. ext.op.cmd \in DOMAIN cmds
    BY <2>1, Busy
  <2>3. p \in Permit
    BY <2>1, <2>2 DEF QueueOK, Committed
  <2>4. r \in [nonce : 1 .. MaxRuns, expires : Nat]
    <3> HIDE DEF p
    <3> QED
      BY <2>3 DEF Permit
  <2> HIDE DEF r
  <2> QED
    BY <1>0, <1>2, <2>1, <2>4 DEF Page
<1>3. CASE ExtReconcile
  <2>1. /\ clicks' = clicks
        /\ \/ tab' = tab
           \/ tab.doc < MaxDoc /\ tab' = [doc |-> tab.doc + 1, used |-> {}, req |-> None]
    BY <1>3 DEF ExtReconcile
  <2> QED
    BY <1>0, <2>1 DEF Page
<1>4. CASE TabClick
  <2> DEFINE u == tab.used \cup {tab.req.nonce}
  <2>1. tab' = [tab EXCEPT !.used = u, !.req = None] /\ tab.req # None
    BY <1>4 DEF TabClick
  <2>2. u \in SUBSET (1 .. MaxRuns)
    BY <1>0, <2>1 DEF Page
  <2> HIDE DEF u
  <2> QED
    BY <1>0, <1>4, <2>1, <2>2 DEF Page
<1>5. CASE TabRefuses
  <2>1. tab' = [tab EXCEPT !.req = None] /\ clicks' = clicks
    BY <1>5 DEF TabRefuses
  <2> QED
    BY <1>0, <2>1 DEF Page
<1>6. CASE Navigate
  <2>1. clicks' = clicks /\ tab.doc < MaxDoc /\ tab' = [doc |-> tab.doc + 1, used |-> {}, req |-> None]
    BY <1>6 DEF Navigate
  <2> QED
    BY <1>0, <2>1 DEF Page
<1>7. ASSUME NextCommand \/ ReceiveObservation \/ HostStops \/ HostKilled \/ HeartbeatLapses
             \/ Receive \/ ExtPrecheck \/ ExtUnverified \/ ExtJournal
      PROVE  tab' = tab /\ clicks' = clicks
  BY <1>7 DEF NextCommand, ReceiveObservation, HostStops, HostKilled, HeartbeatLapses,
              Receive, ExtPrecheck, ExtUnverified, ExtJournal, world
<1>8. ASSUME ExtNotSent \/ ExtReply \/ ExtDrops \/ ExtDisconnected \/ ExtRestarts \/ Connect \/ MerchantAccepts
      PROVE  tab' = tab /\ clicks' = clicks
  BY <1>8 DEF ExtNotSent, ExtReply, ExtDrops, ExtDisconnected, ExtRestarts, Connect, MerchantAccepts, world
<1>9. ASSUME SignalDisarm \/ ClearSignal \/ EnqueueDisarm \/ Passes \/ CliStep
      PROVE  tab' = tab /\ clicks' = clicks
  BY <1>9, CliFrame DEF SignalDisarm, ClearSignal, EnqueueDisarm, Passes, world
<1> QED
  BY <1>1, <1>2, <1>3, <1>4, <1>5, <1>6, <1>7, <1>8, <1>9, ByWhom DEF Edge

LEMMA HostMoves ==
  ASSUME TypeOK, Next
  PROVE  /\ broker' \in [connected : BOOLEAN, conn : Conn \ {0}, disarm : BOOLEAN]
         /\ host' \in {"up", "down"}
<1> DEFINE B == [connected : BOOLEAN, conn : Conn \ {0}, disarm : BOOLEAN]
<1>0. broker \in B /\ host \in {"up", "down"}
  BY DEF TypeOK
<1>1. CASE UNCHANGED <<broker, host>>
  BY <1>0, <1>1
<1>2. CASE NextCommand \/ HeartbeatLapses \/ EnqueueDisarm \/ ReceiveObservation \/ HostStops
  <2>1. /\ host' \in {host, "down"}
        /\ \/ broker' = broker
           \/ broker' = [broker EXCEPT !.disarm = FALSE] \/ broker' = [broker EXCEPT !.disarm = TRUE]
           \/ broker' = [broker EXCEPT !.connected = FALSE]
    BY <1>2 DEF NextCommand, HeartbeatLapses, EnqueueDisarm, ReceiveObservation, HostStops, HostLeaves, edge
  <2> QED
    BY <1>0, <2>1
<1>3. CASE HostKilled
  BY <1>0, <1>3 DEF HostKilled
<1>4. CASE Connect
  <2> DEFINE n == broker.conn + 1
  <2>1. broker' = [broker EXCEPT !.connected = TRUE, !.conn = n] /\ host' = "up" /\ broker.conn < MaxConn
    BY <1>4 DEF Connect
  <2>2. n \in Conn \ {0}
    BY <1>0, <2>1, OrderAssumption DEF Conn
  <2> HIDE DEF n
  <2> QED
    BY <1>0, <2>1, <2>2
<1>5. ASSUME Receive \/ ExtPrecheck \/ ExtUnverified \/ ExtJournal \/ ExtSend \/ ExtNotSent \/ ExtReply
             \/ ExtReconcile \/ ExtDrops \/ ExtDisconnected \/ ExtRestarts
             \/ TabClick \/ TabRefuses \/ Navigate \/ MerchantAccepts
      PROVE  UNCHANGED <<broker, host>>
  BY <1>5 DEF Receive, ExtPrecheck, ExtUnverified, ExtJournal, ExtSend, ExtNotSent, ExtReply,
              ExtReconcile, ExtDrops, ExtDisconnected, ExtRestarts, TabClick, TabRefuses, Navigate,
              MerchantAccepts, edge
<1>6. ASSUME SignalDisarm \/ ClearSignal \/ Passes \/ CliStep
      PROVE  UNCHANGED <<broker, host>>
  BY <1>6, CliFrame DEF SignalDisarm, ClearSignal, Passes, edge
<1> QED
  BY <1>1, <1>2, <1>3, <1>4, <1>5, <1>6, ByWhom DEF Edge

LEMMA SmallMoves ==
  ASSUME TypeOK, Next
  PROVE  /\ signal' \in BOOLEAN /\ placed' \in BOOLEAN /\ clicks' \in Nat /\ mails' \in Nat
         /\ mails' = mails \/ (SendNotice /\ mails' = mails + 1)
<1>0. signal \in BOOLEAN /\ placed \in BOOLEAN /\ clicks \in Nat /\ mails \in Nat
  BY DEF TypeOK
<1>1. placed' = placed \/ placed' = TRUE
  <2>1. CASE Edge
    BY <2>1 DEF Edge, NextCommand, ReceiveObservation, HostStops, HostKilled, HeartbeatLapses, Receive,
                ExtPrecheck, ExtUnverified, ExtJournal, ExtSend, ExtNotSent, ExtReply, ExtReconcile, ExtDrops,
                ExtDisconnected, ExtRestarts, Connect, TabClick, TabRefuses, Navigate, MerchantAccepts, world
  <2> QED
    BY <2>1, ByWhom, CliFrame DEF SignalDisarm, ClearSignal, EnqueueDisarm, Passes, world
<1>2. clicks' = clicks \/ clicks' = clicks + 1
  <2>1. CASE Edge
    BY <2>1 DEF Edge, NextCommand, ReceiveObservation, HostStops, HostKilled, HeartbeatLapses, Receive,
                ExtPrecheck, ExtUnverified, ExtJournal, ExtSend, ExtNotSent, ExtReply, ExtReconcile, ExtDrops,
                ExtDisconnected, ExtRestarts, Connect, TabClick, TabRefuses, Navigate, MerchantAccepts, world
  <2> QED
    BY <2>1, ByWhom, CliFrame DEF SignalDisarm, ClearSignal, EnqueueDisarm, Passes, world
<1>3. signal' \in {signal, TRUE, FALSE}
  BY ByWhom, CliFrame, EdgeFrame DEF SignalDisarm, ClearSignal, EnqueueDisarm, Passes
<1>4. mails' = mails \/ (SendNotice /\ mails' = mails + 1)
  <2>1. CASE CliStep
    BY <2>1 DEF CliStep, Cli, EnqueueOrder, Refused, GiveUp, TakePrecheck, ArmSmoke, Authorize, NotAuthorized,
                AssertPermit, TakeSubmission, Unresolved, Unsure, Search, TakeOrder, TakeNoOrder,
                FinishReceipt, ClaimNotice, SendNotice, NoticeSent, Dies, Start
  <2> QED
    BY <2>1, ByWhom, EdgeFrame DEF SignalDisarm, ClearSignal, EnqueueDisarm, Passes
<1>5. clicks' \in Nat /\ mails' \in Nat
  BY <1>0, <1>2, <1>4
<1>6. signal' \in BOOLEAN /\ placed' \in BOOLEAN
  BY <1>0, <1>1, <1>3, Zenon
<1> QED
  BY <1>4, <1>5, <1>6

LEMMA CliStepTyped ==
  ASSUME TypeOK, RowOK, CliOK, Next, Grows
  PROVE  CliTyped'
<1>1. Len(cmds) <= Len(cmds') /\ Len(cmds') \in Nat
  BY DEF Grows
<1>2. CASE CliStep
  BY <1>1, <1>2, CliMoves, Enqueues, Authorizes, Arms, Starts
<1>3. CASE cli' = cli
  BY <1>1, <1>3, CliFields DEF CliTyped
<1> QED
  BY <1>2, <1>3, ByWhom, EdgeFrame DEF SignalDisarm, ClearSignal, EnqueueDisarm, Passes

(* Every record stays what the programs may put into it. *)
LEMMA TypeKept ==
  ASSUME Inv, Next
  PROVE  TypeOK' /\ DeliveredOK' /\ WireOK' /\ Grows
<1> USE DEF Inv
<1>1. Grows
  BY Growth
<1>2. Ledger!TypeOK'
  BY LedgerMoves, Authorizes DEF Moves
<1>3. CliTyped'
  BY <1>1, CliStepTyped
<1>4. WireOK'
  BY <1>1, WireMoves, WireKept
<1>5. ext' \in Extension' /\ InHand(ext'.op, cmds')
  BY <1>1, ExtKept
<1>6. tab' \in Page /\ Page' = Page
  BY PageMoves DEF Page
<1>7. /\ broker' \in [connected : BOOLEAN, conn : Conn \ {0}, disarm : BOOLEAN]
      /\ host' \in {"up", "down"}
  BY HostMoves
<1>8. signal' \in BOOLEAN /\ placed' \in BOOLEAN /\ clicks' \in Nat /\ mails' \in Nat
  BY SmallMoves
<1>9. TypeOK'
  <2>1. (cli \in Process /\ cli.cmd <= Len(cmds) /\ (cli.pc \notin {"idle", "dead"} => cli.run # 0))'
    BY <1>3 DEF CliTyped
  <2>2. (cmds \in Seq(Command) /\ Len(cmds) <= MaxCmds)'
    BY <1>1 DEF Grows, Command, Conn, Permit, Cmd, Outcome, Found, Ledger!Time
  <2>3. (/\ wire \in [toExt : Seq(0 .. MaxCmds),
                      toHost : Seq([cmd : Cmd, outcome : Outcome, at : Ledger!Time \cup {None}])]
         /\ \A k \in DOMAIN wire.toExt : wire.toExt[k] <= Len(cmds)
         /\ \A k \in DOMAIN wire.toHost : wire.toHost[k].cmd <= Len(cmds))'
    BY <1>4 DEF WireOK, Message, Sendable, Readable
  <2>4. (/\ ext \in [conn : Conn, state : {"CHECKOUT_READY", "ORDER", "DISARMED"},
                     journal : 1 .. MaxRuns \cup {None}, nonces : SUBSET (1 .. MaxRuns),
                     precheck : Reading \cup {None}, op : Operation \cup {None}]
         /\ ext.op # None => ext.op.cmd <= Len(cmds))'
    BY <1>5 DEF Extension, InHand
  <2>5. (tab \in [doc : 1 .. MaxDoc, used : SUBSET (1 .. MaxRuns),
                  req : [nonce : 1 .. MaxRuns, expires : Nat] \cup {None}])'
    BY <1>6 DEF Page
  <2>6. (broker \in [connected : BOOLEAN, conn : Conn \ {0}, disarm : BOOLEAN])'
    BY <1>7 DEF Conn
  <2> QED
    BY <1>2, <1>7, <1>8, <2>1, <2>2, <2>3, <2>4, <2>5, <2>6 DEF TypeOK
<1>10. DeliveredOK'
  BY <1>4, <1>5 DEF DeliveredOK, WireOK, Sendable, InHand, Submits
<1> QED
  BY <1>1, <1>4, <1>9, <1>10

-----------------------------------------------------------------------------
(* The invariant, part by part. *)

LEMMA RowKept ==
  ASSUME Inv, Next
  PROVE  RowOK'
<1> USE DEF Inv
<1>1. /\ now \in Nat /\ now' \in Nat /\ row \in Ledger!Row /\ row' \in Ledger!Row
  BY RowTyped, TypeKept, OrderAssumption DEF TypeOK, Ledger!TypeOK, Ledger!Time, row
<1>2. CASE Moves
  <2>1. row'.nonce = row.nonce /\ row'.submit = row.submit /\ now <= now'
    BY <1>2 DEF Moves, Keeps
  <2>2. row.submit # None => row'.precheck = row.precheck /\ row.submit \in Nat
    BY <1>1, <1>2, OrderAssumption DEF Moves, Keeps, Ledger!Row, Ledger!Time
  <2>3. row'.state \in Undispatched => row'.order = None
    BY <1>2 DEF Moves, Keeps, RowOK
  <2> QED
    BY <1>1, <2>1, <2>2, <2>3 DEF RowOK, Undispatched
<1>3. CASE Authorize
  <2>1. /\ now' = now /\ row'.nonce # None /\ row'.submit = now
        /\ row'.precheck = row.precheck /\ row.precheck # None
        /\ row.precheck.at <= now /\ now - row.precheck.at <= Fresh
        /\ row'.order = None
    BY <1>3, Authorizes
  <2>2. now # None
    BY RowTyped
  <2> QED
    BY <1>1, <2>1, <2>2 DEF RowOK
<1> QED
  BY <1>2, <1>3, LedgerMoves

LEMMA CliKept ==
  ASSUME Inv, Next
  PROVE  CliOK'
<1> USE DEF Inv
<1>1. Len(cmds) <= Len(cmds') /\ Len(cmds') \in Nat /\ now \in Nat /\ now' \in Nat
  BY TypeKept, RowTyped, OrderAssumption DEF Grows, TypeOK, Ledger!TypeOK, Ledger!Time
<1>2. cli.armed # None => cli.armed \in Nat /\ cli.armed <= now
  BY CliFields, OrderAssumption DEF CliOK, Process, Ledger!Time
<1>3. CASE Authorize
  BY <1>2, <1>3, Authorizes DEF CliOK
<1>4. CASE Moves
  <2>1. now <= now'
    BY <1>4 DEF Moves
  <2>2. CASE /\ cli'.armed = cli.armed
             /\ cli'.pc \in {"assert", "submit"} => cli.pc \in {"assert", "submit"} /\ cli'.permit = cli.permit
    <3>1. cli'.armed # None => cli'.armed <= now'
      BY <1>1, <1>2, <2>1, <2>2
    <3>2. ASSUME cli'.pc \in {"assert", "submit"}
          PROVE  Committed(cli.permit)'
      <4> DEFINE p == cli.permit
      <4>1. Committed(p) /\ cli'.permit = p
        BY <2>2, <3>2 DEF CliOK
      <4>2. row'.nonce = row.nonce /\ row'.submit = row.submit
        BY <1>4 DEF Moves, Keeps
      <4> QED
        BY <4>1, <4>2 DEF Committed, Permit, Cmd, Ledger!Time
    <3> QED
      BY <3>1, <3>2 DEF CliOK
  <2>3. CASE cli' = cli
    BY <2>2, <2>3
  <2>4. CASE EnqueueOrder
    BY <2>2, <2>4, Enqueues
  <2>5. CASE ArmSmoke
    BY <1>1, <2>1, <2>5, Arms DEF CliOK
  <2>6. CASE \E goal \in Goals : Start(goal)
    <3>1. cli'.armed = cli.armed /\ cli'.pc \in {"search", "first", "idle"}
      BY <2>6, Starts
    <3> QED
      BY <2>2, <3>1
  <2>7. CASE Ends
    BY <2>7 DEF Ends, CliOK
  <2>8. CASE GoesOn
    BY <2>2, <2>8 DEF GoesOn
  <2>9. CliStep \/ cli' = cli
    BY ByWhom, EdgeFrame DEF SignalDisarm, ClearSignal, EnqueueDisarm, Passes
  <2> QED
    BY <1>1, <1>3, <2>3, <2>4, <2>5, <2>6, <2>7, <2>8, <2>9, CliMoves
<1> QED
  BY <1>3, <1>4, LedgerMoves

(* One submission: no other is admitted, and before the dispatch there is   *)
(* none.                                                                   *)
LEMMA QueueOKKept ==
  ASSUME Inv, Next
  PROVE  QueueOK'
<1> USE DEF Inv
<1>1. \A i \in DOMAIN cmds : i \in DOMAIN cmds' /\ Same(i)
  BY TypeKept DEF Grows
<1>2. CASE Authorize
  <2>1. row.submit = None /\ cmds' = cmds
    BY <1>2, Authorizes
  <2>2. \A i \in DOMAIN cmds : ~Submits(i)
    BY <2>1 DEF QueueOK, Committed
  <2> QED
    BY <2>1, <2>2 DEF QueueOK, Submits
<1>3. CASE Moves
  <2>1. row'.nonce = row.nonce /\ row'.submit = row.submit
    BY <1>3 DEF Moves, Keeps
  <2>2. CASE DOMAIN cmds' = DOMAIN cmds
    <3>1. \A i \in DOMAIN cmds' : Submits(i)' => Submits(i)
      BY <1>1, <2>2 DEF Submits, Same
    <3>2. \A i \in DOMAIN cmds : Submits(i) => Committed(cmds[i].permit) /\ cmds[i].nonce = row.nonce
      BY DEF QueueOK
    <3>3. \A i \in DOMAIN cmds' : Submits(i)' => Committed(cmds[i].permit)' /\ cmds'[i].nonce = row'.nonce
      BY <1>1, <2>1, <2>2, <3>1, <3>2 DEF Same, Committed, Permit, Cmd, Ledger!Time
    <3>4. \A i \in DOMAIN cmds' : Submits(i)' => \A j \in DOMAIN cmds' : Submits(j)' => j = i
      BY <2>2, <3>1 DEF QueueOK
    <3> QED
      BY <3>3, <3>4 DEF QueueOK
  <2>3. CASE EnqueueOrder
    <3> DEFINE n == Len(cmds) + 1
    <3>1. /\ DOMAIN cmds' = DOMAIN cmds \cup {n} /\ n \notin DOMAIN cmds
          /\ \A i \in DOMAIN cmds : cmds'[i] = cmds[i]
          /\ cmds'[n].type = Kind /\ cmds'[n].nonce = row.nonce
          /\ cli.pc = "submit" => cmds'[n].permit = cli.permit
      BY <2>3, Enqueues
    <3>2. /\ Kind = "SUBMIT_ORDER" <=> cli.pc = "submit"
          /\ Kind = "SUBMIT_ORDER" => \A i \in DOMAIN cmds : ~Submits(i)
      BY <2>3, Kinds DEF EnqueueOrder, Admits, Submits
    <3> HIDE DEF n
    <3>3. CASE Kind = "SUBMIT_ORDER"
      <4>1. \A i \in DOMAIN cmds' : Submits(i)' => i = n
        BY <3>1, <3>2, <3>3 DEF Submits
      <4>2. Committed(cli.permit) /\ cmds'[n].permit = cli.permit
        BY <3>1, <3>2, <3>3 DEF CliOK
      <4>3. \A i \in DOMAIN cmds' : i = n => Committed(cmds[i].permit)' /\ cmds'[i].nonce = row'.nonce
        BY <2>1, <3>1, <4>2 DEF Committed, Permit, Cmd, Ledger!Time
      <4> QED
        BY <4>1, <4>3 DEF QueueOK
    <3>4. CASE Kind # "SUBMIT_ORDER"
      <4>1. \A i \in DOMAIN cmds' : Submits(i)' => i \in DOMAIN cmds /\ Submits(i) /\ cmds'[i] = cmds[i]
        BY <3>1, <3>4 DEF Submits
      <4>2. \A i \in DOMAIN cmds' : Submits(i)' => Committed(cmds[i].permit) /\ cmds[i].nonce = row.nonce
        BY <4>1 DEF QueueOK
      <4>3. \A i \in DOMAIN cmds' : Submits(i)' => Committed(cmds[i].permit)' /\ cmds'[i].nonce = row'.nonce
        BY <2>1, <4>1, <4>2 DEF Committed, Permit, Cmd, Ledger!Time
      <4>4. \A i \in DOMAIN cmds' : Submits(i)' => \A j \in DOMAIN cmds' : Submits(j)' => j = i
        BY <4>1 DEF QueueOK
      <4> QED
        BY <4>3, <4>4 DEF QueueOK
    <3> QED
      BY <3>3, <3>4
  <2> QED
    BY <2>2, <2>3, QueueMoves DEF NothingAnswered, QueueKept
<1> QED
  BY <1>2, <1>3, LedgerMoves

(* No run leaves an exchange that can still be answered. *)
LEMMA LeavesNothing ==
  ASSUME Inv, CliStep, cli.cmd # 0, cli'.cmd = 0
  PROVE  cli'.pc = "dead" \/ cmds'[cli.cmd].status \notin {"QUEUED", "DISPATCHED"}
<1> USE DEF Inv
<1>1. cli.cmd \in DOMAIN cmds /\ cli.pc \in Waiting \cup Noticing
  BY Awaited DEF ExchangeOK
<1>2. CASE GiveUp
  BY <1>2, QueueGivenUp DEF GiveUp
<1>3. CASE cmds' = cmds /\ cmds[cli.cmd].outcome # None
  <2>1. cmds[cli.cmd].status = "DONE"
    BY <1>1, <1>3 DEF ExchangeOK
  <2> QED
    BY <1>3, <2>1
<1>4. CASE Dies
  BY <1>4, CliFields DEF Dies, Exit, Process
<1>5. ASSUME TakePrecheck \/ TakeSubmission \/ TakeOrder \/ TakeNoOrder
      PROVE  cmds' = cmds /\ cmds[cli.cmd].outcome # None
  BY <1>5 DEF TakePrecheck, TakeSubmission, TakeOrder, TakeNoOrder, Answered
<1>6. ASSUME FinishReceipt \/ ClaimNotice \/ SendNotice \/ NoticeSent
      PROVE  cmds' = cmds /\ cmds[cli.cmd].outcome # None
  BY <1>6 DEF FinishReceipt, ClaimNotice, SendNotice, NoticeSent, ExchangeOK, Noticing
<1>7. ~EnqueueOrder /\ ~Refused
  BY DEF EnqueueOrder, Refused
<1>8. ~ArmSmoke /\ ~Authorize /\ ~NotAuthorized /\ ~AssertPermit /\ ~Unresolved /\ ~Unsure /\ ~Search
  BY <1>1 DEF ArmSmoke, Authorize, NotAuthorized, AssertPermit, Unresolved, Unsure, Search, Waiting, Noticing
<1>9. \A goal \in Goals : ~Start(goal)
  BY <1>1 DEF Start, Live, Waiting, Noticing
<1> QED
  BY <1>2, <1>3, <1>4, <1>5, <1>6, <1>7, <1>8, <1>9 DEF CliStep, Cli

(* What a step makes of the run, in the terms of the exchange. *)
LEMMA RunMoves ==
  ASSUME Inv, Next, ~EnqueueOrder
  PROVE  /\ cli'.run \in Nat /\ cli.run <= cli'.run
         /\ cli'.run = cli.run => cli'.cmd \in {cli.cmd, 0}
         /\ cli'.cmd # 0 => cli'.cmd = cli.cmd /\ cli'.pc \in Waiting \cup Noticing
         /\ cli'.pc \in Noticing => cli'.cmd = cli.cmd /\ (cli.pc \in Noticing \/ TakeOrder)
         /\ cli'.cmd # cli.cmd => CliStep
         /\ cli'.pc # cli.pc => CliStep
<1> USE DEF Inv
<1>1. Len(cmds) <= Len(cmds') /\ Len(cmds') \in Nat
  BY Growth DEF Grows
<1>2. cli.cmd # 0 => cli.pc \in Waiting \cup Noticing
  BY DEF ExchangeOK
<1>3. cli.run \in Nat
  BY CliFields
<1>4. CASE cli' = cli
  BY <1>2, <1>3, <1>4
<1>5. CASE CliStep
  <2>1. CASE Authorize
    <3>1. cli.cmd = 0
      BY <1>2, <2>1 DEF Authorize, Waiting, Noticing
    <3> QED
      BY <1>3, <1>5, <2>1, <3>1, Authorizes DEF Noticing
  <2>2. CASE ArmSmoke
    <3>1. cli.cmd = 0
      BY <1>2, <2>2 DEF ArmSmoke, Waiting, Noticing
    <3> QED
      BY <1>3, <1>5, <2>2, <3>1, Arms DEF Noticing
  <2>3. CASE \E goal \in Goals : Start(goal)
    <3>1. cli.cmd = 0
      BY <1>2, <2>3 DEF Start, Live, Waiting, Noticing
    <3> QED
      BY <1>3, <1>5, <2>3, <3>1, Starts DEF Noticing
  <2>4. CASE cli'.run = cli.run /\ Ends
    BY <1>3, <1>5, <2>4 DEF Ends, Noticing
  <2>5. CASE cli'.run = cli.run /\ GoesOn
    BY <1>2, <1>3, <1>5, <2>5 DEF GoesOn
  <2> QED
    BY <1>1, <1>5, <2>1, <2>2, <2>3, <2>4, <2>5, CliMoves
<1> QED
  BY <1>4, <1>5, ByWhom, EdgeFrame DEF SignalDisarm, ClearSignal, EnqueueDisarm, Passes

(* Nothing is pending but the command the live run waits for. *)
PendingOK ==
  \A i \in DOMAIN cmds :
    /\ cmds[i].run <= cli.run
    /\ Pending(i) /\ cmds[i].run = cli.run => i = cli.cmd \/ cli.pc = "dead"

LEMMA PendingKept ==
  ASSUME Inv, Next
  PROVE  PendingOK'
<1> USE DEF Inv
<1>1. \A i \in DOMAIN cmds :
        /\ cmds[i].run <= cli.run /\ cmds[i].run \in Nat
        /\ Pending(i) /\ cmds[i].run = cli.run => i = cli.cmd \/ cli.pc = "dead"
  BY QueueTyped DEF ExchangeOK, Command
<1>2. cli.run \in Nat /\ 0 \notin DOMAIN cmds
  BY CliFields, QueueTyped
<1>3. CASE EnqueueOrder
  <2> DEFINE n == Len(cmds) + 1
  <2>1. /\ DOMAIN cmds' = DOMAIN cmds \cup {n}
        /\ \A i \in DOMAIN cmds : cmds'[i] = cmds[i]
        /\ cmds'[n].run = cli.run /\ cli'.cmd = n /\ cli'.run = cli.run
    BY <1>3, Enqueues
  <2>2. \A i \in DOMAIN cmds : ~Pending(i)
    BY <1>3 DEF EnqueueOrder, Admits
  <2>3. \A i \in DOMAIN cmds : ~Pending(i)' /\ cmds'[i].run <= cli'.run
    BY <1>1, <2>1, <2>2 DEF Pending
  <2>4. \A i \in DOMAIN cmds' : i = cli'.cmd \/ i \in DOMAIN cmds
    BY <2>1
  <2>5. \A i \in DOMAIN cmds' : i = cli'.cmd => cmds'[i].run <= cli'.run
    BY <1>2, <2>1
  <2> QED
    BY <2>3, <2>4, <2>5 DEF PendingOK
<1>4. CASE ~EnqueueOrder
  <2>1. /\ DOMAIN cmds' = DOMAIN cmds
        /\ \A i \in DOMAIN cmds : cmds'[i].run = cmds[i].run /\ (Pending(i)' => Pending(i))
    <3>1. CASE NothingAnswered
      BY <3>1 DEF NothingAnswered, QueueKept, Same, Unanswered
    <3>2. CASE ReceiveObservation /\ QueueKept /\ ~NothingAnswered
      <4> DEFINE k == Head(wire.toHost).cmd
      <4>1. cmds' = [cmds EXCEPT ![k].status = "DONE", ![k].at = Head(wire.toHost).at,
                                 ![k].outcome = Head(wire.toHost).outcome]
        BY <3>2, QueueHalted DEF ReceiveObservation, HostLeaves, Halt
      <4>2. \A i \in DOMAIN cmds : cmds'[i].status \in {cmds[i].status, "DONE"}
        BY <4>1, QueueTyped DEF Command
      <4> QED
        BY <3>2, <4>2 DEF QueueKept, Same, Pending
    <3> QED
      BY <1>4, <3>1, <3>2, QueueMoves
  <2>2. /\ cli'.run \in Nat /\ cli.run <= cli'.run
        /\ cli'.run = cli.run => cli'.cmd \in {cli.cmd, 0}
        /\ cli'.cmd # cli.cmd => CliStep
        /\ cli'.pc # cli.pc => CliStep
    BY <1>4, RunMoves
  <2>3. ASSUME NEW i \in DOMAIN cmds, Pending(i)', cmds'[i].run = cli'.run
        PROVE  i = cli'.cmd \/ cli'.pc = "dead"
    <3>1. cli'.run = cli.run /\ cmds[i].run = cli.run /\ Pending(i)
      BY <1>1, <1>2, <2>1, <2>2, <2>3
    <3>2. i = cli.cmd \/ cli.pc = "dead"
      BY <1>1, <3>1
    <3>3. CASE cli.pc = "dead"
      <4>1. cli'.pc = "dead" \/ \E goal \in Goals : Start(goal)
        BY <2>2, <3>3 DEF CliStep, Cli, Dies, Live, Refused, GiveUp, TakePrecheck, ArmSmoke, Authorize,
          NotAuthorized, AssertPermit, TakeSubmission, Unresolved, Unsure, Search, TakeOrder, TakeNoOrder,
          FinishReceipt, ClaimNotice, SendNotice, NoticeSent, EnqueueOrder, Waiting
      <4>2. (\E goal \in Goals : Start(goal)) => cli'.run # cli.run
        BY <1>2, Starts
      <4> QED
        BY <3>1, <4>1, <4>2
    <3>4. CASE i = cli.cmd /\ cli'.cmd = 0 /\ CliStep
      BY <1>2, <2>3, <3>4, LeavesNothing DEF Pending
    <3> QED
      BY <1>2, <2>2, <3>1, <3>2, <3>3, <3>4
  <2>4. \A i \in DOMAIN cmds : cmds'[i].run <= cli'.run
    BY <1>1, <1>2, <2>1, <2>2
  <2> QED
    BY <2>1, <2>3, <2>4 DEF PendingOK
<1> QED
  BY <1>3, <1>4

(* An answer to the command that is waited for is the only one taken, and a *)
(* notice rests on an answer.                                              *)
LEMMA ExchangeKept ==
  ASSUME Inv, Next
  PROVE  ExchangeOK'
<1> USE DEF Inv
<1> DEFINE Good(q, i) == q[i].outcome # None =>
             q[i].status = "DONE" /\ (q[i].outcome = "PRECHECK_READY" => q[i].at # None)
<1>1. /\ \A i \in DOMAIN cmds : Good(cmds, i)
      /\ cli.cmd # 0 => cli.pc \in Waiting \cup Noticing
      /\ cli.pc \in Noticing => cli.cmd # 0 /\ cmds[cli.cmd].outcome # None
  BY DEF ExchangeOK
<1>2. (\A k \in DOMAIN wire.toHost : wire.toHost[k].outcome = "PRECHECK_READY" => wire.toHost[k].at # None)'
  BY TypeKept DEF WireOK, Readable
<1>3. cli.cmd # 0 => cli.cmd \in DOMAIN cmds
  BY Awaited
<1>4. SUFFICES /\ \A i \in DOMAIN cmds' : Good(cmds', i)
               /\ cli'.cmd # 0 => cli'.pc \in Waiting \cup Noticing
               /\ cli'.pc \in Noticing => cli'.cmd # 0 /\ cmds'[cli'.cmd].outcome # None
  <2>1. PendingOK'
    BY PendingKept
  <2> QED
    BY <1>2, <1>4, <2>1 DEF ExchangeOK, PendingOK
<1>5. CASE EnqueueOrder
  <2> DEFINE n == Len(cmds) + 1
  <2>1. /\ DOMAIN cmds' = DOMAIN cmds \cup {n}
        /\ \A i \in DOMAIN cmds : cmds'[i] = cmds[i]
        /\ cmds'[n].outcome = None /\ cli'.cmd = n /\ cli'.pc = cli.pc /\ cli.pc \in Waiting
    BY <1>5, Enqueues DEF EnqueueOrder
  <2> QED
    BY <1>1, <2>1 DEF Waiting, Noticing
<1>6. CASE ~EnqueueOrder
  <2>1. /\ DOMAIN cmds' = DOMAIN cmds
        /\ \A i \in DOMAIN cmds : Good(cmds', i)
        /\ \A i \in DOMAIN cmds : cmds[i].outcome # None => cmds'[i].outcome # None
    <3>1. CASE NothingAnswered
      BY <1>1, <3>1 DEF NothingAnswered, QueueKept, Unanswered
    <3>2. CASE ReceiveObservation /\ QueueKept /\ ~NothingAnswered
      <4> DEFINE m == Head(wire.toHost)
                 k == m.cmd
                 at == m.at
                 outcome == m.outcome
      <4>1. /\ cmds' = [cmds EXCEPT ![k].status = "DONE", ![k].at = at, ![k].outcome = outcome]
            /\ wire.toHost # <<>> /\ cmds[k].status = "DISPATCHED"
        BY <3>2, QueueHalted DEF ReceiveObservation, HostLeaves, Halt
      <4>2. /\ k \in DOMAIN cmds /\ outcome \in Outcome /\ at \in Ledger!Time \cup {None}
            /\ outcome = "PRECHECK_READY" => at # None
        BY <4>1, Arrived DEF ExchangeOK
      <4> HIDE DEF m, k, at, outcome
      <4>3. /\ cmds'[k].status = "DONE" /\ cmds'[k].at = at /\ cmds'[k].outcome = outcome
            /\ \A j \in DOMAIN cmds \ {k} : cmds'[j] = cmds[j]
        BY <4>1, <4>2, QueueAnswered
      <4>4. cmds[k].outcome = None
        BY <1>1, <4>1, <4>2
      <4> QED
        BY <1>1, <3>2, <4>2, <4>3, <4>4 DEF QueueKept
    <3> QED
      BY <1>6, <3>1, <3>2, QueueMoves
  <2>2. cli'.cmd # 0 => cli'.pc \in Waiting \cup Noticing
    BY <1>6, RunMoves
  <2>3. cli'.pc \in Noticing => cli'.cmd # 0 /\ cmds'[cli'.cmd].outcome # None
    <3>1. cli'.pc \in Noticing => cli'.cmd = cli.cmd /\ cli.cmd # 0 /\ cmds[cli.cmd].outcome # None
      BY <1>1, <1>6, RunMoves DEF TakeOrder, Answered
    <3> QED
      BY <1>3, <2>1, <3>1
  <2> QED
    BY <2>1, <2>2, <2>3
<1> QED
  BY <1>5, <1>6

(* The dispatch is journaled once, before it is sent; so what is sent, or   *)
(* clicked, is the first.                                                  *)
LEMMA ClickKept ==
  ASSUME Inv, Next
  PROVE  ClickOK'
<1> USE DEF Inv
<1>1. \A i \in DOMAIN cmds : i \in DOMAIN cmds' /\ Same(i)
  BY TypeKept DEF Grows
<1>2. /\ tab'.req = None \/ tab'.req = tab.req \/ ExtSend
      /\ clicks' = clicks \/ (TabClick /\ tab'.req = None)
  BY PageMoves
<1>3. TabClick => tab.req # None /\ clicks' = clicks + 1 /\ ext' = ext
  BY DEF TabClick, edge
<1>4. ext'.op # None /\ ext'.op.pc # "begun" =>
        \/ ext.op # None /\ ext.op.pc = ext'.op.pc
        \/ ExtJournal /\ ext'.op.pc = "journaled"
        \/ ExtSend /\ ext'.op.pc = "sent"
  <2>1. ext'.op = Stale(ext.op) => \/ ext'.op = None
                                   \/ ext.op # None /\ ext'.op.pc = ext.op.pc
    BY Busy DEF Stale, Operation
  <2> QED
    BY <2>1, ExtSteps DEF OpMoves
<1>5. ASSUME ExtSend
      PROVE  /\ ext.op # None /\ ext.op.pc = "journaled" /\ clicks' = clicks
             /\ tab'.req # None /\ tab'.req # tab.req =>
                  \E i \in DOMAIN cmds : /\ Submits(i) /\ tab'.req.nonce = cmds[i].permit.nonce
                                         /\ tab'.req.expires = cmds[i].permit.expires
  <2> DEFINE i == ext.op.cmd
             r == [nonce |-> cmds[i].permit.nonce, expires |-> cmds[i].permit.expires]
  <2>1. /\ ext.op # None /\ ext.op.pc = "journaled" /\ Submits(i) /\ clicks' = clicks
        /\ tab' = tab \/ tab' = [tab EXCEPT !.req = r]
    BY <1>5 DEF ExtSend, Doing, Submits
  <2>2. i \in DOMAIN cmds
    BY <2>1, Busy
  <2>3. r.nonce = cmds[i].permit.nonce /\ r.expires = cmds[i].permit.expires
    OBVIOUS
  <2> HIDE DEF r
  <2>4. tab' = tab \/ tab'.req = r
    BY <2>1 DEF TypeOK
  <2> HIDE DEF i
  <2> QED
    BY <2>1, <2>2, <2>3, <2>4 DEF i
<1>6. ASSUME ExtJournal
      PROVE  ext.nonces = {}
  <2> DEFINE i == ext.op.cmd
  <2>1. i \in DOMAIN cmds /\ Submits(i) /\ cmds[i].permit.nonce \notin ext.nonces
    BY <1>6, Journals
  <2>2. ASSUME ext.nonces # {} PROVE FALSE
    <3>1. PICK j \in DOMAIN cmds : Submits(j) /\ ext.nonces = {cmds[j].permit.nonce}
      BY <2>2 DEF ClickOK, Journaled
    <3>2. i = j
      BY <2>1, <3>1 DEF QueueOK
    <3> QED
      BY <2>1, <3>1, <3>2
  <2> QED
    BY <2>2
<1>7. /\ ext.nonces = {} => clicks = 0 /\ tab.req = None /\ (ext.op # None => ext.op.pc = "begun")
      /\ ext.nonces # {} => \E i \in DOMAIN cmds : Journaled(i)
      /\ ext.op # None /\ ext.op.pc = "journaled" => clicks = 0 /\ tab.req = None
      /\ tab.req # None => clicks = 0
      /\ clicks <= 1 /\ clicks \in Nat
  BY DEF ClickOK, TypeOK
<1>8. ExtMoves /\ (ExtJournal => ext'.nonces # {})
  BY ExtSteps, Journals
<1>9. clicks' <= 1
  BY <1>2, <1>3, <1>7
<1>10. ext'.nonces = {} => clicks' = 0 /\ tab'.req = None /\ (ext'.op # None => ext'.op.pc = "begun")
  BY <1>2, <1>3, <1>4, <1>5, <1>7, <1>8 DEF ExtMoves
<1>11. ext'.nonces # {} => \E i \in DOMAIN cmds' : Journaled(i)'
  <2>1. CASE ExtJournal
    <3> DEFINE i == ext.op.cmd
    <3>1. /\ i \in DOMAIN cmds /\ Submits(i) /\ cmds[i].conn # 0 /\ cmds' = cmds
          /\ ext'.journal = cmds[i].permit.nonce
          /\ ext'.nonces = ext.nonces \cup {cmds[i].permit.nonce}
      BY <2>1, Journals
    <3>2. ext'.nonces = {cmds[i].permit.nonce}
      BY <1>6, <2>1, <3>1
    <3>3. PICK j \in DOMAIN cmds' : j = i
      BY <3>1
    <3>4. Journaled(j)'
      BY <3>1, <3>2, <3>3 DEF Journaled, Submits
    <3> QED
      BY <3>4
  <2>2. CASE ~ExtJournal /\ ext'.nonces # {}
    <3>1. PICK i \in DOMAIN cmds : Journaled(i)
      BY <1>7, <1>8, <2>2 DEF ExtMoves
    <3>2. Journaled(i)'
      BY <1>1, <1>8, <2>2, <3>1 DEF Journaled, Submits, Same, ExtMoves
    <3> QED
      BY <1>1, <3>2
  <2> QED
    BY <2>1, <2>2
<1>12. ext'.op # None /\ ext'.op.pc = "journaled" => clicks' = 0 /\ tab'.req = None
  <2>1. CASE ExtJournal
    BY <1>6, <1>7, <2>1, Journals
  <2>2. CASE ExtSend
    <3>1. ext' = [ext EXCEPT !.op.pc = "sent"] /\ ext.op # None
      BY <2>2 DEF ExtSend, Doing
    <3>2. ext \in Extension /\ ext.op \in Operation
      BY <3>1, ExtFacts, Busy
    <3>3. ext'.op.pc = "sent"
      BY <3>1, <3>2 DEF Extension, Operation
    <3> QED
      BY <3>3
  <2>3. CASE ~ExtJournal /\ ~ExtSend
    BY <1>2, <1>3, <1>4, <1>7, <2>3
  <2> QED
    BY <2>1, <2>2, <2>3
<1>13. tab'.req # None =>
         /\ clicks' = 0
         /\ \E i \in DOMAIN cmds' : /\ Submits(i)' /\ tab'.req.nonce = cmds'[i].permit.nonce
                                    /\ tab'.req.expires = cmds'[i].permit.expires
  <2>1. ASSUME tab'.req # None PROVE clicks' = 0
    BY <1>2, <1>5, <1>7, <2>1
  <2>2. ASSUME tab'.req # None
        PROVE  \E i \in DOMAIN cmds : /\ Submits(i) /\ tab'.req.nonce = cmds[i].permit.nonce
                                      /\ tab'.req.expires = cmds[i].permit.expires
    BY <1>2, <1>5, <2>2 DEF ClickOK
  <2>3. ASSUME tab'.req # None
        PROVE  \E i \in DOMAIN cmds' : /\ Submits(i)' /\ tab'.req.nonce = cmds'[i].permit.nonce
                                       /\ tab'.req.expires = cmds'[i].permit.expires
    <3>1. PICK i \in DOMAIN cmds : /\ Submits(i) /\ tab'.req.nonce = cmds[i].permit.nonce
                                   /\ tab'.req.expires = cmds[i].permit.expires
      BY <2>2, <2>3
    <3>2. i \in DOMAIN cmds' /\ Submits(i)' /\ cmds'[i].permit = cmds[i].permit
      BY <1>1, <3>1 DEF Submits, Same
    <3> QED
      BY <3>1, <3>2
  <2> QED
    BY <2>1, <2>3
<1> QED
  BY <1>9, <1>10, <1>11, <1>12, <1>13 DEF ClickOK

-----------------------------------------------------------------------------
(* Where the cli goes from the steps that matter to the submission and to   *)
(* the notice.                                                             *)
LEMMA Transitions ==
  ASSUME TypeOK, CliStep
  PROVE  /\ cli'.pc = "mail" => Ledger!ClaimPaymentNotification(Item)
         /\ cli.pc \in {"assert", "submit", "unresolved", "unsure"} =>
              \/ cli'.pc \in {"assert", "submit", "unresolved", "unsure", "dead"}
              \/ Unresolved \/ Unsure
         /\ cli.pc = "dead" => \E goal \in Goals : Start(goal)
<1>0. cli \in Process
  BY CliFields
<1>1. ASSUME NEW pc, cli' = [cli EXCEPT !.pc = pc]
      PROVE  cli'.pc = pc
  BY <1>0, <1>1 DEF Process
<1>2. ASSUME NEW pc, Exit(pc)
      PROVE  cli'.pc = pc
  BY <1>0, <1>2 DEF Process, Exit
<1>3. CASE EnqueueOrder
  <2>1. cli' = [cli EXCEPT !.cmd = Len(cmds) + 1] /\ cli.pc \in Waiting
    BY <1>3 DEF EnqueueOrder
  <2>2. cli'.pc = cli.pc
    BY <1>0, <2>1 DEF Process
  <2> QED
    BY <2>1, <2>2 DEF Waiting
<1>4. CASE Refused \/ GiveUp
  BY <1>2, <1>4 DEF Refused, GiveUp, AfterFailure, Waiting
<1>5. CASE TakePrecheck
  <2>1. cli.pc \in {"first", "final"}
    BY <1>5 DEF TakePrecheck
  <2>2. CASE Exit("idle")
    BY <1>2, <2>1, <2>2
  <2>3. CASE ~Exit("idle")
    <3> DEFINE pc == CASE cli.goal = "precheck" -> "idle"
                       [] cli.goal # "precheck" /\ cli.pc = "first" -> "arm"
                       [] OTHER -> "issue"
    <3>1. cli' = [cli EXCEPT !.cmd = 0, !.pc = pc]
      BY <1>5, <2>3 DEF TakePrecheck
    <3>2. pc # "mail"
      OBVIOUS
    <3> HIDE DEF pc
    <3>3. cli'.pc = pc
      BY <1>0, <3>1 DEF Process
    <3> QED
      BY <2>1, <3>2, <3>3
  <2> QED
    BY <2>2, <2>3
<1>6. CASE ArmSmoke
  <2>1. cli.pc = "arm"
    BY <1>6 DEF ArmSmoke
  <2>2. Exit("idle") \/ cli' = [cli EXCEPT !.armed = now, !.pc = "final"]
    BY <1>6 DEF ArmSmoke
  <2>3. cli'.pc \in {"idle", "final"}
    BY <1>0, <1>2, <2>2 DEF Process
  <2> QED
    BY <2>1, <2>3
<1>7. CASE Authorize
  <2> DEFINE p == [nonce |-> cli.run, precheck |-> row.precheck.id, issued |-> now,
                   expires |-> cli.armed + Fresh]
  <2>1. cli.pc = "issue" /\ cli' = [cli EXCEPT !.pc = "assert", !.permit = p]
    BY <1>7 DEF Authorize
  <2> HIDE DEF p
  <2>2. cli'.pc = "assert"
    BY <1>0, <2>1 DEF Process
  <2> QED
    BY <2>1, <2>2
<1>8. CASE NotAuthorized \/ NoticeSent \/ TakeNoOrder
  BY <1>2, <1>8 DEF NotAuthorized, NoticeSent, TakeNoOrder
<1>9. CASE AssertPermit
  BY <1>1, <1>9 DEF AssertPermit, Goto
<1>10. CASE TakeSubmission
  <2>1. cli' = [cli EXCEPT !.pc = "unresolved", !.cmd = 0] /\ cli.pc = "submit"
    BY <1>10 DEF TakeSubmission
  <2>2. cli'.pc = "unresolved"
    BY <1>0, <2>1 DEF Process
  <2> QED
    BY <2>1, <2>2
<1>11. CASE Unresolved \/ Search \/ TakeOrder \/ SendNotice
  BY <1>1, <1>11 DEF Unresolved, Search, TakeOrder, SendNotice, Goto
<1>12. CASE Unsure
  BY <1>2, <1>12 DEF Unsure
<1>13. CASE FinishReceipt
  BY <1>1, <1>2, <1>13 DEF FinishReceipt, Goto
<1>14. CASE ClaimNotice
  BY <1>1, <1>2, <1>14 DEF ClaimNotice, Goto
<1>15. CASE Dies
  BY <1>2, <1>15 DEF Dies, Live
<1>16. CASE \E goal \in Goals : Start(goal)
  BY <1>16, Starts DEF Start, Live
<1> QED
  BY <1>3, <1>4, <1>5, <1>6, <1>7, <1>8, <1>9, <1>10, <1>11, <1>12, <1>13, <1>14, <1>15, <1>16
  DEF CliStep, Cli

(* The notice is claimed by one run, and handed over once. *)
LEMMA NoticeKept ==
  ASSUME Inv, Next
  PROVE  NoticeOK'
<1> USE DEF Inv
<1>1. row.notified => row'.notified
  <2>1. CASE Moves
    BY <2>1 DEF Moves, Keeps
  <2>2. CASE Authorize
    BY <2>2, Authorizes
  <2> QED
    BY <2>1, <2>2, LedgerMoves
<1>2. /\ mails \in Nat /\ mails <= 1 /\ (mails > 0 => row.notified)
      /\ cli.pc = "mail" => row.notified /\ mails = 0
  BY DEF TypeOK, NoticeOK
<1>3. CASE SendNotice
  <2>1. cli.pc = "mail" /\ mails' = mails + 1 /\ Goto("sent")
    BY <1>3 DEF SendNotice
  <2>2. cli'.pc = "sent"
    BY <2>1, CliFields DEF Goto, Process
  <2> QED
    BY <1>1, <1>2, <2>1, <2>2 DEF NoticeOK
<1>4. CASE ~SendNotice
  <2>1. mails' = mails
    BY <1>4, SmallMoves
  <2>2. ASSUME cli'.pc = "mail"
        PROVE  row'.notified /\ (cli.pc = "mail" \/ ~row.notified)
    <3>1. CASE CliStep
      BY <2>2, <3>1, Transitions, ClaimMoves
    <3>2. CASE cli' = cli
      BY <1>1, <1>2, <2>2, <3>2
    <3> QED
      BY <3>1, <3>2, ByWhom, EdgeFrame DEF SignalDisarm, ClearSignal, EnqueueDisarm, Passes
  <2>3. mails > 0 => mails # 0
    BY <1>2
  <2>4. ~row.notified => mails = 0
    BY <1>2
  <2>5. cli'.pc = "mail" => row'.notified /\ mails' = 0
    BY <1>2, <2>1, <2>2, <2>4
  <2> QED
    BY <1>1, <1>2, <2>1, <2>5 DEF NoticeOK
<1> QED
  BY <1>3, <1>4

(* Only a process that died leaves a submission under way. *)
LEMMA OwnedKept ==
  ASSUME Inv, Next
  PROVE  SubmittingIsOwned'
<1> USE DEF Inv
<1>1. CASE Authorize
  BY <1>1, Authorizes DEF SubmittingIsOwned
<1>2. CASE Moves
  <2> SUFFICES ASSUME row'.state = "ORDER_SUBMITTING"
               PROVE  cli'.pc \in {"assert", "submit", "unresolved", "unsure", "dead"}
    BY DEF SubmittingIsOwned
  <2>1. /\ row.state = "ORDER_SUBMITTING"
        /\ cli.pc \in {"assert", "submit", "unresolved", "unsure", "dead"}
        /\ row.order = None
    BY <1>2 DEF Moves, Keeps, SubmittingIsOwned, RowOK, Undispatched
  <2>2. CASE cli' = cli
    BY <2>1, <2>2
  <2>3. CASE CliStep
    <3>1. ~(\E goal \in Goals : Start(goal))
      BY RecoveryMoves DEF Start
    <3>2. ~Unresolved /\ ~Unsure
      BY <2>1, UncertainMoves DEF Unresolved, Unsure
    <3> QED
      BY <2>1, <2>3, <3>1, <3>2, Transitions
  <2> QED
    BY <2>2, <2>3, ByWhom, EdgeFrame DEF SignalDisarm, ClearSignal, EnqueueDisarm, Passes
<1> QED
  BY <1>1, <1>2, LedgerMoves

-----------------------------------------------------------------------------
LEMMA InvInit ==
  ASSUME Init
  PROVE  Inv
<1> DEFINE r == [Ledger!NoIntent EXCEPT !.state = "CHECKOUT_READY", !.cart = Cart]
<1>1. intent = [e \in {Item} |-> r] /\ now = 0
  BY DEF Init
<1>2. "CHECKOUT_READY" \in Ledger!State
  BY DEF Ledger!State, Ledger!PreSubmit
<1>3. /\ r \in Ledger!Row
      /\ r.state = "CHECKOUT_READY" /\ r.order = None /\ r.submit = None /\ r.nonce = None
  BY <1>2 DEF Ledger!NoIntent, Ledger!Row
<1> HIDE DEF r
<1>4. row = r /\ Ledger!TypeOK
  BY <1>1, <1>3, OrderAssumption DEF row, Ledger!TypeOK, Ledger!Time
<1>5. /\ cmds = <<>> /\ cmds \in Seq(Command) /\ Len(cmds) = 0 /\ DOMAIN cmds = {}
      /\ wire.toExt = <<>> /\ wire.toHost = <<>> /\ DOMAIN wire.toExt = {} /\ DOMAIN wire.toHost = {}
  BY EmptySeq DEF Init
<1>6. cli \in Process /\ cli.pc = "idle" /\ cli.cmd = 0 /\ cli.armed = None
  BY OrderAssumption DEF Init, Process, CliState
<1>7. /\ broker \in [connected : BOOLEAN, conn : Conn \ {0}, disarm : BOOLEAN]
      /\ tab \in [doc : 1 .. MaxDoc, used : SUBSET (1 .. MaxRuns),
                  req : [nonce : 1 .. MaxRuns, expires : Nat] \cup {None}]
      /\ tab.req = None
  BY OrderAssumption DEF Init, Conn
<1>8. /\ ext \in [conn : Conn, state : {"CHECKOUT_READY", "ORDER", "DISARMED"},
                  journal : 1 .. MaxRuns \cup {None}, nonces : SUBSET (1 .. MaxRuns),
                  precheck : Reading \cup {None}, op : Operation \cup {None}]
      /\ ext.op = None /\ ext.nonces = {}
  BY OrderAssumption DEF Init, Conn
<1>9. wire \in [toExt : Seq(0 .. MaxCmds),
                toHost : Seq([cmd : Cmd, outcome : Outcome, at : Ledger!Time \cup {None}])]
  BY EmptySeq DEF Init
<1>15. /\ cli.cmd <= Len(cmds) /\ Len(cmds) <= MaxCmds
       /\ host \in {"up", "down"} /\ clicks \in Nat /\ mails \in Nat
  BY <1>5, <1>6, OrderAssumption DEF Init
<1>16. signal \in BOOLEAN /\ placed \in BOOLEAN
  BY Zenon DEF Init
<1>17. /\ \A k \in DOMAIN wire.toExt : wire.toExt[k] <= Len(cmds)
       /\ \A k \in DOMAIN wire.toHost : wire.toHost[k].cmd <= Len(cmds)
  BY <1>5, Zenon
<1>10. TypeOK
  BY <1>4, <1>5, <1>6, <1>7, <1>8, <1>9, <1>15, <1>16, <1>17 DEF TypeOK
<1>11. RowOK /\ CliOK
  BY <1>3, <1>4, <1>6 DEF RowOK, CliOK
<1>12. QueueOK /\ ExchangeOK /\ DeliveredOK
  BY <1>5, <1>6, <1>8 DEF QueueOK, ExchangeOK, DeliveredOK, Noticing
<1>13. ClickOK /\ NoticeOK
  BY <1>6, <1>7, <1>8 DEF ClickOK, NoticeOK, Init
<1>14. SubmittingIsOwned
  BY <1>3, <1>4 DEF SubmittingIsOwned
<1> QED
  BY <1>10, <1>11, <1>12, <1>13, <1>14 DEF Inv

LEMMA InvStutters ==
  ASSUME Inv, UNCHANGED vars
  PROVE  Inv'
<1>1. UNCHANGED <<intent, now, cli, cmds, broker, host, wire, ext, tab, signal, clicks, placed, mails>>
  BY DEF vars
<1>2. row' = row
  BY <1>1 DEF row
<1>3. TypeOK'
  BY <1>1 DEF Inv, TypeOK, Ledger!TypeOK, Ledger!Row, Ledger!State, Ledger!Time, Ledger!Precheck,
    Ledger!Evidence, Process, Command, Permit, Cmd, Conn, Outcome, Operation, Reading
<1>4. RowOK' /\ CliOK'
  BY <1>1, <1>2 DEF Inv, RowOK, CliOK, Committed, Permit, Cmd, Ledger!Time
<1>5. QueueOK' /\ ExchangeOK' /\ DeliveredOK'
  BY <1>1, <1>2 DEF Inv, QueueOK, ExchangeOK, DeliveredOK, Committed, Submits, Pending, Permit, Cmd, Ledger!Time
<1>6. ClickOK' /\ NoticeOK' /\ SubmittingIsOwned'
  BY <1>1, <1>2 DEF Inv, ClickOK, NoticeOK, SubmittingIsOwned, Journaled, Submits
<1> QED
  BY <1>3, <1>4, <1>5, <1>6 DEF Inv

(* The invariant holds in every state: every exchange, permit, journal and  *)
(* request of page is accounted for by the hand before it.                 *)
THEOREM Invariant == Spec => []Inv
<1>1. Init => Inv
  BY InvInit
<1>2. Inv /\ [Next]_vars => Inv'
  <2> SUFFICES ASSUME Inv, Next PROVE Inv'
    BY InvStutters
  <2> QED
    BY TypeKept, RowKept, CliKept, QueueOKKept, ExchangeKept, ClickKept, NoticeKept, OwnedKept DEF Inv
<1> QED
  BY <1>1, <1>2, PTL DEF Spec

(* The records of the four programs hold what they may put into them.       *)
THEOREM TypeCorrect == Spec => []TypeOK
<1>1. Inv => TypeOK
  BY DEF Inv
<1> QED
  BY <1>1, Invariant, PTL

(* A click on Complete Order finds the ledger, the extension and the queue  *)
(* prepared to refuse the next one.                                        *)
THEOREM LayersRemember == Spec => []EveryLayerRemembers
<1>1. Inv => EveryLayerRemembers
  <2> SUFFICES ASSUME Inv, clicks > 0 PROVE
        /\ row.submit # None /\ row.nonce # None
        /\ ext.journal = row.nonce /\ row.nonce \in ext.nonces
        /\ \E i \in DOMAIN cmds : cmds[i].type = "SUBMIT_ORDER" /\ cmds[i].nonce = row.nonce
    BY DEF EveryLayerRemembers
  <2>1. ext.nonces # {}
    BY DEF Inv, ClickOK
  <2>2. PICK i \in DOMAIN cmds : Journaled(i)
    BY <2>1 DEF Inv, ClickOK
  <2>3. Committed(cmds[i].permit) /\ cmds[i].nonce = row.nonce /\ Submits(i)
    BY <2>2 DEF Inv, QueueOK, Journaled
  <2>4. row.submit # None /\ row.nonce # None
    BY <2>3 DEF Inv, RowOK, Committed
  <2> QED
    BY <2>2, <2>3, <2>4 DEF Committed, Journaled, Submits
<1> QED
  BY <1>1, Invariant, PTL

(* No run leaves a submission undecided, unless it died.                    *)
THEOREM SubmissionsAreOwned == Spec => []SubmittingIsOwned
<1>1. Inv => SubmittingIsOwned
  BY DEF Inv
<1> QED
  BY <1>1, Invariant, PTL

(* Whatever runs find the order payable, it is announced once.              *)
THEOREM NoticeIsSentOnce == Spec => []AnnouncedOnce
<1>1. Inv => AnnouncedOnce
  BY DEF Inv, NoticeOK, AnnouncedOnce
<1> QED
  BY <1>1, Invariant, PTL

(* The one click falls into the life of the permit, on a precheck that was  *)
(* current when the permit was issued.                                     *)
THEOREM ClicksArePermitted == Spec => ClickWithinPermit
<1>1. ASSUME Inv, Next, clicks' > clicks
      PROVE  /\ clicks = 0
             /\ row.submit <= now /\ now < row.submit + Fresh
             /\ row.precheck.at <= row.submit /\ row.submit - row.precheck.at <= Fresh
  <2>1. TabClick
    BY <1>1, PageMoves DEF Inv, TypeOK
  <2>2. tab.req # None /\ now < tab.req.expires
    BY <2>1 DEF TabClick
  <2>3. PICK i \in DOMAIN cmds : Submits(i) /\ tab.req.expires = cmds[i].permit.expires
    BY <1>1, <2>2 DEF Inv, ClickOK
  <2>4. clicks = 0
    BY <1>1, <2>2 DEF Inv, ClickOK
  <2>5. /\ cmds[i].permit \in Permit /\ row.submit # None
        /\ cmds[i].permit.expires <= row.submit + Fresh
    BY <1>1, <2>3 DEF Inv, QueueOK, Committed
  <2>6. /\ row.submit \in Nat /\ Fresh \in Nat /\ now \in Nat /\ tab.req.expires \in Nat
    BY <1>1, <2>3, <2>5, RowTyped, OrderAssumption DEF Inv, Ledger!Row, Ledger!Time, Permit
  <2>7. now < row.submit + Fresh
    BY <2>2, <2>3, <2>5, <2>6
  <2> QED
    BY <1>1, <2>4, <2>5, <2>7 DEF Inv, RowOK
<1>2. ASSUME UNCHANGED vars PROVE ~(clicks' > clicks) \/ ~Inv
  BY <1>2 DEF vars, Inv, TypeOK
<1>3. Inv /\ [Next]_vars =>
        [clicks' > clicks =>
           /\ clicks = 0
           /\ row.submit <= now /\ now < row.submit + Fresh
           /\ row.precheck.at <= row.submit /\ row.submit - row.precheck.at <= Fresh]_vars
  BY <1>1
<1> QED
  BY <1>3, Invariant, PTL DEF Spec, ClickWithinPermit

(* While the run that asked is alive, only the exchange it waits in is      *)
(* answered.                                                               *)
THEOREM OnlyAwaitedAnswers == Spec => AnswersAreAwaited
<1>1. ASSUME Inv, Next, NEW i \in DOMAIN cmds, cmds[i].status # "DONE", cmds'[i].status = "DONE"
      PROVE  cli.cmd = i \/ cli.pc = "dead" \/ cmds[i].run # cli.run
  <2>1. ~NothingAnswered
    BY <1>1 DEF NothingAnswered, Unanswered
  <2>2. ~EnqueueOrder
    BY <1>1, Enqueues DEF Inv
  <2>3. ReceiveObservation
    BY <1>1, <2>1, <2>2, QueueMoves DEF Inv
  <2> DEFINE m == Head(wire.toHost)
             k == m.cmd
             at == m.at
             outcome == m.outcome
  <2>4. /\ cmds' = [cmds EXCEPT ![k].status = "DONE", ![k].at = at, ![k].outcome = outcome]
        /\ wire.toHost # <<>> /\ cmds[k].status = "DISPATCHED"
    BY <1>1, <2>1, <2>3, QueueHalted DEF Inv, ReceiveObservation, HostLeaves, Halt
  <2>5. /\ k \in DOMAIN cmds /\ outcome \in Outcome /\ at \in Ledger!Time \cup {None}
    BY <1>1, <2>4, Arrived DEF Inv
  <2> HIDE DEF m, k, at, outcome
  <2>6. \A j \in DOMAIN cmds \ {k} : cmds'[j] = cmds[j]
    BY <1>1, <2>4, <2>5, QueueAnswered DEF Inv
  <2>7. i = k /\ Pending(i)
    BY <1>1, <2>4, <2>6 DEF Pending
  <2> QED
    BY <1>1, <2>7 DEF Inv, ExchangeOK
<1>2. Inv /\ [Next]_vars =>
        [\A i \in DOMAIN cmds :
           cmds[i].status # "DONE" /\ cmds'[i].status = "DONE" =>
             \/ cli.cmd = i
             \/ cli.pc = "dead" \/ cmds[i].run # cli.run]_vars
  BY <1>1
<1> QED
  BY <1>2, Invariant, PTL DEF Spec, AnswersAreAwaited

-----------------------------------------------------------------------------
(* Whatever keeps a submission back at the moment: the run that could send   *)
(* it is over, the queue was halted, or the kill switch stands.             *)
KeptBack ==
  /\ Untaken
  /\ signal \/ cli.pc \notin {"assert", "submit"} \/ row.state # "ORDER_SUBMITTING"

(* The host hands out what is queued only after the checks of Authorized,   *)
(* so what is kept back stays with the queue.                               *)
LEMMA KeptBackIsNotSent ==
  ASSUME TypeOK, KeptBack, NextCommand
  PROVE  \A i \in DOMAIN cmds : Submits(i) => cmds'[i].conn = 0
<1>0. \A i \in DOMAIN cmds : Submits(i) => cmds[i].conn = 0
  BY DEF KeptBack, Untaken, Submits
<1>1. CASE broker.disarm
  BY <1>0, <1>1 DEF NextCommand
<1>2. CASE ~broker.disarm
  <2>1. PICK i \in DOMAIN cmds :
          /\ cmds[i].status = "QUEUED"
          /\ IF cmds[i].type = "SUBMIT_ORDER" /\ ~Authorized(i)
             THEN Halt
             ELSE cmds' = [cmds EXCEPT ![i].status = "DISPATCHED", ![i].conn = broker.conn]
    BY <1>2 DEF NextCommand
  <2>2. ~(Submits(i) /\ Authorized(i))
    BY DEF KeptBack, Authorized, LeaseHeld
  <2>3. CASE Submits(i)
    BY <1>0, <2>1, <2>2, <2>3, QueueHalted DEF Halt, Rests, Submits
  <2>4. CASE ~Submits(i)
    <3>1. \A j \in DOMAIN cmds \ {i} : cmds'[j] = cmds[j]
      BY <2>1, <2>4, QueueDispatched DEF Submits
    <3> QED
      BY <1>0, <2>4, <3>1
  <2> QED
    BY <2>3, <2>4
<1> QED
  BY <1>1, <1>2

(* It is not handed out by any other step either, and not issued again.     *)
LEMMA KeptBackStays ==
  ASSUME Inv, Next, KeptBack
  PROVE  Untaken' /\ ~Authorize
<1> USE DEF Inv
<1>0. /\ row.submit # None
      /\ \A i \in DOMAIN cmds : Submits(i) => cmds[i].conn = 0
  BY DEF KeptBack, Untaken, Submits
<1>1. ~Authorize
  BY <1>0, Authorizes
<1>2. row'.submit # None
  BY <1>0, <1>1, LedgerMoves DEF Moves, Keeps
<1>3. \A i \in DOMAIN cmds' : Submits(i)' => cmds'[i].conn = 0
  <2>1. CASE QueueKept /\ Rests
    BY <1>0, <2>1 DEF QueueKept, Rests, Same, Submits
  <2>2. CASE QueueKept /\ NextCommand
    BY <2>2, KeptBackIsNotSent DEF QueueKept, Same, Submits
  <2>3. CASE EnqueueOrder
    BY <1>0, <2>3, Enqueues DEF Submits
  <2> QED
    BY <2>1, <2>2, <2>3, QueueMoves DEF NothingAnswered
<1> QED
  BY <1>1, <1>2, <1>3 DEF Untaken, Submits

(* Only the next process follows one that died, and it recovers first.      *)
LEMMA RevokedStays ==
  ASSUME Inv, Next, Revoked, Inv'
  PROVE  Revoked'
<1>1. Untaken' /\ ~Authorize
  BY KeptBackStays DEF Revoked, KeptBack
<1>2. CASE row.state # "ORDER_SUBMITTING"
  <2>1. row'.state # "ORDER_SUBMITTING"
    BY <1>1, <1>2, LedgerMoves DEF Inv, Moves, Keeps
  <2> QED
    BY <1>1, <2>1 DEF Revoked
<1>3. CASE row.state = "ORDER_SUBMITTING"
  <2>1. cli.pc = "dead"
    BY <1>3 DEF Revoked, Inv, SubmittingIsOwned
  <2>2. CASE CliStep
    <3>1. \E goal \in Goals : Start(goal)
      BY <2>1, <2>2 DEF CliStep, Cli, Dies, Live, EnqueueOrder, Refused, GiveUp, TakePrecheck, ArmSmoke,
        Authorize, NotAuthorized, AssertPermit, TakeSubmission, Unresolved, Unsure, Search, TakeOrder,
        TakeNoOrder, FinishReceipt, ClaimNotice, SendNotice, NoticeSent, Waiting
    <3>2. cli'.pc \in {"search", "first", "idle"}
      BY <3>1, Starts DEF Inv
    <3>3. row'.state # "ORDER_SUBMITTING"
      BY <3>2 DEF Inv, SubmittingIsOwned
    <3> QED
      BY <1>1, <3>3 DEF Revoked
  <2>3. CASE cli' = cli
    BY <1>1, <2>1, <2>3 DEF Revoked
  <2> QED
    BY <2>2, <2>3, ByWhom, EdgeFrame DEF SignalDisarm, ClearSignal, EnqueueDisarm, Passes
<1> QED
  BY <1>2, <1>3

(* A halted queue, a lost connection and the end of the run revoke a        *)
(* submission the host has not taken, for good; a kill switch, as long as   *)
(* it stands.                                                               *)
THEOREM RevocationHolds == Spec => RevokedNeverClicks
<1>1. ASSUME Inv, Inv', [Next]_vars
      PROVE  [/\ Revoked => Revoked' /\ clicks' = 0
              /\ Untaken /\ signal /\ signal' => Untaken' /\ clicks' = 0]_vars
  <2> SUFFICES ASSUME Next
               PROVE  /\ Revoked => Revoked' /\ clicks' = 0
                      /\ Untaken /\ signal => Untaken' /\ clicks' = 0
    BY <1>1
  <2>1. Untaken' => clicks' = 0
    BY <1>1 DEF Inv, ClickOK, Journaled, Untaken, Submits
  <2>2. Revoked => Revoked'
    BY <1>1, RevokedStays
  <2>3. Revoked' => Untaken'
    BY DEF Revoked
  <2>4. Untaken /\ signal => Untaken'
    BY <1>1, KeptBackStays DEF KeptBack
  <2> QED
    BY <2>1, <2>2, <2>3, <2>4
<1> QED
  BY <1>1, Invariant, PTL DEF Spec, RevokedNeverClicks
=============================================================================
