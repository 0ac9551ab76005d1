------------------------ MODULE ArmedPurchaseProofs ------------------------
(***************************************************************************)
(* Proofs about the armed worker, for any events, products, durations and  *)
(* bounds: its lease is a LiveGuard, what it asks is asked under a lease   *)
(* that stands, once per arming and once per product, what it reports as   *)
(* failed was never asked, and what it records follows the state graph.    *)
(***************************************************************************)
EXTENDS ArmedPurchase, SequenceTheorems, TLAPS

(* What a ledger call does to the row of e, as far as anything here needs:  *)
(* its new state is one of S, its time of dispatch is at.                   *)
RowTo(e, S, at) ==
  /\ intent' \in [Event -> Ledger!Row]
  /\ \A f \in Event \ {e} : intent'[f] = intent[f]
  /\ intent'[e].state \in S
  /\ intent'[e].submit = at

LEMMA RowReplaced ==
  ASSUME intent \in [Event -> Ledger!Row], NEW e \in Event, NEW r \in Ledger!Row,
         intent' = [intent EXCEPT ![e] = r]
  PROVE  /\ intent' \in [Event -> Ledger!Row]
         /\ \A f \in Event \ {e} : intent'[f] = intent[f]
         /\ intent'[e] = r
  OBVIOUS

(* Only the state, or the state and one more field of a row is written. *)
LEMMA RowFields ==
  ASSUME NEW r \in Ledger!Row, NEW s \in Ledger!State
  PROVE  /\ [r EXCEPT !.state = s] \in Ledger!Row
         /\ [r EXCEPT !.state = s].state = s
         /\ [r EXCEPT !.state = s].submit = r.submit
  BY DEF Ledger!Row

LEMMA StateWritten ==
  ASSUME intent \in [Event -> Ledger!Row], NEW e \in Event, NEW s \in Ledger!State,
         intent' = [intent EXCEPT ![e].state = s]
  PROVE  RowTo(e, {s}, intent[e].submit)
  <1>1. intent[e] \in Ledger!Row
    OBVIOUS
  <1> DEFINE r == [intent[e] EXCEPT !.state = s]
  <1>2. r \in Ledger!Row /\ r.state = s /\ r.submit = intent[e].submit
    BY <1>1, RowFields
  <1>3. intent' = [intent EXCEPT ![e] = r]
    OBVIOUS
  <1> HIDE DEF r
  <1> QED
    BY <1>2, <1>3, RowReplaced DEF RowTo

LEMMA Created ==
  ASSUME intent \in [Event -> Ledger!Row], NEW e \in Event, Ledger!Create(e)
  PROVE  RowTo(e, {"INTENT_CREATED"}, intent[e].submit)
  BY StateWritten DEF Ledger!Create, Ledger!State, Ledger!PreSubmit

LEMMA MarkedReady ==
  ASSUME intent \in [Event -> Ledger!Row], NEW e \in Event, Ledger!MarkCheckoutReady(e)
  PROVE  RowTo(e, {"CHECKOUT_READY"}, intent[e].submit)
  BY StateWritten DEF Ledger!MarkCheckoutReady, Ledger!State, Ledger!PreSubmit

LEMMA MarkedUncertain ==
  ASSUME intent \in [Event -> Ledger!Row], NEW e \in Event, Ledger!MarkUncertain(e)
  PROVE  RowTo(e, {"ORDER_UNCERTAIN", "RECONCILIATION_REQUIRED"}, intent[e].submit)
  <1> DEFINE s == Ledger!UncertainState(intent[e])
  <1>1. s \in {"ORDER_UNCERTAIN", "RECONCILIATION_REQUIRED"} /\ s \in Ledger!State
    BY DEF Ledger!UncertainState, Ledger!State, Ledger!ResultStates, Ledger!Unresolved
  <1>2. intent' = [intent EXCEPT ![e].state = s]
    BY DEF Ledger!MarkUncertain
  <1> HIDE DEF s
  <1> QED
    BY <1>1, <1>2, StateWritten DEF RowTo

LEMMA Waits ==
  ASSUME intent \in [Event -> Ledger!Row], NEW e \in Event, Ledger!MarkWaiting(e)
  PROVE  RowTo(e, {"WAITING_FOR_USER"}, intent[e].submit)
  BY StateWritten DEF Ledger!MarkWaiting, Ledger!State, Ledger!ResultStates, Ledger!Observed

LEMMA Aborted ==
  ASSUME intent \in [Event -> Ledger!Row], NEW e \in Event, Ledger!AbortBeforeSubmit(e)
  PROVE  RowTo(e, {"PRE_SUBMIT_ABORTED"}, intent[e].submit)
  BY StateWritten DEF Ledger!AbortBeforeSubmit, Ledger!State, Ledger!Terminal

LEMMA FoundAbsent ==
  ASSUME intent \in [Event -> Ledger!Row], NEW e \in Event, NEW n, NEW t, NEW q,
         Ledger!ReconcileAbsent(e, n, t, q)
  PROVE  RowTo(e, {"ORDER_SUBMIT_FAILED"}, intent[e].submit)
  BY StateWritten DEF Ledger!ReconcileAbsent, Ledger!State, Ledger!ResultStates

LEMMA FoundUnknown ==
  ASSUME intent \in [Event -> Ledger!Row], NEW e \in Event, Ledger!ReconcileUnknown(e)
  PROVE  RowTo(e, {"ORDER_UNCERTAIN", "RECONCILIATION_REQUIRED"}, intent[e].submit)
  <1> DEFINE s == Ledger!UncertainState(intent[e])
  <1>1. s \in {"ORDER_UNCERTAIN", "RECONCILIATION_REQUIRED"} /\ s \in Ledger!State
    BY DEF Ledger!UncertainState, Ledger!State, Ledger!ResultStates, Ledger!Unresolved
  <1>2. intent' = [intent EXCEPT ![e].state = s]
    BY DEF Ledger!ReconcileUnknown
  <1> HIDE DEF s
  <1> QED
    BY <1>1, <1>2, StateWritten DEF RowTo

LEMMA CartSet ==
  ASSUME intent \in [Event -> Ledger!Row], NEW e \in Event, Ledger!SetCart(e, Cart)
  PROVE  RowTo(e, {"CART_READY"}, intent[e].submit)
  <1> DEFINE r == [intent[e] EXCEPT !.cart = Cart, !.state = "CART_READY"]
  <1>1. intent[e] \in Ledger!Row /\ "CART_READY" \in Ledger!State
    BY DEF Ledger!State, Ledger!PreSubmit
  <1>2. r \in Ledger!Row /\ r.state = "CART_READY" /\ r.submit = intent[e].submit
    BY <1>1 DEF Ledger!Row
  <1>3. intent' = [intent EXCEPT ![e] = r]
    BY DEF Ledger!SetCart
  <1> HIDE DEF r
  <1> QED
    BY <1>2, <1>3, RowReplaced DEF RowTo

LEMMA NoticeClaimed ==
  ASSUME intent \in [Event -> Ledger!Row], NEW e \in Event,
         Ledger!ClaimPaymentNotification(e)
  PROVE  RowTo(e, {"PAYMENT_READY"}, intent[e].submit)
  <1> DEFINE r == [intent[e] EXCEPT !.notified = TRUE]
  <1>1. intent[e] \in Ledger!Row /\ intent[e].state = "PAYMENT_READY"
    BY DEF Ledger!ClaimPaymentNotification
  <1>2. r \in Ledger!Row /\ r.state = "PAYMENT_READY" /\ r.submit = intent[e].submit
    BY <1>1 DEF Ledger!Row
  <1>3. intent' = [intent EXCEPT ![e] = r]
    BY DEF Ledger!ClaimPaymentNotification
  <1> HIDE DEF r
  <1> QED
    BY <1>2, <1>3, RowReplaced DEF RowTo

(* The time of dispatch is a time. *)
LEMMA Submitted ==
  ASSUME intent \in [Event -> Ledger!Row], NEW e \in Event, Ledger!MarkSubmitting(e)
  PROVE  RowTo(e, {"ORDER_SUBMITTING"}, 0) /\ intent[e].state = "CHECKOUT_READY"
  <1> DEFINE r == [intent[e] EXCEPT !.state = "ORDER_SUBMITTING", !.submit = 0]
  <1>1. intent[e] \in Ledger!Row /\ "ORDER_SUBMITTING" \in Ledger!State /\ 0 \in Ledger!Time
    BY DEF Ledger!State, Ledger!ResultStates, Ledger!Unresolved, Ledger!Time
  <1>2. r \in Ledger!Row /\ r.state = "ORDER_SUBMITTING" /\ r.submit = 0
    BY <1>1 DEF Ledger!Row
  <1>3. intent' = [intent EXCEPT ![e] = r] /\ intent[e].state = "CHECKOUT_READY"
    BY DEF Ledger!MarkSubmitting
  <1> HIDE DEF r
  <1> QED
    BY <1>2, <1>3, RowReplaced DEF RowTo

(* A reported result leaves the time of dispatch, and an order behind it. *)
LEMMA PersistedFields ==
  ASSUME NEW old \in Ledger!Row, NEW res \in Receipts
  PROVE  LET p == Ledger!Persisted(old, res) IN
         p \in Ledger!Row /\ p.state \in Ledger!Observed /\ p.submit = old.submit
  <1> DEFINE o == Ledger!OrElse(res.order, old.order)
             i == Ledger!OrElse(res.invoice, old.invoice)
             u == Ledger!OrElse(res.url, old.url)
             v == Ledger!OrElse(res.evidence, old.evidence)
             m == Ledger!Merged(old, res)
             s == Ledger!ResultState(old, m)
             b == m.evidence # None
  <1>1. /\ res.order \in {TheOrder, None}
        /\ res.invoice \in {TheInvoice, None}
        /\ res.url \in {TheInvoice, None}
        /\ res.evidence \in Ledger!Evidence \cup {None}
    BY DEF Receipts, Ledger!Evidence
  <1>2. /\ o \in {TheOrder} \cup {None} /\ i \in {TheInvoice} \cup {None}
        /\ u \in {TheInvoice} \cup {None} /\ v \in Ledger!Evidence \cup {None}
    BY <1>1 DEF Ledger!Row, Ledger!OrElse
  <1>3. m = [old EXCEPT !.order = o, !.invoice = i, !.url = u, !.evidence = v]
    BY DEF Ledger!Merged
  <1>4. s \in Ledger!Observed
    BY DEF Ledger!ResultState, Ledger!Observed
  <1>5. s \in Ledger!State /\ b \in BOOLEAN
    BY <1>4 DEF Ledger!State, Ledger!ResultStates
  <1> HIDE DEF o, i, u, v
  <1>6. m \in Ledger!Row /\ m.submit = old.submit
    BY <1>2, <1>3 DEF Ledger!Row
  <1>7. Ledger!Persisted(old, res) = [m EXCEPT !.state = s, !.verified = b]
    BY DEF Ledger!Persisted
  <1> HIDE DEF m, s, b
  <1>8. [m EXCEPT !.state = s, !.verified = b] \in Ledger!Row
    BY <1>5, <1>6 DEF Ledger!Row
  <1>9. /\ [m EXCEPT !.state = s, !.verified = b].state = s
        /\ [m EXCEPT !.state = s, !.verified = b].submit = m.submit
    BY <1>6 DEF Ledger!Row
  <1> QED
    BY <1>4, <1>6, <1>7, <1>8, <1>9

LEMMA Recorded ==
  ASSUME intent \in [Event -> Ledger!Row], NEW e \in Event, NEW res \in Receipts,
         Ledger!PersistResult(e, res) \/ Ledger!ReconcileFound(e, res)
  PROVE  RowTo(e, Ledger!Observed, intent[e].submit)
  <1> DEFINE r == Ledger!Persisted(intent[e], res)
  <1>1. intent' = [intent EXCEPT ![e] = r]
    BY DEF Ledger!PersistResult, Ledger!ReconcileFound
  <1>2. r \in Ledger!Row /\ r.state \in Ledger!Observed /\ r.submit = intent[e].submit
    BY PersistedFields
  <1> HIDE DEF r
  <1> QED
    BY <1>1, <1>2, RowReplaced DEF RowTo

(* The start of a run rewrites every row of an interrupted submission. *)
LEMMA Recovered ==
  ASSUME intent \in [Event -> Ledger!Row], Ledger!RecoverInterrupted
  PROVE  /\ intent' \in [Event -> Ledger!Row]
         /\ \A e \in Event :
              /\ intent'[e].submit = intent[e].submit
              /\ intent[e].state # "ORDER_SUBMITTING" => intent'[e].state = intent[e].state
              /\ intent[e].state = "ORDER_SUBMITTING" =>
                   intent'[e].state \in {"ORDER_UNCERTAIN", "RECONCILIATION_REQUIRED"}
  <1> DEFINE s(e) == Ledger!UncertainState(intent[e])
             r(e) == IF intent[e].state = "ORDER_SUBMITTING"
                     THEN [intent[e] EXCEPT !.state = s(e)] ELSE intent[e]
  <1>1. \A e \in Event : s(e) \in {"ORDER_UNCERTAIN", "RECONCILIATION_REQUIRED"} /\ s(e) \in Ledger!State
    BY DEF Ledger!UncertainState, Ledger!State, Ledger!ResultStates, Ledger!Unresolved
  <1>2. intent' = [e \in Event |-> r(e)]
    BY DEF Ledger!RecoverInterrupted
  <1> HIDE DEF s
  <1>3. ASSUME NEW e \in Event
        PROVE  /\ r(e) \in Ledger!Row
               /\ r(e).submit = intent[e].submit
               /\ intent[e].state # "ORDER_SUBMITTING" => r(e).state = intent[e].state
               /\ intent[e].state = "ORDER_SUBMITTING" => r(e).state = s(e)
    <2>1. intent[e] \in Ledger!Row /\ s(e) \in Ledger!State
      BY <1>1
    <2> QED
      BY <2>1, RowFields
  <1> HIDE DEF r
  <1> QED
    BY <1>1, <1>2, <1>3

-----------------------------------------------------------------------------
(* The lease. *)

GuardTypes == Guard!TypeOK

(* What each clock says of the time since the lease was taken. *)
LeaseInv ==
  guard # None =>
    /\ guard \in Guard!Lease
    /\ guard.armed < guard.deadline
    /\ guard.deadline - guard.armed <= guard.until
    /\ guard.armed <= mono
    /\ since.mono => since.elapsed = mono - guard.armed
    /\ since.wall => since.elapsed = now - (guard.until - (guard.deadline - guard.armed))

GuardInv == GuardTypes /\ LeaseInv

LEMMA LeaseFields ==
  ASSUME Guard!TypeOK, guard # None
  PROVE  guard \in Guard!Lease
  BY DEF Guard!TypeOK

LEMMA GuardInvInit == Guard!Init => GuardInv
  BY ArmedAssumption DEF Guard!Init, GuardInv, GuardTypes, LeaseInv, Guard!TypeOK, Guard!Time,
     Guard!Since, Guard!Fresh, Guard!GuardAssumption

LEMMA SinceTyped ==
  ASSUME Guard!TypeOK, NEW s \in Guard!Since, Guard!Told(s)
  PROVE  since' \in Guard!Since
  BY ArmedAssumption DEF Guard!Told, Guard!Since, Guard!Fresh, Guard!Time, Guard!GuardAssumption

LEMMA GuardInvNext == GuardInv /\ [Guard!Next]_(Guard!guardVars) => GuardInv'
  <1> SUFFICES ASSUME GuardInv, [Guard!Next]_(Guard!guardVars)  PROVE GuardInv'
    OBVIOUS
  <1>m. MaxTime \in Nat /\ Hours \subseteq Nat \ {0} /\ Settings \subseteq 0 .. MaxTime
    BY ArmedAssumption DEF Guard!GuardAssumption
  <1>n. None \notin Guard!Lease
    BY ArmedAssumption DEF Guard!GuardAssumption, Guard!Lease, Guard!Time
  <1>t. /\ Guard!TypeOK
        /\ now \in 0 .. MaxTime /\ mono \in 0 .. MaxTime
        /\ signals \subseteq {"disarm", "stop"}
        /\ since \in Guard!Since /\ since.elapsed \in 0 .. MaxTime
        /\ since.wall \in BOOLEAN /\ since.mono \in BOOLEAN
        /\ guard \in Guard!Lease \cup {None}
        /\ guard # None => guard \in Guard!Lease
    BY DEF GuardInv, GuardTypes, Guard!TypeOK, Guard!Time, Guard!Since
  <1>1. CASE UNCHANGED Guard!guardVars
    BY <1>1 DEF Guard!guardVars, GuardInv, GuardTypes, LeaseInv, Guard!TypeOK
  <1>2. ASSUME UNCHANGED <<now, mono, guard, since>>, signals' \subseteq {"disarm", "stop"}
        PROVE  GuardInv'
    BY <1>2, <1>t DEF GuardInv, GuardTypes, LeaseInv, Guard!TypeOK
  <1>3. ASSUME NEW d \in Hours, Guard!Arm(d), UNCHANGED <<now, mono, signals>>
        PROVE  GuardInv'
    <2> DEFINE g == [armed |-> mono, deadline |-> mono + d, until |-> now + d]
    <2>1. d \in Nat /\ d > 0 /\ mono \in Nat /\ now \in Nat
      BY <1>m, <1>t
    <2>2. /\ g \in Guard!Lease
          /\ g.armed = mono /\ g.deadline = mono + d /\ g.until = now + d
      BY <1>t, <2>1 DEF Guard!Lease, Guard!Time
    <2>3. Guard!Fresh \in Guard!Since /\ Guard!Fresh.elapsed = 0
      BY <1>m DEF Guard!Fresh, Guard!Since, Guard!Time
    <2>4. guard' = g /\ since' = Guard!Fresh
      BY <1>3 DEF Guard!Arm
    <2> HIDE DEF g
    <2>5. GuardTypes'
      BY <1>3, <1>t, <2>2, <2>3, <2>4 DEF GuardTypes, Guard!TypeOK, Guard!Time
    <2>6. LeaseInv'
      BY <1>3, <2>1, <2>2, <2>3, <2>4 DEF LeaseInv
    <2> QED
      BY <2>5, <2>6 DEF GuardInv
  <1>4. CASE Guard!Disarm /\ UNCHANGED <<now, mono, signals>>
    <2>1. Guard!Fresh \in Guard!Since
      BY <1>m DEF Guard!Fresh, Guard!Since, Guard!Time
    <2> QED
      BY <1>4, <1>t, <2>1 DEF Guard!Disarm, GuardInv, GuardTypes, LeaseInv, Guard!TypeOK, Guard!Time
  <1>5. CASE Guard!Tick
    <2> DEFINE s == [elapsed |-> Guard!Longer(since.elapsed), mono |-> since.mono,
                     wall |-> since.wall /\ now < MaxTime]
    <2>1. Guard!Longer(since.elapsed) \in 0 .. MaxTime /\ Guard!Longer(now) \in 0 .. MaxTime
      BY <1>m, <1>t DEF Guard!Longer
    <2>2. s \in Guard!Since /\ s.elapsed = Guard!Longer(since.elapsed)
          /\ s.mono = since.mono /\ s.wall = (since.wall /\ now < MaxTime)
      BY <1>t, <2>1 DEF Guard!Since, Guard!Time
    <2>3. Guard!Told(s) /\ UNCHANGED <<signals, guard>> /\ mono < MaxTime /\ mono' = mono + 1
          /\ now' = Guard!Longer(now)
      BY <1>5 DEF Guard!Tick
    <2> HIDE DEF s
    <2>4. since' \in Guard!Since
      BY <2>2, <2>3, SinceTyped DEF GuardInv, GuardTypes
    <2>5. GuardTypes'
      BY <1>m, <1>t, <2>1, <2>3, <2>4 DEF GuardTypes, Guard!TypeOK, Guard!Time
    <2>6. LeaseInv'
      <3> SUFFICES ASSUME guard # None PROVE LeaseInv'
        BY <2>3 DEF LeaseInv
      <3>1. since' = s /\ guard' = guard
        BY <2>3 DEF Guard!Told
      <3>2. /\ guard \in Guard!Lease /\ guard.armed \in Nat
            /\ guard.deadline \in Nat /\ guard.until \in Nat
        BY <1>t DEF Guard!Lease, Guard!Time
      <3>3. /\ guard.armed < guard.deadline
            /\ guard.deadline - guard.armed <= guard.until
            /\ guard.armed <= mono
            /\ since.mono => since.elapsed = mono - guard.armed
            /\ since.wall => since.elapsed = now - (guard.until - (guard.deadline - guard.armed))
        BY DEF GuardInv, LeaseInv
      <3>4. guard.armed <= mono'
        BY <1>t, <2>3, <3>2, <3>3
      <3>5. since'.mono => since'.elapsed = mono' - guard.armed
        BY <1>m, <1>t, <2>2, <2>3, <3>1, <3>2, <3>3 DEF Guard!Longer
      <3>6. ASSUME since'.wall
            PROVE  since'.elapsed = now' - (guard.until - (guard.deadline - guard.armed))
        <4>1. since.wall /\ now < MaxTime
          BY <2>2, <3>1, <3>6, Zenon
        <4>2. since.elapsed = now - (guard.until - (guard.deadline - guard.armed)) /\ now' = now + 1
          BY <2>3, <3>3, <4>1 DEF Guard!Longer
        <4>3. since'.elapsed = since.elapsed + 1
          BY <1>m, <1>t, <2>2, <3>1, <3>2, <3>3, <4>1, <4>2 DEF Guard!Longer
        <4> QED
          BY <1>t, <3>2, <4>2, <4>3
      <3> QED
        BY <3>1, <3>2, <3>3, <3>4, <3>5, <3>6 DEF LeaseInv
    <2> QED
      BY <2>5, <2>6 DEF GuardInv
  <1>6. CASE Guard!Sleep
    <2> DEFINE s == [elapsed |-> Guard!Longer(since.elapsed), mono |-> FALSE, wall |-> since.wall]
    <2>1. Guard!Longer(since.elapsed) \in 0 .. MaxTime
      BY <1>m, <1>t DEF Guard!Longer
    <2>2. s \in Guard!Since /\ s.elapsed = Guard!Longer(since.elapsed)
          /\ s.mono = FALSE /\ s.wall = since.wall
      BY <1>t, <2>1 DEF Guard!Since, Guard!Time
    <2>3. Guard!Told(s) /\ UNCHANGED <<mono, signals, guard>> /\ now < MaxTime /\ now' = now + 1
      BY <1>6 DEF Guard!Sleep
    <2> HIDE DEF s
    <2>4. since' \in Guard!Since
      BY <2>2, <2>3, SinceTyped DEF GuardInv, GuardTypes
    <2>5. GuardTypes'
      BY <1>m, <1>t, <2>3, <2>4 DEF GuardTypes, Guard!TypeOK, Guard!Time
    <2>6. LeaseInv'
      <3> SUFFICES ASSUME guard # None PROVE LeaseInv'
        BY <2>3 DEF LeaseInv
      <3>1. since' = s /\ guard' = guard
        BY <2>3 DEF Guard!Told
      <3>2. /\ guard \in Guard!Lease /\ guard.armed \in Nat
            /\ guard.deadline \in Nat /\ guard.until \in Nat
        BY <1>t DEF Guard!Lease, Guard!Time
      <3>3. /\ guard.deadline - guard.armed <= guard.until
            /\ since.wall => since.elapsed = now - (guard.until - (guard.deadline - guard.armed))
        BY DEF GuardInv, LeaseInv
      <3>4. since'.wall => since'.elapsed = now' - (guard.until - (guard.deadline - guard.armed))
        BY <1>m, <1>t, <2>2, <2>3, <3>1, <3>2, <3>3 DEF Guard!Longer
      <3>5. /\ guard \in Guard!Lease
            /\ guard.armed < guard.deadline
            /\ guard.armed <= mono
        BY <1>t DEF GuardInv, LeaseInv
      <3> QED
        BY <2>2, <2>3, <3>1, <3>3, <3>4, <3>5 DEF LeaseInv
    <2> QED
      BY <2>5, <2>6 DEF GuardInv
  <1>7. ASSUME NEW t \in Settings, Guard!SetClock(t)
        PROVE  GuardInv'
    <2> DEFINE s == [since EXCEPT !.wall = FALSE]
    <2>1. s \in Guard!Since /\ s.elapsed = since.elapsed /\ s.mono = since.mono /\ s.wall = FALSE
      BY <1>t DEF Guard!Since
    <2>2. Guard!Told(s) /\ UNCHANGED <<mono, signals, guard>> /\ now' = t
      BY <1>7 DEF Guard!SetClock
    <2> HIDE DEF s
    <2>3. since' \in Guard!Since
      BY <2>1, <2>2, SinceTyped DEF GuardInv, GuardTypes
    <2>4. GuardTypes'
      BY <1>m, <1>t, <2>2, <2>3 DEF GuardTypes, Guard!TypeOK, Guard!Time
    <2>5. guard # None => since' = s
      BY <2>2 DEF Guard!Told
    <2>6. LeaseInv'
      BY <2>1, <2>2, <2>5 DEF LeaseInv, GuardInv
    <2> QED
      BY <2>4, <2>6 DEF GuardInv
  <1>8. CASE \/ Guard!Write({"disarm"}) \/ Guard!Write({"stop"}) \/ Guard!Write({"disarm", "stop"})
             \/ Guard!Clear("disarm") \/ Guard!Clear("stop")
    BY <1>2, <1>8, <1>t DEF Guard!Write, Guard!Clear
  <1> QED
    BY <1>1, <1>3, <1>4, <1>5, <1>6, <1>7, <1>8 DEF Guard!Next, Guard!Outside

LEMMA LeaseShort == GuardInv => Guard!LeaseIsShort
  <1> SUFFICES ASSUME GuardInv, Guard!Stands, since.wall \/ since.mono
               PROVE  since.elapsed < guard.deadline - guard.armed
    BY DEF Guard!LeaseIsShort
  <1>1. guard # None /\ mono < guard.deadline /\ now < guard.until
    <2>1. guard # None /\ ~(mono >= guard.deadline) /\ ~(now >= guard.until)
      BY DEF Guard!Stands, Guard!Expired
    <2>2. guard \in Guard!Lease /\ mono \in Nat /\ now \in Nat
      BY <2>1, ArmedAssumption DEF GuardInv, GuardTypes, LeaseInv, Guard!TypeOK, Guard!Time, Guard!GuardAssumption
    <2>3. guard.deadline \in Nat /\ guard.until \in Nat
      BY <2>2 DEF Guard!Lease
    <2> QED
      BY <2>1, <2>2, <2>3
  <1>2. /\ guard.armed \in Nat /\ guard.deadline \in Nat /\ guard.until \in Nat
        /\ mono \in Nat /\ now \in Nat /\ since.elapsed \in Nat
    BY <1>1, ArmedAssumption DEF GuardInv, GuardTypes, LeaseInv, Guard!Lease, Guard!Time, Guard!TypeOK,
       Guard!Since, Guard!GuardAssumption
  <1> QED
    BY <1>1, <1>2 DEF GuardInv, LeaseInv

(* Every step of the worker leaves the lease, takes one, or gives it up, and *)
(* lets no time pass; every other step is the guard's own.                   *)
LEMMA GuardSteps == [Next]_vars => [Guard!Next]_(Guard!guardVars)
  <1> DEFINE Same == UNCHANGED <<clocks, guard, since>>
             Gone == Guard!Disarm /\ UNCHANGED clocks
             Taken == \E d \in Hours : Guard!Arm(d) /\ UNCHANGED clocks
  <1> SUFFICES ASSUME [Next]_vars PROVE Same \/ Gone \/ Taken \/ Guard!Outside
    BY DEF clocks, Guard!guardVars, Guard!Next
  <1>1. CASE UNCHANGED vars
    BY <1>1 DEF vars, clocks
  <1>2. ASSUME NEW command \in Command, Start(command)
        PROVE  Same
    BY <1>2 DEF Start
  <1>3. ASSUME NEW d \in Hours, Arm(d)
        PROVE  Taken
    BY <1>3 DEF Arm
  <1>4. CASE Refused \/ LoopTop \/ QueueEmpty \/ Waited \/ StopBeforeNext \/ Done
    BY <1>4 DEF Refused, LoopTop, QueueEmpty, Waited, StopBeforeNext, Done
  <1>5. ASSUME NEW found \in SUBSET (Event \ known), Discover(found)
        PROVE  Same
    BY <1>5 DEF Discover
  <1>6. CASE Purchase
    <2>1. ASSUME NEW e \in Event, AlreadyOrdered(e) \/ Claim(e) \/ Recover(e)
          PROVE  Same
      BY <2>1 DEF AlreadyOrdered, Claim, Recover
    <2>2. CASE Open \/ Verified \/ EnterCart \/ Prepared \/ CheckoutReady \/ Mark \/ Dispatch
      BY <2>2 DEF Open, Verified, EnterCart, Prepared, CheckoutReady, Mark, Dispatch
    <2>3. ASSUME NEW res \in Receipts, Receipt(res) \/ Found(res)
          PROVE  Same
      BY <2>3 DEF Receipt, Found
    <2>4. CASE ClaimNotice \/ Mailed \/ Absent \/ Unresolved
      BY <2>4 DEF ClaimNotice, Mailed, Absent, Unresolved
    <2>5. ASSUME NEW why, FailBeforeAsking(why) \/ FailAsking(why)
          PROVE  Same \/ Gone
      BY <2>5 DEF FailBeforeAsking, FailAsking, Disarms
    <2> QED
      BY <1>6, <2>1, <2>2, <2>3, <2>4, <2>5 DEF Purchase
  <1>7. CASE BrowserClosed
    BY <1>7 DEF BrowserClosed
  <1>8. CASE Outside
    BY <1>8 DEF Outside
  <1>9. CASE Interrupt \/ Killed
    BY <1>9 DEF Interrupt, Killed
  <1> QED
    BY <1>1, <1>2, <1>3, <1>4, <1>5, <1>6, <1>7, <1>8, <1>9 DEF Next, Worker

(* The worker's lease is a LiveGuard: whatever holds of every run of that    *)
(* module holds of the lease a run of phase2_cli.py works under.             *)
THEOREM ImplementsGuard == Spec => Guard!Spec
  <1>1. Init => Guard!Init
    BY DEF Init
  <1> QED
    BY <1>1, GuardSteps, PTL DEF Spec, Guard!Spec

THEOREM GuardInvariant == Guard!Spec => []GuardInv
  BY GuardInvInit, GuardInvNext, PTL DEF Guard!Spec

(* A lease that still stands was taken less than its duration ago, unless    *)
(* the clock was set and the machine slept: of every behaviour of LiveGuard. *)
THEOREM LeasesAreShort == Guard!Spec => []Guard!LeaseIsShort
  BY GuardInvariant, LeaseShort, PTL

-----------------------------------------------------------------------------
(* The worker. *)

AtWork == {"check1", "verify", "check2", "cart", "ready", "mark", "check3", "submit",
           "reconcile", "claim", "mail", "done"}
Asking == {"check1", "verify", "check2", "cart", "ready", "mark", "check3"}
BeforeAsk == Asking \cup {"idle", "preflight", "top", "discover", "next", "wait"}
OnTheWay == {"verify", "check2", "cart", "ready", "mark", "check3", "submit"}
NotYet == {"NO_INTENT", "INTENT_CREATED", "CART_READY", "CHECKOUT_READY", "ORDER_PRECHECK"}

RunTyped ==
  /\ DOMAIN run = {"pc", "command", "event", "queue", "chain", "asks", "n"}
  /\ run.pc \in Steps /\ run.event \in Event \cup {None}
  /\ run.queue \subseteq Event /\ run.asks \in Nat

Types ==
  /\ RunTyped
  /\ intent \in [Event -> Ledger!Row]
  /\ DOMAIN told = Event
  /\ asked \in [Event -> Nat]
  /\ lost \subseteq Event /\ known \subseteq Event

(* What every row and its event satisfy. *)
EventOK(e) ==
  /\ row(e).state \in NotYet => row(e).submit = None
  /\ asked[e] > 0 =>
       /\ asked[e] = 1
       /\ Ledger!Active(e) /\ row(e).submit # None
       /\ \A f \in Event \ {e} : ProductOf[f] = ProductOf[e] => asked[f] = 0
  /\ told[e] \in Unasked => asked[e] = 0 /\ ~Ledger!Active(e)
  /\ told[e] = "PENDING" => row(e).state = "NO_INTENT"
  /\ e \in run.queue /\ run.command = "reconcile" => Ledger!Active(e)
  /\ row(e).state \in Unfinished => e \in lost \/ (run.pc \in OnTheWay /\ run.event = e)

(* Where the run stands says what its event's row is. *)
PlaceOK(pc, r) ==
  /\ pc = "check1" => r.state = "NO_INTENT"
  /\ pc \in {"verify", "check2", "cart"} => r.state = "INTENT_CREATED"
  /\ pc = "ready" => r.state = "CART_READY"
  /\ pc = "mark" => r.state = "CHECKOUT_READY"
  /\ pc \in {"check3", "submit"} => r.state = "ORDER_SUBMITTING" /\ r.submit # None
  /\ pc \in {"reconcile", "claim", "mail"} => r.state \notin Ledger!Terminal \cup {"NO_INTENT"}

RunOK ==
  /\ run.pc \in AtWork => run.event \in Event /\ PlaceOK(run.pc, row(run.event))
  /\ run.pc \in Asking =>
       /\ run.command = "arm"
       /\ \A f \in Event : ProductOf[f] = ProductOf[run.event] => asked[f] = 0
  /\ run.pc \in {"preflight", "top", "discover", "wait"} => run.command = "arm"
  /\ run.asks <= 1
  /\ run.asks > 0 => run.command = "arm" /\ run.pc \notin BeforeAsk

Inv == Types /\ RunOK /\ \A e \in Event : EventOK(e)

(* A step at work on event e: its row, what is told of it, and the place in  *)
(* the run are all that changes.                                             *)
WorkStep(e, p) ==
  /\ RunTyped'
  /\ run'.pc = p /\ run'.event = e
  /\ run'.command = run.command /\ run'.queue = run.queue /\ run'.asks = run.asks
  /\ intent' \in [Event -> Ledger!Row]
  /\ \A f \in Event \ {e} : intent'[f] = intent[f]
  /\ DOMAIN told' = Event
  /\ \A f \in Event \ {e} : told'[f] = told[f]
  /\ UNCHANGED <<asked, lost, known>>

(* What such a step must see to. *)
LocalOK(e, p) ==
  LET r == intent'[e] IN
  /\ r.state \in NotYet => r.submit = None
  /\ p \in AtWork /\ PlaceOK(p, r)
  /\ p \in Asking => run.pc \in Asking
  /\ Ledger!Active(e) /\ row(e).submit # None =>
       r.state \notin Ledger!Terminal \cup {"NO_INTENT"} /\ r.submit # None
  /\ told'[e] \in Unasked =>
       asked[e] = 0 /\ r.state \in Ledger!Terminal \cup {"NO_INTENT"}
  /\ told'[e] # "PENDING"
  /\ run.command = "reconcile" /\ Ledger!Active(e) => r.state \notin Ledger!Terminal \cup {"NO_INTENT"}
  /\ r.state \in Unfinished => e \in lost \/ p \in OnTheWay

LEMMA WorkStepKeeps ==
  ASSUME Inv, NEW e \in Event, NEW p, run.pc \in AtWork, run.event = e,
         WorkStep(e, p), LocalOK(e, p)
  PROVE  Inv'
  <1>1. Types'
    BY DEF Inv, Types, WorkStep
  <1>2. \/ /\ run.command = "arm" /\ run.asks = 0
           /\ \A f \in Event : ProductOf[f] = ProductOf[e] => asked[f] = 0
        \/ p \notin Asking
    <2>1. run.asks \in Nat
      BY DEF Inv, Types, RunTyped
    <2> QED
      BY <2>1 DEF Inv, RunOK, LocalOK, BeforeAsk
  <1>3. RunOK'
    <2>1. p \in AtWork /\ PlaceOK(p, intent'[e])
      BY DEF LocalOK
    <2>2. p \notin {"idle", "preflight", "top", "discover", "next", "wait"}
      BY <2>1 DEF AtWork
    <2> QED
      BY <1>2, <2>1, <2>2 DEF Inv, RunOK, WorkStep, BeforeAsk, row
  <1>4. EventOK(e)'
    <2> DEFINE r == intent'[e]
               Gone == Ledger!Terminal \cup {"NO_INTENT"}
    <2>1. /\ asked' = asked /\ lost' = lost /\ run'.pc = p /\ run'.event = e
          /\ run'.queue = run.queue /\ run'.command = run.command
          /\ row(e)' = r /\ (Ledger!Active(e)' <=> r.state \notin Gone)
      BY DEF WorkStep, row, Ledger!Active
    <2>2. EventOK(e)
      BY DEF Inv
    <2>3. /\ r.state \in NotYet => r.submit = None
          /\ Ledger!Active(e) /\ row(e).submit # None => r.state \notin Gone /\ r.submit # None
          /\ told'[e] \in Unasked => asked[e] = 0 /\ r.state \in Gone
          /\ told'[e] # "PENDING"
          /\ run.command = "reconcile" /\ Ledger!Active(e) => r.state \notin Gone
          /\ r.state \in Unfinished => e \in lost \/ p \in OnTheWay
      BY DEF LocalOK
    <2> HIDE DEF r, Gone
    <2> QED
      BY <2>1, <2>2, <2>3 DEF EventOK
  <1>5. ASSUME NEW f \in Event \ {e}
        PROVE  EventOK(f)'
    <2>1. row(f)' = row(f) /\ told'[f] = told[f] /\ asked' = asked /\ lost' = lost
          /\ run'.queue = run.queue /\ run'.command = run.command
          /\ Ledger!Active(f)' = Ledger!Active(f)
      BY DEF WorkStep, row, Ledger!Active
    <2>2. EventOK(f) /\ run.event # f
      BY DEF Inv
    <2> QED
      BY <2>1, <2>2 DEF EventOK
  <1> QED
    BY <1>1, <1>3, <1>4, <1>5 DEF Inv

(* The three parts of such a step: the place, the report, and the row. *)
RunTo(e, p) ==
  /\ RunTyped'
  /\ run'.pc = p /\ run'.event = e
  /\ run'.command = run.command /\ run'.queue = run.queue /\ run'.asks = run.asks

ToldOf(e, w) ==
  /\ DOMAIN told' = Event
  /\ \A f \in Event \ {e} : told'[f] = told[f]
  /\ told'[e] = w

LEMMA GotoFields ==
  ASSUME RunTyped, NEW p \in Steps, Goto(p)
  PROVE  RunTo(run.event, p)
  BY DEF Goto, RunTyped, RunTo

LEMMA WalkFields ==
  ASSUME RunTyped, NEW p \in Steps, NEW s, Walk(p, s)
  PROVE  RunTo(run.event, p)
  <1> DEFINE c == run.chain \o s
  <1>1. run' = [run EXCEPT !.pc = p, !.chain = c]
    BY DEF Walk
  <1> HIDE DEF c
  <1> QED
    BY <1>1 DEF RunTyped, RunTo

LEMMA Told ==
  ASSUME DOMAIN told = Event, NEW e \in Event, NEW w, Tell(e, w)
  PROVE  ToldOf(e, w)
  BY DEF Tell, ToldOf

LEMMA Untold ==
  ASSUME DOMAIN told = Event, NEW e \in Event, UNCHANGED told
  PROVE  ToldOf(e, told[e])
  BY DEF ToldOf

LEMMA RowKept ==
  ASSUME intent \in [Event -> Ledger!Row], NEW e \in Event, UNCHANGED intent
  PROVE  RowTo(e, {row(e).state}, row(e).submit)
  BY DEF RowTo, row

(* At work there is an event, its row is where the run says, and the order  *)
(* it might have asked for is none or one that is remembered.               *)
LEMMA Working ==
  ASSUME Inv, run.pc \in AtWork
  PROVE  /\ RunTyped /\ run.event \in Event
         /\ intent \in [Event -> Ledger!Row] /\ DOMAIN told = Event
         /\ PlaceOK(run.pc, row(run.event))
         /\ EventOK(run.event)
         /\ run.pc \in Asking => run.command = "arm" /\ asked[run.event] = 0
  BY DEF Inv, Types, RunOK

(* A step between two places before the request: nobody was asked, and the   *)
(* row goes on without a time of dispatch.                                   *)
LEMMA AskingKeeps ==
  ASSUME Inv, NEW p \in {"verify", "check2", "cart", "ready", "mark"}, NEW w,
         NEW s \in {"INTENT_CREATED", "CART_READY", "CHECKOUT_READY"},
         run.pc \in {"check1", "verify", "check2", "cart", "ready"},
         w \notin Unasked, w # "PENDING",
         RunTo(run.event, p), ToldOf(run.event, w),
         RowTo(run.event, {s}, row(run.event).submit),
         p \in {"verify", "check2", "cart"} => s = "INTENT_CREATED",
         p = "ready" => s = "CART_READY", p = "mark" => s = "CHECKOUT_READY",
         UNCHANGED <<asked, lost, known>>
  PROVE  Inv'
  <1> DEFINE e == run.event
  <1>1. run.pc \in AtWork /\ run.pc \in Asking /\ p \in AtWork /\ p \in Asking /\ p \in OnTheWay
    BY DEF AtWork, Asking, OnTheWay
  <1>2. e \in Event /\ PlaceOK(run.pc, row(e)) /\ EventOK(e) /\ run.command = "arm"
    BY <1>1, Working
  <1>3. row(e).state \in NotYet /\ row(e).submit = None
    BY <1>2 DEF PlaceOK, EventOK, NotYet
  <1>4. WorkStep(e, p)
    BY DEF WorkStep, RunTo, ToldOf, RowTo
  <1>5. intent'[e].state = s /\ intent'[e].submit = None /\ told'[e] = w
    BY <1>3 DEF RowTo, ToldOf
  <1>6. PlaceOK(p, intent'[e])
    BY <1>5 DEF PlaceOK
  <1>7. s \notin Ledger!Terminal \cup {"NO_INTENT"}
    BY DEF Ledger!Terminal
  <1>8. LocalOK(e, p)
    BY <1>1, <1>2, <1>3, <1>5, <1>6, <1>7 DEF LocalOK
  <1> QED
    BY <1>1, <1>2, <1>4, <1>8, WorkStepKeeps

LEMMA OpenKeeps == ASSUME Inv, Open PROVE Inv'
  <1>1. run.pc = "check1" /\ run.pc \in AtWork /\ "verify" \in Steps
    BY DEF Open, AtWork, Steps, Awaits
  <1>2. RunTyped /\ run.event \in Event /\ PlaceOK(run.pc, row(run.event))
        /\ intent \in [Event -> Ledger!Row] /\ DOMAIN told = Event /\ EventOK(run.event)
    BY <1>1, Working
  <1>3. /\ Ledger!Create(run.event)
        /\ Tell(run.event, "VERIFYING")
        /\ Walk("verify", <<"DETECTED", "VERIFYING">>)
        /\ UNCHANGED <<asked, lost, known>>
    BY DEF Open
  <1>5. RowTo(run.event, {"INTENT_CREATED"}, row(run.event).submit)
    BY <1>2, <1>3, Created DEF row
  <1>6. RunTo(run.event, "verify")
    BY <1>1, <1>2, <1>3, WalkFields
  <1>7. ToldOf(run.event, "VERIFYING")
    BY <1>2, <1>3, Told
  <1> QED
    BY <1>1, <1>3, <1>5, <1>6, <1>7, AskingKeeps DEF Unasked

LEMMA PreparedKeeps == ASSUME Inv, Prepared PROVE Inv'
  <1>1. run.pc = "cart" /\ run.pc \in AtWork /\ "ready" \in Steps
    BY DEF Prepared, AtWork, Steps, Awaits
  <1>2. RunTyped /\ run.event \in Event /\ PlaceOK(run.pc, row(run.event))
        /\ intent \in [Event -> Ledger!Row] /\ DOMAIN told = Event /\ EventOK(run.event)
    BY <1>1, Working
  <1>3. /\ Ledger!SetCart(run.event, Cart)
        /\ Tell(run.event, "CART_READY")
        /\ Walk("ready", <<"CART_READY">>)
        /\ UNCHANGED <<asked, lost, known>>
    BY DEF Prepared
  <1>5. RowTo(run.event, {"CART_READY"}, row(run.event).submit)
    BY <1>2, <1>3, CartSet DEF row
  <1>6. RunTo(run.event, "ready")
    BY <1>1, <1>2, <1>3, WalkFields
  <1>7. ToldOf(run.event, "CART_READY")
    BY <1>2, <1>3, Told
  <1> QED
    BY <1>1, <1>3, <1>5, <1>6, <1>7, AskingKeeps DEF Unasked

LEMMA CheckoutReadyKeeps == ASSUME Inv, CheckoutReady PROVE Inv'
  <1>1. run.pc = "ready" /\ run.pc \in AtWork /\ "mark" \in Steps
    BY DEF CheckoutReady, AtWork, Steps, Awaits
  <1>2. RunTyped /\ run.event \in Event /\ PlaceOK(run.pc, row(run.event))
        /\ intent \in [Event -> Ledger!Row] /\ DOMAIN told = Event /\ EventOK(run.event)
    BY <1>1, Working
  <1>3. /\ Ledger!MarkCheckoutReady(run.event)
        /\ Tell(run.event, "CHECKOUT_READY")
        /\ Walk("mark", <<"CHECKOUT_READY">>)
        /\ UNCHANGED <<asked, lost, known>>
    BY DEF CheckoutReady
  <1>5. RowTo(run.event, {"CHECKOUT_READY"}, row(run.event).submit)
    BY <1>2, <1>3, MarkedReady DEF row
  <1>6. RunTo(run.event, "mark")
    BY <1>1, <1>2, <1>3, WalkFields
  <1>7. ToldOf(run.event, "CHECKOUT_READY")
    BY <1>2, <1>3, Told
  <1> QED
    BY <1>1, <1>3, <1>5, <1>6, <1>7, AskingKeeps DEF Unasked

LEMMA VerifiedKeeps == ASSUME Inv, Verified PROVE Inv'
  <1>1. run.pc = "verify" /\ run.pc \in AtWork /\ "check2" \in Steps
    BY DEF Verified, AtWork, Steps, Awaits
  <1>2. RunTyped /\ run.event \in Event /\ PlaceOK(run.pc, row(run.event))
        /\ intent \in [Event -> Ledger!Row] /\ DOMAIN told = Event /\ EventOK(run.event)
    BY <1>1, Working
  <1>3. /\ UNCHANGED intent
        /\ Tell(run.event, "OPENING_BROWSER")
        /\ Walk("check2", <<"PRODUCT_VERIFIED", "OPENING_BROWSER">>)
        /\ UNCHANGED <<asked, lost, known>>
    BY DEF Verified
  <1>5. RowTo(run.event, {row(run.event).state}, row(run.event).submit)
    BY <1>2, <1>3, RowKept
  <1>6. RunTo(run.event, "check2")
    BY <1>1, <1>2, <1>3, WalkFields
  <1>7. ToldOf(run.event, "OPENING_BROWSER")
    BY <1>2, <1>3, Told
  <1>8. row(run.event).state = "INTENT_CREATED"
    BY <1>1, <1>2 DEF PlaceOK
  <1> QED
    BY <1>1, <1>8, <1>3, <1>5, <1>6, <1>7, AskingKeeps DEF Unasked

LEMMA EnterCartKeeps == ASSUME Inv, EnterCart PROVE Inv'
  <1>1. run.pc = "check2" /\ run.pc \in AtWork /\ run.pc \in Asking /\ "cart" \in Steps
    BY DEF EnterCart, AtWork, Asking, Steps, Awaits
  <1>2. RunTyped /\ run.event \in Event /\ PlaceOK(run.pc, row(run.event))
        /\ intent \in [Event -> Ledger!Row] /\ DOMAIN told = Event /\ EventOK(run.event)
    BY <1>1, Working
  <1>3. Goto("cart") /\ UNCHANGED <<intent, told, asked, lost, known>>
    BY DEF EnterCart
  <1>4. RowTo(run.event, {row(run.event).state}, row(run.event).submit)
    BY <1>2, <1>3, RowKept
  <1>5. RunTo(run.event, "cart")
    BY <1>1, <1>2, <1>3, GotoFields
  <1>6. ToldOf(run.event, told[run.event])
    BY <1>2, <1>3, Untold
  <1>7. row(run.event).state = "INTENT_CREATED"
    BY <1>1, <1>2 DEF PlaceOK
  <1>8. told[run.event] \notin Unasked /\ told[run.event] # "PENDING"
    BY <1>2, <1>7 DEF EventOK, Ledger!Active, Ledger!Terminal, row
  <1> QED
    BY <1>1, <1>3, <1>4, <1>5, <1>6, <1>7, <1>8, AskingKeeps

(* A step from the stored permission on: the row stays where a result is    *)
(* expected or known, with its time of dispatch.                            *)
LEMMA LaterKeeps ==
  ASSUME Inv, run.pc \in AtWork, NEW p \in AtWork, NEW w, NEW S, NEW at,
         w \notin Unasked, w # "PENDING",
         S \subseteq Ledger!ResultStates,
         RunTo(run.event, p), ToldOf(run.event, w), RowTo(run.event, S, at),
         row(run.event).submit # None => at # None,
         p \in Asking => run.pc \in Asking,
         PlaceOK(p, intent'[run.event]),
         "ORDER_SUBMITTING" \in S => p \in OnTheWay,
         UNCHANGED <<asked, lost, known>>
  PROVE  Inv'
  <1> DEFINE e == run.event
  <1>1. e \in Event /\ EventOK(e)
    BY Working
  <1>2. WorkStep(e, p)
    BY DEF WorkStep, RunTo, ToldOf, RowTo
  <1>3. intent'[e].state \in S /\ intent'[e].submit = at /\ told'[e] = w
    BY DEF RowTo, ToldOf
  <1>4. /\ S \cap (Ledger!Terminal \cup {"NO_INTENT"}) = {}
        /\ S \cap NotYet = {}
        /\ S \cap Unfinished \subseteq {"ORDER_SUBMITTING"}
    BY DEF Ledger!ResultStates, Ledger!Terminal, NotYet, Unfinished, Ledger!Unresolved,
           Ledger!Observed, Ledger!PreSubmit
  <1>5. LocalOK(e, p)
    BY <1>3, <1>4 DEF LocalOK
  <1> QED
    BY <1>1, <1>2, <1>5, WorkStepKeeps

LEMMA MarkKeeps == ASSUME Inv, Mark PROVE Inv'
  <1>1. run.pc = "mark" /\ run.pc \in AtWork /\ run.pc \in Asking
        /\ "check3" \in Steps /\ "check3" \in AtWork /\ "check3" \in OnTheWay
    BY DEF Mark, AtWork, Asking, OnTheWay, Steps, Awaits
  <1>2. RunTyped /\ run.event \in Event
        /\ intent \in [Event -> Ledger!Row] /\ DOMAIN told = Event
    BY <1>1, Working
  <1>3. /\ Ledger!MarkSubmitting(run.event)
        /\ Tell(run.event, "ORDER_SUBMITTING")
        /\ Walk("check3", <<"ORDER_SUBMITTING">>)
        /\ UNCHANGED <<asked, lost, known>>
    BY DEF Mark
  <1>4. RowTo(run.event, {"ORDER_SUBMITTING"}, 0) /\ 0 # None
    BY <1>2, <1>3, Submitted, ArmedAssumption
  <1>5. RunTo(run.event, "check3")
    BY <1>1, <1>2, <1>3, WalkFields
  <1>6. ToldOf(run.event, "ORDER_SUBMITTING")
    BY <1>2, <1>3, Told
  <1>7. PlaceOK("check3", intent'[run.event])
    BY <1>4 DEF PlaceOK, RowTo
  <1>8. {"ORDER_SUBMITTING"} \subseteq Ledger!ResultStates
    BY DEF Ledger!ResultStates, Ledger!Unresolved
  <1> QED
    BY <1>1, <1>3, <1>4, <1>5, <1>6, <1>7, <1>8, LaterKeeps DEF Unasked

(* The receipt that is recorded ends in a state of Observed. *)
LEMMA StepsEnd ==
  ASSUME NEW r, NEW res
  PROVE  LET s == ReceiptSteps(r, res) IN
         s[Len(s)] \in {"INVOICE_NOT_FOUND", "PAYMENT_URL_NOT_FOUND",
                        "PAYMENT_URL_READY", "PAYMENT_READY"}
  BY DEF ReceiptSteps

LEMMA FinishKeeps ==
  ASSUME Inv, run.pc \in {"submit", "reconcile"}, NEW res \in Receipts, NEW before,
         Ledger!PersistResult(run.event, res) \/ Ledger!ReconcileFound(run.event, res),
         NEW pc \in {"done", "reconcile"}, NEW what, what \notin Unasked, what # "PENDING",
         FinishReceipt(run.event, res, before, pc, what),
         UNCHANGED <<asked, lost, known>>
  PROVE  Inv'
  <1> DEFINE e == run.event
             s == ReceiptSteps(intent'[e], res)
             w == IF Refuses(e, res) THEN what ELSE s[Len(s)]
             p == CASE Refuses(e, res) -> pc
                    [] Proved(intent'[e], res) /\ ~Refuses(e, res) -> "claim"
                    [] OTHER -> "done"
  <1>1. /\ run.pc \in AtWork
        /\ p \in {"claim", "done", "reconcile"}
        /\ p \in Steps /\ p \in AtWork /\ p \notin Asking
    BY DEF AtWork, Asking, Steps, Awaits
  <1>2. RunTyped /\ e \in Event
        /\ intent \in [Event -> Ledger!Row] /\ DOMAIN told = Event
    BY <1>1, Working
  <1>3. Tell(e, w) /\ run' = [run EXCEPT !.pc = p, !.chain = before \o s]
    BY DEF FinishReceipt
  <1>4. w \notin Unasked /\ w # "PENDING"
    <2>1. w \in {"INVOICE_NOT_FOUND", "PAYMENT_URL_NOT_FOUND", "PAYMENT_URL_READY",
                 "PAYMENT_READY", what}
      BY StepsEnd
    <2> QED
      BY <2>1 DEF Unasked
  <1>5. RowTo(e, Ledger!Observed, row(e).submit)
    BY <1>2, Recorded DEF row
  <1> HIDE DEF w, s, p
  <1>6. RunTo(e, p)
    BY <1>1, <1>2, <1>3 DEF RunTyped, RunTo
  <1>7. ToldOf(e, w)
    BY <1>2, <1>3, Told
  <1>8. /\ Ledger!Observed \subseteq Ledger!ResultStates
        /\ "ORDER_SUBMITTING" \notin Ledger!Observed
        /\ Ledger!Observed \cap (Ledger!Terminal \cup {"NO_INTENT"}) = {}
    BY DEF Ledger!ResultStates, Ledger!Observed, Ledger!Terminal
  <1>9. PlaceOK(p, intent'[e])
    BY <1>1, <1>5, <1>8 DEF PlaceOK, RowTo
  <1> QED
    BY <1>1, <1>4, <1>5, <1>6, <1>7, <1>8, <1>9, LaterKeeps

(* What is told of an order that was found but cannot be reported as payable. *)
LEMMA FoundUnverified ==
  ASSUME Inv, NEW res \in Receipts, Found(res)
  PROVE  Unverified(intent'[run.event]) \notin Unasked \cup {"PENDING"}
  <1>1. run.event \in Event /\ intent \in [Event -> Ledger!Row]
    BY Working DEF Found, AtWork
  <1>2. intent'[run.event].state \in Ledger!Observed
    BY <1>1, Recorded DEF Found, RowTo
  <1> QED
    BY <1>2 DEF Unverified, Unasked, Ledger!Observed

LEMMA WaitingKeeps ==
  ASSUME Inv, run.pc \in {"claim", "mail"},
         Ledger!MarkWaiting(run.event), Tell(run.event, "WAITING_FOR_USER"),
         Walk("done", <<"WAITING_FOR_USER">>),
         UNCHANGED <<asked, lost, known>>
  PROVE  Inv'
  <1>1. run.pc \in AtWork /\ "done" \in Steps /\ "done" \in AtWork /\ "done" \notin Asking
    BY DEF AtWork, Asking, Steps, Awaits
  <1>2. RunTyped /\ run.event \in Event
        /\ intent \in [Event -> Ledger!Row] /\ DOMAIN told = Event
    BY <1>1, Working
  <1>3. RowTo(run.event, {"WAITING_FOR_USER"}, row(run.event).submit)
    BY <1>2, Waits DEF row
  <1>4. RunTo(run.event, "done")
    BY <1>1, <1>2, WalkFields
  <1>5. ToldOf(run.event, "WAITING_FOR_USER")
    BY <1>2, Told
  <1>6. PlaceOK("done", intent'[run.event])
    BY DEF PlaceOK
  <1>7. {"WAITING_FOR_USER"} \subseteq Ledger!ResultStates
    BY DEF Ledger!ResultStates, Ledger!Observed
  <1> QED
    BY <1>1, <1>3, <1>4, <1>5, <1>6, <1>7, LaterKeeps DEF Unasked

LEMMA MailedKeeps == ASSUME Inv, Mailed PROVE Inv'
  BY WaitingKeeps DEF Mailed

(* An order that was asked for is not reported as unasked. *)
LEMMA NotUntold ==
  ASSUME Inv, run.pc \in AtWork,
         row(run.event).state \notin Ledger!Terminal \cup {"NO_INTENT"}
  PROVE  told[run.event] \notin Unasked /\ told[run.event] # "PENDING"
  <1>1. EventOK(run.event)
    BY Working
  <1> QED
    BY <1>1 DEF EventOK, Ledger!Active, row

LEMMA ClaimNoticeKeeps == ASSUME Inv, ClaimNotice PROVE Inv'
  <1>1. run.pc = "claim" /\ run.pc \in AtWork
        /\ "mail" \in Steps /\ "mail" \in AtWork /\ "mail" \notin Asking
    BY DEF ClaimNotice, AtWork, Asking, Steps, Awaits
  <1>2. CASE row(run.event).notified
    BY <1>1, <1>2, WaitingKeeps DEF ClaimNotice
  <1>3. CASE ~row(run.event).notified
    <2>1. RunTyped /\ run.event \in Event
          /\ intent \in [Event -> Ledger!Row] /\ DOMAIN told = Event
          /\ PlaceOK("claim", row(run.event))
      BY <1>1, Working
    <2>2. /\ Ledger!ClaimPaymentNotification(run.event)
          /\ Goto("mail") /\ UNCHANGED told
          /\ UNCHANGED <<asked, lost, known>>
      BY <1>3 DEF ClaimNotice
    <2>3. RowTo(run.event, {"PAYMENT_READY"}, row(run.event).submit)
      BY <2>1, <2>2, NoticeClaimed DEF row
    <2>4. RunTo(run.event, "mail")
      BY <1>1, <2>1, <2>2, GotoFields
    <2>5. ToldOf(run.event, told[run.event])
      BY <2>1, <2>2, Untold
    <2>6. PlaceOK("mail", intent'[run.event])
      BY <2>3 DEF PlaceOK, RowTo, Ledger!Terminal
    <2>7. {"PAYMENT_READY"} \subseteq Ledger!ResultStates
      BY DEF Ledger!ResultStates, Ledger!Observed
    <2>8. told[run.event] \notin Unasked /\ told[run.event] # "PENDING"
      BY <1>1, <2>1, NotUntold DEF PlaceOK
    <2> QED
      BY <1>1, <2>2, <2>3, <2>4, <2>5, <2>6, <2>7, <2>8, LaterKeeps
  <1> QED
    BY <1>2, <1>3

LEMMA FailAskingKeeps ==
  ASSUME Inv, NEW why, FailAsking(why)
  PROVE  Inv'
  <1>1. run.pc \in {"check3", "submit"} /\ run.pc \in AtWork
        /\ "reconcile" \in Steps /\ "reconcile" \in AtWork /\ "reconcile" \notin Asking
    BY DEF FailAsking, AtWork, Asking, Steps, Awaits
  <1>2. RunTyped /\ run.event \in Event
        /\ intent \in [Event -> Ledger!Row] /\ DOMAIN told = Event
        /\ PlaceOK(run.pc, row(run.event))
    BY <1>1, Working
  <1>3. /\ Ledger!MarkUncertain(run.event)
        /\ Goto("reconcile") /\ UNCHANGED told
        /\ UNCHANGED <<asked, lost, known>>
    BY DEF FailAsking
  <1> DEFINE S == {"ORDER_UNCERTAIN", "RECONCILIATION_REQUIRED"}
  <1>4. RowTo(run.event, S, row(run.event).submit)
    BY <1>2, <1>3, MarkedUncertain DEF row
  <1>5. RunTo(run.event, "reconcile")
    BY <1>1, <1>2, <1>3, GotoFields
  <1>6. ToldOf(run.event, told[run.event])
    BY <1>2, <1>3, Untold
  <1>7. row(run.event).state = "ORDER_SUBMITTING"
    BY <1>1, <1>2 DEF PlaceOK
  <1>8. told[run.event] \notin Unasked /\ told[run.event] # "PENDING"
    BY <1>1, <1>7, NotUntold DEF Ledger!Terminal
  <1>9. PlaceOK("reconcile", intent'[run.event])
    BY <1>4 DEF PlaceOK, RowTo, Ledger!Terminal
  <1>10. S \subseteq Ledger!ResultStates /\ "ORDER_SUBMITTING" \notin S
    BY DEF Ledger!ResultStates, Ledger!Unresolved
  <1> QED
    BY <1>1, <1>3, <1>4, <1>5, <1>6, <1>8, <1>9, <1>10, LaterKeeps

LEMMA AbsentKeeps == ASSUME Inv, Absent PROVE Inv'
  <1>1. run.pc \in AtWork /\ "done" \in Steps /\ "done" \in AtWork /\ "done" \notin Asking
    BY DEF Absent, AtWork, Asking, Steps, Awaits
  <1>2. RunTyped /\ run.event \in Event
        /\ intent \in [Event -> Ledger!Row] /\ DOMAIN told = Event
    BY <1>1, Working
  <1>3. /\ Ledger!ReconcileAbsent(run.event, None, now, TheQuote)
        /\ Tell(run.event, "ORDER_SUBMIT_FAILED")
        /\ Goto("done")
        /\ UNCHANGED <<asked, lost, known>>
    BY DEF Absent
  <1>4. RowTo(run.event, {"ORDER_SUBMIT_FAILED"}, row(run.event).submit)
    BY <1>2, <1>3, FoundAbsent DEF row
  <1>5. RunTo(run.event, "done")
    BY <1>1, <1>2, <1>3, GotoFields
  <1>6. ToldOf(run.event, "ORDER_SUBMIT_FAILED")
    BY <1>2, <1>3, Told
  <1>7. PlaceOK("done", intent'[run.event])
    BY DEF PlaceOK
  <1>8. {"ORDER_SUBMIT_FAILED"} \subseteq Ledger!ResultStates
    BY DEF Ledger!ResultStates
  <1> QED
    BY <1>1, <1>3, <1>4, <1>5, <1>6, <1>7, <1>8, LaterKeeps DEF Unasked

LEMMA UnresolvedKeeps == ASSUME Inv, Unresolved PROVE Inv'
  <1> DEFINE e == run.event
             w == Unverified(intent'[e])
  <1>1. run.pc = "reconcile" /\ run.pc \in AtWork
        /\ "done" \in Steps /\ "done" \in AtWork /\ "done" \notin Asking
    BY DEF Unresolved, AtWork, Asking, Steps, Awaits
  <1>2. RunTyped /\ e \in Event
        /\ intent \in [Event -> Ledger!Row] /\ DOMAIN told = Event
        /\ PlaceOK("reconcile", row(e)) /\ EventOK(e)
    BY <1>1, Working
  <1>3. /\ Tell(e, w) /\ Goto("done") /\ UNCHANGED <<asked, lost, known>>
    BY DEF Unresolved
  <1>4. ToldOf(e, w) /\ RunTo(e, "done")
    BY <1>1, <1>2, <1>3, Told, GotoFields
  <1>5. row(e).state \in Ledger!State /\ row(e).state \notin Ledger!Terminal
    BY <1>2 DEF PlaceOK, Ledger!Row, row
  <1>6. PlaceOK("done", intent'[e])
    BY DEF PlaceOK
  <1> HIDE DEF w
  <1>7. CASE row(e).order = None
    <2> DEFINE S == {"ORDER_UNCERTAIN", "RECONCILIATION_REQUIRED"}
    <2>1. RowTo(e, S, row(e).submit)
      BY <1>2, <1>7, FoundUnknown DEF Unresolved, row
    <2>2. w \in S
      BY <2>1 DEF w, RowTo, Unverified
    <2>3. S \subseteq Ledger!ResultStates /\ "ORDER_SUBMITTING" \notin S
      BY DEF Ledger!ResultStates, Ledger!Unresolved
    <2>4. w \notin Unasked /\ w # "PENDING"
      BY <2>2 DEF Unasked
    <2> QED
      BY <1>1, <1>3, <1>4, <1>6, <2>1, <2>3, <2>4, LaterKeeps
  <1>8. CASE row(e).order # None
    <2>1. UNCHANGED intent
      BY <1>8 DEF Unresolved
    <2>2. w \in (Ledger!State \cup {"RECONCILIATION_REQUIRED"}) \ Ledger!Terminal
      BY <1>5, <2>1 DEF w, Unverified, row, Ledger!Terminal
    <2>3. w \notin Unasked /\ w # "PENDING"
      BY <2>2 DEF Unasked, Ledger!State, Ledger!PreSubmit, Ledger!ResultStates,
                  Ledger!Terminal, Ledger!Unresolved, Ledger!Observed
    <2>4. WorkStep(e, "done")
      BY <1>2, <1>3, <1>4, <2>1 DEF WorkStep, RunTo, ToldOf
    <2>5. told'[e] = w /\ intent'[e] = row(e)
      BY <1>4, <2>1 DEF ToldOf, row
    <2>6. run.pc \notin OnTheWay
      BY <1>1 DEF OnTheWay
    <2>7. LocalOK(e, "done")
      BY <1>1, <1>2, <1>6, <2>3, <2>5, <2>6 DEF LocalOK, EventOK, PlaceOK
    <2> QED
      BY <1>1, <1>2, <2>4, <2>7, WorkStepKeeps
  <1> QED
    BY <1>7, <1>8

LEMMA FailBeforeAskingKeeps ==
  ASSUME Inv, NEW why \in {"HUMAN", "LIVE_NOT_ARMED", "FAILED"}, FailBeforeAsking(why)
  PROVE  Inv'
  <1> DEFINE e == run.event
  <1>1. /\ run.pc \in {"check1", "verify", "check2", "cart"}
        /\ run.pc \in AtWork /\ run.pc \in Asking
        /\ "done" \in Steps /\ "done" \in AtWork /\ "done" \notin Asking
    BY DEF FailBeforeAsking, AtWork, Asking, Steps, Awaits
  <1>2. RunTyped /\ e \in Event
        /\ intent \in [Event -> Ledger!Row] /\ DOMAIN told = Event
        /\ PlaceOK(run.pc, row(e)) /\ EventOK(e)
        /\ run.command = "arm" /\ asked[e] = 0
    BY <1>1, Working
  <1>3. /\ Tell(e, why) /\ Goto("done") /\ UNCHANGED <<asked, lost, known>>
    BY DEF FailBeforeAsking
  <1>4. ToldOf(e, why) /\ RunTo(e, "done")
    BY <1>1, <1>2, <1>3, Told, GotoFields
  <1>5. RowTo(e, {"NO_INTENT", "PRE_SUBMIT_ABORTED"}, row(e).submit)
    <2>1. CASE run.pc = "check1"
      BY <1>2, <2>1, RowKept DEF FailBeforeAsking, PlaceOK, RowTo
    <2>2. CASE run.pc # "check1"
      BY <1>2, <2>2, Aborted DEF FailBeforeAsking, RowTo, row
    <2> QED
      BY <2>1, <2>2
  <1>6. row(e).submit = None
    BY <1>1, <1>2 DEF PlaceOK, EventOK, NotYet
  <1>7. WorkStep(e, "done")
    BY <1>3, <1>4, <1>5 DEF WorkStep, RunTo, ToldOf, RowTo
  <1>8. /\ intent'[e].state \in {"NO_INTENT", "PRE_SUBMIT_ABORTED"}
        /\ intent'[e].submit = None /\ told'[e] = why
    BY <1>4, <1>5, <1>6 DEF RowTo, ToldOf
  <1>9. LocalOK(e, "done")
    BY <1>1, <1>2, <1>6, <1>8
       DEF LocalOK, PlaceOK, Unfinished, Ledger!PreSubmit, Ledger!Terminal
  <1> QED
    BY <1>1, <1>2, <1>7, <1>9, WorkStepKeeps

(* The request: the product was not asked for before, and its row says when. *)
LEMMA DispatchKeeps == ASSUME Inv, Dispatch PROVE Inv'
  <1> DEFINE e == run.event
  <1>1. /\ run.pc = "check3" /\ run.pc \in AtWork /\ run.pc \in Asking
        /\ run.pc \in OnTheWay /\ "submit" \in OnTheWay
        /\ "submit" \in Steps /\ "submit" \in AtWork /\ "submit" \notin BeforeAsk
    BY DEF Dispatch, AtWork, Asking, OnTheWay, BeforeAsk, Steps, Awaits
  <1>2. /\ RunTyped /\ e \in Event /\ PlaceOK("check3", row(e)) /\ run.command = "arm"
        /\ asked \in [Event -> Nat]
    BY <1>1, Working DEF Inv, Types
  <1>3. run.asks = 0 /\ \A f \in Event : ProductOf[f] = ProductOf[e] => asked[f] = 0
    BY <1>1, <1>2 DEF Inv, RunOK, RunTyped, BeforeAsk
  <1>4. asked[e] = 0
    BY <1>2, <1>3
  <1>5. /\ asked' = [asked EXCEPT ![e] = @ + 1]
        /\ run' = [run EXCEPT !.pc = "submit", !.asks = @ + 1]
        /\ UNCHANGED <<intent, told, lost, known>>
    BY DEF Dispatch, Ask
  <1>6. /\ asked' \in [Event -> Nat]
        /\ asked'[e] = 1 /\ \A f \in Event \ {e} : asked'[f] = asked[f]
    BY <1>2, <1>4, <1>5
  <1>7. /\ RunTyped'
        /\ run'.pc = "submit" /\ run'.event = e /\ run'.asks = 1
        /\ run'.command = run.command /\ run'.queue = run.queue
    BY <1>1, <1>2, <1>3, <1>5 DEF RunTyped
  <1>8. Types'
    BY <1>5, <1>6, <1>7 DEF Inv, Types
  <1>9. RunOK'
    BY <1>1, <1>2, <1>5, <1>7 DEF RunOK, PlaceOK, Asking, row
  <1>10. ASSUME NEW f \in Event
         PROVE  EventOK(f)'
    <2>1. row(f)' = row(f) /\ told'[f] = told[f] /\ (Ledger!Active(f)' <=> Ledger!Active(f))
      BY <1>5 DEF row, Ledger!Active
    <2>2. EventOK(f)
      BY DEF Inv
    <2>3. CASE f = e
      <3>1. Ledger!Active(e) /\ row(e).submit # None
        BY <1>2 DEF PlaceOK, Ledger!Active, Ledger!Terminal, row
      <3>2. \A g \in Event \ {e} : ProductOf[g] = ProductOf[e] => asked'[g] = 0
        BY <1>3, <1>6
      <3> QED
        BY <1>1, <1>2, <1>5, <1>6, <1>7, <2>1, <2>2, <2>3, <3>1, <3>2 DEF EventOK
    <2>4. CASE f # e
      <3>1. asked'[f] = asked[f] /\ (asked[f] > 0 => ProductOf[f] # ProductOf[e])
        BY <1>2, <1>3, <1>6, <2>4
      <3>2. asked[f] > 0 => \A g \in Event \ {f} : ProductOf[g] = ProductOf[f] => asked'[g] = 0
        BY <1>6, <2>2, <3>1 DEF EventOK
      <3> QED
        BY <1>5, <1>7, <2>1, <2>2, <2>4, <3>1, <3>2 DEF EventOK
    <2> QED
      BY <2>3, <2>4
  <1> QED
    BY <1>8, <1>9, <1>10 DEF Inv

(* A step of the run alone, not on the way to a request. *)
LEMMA RunStepKeeps ==
  ASSUME Inv, UNCHANGED <<intent, told, asked, lost>>, known' \subseteq Event,
         RunTyped', run.pc \notin OnTheWay, RunOK',
         \A e \in run'.queue : run'.command = "reconcile" => Ledger!Active(e)
  PROVE  Inv'
  <1>1. Types'
    BY DEF Inv, Types
  <1>2. ASSUME NEW e \in Event
        PROVE  EventOK(e)'
    <2>1. row(e)' = row(e) /\ (Ledger!Active(e)' <=> Ledger!Active(e))
      BY DEF row, Ledger!Active
    <2>2. EventOK(e)
      BY DEF Inv
    <2> QED
      BY <2>1, <2>2 DEF EventOK
  <1> QED
    BY <1>1, <1>2 DEF Inv

(* The end of a run. *)
LEMMA EndedFields ==
  ASSUME run' = Ended
  PROVE  /\ RunTyped' /\ RunOK'
         /\ run'.pc = "idle" /\ run'.event = None /\ run'.queue = {} /\ run'.command = None
         /\ run'.asks = 0
  <1>1. /\ DOMAIN run' = {"pc", "command", "event", "queue", "chain", "asks", "n"}
        /\ run'.pc = "idle" /\ run'.event = None /\ run'.queue = {} /\ run'.command = None
        /\ run'.asks = 0
    BY DEF Ended, Idle
  <1>2. "idle" \in Steps /\ "idle" \notin AtWork /\ "idle" \notin Asking
    BY DEF Steps, AtWork, Asking
  <1> QED
    BY <1>1, <1>2 DEF RunTyped, RunOK

LEMMA EndKeeps ==
  ASSUME Inv, run' = Ended, run.pc \notin OnTheWay, UNCHANGED <<intent, told, asked, lost, known>>
  PROVE  Inv'
  BY EndedFields, RunStepKeeps DEF Inv, Types

(* The steps of the loop, between two purchases. *)
Between == {"preflight", "top", "discover", "next", "wait"}

LEMMA LoopKeeps ==
  ASSUME Inv, run.pc \in Between \cup {"done"}, NEW p \in Between \cup {"hold"}, Goto(p),
         run.pc = "done" /\ p # "hold" => run.command # "arm",
         p \in {"preflight", "top", "discover", "wait"} => run.command = "arm",
         UNCHANGED <<intent, told, asked, lost, known>>
  PROVE  Inv'
  <1>1. p \in Steps /\ p \notin AtWork /\ p \notin Asking
    BY DEF Between, Steps, Awaits, AtWork, Asking
  <1>2. RunTyped
    BY DEF Inv, Types
  <1>3. RunTo(run.event, p)
    BY <1>1, <1>2, GotoFields
  <1>4. run.pc \notin OnTheWay
    BY DEF Between, OnTheWay
  <1>5. run.asks > 0 => run.command = "arm" /\ p = "hold" /\ run.asks <= 1
    BY DEF Inv, RunOK, Between, BeforeAsk
  <1>6. RunOK'
    <2>1. run.asks <= 1 /\ "hold" \notin BeforeAsk
      BY DEF Inv, RunOK, BeforeAsk, Asking
    <2> QED
      BY <1>1, <1>3, <1>5, <2>1 DEF RunOK, RunTo
  <1>7. \A e \in run'.queue : run'.command = "reconcile" => Ledger!Active(e)
    BY <1>2, <1>3 DEF Inv, RunTo, EventOK, RunTyped
  <1> QED
    BY <1>3, <1>4, <1>6, <1>7, RunStepKeeps DEF RunTo, Inv, Types

LEMMA DiscoverKeeps ==
  ASSUME Inv, NEW found \in SUBSET (Event \ known), Discover(found)
  PROVE  Inv'
  <1>1. /\ run.pc = "discover" /\ run.pc \in BeforeAsk /\ run.pc \notin OnTheWay
        /\ "next" \in Steps /\ "next" \notin AtWork /\ "next" \notin Asking
    BY DEF Discover, OnTheWay, BeforeAsk, Steps, AtWork, Asking
  <1>2. RunTyped /\ run.asks = 0 /\ known \subseteq Event
    BY <1>1 DEF Inv, Types, RunOK, RunTyped
  <1>3. /\ run' = [run EXCEPT !.pc = "next", !.queue = found]
        /\ known' = known \cup found /\ UNCHANGED <<intent, told, asked, lost>>
    BY DEF Discover
  <1>4. RunTyped' /\ run'.pc = "next" /\ run'.asks = 0 /\ run'.queue = found
        /\ run'.command = run.command
    BY <1>1, <1>2, <1>3 DEF RunTyped
  <1> QED
    <2>1. RunOK'
      BY <1>1, <1>4 DEF RunOK
    <2>2. run.command # "reconcile"
      BY <1>1 DEF Inv, RunOK
    <2> QED
      BY <1>1, <1>2, <1>3, <1>4, <2>1, <2>2, RunStepKeeps

(* recover() and the loop over the events take the next one. *)
LEMMA TakeKeeps ==
  ASSUME Inv, run.pc = "next", NEW e \in Event,
         NEW p \in {"done", "reconcile"}, NEW Q \in SUBSET run.queue,
         run' = [run EXCEPT !.pc = p, !.event = e, !.queue = Q],
         p = "reconcile" => Ledger!Active(e),
         UNCHANGED <<intent, told, asked, lost, known>>
  PROVE  Inv'
  <1>1. /\ run.pc \in BeforeAsk /\ run.pc \notin OnTheWay
        /\ p \in Steps /\ p \notin Asking /\ p \in AtWork
    BY DEF OnTheWay, BeforeAsk, Steps, Awaits, Asking, AtWork
  <1>2. RunTyped /\ run.asks = 0 /\ known \subseteq Event
    BY <1>1 DEF Inv, Types, RunOK, RunTyped
  <1>3. /\ RunTyped' /\ run'.pc = p /\ run'.event = e /\ run'.asks = 0
        /\ run'.queue = Q /\ run'.command = run.command
    BY <1>1, <1>2 DEF RunTyped
  <1>4. PlaceOK(p, row(e)')
    BY DEF PlaceOK, row, Ledger!Active
  <1>5. RunOK'
    BY <1>1, <1>3, <1>4 DEF RunOK
  <1>6. \A f \in run'.queue : run'.command = "reconcile" => Ledger!Active(f)
    BY <1>2, <1>3 DEF Inv, EventOK, RunTyped
  <1> QED
    BY <1>1, <1>2, <1>3, <1>5, <1>6, RunStepKeeps

LEMMA AlreadyOrderedKeeps ==
  ASSUME Inv, NEW e \in Event, AlreadyOrdered(e)
  PROVE  Inv'
  <1>1. DOMAIN run = {"pc", "command", "event", "queue", "chain", "asks", "n"}
    BY DEF Inv, Types, RunTyped
  <1>2. run' = [run EXCEPT !.pc = "done", !.event = e]
    BY DEF AlreadyOrdered
  <1>3. run' = [run EXCEPT !.pc = "done", !.event = e, !.queue = run.queue]
    BY <1>1, <1>2
  <1> QED
    BY <1>3, TakeKeeps DEF AlreadyOrdered

LEMMA RecoverKeeps ==
  ASSUME Inv, NEW e \in Event, Recover(e)
  PROVE  Inv'
  <1>1. Ledger!Active(e)
    BY DEF Recover, Inv, EventOK
  <1>2. run' = [run EXCEPT !.pc = "reconcile", !.event = e, !.queue = run.queue \ {e}]
    BY DEF Recover
  <1> QED
    BY <1>1, <1>2, TakeKeeps DEF Recover

LEMMA ClaimKeeps ==
  ASSUME Inv, NEW e \in Event, Claim(e)
  PROVE  Inv'
  <1>1. /\ run.pc = "next" /\ run.pc \in BeforeAsk /\ run.pc \notin OnTheWay
        /\ "check1" \in Steps /\ "check1" \in Asking /\ "check1" \in AtWork
        /\ "check1" \notin OnTheWay
    BY DEF Claim, OnTheWay, BeforeAsk, Steps, Awaits, Asking, AtWork
  <1>2. RunTyped /\ run.asks = 0 /\ DOMAIN told = Event
    BY <1>1 DEF Inv, Types, RunOK, RunTyped
  <1>3. /\ run' = [run EXCEPT !.pc = "check1", !.event = e, !.queue = @ \ {e},
                              !.chain = <<"INTENT_CREATED">>]
        /\ run.command = "arm" /\ told[e] = "PENDING" /\ Holders(e) = {}
        /\ Tell(e, "CLAIMED") /\ UNCHANGED <<intent, asked, lost, known>>
    BY DEF Claim
  <1> DEFINE c == <<"INTENT_CREATED">>
  <1>4. run' = [run EXCEPT !.pc = "check1", !.event = e, !.queue = run.queue \ {e}, !.chain = c]
    BY <1>3
  <1> HIDE DEF c
  <1>5. /\ RunTyped' /\ run'.pc = "check1" /\ run'.event = e /\ run'.asks = 0
        /\ run'.command = "arm"
    BY <1>1, <1>2, <1>3, <1>4 DEF RunTyped
  <1>6. ToldOf(e, "CLAIMED")
    BY <1>2, <1>3, Told
  <1>7. \A f \in Event : ProductOf[f] = ProductOf[e] => asked[f] = 0
    <2>1. ASSUME NEW f \in Event, ProductOf[f] = ProductOf[e]
          PROVE  asked[f] = 0
      <3>1. ~Ledger!Active(f)
        BY <1>3, <2>1 DEF Holders
      <3>2. EventOK(f) /\ asked[f] \in Nat
        BY DEF Inv, Types
      <3> QED
        BY <3>1, <3>2 DEF EventOK
    <2> QED
      BY <2>1
  <1>8. row(e).state = "NO_INTENT"
    BY <1>3 DEF Inv, EventOK
  <1>9. RunOK'
    BY <1>1, <1>3, <1>5, <1>7, <1>8 DEF RunOK, PlaceOK, row
  <1>10. Types'
    BY <1>3, <1>5, <1>6 DEF Inv, Types, ToldOf
  <1>11. ASSUME NEW f \in Event
         PROVE  EventOK(f)'
    <2>1. row(f)' = row(f) /\ (Ledger!Active(f)' <=> Ledger!Active(f))
      BY <1>3 DEF row, Ledger!Active
    <2>2. EventOK(f) /\ (told'[f] = told[f] \/ told'[f] = "CLAIMED")
      BY <1>6 DEF Inv, ToldOf
    <2>3. told'[f] \in Unasked => told'[f] = told[f]
      BY <2>2 DEF Unasked
    <2>4. told'[f] = "PENDING" => told'[f] = told[f]
      BY <2>2
    <2> QED
      BY <1>1, <1>3, <1>5, <2>1, <2>2, <2>3, <2>4 DEF EventOK
  <1> QED
    BY <1>9, <1>10, <1>11 DEF Inv

(* A run ends at work on an event, and sees to its row first. *)
LEMMA WorkEndKeeps ==
  ASSUME Inv, run.pc \in AtWork, run' = Ended, NEW S, NEW w,
         RowTo(run.event, S, row(run.event).submit), ToldOf(run.event, w),
         w # "PENDING", S \cap Unfinished = {},
         w \in Unasked => S \subseteq Ledger!Terminal \cup {"NO_INTENT"} /\ row(run.event).submit = None,
         row(run.event).submit # None => S \cap (Ledger!Terminal \cup {"NO_INTENT"} \cup NotYet) = {},
         UNCHANGED <<asked, lost, known>>
  PROVE  Inv'
  <1>0. PICK e \in Event : e = run.event
    BY Working
  <1>1. EventOK(e) /\ asked[e] \in Nat
    BY DEF Inv, Types
  <1>2. Types' /\ RunOK' /\ run'.pc = "idle" /\ run'.queue = {}
    BY EndedFields DEF Inv, Types, RowTo, ToldOf
  <1>3. intent'[e].state \in S /\ intent'[e].submit = row(e).submit /\ told'[e] = w
    BY <1>0 DEF RowTo, ToldOf
  <1>4. asked[e] > 0 => row(e).submit # None
    BY <1>1 DEF EventOK
  <1>5. EventOK(e)'
    <2> DEFINE r == intent'[e]
               Gone == Ledger!Terminal \cup {"NO_INTENT"}
    <2>1. row(e)' = r /\ (Ledger!Active(e)' <=> r.state \notin Gone) /\ asked' = asked
      BY DEF row, Ledger!Active
    <2>2. r.state \in NotYet => r.submit = None
      BY <1>0, <1>3
    <2>3. asked[e] > 0 => r.state \notin Gone /\ r.submit # None
      BY <1>0, <1>3, <1>4
    <2>4. told'[e] \in Unasked => asked[e] = 0 /\ r.state \in Gone
      BY <1>0, <1>1, <1>3, <1>4
    <2>5. told'[e] # "PENDING" /\ r.state \notin Unfinished
      BY <1>3
    <2> HIDE DEF r, Gone
    <2> QED
      BY <1>1, <1>2, <2>1, <2>2, <2>3, <2>4, <2>5 DEF EventOK
  <1>6. ASSUME NEW f \in Event \ {e}
        PROVE  EventOK(f)'
    <2>1. row(f)' = row(f) /\ told'[f] = told[f] /\ asked' = asked /\ lost' = lost
          /\ (Ledger!Active(f)' <=> Ledger!Active(f))
      BY <1>0 DEF RowTo, ToldOf, row, Ledger!Active
    <2>2. EventOK(f) /\ run.event # f
      BY <1>0 DEF Inv
    <2> QED
      BY <1>2, <2>1, <2>2 DEF EventOK
  <1> QED
    BY <1>1, <1>2, <1>5, <1>6 DEF Inv

(* The same where the row is left as it is: it was not on the way. *)
LEMMA EndAndTell ==
  ASSUME Inv, run.pc = "mail", run' = Ended, Tell(run.event, "PAYMENT_READY"),
         UNCHANGED <<intent, asked, lost, known>>
  PROVE  Inv'
  <1>1. run.pc \in AtWork /\ run.pc \notin OnTheWay
    BY DEF AtWork, OnTheWay
  <1>2. /\ run.event \in Event /\ DOMAIN told = Event
        /\ PlaceOK("mail", row(run.event))
    BY <1>1, Working
  <1>3. PICK e \in Event : e = run.event
    BY <1>2
  <1>4. ToldOf(e, "PAYMENT_READY")
    BY <1>2, <1>3, Told
  <1>5. Types' /\ RunOK' /\ run'.pc = "idle" /\ run'.queue = {}
    BY <1>4, EndedFields DEF Inv, Types, ToldOf
  <1>6. ASSUME NEW f \in Event
        PROVE  EventOK(f)'
    <2>1. row(f)' = row(f) /\ (Ledger!Active(f)' <=> Ledger!Active(f))
      BY DEF row, Ledger!Active
    <2>2. EventOK(f)
      BY DEF Inv
    <2>3. told'[f] \in Unasked \cup {"PENDING"} => told'[f] = told[f]
      BY <1>4 DEF ToldOf, Unasked
    <2> QED
      BY <1>1, <1>5, <2>1, <2>2, <2>3 DEF EventOK
  <1> QED
    BY <1>5, <1>6 DEF Inv

LEMMA InterruptKeeps == ASSUME Inv, Interrupt PROVE Inv'
  <1>1. run.pc \in Awaits /\ run' = Ended /\ UNCHANGED <<asked, lost, known>>
    BY DEF Interrupt
  <1>2. CASE run.pc = "check1"
    <2>1. run.pc \in AtWork
      BY <1>2 DEF AtWork
    <2>2. /\ run.event \in Event /\ intent \in [Event -> Ledger!Row] /\ DOMAIN told = Event
          /\ PlaceOK("check1", row(run.event)) /\ EventOK(run.event)
      BY <1>2, <2>1, Working
    <2>3. Tell(run.event, "INTERRUPTED") /\ UNCHANGED intent
      BY <1>2 DEF Interrupt
    <2>4. row(run.event).state = "NO_INTENT" /\ row(run.event).submit = None
      BY <2>2 DEF PlaceOK, EventOK, NotYet
    <2>5. RowTo(run.event, {"NO_INTENT"}, row(run.event).submit)
      BY <2>2, <2>3, <2>4, RowKept
    <2>6. ToldOf(run.event, "INTERRUPTED")
      BY <2>2, <2>3, Told
    <2>7. {"NO_INTENT"} \cap Unfinished = {}
      BY DEF Unfinished, Ledger!PreSubmit
    <2> QED
      BY <1>1, <2>1, <2>4, <2>5, <2>6, <2>7, WorkEndKeeps
  <1>3. CASE run.pc \in {"verify", "check2", "cart"}
    <2>1. run.pc \in AtWork
      BY <1>3 DEF AtWork
    <2>2. /\ run.event \in Event /\ intent \in [Event -> Ledger!Row] /\ DOMAIN told = Event
          /\ PlaceOK(run.pc, row(run.event)) /\ EventOK(run.event)
      BY <2>1, Working
    <2>3. Ledger!AbortBeforeSubmit(run.event) /\ Tell(run.event, "PRE_SUBMIT_ABORTED")
      BY <1>3 DEF Interrupt
    <2>4. row(run.event).submit = None
      BY <1>3, <2>2 DEF PlaceOK, EventOK, NotYet
    <2>5. RowTo(run.event, {"PRE_SUBMIT_ABORTED"}, row(run.event).submit)
      BY <2>2, <2>3, Aborted DEF row
    <2>6. ToldOf(run.event, "PRE_SUBMIT_ABORTED")
      BY <2>2, <2>3, Told
    <2>7. /\ {"PRE_SUBMIT_ABORTED"} \cap Unfinished = {}
          /\ {"PRE_SUBMIT_ABORTED"} \subseteq Ledger!Terminal
      BY DEF Unfinished, Ledger!PreSubmit, Ledger!Terminal
    <2> QED
      BY <1>1, <2>1, <2>4, <2>5, <2>6, <2>7, WorkEndKeeps
  <1>4. CASE run.pc \in {"check3", "submit"}
    <2> DEFINE S == {"ORDER_UNCERTAIN", "RECONCILIATION_REQUIRED"}
    <2>1. run.pc \in AtWork
      BY <1>4 DEF AtWork
    <2>2. /\ run.event \in Event /\ intent \in [Event -> Ledger!Row] /\ DOMAIN told = Event
      BY <2>1, Working
    <2>3. Ledger!MarkUncertain(run.event) /\ Tell(run.event, "RECONCILIATION_REQUIRED")
      BY <1>4 DEF Interrupt
    <2>4. RowTo(run.event, S, row(run.event).submit)
      BY <2>2, <2>3, MarkedUncertain DEF row
    <2>5. ToldOf(run.event, "RECONCILIATION_REQUIRED")
      BY <2>2, <2>3, Told
    <2>6. /\ S \cap Unfinished = {}
          /\ S \cap (Ledger!Terminal \cup {"NO_INTENT"} \cup NotYet) = {}
          /\ "RECONCILIATION_REQUIRED" \notin Unasked
      BY DEF Unfinished, Ledger!PreSubmit, Ledger!Terminal, NotYet, Unasked
    <2> QED
      BY <1>1, <2>1, <2>4, <2>5, <2>6, WorkEndKeeps
  <1>5. CASE run.pc = "mail" /\ ~Reread
    <2>1. Tell(run.event, "PAYMENT_READY") /\ UNCHANGED intent
      BY <1>5 DEF Interrupt
    <2> QED
      BY <1>1, <1>5, <2>1, EndAndTell
  <1>6. CASE ~ (run.pc \in {"check1", "verify", "check2", "cart", "check3", "submit"})
             /\ ~ (run.pc = "mail" /\ ~Reread)
    <2>1. run.pc \notin OnTheWay
      BY <1>1, <1>6 DEF OnTheWay, Awaits
    <2>2. UNCHANGED <<intent, told>>
      BY <1>6 DEF Interrupt
    <2> QED
      BY <1>1, <2>1, <2>2, EndKeeps
  <1> QED
    BY <1>2, <1>3, <1>4, <1>5, <1>6

(* A killed process leaves its event behind. *)
LEMMA KilledKeeps == ASSUME Inv, Killed PROVE Inv'
  <1>1. /\ run' = Ended /\ UNCHANGED <<intent, told, asked, known>>
        /\ lost' = IF run.event # None /\ row(run.event).state \in Unfinished
                   THEN lost \cup {run.event} ELSE lost
    BY DEF Killed
  <1>2. run.event \in Event \cup {None} /\ lost \subseteq Event
    BY DEF Inv, Types, RunTyped
  <1>3. lost' \subseteq Event /\ lost \subseteq lost'
    BY <1>1, <1>2
  <1>4. Types' /\ RunOK' /\ run'.pc = "idle" /\ run'.queue = {}
    BY <1>1, <1>3, EndedFields DEF Inv, Types
  <1>5. ASSUME NEW e \in Event
        PROVE  EventOK(e)'
    <2>1. row(e)' = row(e) /\ (Ledger!Active(e)' <=> Ledger!Active(e))
      BY <1>1 DEF row, Ledger!Active
    <2>2. EventOK(e)
      BY DEF Inv
    <2>3. row(e).state \in Unfinished => e \in lost'
      BY <1>1, <1>3, <2>2, ArmedAssumption DEF EventOK
    <2> QED
      BY <1>1, <1>4, <2>1, <2>2, <2>3 DEF EventOK
  <1> QED
    BY <1>4, <1>5 DEF Inv

(* A new run finds no submission under way, and reads again what is known. *)
LEMMA StartKeeps ==
  ASSUME Inv, NEW command \in Command, Start(command)
  PROVE  Inv'
  <1> DEFINE Q == IF command = "reconcile" THEN Pending ELSE {}
             p == IF command = "reconcile" THEN "next"
                  ELSE IF "stop" \in signals THEN "idle" ELSE "preflight"
             k == run.n + 1
  <1>1. /\ run.pc = "idle" /\ Ledger!RecoverInterrupted
        /\ run' = [Ended EXCEPT !.n = @ + 1, !.command = command, !.queue = Q, !.pc = p]
        /\ UNCHANGED <<told, asked, lost, known>>
    BY DEF Start, Live
  <1>2. Q \subseteq Event /\ p \in {"next", "idle", "preflight"}
        /\ (command # "reconcile" => Q = {}) /\ (command = "reconcile" => p = "next" /\ Q = Pending)
    BY DEF Pending
  <1>3. command \in {"arm", "reconcile"}
    BY ArmedAssumption
  <1> HIDE DEF Q, p
  <1>4. /\ RunTyped' /\ run'.pc = p /\ run'.queue = Q /\ run'.command = command /\ run'.asks = 0
    BY <1>1, <1>2 DEF Ended, Idle, RunTyped, Steps, Awaits
  <1>5. RunOK'
    BY <1>2, <1>3, <1>4 DEF RunOK, AtWork, Asking
  <1>6. /\ intent' \in [Event -> Ledger!Row]
        /\ \A e \in Event :
             /\ intent'[e].submit = intent[e].submit
             /\ intent[e].state # "ORDER_SUBMITTING" => intent'[e].state = intent[e].state
             /\ intent[e].state = "ORDER_SUBMITTING" =>
                  intent'[e].state \in {"ORDER_UNCERTAIN", "RECONCILIATION_REQUIRED"}
    <2>1. intent \in [Event -> Ledger!Row]
      BY DEF Inv, Types
    <2> QED
      BY <1>1, <2>1, Recovered
  <1>7. Types'
    BY <1>1, <1>4, <1>6 DEF Inv, Types
  <1>8. ASSUME NEW e \in Event
        PROVE  EventOK(e)'
    <2>1. EventOK(e)
      BY DEF Inv
    <2>2. Ledger!Active(e)' <=> Ledger!Active(e)
      BY <1>6 DEF Ledger!Active, Ledger!Terminal
    <2>3. row(e)'.submit = row(e).submit
      BY <1>6 DEF row
    <2>4. /\ row(e)'.state \in NotYet => row(e).state \in NotYet
          /\ row(e)'.state \in Unfinished => row(e).state \in Unfinished
          /\ row(e).state = "NO_INTENT" => row(e)'.state = "NO_INTENT"
      BY <1>6 DEF row, NotYet, Unfinished, Ledger!PreSubmit
    <2>5. e \in Q => Ledger!Active(e)
      BY <1>2 DEF Pending, Ledger!InRecovery, Ledger!Active, Ledger!Terminal, Ledger!Unresolved, row
    <2>6. row(e).state \in Unfinished => e \in lost
      BY <1>1, <2>1 DEF EventOK, OnTheWay
    <2> QED
      BY <1>1, <1>4, <2>1, <2>2, <2>3, <2>4, <2>5, <2>6 DEF EventOK
  <1> QED
    BY <1>5, <1>7, <1>8 DEF Inv

LEMMA InvInit == Init => Inv
  <1> SUFFICES ASSUME Init PROVE Inv
    OBVIOUS
  <1>1. /\ intent = [e \in Event |-> Ledger!NoIntent] /\ run = Idle(0) /\ known = {}
        /\ told = [e \in Event |-> "PENDING"] /\ asked = [e \in Event |-> 0] /\ lost = {}
    BY DEF Init, Ledger!Init
  <1>2. /\ Ledger!NoIntent \in Ledger!Row
        /\ Ledger!NoIntent.state = "NO_INTENT" /\ Ledger!NoIntent.submit = None
    BY DEF Ledger!NoIntent, Ledger!Row
  <1>3. /\ RunTyped /\ RunOK
        /\ run.pc = "idle" /\ run.queue = {}
    BY <1>1 DEF Idle, RunTyped, RunOK, Steps, AtWork, Asking
  <1>4. Types
    BY <1>1, <1>2, <1>3 DEF Types
  <1>5. ASSUME NEW e \in Event
        PROVE  EventOK(e)
    BY <1>1, <1>2, <1>3 DEF EventOK, row, Unasked, Unfinished, Ledger!PreSubmit
  <1> QED
    BY <1>3, <1>4, <1>5 DEF Inv

LEMMA LoopStepsKeep ==
  ASSUME Inv, \/ \E d \in Hours : Arm(d)
              \/ Refused \/ LoopTop \/ QueueEmpty \/ Waited \/ StopBeforeNext \/ Done
              \/ BrowserClosed
  PROVE  Inv'
  <1>1. ASSUME NEW d \in Hours, Arm(d)
        PROVE  Inv'
    BY <1>1, LoopKeeps DEF Arm, Between, Inv, RunOK
  <1>2. CASE Refused
    BY <1>2, EndKeeps DEF Refused, OnTheWay
  <1>3. CASE LoopTop
    <2>1. run.pc = "top" /\ run.command = "arm" /\ run.pc \notin OnTheWay
      BY <1>3 DEF LoopTop, Inv, RunOK, OnTheWay
    <2>2. (Goto("discover") \/ run' = Ended) /\ UNCHANGED <<intent, told, asked, lost, known>>
      BY <1>3 DEF LoopTop
    <2> QED
      BY <2>1, <2>2, EndKeeps, LoopKeeps DEF Between
  <1>4. CASE QueueEmpty
    <2>1. run.pc = "next" /\ run.pc \notin OnTheWay
      BY <1>4 DEF QueueEmpty, OnTheWay
    <2>2. ((run.command = "arm" /\ Goto("wait")) \/ run' = Ended)
          /\ UNCHANGED <<intent, told, asked, lost, known>>
      BY <1>4 DEF QueueEmpty
    <2> QED
      BY <2>1, <2>2, EndKeeps, LoopKeeps DEF Between
  <1>5. CASE Waited
    <2>1. run.pc = "wait" /\ run.command = "arm" /\ run.pc \notin OnTheWay
      BY <1>5 DEF Waited, Inv, RunOK, OnTheWay
    <2>2. (Goto("top") \/ run' = Ended) /\ UNCHANGED <<intent, told, asked, lost, known>>
      BY <1>5 DEF Waited
    <2> QED
      BY <2>1, <2>2, EndKeeps, LoopKeeps DEF Between
  <1>6. CASE StopBeforeNext
    BY <1>6, EndKeeps DEF StopBeforeNext, OnTheWay
  <1>7. CASE Done
    <2>1. run.pc = "done" /\ run.pc \notin OnTheWay
      BY <1>7 DEF Done, OnTheWay
    <2>2. \/ run.command = "reconcile" /\ Goto("next")
          \/ Goto("hold")
          \/ run' = Ended
      BY <1>7 DEF Done
    <2>3. UNCHANGED <<intent, told, asked, lost, known>>
      BY <1>7 DEF Done
    <2> QED
      BY <2>1, <2>2, <2>3, EndKeeps, LoopKeeps DEF Between
  <1>8. CASE BrowserClosed
    BY <1>8, EndKeeps DEF BrowserClosed, OnTheWay
  <1> QED
    BY <1>1, <1>2, <1>3, <1>4, <1>5, <1>6, <1>7, <1>8

LEMMA PurchaseKeeps == ASSUME Inv, Purchase PROVE Inv'
  <1>1. ASSUME NEW e \in Event, AlreadyOrdered(e) \/ Claim(e) \/ Recover(e)
        PROVE  Inv'
    BY <1>1, AlreadyOrderedKeeps, ClaimKeeps, RecoverKeeps
  <1>2. CASE Open \/ Verified \/ EnterCart \/ Prepared \/ CheckoutReady \/ Mark \/ Dispatch
    BY <1>2, OpenKeeps, VerifiedKeeps, EnterCartKeeps, PreparedKeeps, CheckoutReadyKeeps,
       MarkKeeps, DispatchKeeps
  <1>3. ASSUME NEW res \in Receipts, Receipt(res) \/ Found(res)
        PROVE  Inv'
    <2>1. CASE Receipt(res)
      <3>1. "PAYMENT_URL_READY" \notin Unasked
        BY DEF Unasked
      <3> QED
        BY <2>1, <3>1, FinishKeeps DEF Receipt
    <2>2. CASE Found(res)
      <3> DEFINE w == Unverified(intent'[run.event])
      <3>1. w \notin Unasked /\ w # "PENDING"
        BY <2>2, FoundUnverified
      <3>2. /\ run.pc = "reconcile" /\ Ledger!ReconcileFound(run.event, res)
            /\ \E before : FinishReceipt(run.event, res, before, "done", w)
            /\ UNCHANGED <<asked, lost, known>>
        BY <2>2 DEF Found
      <3> HIDE DEF w
      <3> QED
        BY <3>1, <3>2, FinishKeeps
    <2> QED
      BY <1>3, <2>1, <2>2
  <1>4. CASE ClaimNotice \/ Mailed \/ Absent \/ Unresolved
    BY <1>4, ClaimNoticeKeeps, MailedKeeps, AbsentKeeps, UnresolvedKeeps
  <1>5. ASSUME NEW why \in {"HUMAN", "LIVE_NOT_ARMED", "FAILED"},
               FailBeforeAsking(why) \/ FailAsking(why)
        PROVE  Inv'
    BY <1>5, FailBeforeAskingKeeps, FailAskingKeeps
  <1> QED
    BY <1>1, <1>2, <1>3, <1>4, <1>5 DEF Purchase

LEMMA InvNext == Inv /\ [Next]_vars => Inv'
  <1> SUFFICES ASSUME Inv, [Next]_vars PROVE Inv'
    OBVIOUS
  <1>1. CASE UNCHANGED vars \/ Outside
    <2>1. UNCHANGED <<intent, run, told, asked, lost, known>>
      BY <1>1 DEF vars, Outside
    <2>2. Types' /\ RunOK'
      BY <2>1 DEF Inv, Types, RunTyped, RunOK, row
    <2>3. ASSUME NEW e \in Event
          PROVE  EventOK(e)'
      BY <2>1 DEF Inv, EventOK, row, Ledger!Active
    <2> QED
      BY <2>2, <2>3 DEF Inv
  <1>2. ASSUME NEW command \in Command, Start(command)
        PROVE  Inv'
    BY <1>2, StartKeeps
  <1>3. CASE Worker
    <2>1. ASSUME NEW found \in SUBSET (Event \ known), Discover(found)
          PROVE  Inv'
      BY <2>1, DiscoverKeeps
    <2> QED
      BY <1>3, <2>1, LoopStepsKeep, PurchaseKeeps DEF Worker
  <1>4. CASE BrowserClosed
    BY <1>4, LoopStepsKeep
  <1>5. CASE Interrupt \/ Killed
    BY <1>5, InterruptKeeps, KilledKeeps
  <1> QED
    BY <1>1, <1>2, <1>3, <1>4, <1>5 DEF Next

(* The worker's inductive invariant. *)
THEOREM Invariance == Spec => []Inv
  BY InvInit, InvNext, PTL DEF Spec

-----------------------------------------------------------------------------
(* One arming asks for one order at most, whatever the purchase ends with:   *)
(* of any number of events, products and runs.                               *)
THEOREM OneOrder == Spec => []OneOrderPerArming
  <1>1. Inv => OneOrderPerArming
    BY DEF Inv, RunOK, OneOrderPerArming
  <1> QED
    BY <1>1, Invariance, PTL

(* The merchant is asked once for a product, over all its events, runs,      *)
(* kills and recoveries, and an active row with its time remembers it.       *)
THEOREM AskedOnce == Spec => []AskedOncePerProduct
  <1>1. Inv => AskedOncePerProduct
    BY DEF Inv, EventOK, AskedOncePerProduct
  <1> QED
    BY <1>1, Invariance, PTL

(* What is reported as failed, refused or stopped has asked for nothing and  *)
(* holds its product no longer.                                              *)
THEOREM FailedIsUnasked == Spec => []FailedMeansUnasked
  <1>1. Inv => FailedMeansUnasked
    BY DEF Inv, EventOK, FailedMeansUnasked
  <1> QED
    BY <1>1, Invariance, PTL

(* No run that ends, but a killed one, leaves an intent on its way. *)
THEOREM EndedRuns == Spec => []EndedRunsLetGo
  <1>1. Inv => EndedRunsLetGo
    BY DEF Inv, EventOK, EndedRunsLetGo, Live, OnTheWay
  <1> QED
    BY <1>1, Invariance, PTL

(* Only the request adds to what a run asked for, and the guard stands then. *)
LEMMA OnlyDispatchAsks ==
  ASSUME Inv, [Next]_vars, run'.asks > run.asks
  PROVE  Guard!Stands
  <1> DEFINE n == run.asks
  <1>1. RunTyped /\ run.asks \in Nat
    BY DEF Inv, Types, RunTyped
  <1>2. SUFFICES ASSUME ~Dispatch PROVE run'.asks = n \/ run'.asks = 0
    BY <1>1 DEF Dispatch
  <1>3. CASE UNCHANGED vars \/ Outside
    BY <1>3 DEF vars, Outside
  <1>4. ASSUME NEW command \in Command, Start(command)
        PROVE  run'.asks = 0
    BY <1>4 DEF Start, Ended, Idle
  <1>5. CASE run' = Ended
    BY <1>5, EndedFields
  <1>6. ASSUME NEW p, Goto(p)
        PROVE  run'.asks = n
    BY <1>1, <1>6 DEF Goto, RunTyped
  <1>7. ASSUME NEW p, NEW s, Walk(p, s)
        PROVE  run'.asks = n
    <2> DEFINE c == run.chain \o s
    <2>1. run' = [run EXCEPT !.pc = p, !.chain = c]
      BY <1>7 DEF Walk
    <2> HIDE DEF c
    <2> QED
      BY <1>1, <2>1 DEF RunTyped
  <1>8. CASE \/ \E d \in Hours : Arm(d)
             \/ Refused \/ LoopTop \/ QueueEmpty \/ Waited \/ StopBeforeNext \/ Done
             \/ BrowserClosed \/ Interrupt \/ Killed
    BY <1>5, <1>6, <1>8 DEF Arm, Refused, LoopTop, QueueEmpty, Waited, StopBeforeNext, Done,
       BrowserClosed, Interrupt, Killed
  <1>9. ASSUME NEW found, Discover(found)
        PROVE  run'.asks = n
    BY <1>1, <1>9 DEF Discover, RunTyped
  <1>10. ASSUME NEW e \in Event, AlreadyOrdered(e) \/ Claim(e) \/ Recover(e)
         PROVE  run'.asks = n
    <2> DEFINE c == <<"INTENT_CREATED">>
    <2>1. \/ run' = [run EXCEPT !.pc = "done", !.event = e]
          \/ run' = [run EXCEPT !.pc = "check1", !.event = e, !.queue = @ \ {e}, !.chain = c]
          \/ run' = [run EXCEPT !.pc = "reconcile", !.event = e, !.queue = @ \ {e}]
      BY <1>10 DEF AlreadyOrdered, Claim, Recover
    <2> HIDE DEF c
    <2> QED
      BY <1>1, <2>1 DEF RunTyped
  <1>11. CASE Open \/ Verified \/ EnterCart \/ Prepared \/ CheckoutReady \/ Mark
              \/ ClaimNotice \/ Mailed \/ Absent \/ Unresolved
    BY <1>6, <1>7, <1>11 DEF Open, Verified, EnterCart, Prepared, CheckoutReady, Mark,
       ClaimNotice, Mailed, Absent, Unresolved
  <1>12. ASSUME NEW res, Receipt(res) \/ Found(res)
         PROVE  run'.asks = n
    <2>1. PICK before, pc, what : FinishReceipt(run.event, res, before, pc, what)
      BY <1>12 DEF Receipt, Found
    <2> DEFINE p == CASE Refuses(run.event, res) -> pc
                      [] Proved(intent'[run.event], res) /\ ~Refuses(run.event, res) -> "claim"
                      [] OTHER -> "done"
               c == before \o ReceiptSteps(intent'[run.event], res)
    <2>2. run' = [run EXCEPT !.pc = p, !.chain = c]
      BY <2>1 DEF FinishReceipt
    <2> HIDE DEF p, c
    <2> QED
      BY <1>1, <2>2 DEF RunTyped
  <1>13. ASSUME NEW why, FailBeforeAsking(why) \/ FailAsking(why)
         PROVE  run'.asks = n
    BY <1>6, <1>13 DEF FailBeforeAsking, FailAsking
  <1> QED
    BY <1>2, <1>3, <1>4, <1>8, <1>9, <1>10, <1>11, <1>12, <1>13 DEF Next, Worker, Purchase

(* An order is asked for only while the lease stands, and unless the clock   *)
(* was set and the machine slept, within the hours it was taken for.         *)
THEOREM WithinHours == Spec => AskedWithinHours
  <1>1. Inv /\ GuardInv /\ [Next]_vars =>
          [run'.asks > run.asks =>
             /\ Guard!Stands
             /\ since.wall \/ since.mono => since.elapsed < guard.deadline - guard.armed]_vars
    BY OnlyDispatchAsks, LeaseShort DEF Guard!LeaseIsShort
  <1>2. Spec => []GuardInv
    BY ImplementsGuard, GuardInvariant, PTL
  <1> QED
    BY <1>1, <1>2, Invariance, PTL DEF Spec, AskedWithinHours


-----------------------------------------------------------------------------
(* The states a purchase is recorded in. *)

ChainState ==
  {"INTENT_CREATED", "DETECTED", "VERIFYING", "PRODUCT_VERIFIED", "OPENING_BROWSER",
   "CART_READY", "CHECKOUT_READY", "ORDER_SUBMITTING", "RECONCILIATION_REQUIRED",
   "ORDER_ALREADY_EXISTS", "ORDER_CREATED", "INVOICE_NOT_FOUND", "INVOICE_CREATED",
   "PAYMENT_URL_NOT_FOUND", "PAYMENT_URL_READY", "PAYMENT_READY", "WAITING_FOR_USER"}

OnGraph(c) ==
  /\ c \in Seq(ChainState)
  /\ \A i \in 1 .. Len(c) - 1 : Goes(c[i], c[i + 1])

EndsAt(c, s) == c # <<>> /\ c[Len(c)] = s

(* Where the run stands says which state was recorded last. *)
ChainAt(pc, c) ==
  /\ pc = "check1" => EndsAt(c, "INTENT_CREATED")
  /\ pc = "verify" => EndsAt(c, "VERIFYING")
  /\ pc \in {"check2", "cart"} => EndsAt(c, "OPENING_BROWSER")
  /\ pc = "ready" => EndsAt(c, "CART_READY")
  /\ pc = "mark" => EndsAt(c, "CHECKOUT_READY")
  /\ pc \in {"check3", "submit"} => EndsAt(c, "ORDER_SUBMITTING")
  /\ pc \in {"claim", "mail"} => EndsAt(c, "PAYMENT_READY")

ChainOK == OnGraph(run.chain) /\ ChainAt(run.pc, run.chain)

(* The places at which no state is about to follow the last one. *)
Rests == {"idle", "preflight", "top", "discover", "next", "wait", "hold", "reconcile", "done"}

(* The edges a purchase takes. *)
LEMMA EdgesBefore ==
  /\ Goes("INTENT_CREATED", "DETECTED") /\ Goes("DETECTED", "VERIFYING")
  /\ Goes("VERIFYING", "PRODUCT_VERIFIED") /\ Goes("PRODUCT_VERIFIED", "OPENING_BROWSER")
  /\ Goes("OPENING_BROWSER", "CART_READY") /\ Goes("CART_READY", "CHECKOUT_READY")
  /\ Goes("CHECKOUT_READY", "ORDER_SUBMITTING")
  <1> DEFINE G == BeforeDispatch
  <1>1. /\ "DETECTED" \in G["INTENT_CREATED"] /\ "VERIFYING" \in G["DETECTED"]
        /\ "PRODUCT_VERIFIED" \in G["VERIFYING"] /\ "OPENING_BROWSER" \in G["PRODUCT_VERIFIED"]
        /\ "CART_READY" \in G["OPENING_BROWSER"] /\ "CHECKOUT_READY" \in G["CART_READY"]
        /\ "ORDER_SUBMITTING" \in G["CHECKOUT_READY"]
    BY DEF BeforeDispatch
  <1>2. {"INTENT_CREATED", "DETECTED", "VERIFYING", "PRODUCT_VERIFIED", "OPENING_BROWSER",
         "CART_READY", "CHECKOUT_READY"} \subseteq DOMAIN G
    BY DEF BeforeDispatch
  <1> HIDE DEF G
  <1>3. \A s, t : s \in DOMAIN G /\ t \in G[s] => Goes(s, t)
    BY DEF Goes, G
  <1> QED
    BY <1>1, <1>2, <1>3

LEMMA EdgesAfter ==
  /\ Goes("ORDER_SUBMITTING", "ORDER_CREATED")
  /\ Goes("ORDER_CREATED", "INVOICE_NOT_FOUND") /\ Goes("ORDER_CREATED", "INVOICE_CREATED")
  /\ Goes("INVOICE_CREATED", "PAYMENT_URL_NOT_FOUND")
  /\ Goes("INVOICE_CREATED", "PAYMENT_URL_READY")
  /\ Goes("PAYMENT_URL_READY", "PAYMENT_READY") /\ Goes("PAYMENT_READY", "WAITING_FOR_USER")
  <1> DEFINE G == AfterDispatch
  <1>1. /\ "ORDER_CREATED" \in G["ORDER_SUBMITTING"]
        /\ "INVOICE_NOT_FOUND" \in G["ORDER_CREATED"] /\ "INVOICE_CREATED" \in G["ORDER_CREATED"]
        /\ "PAYMENT_URL_NOT_FOUND" \in G["INVOICE_CREATED"]
        /\ "PAYMENT_URL_READY" \in G["INVOICE_CREATED"]
        /\ "PAYMENT_READY" \in G["PAYMENT_URL_READY"]
        /\ "WAITING_FOR_USER" \in G["PAYMENT_READY"]
    BY DEF AfterDispatch
  <1>2. {"ORDER_SUBMITTING", "ORDER_CREATED", "INVOICE_CREATED", "PAYMENT_URL_READY",
         "PAYMENT_READY"} \subseteq DOMAIN G
    BY DEF AfterDispatch
  <1> HIDE DEF G
  <1>3. \A s, t : s \in DOMAIN G /\ t \in G[s] => Goes(s, t)
    BY DEF Goes, G
  <1> QED
    BY <1>1, <1>2, <1>3

LEMMA EdgesFound ==
  /\ Goes("RECONCILIATION_REQUIRED", "ORDER_ALREADY_EXISTS")
  /\ Goes("ORDER_ALREADY_EXISTS", "ORDER_CREATED")
  <1> DEFINE G == AfterDoubt
  <1>1. /\ "ORDER_ALREADY_EXISTS" \in G["RECONCILIATION_REQUIRED"]
        /\ "ORDER_CREATED" \in G["ORDER_ALREADY_EXISTS"]
    BY DEF AfterDoubt
  <1>2. {"RECONCILIATION_REQUIRED", "ORDER_ALREADY_EXISTS"} \subseteq DOMAIN G
    BY DEF AfterDoubt
  <1> HIDE DEF G
  <1>3. \A s, t : s \in DOMAIN G /\ t \in G[s] => Goes(s, t)
    BY DEF Goes, G
  <1> QED
    BY <1>1, <1>2, <1>3

(* A way that goes on from the end of another. *)
LEMMA WayGoesOn ==
  ASSUME NEW c, OnGraph(c), NEW last, EndsAt(c, last),
         NEW s, OnGraph(s), s # <<>>, Goes(last, s[1])
  PROVE  OnGraph(c \o s) /\ \A t : EndsAt(s, t) => EndsAt(c \o s, t)
  <1>1. /\ c \in Seq(ChainState) /\ s \in Seq(ChainState)
        /\ Len(c) \in Nat /\ Len(s) \in Nat /\ Len(s) > 0 /\ Len(c) > 0
    BY DEF OnGraph, EndsAt
  <1>2. c \o s \in Seq(ChainState) /\ Len(c \o s) = Len(c) + Len(s)
    BY <1>1
  <1>3. ASSUME NEW i \in 1 .. Len(c \o s) - 1
        PROVE  Goes((c \o s)[i], (c \o s)[i + 1])
    <2>1. CASE i < Len(c)
      <3>1. i \in 1 .. Len(c) - 1
        BY <1>1, <1>2, <2>1
      <3>2. (c \o s)[i] = c[i] /\ (c \o s)[i + 1] = c[i + 1]
        BY <1>1, <2>1, <3>1
      <3> QED
        BY <3>1, <3>2 DEF OnGraph
    <2>2. CASE i = Len(c)
      <3>1. (c \o s)[i] = c[Len(c)] /\ (c \o s)[i + 1] = s[1]
        BY <1>1, <2>2
      <3> QED
        BY <3>1 DEF EndsAt
    <2>3. CASE i > Len(c)
      <3>1. i - Len(c) \in 1 .. Len(s) - 1
        BY <1>1, <1>2, <2>3
      <3>2. /\ (c \o s)[i] = s[i - Len(c)]
            /\ (c \o s)[i + 1] = s[(i - Len(c)) + 1]
        BY <1>1, <1>2, <2>3, <3>1
      <3> QED
        BY <3>1, <3>2 DEF OnGraph
    <2> QED
      BY <1>1, <1>2, <2>1, <2>2, <2>3
  <1>4. c \o s # <<>> /\ (c \o s)[Len(c \o s)] = s[Len(s)]
    BY <1>1, <1>2
  <1> QED
    BY <1>2, <1>3, <1>4 DEF OnGraph, EndsAt


LEMMA WayGrows ==
  ASSUME NEW c, OnGraph(c), NEW last, EndsAt(c, last), NEW s \in ChainState, Goes(last, s)
  PROVE  OnGraph(Append(c, s)) /\ EndsAt(Append(c, s), s)
  <1> DEFINE d == Append(c, s)
             n == Len(c)
  <1>1. c \in Seq(ChainState) /\ n \in Nat /\ n > 0 /\ c[n] = last
    BY DEF OnGraph, EndsAt
  <1>2. /\ d \in Seq(ChainState) /\ Len(d) = n + 1 /\ d[n + 1] = s /\ d # <<>>
        /\ \A i \in 1 .. n : d[i] = c[i]
    BY <1>1
  <1> HIDE DEF d
  <1>3. ASSUME NEW i \in 1 .. Len(d) - 1
        PROVE  Goes(d[i], d[i + 1])
    <2>1. CASE i = n
      BY <1>1, <1>2, <2>1
    <2>2. CASE i # n
      <3>1. i \in 1 .. Len(c) - 1 /\ i + 1 \in 1 .. n
        BY <1>1, <1>2, <2>2
      <3> QED
        BY <1>2, <3>1 DEF OnGraph
    <2> QED
      BY <2>1, <2>2
  <1>4. OnGraph(d) /\ EndsAt(d, s)
    BY <1>1, <1>2, <1>3 DEF OnGraph, EndsAt
  <1> QED
    BY <1>4 DEF d

(* Short ways. *)
LEMMA Ways ==
  /\ \A a \in ChainState : OnGraph(<<a>>) /\ EndsAt(<<a>>, a)
  /\ \A a, b \in ChainState : Goes(a, b) => OnGraph(<<a, b>>) /\ EndsAt(<<a, b>>, b)
  /\ \A a, b, c \in ChainState : Goes(a, b) /\ Goes(b, c) =>
       OnGraph(<<a, b, c>>) /\ EndsAt(<<a, b, c>>, c)
  /\ \A a, b, c, d \in ChainState : Goes(a, b) /\ Goes(b, c) /\ Goes(c, d) =>
       OnGraph(<<a, b, c, d>>) /\ EndsAt(<<a, b, c, d>>, d)
  <1>1. ASSUME NEW a \in ChainState
        PROVE  OnGraph(<<a>>) /\ EndsAt(<<a>>, a)
    BY DEF OnGraph, EndsAt
  <1>2. ASSUME NEW a \in ChainState, NEW b \in ChainState,
               Goes(a, b)
        PROVE  OnGraph(<<a, b>>) /\ EndsAt(<<a, b>>, b)
    <2>1. <<a, b>> = Append(<<a>>, b)
      OBVIOUS
    <2>2. OnGraph(<<a>>) /\ EndsAt(<<a>>, a)
      BY <1>1
    <2> QED
      BY <1>2, <2>1, <2>2, WayGrows
  <1>3. ASSUME NEW a \in ChainState, NEW b \in ChainState, NEW c \in ChainState,
               Goes(a, b), Goes(b, c)
        PROVE  OnGraph(<<a, b, c>>) /\ EndsAt(<<a, b, c>>, c)
    <2>1. <<a, b, c>> = Append(<<a, b>>, c)
      OBVIOUS
    <2>2. OnGraph(<<a, b>>) /\ EndsAt(<<a, b>>, b)
      BY <1>2, <1>3
    <2> QED
      BY <1>3, <2>1, <2>2, WayGrows
  <1>4. ASSUME NEW a \in ChainState, NEW b \in ChainState, NEW c \in ChainState, NEW d \in ChainState,
               Goes(a, b), Goes(b, c), Goes(c, d)
        PROVE  OnGraph(<<a, b, c, d>>) /\ EndsAt(<<a, b, c, d>>, d)
    <2>1. <<a, b, c, d>> = Append(<<a, b, c>>, d)
      OBVIOUS
    <2>2. OnGraph(<<a, b, c>>) /\ EndsAt(<<a, b, c>>, c)
      BY <1>3, <1>4
    <2> QED
      BY <1>4, <2>1, <2>2, WayGrows
  <1> QED
    BY <1>1, <1>2, <1>3, <1>4

(* Every receipt is a way on the graph that starts with the order, and where *)
(* the evidence makes the page payable it ends there.                        *)
LEMMA StepsOnGraph ==
  ASSUME NEW r, NEW res
  PROVE  LET s == ReceiptSteps(r, res) IN
         /\ OnGraph(s) /\ s # <<>> /\ s[1] = "ORDER_CREATED"
         /\ r.invoice # None /\ r.url # None /\ Proved(r, res) => EndsAt(s, "PAYMENT_READY")
  <1> DEFINE s == ReceiptSteps(r, res)
             w1 == <<"ORDER_CREATED", "INVOICE_NOT_FOUND">>
             w2 == <<"ORDER_CREATED", "INVOICE_CREATED", "PAYMENT_URL_NOT_FOUND">>
             w3 == <<"ORDER_CREATED", "INVOICE_CREATED", "PAYMENT_URL_READY">>
             w4 == <<"ORDER_CREATED", "INVOICE_CREATED", "PAYMENT_URL_READY", "PAYMENT_READY">>
  <1>1. {"ORDER_CREATED", "INVOICE_NOT_FOUND", "INVOICE_CREATED", "PAYMENT_URL_NOT_FOUND",
         "PAYMENT_URL_READY", "PAYMENT_READY"} \subseteq ChainState
    BY DEF ChainState
  <1>2. OnGraph(w1) /\ OnGraph(w2) /\ OnGraph(w3) /\ OnGraph(w4) /\ EndsAt(w4, "PAYMENT_READY")
    BY <1>1, EdgesAfter, Ways, Zenon
  <1>3. /\ w1 # <<>> /\ w1[1] = "ORDER_CREATED" /\ w2 # <<>> /\ w2[1] = "ORDER_CREATED"
        /\ w3 # <<>> /\ w3[1] = "ORDER_CREATED" /\ w4 # <<>> /\ w4[1] = "ORDER_CREATED"
    OBVIOUS
  <1>4. /\ s \in {w1, w2, w3, w4}
        /\ r.invoice # None /\ r.url # None /\ Proved(r, res) => s = w4
    BY DEF ReceiptSteps
  <1> HIDE DEF s, w1, w2, w3, w4
  <1>5. /\ OnGraph(s) /\ s # <<>> /\ s[1] = "ORDER_CREATED"
        /\ r.invoice # None /\ r.url # None /\ Proved(r, res) => EndsAt(s, "PAYMENT_READY")
    BY <1>2, <1>3, <1>4
  <1> QED
    BY <1>5 DEF s

(* A row with evidence has an invoice and a page: the ledger takes no result *)
(* without them.                                                             *)
LEMMA ProvedHasPage ==
  ASSUME intent \in [Event -> Ledger!Row], NEW e \in Event, NEW res \in Receipts,
         Ledger!PersistResult(e, res) \/ Ledger!ReconcileFound(e, res),
         intent'[e].verified
  PROVE  intent'[e].invoice # None /\ intent'[e].url # None
  <1> DEFINE m == Ledger!Merged(intent[e], res)
             s == Ledger!ResultState(intent[e], m)
             b == m.evidence # None
             r == [m EXCEPT !.state = s, !.verified = b]
  <1>1. intent' = [intent EXCEPT ![e] = r]
    BY DEF Ledger!PersistResult, Ledger!ReconcileFound, Ledger!Persisted
  <1>2. b => m.invoice # None /\ m.url # None
    BY DEF Ledger!PersistResult, Ledger!ReconcileFound, Ledger!ResultAccepted
  <1>3. DOMAIN m = DOMAIN intent[e]
    BY DEF Ledger!Merged
  <1>4. {"invoice", "url", "verified", "state"} \subseteq DOMAIN intent[e]
    BY DEF Ledger!Row
  <1> HIDE DEF m, s, b
  <1>5. r.verified = b /\ r.invoice = m.invoice /\ r.url = m.url
    BY <1>3, <1>4
  <1> HIDE DEF r
  <1>6. intent'[e] = r
    BY <1>1
  <1> QED
    BY <1>2, <1>5, <1>6

-----------------------------------------------------------------------------
(* What a step may do to the chain. *)

(* Nothing was recorded. *)
LEMMA ChainRests ==
  ASSUME ChainOK, run'.chain = run.chain, run'.pc \in Rests
  PROVE  ChainOK'
  BY DEF ChainOK, ChainAt, Rests

LEMMA ChainEmpty ==
  ASSUME run'.chain = <<>>, run'.pc \in Rests
  PROVE  ChainOK'
  BY DEF ChainOK, ChainAt, Rests, OnGraph

LEMMA ChainEnded ==
  ASSUME run' = Ended
  PROVE  ChainOK'
  <1>1. run'.chain = <<>> /\ run'.pc = "idle"
    BY DEF Ended, Idle
  <1> QED
    BY <1>1, ChainEmpty DEF Rests

LEMMA GotoChain ==
  ASSUME RunTyped, NEW p, Goto(p)
  PROVE  run'.pc = p /\ run'.chain = run.chain
  BY DEF Goto, RunTyped

LEMMA WalkChain ==
  ASSUME RunTyped, NEW p, NEW s, Walk(p, s)
  PROVE  run'.pc = p /\ run'.chain = run.chain \o s
  <1> DEFINE c == run.chain \o s
  <1>1. run' = [run EXCEPT !.pc = p, !.chain = c]
    BY DEF Walk
  <1> HIDE DEF c
  <1>2. run'.pc = p /\ run'.chain = c
    BY <1>1 DEF RunTyped
  <1> QED
    BY <1>2 DEF c

LEMMA GotoRests ==
  ASSUME RunTyped, ChainOK, NEW p \in Rests, Goto(p)
  PROVE  ChainOK'
  BY GotoChain, ChainRests

(* One or two states are recorded after the last one. *)
LEMMA WalkOne ==
  ASSUME RunTyped, ChainOK, NEW p, NEW a \in ChainState, Walk(p, <<a>>),
         NEW last, EndsAt(run.chain, last), Goes(last, a)
  PROVE  run'.pc = p /\ OnGraph(run'.chain) /\ EndsAt(run'.chain, a)
  <1> DEFINE s == <<a>>
  <1>1. OnGraph(s) /\ EndsAt(s, a) /\ s # <<>> /\ s[1] = a
    BY Ways
  <1>2. run'.pc = p /\ run'.chain = run.chain \o s
    BY WalkChain
  <1> HIDE DEF s
  <1> QED
    BY <1>1, <1>2, WayGoesOn DEF ChainOK

LEMMA WalkTwo ==
  ASSUME RunTyped, ChainOK, NEW p, NEW a \in ChainState, NEW b \in ChainState, Walk(p, <<a, b>>),
         NEW last, EndsAt(run.chain, last), Goes(last, a), Goes(a, b)
  PROVE  run'.pc = p /\ OnGraph(run'.chain) /\ EndsAt(run'.chain, b)
  <1> DEFINE s == <<a, b>>
  <1>1. OnGraph(s) /\ EndsAt(s, b) /\ s # <<>> /\ s[1] = a
    BY Ways
  <1>2. run'.pc = p /\ run'.chain = run.chain \o s
    BY WalkChain
  <1> HIDE DEF s
  <1> QED
    BY <1>1, <1>2, WayGoesOn DEF ChainOK


-----------------------------------------------------------------------------
(* The steps on the way to the request. *)
LEMMA BuyingOnGraph ==
  ASSUME Inv, ChainOK,
         Open \/ Verified \/ EnterCart \/ Prepared \/ CheckoutReady \/ Mark \/ Dispatch
  PROVE  ChainOK'
  <1>1. RunTyped
    BY DEF Inv, Types
  <1>2. {"DETECTED", "VERIFYING", "PRODUCT_VERIFIED", "OPENING_BROWSER", "CART_READY",
         "CHECKOUT_READY", "ORDER_SUBMITTING"} \subseteq ChainState
    BY DEF ChainState
  <1>3. CASE Open
    <2>1. EndsAt(run.chain, "INTENT_CREATED") /\ Walk("verify", <<"DETECTED", "VERIFYING">>)
      BY <1>3 DEF Open, ChainOK, ChainAt
    <2>2. run'.pc = "verify" /\ OnGraph(run'.chain) /\ EndsAt(run'.chain, "VERIFYING")
      BY <1>1, <1>2, <2>1, EdgesBefore, WalkTwo
    <2> QED
      BY <2>2 DEF ChainOK, ChainAt
  <1>4. CASE Verified
    <2>1. /\ EndsAt(run.chain, "VERIFYING")
          /\ Walk("check2", <<"PRODUCT_VERIFIED", "OPENING_BROWSER">>)
      BY <1>4 DEF Verified, ChainOK, ChainAt
    <2>2. run'.pc = "check2" /\ OnGraph(run'.chain) /\ EndsAt(run'.chain, "OPENING_BROWSER")
      BY <1>1, <1>2, <2>1, EdgesBefore, WalkTwo
    <2> QED
      BY <2>2 DEF ChainOK, ChainAt
  <1>5. CASE EnterCart
    <2>1. EndsAt(run.chain, "OPENING_BROWSER") /\ Goto("cart")
      BY <1>5 DEF EnterCart, ChainOK, ChainAt
    <2>2. run'.pc = "cart" /\ run'.chain = run.chain
      BY <1>1, <2>1, GotoChain
    <2> QED
      BY <2>1, <2>2 DEF ChainOK, ChainAt
  <1>6. CASE Prepared
    <2>1. EndsAt(run.chain, "OPENING_BROWSER") /\ Walk("ready", <<"CART_READY">>)
      BY <1>6 DEF Prepared, ChainOK, ChainAt
    <2>2. run'.pc = "ready" /\ OnGraph(run'.chain) /\ EndsAt(run'.chain, "CART_READY")
      BY <1>1, <1>2, <2>1, EdgesBefore, WalkOne
    <2> QED
      BY <2>2 DEF ChainOK, ChainAt
  <1>7. CASE CheckoutReady
    <2>1. EndsAt(run.chain, "CART_READY") /\ Walk("mark", <<"CHECKOUT_READY">>)
      BY <1>7 DEF CheckoutReady, ChainOK, ChainAt
    <2>2. run'.pc = "mark" /\ OnGraph(run'.chain) /\ EndsAt(run'.chain, "CHECKOUT_READY")
      BY <1>1, <1>2, <2>1, EdgesBefore, WalkOne
    <2> QED
      BY <2>2 DEF ChainOK, ChainAt
  <1>8. CASE Mark
    <2>1. EndsAt(run.chain, "CHECKOUT_READY") /\ Walk("check3", <<"ORDER_SUBMITTING">>)
      BY <1>8 DEF Mark, ChainOK, ChainAt
    <2>2. run'.pc = "check3" /\ OnGraph(run'.chain) /\ EndsAt(run'.chain, "ORDER_SUBMITTING")
      BY <1>1, <1>2, <2>1, EdgesBefore, WalkOne
    <2> QED
      BY <2>2 DEF ChainOK, ChainAt
  <1>9. CASE Dispatch
    <2>1. EndsAt(run.chain, "ORDER_SUBMITTING")
      BY <1>9 DEF Dispatch, ChainOK, ChainAt
    <2>2. run'.pc = "submit" /\ run'.chain = run.chain
      BY <1>1, <1>9 DEF Dispatch, Ask, RunTyped
    <2> QED
      BY <2>1, <2>2 DEF ChainOK, ChainAt
  <1> QED
    BY <1>3, <1>4, <1>5, <1>6, <1>7, <1>8, <1>9

(* The receipt goes on from the request, or from an order that was found. *)
LEMMA FinishOnGraph ==
  ASSUME Inv, run.pc \in {"submit", "reconcile"}, NEW res \in Receipts,
         Ledger!PersistResult(run.event, res) \/ Ledger!ReconcileFound(run.event, res),
         NEW before, NEW pc \in {"done", "reconcile"}, NEW what,
         FinishReceipt(run.event, res, before, pc, what),
         OnGraph(before), NEW last, EndsAt(before, last), Goes(last, "ORDER_CREATED")
  PROVE  ChainOK'
  <1> DEFINE r == intent'[run.event]
             s == ReceiptSteps(r, res)
             p == CASE Refuses(run.event, res) -> pc
                    [] Proved(r, res) /\ ~Refuses(run.event, res) -> "claim"
                    [] OTHER -> "done"
             c == before \o s
  <1>1. RunTyped /\ run.event \in Event /\ intent \in [Event -> Ledger!Row]
    BY DEF Inv, Types, RunOK, AtWork
  <1>2. r.verified => r.invoice # None /\ r.url # None
    BY <1>1, ProvedHasPage
  <1>3. OnGraph(s) /\ s # <<>> /\ s[1] = "ORDER_CREATED"
    BY StepsOnGraph
  <1>4. Proved(r, res) => EndsAt(s, "PAYMENT_READY")
    BY <1>2, StepsOnGraph DEF Proved
  <1>5. run' = [run EXCEPT !.pc = p, !.chain = c]
    BY DEF FinishReceipt
  <1>6. p \in {"done", "reconcile"} \/ (p = "claim" /\ Proved(r, res))
    OBVIOUS
  <1> HIDE DEF s, p, r
  <1>7. OnGraph(c) /\ \A t : EndsAt(s, t) => EndsAt(c, t)
    BY <1>3, WayGoesOn
  <1> HIDE DEF c
  <1>8. run'.pc = p /\ run'.chain = c
    BY <1>1, <1>5 DEF RunTyped
  <1> QED
    BY <1>4, <1>6, <1>7, <1>8 DEF ChainOK, ChainAt

LEMMA ReceiptOnGraph ==
  ASSUME Inv, ChainOK, NEW res \in Receipts, Receipt(res) \/ Found(res)
  PROVE  ChainOK'
  <1>1. CASE Receipt(res)
    <2>1. EndsAt(run.chain, "ORDER_SUBMITTING") /\ OnGraph(run.chain)
      BY <1>1 DEF Receipt, ChainOK, ChainAt
    <2> QED
      BY <1>1, <2>1, EdgesAfter, FinishOnGraph DEF Receipt
  <1>2. CASE Found(res)
    <2> DEFINE w == <<"RECONCILIATION_REQUIRED", "ORDER_ALREADY_EXISTS">>
    <2>1. {"RECONCILIATION_REQUIRED", "ORDER_ALREADY_EXISTS"} \subseteq ChainState
      BY DEF ChainState
    <2>2. OnGraph(w) /\ EndsAt(w, "ORDER_ALREADY_EXISTS")
      BY <2>1, EdgesFound, Ways, Zenon
    <2>3. \E what : FinishReceipt(run.event, res, w, "done", what)
      BY <1>2 DEF Found
    <2> HIDE DEF w
    <2> QED
      BY <1>2, <2>2, <2>3, EdgesFound, FinishOnGraph DEF Found
  <1> QED
    BY <1>1, <1>2

(* The notice, and the user who is waited for. *)
LEMMA NoticeOnGraph ==
  ASSUME Inv, ChainOK, ClaimNotice \/ Mailed
  PROVE  ChainOK'
  <1>1. RunTyped /\ "WAITING_FOR_USER" \in ChainState
    BY DEF Inv, Types, ChainState
  <1>2. EndsAt(run.chain, "PAYMENT_READY")
    BY DEF ClaimNotice, Mailed, ChainOK, ChainAt
  <1>3. CASE Walk("done", <<"WAITING_FOR_USER">>)
    <2>1. run'.pc = "done" /\ OnGraph(run'.chain)
      BY <1>1, <1>2, <1>3, EdgesAfter, WalkOne
    <2> QED
      BY <2>1 DEF ChainOK, ChainAt
  <1>4. CASE Goto("mail")
    <2>1. run'.pc = "mail" /\ run'.chain = run.chain
      BY <1>1, <1>4, GotoChain
    <2> QED
      BY <1>2, <2>1 DEF ChainOK, ChainAt
  <1> QED
    BY <1>3, <1>4 DEF ClaimNotice, Mailed


(* An event is taken up: a new purchase starts with its intent. *)
LEMMA TakeOnGraph ==
  ASSUME Inv, ChainOK, NEW e \in Event, AlreadyOrdered(e) \/ Claim(e) \/ Recover(e)
  PROVE  ChainOK'
  <1> DEFINE c == <<"INTENT_CREATED">>
  <1>1. RunTyped
    BY DEF Inv, Types
  <1>2. OnGraph(c) /\ EndsAt(c, "INTENT_CREATED")
    <2>1. "INTENT_CREATED" \in ChainState
      BY DEF ChainState
    <2> QED
      BY <2>1, Ways, Zenon
  <1>3. \/ run' = [run EXCEPT !.pc = "done", !.event = e]
        \/ run' = [run EXCEPT !.pc = "check1", !.event = e, !.queue = @ \ {e}, !.chain = c]
        \/ run' = [run EXCEPT !.pc = "reconcile", !.event = e, !.queue = @ \ {e}]
    BY DEF AlreadyOrdered, Claim, Recover
  <1> HIDE DEF c
  <1>4. \/ run'.pc \in {"done", "reconcile"} /\ run'.chain = run.chain
        \/ run'.pc = "check1" /\ run'.chain = c
    BY <1>1, <1>3 DEF RunTyped
  <1> QED
    BY <1>2, <1>4, ChainRests DEF Rests, ChainOK, ChainAt

(* Everything else leaves what was recorded, or ends the run. *)
LEMMA RestOnGraph ==
  ASSUME Inv, ChainOK,
         \/ \E d \in Hours : Arm(d)
         \/ Refused \/ LoopTop \/ QueueEmpty \/ Waited \/ StopBeforeNext \/ Done
         \/ BrowserClosed \/ Interrupt \/ Killed \/ Absent \/ Unresolved
         \/ \E why \in {"HUMAN", "LIVE_NOT_ARMED", "FAILED"} :
              FailBeforeAsking(why) \/ FailAsking(why)
  PROVE  ChainOK'
  <1>1. RunTyped
    BY DEF Inv, Types
  <1>2. \/ run' = Ended
        \/ \E p \in {"top", "discover", "wait", "next", "hold", "done", "reconcile"} : Goto(p)
    BY DEF Arm, Refused, LoopTop, QueueEmpty, Waited, StopBeforeNext, Done, BrowserClosed,
       Interrupt, Killed, Absent, Unresolved, FailBeforeAsking, FailAsking
  <1> QED
    BY <1>1, <1>2, ChainEnded, GotoRests DEF Rests

LEMMA StartOnGraph ==
  ASSUME NEW command \in Command, Start(command)
  PROVE  ChainOK'
  <1> DEFINE Q == IF command = "reconcile" THEN Pending ELSE {}
             p == IF command = "reconcile" THEN "next"
                  ELSE IF "stop" \in signals THEN "idle" ELSE "preflight"
  <1>1. run' = [Ended EXCEPT !.n = @ + 1, !.command = command, !.queue = Q, !.pc = p]
    BY DEF Start
  <1>2. p \in Rests
    BY DEF Rests
  <1> HIDE DEF Q, p
  <1>3. run'.pc = p /\ run'.chain = <<>>
    BY <1>1 DEF Ended, Idle
  <1> QED
    BY <1>2, <1>3, ChainEmpty

LEMMA ChainNext == Inv /\ ChainOK /\ [Next]_vars => ChainOK'
  <1> SUFFICES ASSUME Inv, ChainOK, [Next]_vars PROVE ChainOK'
    OBVIOUS
  <1>1. CASE UNCHANGED vars \/ Outside
    BY <1>1 DEF vars, Outside, ChainOK
  <1>2. ASSUME NEW found, Discover(found)
        PROVE  ChainOK'
    <2>1. run'.pc = "next" /\ run'.chain = run.chain
      BY <1>2 DEF Discover, Inv, Types, RunTyped
    <2> QED
      BY <2>1, ChainRests DEF Rests
  <1> QED
    BY <1>1, <1>2, StartOnGraph, RestOnGraph, TakeOnGraph, BuyingOnGraph, ReceiptOnGraph,
       NoticeOnGraph DEF Next, Worker, Purchase

-----------------------------------------------------------------------------
(* What is told of an order that is not payable. *)
Payable == {"PAYMENT_READY", "WAITING_FOR_USER"}

(* Only an order with a decimal number gets to its notice, or is told payable. *)
PayableOK ==
  /\ run.pc \in {"claim", "mail"} => run.event \in Decimal
  /\ \A e \in Event : told[e] \in Payable => e \in Decimal

(* The run goes where no notice is sent. *)
LEMMA NothingPayable ==
  ASSUME PayableOK, DOMAIN told = Event, run'.pc \notin {"claim", "mail"},
         \/ UNCHANGED told
         \/ \E e \in Event : \E what : Tell(e, what) /\ (what \in Payable => e \in Decimal)
  PROVE  PayableOK'
  <1>1. CASE UNCHANGED told
    BY <1>1 DEF PayableOK
  <1>2. ASSUME NEW e \in Event, NEW what, Tell(e, what), what \in Payable => e \in Decimal
        PROVE  PayableOK'
    <2>1. ToldOf(e, what)
      BY <1>2, Told
    <2> QED
      BY <1>2, <2>1 DEF PayableOK, ToldOf
  <1> QED
    BY <1>1, <1>2

LEMMA EndedPc ==
  ASSUME run' = Ended
  PROVE  run'.pc = "idle"
  BY DEF Ended, Idle

(* The receipt: evidence makes a page payable, for a decimal number alone. *)
LEMMA FinishPayable ==
  ASSUME Inv, PayableOK, run.pc \in {"submit", "reconcile"}, NEW res \in Receipts,
         Ledger!PersistResult(run.event, res) \/ Ledger!ReconcileFound(run.event, res),
         NEW before, NEW pc \in {"done", "reconcile"}, NEW what, what \notin Payable,
         FinishReceipt(run.event, res, before, pc, what)
  PROVE  PayableOK'
  <1> DEFINE e == run.event
             s == ReceiptSteps(intent'[e], res)
             w == IF Refuses(e, res) THEN what ELSE s[Len(s)]
             p == CASE Refuses(e, res) -> pc
                    [] Proved(intent'[e], res) /\ ~Refuses(e, res) -> "claim"
                    [] OTHER -> "done"
             c == before \o s
  <1>1. RunTyped /\ e \in Event /\ DOMAIN told = Event
    BY Working DEF AtWork
  <1>2. ~Proved(intent'[e], res) => s[Len(s)] \notin Payable
    BY DEF ReceiptSteps, Payable
  <1>3. Tell(e, w) /\ run' = [run EXCEPT !.pc = p, !.chain = c]
    BY DEF FinishReceipt
  <1>4. w \in Payable => e \in Decimal
    BY <1>2 DEF Refuses
  <1>5. p = "claim" => e \in Decimal
    BY DEF Refuses
  <1>6. p # "mail"
    OBVIOUS
  <1> HIDE DEF c, p, w
  <1>7. run'.pc = p /\ run'.event = e
    BY <1>1, <1>3 DEF RunTyped
  <1>8. ToldOf(e, w)
    BY <1>1, <1>3, Told
  <1> QED
    BY <1>4, <1>5, <1>6, <1>7, <1>8 DEF PayableOK, ToldOf

LEMMA ReceiptPayable ==
  ASSUME Inv, PayableOK, NEW res \in Receipts, Receipt(res) \/ Found(res)
  PROVE  PayableOK'
  <1>1. CASE Receipt(res)
    <2>1. "PAYMENT_URL_READY" \notin Payable
      BY DEF Payable
    <2> QED
      BY <1>1, <2>1, FinishPayable DEF Receipt
  <1>2. CASE Found(res)
    <2> DEFINE w == Unverified(intent'[run.event])
    <2>1. w \notin Payable
      BY DEF Unverified, Payable
    <2>2. /\ run.pc = "reconcile" /\ Ledger!ReconcileFound(run.event, res)
          /\ \E before : FinishReceipt(run.event, res, before, "done", w)
      BY <1>2 DEF Found
    <2> HIDE DEF w
    <2> QED
      BY <2>1, <2>2, FinishPayable
  <1> QED
    BY <1>1, <1>2

(* The notice is sent for a decimal number, and its user is waited for. *)
LEMMA NoticePayable ==
  ASSUME Inv, PayableOK, ClaimNotice \/ Mailed
  PROVE  PayableOK'
  <1>1. RunTyped /\ run.event \in Event /\ DOMAIN told = Event /\ run.event \in Decimal
    BY Working DEF ClaimNotice, Mailed, AtWork, PayableOK
  <1>2. CASE Walk("done", <<"WAITING_FOR_USER">>) /\ Tell(run.event, "WAITING_FOR_USER")
    <2>1. run'.pc = "done"
      BY <1>1, <1>2, WalkChain
    <2> QED
      BY <1>1, <1>2, <2>1, NothingPayable
  <1>3. CASE Goto("mail") /\ UNCHANGED told
    BY <1>1, <1>3 DEF Goto, RunTyped, PayableOK
  <1> QED
    BY <1>2, <1>3 DEF ClaimNotice, Mailed
(* Every other step tells of no payable order, and leads to no notice. *)
LEMMA BuyingPayable ==
  ASSUME Inv, PayableOK,
         Open \/ Verified \/ EnterCart \/ Prepared \/ CheckoutReady \/ Mark \/ Dispatch
  PROVE  PayableOK'
  <1>1. RunTyped /\ run.event \in Event /\ DOMAIN told = Event
    BY Working DEF Open, Verified, EnterCart, Prepared, CheckoutReady, Mark, Dispatch, AtWork
  <1>2. {"VERIFYING", "OPENING_BROWSER", "CART_READY", "CHECKOUT_READY", "ORDER_SUBMITTING"}
          \cap Payable = {}
    BY DEF Payable
  <1>3. \/ UNCHANGED told
        \/ \E what \in {"VERIFYING", "OPENING_BROWSER", "CART_READY", "CHECKOUT_READY",
                        "ORDER_SUBMITTING"} : Tell(run.event, what)
    BY DEF Open, Verified, EnterCart, Prepared, CheckoutReady, Mark, Dispatch
  <1>4. \/ Dispatch
        \/ \E p \in {"verify", "check2", "cart", "ready", "mark", "check3"} :
             Goto(p) \/ \E s : Walk(p, s)
    BY DEF Open, Verified, EnterCart, Prepared, CheckoutReady, Mark
  <1>5. run'.pc \in {"verify", "check2", "cart", "ready", "mark", "check3", "submit"}
    <2>1. CASE Dispatch
      BY <1>1, <2>1 DEF Dispatch, Ask, RunTyped
    <2> QED
      BY <1>1, <1>4, <2>1, GotoChain, WalkChain
  <1> QED
    BY <1>1, <1>2, <1>3, <1>5, NothingPayable

LEMMA TakePayable ==
  ASSUME Inv, PayableOK, NEW e \in Event, AlreadyOrdered(e) \/ Claim(e) \/ Recover(e)
  PROVE  PayableOK'
  <1> DEFINE c == <<"INTENT_CREATED">>
  <1>1. RunTyped /\ DOMAIN told = Event /\ "CLAIMED" \notin Payable
    BY DEF Inv, Types, Payable
  <1>2. \/ run' = [run EXCEPT !.pc = "done", !.event = e]
        \/ run' = [run EXCEPT !.pc = "check1", !.event = e, !.queue = @ \ {e}, !.chain = c]
        \/ run' = [run EXCEPT !.pc = "reconcile", !.event = e, !.queue = @ \ {e}]
    BY DEF AlreadyOrdered, Claim, Recover
  <1>3. UNCHANGED told \/ Tell(e, "CLAIMED")
    BY DEF AlreadyOrdered, Claim, Recover
  <1> HIDE DEF c
  <1>4. run'.pc \in {"done", "check1", "reconcile"}
    BY <1>1, <1>2 DEF RunTyped
  <1> QED
    BY <1>1, <1>3, <1>4, NothingPayable

LEMMA FailPayable ==
  ASSUME Inv, PayableOK,
         \/ Absent \/ Unresolved
         \/ \E why \in {"HUMAN", "LIVE_NOT_ARMED", "FAILED"} :
              FailBeforeAsking(why) \/ FailAsking(why)
  PROVE  PayableOK'
  <1>1. RunTyped /\ run.event \in Event /\ DOMAIN told = Event
    BY Working DEF Absent, Unresolved, FailBeforeAsking, FailAsking, AtWork
  <1>2. \/ UNCHANGED told
        \/ \E what : Tell(run.event, what) /\ what \notin Payable
    BY DEF Absent, Unresolved, FailBeforeAsking, FailAsking, Unverified, Payable
  <1>3. Goto("done") \/ Goto("reconcile")
    BY DEF Absent, Unresolved, FailBeforeAsking, FailAsking
  <1>4. run'.pc \in {"done", "reconcile"}
    BY <1>1, <1>3, GotoChain
  <1> QED
    BY <1>1, <1>2, <1>4, NothingPayable

LEMMA InterruptPayable == ASSUME Inv, PayableOK, Interrupt PROVE PayableOK'
  <1>1. run'.pc = "idle" /\ DOMAIN told = Event
    BY EndedPc DEF Interrupt, Inv, Types
  <1>2. CASE run.pc \in {"check1", "verify", "check2", "cart", "check3", "submit", "mail"}
    <2>1. run.event \in Event /\ (run.pc = "mail" => run.event \in Decimal)
      BY <1>2, Working DEF AtWork, PayableOK
    <2>2. \/ UNCHANGED told
          \/ \E what \in {"INTERRUPTED", "PRE_SUBMIT_ABORTED", "RECONCILIATION_REQUIRED"} :
               Tell(run.event, what)
          \/ run.pc = "mail" /\ Tell(run.event, "PAYMENT_READY")
      BY <1>2 DEF Interrupt
    <2>3. {"INTERRUPTED", "PRE_SUBMIT_ABORTED", "RECONCILIATION_REQUIRED"} \cap Payable = {}
      BY DEF Payable
    <2> QED
      BY <1>1, <2>1, <2>2, <2>3, NothingPayable
  <1>3. CASE run.pc \notin {"check1", "verify", "check2", "cart", "check3", "submit", "mail"}
    <2>1. UNCHANGED told
      BY <1>3 DEF Interrupt
    <2> QED
      BY <1>1, <2>1, NothingPayable
  <1> QED
    BY <1>2, <1>3

LEMMA LoopPayable ==
  ASSUME Inv, PayableOK,
         \/ \E d \in Hours : Arm(d)
         \/ Refused \/ LoopTop \/ QueueEmpty \/ Waited \/ StopBeforeNext \/ Done
         \/ BrowserClosed \/ Killed
         \/ \E found \in SUBSET (Event \ known) : Discover(found)
         \/ \E command \in Command : Start(command)
  PROVE  PayableOK'
  <1>1. RunTyped /\ DOMAIN told = Event
    BY DEF Inv, Types
  <1>2. UNCHANGED told
    BY DEF Arm, Refused, LoopTop, QueueEmpty, Waited, StopBeforeNext, Done, BrowserClosed,
       Killed, Discover, Start
  <1>3. CASE \E command \in Command : Start(command)
    <2>1. PICK command \in Command : Start(command)
      BY <1>3
    <2> DEFINE Q == IF command = "reconcile" THEN Pending ELSE {}
               p == IF command = "reconcile" THEN "next"
                    ELSE IF "stop" \in signals THEN "idle" ELSE "preflight"
    <2>2. run' = [Ended EXCEPT !.n = @ + 1, !.command = command, !.queue = Q, !.pc = p]
      BY <2>1 DEF Start
    <2>3. p \in {"next", "idle", "preflight"}
      OBVIOUS
    <2> HIDE DEF Q, p
    <2>4. run'.pc = p
      BY <2>2 DEF Ended, Idle
    <2> QED
      BY <1>1, <1>2, <2>3, <2>4, NothingPayable
  <1>4. CASE \E found \in SUBSET (Event \ known) : Discover(found)
    <2>1. run'.pc = "next"
      BY <1>1, <1>4 DEF Discover, RunTyped
    <2> QED
      BY <1>1, <1>2, <2>1, NothingPayable
  <1>5. CASE \/ run' = Ended
             \/ \E p \in {"top", "discover", "wait", "next", "hold"} : Goto(p)
    <2>1. run'.pc \in {"idle", "top", "discover", "wait", "next", "hold"}
      BY <1>1, <1>5, EndedPc, GotoChain
    <2> QED
      BY <1>1, <1>2, <2>1, NothingPayable
  <1>6. \/ run' = Ended
        \/ \E p \in {"top", "discover", "wait", "next", "hold"} : Goto(p)
        \/ \E found \in SUBSET (Event \ known) : Discover(found)
        \/ \E command \in Command : Start(command)
    BY DEF Arm, Refused, LoopTop, QueueEmpty, Waited, StopBeforeNext, Done, BrowserClosed, Killed
  <1> QED
    BY <1>3, <1>4, <1>5, <1>6

LEMMA PayableNext == Inv /\ PayableOK /\ [Next]_vars => PayableOK'
  <1> SUFFICES ASSUME Inv, PayableOK, [Next]_vars PROVE PayableOK'
    OBVIOUS
  <1>1. CASE UNCHANGED vars \/ Outside
    BY <1>1 DEF vars, Outside, PayableOK
  <1> QED
    BY <1>1, LoopPayable, InterruptPayable, FailPayable, TakePayable, BuyingPayable,
       ReceiptPayable, NoticePayable DEF Next, Worker, Purchase

(* Every state a purchase is recorded in may follow the one before it: in    *)
(* any number of purchases, whatever their receipts say, and where the order *)
(* was only found later.  An order whose number is refused after it was      *)
(* stored is never reported as payable.                                      *)
THEOREM RecordsOnGraph == Spec => []StaysOnGraph
  <1>1. Init => ChainOK
    <2> SUFFICES ASSUME Init PROVE ChainOK
      OBVIOUS
    <2>1. run.chain = <<>> /\ run.pc = "idle"
      BY DEF Init, Idle
    <2> QED
      BY <2>1 DEF ChainOK, ChainAt, OnGraph
  <1>2. Init => PayableOK
    BY DEF Init, Idle, PayableOK, Payable
  <1>3. ChainOK /\ PayableOK => StaysOnGraph
    BY DEF ChainOK, OnGraph, PayableOK, Payable, StaysOnGraph
  <1> QED
    BY <1>1, <1>2, <1>3, ChainNext, PayableNext, Invariance, PTL DEF Spec
=============================================================================
