---------------------------- MODULE TableProofs ----------------------------
(***************************************************************************)
(* Proofs about the two tables of the database that every reader of a      *)
(* catalogue goes through: the request budget (RateBudget), for any number *)
(* of callers and any durations, and the baseline with its events          *)
(* (EventStore), for any finite set of products.                           *)
(*                                                                         *)
(* The inductive invariant of the budget says whose claim is in the row,   *)
(* that a claim is only there when no block is running, and where the      *)
(* silence of the last admitted caller is remembered: in the lease, and    *)
(* then in the block.  That of the store says that no event is ahead of    *)
(* the revision of its product, and that a row holds the stock that was    *)
(* last known for certain.                                                 *)
(***************************************************************************)
EXTENDS EventStore, RateBudget, FunctionTheorems, FiniteSetTheorems, SequenceTheorems, TLAPS

-----------------------------------------------------------------------------
(* The request budget. *)

(* Every ticket is of an admission; the claim is of the last one. *)
Numbered ==
  /\ row.claim \in {0, issued}
  /\ \A c \in Caller :
       ticket[c] # NoTicket => 0 < ticket[c].nonce /\ ticket[c].nonce <= issued

Unblocked == row.claim # 0 => row.blocked <= now

Silent ==
  last.open =>
    \/ row.claim # 0 /\ 0 < row.until /\ row.until = last.ends
    \/ row.claim = 0 /\ row.blocked >= last.ends + Cooldown

BudgetInv == TypeOK /\ Numbered /\ Unblocked /\ Silent

LEMMA LargerIsNat == ASSUME NEW a \in Nat, NEW b \in Nat
  PROVE Larger(a, b) \in Nat /\ Larger(a, b) >= a /\ Larger(a, b) >= b
BY DEF Larger

(* The fallback is a natural number, whatever the count of limits. *)
LEMMA FallbackIsNat == ASSUME NEW n \in Nat PROVE Fallback(n) \in Nat
<1> DEFINE k == Smaller(Larger(n, 1), 8)
<1>1. k \in 1 .. 8
  BY DEF Smaller, Larger
<1>2. Doubling[k] \in Nat
  BY <1>1 DEF Doubling
<1>3. Cooldown * Doubling[k] \in Nat
  BY <1>2, BudgetAssumption
<1> QED
  BY <1>3, BudgetAssumption DEF Fallback, Smaller

LEMMA DelayIsNat ==
  ASSUME NEW l \in BOOLEAN, NEW n \in Nat, NEW i \in Nat, NEW r \in Nat
  PROVE  Delay(l, n, i, r) \in Nat
<1>1. Fallback(n) \in Nat
  BY FallbackIsNat
<1> QED
  BY <1>1, BudgetAssumption DEF Delay, Larger

(* The invariant holds initially and is kept by every step. *)
LEMMA BudgetInvInit == Init => BudgetInv
BY DEF Init, BudgetInv, TypeOK, Row, Ticket, NoTicket, Numbered, Unblocked, Silent

LEMMA BudgetInvNext == BudgetInv /\ [Next]_vars => BudgetInv'
<1> SUFFICES ASSUME BudgetInv, [Next]_vars PROVE BudgetInv'
  OBVIOUS
<1>0. /\ row \in Row /\ now \in Nat /\ issued \in Nat
      /\ row.blocked \in Nat /\ row.limits \in Nat /\ row.next \in Nat
      /\ row.claim \in Nat /\ row.until \in Nat
      /\ ticket \in [Caller -> Ticket] /\ last \in [open : BOOLEAN, ends : Nat]
      /\ last.open \in BOOLEAN /\ last.ends \in Nat
  BY DEF BudgetInv, TypeOK, Row
<1>1. ASSUME NEW c \in Caller, Admitted(c) PROVE BudgetInv'
  <2>1. PICK t \in Terms :
          /\ row' = [row EXCEPT !.claim = issued + 1, !.until = now + t.lease,
                                !.next = now + t.interval]
          /\ ticket' = [ticket EXCEPT ![c] = [nonce |-> issued + 1, interval |-> t.interval]]
          /\ last' = [open |-> TRUE, ends |-> now + t.lease]
    BY <1>1 DEF Admitted
  <2>2. t.lease \in Nat /\ t.lease > 0 /\ t.interval \in Nat
    BY BudgetAssumption
  <2>3. issued' = issued + 1 /\ now' = now /\ now >= row.blocked
    BY <1>1 DEF Admitted
  <2> DEFINE e == now + t.lease
             x == now + t.interval
             m == issued + 1
  <2>9. e \in Nat /\ x \in Nat /\ m \in Nat
    BY <1>0, <2>2
  <2>10. row' = [row EXCEPT !.claim = m, !.until = e, !.next = x]
    BY <2>1
  <2> HIDE DEF e, x, m
  <2>11. row' \in Row
    BY <1>0, <2>9, <2>10 DEF Row
  <2>12. row'.claim = m /\ row'.until = e /\ row'.blocked = row.blocked
    BY <1>0, <2>10 DEF Row
  <2>4. /\ row' \in Row /\ row'.claim = issued + 1 /\ row'.until = now + t.lease
        /\ row'.blocked = row.blocked
    BY <2>11, <2>12 DEF e, m
  <2>5. last' \in [open : BOOLEAN, ends : Nat] /\ last'.ends = now + t.lease
    BY <1>0, <2>1, <2>2
  <2>6. [nonce |-> issued + 1, interval |-> t.interval] \in Ticket
    BY <1>0, <2>2 DEF Ticket
  <2>7. ticket' \in [Caller -> Ticket]
    BY <1>0, <2>1, <2>6
  <2>8. \A d \in Caller : ticket'[d] # NoTicket =>
          0 < ticket'[d].nonce /\ ticket'[d].nonce <= issued + 1
    <3> TAKE d \in Caller
    <3>1. CASE d = c
      BY <1>0, <2>1, <3>1
    <3>2. CASE d # c
      <4>1. ticket'[d] = ticket[d] /\ ticket[d] \in Ticket
        BY <1>0, <2>1, <3>2
      <4>2. ticket[d].nonce \in Nat
        BY <4>1 DEF Ticket
      <4> QED
        BY <1>0, <4>1, <4>2 DEF BudgetInv, Numbered
    <3> QED
      BY <3>1, <3>2
  <2> QED
    BY <1>0, <2>2, <2>3, <2>4, <2>5, <2>7, <2>8
       DEF BudgetInv, TypeOK, Numbered, Unblocked, Silent
<1>2. ASSUME NEW c \in Caller, Interrupted(c) PROVE BudgetInv'
  <2> DEFINE b == Larger(row.blocked, now + Cooldown)
  <2>0. now + Cooldown \in Nat
    BY <1>0, BudgetAssumption
  <2>1. b \in Nat /\ b >= now + Cooldown
    BY <1>0, <2>0, LargerIsNat
  <2>2. row.claim # 0 /\ 0 < row.until /\ row.until <= now
    BY <1>2 DEF Interrupted, Lapsed
  <2>3. row' = [row EXCEPT !.claim = 0, !.until = 0, !.blocked = b]
        /\ UNCHANGED <<ticket, now, issued, last>>
    BY <1>2 DEF Interrupted
  <2> HIDE DEF b
  <2>4. row' \in Row /\ row'.claim = 0 /\ row'.until = 0 /\ row'.blocked = b
    BY <1>0, <2>1, <2>3 DEF Row
  <2>5. last.open => row'.blocked >= last.ends + Cooldown
    BY <1>0, <2>1, <2>2, <2>4, BudgetAssumption DEF BudgetInv, Silent
  <2> QED
    BY <2>3, <2>4, <2>5 DEF BudgetInv, TypeOK, Numbered, Unblocked, Silent
<1>3. ASSUME NEW c \in Caller, Success(c) PROVE BudgetInv'
  <2>1. row' = [row EXCEPT !.until = 0, !.blocked = 0, !.limits = 0]
        /\ last' = [last EXCEPT !.open = FALSE] /\ UNCHANGED <<ticket, now, issued>>
    BY <1>3 DEF Success
  <2>2. row' \in Row /\ row'.claim = row.claim /\ row'.until = 0 /\ row'.blocked = 0
    BY <1>0, <2>1 DEF Row
  <2>3. last' \in [open : BOOLEAN, ends : Nat] /\ ~last'.open
    BY <1>0, <2>1
  <2> QED
    BY <1>0, <2>1, <2>2, <2>3 DEF BudgetInv, TypeOK, Numbered, Unblocked, Silent
<1>4. ASSUME NEW c \in Caller, NEW l \in BOOLEAN, NEW r \in RetryAfter, Failure(c, l, r)
      PROVE BudgetInv'
  <2> DEFINE n == IF l THEN row.limits + 1 ELSE row.limits
             d == Delay(l, n, ticket[c].interval, r)
  <2>1. n \in Nat
    BY <1>0
  <2>2. ticket[c].interval \in Nat /\ r \in Nat
    BY <1>0, BudgetAssumption DEF Ticket
  <2>3. d \in Nat
    BY <2>1, <2>2, DelayIsNat
  <2>4. row' = [row EXCEPT !.claim = 0, !.until = 0, !.limits = n, !.blocked = now + d]
        /\ last' = [last EXCEPT !.open = FALSE]
        /\ UNCHANGED <<ticket, now, issued>>
    BY <1>4 DEF Failure
  <2> HIDE DEF d, n
  <2>5. now + d \in Nat
    BY <1>0, <2>3
  <2>6. row' \in Row /\ row'.claim = 0 /\ row'.until = 0
    BY <1>0, <2>1, <2>4, <2>5 DEF Row
  <2>7. last' \in [open : BOOLEAN, ends : Nat] /\ ~last'.open
    BY <1>0, <2>4
  <2> QED
    BY <1>0, <2>4, <2>6, <2>7 DEF BudgetInv, TypeOK, Numbered, Unblocked, Silent
<1>5. CASE BrowserBlock
  <2> DEFINE b == Larger(row.blocked, now + Fallback(row.limits + 1))
  <2>1. Fallback(row.limits + 1) \in Nat
    BY <1>0, FallbackIsNat
  <2>0. now + Fallback(row.limits + 1) \in Nat /\ row.limits + 1 \in Nat
    BY <1>0, <2>1
  <2>2. b \in Nat /\ b >= row.blocked
    BY <1>0, <2>0, LargerIsNat
  <2>3. row' = [row EXCEPT !.claim = 0, !.until = 0, !.limits = row.limits + 1, !.blocked = b]
        /\ last' = [last EXCEPT !.open = @ /\ row.claim = 0]
        /\ UNCHANGED <<ticket, now, issued>>
    BY <1>5 DEF BrowserBlock
  <2> HIDE DEF b
  <2>4. row' \in Row /\ row'.claim = 0 /\ row'.until = 0 /\ row'.blocked = b
    BY <1>0, <2>0, <2>2, <2>3 DEF Row
  <2>5. last' \in [open : BOOLEAN, ends : Nat] /\ last'.ends = last.ends
        /\ last'.open = (last.open /\ row.claim = 0)
    BY <1>0, <2>3
  <2>6. last'.open => row'.blocked >= last'.ends + Cooldown
    BY <1>0, <2>2, <2>4, <2>5, BudgetAssumption DEF BudgetInv, Silent
  <2> QED
    BY <1>0, <2>3, <2>4, <2>5, <2>6 DEF BudgetInv, TypeOK, Numbered, Unblocked, Silent
<1>6. ASSUME NEW c \in Caller, Drop(c) PROVE BudgetInv'
  <2>1. ticket' = [ticket EXCEPT ![c] = NoTicket] /\ UNCHANGED <<row, now, issued, last>>
    BY <1>6 DEF Drop
  <2>2. NoTicket \in Ticket
    BY DEF NoTicket, Ticket
  <2>3. ticket' \in [Caller -> Ticket]
    BY <1>0, <2>1, <2>2
  <2>4. \A d \in Caller : ticket'[d] # NoTicket => ticket'[d] = ticket[d]
    BY <1>0, <2>1
  <2> QED
    BY <2>1, <2>3, <2>4 DEF BudgetInv, TypeOK, Numbered, Unblocked, Silent
<1>7. CASE Tick
  BY <1>0, <1>7 DEF Tick, BudgetInv, TypeOK, Numbered, Unblocked, Silent
<1>8. CASE UNCHANGED vars
  BY <1>8 DEF vars, BudgetInv, TypeOK, Numbered, Unblocked, Silent
<1>9. ASSUME NEW c \in Caller, Denied(c) \/ TooLate(c) PROVE BudgetInv'
  BY <1>8, <1>9 DEF Denied, TooLate
<1> QED
  BY <1>1, <1>2, <1>3, <1>4, <1>5, <1>6, <1>7, <1>8, <1>9 DEF Next

LEMMA BudgetInvariance == Spec => []BudgetInv
BY BudgetInvInit, BudgetInvNext, PTL DEF Spec

(* The row is well formed at all times, and a lease belongs to a claim      *)
(* (claim, _finish and record_browser_block together).                      *)
THEOREM BudgetTypeCorrect == Spec => []TypeOK
<1>1. BudgetInv => TypeOK
  BY DEF BudgetInv
<1> QED
  BY <1>1, BudgetInvariance, PTL

(* Only the caller admitted last can report (_finish). *)
THEOREM OnlyTheLast == Spec => []OneReporter
<1>1. BudgetInv => OneReporter
  BY DEF BudgetInv, TypeOK, Row, Ticket, Numbered, OneReporter, Live, Amendable
<1> QED
  BY <1>1, BudgetInvariance, PTL

(* No imposed wait is shortened: success, failure, a lapse and the browser  *)
(* all leave a running block where it is or move its end back.              *)
THEOREM BlocksStand == Spec => BlockStands
<1> DEFINE A == row.blocked > now => row'.blocked >= row.blocked
<1>1. ASSUME BudgetInv, [Next]_vars PROVE [A]_vars
  <2> SUFFICES ASSUME row.blocked > now, ~(UNCHANGED vars) PROVE row'.blocked >= row.blocked
    OBVIOUS
  <2>0. row.blocked \in Nat /\ row.limits \in Nat /\ now \in Nat
    BY <1>1 DEF BudgetInv, TypeOK, Row
  <2>1. row.claim = 0
    BY <1>1, <2>0 DEF BudgetInv, Unblocked
  <2>9. ASSUME NEW c \in Caller, ticket[c] # NoTicket PROVE row.claim # ticket[c].nonce
    BY <1>1, <2>1, <2>9 DEF BudgetInv, Numbered
  <2>10. ASSUME NEW c \in Caller, Admitted(c) PROVE FALSE
    <3>1. now >= row.blocked
      BY <2>10 DEF Admitted
    <3> QED
      BY <2>0, <3>1
  <2>11. ASSUME NEW c \in Caller PROVE ~Success(c)
    BY <2>9 DEF Success, Live
  <2>12. ASSUME NEW c \in Caller PROVE ~Interrupted(c)
    BY <2>1 DEF Interrupted, Lapsed
  <2>2. ASSUME NEW c \in Caller PROVE ~Admitted(c) /\ ~Success(c) /\ ~Interrupted(c)
    BY <2>10, <2>11, <2>12
  <2>3. ASSUME NEW c \in Caller, NEW l \in BOOLEAN, NEW r \in RetryAfter
        PROVE  ~Failure(c, l, r)
    BY <2>9 DEF Failure, Live, Amendable
  <2>4. ASSUME NEW c \in Caller PROVE ~Denied(c) /\ ~TooLate(c)
    BY DEF Denied, TooLate
  <2>5. CASE BrowserBlock
    <3>1. Fallback(row.limits + 1) \in Nat
      BY <2>0, FallbackIsNat
    <3>2. now + Fallback(row.limits + 1) \in Nat
      BY <2>0, <3>1
    <3>3. Larger(row.blocked, now + Fallback(row.limits + 1)) >= row.blocked
      BY <2>0, <3>2, LargerIsNat
    <3>4. row \in Row
      BY <1>1 DEF BudgetInv, TypeOK
    <3> QED
      BY <2>5, <3>3, <3>4 DEF BrowserBlock, Row
  <2>6. CASE Tick \/ \E c \in Caller : Drop(c)
    BY <2>0, <2>6 DEF Tick, Drop
  <2> QED
    BY <1>1, <2>2, <2>3, <2>4, <2>5, <2>6 DEF Next
<1> QED
  BY <1>1, BudgetInvariance, PTL DEF Spec, BlockStands

(* After a ticket nobody reported on, the next admission waits out the      *)
(* lease and a cooldown.                                                    *)
THEOREM SilenceWaits == Spec => SilenceCoolsDown
<1> DEFINE A == issued' # issued /\ last.open => now >= last.ends + Cooldown
<1>1. ASSUME BudgetInv, [Next]_vars PROVE [A]_vars
  <2> SUFFICES ASSUME issued' # issued, last.open PROVE now >= last.ends + Cooldown
    OBVIOUS
  <2>0. /\ row.blocked \in Nat /\ row.until \in Nat /\ now \in Nat
        /\ last.ends \in Nat /\ Cooldown \in Nat
    BY <1>1, BudgetAssumption DEF BudgetInv, TypeOK, Row
  <2>1. PICK c \in Caller : Admitted(c)
    BY <1>1 DEF Next, vars, Denied, Interrupted, Success, TooLate, Drop, Failure, BrowserBlock, Tick
  <2>2. ~Lapsed /\ now >= row.blocked /\ now >= row.until
    BY <2>1 DEF Admitted
  <2>3. row.claim = 0 /\ row.blocked >= last.ends + Cooldown
    BY <1>1, <2>0, <2>2 DEF BudgetInv, Silent, Lapsed
  <2> QED
    BY <2>0, <2>2, <2>3
<1> QED
  BY <1>1, BudgetInvariance, PTL DEF Spec, SilenceCoolsDown

-----------------------------------------------------------------------------
(* The store. *)

Increasing(s) == \A i, j \in DOMAIN s : i < j => s[i] < s[j]

(* A finite set of numbers can be put in order: every number goes where the *)
(* count of those up to it says.                                           *)
LEMMA OrderExists ==
  ASSUME NEW S \in SUBSET Nat, IsFiniteSet(S)
  PROVE  \E s \in [1 .. Cardinality(S) -> S] : Increasing(s)
<1> DEFINE n == Cardinality(S)
           upto(p) == {q \in S : q <= p}
           rank == [p \in S |-> Cardinality(upto(p))]
<1>0. \A p \in S : p \in Nat
  OBVIOUS
<1>1. n \in Nat
  BY FS_CardinalityType
<1>2. ASSUME NEW p \in S PROVE rank[p] \in 1 .. n /\ IsFiniteSet(upto(p)) /\ rank[p] = Cardinality(upto(p))
  <2>1. upto(p) \in SUBSET S /\ p \in upto(p)
    OBVIOUS
  <2>2. IsFiniteSet(upto(p)) /\ Cardinality(upto(p)) <= n
    BY <2>1, FS_Subset
  <2>3. Cardinality(upto(p)) \in Nat /\ Cardinality(upto(p)) # 0
    BY <2>1, <2>2, FS_CardinalityType, FS_EmptySet
  <2> QED
    BY <1>1, <2>2, <2>3
<1>3. ASSUME NEW p \in S, NEW q \in S, p < q PROVE rank[p] < rank[q]
  <2>1. upto(p) \in SUBSET upto(q) /\ q \in upto(q) \ upto(p)
    <3>1. p \in Nat /\ q \in Nat
      BY <1>0
    <3>2. ~(q <= p) /\ q <= q
      BY <1>3, <3>1
    <3>3. \A r \in S : r <= p => r <= q
      BY <1>0, <1>3, <3>1
    <3> QED
      BY <3>2, <3>3
  <2>2. Cardinality(upto(p)) <= Cardinality(upto(q)) /\ Cardinality(upto(p)) # Cardinality(upto(q))
    BY <2>1, <1>2, FS_Subset
  <2> QED
    BY <1>2, <2>2
<1>4. rank \in [S -> 1 .. n]
  BY <1>2
<1> HIDE DEF rank, n, upto
<1>5. \A p, q \in S : rank[p] = rank[q] => p = q
  <2> SUFFICES ASSUME NEW p \in S, NEW q \in S, p # q PROVE rank[p] # rank[q]
    OBVIOUS
  <2>1. p < q \/ q < p
    BY <1>0
  <2> QED
    BY <1>1, <1>2, <1>3, <2>1
<1>6. rank \in Injection(S, 1 .. n)
  BY <1>4, <1>5, Fun_IsInj
<1>7. IsFiniteSet(1 .. n) /\ Cardinality(1 .. n) = n
  BY <1>1, FS_Interval
<1>8. rank \in Surjection(S, 1 .. n)
  BY <1>6, <1>7, FS_Injection DEF n
<1>9. \A i \in 1 .. n : \E p \in S : rank[p] = i
  BY <1>8, Fun_SurjectionProperties
<1> DEFINE s == [i \in 1 .. n |-> CHOOSE p \in S : rank[p] = i]
<1>10. s \in [1 .. n -> S] /\ \A i \in 1 .. n : rank[s[i]] = i
  BY <1>9
<1> HIDE DEF s
<1>11. ASSUME NEW i \in 1 .. n, NEW j \in 1 .. n, i < j PROVE s[i] < s[j]
  <2>1. s[i] \in S /\ s[j] \in S /\ rank[s[i]] = i /\ rank[s[j]] = j
    BY <1>10
  <2>2. s[i] \in Nat /\ s[j] \in Nat
    BY <1>0, <2>1
  <2>3. ~(s[j] < s[i])
    <3>1. s[j] < s[i] => j < i
      BY <1>3, <2>1
    <3> QED
      BY <1>1, <1>11, <3>1
  <2> QED
    BY <1>11, <2>1, <2>2, <2>3
<1> QED
  BY <1>10, <1>11 DEF Increasing, n

(* InOrder lists each number of a finite set once.                         *)
LEMMA InOrderLists ==
  ASSUME NEW S \in SUBSET Nat, IsFiniteSet(S)
  PROVE  /\ Cardinality(S) \in Nat
         /\ InOrder(S) \in [1 .. Cardinality(S) -> S]
         /\ \A i, j \in 1 .. Cardinality(S) : i # j => InOrder(S)[i] # InOrder(S)[j]
         /\ \A p \in S : \E i \in 1 .. Cardinality(S) : InOrder(S)[i] = p
<1> DEFINE n == Cardinality(S)
           s == InOrder(S)
<1>1. n \in Nat
  BY FS_CardinalityType
<1>2. s \in [1 .. n -> S] /\ Increasing(s)
  BY OrderExists DEF InOrder, Increasing
<1> HIDE DEF n, s
<1>3. \A i, j \in 1 .. n : i # j => s[i] # s[j]
  <2> SUFFICES ASSUME NEW i \in 1 .. n, NEW j \in 1 .. n, i # j PROVE s[i] # s[j]
    OBVIOUS
  <2>1. i < j \/ j < i
    BY <1>1
  <2>2. s[i] \in Nat /\ s[j] \in Nat
    BY <1>2
  <2> QED
    BY <1>2, <2>1, <2>2 DEF Increasing
<1>4. s \in Injection(1 .. n, S)
  BY <1>2, <1>3, Fun_IsInj
<1>5. IsFiniteSet(1 .. n) /\ Cardinality(1 .. n) = n
  BY <1>1, FS_Interval
<1>6. s \in Surjection(1 .. n, S)
  BY <1>4, <1>5, FS_Injection DEF n
<1> QED
  BY <1>1, <1>2, <1>3, <1>6, Fun_SurjectionProperties DEF n, s

Stored == [stock : Stock, look : Look, revision : 0 .. MaxRevision]

(* No event is ahead of the row of its product, ...                         *)
Behind ==
  \A e \in DOMAIN event :
    /\ product[event[e].product] # None
    /\ event[e].revision <= product[event[e].product].revision
(* ... and a row holds the stock that was last known for certain.           *)
LastKnown ==
  \A p \in Product : sighted[p] = IF product[p] = None THEN "UNKNOWN" ELSE product[p].stock

StoreInv ==
  /\ StoreTypeOK
  /\ event \in Seq(Event) /\ Len(event) <= MaxEvents
  /\ product \in [Product -> Stored \cup {None}]
  /\ sighted \in [Product -> Stock]
  /\ Behind /\ LastKnown
  /\ EveryChangeHasItsKey

LEMMA RowFacts ==
  ASSUME StoreInv, NEW p \in Product, product[p] # None
  PROVE  /\ baseline /\ product[p] \in Stored
         /\ product[p].stock \in Stock /\ product[p].look \in Look
         /\ product[p].revision \in 0 .. MaxRevision /\ product[p].revision \in Nat
<1>1. baseline /\ product[p] \in Stored
  BY DEF StoreInv, StoreTypeOK, Stored
<1> QED
  BY <1>1, StoreAssumption DEF Stored

LEMMA StoredIsSome ==
  ASSUME NEW r \in Stored
  PROVE  r # None
<1>1. r \in [stock : Stock, look : Look, revision : Nat]
  BY StoreAssumption DEF Stored
<1> QED
  BY <1>1, StoreAssumption

(* What an observation makes of the row of its product.                     *)
LEMMA MergedFacts ==
  ASSUME StoreInv, NEW p \in Product, NEW obs \in Observation
  PROVE  /\ Merged(p, obs) \in Observation /\ Merged(p, obs).look = obs.look
         /\ obs.stock # "UNKNOWN" => Merged(p, obs).stock = obs.stock
         /\ obs.stock = "UNKNOWN" =>
              Merged(p, obs).stock = IF product[p] = None THEN "UNKNOWN" ELSE product[p].stock
         /\ Revision(p, obs) \in Nat
         /\ product[p] # None => Revision(p, obs) >= product[p].revision
<1>1. CASE product[p] = None
  BY <1>1 DEF Merged, Observation, Revision
<1>2. CASE product[p] # None
  <2>1. /\ product[p].stock \in Stock /\ product[p].revision \in Nat
    BY <1>2, RowFacts
  <2>2. Revision(p, obs) \in {product[p].revision, product[p].revision + 1}
    BY <1>2 DEF Revision
  <2>3. CASE obs.stock = "UNKNOWN"
    <3>1. Merged(p, obs) = [obs EXCEPT !.stock = product[p].stock]
      BY <1>2, <2>3 DEF Merged
    <3> QED
      BY <1>2, <2>1, <2>2, <2>3, <3>1 DEF Observation
  <2>4. CASE obs.stock # "UNKNOWN"
    <3>1. Merged(p, obs) = obs
      BY <2>4 DEF Merged
    <3> QED
      BY <1>2, <2>1, <2>2, <2>4, <3>1 DEF Observation
  <2> QED
    BY <2>3, <2>4
<1> QED
  BY <1>1, <1>2

(* The rows after a scan.                                                   *)
LEMMA RowsIngested ==
  ASSUME StoreInv, NEW S \in SUBSET Product, NEW scan \in [S -> Observation], Ingest(scan)
  PROVE  /\ product' \in [Product -> Stored \cup {None}]
         /\ \A p \in S : /\ product'[p] # None
                         /\ product'[p].stock = Merged(p, scan[p]).stock
                         /\ product'[p].look = scan[p].look
                         /\ product'[p].revision = Revision(p, scan[p])
         /\ \A p \in Product \ S : product'[p] = product[p]
<1>1. product' = Rows(scan) /\ DOMAIN scan = S
  BY DEF Ingest
<1>2. ASSUME NEW p \in S
      PROVE  /\ product'[p] \in Stored /\ product'[p] # None
             /\ product'[p].stock = Merged(p, scan[p]).stock
             /\ product'[p].look = scan[p].look
             /\ product'[p].revision = Revision(p, scan[p])
  <2>1. p \in Product /\ scan[p] \in Observation
    OBVIOUS
  <2>2. product'[p] = [stock |-> Merged(p, scan[p]).stock, look |-> scan[p].look,
                       revision |-> Revision(p, scan[p])]
    BY <1>1, <2>1 DEF Rows
  <2>3. Merged(p, scan[p]).stock \in Stock /\ scan[p].look \in Look
    BY <2>1, MergedFacts DEF Observation
  <2>4. Revision(p, scan[p]) \in 0 .. MaxRevision
    <3>1. Revision(p, scan[p]) <= MaxRevision /\ Revision(p, scan[p]) \in Nat
      BY <1>1, <2>1, MergedFacts DEF Ingest, WithinBounds
    <3> QED
      BY <3>1, StoreAssumption
  <2>5. product'[p] \in Stored
    BY <2>2, <2>3, <2>4 DEF Stored
  <2> QED
    BY <2>2, <2>5, StoredIsSome
<1>3. ASSUME NEW p \in Product \ S PROVE product'[p] = product[p]
  BY <1>1 DEF Rows
<1>4. product' = [p \in Product |-> product'[p]]
  BY <1>1 DEF Rows
<1>5. \A p \in Product : product'[p] \in Stored \cup {None}
  BY <1>2, <1>3 DEF StoreInv
<1> QED
  BY <1>2, <1>3, <1>4, <1>5

(* The event of an observation.                                             *)
LEMMA NewEventTyped ==
  ASSUME StoreInv, NEW p \in Product, NEW obs \in Observation, EventType(p, obs) # None
  PROVE  NewEvent(p, obs) \in Event /\ NewEvent(p, obs).product = p
         /\ NewEvent(p, obs).revision = Revision(p, obs) /\ NewEvent(p, obs).kind = EventType(p, obs)
<1>1. EventType(p, obs) \in Kind
  BY DEF EventType, Kind
<1>2. Revision(p, obs) \in Nat /\ obs.look \in Look
  BY MergedFacts DEF Observation
<1>3. Opportunity(p, obs) \in BOOLEAN
  <2>1. CASE product[p] = None
    BY <2>1 DEF Opportunity
  <2>2. CASE product[p] # None
    BY <2>2, Zenon DEF Opportunity
  <2> QED
    BY <2>1, <2>2
<1>4. (Opportunity(p, obs) /\ obs.stock = "AVAILABLE") \in BOOLEAN
  BY Zenon
<1> DEFINE o == Opportunity(p, obs)
           c == Opportunity(p, obs) /\ obs.stock = "AVAILABLE"
           k == EventType(p, obs)
           r == Revision(p, obs)
<1>5. /\ o \in BOOLEAN /\ c \in BOOLEAN /\ k \in Kind /\ r \in Nat
      /\ NewEvent(p, obs) = [product |-> p, kind |-> k, revision |-> r, look |-> obs.look,
           opportunity |-> o, candidate |-> c, status |-> "PENDING"]
  BY <1>1, <1>2, <1>3, <1>4 DEF NewEvent
<1> HIDE DEF o, c, k, r
<1>6. NewEvent(p, obs) \in Event /\ NewEvent(p, obs).product = p
      /\ NewEvent(p, obs).revision = r /\ NewEvent(p, obs).kind = k
  BY <1>2, <1>5 DEF Event, Status
<1> QED
  BY <1>6 DEF k, r

(* The events of a scan come after those there are, one for each product    *)
(* that has something to tell.                                              *)
LEMMA EventsIngested ==
  ASSUME StoreInv, NEW S \in SUBSET Product, NEW scan \in [S -> Observation], Ingest(scan)
  PROVE  /\ event' \in Seq(Event) /\ Len(event') \in Nat
         /\ Len(event) <= Len(event') /\ Len(event') <= MaxEvents
         /\ \A e \in DOMAIN event : e \in DOMAIN event' /\ event'[e] = event[e]
         /\ \A e \in DOMAIN event' \ DOMAIN event :
              \E p \in Eventful(scan) : event'[e] = NewEvent(p, scan[p]) /\ event'[e].product = p
         /\ \A p \in Eventful(scan) :
              \E e \in DOMAIN event' \ DOMAIN event : event'[e] = NewEvent(p, scan[p])
         /\ \A d, e \in DOMAIN event' \ DOMAIN event :
              d # e => event'[d].product # event'[e].product
<1> DEFINE E == Eventful(scan)
           n == Cardinality(E)
           order == InOrder(E)
           N == NewEvents(scan)
           m == Len(event)
<1>1. E \subseteq S /\ E \in SUBSET Nat /\ IsFiniteSet(E) /\ \A p \in E : EventType(p, scan[p]) # None
  <2>1. E \subseteq S /\ \A p \in E : EventType(p, scan[p]) # None
    BY DEF Eventful
  <2> HIDE DEF E
  <2> QED
    BY <2>1, StoreAssumption, FS_Subset
<1>2. N = [i \in 1 .. n |-> NewEvent(order[i], scan[order[i]])]
  BY DEF NewEvents
<1> HIDE DEF E, N
<1>3. /\ n \in Nat /\ order \in [1 .. n -> E]
      /\ \A i, j \in 1 .. n : i # j => order[i] # order[j]
      /\ \A p \in E : \E i \in 1 .. n : order[i] = p
  BY <1>1, InOrderLists
<1> HIDE DEF n, order
<1>4. ASSUME NEW i \in 1 .. n
      PROVE  /\ order[i] \in E /\ N[i] = NewEvent(order[i], scan[order[i]])
             /\ N[i] \in Event /\ N[i].product = order[i]
  <2>1. order[i] \in E /\ order[i] \in Product /\ scan[order[i]] \in Observation
    BY <1>1, <1>3
  <2>2. N[i] = NewEvent(order[i], scan[order[i]])
    BY <1>2
  <2>3. EventType(order[i], scan[order[i]]) # None
    BY <1>1, <2>1
  <2>4. /\ NewEvent(order[i], scan[order[i]]) \in Event
        /\ NewEvent(order[i], scan[order[i]]).product = order[i]
    BY <2>1, <2>3, NewEventTyped
  <2> QED
    BY <2>1, <2>2, <2>4
<1>5. N \in Seq(Event) /\ Len(N) = n
  <2>1. N \in [1 .. n -> Event]
    BY <1>2, <1>4
  <2> QED
    BY <1>3, <2>1
<1>6. event \in Seq(Event) /\ m \in Nat /\ DOMAIN event = 1 .. m /\ event' = event \o N
  BY LenProperties DEF StoreInv, Ingest, N
<1>7. /\ event' \in Seq(Event) /\ Len(event') = m + n /\ DOMAIN event' = 1 .. m + n
      /\ \A i \in 1 .. m + n : event'[i] = IF i <= m THEN event[i] ELSE N[i - m]
  <2>1. /\ event \o N \in Seq(Event)
        /\ Len(event \o N) = Len(event) + Len(N)
        /\ \A i \in 1 .. Len(event) + Len(N) :
             (event \o N)[i] = IF i <= Len(event) THEN event[i] ELSE N[i - Len(event)]
    BY <1>5, <1>6, ConcatProperties
  <2>2. DOMAIN event' = 1 .. Len(event')
    BY <1>6, <2>1, LenProperties
  <2> QED
    BY <1>5, <1>6, <2>1, <2>2
<1> HIDE DEF m
<1>8. ASSUME NEW e \in DOMAIN event' \ DOMAIN event
      PROVE  /\ e - m \in 1 .. n /\ event'[e] = N[e - m]
  BY <1>3, <1>6, <1>7
<1>9. ASSUME NEW i \in 1 .. n
      PROVE  m + i \in DOMAIN event' \ DOMAIN event /\ event'[m + i] = N[i]
  BY <1>3, <1>6, <1>7
<1>10. \A e \in DOMAIN event : e \in DOMAIN event' /\ event'[e] = event[e]
  BY <1>3, <1>6, <1>7
<1>11. \A e \in DOMAIN event' \ DOMAIN event :
          \E p \in E : event'[e] = NewEvent(p, scan[p]) /\ event'[e].product = p
  BY <1>4, <1>8
<1>12. \A p \in E : \E e \in DOMAIN event' \ DOMAIN event : event'[e] = NewEvent(p, scan[p])
  BY <1>3, <1>4, <1>9
<1>13. ASSUME NEW d \in DOMAIN event' \ DOMAIN event, NEW e \in DOMAIN event' \ DOMAIN event, d # e
       PROVE  event'[d].product # event'[e].product
  <2>1. d - m # e - m
    BY <1>6, <1>7, <1>13
  <2>2. N[d - m].product = order[d - m] /\ N[e - m].product = order[e - m]
    BY <1>4, <1>8
  <2> QED
    BY <1>3, <1>8, <2>1, <2>2
<1>14. Len(event') \in Nat /\ Len(event) <= Len(event') /\ Len(event') <= MaxEvents
  BY <1>3, <1>5, <1>6, <1>7 DEF Ingest, WithinBounds, N, m
<1> QED
  BY <1>7, <1>10, <1>11, <1>12, <1>13, <1>14 DEF E

(* A product that has something to tell gets a revision no event of it has. *)
LEMMA RevisionIsNew ==
  ASSUME StoreInv, NEW S \in SUBSET Product, NEW scan \in [S -> Observation], Ingest(scan),
         NEW p \in Eventful(scan), NEW e \in DOMAIN event, event[e].product = p
  PROVE  event[e].revision # Revision(p, scan[p])
<1>1. p \in Product /\ scan[p] \in Observation /\ EventType(p, scan[p]) # None
  BY DEF Eventful
<1>2. product[p] # None /\ event[e].revision <= product[p].revision
  BY DEF StoreInv, Behind
<1>3. event[e].revision \in Nat /\ product[p].revision \in Nat
  <2>1. event[e] \in Event
    BY DEF StoreInv, StoreTypeOK
  <2> QED
    BY <1>1, <1>2, <2>1, RowFacts DEF Event
<1>4. Changed(p, scan[p])
  BY <1>1, <1>2, MergedFacts DEF EventType, BackInStock, Changed
<1>5. Revision(p, scan[p]) = product[p].revision + 1
  BY <1>2, <1>4 DEF Revision
<1> QED
  BY <1>2, <1>3, <1>5

LEMMA IngestKeeps ==
  ASSUME StoreInv, NEW S \in SUBSET Product, NEW scan \in [S -> Observation], Ingest(scan)
  PROVE  StoreInv'
<1>1. /\ product' \in [Product -> Stored \cup {None}]
      /\ \A p \in S : /\ product'[p] # None
                      /\ product'[p].stock = Merged(p, scan[p]).stock
                      /\ product'[p].look = scan[p].look
                      /\ product'[p].revision = Revision(p, scan[p])
      /\ \A p \in Product \ S : product'[p] = product[p]
  BY RowsIngested
<1>2. /\ event' \in Seq(Event) /\ Len(event') \in Nat /\ Len(event') <= MaxEvents
      /\ \A e \in DOMAIN event : e \in DOMAIN event' /\ event'[e] = event[e]
      /\ \A e \in DOMAIN event' \ DOMAIN event :
           \E p \in Eventful(scan) : event'[e] = NewEvent(p, scan[p]) /\ event'[e].product = p
      /\ \A d, e \in DOMAIN event' \ DOMAIN event : d # e => event'[d].product # event'[e].product
  BY EventsIngested
<1>3. /\ Eventful(scan) \subseteq S /\ \A p \in Eventful(scan) : EventType(p, scan[p]) # None
      /\ \A p \in S : p \in Product /\ scan[p] \in Observation
  BY DEF Eventful
<1>4. baseline' = TRUE /\ sighted' = Sight(scan) /\ DOMAIN scan = S
  BY DEF Ingest
<1>5. ASSUME NEW e \in DOMAIN event' \ DOMAIN event
      PROVE  /\ event'[e].product \in Eventful(scan)
             /\ event'[e].revision = Revision(event'[e].product, scan[event'[e].product])
  BY <1>2, <1>3, NewEventTyped
<1>6. \A e \in DOMAIN event' : event'[e] \in Event
  BY <1>2
<1>7. StoreTypeOK'
  <2>1. \A p \in Product : product'[p] = None \/ product'[p] \in [stock : Stock, look : Look, revision : 0 .. MaxRevision]
    BY <1>1 DEF Stored
  <2> QED
    BY <1>4, <1>6, <2>1 DEF StoreTypeOK, Event, Observation
<1>8. sighted' \in [Product -> Stock] /\ LastKnown'
  <2>1. ASSUME NEW p \in Product
        PROVE  sighted'[p] = IF product'[p] = None THEN "UNKNOWN" ELSE product'[p].stock
    <3>1. sighted[p] = IF product[p] = None THEN "UNKNOWN" ELSE product[p].stock
      BY DEF StoreInv, LastKnown
    <3>2. sighted'[p] = IF p \in S /\ scan[p].stock # "UNKNOWN" THEN scan[p].stock ELSE sighted[p]
      BY <1>4 DEF Sight
    <3>3. CASE p \in S
      BY <1>1, <1>3, <3>1, <3>2, <3>3, MergedFacts
    <3>4. CASE p \notin S
      BY <1>1, <3>1, <3>2, <3>4
    <3> QED
      BY <3>3, <3>4
  <2>2. ASSUME NEW p \in Product PROVE sighted'[p] \in Stock
    <3>1. CASE product'[p] = None
      BY <2>1, <3>1 DEF Stock
    <3>2. CASE product'[p] # None
      BY <1>1, <2>1, <3>2 DEF Stored
    <3> QED
      BY <3>1, <3>2
  <2>3. sighted' = [p \in Product |-> sighted'[p]]
    BY <1>4 DEF Sight
  <2> QED
    BY <2>1, <2>2, <2>3 DEF LastKnown
<1>9. Behind'
  <2>1. ASSUME NEW e \in DOMAIN event'
        PROVE  /\ product'[event'[e].product] # None
               /\ event'[e].revision <= product'[event'[e].product].revision
    <3>1. CASE e \in DOMAIN event
      <4> DEFINE p == event[e].product
      <4>1. p \in Product /\ event[e].revision \in Nat
        BY <3>1 DEF StoreInv, StoreTypeOK, Event
      <4>2. product[p] # None /\ event[e].revision <= product[p].revision
        BY <3>1 DEF StoreInv, Behind
      <4>3. product[p].revision \in Nat
        BY <4>1, <4>2, RowFacts
      <4>4. event'[e] = event[e]
        BY <1>2, <3>1
      <4> HIDE DEF p
      <4>5. CASE p \in S
        <5>1. Revision(p, scan[p]) \in Nat /\ Revision(p, scan[p]) >= product[p].revision
          BY <1>3, <4>1, <4>2, <4>5, MergedFacts
        <5>2. product'[p] # None /\ event[e].revision <= product'[p].revision
          BY <1>1, <4>1, <4>2, <4>3, <4>5, <5>1
        <5> QED
          BY <4>4, <5>2 DEF p
      <4>6. CASE p \notin S
        <5>1. product'[p] # None /\ event[e].revision <= product'[p].revision
          BY <1>1, <4>1, <4>2, <4>6
        <5> QED
          BY <4>4, <5>1 DEF p
      <4> QED
        BY <4>5, <4>6
    <3>2. CASE e \notin DOMAIN event
      <4>1. event'[e].product \in S
        BY <1>3, <1>5, <3>2
      <4>2. Revision(event'[e].product, scan[event'[e].product]) \in Nat
        BY <1>3, <4>1, MergedFacts
      <4> QED
        BY <1>1, <1>5, <3>2, <4>1, <4>2
    <3> QED
      BY <3>1, <3>2
  <2> QED
    BY <2>1 DEF Behind
<1>10. EveryChangeHasItsKey'
  <2> SUFFICES ASSUME NEW d \in DOMAIN event', NEW e \in DOMAIN event', d # e,
                      event'[d].product = event'[e].product
               PROVE  event'[d].revision # event'[e].revision
    BY DEF EveryChangeHasItsKey
  <2>0. ASSUME NEW a \in DOMAIN event, NEW b \in DOMAIN event' \ DOMAIN event,
               event'[a].product = event'[b].product
        PROVE  event'[a].revision # event'[b].revision
    <3>1. event'[a] = event[a] /\ event[a].product \in Eventful(scan)
      BY <1>2, <1>5, <2>0
    <3>2. event[a].revision # Revision(event[a].product, scan[event[a].product])
      BY <3>1, RevisionIsNew
    <3> QED
      BY <1>5, <2>0, <3>1, <3>2
  <2>1. CASE d \in DOMAIN event /\ e \in DOMAIN event
    BY <1>2, <2>1 DEF StoreInv, EveryChangeHasItsKey
  <2>2. CASE d \in DOMAIN event /\ e \notin DOMAIN event
    BY <2>0, <2>2
  <2>3. CASE d \notin DOMAIN event /\ e \in DOMAIN event
    BY <2>0, <2>3
  <2>4. CASE d \notin DOMAIN event /\ e \notin DOMAIN event
    BY <1>2, <2>4
  <2> QED
    BY <2>1, <2>2, <2>3, <2>4
<1> QED
  BY <1>1, <1>2, <1>7, <1>8, <1>9, <1>10 DEF StoreInv

(* The other methods change no more than the status of events.              *)
Restamps ==
  /\ UNCHANGED <<baseline, product, sighted>>
  /\ event' \in Seq(Event) /\ DOMAIN event' = DOMAIN event /\ Len(event') = Len(event)
  /\ \A e \in DOMAIN event :
       event'[e].product = event[e].product /\ event'[e].revision = event[e].revision

LEMMA RestampsKeep ==
  ASSUME StoreInv, Restamps
  PROVE  StoreInv'
<1>1. \A e \in DOMAIN event' : event'[e] \in Event
  BY DEF Restamps
<1>2. StoreTypeOK'
  BY <1>1 DEF StoreInv, StoreTypeOK, Restamps, Event, Observation
<1>3. Behind' /\ LastKnown' /\ EveryChangeHasItsKey'
  BY DEF StoreInv, Behind, LastKnown, EveryChangeHasItsKey, Restamps
<1> QED
  BY <1>2, <1>3 DEF StoreInv, Restamps, Event, Stored

LEMMA Stamps ==
  ASSUME StoreInv, NEW e \in DOMAIN event, NEW status \in Status,
         event' = [event EXCEPT ![e].status = status], UNCHANGED <<baseline, product, sighted>>
  PROVE  Restamps
<1>1. event \in Seq(Event) /\ DOMAIN event = 1 .. Len(event) /\ Len(event) \in Nat
  BY LenProperties DEF StoreInv
<1>2. \A d \in DOMAIN event : event[d] \in Event
  BY <1>1
<1>3. [event[e] EXCEPT !.status = status] \in Event
  BY <1>2 DEF Event
<1>4. event' \in Seq(Event) /\ DOMAIN event' = DOMAIN event /\ Len(event') = Len(event)
  BY <1>1, <1>3, ExceptSeq
<1>5. \A d \in DOMAIN event :
        event'[d].product = event[d].product /\ event'[d].revision = event[d].revision
  BY <1>2 DEF Event
<1> QED
  BY <1>4, <1>5 DEF Restamps

LEMMA RecoveryStamps ==
  ASSUME StoreInv, RecoverInterrupted
  PROVE  Restamps
<1>1. event \in Seq(Event) /\ DOMAIN event = 1 .. Len(event) /\ Len(event) \in Nat
  BY LenProperties DEF StoreInv
<1>2. \A d \in DOMAIN event : event[d] \in Event
  BY <1>1
<1>3. ASSUME NEW d \in DOMAIN event
      PROVE  /\ event'[d] \in Event
             /\ event'[d].product = event[d].product /\ event'[d].revision = event[d].revision
  <2>1. event'[d] = IF event[d].status \in InFlight THEN [event[d] EXCEPT !.status = "INTERRUPTED"]
                    ELSE event[d]
    BY DEF RecoverInterrupted
  <2> QED
    BY <1>2, <2>1 DEF Event, Status
<1>4. event' = [d \in 1 .. Len(event) |-> event'[d]]
  BY <1>1 DEF RecoverInterrupted
<1>5. event' \in [1 .. Len(event) -> Event]
  BY <1>1, <1>3, <1>4
<1> QED
  BY <1>1, <1>3, <1>5 DEF Restamps, RecoverInterrupted

LEMMA StoreStep ==
  ASSUME StoreInv, StoreNext
  PROVE  \/ \E S \in SUBSET Product : \E scan \in [S -> Observation] : Ingest(scan)
         \/ Restamps
<1>1. ASSUME NEW scan \in Scan, Ingest(scan)
      PROVE  \E S \in SUBSET Product : \E s \in [S -> Observation] : Ingest(s)
  BY <1>1 DEF Scan
<1>2. ASSUME NEW e \in DOMAIN event, ClaimEvent(e) PROVE Restamps
  BY <1>2, Stamps DEF ClaimEvent, Status, InFlight
<1>3. ASSUME NEW e \in DOMAIN event, NEW status, UpdateEvent(e, status) PROVE Restamps
  BY <1>3, Stamps DEF UpdateEvent, Status, InFlight
<1> QED
  BY <1>1, <1>2, <1>3, RecoveryStamps DEF StoreNext

LEMMA StoreInvInit == StoreInit => StoreInv
<1> SUFFICES ASSUME StoreInit PROVE StoreInv
  OBVIOUS
<1>1. /\ event = <<>> /\ event \in Seq(Event) /\ DOMAIN event = {}
      /\ Len(event) <= MaxEvents
  BY EmptySeq, StoreAssumption DEF StoreInit
<1>2. /\ product = [p \in Product |-> None] /\ sighted = [p \in Product |-> "UNKNOWN"] /\ baseline = FALSE
  BY DEF StoreInit
<1> QED
  BY <1>1, <1>2 DEF StoreInv, StoreTypeOK, Behind, LastKnown, EveryChangeHasItsKey, Stock

LEMMA StoreInvNext == StoreInv /\ [StoreNext]_storeVars => StoreInv'
<1>1. ASSUME StoreInv, StoreNext PROVE StoreInv'
  BY <1>1, StoreStep, IngestKeeps, RestampsKeep
<1>2. ASSUME StoreInv, UNCHANGED storeVars PROVE StoreInv'
  BY <1>2 DEF storeVars, StoreInv, StoreTypeOK, Behind, LastKnown, EveryChangeHasItsKey,
    Event, Stored, Observation
<1> QED
  BY <1>1, <1>2

LEMMA StoreInvariance == StoreSpec => []StoreInv
BY StoreInvInit, StoreInvNext, PTL DEF StoreSpec

(* The tables hold rows and events, and rows only with a baseline.          *)
THEOREM StoreTypeCorrect == StoreSpec => []StoreTypeOK
<1>1. StoreInv => StoreTypeOK
  BY DEF StoreInv
<1> QED
  BY <1>1, StoreInvariance, PTL

(* ingest never makes an event whose key (product, revision) was used: the  *)
(* look-up of the key in _create_event finds nothing.                       *)
THEOREM KeysAreNew == StoreSpec => []EveryChangeHasItsKey
<1>1. StoreInv => EveryChangeHasItsKey
  BY DEF StoreInv
<1> QED
  BY <1>1, StoreInvariance, PTL

(* A RESTOCK event is made exactly when a product is seen available whose   *)
(* last definite stock, however many scans ago, was sold out (ingest).      *)
THEOREM RestocksAreFound == StoreSpec => RestocksAreSeen
<1> DEFINE New == DOMAIN event' \ DOMAIN event
           Made(p) == \E e \in New : event'[e].product = p /\ event'[e].kind = "RESTOCK"
<1>1. ASSUME StoreInv, NEW S \in SUBSET Product, NEW scan \in [S -> Observation], Ingest(scan),
             NEW p \in Product
      PROVE  Restocked(p) <=> Made(p)
  <2>1. sighted[p] = IF product[p] = None THEN "UNKNOWN" ELSE product[p].stock
    BY <1>1 DEF StoreInv, LastKnown
  <2>2. sighted'[p] = IF p \in S /\ scan[p].stock # "UNKNOWN" THEN scan[p].stock ELSE sighted[p]
    BY <1>1 DEF Ingest, Sight
  <2>3. Restocked(p) <=> p \in Eventful(scan) /\ EventType(p, scan[p]) = "RESTOCK"
    <3>1. CASE p \notin S
      BY <1>1, <2>2, <3>1 DEF Restocked, Eventful
    <3>2. CASE p \in S /\ product[p] = None
      BY <2>1, <3>2 DEF Restocked, EventType
    <3>3. CASE p \in S /\ product[p] # None
      <4>1. /\ scan[p] \in Observation /\ baseline
            /\ scan[p].stock \in Stock
        BY <1>1, <3>3, RowFacts DEF Observation
      <4>2. EventType(p, scan[p]) = "RESTOCK" <=> BackInStock(p, scan[p])
        BY <3>3, StoreAssumption DEF EventType
      <4>3. p \in Eventful(scan) <=> EventType(p, scan[p]) # None
        BY <1>1, <3>3, <4>1 DEF Eventful
      <4>4. BackInStock(p, scan[p]) <=> product[p].stock = "SOLD_OUT" /\ scan[p].stock = "AVAILABLE"
        BY <1>1, <3>3, <4>1, MergedFacts DEF BackInStock
      <4> QED
        BY <2>1, <2>2, <3>3, <4>2, <4>3, <4>4, StoreAssumption DEF Restocked
    <3> QED
      BY <3>1, <3>2, <3>3
  <2>4. ASSUME NEW q \in Eventful(scan)
        PROVE  NewEvent(q, scan[q]).product = q /\ NewEvent(q, scan[q]).kind = EventType(q, scan[q])
    BY DEF NewEvent
  <2>5. /\ \A e \in New : \E q \in Eventful(scan) : event'[e] = NewEvent(q, scan[q])
        /\ \A q \in Eventful(scan) : \E e \in New : event'[e] = NewEvent(q, scan[q])
    BY <1>1, EventsIngested
  <2> QED
    BY <2>3, <2>4, <2>5
<1>2. ASSUME Restamps, NEW p \in Product PROVE Restocked(p) <=> Made(p)
  BY <1>2 DEF Restamps, Restocked
<1>3. StoreInv /\ [StoreNext]_storeVars =>
        [\A p \in Product : Restocked(p) <=> Made(p)]_storeVars
  BY <1>1, <1>2, StoreStep
<1> QED
  BY <1>3, StoreInvariance, PTL DEF StoreSpec, RestocksAreSeen
=============================================================================
