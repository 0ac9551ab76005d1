----------------------------- MODULE RateBudget -----------------------------
(***************************************************************************)
(* One request budget of ProviderRateBudget (core/rate_budget.py): the row *)
(* of one provider, region and endpoint in the shared database, and the    *)
(* tickets its callers hold.  Callers are processes and threads: a script  *)
(* run, a monitor, the worker threads of their HTTP requests; the native   *)
(* host reports what the browser met (record_browser_block).  Every method *)
(* is one transaction.  A caller may be slow, may report twice, may die.   *)
(*                                                                         *)
(* Time is the wall clock of the machine, which is taken not to be set     *)
(* back.  A nonce is a uuid4: here the number of the admission.            *)
(***************************************************************************)
EXTENDS Integers, Sequences

CONSTANTS
  Caller,
  Terms,              (* [interval, lease] of the claims on this row       *)
  Cooldown,           (* 900 s: cooldown_seconds, which no caller changes  *)
  MaxBackoff,         (* 24 h                                              *)
  Ordinary,           (* 60 s: the least wait after an ordinary failure    *)
  RetryAfter,         (* delays the server asks for; 0: no such header     *)
  MaxTime,            (* bound of the clock                                *)
  MaxLimits           (* bound of the limits in a row                      *)

ASSUME BudgetAssumption ==
  /\ Terms \subseteq [interval : Nat \ {0}, lease : Nat \ {0}]
  /\ Cooldown \in Nat \ {0}
  /\ MaxBackoff \in Nat \ {0}
  /\ Ordinary \in Nat \ {0}
  /\ RetryAfter \subseteq Nat
  /\ MaxTime \in Nat
  /\ MaxLimits \in Nat

VARIABLES
  row,                (* the row of provider_rate_budgets                  *)
  ticket,             (* the ticket of every caller; nonce 0: none         *)
  now,
  issued,             (* admissions so far                                 *)
  last                (* history: the last admission, and what came of it  *)

vars == <<row, ticket, now, issued, last>>

Larger(a, b) == IF a > b THEN a ELSE b
Smaller(a, b) == IF a < b THEN a ELSE b

Row == [blocked : Nat, limits : Nat, next : Nat, claim : Nat, until : Nat]
Ticket == [nonce : Nat, interval : Nat]
NoTicket == [nonce |-> 0, interval |-> 0]

Init ==
  /\ row = [blocked |-> 0, limits |-> 0, next |-> 0, claim |-> 0, until |-> 0]
  /\ ticket = [c \in Caller |-> NoTicket]
  /\ now = 0
  /\ issued = 0
  /\ last = [open |-> FALSE, ends |-> 0]

(* A claim was made, and its lease ran out with no outcome. *)
Lapsed == row.claim # 0 /\ 0 < row.until /\ row.until <= now

(* claim: what a caller with no ticket is told. *)
Admitted(c) ==
  /\ ticket[c] = NoTicket
  /\ ~Lapsed
  /\ now >= row.blocked /\ now >= row.next /\ now >= row.until
  /\ \E t \in Terms :
       /\ row' = [row EXCEPT !.claim = issued + 1, !.until = now + t.lease,
                             !.next = now + t.interval]
       /\ ticket' = [ticket EXCEPT ![c] = [nonce |-> issued + 1, interval |-> t.interval]]
       /\ last' = [open |-> TRUE, ends |-> now + t.lease]
  /\ issued' = issued + 1
  /\ UNCHANGED now

Denied(c) ==
  /\ ticket[c] = NoTicket
  /\ ~Lapsed
  /\ now < row.blocked \/ now < row.next \/ now < row.until
  /\ UNCHANGED vars

(* Mutant of Interrupted: the lapsed claim is simply given away again. *)
InterruptedFreely(c) ==
  /\ ticket[c] = NoTicket
  /\ Lapsed
  /\ row' = [row EXCEPT !.claim = 0, !.until = 0]
  /\ UNCHANGED <<ticket, now, issued, last>>

(* Whoever finds a lapsed claim is denied, and starts a cooldown. *)
Interrupted(c) ==
  /\ ticket[c] = NoTicket
  /\ Lapsed
  /\ row' = [row EXCEPT !.claim = 0, !.until = 0,
                        !.blocked = Larger(@, now + Cooldown)]
  /\ UNCHANGED <<ticket, now, issued, last>>

(* _finish: is the caller's ticket still the one of the row? *)
Live(c) == row.claim = ticket[c].nonce /\ row.until > now
Amendable(c) == row.claim = ticket[c].nonce /\ row.until = 0   \* after its own success

(* The nonce stays in the row: the same caller may still report that the    *)
(* response was no good.                                                    *)
Success(c) ==
  /\ ticket[c] # NoTicket
  /\ Live(c)
  /\ row' = [row EXCEPT !.until = 0, !.blocked = 0, !.limits = 0]
  /\ last' = [last EXCEPT !.open = FALSE]
  /\ UNCHANGED <<ticket, now, issued>>

(* Cooldown, doubled with every further limit, up to a day. *)
Doubling == <<1, 2, 4, 8, 16, 32, 64, 128>>
Fallback(limits) ==
  Smaller(MaxBackoff, Cooldown * Doubling[Smaller(Larger(limits, 1), 8)])

Delay(limited, limits, interval, retry) ==
  Larger(Larger(1, retry),
         IF limited THEN Fallback(limits) ELSE Larger(Ordinary, interval))

Failure(c, limited, retry) ==
  /\ ticket[c] # NoTicket
  /\ Live(c) \/ Amendable(c)
  /\ limited => row.limits < MaxLimits
  /\ LET n == IF limited THEN row.limits + 1 ELSE row.limits IN
     row' = [row EXCEPT !.claim = 0, !.until = 0, !.limits = n,
               !.blocked = now + Delay(limited, n, ticket[c].interval, retry)]
  /\ last' = [last EXCEPT !.open = FALSE]
  /\ UNCHANGED <<ticket, now, issued>>

(* An outcome that comes too late, or after the browser revoked the claim,  *)
(* is refused (RATE_PROBE_EXPIRED): it changes nothing.                     *)
TooLate(c) ==
  /\ ticket[c] # NoTicket
  /\ ~Live(c)
  /\ UNCHANGED vars

(* Mutant of BrowserBlock: the request under way keeps its claim. *)
BrowserBlockOnly ==
  /\ row.limits < MaxLimits
  /\ row' = [row EXCEPT !.limits = @ + 1,
               !.blocked = Larger(@, now + Fallback(row.limits + 1))]
  /\ UNCHANGED <<ticket, now, issued, last>>

(* The page in the browser was blocked: the longer deadline stands, and a   *)
(* request under way can no longer report a success.                        *)
BrowserBlock ==
  /\ row.limits < MaxLimits
  /\ row' = [row EXCEPT !.claim = 0, !.until = 0, !.limits = @ + 1,
               !.blocked = Larger(@, now + Fallback(row.limits + 1))]
  /\ last' = [last EXCEPT !.open = @ /\ row.claim = 0]
  /\ UNCHANGED <<ticket, now, issued>>

(* The caller is through with its ticket, or dies. *)
Drop(c) ==
  /\ ticket[c] # NoTicket
  /\ ticket' = [ticket EXCEPT ![c] = NoTicket]
  /\ UNCHANGED <<row, now, issued, last>>

Tick ==
  /\ now < MaxTime
  /\ now' = now + 1
  /\ UNCHANGED <<row, ticket, issued, last>>

Next ==
  \/ \E c \in Caller :
       \/ Admitted(c) \/ Denied(c) \/ Interrupted(c)
       \/ Success(c) \/ TooLate(c) \/ Drop(c)
       \/ \E limited \in BOOLEAN, retry \in RetryAfter : Failure(c, limited, retry)
  \/ BrowserBlock
  \/ Tick

Spec == Init /\ [][Next]_vars

-----------------------------------------------------------------------------
(* The row is a row of the table; a lease belongs to a claim. *)
TypeOK ==
  /\ row \in Row
  /\ ticket \in [Caller -> Ticket]
  /\ now \in Nat
  /\ issued \in Nat
  /\ last \in [open : BOOLEAN, ends : Nat]
  /\ row.claim = 0 => row.until = 0

(* A wait that was imposed is served: no report, whether late, repeated, of *)
(* another caller or of the browser, brings its end forward.                *)
BlockStands ==
  [][row.blocked > now => row'.blocked >= row.blocked]_vars

(* "an interrupted probe also waits" (README.md): whoever follows a request *)
(* of which nothing was ever heard waits out its lease and a cooldown.      *)
SilenceCoolsDown ==
  [][issued' # issued /\ last.open => now >= last.ends + Cooldown]_vars

(* Only the caller admitted last can still change the row by what it        *)
(* reports; all earlier tickets are spent.                                  *)
OneReporter ==
  \A c \in Caller :
    ticket[c] # NoTicket /\ (Live(c) \/ Amendable(c)) => ticket[c].nonce = issued
=============================================================================
