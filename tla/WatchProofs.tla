----------------------------- MODULE WatchProofs -----------------------------
(***************************************************************************)
(* Proofs about Watch, for any products, pages, runs and bounds.           *)
(*                                                                         *)
(* The inductive invariant ties what a process holds to where it is in its *)
(* code: an event in flight, an intent that locks its product and an event *)
(* that has not been mailed yet each belong to certain places of           *)
(* process_opportunity, or to a process that died.                         *)
(***************************************************************************)
EXTENDS Watch, SequenceTheorems, TLAPS

Tables == INSTANCE TableProofs WITH Caller <- {"script"}

(* The tables of a watch are tables as TableProofs takes them.              *)
LEMMA TablesAssumption == Tables!StoreAssumption /\ Tables!BudgetAssumption
BY WatchAssumption DEF Store!StoreAssumption, Budget!BudgetAssumption, Tables!StoreAssumption,
  Tables!BudgetAssumption, Store!Stock, Tables!Stock, Store!IsFiniteSet, Tables!IsFiniteSet

LEMMA StoreInductive == Tables!StoreInv /\ [Tables!StoreNext]_Tables!storeVars => Tables!StoreInv'
BY TablesAssumption, Tables!StoreInvNext DEF Tables!StoreAssumption, Tables!BudgetAssumption

(* Where an event is being worked on, where it may be in flight, and where  *)
(* an intent may have no command yet.                                      *)
Handling == {"notice", "mail", "unsent", "check", "recheck", "reasked", "reserve", "reserved",
             "enqueue", "release", "close"}
Working == Handling \cup {"penalty"}
Reserving == {"reserved", "enqueue", "release"}
Place == Working \cup {"idle", "dead", "claim", "scan", "asked", "ingest", "next"}

(* Where the notice of the event has not been tried.                        *)
Untold(run) ==
  IF run.kind = "script" THEN {"notice", "mail"}
  ELSE {"check", "recheck", "reasked", "reserve", "reserved", "enqueue", "release", "notice", "mail"}

Process == [pc : Place, run : Run, todo : Seq(Nat), refused : BOOLEAN, retry : RetryAfter]

ProcOK ==
  /\ proc \in Process
  /\ \A i \in DOMAIN proc.todo : proc.todo[i] \in DOMAIN event
  /\ proc.pc \in Working => proc.todo # <<>> /\ event[Current].status # "PENDING"

(* An event that was mailed is no longer PENDING, and none is left to mail. *)
MailOK ==
  /\ mails \in [1 .. MaxEvents -> Nat]
  /\ \A e \in 1 .. MaxEvents :
       /\ mails[e] <= 1
       /\ mails[e] > 0 => e \in DOMAIN event /\ event[e].status # "PENDING"
  /\ proc.pc \in Untold(proc.run) => mails[Current] = 0

FlightOK ==
  \A e \in DOMAIN event :
    event[e].status \in Store!InFlight =>
      \/ "event" \in crashed
      \/ proc.pc \in Handling /\ e = Current

IntentOK ==
  /\ intent \in [Product -> {"none", "created", "queued", "aborted"}]
  /\ ReservationsAreSettled

WatchInv ==
  /\ Tables!StoreInv
  /\ ProcOK /\ MailOK /\ FlightOK /\ IntentOK

LEMMA EventFacts ==
  ASSUME Tables!StoreInv
  PROVE  /\ event \in Seq(Store!Event) /\ Len(event) \in Nat /\ DOMAIN event = 1 .. Len(event)
         /\ \A e \in DOMAIN event : event[e] \in Store!Event /\ e \in 1 .. MaxEvents
<1>1. event \in Seq(Tables!Event) /\ Len(event) <= MaxEvents
  BY DEF Tables!StoreInv
<1>2. Tables!Event = Store!Event
  BY DEF Tables!Event, Store!Event, Tables!Kind, Store!Kind, Tables!Status, Store!Status,
    Tables!InFlight, Store!InFlight
<1>3. MaxEvents \in Nat
  BY WatchAssumption DEF Store!StoreAssumption
<1> QED
  BY <1>1, <1>2, <1>3, LenProperties

LEMMA CurrentFacts ==
  ASSUME Tables!StoreInv, ProcOK, proc.todo # <<>>
  PROVE  /\ Current \in DOMAIN event /\ Current \in 1 .. MaxEvents /\ event[Current] \in Store!Event
         /\ Tail(proc.todo) \in Seq(Nat)
         /\ \A i \in DOMAIN Tail(proc.todo) : Tail(proc.todo)[i] \in DOMAIN event
<1>1. proc.todo \in Seq(Nat) /\ \A i \in DOMAIN proc.todo : proc.todo[i] \in DOMAIN event
  BY DEF ProcOK, Process
<1>2. /\ Head(proc.todo) = proc.todo[1] /\ 1 \in DOMAIN proc.todo
      /\ Tail(proc.todo) \in Seq(Nat)
      /\ \A i \in DOMAIN Tail(proc.todo) : i + 1 \in DOMAIN proc.todo /\ Tail(proc.todo)[i] = proc.todo[i + 1]
  <2>1. Len(proc.todo) \in Nat \ {0} /\ DOMAIN proc.todo = 1 .. Len(proc.todo)
    BY <1>1, EmptySeq, LenProperties
  <2>2. /\ Tail(proc.todo) \in Seq(Nat) /\ Len(Tail(proc.todo)) = Len(proc.todo) - 1
        /\ \A i \in 1 .. Len(Tail(proc.todo)) : Tail(proc.todo)[i] = proc.todo[i + 1]
    BY <1>1, HeadTailProperties
  <2>3. DOMAIN Tail(proc.todo) = 1 .. Len(Tail(proc.todo))
    BY <2>2, LenProperties
  <2> QED
    BY <1>1, <2>1, <2>2, <2>3
<1> QED
  BY <1>1, <1>2, EventFacts DEF Current

-----------------------------------------------------------------------------
(* How the process moves. *)

LEMMA Gone ==
  ASSUME proc \in Process, NEW pc \in Place, Goto(pc)
  PROVE  /\ proc' \in Process /\ proc'.pc = pc
         /\ proc'.todo = proc.todo /\ proc'.run = proc.run
BY DEF Goto, Process

LEMMA Left ==
  ASSUME proc \in Process, Exit
  PROVE  /\ proc' \in Process /\ proc'.pc = "idle"
         /\ proc'.todo = <<>> /\ proc'.run = proc.run
<1>1. <<>> \in Seq(Nat) /\ "idle" \in Place
  BY EmptySeq DEF Place
<1> QED
  BY <1>1, WatchAssumption DEF Exit, Process

LEMMA Passed ==
  ASSUME proc \in Process, Tail(proc.todo) \in Seq(Nat), EventDone
  PROVE  /\ proc' \in Process /\ proc'.pc = "next"
         /\ proc'.todo = Tail(proc.todo) /\ proc'.run = proc.run
<1>1. "next" \in Place
  BY DEF Place
<1> QED
  BY <1>1, WatchAssumption DEF EventDone, Process

(* A step that does no more than go on in the code.                         *)
GoesOn ==
  /\ UNCHANGED <<storeVars, intent, mails, crashed>>
  /\ proc' \in Process /\ proc'.run = proc.run
  /\ proc'.todo \in {proc.todo, <<>>}
  /\ proc'.pc \in Working => proc.pc \in Working /\ proc'.todo = proc.todo
  /\ proc.pc \in Handling => proc'.pc \in Handling
  /\ proc.pc \in Reserving => proc'.pc \in Reserving
  /\ proc'.pc \in Untold(proc.run) => proc.pc \in Untold(proc.run)

LEMMA StoreUnchanged ==
  ASSUME Tables!StoreInv, UNCHANGED storeVars
  PROVE  Tables!StoreInv'
BY StoreInductive DEF storeVars, Tables!storeVars

LEMMA GoingOnKeeps ==
  ASSUME WatchInv, GoesOn
  PROVE  WatchInv'
<1> USE DEF GoesOn
<1>1. event' = event /\ Tables!StoreInv'
  BY StoreUnchanged DEF WatchInv, storeVars
<1>2. proc'.pc \in Working => Current' = Current /\ proc.todo # <<>>
  BY DEF Current, WatchInv, ProcOK
<1>3. ProcOK'
  <2>1. \A i \in DOMAIN proc'.todo : proc'.todo[i] \in DOMAIN event
    BY DEF WatchInv, ProcOK
  <2>2. proc' \in Process'
    BY DEF Process
  <2> QED
    BY <1>1, <1>2, <2>1, <2>2 DEF WatchInv, ProcOK
<1>4. MailOK'
  <2>1. proc'.pc \in Untold(proc.run) => proc'.pc \in Working
    BY DEF Untold, Working, Handling
  <2>2. proc'.pc \in Untold(proc'.run) => mails[Current'] = 0
    BY <1>2, <2>1 DEF WatchInv, MailOK
  <2> QED
    BY <1>1, <2>2 DEF WatchInv, MailOK, Untold
<1>5. FlightOK'
  <2>1. proc.pc \in Handling => Current' = Current
    BY <1>2 DEF Working
  <2> QED
    BY <1>1, <2>1 DEF WatchInv, FlightOK, Store!InFlight
<1>6. IntentOK'
  <2>1. proc.pc \in Reserving => Current' = Current
    BY <1>2 DEF Working, Handling, Reserving
  <2> QED
    BY <1>1, <2>1 DEF WatchInv, IntentOK, ReservationsAreSettled, Reserving
<1> QED
  BY <1>1, <1>3, <1>4, <1>5, <1>6 DEF WatchInv

-----------------------------------------------------------------------------
(* What a step does to the store.                                           *)

(* EventStore is instantiated twice, here and by TableProofs: its           *)
(* definitions say the same.                                               *)
LEMMA SameIngest ==
  ASSUME NEW scan, Store!Ingest(scan)
  PROVE  Tables!Ingest(scan)
<1>1. \A p, obs : Store!Merged(p, obs) = Tables!Merged(p, obs)
  BY Zenon DEF Store!Merged, Tables!Merged
<1>2. \A p, obs : Store!Revision(p, obs) = Tables!Revision(p, obs)
  BY <1>1, Zenon DEF Store!Revision, Tables!Revision, Store!Changed, Tables!Changed
<1>3. \A p, obs : Store!EventType(p, obs) = Tables!EventType(p, obs)
  BY <1>1, Zenon DEF Store!EventType, Tables!EventType, Store!BackInStock, Tables!BackInStock
<1>4. \A p, obs : Store!Opportunity(p, obs) = Tables!Opportunity(p, obs)
  BY Zenon DEF Store!Opportunity, Tables!Opportunity
<1>5. \A p, obs : Store!NewEvent(p, obs) = Tables!NewEvent(p, obs)
  BY <1>2, <1>3, <1>4, Zenon DEF Store!NewEvent, Tables!NewEvent
<1>6. Store!Eventful(scan) = Tables!Eventful(scan)
  BY <1>3, Zenon DEF Store!Eventful, Tables!Eventful
<1>7. \A S : Store!InOrder(S) = Tables!InOrder(S)
  BY DEF Store!InOrder, Tables!InOrder, Store!Cardinality, Tables!Cardinality
<1>8. Store!Cardinality(Store!Eventful(scan)) = Tables!Cardinality(Tables!Eventful(scan))
  BY <1>6 DEF Store!Cardinality, Tables!Cardinality
<1>9. Store!NewEvents(scan) = Tables!NewEvents(scan)
  BY <1>5, <1>6, <1>7, <1>8, Zenon DEF Store!NewEvents, Tables!NewEvents
<1>10. Store!Rows(scan) = Tables!Rows(scan)
  BY <1>1, <1>2, Zenon DEF Store!Rows, Tables!Rows
<1> QED
  BY <1>2, <1>9, <1>10 DEF Store!Ingest, Tables!Ingest, Store!WithinBounds, Tables!WithinBounds,
    Store!Sight, Tables!Sight

LEMMA Stamping ==
  ASSUME Tables!StoreInv, NEW e \in DOMAIN event, NEW status \in Store!Status,
         event' = [event EXCEPT ![e].status = status], UNCHANGED <<baseline, product, sighted>>
  PROVE  /\ DOMAIN event' = DOMAIN event
         /\ event'[e].status = status
         /\ \A d \in DOMAIN event \ {e} : event'[d] = event[d]
         /\ \A d \in DOMAIN event : event'[d].product = event[d].product
<1>1. /\ event \in Seq(Store!Event) /\ event[e] \in Store!Event
      /\ DOMAIN event' = DOMAIN event /\ event'[e] = [event[e] EXCEPT !.status = status]
      /\ \A d \in DOMAIN event \ {e} : event'[d] = event[d]
  BY EventFacts
<1>2. event'[e].status = status /\ event'[e].product = event[e].product
  BY <1>1 DEF Store!Event
<1> QED
  BY <1>1, <1>2

LEMMA Recovering ==
  ASSUME Tables!StoreInv, Store!RecoverInterrupted
  PROVE  /\ DOMAIN event' = DOMAIN event
         /\ \A d \in DOMAIN event :
              /\ event'[d].product = event[d].product
              /\ event'[d].status \notin Store!InFlight
              /\ event'[d].status = "PENDING" <=> event[d].status = "PENDING"
<1>1. ASSUME NEW d \in DOMAIN event
      PROVE  /\ event[d] \in Store!Event
             /\ event'[d] = IF event[d].status \in Store!InFlight
                            THEN [event[d] EXCEPT !.status = "INTERRUPTED"] ELSE event[d]
  BY EventFacts DEF Store!RecoverInterrupted
<1>2. DOMAIN event' = DOMAIN event
  BY DEF Store!RecoverInterrupted
<1> QED
  BY <1>1, <1>2 DEF Store!Event, Store!InFlight

(* Only Ingest makes events; whatever else happens leaves them, or writes   *)
(* the status of one.                                                      *)
LEMMA StoreSteps ==
  ASSUME Tables!StoreInv, ProcOK, Next
  PROVE  \/ UNCHANGED storeVars
         \/ Ingest /\ \E page \in Page : Store!Ingest(page)
         \/ Store!RecoverInterrupted
         \/ /\ proc.todo # <<>> /\ Store!ClaimEvent(Current)
         \/ /\ proc.todo # <<>> /\ \E s \in {"WORKING", "DONE"} : Store!UpdateEvent(Current, s)
<1>1. ASSUME NEW run \in Runs, Start(run) PROVE UNCHANGED storeVars \/ Store!RecoverInterrupted
  BY <1>1 DEF Start
<1>2. CASE Claim \/ AskCatalogue \/ PageCame \/ NoPage \/ Mail \/ Check \/ AskAgain \/ NotAnsweredAgain
            \/ Reserve \/ Reserved \/ Enqueue \/ Release \/ Penalty \/ Dies \/ Signal \/ Passes
  BY <1>2 DEF Claim, AskCatalogue, PageCame, NoPage, Mail, Check, AskAgain, NotAnsweredAgain,
    Reserve, Reserved, Enqueue, Release, Penalty, Dies, Signal, Passes
<1>3. ASSUME NEW page \in Page, AnsweredAgain(page) PROVE UNCHANGED storeVars
  BY <1>3 DEF AnsweredAgain
<1>4. CASE Ingest
  BY <1>4 DEF Ingest
<1>5. CASE NextEvent
  BY <1>5 DEF NextEvent
<1>6. CASE Notice \/ Unsent \/ Close
  BY <1>6 DEF Notice, Unsent, Close, ProcOK, Working, Handling
<1> QED
  BY <1>1, <1>2, <1>3, <1>4, <1>5, <1>6 DEF Next, Work

LEMMA WholePages ==
  ASSUME NEW page \in Page, Store!Ingest(page)
  PROVE  /\ page \in [Product -> Tables!Observation] /\ Tables!Ingest(page)
         /\ page \in Tables!Scan
<1>1. page \in [Product -> Tables!Observation]
  BY WatchAssumption DEF Store!Observation, Tables!Observation, Store!Stock, Tables!Stock
<1>2. Tables!Ingest(page)
  BY SameIngest
<1>3. Product # {}
  <2> SUFFICES ASSUME Product = {} PROVE page = <<>>
    BY DEF Store!Ingest
  <2>1. <<>> \in [1 .. 0 -> Nat] /\ 1 .. 0 = {}
    BY EmptySeq, LenProperties
  <2>2. page \in [{} -> Nat] /\ <<>> \in [{} -> Nat]
    BY <1>1, <2>1
  <2> QED
    BY <2>2
<1> QED
  BY <1>1, <1>2, <1>3 DEF Tables!Scan

LEMMA StoreMoves ==
  ASSUME Tables!StoreInv, ProcOK, Next
  PROVE  [Tables!StoreNext]_Tables!storeVars
<1>1. CASE UNCHANGED storeVars
  BY <1>1 DEF storeVars, Tables!storeVars
<1>2. ASSUME NEW page \in Page, Store!Ingest(page) PROVE Tables!StoreNext
  BY <1>2, WholePages DEF Tables!StoreNext
<1>3. CASE Store!RecoverInterrupted
  BY <1>3 DEF Store!RecoverInterrupted, Tables!RecoverInterrupted, Store!InFlight, Tables!InFlight,
    Tables!StoreNext
<1>4. CASE proc.todo # <<>> /\ Store!ClaimEvent(Current)
  BY <1>4, CurrentFacts DEF Store!ClaimEvent, Tables!ClaimEvent, Tables!StoreNext
<1>5. CASE proc.todo # <<>> /\ \E s \in {"WORKING", "DONE"} : Store!UpdateEvent(Current, s)
  BY <1>5, CurrentFacts DEF Store!UpdateEvent, Tables!UpdateEvent, Tables!StoreNext
<1> QED
  BY <1>1, <1>2, <1>3, <1>4, <1>5, StoreSteps

-----------------------------------------------------------------------------
(* What a step does to the request budget.                                  *)

LEMMA SameBudget ==
  /\ Budget!Admitted("script") => Tables!Admitted("script")
  /\ Budget!Interrupted("script") => Tables!Interrupted("script")
  /\ Budget!Denied("script") => UNCHANGED budgetVars
  /\ Budget!Success("script") => Tables!Success("script")
  /\ Budget!Tick => Tables!Tick
  /\ \A limited, retry :
       Budget!Failure("script", limited, retry) => Tables!Failure("script", limited, retry)
<1>1. Budget!Lapsed <=> Tables!Lapsed
  BY DEF Budget!Lapsed, Tables!Lapsed
<1>2. Budget!NoTicket = Tables!NoTicket
  BY DEF Budget!NoTicket, Tables!NoTicket
<1>3. \A a, b : Budget!Larger(a, b) = Tables!Larger(a, b)
  BY Zenon DEF Budget!Larger, Tables!Larger
<1>4. \A a, b : Budget!Smaller(a, b) = Tables!Smaller(a, b)
  BY Zenon DEF Budget!Smaller, Tables!Smaller
<1>5. Budget!Doubling = Tables!Doubling
  BY Zenon DEF Budget!Doubling, Tables!Doubling
<1>6. \A limits : Budget!Fallback(limits) = Tables!Fallback(limits)
  BY <1>3, <1>4, <1>5, Zenon DEF Budget!Fallback, Tables!Fallback
<1>7. \A limited, limits, interval, retry :
        Budget!Delay(limited, limits, interval, retry) = Tables!Delay(limited, limits, interval, retry)
  BY <1>3, <1>6, Zenon DEF Budget!Delay, Tables!Delay
<1>8. (Budget!Live("script") <=> Tables!Live("script"))
      /\ (Budget!Amendable("script") <=> Tables!Amendable("script"))
  BY Zenon DEF Budget!Live, Tables!Live, Budget!Amendable, Tables!Amendable
<1>9. Budget!Admitted("script") => Tables!Admitted("script")
  BY <1>1, <1>2, Zenon DEF Budget!Admitted, Tables!Admitted
<1>10. Budget!Interrupted("script") => Tables!Interrupted("script")
  BY <1>1, <1>2, <1>3, Zenon DEF Budget!Interrupted, Tables!Interrupted
<1>11. Budget!Denied("script") => UNCHANGED budgetVars
  BY DEF Budget!Denied, Budget!vars, budgetVars
<1>12. Budget!Success("script") => Tables!Success("script")
  BY <1>2, <1>8, Zenon DEF Budget!Success, Tables!Success
<1>13. Budget!Tick => Tables!Tick
  BY DEF Budget!Tick, Tables!Tick
<1>14. \A limited, retry :
         Budget!Failure("script", limited, retry) => Tables!Failure("script", limited, retry)
  BY <1>2, <1>7, <1>8, Zenon DEF Budget!Failure, Tables!Failure
<1> QED
  BY <1>9, <1>10, <1>11, <1>12, <1>13, <1>14

LEMMA Reports ==
  ASSUME NEW limited \in BOOLEAN, NEW retry \in RetryAfter, Report(limited, retry)
  PROVE  [Tables!Next]_Tables!vars
<1>1. CASE UNCHANGED budgetVars
  BY <1>1 DEF budgetVars, Tables!vars
<1>2. CASE Budget!Failure("script", limited, retry)
  BY <1>2, SameBudget DEF Tables!Next
<1> QED
  BY <1>1, <1>2 DEF Report

(* A new script has no ticket; the one before it dropped its own.           *)
LEMMA TicketDropped ==
  ASSUME Tables!BudgetInv, ticket' = [c \in {"script"} |-> Budget!NoTicket],
         UNCHANGED <<row, now, issued, last>>
  PROVE  [Tables!Next]_Tables!vars
<1>1. ticket \in [{"script"} -> Tables!Ticket]
  BY DEF Tables!BudgetInv, Tables!TypeOK
<1>2. Budget!NoTicket = Tables!NoTicket
  BY DEF Budget!NoTicket, Tables!NoTicket
<1>3. CASE ticket["script"] = Tables!NoTicket
  <2>1. ticket' = ticket
    BY <1>1, <1>2, <1>3
  <2> QED
    BY <2>1 DEF Tables!vars
<1>4. CASE ticket["script"] # Tables!NoTicket
  <2>1. ticket' = [ticket EXCEPT !["script"] = Tables!NoTicket]
    BY <1>1, <1>2
  <2> QED
    BY <1>4, <2>1 DEF Tables!Drop, Tables!Next
<1> QED
  BY <1>3, <1>4

LEMMA BudgetMoves ==
  ASSUME Tables!BudgetInv, ProcOK, Next
  PROVE  [Tables!Next]_Tables!vars
<1>1. ASSUME UNCHANGED budgetVars PROVE [Tables!Next]_Tables!vars
  BY <1>1 DEF budgetVars, Tables!vars
<1>2. ASSUME NEW run \in Runs, Start(run) PROVE [Tables!Next]_Tables!vars
  BY <1>2, TicketDropped DEF Start
<1>3. CASE Claim
  BY <1>1, <1>3, SameBudget DEF Claim, Tables!Next
<1>4. CASE PageCame
  BY <1>1, <1>4, SameBudget DEF PageCame, Tables!Next
<1>5. CASE NoPage
  BY <1>1, <1>5, Reports DEF NoPage
<1>6. CASE Ingest
  BY <1>1, <1>6, Reports, WatchAssumption DEF Ingest
<1>7. CASE Penalty
  BY <1>7, Reports DEF Penalty, ProcOK, Process
<1>8. CASE Passes
  BY <1>8, SameBudget DEF Passes, Tables!Next
<1>9. CASE AskCatalogue \/ NextEvent \/ Notice \/ Mail \/ Unsent \/ Check \/ AskAgain \/ NotAnsweredAgain
            \/ Reserve \/ Reserved \/ Enqueue \/ Release \/ Close \/ Dies \/ Signal
  BY <1>1, <1>9 DEF AskCatalogue, NextEvent, Notice, Mail, Unsent, Check, AskAgain, NotAnsweredAgain,
    Reserve, Reserved, Enqueue, Release, Close, Dies, Signal
<1>10. ASSUME NEW page \in Page, AnsweredAgain(page) PROVE [Tables!Next]_Tables!vars
  BY <1>1, <1>10 DEF AnsweredAgain
<1> QED
  BY <1>2, <1>3, <1>4, <1>5, <1>6, <1>7, <1>8, <1>9, <1>10 DEF Next, Work

-----------------------------------------------------------------------------
(* The steps that only go on, or leave.                                     *)

LEMMA GoneOn ==
  ASSUME WatchInv, UNCHANGED <<storeVars, intent, mails, crashed>>,
         NEW pc \in Place, Goto(pc),
         pc \in Working => proc.pc \in Working,
         proc.pc \in Handling => pc \in Handling,
         proc.pc \in Reserving => pc \in Reserving,
         pc \in Untold(proc.run) => proc.pc \in Untold(proc.run)
  PROVE  WatchInv'
<1>1. proc \in Process
  BY DEF WatchInv, ProcOK
<1>2. proc' \in Process /\ proc'.pc = pc /\ proc'.todo = proc.todo /\ proc'.run = proc.run
  BY <1>1, Gone
<1> QED
  BY <1>2, GoingOnKeeps DEF GoesOn

LEMMA LeftOff ==
  ASSUME WatchInv, UNCHANGED <<storeVars, intent, mails, crashed>>, Exit, proc.pc \notin Handling
  PROVE  WatchInv'
<1>1. proc \in Process
  BY DEF WatchInv, ProcOK
<1>2. proc' \in Process /\ proc'.pc = "idle" /\ proc'.todo = <<>> /\ proc'.run = proc.run
  BY <1>1, Left
<1>3. "idle" \notin Working /\ "idle" \notin Untold(proc.run) /\ proc.pc \notin Reserving
  BY DEF Working, Handling, Untold, Reserving
<1> QED
  BY <1>2, <1>3, GoingOnKeeps DEF GoesOn

LEMMA Waits ==
  ASSUME WatchInv, UNCHANGED <<storeVars, intent, mails, crashed, proc>>
  PROVE  WatchInv'
BY GoingOnKeeps DEF GoesOn, WatchInv, ProcOK

LEMMA RequestsKeep ==
  ASSUME WatchInv, Claim \/ AskCatalogue \/ PageCame \/ NoPage
  PROVE  WatchInv'
<1> USE DEF Place, Working, Handling, Reserving, Untold
<1>1. CASE Claim
  <2>1. UNCHANGED <<storeVars, intent, mails, crashed>> /\ proc.pc = "claim" /\ (Goto("scan") \/ Exit)
    BY <1>1 DEF Claim, world
  <2>2. CASE Goto("scan")
    BY <2>1, <2>2, GoneOn
  <2> QED
    BY <2>1, <2>2, LeftOff
<1>2. CASE AskCatalogue
  <2>1. UNCHANGED <<storeVars, intent, mails, crashed>> /\ proc.pc = "scan" /\ (Goto("asked") \/ Exit)
    BY <1>2 DEF AskCatalogue, world
  <2>2. CASE Goto("asked")
    BY <2>1, <2>2, GoneOn
  <2> QED
    BY <2>1, <2>2, LeftOff
<1>3. CASE PageCame
  <2>1. UNCHANGED <<storeVars, intent, mails, crashed>> /\ proc.pc = "asked" /\ (Goto("ingest") \/ Exit)
    BY <1>3 DEF PageCame, world
  <2>2. CASE Goto("ingest")
    BY <2>1, <2>2, GoneOn
  <2> QED
    BY <2>1, <2>2, LeftOff
<1>4. CASE NoPage
  <2>1. UNCHANGED <<storeVars, intent, mails, crashed>> /\ proc.pc = "asked" /\ (Goto("scan") \/ Exit)
    BY <1>4 DEF NoPage, world
  <2>2. CASE Goto("scan")
    BY <2>1, <2>2, GoneOn
  <2> QED
    BY <2>1, <2>2, LeftOff
<1> QED
  BY <1>1, <1>2, <1>3, <1>4

LEMMA LooksKeep ==
  ASSUME WatchInv,
         \/ Check \/ AskAgain \/ NotAnsweredAgain \/ Reserved
         \/ \E page \in Page : AnsweredAgain(page)
  PROVE  WatchInv'
<1> USE DEF Place, Working, Handling, Reserving, Untold, HandedOver, Script
<1>1. CASE Check
  <2>1. UNCHANGED <<storeVars, intent, mails, crashed>> /\ proc.pc = "check"
        /\ (Goto("recheck") \/ Goto(HandedOver))
    BY <1>1 DEF Check, world
  <2>2. CASE Goto("recheck")
    BY <2>1, <2>2, GoneOn
  <2>3. CASE Goto(HandedOver)
    BY <2>1, <2>3, GoneOn
  <2> QED
    BY <2>1, <2>2, <2>3
<1>2. CASE AskAgain
  <2>1. UNCHANGED <<storeVars, intent, mails, crashed>> /\ proc.pc = "recheck" /\ Goto("reasked")
    BY <1>2 DEF AskAgain, world
  <2> QED
    BY <2>1, GoneOn
<1>3. CASE \E page \in Page : AnsweredAgain(page)
  <2>1. UNCHANGED <<storeVars, intent, mails, crashed>> /\ proc.pc = "reasked"
        /\ (Goto("reserve") \/ Goto(HandedOver))
    BY <1>3 DEF AnsweredAgain, world
  <2>2. CASE Goto("reserve")
    BY <2>1, <2>2, GoneOn
  <2>3. CASE Goto(HandedOver)
    BY <2>1, <2>3, GoneOn
  <2> QED
    BY <2>1, <2>2, <2>3
<1>4. CASE NotAnsweredAgain
  <2>1. UNCHANGED <<storeVars, intent, mails, crashed>> /\ proc.pc = "reasked" /\ proc \in Process
    BY <1>4 DEF NotAnsweredAgain, world, WatchInv, ProcOK
  <2>2. PICK limited \in BOOLEAN, retry \in RetryAfter :
          proc' = [proc EXCEPT !.pc = HandedOver, !.refused = limited, !.retry = retry]
    BY <1>4 DEF NotAnsweredAgain
  <2>3. /\ proc'.pc = HandedOver /\ proc'.todo = proc.todo /\ proc'.run = proc.run
        /\ proc' \in Process
    BY <2>1, <2>2 DEF Process
  <2> QED
    BY <2>1, <2>3, GoingOnKeeps DEF GoesOn
<1>5. CASE Reserved
  <2>1. UNCHANGED <<storeVars, intent, mails, crashed>> /\ proc.pc = "reserved"
        /\ (Goto("release") \/ Goto("enqueue"))
    BY <1>5 DEF Reserved, world
  <2>2. CASE Goto("release")
    BY <2>1, <2>2, GoneOn
  <2>3. CASE Goto("enqueue")
    BY <2>1, <2>3, GoneOn
  <2> QED
    BY <2>1, <2>2, <2>3
<1> QED
  BY <1>1, <1>2, <1>3, <1>4, <1>5

-----------------------------------------------------------------------------
(* The steps on the event at hand that leave the store alone.               *)

LEMMA SameEvent ==
  ASSUME WatchInv, UNCHANGED <<storeVars, crashed>>, proc.pc \in Handling,
         NEW pc \in Handling, Goto(pc)
  PROVE  /\ Tables!StoreInv' /\ ProcOK' /\ FlightOK'
         /\ event' = event /\ Current' = Current /\ proc'.pc = pc /\ proc'.run = proc.run
         /\ Current \in DOMAIN event /\ Current \in 1 .. MaxEvents
         /\ event[Current].status # "PENDING"
<1>1. proc \in Process /\ pc \in Place
  BY DEF WatchInv, ProcOK, Place, Working
<1>2. proc' \in Process /\ proc'.pc = pc /\ proc'.todo = proc.todo /\ proc'.run = proc.run
  BY <1>1, Gone
<1>3. event' = event /\ Tables!StoreInv'
  BY StoreUnchanged DEF WatchInv, storeVars
<1>4. Current' = Current
  BY <1>2 DEF Current
<1>5. proc.todo # <<>> /\ event[Current].status # "PENDING"
  BY DEF WatchInv, ProcOK, Working
<1>6. ProcOK'
  <2>1. proc' \in Process'
    BY <1>2 DEF Process
  <2> QED
    BY <1>2, <1>3, <1>4, <1>5, <2>1 DEF WatchInv, ProcOK
<1>7. FlightOK'
  BY <1>2, <1>3, <1>4 DEF WatchInv, FlightOK, Store!InFlight
<1> QED
  BY <1>2, <1>3, <1>4, <1>5, <1>6, <1>7, CurrentFacts DEF WatchInv

LEMMA MailKeeps ==
  ASSUME WatchInv, Mail
  PROVE  WatchInv'
<1>1. PICK pc \in {"check", "close", "unsent"} :
        /\ Goto(pc) /\ mails' \in {mails, [mails EXCEPT ![Current] = @ + 1]}
        /\ pc \in {"check", "unsent"} <=> Script
  BY DEF Mail
<1>2. UNCHANGED <<storeVars, crashed, intent>> /\ proc.pc = "mail" /\ pc \in Handling /\ proc.pc \in Handling
  BY DEF Mail, Handling
<1>3. /\ Tables!StoreInv' /\ ProcOK' /\ FlightOK'
      /\ event' = event /\ Current' = Current /\ proc'.pc = pc /\ proc'.run = proc.run
      /\ Current \in DOMAIN event /\ Current \in 1 .. MaxEvents
      /\ event[Current].status # "PENDING"
  BY <1>1, <1>2, SameEvent
<1>4. mails[Current] = 0 /\ mails \in [1 .. MaxEvents -> Nat]
  BY <1>2 DEF WatchInv, MailOK, Untold
<1>5. /\ mails' \in [1 .. MaxEvents -> Nat] /\ mails'[Current] <= 1
      /\ \A e \in (1 .. MaxEvents) \ {Current} : mails'[e] = mails[e]
  <2>1. ASSUME NEW S, NEW f \in [S -> Nat], NEW e \in S, f[e] = 0,
               NEW g \in {f, [f EXCEPT ![e] = @ + 1]}
        PROVE  /\ g \in [S -> Nat] /\ g[e] <= 1
               /\ \A d \in S \ {e} : g[d] = f[d]
    BY <2>1
  <2>2. Current \in 1 .. MaxEvents
    BY <1>3
  <2>3. mails' \in {mails, [mails EXCEPT ![Current] = @ + 1]}
    BY <1>1
  <2> QED
    <3> DEFINE S == 1 .. MaxEvents
               here == Current
               tried == mails'
    <3>1. /\ mails \in [S -> Nat] /\ here \in S /\ mails[here] = 0
          /\ tried \in {mails, [mails EXCEPT ![here] = @ + 1]}
      BY <1>4, <2>2, <2>3
    <3>2. /\ tried \in [S -> Nat] /\ tried[here] <= 1
          /\ \A d \in S \ {here} : tried[d] = mails[d]
      <4> HIDE DEF S, here, tried
      <4> QED
        BY <2>1, <3>1
    <3> QED
      BY <3>2
<1>6. proc'.pc \notin Untold(proc'.run)
  BY <1>1, <1>3 DEF Untold, Script
<1>7. MailOK'
  BY <1>3, <1>5, <1>6 DEF WatchInv, MailOK, Untold
<1>8. IntentOK'
  BY <1>2, <1>3 DEF WatchInv, IntentOK, ReservationsAreSettled
<1> QED
  BY <1>3, <1>7, <1>8 DEF WatchInv

LEMMA IntentsKeep ==
  ASSUME WatchInv, Reserve \/ Enqueue \/ Release
  PROVE  WatchInv'
<1> USE DEF Handling, Reserving, HandedOver, Script
<1>1. PICK pc \in Handling : Goto(pc) /\ pc \in Reserving \cup {HandedOver}
  BY DEF Reserve, Enqueue, Release
<1>2. UNCHANGED <<storeVars, mails, crashed>> /\ proc.pc \in {"reserve", "enqueue", "release"}
  BY DEF Reserve, Enqueue, Release
<1>3. /\ Tables!StoreInv' /\ ProcOK' /\ FlightOK'
      /\ event' = event /\ Current' = Current /\ proc'.pc = pc /\ proc'.run = proc.run
      /\ Current \in DOMAIN event
  BY <1>1, <1>2, SameEvent
<1>4. MailOK'
  <2>1. proc.pc \in Untold(proc.run) \/ proc.run.kind = "script"
    BY <1>2 DEF Untold
  <2>2. proc'.pc \in Untold(proc'.run) => mails[Current] = 0
    BY <1>1, <1>3, <2>1 DEF WatchInv, MailOK, Untold
  <2> QED
    BY <1>2, <1>3, <2>2 DEF WatchInv, MailOK
<1>5. IntentOK'
  <2> DEFINE p == event[Current].product
  <2>1. p \in Product
    BY <1>3, EventFacts DEF WatchInv, Store!Event
  <2>2. intent \in [Product -> {"none", "created", "queued", "aborted"}]
    BY DEF WatchInv, IntentOK
  <2>3. (event[Current].product)' = p
    BY <1>3
  <2>4. CASE intent' = intent /\ proc.pc = "reserve"
    BY <1>2, <1>3, <2>2, <2>4 DEF WatchInv, IntentOK, ReservationsAreSettled
  <2>5. CASE intent' = [intent EXCEPT ![p] = "created"] /\ proc.pc = "reserve" /\ pc = "reserved"
    <3>1. intent' \in [Product -> {"none", "created", "queued", "aborted"}]
      BY <2>1, <2>2, <2>5
    <3>2. \A q \in Product \ {p} : intent'[q] = intent[q]
      BY <2>1, <2>2, <2>5
    <3> QED
      BY <1>2, <1>3, <2>3, <2>5, <3>1, <3>2 DEF WatchInv, IntentOK, ReservationsAreSettled
  <2>6. CASE /\ proc.pc \in {"enqueue", "release"}
             /\ \E s \in {"queued", "aborted"} : intent' = [intent EXCEPT ![p] = s]
    <3>1. intent' \in [Product -> {"none", "created", "queued", "aborted"}] /\ intent'[p] # "created"
      BY <2>1, <2>2, <2>6
    <3>2. \A q \in Product \ {p} : intent'[q] = intent[q]
      BY <2>1, <2>2, <2>6
    <3> QED
      BY <1>2, <3>1, <3>2 DEF WatchInv, IntentOK, ReservationsAreSettled
  <2>7. CASE intent' = intent /\ proc.pc = "enqueue" /\ pc = "release"
    BY <1>2, <1>3, <2>2, <2>7 DEF WatchInv, IntentOK, ReservationsAreSettled
  <2>8. CASE Reserve
    <3>1. /\ proc.pc = "reserve"
          /\ \/ intent' = intent
             \/ intent' = [intent EXCEPT ![p] = "created"] /\ Goto("reserved")
      BY <2>8 DEF Reserve
    <3>2. Goto("reserved") => proc'.pc = "reserved"
      BY DEF Goto, WatchInv, ProcOK, Process
    <3> QED
      BY <1>3, <2>4, <2>5, <3>1, <3>2
  <2>9. CASE Enqueue
    <3>1. /\ proc.pc = "enqueue"
          /\ \/ intent' = intent /\ Goto("release")
             \/ intent' = [intent EXCEPT ![p] = "queued"]
      BY <2>9 DEF Enqueue
    <3>2. Goto("release") => proc'.pc = "release"
      BY DEF Goto, WatchInv, ProcOK, Process
    <3> QED
      BY <1>3, <2>6, <2>7, <3>1, <3>2
  <2>10. CASE Release
    BY <2>6, <2>10 DEF Release
  <2> QED
    BY <2>8, <2>9, <2>10
<1> QED
  BY <1>3, <1>4, <1>5 DEF WatchInv

-----------------------------------------------------------------------------
(* The steps that write the status of the event at hand.                    *)

LEMMA StampKeeps ==
  ASSUME WatchInv, Next, proc.todo # <<>>, NEW status \in Store!Status \ {"PENDING"},
         event' = [event EXCEPT ![Current].status = status],
         UNCHANGED <<baseline, product, sighted, intent, mails, crashed>>,
         proc' \in Process, proc'.run = proc.run,
         \A i \in DOMAIN proc'.todo : proc'.todo[i] \in DOMAIN event,
         proc'.pc \in Working => proc'.todo = proc.todo,
         status \in Store!InFlight => proc'.pc \in Handling /\ proc'.todo = proc.todo,
         proc.pc \notin Reserving, proc'.pc \notin Reserving,
         proc'.pc \in Untold(proc.run) => mails[Current] = 0 /\ proc'.todo = proc.todo
  PROVE  WatchInv'
<1>1. Tables!StoreInv'
  BY StoreMoves, StoreInductive DEF WatchInv
<1>2. /\ Current \in DOMAIN event
      /\ DOMAIN event' = DOMAIN event
      /\ event'[Current].status = status
      /\ \A d \in DOMAIN event \ {Current} : event'[d] = event[d]
      /\ \A d \in DOMAIN event : event'[d].product = event[d].product
  <2>1. Current \in DOMAIN event
    BY CurrentFacts DEF WatchInv
  <2> QED
    BY <2>1, Stamping DEF WatchInv
<1>3. proc'.todo = proc.todo => Current' = Current
  BY DEF Current
<1>4. ProcOK'
  <2>1. proc' \in Process'
    BY DEF Process
  <2>2. proc'.pc \in Working => proc'.todo # <<>> /\ event'[Current'].status # "PENDING"
    BY <1>2, <1>3
  <2> QED
    BY <1>2, <2>1, <2>2 DEF ProcOK
<1>5. MailOK'
  <2>1. proc'.pc \in Untold(proc'.run) => mails[Current'] = 0
    BY <1>3
  <2>2. \A e \in 1 .. MaxEvents :
          /\ mails[e] <= 1
          /\ mails[e] > 0 => e \in DOMAIN event' /\ event'[e].status # "PENDING"
    BY <1>2 DEF WatchInv, MailOK
  <2> QED
    BY <2>1, <2>2 DEF WatchInv, MailOK
<1>6. FlightOK'
  <2> SUFFICES ASSUME NEW e \in DOMAIN event', event'[e].status \in Store!InFlight,
                      "event" \notin crashed
               PROVE  proc'.pc \in Handling /\ e = Current'
    BY DEF FlightOK, Store!InFlight
  <2>1. CASE e = Current
    BY <1>2, <1>3, <2>1
  <2>2. CASE e # Current
    BY <1>2, <2>2 DEF WatchInv, FlightOK
  <2> QED
    BY <2>1, <2>2
<1>7. IntentOK'
  BY <1>2 DEF WatchInv, IntentOK, ReservationsAreSettled, Reserving
<1> QED
  BY <1>1, <1>4, <1>5, <1>6, <1>7 DEF WatchInv

LEMMA ClosingKeeps ==
  ASSUME WatchInv, Next, Notice \/ Unsent \/ Close
  PROVE  WatchInv'
<1> USE DEF Handling, Working, Reserving
<1>1. proc \in Process /\ proc.todo # <<>>
      /\ \A i \in DOMAIN proc.todo : proc.todo[i] \in DOMAIN event
  BY DEF WatchInv, ProcOK, Notice, Unsent, Close
<1>2. /\ Tail(proc.todo) \in Seq(Nat)
      /\ \A i \in DOMAIN Tail(proc.todo) : Tail(proc.todo)[i] \in DOMAIN event
  BY <1>1, CurrentFacts DEF WatchInv
<1>3. "WORKING" \in Store!Status \ {"PENDING"} /\ "DONE" \in Store!Status \ {"PENDING"}
      /\ "DONE" \notin Store!InFlight
  BY DEF Store!Status, Store!InFlight
<1>4. ASSUME EventDone
      PROVE  /\ proc' \in Process /\ proc'.run = proc.run /\ proc'.pc = "next"
             /\ proc'.todo = Tail(proc.todo)
  BY <1>1, <1>2, <1>4, Passed
<1>5. CASE Notice
  <2>1. /\ proc.pc = "notice" /\ Goto("mail")
        /\ event' = [event EXCEPT ![Current].status = "WORKING"]
        /\ UNCHANGED <<baseline, product, sighted, intent, mails, crashed>>
    BY <1>5 DEF Notice, Store!UpdateEvent, world
  <2>2. proc' \in Process /\ proc'.pc = "mail" /\ proc'.todo = proc.todo /\ proc'.run = proc.run
    BY <1>1, <2>1, Gone DEF Place
  <2>3. mails[Current] = 0
    BY <2>1 DEF WatchInv, MailOK, Untold
  <2> QED
    BY <1>1, <1>3, <2>1, <2>2, <2>3, StampKeeps
<1>6. CASE Unsent
  <2>1. /\ proc.pc = "unsent" /\ EventDone
        /\ event' = [event EXCEPT ![Current].status = "DONE"]
        /\ UNCHANGED <<baseline, product, sighted, intent, mails, crashed>>
    BY <1>6 DEF Unsent, Store!UpdateEvent, world
  <2> QED
    BY <1>1, <1>2, <1>3, <1>4, <2>1, StampKeeps DEF Untold
<1>7. CASE Close
  <2>1. /\ proc.pc = "close" /\ (EventDone \/ Goto("penalty"))
        /\ event' = [event EXCEPT ![Current].status = "DONE"]
        /\ UNCHANGED <<baseline, product, sighted, intent, mails, crashed>>
    BY <1>7 DEF Close, Store!UpdateEvent, world
  <2>2. CASE EventDone
    BY <1>1, <1>2, <1>3, <1>4, <2>1, <2>2, StampKeeps DEF Untold
  <2>3. CASE Goto("penalty")
    <3>1. proc' \in Process /\ proc'.pc = "penalty" /\ proc'.todo = proc.todo /\ proc'.run = proc.run
      BY <1>1, <2>3, Gone DEF Place
    <3> QED
      BY <1>1, <1>3, <2>1, <3>1, StampKeeps DEF Untold
  <2> QED
    BY <2>1, <2>2, <2>3
<1> QED
  BY <1>5, <1>6, <1>7

LEMMA NextEventKeeps ==
  ASSUME WatchInv, Next, NextEvent
  PROVE  WatchInv'
<1> USE DEF Handling, Working, Reserving
<1>1. proc \in Process /\ proc.pc = "next" /\ UNCHANGED <<intent, mails, crashed>>
      /\ \A i \in DOMAIN proc.todo : proc.todo[i] \in DOMAIN event
  BY DEF WatchInv, ProcOK, NextEvent, world
<1>2. CASE proc.todo = <<>> \/ Stopped
  <2>1. UNCHANGED storeVars /\ (Exit \/ proc' = [proc EXCEPT !.pc = "scan", !.todo = <<>>])
    BY <1>2 DEF NextEvent
  <2>2. CASE Exit
    BY <1>1, <2>1, <2>2, LeftOff
  <2>3. CASE proc' = [proc EXCEPT !.pc = "scan", !.todo = <<>>]
    <3>1. proc'.pc = "scan" /\ proc'.todo = <<>> /\ proc'.run = proc.run
      BY <1>1, <2>3 DEF Process
    <3>2. proc' \in Process
      <4>1. <<>> \in Seq(Nat) /\ "scan" \in Place
        BY EmptySeq DEF Place
      <4> QED
        BY <1>1, <2>3, <4>1 DEF Process
    <3>3. "scan" \notin Working /\ "scan" \notin Untold(proc.run)
      BY DEF Untold
    <3> QED
      BY <1>1, <2>1, <3>1, <3>2, <3>3, GoingOnKeeps DEF GoesOn
  <2> QED
    BY <2>1, <2>2, <2>3
<1>3. CASE ~(proc.todo = <<>> \/ Stopped)
  <2>1. \/ Store!ClaimEvent(Current) /\ Goto(IF Script THEN "notice" ELSE "check")
        \/ Store!UpdateEvent(Current, "DONE") /\ EventDone
    BY <1>3 DEF NextEvent
  <2>2. /\ Tail(proc.todo) \in Seq(Nat) /\ Current \in 1 .. MaxEvents
        /\ \A i \in DOMAIN Tail(proc.todo) : Tail(proc.todo)[i] \in DOMAIN event
    BY <1>3, CurrentFacts DEF WatchInv
  <2>3. "RUNNING" \in Store!Status \ {"PENDING"} /\ "DONE" \in Store!Status \ {"PENDING"}
        /\ "DONE" \notin Store!InFlight
    BY DEF Store!Status, Store!InFlight
  <2>4. CASE Store!ClaimEvent(Current) /\ Goto(IF Script THEN "notice" ELSE "check")
    <3>1. PICK pc \in {"notice", "check"} : Goto(pc)
      BY <2>4
    <3>2. proc' \in Process /\ proc'.pc = pc /\ proc'.todo = proc.todo /\ proc'.run = proc.run
      BY <1>1, <3>1, Gone DEF Place
    <3>3. /\ event' = [event EXCEPT ![Current].status = "RUNNING"]
          /\ UNCHANGED <<baseline, product, sighted>>
          /\ event[Current].status = "PENDING"
      BY <2>4 DEF Store!ClaimEvent
    <3>4. mails[Current] = 0
      BY <2>2, <3>3 DEF WatchInv, MailOK
    <3> QED
      BY <1>1, <1>3, <2>3, <3>2, <3>3, <3>4, StampKeeps
  <2>5. CASE Store!UpdateEvent(Current, "DONE") /\ EventDone
    <3>1. /\ proc' \in Process /\ proc'.run = proc.run /\ proc'.pc = "next"
          /\ proc'.todo = Tail(proc.todo)
      BY <1>1, <2>2, <2>5, Passed
    <3>2. /\ event' = [event EXCEPT ![Current].status = "DONE"]
          /\ UNCHANGED <<baseline, product, sighted>>
      BY <2>5 DEF Store!UpdateEvent
    <3> QED
      BY <1>1, <1>3, <2>2, <2>3, <3>1, <3>2, StampKeeps DEF Untold
  <2> QED
    BY <2>1, <2>4, <2>5
<1> QED
  BY <1>2, <1>3

LEMMA PenaltyKeeps ==
  ASSUME WatchInv, Penalty
  PROVE  WatchInv'
<1>1. /\ proc \in Process /\ proc.pc = "penalty" /\ proc.todo # <<>> /\ EventDone
      /\ UNCHANGED <<storeVars, intent, mails, crashed>>
  BY DEF WatchInv, ProcOK, Penalty, Working, world
<1>2. /\ Tail(proc.todo) \in Seq(Nat)
      /\ \A i \in DOMAIN Tail(proc.todo) : Tail(proc.todo)[i] \in DOMAIN event
  BY <1>1, CurrentFacts DEF WatchInv
<1>3. /\ proc' \in Process /\ proc'.pc = "next"
      /\ proc'.todo = Tail(proc.todo) /\ proc'.run = proc.run
  BY <1>1, <1>2, Passed
<1>4. event' = event /\ Tables!StoreInv'
  BY <1>1, StoreUnchanged DEF WatchInv, storeVars
<1>5. ProcOK'
  <2>1. proc' \in Process'
    BY <1>3 DEF Process
  <2> QED
    BY <1>2, <1>3, <1>4, <2>1 DEF ProcOK, Working, Handling
<1>6. MailOK'
  <2>1. proc'.pc \notin Untold(proc'.run)
    BY <1>3 DEF Untold
  <2> QED
    BY <1>1, <1>4, <2>1 DEF WatchInv, MailOK
<1>7. FlightOK'
  BY <1>1, <1>4 DEF WatchInv, FlightOK, Store!InFlight, Handling
<1>8. IntentOK'
  BY <1>1, <1>4 DEF WatchInv, IntentOK, ReservationsAreSettled
<1> QED
  BY <1>4, <1>5, <1>6, <1>7, <1>8 DEF WatchInv

-----------------------------------------------------------------------------
(* A new page, a new process, a dead one.                                   *)

LEMMA PageMade ==
  ASSUME WatchInv, NEW page \in Page, Store!Ingest(page)
  PROVE  /\ Len(event) \in Nat /\ Len(event') \in Nat /\ Len(event) <= Len(event')
         /\ DOMAIN event = 1 .. Len(event) /\ DOMAIN event' = 1 .. Len(event')
         /\ \A e \in DOMAIN event : e \in DOMAIN event' /\ event'[e] = event[e]
         /\ \A e \in DOMAIN event' \ DOMAIN event : event'[e].status = "PENDING"
<1>1. page \in [Product -> Tables!Observation] /\ Tables!Ingest(page)
  BY WholePages
<1>2. Product \in SUBSET Product
  OBVIOUS
<1>3. /\ event' \in Seq(Tables!Event) /\ Len(event') \in Nat
      /\ Len(event) <= Len(event')
      /\ \A e \in DOMAIN event : e \in DOMAIN event' /\ event'[e] = event[e]
      /\ \A e \in DOMAIN event' \ DOMAIN event :
           \E p \in Tables!Eventful(page) : event'[e] = Tables!NewEvent(p, page[p])
  BY <1>1, <1>2, TablesAssumption, Tables!EventsIngested
    DEF WatchInv, Tables!StoreAssumption, Tables!BudgetAssumption
<1>4. \A p, obs : Tables!NewEvent(p, obs).status = "PENDING"
  BY DEF Tables!NewEvent
<1>5. DOMAIN event' = 1 .. Len(event')
  BY <1>3, LenProperties
<1> QED
  BY <1>3, <1>4, <1>5, EventFacts DEF WatchInv

LEMMA IngestKeeps ==
  ASSUME WatchInv, Next, Ingest
  PROVE  WatchInv'
<1> USE DEF Handling, Working, Reserving
<1>1. proc \in Process /\ proc.pc = "ingest" /\ UNCHANGED <<intent, mails, crashed>>
  BY DEF WatchInv, ProcOK, Ingest, world
<1>2. CASE Exit /\ UNCHANGED storeVars
  BY <1>1, <1>2, LeftOff
<1>3. ASSUME NEW page \in Page, Store!Ingest(page), proc' = [proc EXCEPT !.pc = "next", !.todo = Made]
      PROVE  WatchInv'
  <2>1. Tables!StoreInv'
    BY StoreMoves, StoreInductive DEF WatchInv
  <2>2. /\ Len(event) \in Nat /\ Len(event') \in Nat /\ Len(event) <= Len(event')
        /\ DOMAIN event = 1 .. Len(event) /\ DOMAIN event' = 1 .. Len(event')
        /\ \A e \in DOMAIN event : e \in DOMAIN event' /\ event'[e] = event[e]
        /\ \A e \in DOMAIN event' \ DOMAIN event : event'[e].status = "PENDING"
    BY <1>3, PageMade
  <2>3. Made \in Seq(Nat) /\ \A i \in DOMAIN Made : Made[i] \in DOMAIN event'
    <3> DEFINE n == Len(event') - Len(event)
    <3>1. n \in Nat /\ \A i \in 1 .. n : Len(event) + i \in Nat /\ Len(event) + i \in DOMAIN event'
      BY <2>2
    <3>2. Made = [i \in 1 .. n |-> Len(event) + i]
      BY DEF Made
    <3>3. Made \in Seq(Nat)
      <4> HIDE DEF n
      <4> QED
        BY <3>1, <3>2
    <3> QED
      BY <3>1, <3>2, <3>3
  <2>4. /\ proc' \in Process /\ proc'.pc = "next" /\ proc'.todo = Made /\ proc'.run = proc.run
    BY <1>1, <1>3, <2>3 DEF Process, Place
  <2>5. ProcOK'
    <3>1. proc' \in Process'
      BY <2>4 DEF Process
    <3> QED
      BY <2>3, <2>4, <3>1 DEF ProcOK
  <2>6. MailOK'
    <3>1. proc'.pc \notin Untold(proc'.run)
      BY <2>4 DEF Untold
    <3> QED
      BY <1>1, <2>2, <3>1 DEF WatchInv, MailOK
  <2>7. FlightOK'
    BY <1>1, <2>2 DEF WatchInv, FlightOK, Store!InFlight
  <2>8. IntentOK'
    BY <1>1 DEF WatchInv, IntentOK, ReservationsAreSettled
  <2> QED
    BY <2>1, <2>5, <2>6, <2>7, <2>8 DEF WatchInv
<1> QED
  BY <1>2, <1>3 DEF Ingest

LEMMA StartKeeps ==
  ASSUME WatchInv, Next, NEW run \in Runs, Start(run)
  PROVE  WatchInv'
<1> USE DEF Handling, Working, Reserving
<1>1. /\ proc \in Process /\ proc.pc \in {"idle", "dead"} /\ UNCHANGED <<intent, mails>>
      /\ run \in Run
      /\ proc' = [pc |-> IF run.kind = "script" THEN "claim" ELSE "scan", run |-> run,
                  todo |-> <<>>, refused |-> FALSE, retry |-> 0]
  BY WatchAssumption DEF WatchInv, ProcOK, Start, Live
<1>2. Tables!StoreInv'
  BY StoreMoves, StoreInductive DEF WatchInv
<1>3. /\ proc' \in Process /\ proc'.pc \in {"claim", "scan"} /\ proc'.todo = <<>> /\ proc'.run = run
  <2>1. <<>> \in Seq(Nat) /\ 0 \in RetryAfter
    BY EmptySeq, WatchAssumption
  <2> QED
    BY <1>1, <2>1 DEF Process, Place
<1>4. /\ DOMAIN event' = DOMAIN event
      /\ \A e \in DOMAIN event :
           /\ event'[e].status = "PENDING" <=> event[e].status = "PENDING"
           /\ event'[e].status \in Store!InFlight => "event" \in crashed'
  <2>1. CASE UNCHANGED <<storeVars, crashed>>
    BY <1>1, <2>1 DEF storeVars, WatchInv, FlightOK
  <2>2. CASE Store!RecoverInterrupted
    BY <2>2, Recovering DEF WatchInv
  <2> QED
    BY <2>1, <2>2 DEF Start
<1>5. "intent" \in crashed => "intent" \in crashed'
  BY DEF Start
<1>6. ProcOK'
  <2>1. proc' \in Process'
    BY <1>3 DEF Process
  <2> QED
    BY <1>3, <2>1, EmptySeq, LenProperties DEF ProcOK
<1>7. MailOK'
  <2>1. proc'.pc \notin Untold(proc'.run)
    BY <1>3 DEF Untold
  <2> QED
    BY <1>1, <1>4, <2>1 DEF WatchInv, MailOK
<1>8. FlightOK'
  BY <1>4 DEF FlightOK, Store!InFlight
<1>9. IntentOK'
  BY <1>1, <1>5 DEF WatchInv, IntentOK, ReservationsAreSettled
<1> QED
  BY <1>2, <1>6, <1>7, <1>8, <1>9 DEF WatchInv

LEMMA DiesKeeps ==
  ASSUME WatchInv, Dies
  PROVE  WatchInv'
<1>1. /\ proc \in Process /\ crashed' = {"event", "intent"} /\ UNCHANGED <<storeVars, intent, mails>>
      /\ proc' = [proc EXCEPT !.pc = "dead", !.todo = <<>>, !.refused = FALSE, !.retry = 0]
  BY DEF WatchInv, ProcOK, Dies
<1>2. proc' \in Process /\ proc'.pc = "dead" /\ proc'.todo = <<>>
  <2>1. <<>> \in Seq(Nat) /\ 0 \in RetryAfter
    BY EmptySeq, WatchAssumption
  <2> QED
    BY <1>1, <2>1 DEF Process, Place
<1>3. event' = event /\ Tables!StoreInv'
  BY <1>1, StoreUnchanged DEF WatchInv, storeVars
<1>4. ProcOK'
  <2>1. proc' \in Process'
    BY <1>2 DEF Process
  <2> QED
    BY <1>2, <2>1, EmptySeq, LenProperties DEF ProcOK, Working, Handling
<1>5. MailOK'
  <2>1. proc'.pc \notin Untold(proc'.run)
    BY <1>2 DEF Untold
  <2> QED
    BY <1>1, <1>3, <2>1 DEF WatchInv, MailOK
<1>6. FlightOK' /\ IntentOK'
  BY <1>1, <1>3 DEF WatchInv, FlightOK, IntentOK, ReservationsAreSettled
<1> QED
  BY <1>3, <1>4, <1>5, <1>6 DEF WatchInv

-----------------------------------------------------------------------------
LEMMA WatchInvInit == Init => WatchInv
<1> SUFFICES ASSUME Init PROVE WatchInv
  OBVIOUS
<1>1. /\ proc = [pc |-> "idle", run |-> [kind |-> "monitor", prepare |-> FALSE], todo |-> <<>>,
                 refused |-> FALSE, retry |-> 0]
      /\ intent = [p \in Product |-> "none"] /\ mails = [e \in 1 .. MaxEvents |-> 0] /\ event = <<>>
  BY DEF Init, Store!StoreInit
<1>2. Tables!StoreInv
  BY TablesAssumption, Tables!StoreInvInit
    DEF Init, Store!StoreInit, Tables!StoreInit, Tables!StoreAssumption, Tables!BudgetAssumption
<1>3. DOMAIN event = {}
  BY <1>1, EmptySeq, LenProperties
<1>4. ProcOK
  <2>1. <<>> \in Seq(Nat) /\ 0 \in RetryAfter
    BY EmptySeq, WatchAssumption
  <2>2. proc \in Process
    BY <1>1, <2>1 DEF Process, Place, Run
  <2> QED
    BY <1>1, <1>3, <2>2 DEF ProcOK, Working, Handling
<1>5. MailOK
  BY <1>1 DEF MailOK, Untold
<1>6. FlightOK /\ IntentOK
  BY <1>1, <1>3 DEF FlightOK, IntentOK, ReservationsAreSettled
<1> QED
  BY <1>2, <1>4, <1>5, <1>6 DEF WatchInv

LEMMA WatchInvNext == WatchInv /\ [Next]_vars => WatchInv'
<1> SUFFICES ASSUME WatchInv, [Next]_vars PROVE WatchInv'
  OBVIOUS
<1>1. CASE UNCHANGED vars
  BY <1>1, Waits DEF vars
<1>2. CASE Next
  <2>1. CASE Claim \/ AskCatalogue \/ PageCame \/ NoPage
    BY <2>1, RequestsKeep
  <2>2. CASE Check \/ AskAgain \/ NotAnsweredAgain \/ Reserved
              \/ \E page \in Page : AnsweredAgain(page)
    BY <2>2, LooksKeep
  <2>3. CASE Reserve \/ Enqueue \/ Release
    BY <2>3, IntentsKeep
  <2>4. CASE Notice \/ Unsent \/ Close
    BY <1>2, <2>4, ClosingKeeps
  <2>5. CASE Signal \/ Passes
    BY <2>5, Waits DEF Signal, Passes, world
  <2>6. CASE \E run \in Runs : Start(run)
    BY <1>2, <2>6, StartKeeps
  <2>7. CASE Ingest
    BY <1>2, <2>7, IngestKeeps
  <2>8. CASE NextEvent
    BY <1>2, <2>8, NextEventKeeps
  <2> QED
    BY <1>2, <2>1, <2>2, <2>3, <2>4, <2>5, <2>6, <2>7, <2>8, MailKeeps, PenaltyKeeps, DiesKeeps
      DEF Next, Work
<1> QED
  BY <1>1, <1>2

LEMMA WatchInvariance == Spec => []WatchInv
BY WatchInvInit, WatchInvNext, PTL DEF Spec

-----------------------------------------------------------------------------
(* What the invariant and the steps give.                                   *)

LEMMA BudgetKept == Spec => []Tables!BudgetInv
<1>1. Init => Tables!BudgetInv
  BY TablesAssumption, Tables!BudgetInvInit
    DEF Init, Budget!Init, Tables!Init, Budget!NoTicket, Tables!NoTicket,
      Tables!StoreAssumption, Tables!BudgetAssumption
<1>2. WatchInv /\ Tables!BudgetInv /\ [Next]_vars => Tables!BudgetInv'
  <2> SUFFICES ASSUME WatchInv, Tables!BudgetInv, [Next]_vars PROVE Tables!BudgetInv'
    OBVIOUS
  <2>1. [Tables!Next]_Tables!vars
    <3>1. CASE Next
      BY <3>1, BudgetMoves DEF WatchInv
    <3>2. CASE UNCHANGED vars
      BY <3>2 DEF vars, budgetVars, Tables!vars
    <3> QED
      BY <3>1, <3>2
  <2> QED
    BY <2>1, TablesAssumption, Tables!BudgetInvNext DEF Tables!StoreAssumption, Tables!BudgetAssumption
<1> QED
  BY <1>1, <1>2, WatchInvariance, PTL DEF Spec

(* An event is mailed at most once, through any crashes, restarts and       *)
(* repeated scans: process_opportunity claims the event before it tells,    *)
(* and nobody claims an event twice.                                        *)
THEOREM MailedOnce == Spec => []OneMailPerEvent
<1>1. WatchInv => OneMailPerEvent
  BY DEF WatchInv, MailOK, OneMailPerEvent
<1> QED
  BY <1>1, WatchInvariance, PTL

(* An event in flight is the one a live process is working on, or was left  *)
(* by a dead process until a monitor starts: whatever becomes of a notice   *)
(* or a hand-over, process_opportunity ends with a final status.            *)
THEOREM WorkOwned == Spec => []WorkIsOwned
<1>1. WatchInv => WorkIsOwned
  <2>1. proc.pc \in Handling => Live
    BY DEF Handling, Live
  <2> QED
    BY <2>1 DEF WatchInv, FlightOK, ProcOK, Working, WorkIsOwned
<1> QED
  BY <1>1, WatchInvariance, PTL

(* An intent that locks its product without a command is still in the hands *)
(* of the hand-over that made it, or a process died: every error path of    *)
(* _handoff after create_or_get_intent queues the command or gives up.      *)
THEOREM ReservationsSettled == Spec => []ReservationsAreSettled
<1>1. WatchInv => ReservationsAreSettled
  BY DEF WatchInv, IntentOK
<1> QED
  BY <1>1, WatchInvariance, PTL

(* The process is somewhere in its code, works on events that exist, and    *)
(* the tables hold rows of their types.                                     *)
THEOREM WatchTypeCorrect == Spec => []TypeOK
<1>1. WatchInv /\ Tables!BudgetInv => TypeOK
  <2> SUFFICES ASSUME WatchInv, Tables!BudgetInv PROVE TypeOK
    OBVIOUS
  <2>1. Store!StoreTypeOK
    BY DEF WatchInv, Tables!StoreInv, Tables!StoreTypeOK, Store!StoreTypeOK, Tables!Stock, Store!Stock,
      Tables!Event, Store!Event, Tables!Kind, Store!Kind, Tables!Status, Store!Status,
      Tables!InFlight, Store!InFlight
  <2>2. Budget!TypeOK
    BY DEF Tables!BudgetInv, Tables!TypeOK, Budget!TypeOK, Tables!Row, Budget!Row,
      Tables!Ticket, Budget!Ticket
  <2>3. proc.pc \in Place
    BY DEF WatchInv, ProcOK, Process
  <2> QED
    BY <2>1, <2>2, <2>3 DEF WatchInv, ProcOK, IntentOK, TypeOK, Place, Working, Handling
<1> QED
  BY <1>1, WatchInvariance, BudgetKept, PTL

(* A watch uses its two tables as their modules say: every step of a script *)
(* or a monitor is a transaction of the event store or leaves it, and a     *)
(* transaction of the request budget or leaves it, under one caller.        *)
THEOREM TablesImplemented == Spec => Tables!StoreSpec /\ Tables!Spec
<1>1. Init => Tables!StoreInit
  BY DEF Init, Store!StoreInit, Tables!StoreInit
<1>2. Init => Tables!Init
  BY DEF Init, Budget!Init, Tables!Init, Budget!NoTicket, Tables!NoTicket
<1>3. WatchInv /\ [Next]_vars => [Tables!StoreNext]_Tables!storeVars
  <2>1. ASSUME WatchInv, Next PROVE [Tables!StoreNext]_Tables!storeVars
    BY <2>1, StoreMoves DEF WatchInv
  <2>2. ASSUME UNCHANGED vars PROVE [Tables!StoreNext]_Tables!storeVars
    BY <2>2 DEF vars, storeVars, Tables!storeVars
  <2> QED
    BY <2>1, <2>2
<1>4. WatchInv /\ Tables!BudgetInv /\ [Next]_vars => [Tables!Next]_Tables!vars
  <2>1. ASSUME WatchInv, Tables!BudgetInv, Next PROVE [Tables!Next]_Tables!vars
    BY <2>1, BudgetMoves DEF WatchInv
  <2>2. ASSUME UNCHANGED vars PROVE [Tables!Next]_Tables!vars
    BY <2>2 DEF vars, budgetVars, Tables!vars
  <2> QED
    BY <2>1, <2>2
<1> QED
  BY <1>1, <1>2, <1>3, <1>4, WatchInvariance, BudgetKept, PTL DEF Spec, Tables!StoreSpec, Tables!Spec

(* So what the tables promise holds of a watch: changes keep their keys,    *)
(* restocks are found, blocks stand, and silence is followed by a cooldown. *)
THEOREM TablesKeepTheirWord ==
  Spec => /\ []Tables!EveryChangeHasItsKey /\ Tables!RestocksAreSeen
          /\ Tables!BlockStands /\ Tables!SilenceCoolsDown
<1>1. /\ Tables!StoreSpec => []Tables!EveryChangeHasItsKey
      /\ Tables!StoreSpec => Tables!RestocksAreSeen
  BY TablesAssumption, Tables!KeysAreNew, Tables!RestocksAreFound
    DEF Tables!StoreAssumption, Tables!BudgetAssumption
<1>2. Tables!Spec => Tables!BlockStands /\ Tables!SilenceCoolsDown
  BY TablesAssumption, Tables!BlocksStand, Tables!SilenceWaits
    DEF Tables!StoreAssumption, Tables!BudgetAssumption
<1> QED
  BY <1>1, <1>2, TablesImplemented, PTL
=============================================================================
