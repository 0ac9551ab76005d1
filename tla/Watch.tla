------------------------------- MODULE Watch -------------------------------
(***************************************************************************)
(* Watching one merchant, from the request for its catalogue to the notice *)
(* of a restock and the hand-over to the browser: a script run             *)
(* (script_cli.check_once) or a monitor (multi_cli.run_multi) of Bandwagon, *)
(* one at a time under data/autograb.lock, with process_opportunity, the   *)
(* events and the baseline (EventStore), the request budget (RateBudget),  *)
(* the stop and disarm files, SMTP and the user who stops and resumes.     *)
(*                                                                         *)
(* Every transaction, every request and every mail is a step; the process  *)
(* may die between any two.  The catalogue is a whole page or nothing.     *)
(* Only a script asks the budget; the monitor of this merchant does not,   *)
(* and the browser reports no block of this merchant.                      *)
(***************************************************************************)
EXTENDS Integers, Sequences

CONSTANTS
  Product, Look, Offer, None,
  Page,               (* the pages the merchant may show                   *)
  Terms, Cooldown, MaxBackoff, Ordinary, RetryAfter,
  Runs,               (* [kind, prepare] of the runs that are started      *)
  MaxRevision, MaxEvents, MaxTime, MaxLimits     (* bounds                 *)

VARIABLES
  baseline, product, event, sighted,       (* EventStore                   *)
  row, ticket, now, issued, last,          (* RateBudget                   *)
  proc,               (* the process under the lock                        *)
  signals,            (* the files that exist: stop, disarm                *)
  intent,             (* the purchase intent of a product                  *)
  mails,              (* attempts at SMTP for an event                     *)
  crashed             (* history: work that a dead process may have left   *)

storeVars == <<baseline, product, event, sighted>>
budgetVars == <<row, ticket, now, issued, last>>
vars == <<storeVars, budgetVars, proc, signals, intent, mails, crashed>>

Store == INSTANCE EventStore
Budget == INSTANCE RateBudget WITH Caller <- {"script"}

Run == [kind : {"script", "monitor"}, prepare : BOOLEAN]

ASSUME WatchAssumption ==
  /\ Store!StoreAssumption /\ Budget!BudgetAssumption
  /\ Runs \subseteq Run
  /\ Page \subseteq [Product -> Store!Observation]
  /\ 0 \in RetryAfter                    \* a refusal may name no delay

Init ==
  /\ Store!StoreInit
  /\ Budget!Init
  /\ proc = [pc |-> "idle", run |-> [kind |-> "monitor", prepare |-> FALSE], todo |-> <<>>, refused |-> FALSE, retry |-> 0]
  /\ signals = {}
  /\ intent = [p \in Product |-> "none"]
  /\ mails = [e \in 1 .. MaxEvents |-> 0]
  /\ crashed = {}

Live == proc.pc \notin {"idle", "dead"}
Script == proc.run.kind = "script"
Stopped == "stop" \in signals
Controlled == signals # {}                       \* check_controls raises
Current == Head(proc.todo)

Goto(pc) == proc' = [proc EXCEPT !.pc = pc]
Exit == proc' = [proc EXCEPT !.pc = "idle", !.todo = <<>>, !.refused = FALSE, !.retry = 0]
EventDone == proc' = [proc EXCEPT !.pc = "next", !.todo = Tail(@), !.refused = FALSE,
                                  !.retry = 0]
world == <<signals, intent, mails, crashed>>

-----------------------------------------------------------------------------
(* A script claims its slot first; a monitor first recovers. *)
Start(run) ==
  /\ ~Live
  /\ ~Stopped
  /\ proc' = [pc |-> IF run.kind = "script" THEN "claim" ELSE "scan", run |-> run,
              todo |-> <<>>, refused |-> FALSE, retry |-> 0]
  /\ IF run.kind = "script"
     THEN UNCHANGED <<storeVars, crashed>>
     ELSE Store!RecoverInterrupted /\ crashed' = crashed \ {"event"}
  /\ ticket' = [c \in {"script"} |-> Budget!NoTicket]
  /\ UNCHANGED <<row, now, issued, last, signals, intent, mails>>

Claim ==
  /\ proc.pc = "claim"
  /\ \/ Budget!Admitted("script") /\ Goto("scan")
     \/ (Budget!Denied("script") \/ Budget!Interrupted("script")) /\ Exit
  /\ UNCHANGED <<storeVars, world>>

(* The request for the catalogue leaves; a monitor looks for a stop first. *)
AskCatalogue ==
  /\ proc.pc = "scan"
  /\ IF ~Script /\ Stopped THEN Exit ELSE Goto("asked")
  /\ UNCHANGED <<storeVars, budgetVars, world>>

(* What the script reports to the budget; an expired ticket is ignored. *)
Report(limited, retry) ==
  IF Budget!Live("script") \/ Budget!Amendable("script")
  THEN Budget!Failure("script", limited, retry) ELSE UNCHANGED budgetVars

(* A page came.  A script reports it before it believes it. *)
PageCame ==
  /\ proc.pc = "asked"
  /\ IF Script /\ ~Budget!Live("script")
     THEN Exit /\ UNCHANGED budgetVars                     \* RATE_PROBE_EXPIRED
     ELSE /\ Goto("ingest")
          /\ IF Script THEN Budget!Success("script") ELSE UNCHANGED budgetVars
  /\ UNCHANGED <<storeVars, world>>

(* No page came: refused (403, 429) or failed.  The monitor gives a merchant *)
(* up that refuses it, and asks again after any other failure.               *)
NoPage ==
  /\ proc.pc = "asked"
  /\ \E limited \in BOOLEAN, retry \in RetryAfter :
       IF Script THEN Report(limited, retry) /\ Exit
       ELSE /\ UNCHANGED budgetVars
            /\ Exit \/ (~limited /\ ~Stopped /\ Goto("scan"))
  /\ UNCHANGED <<storeVars, world>>

(* The events that this page has made. *)
Made == [i \in 1 .. Len(event') - Len(event) |-> Len(event) + i]

(* A page that is no catalogue, or that comes after a stop, is a failure of  *)
(* the request that had already succeeded.                                   *)
Ingest ==
  /\ proc.pc = "ingest"
  /\ \/ /\ IF Script THEN Report(FALSE, 0) ELSE UNCHANGED budgetVars
        /\ Exit
        /\ UNCHANGED storeVars
     \/ \E page \in Page :
          /\ ~Stopped
          /\ Store!Ingest(page)
          /\ proc' = [proc EXCEPT !.pc = "next", !.todo = Made]
          /\ UNCHANGED budgetVars
  /\ UNCHANGED world

(* Round the loop: the events of this page only, and none after a stop. *)
NextEvent ==
  /\ proc.pc = "next"
  /\ UNCHANGED <<budgetVars, world>>
  /\ IF proc.todo = <<>> \/ Stopped
     THEN /\ Exit \/ (~Script /\ proc' = [proc EXCEPT !.pc = "scan", !.todo = <<>>])
          /\ UNCHANGED storeVars
     ELSE IF event[Current].opportunity
     THEN Store!ClaimEvent(Current) /\ Goto(IF Script THEN "notice" ELSE "check")
     ELSE Store!UpdateEvent(Current, "DONE") /\ EventDone

-----------------------------------------------------------------------------
(* process_opportunity: a script sends its notice before it looks further, a *)
(* monitor afterwards.                                                       *)
Notice ==
  /\ proc.pc = "notice"
  /\ Store!UpdateEvent(Current, "WORKING")
  /\ Goto("mail")
  /\ UNCHANGED <<budgetVars, world>>

Mail ==
  /\ proc.pc = "mail"
  /\ \/ mails' = [mails EXCEPT ![Current] = @ + 1]         \* accepted
        /\ Goto(IF Script THEN "check" ELSE "close")
     \/ mails' \in {mails, [mails EXCEPT ![Current] = @ + 1]}   \* not so
        /\ Goto(IF Script THEN "unsent" ELSE "close")
  /\ UNCHANGED <<storeVars, budgetVars, signals, intent, crashed>>

(* Mutant of Unsent: the error is passed on, past the other events. *)
UnsentEnds ==
  /\ proc.pc = "unsent"
  /\ Store!UpdateEvent(Current, "DONE")
  /\ Exit
  /\ UNCHANGED <<budgetVars, world>>

(* Mutant of Unsent: a notice that failed is tried again. *)
UnsentAgain ==
  /\ proc.pc = "unsent"
  /\ Goto("notice")
  /\ UNCHANGED <<storeVars, budgetVars, world>>

(* Mutant of Unsent: the status of the event stays what it was. *)
UnsentForgotten ==
  /\ proc.pc = "unsent"
  /\ EventDone
  /\ UNCHANGED <<storeVars, budgetVars, world>>

Unsent ==
  /\ proc.pc = "unsent"
  /\ Store!UpdateEvent(Current, "DONE")
  /\ EventDone
  /\ UNCHANGED <<budgetVars, world>>

(* The hand-over has ended, however: what is left is to tell and to close. *)
HandedOver == IF Script THEN "close" ELSE "notice"

Check ==
  /\ proc.pc = "check"
  /\ IF event[Current].candidate /\ proc.run.prepare /\ ~Controlled
     THEN Goto("recheck") ELSE Goto(HandedOver)
  /\ UNCHANGED <<storeVars, budgetVars, world>>

(* The stock is asked once more, on a request of its own. *)
AskAgain ==
  /\ proc.pc = "recheck"
  /\ Goto("reasked")
  /\ UNCHANGED <<storeVars, budgetVars, world>>

AnsweredAgain(page) ==
  LET p == event[Current].product IN
  /\ proc.pc = "reasked"
  /\ IF /\ ~Controlled
        /\ page[p].stock = "AVAILABLE" /\ page[p].look = event[Current].look
     THEN Goto("reserve") ELSE Goto(HandedOver)
  /\ UNCHANGED <<storeVars, budgetVars, world>>

NotAnsweredAgain ==
  /\ proc.pc = "reasked"
  /\ \E limited \in BOOLEAN, retry \in RetryAfter :
       proc' = [proc EXCEPT !.pc = HandedOver, !.refused = limited, !.retry = retry]
  /\ UNCHANGED <<storeVars, budgetVars, world>>

(* Edge is connected and idle, and the product has no active intent.        *)
Reserve ==
  LET p == event[Current].product IN
  /\ proc.pc = "reserve"
  /\ \/ /\ ~Controlled /\ intent[p] \in {"none", "aborted"}
        /\ intent' = [intent EXCEPT ![p] = "created"]
        /\ Goto("reserved")
     \/ UNCHANGED intent /\ Goto(HandedOver)
  /\ UNCHANGED <<storeVars, budgetVars, signals, mails, crashed>>

Reserved ==
  /\ proc.pc = "reserved"
  /\ Goto(IF Controlled THEN "release" ELSE "enqueue")
  /\ UNCHANGED <<storeVars, budgetVars, world>>

(* The queue takes the command, or refuses it: Edge went away, is busy. *)
Enqueue ==
  /\ proc.pc = "enqueue"
  /\ \/ /\ intent' = [intent EXCEPT ![event[Current].product] = "queued"]
        /\ Goto(HandedOver)
     \/ UNCHANGED intent /\ Goto("release")
  /\ UNCHANGED <<storeVars, budgetVars, signals, mails, crashed>>

(* Mutant of Release: the error is reported, the intent stays. *)
ReleaseNothing ==
  /\ proc.pc = "release"
  /\ Goto(HandedOver)
  /\ UNCHANGED <<storeVars, budgetVars, world>>

(* Only an intent that never entered the queue is given up. *)
Release ==
  /\ proc.pc = "release"
  /\ intent' = [intent EXCEPT ![event[Current].product] = "aborted"]
  /\ Goto(HandedOver)
  /\ UNCHANGED <<storeVars, budgetVars, signals, mails, crashed>>

Close ==
  /\ proc.pc = "close"
  /\ Store!UpdateEvent(Current, "DONE")
  /\ IF Script /\ proc.refused THEN Goto("penalty") ELSE EventDone
  /\ UNCHANGED <<budgetVars, world>>

(* The refusal of the second request is reported on the ticket of the first. *)
Penalty ==
  /\ proc.pc = "penalty"
  /\ Report(TRUE, proc.retry)
  /\ EventDone
  /\ UNCHANGED <<storeVars, world>>

-----------------------------------------------------------------------------
Dies ==
  /\ Live
  /\ proc' = [proc EXCEPT !.pc = "dead", !.todo = <<>>, !.refused = FALSE, !.retry = 0]
  /\ crashed' = {"event", "intent"}
  /\ UNCHANGED <<storeVars, budgetVars, signals, intent, mails>>

(* stop and disarm, resume-monitoring and clear-disarm. *)
Signal ==
  /\ \E s \in {"stop", "disarm"} :
       signals' = IF s \in signals THEN signals \ {s} ELSE signals \cup {s}
  /\ UNCHANGED <<storeVars, budgetVars, proc, intent, mails, crashed>>

Passes ==
  /\ Budget!Tick
  /\ UNCHANGED <<storeVars, proc, world>>

Work ==
  \/ Claim \/ AskCatalogue \/ PageCame \/ NoPage \/ Ingest \/ NextEvent
  \/ Notice \/ Mail \/ Unsent \/ Check \/ AskAgain
  \/ (\E page \in Page : AnsweredAgain(page)) \/ NotAnsweredAgain
  \/ Reserve \/ Reserved \/ Enqueue \/ Release \/ Close \/ Penalty

Next ==
  \/ \E run \in Runs : Start(run)
  \/ Work
  \/ Dies
  \/ Signal
  \/ Passes

(* A process that is alive goes on: its requests and its mails time out. *)
Spec == Init /\ [][Next]_vars /\ WF_vars(Work)

-----------------------------------------------------------------------------
(* The process is somewhere in its code, and works on events that exist. *)
TypeOK ==
  /\ Store!StoreTypeOK /\ Budget!TypeOK
  /\ proc.pc \in {"idle", "dead", "claim", "scan", "asked", "ingest", "next", "notice",
                  "mail", "unsent", "check", "recheck", "reasked", "reserve", "reserved",
                  "enqueue", "release", "close", "penalty"}
  /\ \A i \in DOMAIN proc.todo : proc.todo[i] \in DOMAIN event
  /\ intent \in [Product -> {"none", "created", "queued", "aborted"}]

(* "Notification claims are saved before SMTP; an uncertain send is not      *)
(* replayed" (docs/SCRIPT_MODE.md): through crashes, restarts and repeated   *)
(* scans an event is mailed at most once.                                    *)
OneMailPerEvent == \A e \in 1 .. MaxEvents : mails[e] <= 1

(* An event in flight is the one that a live process works on, or was left   *)
(* by a process that died, and then until the next monitor starts.           *)
WorkIsOwned ==
  \A e \in DOMAIN event :
    event[e].status \in Store!InFlight =>
      \/ "event" \in crashed
      \/ Live /\ proc.todo # <<>> /\ e = Current

(* An intent that locks its product has a command, or somebody who will      *)
(* decide it, unless the process died in between.                            *)
ReservationsAreSettled ==
  \A p \in Product :
    intent[p] = "created" =>
      \/ "intent" \in crashed
      \/ proc.pc \in {"reserved", "enqueue", "release"} /\ event[Current].product = p

(* Every opportunity of a page is worked on, whatever becomes of the notices *)
(* and the hand-overs of the others, unless the process dies or is stopped.  *)
BatchIsDrained ==
  \A e \in 1 .. MaxEvents :
    [](e \in {proc.todo[i] : i \in DOMAIN proc.todo} =>
         <>(\/ e \in DOMAIN event /\ event[e].status # "PENDING"
            \/ Stopped
            \/ proc.pc = "dead"))

(* "Retry-After and persisted blocks always take precedence. 429 ... stop    *)
(* work" (docs/SCRIPT_MODE.md): a script looks at no product a second time   *)
(* while the merchant is blocked.                                            *)
BlocksStopWork ==
  [][proc.pc = "recheck" /\ proc'.pc = "reasked" /\ Script => now >= row.blocked]_vars
=============================================================================
