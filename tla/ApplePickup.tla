----------------------------- MODULE ApplePickup -----------------------------
(***************************************************************************)
(* Apple's pickup inventory (providers/apple.py) and catalogue, from the   *)
(* one question that the budget admits to the rows and events that ingest  *)
(* makes of the answer: scripts, which leave their place in the rotation   *)
(* of the stores on disk; a monitor, which keeps it in memory and reads    *)
(* the catalogue too; apple-catalog-refresh; apple-configure, which also   *)
(* changes the targets; and the rounds of a timed launch (script_cli).     *)
(*                                                                         *)
(* One process at a time has data/autograb.lock; it may die between any    *)
(* two transactions.  Each reads its settings before it has the lock, and  *)
(* so may go on with older ones than those in force; a launch sleeps       *)
(* without the lock, between rounds that all use what it read at its start.*)
(* Delivery, which is always UNKNOWN, is left out, and so are names,       *)
(* prices, groups and the availability over all stores, on which no event  *)
(* of Apple depends; a catalogue is read whole or not at all, on a budget  *)
(* of its own.                                                             *)
(***************************************************************************)
EXTENDS Integers, Sequences, FiniteSets

CONSTANTS
  Sku, Store,         (* stores are numbered in the order of their names   *)
  Scope,              (* the region and category a SKU is sold under       *)
  Configs,            (* which stores are asked for a SKU; none: no target *)
  Catalogues,         (* the SKUs that complete catalogues may show        *)
  None,
  Window,             (* --burst-seconds                                   *)
  Terms, Cooldown, MaxBackoff, Ordinary, RetryAfter, MaxTime, MaxLimits,
  MaxQuirks           (* bound: deaths, lost cursors, commands of the user *)

VARIABLES
  row, ticket, now, issued, last,          (* RateBudget: region, pickup   *)
  targets,            (* config/apple.local.toml                           *)
  served,             (* what it said at any time so far                   *)
  shelf,              (* rows of products, None where there is none        *)
  saved,              (* the cursor in public_scan_state                   *)
  proc,               (* the process under the lock                        *)
  launch,             (* an invocation with --launch-at --pace BURST       *)
  news,               (* the events of the last scan                       *)
  sighted,            (* history: what each store last said of a SKU       *)
  met,                (* history: SKUs observed, scopes read               *)
  passed, lost,       (* history: questions since a store was asked, and   *)
                      (* what may have cost it a turn among them           *)
  quirks

Budget == INSTANCE RateBudget WITH Caller <- {"apple"}

Availability == {"AVAILABLE", "SOLD_OUT", "UNKNOWN"}

(* A row: what each store said of the SKU, and the scope it is sold under,  *)
(* once a catalogue has shown it.                                           *)
Row == [inv : UNION {[S -> Availability] : S \in SUBSET Store},
        scope : {Scope[k] : k \in Sku} \cup {None}]

ASSUME AppleAssumption ==
  /\ Store \subseteq Nat /\ IsFiniteSet(Store)
  /\ DOMAIN Scope = Sku
  /\ Configs \subseteq [Sku -> SUBSET Store]
  /\ \A c \in Configs : \E k \in Sku : c[k] # {}
  /\ Catalogues \subseteq (SUBSET Sku) \ {{}}
  /\ None \notin Row /\ None \notin Nat /\ None \notin {Scope[k] : k \in Sku}
  /\ Window \in Nat \ {0} /\ MaxQuirks \in Nat

budgetVars == <<row, ticket, now, issued, last>>
settings == <<targets, served>>
rotation == <<passed, lost>>
vars == <<budgetVars, settings, shelf, saved, proc, launch, news, sighted, met, rotation, quirks>>

Idle == [kind |-> "script", pc |-> "idle", targets |-> None, cursor |-> 0, store |-> None,
         status |-> None, answer |-> <<>>, shown |-> {}]
NoLaunch == [state |-> "none", targets |-> None, wake |-> 0, deadline |-> 0]
Over == [NoLaunch EXCEPT !.state = "over"]

Init ==
  /\ Budget!Init
  /\ targets \in Configs
  /\ served = {targets}
  /\ shelf = [k \in Sku |-> None]
  /\ saved = None
  /\ proc = Idle
  /\ launch = NoLaunch
  /\ news = {}
  /\ sighted = [k \in Sku |-> <<>>]
  /\ met = [skus |-> {}, scopes |-> {}]
  /\ passed = [s \in Store |-> 0]
  /\ lost = [s \in Store |-> 0]
  /\ quirks = 0

Quirk == quirks < MaxQuirks /\ quirks' = quirks + 1
Script == proc.kind \in {"script", "launch"}

(* _groups: the stores in turn, each with the SKUs asked for there.  In the  *)
(* sorted sequence a store comes after those before it, and nothing else.    *)
Asked(config) == UNION {config[k] : k \in Sku}
Stores(config) ==
  LET A == Asked(config) IN
  [i \in 1 .. Cardinality(A) |-> CHOOSE s \in A : Cardinality({x \in A : x < s}) = i - 1]
Batch(store) == {k \in Sku : store \in proc.targets[k]}

(* A sequence of questions begins: nobody has waited. *)
FreshRotation ==
  /\ passed' = [s \in Store |-> 0]
  /\ lost' = [s \in Store |-> 0]

-----------------------------------------------------------------------------
(* A process takes the lock, with the settings it has read. *)
Takes(kind, config, cursor, shown) ==
  /\ proc.pc = "idle"
  /\ proc' = [Idle EXCEPT !.kind = kind, !.pc = "claim", !.targets = config,
                          !.cursor = cursor, !.shown = shown]
  /\ UNCHANGED <<budgetVars, shelf, saved, news, sighted, met>>

(* A script goes on where the last one left off; the others at the start. *)
SavedCursor == IF saved = None THEN 0 ELSE saved

StartScript ==
  /\ \E config \in served : Takes("script", config, SavedCursor, {})
  /\ UNCHANGED <<settings, launch, rotation, quirks>>

StartMonitor ==
  /\ \E config \in served : Takes("monitor", config, 0, {})
  /\ FreshRotation
  /\ UNCHANGED <<settings, launch, quirks>>

(* apple-configure has read the catalogue when it saves the targets, and it  *)
(* goes on with what it saved.                                               *)
Configure ==
  /\ Quirk
  /\ targets' \in Configs
  /\ served' = served \cup {targets'}
  /\ \E shown \in Catalogues : Takes("configure", targets', 0, shown)
  /\ FreshRotation
  /\ UNCHANGED launch

(* apple-catalog-refresh asks no store. *)
Refresh ==
  /\ Quirk
  /\ proc.pc = "idle"
  /\ \E shown \in Catalogues :
       proc' = [Idle EXCEPT !.kind = "refresh", !.pc = "ingest", !.targets = targets, !.shown = shown]
  /\ UNCHANGED <<budgetVars, settings, shelf, saved, launch, news, sighted, met, rotation>>

-----------------------------------------------------------------------------
(* poll: the question. *)

(* The cursor moves on before anything is known of the answer. *)
Claim ==
  /\ proc.pc = "claim"
  /\ \/ /\ Budget!Admitted("apple")
        /\ proc' = [proc EXCEPT !.pc = "asking", !.cursor = @ + 1,
            !.store = Stores(proc.targets)[1 + (proc.cursor % Len(Stores(proc.targets)))]]
     \/ /\ Budget!Denied("apple") \/ Budget!Interrupted("apple")
        /\ proc' = [proc EXCEPT !.pc = "polled", !.status = "RATE_LIMIT_WAIT"]
  /\ UNCHANGED <<settings, shelf, saved, launch, news, sighted, met, rotation, quirks>>

Heard(status, answer) ==
  /\ proc' = [proc EXCEPT !.pc = "answered", !.status = status, !.answer = answer]
  /\ UNCHANGED <<budgetVars, settings, shelf, saved, launch, news, sighted, met, quirks>>

(* The stores of other settings are asked with the same cursor. *)
Foreign == Asked(proc.targets) # Asked(targets)

(* What the store says of its SKUs, or a limit (401, 403, 429, 541), or no  *)
(* answer that could be understood.                                         *)
Hears ==
  /\ proc.pc = "asking"
  /\ proc.kind = "launch" => now < launch.deadline
  /\ passed' = [s \in Store |-> IF s = proc.store THEN 0 ELSE passed[s] + 1]
  /\ lost' = [s \in Store |-> IF s = proc.store THEN 0 ELSE IF Foreign THEN lost[s] + 1 ELSE lost[s]]
  /\ \/ \E answer \in [Batch(proc.store) -> Availability] :
          /\ \E k \in Batch(proc.store) : answer[k] # "UNKNOWN"
          /\ Heard("OBSERVED", answer)
     \/ row.limits < MaxLimits /\ Heard("HTTP_BLOCKED", <<>>)
     \/ Heard("NETWORK_ERROR", <<>>)

(* request_started: the window is over.  poll takes it for a network error, *)
(* nobody is asked, and the store has lost its turn.                        *)
WindowEnded ==
  /\ proc.pc = "asking"
  /\ proc.kind = "launch" /\ now >= launch.deadline
  /\ lost' = [s \in Store |-> IF Foreign \/ s = proc.store THEN lost[s] + 1 ELSE lost[s]]
  /\ UNCHANGED passed
  /\ Heard("NETWORK_ERROR", <<>>)

(* The budget hears of it; an answer after the lease is no observation. *)
Report ==
  /\ proc.pc = "answered"
  /\ IF Budget!Live("apple")
     THEN /\ IF proc.status = "OBSERVED" THEN Budget!Success("apple")
             ELSE \E retry \in RetryAfter : Budget!Failure("apple", proc.status = "HTTP_BLOCKED", retry)
          /\ proc' = [proc EXCEPT !.pc = "polled"]
     ELSE /\ proc' = [proc EXCEPT !.pc = "polled", !.status = "RATE_PROBE_EXPIRED", !.answer = <<>>]
          /\ UNCHANGED budgetVars
  /\ UNCHANGED <<settings, shelf, saved, launch, news, sighted, met, rotation, quirks>>

-----------------------------------------------------------------------------
(* The end of a round: the ticket is gone, and a launch thinks of the next. *)

Wait == Budget!Larger(0, Budget!Larger(row.blocked, Budget!Larger(row.next, row.until)) - now)

(* Mutant of Sleep: the window is not looked at. *)
SleepOn(target) == launch' = [launch EXCEPT !.wake = target]

(* The next round of a launch, unless it would begin behind the window. *)
Sleep(target) ==
  launch' = IF target >= launch.deadline THEN Over
            ELSE [launch EXCEPT !.wake = target]

(* A block ends the window; less than a unit of time counts as none. *)
EndLaunchRound(blocked) ==
  IF blocked THEN launch' = Over ELSE Sleep(now + Wait)

EndRound(blocked) ==
  /\ ticket' = [c \in {"apple"} |-> Budget!NoTicket]
  /\ IF proc.kind = "launch" THEN EndLaunchRound(blocked) ELSE UNCHANGED launch

(* Mutant of SaveCursor: only an observation keeps the cursor. *)
SaveCursorObserved ==
  /\ proc.pc = "polled"
  /\ Script
  /\ IF proc.status = "OBSERVED"
     THEN proc' = [proc EXCEPT !.pc = "ingest"] /\ saved' = proc.cursor /\ UNCHANGED <<ticket, launch>>
     ELSE proc' = Idle /\ UNCHANGED saved /\ EndRound(proc.status # "RATE_LIMIT_WAIT")
  /\ UNCHANGED <<row, now, issued, last, settings, shelf, news, sighted, met, rotation, quirks>>

(* A script's cursor is kept whatever came of the question; only what was   *)
(* observed goes on to the store.                                           *)
SaveCursor ==
  /\ proc.pc = "polled"
  /\ Script
  /\ saved' = proc.cursor
  /\ IF proc.status = "OBSERVED"
     THEN proc' = [proc EXCEPT !.pc = "ingest"] /\ UNCHANGED <<ticket, launch>>
     ELSE proc' = Idle /\ EndRound(proc.status # "RATE_LIMIT_WAIT")
  /\ UNCHANGED <<row, now, issued, last, settings, shelf, news, sighted, met, rotation, quirks>>

(* The others ingest whatever was polled; a monitor may first be due to read *)
(* the catalogue, and may fail to.                                          *)
GoOn ==
  /\ proc.pc = "polled"
  /\ ~Script
  /\ \E shown \in IF proc.kind = "monitor" THEN Catalogues \cup {{}} ELSE {proc.shown} :
       proc' = [proc EXCEPT !.pc = "ingest", !.status = None, !.shown = shown]
  /\ UNCHANGED <<budgetVars, settings, shelf, saved, launch, news, sighted, met, rotation, quirks>>

-----------------------------------------------------------------------------
(* merge_observations, ingest and classify_event: what becomes of a scan.   *)

Polling == proc.kind # "refresh"
Polled(k) == Polling /\ proc.targets[k] # {}
Scanned == proc.shown \cup {k \in Sku : Polled(k)}

(* What the poll knows of a SKU in a store: only what was said just now. *)
Told(k, store) ==
  IF store = proc.store /\ k \in DOMAIN proc.answer THEN proc.answer[k] ELSE "UNKNOWN"

(* Mutant of Kept: what was not said is no longer known. *)
Forgotten(old, told) == told

(* A store that said nothing of a SKU says what it said before. *)
Kept(old, told) == IF told = "UNKNOWN" THEN old ELSE told

(* Stores that are no longer asked for a SKU leave its row. *)
Inventory(k) ==
  LET old == IF shelf[k] = None THEN <<>> ELSE shelf[k].inv IN
  IF ~Polled(k) THEN old
  ELSE [store \in proc.targets[k] |->
          IF store \in DOMAIN old THEN Kept(old[store], Told(k, store)) ELSE Told(k, store)]

(* Mutant of MergedScope: a poll alone takes a SKU out of the catalogue. *)
ScopeShown(k) == IF k \in proc.shown THEN Scope[k] ELSE None

(* A SKU that a catalogue showed stays a SKU of the catalogue. *)
MergedScope(k) ==
  IF k \in proc.shown THEN Scope[k] ELSE IF shelf[k] = None THEN None ELSE shelf[k].scope

KnownRows == {k \in Sku : shelf[k] # None}
KnownScopes == {shelf[k].scope : k \in KnownRows} \ {None}

(* catalog_new_sku; the first catalogue of a scope is silent, and so is a   *)
(* SKU that was only configured.                                            *)
NewSku(k) == k \in proc.shown \ KnownRows /\ Scope[k] \in KnownScopes
Silent(k) == k \notin KnownRows /\ ~NewSku(k)

BackInStock(k) ==
  /\ k \in KnownRows /\ Polled(k)
  /\ \E store \in proc.targets[k] \cap DOMAIN shelf[k].inv :
       Told(k, store) = "AVAILABLE" /\ shelf[k].inv[store] = "SOLD_OUT"

Opportunities(k) ==
  {o \in {"NEW_SKU", "PICKUP_AVAILABLE"} :
     IF o = "NEW_SKU" THEN k \notin KnownRows /\ ~Silent(k) ELSE BackInStock(k)}

EventType(k) ==
  CASE k \notin KnownRows -> "NEW_PRODUCT"
    [] BackInStock(k) -> "RESTOCK"
    [] k \in KnownRows /\ ~BackInStock(k) -> "PRODUCT_CHANGED"

(* Once there is a baseline, an event for each SKU that is new or changed. *)
Eventful(k) ==
  /\ KnownRows # {}
  /\ k \in KnownRows => Inventory(k) # shelf[k].inv \/ MergedScope(k) # shelf[k].scope

NewEvent(k) ==
  [sku |-> k, type |-> EventType(k), opportunities |-> Opportunities(k)]

NewRow(k) == [inv |-> Inventory(k), scope |-> MergedScope(k)]

(* History, from the answers alone. *)
Definite(k, store) == Told(k, store) # "UNKNOWN"
Sighted(k) ==
  IF ~Polled(k) THEN sighted[k]
  ELSE [store \in {x \in proc.targets[k] : x \in DOMAIN sighted[k] \/ Definite(k, x)} |->
          IF Definite(k, store) THEN Told(k, store) ELSE sighted[k][store]]

Ingest ==
  /\ proc.pc = "ingest"
  /\ proc' = [Idle EXCEPT !.kind = proc.kind, !.pc = "events", !.targets = proc.targets,
                          !.cursor = proc.cursor]
  /\ shelf' = [k \in Sku |-> IF k \in Scanned THEN NewRow(k) ELSE shelf[k]]
  /\ news' = {NewEvent(k) : k \in {x \in Scanned : Eventful(x)}}
  /\ sighted' = [k \in Sku |-> Sighted(k)]
  /\ met' = [skus |-> met.skus \cup Scanned, scopes |-> met.scopes \cup {Scope[k] : k \in proc.shown}]
  /\ UNCHANGED <<budgetVars, settings, saved, launch, rotation, quirks>>

(* The events are worked on (process_opportunity, which is in Watch); then  *)
(* a monitor goes on to its next round, or ends.  Who keeps the cursor only *)
(* in memory leaves no place in the rotation.                               *)
WorksOnEvents ==
  /\ proc.pc = "events"
  /\ news' = {}
  /\ EndRound(FALSE)
  /\ \/ /\ proc' = Idle
        /\ IF proc.kind \in {"monitor", "configure"} THEN FreshRotation ELSE UNCHANGED rotation
     \/ /\ proc.kind = "monitor"
        /\ proc' = [Idle EXCEPT !.kind = "monitor", !.pc = "claim", !.targets = proc.targets,
                                !.cursor = proc.cursor]
        /\ UNCHANGED rotation
  /\ UNCHANGED <<row, now, issued, last, settings, shelf, saved, sighted, met, quirks>>

-----------------------------------------------------------------------------
(* A timed launch: its rounds are scripts with the settings of its start. *)

(* It may be late by up to a minute. *)
LaunchBegins ==
  /\ launch.state = "none"
  /\ \E start \in {now - 1, now} \cap Nat :
       /\ start + Window > now
       /\ start + Window <= MaxTime
       /\ launch' = [state |-> "asleep", targets |-> targets, wake |-> start,
                     deadline |-> start + Window]
  /\ UNCHANGED <<budgetVars, settings, shelf, saved, proc, news, sighted, met, rotation, quirks>>

LaunchRound ==
  /\ launch.state = "asleep" /\ launch.wake <= now
  /\ IF proc.pc = "idle"
     THEN /\ Takes("launch", launch.targets, SavedCursor, {})
          /\ UNCHANGED <<settings, launch, rotation, quirks>>
     ELSE /\ proc.kind # "launch"                 \* ALREADY_RUNNING
          /\ Sleep(now + 1)
          /\ UNCHANGED <<budgetVars, settings, shelf, saved, proc, news, sighted, met, rotation, quirks>>

-----------------------------------------------------------------------------
(* The process dies, or finds the stop file before it has saved anything.   *)
Dies ==
  /\ Quirk
  /\ proc.pc \notin {"idle", "claim"}
  /\ proc' = Idle
  /\ launch' = IF proc.kind = "launch" THEN Over ELSE launch
  /\ ticket' = [c \in {"apple"} |-> Budget!NoTicket]
  /\ news' = {}
  /\ FreshRotation
  /\ UNCHANGED <<row, now, issued, last, settings, shelf, saved, sighted, met>>

(* A cursor is no longer read after a day. *)
CursorExpires ==
  /\ Quirk
  /\ saved # None
  /\ saved' = None
  /\ FreshRotation
  /\ UNCHANGED <<budgetVars, settings, shelf, proc, launch, news, sighted, met>>

Tick ==
  /\ Budget!Tick
  /\ UNCHANGED <<settings, shelf, saved, proc, launch, news, sighted, met, rotation, quirks>>

Work == Claim \/ Hears \/ WindowEnded \/ Report \/ SaveCursor \/ GoOn \/ Ingest \/ WorksOnEvents

Next ==
  \/ StartScript \/ StartMonitor \/ Configure \/ Refresh
  \/ Work
  \/ LaunchBegins \/ LaunchRound
  \/ Dies \/ CursorExpires \/ Tick

(* The launch is one process, which goes on and wakes up, and time passes. *)
Spec ==
  /\ Init /\ [][Next]_vars
  /\ WF_vars(Tick) /\ WF_vars(LaunchRound \/ (proc.kind = "launch" /\ Work))

-----------------------------------------------------------------------------
Announced(k, opportunity) ==
  news' # news /\ \E e \in news' : e.sku = k /\ opportunity \in e.opportunities

(* "Known sold-out -> fresh available store inventory produces a RESTOCK    *)
(* event with PICKUP_AVAILABLE details" (README.md): exactly when a store   *)
(* is heard to have a SKU that it was last heard, however many questions,   *)
(* processes, refusals and catalogues ago, not to have.  An answer that     *)
(* came too late was not heard; a store that a scan leaves out starts anew, *)
(* be it dropped from the settings or unknown to a process that goes on     *)
(* with older ones.                                                         *)
RestocksAreHeard ==
  [][\A k \in Sku :
       Announced(k, "PICKUP_AVAILABLE") <=>
         \E store \in DOMAIN sighted[k] \cap DOMAIN sighted'[k] :
           sighted[k][store] = "SOLD_OUT" /\ sighted'[k][store] = "AVAILABLE"]_vars

(* A SKU is announced as new once, and exactly when a catalogue shows it    *)
(* that was read before, and neither a catalogue nor a poll knew it.        *)
NewSkusAreAnnounced ==
  [][\A k \in Sku :
       Announced(k, "NEW_SKU") <=>
         k \in met'.skus \ met.skus /\ k \in proc.shown /\ Scope[k] \in met.scopes]_vars

(* "store rotation persists" (SCRIPT_MODE.md): whatever the answers, no     *)
(* store of the settings waits for more questions than there are stores,    *)
(* over all scripts and launches whose cursor was neither lost nor expired; *)
(* for as many more at most as often as it may have lost its turn, to a     *)
(* window that was over, or to a question from other settings.              *)
StoresTakeTurns ==
  LET n == Cardinality(Asked(targets)) IN
  \A s \in Asked(targets) : passed[s] < n * (1 + lost[s])

(* A launch is over by itself, whoever holds the lock, and however long the *)
(* waits are that the budget asks for (execute, script_cli.py).             *)
LaunchEnds == launch.state = "asleep" ~> launch.state = "over"
=============================================================================
