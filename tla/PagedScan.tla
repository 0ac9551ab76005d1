----------------------------- MODULE PagedScan -----------------------------
(***************************************************************************)
(* The catalogue of VMISS (providers/vmiss.py), which is read one page per *)
(* slot of the request budget: the traversal that a script leaves on disk  *)
(* for the next one (ScanState), that a monitor keeps in memory, and that  *)
(* becomes one scan of the store when its last page came.  It is composed  *)
(* of the store (EventStore) and the budget (RateBudget).                  *)
(*                                                                         *)
(* One process at a time under data/autograb.lock; it may die between any  *)
(* two transactions.  Every round of a script makes its provider anew, so  *)
(* that a launch window is a row of starts.  A page is what was recognised *)
(* on it: the groups it links and an observation of each of its products.  *)
(* The groups of the merchant do not change during a behaviour; what their *)
(* pages show does.  What becomes of the events is in Watch.               *)
(***************************************************************************)
EXTENDS EventStore, RateBudget, SequencesExt

CONSTANTS
  Group,              (* pages below the front page, numbered in URL order *)
  Sites,              (* the link structures the merchant may have         *)
  Answers,            (* what a page may show of its products              *)
  MaxGroups           (* MAX_GROUPS: pages of one traversal                *)

CATALOG_URL == 0
Url == Group \cup {CATALOG_URL}

ASSUME PagedAssumption ==
  /\ Caller = {"vmiss"}
  /\ Group \subseteq Nat \ {CATALOG_URL} /\ IsFiniteSet(Group)
  /\ Sites \subseteq [Url -> SUBSET Group]
  /\ Answers \subseteq UNION {[S -> Observation] : S \in SUBSET Product}
  /\ MaxGroups \in Nat

VARIABLES
  site,               (* the groups that each page links                   *)
  saved,              (* the row of public_scan_state, None without one    *)
  proc,               (* the process under the lock                        *)
  heard               (* history: the products of the page that came last  *)

budgetVars == vars
pagedVars == <<storeVars, budgetVars, site, saved, proc, heard>>

(* What a traversal knows: the pages to ask for, those it has, and the      *)
(* products with the page each was seen on.                                 *)
Begun == [queue |-> <<CATALOG_URL>>, visited |-> {}, pending |-> <<>>]
Idle == [pc |-> "idle", kind |-> "script", page |-> CATALOG_URL, scratch |-> Begun, scan |-> <<>>]
Script == proc.kind = "script"

PagedInit ==
  /\ StoreInit
  /\ Init
  /\ site \in Sites
  /\ saved = None
  /\ proc = Idle
  /\ heard = <<>>

Goto(pc) == proc' = [proc EXCEPT !.pc = pc]

(* A script ends with its round.  A monitor goes on to its next round, with  *)
(* the traversal it has, or ends: stopped, or giving the merchant up.        *)
EndRound(scratch) ==
  \/ proc' = Idle
  \/ ~Script /\ proc' = [proc EXCEPT !.pc = "wait", !.scratch = scratch, !.scan = <<>>]

-----------------------------------------------------------------------------
(* The next round of a monitor, with a ticket of its own. *)
NextRound ==
  /\ proc.pc = "wait"
  /\ Goto("claim")
  /\ ticket' = [c \in {"vmiss"} |-> NoTicket]
  /\ UNCHANGED <<storeVars, row, now, issued, last, site, saved, heard>>

(* A script's provider begins where the last one stopped. *)
Start(kind) ==
  /\ proc.pc = "idle"
  /\ proc' = [Idle EXCEPT !.pc = "claim", !.kind = kind,
                          !.scratch = IF kind = "script" /\ saved # None THEN saved ELSE Begun]
  /\ ticket' = [c \in {"vmiss"} |-> NoTicket]
  /\ IF kind = "monitor" THEN RecoverInterrupted ELSE UNCHANGED storeVars
  /\ UNCHANGED <<row, now, issued, last, site, saved, heard>>

(* The head of the queue is taken; a probe after a block begins anew. *)
Asked(scratch) ==
  proc' = [proc EXCEPT !.pc = "asked", !.page = Head(scratch.queue),
                       !.scratch = [scratch EXCEPT !.queue = Tail(@)]]

Claim ==
  /\ proc.pc = "claim"
  /\ \/ /\ Admitted("vmiss")
        /\ Asked(IF row.blocked # 0 THEN Begun ELSE proc.scratch)
     \/ /\ Denied("vmiss") \/ Interrupted("vmiss")
        /\ EndRound(proc.scratch)
  /\ UNCHANGED <<storeVars, site, saved, heard>>

(* Mutant of Extended: a group that two pages link is queued twice. *)
ExtendedTwice(scratch, visited) ==
  scratch.queue \o InOrder(site[proc.page] \ visited)

(* The queue after a page: the groups that are neither visited nor queued. *)
Extended(scratch, visited) ==
  scratch.queue \o InOrder(site[proc.page] \ (visited \cup ToSet(scratch.queue)))

Taken(scratch, answer) ==
  LET visited == scratch.visited \cup {proc.page} IN
  [queue |-> Extended(scratch, visited),
   visited |-> visited,
   pending |-> [p \in DOMAIN scratch.pending \cup DOMAIN answer |->
                  IF p \in DOMAIN answer THEN [seen |-> answer[p], page |-> proc.page]
                  ELSE scratch.pending[p]]]

(* A page without a group and without a product is not the merchant's. *)
Recognised(answer) == site[proc.page] # {} \/ DOMAIN answer # {}

(* A product looks the same on all pages; there are pages and products. *)
Acceptable(scratch, answer) ==
  /\ \A p \in DOMAIN scratch.pending \cap DOMAIN answer : scratch.pending[p].seen = answer[p]
  /\ LET taken == Taken(scratch, answer) IN
     /\ Cardinality(taken.visited) + Len(taken.queue) <= MaxGroups
     /\ taken.queue # <<>> \/ DOMAIN taken.pending # {}

PageCame ==
  /\ proc.pc = "asked"
  /\ \E answer \in Answers :
       /\ heard' = answer
       /\ proc' = IF Recognised(answer) /\ Acceptable(proc.scratch, answer)
                  THEN [proc EXCEPT !.pc = "report", !.scratch = Taken(@, answer)]
                  ELSE [proc EXCEPT !.pc = "failed"]
  /\ UNCHANGED <<storeVars, budgetVars, site, saved>>

(* No page came, or it was not asked for: refused, failed, window over. *)
NoPage ==
  /\ proc.pc = "asked"
  /\ Goto("failed")
  /\ UNCHANGED <<storeVars, budgetVars, site, saved, heard>>

(* The budget hears of it, unless the ticket expired; then all is dropped. *)
Fail ==
  /\ proc.pc = "failed"
  /\ \E limited \in BOOLEAN, retry \in RetryAfter :
       IF Live("vmiss") THEN Failure("vmiss", limited, retry) ELSE UNCHANGED budgetVars
  /\ IF Script THEN proc' = [proc EXCEPT !.pc = "clear", !.scratch = Begun] ELSE EndRound(Begun)
  /\ UNCHANGED <<storeVars, site, saved, heard>>

Clear ==
  /\ proc.pc = "clear"
  /\ saved' = None
  /\ EndRound(Begun)
  /\ UNCHANGED <<storeVars, budgetVars, site, heard>>

(* A page that came too late (RATE_PROBE_EXPIRED) is dropped with the scan;  *)
(* what is on disk stays there.                                              *)
Report ==
  /\ proc.pc = "report"
  /\ IF Live("vmiss")
     THEN /\ Success("vmiss")
          /\ Goto(IF proc.scratch.queue # <<>> THEN "save" ELSE "finish")
     ELSE EndRound(Begun) /\ UNCHANGED budgetVars
  /\ UNCHANGED <<storeVars, site, saved, heard>>

(* CATALOG_INCOMPLETE *)
Save ==
  /\ proc.pc = "save"
  /\ saved' = IF Script THEN proc.scratch ELSE saved
  /\ EndRound(proc.scratch)
  /\ UNCHANGED <<storeVars, budgetVars, site, heard>>

(* Mutant of Catalogue: stock is believed on whichever page it was seen. *)
CatalogueOfAll(scratch) == [p \in DOMAIN scratch.pending |-> scratch.pending[p].seen]

(* Stock is believed only of the page that came just now. *)
Catalogue(scratch) == [p \in DOMAIN scratch.pending |->
  IF scratch.pending[p].page = proc.page THEN scratch.pending[p].seen
  ELSE [scratch.pending[p].seen EXCEPT !.stock = "UNKNOWN"]]

Finish ==
  /\ proc.pc = "finish"
  /\ proc' = [proc EXCEPT !.pc = "ingest", !.scratch = Begun, !.scan = Catalogue(proc.scratch)]
  /\ saved' = IF Script THEN None ELSE saved
  /\ UNCHANGED <<storeVars, budgetVars, site, heard>>

(* A stop signal that is seen by now wastes the catalogue. *)
IngestScan ==
  /\ proc.pc = "ingest"
  /\ \/ Ingest(proc.scan) /\ EndRound(Begun)
     \/ UNCHANGED storeVars /\ proc' = Idle
  /\ UNCHANGED <<budgetVars, site, saved, heard>>

-----------------------------------------------------------------------------
Dies ==
  /\ proc.pc # "idle"
  /\ proc' = Idle
  /\ UNCHANGED <<storeVars, budgetVars, site, saved, heard>>

(* A saved traversal is no longer read after a day. *)
SavedExpires ==
  /\ saved # None
  /\ saved' = None
  /\ UNCHANGED <<storeVars, budgetVars, site, proc, heard>>

(* The browser met a limit at the merchant; the wall clock goes on. *)
Around ==
  /\ BrowserBlock \/ Tick
  /\ UNCHANGED <<storeVars, site, saved, proc, heard>>

PagedNext ==
  \/ \E kind \in {"script", "monitor"} : Start(kind)
  \/ NextRound \/ Claim \/ PageCame \/ NoPage \/ Fail \/ Clear \/ Report \/ Save \/ Finish \/ IngestScan
  \/ Dies \/ SavedExpires \/ Around

PagedSpec == PagedInit /\ [][PagedNext]_pagedVars

-----------------------------------------------------------------------------
Scratch == [queue : Seq(Url), visited : SUBSET Url,
            pending : UNION {[S -> [seen : Observation, page : Url]] : S \in SUBSET Product}]

(* The tables and the process hold what the code puts there. *)
PagedTypeOK ==
  /\ StoreTypeOK /\ TypeOK
  /\ proc.pc \in {"idle", "wait", "claim", "asked", "report", "failed", "clear", "save", "finish", "ingest"}
  /\ proc.page \in Url
  /\ proc.scratch \in Scratch
  /\ saved \in Scratch \cup {None}
  /\ proc.pc \in {"asked", "report"} => ticket["vmiss"] # NoTicket

Reachable ==
  {u \in Url : \A S \in SUBSET Url :
     CATALOG_URL \in S /\ (\A v \in S : site[v] \subseteq S) => u \in S}

(* Nothing linked was lost, and nothing is or was asked for twice. *)
Whole(queue, visited) ==
  /\ \A i, j \in DOMAIN queue : i # j => queue[i] # queue[j]
  /\ ToSet(queue) \cap visited = {}
  /\ CATALOG_URL \in ToSet(queue) \cup visited
  /\ \A u \in visited : site[u] \subseteq ToSet(queue) \cup visited

(* However many processes took part, and wherever they died or were refused, *)
(* a traversal misses no page and asks for none twice, and a catalogue is    *)
(* made only of every page that the front page leads to.                     *)
TraversalIsWhole ==
  /\ saved # None => Whole(saved.queue, saved.visited)
  /\ proc.pc \in {"wait", "claim", "report", "save"} => Whole(proc.scratch.queue, proc.scratch.visited)
  /\ proc.pc = "asked" => Whole(<<proc.page>> \o proc.scratch.queue, proc.scratch.visited)
  /\ proc.pc = "finish" => proc.scratch.visited = Reachable

(* The stock of a product becomes known only as the merchant just said it:   *)
(* what earlier pages of the traversal showed, hours ago or in a process     *)
(* that is gone, neither makes a restock nor ends one.                       *)
StockIsWitnessed ==
  [][\A p \in Product :
       product'[p] # None /\ product'[p].stock # "UNKNOWN"
         /\ (product[p] = None \/ product'[p].stock # product[p].stock)
       => p \in DOMAIN heard /\ heard[p].stock = product'[p].stock]_pagedVars
=============================================================================
