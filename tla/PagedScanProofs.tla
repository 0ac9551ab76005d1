---------------------------- MODULE PagedScanProofs ----------------------------
(***************************************************************************)
(* Proofs about PagedScan, for any links between the pages, any answers    *)
(* and any bounds.                                                         *)
(*                                                                         *)
(* A traversal is sound when it holds every page that its visited pages    *)
(* link, and none that the front page does not lead to; with an empty      *)
(* queue it is then all of them.  What a traversal knows of a product is   *)
(* tied to a visited page, so that a product that carries the page that    *)
(* came last was on that page.                                             *)
(***************************************************************************)
EXTENDS PagedScan, TableProofs

(* Reachable and Whole, of any links.                                       *)
Reach(links) ==
  {u \in Url : \A S \in SUBSET Url :
     CATALOG_URL \in S /\ (\A v \in S : links[v] \subseteq S) => u \in S}

Sound(links, queue, visited) ==
  /\ \A i, j \in DOMAIN queue : i # j => queue[i] # queue[j]
  /\ ToSet(queue) \cap visited = {}
  /\ CATALOG_URL \in ToSet(queue) \cup visited
  /\ \A u \in visited : links[u] \subseteq ToSet(queue) \cup visited
  /\ ToSet(queue) \cup visited \subseteq Reach(links)

LEMMA UrlFacts ==
  /\ CATALOG_URL \in Url /\ Url \subseteq Nat
  /\ Sites \subseteq [Url -> SUBSET Url]
<1>1. CATALOG_URL \in Url /\ Url \subseteq Nat
  BY PagedAssumption DEF Url, CATALOG_URL
<1>2. ASSUME NEW links \in Sites PROVE links \in [Url -> SUBSET Url]
  <2>1. links \in [Url -> SUBSET Group] /\ Group \subseteq Url
    BY PagedAssumption DEF Url
  <2> HIDE DEF Url
  <2> QED
    BY <2>1
<1> QED
  BY <1>1, <1>2

LEMMA ReachesOn ==
  ASSUME NEW links \in Sites, NEW u \in Reach(links)
  PROVE  links[u] \subseteq Reach(links)
BY UrlFacts DEF Reach

LEMMA SoundBegun ==
  ASSUME NEW links \in Sites
  PROVE  Sound(links, <<CATALOG_URL>>, {})
<1>1. CATALOG_URL \in Reach(links)
  BY UrlFacts DEF Reach
<1>2. ToSet(<<CATALOG_URL>>) = {CATALOG_URL} /\ DOMAIN <<CATALOG_URL>> = {1}
  BY DEF ToSet
<1> QED
  BY <1>1, <1>2 DEF Sound

(* The head of the queue is taken from it, and put back for the argument.   *)
LEMMA SoundHead ==
  ASSUME NEW links, NEW visited, NEW queue \in Seq(Url), queue # <<>>, Sound(links, queue, visited)
  PROVE  /\ Head(queue) \in Url /\ Tail(queue) \in Seq(Url)
         /\ Sound(links, <<Head(queue)>> \o Tail(queue), visited)
<1>1. Head(queue) \in Url /\ Tail(queue) \in Seq(Url) /\ queue = <<Head(queue)>> \o Tail(queue)
  BY HeadTailProperties
<1> QED
  BY <1>1

(* When nothing is left to ask for, the visited pages are all there are.    *)
LEMMA SoundDone ==
  ASSUME NEW links \in Sites, NEW visited \in SUBSET Url, Sound(links, <<>>, visited)
  PROVE  visited = Reach(links)
<1>1. ToSet(<<>>) = {}
  BY DEF ToSet
<1>2. CATALOG_URL \in visited /\ (\A u \in visited : links[u] \subseteq visited) /\ visited \subseteq Reach(links)
  BY <1>1 DEF Sound
<1> QED
  BY <1>2 DEF Reach

LEMMA ConcatSet ==
  ASSUME NEW S, NEW q \in Seq(S), NEW r \in Seq(S)
  PROVE  /\ q \o r \in Seq(S) /\ ToSet(q \o r) = ToSet(q) \cup ToSet(r)
         /\ DOMAIN (q \o r) = 1 .. Len(q) + Len(r)
         /\ \A i \in 1 .. Len(q) + Len(r) : (q \o r)[i] = IF i <= Len(q) THEN q[i] ELSE r[i - Len(q)]
<1>1. /\ Len(q) \in Nat /\ DOMAIN q = 1 .. Len(q) /\ Len(r) \in Nat /\ DOMAIN r = 1 .. Len(r)
      /\ q \o r \in Seq(S) /\ DOMAIN (q \o r) = 1 .. Len(q) + Len(r)
      /\ \A i \in 1 .. Len(q) + Len(r) : (q \o r)[i] = IF i <= Len(q) THEN q[i] ELSE r[i - Len(q)]
  BY LenProperties, ConcatProperties
<1> DEFINE s == q \o r
<1>2. ASSUME NEW x \in ToSet(s) PROVE x \in ToSet(q) \cup ToSet(r)
  <2>1. PICK i \in DOMAIN s : x = s[i]
    BY <1>2 DEF ToSet
  <2>2. CASE i <= Len(q)
    BY <1>1, <2>1, <2>2 DEF ToSet
  <2>3. CASE ~(i <= Len(q))
    <3>1. i - Len(q) \in 1 .. Len(r) /\ x = r[i - Len(q)]
      BY <1>1, <2>1, <2>3
    <3> QED
      BY <1>1, <3>1 DEF ToSet
  <2> QED
    BY <2>2, <2>3
<1>3. ASSUME NEW x \in ToSet(q) PROVE x \in ToSet(s)
  <2>1. PICK i \in 1 .. Len(q) : x = q[i]
    BY <1>1, <1>3 DEF ToSet
  <2>2. i \in 1 .. Len(q) + Len(r) /\ s[i] = x
    BY <1>1, <2>1
  <2> QED
    BY <1>1, <2>2 DEF ToSet
<1>4. ASSUME NEW x \in ToSet(r) PROVE x \in ToSet(s)
  <2>1. PICK i \in 1 .. Len(r) : x = r[i]
    BY <1>1, <1>4 DEF ToSet
  <2>2. Len(q) + i \in 1 .. Len(q) + Len(r) /\ s[Len(q) + i] = x
    BY <1>1, <2>1
  <2> QED
    BY <1>1, <2>2 DEF ToSet
<1> QED
  BY <1>1, <1>2, <1>3, <1>4

(* A page came: what it links and was not known is queued, in order.        *)
LEMMA SoundTaken ==
  ASSUME NEW links \in Sites, NEW queue \in Seq(Url), NEW visited \in SUBSET Url, NEW page \in Url,
         Sound(links, <<page>> \o queue, visited)
  PROVE  LET more == InOrder(links[page] \ (visited \cup {page} \cup ToSet(queue)))
         IN  queue \o more \in Seq(Url) /\ Sound(links, queue \o more, visited \cup {page})
<1> DEFINE New == links[page] \ (visited \cup {page} \cup ToSet(queue))
           n == Cardinality(New)
           more == InOrder(New)
           all == queue \o more
           seen == visited \cup {page}
<1>1. New \in SUBSET Url /\ New \in SUBSET Nat /\ IsFiniteSet(New)
  <2>1. links[page] \subseteq Group /\ links[page] \subseteq Url /\ Url \subseteq Nat
    BY UrlFacts, PagedAssumption
  <2> QED
    BY <2>1, PagedAssumption, FS_Subset
<1>2. /\ New \cap seen = {} /\ New \cap ToSet(queue) = {}
      /\ links[page] \subseteq New \cup seen \cup ToSet(queue)
      /\ New \subseteq links[page]
  OBVIOUS
<1> HIDE DEF New
<1>3. /\ n \in Nat /\ more \in [1 .. n -> New]
      /\ \A i, j \in 1 .. n : i # j => more[i] # more[j]
      /\ \A u \in New : \E i \in 1 .. n : more[i] = u
  BY <1>1, InOrderLists
<1> HIDE DEF n, more
<1>4. more \in Seq(Url) /\ Len(more) = n /\ DOMAIN more = 1 .. n /\ ToSet(more) = New
  <2>1. more \in Seq(New) /\ Len(more) = n /\ DOMAIN more = 1 .. n
    BY <1>3
  <2>2. ToSet(more) = New
    BY <1>3, <2>1 DEF ToSet
  <2>3. more \in [1 .. n -> Url]
    BY <1>1, <1>3
  <2>4. more \in Seq(Url)
    BY <1>3, <2>3
  <2> QED
    BY <2>1, <2>2, <2>4
<1>5. /\ Len(queue) \in Nat /\ DOMAIN queue = 1 .. Len(queue)
      /\ \A i \in DOMAIN queue : queue[i] \in ToSet(queue)
  BY LenProperties DEF ToSet
<1> DEFINE head == <<page>>
<1>6. head \in Seq(Url) /\ ToSet(head) = {page} /\ Len(head) = 1 /\ head[1] = page
  BY DEF ToSet
<1> HIDE DEF head
<1>7. /\ ToSet(head \o queue) = {page} \cup ToSet(queue)
      /\ DOMAIN (head \o queue) = 1 .. 1 + Len(queue)
      /\ \A i \in 1 .. 1 + Len(queue) : (head \o queue)[i] = IF i <= 1 THEN page ELSE queue[i - 1]
  <2>1. /\ ToSet(head \o queue) = ToSet(head) \cup ToSet(queue)
        /\ DOMAIN (head \o queue) = 1 .. Len(head) + Len(queue)
        /\ \A i \in 1 .. Len(head) + Len(queue) :
             (head \o queue)[i] = IF i <= Len(head) THEN head[i] ELSE queue[i - Len(head)]
    BY <1>6, ConcatSet
  <2> QED
    BY <1>5, <1>6, <2>1
<1>8. /\ all \in Seq(Url) /\ ToSet(all) = ToSet(queue) \cup New
      /\ DOMAIN all = 1 .. Len(queue) + n
      /\ \A i \in 1 .. Len(queue) + n : all[i] = IF i <= Len(queue) THEN queue[i] ELSE more[i - Len(queue)]
  BY <1>4, ConcatSet
<1> DEFINE asked == head \o queue
<1>9. /\ \A i, j \in DOMAIN asked : i # j => asked[i] # asked[j]
      /\ ToSet(asked) \cap visited = {}
      /\ CATALOG_URL \in ToSet(asked) \cup visited
      /\ \A u \in visited : links[u] \subseteq ToSet(asked) \cup visited
      /\ ToSet(asked) \cup visited \subseteq Reach(links)
  BY DEF Sound, head
<1> HIDE DEF asked, all
<1>10. \A i, j \in DOMAIN queue : i # j => queue[i] # queue[j]
  <2> SUFFICES ASSUME NEW i \in DOMAIN queue, NEW j \in DOMAIN queue, i # j
               PROVE  queue[i] # queue[j]
    OBVIOUS
  <2>1. /\ i + 1 \in DOMAIN asked /\ j + 1 \in DOMAIN asked /\ i + 1 # j + 1
        /\ asked[i + 1] = queue[i] /\ asked[j + 1] = queue[j]
    BY <1>5, <1>7 DEF asked
  <2> QED
    BY <1>9, <2>1
<1>11. page \notin ToSet(queue)
  <2> SUFFICES ASSUME NEW i \in DOMAIN queue, queue[i] = page PROVE FALSE
    BY DEF ToSet
  <2>1. /\ i + 1 \in DOMAIN asked /\ 1 \in DOMAIN asked /\ i + 1 # 1
        /\ asked[i + 1] = queue[i] /\ asked[1] = page
    BY <1>5, <1>7 DEF asked
  <2> QED
    BY <1>9, <2>1
<1>12. \A i, j \in DOMAIN all : i # j => all[i] # all[j]
  <2> SUFFICES ASSUME NEW i \in DOMAIN all, NEW j \in DOMAIN all, i # j, all[i] = all[j]
               PROVE  FALSE
    OBVIOUS
  <2>1. ASSUME NEW k \in DOMAIN all
        PROVE  \/ k \in DOMAIN queue /\ all[k] = queue[k] /\ all[k] \in ToSet(queue)
               \/ k - Len(queue) \in 1 .. n /\ all[k] = more[k - Len(queue)] /\ all[k] \in New
    BY <1>3, <1>5, <1>8
  <2>2. i - Len(queue) # j - Len(queue)
    BY <1>5, <1>8
  <2> QED
    BY <1>2, <1>3, <1>10, <2>1, <2>2
<1>13. ToSet(all) \cap seen = {}
  BY <1>2, <1>7, <1>8, <1>9, <1>11 DEF asked
<1>14. CATALOG_URL \in ToSet(all) \cup seen
  BY <1>7, <1>8, <1>9 DEF asked
<1>15. \A u \in seen : links[u] \subseteq ToSet(all) \cup seen
  BY <1>2, <1>7, <1>8, <1>9 DEF asked
<1>16. ToSet(all) \cup seen \subseteq Reach(links)
  <2>1. page \in Reach(links)
    BY <1>7, <1>9 DEF asked
  <2> QED
    BY <1>2, <1>7, <1>8, <1>9, <2>1, ReachesOn DEF asked
<1>17. Sound(links, all, seen)
  BY <1>12, <1>13, <1>14, <1>15, <1>16 DEF Sound
<1> QED
  BY <1>8, <1>17 DEF all, more, New

-----------------------------------------------------------------------------
(* What a process holds, by where it is in its code.                        *)
Known == UNION {[S -> [seen : Observation, page : Url]] : S \in SUBSET Product}
Shown == UNION {[S -> Observation] : S \in SUBSET Product}
Code == {"idle", "wait", "claim", "asked", "report", "failed", "clear", "save", "finish", "ingest"}
Round == [pc : Code, kind : {"script", "monitor"}, page : Url, scratch : Scratch, scan : Shown]

(* A product is known from a page that was visited.                         *)
Placed(s) == \A p \in DOMAIN s.pending : s.pending[p].page \in s.visited
Traversal(links, s) == Sound(links, s.queue, s.visited) /\ Placed(s)

SavedOK ==
  /\ saved \in Scratch \cup {None}
  /\ saved # None => Traversal(site, saved) /\ saved.queue # <<>>

HeldOK ==
  /\ proc \in Round
  /\ proc.pc \in {"wait", "claim", "report", "save"} => Traversal(site, proc.scratch)
  /\ proc.pc \in {"wait", "claim", "save"} => proc.scratch.queue # <<>>
  /\ proc.pc = "asked" => /\ Sound(site, <<proc.page>> \o proc.scratch.queue, proc.scratch.visited)
                          /\ Placed(proc.scratch)
  /\ proc.pc = "finish" => proc.scratch.visited = Reach(site)

(* What carries the page that came last was on it; what a catalogue claims  *)
(* to know was said there.                                                  *)
Fresh(s, page, shown) ==
  \A p \in DOMAIN s.pending :
    s.pending[p].page = page => p \in DOMAIN shown /\ shown[p] = s.pending[p].seen
Said(scan, shown) ==
  \A p \in DOMAIN scan :
    scan[p].stock # "UNKNOWN" => p \in DOMAIN shown /\ shown[p].stock = scan[p].stock

FreshOK ==
  /\ proc.pc \in {"report", "finish"} => Fresh(proc.scratch, proc.page, heard)
  /\ proc.pc = "ingest" => Said(proc.scan, heard)

TicketOK == proc.pc \in {"asked", "report"} => ticket["vmiss"] # NoTicket

PagedInv ==
  /\ StoreInv /\ BudgetInv
  /\ site \in Sites
  /\ SavedOK /\ HeldOK /\ FreshOK /\ TicketOK

LEMMA EmptyFunction == ASSUME NEW X PROVE <<>> \in [{} -> X] /\ DOMAIN <<>> = {}
<1>1. <<>> \in Seq(X) /\ Len(<<>>) = 0 /\ 1 .. 0 = {}
  BY EmptySeq
<1>2. <<>> \in [1 .. 0 -> X]
  BY <1>1, LenProperties
<1> QED
  BY <1>1, <1>2

LEMMA BegunFacts ==
  /\ Begun \in Scratch /\ Begun.queue # <<>>
  /\ Idle \in Round /\ Idle.pc = "idle"
  /\ \A links \in Sites : Traversal(links, Begun)
<1>1. <<>> \in Known /\ <<>> \in Shown /\ DOMAIN <<>> = {}
  BY EmptyFunction DEF Known, Shown
<1>2. Begun \in Scratch
  <2>1. <<CATALOG_URL>> \in Seq(Url) /\ {} \in SUBSET Url
    BY UrlFacts
  <2> QED
    BY <1>1, <2>1 DEF Begun, Scratch, Known
<1>3. Idle \in Round /\ Idle.pc = "idle"
  BY <1>1, <1>2, UrlFacts DEF Idle, Round, Code
<1>4. ASSUME NEW links \in Sites PROVE Traversal(links, Begun)
  BY <1>1, SoundBegun DEF Traversal, Placed, Begun
<1> QED
  BY <1>2, <1>3, <1>4 DEF Begun

(* A round that ends leaves a traversal to the next one, or nothing.        *)
LEMMA RoundEnds ==
  ASSUME PagedInv, site' = site, NEW s \in Scratch, Traversal(site, s), s.queue # <<>>, EndRound(s)
  PROVE  HeldOK' /\ FreshOK' /\ TicketOK'
<1>1. CASE proc' = Idle
  <2>1. proc' \in Round /\ proc'.pc = "idle"
    BY <1>1, BegunFacts
  <2>2. proc' \in Round'
    BY <2>1 DEF Round, Scratch
  <2> QED
    BY <2>1, <2>2 DEF HeldOK, FreshOK, TicketOK
<1>2. CASE proc' = [proc EXCEPT !.pc = "wait", !.scratch = s, !.scan = <<>>]
  <2>1. proc \in Round /\ <<>> \in Shown
    BY EmptyFunction DEF PagedInv, HeldOK, Shown
  <2>2. proc' \in Round /\ proc'.pc = "wait" /\ proc'.scratch = s
    BY <1>2, <2>1 DEF Round, Code
  <2> QED
    BY <2>2 DEF HeldOK, FreshOK, TicketOK
<1> QED
  BY <1>1, <1>2 DEF EndRound

LEMMA BegunAgain ==
  ASSUME PagedInv, site' = site, EndRound(Begun)
  PROVE  HeldOK' /\ FreshOK' /\ TicketOK'
BY BegunFacts, RoundEnds DEF PagedInv

LEMMA NothingHeld ==
  ASSUME proc' \in Round, proc'.pc \in {"idle", "failed", "clear"}
  PROVE  HeldOK' /\ FreshOK' /\ TicketOK'
BY DEF HeldOK, FreshOK, TicketOK

LEMMA Went ==
  ASSUME PagedInv, NEW pc \in Code, Goto(pc)
  PROVE  /\ proc' \in Round /\ proc'.pc = pc /\ proc'.kind = proc.kind
         /\ proc'.page = proc.page /\ proc'.scratch = proc.scratch /\ proc'.scan = proc.scan
BY DEF PagedInv, HeldOK, Goto, Round

-----------------------------------------------------------------------------
(* The steps, as they change what a process holds.                          *)
Holds == HeldOK /\ FreshOK /\ TicketOK

LEMMA StartHolds ==
  ASSUME PagedInv, NEW kind \in {"script", "monitor"}, Start(kind)
  PROVE  Holds'
<1> DEFINE s == IF kind = "script" /\ saved # None THEN saved ELSE Begun
<1>1. s \in Scratch /\ Traversal(site, s) /\ s.queue # <<>>
  BY BegunFacts DEF PagedInv, SavedOK
<1>2. proc' = [Idle EXCEPT !.pc = "claim", !.kind = kind, !.scratch = s] /\ site' = site
  BY DEF Start
<1> HIDE DEF s
<1>3. proc' \in Round /\ proc'.pc = "claim" /\ proc'.scratch = s
  BY <1>1, <1>2, BegunFacts DEF Round, Code
<1> QED
  BY <1>1, <1>2, <1>3 DEF Holds, HeldOK, FreshOK, TicketOK

LEMMA RoundHolds ==
  ASSUME PagedInv, NextRound
  PROVE  Holds'
<1>1. /\ proc.pc = "wait" /\ proc' \in Round /\ proc'.pc = "claim" /\ proc'.scratch = proc.scratch
      /\ site' = site
  BY Went DEF NextRound, Code
<1>2. Traversal(site, proc.scratch) /\ proc.scratch.queue # <<>>
  BY <1>1 DEF PagedInv, HeldOK
<1> QED
  BY <1>1, <1>2 DEF Holds, HeldOK, FreshOK, TicketOK

LEMMA ClaimHolds ==
  ASSUME PagedInv, Claim
  PROVE  Holds'
<1>1. /\ proc.pc = "claim" /\ proc \in Round /\ proc.scratch \in Scratch
      /\ Traversal(site, proc.scratch) /\ proc.scratch.queue # <<>> /\ site' = site
  BY DEF PagedInv, HeldOK, Claim, Round
<1>2. CASE EndRound(proc.scratch)
  BY <1>1, <1>2, RoundEnds DEF Holds
<1>3. ASSUME Admitted("vmiss"), NEW s \in {Begun, proc.scratch}, Asked(s)
      PROVE  Holds'
  <2>1. s \in Scratch /\ Traversal(site, s) /\ s.queue # <<>>
    BY <1>1, BegunFacts DEF PagedInv
  <2>2. s.queue \in Seq(Url)
    BY <2>1 DEF Scratch
  <2>3. /\ Head(s.queue) \in Url /\ Tail(s.queue) \in Seq(Url)
        /\ Sound(site, <<Head(s.queue)>> \o Tail(s.queue), s.visited)
    BY <2>1, <2>2, SoundHead DEF Traversal
  <2> DEFINE t == [s EXCEPT !.queue = Tail(@)]
  <2>4. /\ t \in Scratch /\ t.queue = Tail(s.queue) /\ t.visited = s.visited /\ t.pending = s.pending
    BY <2>1, <2>3 DEF Scratch
  <2>5. proc' = [proc EXCEPT !.pc = "asked", !.page = Head(s.queue), !.scratch = t]
    BY <1>3 DEF Asked
  <2> HIDE DEF t
  <2>6. proc' \in Round /\ proc'.pc = "asked" /\ proc'.page = Head(s.queue) /\ proc'.scratch = t
    BY <1>1, <2>3, <2>4, <2>5 DEF Round, Code
  <2>7. Placed(t)
    BY <2>1, <2>4 DEF Traversal, Placed
  <2>8. HeldOK'
    BY <1>1, <2>3, <2>4, <2>6, <2>7 DEF HeldOK
  <2>9. TicketOK'
    <3>1. ticket \in [Caller -> Ticket] /\ "vmiss" \in Caller /\ issued \in Nat
      BY PagedAssumption DEF PagedInv, BudgetInv, TypeOK
    <3>2. ticket'["vmiss"].nonce = issued + 1
      BY <1>3, <3>1 DEF Admitted
    <3>3. NoTicket.nonce = 0 /\ issued + 1 # 0
      BY <3>1 DEF NoTicket
    <3> QED
      BY <3>2, <3>3 DEF TicketOK
  <2>10. FreshOK'
    BY <2>6 DEF FreshOK
  <2> QED
    BY <2>8, <2>9, <2>10 DEF Holds
<1> QED
  BY <1>2, <1>3 DEF Claim

LEMMA TakenFacts ==
  ASSUME PagedInv, proc.pc = "asked", NEW answer \in Answers
  PROVE  LET t == Taken(proc.scratch, answer)
         IN  /\ t \in Scratch /\ Traversal(site, t)
             /\ Fresh(t, proc.page, answer)
<1> DEFINE s == proc.scratch
           page == proc.page
           t == Taken(s, answer)
           seen == s.visited \cup {page}
           D == DOMAIN s.pending \cup DOMAIN answer
<1>1. /\ proc \in Round /\ s \in Scratch /\ page \in Url /\ site \in Sites
      /\ Sound(site, <<page>> \o s.queue, s.visited) /\ Placed(s)
  BY DEF PagedInv, HeldOK, Round
<1>2. s.queue \in Seq(Url) /\ s.visited \in SUBSET Url /\ s.pending \in Known
  BY <1>1 DEF Scratch, Known
<1>3. answer \in Shown
  BY PagedAssumption DEF Shown
<1>4. Extended(s, seen) \in Seq(Url) /\ Sound(site, Extended(s, seen), seen)
  BY <1>1, <1>2, SoundTaken DEF Extended
<1>5. page \notin s.visited
  <2> DEFINE head == <<page>>
  <2>1. head \in Seq(Url) /\ ToSet(head) = {page}
    BY <1>1 DEF ToSet
  <2>2. ToSet(head \o s.queue) \cap s.visited = {}
    BY <1>1 DEF Sound
  <2> HIDE DEF head
  <2>3. ToSet(head \o s.queue) = ToSet(head) \cup ToSet(s.queue)
    BY <1>2, <2>1, ConcatSet
  <2> QED
    BY <2>1, <2>2, <2>3
<1>6. PICK S \in SUBSET Product : s.pending \in [S -> [seen : Observation, page : Url]]
  BY <1>2 DEF Known
<1>7. PICK A \in SUBSET Product : answer \in [A -> Observation]
  BY <1>3 DEF Shown
<1> DEFINE all == [p \in D |-> IF p \in DOMAIN answer THEN [seen |-> answer[p], page |-> page]
                               ELSE s.pending[p]]
<1>8. t.queue = Extended(s, seen) /\ t.visited = seen /\ t.pending = all
      /\ t = [queue |-> Extended(s, seen), visited |-> seen, pending |-> all]
  BY DEF Taken
<1>9. D = S \cup A
  BY <1>6, <1>7
<1>10. all \in [D -> [seen : Observation, page : Url]] /\ D \in SUBSET Product
  BY <1>1, <1>6, <1>7
<1>11. \A p \in D : all[p] = IF p \in A THEN [seen |-> answer[p], page |-> page] ELSE s.pending[p]
  BY <1>7
<1> HIDE DEF t, all, D
<1>12. ASSUME NEW p \in D, p \in A PROVE all[p].page = page /\ all[p].seen = answer[p]
  <2>1. all[p] = [seen |-> answer[p], page |-> page]
    BY <1>11, <1>12
  <2> QED
    BY <2>1
<1>13. t \in Scratch
  <2>1. all \in Known /\ seen \in SUBSET Url
    BY <1>1, <1>2, <1>10 DEF Known
  <2> QED
    BY <1>4, <1>8, <2>1 DEF Scratch, Known
<1>14. Placed(t)
  <2> SUFFICES ASSUME NEW p \in D PROVE all[p].page \in seen
    BY <1>8, <1>10 DEF Placed
  <2>1. CASE p \in A
    BY <1>12, <2>1
  <2>2. CASE p \notin A
    <3>1. p \in DOMAIN s.pending /\ all[p] = s.pending[p]
      BY <1>6, <1>9, <1>11, <2>2
    <3> QED
      BY <1>1, <3>1 DEF Placed
  <2> QED
    BY <2>1, <2>2
<1>15. Fresh(t, page, answer)
  <2> SUFFICES ASSUME NEW p \in D, all[p].page = page PROVE p \in DOMAIN answer /\ answer[p] = all[p].seen
    BY <1>8, <1>10 DEF Fresh
  <2>1. CASE p \in A
    BY <1>7, <1>12, <2>1
  <2>2. CASE p \notin A
    <3>1. p \in DOMAIN s.pending /\ all[p] = s.pending[p]
      BY <1>6, <1>9, <1>11, <2>2
    <3> QED
      BY <1>1, <1>5, <3>1 DEF Placed
  <2> QED
    BY <2>1, <2>2
<1>16. Traversal(site, t)
  BY <1>4, <1>8, <1>14 DEF Traversal
<1> QED
  BY <1>13, <1>15, <1>16 DEF t

LEMMA PageHolds ==
  ASSUME PagedInv, PageCame
  PROVE  Holds'
<1>1. proc.pc = "asked" /\ proc \in Round /\ site' = site /\ ticket' = ticket /\ ticket["vmiss"] # NoTicket
  BY DEF PageCame, PagedInv, HeldOK, TicketOK, budgetVars, vars
<1>2. PICK answer \in Answers :
        /\ heard' = answer
        /\ \/ proc' = [proc EXCEPT !.pc = "report", !.scratch = Taken(@, answer)]
           \/ proc' = [proc EXCEPT !.pc = "failed"]
  BY DEF PageCame
<1> DEFINE t == Taken(proc.scratch, answer)
<1>3. t \in Scratch /\ Traversal(site, t) /\ Fresh(t, proc.page, answer)
  BY <1>1, TakenFacts
<1>4. CASE proc' = [proc EXCEPT !.pc = "report", !.scratch = t]
  <2> HIDE DEF t
  <2>1. proc' \in Round /\ proc'.pc = "report" /\ proc'.scratch = t /\ proc'.page = proc.page
    BY <1>1, <1>3, <1>4 DEF Round, Code
  <2> QED
    BY <1>1, <1>2, <1>3, <2>1 DEF Holds, HeldOK, FreshOK, TicketOK
<1>5. CASE proc' = [proc EXCEPT !.pc = "failed"]
  <2>1. proc' \in Round /\ proc'.pc = "failed"
    BY <1>1, <1>5 DEF Round, Code
  <2> QED
    BY <2>1, NothingHeld DEF Holds
<1> QED
  BY <1>2, <1>4, <1>5

LEMMA FailureHolds ==
  ASSUME PagedInv, NoPage \/ Fail \/ Clear \/ Dies
  PROVE  Holds'
<1>1. CASE NoPage
  <2>1. proc' \in Round /\ proc'.pc = "failed"
    BY <1>1, Went DEF NoPage, Code
  <2> QED
    BY <2>1, NothingHeld DEF Holds
<1>2. CASE Fail
  <2>1. site' = site /\ proc \in Round
    BY <1>2 DEF Fail, PagedInv, HeldOK
  <2>2. CASE proc' = [proc EXCEPT !.pc = "clear", !.scratch = Begun]
    <3>1. proc' \in Round /\ proc'.pc = "clear"
      BY <2>1, <2>2, BegunFacts DEF Round, Code
    <3> QED
      BY <3>1, NothingHeld DEF Holds
  <2>3. CASE EndRound(Begun)
    BY <2>1, <2>3, BegunAgain DEF Holds
  <2> QED
    BY <1>2, <2>2, <2>3 DEF Fail
<1>3. CASE Clear
  BY <1>3, BegunAgain DEF Clear, Holds
<1>4. CASE Dies
  BY <1>4, BegunFacts, NothingHeld DEF Dies, Holds
<1> QED
  BY <1>1, <1>2, <1>3, <1>4

LEMMA ReportHolds ==
  ASSUME PagedInv, Report
  PROVE  Holds'
<1>1. /\ proc.pc = "report" /\ proc \in Round /\ site' = site /\ heard' = heard /\ site \in Sites
      /\ Traversal(site, proc.scratch) /\ Fresh(proc.scratch, proc.page, heard)
  BY DEF Report, PagedInv, HeldOK, FreshOK
<1>2. CASE EndRound(Begun)
  BY <1>1, <1>2, BegunAgain DEF Holds
<1>3. CASE Goto("save") /\ proc.scratch.queue # <<>>
  <2>1. proc' \in Round /\ proc'.pc = "save" /\ proc'.scratch = proc.scratch
    BY <1>3, Went DEF Code
  <2> QED
    BY <1>1, <1>3, <2>1 DEF Holds, HeldOK, FreshOK, TicketOK
<1>4. CASE Goto("finish") /\ proc.scratch.queue = <<>>
  <2>1. proc' \in Round /\ proc'.pc = "finish" /\ proc'.scratch = proc.scratch /\ proc'.page = proc.page
    BY <1>4, Went DEF Code
  <2>2. proc.scratch.visited = Reach(site)
    <3>1. proc.scratch.visited \in SUBSET Url
      BY <1>1 DEF Round, Scratch
    <3> QED
      BY <1>1, <1>4, <3>1, SoundDone DEF Traversal
  <2> QED
    BY <1>1, <2>1, <2>2 DEF Holds, HeldOK, FreshOK, TicketOK
<1> QED
  BY <1>2, <1>3, <1>4 DEF Report

LEMMA SaveHolds ==
  ASSUME PagedInv, Save
  PROVE  Holds' /\ SavedOK'
<1>1. /\ proc.pc = "save" /\ proc.scratch \in Scratch /\ site' = site
      /\ Traversal(site, proc.scratch) /\ proc.scratch.queue # <<>>
      /\ saved' \in {saved, proc.scratch} /\ EndRound(proc.scratch)
  BY DEF Save, PagedInv, HeldOK, Round
<1>2. Holds'
  BY <1>1, RoundEnds DEF Holds
<1>3. SavedOK'
  <2>1. saved' \in Scratch \cup {None} /\ (saved' # None => Traversal(site, saved') /\ saved'.queue # <<>>)
    BY <1>1 DEF PagedInv, SavedOK
  <2> QED
    BY <1>1, <2>1 DEF SavedOK, Scratch
<1> QED
  BY <1>2, <1>3

LEMMA FinishHolds ==
  ASSUME PagedInv, Finish
  PROVE  Holds'
<1> DEFINE s == proc.scratch
           scan == Catalogue(s)
<1>1. /\ proc.pc = "finish" /\ proc \in Round /\ s \in Scratch /\ heard' = heard
      /\ Fresh(s, proc.page, heard)
      /\ proc' = [proc EXCEPT !.pc = "ingest", !.scratch = Begun, !.scan = scan]
  BY DEF Finish, PagedInv, HeldOK, FreshOK, Round
<1>2. PICK S \in SUBSET Product : s.pending \in [S -> [seen : Observation, page : Url]]
  BY <1>1 DEF Scratch
<1>3. ASSUME NEW p \in S
      PROVE  /\ s.pending[p].seen \in Observation
             /\ scan[p] = IF s.pending[p].page = proc.page THEN s.pending[p].seen
                          ELSE [s.pending[p].seen EXCEPT !.stock = "UNKNOWN"]
  BY <1>2 DEF Catalogue
<1>4. scan \in [S -> Observation]
  <2>1. "UNKNOWN" \in Stock
    BY DEF Stock
  <2>2. \A p \in S : scan[p] \in Observation
    BY <1>3, <2>1 DEF Observation
  <2>3. scan = [p \in S |-> scan[p]]
    BY <1>2 DEF Catalogue
  <2> HIDE DEF scan
  <2> QED
    BY <2>2, <2>3
<1>5. Said(scan, heard)
  <2> SUFFICES ASSUME NEW p \in S, scan[p].stock # "UNKNOWN"
               PROVE  p \in DOMAIN heard /\ heard[p].stock = scan[p].stock
    BY <1>4 DEF Said
  <2>1. s.pending[p].page = proc.page
    BY <1>3 DEF Observation
  <2> QED
    BY <1>1, <1>2, <1>3, <2>1 DEF Fresh
<1> HIDE DEF scan
<1>6. proc' \in Round /\ proc'.pc = "ingest" /\ proc'.scan = scan
  <2>1. scan \in Shown
    BY <1>4 DEF Shown
  <2> QED
    BY <1>1, <2>1, BegunFacts DEF Round, Code
<1> QED
  BY <1>1, <1>5, <1>6 DEF Holds, HeldOK, FreshOK, TicketOK

LEMMA IngestHolds ==
  ASSUME PagedInv, IngestScan
  PROVE  Holds'
<1>1. site' = site
  BY DEF IngestScan
<1>2. CASE EndRound(Begun)
  BY <1>1, <1>2, BegunAgain DEF Holds
<1>3. CASE proc' = Idle
  BY <1>3, BegunFacts, NothingHeld DEF Holds
<1> QED
  BY <1>2, <1>3 DEF IngestScan

-----------------------------------------------------------------------------
(* What a step does to the store and to the budget.                         *)

LEMMA ScanIngested ==
  ASSUME PagedInv, Ingest(proc.scan)
  PROVE  \E S \in SUBSET Product : proc.scan \in [S -> Observation] /\ S # {}
<1>1. proc.scan \in Shown
  BY DEF PagedInv, HeldOK, Round
<1>2. PICK S \in SUBSET Product : proc.scan \in [S -> Observation]
  BY <1>1 DEF Shown
<1>3. S # {}
  <2> SUFFICES ASSUME S = {} PROVE proc.scan = <<>>
    BY <1>2 DEF Ingest
  <2>1. <<>> \in [{} -> Observation]
    BY EmptyFunction
  <2> QED
    BY <1>2, <2>1
<1> QED
  BY <1>2, <1>3

LEMMA PagedStore ==
  ASSUME PagedInv, PagedNext
  PROVE  [StoreNext]_storeVars
<1>1. ASSUME NEW kind \in {"script", "monitor"}, Start(kind) PROVE [StoreNext]_storeVars
  BY <1>1 DEF Start, StoreNext
<1>2. CASE NextRound \/ Claim \/ PageCame \/ NoPage \/ Fail \/ Clear \/ Report \/ Save \/ Finish
            \/ Dies \/ SavedExpires \/ Around
  BY <1>2 DEF NextRound, Claim, PageCame, NoPage, Fail, Clear, Report, Save, Finish, Dies,
    SavedExpires, Around
<1>3. CASE IngestScan
  <2>1. CASE Ingest(proc.scan)
    <3>1. proc.scan \in Scan
      BY <2>1, ScanIngested DEF Scan
    <3> QED
      BY <2>1, <3>1 DEF StoreNext
  <2> QED
    BY <1>3, <2>1 DEF IngestScan
<1> QED
  BY <1>1, <1>2, <1>3 DEF PagedNext

LEMMA PagedBudget ==
  ASSUME PagedInv, PagedNext
  PROVE  [Next]_vars
<1>1. "vmiss" \in Caller /\ Caller = {"vmiss"}
  BY PagedAssumption
<1>2. ASSUME ticket' = [c \in {"vmiss"} |-> NoTicket], UNCHANGED <<row, now, issued, last>>
      PROVE  [Next]_vars
  <2>1. ticket \in [{"vmiss"} -> Ticket]
    BY <1>1 DEF PagedInv, BudgetInv, TypeOK
  <2>2. CASE ticket["vmiss"] = NoTicket
    <3>1. ticket' = ticket
      BY <1>2, <2>1, <2>2
    <3> QED
      BY <1>2, <3>1 DEF vars
  <2>3. CASE ticket["vmiss"] # NoTicket
    <3>1. ticket' = [ticket EXCEPT !["vmiss"] = NoTicket]
      BY <1>2, <2>1
    <3> QED
      BY <1>1, <1>2, <2>3, <3>1 DEF Drop, Next
  <2> QED
    BY <2>2, <2>3
<1>3. ASSUME NEW kind \in {"script", "monitor"}, Start(kind) PROVE [Next]_vars
  BY <1>2, <1>3 DEF Start
<1>4. CASE NextRound
  BY <1>2, <1>4 DEF NextRound
<1>5. CASE Claim
  BY <1>1, <1>5 DEF Claim, Next
<1>6. CASE Fail
  BY <1>1, <1>6 DEF Fail, Next, budgetVars
<1>7. CASE Report
  BY <1>1, <1>7 DEF Report, Next, budgetVars
<1>8. CASE Around
  BY <1>8 DEF Around, Next
<1>9. CASE PageCame \/ NoPage \/ Clear \/ Save \/ Finish \/ IngestScan \/ Dies \/ SavedExpires
  BY <1>9 DEF PageCame, NoPage, Clear, Save, Finish, IngestScan, Dies, SavedExpires, budgetVars
<1> QED
  BY <1>3, <1>4, <1>5, <1>6, <1>7, <1>8, <1>9 DEF PagedNext

-----------------------------------------------------------------------------
LEMMA PagedInvInit == PagedInit => PagedInv
<1> SUFFICES ASSUME PagedInit PROVE PagedInv
  OBVIOUS
<1>1. StoreInv /\ BudgetInv
  BY StoreInvInit, BudgetInvInit DEF PagedInit
<1>2. Holds
  BY BegunFacts DEF PagedInit, Holds, HeldOK, FreshOK, TicketOK
<1> QED
  BY <1>1, <1>2 DEF PagedInit, PagedInv, Holds, SavedOK

LEMMA QuietHolds ==
  ASSUME PagedInv, UNCHANGED <<site, saved, proc, heard>>, ticket' = ticket
  PROVE  Holds' /\ SavedOK'
<1>1. proc' \in Round /\ saved' \in Scratch \cup {None}
  BY DEF PagedInv, HeldOK, SavedOK
<1> QED
  BY <1>1 DEF PagedInv, Holds, HeldOK, FreshOK, TicketOK, SavedOK

LEMMA PagedInvNext == PagedInv /\ [PagedNext]_pagedVars => PagedInv'
<1> SUFFICES ASSUME PagedInv, [PagedNext]_pagedVars PROVE PagedInv'
  OBVIOUS
<1>1. CASE UNCHANGED pagedVars
  <2>1. UNCHANGED storeVars /\ UNCHANGED vars /\ UNCHANGED <<site, saved, proc, heard>> /\ ticket' = ticket
    BY <1>1 DEF pagedVars, budgetVars, vars
  <2> QED
    BY <2>1, QuietHolds, StoreInvNext, BudgetInvNext DEF PagedInv, Holds
<1>2. CASE PagedNext
  <2>1. StoreInv' /\ BudgetInv'
    BY <1>2, PagedStore, PagedBudget, StoreInvNext, BudgetInvNext DEF PagedInv
  <2>2. site' = site
    BY <1>2 DEF PagedNext, Start, NextRound, Claim, PageCame, NoPage, Fail, Clear, Report, Save, Finish,
      IngestScan, Dies, SavedExpires, Around
  <2>3. CASE Save
    BY <2>1, <2>2, <2>3, SaveHolds DEF PagedInv, Holds
  <2>4. CASE Around
    <3>1. UNCHANGED <<site, saved, proc, heard>> /\ ticket' = ticket
      BY <2>4 DEF Around, BrowserBlock, Tick
    <3> QED
      BY <2>1, <2>2, <3>1, QuietHolds DEF PagedInv, Holds
  <2>5. CASE SavedExpires
    <3>1. UNCHANGED <<site, proc, heard>> /\ ticket' = ticket /\ saved' = None
      BY <2>5 DEF SavedExpires, budgetVars, vars
    <3>2. proc' \in Round
      BY <3>1 DEF PagedInv, HeldOK
    <3> QED
      BY <2>1, <2>2, <3>1, <3>2 DEF PagedInv, HeldOK, FreshOK, TicketOK, SavedOK
  <2>6. CASE ~(Save \/ Around \/ SavedExpires)
    <3>1. Holds'
      <4>1. CASE NoPage \/ Fail \/ Clear \/ Dies
        BY <4>1, FailureHolds
      <4>2. CASE \E kind \in {"script", "monitor"} : Start(kind)
        BY <4>2, StartHolds
      <4>3. CASE NextRound \/ Claim \/ PageCame
        BY <4>3, RoundHolds, ClaimHolds, PageHolds
      <4>4. CASE Report \/ Finish \/ IngestScan
        BY <4>4, ReportHolds, FinishHolds, IngestHolds
      <4> QED
        BY <1>2, <2>6, <4>1, <4>2, <4>3, <4>4 DEF PagedNext
    <3>2. saved' \in {saved, None}
      BY <1>2, <2>6 DEF PagedNext, Start, NextRound, Claim, PageCame, NoPage, Fail, Clear, Report, Finish,
        IngestScan, Dies
    <3>3. SavedOK'
      BY <2>2, <3>2 DEF PagedInv, SavedOK
    <3> QED
      BY <2>1, <2>2, <3>1, <3>3 DEF PagedInv, Holds
  <2> QED
    BY <2>3, <2>4, <2>5, <2>6
<1> QED
  BY <1>1, <1>2

LEMMA PagedInvariance == PagedSpec => []PagedInv
BY PagedInvInit, PagedInvNext, PTL DEF PagedSpec

(* However many processes took part in a traversal, and wherever they died, *)
(* were denied or were refused, it misses no page and asks for none twice,  *)
(* and VmissProvider makes a catalogue only of all pages there are.         *)
THEOREM NoPageIsMissed == PagedSpec => []TraversalIsWhole
<1>1. PagedInv => TraversalIsWhole
  BY DEF PagedInv, SavedOK, HeldOK, TraversalIsWhole, Traversal, Sound, Whole, Reachable, Reach
<1> QED
  BY <1>1, PagedInvariance, PTL

(* The stock of a product becomes known only as the page that came last     *)
(* says it: _catalogue keeps no stock of an earlier page.                   *)
THEOREM StockAsSaid == PagedSpec => StockIsWitnessed
<1>1. ASSUME PagedInv, PagedNext, NEW p \in Product,
             product'[p] # None, product'[p].stock # "UNKNOWN",
             product[p] = None \/ product'[p].stock # product[p].stock
      PROVE  p \in DOMAIN heard /\ heard[p].stock = product'[p].stock
  <2>1. CASE Ingest(proc.scan) /\ IngestScan
    <3>1. PICK S \in SUBSET Product : proc.scan \in [S -> Observation]
      BY <1>1, <2>1, ScanIngested
    <3>2. p \in S /\ product'[p].stock = Merged(p, proc.scan[p]).stock
      BY <1>1, <2>1, <3>1, RowsIngested DEF PagedInv
    <3>3. proc.scan[p] \in Observation
      BY <3>1, <3>2
    <3>4. proc.scan[p].stock # "UNKNOWN" /\ product'[p].stock = proc.scan[p].stock
      BY <1>1, <3>2, <3>3, MergedFacts DEF PagedInv
    <3>5. Said(proc.scan, heard)
      BY <1>1, <2>1 DEF PagedInv, FreshOK, IngestScan
    <3> QED
      BY <3>1, <3>2, <3>4, <3>5 DEF Said
  <2>2. CASE ~(Ingest(proc.scan) /\ IngestScan)
    <3>1. product' = product
      BY <1>1, <2>2 DEF PagedNext, Start, NextRound, Claim, PageCame, NoPage, Fail, Clear, Report, Save,
        Finish, IngestScan, Dies, SavedExpires, Around, storeVars, RecoverInterrupted
    <3> QED
      BY <1>1, <3>1
  <2> QED
    BY <2>1, <2>2
<1>2. PagedInv /\ [PagedNext]_pagedVars =>
        [\A p \in Product :
           product'[p] # None /\ product'[p].stock # "UNKNOWN"
             /\ (product[p] = None \/ product'[p].stock # product[p].stock)
           => p \in DOMAIN heard /\ heard[p].stock = product'[p].stock]_pagedVars
  BY <1>1
<1> QED
  BY <1>2, PagedInvariance, PTL DEF PagedSpec, StockIsWitnessed

(* The tables and the process hold what the code puts there.                *)
THEOREM PagedTypeCorrect == PagedSpec => []PagedTypeOK
<1>1. PagedInv => PagedTypeOK
  BY DEF PagedInv, StoreInv, BudgetInv, HeldOK, SavedOK, TicketOK, Round, Code, PagedTypeOK
<1> QED
  BY <1>1, PagedInvariance, PTL

(* A scan uses its two tables as their modules say: every step is one       *)
(* transaction of the store, or of the budget, or leaves them as they are.  *)
THEOREM ScanImplements == PagedSpec => StoreSpec /\ Spec
<1>1. PagedInit => StoreInit /\ Init
  BY DEF PagedInit
<1>2. PagedInv /\ [PagedNext]_pagedVars => [StoreNext]_storeVars /\ [Next]_vars
  BY PagedStore, PagedBudget DEF pagedVars, budgetVars
<1> QED
  BY <1>1, <1>2, PagedInvariance, PTL DEF PagedSpec, StoreSpec, Spec

(* Under a paged scan a change keeps its key: the events of a catalogue     *)
(* that took many requests and processes are never taken for older ones.    *)
THEOREM ScanKeysAreNew == PagedSpec => []EveryChangeHasItsKey
BY ScanImplements, KeysAreNew, PTL

(* Under a paged scan a RESTOCK comes exactly when a product that was last  *)
(* sold out is seen available, though most of its stock is unknown.         *)
THEOREM ScanFindsRestocks == PagedSpec => RestocksAreSeen
BY ScanImplements, RestocksAreFound, PTL

(* Under a paged scan no report brings the end of a block forward, and a    *)
(* request that was never answered is waited out with a cooldown.           *)
THEOREM ScanWaits == PagedSpec => BlockStands /\ SilenceCoolsDown
BY ScanImplements, BlocksStand, SilenceWaits, PTL
=============================================================================
