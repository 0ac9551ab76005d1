# AutoGrab: models, checks and proofs

AutoGrab watches the stock of five merchants (BandwagonHost, DMIT, VMISS, V.PS,
Apple) and can carry one purchase from a restock to an unpaid invoice through an
extension of the user's own Edge browser.  It never pays.  What must not go
wrong is spread over several processes that share one SQLite file and over a
browser that may be closed at any moment: an order sent twice, a product added
twice to a cart, a page acted on after the user stopped the run, a request sent
to a merchant that asked for silence, a restock that nobody hears of.

This directory holds TLA+ models of that behaviour, the TLC runs that check
them, and TLAPS proofs of what the ledger, one order, the tables, the scan, the
watcher, the broker, the cart flow and the armed worker promise.

    tlc -workers 2 -config CartFlowRun.cfg CartFlow     # one run
    tlapm IntentLedgerProofs.tla                        # the proofs

`PROJECT.json` lists the components, the runs, the source lines of every
definition, the hazards, the mutants and the theorems.

## The system

| Part | Source | State it keeps | Operations |
|---|---|---|---|
| Intent ledger | `storage/intents.py` | `purchase_intents`: state, cart, order, invoice, payment URL, nonce, precheck, evidence | create, set cart, mark ready, precheck, begin submission, record results, reconcile, cancel, recover |
| Order submission | `order_cli.py`, `core/purchase.py`, `providers/edge_order.py`, `order-flow.js`, `order-adapter.js` | one armed permit, one command at a time, the worker's order journal | precheck, smoke (submit once), reconcile, notify |
| Edge broker | `edge/broker.py` | the edge columns of an intent, `edge_commands`, `edge_transport_state` | enqueue, dispatch, halt, disconnect, handle an event, release a read-only intent |
| Native host | `edge/native_host.py` | one process per connection, heartbeat, signal stamps | forwards commands and events, ends at any refused event |
| Extension controller | `service-worker.js` | active intent, checkpoint, mutation journal, rebuild count (in `storage.local`); revision, port, pump (in memory) | handle a command, pump the page, pause, resume, rebuild a cart |
| Page adapters | `content.js`, `providers/*/adapter.js` | tickets seen, actions dispatched, per document | recognise a page, verify it, act on it once |
| Request budget | `core/rate_budget.py` | one row per provider, region and endpoint | claim a slot, report an outcome, record a browser block |
| Event store | `storage/database.py`, `core/opportunity.py` | products, baseline, events | ingest a catalogue, claim, update and recover events |
| Watching | `script_cli.py`, `multi_cli.py`, `core/live.py` | the run under `autograb.lock`, stop and disarm files | look at a catalogue, notify, look again, reserve, hand over |
| VMISS catalogue scan | `providers/vmiss.py`, `core/snapshot.py` | queue, visited pages and products of a traversal, in memory and in `public_scan_state` | one page per slot, save, resume, finish |
| Apple pickup and catalogue | `providers/apple.py`, `providers/apple_catalog.py`, `apple_cli.py` | targets, the rotation over stores (in memory and in `public_scan_state`), stock per store, catalogue scopes | ask one store, read a catalogue, merge, configure |
| Launch | `script_cli.py` (`execute`), `core/scheduled.py`, `core/http_metrics.py` | wake time and deadline of one invocation | wait, a round, the next round |
| Armed worker | `core/purchase.py`, `core/purchase_state.py`, `phase2_cli.py` | the run, its place in a purchase, the outcome of an event | arm, process an event, recover, reconcile |
| Live guard | `core/live.py` | a lease on two clocks, signal files | arm, check, disarm, write and clear a signal |
| Other catalogues | `providers/catalog.py`, `dmit.py`, `vps.py` | none | parse a page |
| Phase 1 runner, notifications, configuration, installers, browser policies | `core/runner.py`, `notifications/`, `edge_install.py`, `browser/` | little or none that a decision depends on | |

They meet in these places.  *Watching* claims the *budget* before a request,
feeds the page to the *event store*, and for a restock creates an intent in the
*ledger* and a command in the *broker's* queue.  The *native host* polls the
queue, writes commands to the extension and feeds its events to the broker.  The
*controller* drives one tab through the *adapters*.  The *order commands* use
the same queue and the same worker under a permit that the *ledger* hands out
once.  The *armed worker* goes another way to the same *ledger*, through Playwright and
under a lease of the *live guard*.  The native host writes the ledger's state column behind the ledger's back
(`_halt`) and the budget's block from what the browser met.

### What is hard

* **Two writers of one row.**  A command line, a monitor, and the native host write
  the same intent between each other's transactions.
* **An answer that comes too late**: after a timeout of 20 s, after a DISARM, on
  another connection, for a command that was given up.
* **An outcome that nobody knows**: a process dies between a commit and a click, or
  a click and its answer.  Silence must never be read as "nothing happened".
* **Awaits**: the controller is one thread, but a command, a disconnect or a closed
  tab can come in at each of some twenty awaits.
* **A merchant and a user with a will of their own**: stale pages, lost carts,
  challenges, navigation.
* **Cooldowns** that must survive crashes, late reports and a browser's verdict.
* **Long sequences of scans** with gaps and unknown stock, one store or one page at a
  time, by processes of different kinds that write the same rows.
* **Two clocks and a signal file** that another terminal writes and clears while a
  purchase is under way.

### What makes each part correct

* Ledger: a product is held by one intent; an order is sent at most once; facts are
  not forgotten; nothing is offered for payment without its evidence; a dispatched
  submission can always be found again.
* Submission: a click happens only while its permit lives; every layer remembers a
  submission that may have happened; an answer is taken only by the exchange that
  asked; every run ends; a payable order is announced once.
* Broker: one command of an intent at a time; none sent twice; only a pure look is
  released; ready states only with their evidence.
* Cart flow: the product is never added to a cart that has it or may get it; a
  submission beyond the first is a counted rebuild; nothing read before a pause acts
  after it; a run comes to rest.
* Budget: one reporter per row; a block never shortens; silence costs a cooldown.
* Store: a restock is an event even across gaps; an event is not swallowed by its key.
* VMISS scan: however many processes take part in a traversal, it misses no page, asks
  for none twice, ends as a catalogue only when every linked page was read, and what an
  early page said of stock is not taken for news.
* Apple: no store waits longer than the rotation; a restock is announced exactly when a
  store that had nothing is heard to have something; a SKU is new once, when its
  category was known; a launch ends.
* Armed worker: one order per arming, one request per product over all runs; what is
  reported as failed was never asked for; a run that ends leaves nothing half done; no
  request without a lease that stands.
* Watching: one mail per event; an event in flight has an owner; a reservation is
  settled; one failure does not starve the other products of the page.

## The modules

| Module | Models | Uses | Checked with |
|---|---|---|---|
| `OneShotPermit` | the abstract promise of the ledger | | refined by `IntentLedger` |
| `IntentLedger` | every writing method of `IntentStore`, and the broker's statement | `OneShotPermit` | `IntentLedgerMC` |
| `IntentLedgerProofs` | its theorems | `IntentLedger` | |
| `OrderSubmission` | one order across cli, host, worker, page | `IntentLedger` | `OrderSubmissionMC` |
| `OrderSubmissionProofs` | its theorems | `OrderSubmission` | |
| `RateBudget` | one row of the budget, its callers | | `PagedScanMC` |
| `EventStore` | baseline, changes, events of one provider | | `PagedScanMC` |
| `TableProofs` | theorems about both tables | `RateBudget`, `EventStore` | |
| `PagedScan` | the catalogue of VMISS, a page per slot, across processes | `EventStore`, `RateBudget` | `PagedScanMC` |
| `PagedScanProofs` | its theorems | `PagedScan`, `TableProofs` | |
| `ApplePickup` | Apple's stores and catalogue, and a timed launch | `RateBudget` | `ApplePickupMC` |
| `ApplePickupProofs` | its theorems | `ApplePickup` | |
| `Watch` | a run of the watcher | `EventStore`, `RateBudget` | `WatchMC` |
| `WatchProofs` | its theorems | `Watch`, `TableProofs` | |
| `CartBroker` | the edge columns and the queue of one intent | | `CartFlow` |
| `CartFlow` | a DRY_RUN from the product page to the checkout | `CartBroker` | itself |
| `CartFlowProofs` | theorems about both | `CartFlow` | |
| `LiveGuard` | the lease and its signals; what the worker's guard promises | | refined by `ArmedPurchase` |
| `ArmedPurchase` | `arm` and `reconcile` over several events | `IntentLedger`, `LiveGuard` | `ArmedPurchaseMC` |
| `ArmedPurchaseProofs` | theorems about both | `ArmedPurchase` | |

Definitions whose comment begins "Mutant of" are faulty variants, kept beside the
definition they vary: each property is checked to fail when its mutant is put in
place.  They are used by nothing else.

### IntentLedger

One row per event (`event_id` is unique), one action per writing method.  A method
is one SQLite transaction, hence one step; a `ValueError` rolls it back, hence a
guard.  Callers are unconstrained: any method, any time, any argument.  The clock
ages prechecks, permits and absences.  `handle_event` of the broker also moves the
ledger's state column to `CART_READY` and `CHECKOUT_READY`; those two writes do what
`SetCart` and `MarkCheckoutReady` do and are covered by them.  `OneShotPermit` says
what all this amounts to: a purchase holds its product, spends at most one
permission, and lets the product go only unspent or after its order is closed.

### OrderSubmission

The cli's three commands (precheck, smoke, reconcile), the queue, the host, the
worker and the document are five programs with their own program counters; each
transaction and each stretch between two awaits that others can tell apart is a
step; each process may die between two.  The 20 s of an exchange are not counted: it
may time out at any moment.  The life of the permit is counted.  A DISARM is two things:
a file, which another terminal writes and clears at any moment and without a lock
(`SignalDisarm`, `ClearSignal`), and a command of the queue (`EnqueueDisarm`).  The file
is read when a command is dispatched and when the cli looks at it, and remembered by
nobody; so a submission that was signalled and cleared again before the host took it is
still sent, and clicked.  `RevokedNeverClicks` claims no more than the code holds: the end
of the cli, a lost connection and a DISARM that the queue heard revoke for good, the file
while it stands.

Behaviour worth knowing that the model shows: a message that the extension saves while
another changes its context is dropped, a DISARM included (`Overtakes`); after a DISARM the worker stays DISARMED, so that every
later order command, reconciliation included, is dropped until the worker or the
connection is renewed; a late observation is a protocol error that ends the native
host; a killed cli leaves its command DISPATCHED until a reconnect, a DISARM or the
answer.  The order adapter of this commit never produces `NO_ORDER_FOUND`, and a
submission is never answered with `FOUND`: neither is modelled.

### RateBudget

One row, several callers (one in the runs, any number in the proofs) with different intervals and leases, slow or dead ones, ones
that report twice.  A nonce is the number of its admission.  Blocks by the browser
come from outside (`vmiss/catalog` and `apple/fulfillment` only).  The wall clock is
taken not to be set back.  A Retry-After that arrives after its lease has lapsed is
dropped by the code, with its ticket; a test asserts that, and the cooldown applies.

### EventStore and Watch

`EventStore` abstracts a product to its stock and its look.  A look stands for
everything else, and some looks are offers.  The look-up by dedupe key is left out of
the model because `EveryChangeHasItsKey` shows that it never finds anything.
`Watch` runs scripts and monitors of Bandwagon one after another under the lock,
with stop and disarm files, uncertain mails, failing requests and death.  A script
asks the budget once per run, a monitor of this merchant does not ask it at all.  An
event left PENDING by a stop or a crash is never replayed, and a script never calls
`recover_interrupted`: `WorkIsOwned` says exactly what remains true.

### PagedScan

`_discover_budgeted` is cut where another process, or death, can tell: the claim
(`Claim`), the request (`PageCame` or `NoPage`), the report to the budget (`Report`, or
`Fail`), and the write of the scan (`Save`, `Clear`, `Finish`), each a transaction of its
own; then the catalogue goes to the store (`IngestScan`).  A script keeps its traversal
in `public_scan_state` and ends with its round; a monitor has none there, keeps the
traversal in memory and goes on.  A page is what `_parse_page` recognised: the groups it
links and an observation of each product.  The links of the merchant are fixed during a
behaviour; any page may show anything of its products at any time, so that two pages may
contradict each other.  `EventStore` is composed as it stands: in this module its only
caller is the scan.

Three behaviours worth knowing: stock is believed of the last page only, so that a
catalogue of several pages refreshes the stock of one of them; which one that is follows
from the order of the URLs, hence a restock on any other page is not seen by this
provider until it is read on the last page.  A page that comes after its lease
(`RATE_PROBE_EXPIRED`) is dropped from memory and not from disk, so that the next script
asks for the same page again.  And the probe after a block begins anew in memory: made by
a monitor, it leaves a script's older scan on disk, from which a later script goes on.
`TraversalIsWhole` and `StockIsWitnessed` show that neither harms.

### ApplePickup

One question goes to one store per slot, about every SKU asked for there.  `poll` is cut
at the claim (`Claim`), the answer (`Hears`, `WindowEnded`) and the report (`Report`); the
cursor is saved (`SaveCursor`) before the store of products is written (`Ingest`), and a
process may die between any two.  A script begins at the saved cursor, a monitor and
`apple-configure` at the first store; a monitor also reads a catalogue when it is due,
whole or not at all.  What `merge_observations`, `ingest` and `classify_event` make of a
scan is one step, in the operators `MergedScope`, `Inventory`, `BackInStock`, `NewSku`;
`sighted` and `met` are histories taken from the answers alone, against which the
events are held.

Every process reads its settings before it waits for the lock, and so may go on with any
that were in force before (`served`, `proc.targets`).  A launch sleeps without the lock
and gives all its rounds what it read at its start (`launch.targets`), so that an
`apple-configure` in its sleep does not reach it; `Foreign` is a question that such a
process asks.  `passed` counts the questions since a store was asked, and `lost` the turns
that it may have lost since then: to such a question, for it moves the same saved cursor
through other stores, or to a window that was over when the turn came.
`StoresTakeTurns` bounds the first by the second: with n stores a store waits for fewer
than n questions, and n more for every turn lost.

Behaviours worth knowing: only scripts and launches keep the rotation over processes,
and for a day at most (`ScanState` has a time to live), so `StoresTakeTurns` speaks of
questions between which the cursor was neither lost nor expired.  A launch on older
settings rewrites the row of a SKU without a store configured since; that store's
SOLD_OUT is forgotten, and its next stock is no restock.  `RestocksAreHeard` speaks of
what a store was heard to say since a scan last left it out.  A round of a launch
whose turn comes behind the window still claims its slot; the error that ends it is
swallowed in `poll`, the outcome is NETWORK_ERROR with its wait, the store has lost its
turn and the report says BLOCKED, where `check_once` would say WAITING of
LAUNCH_WINDOW_ENDED.  And once stores are several, no event depends on the row's own
availability: the stores not asked in this scan are UNKNOWN, so it never becomes
SOLD_OUT.

### LiveGuard and ArmedPurchase

`LiveGuard` is the lease: armed for some hours, measured on the wall clock and on the
monotonic one, revoked by signal files that another terminal writes and clears at any
moment.  The wall clock may be set and the machine may sleep; a history remembers which
clock told the time.

`ArmedPurchase` is the worker: a run of `arm` or `reconcile` holds the lock, finds
events, and takes one through `PurchaseRunner.process`.  Each stretch between two awaits,
and each transaction, is a step; every await can fail, can be interrupted by Ctrl-C, and
the process can be killed anywhere.  `FailBeforeAsking`, `FailAsking` and `Interrupt` are
the three ways out of `process`, `Recover` and the steps after it are what the next run
does with the rows it finds.  `chain` is the sequence of states recorded by
`transition`, which raises on a step its graph lacks, and before `PAYMENT_READY` on an order
number that is not decimal (`assert_payment_ready`), which the ledger takes all the same:
`Decimal` says which events get such a number.  Raised over a receipt that was just
stored, the event is told RECONCILIATION_REQUIRED and its user hears of no order
(`FinishReceipt`).  `StaysOnGraph` says that this is the only step over a stored order that
raises, and that such an order is never told to be payable.

Worth knowing: none of this runs today.  The program gives `arm` and `reconcile` to the Edge
command line (`edge_cli.handles`), which answers NOT_READY to both, so that the worker is
reached from the tests alone; and the repository's own adapter declares its order boundary
UNVERIFIED, so that every preflight would refuse.  The model is the runner with a provider
that can pass, as its tests have it.  Every writer of events holds `autograb.lock`, hence the
answers STALE_EVENT and ALREADY_CLAIMED are never given.  A preflight's age cannot bite
where it is used.  A process killed before its dispatch leaves a row that keeps its
product (ORDER_ALREADY_EXISTS) until somebody cancels the intent.  And a disarm that is
cleared before the worker looks again leaves the worker armed, although clearing prints
that LIVE remains DISARMED (`phase2_cli.py:124`): signals are read, never remembered;
only the lease's clocks then end it.

### CartBroker and CartFlow

`CartBroker` is the core's side, each operation one transaction: `Enqueue(type)`,
`Dispatch(k)`, `Disconnect`, `Take(event)`.  A refused event changes nothing and ends
the host, so in the whole system a refusal is `Disconnect` with the host's end
(`HostTakes`).  `CartFlow` extends it.  A `PAGE_OPENED` always reports a page without a challenge, as the
controller posts it.

`CartFlow` adds the native host, the wire, the controller, the tab, the merchant and
the user.

The controller's functions are cut where they await something that others can tell apart;
the awaits of the save after a proof that nothing was done (`service-worker.js:211`) and of
the save in `pause` (169) are merged with what follows them, so that a disconnect or a
command comes before or after both, and never in between.

* `handle` is cut at the write of its receipt (`Receive`, then one `ActOn...` or
  `DropCommand`), and at the creation of a tab.
* `pump` is cut at the reading of the page (`PumpBegins`), the second reading
  (`PumpDecides`), the write of the journal (`GoesOn`, `Stores`), the message to the
  page (`PumpSends`), its answer (`PumpHears`), and the write before a report
  (`PumpReports`).  The look at the tab and the first reading are one step.
* `revision` is a flag on everything that remembers one (`pump.fresh`, the `fresh`
  of a received command, `worker.opening`): every bump clears all of them, which is
  all that a comparison of revisions can tell.  A document's identity is likewise
  kept as "still the same": `pump.here`, `tab.request.alive`, `active.empty`.
* `verifyMutation` is the one continuation that does not compare the revision after
  its write; `PumpReports` reports there even when it is stale, as the code does.
* The merchant takes a submitted form when it likes, or refuses it; a page may be
  odd, stale or change under the reader; a cart may be lost; the user navigates and
  closes the tab.  Each disturbance but the stale page counts as one quirk, and so does the end of a
  host with the worker still there and a restart of the worker.  A configuration is
  shown under any index, for the adapter's comment says that index zero proves nothing.

Left out: writes to browser storage that fail; replayed envelopes (`seen`), since
nothing is resent; PING and the heartbeat's age; notices; failures of injection;
several intents or merchants (`can_start_provider`).  The merchant shows at most one
stale empty cart: `resumeCart` asks for two empty documents and would be deceived by
two stale ones, also by two with a full cart between them that no pump has read.

Two consequences that the code accepts: when the event `CHECKOUT_READY` is lost with
its host, the worker is finished and the core stays paused; when the event
`CART_REBUILDING` is lost, the core refuses the next `PRODUCT_VERIFIED` and the host
ends, at every resume.

## The runs

| Run | Question | Bounds |
|---|---|---|
| `ledger` | can any sequence of calls make a row lie or forget, or two events hold one product; does the ledger refine the permit? | 2 events of one product, 2 orders and quotes, one candidate of the rest, clock to 1; events and orders symmetric |
| `order_run` | one smoke with every failure around it | a precheck and a smoke, 4 commands, 2 connections, 2 documents, clock to 2 |
| `order_again` | may the late answer of one run reach the next; does a run end; does a revoked submission stay unclicked, whoever writes and clears signals? | 2 runs of any kind, 5 commands, one connection, no time passes, fairness of the cli |
| `notice_after_crash` | violation: the notice is lost between claim and SMTP | 2 runs |
| `paged_scan` | is a catalogue whole, whoever read its pages; is every restock in it an event, and no other; is every wait of the budget kept? | 2 products, 2 looks, 3 revisions, 2 events; four merchants of up to 5 pages, at most 4 in a scan; clock to 5, 1 limit by the browser |
| `watch` | everything around a page with two restocks; does one failure starve the rest of it? | script and monitor, 2 events, clock to 1, fairness of the process |
| `watch_blocks` | violation: a block does not stop the rest of the page | scripts, clock to 3 |
| `apple` | does every store get its turn; is what is announced what the stores and catalogues said; does a launch end? | 2 SKUs of one category, 2 stores, of which a configuration may add or drop one, clock to 2, a launch of 2 units, one death, expired cursor, configuration or refresh; fairness of the launch |
| `armed` | what may two runs ask of a merchant, and what is left when they end? | 3 events of 2 products, one with an order number that is not decimal, 2 runs, a lease of one unit, both clocks to 1 |
| `cart_flow` | is the product added twice, ever; does a run come to rest? | 2 commands, 1 quirk, 1 stale answer, 1 rebuild, 2 events on the wire, fairness |
| `cart_stop` | does anything act for a command that is over; is only what was looked at released; are commands sent once and one at a time? | 3 commands of all five types, one cancellation and one disarm at most, no quirk |
| `cart_disarm` | violation: a DISARM is dropped | 2 commands |

Why the bounds are enough to be interesting: two of an identity are what a
contradiction takes, and two events what the product lock is for.  A second
connection and a second document are what a reply can be late for; in `order_again`
that is the second run, and when it has used up the five commands it rests, and `RunEnds` says so.  In `paged_scan` and
`apple` a cooldown is one unit: five units of clock hold a lease, the cooldown behind
it and a block by the browser, and two hold the three questions a rotation of two stores
takes to be unfair, also when one of them is a launch's that slept through a
reconfiguration.  Three
revisions are sold out, restocked, sold out.  The four merchants of `paged_scan` are a
front page alone, a page that links itself, two that link each other, and one with more
pages than a scan may have.  In `cart_flow` a quirk pauses the run
and a resume finds the cart there, at the checkout, lost, stale or submitted without
an answer; the rebuild is run to its end.  A second rebuild would take a third
disturbance, so `MAX_CART_REBUILDS` is 1 there and 2 in the code.  `cart_stop` takes
three commands and no quirk instead.

`CHECK_DEADLOCK FALSE` stands where everything may rest: in `CartFlow` with its
commands and quirks used up a paused run waits for the user; in `OrderSubmission` the
last run has ended.

### Fairness

* `OrderSubmission`: weak fairness of the cli alone.  It polls with a deadline of
  20 s per exchange (`edge_order.py`), so it always goes on; host, worker, page and
  merchant may stop for ever.
* `Watch`: weak fairness of the process's work: requests have a timeout of 15 s, and
  mails one of their own.  Death, signals and the clock are not fair.
* `ApplePickup`: weak fairness of the launch, whose steps and waking up are one process, and of the
  clock: requests have a timeout, `wait_until` sleeps at most 30 s at a time.  Whoever
  else has the lock may keep it for ever.
* `CartFlow` (`FairSpec`): the pump runs on a 1.5 s interval; `storage.local.set` and
  `tabs.create` end; a message to a page is answered or its channel closes with the
  document; a navigation ends in some document; the host reads its input; Edge closes
  the port of a dead host.  Commands, connections and the user are not fair.

## What the code does otherwise than it says

Three runs end in a counterexample; each checks a sentence of the repository.

1. `notice_after_crash`: "Crash between durable PAYMENT_READY and notification is
   recoverable" (`purchase.py:433`).  After a crash between the claim of the notice and
   the call of SMTP, the next reconciliation marks the intent WAITING_FOR_USER and no
   notice is sent.
2. `watch_blocks`: "persisted blocks always take precedence. 429 ... stop work"
   (`docs/SCRIPT_MODE.md:64`).  With `--prepare-checkout`, a refusal of the second look
   at one product is recorded and the next product of the page is looked at all the
   same; that loop never consults the budget.
3. `cart_disarm`: "New writes stop an active run" (`native_host.py:120`).  When START
   (or RESUME) and DISARM are both received before their receipts are stored, the first
   bumps the revision and the DISARM is dropped with COMMAND_CONTEXT_CHANGED.  The run
   goes on until the core refuses one of its events.

One more case is no run, and no property covers it, for the text it touches only says what
may be: a resume
that is lost with its connection has made the core expect its number
(`broker.py:273`); the worker reports a normal page under the older one, is refused
with COMMAND_IDENTITY_MISMATCH and the host ends, and so at every reconnect.  No
resume is possible then, because none is admitted before a normal page is reported.

## What is proved

The eight modules named ...Proofs hold for every value of the constants, under the
assumptions the modules themselves name, which TLC evaluates with every run:
`LedgerAssumption`, `OrderAssumption`, `BudgetAssumption`, `StoreAssumption`,
`PagedAssumption`, `WatchAssumption`, `CommandsAssumption`, `CartFlowAssumption`,
`ArmedAssumption` with `GuardAssumption`, `AppleAssumption`.  They give the shapes of the
parameters, say that NULL is no value of a column and no row, that products, groups of
pages (a page is finite) and Apple's stores are finite in number, that a refusal may name
no delay (`0 \in RetryAfter`), and that the scan of VMISS is the only
caller of its row of the budget: one process at a time holds the provider's lock.

**The ledger.**  The inductive invariant is `IInv`: `TypeOK`, `RowsOK` and
`OneActivePerProduct`.  None of the listed properties is inductive alone.  That a
payable row carries its proof needs to know which columns may be filled in which state;
that a dispatched submission is found again needs that a nonce is never in a state
that recovery skips.  `RowOK` collects these relations of one row.  The proof
is short because of one lemma, `RewriteKeeps`: a step that rewrites one row into a row
that is `RowOK`, keeps its place in the product lock and forgets nothing, preserves
`IInv`; each action then has a lemma saying that it is such a rewrite.  Creation is the
one action that takes a product, and is proved on its own.  From `IInv` follow
`TypeCorrect`, `ProductLock`, `OrderAgreement`, `PaymentProof`, `FateTracked`, the
action property `FactsAreKept`, and `PermitImplemented`: the initial state maps to
the permit's, and every step to one of its steps or a stutter.

**One order.**  The permission to click is one token that changes hands: the ledger
commits it, the cli holds it, the queue holds one submission for it, the extension
journals it and the page is given one request.  The inductive invariant `Inv` of
`OrderSubmissionProofs` has one part for each hand (`RowOK`, `CliOK`, `QueueOK`,
`ExchangeOK`, `DeliveredOK`, `ClickOK`, `NoticeOK`) and says that what it holds is still what
the ledger committed, and that the hands before it will not give it a second time.  No
listed property is inductive without them: that a click finds every layer prepared is a
fact about the page that rests on what the extension journaled, which rests on what the
queue holds, which rests on the row.  From `Inv` follow `LayersRemember`,
`SubmissionsAreOwned`, `NoticeIsSentOnce`, the action properties `ClicksArePermitted` and
`OnlyAwaitedAnswers`, and `RevocationHolds`: every step from a revoked
submission leads to a revoked one, and none while the kill switch stands hands it to the
host.

**The budget** (`TableProofs`).  `BudgetTypeCorrect`, `OnlyTheLast` (of all tickets only that of the last
admission can still change the row), `BlocksStand` (no step brings the end of a running
block forward) and `SilenceWaits` (the successor of an unreported request waits out
lease and cooldown).  The strengthening has three parts: `Numbered` (nonces are
issued in order and the row's claim is the last one or none), `Unblocked` (a claim
stands only while no block runs) and `Silent` (the silence of a request is remembered
in the lease, and then in the block).

**The store** (`TableProofs`).  `StoreTypeCorrect`, `KeysAreNew` and `RestocksAreFound`.  The
keys are distinct because no event is ahead of the revision of its product's row
(`Behind`) and a change that makes an event raises the revision; a restock is found
whatever unknowns lie between because the row keeps the stock that was last known for
certain (`LastKnown`).  The events of one scan are put into an order of which the
proof uses only that it lists each product once (`InOrderFacts`).

**The scan of VMISS.**  `PagedInv` says of the traversal on disk, of the one in memory and
of the one a request is out for that they are `Sound`: nothing is queued twice, nothing
queued was visited, every link of a visited page is queued or visited, and everything is
reachable from the front page.  Each step of the traversal, a failure, a save, a death or
a resumption from an older save carries a sound traversal over; one whose queue is empty
has visited exactly what can be reached, which is `NoPageIsMissed`.  `StockAsSaid` needs
besides that the stock kept for a page is what was heard of it last.  `ScanImplements` maps
every step to one of the store and one of the budget or a stutter, so the theorems about
both tables hold of it (`ScanKeysAreNew`, `ScanFindsRestocks`, `ScanWaits`).

**Watching.**  What a process holds is tied to where it is in its code: an event in flight,
an intent that locks its product and an event that has not been mailed each belong to
certain places of `process_opportunity`, or to a process that died.  `WatchInv` says so, and
`MailedOnce`, `WorkOwned`, `ReservationsSettled` and `WatchTypeCorrect` follow.
`TablesImplemented` and `TablesKeepTheirWord` are the refinement of the two tables, with
what it carries over.

**The broker.**  `TypeCorrect`, `OnlyTheRowsCommand`, `ReleaseIsReadOnly`,
`NothingIsSentTwice` and `CheckoutIsKept`, for any number of commands, any events of the
extension and any loss of connections.  The strengthening `Inv` adds three parts.
`OneUnderWay` says in which edge states the row's command may still be pending: a
paused, opened or new intent has none, so that a new command meets no old one, and an
edge state that is over can be let go.  `CheckoutIsOver` says that an intent with a
checkout has a command that is done, or a cancellation: nothing can set it running
again, so no event in sequence can take the checkout back.  `CartIsHeld` says that a
state with a cart names one.  Lemmas say what each rewriting of the queue (`Halted`,
`Ended`, an appended command) does to one place of it, and each action cites them.

**The cart flow.**  `FlowImplementsCore` maps every step of the flow to a step of the broker
or a stutter, so that what was proved of the broker holds with the real worker at the
other end (`FlowRunsOneCommand`, `FlowSendsOnce`).  The rest of the invariant `FlowInv`
follows a command and a mutation through the hands they pass.  On the wire, what is in the
host's pipe and in the worker's hands was dispatched, comes in the order of the queue, and
after the worker's cancellation only later commands follow (`DeliveryOK`, `CancelOK`,
`ReleaseOK`).  In the controller, a fresh round of the pump belongs to the command of the
record, and an open journal is of the mutation that follows the checkpoint (`ControlOK`).
At the page, a request is the journaled one, and one that adds to the cart meets a `Clear`
merchant: no product, no submission on its way, and no page or second reading that shows a
cart (`RequestOK`, `ClearOK`, `CartOK`).  `EmptyOK` is what makes a rebuild safe: after a
verified cart a page that looks empty is a loss or the merchant's one stale answer, and
of two documents that both look empty one is not the stale one.  `ProofOK` says that a
cart or a checkout in a page, a checkpoint, an event or the row stands for a submission;
`LookOK` that an intent with commands that only look has no journal and no request.
`AddsOnce`, `MutatesForItsCommand`, `CoreTrustsOnlyVerified` and `ReleaseTouchesNothing`
follow.  The bounds of the model (commands, rebuilds, disturbances, events on the wire)
are parameters of the proofs; that the merchant gives at most one stale answer is an
assumption about it, and the reason why two readings suffice.

**The armed worker.**  `ImplementsGuard`: every behaviour of the worker is one of
`LiveGuard`, so that what is proved of the lease (`GuardInvariant`, `LeasesAreShort`)
holds in it.  The invariant `Inv` then has a part for the run (`RunOK`) and one for each
event (`EventOK`): where the run stands determines the state of the row it works on, and
what was reported of an event, what its row says and how often the merchant was asked
belong together; a row in the middle of its way is the run's own or one whose process was
killed.  From it follow `OneOrder`, `AskedOnce`, `FailedIsUnasked`, `EndedRuns` and
`WithinHours`, for any number of events, products and runs.  `RecordsOnGraph` needs two
invariants more: `ChainOK`, where the run stands says which state was recorded last, and
`PayableOK`, what is on its way to a notice, or was told to be payable, has a decimal
number.  That
a payable page is reported as `PAYMENT_READY` and as nothing shorter rests on the ledger,
which takes no evidence without an invoice and its page (`ProvedHasPage`).

**Apple.**  `StoresTurn` rests on `TurnOK`: the store at place j of the rotation has
waited at most its distance (`Age`) from the place that the next question of the sequence
takes, and a cycle for every turn it may have lost.  That place is `Cursor`, which is the process's cursor while a process holds it, one
less while its question is out, and the saved one as soon as a script has saved it; so it
is the same before and after a script ends, and only an answer moves it, by one
(`TurnMoves`, of a store that was asked, of one that waited on, and of one that lost its
turn).  Who loses a cursor starts the count anew.  That the rotation names every
store once is a lemma of its own (`Ranked`, by counting).  `RestocksHeard` and
`NewSkusAnnounced` rest on `BookInv`: a row says of each store what that store last said,
or nothing if it never said anything since a scan last left it out (`ScanKeepsRow`), and the SKUs and
scopes in the table are exactly those ever observed (`IngestMeets`).  Only `Ingest` touches
any of it, so that crashes and lost cursors need no case of their own there.

Every invariant and action property that a passing run checks is a theorem.  Each module
states a type invariant where its state is not obvious; it is no property of a run.  Out
of the prover's reach, and only model-checked: liveness under fairness (`RunEnds`,
`RunSettles`, `BatchIsDrained`, `LaunchEnds`), ENABLED, and what a recursive definition
computes for every input.

## What is not modelled

* The runner of phase 1: one sequential workflow per event, whose one shared step, the
  claim of the event, is `EventStore`'s.
* Apple's delivery, which the code never reads as anything but UNKNOWN, and the launch of
  several merchants by one invocation, which asks them one after the other.
* Recognition of pages and parsing of catalogues: pure functions of a DOM or a page; a
  model sees what was recognised.
* The shape of messages (`protocol.py`, `protocol.js`): validation of single messages.
* Mail formatting, console output, logs, settings, file permissions, installation: no
  decision reads them back.
* A second merchant's intent beside a finished one (`can_start_provider`).

## The plan

Done, in this order: the ledger and its promise; one order through all layers; the
budget; the store; watching; the broker and the cart flow; the scan of VMISS;
then the armed worker with its lease and its proofs; Apple's stores, catalogue and
launch.

Next modules: a second intent in `CartBroker` and `CartFlow`; a launch of several
merchants; the runner of phase 1.
