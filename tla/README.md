# Formal specifications of the distribution and commission platform

TLA+ modules, TLC configurations and TLAPS proofs for the services of this
repository. A path such as `commission-calculation-service/app/...` is below
`src/services/`; `telco_common/...` is below `src/shared/telco-common/`.

1. The system
2. What is modelled, module by module
3. What the runs check, and their bounds
4. Fairness
5. What is proved
6. Where the code differs from what is said of it
7. Only model-checked, not modelled
8. Plan

To check: `tlc -config consumer.cfg MCKafkaConsumer` (the run table names the
module of each configuration); `tlapm KafkaConsumerProofs.tla`, likewise `Sums`,
`CommissionProofs`, `PayoutProofs`, `InventoryProofs`, `ReplenishmentProofs`,
`SellOutPerformanceProofs` and `PartiesStockViewProofs`.

## 1. The system

Thirteen FastAPI services, one PostgreSQL database each (the stock query service
has Redis), connected by Kafka topics and a few HTTP calls. Each service may run in
several replicas; every API request and every handler call is a coroutine, with
one database session that is committed at the end (`get_db`, the consumer
runners). Events are sent to Kafka *before* that commit, throughout.

| component | state it keeps | operations that change it | talks to |
|---|---|---|---|
| telco-common consumer loop | committed offsets, the event in hand, the attempt | `consume` | Kafka; every consumer below runs in it |
| commission-calculation | `commission_event`, `processed_event_log`, `commission_statement` | sale and return handlers, confirm | consumes `sellout.completed`, `return.processed`; asks commission-rules over HTTP; sends `commission.event.calculated`, `commission.statement.confirmed` |
| commission-rules | agreements and their rules | create, activate, patch | asked by commission-calculation |
| payout | `payout_request` | statement handler, create, process | consumes `statement.confirmed`; payment gateway (a random draw in the code) |
| inventory | stock rows, transfers, goods receipts, reconciliations, reservations, resources, locations | sell-out handler and about fifteen endpoints | consumes `sellout.completed`; sends stock events |
| sell-out | sales, returns, POS sessions | create, reverse, return, open and close a session | asks stock-query over HTTP; sends sale events |
| sell-in | product orders | create, complete, cancel, patch | sends `sellin.delivered` |
| warehouse | pick lists, packing slips, bins | create, pick, dispatch; delivery handler | consumes `sellin.delivered`; posts goods receipts to inventory |
| stock-query | Redis read model | stock event handlers, expiry of keys | consumes stock events; asks inventory when it knows nothing; asked by sell-out |
| performance | KPI specifications, targets and measurements | sale handler, naming, target creation and patch | consumes `sellout.completed` |
| party | parties and their hierarchy | onboarding, patch, the walk to the root | sends `party.dealer.onboarded` |
| audit | an append-only log | insert of every event it is subscribed to | consumes nine topics |
| notification | none | event handlers without effect | consumes four topics |
| product-catalog | rows without interaction | CRUD | asked by others |
| frontend, infrastructure, scripts | — | — | — |

What makes it hard: at-least-once delivery with a commit inside the retried
block; replicas that exchange partitions while an event is in hand; handler calls
and requests that interleave between any two awaits at READ COMMITTED; checks made
in Python on values read earlier; messages that are out before the transaction is;
independent topics for facts that depend on each other (a sale and its return).

What makes each part correct:

- **consumer loop**: no event is skipped that was neither handled nor parked;
  per partition in order; every event gets settled while there is a live task.
- **commission-calculation**: a sale earns once per agreement; the idempotency
  log, the ledger, the announcements and the statement totals agree; what is
  confirmed is what was announced; nothing that earns is settled without a trace.
- **payout**: each confirmed total becomes a request, COMPLETED means paid.
- **inventory**: quantities are conserved, a receipt or transfer is booked once,
  stock is not negative, a sold device is marked as sold.
- **sell-out, sell-in, warehouse**: the state of a sale, a return or an order and
  the events sent for it agree; each delivered item is received once.
- **stock-query**: it shows what is in stock once the events are through, never less
  than nothing, and no event holds up the others.
- **performance**: a measurement is the sum of the sales it was made of, a target's
  status and the dashboard tell the measurement.
- **party, audit**: the hierarchy ends, names nobody twice and is the lineage; an
  onboarded dealer is announced and logged once.

## 2. What is modelled, module by module

| module | models | built on |
|---|---|---|
| `EventStream` | what a handler may rely on: in order, at least once, nothing beyond an unsettled event | — |
| `KafkaConsumer` | `telco_common/kafka/consumer_factory.py`, with replicas and rebalances | refines `EventStream` |
| `Commission` | commission-calculation-service | extends `KafkaConsumer` |
| `Payout` | payout-service | extends `KafkaConsumer` |
| `Inventory` | inventory-service | extends `EventStream` |
| `CommissionRules` | commission-rules-service and the rule engine of the calculation | — |
| `SellOut` | sell-out-service | — |
| `Replenishment` | sell-in-service and warehouse-service | — |
| `Performance` | performance-service | extends `KafkaConsumer` |
| `StockView` | stock-query-service, fed by adjustments and transfers of inventory-service | — |
| `Parties` | party-service and audit-service | — |
| `Sums` | the laws of sums over finite sets | — |
| `KafkaConsumerProofs`, `PayoutProofs`, `InventoryProofs`, `ReplenishmentProofs` | theorems | extend the module they are about |
| `SellOutPerformanceProofs` | theorems about the sales and the service that measures them | extends `SellOut`, `Performance` |
| `PartiesStockViewProofs` | theorems about two parts that share nothing | extends `Parties`, `StockView` |
| `CommissionProofs` | theorems about both halves of the commission | extends `Commission`, `CommissionRules` |
| `MC*` | small instances | |

**KafkaConsumer.** `committed[p]`, `owner[p]` and `task[w]` are the committed
offset, the group assignment and the program counter of `consume()`. `Poll` is the
`async for`; `HandlerReturns` and `HandlerRaises` end `await handler(event)`;
`Commit` and `CommitRaises` are `commit()` inside the `try` (its exception is a
failed attempt, and it may have been applied); `RouteToDlq`, `CommitSkipped` and
`TaskDies` are what follows the last attempt. `Crash` and `Reassign` are the
environment: a replica restarts from the committed offset, a partition moves. With
`ZombieHandoff` it may move while its old owner has one of its events in hand;
the old owner then has nothing of it to commit (`held`). The logs are constants:
a replica may be arbitrarily late, so events that are produced later add nothing.
The module says nothing of what handlers do: services conjoin their own steps.

**Commission.** One action per statement of `handle_sell_out_completed`:
`FetchAgreement` / `NoAgreementFound` (the HTTP call: the active agreement, or
`None` for 404, for several and for an outage), then for each line `SkipLine`, or
`CreateEvent`, `MarkProcessed`, `PublishCalculated`, `ReadStatement`,
`WriteStatement`; `CommitTx` makes all of it visible at once. What the open
transaction has written is in `job[w]`; a unique key or a row somebody else has
written but not committed disables the step that would wait for it. The
savepoint is in `MarkProcessed`: a taken key drops the mark and keeps the row.
`PayloadIgnored` is a payload that does not validate (`Unreadable`), settled at once.
The lines of a sale are abstracted to what they earn under each agreement
(`Amount`), because rule matching is a pure function. `handle_return_processed` is
`NothingToClawBack` or `ClawbackRejected`: the clawback rows never get in, as their
source transaction is not a UUID. `Confirm*` are the awaits of
`POST /commissionStatement/{id}/confirm`. `ChangeAgreement` is the rules service.

**Payout.** `CreateRequest`, `SendCreated`, `CommitRequest` are
`handle_statement_confirmed` (`PayloadIgnored`: a payload it cannot read); `CreateByHand`
is the same function over the API; `ProcessRead`, `Gateway`, `UpdateStatus`,
`SendCompleted`, `CommitOutcome` are the awaits of `process_payout`, each of which may be
the last one (`ProcessFails`). `paid` counts what the gateway paid, which no rollback
takes back.

**Inventory.** A transaction is a record `tx[x]` of a replica or an API slot: its
operation, its next statement, the row and quantity it read, and what it has written so
far: `moves`, what its updates add to each row they have touched (`Plus`), and `made`, its
new rows, which others see when it commits (`Apply`) and wait for before (`RowFree`,
`DocFree`, `NumberFree`). A product may stand on several lines of a sale or count: `kept`
is what the session holds of the rows it has loaded, which a later look-up may return in
place of what others have committed since (`Listed`, `Sees`). `AdjustRead` /
`AdjustQuantity` are `adjust_stock` (a check in Python, then an atomic UPDATE);
`SaleBegins`, `LineRead`, `LineSkipped`, `CommitSale` the sell-out handler; `SubmitRead`,
`ApproveRead`, `LinesApplied` the reconciliation; `TransferRead`, `SourceRead`, `Debit`,
`CreditRead` and `Credit` or `CreditNewRow`, `CompleteTransfer` `complete_transfer`;
`ReceiptInsert`, again the credit, and `RegisterSerials` `receive_stock`; `ReserveRead`,
`Reserve`, `Release` the reservations; `CreateRow`, `CreateTransfer`,
`CreateReconciliation`, `RegisterResources` (a list), `PatchRow` (quantity, place and
status of a row, in any combination) and `PatchTransfer` the plain endpoints. `Post*`,
`Patch*` and `DeleteReservation` name the endpoints that begin them. `resources` are the
single devices: `MarkSold` is the end of the sell-out handler, one serial number at a
time, looked up as `Devices` says; `IdentityFree` the partial unique index on identity
values, which makes an insert wait for another of the same value. Which row is the first
of a product is left open, as the query has no order. `Fails` is every way out: a refusal,
an exception, a crash, a victim of deadlock detection. The service sits on `EventStream`
instead of `KafkaConsumer`: its handler keeps no memory of events, so only what is
delivered matters to it, and the refinement shows that the loop delivers nothing else.
Sends have no step here, since they leave nothing in this service. The serial numbers of a
receipt are one step, as nobody sees an insert before the commit. Abstracted: a receipt
that lacks the serial numbers its product asks for is refused before it begins; of a
resource's characteristics there is the one it is looked up by. That a transfer does not
move the devices, and which sale a device went to (`allocated_to`), is read by nobody and
left out.

**CommissionRules.** (`RulesInit`, `RulesNext`, `RulesSpec`: the proofs are in one module
with those of `Commission`.) `CreateAgreement`, `UpdateAgreement`, `CreateRule`, `DeleteRule`
are the endpoints of finance; `FindAgreement` and `AnswerRules` the two statements of
the query a sale is priced by, between which finance may act; `PriceLine` what the
calculation then does with a line. `Applicable` is `find_applicable_rule`: the rules
whose category, channel and band match, and of these one of the lowest priority
number (which one is open when numbers are equal, as the query has no order).
`TieredCommission` is `calculate_tiered_commission` over the bands of the rules that
match. Amounts are whole numbers per unit; percentages of a price are a rate per unit.

**SellOut.** A request is a record `req[x]`: its operation, its document and the
statement it is at. An operation is data: the statuses it accepts, the one it writes,
the event it sends, so that `ReadDoc`, `WriteDoc` / `KeepDoc`, `SendEvent`, `Commit`
are the one course that `reverse_transaction`, `process_return`, `close_session` and
the status PATCH follow. `KeepDoc` is `update_status` when it reloads the row and
finds the status set by somebody else. A sale has `CheckStock` per line and
`InsertSale` before it. The check is modelled as the two services are: the path asked
for and the endpoints there are (`AskedPath`, `StockEndpoints`), so that it refuses
whatever it can ask about and passes whatever it cannot. `Fails` is every other way
out, before and after the event. A request that is refused for the status it finds
changes nothing and has no step.

**Replenishment.** The two services between an order and the shelf. Requests are
records `req[x]` as in SellOut, their operations data again: `InsertOrder` is
`create_order`, `ReadDoc`, `WriteDoc` / `KeepDoc`, `SendEvent`, `Commit` the course of
`complete_order`, `cancel_order`, the state PATCH (`Patch`: no condition, no event) and
of the warehouse's assign, complete and dispatch, `CreatePickList` and `CreateSlip` the
inserts. `delivered` is the log of one dealer's delivered events, one partition of the
topic. The warehouse consumer stands on what `EventStream` promises: `HandlerBegins` takes
any event up to the first unsettled one, in any replica (so redelivery and hand-over in
mid-event are both in); `PostLine` is one goods receipt of `_handle_sellin_delivered`,
booked if its `Number` is new, with an answer that may be lost; `HandlerRaises` is a
refusal, an outage or a crash; `DeadLetter` and `Settle` are the loop's. Which products
share their first eight characters (`Prefix`), and so their receipt number, is a constant.
Goods receipts themselves are in `Inventory`.

**Performance.** One action per statement of `_handle_sell_out_event`: `ResolveSpecs` finds
the specification each KPI is named by, `ReadMeasurement` / `WriteMeasurement` are the
read and the write of `upsert` (a new row, or a sum computed from the row read),
`TwoRowsFound` its `scalar_one_or_none` when two rows are there, `CheckTargets` /
`SetTargets` the evaluation of the active targets, `CommitSale` the commit.
`NameSpec`, `CreateTarget`, `PatchTarget` are finance; `ReadMeasurements` and `ReadTargets`
the two reads of the dashboard. `tx[w]` is the open transaction of replica `w`, with the
rows and statuses it has written and nobody else sees; `StatementRaises` and `MeasureCrash`
lose it, `BetweenSales` is the rest of the loop. A row is told from another of the same dealer,
specification and month by the replica that inserted it: a replica finds what it has inserted
itself, so it never inserts two.

**StockView.** Both sides of the view of one product. On the inventory side `AdjustRead`,
`TransferRead`, `UpdateAndSend`, `CommitChange`, `Fails` are adjustments and transfers
down to the event they send, with the quantity the code computes for it; `QuietChange` is
what changes stock without an event the view is subscribed to: receipts, new rows, and
patches, which may also move a row to the other location, under requests that have read it
(`Strays`). The status of a row is nothing to the view. A transfer may be within one
location. A sale or a count is an adjustment here, as the code makes one for it. On the
view's side `SetQuantity` is `update_from_adjustment`, `ReadSource`, `WriteSource`,
`ReadDestination`, `WriteDestination` the Redis commands of `update_from_transfer`;
`FetchEvent`, `CommandRaises`, `SettleEvent`, `CommitRaises`, `Skip`, `TaskDies`,
`ReplicaCrash` the loop without a dead letter producer: a commit inside the `try` that
raises is a failed attempt, after the last attempt the event is stepped over (`StepOver`),
and a commit that raises there ends the task, which only a restart brings back; `Expire`
the time to live of a key. `departed` is history: where the view was made to depart from
the stock, by what the code does or cannot know.

**Parties.** `Insert`, `Announce`, `CommitParty`, `CreationFails` are `onboard_party`;
`PatchParty` the PATCH of a parent, which checks nothing; `WalkBegins` and `WalkStep` the
selects of `get_ancestors`, between which parents change. A send is tried three times,
each of which may have reached the topic (`MaxCopies`). `Fetch`, `InsertAudit`,
`CommitAudit`, `CommitOffset` are the audit consumer with its `ON CONFLICT DO NOTHING`.

`booked`, `brought`, `applied`, `patched`, `overlapped` (Inventory), `paid` (Payout),
`counted`, `unnamed`, `judged`, `edited`, `crossed` (Performance), `clock`, `quiet`,
`written`, `departed` (StockView), `lost` (Parties), `announced` and `confirmations`
(Commission), `decided`, `overlapped`, `patched`, `dropped` and `refused` (SellOut),
`ordered`, `received`, `done`, `overlapped`, `patched` and `dropped` (Replenishment) are
history: what an observer of the topics, the gateway or the shelves knows.

## 3. What the runs check, and their bounds

| run | property | says |
|---|---|---|
| `consumer` | `NoEventLost` | what is below a committed offset was handled or parked |
| | `DeliversInOrder` | the loop implements `EventStream` (`settled <- committed`) |
| | `EveryEventSettled` | all events get settled, unless the task they belong to died |
| `commission_safety` | `OneHandlerAtATime` | no event in two hands, as long as partitions move between events |
| | `ProcessedIffCommissioned` | marked exactly if in the ledger |
| | `CommissionedOnce` | at most one row per sale and agreement |
| | `StatementReconciles` | statement totals are those of the ledger, although read and written back separately |
| `commission_settlement` | `SettledSaleCommissioned` | a settled sale that was readable and earns is in the ledger or parked, if the rules service answers and agreements stay as they are |
| | `LedgerAnnounced` | each ledger row was announced before |
| | `ConfirmedAsAnnounced` | the total confirmed is the one announced last |
| | `AnnouncedIsRecorded` | what was announced is in the ledger or parked in the end, if the rules service answers and agreements stay as they are, unless a consumer task died |
| `payout` | `ConfirmationRequested` | each settled confirmation that could be read has a request of its total, or is parked |
| | `CompletedIsPaid` | a request shown as COMPLETED was paid, however calls overlap |
| `inventory` | `StockConserved` | no update lost, nothing moved one-sided |
| | `ReceivedOnce` | a receipt is booked at most once, the devices registered with it have its serial numbers, and no other device of the same identity (IMEI, SERIAL_NUMBER) has one of them, concurrent posts included |
| | `NeverNegativeAlone`, `AppliedAsStated` | the Python checks are right, when transactions do not overlap |
| | `SoldDevicesMarked` | a handled sale leaves no device it named (and could find) unsold |
| `rules` | `PaidUnitByUnit` | a line earns what its units earn one by one, in the bands they fall into, and what a band from 0 adds for position 0 |
| | `DeletedRuleNeverPays` | a rule deleted before a request began prices nothing for it |
| | `OnlyBetterRulesReprice` | an edit reprices only lines that its own rule governs |
| `sellout` | `StoredIsAnnounced` | stored sales, reversals and approvals were announced, whatever interferes |
| | `AnnouncedIsStored` | announcements are true, and made once, for a document without overlap, patch or lost transaction |
| | `DecidedOnce` | sales, returns and sessions are decided once, without overlap or patch |
| `replenishment` | `OrderedIsAnnounced` | stored orders were announced, completed ones have their delivered event, whatever interferes |
| | `LineReceivedOnce` | no line is booked twice, however often it is delivered and by whom |
| | `SettledIsReceived` | a settled delivery is booked in full or parked |
| | `CancelledNotReceived` | what is not completed is not delivered and not booked, without overlap, patch or lost transaction |
| | `DoneOnce` | orders, pick lists and slips are finished once, without overlap or patch |
| `performance` | `MeasuredIsSold` | a measurement is the sum of its sources, unless two sales of a dealer were handled at a time |
| | `SettledSaleMeasured` | a settled sale is measured for each KPI that had a name, or parked, likewise |
| | `StatusTellsTheMeasure` | an unpatched target is ACHIEVED exactly if a month it was compared with reached its goal, likewise |
| | `DashboardNotAhead` | no target shown as reached is still active once its month was compared, likewise |
| `stockview` | `ViewAgrees` | where nothing is on its way, view and stock agree, with the exceptions named in `departed` |
| | `NeverNegativeShown` | no quantity below zero |
| | `ViewCatchesUp` | every event gets written or stepped over, unless a task has died of a commit that raised |
| `parties` | `WalkIsLineage` | while no parent changes, the hierarchy is the lineage, cycles and foreign parents included |
| | `WalkNeverRepeats` | however parents change under it, nobody twice, nobody foreign, bounded |
| | `WalkEnds` | it is answered |
| | `OnboardingAudited` | a stored dealer was announced and, settled, is in the log exactly once, unless given up |

`double_commission` is expected to find a violation; it is the subject of section 6.
The type invariants are theorems (section 5), for StockView as part of `ViewIInv`.

Why the bounds are enough for what is asked:

- `consumer`: two replicas, partitions of two and one events, three attempts (the
  code's number), two faults. Two replicas and one event behind another are
  needed for a zombie commit that would jump ahead; two faults for a move during
  a retry after a failed commit. The limit counts crashes, broker errors and
  moves; handler exceptions are not limited except by the attempts.
- `commission_*`: two sales of one dealer and month, the first with two lines, so
  that two handler calls meet at one statement; two agreements with different
  earning lines; one return; one agreement change; two attempts (the number
  matters only as one retry and then the end). In `commission_safety` partitions
  move between events and the rules service may be down; in
  `commission_settlement` they move in mid-event and it answers, with agreements
  unchanged, which is what `SettledSaleCommissioned` and `AnnouncedIsRecorded` presuppose. There a third sale is
  not readable, and the offset commit may fail as well.
- `payout`: one statement with two possible totals, a confirmation that cannot be read
  before one that can, two concurrent process calls
  (each at most once), one request by hand, one fault.
- `inventory`: one product at two places, one of them without a row; a sale of it in two
  lines, the first of all there is, with a serial number, delivered any number of
  times; a count of it in two lines, one transfer, two receipts of a device of the same
  serial number, two bodies that register it by hand (as an IMEI; twice as a SERIAL), a
  patch of quantity and status and one of the place; two requests at a time and in all, which
  is enough to complete a transfer twice, to post a receipt twice or to register its
  device in two receipts while sales run. One replica and two request
  slots: a second replica adds nothing a request slot does not do.
- `rules`: five rules (two adjoining bands, the second open; a flat
  amount of equal priority and a percentage of lower priority across them; a band from
  unit 0 of a second specification), created in any order, with one patched agreement and
  one deleted rule; lines on either side of the edge of the bands; one request at a time,
  between whose two statements finance acts.
- `sellout`: two sales (of two lines and of one), a return and a session; two slots
  and five requests, enough to create, reverse, patch back and reverse again while
  another request runs.
- `replenishment`: two orders (of two products; with one product on two lines), a pick
  list and a slip; two slots and four requests, enough to create an order, complete it,
  lose the transaction and complete or cancel it again, or to let two such requests
  overlap; two replicas with any number of attempts on any event.
- `performance`: two sales of a dealer in a month (1.4 million states); a
  specification named after the units, a second one that may be renamed after them; one
  target with one possible patch; two replicas, one fault of the loop, one attempt.
- `stockview`: two locations with one row each, empty at first; two requests in two slots,
  two replicas, two attempts, one fault (an expired key, a crash or a moved partition):
  enough for an adjustment and the transfer after it, or two adjustments of one row, to pass
  each other on the way and in either store, and for a row to move under one of them. Commands
  and commits may fail at any time.
- `parties`: three parties, of which patches make any graph; a walk of at most two (the
  code's bound is 20) started again and again, so that a cycle, the bound and a root are
  all met; one dealer with up to two copies of its event, two audit replicas.

## 4. Fairness

`ConsumerFairness` and `Commission!Fairness`: each consumer task goes on with what
it is doing (one weak fairness condition per replica, over all steps of its loop),
because it is one coroutine that only an exception leaves, started by `lifespan`;
a confirm request that has been accepted goes on to its end. Nothing makes a
crash, a broker error, a rebalance, an agreement change or a new request happen.
A failing handler is not assumed to succeed in the end; it is parked after its
attempts. A task that has died takes no step, and the properties except it
(`EveryEventSettled`, `AnnouncedIsRecorded`, `ViewCatchesUp`). In StockView likewise each
replica's consumer goes on until it dies (`ConsumerStep`), in
Parties a request for a hierarchy does (`WalkStep`). The liveness properties hold under
this and nothing else. The other modules state safety only.

## 5. What is proved

For every number of replicas, partitions, events, attempts and faults, from the
named assumptions of the modules (`ConsumerAssumption`, `CommissionAssumption`,
`PayoutAssumption`, `RulesAssumption`, `InventoryAssumption`,
`SellOutAssumption`, `ReplenishmentAssumption`, `PerformanceAssumption`, `SalesKeyedByDealer`,
`PartiesAssumption`, `StockViewAssumption`):

| theorem | says |
|---|---|
| `ConsumerTyping` | type invariant of the loop |
| `NothingLost` | `NoEventLost`, given a dead letter producer |
| `ExclusiveHandling` | `OneHandlerAtATime` |
| `ImplementsStream` | the loop implements `EventStream` |
| `RunsTheLoop` | the commission service implements the loop, hence inherits all of these |
| `CommissionTyping` | type invariant of the service |
| `LogMatchesLedger` | `ProcessedIffCommissioned`, partitions moving in mid-event included |
| `NothingUnannounced` | `LedgerAnnounced`, likewise |
| `NoDoubleCommission` | `CommissionedOnce`, if partitions move only between events |
| `TotalsReconcile` | `StatementReconciles`, likewise: statement totals are sums over the ledger |
| `SettledIsCommissioned` | `SettledSaleCommissioned` of readable sales, with a dead letter producer, a rules service that answers and agreements that stay |
| `ConfirmedTotalAnnounced` | `ConfirmedAsAnnounced`, overlapping confirmations and sales included |
| `PayoutRunsTheLoop` | so does the payout service |
| `PayoutTyping` | type invariant of requests, payments and calls |
| `CompletedWasPaid` | `CompletedIsPaid`, for any number of overlapping and failing calls |
| `ConfirmationsRequested` | `ConfirmationRequested` of readable confirmations, given a dead letter producer |
| `RulesTyping` | type invariant of agreements, rules and requests |
| `DeletedNeverPays` | `DeletedRuleNeverPays` |
| `EditingIsLocal` | `OnlyBetterRulesReprice`, for every rule set and every line |
| `UnitsPayTheAmount` | `PaidUnitByUnit`: the sum over bands is the sum over units, for any set of rules of which no band ends before it starts; position 0 is paid where a band starts at 0 |
| `WellFormed` | type invariant of stock, documents, devices and transactions, and the form of each operation |
| `NothingLost` | `StockConserved`, for any number of overlapping and failing transactions |
| `ReceiptsBookedOnce` | `ReceivedOnce`, any receipts with overlapping serial numbers, concurrent posts and registrations included |
| `NamedDevicesSold` | `SoldDevicesMarked`, redelivered and overlapping sales included |
| `AloneNeverNegative`, `BookedAsStated` | `NeverNegativeAlone`, `AppliedAsStated`, for sales and counts of any lines, products repeated or not |
| `SellOutTyping` | type invariant of sales, returns, sessions and requests |
| `NothingStoredUnannounced` | `StoredIsAnnounced`, overlapping requests and patches included |
| `OneDecision`, `NothingAnnouncedInVain` | `DecidedOnce`, `AnnouncedIsStored` |
| `ReplenishmentTyping` | type invariant of orders, warehouse documents, requests and the delivery consumer |
| `OrdersAnnounced` | `OrderedIsAnnounced` |
| `BookedOnce`, `DeliveriesBooked` | `LineReceivedOnce`, `SettledIsReceived` |
| `DoneAtMostOnce`, `CancelledStaysOut` | `DoneOnce`, `CancelledNotReceived` |
| `PerformanceRunsTheLoop`, `MeasureTyping` | the performance service implements the loop; its type invariant |
| `SalesNeverCross` | no two of a dealer's sales are handled at a time, if partitions move only between events |
| `MeasurementsAreSales` | `MeasuredIsSold`, for any replicas, sales, specifications, renamings and retries |
| `SettledSalesMeasured` | `SettledSaleMeasured`, given a dead letter producer |
| `StatusIsTheMeasure`, `DashboardsNotAhead` | `StatusTellsTheMeasure`, `DashboardNotAhead`, for any targets, patches and dashboards |
| `ViewInvariant` | types of both sides, row locks, and what the view shows: with what is still to be written, it is what a location holds |
| `ViewAgreesAlways`, `NeverLessThanNothing` | `ViewAgrees`, `NeverNegativeShown`, for any number of rows, changes, replicas, crashes and expiries |
| `PartiesTyping` | type invariant of parties, walks and the audit log |
| `HierarchyIsLineage`, `HierarchyNeverRepeats` | `WalkIsLineage`, `WalkNeverRepeats`, for any table of parents |
| `OnboardingIsAudited` | `OnboardingAudited`, for any replicas, copies and attempts |

*Consumer loop.* `NoEventLost` is not inductive: a commit is justified by what
the replica remembers. `ConsumerIInv` adds `HandInv`: the event in hand lies at most
one beyond the committed offset, a replica that still holds the partition is its
owner and not behind, a replica about to commit has seen its handler return, one
about to skip has parked the event. Every step except a rebalance touches one
task and at most the offset of its partition (`TouchesOnly`, `StepInv`), so each
action is proved by its own effect. The refinement follows action by action:
`HandlerReturns` is `Handle`, a commit that moves an offset is `Settle` (`HandInv`
gives its guard), `RouteToDlq` is `DeadLetter`, all others stutter.

*Commission.* `ServiceIInv` adds to types and consumer invariant that an open
transaction belongs to a sale in hand whose agreement is chosen, that a written
row is a line that earns, that it was announced if it is past `PublishCalculated`,
and that a transaction with a row and no mark has its key committed already: this
is what makes `MarkProcessed` with a taken key preserve `ProcessedIffCommissioned`.
For `CommissionedOnce`, `RowIsFirst` says that whoever has inserted a row for a
pair finds no committed mark of it; two replicas cannot both be there because,
by `OneHandlerAtATime` and `KeyedByDealer`, all sales of a dealer are in one
partition and in one hand (`OpenTransactionsDiffer`). This is the assumption the
run `double_commission` drops.

`SettleIInv` (for `SettledSaleCommissioned`) follows a sale line by line (`PassedOver`): the
lines a transaction without a row has left behind earn nothing, or the sale is marked
already, so that a handled event has its row; what is settled is handled or parked by
`NoEventLost`. That an outage reads as "no agreement", and that the agreement may change
between two attempts, is what the assumptions exclude.
`ReconcileIInv` (for `StatementReconciles`) adds `SeenIsCurrent`: what was read of a
statement is what it holds until it is written back, since whoever else adds to it would
have a sale of the same dealer in hand (`OneHandlerAtATime`, `KeyedByDealer`). The ledger's
totals are `SumFunction` over the ledger, taken apart by the lemmas of `Sums`.
For `ConfirmedAsAnnounced`, `LockInv` says that a confirmation holds the row from its write
to its commit, with no handler and no other confirmation in it, and that the last event
sent for it carries the total that the row still has.

*Sums.* The provers cannot instantiate the library's induction theorems (their predicates
are operators), and the community modules state nothing about `SumFunction`, a fold with a
recursive function under it. `Sums` states the induction for sets in place of predicates: a
set of numbers, or of finite sets, that is not empty has a least member (from the
well-foundedness of `<`), so that a counterexample has a smaller one. From this come a sum
one summand at a time (`SumIs`, `SumTakeOut`, `SumAdded`), the sum of two functions, of a
part of the summands, of zeros and of equal summands (`SumConstant`).

*Payout.* `PayoutIInv` adds to types and the loop's invariant that a transaction is open
only in a handler call, that a call that was told COMPLETED and has not failed leaves
a payment of its request behind (which is what makes the last of several overlapping calls
right, whichever it is), and that a handled event has its request. A settled one is
handled or parked by `NoEventLost`, and no step changes the statement or the amount of a row.

*Rules.* What a request holds was taken from the rules as they were after it found its
agreement: `RulesIInv` says that existing and deleted rules are disjoint, that what was
deleted before a request began stays deleted and is not in its answer, and that lines are
priced by rules of the answer only. `EditingIsLocal` needs no reachability beyond types:
the matching rules of a line change by at most the rule that was edited, and the lowest
priority among them is theirs before and after. `UnitsPayTheAmount` needs the lemma that
one unit more is in exactly the bands that take it (`OneUnitMore`), and then goes up unit
by unit (`BandsUnitByUnit`, by the least number for which the two sums would differ).

*Inventory.* `FormIInv` adds to types what each operation may have written at each
statement (`TxOK`: its document, the rows, lines and devices it points at). Steps are
sorted into few kinds (`StepCases`: a statement, a beginning, a commit, a rollback, a row
inserted by itself), so that an invariant is proved once per kind; `StatementEffect` says
what a statement leaves alone.
`BooksIInv` adds, per open transaction, what its moves and new rows add up to at each
statement (`Due`: a transfer nets to minus its quantity between debit and credit, then to
nothing); it says nothing of what others have read, which is why a commit, an atomic
addition to the committed row, preserves it however transactions overlap. The moves are
functions on finite sets of rows, summed by `Sums`.
`ReceiptsIInv`: committed identity values are unique, a receipt's devices are all there and
have identity names, and the values of open transactions differ from those and from each
other, which is what
`IdentityFree` and `NumberFree` (the unique indexes) are for.
`DevicesIInv`: of what a sale has looked up so far, each device that existed when it began
and that the lookup finds is among those it will mark. A value that an IMEI registered
later takes over is no longer found as a SERIAL, and excepted, as in the property.
`DocumentsIInv` and `CoveredIInv` are for transactions that do not overlap: `Alone` (one is
open at most), and then what a transaction has read is still so: its document's status;
that each row bears the moves made so far (`Fits`), that what the session keeps of a row is
what is committed (`Held`), so that a line of a product that stood on an earlier one is
checked against what that one left, and that the row at hand bears the move to come
(`Checked`). Overlap breaks exactly these two, as section 6 says.

*Sell-out.* `AnnouncedInv` says of each request that its document is one its
operation is for, that an updated sale exists, and that a request past its send has
sent: so whatever it commits was announced. `DecidedInv` adds, for each document
without overlap and patch, that at most one request has it in hand, that this one
still finds the status it checked (which is what an overlap breaks), and how many
decisions and events lie behind each status.

*Replenishment.* `OrderIInv`: a request's document is one its operation is for, and one
past its send has sent. `ReceiptIInv`: each booked line has left its number behind, which
is why a second post of it is refused; a handler call at line `l` has the lines before it
booked, so that an event whose handler returned, and hence a settled one that is not
parked, is booked in full. `DoneIInv` is the counterpart of `DecidedInv`: while one
request at most has an order in hand, what that request read is still so, and completions
and delivered events follow from the status.

*Performance.* `MeasureIInv` holds the loop's invariant, types, that a transaction is open
only in a handler call, and, until two transactions of one dealer have been open at a time
(`crossed`), `AloneIInv`. Open transactions are then of different dealers (`AloneOpen`),
so nobody else commits to the rows and targets one of them has read, and what it read is
still so: the row a KPI goes to is the one there is (`RowFor`), what it wrote is that row
with its sale added (`Plus`, `WritesOK`), and a target it sets is one that the new value
reaches (`NewsOK`), but for targets patched meanwhile, which are excepted. A commit thus
changes one row for each KPI that has a name, and of the sum behind it one summand, by one
more delivery (`CommitSums`, with `SumChanged` of `Sums`). At most one row for each
dealer, specification and month (`OneRowEach`) is what keeps the look-up from raising and
from inserting twice. `StatusOK` follows as a value only grows and no target is compared
with a month outside its term, `ShownReached` as what a dashboard has read is a lower
bound of what the row holds. `SalesNeverCross` is the step from there to all states: sales
of one dealer lie in one partition (`SalesKeyedByDealer`), of which one replica at a time
has an event in hand.

*Stock view.* What a location holds for the view (`Held`) is what its rows hold on hand, and
what the open requests that have sent their event are about to add or take: the
event is sent before the commit. `TellsOK`: an adjustment of the only row that holds
anything, with the transfers that follow it in the log, tells exactly that.
`ShownOK`: what is shown, with the transfers still to be written, is it as well, unless the
view has `departed` or an adjustment is still to be written, which then replaces what
is shown. `LocksOK` are the row locks: while a request that sent its event is open,
nothing more is sent about its row, so that the event of one that fails is the latest, and the
departure it causes is marked. A row that is moved takes its quantity along and marks both
places; a request that has read it before still tells of the old one, and marks the
new one (`Strays`). Every step either moves one summand of both sides alike
(`MovedTakeOut`), makes what is shown of what an adjustment tells, or is marked as departed.

*Parties.* `WalksOK` says what a walk has found on its way up: stored parties, none twice,
`max_depth` at most, beginning with the one asked for and, unless a patch has marked the
walk as moved, each the child of the next (`Climbing`); the last turn reverses it
(`TheAnswer`). Only a patch moves the parent of a stored party, so every other step keeps
it (`WalkKept`). `AuditOK` is what audit-service owes: an insert that is not committed is
the only one of its party and has no row yet, every other insert or commit has found the
row there, and an offset past an event means a row or an event given up.

## 6. Where the code differs from what is said of it

The run `double_commission` ends in a counterexample to `CommissionedOnce`: with a
rebalance in mid-event two replicas insert a row each, and the savepoint drops only the
second log entry, against what the repository says of the entry; PROJECT.json quotes it.

The following were met while modelling. The models do what the code does, and the
properties are stated so as to except exactly this; there is no run for them.

Commission and payout:
- The first line of a sale leaves the mark that a sale "has been successfully processed"
  (commission `models.py:81-84`), and the guard asks for it at every line
  (`sell_out_consumer.py:81`): the other lines are skipped and earn nothing.
- The clawback insert raises each time, as its source id starts with "CLAWBACK-" and the
  column is a UUID (`return_consumer.py:48`): the return is parked. A return handled
  before its sale finds nothing and is settled.
- An outage of the rules service reads as "no agreement" and loses the commission
  (against DESIGN-PRINCIPLES.md:204). It may have been announced: when the commit failed
  and the redelivery meets the outage, or an agreement that has ended meanwhile, the
  calculated event stays without a row, which is why `AnnouncedIsRecorded` has its premises.
- A later sale adds to a statement that was confirmed (OPERATIONS-MANUAL.md:203).
- A payout request that was paid can be processed, and paid, again (OPERATIONS-MANUAL.md:214,
  DESIGN-PRINCIPLES.md:61); a redelivered confirmation makes a second request.

- A tiered band that starts at 0, which is the default of `tier_min_qty` (commission-rules
  `models.py:97`), counts one unit more than were sold (`rule_evaluator.py:140`), against the
  docstring above it. `PaidUnitByUnit` states what is paid, the excess included.

Stock:
- Two concurrent completions of one transfer both move the stock.
- A redelivered sale is deducted again (ADR-002 asks for idempotent consumers).
- A goods receipt registers its devices under "SERIAL_NUMBER" (inventory `services.py:357`),
  while the sale looks them up as "IMEI" and then as "SERIAL" (`sell_out_consumer.py:85-95`):
  a device that came with a receipt is never marked SOLD. `CharacteristicName`
  (`models.py:301`) exists "to ensure consistent lookups". `SoldDevicesMarked` speaks of
  devices registered under the names the handler asks for.
- The stock check of a sale asks a path that no endpoint serves and reads the 404 as "no
  stock" (sell-out `services.py:59`, OPERATIONS-MANUAL.md:68); in the default deployment its
  address has the wrong port, and every sale passes unchecked.
- A delivery of which a later line fails, or with two lines of one product, is never
  received in full, as its first receipt number is refused on every retry.
- A completion and a cancellation of one order that overlap leave a cancelled order whose
  goods are received.
- The warehouse publishes none of the events README.md:180 and :188 name, and a packing slip
  needs a pick list, not a completed one (`packing_slip.py:23`).

Views and targets:
- The stock view's consumer is promised a dead letter topic (`inventory_consumer.py:7`) and
  given none (`:63`): an event that fails three times is gone. When the commit that steps over
  it raises as well, the task ends and the view stands still until the service is
  restarted (`consumer_factory.py:82`, stock-query `main.py:73`). Receipts, new rows and patches
  never reach the view (DESIGN-PRINCIPLES.md:89). A key that expired gives a 404 that is
  documented as "never been indexed" (`stock_query.py:58`), and a transfer to it starts
  from zero; restarting the service (OPERATIONS-GUIDE.md:192) does not rebuild it.
- Performance targets are never MISSED (`sell_out_consumer.py:106`): the branch needs a month
  after the end of a target, and the query selects only targets whose term contains the
  month (`repository.py:186-203`), against lines 7-8. `StatusTellsTheMeasure` says nothing of
  MISSED. Reversals are not subtracted from a measurement. Two first sales of a month at a time
  leave two measurements, after which each later one raises.

Parties and events:
- `audit_topics` lists nine of about twenty topics, against "Every event in the system"
  (BUSINESS-GUIDE.md:112); an event that fails three times is not logged (`main.py:55`).
- A PATCH can neither clear a parent nor is it checked for cycles or for another tenant's
  party; a party that becomes a dealer by PATCH is not announced.
- No event carries the email or phone the notification handlers look for, so that none of
  them has an effect (BUSINESS-GUIDE.md:60 promises one).

## 7. Only model-checked, not modelled

Liveness (`EveryEventSettled`, `AnnouncedIsRecorded`, `ViewCatchesUp`, `WalkEnds`) is beyond
the prover. All other properties of the passing runs are theorems.

Not modelled: token checks, tenants (all state is per tenant and never crosses, but for a
party's parent), message formats, rounding (amounts are whole), the frontend, deployment and
seed data. The producer tries a send three times; in `Parties` the topic may hold the copies,
elsewhere it is one send that happens or raises, since a repeated event is a repeated
delivery there. The payout scheduler runs an empty job. Rows that are only inserted, edited
and listed (locations, bins, agreement specifications, the product catalogue, a party's
characteristics) interact with nothing. The notification handlers have no state and no effect.

## 8. Plan

In the order of importance. All parts that interact are modelled.

1. `EventStream`, `KafkaConsumer`: delivery. Proved.
2. `Commission`: money earned. Safety proved.
3. `Payout`: money paid. Proved.
4. `Inventory`: stock and devices. Proved.
5. `CommissionRules`: rules and what they pay. Proved.
6. `SellOut`: sales, returns, sessions. Proved. To compose with the return handler
   of `Commission`, once a clawback can be stored.
7. `Replenishment`: sell-in orders and the warehouse. Proved. To compose with the goods
   receipts of `Inventory`.
8. `StockView`: the stock as the storefront sees it. Safety proved. `Performance`: sales
   measured against targets. Proved.
9. `Parties`: hierarchy and audit. Proved except that a walk ends.
