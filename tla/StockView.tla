------------------------------ MODULE StockView ------------------------------
(***************************************************************************)
(* The stock view of stock-query-service (Redis, one hash per location) of *)
(* one product, and the requests of inventory-service it is fed by: an     *)
(* adjustment announces the quantity it computed, a transfer what it moved *)
(* and from where to where; receipts, new rows and patches, also one that  *)
(* moves a row to another location, tell the view nothing.                 *)
(*                                                                         *)
(* The events of one row are one partition, so are those of one transfer:  *)
(* the view gets each partition in order and several at a time.  A handler *)
(* call is a sequence of Redis commands, and may fail between any two.     *)
(* Redis and PostgreSQL (READ COMMITTED) are external.  Locks, refusals    *)
(* and documents of inventory-service are the business of Inventory; here  *)
(* a transfer updates both its rows in one step.                           *)
(***************************************************************************)
EXTENDS Integers, Sequences, FiniteSetsExt, Functions

CONSTANTS
  Locations,
  Rows,          \* product_inventory rows of the product
  LocationOf,    \* LocationOf[r]: where row r is at the start
  Opening,       \* Opening[r]: what it holds at the start
  Slots,         \* requests of inventory-service that may be open at a time
  Replicas,       \* replicas of stock-query-service, one consumer task each
  Deltas,        \* quantities an adjustment may ask for
  Quantities,    \* quantities a transfer may move
  MaxChanges,    \* bound on the number of requests
  MaxAttempts,    \* MAX_RETRIES
  Absent,        \* the quantity of a location the view knows nothing of
  MaxFaults      \* bound on expired hashes, crashes and moves of partitions

ASSUME StockViewAssumption ==
  /\ LocationOf \in [Rows -> Locations]
  /\ Opening \in [Rows -> Nat]
  /\ IsFiniteSet(Rows) /\ IsFiniteSet(Slots)
  /\ Absent \notin Int
  /\ Deltas \subseteq Int
  /\ Quantities \subseteq Nat \ {0}
  /\ MaxChanges \in Nat /\ MaxFaults \in Nat
  /\ MaxAttempts \in Nat \ {0}

VARIABLES
  stock,      \* stock[r]: the committed quantity of row r
  site,       \* site[r]: its committed location
  tx,         \* tx[x]: the request in slot x
  changes,    \* how many requests were made
  log,        \* log[k]: the events of partition k, in the order they were sent
  clock,      \* how many events were sent and quiet changes committed
  quiet,      \* quiet[l]: when a change at l was last committed that sends no event
  consumed,   \* consumed[k]: how many events of k are done with
  hand,       \* hand[w]: the event replica w has in hand, and how far it is
  shown,      \* shown[l]: available_quantity of the hash of l
  written,    \* <<k, i, l>>: event i of k has been written to l, or given up
  departed,   \* locations whose hash something made depart from the stock
  faults      \* how many faults have happened

inventoryVars == <<stock, site, tx, changes, log, clock, quiet>>
viewVars == <<consumed, hand, shown, written, departed, faults>>
stockViewVars == <<inventoryVars, viewVars>>

Partitions == Rows \cup 1..MaxChanges   \* a transfer has the number of its request
NoTx == [kind |-> "none", step |-> "idle", from |-> {}, to |-> {}, source |-> "nowhere",
         destination |-> "nowhere", seen |-> 0, amount |-> 0, number |-> 0, sent |-> 0]
EmptyHand == [part |-> 0, pos |-> 0, attempt |-> 0, step |-> "idle", seen |-> Absent]
Dead == [EmptyHand EXCEPT !.step = "dead"]   \* consume() has been left

OnHand(l) == SumFunction([r \in Rows |-> IF site[r] = l THEN stock[r] ELSE 0])

ViewInit ==
  /\ stock = Opening
  /\ site = LocationOf
  /\ tx = [x \in Slots |-> NoTx]
  /\ changes = 0
  /\ log = [k \in Partitions |-> <<>>]
  /\ clock = 0
  /\ quiet = [l \in Locations |-> 0]
  /\ consumed = [k \in Partitions |-> 0]
  /\ hand = [w \in Replicas |-> EmptyHand]
  /\ shown = [l \in Locations |-> Absent]
  /\ written = {}
  /\ departed = {l \in Locations : OnHand(l) # 0}
  /\ faults = 0

-----------------------------------------------------------------------------
(* inventory-service: adjust_stock and complete_transfer.                  *)

Touched(t) == t.from \cup t.to
Locks(x, r) == tx[x].step = "sent" /\ r \in Touched(tx[x])

Begin(x, t) ==
  /\ tx[x] = NoTx
  /\ changes < MaxChanges
  /\ changes' = changes + 1
  /\ tx' = [tx EXCEPT ![x] = [t EXCEPT !.number = changes + 1]]
  /\ UNCHANGED <<stock, site, log, clock, quiet, viewVars>>

\* get_by_id and the check of what it returned.
AdjustRead(x, r, delta) ==
  /\ stock[r] + delta >= 0
  /\ Begin(x, [NoTx EXCEPT !.kind = "adjust", !.step = "read", !.from = {r}, !.source = site[r],
                           !.destination = site[r], !.seen = stock[r], !.amount = delta])

\* A transfer may also stay within a location, and even at one row.
TransferRead(x, from, to, quantity) ==
  /\ stock[from] >= quantity
  /\ Begin(x, [NoTx EXCEPT !.kind = "transfer", !.step = "read", !.from = {from}, !.to = {to},
                           !.source = site[from], !.destination = site[to],
                           !.seen = stock[from], !.amount = quantity])

\* What the event tells: where the rows were when they were read, and of an adjusted row
\* the quantity read plus the delta.  `holds` is history: the rows are still there, the
\* quantity is the one the update left, and a transfer is between two locations.
EventOfTx(t) ==
  [kind |-> t.kind, no |-> clock + 1, from |-> t.source, to |-> t.destination,
   amount |-> IF t.kind = "adjust" THEN t.seen + t.amount ELSE t.amount,
   holds |-> /\ \A r \in t.from : site[r] = t.source
             /\ \A r \in t.to : site[r] = t.destination
             /\ IF t.kind = "adjust" THEN \A r \in t.from : stock[r] = t.seen
                ELSE t.source # t.destination]

PartitionOf(t) == IF t.kind = "adjust" THEN CHOOSE r \in t.from : TRUE ELSE t.number

\* A row that was moved since it was read is changed where nobody is told so.
Places(t) == {site[r] : r \in Touched(t)}
Strays(t) == Places(t) \ {t.source, t.destination}

\* adjust_quantity takes the row locks; the event goes out before the commit.
UpdateAndSend(x) ==
  /\ tx[x].step = "read"
  /\ \A r \in Touched(tx[x]), y \in Slots \ {x} : ~Locks(y, r)
  /\ log' = [log EXCEPT ![PartitionOf(tx[x])] = Append(@, EventOfTx(tx[x]))]
  /\ clock' = clock + 1
  /\ tx' = [tx EXCEPT ![x].step = "sent", ![x].sent = Len(log[PartitionOf(tx[x])]) + 1]
  /\ quiet' = [l \in Locations |-> IF l \in Strays(tx[x]) THEN clock + 1 ELSE quiet[l]]
  /\ departed' = departed \cup Strays(tx[x])
  /\ UNCHANGED <<stock, site, changes, consumed, hand, shown, written, faults>>

CommitChange(x) ==
  /\ tx[x].step = "sent"
  /\ LET delta == IF tx[x].kind = "adjust" THEN tx[x].amount ELSE -tx[x].amount IN
     stock' = [r \in Rows |-> stock[r] + (IF r \in tx[x].from THEN delta ELSE 0)
                                       + (IF r \in tx[x].to THEN tx[x].amount ELSE 0)]
  /\ tx' = [tx EXCEPT ![x] = NoTx]
  /\ UNCHANGED <<site, changes, log, clock, quiet, viewVars>>

\* The request fails; what it sent stays in the log, and tells what never happened.
Fails(x) ==
  /\ tx[x] # NoTx
  /\ log' = IF tx[x].sent = 0 THEN log
            ELSE [log EXCEPT ![PartitionOf(tx[x])][tx[x].sent].holds = FALSE]
  /\ departed' = IF tx[x].sent = 0 THEN departed
                 ELSE departed \cup Places(tx[x])
  /\ tx' = [tx EXCEPT ![x] = NoTx]
  /\ UNCHANGED <<stock, site, changes, clock, quiet, consumed, hand, shown, written, faults>>

\* A receipt adds to a row, POST makes one, PATCH sets its quantity, its location or
\* both: none of them sends an event the view is subscribed to.  (Of the status of a row
\* the view knows nothing.)
QuietChange(r, delta, l) ==
  /\ changes < MaxChanges
  /\ \A y \in Slots : ~Locks(y, r)
  /\ delta # 0 \/ l # site[r]
  /\ stock[r] + delta >= 0
  /\ changes' = changes + 1
  /\ stock' = [stock EXCEPT ![r] = @ + delta]
  /\ site' = [site EXCEPT ![r] = l]
  /\ clock' = clock + 1
  /\ quiet' = [quiet EXCEPT ![site[r]] = clock + 1, ![l] = clock + 1]
  /\ departed' = departed \cup {site[r], l}
  /\ UNCHANGED <<tx, log, consumed, hand, shown, written, faults>>

-----------------------------------------------------------------------------
(* InventoryConsumer and StockReadModel.                                   *)

InHand(w) == log[hand[w].part][hand[w].pos]
Positions == UNION {{k} \X DOMAIN log[k] : k \in Partitions}
Touching(l) == {x \in Positions : l \in {log[x[1]][x[2]].from, log[x[1]][x[2]].to}}
View(l) == IF shown[l] = Absent THEN 0 ELSE shown[l]

Goes(w, step, seen) == hand' = [hand EXCEPT ![w].step = step, ![w].seen = seen]

Fault == faults < MaxFaults /\ faults' = faults + 1

\* The next event of a partition, which the old owner of the partition may still have
\* in hand as well.
FetchEvent(w, k) ==
  /\ hand[w] = EmptyHand
  /\ consumed[k] < Len(log[k])
  /\ \/ (\A v \in Replicas : hand[v].part # k) /\ UNCHANGED faults
     \/ (\E v \in Replicas : hand[v].part = k) /\ Fault
  /\ hand' = [hand EXCEPT ![w] = [EmptyHand EXCEPT !.part = k, !.pos = consumed[k] + 1,
                                                    !.step = "begin"]]
  /\ UNCHANGED <<inventoryVars, consumed, shown, written, departed>>

\* The write of w at l is exact if the event tells what happened, everything that came
\* before it has been written to l and nothing that came after it.  Transfers are
\* relative to what l shows, in any order among themselves, but not to be repeated;
\* adjustments tell the quantity of one row.
Here(w) == <<hand[w].part, hand[w].pos>>
InOrder(w, l) ==
  \A x \in Touching(l) \ {Here(w)} :
    LET e == log[x[1]][x[2]] IN
    e.kind = "adjust" \/ InHand(w).kind = "adjust" =>
      (e.no < InHand(w).no <=> <<x[1], x[2], l>> \in written)
ExactAdjustment(w, l) ==
  /\ InHand(w).holds /\ InOrder(w, l)
  /\ quiet[l] < InHand(w).no
  /\ Cardinality({r \in Rows : site[r] = l}) = 1
ExactMove(w, l) ==
  /\ InHand(w).holds /\ InOrder(w, l)
  /\ <<hand[w].part, hand[w].pos, l>> \notin written
  /\ hand[w].seen = shown[l]

Write(w, l, quantity, after) ==
  /\ shown' = [shown EXCEPT ![l] = quantity]
  /\ written' = written \cup {<<hand[w].part, hand[w].pos, l>>}
  /\ departed' = after
  /\ UNCHANGED <<inventoryVars, consumed, faults>>

\* Mutant: the quantity of an adjustment is added like that of a transfer.
AddQuantity(w) ==
  /\ hand[w].step = "begin" /\ InHand(w).kind = "adjust"
  /\ LET l == InHand(w).from IN
       /\ Write(w, l, View(l) + InHand(w).amount,
                IF ExactAdjustment(w, l) THEN departed \ {l} ELSE departed \cup {l})
       /\ Goes(w, "commit", Absent)

\* update_from_adjustment: the quantity is set, whatever it was.
SetQuantity(w) ==
  /\ hand[w].step = "begin" /\ InHand(w).kind = "adjust"
  /\ LET l == InHand(w).from IN
       /\ Write(w, l, InHand(w).amount,
                IF ExactAdjustment(w, l) THEN departed \ {l} ELSE departed \cup {l})
       /\ Goes(w, "commit", Absent)

\* update_from_transfer: the source, then the destination, each read and written.
ReadSource(w) ==
  /\ hand[w].step = "begin" /\ InHand(w).kind = "transfer"
  /\ Goes(w, "source", shown[InHand(w).from])
  /\ UNCHANGED <<inventoryVars, consumed, shown, written, departed, faults>>

\* Mutant: the floor is forgotten.
LessUnbounded(seen, quantity) == IF seen = Absent THEN Absent ELSE seen - quantity

\* A source the view does not know is left alone; one with too little is set to zero.
Less(seen, quantity) == IF seen = Absent THEN Absent ELSE Max({0, seen - quantity})

WriteSource(w) ==
  /\ hand[w].step = "source"
  /\ LET l == InHand(w).from
         floor == View(l) < InHand(w).amount IN
       Write(w, l, IF hand[w].seen = Absent THEN shown[l]
                   ELSE Less(hand[w].seen, InHand(w).amount),
             IF ExactMove(w, l) /\ ~floor THEN departed ELSE departed \cup {l})
  /\ Goes(w, "moved", Absent)

ReadDestination(w) ==
  /\ hand[w].step = "moved"
  /\ Goes(w, "destination", shown[InHand(w).to])
  /\ UNCHANGED <<inventoryVars, consumed, shown, written, departed, faults>>

\* A destination the view does not know starts with what was moved.
WriteDestination(w) ==
  /\ hand[w].step = "destination"
  /\ LET l == InHand(w).to IN
       Write(w, l, (IF hand[w].seen = Absent THEN 0 ELSE hand[w].seen) + InHand(w).amount,
             IF ExactMove(w, l) THEN departed ELSE departed \cup {l})
  /\ Goes(w, "commit", Absent)

\* commit() of the offset; that of a replica which lost the partition has no effect.
OffsetAfterCommit(w) == [consumed EXCEPT ![hand[w].part] = Max({@, hand[w].pos})]

SettleEvent(w) ==
  /\ hand[w].step = "commit"
  /\ consumed' = OffsetAfterCommit(w)
  /\ hand' = [hand EXCEPT ![w] = EmptyHand]
  /\ UNCHANGED <<inventoryVars, shown, written, departed, faults>>

\* Mutant: an event is tried until it goes through.
TriedAgain(t) == [t EXCEPT !.step = "begin", !.seen = Absent]

\* A Redis command raised: the handler is called again, MaxRetries times at most.
TriedOnceMore(t) ==
  [t EXCEPT !.attempt = @ + 1, !.seen = Absent,
            !.step = IF t.attempt + 1 < MaxAttempts THEN "begin" ELSE "skip"]

CommandRaises(w) ==
  /\ hand[w].step \in {"begin", "source", "moved", "destination"}
  /\ hand' = [hand EXCEPT ![w] = TriedOnceMore(@)]
  /\ UNCHANGED <<inventoryVars, consumed, shown, written, departed, faults>>

\* Everything is written, and the last expire raises, or commit(), which stands in the
\* same try and may raise although it was applied.
CommitRaises(w) ==
  /\ hand[w].step = "commit"
  /\ consumed' \in {consumed, OffsetAfterCommit(w)}
  /\ hand' = [hand EXCEPT ![w] = TriedOnceMore(@)]
  /\ UNCHANGED <<inventoryVars, shown, written, departed, faults>>

\* consume() is given no dlq_producer: the event is stepped over and gone.
StepOver(w) ==
  LET missed == {l \in {InHand(w).from, InHand(w).to} :
                   <<hand[w].part, hand[w].pos, l>> \notin written} IN
  /\ consumed' = OffsetAfterCommit(w)
  /\ departed' = departed \cup missed
  /\ written' = written \cup {<<hand[w].part, hand[w].pos, l>> : l \in missed}

Skip(w) ==
  /\ hand[w].step = "skip"
  /\ StepOver(w)
  /\ hand' = [hand EXCEPT ![w] = EmptyHand]
  /\ UNCHANGED <<inventoryVars, shown, faults>>

\* Nothing catches an exception of the commit that steps over an event, whether it was
\* applied or not: it leaves consume(), and the task main.py started is gone.
TaskDies(w) ==
  /\ hand[w].step = "skip"
  /\ StepOver(w) \/ UNCHANGED <<consumed, departed, written>>
  /\ hand' = [hand EXCEPT ![w] = Dead]
  /\ UNCHANGED <<inventoryVars, shown, faults>>

\* The replica restarts with the first event that is not settled, with a task if it had
\* lost it.
ReplicaCrash(w) ==
  /\ hand[w] # EmptyHand
  /\ Fault
  /\ hand' = [hand EXCEPT ![w] = EmptyHand]
  /\ UNCHANGED <<inventoryVars, consumed, shown, written, departed>>

\* Nothing has been written to the hash for key_ttl seconds.
Expire(l) ==
  /\ shown[l] # Absent
  /\ Fault
  /\ shown' = [shown EXCEPT ![l] = Absent]
  /\ departed' = departed \cup {l}
  /\ UNCHANGED <<inventoryVars, consumed, hand, written>>

-----------------------------------------------------------------------------
InventoryStep ==
  \/ \E x \in Slots :
       \/ \E r \in Rows : \/ \E delta \in Deltas : AdjustRead(x, r, delta)
                          \/ \E to \in Rows, q \in Quantities : TransferRead(x, r, to, q)
       \/ UpdateAndSend(x) \/ CommitChange(x) \/ Fails(x)
  \/ \E r \in Rows, delta \in Deltas \cup {0}, l \in Locations : QuietChange(r, delta, l)

ConsumerStep(w) ==
  \/ \E k \in Partitions : FetchEvent(w, k)
  \/ SetQuantity(w)
  \/ ReadSource(w) \/ WriteSource(w) \/ ReadDestination(w) \/ WriteDestination(w)
  \/ SettleEvent(w) \/ Skip(w)

ViewNext ==
  \/ InventoryStep
  \/ \E w \in Replicas : \/ ConsumerStep(w) \/ CommandRaises(w) \/ CommitRaises(w)
                           \/ TaskDies(w) \/ ReplicaCrash(w)
  \/ \E l \in Locations : Expire(l)

(* The consume loop goes on by itself until its task dies; nothing makes a  *)
(* command or a commit fail.                                               *)
Fairness == \A w \in Replicas : WF_stockViewVars(ConsumerStep(w))

ViewSpec == ViewInit /\ [][ViewNext]_stockViewVars /\ Fairness

-----------------------------------------------------------------------------
(* Properties.                                                             *)

\* Nothing at l is on its way: no request has changed a row there that it has not
\* committed, and every event about l has been written to it.
AtRest(l) ==
  /\ \A x \in Slots : tx[x].step = "sent" => l \notin Places(tx[x])
  /\ \A x \in Touching(l) : <<x[1], x[2], l>> \in written

\* Once everything about a location has come through, the view shows what is in stock
\* there, unless a change was not announced or announced for another place, an event was
\* announced that did not happen, with a stale quantity or of a transfer within one
\* location, or events were lost, repeated, overtaken, or written to an expired or
\* concurrently read hash since the last exact adjustment: that one, of
\* the only row at its location, repairs whatever happened before (StockReadModel).
ViewAgrees ==
  \A l \in Locations : AtRest(l) /\ l \notin departed => View(l) = OnHand(l)

\* The view never shows less than nothing, whatever is repeated, lost or out of order
\* (update_from_transfer, adjust_stock).
NeverNegativeShown == \A l \in Locations : shown[l] = Absent \/ shown[l] >= 0

\* No event holds up the others for ever: the view catches up with all that was sent,
\* though commands and commits fail and replicas crash now and then, unless the task of a
\* replica has died, which happens when the commit fails that steps over an event, and
\* which nothing but a restart of the service repairs (consume without a dead letter
\* producer, started once in main.py).
ViewCatchesUp ==
  \A k \in Partitions :
    []<>(consumed[k] = Len(log[k]) \/ \E w \in Replicas : hand[w] = Dead)
=============================================================================
