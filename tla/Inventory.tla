------------------------------ MODULE Inventory ------------------------------
(***************************************************************************)
(* inventory-service: stock rows per product and location, changed by the  *)
(* sell-out consumer and by API requests (adjustments, goods receipts,     *)
(* transfers, reconciliations, reservations, patches); and resources, the  *)
(* single devices, which receipts and requests register under a serial     *)
(* number and the consumer marks as sold.                                  *)
(*                                                                         *)
(* Sales come over the stream of EventStream, which the consumer loop of   *)
(* KafkaConsumer implements.  A handler call and an API request are one    *)
(* database transaction each, and their statements are the steps below.    *)
(* The database is PostgreSQL at READ COMMITTED (external): a select sees  *)
(* what is committed, an update waits for whoever has updated the row and  *)
(* then works on the committed row.  A transaction may be refused, raise,  *)
(* crash or fall victim to deadlock detection at any point.                *)
(*                                                                         *)
(* Of a resource's characteristics the model keeps the one it is looked up *)
(* by; its location and the sale it went to are read by nobody.            *)
(***************************************************************************)
EXTENDS EventStream, FiniteSets, Functions

CONSTANTS
  Workers,       \* replicas of the service, one consumer task each
  Calls,         \* slots for API requests that run at the same time
  Products, Locations,
  Serials,       \* serial numbers, IMEIs and the like
  Opening,       \* the product_inventory rows the service starts with
  Transfers,     \* transfer orders,
  TransferOf,    \*   TransferOf[t]: what t moves from where to where
  Counts,        \* stock reconciliations,
  CountOf,       \*   CountOf[r]: the lines of r with their variances
  Receipts,      \* goods receipt numbers,
  ReceiptOf,     \*   ReceiptOf[g]: what g brings where
  NewRows,       \* rows that may be created over the API
  Registrable,   \* lists of resources that may be registered over the API
  Deltas,        \* quantities an adjustment may ask for
  Reservable,    \* quantities a reservation may ask for
  Patches,       \* the fields a patch may set of a row, and to what
  PatchStatuses, \* statuses a patch may give a transfer
  NoRef,         \* the document of a transaction that has none
  MaxRequests    \* bound on the number of API requests

RowStatuses == {"AVAILABLE", "RESERVED", "DAMAGED", "IN_TRANSIT"}
TransferStatuses == {"PENDING", "IN_TRANSIT", "DELIVERED", "CANCELLED"}
CountStatuses == {"DRAFT", "SUBMITTED", "APPROVED"}
ResourceStatuses == {"AVAILABLE", "ALLOCATED", "SOLD", "DAMAGED", "SCRAPPED"}
CharacteristicName == {"IMEI", "SERIAL", "SERIAL_NUMBER"}

Row == [product : Products, location : Locations, quantity : Int, status : RowStatuses]
Resource == [name : CharacteristicName, value : Serials, status : ResourceStatuses,
             receipt : Receipts \cup {NoRef}]

\* What requests and events bring.
SaleLine == [product : Products, quantity : Nat, serials : SUBSET Serials]
TransferCreate == [product : Products, from : Locations, to : Locations, quantity : Nat \ {0}]
GoodsReceiptCreate == [product : Products, location : Locations, quantity : Nat \ {0},
                       serials : SUBSET Serials]
ReconciliationItem == [product : Products, variance : Int]
ProductInventoryCreate == {row \in Row : row.quantity >= 0}

Documents == Transfers \cup Counts

ASSUME InventoryAssumption ==
  /\ \A p \in Partitions : Log[p] \in Seq(Seq(SaleLine))
  /\ Opening \in Seq(ProductInventoryCreate)
  /\ TransferOf \in [Transfers -> TransferCreate]
  /\ CountOf \in [Counts -> Seq(ReconciliationItem)]
  /\ ReceiptOf \in [Receipts -> GoodsReceiptCreate]
  /\ NewRows \subseteq ProductInventoryCreate
  /\ Registrable \subseteq Seq({d \in Resource : d.receipt = NoRef})
  /\ Deltas \subseteq Int
  /\ Reservable \subseteq Nat \ {0}
  /\ \A patch \in Patches :
       /\ "quantity" \in DOMAIN patch => patch["quantity"] \in Nat
       /\ "status" \in DOMAIN patch => patch["status"] \in RowStatuses
       /\ "location" \in DOMAIN patch => patch["location"] \in Locations
  /\ PatchStatuses \subseteq TransferStatuses
  /\ Transfers \cap Counts = {}
  /\ \A g \in Receipts : IsFiniteSet(ReceiptOf[g].serials)
  /\ NoRef \notin Receipts \cup Documents \cup Locations
  /\ MaxRequests \in Nat

VARIABLES
  stock,         \* committed product_inventory rows, in the order of their commits
  doc,           \* doc[d]: committed status of a transfer or a reconciliation
  receipts,      \* committed goods_receipt numbers
  reservations,  \* committed stock_reservation rows
  resources,     \* committed resource rows
  tx,            \* tx[x]: the open transaction of a replica's handler or a request
  requests,      \* how many API requests were made
  booked,        \* booked[p]: net quantity that committed operations were to add
  brought,       \* brought[g]: how often receipt g was booked
  applied,       \* applied[d]: how often a transfer or reconciliation was booked
  patched,       \* transfers whose status was set by hand
  overlapped     \* whether two transactions were ever open at the same time

committedVars == <<stock, doc, receipts, reservations, resources, booked, brought, applied, patched>>
stockVars == <<committedVars, tx, requests, overlapped>>
vars == <<streamVars, stockVars>>

Actors == Workers \cup Calls

NoTx == [op |-> "none", ref |-> NoRef, step |-> "idle", line |-> 1, row |-> 0,
         seen |-> 0, delta |-> 0, kept |-> <<>>, moves |-> <<>>, made |-> <<>>,
         status |-> "NONE", place |-> NoRef, todo |-> {}, marked |-> {},
         registered |-> <<>>, known |-> 0]

Init ==
  /\ StreamInit
  /\ stock = Opening
  /\ doc = [d \in Documents |-> "NONE"]
  /\ receipts = {}
  /\ reservations = <<>>
  /\ resources = <<>>
  /\ tx = [x \in Actors |-> NoTx]
  /\ requests = 0
  /\ booked = [p \in Products |-> 0]
  /\ brought = [g \in Receipts |-> 0]
  /\ applied = [d \in Documents |-> 0]
  /\ patched = {}
  /\ overlapped = FALSE

-----------------------------------------------------------------------------
(* Rows, locks and transactions.                                           *)

Rows == 1..Len(stock)
RowsOf(product) == {r \in Rows : stock[r].product = product}
RowsAt(product, location) == {r \in RowsOf(product) : stock[r].location = location}
Moved(t, r) == IF r \in DOMAIN t.moves THEN t.moves[r] ELSE 0
Reserved(r) == SumFunction([i \in 1..Len(reservations) |->
                              IF reservations[i].row = r THEN reservations[i].quantity ELSE 0])

\* Nobody else has updated the row, the document, or inserted the number.
RowFree(x, r) == \A y \in Actors \ {x} : r \notin DOMAIN tx[y].moves
DocFree(x, d) == \A y \in Actors \ {x} : ~(tx[y].ref = d /\ tx[y].status # "NONE")
NumberFree(x, g) == \A y \in Actors \ {x} : ~(tx[y].op = "receive" /\ tx[y].ref = g)
ResourceFree(x, d) == \A y \in Actors \ {x} : d \notin tx[y].marked

\* The partial index on identity values: one resource per value, whatever the name
\* it is registered under; a value that is not committed yet is waited for.
IdentityNames == {"IMEI", "SERIAL_NUMBER"}

\* Mutant: the index covers one of the names only.
IdentityTakenByName(rows, value) ==
  \E i \in 1..Len(rows) : rows[i].name = "SERIAL_NUMBER" /\ rows[i].value = value

IdentityTaken(rows, value) ==
  \E i \in 1..Len(rows) : rows[i].name \in IdentityNames /\ rows[i].value = value
IdentityFree(x, value) ==
  /\ ~IdentityTaken(resources, value)
  /\ \A y \in Actors \ {x} : ~IdentityTaken(tx[y].registered, value)

Begin(x, t) ==
  /\ tx[x] = NoTx
  /\ tx' = [tx EXCEPT ![x] = t]
  /\ overlapped' = (overlapped \/ \E y \in Actors \ {x} : tx[y] # NoTx)

\* A request begins with its first statement.
Request(c, t) ==
  /\ requests < MaxRequests
  /\ requests' = requests + 1
  /\ Begin(c, t)
  /\ UNCHANGED <<streamVars, committedVars>>

\* The next statement of a transaction.
Goes(x, t) ==
  /\ tx' = [tx EXCEPT ![x] = t]
  /\ UNCHANGED <<streamVars, committedVars, requests, overlapped>>

-----------------------------------------------------------------------------
(* adjust_stock: the check on the quantity read, then an atomic UPDATE     *)
(* quantity = quantity + delta.  The events a transaction sends before it  *)
(* commits leave nothing behind in this service and are no steps of their  *)
(* own.                                                                    *)

AdjustRead(c, r, delta) ==
  /\ stock[r].quantity + delta >= 0
  /\ Request(c, [NoTx EXCEPT !.op = "adjust", !.step = "read", !.row = r,
                             !.seen = stock[r].quantity, !.delta = delta])

SerialsOf(t) == Log[t.ref[1]][t.ref[2]][t.line].serials
\* What a transaction adds to the rows it has updated, with one update more.
Plus(moves, r, delta) ==
  [q \in DOMAIN moves \cup {r} |-> (IF q \in DOMAIN moves THEN moves[q] ELSE 0)
                                   + (IF q = r THEN delta ELSE 0)]
Move(x, t, delta) == [t EXCEPT !.moves = Plus(@, tx[x].row, delta)]
\* After the line of a sale come its serial numbers, if any, then the next line.
NextLine(t) == [t EXCEPT !.step = "lines", !.line = @ + 1, !.row = 0, !.delta = 0, !.todo = {}]
AfterAdjust(t) ==
  IF t.op = "adjust" THEN [t EXCEPT !.step = "ready"]
  ELSE IF t.op = "sale" /\ SerialsOf(t) # {}
  THEN [t EXCEPT !.step = "serials", !.row = 0, !.delta = 0, !.todo = SerialsOf(t)]
  ELSE NextLine(t)

\* Mutant: the quantity is set to the one read plus delta.
AdjustSet(x) ==
  /\ tx[x].step = "read"
  /\ RowFree(x, tx[x].row)
  /\ Goes(x, Move(x, AfterAdjust(tx[x]), tx[x].seen + tx[x].delta - stock[tx[x].row].quantity))

AdjustQuantity(x) ==
  /\ tx[x].step = "read"
  /\ RowFree(x, tx[x].row)
  /\ Goes(x, Move(x, AfterAdjust(tx[x]), tx[x].delta))

-----------------------------------------------------------------------------
(* The lines of a sale (_handle_sell_out_event) and of a count             *)
(* (approve_reconciliation) each adjust the first row of their product,    *)
(* wherever it is; which one is first the query leaves open.               *)

Lines(t) == IF t.op = "sale" THEN Log[t.ref[1]][t.ref[2]] ELSE CountOf[t.ref]
Product(t) == Lines(t)[t.line].product
AtLine(x) == tx[x].step = "lines" /\ tx[x].line <= Len(Lines(tx[x]))

AtMost(wanted, there) == IF wanted <= there THEN wanted ELSE there

\* Mutant: a variance is applied whatever it leaves.
ChangeUnchecked(t, quantity) ==
  IF t.op = "sale" THEN -AtMost(Lines(t)[t.line].quantity, quantity)
  ELSE Lines(t)[t.line].variance

\* A sale takes what is there at most; a variance that would make the quantity
\* negative is left out.
Change(t, quantity) ==
  IF t.op = "sale" THEN -AtMost(Lines(t)[t.line].quantity, quantity)
  ELSE LET variance == Lines(t)[t.line].variance IN
       IF quantity + variance < 0 THEN 0 ELSE variance

\* A row the session has read it does not read again as long as the handler refers to
\* it, which it need not after a line of another product; its own updates it knows.
Listed(t, again) ==
  [t EXCEPT !.kept = [r \in DOMAIN @ \cup RowsOf(Product(t)) |->
                        IF r \in DOMAIN t.kept /\ ~(again /\ r \in RowsOf(Product(t)))
                        THEN t.kept[r] ELSE stock[r].quantity]]
Sees(t, r) == t.kept[r] + Moved(t, r)

LineRead(x) ==
  /\ AtLine(x)
  /\ \E again \in BOOLEAN, r \in RowsOf(Product(tx[x])) :
       LET t == Listed(tx[x], again) IN
       /\ Change(t, Sees(t, r)) # 0
       /\ Goes(x, [t EXCEPT !.step = "read", !.row = r, !.delta = Change(t, Sees(t, r))])

\* Mutant: a line that takes nothing is over.
LineSkippedWhole(x) ==
  /\ AtLine(x)
  /\ \/ RowsOf(Product(tx[x])) = {}
     \/ \E r \in RowsOf(Product(tx[x])) : Change(tx[x], stock[r].quantity + Moved(tx[x], r)) = 0
  /\ Goes(x, NextLine(tx[x]))

\* A line without a row is left out with its serial numbers; one that changes nothing
\* is not adjusted.
LineSkipped(x) ==
  /\ AtLine(x)
  /\ \/ RowsOf(Product(tx[x])) = {} /\ Goes(x, NextLine(tx[x]))
     \/ \E again \in BOOLEAN, r \in RowsOf(Product(tx[x])) :
          LET t == Listed(tx[x], again) IN
          Change(t, Sees(t, r)) = 0 /\ Goes(x, AfterAdjust(t))

\* A serial number is looked up as an IMEI, and as a SERIAL if that finds nothing.
ResourcesNamed(name, value) ==
  {d \in 1..Len(resources) : resources[d].name = name /\ resources[d].value = value}
Devices(value) ==
  IF ResourcesNamed("IMEI", value) # {} THEN ResourcesNamed("IMEI", value)
  ELSE ResourcesNamed("SERIAL", value)

MarkSold(x) ==
  /\ tx[x].step = "serials"
  /\ \E value \in tx[x].todo :
       /\ \A d \in Devices(value) : ResourceFree(x, d)
       /\ LET t == [tx[x] EXCEPT !.todo = @ \ {value}, !.marked = @ \cup Devices(value)] IN
            Goes(x, IF t.todo = {} THEN NextLine(t) ELSE t)

\* An event is handled for the first time or again: nothing remembers it.
SaleBegins(w, p, i) ==
  /\ Begin(w, [NoTx EXCEPT !.op = "sale", !.ref = <<p, i>>, !.step = "lines",
                           !.known = Len(resources)])
  /\ UNCHANGED <<streamVars, committedVars, requests>>

ApproveRead(c, r) ==
  /\ doc[r] = "SUBMITTED"
  /\ Request(c, [NoTx EXCEPT !.op = "approve", !.ref = r, !.step = "lines"])

LinesApplied(c) ==
  /\ tx[c].op = "approve" /\ tx[c].step = "lines"
  /\ tx[c].line > Len(Lines(tx[c]))
  /\ Goes(c, [tx[c] EXCEPT !.step = "status"])

SubmitRead(c, r) ==
  /\ doc[r] = "DRAFT"
  /\ Request(c, [NoTx EXCEPT !.op = "submit", !.ref = r, !.step = "status"])

-----------------------------------------------------------------------------
(* complete_transfer and receive_stock.                                    *)

\* Mutant: a transfer that was delivered is not refused.
TransferReadAny(c, t) ==
  /\ doc[t] \notin {"NONE", "CANCELLED"}
  /\ Request(c, [NoTx EXCEPT !.op = "transfer", !.ref = t, !.step = "source"])

TransferRead(c, t) ==
  /\ doc[t] \notin {"NONE", "DELIVERED", "CANCELLED"}
  /\ Request(c, [NoTx EXCEPT !.op = "transfer", !.ref = t, !.step = "source"])

SourceRead(c) ==
  /\ tx[c].step = "source"
  /\ LET t == TransferOf[tx[c].ref] IN
       \E r \in RowsAt(t.product, t.from) :
         /\ stock[r].status = "AVAILABLE"
         /\ stock[r].quantity >= t.quantity
         /\ Goes(c, [tx[c] EXCEPT !.step = "debit", !.row = r])

Debit(c) ==
  /\ tx[c].step = "debit"
  /\ RowFree(c, tx[c].row)
  /\ Goes(c, Move(c, [tx[c] EXCEPT !.step = "credit", !.row = 0],
                  -TransferOf[tx[c].ref].quantity))

\* The goods_receipt row is inserted first, under a unique number.  (Without the
\* serial numbers the catalogue may ask for the request is refused before.)
ReceiptInsert(c, g) ==
  /\ g \notin receipts
  /\ NumberFree(c, g)
  /\ Request(c, [NoTx EXCEPT !.op = "receive", !.ref = g, !.step = "credit"])

\* What goes where: to the first row of the product at the location, or to a
\* new row when there is none.
Incoming(t) ==
  IF t.op = "receive" THEN ReceiptOf[t.ref]
  ELSE LET order == TransferOf[t.ref] IN
       [product |-> order.product, location |-> order.to, quantity |-> order.quantity]
AfterCredit(t) == IF t.op = "receive" THEN "register" ELSE "status"

CreditRead(c) ==
  /\ tx[c].step = "credit"
  /\ LET in == Incoming(tx[c]) IN
       \E r \in RowsAt(in.product, in.location) :
         Goes(c, [tx[c] EXCEPT !.step = "deposit", !.row = r])

Credit(c) ==
  /\ tx[c].step = "deposit"
  /\ RowFree(c, tx[c].row)
  /\ Goes(c, Move(c, [tx[c] EXCEPT !.step = AfterCredit(tx[c]), !.row = 0],
                  Incoming(tx[c]).quantity))

CreditNewRow(c) ==
  /\ tx[c].step = "credit"
  /\ LET in == Incoming(tx[c]) IN
       /\ RowsAt(in.product, in.location) = {}
       /\ Goes(c, [tx[c] EXCEPT !.step = AfterCredit(tx[c]),
                     !.made = <<[product |-> in.product, location |-> in.location,
                                 quantity |-> in.quantity, status |-> "AVAILABLE"]>>])

\* ResourceRepository.create for each serial number of the receipt, as they are listed.
RegisterSerials(c) ==
  /\ tx[c].step = "register"
  /\ LET serials == ReceiptOf[tx[c].ref].serials IN
       /\ \A value \in serials : IdentityFree(c, value)
       /\ \E listed \in Bijection(1..Cardinality(serials), serials) :
            Goes(c, [tx[c] EXCEPT !.step = "ready",
                       !.registered = [i \in 1..Cardinality(serials) |->
                         [name |-> "SERIAL_NUMBER", value |-> listed[i],
                          status |-> "AVAILABLE", receipt |-> tx[c].ref]]])

\* update_status sets what it was told to, whatever the row says by now.
UpdateStatus(c, status) ==
  /\ tx[c].step = "status"
  /\ DocFree(c, tx[c].ref)
  /\ Goes(c, [tx[c] EXCEPT !.status = status, !.step = "ready"])

CompleteTransfer(c) == tx[c].op = "transfer" /\ UpdateStatus(c, "DELIVERED")
UpdateReconciliation(c) ==
  \/ tx[c].op = "approve" /\ UpdateStatus(c, "APPROVED")
  \/ tx[c].op = "submit" /\ UpdateStatus(c, "SUBMITTED")

-----------------------------------------------------------------------------
(* Reservations, creations and patches.                                    *)

ReserveRead(c, r, q) ==
  Request(c, [NoTx EXCEPT !.op = "reserve", !.step = "reserving", !.row = r,
                          !.seen = stock[r].quantity, !.delta = q])

\* total_reserved, the check and the insert.
Reserve(c) ==
  /\ tx[c].step = "reserving"
  /\ tx[c].seen - Reserved(tx[c].row) >= tx[c].delta
  /\ Goes(c, [tx[c] EXCEPT !.step = "ready"])

\* A row of a unique id is deleted in one statement.
Release(i) ==
  /\ requests < MaxRequests
  /\ requests' = requests + 1
  /\ reservations' = SubSeq(reservations, 1, i - 1) \o SubSeq(reservations, i + 1, Len(reservations))
  /\ UNCHANGED <<streamVars, stock, doc, receipts, resources, booked, brought, applied, patched,
                 tx, overlapped>>

\* POST /productInventory: one insert; nothing keeps a product's row unique.
CreateRow(row) ==
  /\ requests < MaxRequests
  /\ requests' = requests + 1
  /\ stock' = Append(stock, row)
  /\ booked' = [booked EXCEPT ![row.product] = @ + row.quantity]
  /\ UNCHANGED <<streamVars, doc, receipts, reservations, resources, brought, applied, patched,
                 tx, overlapped>>

\* POST /stockTransfer and POST /stockReconciliation: one insert each.
CreateDocument(d, status) ==
  /\ doc[d] = "NONE"
  /\ doc' = [doc EXCEPT ![d] = status]
  /\ UNCHANGED <<streamVars, stock, receipts, reservations, resources, booked, brought, applied,
                 patched, tx, requests, overlapped>>

CreateTransfer(t) == CreateDocument(t, "PENDING")
CreateReconciliation(r) == CreateDocument(r, "DRAFT")

\* POST /resource registers a list.
RegisterResources(c, body) ==
  /\ \A i \in 1..Len(body) :
       body[i].name \in IdentityNames =>
         /\ IdentityFree(c, body[i].value)
         /\ ~IdentityTaken(SubSeq(body, 1, i - 1), body[i].value)
  /\ Request(c, [NoTx EXCEPT !.op = "register", !.step = "ready", !.registered = body])

\* PATCH /productInventory/{id} sets the fields it is given, and tells nobody.
Given(patch, field, otherwise) == IF field \in DOMAIN patch THEN patch[field] ELSE otherwise
PatchRow(c, r, patch) ==
  /\ RowFree(c, r)
  /\ Request(c, [NoTx EXCEPT !.op = "patch", !.step = "ready", !.row = r,
                   !.moves = Plus(@, r, Given(patch, "quantity", stock[r].quantity)
                                        - stock[r].quantity),
                   !.status = Given(patch, "status", "NONE"),
                   !.place = Given(patch, "location", NoRef)])

\* PATCH /stockTransfer/{id} sets any status, PENDING if it is given none.
PatchTransfer(c, t, status) ==
  /\ doc[t] # "NONE"
  /\ DocFree(c, t)
  /\ Request(c, [NoTx EXCEPT !.op = "mend", !.ref = t, !.step = "ready", !.status = status])

-----------------------------------------------------------------------------
(* The end of a transaction.                                               *)

Sets(x, r) == tx[x].op = "patch" /\ r = tx[x].row
ApplyStock(x) ==
  stock' = [r \in Rows |->
              [stock[r] EXCEPT !.quantity = @ + Moved(tx[x], r),
                 !.status = IF Sets(x, r) /\ tx[x].status # "NONE" THEN tx[x].status ELSE @,
                 !.location = IF Sets(x, r) /\ tx[x].place # NoRef THEN tx[x].place ELSE @]]
           \o tx[x].made

ApplyResources(x) ==
  resources' = [d \in 1..Len(resources) |->
                  IF d \in tx[x].marked THEN [resources[d] EXCEPT !.status = "SOLD"]
                  ELSE resources[d]]
               \o tx[x].registered

ApplyReceipt(x) ==
  IF tx[x].op = "receive"
  THEN /\ receipts' = receipts \cup {tx[x].ref}
       /\ brought' = [brought EXCEPT ![tx[x].ref] = @ + 1]
  ELSE UNCHANGED <<receipts, brought>>

ApplyReservation(x) ==
  IF tx[x].op = "reserve"
  THEN reservations' = Append(reservations, [row |-> tx[x].row, quantity |-> tx[x].delta])
  ELSE UNCHANGED reservations

\* What the operation was to add to the stock of product p: what it says, or, where
\* that depends on what it finds, what its updates add.
MovedOf(t, p) ==
  SumFunction([r \in DOMAIN t.moves |-> IF stock[r].product = p THEN t.moves[r] ELSE 0])
ToBook(t, p) ==
  CASE t.op = "transfer" -> 0
    [] t.op = "receive" -> IF ReceiptOf[t.ref].product = p THEN ReceiptOf[t.ref].quantity ELSE 0
    [] t.op = "adjust" -> IF stock[t.row].product = p THEN t.delta ELSE 0
    [] OTHER -> MovedOf(t, p)

Apply(x) ==
  /\ ApplyStock(x)
  /\ ApplyResources(x)
  /\ booked' = [p \in Products |-> booked[p] + ToBook(tx[x], p)]
  /\ doc' = IF tx[x].status # "NONE" /\ tx[x].ref # NoRef THEN [doc EXCEPT ![tx[x].ref] = tx[x].status] ELSE doc
  /\ ApplyReceipt(x)
  /\ applied' = IF tx[x].op \in {"transfer", "approve"}
                THEN [applied EXCEPT ![tx[x].ref] = @ + 1] ELSE applied
  /\ patched' = IF tx[x].op = "mend" THEN patched \cup {tx[x].ref} ELSE patched
  /\ ApplyReservation(x)

Ends(x) ==
  /\ tx' = [tx EXCEPT ![x] = NoTx]
  /\ UNCHANGED <<requests, overlapped>>

CommitRequest(c) ==
  /\ tx[c].step = "ready"
  /\ Apply(c)
  /\ Ends(c)
  /\ UNCHANGED streamVars

\* session.commit().  The handler call counts unless the commit, or what comes
\* after it, raises although the commit succeeded.
CommitSale(w) ==
  /\ tx[w].op = "sale" /\ tx[w].step = "lines"
  /\ tx[w].line > Len(Lines(tx[w]))
  /\ Apply(w)
  /\ Ends(w)
  /\ handled' \in {handled, handled \cup {tx[w].ref}}
  /\ UNCHANGED <<settled, dlq>>

\* Refused, raised, crashed or chosen by the deadlock detection: all is rolled back.
Fails(x) ==
  /\ tx[x] # NoTx
  /\ Ends(x)
  /\ UNCHANGED <<streamVars, committedVars>>

-----------------------------------------------------------------------------
Statement(x) ==
  \/ AdjustQuantity(x) \/ LineRead(x) \/ LineSkipped(x) \/ LinesApplied(x)
  \/ SourceRead(x) \/ Debit(x) \/ CreditRead(x) \/ Credit(x) \/ CreditNewRow(x)
  \/ CompleteTransfer(x) \/ UpdateReconciliation(x) \/ Reserve(x) \/ MarkSold(x) \/ RegisterSerials(x)

\* The endpoints that change something; each request is a transaction.
PostAdjustment(c) == \E r \in Rows, delta \in Deltas : AdjustRead(c, r, delta)
PostReservation(c) == \E r \in Rows, q \in Reservable : ReserveRead(c, r, q)
PostReceipt(c) == \E g \in Receipts : ReceiptInsert(c, g)
PostComplete(c) == \E t \in Transfers : TransferRead(c, t)
PostSubmit(c) == \E r \in Counts : SubmitRead(c, r)
PostApprove(c) == \E r \in Counts : ApproveRead(c, r)
PostResource(c) == \E body \in Registrable : RegisterResources(c, body)
PatchInventory(c) == \E r \in Rows, patch \in Patches : PatchRow(c, r, patch)
PatchStatus(c) == \E t \in Transfers, status \in PatchStatuses : PatchTransfer(c, t, status)
PostInventory == \E row \in NewRows : CreateRow(row)
PostTransfer == \E t \in Transfers : CreateTransfer(t)
PostReconciliation == \E r \in Counts : CreateReconciliation(r)
DeleteReservation == \E i \in 1..Len(reservations) : Release(i)

NewRequest(c) ==
  \/ PostAdjustment(c) \/ PostReservation(c) \/ PostReceipt(c) \/ PostComplete(c)
  \/ PostSubmit(c) \/ PostApprove(c) \/ PostResource(c)
  \/ PatchInventory(c) \/ PatchStatus(c)

Next ==
  \/ \E x \in Actors : Statement(x) \/ Fails(x)
  \/ \E c \in Calls : NewRequest(c) \/ CommitRequest(c)
  \/ PostInventory \/ PostTransfer \/ PostReconciliation \/ DeleteReservation
  \/ \E w \in Workers : \/ CommitSale(w)
                        \/ \E p \in Partitions : \E i \in Deliverable(p) : SaleBegins(w, p, i)
  \/ \E p \in Partitions : (DeadLetter(p) \/ Settle(p)) /\ UNCHANGED stockVars

Spec == Init /\ [][Next]_vars

-----------------------------------------------------------------------------
(* Properties.                                                             *)

Moves == UNION {[rows -> Int] : rows \in SUBSET Nat}
Operations == {"none", "adjust", "sale", "approve", "submit", "transfer", "receive", "reserve",
               "register", "patch", "mend"}
Steps == {"idle", "read", "lines", "serials", "source", "debit", "credit", "deposit",
          "register", "reserving", "status", "ready"}
Refs == (Partitions \X Nat) \cup Documents \cup Receipts \cup {NoRef}
Statuses == RowStatuses \cup TransferStatuses \cup CountStatuses \cup {"NONE"}
Tx == [op : Operations, ref : Refs, step : Steps, line : Nat \ {0}, row : Nat, seen : Int,
       delta : Int, kept : Moves, moves : Moves, made : Seq(Row), status : Statuses,
       place : Locations \cup {NoRef}, todo : SUBSET Serials, marked : SUBSET Nat,
       registered : Seq(Resource), known : Nat]

InventoryTypeOK ==
  /\ stock \in Seq(Row)
  /\ doc \in [Documents -> TransferStatuses \cup CountStatuses \cup {"NONE"}]
  /\ \A t \in Transfers : doc[t] \in TransferStatuses \cup {"NONE"}
  /\ \A r \in Counts : doc[r] \in CountStatuses \cup {"NONE"}
  /\ receipts \subseteq Receipts
  /\ reservations \in Seq([row : Nat, quantity : Int])
  /\ resources \in Seq(Resource)
  /\ tx \in [Actors -> Tx]
  /\ requests \in 0..MaxRequests
  /\ booked \in [Products -> Int]
  /\ brought \in [Receipts -> Nat]
  /\ applied \in [Documents -> Nat]
  /\ patched \subseteq Documents
  /\ overlapped \in BOOLEAN

OnHand(rows, p) ==
  SumFunction([r \in 1..Len(rows) |-> IF rows[r].product = p THEN rows[r].quantity ELSE 0])

\* The rows of a product hold what it opened with and what was booked since, in
\* whatever order concurrent transactions read and updated them: no update is
\* lost, and a transfer takes from one location what it brings to the other.
StockConserved ==
  \A p \in Products : OnHand(stock, p) = OnHand(Opening, p) + booked[p]

\* However often a goods receipt is posted, also at the same time, its number is
\* booked at most once and is on file exactly if it was, and then, never else, the
\* resources registered with it have its serial numbers; of all resources, those of
\* other receipts and of requests included, no other identifies itself (as IMEI or
\* SERIAL_NUMBER) by one of them.  A resource named SERIAL is in no index, and may
\* have the same value (receive_stock, uq_resource_identity).
RegisteredWith(g) == {d \in 1..Len(resources) : resources[d].receipt = g}
Identified(value) ==
  {d \in 1..Len(resources) : resources[d].name \in IdentityNames /\ resources[d].value = value}
ReceivedOnce ==
  \A g \in Receipts :
    /\ brought[g] = IF g \in receipts THEN 1 ELSE 0
    /\ {resources[d].value : d \in RegisteredWith(g)} =
         IF g \in receipts THEN ReceiptOf[g].serials ELSE {}
    /\ \A d \in RegisteredWith(g) : Identified(resources[d].value) = {d}

\* As long as transactions do not overlap, the checks of adjust_stock,
\* complete_transfer and the consumer keep every quantity from being negative.
NeverNegativeAlone ==
  ~overlapped => \A r \in Rows : stock[r].quantity >= 0

\* As long as transactions do not overlap and nobody sets its status by hand, a
\* transfer is moved, and a reconciliation applied, exactly once and exactly when
\* its status says so.
AppliedAsStated ==
  ~overlapped =>
    \A d \in Documents \ patched :
      applied[d] = IF doc[d] \in {"DELIVERED", "APPROVED"} THEN 1 ELSE 0

\* When a handler call for a sale comes through, each device it names that was
\* registered as an IMEI, or as a SERIAL when no IMEI had the number, before the call
\* began is sold, whatever is left of its product, which had a row (the last part of
\* _handle_sell_out_event).
Named(w) == UNION {Lines(tx[w])[l].serials : l \in {k \in 1..Len(Lines(tx[w])) :
                     \E i \in 1..Len(Opening) : Opening[i].product = Lines(tx[w])[k].product}}
SoldDevicesMarked ==
  [][\A w \in Workers : handled' # handled /\ tx'[w] = NoTx /\ tx[w] # NoTx =>
       \A d \in 1..tx[w].known :
         /\ resources[d].value \in Named(w)
         /\ \/ resources[d].name = "IMEI"
            \/ resources[d].name = "SERIAL" /\ ResourcesNamed("IMEI", resources[d].value) = {}
         => resources'[d].status = "SOLD"]_vars

=============================================================================
