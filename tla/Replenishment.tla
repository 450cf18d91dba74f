---------------------------- MODULE Replenishment ----------------------------
(***************************************************************************)
(* sell-in-service and warehouse-service: orders of a dealer, the receipt  *)
(* of what they delivered into stock, pick lists and packing slips.        *)
(*                                                                         *)
(* A request is one database transaction: it reads its document, decides   *)
(* in Python, writes, sends its event and commits, in this order, and other*)
(* requests run in between.  The database is PostgreSQL at READ COMMITTED  *)
(* (external), as in SellOut.                                              *)
(*                                                                         *)
(* The delivered events of one dealer are one partition of their topic,    *)
(* `delivered`; the consumer of the warehouse gets them as EventStream     *)
(* promises: in order, at least once, by several replicas at a time if a   *)
(* partition moves in mid-event.  It posts one goods receipt per line to   *)
(* inventory-service, which takes each receipt number once.                *)
(* What an order costs, who picks and who carries are left out.            *)
(***************************************************************************)
EXTENDS Integers, Sequences

CONSTANTS
  Orders,        \* order rows of one dealer, one for each POST /productOrder
  Lines,         \* Lines[o]: the products of the lines of order o
  Products,
  Prefix,        \* Prefix[p]: the first eight characters of the id of p
  PickLists, Slips,
  PickListOf,    \* PickListOf[s]: the pick list slip s is made for
  Slots,         \* requests that may be open at the same time
  Workers,       \* replicas of warehouse-service, one consumer task each
  NoDoc, NoOp,   \* document and operation of a slot without a request
  MaxRequests    \* bound on the requests made

Docs == Orders \cup PickLists \cup Slips

ASSUME ReplenishmentAssumption ==
  /\ Orders \cap PickLists = {} /\ Orders \cap Slips = {} /\ PickLists \cap Slips = {}
  /\ NoDoc \notin Docs
  /\ \A o \in Orders : Lines[o] \in Seq(Products) \ {<<>>}
  /\ PickListOf \in [Slips -> PickLists]
  /\ MaxRequests \in Nat

VARIABLES
  status,       \* status[d]: the committed status of an order, pick list or slip
  req,          \* req[x]: the request in slot x
  made,         \* how many requests were made
  ordered,      \* orders a telco.sales.sellin.ordered event was sent for
  delivered,    \* the orders of the telco.sales.sellin.delivered events, as sent
  settled,      \* how many delivered events are done with
  handled,      \* delivered events whose handler returned
  dlq,          \* delivered events in the dead letter queue
  work,         \* work[w]: the event replica w is handling, and its next line
  numbers,      \* goods receipt numbers inventory-service has
  received,     \* received[o][l]: goods receipts booked for line l of order o
  done,         \* done[d]: committed completions, cancellations and dispatches
  overlapped,   \* documents two requests had in hand at a time
  patched,      \* orders whose state was patched
  dropped       \* orders with an event sent by a request that did not commit

requestVars == <<status, req, made, ordered, delivered, done, overlapped, patched, dropped>>
receiptVars == <<settled, handled, dlq, work, numbers, received>>
vars == <<requestVars, receiptVars>>

NoRequest == [op |-> NoOp, doc |-> NoDoc, step |-> "idle", seen |-> "NONE", writes |-> FALSE]
NoWork == [event |-> 0, line |-> 1]

Init ==
  /\ status = [d \in Docs |-> "NONE"]
  /\ req = [x \in Slots |-> NoRequest]
  /\ made = 0
  /\ ordered = {}
  /\ delivered = <<>>
  /\ settled = 0
  /\ handled = {}
  /\ dlq = {}
  /\ work = [w \in Workers |-> NoWork]
  /\ numbers = {}
  /\ received = [o \in Orders |-> [l \in DOMAIN Lines[o] |-> 0]]
  /\ done = [d \in Docs |-> 0]
  /\ overlapped = {}
  /\ patched = {}
  /\ dropped = {}

-----------------------------------------------------------------------------
(* The operations: on which documents, which status they must find, which  *)
(* they write, and the event they send first.                              *)

Op(name, on, from, to, event) ==
  [name |-> name, on |-> on, from |-> from, to |-> to, event |-> event]

Open == {"ACKNOWLEDGED", "IN_PROGRESS"}

\* Mutants: a completed order can be cancelled; a dispatched slip dispatched again.
CancelAny == Op("cancel", Orders, Open \cup {"COMPLETED"}, "CANCELLED", "none")
DispatchAny == Op("dispatch", Slips, {"PACKED", "DISPATCHED"}, "DISPATCHED", "none")

Create == Op("create", Orders, {"NONE"}, "ACKNOWLEDGED", "ordered")
Complete == Op("complete", Orders, Open, "COMPLETED", "delivered")
Cancel == Op("cancel", Orders, Open, "CANCELLED", "none")
Assign == Op("assign", PickLists, {"PENDING", "ASSIGNED"}, "ASSIGNED", "none")
CompletePick == Op("pick", PickLists, {"PENDING", "ASSIGNED"}, "COMPLETED", "none")
Dispatch == Op("dispatch", Slips, {"PACKED"}, "DISPATCHED", "none")

\* PATCH to a state other than COMPLETED and CANCELLED: no condition, no event.
Patch(to) == Op("patch", Orders, Open \cup {"COMPLETED", "CANCELLED"}, to, "none")
Patches == {Patch(to) : to \in Open}

\* Mutant: PATCH completes an order like any other.
UpdatesWithQuietPatch ==
  {Complete, Cancel, Assign, CompletePick, Dispatch, Patch("COMPLETED")} \cup Patches

Decisions == {Complete, Cancel, CompletePick, Dispatch}
Updates == Decisions \cup {Assign} \cup Patches
Operations == {Create} \cup Updates

-----------------------------------------------------------------------------
(* Requests.                                                               *)

InHand(d) == {x \in Slots : req[x].doc = d}

Begin(x, d, op, step, writes) ==
  /\ req[x] = NoRequest
  /\ made < MaxRequests
  /\ made' = made + 1
  /\ req' = [req EXCEPT ![x] = [op |-> op, doc |-> d, step |-> step,
                                seen |-> status[d], writes |-> writes]]
  /\ overlapped' = overlapped \cup {c \in {d} : InHand(c) # {}}
  /\ UNCHANGED <<status, ordered, delivered, done, patched, dropped, receiptVars>>

Goes(x, step) == req' = [req EXCEPT ![x] = [@ EXCEPT !.step = step]]
Ends(x) == req' = [req EXCEPT ![x] = NoRequest]

\* POST /productOrder inserts the order and its lines.
InsertOrder(x, o) ==
  /\ status[o] = "NONE" /\ InHand(o) = {} /\ o \notin ordered
  /\ Begin(x, o, Create, "written", TRUE)

\* Pick lists and packing slips are inserted as they are asked for; the slip's pick
\* list has to exist.
Insert(d, as) ==
  /\ status[d] = "NONE"
  /\ status' = [status EXCEPT ![d] = as]
  /\ UNCHANGED <<req, made, ordered, delivered, done, overlapped, patched, dropped,
                 receiptVars>>
CreatePickList(k) == Insert(k, "PENDING")
CreateSlip(s) == status[PickListOf[s]] # "NONE" /\ Insert(s, "PACKED")

\* get_by_id and the check of what it returned; a refusal leaves no trace.
ReadDoc(x, d, op) ==
  /\ d \in op.on
  /\ status[d] \in op.from
  /\ Begin(x, d, op, "read", FALSE)

\* A status is written if it differs from the one loaded.  The warehouse keeps the row
\* it read; sell-in-service may have to load it again, by then with another status.
\* The UPDATE goes by primary key: it waits for the row, and overwrites what is there.
WriteDoc(x) ==
  LET r == req[x] IN
  /\ r.step = "read"
  /\ \/ r.seen # r.op.to
     \/ r.doc \in Orders /\ status[r.doc] # r.op.to
  /\ \A y \in InHand(r.doc) : ~req[y].writes
  /\ req' = [req EXCEPT ![x] = [@ EXCEPT !.step = "written", !.writes = TRUE]]
  /\ UNCHANGED <<status, made, ordered, delivered, done, overlapped, patched, dropped,
                 receiptVars>>

KeepDoc(x) ==
  LET r == req[x] IN
  /\ r.step = "read"
  /\ \/ r.seen = r.op.to
     \/ r.doc \in Orders /\ status[r.doc] = r.op.to
  /\ Goes(x, "written")
  /\ UNCHANGED <<status, made, ordered, delivered, done, overlapped, patched, dropped,
                 receiptVars>>

SendEvent(x) ==
  LET r == req[x] IN
  /\ r.step = "written"
  /\ \/ /\ r.op.event = "ordered"
        /\ ordered' = ordered \cup {r.doc}
        /\ UNCHANGED delivered
     \/ /\ r.op.event = "delivered"
        /\ delivered' = Append(delivered, r.doc)
        /\ UNCHANGED ordered
  /\ Goes(x, "sent")
  /\ UNCHANGED <<status, made, done, overlapped, patched, dropped, receiptVars>>

\* get_db commits when the handler has returned.
Commit(x) ==
  LET r == req[x] IN
  /\ r # NoRequest
  /\ r.step = IF r.op.event = "none" THEN "written" ELSE "sent"
  /\ status' = IF r.writes THEN [status EXCEPT ![r.doc] = r.op.to] ELSE status
  /\ done' = IF r.op \in Decisions THEN [done EXCEPT ![r.doc] = @ + 1] ELSE done
  /\ patched' = patched \cup {d \in {r.doc} : r.op \in Patches}
  /\ Ends(x)
  /\ UNCHANGED <<made, ordered, delivered, overlapped, dropped, receiptVars>>

\* An exception or the end of the process: the transaction rolls back, an event that
\* went out stays out.
Fails(x) ==
  /\ req[x] # NoRequest
  /\ dropped' = dropped \cup {d \in {req[x].doc} : req[x].step = "sent"}
  /\ Ends(x)
  /\ UNCHANGED <<status, made, ordered, delivered, done, overlapped, patched, receiptVars>>

-----------------------------------------------------------------------------
(* The consumer of the warehouse.                                          *)

HandlerBegins(w, i) ==
  /\ work[w] = NoWork
  /\ i <= settled + 1
  /\ work' = [work EXCEPT ![w] = [event |-> i, line |-> 1]]
  /\ UNCHANGED <<requestVars, settled, handled, dlq, numbers, received>>

\* Mutant: every event has receipt numbers of its own.
NumberByEvent(i, l) == <<i, Prefix[Lines[delivered[i]][l]]>>

\* grn_number: the number of the order and eight characters of the product.
Number(i, l) == <<delivered[i], Prefix[Lines[delivered[i]][l]]>>

AtLine(w) == work[w].event > 0 /\ work[w].line <= Len(Lines[delivered[work[w].event]])

\* POST /goodsReceipt books the line if the number is new.  The answer may be lost, or
\* late: then the handler raises as if nothing had been booked.
PostLine(w) ==
  LET i == work[w].event
      l == work[w].line IN
  /\ AtLine(w)
  /\ Number(i, l) \notin numbers
  /\ numbers' = numbers \cup {Number(i, l)}
  /\ received' = [received EXCEPT ![delivered[i]][l] = @ + 1]
  /\ \/ work' = [work EXCEPT ![w].line = l + 1]
     \/ work' = [work EXCEPT ![w] = NoWork]
  /\ UNCHANGED <<requestVars, settled, handled, dlq>>

\* Mutant: a line that is not taken is logged and skipped.
SkipLine(w) ==
  /\ AtLine(w)
  /\ work' = [work EXCEPT ![w].line = @ + 1]
  /\ UNCHANGED <<requestVars, settled, handled, dlq, numbers, received>>

\* A refusal (of a number that is taken, too), an outage or a crash ends the call.
HandlerRaises(w) ==
  /\ AtLine(w)
  /\ work' = [work EXCEPT ![w] = NoWork]
  /\ UNCHANGED <<requestVars, settled, handled, dlq, numbers, received>>

HandlerReturns(w) ==
  /\ work[w].event > 0 /\ ~AtLine(w)
  /\ handled' = handled \cup {work[w].event}
  /\ work' = [work EXCEPT ![w] = NoWork]
  /\ UNCHANGED <<requestVars, settled, dlq, numbers, received>>

DeadLetter(i) ==
  /\ i <= settled + 1
  /\ dlq' = dlq \cup {i}
  /\ UNCHANGED <<requestVars, settled, handled, work, numbers, received>>

Settle ==
  /\ settled < Len(delivered)
  /\ settled + 1 \in handled \cup dlq
  /\ settled' = settled + 1
  /\ UNCHANGED <<requestVars, handled, dlq, work, numbers, received>>

-----------------------------------------------------------------------------
Requests ==
  \/ \E k \in PickLists : CreatePickList(k)
  \/ \E s \in Slips : CreateSlip(s)
  \/ \E x \in Slots :
       \/ \E o \in Orders : InsertOrder(x, o)
       \/ \E d \in Docs, op \in Updates : ReadDoc(x, d, op)
       \/ WriteDoc(x) \/ KeepDoc(x) \/ SendEvent(x) \/ Commit(x) \/ Fails(x)

Receiving ==
  \/ \E w \in Workers :
       \/ \E i \in DOMAIN delivered : HandlerBegins(w, i)
       \/ PostLine(w) \/ HandlerRaises(w) \/ HandlerReturns(w)
  \/ \E i \in DOMAIN delivered : DeadLetter(i)
  \/ Settle

Next == Requests \/ Receiving

Spec == Init /\ [][Next]_vars

-----------------------------------------------------------------------------
(* Properties.                                                             *)

RequestType == [op : Operations \cup {NoOp}, doc : Docs \cup {NoDoc},
                step : {"idle", "read", "written", "sent"},
                seen : {"NONE", "ACKNOWLEDGED", "IN_PROGRESS", "COMPLETED", "CANCELLED",
                        "PENDING", "ASSIGNED", "PACKED", "DISPATCHED"},
                writes : BOOLEAN]

ReplenishmentTypeOK ==
  /\ status \in [Docs -> {"NONE", "ACKNOWLEDGED", "IN_PROGRESS", "COMPLETED", "CANCELLED",
                          "PENDING", "ASSIGNED", "PACKED", "DISPATCHED"}]
  /\ req \in [Slots -> RequestType]
  /\ made \in Nat
  /\ ordered \subseteq Orders
  /\ delivered \in Seq(Orders)
  /\ settled \in 0..Len(delivered)
  /\ handled \cup dlq \subseteq DOMAIN delivered
  /\ work \in [Workers -> [event : {0} \cup DOMAIN delivered, line : Nat \ {0}]]
  /\ \A n \in numbers : n[2] \in {Prefix[p] : p \in Products}
  /\ DOMAIN received = Orders /\ \A o \in Orders : received[o] \in [DOMAIN Lines[o] -> Nat]
  /\ done \in [Docs -> Nat]
  /\ overlapped \cup patched \cup dropped \subseteq Docs

\* Whatever fails and whoever interferes: an order in the table was announced, and one
\* that is completed has its delivery on its way to the warehouse.
OrderedIsAnnounced ==
  \A o \in Orders :
    /\ status[o] # "NONE" => o \in ordered
    /\ status[o] = "COMPLETED" => \E i \in DOMAIN delivered : delivered[i] = o

\* Nothing of an order that was cancelled ever gets into stock, and no order is
\* delivered that is not completed, unless two requests had it in hand, its state was
\* patched or a transaction was lost after its event.
CancelledNotReceived ==
  \A o \in Orders \ (overlapped \cup patched \cup dropped) :
    InHand(o) = {} /\ status[o] # "COMPLETED" =>
      /\ \A i \in DOMAIN delivered : delivered[i] # o
      /\ \A l \in DOMAIN Lines[o] : received[o][l] = 0

\* However often an order is announced as delivered, and however often and by whom each
\* event is handled, a line of it is booked once at most.
LineReceivedOnce == \A o \in Orders : \A l \in DOMAIN Lines[o] : received[o][l] <= 1

\* A delivery that is done with was booked line by line, or is in the dead letter queue.
SettledIsReceived ==
  \A i \in 1..settled :
    i \in dlq \/ \A l \in DOMAIN Lines[delivered[i]] : received[delivered[i]][l] >= 1

\* An order is completed or cancelled once and not both, a pick list is completed and
\* a slip dispatched once, unless two requests overlap or the order is patched.
DoneOnce == \A d \in Docs \ (overlapped \cup patched) : done[d] <= 1
=============================================================================
