------------------------- MODULE ReplenishmentProofs -------------------------
(***************************************************************************)
(* Theorems of Replenishment, for every number of orders, lines, requests  *)
(* and replicas of the warehouse.                                          *)
(*                                                                         *)
(* Orders: an order that is stored as completed was announced, because the *)
(* event is out before the commit and because no operation but Complete    *)
(* leads there; SentInv and InKind say so of the requests under way.       *)
(*                                                                         *)
(* Receipts: a line that was booked has left its number behind, and the    *)
(* number depends on order and product only, so that no further event or   *)
(* call books it again; and a call has booked the lines it has behind it.  *)
(***************************************************************************)
EXTENDS Replenishment, TLAPS

Statuses == {"NONE", "ACKNOWLEDGED", "IN_PROGRESS", "COMPLETED", "CANCELLED",
             "PENDING", "ASSIGNED", "PACKED", "DISPATCHED"}

Announced(o) == \E i \in DOMAIN delivered : delivered[i] = o

\* A request is for a document its operation is about, and an order that is updated
\* is there.
InKind(x) ==
  /\ req[x].step = "idle" => req[x] = NoRequest
  /\ req[x].step # "idle" =>
       /\ req[x].op \in Operations
       /\ req[x].doc \in req[x].op.on
       /\ req[x].op # Create /\ req[x].doc \in Orders => req[x].doc \in ordered

\* Its event is out once it says so.
SentInv(x) ==
  req[x].step = "sent" =>
    /\ req[x].op.event = "ordered" => req[x].doc \in ordered
    /\ req[x].op.event = "delivered" => Announced(req[x].doc)

\* The types of what requests change.
RequestTypes ==
  /\ status \in [Docs -> Statuses]
  /\ req \in [Slots -> RequestType]
  /\ made \in Nat
  /\ ordered \subseteq Orders
  /\ delivered \in Seq(Orders)
  /\ done \in [Docs -> Nat]
  /\ overlapped \cup patched \cup dropped \subseteq Docs

OrderIInv ==
  /\ RequestTypes
  /\ \A x \in Slots : InKind(x) /\ SentInv(x)
  /\ OrderedIsAnnounced

-----------------------------------------------------------------------------
(* The operations, as data.                                                *)

LEMMA OperationFacts ==
  ASSUME NEW op \in Operations
  PROVE  /\ op.on \in {Orders, PickLists, Slips} /\ op.on \subseteq Docs
         /\ op.to \in Statuses \ {"NONE"}
         /\ op.event \in {"none", "ordered", "delivered"}
         /\ op.event = "ordered" <=> op = Create
         /\ op.event # "none" => op.on = Orders
         /\ op.to = "COMPLETED" => op.event = "delivered" \/ op.on = PickLists
         /\ op # Create => "NONE" \notin op.from
<1>1. \/ op = Create
      \/ op \in {Complete, Cancel, CompletePick, Dispatch, Assign}
      \/ op \in {Patch("ACKNOWLEDGED"), Patch("IN_PROGRESS")}
  BY DEF Operations, Updates, Decisions, Patches, Open
<1>2. CASE op = Create
  BY <1>2 DEF Create, Op, Docs, Statuses
<1>3. CASE op \in {Complete, Cancel, CompletePick, Dispatch, Assign}
  BY <1>3 DEF Create, Complete, Cancel, CompletePick, Dispatch, Assign, Op, Open, Docs, Statuses
<1>4. CASE op \in {Patch("ACKNOWLEDGED"), Patch("IN_PROGRESS")}
  BY <1>4 DEF Create, Patch, Op, Open, Docs, Statuses
<1> QED BY <1>1, <1>2, <1>3, <1>4

LEMMA NoRequestFacts ==
  /\ NoRequest \in RequestType
  /\ NoRequest.step = "idle"
  /\ NoRequest.doc = NoDoc
BY DEF NoRequest, RequestType

\* What a request that is under way is about.
LEMMA UnderWay ==
  ASSUME OrderIInv, NEW x \in Slots, req[x] # NoRequest
  PROVE  /\ req[x].step # "idle" /\ req[x] \in RequestType
         /\ req[x].op \in Operations
         /\ req[x].doc \in req[x].op.on /\ req[x].doc \in Docs
<1>1. InKind(x) /\ req[x] \in RequestType
  BY DEF OrderIInv, RequestTypes
<1> QED BY <1>1, OperationFacts DEF InKind

\* What is said of the requests survives if one slot changes and events are only added.
LEMMA SlotStep ==
  ASSUME OrderIInv, NEW x \in Slots, NEW r \in RequestType,
         req' = [req EXCEPT ![x] = r],
         ordered \subseteq ordered',
         \A o \in Orders : Announced(o) => Announced(o)',
         InKind(x)', SentInv(x)'
  PROVE  /\ req' \in [Slots -> RequestType]
         /\ \A y \in Slots : InKind(y)' /\ SentInv(y)'
<1>1. req' \in [Slots -> RequestType] /\ \A y \in Slots \ {x} : req'[y] = req[y]
  BY DEF OrderIInv, RequestTypes
<1>2. ASSUME NEW y \in Slots, y # x PROVE InKind(y)' /\ SentInv(y)'
  <2>1. req'[y] = req[y] /\ InKind(y) /\ SentInv(y)
    BY <1>1, <1>2 DEF OrderIInv
  <2>2. InKind(y)'
    BY <2>1 DEF InKind
  <2>3. req[y].step = "sent" /\ req[y].op.event = "delivered" => req[y].doc \in Orders
    BY <2>1, OperationFacts DEF InKind
  <2>4. SentInv(y)'
    BY <2>1, <2>3 DEF SentInv
  <2> QED BY <2>2, <2>4
<1> QED BY <1>1, <1>2

\* A request that sends and stores nothing.
LEMMA QuietStep ==
  ASSUME OrderIInv, NEW x \in Slots, NEW r \in RequestType,
         req' = [req EXCEPT ![x] = r],
         UNCHANGED <<status, ordered, delivered, done>>,
         made' \in Nat, overlapped' \cup patched' \cup dropped' \subseteq Docs,
         InKind(x)', SentInv(x)'
  PROVE  OrderIInv'
<1>1. \A o \in Orders : Announced(o) => Announced(o)'
  BY DEF Announced
<1>2. /\ req' \in [Slots -> RequestType]
      /\ \A y \in Slots : InKind(y)' /\ SentInv(y)'
  BY <1>1, SlotStep
<1>3. RequestTypes'
  BY <1>2 DEF OrderIInv, RequestTypes
<1>4. OrderedIsAnnounced'
  BY DEF OrderIInv, OrderedIsAnnounced
<1> QED BY <1>2, <1>3, <1>4 DEF OrderIInv

-----------------------------------------------------------------------------
(* One lemma per action of the requests.                                   *)

LEMMA InitOrders == ASSUME ReplenishmentAssumption, Init PROVE OrderIInv
<1>1. RequestTypes
  BY NoRequestFacts DEF Init, RequestTypes, Statuses
<1>2. \A x \in Slots : InKind(x) /\ SentInv(x)
  BY NoRequestFacts DEF Init, InKind, SentInv
<1>3. OrderedIsAnnounced
  BY DEF Init, OrderedIsAnnounced, Docs
<1> QED BY <1>1, <1>2, <1>3 DEF OrderIInv

LEMMA InsertKeeps ==
  ASSUME ReplenishmentAssumption, OrderIInv, NEW d \in PickLists \cup Slips,
         NEW as \in {"PENDING", "PACKED"}, Insert(d, as)
  PROVE  OrderIInv'
<1>1. d \in Docs /\ d \notin Orders
  BY DEF ReplenishmentAssumption, Docs
<1>2. RequestTypes'
  BY <1>1 DEF Insert, OrderIInv, RequestTypes, Statuses
<1>3. \A x \in Slots : InKind(x)' /\ SentInv(x)'
  BY DEF Insert, OrderIInv, InKind, SentInv, Announced
<1>4. OrderedIsAnnounced'
  <2>1. \A o \in Orders : status'[o] = status[o]
    BY <1>1 DEF Insert, OrderIInv, RequestTypes, Docs
  <2>2. UNCHANGED <<ordered, delivered>>
    BY DEF Insert
  <2> QED BY <2>1, <2>2 DEF OrderIInv, OrderedIsAnnounced
<1> QED BY <1>2, <1>3, <1>4 DEF OrderIInv

LEMMA BeginKeeps ==
  ASSUME OrderIInv, NEW x \in Slots, NEW op \in Operations, NEW d \in op.on,
         NEW step \in {"read", "written"}, NEW writes \in BOOLEAN,
         op # Create /\ d \in Orders => d \in ordered,
         Begin(x, d, op, step, writes)
  PROVE  OrderIInv'
<1> DEFINE r == [op |-> op, doc |-> d, step |-> step, seen |-> status[d], writes |-> writes]
<1>1. d \in Docs
  BY OperationFacts
<1>2. status[d] \in Statuses
  BY <1>1 DEF OrderIInv, RequestTypes
<1>3. r \in RequestType
  BY <1>1, <1>2 DEF RequestType, Statuses
<1>4. req' = [req EXCEPT ![x] = r] /\ req'[x] = r
  BY DEF Begin, OrderIInv, RequestTypes
<1>5. InKind(x)' /\ SentInv(x)'
  BY <1>4 DEF InKind, SentInv, Begin
<1>6. /\ UNCHANGED <<status, ordered, delivered, done>>
      /\ made' \in Nat /\ overlapped' \cup patched' \cup dropped' \subseteq Docs
  BY <1>1 DEF Begin, OrderIInv, RequestTypes
<1> HIDE DEF r
<1> QED BY <1>3, <1>4, <1>5, <1>6, QuietStep

LEMMA InsertOrderKeeps ==
  ASSUME OrderIInv, NEW x \in Slots, NEW o \in Orders, InsertOrder(x, o)
  PROVE  OrderIInv'
<1>1. Create \in Operations /\ o \in Create.on
  BY DEF Operations, Create, Op
<1> QED BY <1>1, BeginKeeps DEF InsertOrder

LEMMA ReadKeeps ==
  ASSUME OrderIInv, NEW x \in Slots, NEW d \in Docs, NEW op \in Updates, ReadDoc(x, d, op)
  PROVE  OrderIInv'
<1>1. op \in Operations /\ d \in op.on /\ status[d] \in op.from
  BY DEF Operations, ReadDoc
<1>2. op # Create /\ d \in Orders => d \in ordered
  BY <1>1, OperationFacts DEF OrderIInv, OrderedIsAnnounced
<1> QED BY <1>1, <1>2, BeginKeeps DEF ReadDoc

\* WriteDoc and KeepDoc.
LEMMA GoOnKeeps ==
  ASSUME OrderIInv, NEW x \in Slots, WriteDoc(x) \/ KeepDoc(x)
  PROVE  OrderIInv'
<1>1. req[x].step = "read" /\ req[x] # NoRequest
  BY NoRequestFacts DEF WriteDoc, KeepDoc
<1>2. req[x] \in RequestType /\ InKind(x)
  BY DEF OrderIInv, RequestTypes
<1>3. PICK b \in BOOLEAN : req' = [req EXCEPT ![x] = [@ EXCEPT !.step = "written", !.writes = b]]
  <2>1. CASE WriteDoc(x)
    BY <2>1 DEF WriteDoc
  <2>2. CASE KeepDoc(x)
    <3>1. [req[x] EXCEPT !.step = "written"]
            = [req[x] EXCEPT !.step = "written", !.writes = req[x].writes]
      BY <1>2 DEF RequestType
    <3>2. req[x].writes \in BOOLEAN
      BY <1>2 DEF RequestType
    <3> QED BY <2>2, <3>1, <3>2 DEF KeepDoc, Goes
  <2> QED BY <2>1, <2>2
<1> DEFINE r == [req[x] EXCEPT !.step = "written", !.writes = b]
<1>4. r \in RequestType /\ r.op = req[x].op /\ r.doc = req[x].doc /\ r.step = "written"
  BY <1>2 DEF RequestType
<1>5. req' = [req EXCEPT ![x] = r] /\ req'[x] = r
  BY <1>3 DEF OrderIInv, RequestTypes
<1>6. UNCHANGED <<status, made, ordered, delivered, done, overlapped, patched, dropped>>
  BY DEF WriteDoc, KeepDoc
<1> HIDE DEF r
<1>7. InKind(x)' /\ SentInv(x)'
  BY <1>1, <1>2, <1>4, <1>5, <1>6 DEF InKind, SentInv
<1>8. made' \in Nat /\ overlapped' \cup patched' \cup dropped' \subseteq Docs
  BY <1>6 DEF OrderIInv, RequestTypes
<1> QED BY <1>4, <1>5, <1>6, <1>7, <1>8, QuietStep

LEMMA SendKeeps ==
  ASSUME OrderIInv, NEW x \in Slots, SendEvent(x)
  PROVE  OrderIInv' /\ delivered' \in {delivered, Append(delivered, req[x].doc)}
<1>1. req[x].step = "written" /\ req[x] # NoRequest
  BY NoRequestFacts DEF SendEvent
<1>2. PICK op \in Operations, d \in Docs : op = req[x].op /\ d = req[x].doc /\ d \in op.on
  BY <1>1, UnderWay
<1>3. \/ op.event = "ordered" /\ ordered' = ordered \cup {d} /\ UNCHANGED delivered
      \/ op.event = "delivered" /\ delivered' = Append(delivered, d) /\ UNCHANGED ordered
  BY <1>2 DEF SendEvent
<1>4. d \in Orders
  BY <1>2, <1>3, OperationFacts
<1> DEFINE r == [req[x] EXCEPT !.step = "sent"]
<1>5. r \in RequestType /\ r.op = op /\ r.doc = d /\ r.step = "sent"
  BY <1>1, <1>2, UnderWay DEF RequestType
<1>6. req' = [req EXCEPT ![x] = r] /\ req'[x] = r
  BY DEF SendEvent, Goes, OrderIInv, RequestTypes
<1> HIDE DEF r
<1>7. delivered \in Seq(Orders) /\ ordered \subseteq Orders
  BY DEF OrderIInv, RequestTypes
<1>8. /\ delivered' \in Seq(Orders) /\ ordered \subseteq ordered' /\ ordered' \subseteq Orders
      /\ \A i \in DOMAIN delivered : i \in DOMAIN delivered' /\ delivered'[i] = delivered[i]
  BY <1>3, <1>4, <1>7
<1>9. op.event = "delivered" => Announced(d)'
  <2>1. ASSUME op.event = "delivered" PROVE Announced(d)'
    <3>1. delivered' = Append(delivered, d)
      BY <1>3, <2>1
    <3>2. Len(delivered) + 1 \in DOMAIN delivered' /\ delivered'[Len(delivered) + 1] = d
      BY <1>4, <1>7, <3>1
    <3> QED BY <3>2 DEF Announced
  <2> QED BY <2>1
<1>10. \A o \in Orders : Announced(o) => Announced(o)'
  BY <1>8 DEF Announced
<1>11. InKind(x)' /\ SentInv(x)'
  <2>1. InKind(x)
    BY DEF OrderIInv
  <2>2. InKind(x)'
    BY <1>1, <1>2, <1>5, <1>6, <1>8, <2>1 DEF InKind
  <2>3. op.event = "ordered" => d \in ordered'
    BY <1>3
  <2> QED BY <1>5, <1>6, <1>9, <2>2, <2>3 DEF SentInv
<1>12. /\ req' \in [Slots -> RequestType]
       /\ \A y \in Slots : InKind(y)' /\ SentInv(y)'
  BY <1>5, <1>6, <1>8, <1>10, <1>11, SlotStep
<1>13. RequestTypes'
  BY <1>8, <1>12 DEF SendEvent, OrderIInv, RequestTypes
<1>14. OrderedIsAnnounced'
  BY <1>8, <1>10 DEF SendEvent, OrderIInv, OrderedIsAnnounced, Announced
<1> QED BY <1>2, <1>3, <1>12, <1>13, <1>14 DEF OrderIInv

LEMMA EndKeeps ==
  ASSUME OrderIInv, NEW x \in Slots, Ends(x),
         UNCHANGED <<status, ordered, delivered, done, made>>,
         overlapped' \cup patched' \cup dropped' \subseteq Docs
  PROVE  OrderIInv'
<1>1. req' = [req EXCEPT ![x] = NoRequest] /\ req'[x] = NoRequest
  BY DEF Ends, OrderIInv, RequestTypes
<1>2. InKind(x)' /\ SentInv(x)'
  BY <1>1, NoRequestFacts DEF InKind, SentInv
<1>3. made' \in Nat
  BY DEF OrderIInv, RequestTypes
<1> QED BY <1>1, <1>2, <1>3, NoRequestFacts, QuietStep

LEMMA FailsKeeps == ASSUME OrderIInv, NEW x \in Slots, Fails(x) PROVE OrderIInv'
<1>1. overlapped' \cup patched' \cup dropped' \subseteq Docs
  BY UnderWay DEF Fails, OrderIInv, RequestTypes
<1> QED BY <1>1, EndKeeps DEF Fails

LEMMA CommitKeeps ==
  ASSUME ReplenishmentAssumption, OrderIInv, NEW x \in Slots, Commit(x)
  PROVE  OrderIInv'
<1>1. req[x] # NoRequest
  BY DEF Commit
<1>2. PICK op \in Operations, d \in Docs :
        op = req[x].op /\ d = req[x].doc /\ d \in op.on
  BY <1>1, UnderWay
<1>3. /\ status' = IF req[x].writes THEN [status EXCEPT ![d] = op.to] ELSE status
      /\ done' = IF op \in Decisions THEN [done EXCEPT ![d] = @ + 1] ELSE done
      /\ op.event # "none" => req[x].step = "sent"
      /\ patched' \subseteq patched \cup {d}
      /\ req' = [req EXCEPT ![x] = NoRequest] /\ req'[x] = NoRequest
      /\ UNCHANGED <<made, ordered, delivered, overlapped, dropped>>
  BY <1>2 DEF Commit, Ends, OrderIInv, RequestTypes
<1>4. InKind(x)' /\ SentInv(x)'
  BY <1>3, NoRequestFacts DEF InKind, SentInv
<1>5. \A o \in Orders : Announced(o) => Announced(o)'
  BY <1>3 DEF Announced
<1>6. /\ req' \in [Slots -> RequestType]
      /\ \A y \in Slots : InKind(y)' /\ SentInv(y)'
  BY <1>3, <1>4, <1>5, NoRequestFacts, SlotStep
<1>7. op.to \in Statuses \ {"NONE"}
  BY OperationFacts
<1>8. RequestTypes'
  BY <1>3, <1>6, <1>7 DEF OrderIInv, RequestTypes
<1>9. OrderedIsAnnounced'
  <2>1. InKind(x) /\ SentInv(x) /\ OrderedIsAnnounced /\ status \in [Docs -> Statuses]
    BY DEF OrderIInv, RequestTypes
  <2>2. d \in Orders => d \in ordered
    <3>1. CASE op = Create
      BY <1>2, <1>3, <2>1, <3>1, OperationFacts DEF SentInv
    <3>2. CASE op # Create
      BY <1>1, <1>2, <2>1, <3>2, UnderWay DEF InKind
    <3> QED BY <3>1, <3>2
  <2>3. d \in Orders /\ op.to = "COMPLETED" => Announced(d)
    <3>1. ASSUME d \in Orders, op.to = "COMPLETED" PROVE op.event = "delivered"
      BY <1>2, <3>1, OperationFacts DEF ReplenishmentAssumption
    <3> QED BY <1>2, <1>3, <2>1, <3>1 DEF SentInv
  <2>4. ASSUME NEW o \in Orders
        PROVE  /\ status'[o] # "NONE" => o \in ordered
               /\ status'[o] = "COMPLETED" => Announced(o)
    <3>1. o \in Docs
      BY DEF Docs
    <3>2. status'[o] = status[o] \/ (o = d /\ status'[o] = op.to)
      BY <1>3, <2>1, <3>1
    <3> QED BY <2>1, <2>2, <2>3, <3>2 DEF OrderedIsAnnounced, Announced
  <2> QED BY <1>3, <2>4 DEF OrderedIsAnnounced, Announced
<1> QED BY <1>6, <1>8, <1>9 DEF OrderIInv

LEMMA StepOrders ==
  ASSUME ReplenishmentAssumption, OrderIInv, Requests PROVE OrderIInv'
<1>1. ASSUME NEW k \in PickLists, CreatePickList(k) PROVE OrderIInv'
  BY <1>1, InsertKeeps DEF CreatePickList
<1>2. ASSUME NEW s \in Slips, CreateSlip(s) PROVE OrderIInv'
  BY <1>2, InsertKeeps DEF CreateSlip
<1>3. ASSUME NEW x \in Slots, NEW o \in Orders, InsertOrder(x, o) PROVE OrderIInv'
  BY <1>3, InsertOrderKeeps
<1>4. ASSUME NEW x \in Slots, NEW d \in Docs, NEW op \in Updates, ReadDoc(x, d, op)
      PROVE  OrderIInv'
  BY <1>4, ReadKeeps
<1>5. ASSUME NEW x \in Slots,
             WriteDoc(x) \/ KeepDoc(x) \/ SendEvent(x) \/ Commit(x) \/ Fails(x)
      PROVE  OrderIInv'
  BY <1>5, GoOnKeeps, SendKeeps, CommitKeeps, FailsKeeps
<1> QED BY <1>1, <1>2, <1>3, <1>4, <1>5 DEF Requests

\* The warehouse's consumer touches nothing a request or an order is about.
LEMMA OthersKeepOrders ==
  ASSUME OrderIInv, UNCHANGED requestVars PROVE OrderIInv'
<1>1. RequestTypes' /\ OrderedIsAnnounced'
  BY DEF OrderIInv, requestVars, RequestTypes, OrderedIsAnnounced
<1>2. \A x \in Slots : InKind(x)' /\ SentInv(x)'
  BY DEF OrderIInv, requestVars, InKind, SentInv, Announced
<1> QED BY <1>1, <1>2 DEF OrderIInv

LEMMA ReceivingKeepsRequests == ASSUME Receiving PROVE UNCHANGED requestVars
BY DEF Receiving, HandlerBegins, PostLine, HandlerRaises, HandlerReturns, DeadLetter, Settle

LEMMA NextOrders ==
  ASSUME ReplenishmentAssumption, OrderIInv, [Next]_vars PROVE OrderIInv'
<1>1. CASE Requests
  BY <1>1, StepOrders
<1>2. CASE Receiving
  BY <1>2, ReceivingKeepsRequests, OthersKeepOrders
<1>3. CASE UNCHANGED vars
  BY <1>3, OthersKeepOrders DEF vars
<1> QED BY <1>1, <1>2, <1>3 DEF Next

\* Whatever requests overlap, fail or patch: an order in the table was announced, and
\* one that is completed has a delivered event on its way to the warehouse.
THEOREM OrdersAnnounced == Spec => []OrderedIsAnnounced
<1>1. Init => OrderIInv
  BY InitOrders, ReplenishmentAssumption
<1>2. OrderIInv /\ [Next]_vars => OrderIInv'
  BY NextOrders, ReplenishmentAssumption
<1>3. OrderIInv => OrderedIsAnnounced
  BY DEF OrderIInv
<1> QED BY <1>1, <1>2, <1>3, PTL DEF Spec

-----------------------------------------------------------------------------
(* Receipts.                                                               *)

Booked(o, l) == received[o][l] >= 1
AllBooked(i) == \A l \in DOMAIN Lines[delivered[i]] : Booked(delivered[i], l)

ReceiptTypes ==
  /\ delivered \in Seq(Orders)
  /\ settled \in 0..Len(delivered)
  /\ handled \cup dlq \subseteq DOMAIN delivered
  /\ work \in [Workers -> [event : {0} \cup DOMAIN delivered, line : Nat \ {0}]]
  /\ \A n \in numbers : n[2] \in {Prefix[p] : p \in Products}
  /\ DOMAIN received = Orders /\ \A o \in Orders : received[o] \in [DOMAIN Lines[o] -> Nat]

\* A booked line has left its number behind.
NumbersInv ==
  \A o \in Orders : \A l \in DOMAIN Lines[o] :
    /\ Booked(o, l) => <<o, Prefix[Lines[o][l]]>> \in numbers
    /\ received[o][l] <= 1

\* A call has booked what it has behind it.
WorkInv ==
  \A w \in Workers :
    work[w].event > 0 =>
      \A l \in DOMAIN Lines[delivered[work[w].event]] :
        l < work[w].line => Booked(delivered[work[w].event], l)

HandledInv == \A i \in handled : AllBooked(i)
SettledInv == \A i \in 1..settled : i \in handled \cup dlq

ReceiptIInv == ReceiptTypes /\ NumbersInv /\ WorkInv /\ HandledInv /\ SettledInv

LEMMA InitReceipts == ASSUME ReplenishmentAssumption, Init PROVE ReceiptIInv
<1>1. ReceiptTypes
  BY DEF Init, ReceiptTypes, NoWork
<1>2. NumbersInv
  BY DEF Init, NumbersInv, Booked
<1>3. WorkInv /\ HandledInv /\ SettledInv
  BY DEF Init, WorkInv, HandledInv, SettledInv, NoWork
<1> QED BY <1>1, <1>2, <1>3 DEF ReceiptIInv

\* Requests at most add an event.
LEMMA MoreEvents ==
  ASSUME ReceiptIInv, delivered' \in Seq(Orders),
         Len(delivered') >= Len(delivered),
         \A i \in DOMAIN delivered : delivered'[i] = delivered[i],
         UNCHANGED receiptVars
  PROVE  ReceiptIInv'
<1>1. \A i \in DOMAIN delivered : i \in DOMAIN delivered'
  BY DEF ReceiptIInv, ReceiptTypes
<1>2. UNCHANGED <<settled, handled, dlq, work, numbers, received>>
  BY DEF receiptVars
<1>3. ReceiptTypes'
  <2>1. \A w \in Workers : work'[w] \in [event : {0} \cup DOMAIN delivered', line : Nat \ {0}]
    BY <1>1, <1>2 DEF ReceiptIInv, ReceiptTypes
  <2>2. settled' \in 0..Len(delivered')
    BY <1>2 DEF ReceiptIInv, ReceiptTypes
  <2>3. handled' \cup dlq' \subseteq DOMAIN delivered'
    BY <1>1, <1>2 DEF ReceiptIInv, ReceiptTypes
  <2> QED BY <1>2, <2>1, <2>2, <2>3 DEF ReceiptIInv, ReceiptTypes
<1>4. NumbersInv' /\ SettledInv'
  BY <1>2 DEF ReceiptIInv, NumbersInv, SettledInv, Booked
<1>5. WorkInv'
  <2> SUFFICES ASSUME NEW w \in Workers, work[w].event > 0
               PROVE  /\ delivered'[work[w].event] = delivered[work[w].event]
    BY <1>2 DEF ReceiptIInv, WorkInv, Booked
  <2>1. work[w].event \in DOMAIN delivered
    BY DEF ReceiptIInv, ReceiptTypes
  <2> QED BY <2>1
<1>6. HandledInv'
  <2>1. \A i \in handled : delivered'[i] = delivered[i]
    BY DEF ReceiptIInv, ReceiptTypes
  <2> QED BY <1>2, <2>1 DEF ReceiptIInv, HandledInv, AllBooked, Booked
<1> QED BY <1>3, <1>4, <1>5, <1>6 DEF ReceiptIInv

LEMMA RequestsAddEvents ==
  ASSUME OrderIInv, OrderIInv', Requests
  PROVE  /\ UNCHANGED receiptVars
         /\ delivered' \in Seq(Orders) /\ Len(delivered') >= Len(delivered)
         /\ \A i \in DOMAIN delivered : delivered'[i] = delivered[i]
<1>1. delivered \in Seq(Orders) /\ delivered' \in Seq(Orders)
  BY DEF OrderIInv, RequestTypes
<1>2. ASSUME NEW x \in Slots, SendEvent(x)
      PROVE  /\ UNCHANGED receiptVars
             /\ Len(delivered') >= Len(delivered)
             /\ \A i \in DOMAIN delivered : delivered'[i] = delivered[i]
  <2>1. UNCHANGED receiptVars
    BY <1>2 DEF SendEvent
  <2>2. CASE UNCHANGED delivered
    BY <1>1, <2>1, <2>2
  <2>3. CASE delivered' = Append(delivered, req[x].doc)
    <3>1. req[x] # NoRequest /\ req[x].op.event # "none"
      BY <1>2, <2>3, NoRequestFacts DEF SendEvent
    <3>2. req[x].op \in Operations /\ req[x].doc \in req[x].op.on
      BY <3>1, UnderWay
    <3>3. req[x].doc \in Orders
      BY <3>1, <3>2, OperationFacts
    <3> QED BY <1>1, <2>1, <2>3, <3>3
  <2> QED BY <1>2, <2>2, <2>3, SendKeeps
<1>3. ASSUME NEW x \in Slots,
             \/ \E o \in Orders : InsertOrder(x, o)
             \/ \E d \in Docs, op \in Updates : ReadDoc(x, d, op)
             \/ WriteDoc(x) \/ KeepDoc(x) \/ Commit(x) \/ Fails(x)
      PROVE  UNCHANGED receiptVars /\ UNCHANGED delivered
  BY <1>3 DEF InsertOrder, ReadDoc, Begin, WriteDoc, KeepDoc, Commit, Fails
<1>4. ASSUME \/ \E k \in PickLists : CreatePickList(k)
             \/ \E s \in Slips : CreateSlip(s)
      PROVE  UNCHANGED receiptVars /\ UNCHANGED delivered
  BY <1>4 DEF CreatePickList, CreateSlip, Insert
<1> QED BY <1>1, <1>2, <1>3, <1>4 DEF Requests

\* A step that books nothing keeps what is booked.
LEMMA WorkStep ==
  ASSUME ReceiptIInv, NEW w \in Workers,
         NEW t \in [event : {0} \cup DOMAIN delivered, line : Nat \ {0}],
         work' = [work EXCEPT ![w] = t],
         t.event > 0 => \A l \in DOMAIN Lines[delivered[t.event]] :
                          l < t.line => Booked(delivered[t.event], l),
         UNCHANGED <<delivered, settled, dlq, numbers, received>>,
         \/ handled' = handled
         \/ \E i \in DOMAIN delivered : AllBooked(i) /\ handled' = handled \cup {i}
  PROVE  ReceiptIInv'
<1>1. handled' \subseteq DOMAIN delivered /\ handled \subseteq handled'
      /\ \A i \in handled' : AllBooked(i)
  BY DEF ReceiptIInv, ReceiptTypes, HandledInv
<1>2. work \in [Workers -> [event : {0} \cup DOMAIN delivered, line : Nat \ {0}]]
  BY DEF ReceiptIInv, ReceiptTypes
<1>3. ReceiptTypes'
  BY <1>1, <1>2 DEF ReceiptIInv, ReceiptTypes
<1>4. WorkInv'
  BY <1>2 DEF ReceiptIInv, WorkInv, Booked
<1>5. NumbersInv' /\ SettledInv' /\ HandledInv'
  BY <1>1 DEF ReceiptIInv, NumbersInv, SettledInv, HandledInv, AllBooked, Booked
<1> QED BY <1>3, <1>4, <1>5 DEF ReceiptIInv

LEMMA HandlerBeginsKeeps ==
  ASSUME ReceiptIInv, NEW w \in Workers, NEW i \in DOMAIN delivered, HandlerBegins(w, i)
  PROVE  ReceiptIInv'
<1> DEFINE t == [event |-> i, line |-> 1]
<1>1. i \in Nat \ {0}
  BY DEF ReceiptIInv, ReceiptTypes
<1>2. t \in [event : {0} \cup DOMAIN delivered, line : Nat \ {0}] /\ t.event = i /\ t.line = 1
  OBVIOUS
<1>3. work' = [work EXCEPT ![w] = t]
  BY DEF HandlerBegins
<1>4. \A l \in DOMAIN Lines[delivered[t.event]] : l < t.line => Booked(delivered[t.event], l)
  <2>1. delivered[i] \in Orders
    BY DEF ReceiptIInv, ReceiptTypes
  <2>2. \A l \in DOMAIN Lines[delivered[i]] : l \in Nat /\ l >= 1
    BY <2>1, ReplenishmentAssumption DEF ReplenishmentAssumption
  <2> QED BY <1>2, <2>2
<1> HIDE DEF t
<1>5. UNCHANGED <<delivered, settled, dlq, numbers, received, handled>>
  BY DEF HandlerBegins, requestVars
<1> QED BY <1>2, <1>3, <1>4, <1>5, WorkStep

LEMMA NoWorkFacts ==
  /\ NoWork \in [event : {0} \cup DOMAIN delivered, line : Nat \ {0}]
  /\ ~(NoWork.event > 0)
BY DEF NoWork

LEMMA HandlerRaisesKeeps ==
  ASSUME ReceiptIInv, NEW w \in Workers, HandlerRaises(w) PROVE ReceiptIInv'
<1>1. /\ work' = [work EXCEPT ![w] = NoWork]
      /\ UNCHANGED <<delivered, settled, dlq, numbers, received, handled>>
  BY DEF HandlerRaises, requestVars
<1> QED BY <1>1, NoWorkFacts, WorkStep

LEMMA HandlerReturnsKeeps ==
  ASSUME ReceiptIInv, NEW w \in Workers, HandlerReturns(w) PROVE ReceiptIInv'
<1>1. /\ work' = [work EXCEPT ![w] = NoWork]
      /\ handled' = handled \cup {work[w].event}
      /\ UNCHANGED <<delivered, settled, dlq, numbers, received>>
  BY DEF HandlerReturns, requestVars
<1>2. /\ work[w].event \in DOMAIN delivered /\ work[w].event > 0
      /\ work[w].line \in Nat /\ delivered[work[w].event] \in Orders
  BY DEF ReceiptIInv, ReceiptTypes, HandlerReturns
<1>3. Lines[delivered[work[w].event]] \in Seq(Products)
  BY <1>2, ReplenishmentAssumption DEF ReplenishmentAssumption
<1>4. work[w].line > Len(Lines[delivered[work[w].event]])
  BY <1>2, <1>3 DEF HandlerReturns, AtLine
<1>5. AllBooked(work[w].event)
  <2> SUFFICES ASSUME NEW l \in DOMAIN Lines[delivered[work[w].event]]
               PROVE  Booked(delivered[work[w].event], l)
    BY DEF AllBooked
  <2>1. l < work[w].line
    BY <1>2, <1>3, <1>4
  <2> QED BY <1>2, <2>1 DEF ReceiptIInv, WorkInv
<1> QED BY <1>1, <1>2, <1>5, NoWorkFacts, WorkStep

\* The number was new, so the line was not booked before.
LEMMA PostLineKeeps ==
  ASSUME ReceiptIInv, NEW w \in Workers, PostLine(w) PROVE ReceiptIInv'
<1>1. PICK i \in DOMAIN delivered, l \in Nat \ {0} : i = work[w].event /\ l = work[w].line
  BY DEF PostLine, AtLine, ReceiptIInv, ReceiptTypes
<1>2. PICK o \in Orders : o = delivered[i]
  BY DEF ReceiptIInv, ReceiptTypes
<1>3. Lines[o] \in Seq(Products)
  BY ReplenishmentAssumption DEF ReplenishmentAssumption
<1>4. l \in DOMAIN Lines[o] /\ i > 0
  BY <1>1, <1>2, <1>3 DEF PostLine, AtLine
<1> DEFINE n == <<o, Prefix[Lines[o][l]]>>
<1>5. /\ n \notin numbers /\ numbers' = numbers \cup {n}
      /\ received' = [received EXCEPT ![o][l] = @ + 1]
      /\ UNCHANGED <<delivered, settled, handled, dlq>>
  BY <1>1, <1>2 DEF PostLine, Number, requestVars
<1>6. /\ DOMAIN received = Orders
      /\ \A c \in Orders : received[c] \in [DOMAIN Lines[c] -> Nat]
  BY DEF ReceiptIInv, ReceiptTypes
<1>7. received[o][l] = 0
  <2>1. ~Booked(o, l)
    BY <1>4, <1>5 DEF ReceiptIInv, NumbersInv
  <2> QED BY <1>4, <1>6, <2>1 DEF Booked
<1>8. /\ DOMAIN received' = Orders
      /\ \A c \in Orders : received'[c] \in [DOMAIN Lines[c] -> Nat]
      /\ received'[o][l] = 1
      /\ \A c \in Orders : \A m \in DOMAIN Lines[c] :
           ~(c = o /\ m = l) => received'[c][m] = received[c][m]
  BY <1>4, <1>5, <1>6, <1>7
<1>9. \A c \in Orders : \A m \in DOMAIN Lines[c] : Booked(c, m) => Booked(c, m)'
  BY <1>6, <1>8 DEF Booked
<1>10. NumbersInv'
  <2> SUFFICES ASSUME NEW c \in Orders, NEW m \in DOMAIN Lines[c]
               PROVE  /\ received'[c][m] >= 1 => <<c, Prefix[Lines[c][m]]>> \in numbers'
                      /\ received'[c][m] <= 1
    BY DEF NumbersInv, Booked
  <2>1. CASE c = o /\ m = l
    BY <1>5, <1>8, <2>1
  <2>2. CASE ~(c = o /\ m = l)
    BY <1>5, <1>8, <2>2 DEF ReceiptIInv, NumbersInv, Booked
  <2> QED BY <2>1, <2>2
<1>11. PICK t \in [event : {0} \cup DOMAIN delivered, line : Nat \ {0}] :
         /\ work' = [work EXCEPT ![w] = t]
         /\ t.event > 0 => t.event = i /\ t.line = l + 1
  <2>1. CASE work' = [work EXCEPT ![w].line = l + 1]
    <3>1. [work[w] EXCEPT !.line = l + 1] \in [event : {0} \cup DOMAIN delivered, line : Nat \ {0}]
      <4>1. work[w] \in [event : {0} \cup DOMAIN delivered, line : Nat \ {0}]
        BY DEF ReceiptIInv, ReceiptTypes
      <4>2. l + 1 \in Nat \ {0}
        OBVIOUS
      <4> QED BY <4>1, <4>2
    <3>2. [work[w] EXCEPT !.line = l + 1].event = i
          /\ [work[w] EXCEPT !.line = l + 1].line = l + 1
      BY <1>1 DEF ReceiptIInv, ReceiptTypes
    <3> QED BY <2>1, <3>1, <3>2
  <2>2. CASE work' = [work EXCEPT ![w] = NoWork]
    BY <2>2, NoWorkFacts
  <2> QED BY <1>1, <2>1, <2>2 DEF PostLine
<1>12. work \in [Workers -> [event : {0} \cup DOMAIN delivered, line : Nat \ {0}]]
  BY DEF ReceiptIInv, ReceiptTypes
<1>13. Lines[o][l] \in Products
  BY <1>3, <1>4
<1>14. ReceiptTypes'
  <2>1. \A k \in numbers' : k[2] \in {Prefix[p] : p \in Products}
    BY <1>5, <1>13 DEF ReceiptIInv, ReceiptTypes
  <2> QED BY <1>5, <1>8, <1>11, <1>12, <2>1 DEF ReceiptIInv, ReceiptTypes
<1>15. ASSUME NEW v \in Workers, NEW j \in DOMAIN delivered, work'[v].event = j,
              NEW m \in DOMAIN Lines[delivered[j]], m < work'[v].line
       PROVE  received'[delivered[j]][m] >= 1
  <2>1. delivered[j] \in Orders /\ j > 0
    BY DEF ReceiptIInv, ReceiptTypes
  <2>2. CASE v # w
    <3>1. work'[v] = work[v]
      BY <1>11, <1>12, <2>2
    <3>2. Booked(delivered[j], m)
      BY <1>15, <2>1, <3>1 DEF ReceiptIInv, WorkInv
    <3> QED BY <1>9, <2>1, <3>2 DEF Booked
  <2>3. CASE v = w
    <3>1. j = i /\ work'[v].line = l + 1
      BY <1>11, <1>12, <1>15, <2>1, <2>3
    <3>2. m \in DOMAIN Lines[o] /\ m \in Nat /\ m < l + 1
      BY <1>2, <1>3, <1>15, <3>1
    <3>3. CASE m < l
      <4>1. Booked(o, m)
        BY <1>1, <1>2, <1>4, <3>2, <3>3 DEF ReceiptIInv, WorkInv
      <4> QED BY <1>2, <1>9, <3>1, <3>2, <4>1 DEF Booked
    <3>4. CASE m = l
      BY <1>2, <1>8, <3>1, <3>4
    <3> QED BY <3>2, <3>3, <3>4
  <2> QED BY <2>2, <2>3
<1>15a. WorkInv'
  <2>1. \A v \in Workers : work'[v].event > 0 => work'[v].event \in DOMAIN delivered
    BY <1>5, <1>14 DEF ReceiptTypes
  <2> QED BY <1>5, <1>15, <2>1 DEF WorkInv, Booked
<1>16. HandledInv' /\ SettledInv'
  <2>1. \A j \in handled : delivered[j] \in Orders
    BY DEF ReceiptIInv, ReceiptTypes
  <2>2. HandledInv'
    BY <1>5, <1>9, <2>1 DEF ReceiptIInv, HandledInv, AllBooked
  <2> QED BY <1>5, <2>2 DEF ReceiptIInv, SettledInv
<1> QED BY <1>10, <1>14, <1>15a, <1>16 DEF ReceiptIInv

LEMMA QueueKeeps ==
  ASSUME ReceiptIInv, Settle \/ \E i \in DOMAIN delivered : DeadLetter(i)
  PROVE  ReceiptIInv'
<1>1. UNCHANGED <<delivered, handled, work, numbers, received>>
  BY DEF Settle, DeadLetter, requestVars
<1>2. dlq \subseteq dlq' /\ dlq' \subseteq DOMAIN delivered
  BY DEF ReceiptIInv, ReceiptTypes, Settle, DeadLetter
<1>3. settled' \in 0..Len(delivered) /\ SettledInv'
  <2>1. settled \in 0..Len(delivered) /\ Len(delivered) \in Nat
    BY DEF ReceiptIInv, ReceiptTypes
  <2>2. CASE Settle
    BY <1>1, <2>1, <2>2 DEF ReceiptIInv, SettledInv, Settle
  <2>3. CASE \E i \in DOMAIN delivered : DeadLetter(i)
    BY <1>1, <1>2, <2>1, <2>3 DEF ReceiptIInv, SettledInv, DeadLetter
  <2> QED BY <2>2, <2>3
<1>4. ReceiptTypes'
  BY <1>1, <1>2, <1>3 DEF ReceiptIInv, ReceiptTypes
<1>5. NumbersInv' /\ WorkInv' /\ HandledInv'
  BY <1>1 DEF ReceiptIInv, NumbersInv, WorkInv, HandledInv, AllBooked, Booked
<1> QED BY <1>3, <1>4, <1>5 DEF ReceiptIInv

IInv == OrderIInv /\ ReceiptIInv

LEMMA InitIInv == ASSUME ReplenishmentAssumption, Init PROVE IInv
BY InitOrders, InitReceipts DEF IInv

LEMMA StepIInv ==
  ASSUME ReplenishmentAssumption, IInv, [Next]_vars PROVE IInv'
<1>1. OrderIInv'
  BY NextOrders DEF IInv
<1>2. CASE Requests
  BY <1>1, <1>2, RequestsAddEvents, MoreEvents DEF IInv
<1>3. CASE Receiving
  BY <1>1, <1>3, HandlerBeginsKeeps, PostLineKeeps, HandlerRaisesKeeps, HandlerReturnsKeeps,
     QueueKeeps DEF IInv, Receiving
<1>4. CASE UNCHANGED vars
  <2>1. UNCHANGED receiptVars /\ UNCHANGED delivered
    BY <1>4 DEF vars, requestVars
  <2> QED BY <1>1, <2>1, MoreEvents DEF IInv, ReceiptIInv, ReceiptTypes
<1> QED BY <1>2, <1>3, <1>4 DEF Next

\* The types of orders, requests and receipts.
THEOREM ReplenishmentTyping == Spec => []ReplenishmentTypeOK
<1>1. Init => IInv
  BY InitIInv, ReplenishmentAssumption
<1>2. IInv /\ [Next]_vars => IInv'
  BY StepIInv, ReplenishmentAssumption
<1>3. IInv => ReplenishmentTypeOK
  BY DEF IInv, OrderIInv, ReceiptIInv, RequestTypes, ReceiptTypes, ReplenishmentTypeOK, Statuses
<1> QED BY <1>1, <1>2, <1>3, PTL DEF Spec

\* However often an order is announced as delivered, its events are handled, and answers
\* of inventory-service are lost: no line of it is booked twice.
THEOREM BookedOnce == Spec => []LineReceivedOnce
<1>1. Init => IInv
  BY InitIInv, ReplenishmentAssumption
<1>2. IInv /\ [Next]_vars => IInv'
  BY StepIInv, ReplenishmentAssumption
<1>3. IInv => LineReceivedOnce
  BY DEF IInv, ReceiptIInv, NumbersInv, LineReceivedOnce
<1> QED BY <1>1, <1>2, <1>3, PTL DEF Spec

\* A delivery the consumer is done with was booked line by line, or is parked.
THEOREM DeliveriesBooked == Spec => []SettledIsReceived
<1>1. Init => IInv
  BY InitIInv, ReplenishmentAssumption
<1>2. IInv /\ [Next]_vars => IInv'
  BY StepIInv, ReplenishmentAssumption
<1>3. IInv => SettledIsReceived
  BY DEF IInv, ReceiptIInv, SettledInv, HandledInv, AllBooked, Booked, SettledIsReceived
<1> QED BY <1>1, <1>2, <1>3, PTL DEF Spec

-----------------------------------------------------------------------------
(* Documents no two requests had in hand and nobody patched: the one       *)
(* request that has such a document in hand still finds the status it has  *)
(* read, and decisions and delivered events agree with the status.         *)

Final == {"COMPLETED", "CANCELLED", "DISPATCHED"}

Undisturbed(d) ==
  /\ \A x, y \in InHand(d) : x = y
  /\ \A x \in InHand(d) :
       /\ req[x].seen = status[d] /\ status[d] \in req[x].op.from
       /\ req[x].step \in {"written", "sent"} /\ req[x].op.to # status[d] => req[x].writes
  /\ done[d] = IF status[d] \in Final THEN 1 ELSE 0
  /\ d \in Orders \ dropped /\ Announced(d) =>
       \/ status[d] = "COMPLETED"
       \/ \E x \in InHand(d) : req[x].step = "sent" /\ req[x].op = Complete

\* What is in stock came in through a delivered event.
ReceivedInv ==
  \A o \in Orders : \A l \in DOMAIN Lines[o] : received[o][l] > 0 => Announced(o)

DoneIInv ==
  /\ IInv
  /\ ReceivedInv
  /\ \A d \in Docs \ (overlapped \cup patched) : Undisturbed(d)

LEMMA DecisionFacts ==
  ASSUME NEW op \in Operations
  PROVE  /\ op \in Decisions => op.to \in Final /\ op.to \notin op.from /\ op.from \cap Final = {}
         /\ op \notin Decisions /\ op \notin Patches => op.to \notin Final /\ op.from \cap Final = {}
         /\ op = Create => op.to \notin op.from
         /\ op.event = "delivered" <=> op = Complete
         /\ op.to = "COMPLETED" => op = Complete \/ op.on = PickLists
         /\ op = Complete => op.to = "COMPLETED" /\ op \in Decisions
<1>1. \/ op = Create
      \/ op \in {Complete, Cancel, CompletePick, Dispatch}
      \/ op = Assign
      \/ op \in {Patch("ACKNOWLEDGED"), Patch("IN_PROGRESS")}
  BY DEF Operations, Updates, Decisions, Patches, Open
<1>2. CASE op = Create
  BY <1>2 DEF Decisions, Patches, Create, Complete, Cancel, CompletePick, Dispatch, Patch, Op, Final, Open
<1>3. CASE op \in {Complete, Cancel, CompletePick, Dispatch}
  <2>1. op.event = "delivered" <=> op = Complete
    BY <1>3 DEF Complete, Cancel, CompletePick, Dispatch, Op
  <2>2. op \in Decisions /\ op # Create
    BY <1>3 DEF Decisions, Create, Complete, Cancel, CompletePick, Dispatch, Op
  <2>3. op.to \in Final /\ op.to \notin op.from /\ op.from \cap Final = {}
    BY <1>3 DEF Complete, Cancel, CompletePick, Dispatch, Op, Final, Open
  <2>4. op = CompletePick \/ (op.to = "COMPLETED" => op = Complete)
    BY <1>3 DEF Complete, Cancel, CompletePick, Dispatch, Op
  <2>5. CompletePick.on = PickLists /\ Complete.to = "COMPLETED"
    BY DEF CompletePick, Complete, Op
  <2> QED BY <2>1, <2>2, <2>3, <2>4, <2>5
<1>4. CASE op = Assign
  BY <1>4 DEF Decisions, Patches, Create, Assign, Complete, Cancel, CompletePick, Dispatch, Patch, Op, Final, Open
<1>5. CASE op \in {Patch("ACKNOWLEDGED"), Patch("IN_PROGRESS")}
  BY <1>5 DEF Decisions, Patches, Create, Complete, Cancel, CompletePick, Dispatch, Patch, Op, Final, Open
<1> QED BY <1>1, <1>2, <1>3, <1>4, <1>5

\* Nothing that is said of document d has changed, but for what requests are doing.
Untouched(d) ==
  /\ status'[d] = status[d] /\ done'[d] = done[d]
  /\ Announced(d)' => Announced(d)
  /\ dropped \subseteq dropped'

\* Undisturbed documents stay so where neither the document nor its requests change.
LEMMA Elsewhere ==
  ASSUME NEW d \in Docs, Undisturbed(d), Untouched(d),
         \A y \in Slots : req[y].doc = d \/ req'[y].doc = d => req'[y] = req[y]
  PROVE  Undisturbed(d)'
<1>1. InHand(d)' = InHand(d) /\ \A y \in InHand(d) : req'[y] = req[y]
  BY DEF InHand
<1>2. d \in dropped => d \in dropped'
  BY DEF Untouched
<1>3. /\ \A x, y \in InHand(d)' : x = y
      /\ \A x \in InHand(d)' :
           /\ req'[x].seen = status'[d] /\ status'[d] \in req'[x].op.from
           /\ req'[x].step \in {"written", "sent"} /\ req'[x].op.to # status'[d]
                => req'[x].writes
  BY <1>1 DEF Undisturbed, Untouched
<1>4. done'[d] = IF status'[d] \in Final THEN 1 ELSE 0
  BY DEF Undisturbed, Untouched
<1>5. d \in Orders \ dropped' /\ Announced(d)' =>
        \/ status'[d] = "COMPLETED"
        \/ \E x \in InHand(d)' : req'[x].step = "sent" /\ req'[x].op = Complete
  BY <1>1, <1>2 DEF Undisturbed, Untouched
<1> QED BY <1>3, <1>4, <1>5 DEF Undisturbed

\* A step of one request, about d.
LEMMA OneSlot ==
  ASSUME ReplenishmentAssumption, DoneIInv, NEW x \in Slots, NEW d \in Docs,
         req[x].doc \in {NoDoc, d}, req'[x].doc \in {NoDoc, d},
         \A y \in Slots \ {x} : req'[y] = req[y],
         \A c \in Docs \ {d} : Untouched(c),
         overlapped \subseteq overlapped', patched \subseteq patched',
         d \notin overlapped' \cup patched' => Undisturbed(d)'
  PROVE  \A c \in Docs \ (overlapped' \cup patched') : Undisturbed(c)'
<1> SUFFICES ASSUME NEW c \in Docs \ (overlapped' \cup patched'), c # d PROVE Undisturbed(c)'
  OBVIOUS
<1>1. Undisturbed(c) /\ Untouched(c)
  BY DEF DoneIInv
<1>2. \A y \in Slots : req[y].doc = c \/ req'[y].doc = c => req'[y] = req[y]
  BY DEF ReplenishmentAssumption
<1> QED BY <1>1, <1>2, Elsewhere

\* What the only request for an undisturbed document knows.
LEMMA Holder ==
  ASSUME ReplenishmentAssumption, DoneIInv, NEW x \in Slots, NEW d \in Docs,
         req[x] # NoRequest, req[x].doc = d, d \notin overlapped \cup patched
  PROVE  /\ Undisturbed(d) /\ InHand(d) = {x}
         /\ req[x].seen = status[d] /\ status[d] \in req[x].op.from
         /\ req[x].step \in {"written", "sent"} /\ req[x].op.to # status[d] => req[x].writes
<1>1. Undisturbed(d)
  BY DEF DoneIInv
<1>2. x \in InHand(d)
  BY DEF InHand
<1> QED BY <1>1, <1>2 DEF Undisturbed

LEMMA Facts ==
  ASSUME ReplenishmentAssumption, DoneIInv
  PROVE  /\ OrderIInv /\ status \in [Docs -> Statuses] /\ done \in [Docs -> Nat]
         /\ req \in [Slots -> RequestType] /\ delivered \in Seq(Orders)
         /\ NoRequest.doc = NoDoc /\ NoDoc \notin Docs
BY NoRequestFacts DEF DoneIInv, IInv, OrderIInv, RequestTypes, ReplenishmentAssumption

\* A new request: its document was free, or is disturbed now.
LEMMA BeginDone ==
  ASSUME ReplenishmentAssumption, DoneIInv, NEW x \in Slots, NEW op \in Operations,
         NEW d \in Docs, NEW step \in {"read", "written"}, NEW writes \in BOOLEAN,
         status[d] \in op.from, step = "written" => writes, Begin(x, d, op, step, writes)
  PROVE  \A c \in Docs \ (overlapped' \cup patched') : Undisturbed(c)'
<1>1. /\ req'[x].op = op /\ req'[x].doc = d /\ req'[x].step = step
      /\ req'[x].seen = status[d] /\ req'[x].writes = writes
      /\ \A y \in Slots \ {x} : req'[y] = req[y]
      /\ req[x].doc = NoDoc
  BY Facts DEF Begin
<1>2. /\ overlapped \subseteq overlapped' /\ (d \notin overlapped' => InHand(d) = {})
      /\ UNCHANGED <<status, done, delivered, patched, dropped>>
  BY DEF Begin
<1>3. \A c \in Docs : Untouched(c)
  BY <1>2 DEF Untouched, Announced
<1>4. ASSUME d \notin overlapped' \cup patched' PROVE Undisturbed(d)'
  <2>1. Undisturbed(d) /\ InHand(d) = {}
    BY <1>2, <1>4 DEF DoneIInv
  <2>2. InHand(d)' = {x}
    BY <1>1, <2>1 DEF InHand
  <2>3. d \in Orders \ dropped' /\ Announced(d)' => status'[d] = "COMPLETED"
    BY <1>2, <2>1 DEF Undisturbed, Announced
  <2>4. done'[d] = IF status'[d] \in Final THEN 1 ELSE 0
    BY <1>2, <2>1 DEF Undisturbed
  <2>5. \A y \in {x} :
          /\ req'[y].seen = status'[d] /\ status'[d] \in req'[y].op.from
          /\ req'[y].step \in {"written", "sent"} /\ req'[y].op.to # status'[d] => req'[y].writes
    BY <1>1, <1>2
  <2> QED BY <2>2, <2>3, <2>4, <2>5 DEF Undisturbed
<1> QED BY <1>1, <1>2, <1>3, <1>4, OneSlot

LEMMA GoOnDone ==
  ASSUME ReplenishmentAssumption, DoneIInv, NEW x \in Slots, WriteDoc(x) \/ KeepDoc(x)
  PROVE  \A c \in Docs \ (overlapped' \cup patched') : Undisturbed(c)'
<1>1. req[x].step = "read" /\ req[x] # NoRequest
  BY NoRequestFacts DEF WriteDoc, KeepDoc
<1>2. PICK d \in Docs : d = req[x].doc
  BY <1>1, Facts, UnderWay
<1>3. UNCHANGED <<status, done, delivered, overlapped, patched, dropped>>
  BY DEF WriteDoc, KeepDoc
<1>4. \A c \in Docs : Untouched(c)
  BY <1>3 DEF Untouched, Announced
<1>5. req \in [Slots -> RequestType]
  BY Facts
<1>6. /\ req'[x].doc = d /\ req'[x].op = req[x].op /\ req'[x].seen = req[x].seen
      /\ req'[x].step = "written"
      /\ WriteDoc(x) => req'[x].writes
      /\ \A y \in Slots \ {x} : req'[y] = req[y]
  <2>1. CASE WriteDoc(x)
    BY <1>2, <1>5, <2>1 DEF WriteDoc, RequestType
  <2>2. CASE KeepDoc(x) /\ ~WriteDoc(x)
    BY <1>2, <1>5, <2>2 DEF KeepDoc, Goes, RequestType
  <2> QED BY <2>1, <2>2
<1>7. ASSUME d \notin overlapped' \cup patched' PROVE Undisturbed(d)'
  <2>1. Undisturbed(d) /\ InHand(d) = {x} /\ req[x].seen = status[d] /\ status[d] \in req[x].op.from
    BY <1>1, <1>2, <1>3, <1>7, Holder
  <2>2. InHand(d)' = {x}
    BY <1>6, <2>1 DEF InHand
  <2>3. KeepDoc(x) => req[x].op.to = status[d]
    BY <1>2, <2>1 DEF KeepDoc
  <2>4. d \in Orders \ dropped' /\ Announced(d)' => status'[d] = "COMPLETED"
    BY <1>1, <1>3, <2>1 DEF Undisturbed, Announced
  <2>5. done'[d] = IF status'[d] \in Final THEN 1 ELSE 0
    BY <1>3, <2>1 DEF Undisturbed
  <2>6. \A y \in {x} :
          /\ req'[y].seen = status'[d] /\ status'[d] \in req'[y].op.from
          /\ req'[y].step \in {"written", "sent"} /\ req'[y].op.to # status'[d] => req'[y].writes
    BY <1>3, <1>6, <2>1, <2>3
  <2> QED BY <2>2, <2>4, <2>5, <2>6 DEF Undisturbed
<1> QED BY <1>2, <1>3, <1>4, <1>6, <1>7, OneSlot

LEMMA SendDone ==
  ASSUME ReplenishmentAssumption, DoneIInv, NEW x \in Slots, SendEvent(x)
  PROVE  \A c \in Docs \ (overlapped' \cup patched') : Undisturbed(c)'
<1>1. req[x].step = "written" /\ req[x] # NoRequest
  BY NoRequestFacts DEF SendEvent
<1>2. PICK op \in Operations, d \in Docs : op = req[x].op /\ d = req[x].doc /\ d \in op.on
  BY <1>1, Facts, UnderWay
<1>3. UNCHANGED <<status, done, overlapped, patched, dropped>>
  BY DEF SendEvent
<1>4. \/ op.event = "ordered" /\ UNCHANGED delivered
      \/ op.event = "delivered" /\ delivered' = Append(delivered, d)
  BY <1>2 DEF SendEvent
<1>5. req \in [Slots -> RequestType] /\ delivered \in Seq(Orders)
  BY Facts
<1>6. /\ req'[x].doc = d /\ req'[x].op = op /\ req'[x].seen = req[x].seen
      /\ req'[x].step = "sent" /\ req'[x].writes = req[x].writes
      /\ \A y \in Slots \ {x} : req'[y] = req[y]
  BY <1>2, <1>5 DEF SendEvent, Goes, RequestType
<1>7. d \in Orders
  BY <1>2, <1>4, OperationFacts
<1>8. ASSUME NEW c \in Docs, c # d \/ op.event = "ordered", Announced(c)' PROVE Announced(c)
  <2>1. CASE UNCHANGED delivered
    BY <1>8, <2>1 DEF Announced
  <2>2. CASE op.event = "delivered" /\ delivered' = Append(delivered, d)
    <3>1. c # d
      BY <1>8, <2>2
    <3>2. PICK i \in DOMAIN delivered' : delivered'[i] = c
      BY <1>8 DEF Announced
    <3>3. i \in DOMAIN delivered /\ delivered[i] = c
      BY <1>5, <1>7, <2>2, <3>1, <3>2
    <3> QED BY <3>3 DEF Announced
  <2> QED BY <1>4, <2>1, <2>2
<1>9. \A c \in Docs \ {d} : Untouched(c)
  BY <1>3, <1>8 DEF Untouched
<1>10. ASSUME d \notin overlapped' \cup patched' PROVE Undisturbed(d)'
  <2>1. /\ Undisturbed(d) /\ InHand(d) = {x} /\ req[x].seen = status[d]
        /\ status[d] \in op.from
        /\ op.to # status[d] => req[x].writes
    BY <1>1, <1>2, <1>3, <1>10, Holder
  <2>2. InHand(d)' = {x}
    BY <1>6, <2>1 DEF InHand
  <2>3. d \in Orders \ dropped' /\ Announced(d)' =>
          \/ status'[d] = "COMPLETED"
          \/ \E y \in {x} : req'[y].step = "sent" /\ req'[y].op = Complete
    <3>1. CASE op.event = "delivered"
      BY <1>6, <3>1, DecisionFacts
    <3>2. CASE op.event = "ordered"
      BY <1>1, <1>3, <1>8, <2>1, <3>2 DEF Undisturbed
    <3> QED BY <1>4, <3>1, <3>2
  <2>4. done'[d] = IF status'[d] \in Final THEN 1 ELSE 0
    BY <1>3, <2>1 DEF Undisturbed
  <2>5. \A y \in {x} :
          /\ req'[y].seen = status'[d] /\ status'[d] \in req'[y].op.from
          /\ req'[y].step \in {"written", "sent"} /\ req'[y].op.to # status'[d] => req'[y].writes
    BY <1>3, <1>6, <2>1
  <2> QED BY <2>2, <2>3, <2>4, <2>5 DEF Undisturbed
<1> QED BY <1>2, <1>3, <1>6, <1>9, <1>10, OneSlot

LEMMA CommitDone ==
  ASSUME ReplenishmentAssumption, DoneIInv, NEW x \in Slots, Commit(x)
  PROVE  \A c \in Docs \ (overlapped' \cup patched') : Undisturbed(c)'
<1>1. req[x] # NoRequest
  BY DEF Commit
<1>2. PICK op \in Operations, d \in Docs : op = req[x].op /\ d = req[x].doc /\ d \in op.on
  BY <1>1, Facts, UnderWay
<1>3. /\ status' = IF req[x].writes THEN [status EXCEPT ![d] = op.to] ELSE status
      /\ done' = IF op \in Decisions THEN [done EXCEPT ![d] = @ + 1] ELSE done
      /\ req[x].step = IF op.event = "none" THEN "written" ELSE "sent"
      /\ op \in Patches => d \in patched'
      /\ patched \subseteq patched'
      /\ UNCHANGED <<delivered, overlapped, dropped>>
  BY <1>2 DEF Commit
<1>4. /\ req'[x] = NoRequest /\ NoRequest.doc = NoDoc /\ NoDoc \notin Docs
      /\ \A y \in Slots \ {x} : req'[y] = req[y]
  BY Facts DEF Commit, Ends
<1>5. status \in [Docs -> Statuses] /\ done \in [Docs -> Nat]
  BY Facts
<1>6. \A c \in Docs \ {d} : Untouched(c)
  BY <1>3, <1>5 DEF Untouched, Announced
<1>7. ASSUME d \notin overlapped' \cup patched' PROVE Undisturbed(d)'
  <2>1. /\ Undisturbed(d) /\ InHand(d) = {x} /\ status[d] \in op.from
        /\ op.to # status[d] => req[x].writes
    BY <1>1, <1>2, <1>3, <1>7, Holder
  <2>2. InHand(d)' = {}
    BY <1>2, <1>4, <2>1 DEF InHand
  <2>3. status'[d] = op.to /\ op \notin Patches
    BY <1>3, <1>5, <1>7, <2>1
  <2>4. done'[d] = IF op.to \in Final THEN 1 ELSE 0
    <3>1. CASE op \in Decisions
      <4>1. status[d] \notin Final /\ op.to \in Final
        BY <2>1, <3>1, DecisionFacts
      <4> QED BY <1>3, <1>5, <2>1, <3>1, <4>1 DEF Undisturbed
    <3>2. CASE op \notin Decisions
      <4>1. status[d] \notin Final /\ op.to \notin Final
        BY <2>1, <2>3, <3>2, DecisionFacts
      <4> QED BY <1>3, <2>1, <3>2, <4>1 DEF Undisturbed
    <3> QED BY <3>1, <3>2
  <2>5. d \in Orders \ dropped' /\ Announced(d)' => op.to = "COMPLETED"
    <3> SUFFICES ASSUME d \in Orders \ dropped, Announced(d) PROVE op.to = "COMPLETED"
      BY <1>3 DEF Announced
    <3>1. CASE status[d] = "COMPLETED"
      BY <2>1, <2>3, <3>1, DecisionFacts DEF Final
    <3>2. CASE \E y \in InHand(d) : req[y].step = "sent" /\ req[y].op = Complete
      BY <1>2, <2>1, <3>2, DecisionFacts
    <3> QED BY <2>1, <3>1, <3>2 DEF Undisturbed
  <2> QED BY <2>2, <2>3, <2>4, <2>5 DEF Undisturbed
<1> QED BY <1>2, <1>3, <1>4, <1>6, <1>7, OneSlot

LEMMA FailsDone ==
  ASSUME ReplenishmentAssumption, DoneIInv, NEW x \in Slots, Fails(x)
  PROVE  \A c \in Docs \ (overlapped' \cup patched') : Undisturbed(c)'
<1>1. req[x] # NoRequest
  BY DEF Fails
<1>2. PICK d \in Docs : d = req[x].doc
  BY <1>1, Facts, UnderWay
<1>3. /\ req'[x] = NoRequest /\ NoRequest.doc = NoDoc /\ NoDoc \notin Docs
      /\ \A y \in Slots \ {x} : req'[y] = req[y]
  BY Facts DEF Fails, Ends
<1>4. /\ UNCHANGED <<status, done, delivered, overlapped, patched>>
      /\ dropped \subseteq dropped' /\ (req[x].step = "sent" => d \in dropped')
  BY <1>2 DEF Fails
<1>5. \A c \in Docs : Untouched(c)
  BY <1>4 DEF Untouched, Announced
<1>6. ASSUME d \notin overlapped' \cup patched' PROVE Undisturbed(d)'
  <2>1. Undisturbed(d) /\ InHand(d) = {x}
    BY <1>1, <1>2, <1>4, <1>6, Holder
  <2>2. InHand(d)' = {}
    BY <1>2, <1>3, <2>1 DEF InHand
  <2>3. d \in Orders \ dropped' /\ Announced(d)' => status'[d] = "COMPLETED"
    BY <1>4, <2>1 DEF Undisturbed, Announced
  <2>4. done'[d] = IF status'[d] \in Final THEN 1 ELSE 0
    BY <1>4, <2>1 DEF Undisturbed
  <2> QED BY <2>2, <2>3, <2>4 DEF Undisturbed
<1> QED BY <1>2, <1>3, <1>4, <1>5, <1>6, OneSlot

\* A pick list or slip is inserted before anybody can have it in hand.
LEMMA InsertDone ==
  ASSUME ReplenishmentAssumption, DoneIInv, NEW d \in PickLists \cup Slips,
         NEW as \in {"PENDING", "PACKED"}, Insert(d, as)
  PROVE  \A c \in Docs \ (overlapped' \cup patched') : Undisturbed(c)'
<1>1. d \in Docs /\ d \notin Orders /\ status[d] = "NONE"
  BY DEF ReplenishmentAssumption, Docs, Insert
<1>2. /\ status' = [status EXCEPT ![d] = as]
      /\ UNCHANGED <<req, done, delivered, overlapped, patched, dropped>>
  BY DEF Insert
<1>3. status \in [Docs -> Statuses]
  BY Facts
<1> SUFFICES ASSUME NEW c \in Docs \ (overlapped \cup patched) PROVE Undisturbed(c)'
  BY <1>2
<1>4. Undisturbed(c)
  BY DEF DoneIInv
<1>5. CASE c # d
  <2>1. Untouched(c)
    BY <1>2, <1>3, <1>5 DEF Untouched, Announced
  <2> QED BY <1>2, <1>4, <2>1, Elsewhere
<1>6. CASE c = d
  <2>1. ASSUME NEW x \in InHand(d) PROVE FALSE
    <3>1. x \in Slots /\ req[x] # NoRequest /\ req[x].doc = d
      BY <1>1, <2>1, Facts DEF InHand
    <3>2. req[x].op \in Operations /\ d \in req[x].op.on
      BY <3>1, Facts, UnderWay
    <3>3. "NONE" \in req[x].op.from
      BY <1>1, <1>4, <1>6, <2>1 DEF Undisturbed
    <3>4. req[x].op = Create
      BY <3>2, <3>3, OperationFacts
    <3> QED BY <1>1, <3>2, <3>4 DEF Create, Op
  <2>2. InHand(d)' = {}
    BY <1>2, <2>1 DEF InHand
  <2>3. status'[d] = as /\ done'[d] = 0
    BY <1>1, <1>2, <1>3, <1>4, <1>6 DEF Undisturbed, Final
  <2> QED BY <1>1, <1>6, <2>2, <2>3 DEF Undisturbed, Final
<1> QED BY <1>5, <1>6

LEMMA RequestsDone ==
  ASSUME ReplenishmentAssumption, DoneIInv, Requests
  PROVE  \A c \in Docs \ (overlapped' \cup patched') : Undisturbed(c)'
<1>1. ASSUME \/ \E k \in PickLists : CreatePickList(k)
             \/ \E s \in Slips : CreateSlip(s)
      PROVE  \A c \in Docs \ (overlapped' \cup patched') : Undisturbed(c)'
  BY <1>1, InsertDone DEF CreatePickList, CreateSlip
<1>2. ASSUME NEW x \in Slots, NEW o \in Orders, InsertOrder(x, o)
      PROVE  \A c \in Docs \ (overlapped' \cup patched') : Undisturbed(c)'
  <2>1. Create \in Operations /\ o \in Docs /\ status[o] \in Create.from
    BY <1>2 DEF Operations, Docs, Create, Op, InsertOrder
  <2> QED BY <1>2, <2>1, BeginDone DEF InsertOrder
<1>3. ASSUME NEW x \in Slots, NEW d \in Docs, NEW op \in Updates, ReadDoc(x, d, op)
      PROVE  \A c \in Docs \ (overlapped' \cup patched') : Undisturbed(c)'
  <2>1. op \in Operations /\ status[d] \in op.from
    BY <1>3 DEF Operations, ReadDoc
  <2> QED BY <1>3, <2>1, BeginDone DEF ReadDoc
<1>4. ASSUME NEW x \in Slots,
             WriteDoc(x) \/ KeepDoc(x) \/ SendEvent(x) \/ Commit(x) \/ Fails(x)
      PROVE  \A c \in Docs \ (overlapped' \cup patched') : Undisturbed(c)'
  BY <1>4, GoOnDone, SendDone, CommitDone, FailsDone
<1> QED BY <1>1, <1>2, <1>3, <1>4 DEF Requests

\* Steps of the consumer, and stuttering, leave orders as they are.
LEMMA OthersDone ==
  ASSUME DoneIInv, UNCHANGED requestVars
  PROVE  \A c \in Docs \ (overlapped' \cup patched') : Undisturbed(c)'
<1>1. \A c \in Docs : Untouched(c)
  BY DEF Untouched, Announced, requestVars
<1>2. UNCHANGED <<req, overlapped, patched>>
  BY DEF requestVars
<1> QED BY <1>1, <1>2, Elsewhere DEF DoneIInv

\* A line is booked for an event that is there.
LEMMA ReceivedStep ==
  ASSUME ReplenishmentAssumption, DoneIInv, IInv', [Next]_vars PROVE ReceivedInv'
<1>1. /\ DOMAIN received = Orders
      /\ \A o \in Orders : received[o] \in [DOMAIN Lines[o] -> Nat]
  BY DEF DoneIInv, IInv, ReceiptIInv, ReceiptTypes
<1>2. \A o \in Orders : Announced(o) => Announced(o)'
  <2>1. CASE Requests
    <3>1. \A i \in DOMAIN delivered : delivered'[i] = delivered[i]
          /\ delivered \in Seq(Orders) /\ delivered' \in Seq(Orders)
          /\ Len(delivered') >= Len(delivered)
      BY <2>1, RequestsAddEvents DEF DoneIInv, IInv, OrderIInv, RequestTypes
    <3>2. delivered \in Seq(Orders) /\ delivered' \in Seq(Orders)
          /\ Len(delivered') >= Len(delivered)
      BY <2>1, RequestsAddEvents DEF DoneIInv, IInv, OrderIInv, RequestTypes
    <3>3. \A i \in DOMAIN delivered : i \in DOMAIN delivered'
      BY <3>2
    <3> QED BY <3>1, <3>3 DEF Announced
  <2>2. CASE Receiving \/ UNCHANGED vars
    BY <2>2, ReceivingKeepsRequests DEF vars, requestVars, Announced
  <2> QED BY <2>1, <2>2 DEF Next
<1>3. CASE UNCHANGED received
  BY <1>2, <1>3 DEF DoneIInv, ReceivedInv
<1>4. ASSUME NEW w \in Workers, PostLine(w) PROVE ReceivedInv'
  <2>1. PICK i \in DOMAIN delivered, l \in Nat : i = work[w].event /\ l = work[w].line
    BY <1>4 DEF PostLine, AtLine, DoneIInv, IInv, ReceiptIInv, ReceiptTypes
  <2>2. PICK d \in Orders : d = delivered[i]
    BY DEF DoneIInv, IInv, ReceiptIInv, ReceiptTypes
  <2>3. received' = [received EXCEPT ![d][l] = @ + 1]
    BY <1>4, <2>1, <2>2 DEF PostLine
  <2>4. Announced(d)'
    BY <1>2, <2>2 DEF Announced
  <2>5. \A o \in Orders : o # d => received'[o] = received[o]
    BY <1>1, <2>3
  <2> QED BY <1>2, <2>4, <2>5 DEF DoneIInv, ReceivedInv
<1>5. CASE Receiving
  BY <1>3, <1>4, <1>5 DEF Receiving, HandlerBegins, HandlerRaises, HandlerReturns, DeadLetter,
     Settle
<1>6. CASE Requests
  BY <1>3, <1>6, RequestsAddEvents DEF receiptVars, DoneIInv, IInv
<1> QED BY <1>3, <1>5, <1>6 DEF Next, vars, receiptVars

LEMMA InitDone == ASSUME ReplenishmentAssumption, Init PROVE DoneIInv
<1>1. IInv
  BY InitIInv
<1>2. ReceivedInv
  BY DEF Init, ReceivedInv
<1>3. ASSUME NEW d \in Docs PROVE Undisturbed(d)
  <2>1. InHand(d) = {}
    BY NoRequestFacts DEF Init, InHand, ReplenishmentAssumption
  <2> QED BY <2>1 DEF Init, Undisturbed, Final, Announced
<1> QED BY <1>1, <1>2, <1>3 DEF DoneIInv

LEMMA StepDone ==
  ASSUME ReplenishmentAssumption, DoneIInv, [Next]_vars PROVE DoneIInv'
<1>1. IInv'
  BY StepIInv DEF DoneIInv
<1>2. ReceivedInv'
  BY <1>1, ReceivedStep
<1>3. \A c \in Docs \ (overlapped' \cup patched') : Undisturbed(c)'
  BY RequestsDone, ReceivingKeepsRequests, OthersDone DEF Next, vars
<1> QED BY <1>1, <1>2, <1>3 DEF DoneIInv

\* An order that no two requests had in hand and nobody patched is completed or
\* cancelled once, and not both; a pick list is completed and a slip dispatched once.
THEOREM DoneAtMostOnce == Spec => []DoneOnce
<1>1. Init => DoneIInv
  BY InitDone, ReplenishmentAssumption
<1>2. DoneIInv /\ [Next]_vars => DoneIInv'
  BY StepDone, ReplenishmentAssumption
<1>3. DoneIInv => DoneOnce
  BY DEF DoneIInv, Undisturbed, DoneOnce
<1> QED BY <1>1, <1>2, <1>3, PTL DEF Spec

\* Of such an order, if no transaction was lost after its event, nothing gets into stock
\* unless it is completed: what is cancelled is never received.
THEOREM CancelledStaysOut == Spec => []CancelledNotReceived
<1>1. Init => DoneIInv
  BY InitDone, ReplenishmentAssumption
<1>2. DoneIInv /\ [Next]_vars => DoneIInv'
  BY StepDone, ReplenishmentAssumption
<1>3. DoneIInv => CancelledNotReceived
  <2> SUFFICES ASSUME DoneIInv, NEW o \in Orders \ (overlapped \cup patched \cup dropped),
                      InHand(o) = {}, status[o] # "COMPLETED"
               PROVE  /\ \A i \in DOMAIN delivered : delivered[i] # o
                      /\ \A l \in DOMAIN Lines[o] : received[o][l] = 0
    BY DEF CancelledNotReceived
  <2>1. Undisturbed(o)
    BY DEF DoneIInv, Docs
  <2>2. ~Announced(o)
    BY <2>1 DEF Undisturbed
  <2>3. received[o] \in [DOMAIN Lines[o] -> Nat]
    BY DEF DoneIInv, IInv, ReceiptIInv, ReceiptTypes
  <2> QED BY <2>2, <2>3 DEF DoneIInv, ReceivedInv, Announced
<1> QED BY <1>1, <1>2, <1>3, PTL DEF Spec
=============================================================================
