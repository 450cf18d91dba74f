------------------------ MODULE SellOutPerformanceProofs ------------------------
(***************************************************************************)
(* Theorems of SellOut and of Performance, the service that measures what  *)
(* SellOut announces, for every number of sales, requests, replicas,       *)
(* specifications, targets and dashboards.                                 *)
(*                                                                         *)
(* SellOut.  What the database says was announced because the event is out *)
(* before the commit, in every request: SentInv says so of each request    *)
(* that is past its send.  AnnouncedInv also needs that an update has      *)
(* found a document of its own kind, and a sale that exists.  A document   *)
(* no two requests had in hand is decided once because the one that has it *)
(* in hand still finds the status it has checked; Undisturbed also counts  *)
(* the events and decisions such a document has behind it.                 *)
(*                                                                         *)
(* Performance.  Its handler calls run the loop of KafkaConsumer, whose    *)
(* invariant comes along.  As long as the open transactions are of sales   *)
(* of different dealers, nobody else writes the rows and targets one of    *)
(* them has read: what it has read still holds when it commits (WritesOK,  *)
(* NewsOK), so that a commit adds its sale to one row of each KPI and sets *)
(* the targets the new values reach.                                       *)
(***************************************************************************)
EXTENDS SellOut, Performance, KafkaConsumerProofs, Sums

-----------------------------------------------------------------------------
(* sell-out-service.                                                        *)

Statuses == {"NONE", "PENDING", "COMPLETED", "REVERSED", "APPROVED", "REJECTED",
             "OPEN", "CLOSED"}

\* A request is for a document its operation is about.
InKind(x) ==
  req[x].step # "idle" =>
    /\ req[x].op \in Operations
    /\ req[x].doc \in req[x].op.on
    /\ req[x].step = "checking" => req[x].op = Create /\ req[x].line >= 1
    /\ req[x].op \in Updates /\ req[x].doc \in Sales => req[x].doc \in completed

\* Its event is out once it says so.
SentInv(x) ==
  req[x].step = "sent" =>
    IF req[x].op.event = "completed" THEN req[x].doc \in completed
                                     ELSE announced[req[x].doc] >= 1

AnnouncedInv ==
  /\ SellOutTypeOK
  /\ \A x \in Slots : InKind(x) /\ SentInv(x)
  /\ StoredIsAnnounced

-----------------------------------------------------------------------------
(* The operations, as data.                                                *)

LEMMA OperationFacts ==
  ASSUME NEW op \in Operations
  PROVE  /\ op.on \in SUBSET Docs
         /\ op.to \in Statuses \ {"NONE"}
         /\ op = Create <=> op.event = "completed"
         /\ op \in Updates => op # Create
         /\ op \in Updates => "NONE" \notin op.from
         /\ op.to \in {"REVERSED", "APPROVED"} => op.event \notin {"none", "completed"}
<1>1. op = Create \/ op \in {Reverse, Approve, Reject, Close}
      \/ op = Patch("PENDING") \/ op = Patch("COMPLETED")
  BY DEF Operations, Updates, Decisions
<1>2. \A o \in Updates : o.event # "completed" /\ "NONE" \notin o.from
  BY DEF Updates, Decisions, Reverse, Approve, Reject, Close, Patch, Op
<1>3. Create.event = "completed" /\ Create.to = "COMPLETED" /\ Create.on = Sales
  BY DEF Create, Op
<1>4. op.on \in SUBSET Docs /\ op.to \in Statuses \ {"NONE"}
  BY <1>1 DEF Create, Reverse, Approve, Reject, Close, Patch, Op, Docs, Statuses
<1>5. op.to \in {"REVERSED", "APPROVED"} => op.event \notin {"none", "completed"}
  BY <1>1 DEF Create, Reverse, Approve, Reject, Close, Patch, Op
<1> QED BY <1>2, <1>3, <1>4, <1>5 DEF Operations

LEMMA NoneIsNoStep ==
  /\ NoRequest.step = "idle"
  /\ NoRequest \in RequestType
BY DEF NoRequest, RequestType

\* Requests other than the one that makes the step keep what is said of them.
LEMMA SlotStep ==
  ASSUME AnnouncedInv, NEW x \in Slots,
         \A y \in Slots \ {x} : req'[y] = req[y],
         completed \subseteq completed',
         \A d \in Docs : announced'[d] \in Nat /\ announced'[d] >= announced[d],
         InKind(x)', SentInv(x)'
  PROVE  \A y \in Slots : InKind(y)' /\ SentInv(y)'
<1> SUFFICES ASSUME NEW y \in Slots, y # x PROVE InKind(y)' /\ SentInv(y)'
  OBVIOUS
<1>1. req'[y] = req[y] /\ InKind(y) /\ SentInv(y)
  BY DEF AnnouncedInv
<1>2. InKind(y)'
  BY <1>1 DEF InKind
<1>3. req[y].step # "idle" => req[y].doc \in Docs
  BY <1>1, OperationFacts DEF InKind
<1>4. \A d \in Docs : announced[d] \in Nat
  BY DEF AnnouncedInv, SellOutTypeOK
<1>5. SentInv(y)'
  BY <1>1, <1>3, <1>4 DEF SentInv
<1> QED BY <1>2, <1>5

\* A step of one request that sends and writes nothing keeps the invariant.
LEMMA QuietStep ==
  ASSUME AnnouncedInv, NEW x \in Slots, NEW r \in RequestType,
         req' = [req EXCEPT ![x] = r],
         UNCHANGED <<status, completed, announced, decided>>,
         made' \in 0..MaxRequests,
         overlapped' \cup patched' \cup dropped' \subseteq Docs,
         InKind(x)', SentInv(x)'
  PROVE  AnnouncedInv'
<1>1. req' \in [Slots -> RequestType] /\ \A y \in Slots \ {x} : req'[y] = req[y]
  BY DEF AnnouncedInv, SellOutTypeOK
<1>2. SellOutTypeOK'
  BY <1>1 DEF AnnouncedInv, SellOutTypeOK
<1>3. \A d \in Docs : announced'[d] \in Nat /\ announced'[d] >= announced[d]
  BY DEF AnnouncedInv, SellOutTypeOK
<1>4. \A y \in Slots : InKind(y)' /\ SentInv(y)'
  BY <1>1, <1>3, SlotStep
<1>5. StoredIsAnnounced'
  BY DEF AnnouncedInv, StoredIsAnnounced
<1> QED BY <1>2, <1>4, <1>5 DEF AnnouncedInv

-----------------------------------------------------------------------------
(* One lemma per action, or kind of action.                                *)

LEMMA InitAnnounced == ASSUME SellOutAssumption, Init PROVE AnnouncedInv
<1>1. SellOutTypeOK
  BY NoneIsNoStep DEF Init, SellOutTypeOK, SellOutAssumption
<1>2. \A x \in Slots : InKind(x) /\ SentInv(x)
  BY NoneIsNoStep DEF Init, InKind, SentInv
<1>3. StoredIsAnnounced
  BY DEF Init, StoredIsAnnounced, Docs
<1> QED BY <1>1, <1>2, <1>3 DEF AnnouncedInv

\* Inserting a return or a session.
LEMMA InsertAnnounced ==
  ASSUME SellOutAssumption, AnnouncedInv, NEW d \in Returns \cup Sessions,
         NEW s \in {"PENDING", "OPEN"}, status' = [status EXCEPT ![d] = s],
         UNCHANGED <<req, made, history>>
  PROVE  AnnouncedInv'
<1>1. d \in Docs /\ d \notin Sales
  BY DEF SellOutAssumption, Docs
<1>2. SellOutTypeOK'
  BY <1>1 DEF AnnouncedInv, SellOutTypeOK, history
<1>3. \A x \in Slots : InKind(x)' /\ SentInv(x)'
  BY DEF AnnouncedInv, InKind, SentInv, history
<1>4. StoredIsAnnounced'
  BY <1>1 DEF AnnouncedInv, SellOutTypeOK, StoredIsAnnounced, history
<1> QED BY <1>2, <1>3, <1>4 DEF AnnouncedInv

\* A new request, for a document of its kind.
LEMMA BeginAnnounced ==
  ASSUME SellOutAssumption, AnnouncedInv, NEW x \in Slots, NEW op \in Operations,
         NEW d \in op.on, NEW step \in {"checking", "read"},
         step = "checking" => op = Create,
         op \in Updates /\ d \in Sales => d \in completed,
         Begin(x, d, op, step),
         UNCHANGED <<status, completed, announced, decided, patched, dropped>>
  PROVE  AnnouncedInv'
<1> DEFINE r == [op |-> op, doc |-> d, step |-> step, line |-> 1, writes |-> FALSE]
<1>1. d \in Docs
  BY OperationFacts
<1>2. r \in RequestType
  BY <1>1 DEF RequestType
<1>3. req' = [req EXCEPT ![x] = r] /\ req'[x] = r
  BY DEF Begin, AnnouncedInv, SellOutTypeOK
<1>4. InKind(x)' /\ SentInv(x)'
  BY <1>3 DEF InKind, SentInv
<1>5. made' \in 0..MaxRequests
  BY DEF Begin, AnnouncedInv, SellOutTypeOK, SellOutAssumption
<1>6. overlapped' \cup patched' \cup dropped' \subseteq Docs
  BY <1>1 DEF Begin, AnnouncedInv, SellOutTypeOK
<1> HIDE DEF r
<1> QED BY <1>2, <1>3, <1>4, <1>5, <1>6, QuietStep

\* The end of a request, for whatever reason, is quiet.
LEMMA EndsAnnounced ==
  ASSUME AnnouncedInv, NEW x \in Slots, Ends(x),
         UNCHANGED <<status, completed, announced, decided, made>>,
         overlapped' \cup patched' \cup dropped' \subseteq Docs
  PROVE  AnnouncedInv'
<1>1. req' = [req EXCEPT ![x] = NoRequest] /\ req'[x] = NoRequest
  BY DEF Ends, AnnouncedInv, SellOutTypeOK
<1>2. InKind(x)' /\ SentInv(x)'
  BY <1>1, NoneIsNoStep DEF InKind, SentInv
<1>3. made' \in 0..MaxRequests
  BY DEF AnnouncedInv, SellOutTypeOK
<1> QED BY <1>1, <1>2, <1>3, NoneIsNoStep, QuietStep

\* A request that goes on, with the same document and without sending.
LEMMA GoOnAnnounced ==
  ASSUME AnnouncedInv, NEW x \in Slots, req[x].step # "idle", NEW r \in RequestType,
         req' = [req EXCEPT ![x] = r],
         r.op = req[x].op, r.doc = req[x].doc,
         r.step \in {"written", req[x].step}, r.step # "sent",
         r.step = "checking" => r.line >= 1,
         UNCHANGED <<status, made, history>>
  PROVE  AnnouncedInv'
<1>1. req'[x] = r
  BY DEF AnnouncedInv, SellOutTypeOK
<1>2. InKind(x)
  BY DEF AnnouncedInv
<1>3. InKind(x)'
  BY <1>1, <1>2 DEF InKind, history
<1>4. SentInv(x)'
  BY <1>1 DEF SentInv
<1>5. /\ UNCHANGED <<completed, announced, decided>>
      /\ made' \in 0..MaxRequests
      /\ overlapped' \cup patched' \cup dropped' \subseteq Docs
  BY DEF AnnouncedInv, SellOutTypeOK, history
<1> QED BY <1>3, <1>4, <1>5, QuietStep

LEMMA WritesAnnounced ==
  ASSUME AnnouncedInv, NEW x \in Slots, req[x].step \in {"checking", "read"},
         Writes(x) \/ Goes(x, "written"), UNCHANGED <<status, made, history>>
  PROVE  AnnouncedInv'
<1>1. req[x] \in RequestType
  BY DEF AnnouncedInv, SellOutTypeOK
<1>2. CASE Writes(x)
  <2> DEFINE r == [req[x] EXCEPT !.step = "written", !.writes = TRUE]
  <2>1. r \in RequestType /\ r.op = req[x].op /\ r.doc = req[x].doc /\ r.step = "written"
    BY <1>1 DEF RequestType
  <2>2. req' = [req EXCEPT ![x] = r]
    BY <1>2 DEF Writes
  <2> HIDE DEF r
  <2> QED BY <2>1, <2>2, GoOnAnnounced
<1>3. CASE Goes(x, "written")
  <2> DEFINE r == [req[x] EXCEPT !.step = "written"]
  <2>1. r \in RequestType /\ r.op = req[x].op /\ r.doc = req[x].doc /\ r.step = "written"
    BY <1>1 DEF RequestType
  <2>2. req' = [req EXCEPT ![x] = r]
    BY <1>3 DEF Goes
  <2> HIDE DEF r
  <2> QED BY <2>1, <2>2, GoOnAnnounced
<1> QED BY <1>2, <1>3

\* The next line is checked, or the sale is refused.
LEMMA CheckAnnounced ==
  ASSUME SellOutAssumption, AnnouncedInv, NEW x \in Slots, CheckStock(x)
  PROVE  AnnouncedInv'
<1> DEFINE i == req[x].line
           r == [req[x] EXCEPT !.line = i + 1]
<1>1. req[x] \in RequestType /\ req[x].step = "checking" /\ i \in Nat
  BY DEF AnnouncedInv, SellOutTypeOK, RequestType, CheckStock
<1>2. req' = [req EXCEPT ![x] = r] \/ Ends(x)
  BY DEF CheckStock
<1>3. CASE req' = [req EXCEPT ![x] = r]
  <2>1. r \in RequestType /\ r.op = req[x].op /\ r.doc = req[x].doc /\ r.step = "checking"
        /\ r.line >= 1
    BY <1>1 DEF RequestType
  <2>2. UNCHANGED <<status, made, history>>
    BY <1>3 DEF CheckStock, history
  <2> HIDE DEF r
  <2> QED BY <1>1, <1>3, <2>1, <2>2, GoOnAnnounced
<1>4. CASE Ends(x)
  <2>1. UNCHANGED <<status, completed, announced, decided, made>>
    BY DEF CheckStock
  <2>2. overlapped' \cup patched' \cup dropped' \subseteq Docs
    BY DEF CheckStock, AnnouncedInv, SellOutTypeOK
  <2> QED BY <1>4, <2>1, <2>2, EndsAnnounced
<1> QED BY <1>2, <1>3, <1>4

\* A failure forgets the request; what was sent stays sent.
LEMMA FailsAnnounced ==
  ASSUME AnnouncedInv, NEW x \in Slots, Fails(x) PROVE AnnouncedInv'
<1>1. req[x].doc \in Docs
  BY OperationFacts DEF AnnouncedInv, InKind, Fails
<1>2. overlapped' \cup patched' \cup dropped' \subseteq Docs
  BY <1>1 DEF Fails, AnnouncedInv, SellOutTypeOK
<1> QED BY <1>2, EndsAnnounced DEF Fails

LEMMA SendAnnounced ==
  ASSUME AnnouncedInv, NEW x \in Slots, SendEvent(x) PROVE AnnouncedInv'
<1> DEFINE r == [req[x] EXCEPT !.step = "sent"]
           op == req[x].op
           d == req[x].doc
<1>1. req[x] \in RequestType /\ InKind(x)
  BY DEF AnnouncedInv, SellOutTypeOK
<1>2. op \in Operations /\ d \in op.on /\ d \in Docs
  BY <1>1, OperationFacts DEF InKind, SendEvent
<1>3. /\ r \in RequestType /\ r.op = op /\ r.doc = d /\ r.step = "sent"
      /\ req' = [req EXCEPT ![x] = r] /\ req'[x] = r
      /\ \A y \in Slots \ {x} : req'[y] = req[y]
  BY <1>1 DEF RequestType, SendEvent, Goes, AnnouncedInv, SellOutTypeOK
<1>4. \/ op.event = "completed" /\ completed' = completed \cup {d} /\ UNCHANGED announced
      \/ /\ op.event # "completed"
         /\ announced' = [announced EXCEPT ![d] = @ + 1] /\ UNCHANGED completed
  BY DEF SendEvent
<1>5. op.event = "completed" => d \in Sales
  BY <1>2, OperationFacts DEF Create, Op
<1>6. completed \subseteq completed' /\ completed' \subseteq Sales
  BY <1>4, <1>5 DEF AnnouncedInv, SellOutTypeOK
<1>7. announced' \in [Docs -> Nat] /\ \A c \in Docs : announced'[c] >= announced[c]
  BY <1>2, <1>4 DEF AnnouncedInv, SellOutTypeOK
<1>8. SellOutTypeOK'
  BY <1>3, <1>6, <1>7 DEF AnnouncedInv, SellOutTypeOK, SendEvent
<1> HIDE DEF r
<1>9. InKind(x)'
  BY <1>1, <1>3, <1>6 DEF InKind, SendEvent
<1>10. SentInv(x)'
  BY <1>2, <1>3, <1>4 DEF SentInv, AnnouncedInv, SellOutTypeOK
<1>11. \A y \in Slots : InKind(y)' /\ SentInv(y)'
  BY <1>3, <1>6, <1>7, <1>9, <1>10, SlotStep
<1>12. StoredIsAnnounced'
  BY <1>6, <1>7 DEF AnnouncedInv, StoredIsAnnounced, SendEvent, SellOutTypeOK
<1> QED BY <1>8, <1>11, <1>12 DEF AnnouncedInv

LEMMA CommitAnnounced ==
  ASSUME AnnouncedInv, NEW x \in Slots, CommitRequest(x) PROVE AnnouncedInv'
<1> DEFINE op == req[x].op
           d == req[x].doc
<1>1. /\ req[x] \in RequestType /\ InKind(x) /\ SentInv(x)
      /\ \/ req[x].step = "sent"
         \/ req[x].step = "written" /\ op.event = "none"
  BY DEF AnnouncedInv, SellOutTypeOK, CommitRequest
<1>2. op \in Operations /\ d \in op.on /\ d \in Docs /\ op.to \in Statuses \ {"NONE"}
  BY <1>1, OperationFacts DEF InKind
<1>3. /\ req' = [req EXCEPT ![x] = NoRequest] /\ req'[x] = NoRequest
      /\ \A y \in Slots \ {x} : req'[y] = req[y]
  BY DEF CommitRequest, Ends, AnnouncedInv, SellOutTypeOK
<1>4. /\ status' = [status EXCEPT ![d] = op.to] \/ status' = status
      /\ UNCHANGED <<made, completed, announced, overlapped, dropped>>
      /\ patched' \subseteq Docs
      /\ decided' = [decided EXCEPT ![d] = @ + 1] \/ decided' = decided
  BY <1>2 DEF CommitRequest, AnnouncedInv, SellOutTypeOK
<1>5. SellOutTypeOK'
  <2>1. status' \in [Docs -> Statuses]
    BY <1>2, <1>4 DEF AnnouncedInv, SellOutTypeOK, Statuses
  <2>2. decided' \in [Docs -> Nat]
    BY <1>2, <1>4 DEF AnnouncedInv, SellOutTypeOK
  <2>3. req' \in [Slots -> RequestType]
    BY <1>3, NoneIsNoStep DEF AnnouncedInv, SellOutTypeOK
  <2> QED BY <1>4, <2>1, <2>2, <2>3 DEF AnnouncedInv, SellOutTypeOK, Statuses
<1>6. InKind(x)' /\ SentInv(x)'
  BY <1>3, NoneIsNoStep DEF InKind, SentInv
<1>7. \A y \in Slots : InKind(y)' /\ SentInv(y)'
  BY <1>3, <1>4, <1>6, SlotStep DEF AnnouncedInv, SellOutTypeOK
<1>8. d \in Sales => d \in completed
  BY <1>1, <1>2, OperationFacts DEF InKind, SentInv, Operations
<1>9. op.to \in {"REVERSED", "APPROVED"} => announced[d] >= 1
  BY <1>1, <1>2, OperationFacts DEF SentInv
<1>10. \A c \in Docs : status'[c] = status[c] \/ (c = d /\ status'[c] = op.to)
  BY <1>2, <1>4 DEF AnnouncedInv, SellOutTypeOK
<1>11. StoredIsAnnounced'
  BY <1>4, <1>8, <1>9, <1>10 DEF AnnouncedInv, StoredIsAnnounced, Docs
<1> QED BY <1>5, <1>7, <1>11 DEF AnnouncedInv

LEMMA StepAnnounced ==
  ASSUME SellOutAssumption, AnnouncedInv, [Next]_vars PROVE AnnouncedInv'
<1>1. CASE UNCHANGED vars
  BY <1>1 DEF vars, history, AnnouncedInv, SellOutTypeOK, InKind, SentInv, StoredIsAnnounced
<1>2. ASSUME NEW r \in Returns, CreateReturn(r) PROVE AnnouncedInv'
  BY <1>2, InsertAnnounced DEF CreateReturn
<1>3. ASSUME NEW s \in Sessions, OpenSession(s) PROVE AnnouncedInv'
  BY <1>3, InsertAnnounced DEF OpenSession
<1>4. ASSUME NEW x \in Slots, NEW t \in Sales, BeginSale(x, t) PROVE AnnouncedInv'
  <2>1. Create \in Operations /\ t \in Create.on /\ Create \notin Updates
    BY OperationFacts DEF Operations, Create, Op
  <2> QED BY <1>4, <2>1, BeginAnnounced DEF BeginSale
<1>5. ASSUME NEW x \in Slots, NEW d \in Docs, NEW op \in Updates, ReadDoc(x, d, op)
      PROVE  AnnouncedInv'
  <2>1. op \in Operations /\ status[d] # "NONE" /\ d \in op.on
    BY <1>5, OperationFacts DEF Operations, ReadDoc
  <2>2. d \in Sales => d \in completed
    BY <2>1 DEF AnnouncedInv, StoredIsAnnounced
  <2> QED BY <1>5, <2>1, <2>2, BeginAnnounced DEF ReadDoc
<1>6. ASSUME NEW x \in Slots, InsertSale(x) \/ WriteDoc(x) \/ KeepDoc(x) PROVE AnnouncedInv'
  BY <1>6, WritesAnnounced DEF InsertSale, WriteDoc, KeepDoc
<1>7. ASSUME NEW x \in Slots, CheckStock(x) \/ SendEvent(x) \/ CommitRequest(x) \/ Fails(x)
      PROVE  AnnouncedInv'
  BY <1>7, CheckAnnounced, SendAnnounced, CommitAnnounced, FailsAnnounced
<1> QED BY <1>1, <1>2, <1>3, <1>4, <1>5, <1>6, <1>7 DEF Next

\* Type correctness of sell-out-service.
THEOREM SellOutTyping == Spec => []SellOutTypeOK
<1>1. Init => AnnouncedInv
  BY InitAnnounced, SellOutAssumption
<1>2. AnnouncedInv /\ [Next]_vars => AnnouncedInv'
  BY StepAnnounced, SellOutAssumption
<1>3. AnnouncedInv => SellOutTypeOK
  BY DEF AnnouncedInv
<1> QED BY <1>1, <1>2, <1>3, PTL DEF Spec

\* However requests interleave and fail, and whatever statuses are patched: what the
\* database says of a sale, a reversal or an approval was announced before.
THEOREM NothingStoredUnannounced == Spec => []StoredIsAnnounced
<1>1. Init => AnnouncedInv
  BY InitAnnounced, SellOutAssumption
<1>2. AnnouncedInv /\ [Next]_vars => AnnouncedInv'
  BY StepAnnounced, SellOutAssumption
<1>3. AnnouncedInv => StoredIsAnnounced
  BY DEF AnnouncedInv
<1> QED BY <1>1, <1>2, <1>3, PTL DEF Spec

-----------------------------------------------------------------------------
(* Documents that no two requests had in hand and nobody patched.          *)

FinalStatuses == {"REVERSED", "APPROVED", "REJECTED", "CLOSED"}
AnnouncedStatuses == {"REVERSED", "APPROVED"}

Undisturbed(d) ==
  /\ \A x, y \in RequestsFor(d) : x = y
  /\ \A x \in RequestsFor(d) :
       /\ status[d] \in req[x].op.from
       /\ req[x].step \in {"written", "sent"} => req[x].writes
  /\ decided[d] = IF status[d] \in FinalStatuses THEN 1 ELSE 0
  /\ d \notin dropped =>
       /\ d \in completed =>
            \/ status[d] # "NONE"
            \/ \E x \in RequestsFor(d) : req[x].step = "sent" /\ req[x].op = Create
       /\ announced[d] = IF \/ status[d] \in AnnouncedStatuses
                            \/ \E x \in RequestsFor(d) : /\ req[x].step = "sent"
                                                   /\ req[x].op.to \in AnnouncedStatuses
                           THEN 1 ELSE 0

DecidedInv ==
  /\ AnnouncedInv
  /\ \A x \in Slots : req[x].step = "idle" <=> req[x].doc = NoDoc
  /\ \A d \in Docs \ (overlapped \cup patched) : Undisturbed(d)

LEMMA DecisionFacts ==
  ASSUME NEW op \in Operations
  PROVE  /\ op \in Decisions \/ op = Create \/ op \in {Patch("PENDING"), Patch("COMPLETED")}
         /\ op.to \notin op.from
         /\ op \in Decisions => op.to \in FinalStatuses /\ op.from \cap FinalStatuses = {}
         /\ op = Create => op.from = {"NONE"} /\ op.to = "COMPLETED" /\ op.on = Sales
         /\ "NONE" \in op.from => op = Create
         /\ op.event \notin {"none", "completed"} <=> op.to \in AnnouncedStatuses
         /\ op.to \in AnnouncedStatuses => op \in Decisions
<1>1. op = Create \/ op \in {Reverse, Approve, Reject, Close}
      \/ op = Patch("PENDING") \/ op = Patch("COMPLETED")
  BY DEF Operations, Updates, Decisions
<1>2. op \in Decisions \/ op = Create \/ op \in {Patch("PENDING"), Patch("COMPLETED")}
  BY <1>1 DEF Decisions
<1>3. op.to \notin op.from
  BY <1>1 DEF Create, Reverse, Approve, Reject, Close, Patch, Op
<1>4. op \in Decisions => op.to \in FinalStatuses /\ op.from \cap FinalStatuses = {}
  BY DEF Decisions, Reverse, Approve, Reject, Close, Op, FinalStatuses
<1>5. op = Create => op.from = {"NONE"} /\ op.to = "COMPLETED" /\ op.on = Sales
  BY DEF Create, Op
<1>6. "NONE" \in op.from => op = Create
  BY <1>1 DEF Reverse, Approve, Reject, Close, Patch, Op
<1>7. op.event \notin {"none", "completed"} <=> op.to \in AnnouncedStatuses
  BY <1>1 DEF Create, Reverse, Approve, Reject, Close, Patch, Op, AnnouncedStatuses
<1>8. op.to \in AnnouncedStatuses => op \in Decisions
  BY <1>1, <1>2 DEF Create, Reverse, Approve, Reject, Close, Patch, Op, AnnouncedStatuses
<1> QED BY <1>2, <1>3, <1>4, <1>5, <1>6, <1>7, <1>8

\* A step that has nothing to do with a document.
LEMMA Elsewhere ==
  ASSUME NEW d \in Docs, Undisturbed(d),
         \A x \in Slots : req[x].doc = d \/ req'[x].doc = d => req'[x] = req[x],
         status'[d] = status[d], decided'[d] = decided[d], announced'[d] = announced[d],
         d \in completed' <=> d \in completed, d \in dropped' <=> d \in dropped
  PROVE  Undisturbed(d)'
<1>1. RequestsFor(d)' = RequestsFor(d) /\ \A x \in RequestsFor(d) : req'[x] = req[x]
  BY DEF RequestsFor
<1> QED BY <1>1 DEF Undisturbed

\* A step of request x for document e leaves all other documents alone.
Untouched(d) ==
  /\ status'[d] = status[d] /\ decided'[d] = decided[d] /\ announced'[d] = announced[d]
  /\ d \in completed' <=> d \in completed
  /\ d \in dropped' <=> d \in dropped

LEMMA SlotDecided ==
  ASSUME SellOutAssumption, DecidedInv, AnnouncedInv', NEW x \in Slots, NEW e \in Docs,
         \A y \in Slots \ {x} : req'[y] = req[y],
         req'[x].step = "idle" <=> req'[x].doc = NoDoc,
         req[x].doc \in {e, NoDoc}, req'[x].doc \in {e, NoDoc},
         overlapped \subseteq overlapped', patched \subseteq patched',
         \A d \in Docs \ {e} : Untouched(d),
         e \notin overlapped' \cup patched' => Undisturbed(e)'
  PROVE  DecidedInv'
<1>1. \A y \in Slots : req'[y].step = "idle" <=> req'[y].doc = NoDoc
  BY DEF DecidedInv
<1>2. ASSUME NEW d \in Docs \ (overlapped' \cup patched') PROVE Undisturbed(d)'
  <2>1. CASE d = e
    BY <2>1, <1>2
  <2>2. CASE d # e
    <3>1. Undisturbed(d)
      BY DEF DecidedInv
    <3>2. \A y \in Slots : req[y].doc = d \/ req'[y].doc = d => req'[y] = req[y]
      BY <2>2 DEF SellOutAssumption
    <3> QED BY <2>2, <3>1, <3>2, Elsewhere DEF Untouched
  <2> QED BY <2>1, <2>2
<1> QED BY <1>1, <1>2 DEF DecidedInv

\* What is known of the request in hand of an undisturbed document.
LEMMA Holder ==
  ASSUME SellOutAssumption, DecidedInv, NEW x \in Slots, req[x].step # "idle",
         req[x].doc \notin overlapped \cup patched
  PROVE  /\ req[x].doc \in Docs /\ req[x].op \in Operations /\ req[x].doc \in req[x].op.on
         /\ Undisturbed(req[x].doc)
         /\ RequestsFor(req[x].doc) = {x}
         /\ status[req[x].doc] \in req[x].op.from
         /\ req[x].step \in {"written", "sent"} => req[x].writes
<1>1. req[x].op \in Operations /\ req[x].doc \in req[x].op.on /\ req[x].doc \in Docs
  BY OperationFacts DEF DecidedInv, AnnouncedInv, InKind
<1>2. Undisturbed(req[x].doc)
  BY <1>1 DEF DecidedInv
<1>3. x \in RequestsFor(req[x].doc)
  BY DEF RequestsFor
<1> QED BY <1>1, <1>2, <1>3 DEF Undisturbed

\* A request that goes on without sending.
LEMMA GoOnDecided ==
  ASSUME SellOutAssumption, DecidedInv, AnnouncedInv', NEW x \in Slots,
         req[x].step \in {"checking", "read"},
         \A y \in Slots \ {x} : req'[y] = req[y],
         req'[x].op = req[x].op, req'[x].doc = req[x].doc,
         \/ req'[x].step = "written" /\ req'[x].writes
         \/ req'[x].step = "written" /\ status[req[x].doc] = req[x].op.to
         \/ req'[x].step = req[x].step,
         UNCHANGED <<status, made, completed, announced, decided, overlapped, patched, dropped>>
  PROVE  DecidedInv'
<1> DEFINE d == req[x].doc
<1>1. d \in Docs /\ d # NoDoc /\ req[x].op \in Operations
  BY OperationFacts DEF DecidedInv, AnnouncedInv, InKind, SellOutAssumption
<1>2. ASSUME d \notin overlapped' \cup patched' PROVE Undisturbed(d)'
  <2>1. /\ Undisturbed(d) /\ RequestsFor(d) = {x} /\ status[d] \in req[x].op.from
    BY <1>2, Holder
  <2>2. RequestsFor(d)' = {x}
    BY <2>1 DEF RequestsFor
  <2>3. status[d] # req[x].op.to
    BY <1>1, <2>1, DecisionFacts
  <2>4. /\ req'[x].step \in {"written", "sent"} => req'[x].writes
        /\ req[x].step # "sent" /\ req'[x].step # "sent"
    BY <2>3
  <2> QED BY <2>1, <2>2, <2>4 DEF Undisturbed
<1> QED BY <1>1, <1>2, SlotDecided DEF Untouched

\* A new request: either its document was free, or it is disturbed now.
LEMMA BeginDecided ==
  ASSUME SellOutAssumption, DecidedInv, AnnouncedInv', NEW x \in Slots, NEW op \in Operations,
         NEW d \in Docs, NEW step \in {"checking", "read"},
         status[d] \in op.from, Begin(x, d, op, step),
         UNCHANGED <<status, completed, announced, decided, patched, dropped>>
  PROVE  DecidedInv'
<1>1. /\ req'[x].op = op /\ req'[x].doc = d /\ req'[x].step = step
      /\ \A y \in Slots \ {x} : req'[y] = req[y]
      /\ req[x].doc = NoDoc /\ d # NoDoc
  BY DEF Begin, DecidedInv, AnnouncedInv, SellOutTypeOK, SellOutAssumption
<1>2. overlapped \subseteq overlapped' /\ (d \notin overlapped' => RequestsFor(d) = {})
  BY DEF Begin
<1>3. ASSUME d \notin overlapped' \cup patched' PROVE Undisturbed(d)'
  <2>1. Undisturbed(d) /\ RequestsFor(d) = {}
    BY <1>2, <1>3 DEF DecidedInv
  <2>2. RequestsFor(d)' = {x}
    BY <1>1, <2>1 DEF RequestsFor
  <2> QED BY <1>1, <2>1, <2>2 DEF Undisturbed
<1> QED BY <1>1, <1>2, <1>3, SlotDecided DEF Untouched

\* The end of a request that stores nothing: refused, or failed.
LEMMA DropDecided ==
  ASSUME SellOutAssumption, DecidedInv, AnnouncedInv', NEW x \in Slots,
         req[x].step # "idle", Ends(x),
         UNCHANGED <<status, completed, announced, decided, overlapped, patched>>,
         dropped' = dropped \cup {d \in {req[x].doc} : req[x].step = "sent"}
  PROVE  DecidedInv'
<1>1. /\ req'[x] = NoRequest /\ NoRequest.doc = NoDoc
      /\ \A y \in Slots \ {x} : req'[y] = req[y]
  BY DEF Ends, DecidedInv, AnnouncedInv, SellOutTypeOK, NoRequest
<1>2. PICK d \in Docs : d = req[x].doc /\ d # NoDoc
  BY OperationFacts DEF DecidedInv, AnnouncedInv, InKind, SellOutAssumption
<1>3. ASSUME d \notin overlapped' \cup patched' PROVE Undisturbed(d)'
  <2>1. Undisturbed(d) /\ RequestsFor(d) = {x}
    BY <1>2, <1>3, Holder
  <2>2. RequestsFor(d)' = {}
    BY <1>1, <1>2, <2>1 DEF RequestsFor
  <2>3. CASE req[x].step = "sent"
    BY <1>2, <2>1, <2>2, <2>3 DEF Undisturbed
  <2>4. CASE req[x].step # "sent"
    BY <1>2, <2>1, <2>2, <2>4 DEF Undisturbed
  <2> QED BY <2>3, <2>4
<1> QED BY <1>1, <1>2, <1>3, NoneIsNoStep, SlotDecided DEF Untouched

LEMMA SendDecided ==
  ASSUME SellOutAssumption, DecidedInv, AnnouncedInv', NEW x \in Slots, SendEvent(x)
  PROVE  DecidedInv'
<1> DEFINE op == req[x].op
<1>1. req[x] \in RequestType /\ req[x].step = "written" /\ op.event # "none"
  BY DEF SendEvent, DecidedInv, AnnouncedInv, SellOutTypeOK
<1>2. op \in Operations /\ \E d \in Docs : d = req[x].doc /\ d # NoDoc
  BY <1>1, OperationFacts DEF DecidedInv, AnnouncedInv, InKind, SellOutAssumption
<1> PICK d \in Docs : d = req[x].doc /\ d # NoDoc
  BY <1>2
<1>3. /\ req'[x].op = op /\ req'[x].doc = d /\ req'[x].step = "sent"
      /\ req'[x].writes = req[x].writes
      /\ \A y \in Slots \ {x} : req'[y] = req[y]
  BY <1>1 DEF SendEvent, Goes, DecidedInv, AnnouncedInv, SellOutTypeOK, RequestType
<1>4. \/ op.event = "completed" /\ completed' = completed \cup {d} /\ UNCHANGED announced
      \/ /\ op.event # "completed"
         /\ announced' = [announced EXCEPT ![d] = @ + 1] /\ UNCHANGED completed
  BY DEF SendEvent
<1>5. announced \in [Docs -> Nat]
  BY DEF DecidedInv, AnnouncedInv, SellOutTypeOK
<1>6. UNCHANGED <<status, decided, overlapped, patched, dropped>>
  BY DEF SendEvent
<1>7. \A c \in Docs \ {d} : Untouched(c)
  BY <1>4, <1>5, <1>6 DEF Untouched
<1>8. ASSUME d \notin overlapped' \cup patched' PROVE Undisturbed(d)'
  <2>1. /\ Undisturbed(d) /\ RequestsFor(d) = {x} /\ status[d] \in op.from /\ req[x].writes
    BY <1>1, <1>6, <1>8, Holder
  <2>2. RequestsFor(d)' = {x}
    BY <1>3, <2>1 DEF RequestsFor
  <2>3. /\ op.event = "completed" <=> op = Create
        /\ op.event # "completed" <=> op.to \in AnnouncedStatuses
        /\ op.to \in AnnouncedStatuses => status[d] \notin AnnouncedStatuses
        /\ op = Create => status[d] \notin AnnouncedStatuses
    BY <1>1, <1>2, <2>1, OperationFacts, DecisionFacts DEF AnnouncedStatuses, FinalStatuses
  <2>4. d \notin dropped => announced[d] = 0
    BY <1>1, <2>1, <2>3 DEF Undisturbed
  <2>5. CASE op.event = "completed"
    BY <1>3, <1>4, <1>6, <2>1, <2>2, <2>3, <2>4, <2>5 DEF Undisturbed
  <2>6. CASE op.event # "completed"
    <3>1. announced'[d] = announced[d] + 1 /\ completed' = completed
      BY <1>2, <1>4, <1>5, <2>6
    <3>2. d \in completed /\ d \notin dropped => status[d] # "NONE"
      BY <1>1, <2>1 DEF Undisturbed
    <3>3. \E y \in {x} : req'[y].step = "sent" /\ req'[y].op.to \in AnnouncedStatuses
      BY <1>3, <2>3, <2>6
    <3>4. d \notin dropped => announced'[d] = 1
      BY <2>4, <3>1
    <3>5. \A y \in {x} : status'[d] \in req'[y].op.from /\ req'[y].writes
      BY <1>3, <1>6, <2>1
    <3>6. decided'[d] = IF status'[d] \in FinalStatuses THEN 1 ELSE 0
      BY <1>6, <2>1 DEF Undisturbed
    <3> QED BY <1>6, <2>2, <3>1, <3>2, <3>3, <3>4, <3>5, <3>6 DEF Undisturbed
  <2> QED BY <2>5, <2>6
<1> QED BY <1>2, <1>3, <1>6, <1>7, <1>8, SlotDecided

LEMMA CommitDecided ==
  ASSUME SellOutAssumption, DecidedInv, AnnouncedInv', NEW x \in Slots, CommitRequest(x)
  PROVE  DecidedInv'
<1>1. \/ req[x].step = "sent"
      \/ req[x].step = "written" /\ req[x].op.event = "none"
  BY DEF CommitRequest
<1>2. PICK op \in Operations, d \in Docs : op = req[x].op /\ d = req[x].doc /\ d # NoDoc
  BY <1>1, OperationFacts DEF DecidedInv, AnnouncedInv, InKind, SellOutAssumption
<1>3. /\ req'[x] = NoRequest /\ NoRequest.doc = NoDoc
      /\ \A y \in Slots \ {x} : req'[y] = req[y]
  BY DEF CommitRequest, Ends, DecidedInv, AnnouncedInv, SellOutTypeOK, NoRequest
<1>4. status \in [Docs -> Statuses] /\ decided \in [Docs -> Nat]
  BY DEF DecidedInv, AnnouncedInv, SellOutTypeOK, Statuses
<1>5. /\ status' = IF req[x].writes THEN [status EXCEPT ![d] = op.to] ELSE status
      /\ decided' = IF op \in Decisions THEN [decided EXCEPT ![d] = @ + 1] ELSE decided
      /\ op \in {Patch("PENDING"), Patch("COMPLETED")} => d \in patched'
      /\ patched \subseteq patched'
      /\ UNCHANGED <<completed, announced, overlapped, dropped>>
  BY <1>2 DEF CommitRequest
<1>6. \A c \in Docs \ {d} : Untouched(c)
  BY <1>4, <1>5 DEF Untouched
<1>7. ASSUME d \notin overlapped' \cup patched' PROVE Undisturbed(d)'
  <2>1. /\ Undisturbed(d) /\ RequestsFor(d) = {x} /\ status[d] \in op.from /\ req[x].writes
    BY <1>1, <1>2, <1>5, <1>7, Holder
  <2>2. RequestsFor(d)' = {}
    BY <1>2, <1>3, <2>1 DEF RequestsFor
  <2>3. status'[d] = op.to /\ op.to # "NONE"
    BY <1>2, <1>4, <1>5, <2>1, OperationFacts
  <2>4. op \in Decisions \/ op = Create
    BY <1>2, <1>5, <1>7, DecisionFacts
  <2>5. status[d] \notin FinalStatuses /\ status[d] \notin AnnouncedStatuses /\ decided[d] = 0
    BY <1>2, <2>1, <2>4, DecisionFacts DEF Undisturbed, FinalStatuses, AnnouncedStatuses
  <2>6. decided'[d] = IF op.to \in FinalStatuses THEN 1 ELSE 0
    <3>1. CASE op \in Decisions
      BY <1>2, <1>4, <1>5, <2>5, <3>1, DecisionFacts
    <3>2. CASE op \notin Decisions
      BY <1>2, <1>5, <2>4, <2>5, <3>2, DecisionFacts DEF FinalStatuses
    <3> QED BY <3>1, <3>2
  <2>7. d \notin dropped => announced[d] = IF op.to \in AnnouncedStatuses THEN 1 ELSE 0
    <3>1. op.to \in AnnouncedStatuses => req[x].step = "sent"
      BY <1>1, <1>2, DecisionFacts
    <3> QED BY <1>2, <2>1, <2>5, <3>1 DEF Undisturbed
  <2> QED BY <1>5, <2>2, <2>3, <2>6, <2>7 DEF Undisturbed
<1> QED BY <1>2, <1>3, <1>5, <1>6, <1>7, NoneIsNoStep, SlotDecided

\* Inserting a return or a session: nobody can have it in hand yet.
LEMMA InsertDecided ==
  ASSUME SellOutAssumption, DecidedInv, AnnouncedInv', NEW d \in Returns \cup Sessions,
         status[d] = "NONE", NEW s \in {"PENDING", "OPEN"},
         status' = [status EXCEPT ![d] = s], UNCHANGED <<req, made, history>>
  PROVE  DecidedInv'
<1>1. d \in Docs /\ d \notin Sales
  BY DEF SellOutAssumption, Docs
<1>2. status \in [Docs -> Statuses] /\ completed \subseteq Sales
  BY DEF DecidedInv, AnnouncedInv, SellOutTypeOK, Statuses
<1>3. UNCHANGED <<completed, announced, decided, overlapped, patched, dropped>>
  BY DEF history
<1>4. ASSUME NEW c \in Docs \ (overlapped' \cup patched') PROVE Undisturbed(c)'
  <2>1. Undisturbed(c)
    BY <1>3 DEF DecidedInv
  <2>2. CASE c # d
    BY <1>2, <1>3, <2>1, <2>2, Elsewhere
  <2>3. CASE c = d
    <3>1. RequestsFor(d) = {}
      <4> SUFFICES ASSUME NEW x \in RequestsFor(d) PROVE FALSE
        OBVIOUS
      <4>1. x \in Slots /\ req[x].doc = d /\ req[x].step # "idle"
        BY <1>1 DEF RequestsFor, DecidedInv, SellOutAssumption
      <4>2. req[x].op \in Operations /\ d \in req[x].op.on /\ status[d] \in req[x].op.from
        BY <1>3, <2>3, <4>1, Holder
      <4> QED BY <1>1, <4>2, DecisionFacts
    <3>2. RequestsFor(d)' = {}
      BY <3>1 DEF RequestsFor
    <3>3. status'[d] = s
      BY <1>1, <1>2
    <3> QED BY <1>1, <1>2, <1>3, <2>1, <2>3, <3>1, <3>2, <3>3
            DEF Undisturbed, FinalStatuses, AnnouncedStatuses
  <2> QED BY <2>2, <2>3
<1> QED BY <1>4 DEF DecidedInv

LEMMA InitDecided == ASSUME SellOutAssumption, Init PROVE DecidedInv
<1>1. AnnouncedInv
  BY InitAnnounced
<1>2. \A x \in Slots : req[x].step = "idle" /\ req[x].doc = NoDoc
  BY DEF Init, NoRequest
<1>3. ASSUME NEW d \in Docs PROVE Undisturbed(d)
  <2>1. RequestsFor(d) = {}
    BY <1>2 DEF RequestsFor, SellOutAssumption
  <2> QED BY <2>1 DEF Init, Undisturbed, FinalStatuses, AnnouncedStatuses
<1> QED BY <1>1, <1>2, <1>3 DEF DecidedInv

LEMMA StepDecided ==
  ASSUME SellOutAssumption, DecidedInv, [Next]_vars PROVE DecidedInv'
<1>1. AnnouncedInv'
  BY StepAnnounced DEF DecidedInv
<1>2. CASE UNCHANGED vars
  BY <1>1, <1>2, Elsewhere DEF vars, history, DecidedInv
<1>3. ASSUME NEW r \in Returns, CreateReturn(r) PROVE DecidedInv'
  BY <1>1, <1>3, InsertDecided DEF CreateReturn
<1>4. ASSUME NEW s \in Sessions, OpenSession(s) PROVE DecidedInv'
  BY <1>1, <1>4, InsertDecided DEF OpenSession
<1>5. ASSUME NEW x \in Slots, NEW t \in Sales, BeginSale(x, t) PROVE DecidedInv'
  <2>1. Create \in Operations /\ t \in Docs /\ Create.from = {"NONE"}
    BY DEF Operations, Docs, Create, Op
  <2> QED BY <1>1, <1>5, <2>1, BeginDecided DEF BeginSale
<1>6. ASSUME NEW x \in Slots, NEW d \in Docs, NEW op \in Updates, ReadDoc(x, d, op)
      PROVE  DecidedInv'
  <2>1. op \in Operations
    BY DEF Operations
  <2> QED BY <1>1, <1>6, <2>1, BeginDecided DEF ReadDoc
<1>7. ASSUME NEW x \in Slots, CheckStock(x) PROVE DecidedInv'
  <2>1. req[x] \in RequestType /\ req[x].step = "checking"
    BY <1>7 DEF CheckStock, DecidedInv, AnnouncedInv, SellOutTypeOK
  <2>2. \/ req' = [req EXCEPT ![x] = [@ EXCEPT !.line = req[x].line + 1]]
        \/ Ends(x)
    BY <1>7 DEF CheckStock
  <2>3. UNCHANGED <<status, made, completed, announced, decided, overlapped, patched, dropped>>
    BY <1>7 DEF CheckStock
  <2>4. CASE req' = [req EXCEPT ![x] = [@ EXCEPT !.line = req[x].line + 1]]
    <3>1. /\ req'[x].op = req[x].op /\ req'[x].doc = req[x].doc /\ req'[x].step = req[x].step
          /\ \A y \in Slots \ {x} : req'[y] = req[y]
      BY <2>1, <2>4 DEF RequestType, DecidedInv, AnnouncedInv, SellOutTypeOK
    <3> QED BY <1>1, <2>1, <2>3, <3>1, GoOnDecided
  <2>5. CASE Ends(x)
    <3>1. dropped' = dropped \cup {d \in {req[x].doc} : req[x].step = "sent"}
      BY <2>1, <2>3
    <3> QED BY <1>1, <2>1, <2>3, <2>5, <3>1, DropDecided
  <2> QED BY <2>2, <2>4, <2>5
<1>8. ASSUME NEW x \in Slots, InsertSale(x) \/ WriteDoc(x) \/ KeepDoc(x) PROVE DecidedInv'
  <2>1. /\ req[x] \in RequestType /\ req[x].step \in {"checking", "read"}
        /\ UNCHANGED <<status, made, completed, announced, decided, overlapped, patched, dropped>>
        /\ \/ Writes(x)
           \/ Goes(x, "written") /\ status[req[x].doc] = req[x].op.to
    BY <1>8 DEF InsertSale, WriteDoc, KeepDoc, history, DecidedInv, AnnouncedInv, SellOutTypeOK
  <2>2. /\ \A y \in Slots \ {x} : req'[y] = req[y]
        /\ req'[x].op = req[x].op /\ req'[x].doc = req[x].doc /\ req'[x].step = "written"
        /\ req'[x].writes \/ status[req[x].doc] = req[x].op.to
    <3>1. req \in [Slots -> RequestType]
      BY DEF DecidedInv, AnnouncedInv, SellOutTypeOK
    <3>2. CASE Writes(x)
      BY <2>1, <3>1, <3>2 DEF Writes, RequestType
    <3>3. CASE Goes(x, "written") /\ status[req[x].doc] = req[x].op.to
      BY <2>1, <3>1, <3>3 DEF Goes, RequestType
    <3> QED BY <2>1, <3>2, <3>3
  <2> QED BY <1>1, <2>1, <2>2, GoOnDecided
<1>9. ASSUME NEW x \in Slots, SendEvent(x) \/ CommitRequest(x) PROVE DecidedInv'
  BY <1>1, <1>9, SendDecided, CommitDecided
<1>10. ASSUME NEW x \in Slots, Fails(x) PROVE DecidedInv'
  BY <1>1, <1>10, DropDecided DEF Fails
<1> QED BY <1>2, <1>3, <1>4, <1>5, <1>6, <1>7, <1>8, <1>9, <1>10 DEF Next

\* However often and by however many requests it is asked for: a sale is reversed, a
\* return approved or rejected, and a session closed at most once, if no two requests
\* had it in hand at a time and no PATCH set its status.
THEOREM OneDecision == Spec => []DecidedOnce
<1>1. Init => DecidedInv
  BY InitDecided, SellOutAssumption
<1>2. DecidedInv /\ [Next]_vars => DecidedInv'
  BY StepDecided, SellOutAssumption
<1>3. DecidedInv => DecidedOnce
  BY DEF DecidedInv, Undisturbed, DecidedOnce
<1> QED BY <1>1, <1>2, <1>3, PTL DEF Spec

\* For such a document, if no transaction was lost after its event: the events sent for
\* it tell what is stored, each once.
THEOREM NothingAnnouncedInVain == Spec => []AnnouncedIsStored
<1>1. Init => DecidedInv
  BY InitDecided, SellOutAssumption
<1>2. DecidedInv /\ [Next]_vars => DecidedInv'
  BY StepDecided, SellOutAssumption
<1>3. DecidedInv => AnnouncedIsStored
  BY DEF DecidedInv, Undisturbed, AnnouncedIsStored, AnnouncedStatuses
<1> QED BY <1>1, <1>2, <1>3, PTL DEF Spec

-----------------------------------------------------------------------------
(* The inductive invariant of performance-service.                          *)

RowRecord == {row \in [value : Nat, sources : SUBSET SaleEvents] :
                row.sources = {} => row.value = 0}
TargetRecord == [dealer : Dealers, spec : Specs, goal : Nat, from : Months, to : Months,
                 status : TargetStatuses \cup {"NONE"}]
TxSteps == {"idle", "measure", "write", "check", "set"}
TxShape == [step : TxSteps, spec : [Kpis -> Specs \cup {None}], todo : SUBSET Kpis,
            row : RowIds \cup {None}, seen : RowRecord, new : [RowIds -> RowRecord],
            sum : [Kpis -> Nat], judging : SUBSET (Targets \X Months),
            found : [Targets -> TargetStatuses], sets : [Targets -> TargetStatuses]]
TxRecord == {j \in TxShape : /\ j.todo \subseteq Measured(j.spec)
                             /\ j.step \in {"measure", "write", "set"} => j.todo # {}
                             /\ j.step = "write" => j.row \in RowIds}
DashRecord == [step : {"idle", "measured"}, shown : SUBSET [row : RowIds, value : Nat]]

\* The tables, the transactions and what is observed keep their types (models.py of
\* performance-service).
MeasureTypeOK ==
  /\ named \in [Specs -> Names]
  /\ rows \in [RowIds -> RowRecord]
  /\ target \in [Targets -> TargetRecord]
  /\ tx \in [Workers -> TxRecord]
  /\ dash \in [Dashboards -> DashRecord]
  /\ counted \in [SaleEvents \X Kpis \X Specs -> Nat]
  /\ unnamed \subseteq SaleEvents \X Kpis
  /\ judged \subseteq Targets \X Months
  /\ edited \subseteq Targets
  /\ crossed \in BOOLEAN

\* A transaction is open only in a handler call.
OpenInv == \A w \in Workers : /\ tx[w].step = "idle" => tx[w] = NoTx
                              /\ tx[w].step # "idle" => task[w].phase = "handling"

\* What follows holds until two transactions of one dealer's sales are open at a time.
AloneOpen == \A v, w \in Workers :
               v # w /\ tx[v] # NoTx /\ tx[w] # NoTx => EventOf(v).dealer # EventOf(w).dealer

\* At most one row for each dealer, specification and month, and one for each addition.
Alike(r, q) == r.dealer = q.dealer /\ r.spec = q.spec /\ r.month = q.month
OneRowEach == \A r, q \in Stored : Alike(r, q) => r = q
CountedStored ==
  \A x \in SaleEvents, k \in Kpis, s \in Specs :
    counted[<<x, k, s>>] > 0 => RowsOf(SaleAt(x).dealer, s, SaleAt(x).month) # {}
SumsOK ==
  \A r \in Stored :
    /\ rows[r].value = SumFunctionOnSet(AddedUnder(r.spec), SalesOf(r.dealer, r.month) \X Kpis)
    /\ rows[r].sources = {x \in SalesOf(r.dealer, r.month) :
                            \E k \in Kpis : counted[<<x, k, r.spec>>] > 0}

\* Row r is the one KPI k of the sale in hand of w goes to: the one there is, or its own.
RowFor(w, r, k) ==
  /\ r \in RowIds
  /\ r.dealer = EventOf(w).dealer /\ r.month = EventOf(w).month /\ r.spec = tx[w].spec[k]
  /\ r \in Stored \/ r.by = w
  /\ \A q \in Stored : Alike(q, r) => q = r

\* KPI k has been written, and its targets have been read.
Written(w, k) == /\ k \in Measured(tx[w].spec)
                 /\ tx[w].step \in {"check", "set"} \/ k \notin tx[w].todo
Compared(w, k) == /\ k \in Measured(tx[w].spec) /\ tx[w].step \in {"check", "set"}
                  /\ k \notin tx[w].todo \/ (tx[w].step = "set" /\ k = Kpi(w))

\* The row with the sale in hand added to it as k.
Plus(w, r, k) == [value |-> rows[r].value + EventOf(w).amount[k],
                  sources |-> rows[r].sources \cup {InHand(w)}]

\* What an open transaction has resolved, read and written so far.
WritesOK(w) ==
  /\ \A k, l \in Measured(tx[w].spec) : tx[w].spec[k] = tx[w].spec[l] => k = l
  /\ tx[w].step = "write" => /\ RowFor(w, tx[w].row, Kpi(w))
                             /\ tx[w].seen = rows[tx[w].row]
  /\ \A k \in Kpis : Written(w, k) =>
       \E r \in RowIds : /\ RowFor(w, r, k) /\ tx[w].new[r] = Plus(w, r, k)
                         /\ tx[w].sum[k] = Plus(w, r, k).value
  /\ \A r \in RowIds : tx[w].new[r] # NoRow => \E k \in Kpis : Written(w, k) /\ RowFor(w, r, k)

\* Target t is one that KPI k of the sale in hand of w is compared with.
InScope(w, t, k) ==
  /\ target[t].dealer = EventOf(w).dealer /\ target[t].spec = tx[w].spec[k]
  /\ target[t].from <= EventOf(w).month /\ target[t].to >= EventOf(w).month

\* What it has compared and is about to set, of a target nobody patched.
NewsOK(w, t) ==
  /\ tx[w].found[t] \in {"ACTIVE", "ACHIEVED"} /\ tx[w].sets[t] \in {"ACTIVE", "ACHIEVED"}
  /\ tx[w].step # "set" => tx[w].found[t] = "ACTIVE"
  /\ \A m \in Months : <<t, m>> \in tx[w].judging =>
       /\ m = EventOf(w).month /\ target[t].status = "ACTIVE"
       /\ \E k \in Kpis :
            /\ Compared(w, k) /\ InScope(w, t, k)
            /\ tx[w].found[t] = "ACHIEVED" \/ tx[w].sets[t] = "ACHIEVED"
                 <=> tx[w].sum[k] >= target[t].goal
  /\ tx[w].found[t] = "ACHIEVED" \/ tx[w].sets[t] = "ACHIEVED"
       => <<t, EventOf(w).month>> \in tx[w].judging
  /\ \A k \in Kpis :
       Compared(w, k) /\ InScope(w, t, k) /\ target[t].status = "ACTIVE"
       /\ <<t, EventOf(w).month>> \in judged
       => <<t, EventOf(w).month>> \in tx[w].judging

TxsOK == \A w \in Workers : tx[w].step # "idle" =>
           WritesOK(w) /\ \A t \in Targets \ edited : NewsOK(w, t)

\* The status of a target nobody patched.
Reached(t) ==
  \E m \in Months : /\ target[t].from <= m /\ m <= target[t].to
                    /\ <<t, m>> \in judged
                    /\ \E r \in RowsOf(target[t].dealer, target[t].spec, m) :
                         rows[r].value >= target[t].goal
StatusOK(t) ==
  /\ target[t].status = "NONE" => \A m \in Months : <<t, m>> \notin judged
  /\ target[t].status # "MISSED"
  /\ target[t].status = "ACHIEVED" <=> Reached(t)
TargetsOK == \A t \in Targets \ edited : StatusOK(t)

\* A handled sale is measured, and what a dashboard shows has been reached.
SaleMeasured(x) ==
  \A k \in Kpis :
    \/ <<x, k>> \in unnamed
    \/ \E s \in Specs : /\ counted[<<x, k, s>>] > 0
                        /\ \E r \in RowsOf(SaleAt(x).dealer, s, SaleAt(x).month) :
                             x \in rows[r].sources
HandledOK == \A x \in handled : SaleMeasured(x)
ShownReached == \A d \in Dashboards : \A x \in dash[d].shown :
                x.row \in Stored /\ rows[x.row].value >= x.value

AloneIInv == /\ AloneOpen /\ OneRowEach /\ CountedStored /\ SumsOK /\ TxsOK
             /\ TargetsOK /\ HandledOK /\ ShownReached
MeasureIInv == ConsumerIInv /\ MeasureTypeOK /\ OpenInv /\ (~crossed => AloneIInv)

-----------------------------------------------------------------------------
(* performance-service runs the consumer loop.                              *)

\* Each step of the service is a step of the loop or leaves the loop alone.
LEMMA MeasureStepIsLoopStep == [MeasureNext]_measureVars => [ConsumerNext]_consumerVars
  <1> SUFFICES ASSUME [MeasureNext]_measureVars PROVE [ConsumerNext]_consumerVars
    OBVIOUS
  <1> USE DEF ConsumerNext, LoopStep
  <1>1. ASSUME NEW w \in Workers,
               \/ MeasureStep(w) \/ BetweenSales(w) \/ StatementRaises(w) \/ MeasureCrash(w)
               \/ TaskDies(w) /\ UNCHANGED performanceVars
        PROVE  [ConsumerNext]_consumerVars
    <2>1. CASE MeasureStep(w)
      BY <2>1 DEF MeasureStep, ResolveSpecs, ReadMeasurement, TwoRowsFound, WriteMeasurement,
         CheckTargets, SetTargets, CommitSale, TxGoes
    <2>2. CASE ~MeasureStep(w)
      BY <1>1, <2>2 DEF BetweenSales, StatementRaises, MeasureCrash
    <2>3. QED
      BY <2>1, <2>2
  <1>2. ASSUME NEW p \in Partitions, NEW w \in Workers, Reassign(p, w)
        PROVE  [ConsumerNext]_consumerVars
    BY <1>2
  <1>3. ASSUME NEW n \in Namings, NameSpec(n[1], n[2]) PROVE UNCHANGED consumerVars
    BY <1>3 DEF NameSpec
  <1>4. ASSUME NEW t \in Targets,
               CreateTarget(t) \/ \E patch \in TargetPatches : PatchTarget(t, patch)
        PROVE  UNCHANGED consumerVars
    BY <1>4 DEF CreateTarget, PatchTarget
  <1>5. ASSUME NEW d \in Dashboards,
               \/ \E dealer \in Dealers, m \in Months : ReadMeasurements(d, dealer, m)
               \/ ReadTargets(d)
        PROVE  UNCHANGED consumerVars
    BY <1>5 DEF ReadMeasurements, ReadTargets
  <1>6. CASE UNCHANGED measureVars
    BY <1>6 DEF measureVars
  <1>7. QED
    BY <1>1, <1>2, <1>3, <1>4, <1>5, <1>6 DEF MeasureNext

\* Every behaviour of the service is a behaviour of the loop (start_consumer runs
\* consume()), so whatever is proved of the loop holds of it.
THEOREM PerformanceRunsTheLoop == MeasureSpec => ConsumerSpec
  <1>1. MeasureInit => ConsumerInit
    BY DEF MeasureInit
  <1>2. QED
    BY <1>1, MeasureStepIsLoopStep, PTL DEF MeasureSpec, ConsumerSpec

-----------------------------------------------------------------------------
(* Sales.                                                                   *)

\* The sales are the events at the positions of the logs.
LEMMA SalesArePositions == SaleEvents = Positions
  <1>1. \A p \in Partitions : DOMAIN Log[p] = 1..Len(Log[p])
    BY ConsumerAssumption DEF ConsumerAssumption
  <1>2. QED
    BY <1>1, LogLength DEF SaleEvents, Positions

\* What a sale is.
LEMMA SaleType ==
  ASSUME NEW x \in SaleEvents
  PROVE  SaleAt(x) \in [dealer : Dealers, month : Months, amount : [Kpis -> Nat]]
  <1>1. x[1] \in Partitions /\ x[2] \in 1..Len(Log[x[1]])
    BY SalesArePositions DEF Positions
  <1>2. QED
    BY <1>1, ConsumerAssumption, PerformanceAssumption
    DEF ConsumerAssumption, PerformanceAssumption, SaleAt

\* The sale in hand during a handler call.
LEMMA SaleInHand ==
  ASSUME ConsumerIInv, NEW w \in Workers, task[w].phase = "handling"
  PROVE  /\ InHand(w) \in SaleEvents /\ EventOf(w) = SaleAt(InHand(w))
         /\ EventOf(w) \in [dealer : Dealers, month : Months, amount : [Kpis -> Nat]]
  <1>1. InHand(w) \in SaleEvents
    BY BusyFacts, SalesArePositions DEF Busy
  <1>2. EventOf(w) = SaleAt(InHand(w))
    BY DEF EventOf, SaleAt, InHand
  <1>3. QED
    BY <1>1, <1>2, SaleType

\* There are finitely many sales.
LEMMA SalesFinite == IsFiniteSet(SaleEvents)
  <1> DEFINE One(p) == {p} \X DOMAIN Log[p]
             F == {One(p) : p \in Partitions}
  <1>1. \A p \in Partitions : IsFiniteSet(One(p))
    <2> SUFFICES ASSUME NEW p \in Partitions PROVE IsFiniteSet(One(p))
      OBVIOUS
    <2>1. DOMAIN Log[p] = 1..Len(Log[p]) /\ Len(Log[p]) \in Nat
      BY ConsumerAssumption DEF ConsumerAssumption
    <2>2. IsFiniteSet(1..Len(Log[p]))
      BY <2>1, FS_Interval
    <2>3. IsFiniteSet({p})
      BY FS_Singleton
    <2>4. QED
      BY <2>1, <2>2, <2>3, FS_Product
  <1>2. IsFiniteSet(F)
    <2> DEFINE f == [p \in Partitions |-> One(p)]
    <2>1. f \in Surjection(Partitions, F)
      BY DEF Surjection
    <2>2. QED
      BY <2>1, FS_Surjection, PerformanceAssumption DEF PerformanceAssumption
  <1>3. \A u \in F : IsFiniteSet(u)
    BY <1>1
  <1>4. IsFiniteSet(UNION F)
    BY <1>2, <1>3, FS_UNION
  <1>5. QED
    BY <1>4 DEF SaleEvents

\* No transaction is a transaction.
LEMMA NoTxType == NoTx \in TxRecord /\ NoTx.step = "idle" /\ NoRow \in RowRecord
  BY DEF NoTx, TxRecord, TxShape, TxSteps, NoRow, RowRecord, NoNews, TargetStatuses

-----------------------------------------------------------------------------
(* Steps that leave the tables alone.                                       *)

\* The transaction of v stays what it was.
LEMMA TxSame ==
  ASSUME NEW v \in Workers, tx'[v] = tx[v],
         task'[v].part = task[v].part, task'[v].pos = task[v].pos
  PROVE  /\ EventOf(v)' = EventOf(v) /\ InHand(v)' = InHand(v) /\ Kpi(v)' = Kpi(v)
         /\ \A k : Written(v, k)' <=> Written(v, k)
         /\ \A k : Compared(v, k)' <=> Compared(v, k)
  BY DEF EventOf, InHand, Kpi, Written, Compared, Measured

\* What it has resolved and written holds as long as its dealer's rows stay.
LEMMA WritesKept ==
  ASSUME NEW v \in Workers, WritesOK(v), tx'[v] = tx[v],
         task'[v].part = task[v].part, task'[v].pos = task[v].pos,
         \A r \in RowIds : r.dealer = EventOf(v).dealer => rows'[r] = rows[r]
  PROVE  WritesOK(v)'
  <1>1. EventOf(v)' = EventOf(v) /\ InHand(v)' = InHand(v) /\ Kpi(v)' = Kpi(v)
    BY TxSame
  <1>2. \A k : Written(v, k)' <=> Written(v, k)
    BY TxSame
  <1>3. \A r \in RowIds : r.dealer = EventOf(v).dealer => (r \in Stored' <=> r \in Stored)
    BY DEF Stored
  <1>4. \A r : (r \in Stored => r \in RowIds) /\ (r \in Stored' => r \in RowIds)
    BY DEF Stored
  <1>5. \A r, k : RowFor(v, r, k)' <=> RowFor(v, r, k)
    <2> SUFFICES ASSUME NEW r, NEW k, r \in RowIds, r.dealer = EventOf(v).dealer
                 PROVE  RowFor(v, r, k)' <=> RowFor(v, r, k)
      BY <1>1 DEF RowFor
    <2>1. \A q : Alike(q, r) /\ q \in RowIds => (q \in Stored' <=> q \in Stored)
      BY <1>3 DEF Alike
    <2>2. QED
      BY <1>1, <1>3, <1>4, <2>1 DEF RowFor
  <1>6. \A r, k : RowFor(v, r, k) => rows'[r] = rows[r] /\ Plus(v, r, k)' = Plus(v, r, k)
    BY <1>1 DEF RowFor, Plus
  <1>7. QED
    BY <1>1, <1>2, <1>5, <1>6 DEF WritesOK, Measured

\* What it has compared of a target holds as long as the target stays.
LEMMA NewsKept ==
  ASSUME NEW v \in Workers, NEW t \in Targets, NewsOK(v, t), tx'[v] = tx[v],
         task'[v].part = task[v].part, task'[v].pos = task[v].pos,
         target'[t] = target[t], \A m : <<t, m>> \in judged' <=> <<t, m>> \in judged
  PROVE  NewsOK(v, t)'
  <1>1. EventOf(v)' = EventOf(v) /\ \A k : Compared(v, k)' <=> Compared(v, k)
    BY TxSame
  <1>2. \A k : InScope(v, t, k)' <=> InScope(v, t, k)
    BY <1>1 DEF InScope
  <1>3. QED
    BY <1>1, <1>2 DEF NewsOK

\* What the tables alone say stays, if they do.
LEMMA TablesSame ==
  ASSUME UNCHANGED <<rows, target, counted, unnamed, judged, edited>>, handled' = handled
  PROVE  /\ OneRowEach => OneRowEach'
         /\ CountedStored => CountedStored'
         /\ SumsOK => SumsOK'
         /\ TargetsOK => TargetsOK'
         /\ HandledOK => HandledOK'
  <1>1. Stored' = Stored /\ \A dealer, s, m : RowsOf(dealer, s, m)' = RowsOf(dealer, s, m)
    BY DEF Stored, RowsOf
  <1>2. OneRowEach => OneRowEach'
    BY <1>1 DEF OneRowEach
  <1>3. CountedStored => CountedStored'
    BY <1>1 DEF CountedStored
  <1>4. SumsOK => SumsOK'
    <2>1. \A s : AddedUnder(s)' = AddedUnder(s)
      BY DEF AddedUnder
    <2>2. QED
      BY <1>1, <2>1 DEF SumsOK
  <1>5. TargetsOK => TargetsOK'
    BY <1>1 DEF TargetsOK, StatusOK, Reached
  <1>6. HandledOK => HandledOK'
    BY <1>1 DEF HandledOK, SaleMeasured
  <1>7. QED
    BY <1>2, <1>3, <1>4, <1>5, <1>6

\* A step that leaves the tables alone.
LEMMA QuietInv ==
  ASSUME MeasureIInv, ConsumerIInv',
         UNCHANGED <<rows, target, counted, unnamed, judged, edited>>, handled' = handled,
         named' \in [Specs -> Names], tx' \in [Workers -> TxRecord],
         dash' \in [Dashboards -> DashRecord], crossed' \in BOOLEAN, OpenInv',
         ~crossed' => ~crossed /\ AloneOpen' /\ TxsOK' /\ ShownReached'
  PROVE  MeasureIInv'
  <1>1. MeasureTypeOK'
    BY DEF MeasureIInv, MeasureTypeOK
  <1>2. ~crossed' => AloneIInv'
    BY TablesSame DEF MeasureIInv, AloneIInv
  <1>3. QED
    BY <1>1, <1>2 DEF MeasureIInv

\* The transaction of w becomes j, the others stay, and so do their events.
LEMMA TxStepInv ==
  ASSUME MeasureIInv, ConsumerIInv', NEW w \in Workers, NEW j \in TxRecord,
         tx' = [tx EXCEPT ![w] = j],
         UNCHANGED <<tables, dash, observed>>, handled' = handled,
         \A v \in Workers : v # w => task'[v] = task[v],
         j.step = "idle" => j = NoTx,
         j.step # "idle" => task'[w].phase = "handling",
         crossed' \in BOOLEAN, crossed => crossed',
         ~crossed' /\ j.step # "idle" =>
            /\ \A v \in Workers : v # w /\ tx[v] # NoTx
                                   => EventOf(v).dealer # EventOf(w)'.dealer
            /\ WritesOK(w)' /\ \A t \in Targets \ edited : NewsOK(w, t)'
  PROVE  MeasureIInv'
  <1>1. tx' \in [Workers -> TxRecord] /\ tx'[w] = j /\ \A v \in Workers : v # w => tx'[v] = tx[v]
    BY DEF MeasureIInv, MeasureTypeOK
  <1>2. OpenInv'
    BY <1>1 DEF MeasureIInv, OpenInv
  <1>3. UNCHANGED <<named, rows, target, counted, unnamed, judged, edited, dash>>
    BY DEF tables, observed
  <1>4. ASSUME ~crossed' PROVE ~crossed /\ AloneOpen' /\ TxsOK' /\ ShownReached'
    <2>1. ~crossed /\ AloneIInv
      BY <1>4 DEF MeasureIInv
    <2>2. \A v \in Workers : v # w => EventOf(v)' = EventOf(v)
      BY <1>1, TxSame
    <2>3. AloneOpen'
      <3> SUFFICES ASSUME NEW u \in Workers, NEW v \in Workers, u # v,
                          tx'[u] # NoTx, tx'[v] # NoTx
                   PROVE  EventOf(u)'.dealer # EventOf(v)'.dealer
        BY DEF AloneOpen
      <3>1. CASE u # w /\ v # w
        BY <1>1, <2>1, <2>2, <3>1 DEF AloneIInv, AloneOpen
      <3>2. CASE u = w \/ v = w
        BY <1>1, <1>4, <2>2, <3>2
      <3>3. QED
        BY <3>1, <3>2
    <2>4. TxsOK'
      <3> SUFFICES ASSUME NEW v \in Workers, tx'[v].step # "idle"
                   PROVE  WritesOK(v)' /\ \A t \in Targets \ edited : NewsOK(v, t)'
        BY <1>3 DEF TxsOK
      <3>1. CASE v = w
        BY <1>1, <1>4, <3>1
      <3>2. CASE v # w
        <4>1. tx'[v] = tx[v] /\ task'[v] = task[v] /\ tx[v].step # "idle"
          BY <1>1, <3>2
        <4>2. WritesOK(v) /\ \A t \in Targets \ edited : NewsOK(v, t)
          BY <2>1, <4>1 DEF AloneIInv, TxsOK
        <4>3. WritesOK(v)'
          BY <1>3, <4>1, <4>2, WritesKept
        <4>4. \A t \in Targets \ edited : NewsOK(v, t)'
          BY <1>3, <4>1, <4>2, NewsKept
        <4>5. QED
          BY <4>3, <4>4
      <3>3. QED
        BY <3>1, <3>2
    <2>5. ShownReached'
      BY <1>3, <2>1 DEF AloneIInv, ShownReached, Stored
    <2>6. QED
      BY <2>1, <2>3, <2>4, <2>5
  <1>5. named' \in [Specs -> Names] /\ dash' \in [Dashboards -> DashRecord]
    BY <1>3 DEF MeasureIInv, MeasureTypeOK
  <1>6. QED
    BY <1>1, <1>2, <1>3, <1>4, <1>5, QuietInv

-----------------------------------------------------------------------------
(* The loop outside a handler call.                                         *)

\* A step of replica w leaves the tasks of the others alone.
LEMMA OthersStay ==
  ASSUME ConsumerIInv, NEW w \in Workers, LoopStep(w) \/ TaskDies(w) \/ Crash(w)
  PROVE  \A v \in Workers : v # w => task'[v] = task[v]
  BY DEF ConsumerIInv, ConsumerTypeOK, LoopStep, Poll, HandlerReturns, HandlerRaises,
     Retry, Commit, CommitRaises, RouteToDlq, CommitSkipped, TaskDies, Crash

\* A transaction ends unsaved, or there was none.
LEMMA RollbackTxInv ==
  ASSUME MeasureIInv, ConsumerIInv', NEW w \in Workers,
         LoopStep(w) \/ TaskDies(w) \/ Crash(w),
         handled' = handled, tx' = [tx EXCEPT ![w] = NoTx],
         UNCHANGED <<tables, dash, observed, crossed>>
  PROVE  MeasureIInv'
  <1>1. \A v \in Workers : v # w => task'[v] = task[v]
    BY OthersStay DEF MeasureIInv
  <1>2. NoTx \in TxRecord /\ NoTx.step = "idle"
    BY NoTxType
  <1>3. crossed' \in BOOLEAN /\ (crossed => crossed')
    BY DEF MeasureIInv, MeasureTypeOK
  <1>4. UNCHANGED <<tables, dash, observed>>
    OBVIOUS
  <1>5. QED
    BY ONLY MeasureIInv, ConsumerIInv', w \in Workers, handled' = handled,
       tx' = [tx EXCEPT ![w] = NoTx], <1>1, <1>2, <1>3, <1>4, TxStepInv

\* What the loop does between handler calls, and every way a call ends unsaved.
LEMMA MeasureLoopInv ==
  ASSUME MeasureIInv, ConsumerIInv', NEW w \in Workers,
         \/ BetweenSales(w) \/ StatementRaises(w) \/ MeasureCrash(w) \/ TwoRowsFound(w)
         \/ (TaskDies(w) /\ UNCHANGED performanceVars)
  PROVE  MeasureIInv'
  <1>1. CASE StatementRaises(w)
    BY <1>1, RollbackTxInv DEF StatementRaises, HandlerRaises, LoopStep
  <1>2. CASE MeasureCrash(w)
    BY <1>2, RollbackTxInv DEF MeasureCrash, Crash
  <1>3. CASE TwoRowsFound(w)
    BY <1>3, RollbackTxInv DEF TwoRowsFound, HandlerRaises, LoopStep
  <1>4. CASE BetweenSales(w) \/ (TaskDies(w) /\ UNCHANGED performanceVars)
    <2>1. task[w].phase # "handling" /\ handled' = handled /\ (LoopStep(w) \/ TaskDies(w))
      BY <1>4 DEF BetweenSales, LoopStep, Poll, Commit, CommitRaises, RouteToDlq,
         CommitSkipped, TaskDies
    <2>2. tx[w] = NoTx
      BY <2>1 DEF MeasureIInv, OpenInv
    <2>3. UNCHANGED performanceVars
      BY <1>4 DEF BetweenSales
    <2>4. tx' = [tx EXCEPT ![w] = NoTx]
      BY <2>2, <2>3 DEF performanceVars, MeasureIInv, MeasureTypeOK
    <2>5. QED
      BY <2>1, <2>3, <2>4, RollbackTxInv DEF performanceVars
  <1>5. QED
    BY <1>1, <1>2, <1>3, <1>4

\* A step in which no replica moves.
LEMMA IdleStepInv ==
  ASSUME MeasureIInv, ConsumerIInv',
         UNCHANGED <<rows, target, tx, counted, unnamed, judged, edited, crossed>>,
         handled' = handled, named' \in [Specs -> Names], dash' \in [Dashboards -> DashRecord],
         AloneIInv => ShownReached',
         \A v \in Workers : /\ task'[v].part = task[v].part /\ task'[v].pos = task[v].pos
                            /\ task'[v].phase = task[v].phase
  PROVE  MeasureIInv'
  <1>1. OpenInv'
    BY DEF MeasureIInv, OpenInv
  <1>2. tx' \in [Workers -> TxRecord] /\ crossed' \in BOOLEAN
    BY DEF MeasureIInv, MeasureTypeOK
  <1>3. ASSUME ~crossed' PROVE ~crossed /\ AloneOpen' /\ TxsOK' /\ ShownReached'
    <2>1. ~crossed /\ AloneIInv
      BY <1>3 DEF MeasureIInv
    <2>2. AloneOpen'
      <3>1. \A v \in Workers : tx'[v] = tx[v] /\ EventOf(v)' = EventOf(v)
        BY TxSame
      <3>2. QED
        BY <2>1, <3>1 DEF AloneIInv, AloneOpen
    <2>3. TxsOK'
      <3> SUFFICES ASSUME NEW v \in Workers, tx'[v].step # "idle"
                   PROVE  WritesOK(v)' /\ \A t \in Targets \ edited : NewsOK(v, t)'
        BY DEF TxsOK
      <3>1. WritesOK(v) /\ \A t \in Targets \ edited : NewsOK(v, t)
        BY <2>1 DEF AloneIInv, TxsOK
      <3>2. WritesOK(v)'
        BY <3>1, WritesKept
      <3>3. \A t \in Targets \ edited : NewsOK(v, t)'
        BY <3>1, NewsKept
      <3>4. QED
        BY <3>2, <3>3
    <2>4. QED
      BY <2>1, <2>2, <2>3
  <1>4. QED
    BY <1>1, <1>2, <1>3, QuietInv

\* A partition moves; nobody's phase changes.
LEMMA MeasureMoveInv ==
  ASSUME MeasureIInv, ConsumerIInv', NEW p \in Partitions, NEW w \in Workers,
         Reassign(p, w), UNCHANGED performanceVars
  PROVE  MeasureIInv'
  <1>1. \A v \in Workers : /\ task'[v].part = task[v].part /\ task'[v].pos = task[v].pos
                           /\ task'[v].phase = task[v].phase
    BY DEF Reassign, MeasureIInv, ConsumerIInv, ConsumerTypeOK
  <1>2. /\ UNCHANGED <<named, dash, rows, target, tx, counted, unnamed, judged, edited, crossed>>
        /\ handled' = handled
    BY DEF performanceVars, tables, observed, Reassign
  <1>3. named' \in [Specs -> Names] /\ dash' \in [Dashboards -> DashRecord]
    BY <1>2 DEF MeasureIInv, MeasureTypeOK
  <1>4. AloneIInv => ShownReached'
    BY <1>2 DEF AloneIInv, ShownReached, Stored
  <1>5. QED
    BY <1>1, <1>2, <1>3, <1>4, IdleStepInv

\* Nothing happens.
LEMMA MeasureStutterInv ==
  ASSUME MeasureIInv, ConsumerIInv', UNCHANGED measureVars
  PROVE  MeasureIInv'
  <1>1. /\ UNCHANGED <<named, dash, rows, target, tx, counted, unnamed, judged, edited, crossed>>
        /\ handled' = handled /\ task' = task
    BY DEF measureVars, performanceVars, tables, observed, consumerVars
  <1>2. named' \in [Specs -> Names] /\ dash' \in [Dashboards -> DashRecord]
    BY <1>1 DEF MeasureIInv, MeasureTypeOK
  <1>3. AloneIInv => ShownReached'
    BY <1>1 DEF AloneIInv, ShownReached, Stored
  <1>4. QED
    BY <1>1, <1>2, <1>3, IdleStepInv

-----------------------------------------------------------------------------
(* The API.                                                                 *)

\* A specification is given a name; open transactions have resolved theirs.
LEMMA NameSpecInv ==
  ASSUME MeasureIInv, ConsumerIInv', NEW n \in Namings, NameSpec(n[1], n[2])
  PROVE  MeasureIInv'
  <1>1. /\ UNCHANGED <<dash, rows, target, tx, counted, unnamed, judged, edited, crossed>>
        /\ handled' = handled /\ task' = task /\ named' = [named EXCEPT ![n[1]] = n[2]]
    BY DEF NameSpec, observed, consumerVars
  <1>2. named' \in [Specs -> Names] /\ dash' \in [Dashboards -> DashRecord]
    BY <1>1, PerformanceAssumption DEF MeasureIInv, MeasureTypeOK, PerformanceAssumption
  <1>3. AloneIInv => ShownReached'
    BY <1>1 DEF AloneIInv, ShownReached, Stored
  <1>4. QED
    BY <1>1, <1>2, <1>3, IdleStepInv

\* A dashboard reads the measurements, or answers.
LEMMA DashboardInv ==
  ASSUME MeasureIInv, ConsumerIInv', NEW d \in Dashboards,
         \/ \E dealer \in Dealers, m \in Months : ReadMeasurements(d, dealer, m)
         \/ ReadTargets(d)
  PROVE  MeasureIInv'
  <1>1. /\ UNCHANGED <<named, rows, target, tx, counted, unnamed, judged, edited, crossed>>
        /\ handled' = handled /\ task' = task
    BY DEF ReadMeasurements, ReadTargets, tables, observed, consumerVars
  <1>2. PICK j \in DashRecord :
          /\ dash' = [dash EXCEPT ![d] = j]
          /\ \A x \in j.shown : x.row \in Stored /\ rows[x.row].value >= x.value
    <2>1. CASE ReadTargets(d)
      <3>1. NotAsked \in DashRecord /\ NotAsked.shown = {}
        BY DEF NotAsked, DashRecord
      <3>2. QED
        BY <2>1, <3>1 DEF ReadTargets
    <2>2. ASSUME NEW dealer \in Dealers, NEW m \in Months, ReadMeasurements(d, dealer, m)
          PROVE  \E j \in DashRecord :
                   /\ dash' = [dash EXCEPT ![d] = j]
                   /\ \A x \in j.shown : x.row \in Stored /\ rows[x.row].value >= x.value
      <3> DEFINE S == {[row |-> r, value |-> rows[r].value] :
                         r \in {q \in Stored : q.dealer = dealer /\ q.month = m}}
                 j == [step |-> "measured", shown |-> S]
      <3>1. \A x \in S : /\ x \in [row : RowIds, value : Nat]
                         /\ x.row \in Stored /\ rows[x.row].value >= x.value
        BY DEF Stored, MeasureIInv, MeasureTypeOK, RowRecord
      <3>2. dash' = [dash EXCEPT ![d] = j]
        BY <2>2 DEF ReadMeasurements
      <3>3. j \in DashRecord /\ j.shown = S
        BY <3>1 DEF DashRecord
      <3>4. QED
        BY <3>1, <3>2, <3>3
    <2>3. QED
      BY <2>1, <2>2
  <1>3. named' \in [Specs -> Names] /\ dash' \in [Dashboards -> DashRecord]
    BY <1>1, <1>2 DEF MeasureIInv, MeasureTypeOK
  <1>4. AloneIInv => ShownReached'
    BY <1>1, <1>2 DEF AloneIInv, ShownReached, Stored, MeasureIInv, MeasureTypeOK
  <1>5. QED
    BY <1>1, <1>3, <1>4, IdleStepInv

\* A target t is created, or patched: the others stay.
LEMMA TargetStepInv ==
  ASSUME MeasureIInv, ConsumerIInv', NEW t \in Targets, NEW row \in TargetRecord,
         target' = [target EXCEPT ![t] = row], edited \subseteq edited', edited' \subseteq Targets,
         UNCHANGED <<consumerVars, named, rows, tx, dash, counted, unnamed, judged, crossed>>,
         ~crossed /\ t \notin edited' =>
            /\ StatusOK(t)'
            /\ \A v \in Workers : tx[v].step # "idle" => NewsOK(v, t)'
  PROVE  MeasureIInv'
  <1>1. /\ target' \in [Targets -> TargetRecord]
        /\ \A u \in Targets : u # t => target'[u] = target[u]
    BY DEF MeasureIInv, MeasureTypeOK
  <1>2. MeasureTypeOK' /\ OpenInv'
    BY <1>1 DEF MeasureIInv, MeasureTypeOK, OpenInv, consumerVars
  <1>3. ASSUME ~crossed' PROVE AloneIInv'
    <2>1. ~crossed /\ AloneIInv
      BY <1>3 DEF MeasureIInv
    <2>2. Stored' = Stored /\ \A dealer, s, m : RowsOf(dealer, s, m)' = RowsOf(dealer, s, m)
      BY DEF Stored, RowsOf
    <2>3. OneRowEach' /\ CountedStored' /\ AloneOpen' /\ ShownReached'
      BY <2>1, <2>2 DEF AloneIInv, OneRowEach, CountedStored, AloneOpen, ShownReached, EventOf,
         consumerVars
    <2>4. SumsOK'
      <3>1. \A s : AddedUnder(s)' = AddedUnder(s)
        BY DEF AddedUnder
      <3>2. QED
        BY <2>1, <2>2, <3>1 DEF AloneIInv, SumsOK
    <2>5. HandledOK'
      BY <2>1, <2>2 DEF AloneIInv, HandledOK, SaleMeasured, consumerVars
    <2>6. TargetsOK'
      <3> SUFFICES ASSUME NEW u \in Targets \ edited' PROVE StatusOK(u)'
        BY DEF TargetsOK
      <3>1. CASE u = t
        BY <2>1, <3>1
      <3>2. CASE u # t
        BY <1>1, <2>1, <2>2, <3>2 DEF AloneIInv, TargetsOK, StatusOK, Reached
      <3>3. QED
        BY <3>1, <3>2
    <2>7. TxsOK'
      <3> SUFFICES ASSUME NEW v \in Workers, tx'[v].step # "idle"
                   PROVE  WritesOK(v)' /\ \A u \in Targets \ edited' : NewsOK(v, u)'
        BY DEF TxsOK
      <3>1. task' = task
        BY DEF consumerVars
      <3>2. WritesOK(v) /\ \A u \in Targets \ edited : NewsOK(v, u)
        BY <2>1 DEF AloneIInv, TxsOK
      <3>3. WritesOK(v)'
        BY <3>1, <3>2, WritesKept
      <3>4. ASSUME NEW u \in Targets \ edited' PROVE NewsOK(v, u)'
        <4>1. CASE u = t
          BY <2>1, <4>1
        <4>2. CASE u # t
          BY <1>1, <3>1, <3>2, <4>2, NewsKept
        <4>3. QED
          BY <4>1, <4>2
      <3>5. QED
        BY <3>3, <3>4
    <2>8. QED
      BY <2>3, <2>4, <2>5, <2>6, <2>7 DEF AloneIInv
  <1>4. QED
    BY <1>2, <1>3 DEF MeasureIInv

\* A target is created: nothing was compared with it yet.
LEMMA CreateTargetInv ==
  ASSUME MeasureIInv, ConsumerIInv', NEW t \in Targets, CreateTarget(t)
  PROVE  MeasureIInv'
  <1> DEFINE row == [target[t] EXCEPT !.status = "ACTIVE"]
  <1>1. /\ target' = [target EXCEPT ![t] = row] /\ target[t].status = "NONE"
        /\ UNCHANGED <<consumerVars, named, rows, tx, dash, counted, unnamed, judged, crossed>>
        /\ edited' = edited
    BY DEF CreateTarget, observed
  <1>2. /\ row \in TargetRecord /\ row.status = "ACTIVE" /\ row.dealer = target[t].dealer
        /\ row.spec = target[t].spec /\ row.goal = target[t].goal
        /\ row.from = target[t].from /\ row.to = target[t].to
    BY DEF MeasureIInv, MeasureTypeOK, TargetRecord, TargetStatuses
  <1> HIDE DEF row
  <1>3. target'[t] = row
    BY <1>1 DEF MeasureIInv, MeasureTypeOK
  <1>4. ASSUME ~crossed, t \notin edited PROVE StatusOK(t)'
    <2>1. \A m \in Months : <<t, m>> \notin judged
      BY <1>1, <1>4 DEF MeasureIInv, AloneIInv, TargetsOK, StatusOK
    <2>2. QED
      BY <1>1, <1>2, <1>3, <2>1 DEF StatusOK, Reached
  <1>5. ASSUME ~crossed, t \notin edited, NEW v \in Workers, tx[v].step # "idle"
        PROVE  NewsOK(v, t)'
    <2>1. NewsOK(v, t)
      BY <1>5 DEF MeasureIInv, AloneIInv, TxsOK
    <2>2. \A m \in Months : <<t, m>> \notin judged /\ <<t, m>> \notin tx[v].judging
      BY <1>1, <1>4, <1>5, <2>1 DEF MeasureIInv, AloneIInv, TargetsOK, StatusOK, NewsOK
    <2>3. EventOf(v).month \in Months
      BY <1>5, SaleInHand DEF MeasureIInv, OpenInv
    <2>4. EventOf(v)' = EventOf(v)
      BY <1>1 DEF EventOf, consumerVars
    <2>5. tx' = tx /\ judged' = judged
      BY <1>1
    <2>6. QED
      BY <2>1, <2>2, <2>3, <2>4, <2>5 DEF NewsOK
  <1>6. edited \subseteq edited' /\ edited' \subseteq Targets
    BY <1>1 DEF MeasureIInv, MeasureTypeOK
  <1>7. QED
    BY <1>1, <1>2, <1>4, <1>5, <1>6, TargetStepInv

\* A target is patched, and from then on excepted.
LEMMA PatchTargetInv ==
  ASSUME MeasureIInv, ConsumerIInv', NEW t \in Targets, NEW patch \in TargetPatches,
         PatchTarget(t, patch)
  PROVE  MeasureIInv'
  <1>1. Patched(target[t], patch) \in TargetRecord
    <2> DEFINE Given(f, old) == IF f \in DOMAIN patch THEN patch[f] ELSE old
    <2>1. target[t] \in TargetRecord
      BY DEF MeasureIInv, MeasureTypeOK
    <2>2. /\ target[t].goal \in Nat /\ target[t].from \in Months /\ target[t].to \in Months
          /\ target[t].status \in TargetStatuses \cup {"NONE"}
      BY <2>1 DEF TargetRecord
    <2>3. /\ Given("goal", target[t].goal) \in Nat
          /\ Given("from", target[t].from) \in Months /\ Given("to", target[t].to) \in Months
          /\ Given("status", target[t].status) \in TargetStatuses \cup {"NONE"}
      BY <2>2, PerformanceAssumption DEF PerformanceAssumption
    <2>4. Patched(target[t], patch)
            = [target[t] EXCEPT !.goal = Given("goal", @), !.from = Given("from", @),
                                !.to = Given("to", @), !.status = Given("status", @)]
      BY DEF Patched
    <2> HIDE DEF Given
    <2>5. QED
      BY <2>1, <2>3, <2>4 DEF TargetRecord
  <1>2. /\ target' = [target EXCEPT ![t] = Patched(target[t], patch)]
        /\ edited' = edited \cup {t}
        /\ UNCHANGED <<consumerVars, named, rows, tx, dash, counted, unnamed, judged, crossed>>
    BY DEF PatchTarget
  <1>3. edited \subseteq edited' /\ edited' \subseteq Targets /\ t \in edited'
    BY <1>2 DEF MeasureIInv, MeasureTypeOK
  <1>4. QED
    BY <1>1, <1>2, <1>3, TargetStepInv

-----------------------------------------------------------------------------
(* The statements of a transaction.                                         *)

\* What is known of an open transaction.
LEMMA OpenFacts ==
  ASSUME MeasureIInv, NEW w \in Workers, tx[w].step # "idle"
  PROVE  /\ task[w].phase = "handling" /\ tx[w] \in TxRecord
         /\ InHand(w) \in SaleEvents /\ EventOf(w) = SaleAt(InHand(w))
         /\ EventOf(w).dealer \in Dealers /\ EventOf(w).month \in Months
         /\ EventOf(w).amount \in [Kpis -> Nat]
         /\ ~crossed => /\ WritesOK(w) /\ \A t \in Targets \ edited : NewsOK(w, t)
                        /\ \A v \in Workers : v # w /\ tx[v] # NoTx
                                              => EventOf(v).dealer # EventOf(w).dealer
  <1>1. task[w].phase = "handling" /\ tx[w] \in TxRecord
    BY DEF MeasureIInv, OpenInv, MeasureTypeOK
  <1>2. tx[w] # NoTx
    BY NoTxType
  <1>3. ~crossed => /\ WritesOK(w) /\ \A t \in Targets \ edited : NewsOK(w, t)
                    /\ \A v \in Workers : v # w /\ tx[v] # NoTx
                                          => EventOf(v).dealer # EventOf(w).dealer
    BY <1>2 DEF MeasureIInv, AloneIInv, TxsOK, AloneOpen
  <1>4. QED
    BY <1>1, <1>3, SaleInHand DEF MeasureIInv

\* The KPI in turn is one of those to do, and has a specification.
LEMMA KpiInTurn ==
  ASSUME MeasureIInv, NEW w \in Workers, tx[w].todo # {}
  PROVE  /\ Kpi(w) \in tx[w].todo /\ Kpi(w) \in Kpis
         /\ tx[w].todo \subseteq Measured(tx[w].spec) /\ Kpi(w) \in Measured(tx[w].spec)
         /\ SpecInTurn(w) \in Specs /\ SpecInTurn(w) = tx[w].spec[Kpi(w)]
  <1>1. /\ tx[w].todo \subseteq Kpis /\ tx[w].todo \subseteq Measured(tx[w].spec)
        /\ tx[w].spec \in [Kpis -> Specs \cup {None}]
    BY DEF MeasureIInv, MeasureTypeOK, TxRecord, TxShape
  <1>2. Kpi(w) \in tx[w].todo
    BY <1>1 DEF Kpi, FirstKpi, Kpis
  <1>3. QED
    BY <1>1, <1>2 DEF SpecInTurn, Measured

\* Going on with the measurements, or to the targets.
LEMMA MeasuringEffect ==
  ASSUME NEW j \in TxShape, NEW todo \in SUBSET Measured(j.spec), NEW u, u = Measuring(j, todo)
  PROVE  /\ u \in TxRecord
         /\ IF todo = {} THEN u.step = "check" /\ u.todo = Measured(j.spec)
                         ELSE u.step = "measure" /\ u.todo = todo
         /\ u.spec = j.spec /\ u.row = j.row /\ u.seen = j.seen /\ u.new = j.new
         /\ u.sum = j.sum /\ u.judging = j.judging /\ u.found = j.found /\ u.sets = j.sets
  <1>1. Measured(j.spec) \subseteq Kpis
    BY DEF Measured
  <1>2. CASE todo = {}
    <2>1. u = [j EXCEPT !.step = "check", !.todo = Measured(j.spec)]
      BY <1>2 DEF Measuring
    <2>2. /\ u \in TxShape /\ u.step = "check" /\ u.todo = Measured(j.spec)
          /\ u.spec = j.spec /\ u.row = j.row /\ u.seen = j.seen /\ u.new = j.new
          /\ u.sum = j.sum /\ u.judging = j.judging /\ u.found = j.found /\ u.sets = j.sets
      BY <1>1, <2>1 DEF TxShape, TxSteps
    <2>3. QED
      BY <1>2, <2>2 DEF TxRecord
  <1>3. CASE todo # {}
    <2>1. u = [j EXCEPT !.step = "measure", !.todo = todo]
      BY <1>3 DEF Measuring
    <2>2. /\ u \in TxShape /\ u.step = "measure" /\ u.todo = todo
          /\ u.spec = j.spec /\ u.row = j.row /\ u.seen = j.seen /\ u.new = j.new
          /\ u.sum = j.sum /\ u.judging = j.judging /\ u.found = j.found /\ u.sets = j.sets
      BY <1>1, <2>1 DEF TxShape, TxSteps
    <2>3. QED
      BY <1>3, <2>2 DEF TxRecord
  <1>4. QED
    BY <1>2, <1>3

\* An open transaction goes on.
LEMMA GoesInv ==
  ASSUME MeasureIInv, ConsumerIInv', NEW w \in Workers, NEW j \in TxRecord,
         tx[w].step # "idle", j.step # "idle", TxGoes(w, j),
         ~crossed => WritesOK(w)' /\ \A t \in Targets \ edited : NewsOK(w, t)'
  PROVE  MeasureIInv'
  <1>1. /\ tx' = [tx EXCEPT ![w] = j] /\ UNCHANGED <<tables, dash, observed>>
        /\ handled' = handled /\ task' = task /\ crossed' = crossed
    BY DEF TxGoes, consumerVars
  <1>2. /\ task'[w].phase = "handling" /\ EventOf(w)' = EventOf(w)
        /\ ~crossed => \A v \in Workers : v # w /\ tx[v] # NoTx
                                          => EventOf(v).dealer # EventOf(w).dealer
    BY <1>1, OpenFacts DEF EventOf
  <1>3. crossed' \in BOOLEAN
    BY <1>1 DEF MeasureIInv, MeasureTypeOK
  <1>4. QED
    BY <1>1, <1>2, <1>3, TxStepInv

\* Nothing but the transaction's own record changes of what is said of it.
LEMMA GoesKeeps ==
  ASSUME MeasureIInv, NEW w \in Workers, NEW j, TxGoes(w, j), j.spec = tx[w].spec
  PROVE  /\ tx'[w] = j /\ EventOf(w)' = EventOf(w) /\ Stored' = Stored
         /\ judged' = judged /\ target' = target /\ rows' = rows
         /\ \A r, k : /\ RowFor(w, r, k)' <=> RowFor(w, r, k)
                      /\ Plus(w, r, k)' = Plus(w, r, k)
         /\ \A t, k : InScope(w, t, k)' <=> InScope(w, t, k)
  <1>1. /\ tx'[w] = j /\ task' = task
        /\ judged' = judged /\ target' = target /\ rows' = rows
    BY DEF TxGoes, MeasureIInv, MeasureTypeOK, consumerVars, tables, observed
  <1>2. EventOf(w)' = EventOf(w) /\ InHand(w)' = InHand(w) /\ Stored' = Stored
    BY <1>1 DEF EventOf, InHand, Stored
  <1>3. QED
    BY <1>1, <1>2 DEF RowFor, Plus, InScope

\* The specifications are resolved: each KPI has its own.
LEMMA ResolveSpecsInv ==
  ASSUME MeasureIInv, ConsumerIInv', NEW w \in Workers, ResolveSpecs(w)
  PROVE  MeasureIInv'
  <1>1. PICK f \in [Kpis -> Specs \cup {None}] :
          /\ \A k \in Kpis : LET called == {s \in Specs : named[s] = k} IN
                               f[k] \in IF called = {} THEN {None} ELSE called
          /\ tx' = [tx EXCEPT ![w] = Measuring([NoTx EXCEPT !.spec = f], Measured(f))]
    BY DEF ResolveSpecs
  <1> DEFINE i == [NoTx EXCEPT !.spec = f]
             j == Measuring(i, Measured(f))
  <1>2. /\ i \in TxShape /\ i.spec = f /\ i.new = [r \in RowIds |-> NoRow] /\ i.judging = {}
        /\ i.found = NoNews /\ i.sets = NoNews
    BY NoTxType DEF TxRecord, TxShape, NoTx
  <1>3. Measured(f) \in SUBSET Measured(i.spec) /\ j = Measuring(i, Measured(f))
    BY <1>2
  <1>4. tx' = [tx EXCEPT ![w] = j]
    BY <1>1
  <1> HIDE DEF j, i
  <1>5. /\ j \in TxRecord /\ j.todo = Measured(f) /\ j.spec = f
        /\ j.step = IF Measured(f) = {} THEN "check" ELSE "measure"
        /\ j.new = [r \in RowIds |-> NoRow] /\ j.judging = {} /\ j.found = NoNews /\ j.sets = NoNews
    BY <1>2, <1>3, MeasuringEffect
  <1>6. \A k, l \in Measured(f) : f[k] = f[l] => k = l
    BY <1>1 DEF Measured
  <1>7. tx'[w] = j
    BY <1>4 DEF MeasureIInv, MeasureTypeOK
  <1>8. /\ \A k \in Kpis : ~Written(w, k)' /\ ~Compared(w, k)'
        /\ \A r \in RowIds : tx'[w].new[r] = NoRow
    BY <1>5, <1>7 DEF Written, Compared, Measured
  <1>9. WritesOK(w)'
    BY <1>5, <1>6, <1>7, <1>8 DEF WritesOK
  <1>10. \A t \in Targets : NewsOK(w, t)'
    BY <1>5, <1>7, <1>8 DEF NewsOK, NoNews
  <1>11. /\ task[w].phase = "handling" /\ UNCHANGED <<tables, dash, observed>>
         /\ handled' = handled /\ task' = task
         /\ crossed' = (crossed \/ \E v \in Workers \ {w} :
                           tx[v] # NoTx /\ EventOf(v).dealer = EventOf(w).dealer)
         /\ EventOf(w)' = EventOf(w)
    BY DEF ResolveSpecs, consumerVars, EventOf
  <1>12. /\ crossed' \in BOOLEAN /\ (crossed => crossed')
         /\ ~crossed' => \A v \in Workers : v # w /\ tx[v] # NoTx
                                            => EventOf(v).dealer # EventOf(w)'.dealer
    BY <1>11 DEF MeasureIInv, MeasureTypeOK
  <1>13. j.step # "idle"
    BY <1>5
  <1>14. QED
    BY <1>5, <1>4, <1>9, <1>10, <1>11, <1>12, <1>13, TxStepInv

\* The row is read that the sale belongs to, or a new one is taken.
LEMMA ReadMeasurementInv ==
  ASSUME MeasureIInv, ConsumerIInv', NEW w \in Workers, ReadMeasurement(w)
  PROVE  MeasureIInv'
  <1>1. PICK r \in IF Matching(w) = {} THEN {NewRow(w)} ELSE Matching(w) :
          /\ Matching(w) \subseteq {r}
          /\ TxGoes(w, [tx[w] EXCEPT !.step = "write", !.row = r, !.seen = rows[r]])
    BY DEF ReadMeasurement
  <1> DEFINE j == [tx[w] EXCEPT !.step = "write", !.row = r, !.seen = rows[r]]
  <1>2. tx[w].step = "measure"
    BY DEF ReadMeasurement
  <1>3. /\ tx[w] \in TxRecord /\ tx[w].todo # {}
        /\ EventOf(w).dealer \in Dealers /\ EventOf(w).month \in Months
    BY <1>2, OpenFacts DEF TxRecord
  <1>4. Kpi(w) \in Kpis /\ SpecInTurn(w) \in Specs /\ SpecInTurn(w) = tx[w].spec[Kpi(w)]
    BY <1>3, KpiInTurn
  <1>5. RowFor(w, r, Kpi(w))
    <2>1. CASE Matching(w) = {}
      <3>1. r = NewRow(w)
        BY <1>1, <2>1
      <3>2. r \in RowIds /\ r.dealer = EventOf(w).dealer /\ r.month = EventOf(w).month
            /\ r.spec = SpecInTurn(w) /\ r.by = w
        BY <1>3, <1>4, <3>1 DEF NewRow, RowIds, Month
      <3>3. \A q \in Stored : ~Alike(q, r)
        BY <2>1, <3>2 DEF Matching, RowsOf, Alike, Month
      <3>4. QED
        BY <1>4, <3>2, <3>3 DEF RowFor
    <2>2. CASE Matching(w) # {}
      <3>1. r \in Stored /\ r.dealer = EventOf(w).dealer /\ r.month = EventOf(w).month
            /\ r.spec = SpecInTurn(w)
        BY <1>1, <2>2 DEF Matching, RowsOf, Month
      <3>2. \A q \in Stored : Alike(q, r) => q = r
        BY <1>1, <3>1 DEF Matching, RowsOf, Alike, Month
      <3>3. QED
        BY <1>4, <3>1, <3>2 DEF RowFor, Stored
    <2>3. QED
      BY <2>1, <2>2
  <1>6. r \in RowIds /\ rows[r] \in RowRecord
    BY <1>5 DEF RowFor, MeasureIInv, MeasureTypeOK
  <1>7. /\ j \in TxRecord /\ j.step = "write" /\ j.spec = tx[w].spec /\ j.todo = tx[w].todo
        /\ j.row = r /\ j.seen = rows[r] /\ j.new = tx[w].new /\ j.sum = tx[w].sum
        /\ j.judging = tx[w].judging /\ j.found = tx[w].found /\ j.sets = tx[w].sets
    BY <1>3, <1>6 DEF TxRecord, TxShape, TxSteps
  <1>8. TxGoes(w, j)
    BY <1>1
  <1> HIDE DEF j
  <1>9. ASSUME ~crossed PROVE WritesOK(w)' /\ \A t \in Targets \ edited : NewsOK(w, t)'
    <2>1. WritesOK(w) /\ \A t \in Targets \ edited : NewsOK(w, t)
      BY <1>2, <1>9, OpenFacts
    <2>2. /\ tx'[w] = j /\ EventOf(w)' = EventOf(w) /\ Stored' = Stored
          /\ judged' = judged /\ target' = target /\ rows' = rows
      BY <1>7, <1>8, GoesKeeps
    <2>3. \A q, k : /\ RowFor(w, q, k)' <=> RowFor(w, q, k)
                    /\ Plus(w, q, k)' = Plus(w, q, k)
      BY <1>7, <1>8, GoesKeeps
    <2>4. \A t, k : InScope(w, t, k)' <=> InScope(w, t, k)
      BY <1>7, <1>8, GoesKeeps
    <2>5. /\ \A k : Written(w, k)' <=> Written(w, k)
          /\ \A k : ~Compared(w, k)' /\ ~Compared(w, k)
          /\ Kpi(w)' = Kpi(w)
      BY <1>2, <1>7, <2>2 DEF Written, Compared, Measured, Kpi
    <2>6. WritesOK(w)'
      BY <1>5, <1>7, <2>1, <2>2, <2>3, <2>5 DEF WritesOK
    <2>7. \A t \in Targets \ edited : NewsOK(w, t)'
      BY <1>2, <1>7, <2>1, <2>2, <2>4, <2>5 DEF NewsOK
    <2>8. QED
      BY <2>6, <2>7
  <1>10. QED
    BY <1>2, <1>7, <1>8, <1>9, GoesInv

\* The sale is added to the row that was read.
LEMMA WriteMeasurementInv ==
  ASSUME MeasureIInv, ConsumerIInv', NEW w \in Workers, WriteMeasurement(w)
  PROVE  MeasureIInv'
  <1> DEFINE K == Kpi(w)
             r0 == tx[w].row
             i == TxWritten(w)
             rest == tx[w].todo \ {K}
             j == Measuring(i, rest)
  <1>1. tx[w].step = "write" /\ TxGoes(w, j)
    BY DEF WriteMeasurement
  <1>2. /\ tx[w] \in TxRecord /\ tx[w] \in TxShape /\ tx[w].todo # {} /\ r0 \in RowIds
        /\ InHand(w) \in SaleEvents /\ EventOf(w).amount \in [Kpis -> Nat]
    BY <1>1, OpenFacts DEF TxRecord
  <1>3. K \in tx[w].todo /\ K \in Kpis /\ K \in Measured(tx[w].spec)
        /\ tx[w].todo \subseteq Measured(tx[w].spec)
    BY <1>2, KpiInTurn
  <1>4. Upserted(w) \in RowRecord
    <2>1. tx[w].seen.value \in Nat /\ tx[w].seen.sources \subseteq SaleEvents
      BY <1>2 DEF TxShape, RowRecord
    <2>2. EventOf(w).amount[K] \in Nat
      BY <1>2, <1>3
    <2>3. /\ Upserted(w).value = tx[w].seen.value + EventOf(w).amount[K]
          /\ Upserted(w).sources = tx[w].seen.sources \cup {InHand(w)}
          /\ Upserted(w) = [value |-> Upserted(w).value, sources |-> Upserted(w).sources]
      BY DEF Upserted
    <2>4. Upserted(w).value \in Nat
      BY <2>1, <2>2, <2>3
    <2>5. Upserted(w).sources \in SUBSET SaleEvents /\ Upserted(w).sources # {}
      BY <1>2, <2>1, <2>3
    <2>6. QED
      BY <2>3, <2>4, <2>5 DEF RowRecord
  <1>5. /\ i \in TxShape /\ i.spec = tx[w].spec
        /\ i.new = [tx[w].new EXCEPT ![r0] = Upserted(w)]
        /\ i.sum = [tx[w].sum EXCEPT ![K] = Upserted(w).value]
        /\ i.judging = tx[w].judging /\ i.found = tx[w].found /\ i.sets = tx[w].sets
    <2>1. Upserted(w).value \in Nat /\ NoRow \in RowRecord
      BY <1>4, NoTxType DEF RowRecord
    <2>2. /\ [tx[w].new EXCEPT ![r0] = Upserted(w)] \in [RowIds -> RowRecord]
          /\ [tx[w].sum EXCEPT ![K] = Upserted(w).value] \in [Kpis -> Nat]
      BY <1>2, <1>4, <2>1 DEF TxShape
    <2>3. i = [tx[w] EXCEPT !.row = None, !.seen = NoRow,
                            !.new = [tx[w].new EXCEPT ![r0] = Upserted(w)],
                            !.sum = [tx[w].sum EXCEPT ![K] = Upserted(w).value]]
      BY <1>2 DEF TxWritten, TxShape
    <2>4. QED
      BY <1>2, <2>1, <2>2, <2>3 DEF TxShape
  <1>6. rest \in SUBSET Measured(i.spec) /\ j = Measuring(i, rest)
    BY <1>3, <1>5
  <1> HIDE DEF i, j
  <1>7. /\ j \in TxRecord
        /\ IF rest = {} THEN j.step = "check" /\ j.todo = Measured(tx[w].spec)
                        ELSE j.step = "measure" /\ j.todo = rest
        /\ j.spec = tx[w].spec /\ j.new = [tx[w].new EXCEPT ![r0] = Upserted(w)]
        /\ j.sum = [tx[w].sum EXCEPT ![K] = Upserted(w).value]
        /\ j.judging = tx[w].judging /\ j.found = tx[w].found /\ j.sets = tx[w].sets
    BY <1>5, <1>6, MeasuringEffect
  <1>8. ASSUME ~crossed PROVE WritesOK(w)' /\ \A t \in Targets \ edited : NewsOK(w, t)'
    <2>1. WritesOK(w) /\ \A t \in Targets \ edited : NewsOK(w, t)
      BY <1>1, <1>8, OpenFacts
    <2>2. /\ tx'[w] = j /\ EventOf(w)' = EventOf(w) /\ judged' = judged /\ target' = target
      BY <1>1, <1>7, GoesKeeps
    <2>3. \A q, k : /\ RowFor(w, q, k)' <=> RowFor(w, q, k)
                    /\ Plus(w, q, k)' = Plus(w, q, k)
      BY <1>1, <1>7, GoesKeeps
    <2>4. /\ \A k : Written(w, k)' <=> Written(w, k) \/ k = K
          /\ ~Written(w, K)
      BY <1>1, <1>3, <1>7, <2>2 DEF Written, Measured
    <2>5. \A k : ~Compared(w, k)' /\ ~Compared(w, k)
      BY <1>1, <1>7, <2>2 DEF Compared, Measured
    <2>6. RowFor(w, r0, K) /\ Upserted(w) = Plus(w, r0, K)
      BY <1>1, <2>1 DEF WritesOK, Upserted, Plus
    <2>7. \A k \in Kpis : Written(w, k)' =>
            \E r \in RowIds : /\ RowFor(w, r, k) /\ j.new[r] = Plus(w, r, k)
                              /\ j.sum[k] = Plus(w, r, k).value
      <3> SUFFICES ASSUME NEW k \in Kpis, Written(w, k)'
                   PROVE  \E r \in RowIds : /\ RowFor(w, r, k) /\ j.new[r] = Plus(w, r, k)
                                            /\ j.sum[k] = Plus(w, r, k).value
        OBVIOUS
      <3>1. CASE k = K
        BY <1>2, <1>3, <1>7, <2>6, <3>1 DEF TxShape
      <3>2. CASE k # K
        <4>1. Written(w, k)
          BY <2>4, <3>2
        <4>2. PICK r \in RowIds : /\ RowFor(w, r, k) /\ tx[w].new[r] = Plus(w, r, k)
                                  /\ tx[w].sum[k] = Plus(w, r, k).value
          BY <2>1, <4>1 DEF WritesOK
        <4>3. r # r0
          BY <1>3, <2>1, <2>6, <3>2, <4>1, <4>2 DEF RowFor, WritesOK, Written
        <4>4. QED
          BY <1>2, <1>3, <1>7, <3>2, <4>2, <4>3 DEF TxShape
      <3>3. QED
        BY <3>1, <3>2
    <2>8. ASSUME NEW r \in RowIds, j.new[r] # NoRow
          PROVE  \E k \in Kpis : Written(w, k)' /\ RowFor(w, r, k)
      <3>1. CASE r = r0
        BY <1>3, <2>4, <2>6, <3>1
      <3>2. CASE r # r0
        BY <1>2, <1>7, <2>1, <2>4, <2>8, <3>2 DEF WritesOK, TxShape
      <3>3. QED
        BY <3>1, <3>2
    <2>9. WritesOK(w)'
      <3>1. \A k, l \in Measured(j.spec) : j.spec[k] = j.spec[l] => k = l
        BY <1>7, <2>1 DEF WritesOK
      <3>2. j.step # "write"
        BY <1>7
      <3>3. QED
        BY <2>2, <2>3, <2>7, <2>8, <3>1, <3>2 DEF WritesOK
    <2>10. \A t \in Targets \ edited : NewsOK(w, t)'
      <3> SUFFICES ASSUME NEW t \in Targets \ edited PROVE NewsOK(w, t)'
        OBVIOUS
      <3>1. NewsOK(w, t) /\ tx[w].step # "set"
        BY <1>1, <2>1
      <3>2. /\ tx[w].found[t] = "ACTIVE" /\ tx[w].sets[t] \in {"ACTIVE", "ACHIEVED"}
            /\ \A m \in Months : <<t, m>> \notin tx[w].judging
            /\ tx[w].sets[t] = "ACHIEVED" => <<t, EventOf(w).month>> \in tx[w].judging
        BY <2>5, <3>1 DEF NewsOK
      <3>3. QED
        BY <1>7, <2>2, <2>5, <3>2 DEF NewsOK
    <2>11. QED
      BY <2>9, <2>10
  <1>9. j.step # "idle"
    BY <1>7
  <1>10. QED
    BY <1>1, <1>7, <1>8, <1>9, GoesInv

\* The targets of a KPI are compared with what was written of it.
LEMMA CheckTargetsInv ==
  ASSUME MeasureIInv, ConsumerIInv', NEW w \in Workers, CheckTargets(w)
  PROVE  MeasureIInv'
  <1> DEFINE K == Kpi(w)
             m == EventOf(w).month
             new == [t \in Targets |-> IF t \in ActiveTargets(w)
                                       THEN Evaluation(t, ValueWritten(w), Month(w)) ELSE "ACTIVE"]
             more == {<<t, Month(w)>> : t \in ActiveTargets(w)}
             j == [tx[w] EXCEPT !.step = "set", !.found = new, !.judging = @ \cup more]
  <1>1. tx[w].step = "check" /\ tx[w].todo # {} /\ TxGoes(w, j)
    BY DEF CheckTargets
  <1>2. tx[w] \in TxRecord /\ tx[w] \in TxShape /\ m \in Months
    BY <1>1, OpenFacts DEF TxRecord
  <1>3. /\ K \in tx[w].todo /\ K \in Kpis /\ K \in Measured(tx[w].spec)
        /\ SpecInTurn(w) = tx[w].spec[K]
    BY <1>1, KpiInTurn
  <1>4. more \subseteq Targets \X Months /\ new \in [Targets -> TargetStatuses]
    BY <1>2 DEF ActiveTargets, Month, Evaluation, TargetStatuses
  <1>5. \A t \in Targets : /\ t \in ActiveTargets(w)
                                <=> InScope(w, t, K) /\ target[t].status = "ACTIVE"
                           /\ \A n : <<t, n>> \in more <=> t \in ActiveTargets(w) /\ n = m
    BY <1>3 DEF ActiveTargets, InScope, Month
  <1>6. \A t \in Targets :
          new[t] = IF t \in ActiveTargets(w) /\ tx[w].sum[K] >= target[t].goal
                   THEN "ACHIEVED" ELSE "ACTIVE"
    <2> SUFFICES ASSUME NEW t \in Targets
                 PROVE  new[t] = IF t \in ActiveTargets(w) /\ tx[w].sum[K] >= target[t].goal
                                 THEN "ACHIEVED" ELSE "ACTIVE"
      OBVIOUS
    <2>1. target[t].to \in Nat /\ m \in Nat
      BY <1>2, PerformanceAssumption
      DEF MeasureIInv, MeasureTypeOK, TargetRecord, PerformanceAssumption
    <2>2. t \in ActiveTargets(w) => ~(Month(w) > target[t].to)
      BY <2>1 DEF ActiveTargets, Month
    <2>3. QED
      BY <2>2 DEF Evaluation, ValueWritten
  <1> HIDE DEF new, more
  <1>7. /\ j \in TxRecord /\ j.step = "set" /\ j.spec = tx[w].spec /\ j.todo = tx[w].todo
        /\ j.new = tx[w].new /\ j.sum = tx[w].sum
        /\ j.judging = tx[w].judging \cup more /\ j.found = new /\ j.sets = tx[w].sets
    BY <1>1, <1>2, <1>4 DEF TxRecord, TxShape, TxSteps
  <1> HIDE DEF j
  <1>8. ASSUME ~crossed PROVE WritesOK(w)' /\ \A t \in Targets \ edited : NewsOK(w, t)'
    <2>1. WritesOK(w) /\ \A t \in Targets \ edited : NewsOK(w, t)
      BY <1>1, <1>8, OpenFacts
    <2>2. /\ tx'[w] = j /\ EventOf(w)' = EventOf(w) /\ judged' = judged /\ target' = target
      BY <1>1, <1>7, GoesKeeps
    <2>3. \A q, k : /\ RowFor(w, q, k)' <=> RowFor(w, q, k)
                    /\ Plus(w, q, k)' = Plus(w, q, k)
      BY <1>1, <1>7, GoesKeeps
    <2>4. \A t, k : InScope(w, t, k)' <=> InScope(w, t, k)
      BY <1>1, <1>7, GoesKeeps
    <2>5. \A k : Written(w, k)' <=> Written(w, k)
      BY <1>1, <1>7, <2>2 DEF Written, Measured
    <2>6. /\ \A k : Compared(w, k)' <=> Compared(w, k) \/ k = K
          /\ ~Compared(w, K) /\ \A k : Compared(w, k) => k \in Measured(tx[w].spec)
      BY <1>1, <1>3, <1>7, <2>2 DEF Compared, Measured, Kpi
    <2>7. WritesOK(w)'
      BY <1>7, <2>1, <2>2, <2>3, <2>5 DEF WritesOK
    <2>8. ASSUME NEW t \in Targets \ edited PROVE NewsOK(w, t)'
      <3>1. NewsOK(w, t) /\ tx[w].found[t] = "ACTIVE"
        BY <1>1, <2>1 DEF NewsOK
      <3>2. CASE t \in ActiveTargets(w)
        <4>1. \A n \in Months : <<t, n>> \notin tx[w].judging
          <5> SUFFICES ASSUME NEW n \in Months, <<t, n>> \in tx[w].judging PROVE FALSE
            OBVIOUS
          <5>1. PICK k \in Kpis : Compared(w, k) /\ InScope(w, t, k)
            BY <3>1 DEF NewsOK
          <5>2. InScope(w, t, K)
            BY <1>5, <3>2
          <5>3. k = K
            BY <1>3, <2>1, <2>6, <5>1, <5>2 DEF InScope, WritesOK
          <5>4. QED
            BY <2>6, <5>1, <5>3
        <4>2. tx[w].sets[t] = "ACTIVE"
          BY <1>2, <3>1, <4>1 DEF NewsOK
        <4>3. /\ \A n \in Months : <<t, n>> \in j.judging <=> n = m
              /\ j.sets[t] = "ACTIVE" /\ j.found[t] \in {"ACTIVE", "ACHIEVED"}
              /\ j.found[t] = "ACHIEVED" <=> j.sum[K] >= target[t].goal
          BY <1>5, <1>6, <1>7, <3>2, <4>1, <4>2
        <4>4. PICK k \in Kpis : k = K /\ Compared(w, k)' /\ InScope(w, t, k)'
          BY <1>3, <1>5, <2>4, <2>6, <3>2
        <4>5. target'[t].status = "ACTIVE"
          BY <1>5, <2>2, <3>2
        <4>6. <<t, m>> \in j.judging /\ EventOf(w).month = m
          BY <1>2, <4>3
        <4>7. QED
          BY <1>2, <1>7, <2>2, <4>3, <4>4, <4>5, <4>6 DEF NewsOK
      <3>3. CASE t \notin ActiveTargets(w)
        <4>1. /\ \A n : <<t, n>> \in j.judging <=> <<t, n>> \in tx[w].judging
              /\ j.found[t] = tx[w].found[t] /\ j.sets[t] = tx[w].sets[t]
          BY <1>5, <1>6, <1>7, <3>1, <3>3
        <4>2. \A k : Compared(w, k)' /\ InScope(w, t, k)' /\ target[t].status = "ACTIVE"
                       => Compared(w, k)
          BY <1>5, <2>4, <2>6, <3>3
        <4>3. QED
          BY <1>7, <2>2, <2>4, <2>6, <3>1, <4>1, <4>2 DEF NewsOK
      <3>4. QED
        BY <3>2, <3>3
    <2>9. QED
      BY <2>7, <2>8
  <1>9. j.step # "idle" /\ tx[w].step # "idle"
    BY <1>1, <1>7
  <1>10. QED
    BY <1>1, <1>7, <1>8, <1>9, GoesInv

\* What was found is set.
LEMMA SetTargetsInv ==
  ASSUME MeasureIInv, ConsumerIInv', NEW w \in Workers, SetTargets(w)
  PROVE  MeasureIInv'
  <1> DEFINE K == Kpi(w)
             new == [t \in Targets |-> IF tx[w].found[t] = "ACTIVE" THEN tx[w].sets[t]
                                       ELSE tx[w].found[t]]
             j == [tx[w] EXCEPT !.step = "check", !.todo = @ \ {Kpi(w)}, !.found = NoNews,
                                !.sets = new]
  <1>1. tx[w].step = "set"
    BY DEF SetTargets
  <1>2. tx[w] \in TxRecord /\ tx[w] \in TxShape /\ tx[w].todo # {}
    BY <1>1, OpenFacts DEF TxRecord
  <1>3. K \in tx[w].todo /\ tx[w].todo \subseteq Measured(tx[w].spec)
    BY <1>2, KpiInTurn
  <1>4. TxGoes(w, j)
    BY <1>2 DEF SetTargets, TxShape
  <1>5. new \in [Targets -> TargetStatuses] /\ NoNews \in [Targets -> TargetStatuses]
    BY <1>2 DEF TxShape, NoNews, TargetStatuses
  <1>6. \A t \in Targets : new[t] = IF tx[w].found[t] = "ACTIVE" THEN tx[w].sets[t]
                                    ELSE tx[w].found[t]
    OBVIOUS
  <1> HIDE DEF new
  <1>7. /\ j \in TxRecord /\ j.step = "check" /\ j.spec = tx[w].spec
        /\ j.todo = tx[w].todo \ {K} /\ j.new = tx[w].new /\ j.sum = tx[w].sum
        /\ j.judging = tx[w].judging /\ j.found = NoNews /\ j.sets = new
    BY <1>2, <1>3, <1>5 DEF TxRecord, TxShape, TxSteps
  <1> HIDE DEF j
  <1>8. ASSUME ~crossed PROVE WritesOK(w)' /\ \A t \in Targets \ edited : NewsOK(w, t)'
    <2>1. WritesOK(w) /\ \A t \in Targets \ edited : NewsOK(w, t)
      BY <1>1, <1>8, OpenFacts
    <2>2. /\ tx'[w] = j /\ EventOf(w)' = EventOf(w) /\ judged' = judged /\ target' = target
      BY <1>4, <1>7, GoesKeeps
    <2>3. \A q, k : /\ RowFor(w, q, k)' <=> RowFor(w, q, k)
                    /\ Plus(w, q, k)' = Plus(w, q, k)
      BY <1>4, <1>7, GoesKeeps
    <2>4. \A t, k : InScope(w, t, k)' <=> InScope(w, t, k)
      BY <1>4, <1>7, GoesKeeps
    <2>5. /\ \A k : Written(w, k)' <=> Written(w, k)
          /\ \A k : Compared(w, k)' <=> Compared(w, k)
      BY <1>1, <1>3, <1>7, <2>2 DEF Written, Compared, Measured
    <2>6. WritesOK(w)'
      BY <1>7, <2>1, <2>2, <2>3, <2>5 DEF WritesOK
    <2>7. ASSUME NEW t \in Targets \ edited PROVE NewsOK(w, t)'
      <3>1. NewsOK(w, t)
        BY <2>1
      <3>2. /\ j.found[t] = "ACTIVE" /\ j.sets[t] \in {"ACTIVE", "ACHIEVED"}
            /\ j.found[t] = "ACHIEVED" \/ j.sets[t] = "ACHIEVED"
                 <=> tx[w].found[t] = "ACHIEVED" \/ tx[w].sets[t] = "ACHIEVED"
        BY <1>6, <1>7, <3>1 DEF NewsOK, NoNews
      <3>3. QED
        BY <1>7, <2>2, <2>4, <2>5, <3>1, <3>2 DEF NewsOK
    <2>8. QED
      BY <2>6, <2>7
  <1>9. j.step # "idle" /\ tx[w].step # "idle"
    BY <1>1, <1>7
  <1>10. QED
    BY <1>4, <1>7, <1>8, <1>9, GoesInv

-----------------------------------------------------------------------------
(* The commit.                                                              *)

\* There is one row a KPI of the sale in hand goes to.
LEMMA RowForUnique ==
  ASSUME NEW w \in Workers, NEW k, NEW r, NEW q, RowFor(w, r, k), RowFor(w, q, k)
  PROVE  r = q
  <1>1. Alike(r, q) /\ Alike(q, r)
    BY DEF RowFor, Alike
  <1>2. CASE r \in Stored \/ q \in Stored
    BY <1>1, <1>2 DEF RowFor
  <1>3. CASE r \notin Stored /\ q \notin Stored
    <2>1. /\ r.dealer = q.dealer /\ r.spec = q.spec /\ r.month = q.month /\ r.by = q.by
          /\ r \in RowIds /\ q \in RowIds
      BY <1>3 DEF RowFor
    <2>2. QED
      BY <2>1 DEF RowIds
  <1>4. QED
    BY <1>2, <1>3

\* The sale in hand of w, all of whose KPIs are written and compared.
Ready(w) == tx[w].step = "check" /\ tx[w].todo = {}

LEMMA ReadyFacts ==
  ASSUME MeasureIInv, ~crossed, NEW w \in Workers, Ready(w)
  PROVE  /\ \A k \in Measured(tx[w].spec) :
              /\ k \in Kpis /\ tx[w].spec[k] \in Specs /\ Compared(w, k)
              /\ \E r \in RowIds : /\ RowFor(w, r, k) /\ tx[w].new[r] = Plus(w, r, k)
                                   /\ tx[w].sum[k] = Plus(w, r, k).value
         /\ \A k \in Kpis : Compared(w, k) => k \in Measured(tx[w].spec)
         /\ \A k, l \in Measured(tx[w].spec) : tx[w].spec[k] = tx[w].spec[l] => k = l
         /\ \A r \in RowIds : tx[w].new[r] # NoRow =>
              \E k \in Measured(tx[w].spec) : RowFor(w, r, k)
  <1>1. WritesOK(w) /\ tx[w] \in TxRecord
    BY OpenFacts DEF Ready
  <1>2. \A k \in Kpis : /\ Written(w, k) <=> k \in Measured(tx[w].spec)
                        /\ Compared(w, k) <=> k \in Measured(tx[w].spec)
    BY DEF Ready, Written, Compared
  <1>3. \A k \in Measured(tx[w].spec) : k \in Kpis /\ tx[w].spec[k] \in Specs
    BY <1>1 DEF Measured, TxRecord, TxShape
  <1>4. QED
    BY <1>1, <1>2, <1>3 DEF WritesOK

\* What becomes of the rows: those the sale goes to take it in, and the others stay.
RowsGrow(w) ==
  /\ \A k \in Measured(tx[w].spec) :
       \E r \in Stored' : /\ RowFor(w, r, k) /\ rows'[r] = Plus(w, r, k)
                          /\ tx[w].sum[k] = Plus(w, r, k).value
  /\ \A r \in Stored' :
       \/ /\ r \in Stored /\ rows'[r] = rows[r]
          /\ \A k \in Measured(tx[w].spec) : ~RowFor(w, r, k)
       \/ \E k \in Measured(tx[w].spec) :
            /\ RowFor(w, r, k) /\ rows'[r] = Plus(w, r, k)
            /\ tx[w].sum[k] = Plus(w, r, k).value
  /\ \A r \in Stored : /\ r \in Stored' /\ rows'[r].value >= rows[r].value
                       /\ rows[r].sources \subseteq rows'[r].sources

LEMMA CommitRows ==
  ASSUME MeasureIInv, ~crossed, NEW w \in Workers, Ready(w), rows' = RowsAfter(w)
  PROVE  RowsGrow(w)
  <1> DEFINE M == Measured(tx[w].spec)
  <1>1. ASSUME NEW r \in RowIds, NEW k \in M, RowFor(w, r, k)
        PROVE  /\ rows'[r] = Plus(w, r, k) /\ tx[w].sum[k] = Plus(w, r, k).value
               /\ r \in Stored' /\ InHand(w) \in rows'[r].sources
               /\ rows[r].sources \subseteq rows'[r].sources
               /\ rows'[r].value >= rows[r].value
    <2>1. PICK q \in RowIds : /\ RowFor(w, q, k) /\ tx[w].new[q] = Plus(w, q, k)
                              /\ tx[w].sum[k] = Plus(w, q, k).value
      BY ReadyFacts
    <2>2. q = r
      BY <1>1, <2>1, RowForUnique
    <2>3. Plus(w, r, k) # NoRow
      BY DEF Plus, NoRow
    <2>4. rows'[r] = Plus(w, r, k)
      BY <2>1, <2>2, <2>3 DEF RowsAfter
    <2>5. /\ r \in Stored' /\ InHand(w) \in rows'[r].sources
          /\ rows[r].sources \subseteq rows'[r].sources
      BY <2>4 DEF Stored, Plus
    <2>6. rows[r].value \in Nat /\ EventOf(w).amount[k] \in Nat
      BY OpenFacts DEF MeasureIInv, MeasureTypeOK, RowRecord, Ready, Measured
    <2>7. QED
      BY <2>1, <2>2, <2>4, <2>5, <2>6 DEF Plus
  <1>2. ASSUME NEW r \in RowIds, \A k \in M : ~RowFor(w, r, k)
        PROVE  rows'[r] = rows[r]
    BY <1>2, ReadyFacts DEF RowsAfter
  <1>3. \A r : (r \in Stored => r \in RowIds) /\ (r \in Stored' => r \in RowIds)
    BY DEF Stored
  <1>4. \A k \in M : \E r \in Stored' : /\ RowFor(w, r, k) /\ rows'[r] = Plus(w, r, k)
                                        /\ tx[w].sum[k] = Plus(w, r, k).value
    BY <1>1, ReadyFacts
  <1>5. ASSUME NEW r \in Stored'
        PROVE  \/ /\ r \in Stored /\ rows'[r] = rows[r]
                  /\ \A k \in M : ~RowFor(w, r, k)
               \/ \E k \in M : /\ RowFor(w, r, k) /\ rows'[r] = Plus(w, r, k)
                               /\ tx[w].sum[k] = Plus(w, r, k).value
    <2>1. CASE \E k \in M : RowFor(w, r, k)
      BY <1>1, <1>3, <2>1
    <2>2. CASE \A k \in M : ~RowFor(w, r, k)
      <3>1. rows'[r] = rows[r] /\ r \in RowIds
        BY <1>2, <1>3, <2>2
      <3>2. r \in Stored
        BY <3>1 DEF Stored
      <3>3. QED
        BY <2>2, <3>1, <3>2
    <2>3. QED
      BY <2>1, <2>2
  <1>6. ASSUME NEW r \in Stored
        PROVE  /\ r \in Stored' /\ rows'[r].value >= rows[r].value
               /\ rows[r].sources \subseteq rows'[r].sources
    <2>1. CASE \E k \in M : RowFor(w, r, k)
      BY <1>1, <1>3, <2>1
    <2>2. CASE \A k \in M : ~RowFor(w, r, k)
      <3>1. rows'[r] = rows[r] /\ r \in RowIds /\ rows[r].value \in Nat
        BY <1>2, <1>3, <2>2 DEF MeasureIInv, MeasureTypeOK, RowRecord
      <3>2. r \in Stored'
        BY <3>1 DEF Stored
      <3>3. QED
        BY <3>1, <3>2
    <2>3. QED
      BY <2>1, <2>2
  <1>7. QED
    BY <1>4, <1>5, <1>6 DEF RowsGrow

\* What is counted: the sale in hand, once more, for each KPI that has a specification.
CountsSale(w) ==
  /\ counted' \in [SaleEvents \X Kpis \X Specs -> Nat]
  /\ \A x \in SaleEvents, k \in Kpis, s \in Specs :
       counted'[<<x, k, s>>] = IF x = InHand(w) /\ tx[w].spec[k] = s THEN counted[<<x, k, s>>] + 1
                           ELSE counted[<<x, k, s>>]

LEMMA CommitCounts ==
  ASSUME MeasureIInv, NEW w \in Workers, CommitSale(w)
  PROVE  CountsSale(w)
  <1>1. counted \in [SaleEvents \X Kpis \X Specs -> Nat]
    BY DEF MeasureIInv, MeasureTypeOK
  <1>2. counted' = [x \in SaleEvents \X Kpis \X Specs |->
                      IF x[1] = InHand(w) /\ tx[w].spec[x[2]] = x[3] THEN counted[x] + 1
                      ELSE counted[x]]
    BY DEF CommitSale
  <1>3. counted' \in [SaleEvents \X Kpis \X Specs -> Nat]
    BY <1>1, <1>2
  <1>4. ASSUME NEW x \in SaleEvents, NEW k \in Kpis, NEW s \in Specs
        PROVE  counted'[<<x, k, s>>] = IF x = InHand(w) /\ tx[w].spec[k] = s
                                   THEN counted[<<x, k, s>>] + 1 ELSE counted[<<x, k, s>>]
    <2>1. PICK y : y = <<x, k, s>>
      OBVIOUS
    <2>2. y \in SaleEvents \X Kpis \X Specs /\ y[1] = x /\ y[2] = k /\ y[3] = s
      BY <2>1
    <2>3. counted'[y] = IF x = InHand(w) /\ tx[w].spec[k] = s
                        THEN counted[y] + 1 ELSE counted[y]
      BY <1>2, <2>2
    <2>4. QED
      BY <2>1, <2>3
  <1>5. QED
    BY <1>3, <1>4 DEF CountsSale


\* The sales of a dealer's month are finitely many.
LEMMA SummandsFinite ==
  ASSUME NEW dealer, NEW m
  PROVE  /\ IsFiniteSet(SalesOf(dealer, m) \X Kpis)
         /\ SalesOf(dealer, m) \X Kpis \subseteq SaleEvents \X Kpis
  <1>1. SalesOf(dealer, m) \subseteq SaleEvents
    BY DEF SalesOf
  <1>2. IsFiniteSet(SalesOf(dealer, m))
    BY <1>1, SalesFinite, FS_Subset
  <1>3. IsFiniteSet(Kpis)
    <2>1. IsFiniteSet({"units"}) /\ IsFiniteSet({"revenue"}) /\ Kpis = {"units"} \cup {"revenue"}
      BY FS_Singleton DEF Kpis
    <2>2. QED
      BY <2>1, FS_Union
  <1>4. QED
    BY <1>1, <1>2, <1>3, FS_Product

\* What the sales have added, by a count c.
AddedBy(c, s) == [x \in SaleEvents \X Kpis |-> c[<<x[1], x[2], s>>] * SaleAt(x[1]).amount[x[2]]]

LEMMA AddedByAt ==
  ASSUME NEW c \in [SaleEvents \X Kpis \X Specs -> Nat], NEW s \in Specs,
         NEW y \in SaleEvents \X Kpis
  PROVE  /\ AddedBy(c, s)[y] = c[<<y[1], y[2], s>>] * SaleAt(y[1]).amount[y[2]]
         /\ c[<<y[1], y[2], s>>] \in Nat /\ SaleAt(y[1]).amount[y[2]] \in Nat
         /\ AddedBy(c, s)[y] \in Int
  <1>1. y[1] \in SaleEvents /\ y[2] \in Kpis
    OBVIOUS
  <1>2. SaleAt(y[1]).amount[y[2]] \in Nat
    BY <1>1, SaleType
  <1>3. c[<<y[1], y[2], s>>] \in Nat
    BY <1>1
  <1>4. AddedBy(c, s)[y] = c[<<y[1], y[2], s>>] * SaleAt(y[1]).amount[y[2]]
    BY DEF AddedBy
  <1>5. \A a, b \in Nat : a * b \in Int
    OBVIOUS
  <1>6. QED
    BY <1>2, <1>3, <1>4, <1>5

\* The row a KPI goes to holds the sum so far, although it may not be inserted yet.
LEMMA SumsAt ==
  ASSUME MeasureIInv, ~crossed, NEW w \in Workers, NEW k \in Measured(tx[w].spec), NEW r,
         tx[w].spec[k] \in Specs, RowFor(w, r, k)
  PROVE  /\ r \in RowIds /\ r.spec \in Specs
         /\ rows[r].value = SumFunctionOnSet(AddedUnder(r.spec), SalesOf(r.dealer, r.month) \X Kpis)
         /\ rows[r].sources = {x \in SalesOf(r.dealer, r.month) :
                                 \E l \in Kpis : counted[<<x, l, r.spec>>] > 0}
  <1>0. r \in RowIds /\ r.spec \in Specs
    BY DEF RowFor
  <1>1. CASE r \in Stored
    BY <1>0, <1>1 DEF MeasureIInv, AloneIInv, SumsOK
  <1>2. CASE r \notin Stored
    <2>1. RowsOf(r.dealer, r.spec, r.month) = {}
      BY <1>2 DEF RowFor, RowsOf, Alike
    <2>2. \A x \in SalesOf(r.dealer, r.month), l \in Kpis : counted[<<x, l, r.spec>>] = 0
      <3> SUFFICES ASSUME NEW x \in SalesOf(r.dealer, r.month), NEW l \in Kpis
                   PROVE  counted[<<x, l, r.spec>>] = 0
        OBVIOUS
      <3>1. x \in SaleEvents /\ SaleAt(x).dealer = r.dealer /\ SaleAt(x).month = r.month
        BY DEF SalesOf
      <3>2. ~(counted[<<x, l, r.spec>>] > 0)
        BY <1>0, <2>1, <3>1 DEF MeasureIInv, AloneIInv, CountedStored
      <3>3. counted[<<x, l, r.spec>>] \in Nat
        BY <1>0, <3>1 DEF MeasureIInv, MeasureTypeOK
      <3>4. QED
        BY <3>2, <3>3
    <2>3. rows[r].sources = {} /\ rows[r].value = 0
      BY <1>0, <1>2 DEF Stored, MeasureIInv, MeasureTypeOK, RowRecord
    <2>4. SumFunctionOnSet(AddedUnder(r.spec), SalesOf(r.dealer, r.month) \X Kpis) = 0
      <3> DEFINE U == SalesOf(r.dealer, r.month) \X Kpis
                 f == AddedUnder(r.spec)
      <3>1. IsFiniteSet(U) /\ U \subseteq SaleEvents \X Kpis
        BY SummandsFinite
      <3>2. ASSUME NEW y \in U PROVE f[y] = 0
        <4>1. y \in SaleEvents \X Kpis /\ y[1] \in SalesOf(r.dealer, r.month) /\ y[2] \in Kpis
          BY <3>1
        <4>2. f[y] = counted[<<y[1], y[2], r.spec>>] * SaleAt(y[1]).amount[y[2]]
              /\ SaleAt(y[1]).amount[y[2]] \in Nat
          BY <1>0, <4>1, AddedByAt DEF MeasureIInv, MeasureTypeOK, AddedUnder, AddedBy
        <4>3. counted[<<y[1], y[2], r.spec>>] = 0
          BY <2>2, <4>1
        <4>4. \A a \in Nat : 0 * a = 0
          OBVIOUS
        <4>5. QED
          BY <4>2, <4>3, <4>4
      <3> HIDE DEF U, f
      <3>3. SumFunctionOnSet(f, U) = 0
        BY <3>1, <3>2, SumZero
      <3>4. QED
        BY <3>3 DEF U, f
    <2>5. \A x \in SalesOf(r.dealer, r.month) : ~(\E l \in Kpis : counted[<<x, l, r.spec>>] > 0)
      <3> SUFFICES ASSUME NEW x \in SalesOf(r.dealer, r.month), NEW l \in Kpis
                   PROVE  ~(counted[<<x, l, r.spec>>] > 0)
        OBVIOUS
      <3>1. PICK n : n = counted[<<x, l, r.spec>>]
        OBVIOUS
      <3>2. n = 0
        BY <2>2, <3>1
      <3>3. QED
        BY <3>1, <3>2
    <2>6. QED
      BY <1>0, <2>3, <2>4, <2>5
  <1>3. QED
    BY <1>1, <1>2

\* The sums take the sale in, once.
LEMMA CommitSums ==
  ASSUME MeasureIInv, ~crossed, NEW w \in Workers, Ready(w), RowsGrow(w), CountsSale(w)
  PROVE  SumsOK'
  <1> DEFINE M == Measured(tx[w].spec)
             x0 == InHand(w)
  <1>1. /\ x0 \in SaleEvents /\ SaleAt(x0).dealer = EventOf(w).dealer
        /\ SaleAt(x0).month = EventOf(w).month /\ SaleAt(x0).amount = EventOf(w).amount
    BY OpenFacts DEF Ready
  <1>2. /\ counted \in [SaleEvents \X Kpis \X Specs -> Nat]
        /\ counted' \in [SaleEvents \X Kpis \X Specs -> Nat]
    BY DEF CountsSale, MeasureIInv, MeasureTypeOK
  <1>3. \A r \in RowIds : r.spec \in Specs /\ r.spec # None
    BY PerformanceAssumption DEF PerformanceAssumption, RowIds
  <1>4. \A r : (r \in Stored => r \in RowIds) /\ (r \in Stored' => r \in RowIds)
    BY DEF Stored
  <1>5. \A k \in Kpis, s \in Specs : tx[w].spec[k] = s => k \in M
    BY PerformanceAssumption DEF PerformanceAssumption, Measured
  <1> SUFFICES ASSUME NEW r \in Stored'
               PROVE  /\ rows'[r].value = SumFunctionOnSet(AddedUnder(r.spec)',
                                            SalesOf(r.dealer, r.month) \X Kpis)
                      /\ rows'[r].sources = {x \in SalesOf(r.dealer, r.month) :
                                               \E k \in Kpis : counted'[<<x, k, r.spec>>] > 0}
    BY DEF SumsOK, SalesOf
  <1> DEFINE Own == SalesOf(r.dealer, r.month)
             U == Own \X Kpis
             f == AddedBy(counted, r.spec)
             g == AddedBy(counted', r.spec)
  <1>6. AddedUnder(r.spec) = f /\ AddedUnder(r.spec)' = g
    BY DEF AddedUnder, AddedBy
  <1>7. /\ IsFiniteSet(U) /\ U \subseteq SaleEvents \X Kpis
        /\ \A x : x \in Own => /\ x \in SaleEvents
                                 /\ SaleAt(x).dealer = r.dealer /\ SaleAt(x).month = r.month
    <2>1. IsFiniteSet(U) /\ U \subseteq SaleEvents \X Kpis
      BY SummandsFinite
    <2>2. \A x : x \in Own => /\ x \in SaleEvents
                                /\ SaleAt(x).dealer = r.dealer /\ SaleAt(x).month = r.month
      BY DEF SalesOf
    <2>3. QED
      BY <2>1, <2>2
  <1>8. r \in RowIds /\ r.spec \in Specs /\ r.spec # None
    BY <1>3, <1>4
  <1>9. \A y \in U : /\ f[y] = counted[<<y[1], y[2], r.spec>>] * SaleAt(y[1]).amount[y[2]]
                     /\ g[y] = counted'[<<y[1], y[2], r.spec>>] * SaleAt(y[1]).amount[y[2]]
                     /\ f[y] \in Int /\ g[y] \in Int
                     /\ y[1] \in Own /\ y[2] \in Kpis /\ y = <<y[1], y[2]>>
                     /\ counted[<<y[1], y[2], r.spec>>] \in Nat
                     /\ SaleAt(y[1]).amount[y[2]] \in Nat
    <2> SUFFICES ASSUME NEW y \in U
                 PROVE  /\ f[y] = counted[<<y[1], y[2], r.spec>>] * SaleAt(y[1]).amount[y[2]]
                        /\ g[y] = counted'[<<y[1], y[2], r.spec>>] * SaleAt(y[1]).amount[y[2]]
                        /\ f[y] \in Int /\ g[y] \in Int
                        /\ y[1] \in Own /\ y[2] \in Kpis /\ y = <<y[1], y[2]>>
                        /\ counted[<<y[1], y[2], r.spec>>] \in Nat
                        /\ SaleAt(y[1]).amount[y[2]] \in Nat
      OBVIOUS
    <2>1. y[1] \in Own /\ y[2] \in Kpis /\ y = <<y[1], y[2]>> /\ y \in SaleEvents \X Kpis
      BY <1>7
    <2> HIDE DEF f, g, U, Own
    <2>2. /\ f[y] = counted[<<y[1], y[2], r.spec>>] * SaleAt(y[1]).amount[y[2]]
          /\ f[y] \in Int /\ counted[<<y[1], y[2], r.spec>>] \in Nat
          /\ SaleAt(y[1]).amount[y[2]] \in Nat
      BY <1>2, <1>8, <2>1, AddedByAt DEF f
    <2>3. /\ g[y] = counted'[<<y[1], y[2], r.spec>>] * SaleAt(y[1]).amount[y[2]]
          /\ g[y] \in Int
      BY <1>2, <1>8, <2>1, AddedByAt DEF g
    <2>4. QED
      BY <2>1, <2>2, <2>3
  <1>10. \A x \in Own, l \in Kpis :
           counted'[<<x, l, r.spec>>] = IF x = x0 /\ tx[w].spec[l] = r.spec
                                    THEN counted[<<x, l, r.spec>>] + 1
                                    ELSE counted[<<x, l, r.spec>>]
    BY <1>7, <1>8 DEF CountsSale
  <1>11. \A x \in Own, l \in Kpis : counted[<<x, l, r.spec>>] \in Nat
    BY <1>2, <1>7, <1>8
  <1>12. CASE /\ r \in Stored /\ rows'[r] = rows[r]
              /\ \A k \in M : ~RowFor(w, r, k)
    <2>1. \A x \in Own, l \in Kpis : counted'[<<x, l, r.spec>>] = counted[<<x, l, r.spec>>]
      <3> SUFFICES ASSUME NEW x \in Own, NEW l \in Kpis, x = x0, tx[w].spec[l] = r.spec
                   PROVE  FALSE
        BY <1>10
      <3>1. l \in M
        BY <1>5, <1>8
      <3>2. \A q \in Stored : Alike(q, r) => q = r
        BY <1>12 DEF MeasureIInv, AloneIInv, OneRowEach
      <3>3. r.dealer = EventOf(w).dealer /\ r.month = EventOf(w).month
        BY <1>1, <1>7
      <3>4. RowFor(w, r, l)
        BY <1>8, <1>12, <3>2, <3>3 DEF RowFor
      <3>5. QED
        BY <1>12, <3>1, <3>4
    <2>2. \A y \in U : f[y] = g[y]
      BY <1>9, <2>1
    <2>3. SumFunctionOnSet(f, U) = SumFunctionOnSet(g, U)
      <3> HIDE DEF f, g, U
      <3>1. QED
        BY <1>7, <2>2, SumSame
    <2>4. /\ rows[r].value = SumFunctionOnSet(f, U)
          /\ rows[r].sources = {x \in Own : \E k \in Kpis : counted[<<x, k, r.spec>>] > 0}
      BY <1>6, <1>12 DEF MeasureIInv, AloneIInv, SumsOK
    <2>5. rows'[r].sources = {x \in Own : \E k \in Kpis : counted'[<<x, k, r.spec>>] > 0}
      BY <1>12, <2>1, <2>4
    <2>6. QED
      BY <1>6, <1>12, <2>3, <2>4, <2>5
  <1>13. ASSUME NEW k \in M, RowFor(w, r, k), rows'[r] = Plus(w, r, k)
         PROVE  /\ rows'[r].value = SumFunctionOnSet(g, U)
                /\ rows'[r].sources = {x \in Own : \E l \in Kpis : counted'[<<x, l, r.spec>>] > 0}
    <2>1. /\ k \in Kpis /\ tx[w].spec[k] = r.spec /\ tx[w].spec[k] \in Specs
          /\ \A l \in Kpis : tx[w].spec[l] = r.spec <=> l = k
      BY <1>5, <1>8, <1>13, ReadyFacts DEF RowFor
    <2>2. /\ rows[r].value = SumFunctionOnSet(f, U)
          /\ rows[r].sources = {x \in Own : \E l \in Kpis : counted[<<x, l, r.spec>>] > 0}
      <3> HIDE DEF f, g
      <3>1. /\ MeasureIInv /\ ~crossed /\ k \in Measured(tx[w].spec)
            /\ tx[w].spec[k] \in Specs /\ RowFor(w, r, k)
        BY <1>13, <2>1
      <3>2. rows[r].value = SumFunctionOnSet(AddedUnder(r.spec), SalesOf(r.dealer, r.month) \X Kpis)
        BY <3>1, SumsAt
      <3>3. rows[r].sources = {x \in SalesOf(r.dealer, r.month) :
                                 \E l \in Kpis : counted[<<x, l, r.spec>>] > 0}
        BY <3>1, SumsAt
      <3>4. QED
        BY <1>6, <3>2, <3>3
    <2>3. x0 \in Own
      BY <1>1, <1>13 DEF RowFor, SalesOf
    <2>4. /\ \A x \in Own, l \in Kpis :
               counted'[<<x, l, r.spec>>] = IF x = x0 /\ l = k THEN counted[<<x, l, r.spec>>] + 1
                                        ELSE counted[<<x, l, r.spec>>]
      BY <1>10, <2>1
    <2>5. PICK y : y = <<x0, k>>
      OBVIOUS
    <2>6. y \in U /\ y[1] = x0 /\ y[2] = k
      BY <2>1, <2>3, <2>5
    <2>7. g[y] = f[y] + EventOf(w).amount[k]
      <3>1. /\ f[y] = counted[<<x0, k, r.spec>>] * EventOf(w).amount[k]
            /\ g[y] = counted'[<<x0, k, r.spec>>] * EventOf(w).amount[k]
            /\ counted[<<x0, k, r.spec>>] \in Nat /\ EventOf(w).amount[k] \in Nat
        BY <1>1, <1>9, <2>6
      <3>2. counted'[<<x0, k, r.spec>>] = counted[<<x0, k, r.spec>>] + 1
        BY <2>1, <2>3, <2>4
      <3>3. \A a, b \in Nat : (a + 1) * b = a * b + b
        OBVIOUS
      <3>4. QED
        BY <3>1, <3>2, <3>3
    <2>8. \A z \in U : z # y => g[z] = f[z]
      <3> SUFFICES ASSUME NEW z \in U, z # y PROVE g[z] = f[z]
        OBVIOUS
      <3>1. z[1] \in Own /\ z[2] \in Kpis /\ z = <<z[1], z[2]>>
        BY <1>9
      <3>2. ~(z[1] = x0 /\ z[2] = k)
        BY <2>5, <3>1
      <3>3. counted'[<<z[1], z[2], r.spec>>] = counted[<<z[1], z[2], r.spec>>]
        BY <2>4, <3>1, <3>2
      <3>4. QED
        BY <1>9, <3>3
    <2>9. SumFunctionOnSet(g, U) = SumFunctionOnSet(f, U) + EventOf(w).amount[k]
      <3>1. (\A z \in U : f[z] \in Int /\ g[z] \in Int) /\ (\A z \in U : f[z] \in Int)
        BY <1>9
      <3>2. EventOf(w).amount[k] \in Nat
        BY <2>1, OpenFacts DEF Ready
      <3> HIDE DEF f, g, U
      <3>3. SumFunctionOnSet(g, U) = SumFunctionOnSet(f, U) - f[y] + g[y]
        BY <1>7, <2>6, <2>8, <3>1, SumChanged
      <3>4. SumFunctionOnSet(f, U) \in Int /\ f[y] \in Int
        BY <1>7, <2>6, <3>1, SumInt
      <3>5. QED
        BY <2>7, <3>2, <3>3, <3>4
    <2>10. rows'[r].value = SumFunctionOnSet(g, U)
      BY <1>13, <2>2, <2>9 DEF Plus
    <2>11. rows'[r].sources = rows[r].sources \cup {x0}
      BY <1>13 DEF Plus
    <2>12. \A x \in Own : (\E l \in Kpis : counted'[<<x, l, r.spec>>] > 0)
                              <=> x = x0 \/ \E l \in Kpis : counted[<<x, l, r.spec>>] > 0
      <3> HIDE DEF Own, x0
      <3>1. \A x \in Own, l \in Kpis :
              x # x0 => counted'[<<x, l, r.spec>>] = counted[<<x, l, r.spec>>]
        BY <2>4
      <3>2. counted'[<<x0, k, r.spec>>] > 0
        BY <1>11, <2>1, <2>3, <2>4
      <3>3. QED
        BY <2>1, <3>1, <3>2
    <2>13. QED
      BY <2>2, <2>3, <2>10, <2>11, <2>12
  <1>14. QED
    BY <1>6, <1>12, <1>13 DEF RowsGrow

\* A sale that is counted has a row, and there is still one row each.
LEMMA CommitKeepsRows ==
  ASSUME MeasureIInv, ~crossed, NEW w \in Workers, Ready(w), RowsGrow(w), CountsSale(w)
  PROVE  OneRowEach' /\ CountedStored'
  <1> DEFINE M == Measured(tx[w].spec)
  <1>1. \A r, q \in Stored : Alike(r, q) => r = q
    BY DEF MeasureIInv, AloneIInv, OneRowEach
  <1>2. ASSUME NEW r \in Stored', NEW q \in Stored', Alike(r, q) PROVE r = q
    <2>1. \A u \in Stored' : u \in Stored \/ \E k \in M : RowFor(w, u, k)
      BY DEF RowsGrow
    <2>2. Alike(q, r)
      BY <1>2 DEF Alike
    <2>3. ASSUME NEW k \in M, RowFor(w, r, k) PROVE r = q
      <3>1. CASE q \in Stored
        BY <2>2, <2>3, <3>1 DEF RowFor
      <3>2. ASSUME NEW l \in M, RowFor(w, q, l) PROVE r = q
        <4>1. tx[w].spec[k] = tx[w].spec[l]
          BY <1>2, <2>3, <3>2 DEF RowFor, Alike
        <4>2. k = l
          BY <4>1, ReadyFacts
        <4>3. QED
          BY <2>3, <3>2, <4>2, RowForUnique
      <3>3. QED
        BY <2>1, <3>1, <3>2
    <2>4. ASSUME NEW k \in M, RowFor(w, q, k), r \in Stored PROVE r = q
      BY <1>2, <2>4 DEF RowFor
    <2>5. QED
      BY <1>1, <1>2, <2>1, <2>3, <2>4
  <1>3. ASSUME NEW x \in SaleEvents, NEW k \in Kpis, NEW s \in Specs,
               counted'[<<x, k, s>>] > 0
        PROVE  \E r \in Stored' : /\ r.dealer = SaleAt(x).dealer /\ r.spec = s
                                  /\ r.month = SaleAt(x).month
    <2>1. CASE counted[<<x, k, s>>] > 0
      <3>1. PICK r \in Stored : /\ r.dealer = SaleAt(x).dealer /\ r.spec = s
                                /\ r.month = SaleAt(x).month
        BY <2>1 DEF MeasureIInv, AloneIInv, CountedStored, RowsOf
      <3>2. QED
        BY <3>1 DEF RowsGrow
    <2>2. CASE x = InHand(w) /\ tx[w].spec[k] = s
      <3>1. k \in M
        BY <2>2, PerformanceAssumption DEF PerformanceAssumption, Measured
      <3>2. PICK r \in Stored' : RowFor(w, r, k)
        BY <3>1 DEF RowsGrow
      <3>3. EventOf(w) = SaleAt(x)
        BY <2>2, OpenFacts DEF Ready
      <3>4. QED
        BY <2>2, <3>2, <3>3 DEF RowFor
    <2>3. QED
      BY <1>3, <2>1, <2>2 DEF CountsSale
  <1>4. OneRowEach'
    BY <1>2 DEF OneRowEach
  <1>5. CountedStored'
    <2> SUFFICES ASSUME NEW x \in SaleEvents, NEW k \in Kpis, NEW s \in Specs,
                        counted'[<<x, k, s>>] > 0
                 PROVE  RowsOf(SaleAt(x).dealer, s, SaleAt(x).month)' # {}
      BY DEF CountedStored, SaleAt
    <2>1. PICK r \in Stored' : /\ r.dealer = SaleAt(x).dealer /\ r.spec = s
                               /\ r.month = SaleAt(x).month
      BY <1>3
    <2>2. QED
      BY <2>1 DEF RowsOf, SaleAt
  <1>6. QED
    BY <1>4, <1>5

\* The sale in hand is measured, and what was measured stays so.
LEMMA CommitHandles ==
  ASSUME MeasureIInv, ~crossed, NEW w \in Workers, Ready(w), RowsGrow(w), CountsSale(w),
         unnamed' = unnamed \cup {<<InHand(w), k>> : k \in Kpis \ Measured(tx[w].spec)},
         handled' \subseteq handled \cup {InHand(w)}, handled' \subseteq SaleEvents
  PROVE  HandledOK'
  <1> DEFINE M == Measured(tx[w].spec)
  <1> SUFFICES ASSUME NEW x \in handled', NEW k \in Kpis, <<x, k>> \notin unnamed'
               PROVE  \E s \in Specs : /\ counted'[<<x, k, s>>] > 0
                                       /\ \E r \in RowsOf(SaleAt(x).dealer, s, SaleAt(x).month)' :
                                            x \in rows'[r].sources
    BY DEF HandledOK, SaleMeasured, SaleAt
  <1>1. \A y \in SaleEvents, s \in Specs :
          counted[<<y, k, s>>] \in Nat /\ counted'[<<y, k, s>>] \in Nat
    BY DEF CountsSale, MeasureIInv, MeasureTypeOK
  <1>2. \A y \in SaleEvents, s \in Specs :
          counted'[<<y, k, s>>] = IF y = InHand(w) /\ tx[w].spec[k] = s
                                  THEN counted[<<y, k, s>>] + 1 ELSE counted[<<y, k, s>>]
    BY DEF CountsSale
  <1>3. \A y \in SaleEvents, s \in Specs :
          counted'[<<y, k, s>>] >= counted[<<y, k, s>>]
    BY <1>1, <1>2
  <1>4. CASE x \in handled
    <2>1. x \in SaleEvents
      OBVIOUS
    <2>2. PICK s \in Specs, r \in Stored :
             /\ counted[<<x, k, s>>] > 0 /\ x \in rows[r].sources
             /\ r.dealer = SaleAt(x).dealer /\ r.spec = s /\ r.month = SaleAt(x).month
      BY <1>4 DEF MeasureIInv, AloneIInv, HandledOK, SaleMeasured, RowsOf
    <2>3. r \in Stored' /\ x \in rows'[r].sources
      BY <2>2 DEF RowsGrow
    <2>4. counted'[<<x, k, s>>] > 0
      BY <1>1, <1>3, <2>1, <2>2
    <2>5. QED
      BY <2>2, <2>3, <2>4 DEF RowsOf, SaleAt
  <1>5. CASE x = InHand(w)
    <2>1. k \in M
      BY <1>5
    <2>2. PICK r \in Stored' : RowFor(w, r, k) /\ rows'[r] = Plus(w, r, k)
      BY <2>1 DEF RowsGrow
    <2>3. PICK s \in Specs : s = tx[w].spec[k]
      BY <2>1, ReadyFacts
    <2>4. x \in SaleEvents /\ EventOf(w) = SaleAt(x)
      BY <1>5, OpenFacts DEF Ready
    <2>5. counted'[<<x, k, s>>] > 0
      BY <1>1, <1>2, <1>5, <2>3, <2>4
    <2>6. x \in rows'[r].sources
      BY <1>5, <2>2 DEF Plus
    <2>7. r.dealer = SaleAt(x).dealer /\ r.spec = s /\ r.month = SaleAt(x).month
      BY <2>2, <2>3, <2>4 DEF RowFor
    <2>8. QED
      BY <2>2, <2>5, <2>6, <2>7 DEF RowsOf, SaleAt
  <1>6. QED
    BY <1>4, <1>5

\* What the transaction is about to set of a target nobody patched.
LEMMA ReadyNews ==
  ASSUME MeasureIInv, ~crossed, NEW w \in Workers, Ready(w), NEW t \in Targets \ edited
  PROVE  /\ tx[w].sets[t] \in {"ACTIVE", "ACHIEVED"} /\ EventOf(w).month \in Months
         /\ \A m \in Months : <<t, m>> \in tx[w].judging =>
              /\ m = EventOf(w).month /\ target[t].status = "ACTIVE"
              /\ \E k \in Measured(tx[w].spec) :
                   /\ InScope(w, t, k)
                   /\ (tx[w].sets[t] = "ACHIEVED" <=> tx[w].sum[k] >= target[t].goal)
         /\ tx[w].sets[t] = "ACHIEVED" => <<t, EventOf(w).month>> \in tx[w].judging
         /\ \A k \in Measured(tx[w].spec) :
              InScope(w, t, k) /\ target[t].status = "ACTIVE"
              /\ <<t, EventOf(w).month>> \in judged
              => <<t, EventOf(w).month>> \in tx[w].judging
  <1>1. NewsOK(w, t) /\ EventOf(w).month \in Months
    BY OpenFacts DEF Ready
  <1>2. tx[w].found[t] = "ACTIVE"
    BY <1>1 DEF NewsOK, Ready
  <1>3. /\ \A k \in Measured(tx[w].spec) : k \in Kpis /\ Compared(w, k)
        /\ \A k \in Kpis : Compared(w, k) => k \in Measured(tx[w].spec)
    BY ReadyFacts
  <1>4. \A m \in Months : <<t, m>> \in tx[w].judging =>
          /\ m = EventOf(w).month /\ target[t].status = "ACTIVE"
          /\ \E k \in Measured(tx[w].spec) :
               InScope(w, t, k) /\ (tx[w].sets[t] = "ACHIEVED" <=> tx[w].sum[k] >= target[t].goal)
    BY <1>1, <1>2, <1>3 DEF NewsOK
  <1>5. \A k \in Measured(tx[w].spec) :
          InScope(w, t, k) /\ target[t].status = "ACTIVE" /\ <<t, EventOf(w).month>> \in judged
          => <<t, EventOf(w).month>> \in tx[w].judging
    BY <1>1, <1>3 DEF NewsOK
  <1>6. /\ tx[w].sets[t] \in {"ACTIVE", "ACHIEVED"}
        /\ tx[w].sets[t] = "ACHIEVED" => <<t, EventOf(w).month>> \in tx[w].judging
    BY <1>1, <1>2 DEF NewsOK
  <1>7. QED
    BY <1>1, <1>4, <1>5, <1>6

\* A status still tells the measure.
LEMMA CommitTargets ==
  ASSUME MeasureIInv, ~crossed, NEW w \in Workers, Ready(w), RowsGrow(w),
         target' = TargetsAfter(w), judged' = judged \cup tx[w].judging,
         \A r \in Stored' : rows'[r].value \in Nat, NEW t \in Targets \ edited
  PROVE  StatusOK(t)'
  <1> DEFINE M == Measured(tx[w].spec)
             m0 == EventOf(w).month
  <1>1. /\ target'[t].dealer = target[t].dealer /\ target'[t].spec = target[t].spec
        /\ target'[t].goal = target[t].goal
        /\ target'[t].from = target[t].from /\ target'[t].to = target[t].to
        /\ target'[t].status = IF tx[w].sets[t] = "ACTIVE" THEN target[t].status
                               ELSE tx[w].sets[t]
    BY DEF TargetsAfter, MeasureIInv, MeasureTypeOK, TargetRecord
  <1>2. /\ tx[w].sets[t] \in {"ACTIVE", "ACHIEVED"} /\ m0 \in Months
        /\ tx[w].sets[t] = "ACHIEVED" => <<t, m0>> \in tx[w].judging
    BY ReadyNews
  <1>3. \A m \in Months : <<t, m>> \in tx[w].judging =>
          /\ m = m0 /\ target[t].status = "ACTIVE"
          /\ \E k \in M : /\ InScope(w, t, k)
                          /\ tx[w].sets[t] = "ACHIEVED" <=> tx[w].sum[k] >= target[t].goal
    BY ReadyNews
  <1>4. \A k \in M : InScope(w, t, k) /\ target[t].status = "ACTIVE" /\ <<t, m0>> \in judged
                     => <<t, m0>> \in tx[w].judging
    BY ReadyNews
  <1>5. StatusOK(t) /\ target[t].goal \in Nat
    BY DEF MeasureIInv, MeasureTypeOK, TargetRecord, AloneIInv, TargetsOK
  <1>6. ASSUME target'[t].status = "NONE", NEW m \in Months PROVE <<t, m>> \notin judged'
    BY <1>1, <1>2, <1>3, <1>5, <1>6 DEF StatusOK
  <1>7. target'[t].status # "MISSED"
    BY <1>1, <1>2, <1>5 DEF StatusOK
  <1>8. ASSUME target[t].status = "ACHIEVED" PROVE Reached(t)'
    <2>1. PICK m \in Months : /\ target[t].from <= m /\ m <= target[t].to /\ <<t, m>> \in judged
                              /\ \E r \in RowsOf(target[t].dealer, target[t].spec, m) :
                                   rows[r].value >= target[t].goal
      BY <1>5, <1>8 DEF StatusOK, Reached
    <2>2. PICK r \in Stored : /\ r.dealer = target[t].dealer /\ r.spec = target[t].spec
                              /\ r.month = m /\ rows[r].value >= target[t].goal
      BY <2>1 DEF RowsOf
    <2>3. r \in Stored' /\ rows'[r].value >= rows[r].value
      BY <2>2 DEF RowsGrow
    <2>4. rows[r].value \in Nat /\ rows'[r].value \in Nat
      BY <2>2, <2>3 DEF Stored, MeasureIInv, MeasureTypeOK, RowRecord
    <2>5. rows'[r].value >= target[t].goal
      BY <1>5, <2>2, <2>3, <2>4
    <2>6. QED
      BY <1>1, <2>1, <2>2, <2>3, <2>5 DEF Reached, RowsOf
  <1>9. ASSUME tx[w].sets[t] = "ACHIEVED" PROVE Reached(t)'
    <2>1. PICK k \in M : InScope(w, t, k) /\ tx[w].sum[k] >= target[t].goal
      BY <1>2, <1>3, <1>9
    <2>2. PICK r \in Stored' : /\ RowFor(w, r, k) /\ rows'[r] = Plus(w, r, k)
                               /\ tx[w].sum[k] = Plus(w, r, k).value
      BY DEF RowsGrow
    <2>3. /\ r.dealer = target[t].dealer /\ r.spec = target[t].spec /\ r.month = m0
          /\ rows'[r].value >= target[t].goal
          /\ target[t].from <= m0 /\ m0 <= target[t].to
      <3>1. r.dealer = target[t].dealer /\ r.spec = target[t].spec /\ r.month = m0
        BY <2>1, <2>2 DEF RowFor, InScope
      <3>2. target[t].from <= m0 /\ m0 <= target[t].to
        <4>1. target[t].to \in Nat /\ m0 \in Nat
          BY <1>2, PerformanceAssumption
          DEF PerformanceAssumption, MeasureIInv, MeasureTypeOK, TargetRecord
        <4>2. QED
          BY <2>1, <4>1 DEF InScope
      <3>3. QED
        BY <2>1, <2>2, <3>1, <3>2
    <2>4. <<t, m0>> \in judged'
      BY <1>2, <1>9
    <2>5. QED
      BY <1>1, <1>2, <2>2, <2>3, <2>4 DEF Reached, RowsOf
  <1>10. ASSUME Reached(t)' PROVE target'[t].status = "ACHIEVED"
    <2> SUFFICES ASSUME target'[t].status # "ACHIEVED" PROVE FALSE
      OBVIOUS
    <2>1. PICK m \in Months : /\ target[t].from <= m /\ m <= target[t].to /\ <<t, m>> \in judged'
                              /\ \E r \in RowsOf(target[t].dealer, target[t].spec, m)' :
                                   rows'[r].value >= target[t].goal
      BY <1>1, <1>10 DEF Reached, RowsOf
    <2>2. PICK r \in Stored' : /\ r.dealer = target[t].dealer /\ r.spec = target[t].spec
                               /\ r.month = m /\ rows'[r].value >= target[t].goal
      BY <1>1, <2>1 DEF RowsOf
    <2>3. /\ tx[w].sets[t] = "ACTIVE" /\ target[t].status = "ACTIVE"
      <3>1. tx[w].sets[t] = "ACTIVE" /\ target[t].status # "ACHIEVED"
        BY <1>1, <1>2
      <3>2. target[t].status # "NONE"
        BY <1>1, <1>6, <2>1, <3>1
      <3>3. target[t].status \in {"ACTIVE", "ACHIEVED", "MISSED", "NONE"}
        BY DEF MeasureIInv, MeasureTypeOK, TargetRecord, TargetStatuses
      <3>4. QED
        BY <1>5, <3>1, <3>2, <3>3 DEF StatusOK
    <2>4. ASSUME r \in Stored, rows'[r] = rows[r], \A k \in M : ~RowFor(w, r, k) PROVE FALSE
      <3>1. <<t, m>> \notin judged
        BY <1>5, <2>1, <2>2, <2>3, <2>4 DEF StatusOK, Reached, RowsOf
      <3>2. <<t, m>> \in tx[w].judging
        BY <2>1, <3>1
      <3>3. PICK k \in M : InScope(w, t, k) /\ m = m0
        BY <1>3, <3>2
      <3>4. \A q \in Stored : Alike(q, r) => q = r
        BY <2>4 DEF MeasureIInv, AloneIInv, OneRowEach
      <3>5. RowFor(w, r, k)
        BY <2>2, <2>4, <3>3, <3>4 DEF RowFor, InScope, Stored
      <3>6. QED
        BY <2>4, <3>5
    <2>5. ASSUME NEW k \in M, RowFor(w, r, k), rows'[r] = Plus(w, r, k),
                 tx[w].sum[k] = Plus(w, r, k).value
          PROVE  FALSE
      <3>1. m = m0 /\ target[t].dealer = EventOf(w).dealer /\ target[t].spec = tx[w].spec[k]
        BY <2>2, <2>5 DEF RowFor
      <3>2. InScope(w, t, k)
        <4>1. target[t].to \in Nat /\ m \in Nat
          BY PerformanceAssumption
          DEF PerformanceAssumption, MeasureIInv, MeasureTypeOK, TargetRecord
        <4>2. QED
          BY <2>1, <3>1, <4>1 DEF InScope
      <3>3. <<t, m0>> \in tx[w].judging
        BY <1>4, <2>1, <2>3, <3>1, <3>2
      <3>4. PICK l \in M : /\ InScope(w, t, l)
                           /\ tx[w].sets[t] = "ACHIEVED" <=> tx[w].sum[l] >= target[t].goal
        BY <1>2, <1>3, <3>3
      <3>5. tx[w].spec[l] = tx[w].spec[k]
        BY <3>1, <3>4 DEF InScope
      <3>6. l = k
        BY <3>5, ReadyFacts
      <3>7. QED
        BY <2>2, <2>3, <2>5, <3>4, <3>6
    <2>6. QED
      BY <2>4, <2>5 DEF RowsGrow
  <1>11. target'[t].status = "ACHIEVED" <=> Reached(t)'
    BY <1>1, <1>2, <1>8, <1>9, <1>10
  <1>12. QED
    BY <1>6, <1>7, <1>11 DEF StatusOK

\* The commit, alone or not, keeps the types.
LEMMA CommitTypes ==
  ASSUME MeasureIInv, ConsumerIInv', NEW w \in Workers, CommitSale(w)
  PROVE  MeasureTypeOK' /\ OpenInv'
  <1>1. tx[w].step = "check" /\ tx[w] \in TxShape /\ InHand(w) \in SaleEvents
    BY OpenFacts DEF CommitSale, TxRecord
  <1>2. rows' \in [RowIds -> RowRecord]
    <2>1. rows' = RowsAfter(w)
      BY DEF CommitSale
    <2>2. \A r \in RowIds : rows[r] \in RowRecord /\ tx[w].new[r] \in RowRecord
      BY <1>1 DEF MeasureIInv, MeasureTypeOK, TxShape
    <2>3. QED
      BY <2>1, <2>2 DEF RowsAfter
  <1>3. target' \in [Targets -> TargetRecord]
    <2>1. target' = TargetsAfter(w)
      BY DEF CommitSale
    <2>2. \A t \in Targets : target[t] \in TargetRecord /\ tx[w].sets[t] \in TargetStatuses
      BY <1>1 DEF MeasureIInv, MeasureTypeOK, TxShape
    <2>3. \A t \in Targets : [target[t] EXCEPT !.status = tx[w].sets[t]] \in TargetRecord
      BY <2>2 DEF TargetRecord
    <2>4. QED
      BY <2>1, <2>2, <2>3 DEF TargetsAfter
  <1>4. counted' \in [SaleEvents \X Kpis \X Specs -> Nat]
    BY CommitCounts DEF CountsSale
  <1>5. /\ unnamed' = unnamed \cup {<<InHand(w), k>> : k \in Kpis \ Measured(tx[w].spec)}
        /\ judged' = judged \cup tx[w].judging
        /\ UNCHANGED <<named, dash, edited, crossed>>
        /\ tx' = [tx EXCEPT ![w] = NoTx]
    BY DEF CommitSale
  <1>6. unnamed' \subseteq SaleEvents \X Kpis /\ judged' \subseteq Targets \X Months
    BY <1>1, <1>5 DEF MeasureIInv, MeasureTypeOK, TxShape
  <1>7. tx' \in [Workers -> TxRecord]
    BY <1>5, NoTxType DEF MeasureIInv, MeasureTypeOK
  <1>8. MeasureTypeOK'
    BY <1>2, <1>3, <1>4, <1>5, <1>6, <1>7 DEF MeasureIInv, MeasureTypeOK
  <1>9. OpenInv'
    <2>1. HandlerReturns(w) \/ HandlerRaises(w)
      BY DEF CommitSale
    <2>2. \A v \in Workers : v # w => task'[v] = task[v]
      BY <2>1, OthersStay DEF MeasureIInv, LoopStep
    <2>3. tx'[w] = NoTx /\ \A v \in Workers : v # w => tx'[v] = tx[v]
      BY <1>5 DEF MeasureIInv, MeasureTypeOK
    <2>4. QED
      BY <2>2, <2>3, NoTxType DEF MeasureIInv, OpenInv
  <1>10. QED
    BY <1>8, <1>9

\* What is shown has still been reached.
LEMMA CommitShown ==
  ASSUME MeasureIInv, ~crossed, NEW w \in Workers, RowsGrow(w), dash' = dash, MeasureTypeOK'
  PROVE  ShownReached'
  <1> SUFFICES ASSUME NEW d \in Dashboards, NEW x \in dash[d].shown
               PROVE  x.row \in Stored' /\ rows'[x.row].value >= x.value
    BY DEF ShownReached
  <1>1. x.row \in Stored /\ rows[x.row].value >= x.value
    BY DEF MeasureIInv, AloneIInv, ShownReached
  <1>2. x.row \in Stored' /\ rows'[x.row].value >= rows[x.row].value
    BY <1>1 DEF RowsGrow
  <1>3. x.value \in Nat
    BY DEF MeasureIInv, MeasureTypeOK, DashRecord
  <1>4. rows[x.row].value \in Nat /\ rows'[x.row].value \in Nat
    BY <1>1 DEF MeasureIInv, MeasureTypeOK, RowRecord, Stored
  <1>5. QED
    BY <1>1, <1>2, <1>3, <1>4

\* The transactions of other dealers' sales do not notice.
LEMMA CommitOthers ==
  ASSUME MeasureIInv, ~crossed, NEW w \in Workers, CommitSale(w)
  PROVE  AloneOpen' /\ TxsOK'
  <1>1. /\ Ready(w) /\ rows' = RowsAfter(w) /\ target' = TargetsAfter(w)
        /\ judged' = judged \cup tx[w].judging
        /\ tx' = [tx EXCEPT ![w] = NoTx] /\ edited' = edited
        /\ HandlerReturns(w) \/ HandlerRaises(w)
    BY DEF CommitSale, Ready
  <1>2. \A v \in Workers : v # w => task'[v] = task[v] /\ tx'[v] = tx[v]
    BY <1>1, OthersStay DEF MeasureIInv, MeasureTypeOK, LoopStep
  <1>3. tx'[w] = NoTx /\ tx[w] # NoTx
    BY <1>1, NoTxType DEF MeasureIInv, MeasureTypeOK, Ready
  <1>4. \A v \in Workers : v # w => EventOf(v)' = EventOf(v)
    BY <1>2, TxSame
  <1>5. AloneOpen'
    BY <1>2, <1>3, <1>4 DEF MeasureIInv, AloneIInv, AloneOpen
  <1>6. ASSUME NEW v \in Workers, tx'[v].step # "idle"
        PROVE  WritesOK(v)' /\ \A t \in Targets \ edited : NewsOK(v, t)'
    <2>1. v # w /\ tx[v].step # "idle" /\ tx[v] # NoTx /\ tx'[v] = tx[v] /\ task'[v] = task[v]
      BY <1>2, <1>3, <1>6, NoTxType
    <2>2. WritesOK(v) /\ \A t \in Targets \ edited : NewsOK(v, t)
      BY <2>1, OpenFacts
    <2>3. EventOf(v).dealer # EventOf(w).dealer
      BY <1>3, <2>1 DEF MeasureIInv, AloneIInv, AloneOpen
    <2>4. WritesOK(v)'
      <3>1. ASSUME NEW r \in RowIds, r.dealer = EventOf(v).dealer PROVE rows'[r] = rows[r]
        <4>1. tx[w].new[r] = NoRow
          BY <1>1, <2>3, <3>1, ReadyFacts DEF RowFor
        <4>2. QED
          BY <1>1, <4>1 DEF RowsAfter
      <3>2. QED
        BY <2>1, <2>2, <3>1, WritesKept
    <2>5. ASSUME NEW t \in Targets \ edited PROVE NewsOK(v, t)'
      <3>1. NewsOK(v, t)
        BY <2>2
      <3>2. CASE target[t].dealer # EventOf(w).dealer
        <4>1. \A m \in Months : <<t, m>> \notin tx[w].judging
          BY <1>1, <3>2, ReadyNews DEF InScope
        <4>2. tx[w].judging \subseteq Targets \X Months
          BY <1>1, OpenFacts DEF Ready, TxRecord, TxShape
        <4>3. \A m : <<t, m>> \in judged' <=> <<t, m>> \in judged
          BY <1>1, <4>1, <4>2
        <4>4. tx[w].sets[t] = "ACTIVE"
          BY <1>1, <4>1, ReadyNews
        <4>5. target'[t] = target[t]
          BY <1>1, <4>4 DEF TargetsAfter
        <4>6. QED
          BY <2>1, <3>1, <4>3, <4>5, NewsKept
      <3>3. CASE target[t].dealer = EventOf(w).dealer
        <4>1. \A k : ~InScope(v, t, k)
          BY <2>3, <3>3 DEF InScope
        <4>2. target'[t].dealer = target[t].dealer
          BY <1>1 DEF TargetsAfter, MeasureIInv, MeasureTypeOK, TargetRecord
        <4>3. \A k : ~InScope(v, t, k)'
          BY <1>4, <2>1, <2>3, <3>3, <4>2 DEF InScope
        <4>4. EventOf(v)' = EventOf(v) /\ EventOf(v).month \in Months
          BY <1>4, <2>1, OpenFacts
        <4>5. /\ \A m \in Months : <<t, m>> \notin tx[v].judging
              /\ tx[v].found[t] = "ACTIVE" /\ tx[v].sets[t] = "ACTIVE"
          BY <3>1, <4>1, <4>4 DEF NewsOK
        <4>6. QED
          BY <2>1, <4>3, <4>4, <4>5 DEF NewsOK
      <3>4. QED
        BY <3>2, <3>3
    <2>6. QED
      BY <2>4, <2>5
  <1>7. TxsOK'
    BY <1>1, <1>6 DEF TxsOK
  <1>8. QED
    BY <1>5, <1>7

\* The commit of a handler call.
LEMMA CommitSaleInv ==
  ASSUME MeasureIInv, ConsumerIInv', NEW w \in Workers, CommitSale(w)
  PROVE  MeasureIInv'
  <1>1. MeasureTypeOK' /\ OpenInv'
    BY CommitTypes
  <1>2. /\ Ready(w) /\ rows' = RowsAfter(w) /\ target' = TargetsAfter(w)
        /\ unnamed' = unnamed \cup {<<InHand(w), k>> : k \in Kpis \ Measured(tx[w].spec)}
        /\ judged' = judged \cup tx[w].judging
        /\ tx' = [tx EXCEPT ![w] = NoTx]
        /\ dash' = dash /\ edited' = edited /\ crossed' = crossed
    BY DEF CommitSale, Ready
  <1>3. ASSUME ~crossed' PROVE AloneIInv'
    <2>1. ~crossed
      BY <1>2, <1>3
    <2>2. RowsGrow(w) /\ CountsSale(w)
      BY <1>2, <2>1, CommitRows, CommitCounts
    <2>3. AloneOpen' /\ TxsOK'
      BY <2>1, <2>2, CommitOthers
    <2>5. OneRowEach' /\ CountedStored'
      BY <1>2, <2>1, <2>2, CommitKeepsRows
    <2>6. SumsOK'
      BY <1>2, <2>1, <2>2, CommitSums
    <2>7. TargetsOK'
      <3>1. \A r \in Stored' : rows'[r].value \in Nat
        BY <1>1 DEF MeasureTypeOK, RowRecord, Stored
      <3>2. \A t \in Targets \ edited : StatusOK(t)'
        BY <1>2, <2>1, <2>2, <3>1, CommitTargets
      <3>3. QED
        BY <1>2, <3>2 DEF TargetsOK
    <2>8. HandledOK'
      <3>1. handled' \subseteq handled \cup {InHand(w)}
        BY DEF CommitSale, HandlerReturns, HandlerRaises
      <3>2. handled' \subseteq SaleEvents
        BY SalesArePositions DEF ConsumerIInv, ConsumerTypeOK
      <3>3. QED
        BY <1>2, <2>1, <2>2, <3>1, <3>2, CommitHandles
    <2>9. ShownReached'
      BY <1>1, <1>2, <2>1, <2>2, CommitShown
    <2>10. QED
      BY <2>3, <2>5, <2>6, <2>7, <2>8, <2>9 DEF AloneIInv
  <1>4. QED
    BY <1>1, <1>3 DEF MeasureIInv

-----------------------------------------------------------------------------
(* The theorems.                                                            *)

\* Initially nothing is stored, open or compared.
LEMMA MeasureInitInv == MeasureInit => MeasureIInv
  <1> SUFFICES ASSUME MeasureInit PROVE MeasureIInv
    OBVIOUS
  <1>1. ConsumerIInv
    BY ConsumerInitInv DEF MeasureInit
  <1>2. Stored = {} /\ handled = {} /\ judged = {} /\ \A w \in Workers : tx[w] = NoTx
    BY DEF MeasureInit, ConsumerInit, Stored, NoRow
  <1>3. MeasureTypeOK
    <2>1. target \in [Targets -> TargetRecord]
      <3>1. \A t \in Targets : TargetOf[t] \in TargetTerms
        BY PerformanceAssumption DEF PerformanceAssumption
      <3>2. \A t \in Targets :
              [dealer |-> TargetOf[t].dealer, spec |-> TargetOf[t].spec,
               goal |-> TargetOf[t].goal, from |-> TargetOf[t].from,
               to |-> TargetOf[t].to, status |-> "NONE"] \in TargetRecord
        BY <3>1 DEF TargetTerms, TargetRecord
      <3>3. QED
        BY <3>2 DEF MeasureInit
    <2>2. rows \in [RowIds -> RowRecord] /\ tx \in [Workers -> TxRecord]
      BY NoTxType DEF MeasureInit
    <2>3. dash \in [Dashboards -> DashRecord]
      <3>1. NotAsked \in DashRecord
        BY DEF NotAsked, DashRecord
      <3>2. QED
        BY <3>1 DEF MeasureInit
    <2>4. counted \in [SaleEvents \X Kpis \X Specs -> Nat]
      BY DEF MeasureInit
    <2>5. QED
      BY <2>1, <2>2, <2>3, <2>4, PerformanceAssumption
      DEF MeasureInit, MeasureTypeOK, PerformanceAssumption
  <1>4. OpenInv /\ AloneOpen /\ TxsOK
    BY <1>2, NoTxType DEF OpenInv, AloneOpen, TxsOK
  <1>5. OneRowEach /\ SumsOK /\ HandledOK
    BY <1>2 DEF OneRowEach, SumsOK, HandledOK
  <1>6. CountedStored
    BY DEF MeasureInit, CountedStored
  <1>7. TargetsOK
    BY <1>2 DEF MeasureInit, TargetsOK, StatusOK, Reached
  <1>8. ShownReached
    BY DEF MeasureInit, ShownReached, NotAsked
  <1>9. QED
    BY <1>1, <1>3, <1>4, <1>5, <1>6, <1>7, <1>8 DEF MeasureIInv, AloneIInv

\* Every step keeps the invariant.
LEMMA MeasureNextInv == MeasureIInv /\ [MeasureNext]_measureVars => MeasureIInv'
  <1> SUFFICES ASSUME MeasureIInv, [MeasureNext]_measureVars PROVE MeasureIInv'
    OBVIOUS
  <1>0. ConsumerIInv'
    BY MeasureStepIsLoopStep, ConsumerNextInv DEF MeasureIInv
  <1>1. ASSUME NEW w \in Workers, MeasureStep(w) PROVE MeasureIInv'
    <2>1. CASE TwoRowsFound(w)
      BY <1>0, <2>1, MeasureLoopInv
    <2>2. CASE ResolveSpecs(w)
      BY <1>0, <2>2, ResolveSpecsInv
    <2>3. CASE ReadMeasurement(w)
      BY <1>0, <2>3, ReadMeasurementInv
    <2>4. CASE WriteMeasurement(w)
      BY <1>0, <2>4, WriteMeasurementInv
    <2>5. CASE CheckTargets(w)
      BY <1>0, <2>5, CheckTargetsInv
    <2>6. CASE SetTargets(w)
      BY <1>0, <2>6, SetTargetsInv
    <2>7. CASE CommitSale(w)
      BY <1>0, <2>7, CommitSaleInv
    <2>8. QED
      BY <1>1, <2>1, <2>2, <2>3, <2>4, <2>5, <2>6, <2>7 DEF MeasureStep
  <1>2. ASSUME NEW w \in Workers,
               \/ BetweenSales(w) \/ StatementRaises(w) \/ MeasureCrash(w)
               \/ TaskDies(w) /\ UNCHANGED performanceVars
        PROVE  MeasureIInv'
    BY <1>0, <1>2, MeasureLoopInv
  <1>3. ASSUME NEW p \in Partitions, NEW w \in Workers,
               Reassign(p, w), UNCHANGED performanceVars
        PROVE  MeasureIInv'
    BY <1>0, <1>3, MeasureMoveInv
  <1>4. ASSUME NEW n \in Namings, NameSpec(n[1], n[2]) PROVE MeasureIInv'
    BY <1>0, <1>4, NameSpecInv
  <1>5. ASSUME NEW t \in Targets, CreateTarget(t) PROVE MeasureIInv'
    BY <1>0, <1>5, CreateTargetInv
  <1>6. ASSUME NEW t \in Targets, NEW patch \in TargetPatches, PatchTarget(t, patch)
        PROVE  MeasureIInv'
    BY <1>0, <1>6, PatchTargetInv
  <1>7. ASSUME NEW d \in Dashboards,
               \/ \E dealer \in Dealers, m \in Months : ReadMeasurements(d, dealer, m)
               \/ ReadTargets(d)
        PROVE  MeasureIInv'
    BY <1>0, <1>7, DashboardInv
  <1>8. CASE UNCHANGED measureVars
    BY <1>0, <1>8, MeasureStutterInv
  <1>9. QED
    BY <1>1, <1>2, <1>3, <1>4, <1>5, <1>6, <1>7, <1>8 DEF MeasureNext

\* The invariant holds in every state the service reaches.
LEMMA MeasureInvariant == MeasureSpec => []MeasureIInv
  <1>1. QED
    BY MeasureInitInv, MeasureNextInv, PTL DEF MeasureSpec

\* The tables, the open transactions and what dashboards read keep their types: in
\* particular no measurement is negative and none is without a source (models.py of
\* performance-service).
THEOREM MeasureTyping == MeasureSpec => []MeasureTypeOK
  <1>1. MeasureIInv => MeasureTypeOK
    BY DEF MeasureIInv
  <1>2. QED
    BY <1>1, MeasureInvariant, PTL

\* When partitions only move between events, no two transactions with sales of one dealer
\* are ever open at a time, since sell-out-service keys its events by dealer: what
\* follows then holds in every state (consume(), event_publisher.py of sell-out-service).
THEOREM SalesNeverCross == ASSUME ~ZombieHandoff PROVE MeasureSpec => []~crossed
  <1>1. MeasureInit => ~crossed
    BY DEF MeasureInit
  <1>2. ASSUME MeasureIInv, ~crossed, [MeasureNext]_measureVars PROVE ~crossed'
    <2>1. ASSUME NEW w \in Workers, ResolveSpecs(w) PROVE ~crossed'
      <3> SUFFICES ASSUME NEW v \in Workers, v # w, tx[v] # NoTx,
                          EventOf(v).dealer = EventOf(w).dealer
                   PROVE  FALSE
        BY <1>2, <2>1 DEF ResolveSpecs
      <3>1. task[v].phase = "handling" /\ task[w].phase = "handling"
        BY <1>2, <2>1 DEF MeasureIInv, OpenInv, ResolveSpecs
      <3>2. Busy(v) /\ Busy(w)
        BY <3>1 DEF Busy
      <3>3. HandOK(v) /\ HandOK(w)
        BY <1>2, <3>2 DEF MeasureIInv, ConsumerIInv, HandInv
      <3>4. task[v].part = task[w].part
        <4>1. /\ task[v].part \in Partitions /\ task[v].pos \in 1..Len(Log[task[v].part])
              /\ task[w].part \in Partitions /\ task[w].pos \in 1..Len(Log[task[w].part])
          BY <3>3 DEF HandOK
        <4>2. Log[task[v].part][task[v].pos].dealer = Log[task[w].part][task[w].pos].dealer
          BY DEF EventOf
        <4>3. QED
          BY <4>1, <4>2, SalesKeyedByDealer DEF SalesKeyedByDealer
      <3>5. task[v].held /\ task[w].held
        BY <3>3 DEF HandOK
      <3>6. QED
        BY <3>3, <3>4, <3>5 DEF HandOK
    <2>2. ASSUME NEW w \in Workers, MeasureStep(w), ~ResolveSpecs(w) PROVE crossed' = crossed
      BY <2>2 DEF MeasureStep, ReadMeasurement, TwoRowsFound, WriteMeasurement, CheckTargets,
         SetTargets, CommitSale, TxGoes
    <2>3. ASSUME NEW w \in Workers,
                 \/ BetweenSales(w) \/ StatementRaises(w) \/ MeasureCrash(w)
                 \/ TaskDies(w) /\ UNCHANGED performanceVars
          PROVE  crossed' = crossed
      BY <2>3 DEF BetweenSales, StatementRaises, MeasureCrash, performanceVars
    <2>4. ASSUME UNCHANGED performanceVars PROVE crossed' = crossed
      BY <2>4 DEF performanceVars
    <2>5. ASSUME NEW n \in Namings, NameSpec(n[1], n[2]) PROVE crossed' = crossed
      BY <2>5 DEF NameSpec
    <2>6. ASSUME NEW t \in Targets,
                 CreateTarget(t) \/ \E patch \in TargetPatches : PatchTarget(t, patch)
          PROVE  crossed' = crossed
      BY <2>6 DEF CreateTarget, PatchTarget
    <2>7. ASSUME NEW d \in Dashboards,
                 \/ \E dealer \in Dealers, m \in Months : ReadMeasurements(d, dealer, m)
                 \/ ReadTargets(d)
          PROVE  crossed' = crossed
      BY <2>7 DEF ReadMeasurements, ReadTargets
    <2>8. QED
      BY <1>2, <2>1, <2>2, <2>3, <2>4, <2>5, <2>6, <2>7 DEF MeasureNext, measureVars
  <1>3. QED
    BY <1>1, <1>2, MeasureInvariant, PTL DEF MeasureSpec

\* As long as no two of a dealer's sales were handled at a time, each measurement is the
\* sum of what the deliveries of its sales have added to it, and names these sales,
\* whatever was rolled back, delivered again or renamed meanwhile (upsert).
THEOREM MeasurementsAreSales == MeasureSpec => []MeasuredIsSold
  <1>1. MeasureIInv => MeasuredIsSold
    BY DEF MeasureIInv, AloneIInv, SumsOK, MeasuredIsSold
  <1>2. QED
    BY <1>1, MeasureInvariant, PTL

\* With a dead letter producer, as long as no two of a dealer's sales were handled at a
\* time, a sale whose event is settled is measured or parked (_handle_sell_out_event,
\* consume()).
THEOREM SettledSalesMeasured ==
  ASSUME HasDlqProducer PROVE MeasureSpec => []SettledSaleMeasured
  <1>1. ASSUME MeasureIInv PROVE SettledSaleMeasured
    <2> SUFFICES ASSUME ~crossed, NEW p \in Partitions, NEW i \in 1..committed[p],
                        <<p, i>> \notin dlq, NEW k \in Kpis, <<<<p, i>>, k>> \notin unnamed
                 PROVE  \E s \in Specs :
                          /\ counted[<<<<p, i>>, k, s>>] > 0
                          /\ \E r \in RowsOf(Log[p][i].dealer, s, Log[p][i].month) :
                               <<p, i>> \in rows[r].sources
      BY DEF SettledSaleMeasured
    <2>1. <<p, i>> \in handled
      BY <1>1 DEF MeasureIInv, ConsumerIInv, NoEventLost
    <2>2. SaleMeasured(<<p, i>>)
      BY <1>1, <2>1 DEF MeasureIInv, AloneIInv, HandledOK
    <2>3. SaleAt(<<p, i>>) = Log[p][i]
      BY DEF SaleAt
    <2>4. QED
      BY <2>2, <2>3 DEF SaleMeasured
  <1>2. QED
    BY <1>1, MeasureInvariant, PTL

\* Until it is patched, a target is achieved exactly if a month it was compared with
\* has reached its goal (_handle_sell_out_event).
THEOREM StatusIsTheMeasure == MeasureSpec => []StatusTellsTheMeasure
  <1>1. ASSUME MeasureIInv PROVE StatusTellsTheMeasure
    <2> SUFFICES ASSUME ~crossed, NEW t \in Targets \ edited
                 PROVE  target[t].status = "ACHIEVED" <=>
                          \E m \in target[t].from..target[t].to :
                            /\ <<t, m>> \in judged
                            /\ \E r \in RowsOf(target[t].dealer, target[t].spec, m) :
                                 rows[r].value >= target[t].goal
      BY DEF StatusTellsTheMeasure
    <2>1. StatusOK(t) /\ judged \subseteq Targets \X Months
      BY <1>1 DEF MeasureIInv, AloneIInv, TargetsOK, MeasureTypeOK
    <2>2. Months \subseteq Nat /\ target[t].from \in Nat /\ target[t].to \in Nat
      BY <1>1, PerformanceAssumption
      DEF PerformanceAssumption, MeasureIInv, MeasureTypeOK, TargetRecord
    <2>3. \A m : m \in Months /\ target[t].from <= m /\ m <= target[t].to /\ <<t, m>> \in judged
                   <=> m \in target[t].from..target[t].to /\ <<t, m>> \in judged
      <3> SUFFICES ASSUME NEW m, <<t, m>> \in judged
                   PROVE  m \in Months /\ target[t].from <= m /\ m <= target[t].to
                            <=> m \in target[t].from..target[t].to
        OBVIOUS
      <3>1. m \in Months /\ m \in Nat
        BY <2>1, <2>2
      <3>2. QED
        BY <2>2, <3>1
    <2>4. Reached(t) <=> \E m \in target[t].from..target[t].to :
                           /\ <<t, m>> \in judged
                           /\ \E r \in RowsOf(target[t].dealer, target[t].spec, m) :
                                rows[r].value >= target[t].goal
      BY <2>3 DEF Reached
    <2>5. QED
      BY <2>1, <2>4 DEF StatusOK
  <1>2. QED
    BY <1>1, MeasureInvariant, PTL

\* A dashboard that answers calls no target reached that is still active although its
\* month was compared with it (get_dashboard).
THEOREM DashboardsNotAhead == MeasureSpec => DashboardNotAhead
  <1>1. ASSUME MeasureIInv, NEW d \in Dashboards, ~crossed, NEW x \in dash[d].shown,
               NEW t \in Targets \ edited, CalledReached(x, t), <<t, x.row.month>> \in judged
        PROVE  target[t].status = "ACHIEVED"
    <2>1. x.row \in Stored /\ rows[x.row].value >= x.value /\ StatusOK(t)
      BY <1>1 DEF MeasureIInv, AloneIInv, ShownReached, TargetsOK
    <2>2. /\ x.value \in Nat /\ rows[x.row].value \in Nat /\ target[t].goal \in Nat
          /\ x.row.month \in Months /\ Months \subseteq Nat
          /\ target[t].from \in Nat /\ target[t].to \in Nat
      <3>1. x \in [row : RowIds, value : Nat] /\ rows[x.row] \in RowRecord
        BY <1>1, <2>1 DEF MeasureIInv, MeasureTypeOK, DashRecord, Stored
      <3>2. target[t] \in TargetRecord /\ Months \subseteq Nat
        BY <1>1, PerformanceAssumption DEF PerformanceAssumption, MeasureIInv, MeasureTypeOK
      <3>3. QED
        BY <3>1, <3>2 DEF RowIds, RowRecord, TargetRecord
    <2>3. /\ target[t].dealer = x.row.dealer /\ target[t].spec = x.row.spec
          /\ target[t].from <= x.row.month /\ x.row.month <= target[t].to
          /\ x.value >= target[t].goal
      BY <1>1, <2>2 DEF CalledReached, TargetsFor
    <2>4. rows[x.row].value >= target[t].goal
      BY <2>1, <2>2, <2>3
    <2>5. Reached(t)
      BY <1>1, <2>1, <2>2, <2>3, <2>4 DEF Reached, RowsOf
    <2>6. QED
      BY <2>1, <2>5 DEF StatusOK
  <1>2. MeasureIInv =>
          [\A d \in Dashboards :
             dash[d].step = "measured" /\ dash'[d] = NotAsked /\ ~crossed =>
               \A x \in dash[d].shown, t \in Targets \ edited :
                 CalledReached(x, t) /\ <<t, x.row.month>> \in judged
                 => target[t].status = "ACHIEVED"]_measureVars
    BY <1>1
  <1>3. QED
    BY <1>2, MeasureInvariant, PTL DEF DashboardNotAhead
=============================================================================
