------------------------------- MODULE SellOut -------------------------------
(***************************************************************************)
(* sell-out-service: sales at the counter, their reversal, returns and POS *)
(* sessions, all over the API.                                             *)
(*                                                                         *)
(* A request is one database transaction.  It reads what it needs, decides *)
(* in Python, writes, sends its event and commits, in this order, and other*)
(* requests run between any two of these.  The database is PostgreSQL at   *)
(* READ COMMITTED (external): others see a row as it was last committed,   *)
(* and wait when they write one that an open transaction has written.      *)
(*                                                                         *)
(* Before a sale is written stock-query-service is asked for each line, at *)
(* a path that service has no endpoint for: the answer is "not found", and *)
(* only a service that cannot be reached lets a line pass.                 *)
(* Prices, discounts and the flag commission_eligible, which is looked up  *)
(* in the catalogue line by line, are data nothing here depends on.        *)
(***************************************************************************)
EXTENDS Integers, Sequences

CONSTANTS
  Sales,         \* sale rows, one for each POST /saleTransaction
  Lines,         \* Lines[t]: the lines of sale t
  Products,
  Shown,         \* Shown[p]: net_quantity of p in the read model
  NotFound,      \* answer to a request no endpoint matches
  Returns,       \* return rows
  Sessions,      \* POS sessions
  Slots,         \* requests that may be open at the same time
  NoDoc, NoOp,   \* document and operation of a slot without a request
  MaxRequests,   \* bound on the requests made
  Outages        \* whether stock-query-service may be unreachable

Docs == Sales \cup Returns \cup Sessions

ASSUME SellOutAssumption ==
  /\ Sales \cap Returns = {} /\ Sales \cap Sessions = {} /\ Returns \cap Sessions = {}
  /\ NoDoc \notin Docs
  /\ Shown \in [Products -> Nat]
  /\ NotFound \notin Nat
  /\ \A t \in Sales : Lines[t] \in Seq([product : Products, quantity : Nat])
  /\ MaxRequests \in Nat
  /\ Outages \in BOOLEAN

VARIABLES
  status,       \* status[d]: the committed status of a sale, return or session
  req,          \* req[x]: the request in slot x
  made,         \* how many requests were made
  completed,    \* sales a telco.sales.sellout.completed event was sent for
  announced,    \* announced[d]: reversed events of a sale, processed events of a return
  decided,      \* decided[d]: committed reversals, approvals, rejections and closings
  overlapped,   \* documents two requests had in hand at a time
  patched,      \* sales whose status was patched
  dropped       \* documents with an event sent by a request that did not commit

history == <<completed, announced, decided, overlapped, patched, dropped>>
vars == <<status, req, made, history>>

NoRequest == [op |-> NoOp, doc |-> NoDoc, step |-> "idle", line |-> 0, writes |-> FALSE]

Init ==
  /\ status = [d \in Docs |-> "NONE"]
  /\ req = [x \in Slots |-> NoRequest]
  /\ made = 0
  /\ completed = {}
  /\ announced = [d \in Docs |-> 0]
  /\ decided = [d \in Docs |-> 0]
  /\ overlapped = {}
  /\ patched = {}
  /\ dropped = {}

-----------------------------------------------------------------------------
(* The operations: on which documents, which status they must find, which  *)
(* they write, and the event they send first.                              *)

Op(name, on, from, to, event) ==
  [name |-> name, on |-> on, from |-> from, to |-> to, event |-> event]

\* Mutants: a closed session can be closed; a rejection is published as well.
CloseAny == Op("close", Sessions, {"OPEN", "CLOSED"}, "CLOSED", "none")
RejectLoudly == Op("reject", Returns, {"PENDING"}, "REJECTED", "processed")

Create == Op("create", Sales, {"NONE"}, "COMPLETED", "completed")
Reverse == Op("reverse", Sales, {"COMPLETED"}, "REVERSED", "reversed")
Approve == Op("approve", Returns, {"PENDING"}, "APPROVED", "processed")
Reject == Op("reject", Returns, {"PENDING"}, "REJECTED", "none")
Close == Op("close", Sessions, {"OPEN"}, "CLOSED", "none")

\* PATCH with another status than REVERSED: no condition, no event.  A status that
\* is there already is not written again.
Patch(to) == Op("patch", Sales, {"PENDING", "COMPLETED", "REVERSED"} \ {to}, to, "none")

Decisions == {Reverse, Approve, Reject, Close}

Updates == Decisions \cup {Patch("PENDING"), Patch("COMPLETED")}
Operations == {Create} \cup Updates

-----------------------------------------------------------------------------
RequestsFor(d) == {x \in Slots : req[x].doc = d}

Begin(x, d, op, step) ==
  /\ req[x].step = "idle"
  /\ made < MaxRequests
  /\ made' = made + 1
  /\ req' = [req EXCEPT ![x] =
               [op |-> op, doc |-> d, step |-> step, line |-> 1, writes |-> FALSE]]
  /\ overlapped' = overlapped \cup {c \in {d} : RequestsFor(c) # {}}

Goes(x, step) == req' = [req EXCEPT ![x] = [@ EXCEPT !.step = step]]
Writes(x) == req' = [req EXCEPT ![x] = [@ EXCEPT !.step = "written", !.writes = TRUE]]
Ends(x) == req' = [req EXCEPT ![x] = NoRequest]

\* A return, and a session, is inserted as it is.
CreateReturn(r) ==
  /\ status[r] = "NONE"
  /\ status' = [status EXCEPT ![r] = "PENDING"]
  /\ UNCHANGED <<req, made, history>>

OpenSession(s) ==
  /\ status[s] = "NONE"
  /\ status' = [status EXCEPT ![s] = "OPEN"]
  /\ UNCHANGED <<req, made, history>>

\* POST /saleTransaction with a row id nobody has seen yet.
BeginSale(x, t) ==
  /\ status[t] = "NONE" /\ RequestsFor(t) = {} /\ t \notin completed
  /\ Begin(x, t, Create, "checking")
  /\ UNCHANGED <<status, completed, announced, decided, patched, dropped>>

\* Path parameters of the endpoints under /stockAvailability, and those the check puts
\* behind it.
StockEndpoints == {<<>>, <<"product", "location">>}
AskedPath == <<"product">>

StockAnswer(p) == IF AskedPath \in StockEndpoints THEN Shown[p] ELSE NotFound

Enough(line) ==
  StockAnswer(line.product) # NotFound /\ StockAnswer(line.product) >= line.quantity

\* One round of _check_stock_availability: the next line, or the refusal of the sale.
CheckStock(x) ==
  LET t == req[x].doc
      i == req[x].line IN
  /\ req[x].step = "checking" /\ i <= Len(Lines[t])
  /\ \E reachable \in {TRUE, ~Outages} :
       IF reachable => Enough(Lines[t][i])
         THEN req' = [req EXCEPT ![x] = [@ EXCEPT !.line = i + 1]]
         ELSE Ends(x)
  /\ UNCHANGED <<status, made, completed, announced, decided, overlapped, patched, dropped>>

\* Catalogue lookups and the insert of the sale and its lines.
InsertSale(x) ==
  /\ req[x].step = "checking"
  /\ req[x].line > Len(Lines[req[x].doc])
  /\ Writes(x)
  /\ UNCHANGED <<status, made, history>>

\* get_by_id and the check of what it returned; a refused request leaves no trace.
ReadDoc(x, d, op) ==
  /\ d \in op.on
  /\ status[d] \in op.from
  /\ Begin(x, d, op, "read")
  /\ UNCHANGED <<status, completed, announced, decided, patched, dropped>>

\* UPDATE by primary key: waits for the row, and overwrites what is there then.
WriteDoc(x) ==
  /\ req[x].step = "read"
  /\ \A y \in RequestsFor(req[x].doc) : ~req[y].writes
  /\ Writes(x)
  /\ UNCHANGED <<status, made, history>>

\* update_status may have to load the row again (the session holds what get_by_id read
\* by weak references only).  If somebody has set the status by then there is nothing to
\* write and nothing to wait for; closing a session always sets its closing time.
KeepDoc(x) ==
  /\ req[x].step = "read"
  /\ req[x].op \in {Reverse, Approve, Reject}
  /\ status[req[x].doc] = req[x].op.to
  /\ Goes(x, "written")
  /\ UNCHANGED <<status, made, history>>

\* Mutant: a failed send is logged and the request goes on.
SendBestEffort(x) ==
  /\ req[x].step = "written"
  /\ req[x].op.event # "none"
  /\ \/ /\ req[x].op.event = "completed"
        /\ completed' = completed \cup {req[x].doc}
        /\ UNCHANGED announced
     \/ /\ req[x].op.event # "completed"
        /\ announced' = [announced EXCEPT ![req[x].doc] = @ + 1]
        /\ UNCHANGED completed
     \/ UNCHANGED <<announced, completed>>
  /\ Goes(x, "sent")
  /\ UNCHANGED <<status, made, decided, overlapped, patched, dropped>>

SendEvent(x) ==
  /\ req[x].step = "written"
  /\ req[x].op.event # "none"
  /\ IF req[x].op.event = "completed"
       THEN completed' = completed \cup {req[x].doc} /\ UNCHANGED announced
       ELSE announced' = [announced EXCEPT ![req[x].doc] = @ + 1] /\ UNCHANGED completed
  /\ Goes(x, "sent")
  /\ UNCHANGED <<status, made, decided, overlapped, patched, dropped>>

\* get_db_session commits when the handler has returned.
CommitRequest(x) ==
  LET op == req[x].op
      d == req[x].doc IN
  /\ \/ req[x].step = "sent"
     \/ req[x].step = "written" /\ op.event = "none"
  /\ status' = IF req[x].writes THEN [status EXCEPT ![d] = op.to] ELSE status
  /\ decided' = IF op \in Decisions THEN [decided EXCEPT ![d] = @ + 1] ELSE decided
  /\ patched' = patched \cup {c \in {d} : op \in {Patch("PENDING"), Patch("COMPLETED")}}
  /\ Ends(x)
  /\ UNCHANGED <<made, completed, announced, overlapped, dropped>>

\* A refusal, an exception or the end of the process: the transaction rolls back, an
\* event that went out stays out.
Fails(x) ==
  /\ req[x].step # "idle"
  /\ dropped' = dropped \cup {d \in {req[x].doc} : req[x].step = "sent"}
  /\ Ends(x)
  /\ UNCHANGED <<status, made, completed, announced, decided, overlapped, patched>>

Next ==
  \/ \E r \in Returns : CreateReturn(r)
  \/ \E s \in Sessions : OpenSession(s)
  \/ \E x \in Slots :
       \/ \E t \in Sales : BeginSale(x, t)
       \/ \E d \in Docs, op \in Updates : ReadDoc(x, d, op)
       \/ CheckStock(x) \/ InsertSale(x) \/ WriteDoc(x) \/ KeepDoc(x)
       \/ SendEvent(x) \/ CommitRequest(x) \/ Fails(x)

Spec == Init /\ [][Next]_vars

-----------------------------------------------------------------------------
(* Properties.                                                             *)

RequestType == [op : Operations \cup {NoOp}, doc : Docs \cup {NoDoc},
                step : {"idle", "checking", "read", "written", "sent"},
                line : Nat, writes : BOOLEAN]

SellOutTypeOK ==
  /\ status \in [Docs -> {"NONE", "PENDING", "COMPLETED", "REVERSED", "APPROVED", "REJECTED",
                          "OPEN", "CLOSED"}]
  /\ req \in [Slots -> RequestType]
  /\ made \in 0..MaxRequests
  /\ completed \subseteq Sales
  /\ announced \in [Docs -> Nat] /\ decided \in [Docs -> Nat]
  /\ overlapped \cup patched \cup dropped \subseteq Docs

\* Whatever fails and whoever interferes, what the database says was announced: a
\* stored sale by a completed event, a reversed sale and an approved return by theirs.
StoredIsAnnounced ==
  /\ \A t \in Sales : status[t] # "NONE" => t \in completed
  /\ \A d \in Docs : status[d] \in {"REVERSED", "APPROVED"} => announced[d] >= 1

\* The other way round, for a document that no two requests had in hand, that was not
\* patched and lost no transaction after an event: no event speaks of a sale that is
\* not there, of a reversal or approval that did not happen, or of one twice.
AnnouncedIsStored ==
  \A d \in Docs \ (overlapped \cup patched \cup dropped) :
    RequestsFor(d) = {} =>
      /\ d \in completed => status[d] # "NONE"
      /\ announced[d] = IF status[d] \in {"REVERSED", "APPROVED"} THEN 1 ELSE 0

\* A sale is reversed once, a return is approved or rejected once and not both, and a
\* session is closed once, however often it is asked for, unless two requests
\* overlap or the status is patched back in between.
DecidedOnce == \A d \in Docs \ (overlapped \cup patched) : decided[d] <= 1
=============================================================================
