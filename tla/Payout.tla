------------------------------- MODULE Payout -------------------------------
(***************************************************************************)
(* payout-service: each statement.confirmed event becomes a payout request *)
(* (consumer), finance creates requests by hand and has them paid through  *)
(* the payment gateway (API).                                              *)
(*                                                                         *)
(* The replicas run the consumer loop of KafkaConsumer.  Handler calls and *)
(* API requests are one database transaction each; what others see of them *)
(* changes at the commit, which comes after the event they send.           *)
(***************************************************************************)
EXTENDS KafkaConsumer
LOCAL INSTANCE FiniteSetsExt

CONSTANTS
  Statements,     \* confirmed commission statements
  Totals,         \* amounts a statement.confirmed event may carry
  Calls,          \* calls of POST /payoutRequest/{id}/process
  NoCall,         \* the request of a call that has not started
  Unreadable,     \* events whose payload does not validate
  MaxByHand       \* bound on the requests created over the API

ASSUME PayoutAssumption ==
  /\ Events \subseteq [statement : Statements, total : Totals]
  /\ Unreadable \subseteq Events
  /\ Totals \subseteq Nat
  /\ MaxByHand \in Nat

VARIABLES
  requests,   \* committed payout_request rows, in the order of their commits
  created,    \* created[s]: telco.payout.request.created events sent for s
  byHand,     \* how many requests the API created
  job,        \* job[w]: how far replica w is in handle_statement_confirmed
  call,       \* call[c]: how far a process call is
  paid,       \* paid[i]: successful gateway calls for request i (external)
  completed   \* requests a telco.payout.request.completed event was sent for

payoutVars == <<requests, created, byHand, job, call, paid, completed>>
vars == <<consumerVars, payoutVars>>

Ids == 1..Len(requests)
NotCalled == [step |-> "idle", id |-> NoCall, outcome |-> "PENDING"]

Init ==
  /\ ConsumerInit
  /\ requests = <<>>
  /\ created = [s \in Statements |-> 0]
  /\ byHand = 0
  /\ job = [w \in Workers |-> "idle"]
  /\ call = [c \in Calls |-> NotCalled]
  /\ paid = <<>>
  /\ completed = {}

Pending(s, amount) == [statement |-> s, amount |-> amount, status |-> "PENDING"]
Insert(row) ==
  /\ requests' = Append(requests, row)
  /\ paid' = Append(paid, 0)

-----------------------------------------------------------------------------
(* handle_statement_confirmed: create_payout_request, then commit.  Nothing *)
(* is looked up first, so each delivery of an event creates a request.      *)

Readable(w) == task[w].phase = "handling" /\ EventOf(w) \notin Unreadable

\* A payload that does not validate is logged, and the event settled.
PayloadIgnored(w) ==
  /\ task[w].phase = "handling"
  /\ EventOf(w) \in Unreadable
  /\ job[w] = "idle"
  /\ HandlerReturns(w)
  /\ UNCHANGED payoutVars

\* Mutant: a statement that already has a request is acknowledged as it is, even
\* though the request may carry another amount.
CreateUnlessRequested(w) ==
  /\ Readable(w)
  /\ job[w] = "idle"
  /\ IF \E i \in Ids : requests[i].statement = EventOf(w).statement
     THEN HandlerReturns(w) /\ UNCHANGED payoutVars
     ELSE /\ job' = [job EXCEPT ![w] = "flushed"]
          /\ UNCHANGED <<consumerVars, requests, created, byHand, call, paid, completed>>

\* The row is flushed.
CreateRequest(w) ==
  /\ Readable(w)
  /\ job[w] = "idle"
  /\ job' = [job EXCEPT ![w] = "flushed"]
  /\ UNCHANGED <<consumerVars, requests, created, byHand, call, paid, completed>>

SendCreated(w) ==
  /\ job[w] = "flushed"
  /\ created' = [created EXCEPT ![EventOf(w).statement] = @ + 1]
  /\ job' = [job EXCEPT ![w] = "sent"]
  /\ UNCHANGED <<consumerVars, requests, byHand, call, paid, completed>>

\* session.commit(), which may raise although it succeeded.
CommitRequest(w) ==
  /\ job[w] = "sent"
  /\ Insert(Pending(EventOf(w).statement, EventOf(w).total))
  /\ HandlerReturns(w) \/ ("transient" \in Faults /\ HandlerRaises(w))
  /\ job' = [job EXCEPT ![w] = "idle"]
  /\ UNCHANGED <<created, byHand, call, completed>>

\* Any statement or send may raise; the transaction rolls back.
TransientError(w) ==
  /\ "transient" \in Faults
  /\ job[w] # "idle"
  /\ HandlerRaises(w)
  /\ job' = [job EXCEPT ![w] = "idle"]
  /\ UNCHANGED <<requests, created, byHand, call, paid, completed>>

-----------------------------------------------------------------------------
(* The API.                                                                *)

\* POST /payoutRequest: the same create_payout_request, for any amount.  A
\* request that fails after its event was sent leaves the event behind.
CreateByHand(s, amount) ==
  /\ byHand < MaxByHand
  /\ byHand' = byHand + 1
  /\ created' = [created EXCEPT ![s] = @ + 1]
  /\ \/ Insert(Pending(s, amount))
     \/ "transient" \in Faults /\ UNCHANGED <<requests, paid>>
  /\ UNCHANGED <<consumerVars, job, call, completed>>

\* POST /payoutRequest/{id}/process: the row is read, whatever its status.
ProcessRead(c, i) ==
  /\ call[c] = NotCalled
  /\ call' = [call EXCEPT ![c] = [step |-> "read", id |-> i, outcome |-> "PENDING"]]
  /\ UNCHANGED <<consumerVars, requests, created, byHand, job, paid, completed>>

\* The payment gateway pays or refuses (external: the code draws at random).
Gateway(c) ==
  /\ call[c].step = "read"
  /\ \E outcome \in {"COMPLETED", "FAILED"} :
       /\ call' = [call EXCEPT ![c].step = "called", ![c].outcome = outcome]
       /\ paid' = IF outcome = "COMPLETED" THEN [paid EXCEPT ![call[c].id] = @ + 1] ELSE paid
  /\ UNCHANGED <<consumerVars, requests, created, byHand, job, completed>>

\* update_status locks the row until this call commits (external: PostgreSQL).
Locked(i) == \E c \in Calls : call[c].id = i /\ call[c].step \in {"updated", "sent"}

UpdateStatus(c) ==
  /\ call[c].step = "called"
  /\ ~Locked(call[c].id)
  /\ call' = [call EXCEPT ![c].step = "updated"]
  /\ UNCHANGED <<consumerVars, requests, created, byHand, job, paid, completed>>

\* The completed event is sent whatever the outcome was.
SendCompleted(c) ==
  /\ call[c].step = "updated"
  /\ completed' = completed \cup {call[c].id}
  /\ call' = [call EXCEPT ![c].step = "sent"]
  /\ UNCHANGED <<consumerVars, requests, created, byHand, job, paid>>

\* Mutant: the outcome is taken for a success.
CommitCompleted(c) ==
  /\ call[c].step = "sent"
  /\ requests' = [requests EXCEPT ![call[c].id].status = "COMPLETED"]
  /\ call' = [call EXCEPT ![c].step = "done"]
  /\ UNCHANGED <<consumerVars, created, byHand, job, paid, completed>>

CommitOutcome(c) ==
  /\ call[c].step = "sent"
  /\ requests' = [requests EXCEPT ![call[c].id].status = call[c].outcome]
  /\ call' = [call EXCEPT ![c].step = "done"]
  /\ UNCHANGED <<consumerVars, created, byHand, job, paid, completed>>

\* The call fails after the gateway paid, or before: nothing of it is stored.
ProcessFails(c) ==
  /\ "transient" \in Faults
  /\ call[c].step \in {"read", "called", "updated", "sent"}
  /\ call' = [call EXCEPT ![c].step = "done"]
  /\ UNCHANGED <<consumerVars, requests, created, byHand, job, paid, completed>>

-----------------------------------------------------------------------------
HandlerStep(w) ==
  CreateRequest(w) \/ SendCreated(w) \/ CommitRequest(w) \/ PayloadIgnored(w)

OutsideHandler(w) ==
  /\ \/ \E p \in Partitions : Poll(w, p)
     \/ Commit(w) \/ CommitRaises(w) \/ RouteToDlq(w) \/ CommitSkipped(w)
  /\ UNCHANGED payoutVars

\* A crash loses the open transaction of the handler.
ServiceCrash(w) ==
  /\ Crash(w)
  /\ job' = [job EXCEPT ![w] = "idle"]
  /\ UNCHANGED <<requests, created, byHand, call, paid, completed>>

ProcessStep(c) == Gateway(c) \/ UpdateStatus(c) \/ SendCompleted(c) \/ CommitOutcome(c)

Next ==
  \/ \E w \in Workers : \/ HandlerStep(w) \/ OutsideHandler(w) \/ TransientError(w)
                        \/ ServiceCrash(w)
                        \/ TaskDies(w) /\ UNCHANGED payoutVars
  \/ \E p \in Partitions, w \in Workers : Reassign(p, w) /\ UNCHANGED payoutVars
  \/ \E s \in Statements, amount \in Totals : CreateByHand(s, amount)
  \/ \E c \in Calls : \/ \E i \in Ids : ProcessRead(c, i)
                      \/ ProcessStep(c) \/ ProcessFails(c)

Spec == Init /\ [][Next]_vars

-----------------------------------------------------------------------------
(* Properties.                                                             *)

RequestRow == [statement : Statements, amount : Nat,
               status : {"PENDING", "COMPLETED", "FAILED"}]

\* The rows, calls and counters keep their types, and each request has its count of
\* payments (models.py of payout-service).
PayoutTypeOK ==
  /\ requests \in Seq(RequestRow)
  /\ created \in [Statements -> Nat]
  /\ byHand \in 0..MaxByHand
  /\ job \in [Workers -> {"idle", "flushed", "sent"}]
  /\ call \in [Calls -> [step : {"idle", "read", "called", "updated", "sent", "done"},
                         id : Nat \cup {NoCall},
                         outcome : {"PENDING", "COMPLETED", "FAILED"}]]
  /\ paid \in Seq(Nat) /\ Len(paid) = Len(requests)
  /\ completed \subseteq Ids

\* A settled confirmation that was readable has a request of exactly the confirmed total, or is
\* parked, even if a statement was confirmed, and announced, more than once with
\* different totals (handle_statement_confirmed).
ConfirmationRequested ==
  \A p \in Partitions : \A i \in 1..committed[p] :
    \/ <<p, i>> \in dlq \/ Log[p][i] \in Unreadable
    \/ \E r \in Ids : /\ requests[r].statement = Log[p][i].statement
                      /\ requests[r].amount = Log[p][i].total

\* A request that shows COMPLETED was paid by the gateway at least once, in
\* whichever order calls for the same request overtake each other (process_payout).
CompletedIsPaid == \A i \in Ids : requests[i].status = "COMPLETED" => paid[i] > 0
=============================================================================
