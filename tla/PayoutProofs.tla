----------------------------- MODULE PayoutProofs -----------------------------
(***************************************************************************)
(* Proofs about payout-service, for any number of replicas, confirmations, *)
(* requests made by hand, process calls and faults.                        *)
(***************************************************************************)
EXTENDS Payout, KafkaConsumerProofs

-----------------------------------------------------------------------------
(* The service runs the consumer loop.                                      *)

\* Each step of the service is a step of the loop or leaves the loop alone.
LEMMA PayoutStepIsLoopStep == [Next]_vars => [ConsumerNext]_consumerVars
  <1> SUFFICES ASSUME [Next]_vars PROVE [ConsumerNext]_consumerVars
    OBVIOUS
  <1> USE DEF ConsumerNext, LoopStep
  <1>1. ASSUME NEW w \in Workers,
               \/ HandlerStep(w) \/ OutsideHandler(w) \/ TransientError(w) \/ ServiceCrash(w)
               \/ TaskDies(w) /\ UNCHANGED payoutVars
        PROVE  [ConsumerNext]_consumerVars
    BY <1>1 DEF HandlerStep, CreateRequest, SendCreated, CommitRequest, PayloadIgnored,
       OutsideHandler, TransientError, ServiceCrash
  <1>2. ASSUME NEW p \in Partitions, NEW w \in Workers, Reassign(p, w)
        PROVE  [ConsumerNext]_consumerVars
    BY <1>2
  <1>3. ASSUME NEW s \in Statements, NEW amount \in Totals, CreateByHand(s, amount)
        PROVE  UNCHANGED consumerVars
    BY <1>3 DEF CreateByHand
  <1>4. ASSUME NEW c \in Calls,
               \/ \E i \in Ids : ProcessRead(c, i)
               \/ ProcessStep(c) \/ ProcessFails(c)
        PROVE  UNCHANGED consumerVars
    BY <1>4 DEF ProcessRead, ProcessStep, Gateway, UpdateStatus, SendCompleted, CommitOutcome,
       ProcessFails
  <1>5. CASE UNCHANGED vars
    BY <1>5 DEF vars
  <1>6. QED
    BY <1>1, <1>2, <1>3, <1>4, <1>5 DEF Next

\* Every behaviour of the service is a behaviour of the loop (start_consumer runs
\* consume()), so whatever is proved of the loop holds of it.
THEOREM PayoutRunsTheLoop == Spec => ConsumerSpec
  <1>1. Init => ConsumerInit
    BY DEF Init
  <1>2. QED
    BY <1>1, PayoutStepIsLoopStep, PTL DEF Spec, ConsumerSpec

-----------------------------------------------------------------------------
(* The inductive invariant.                                                 *)

\* A transaction is open only in a handler call.
JobInv == \A w \in Workers : job[w] # "idle" => task[w].phase = "handling"

\* A call works on a request that exists, and one that was told COMPLETED by the
\* gateway leaves a payment behind.
CallOK(c) ==
  /\ call[c].step # "idle" => call[c].id \in Ids
  /\ call[c].step \in {"called", "updated", "sent"} /\ call[c].outcome = "COMPLETED"
       => paid[call[c].id] > 0
CallInv == \A c \in Calls : CallOK(c)

\* A handled confirmation has its request, unless nobody could read it.
Requested(x) ==
  \/ Log[x[1]][x[2]] \in Unreadable
  \/ \E r \in Ids : /\ requests[r].statement = Log[x[1]][x[2]].statement
                    /\ requests[r].amount = Log[x[1]][x[2]].total
HandledInv == \A x \in handled : Requested(x)

PayoutIInv ==
  /\ ConsumerIInv
  /\ PayoutTypeOK
  /\ JobInv
  /\ CallInv
  /\ HandledInv
  /\ CompletedIsPaid

CallRecord == [step : {"idle", "read", "called", "updated", "sent", "done"},
               id : Nat \cup {NoCall},
               outcome : {"PENDING", "COMPLETED", "FAILED"}]

\* A step that leaves the table, the payments and the calls alone.
LEMMA TableFrame ==
  ASSUME PayoutIInv, ConsumerIInv',
         UNCHANGED <<requests, byHand, call, paid>>,
         created' \in [Statements -> Nat], completed' = completed,
         job' \in [Workers -> {"idle", "flushed", "sent"}],
         handled' = handled,
         \A w \in Workers : job'[w] # "idle" => task'[w].phase = "handling"
  PROVE  PayoutIInv'
  <1>1. PayoutTypeOK'
    BY DEF PayoutIInv, PayoutTypeOK, Ids
  <1>2. CallInv'
    BY DEF PayoutIInv, CallInv, CallOK, Ids
  <1>3. HandledInv'
    BY DEF PayoutIInv, HandledInv, Requested, Ids
  <1>4. CompletedIsPaid'
    BY DEF PayoutIInv, CompletedIsPaid, Ids
  <1>5. JobInv'
    BY DEF JobInv
  <1>6. QED
    BY <1>1, <1>2, <1>3, <1>4, <1>5 DEF PayoutIInv

\* A new row and its count of payments.
LEMMA InsertEffect ==
  ASSUME PayoutTypeOK, NEW row \in RequestRow, Insert(row)
  PROVE  /\ requests' \in Seq(RequestRow) /\ paid' \in Seq(Nat)
         /\ Len(requests') = Len(requests) + 1 /\ Len(paid') = Len(requests')
         /\ \A i \in Ids : requests'[i] = requests[i] /\ paid'[i] = paid[i]
         /\ requests'[Len(requests) + 1] = row
         /\ Ids \subseteq Ids' /\ Len(requests) + 1 \in Ids'
  BY DEF PayoutTypeOK, Insert, Ids

\* What an insert preserves, whoever makes it.
LEMMA InsertInv ==
  ASSUME PayoutIInv, ConsumerIInv', NEW row \in RequestRow, Insert(row),
         row.status = "PENDING",
         UNCHANGED <<call, completed>>,
         byHand' \in 0..MaxByHand, created' \in [Statements -> Nat],
         job' \in [Workers -> {"idle", "flushed", "sent"}],
         \A w \in Workers : job'[w] # "idle" => task'[w].phase = "handling",
         \A x \in handled' \ handled : /\ row.statement = Log[x[1]][x[2]].statement
                                       /\ row.amount = Log[x[1]][x[2]].total
  PROVE  PayoutIInv'
  <1> DEFINE n == Len(requests) + 1
  <1>1. /\ requests' \in Seq(RequestRow) /\ paid' \in Seq(Nat)
        /\ Len(requests') = n /\ Len(paid') = Len(requests')
        /\ \A i \in Ids : requests'[i] = requests[i] /\ paid'[i] = paid[i]
        /\ requests'[n] = row
        /\ Ids \subseteq Ids' /\ n \in Ids'
    BY InsertEffect DEF PayoutIInv
  <1>2. PayoutTypeOK'
    <2>1. completed' \subseteq Ids'
      BY <1>1 DEF PayoutIInv, PayoutTypeOK
    <2>2. QED
      BY <1>1, <2>1 DEF PayoutIInv, PayoutTypeOK
  <1>3. CallInv'
    BY <1>1 DEF PayoutIInv, CallInv, CallOK
  <1>4. HandledInv'
    <2> SUFFICES ASSUME NEW x \in handled', Log[x[1]][x[2]] \notin Unreadable
                 PROVE  \E r \in Ids' : /\ requests'[r].statement = Log[x[1]][x[2]].statement
                                        /\ requests'[r].amount = Log[x[1]][x[2]].total
      BY DEF HandledInv, Requested
    <2>1. CASE x \in handled
      <3>1. PICK r \in Ids : /\ requests[r].statement = Log[x[1]][x[2]].statement
                             /\ requests[r].amount = Log[x[1]][x[2]].total
        BY <2>1 DEF PayoutIInv, HandledInv, Requested
      <3>2. QED
        BY <1>1, <3>1
    <2>2. CASE x \notin handled
      BY <1>1, <2>2
    <2>3. QED
      BY <2>1, <2>2
  <1>5. CompletedIsPaid'
    <2> SUFFICES ASSUME NEW i \in Ids', requests'[i].status = "COMPLETED"
                 PROVE  paid'[i] > 0
      BY DEF CompletedIsPaid
    <2>1. i \in Ids
      <3>1. i # n
        BY <1>1
      <3>2. QED
        BY <1>1, <3>1 DEF Ids, PayoutIInv, PayoutTypeOK
    <2>2. QED
      BY <1>1, <2>1 DEF PayoutIInv, CompletedIsPaid
  <1>6. JobInv'
    BY DEF JobInv
  <1>7. QED
    BY <1>2, <1>3, <1>4, <1>5, <1>6 DEF PayoutIInv

\* A step of one process call that leaves the table alone and takes no payment back.
LEMMA CallFrame ==
  ASSUME PayoutIInv, NEW c \in Calls, NEW v \in CallRecord,
         call' = [call EXCEPT ![c] = v],
         UNCHANGED <<consumerVars, requests, created, byHand, job>>,
         paid' \in Seq(Nat), Len(paid') = Len(paid),
         \A i \in Ids : paid'[i] >= paid[i],
         completed' \subseteq Ids,
         CallOK(c)'
  PROVE  PayoutIInv'
  <1>1. call' \in [Calls -> CallRecord] /\ \A d \in Calls : d # c => call'[d] = call[d]
    BY DEF PayoutIInv, PayoutTypeOK, CallRecord
  <1>2. Ids' = Ids
    BY DEF Ids
  <1>3. PayoutTypeOK'
    BY <1>1, <1>2 DEF PayoutIInv, PayoutTypeOK, CallRecord
  <1>4. \A i \in Ids : paid[i] > 0 => paid'[i] > 0
    BY <1>2 DEF PayoutIInv, PayoutTypeOK, Ids
  <1>5. CallInv'
    <2> SUFFICES ASSUME NEW d \in Calls PROVE CallOK(d)'
      BY DEF CallInv
    <2>1. CASE d = c
      BY <2>1
    <2>2. CASE d # c
      <3>1. CallOK(d) /\ call'[d] = call[d]
        BY <1>1, <2>2 DEF PayoutIInv, CallInv
      <3>2. QED
        BY <1>2, <1>4, <3>1 DEF CallOK
    <2>3. QED
      BY <2>1, <2>2
  <1>6. HandledInv'
    BY <1>2 DEF PayoutIInv, HandledInv, Requested, consumerVars
  <1>7. CompletedIsPaid'
    BY <1>2, <1>4 DEF PayoutIInv, CompletedIsPaid
  <1>8. JobInv'
    BY DEF PayoutIInv, JobInv, consumerVars
  <1>9. ConsumerIInv'
    BY ConsumerNextInv DEF PayoutIInv
  <1>10. QED
    BY <1>3, <1>5, <1>6, <1>7, <1>8, <1>9 DEF PayoutIInv

-----------------------------------------------------------------------------
(* The consumer's steps.                                                    *)

\* What a replica in the middle of an event has in hand.
LEMMA ConfirmationInHand ==
  ASSUME PayoutIInv, NEW w \in Workers, task[w].phase = "handling"
  PROVE  /\ EventOf(w) \in [statement : Statements, total : Totals]
         /\ Pending(EventOf(w).statement, EventOf(w).total) \in RequestRow
         /\ InHand(w) \in Positions
         /\ EventOf(w) = Log[InHand(w)[1]][InHand(w)[2]]
  <1>1. /\ task[w].part \in Partitions
        /\ task[w].pos \in 1..Len(Log[task[w].part])
        /\ InHand(w) \in Positions
    BY BusyFacts DEF PayoutIInv, Busy
  <1>2. EventOf(w) \in [statement : Statements, total : Totals]
    BY <1>1, ConsumerAssumption, PayoutAssumption
    DEF EventOf, ConsumerAssumption, PayoutAssumption
  <1>3. QED
    BY <1>1, <1>2, PayoutAssumption DEF Pending, RequestRow, PayoutAssumption, EventOf, InHand

\* A step of replica w leaves the tasks of the others alone.
LEMMA OtherTasks ==
  ASSUME PayoutIInv, NEW w \in Workers, LoopStep(w) \/ TaskDies(w) \/ Crash(w)
  PROVE  \A v \in Workers : v # w => task'[v] = task[v]
  BY DEF PayoutIInv, ConsumerIInv, ConsumerTypeOK, LoopStep, Poll, HandlerReturns, HandlerRaises,
     Retry, Commit, CommitRaises, RouteToDlq, CommitSkipped, TaskDies, Crash

\* The row is flushed, or the event sent: the handler goes on.
LEMMA FlushAndSendInv ==
  ASSUME PayoutIInv, NEW w \in Workers, CreateRequest(w) \/ SendCreated(w)
  PROVE  PayoutIInv'
  <1>1. task[w].phase = "handling"
    BY DEF CreateRequest, Readable, SendCreated, PayoutIInv, JobInv
  <1>2. UNCHANGED consumerVars /\ ConsumerIInv'
    BY ConsumerNextInv DEF CreateRequest, SendCreated, PayoutIInv
  <1>3. created' \in [Statements -> Nat]
    BY <1>1, ConfirmationInHand DEF CreateRequest, SendCreated, PayoutIInv, PayoutTypeOK
  <1>4. job' \in [Workers -> {"idle", "flushed", "sent"}]
        /\ \A v \in Workers : v # w => job'[v] = job[v]
    BY DEF CreateRequest, SendCreated, PayoutIInv, PayoutTypeOK
  <1>5. \A v \in Workers : job'[v] # "idle" => task'[v].phase = "handling"
    BY <1>1, <1>2, <1>4 DEF PayoutIInv, JobInv, consumerVars
  <1>6. QED
    BY <1>2, <1>3, <1>4, <1>5, TableFrame DEF CreateRequest, SendCreated, consumerVars

\* The commit stores the request of the event in hand; the call may count or not.
LEMMA CommitRequestInv ==
  ASSUME PayoutIInv, ConsumerIInv', NEW w \in Workers, CommitRequest(w)
  PROVE  PayoutIInv'
  <1> DEFINE row == Pending(EventOf(w).statement, EventOf(w).total)
  <1>1. task[w].phase = "handling"
    BY DEF CommitRequest, PayoutIInv, JobInv
  <1>2. row \in RequestRow /\ row.status = "PENDING"
        /\ row.statement = EventOf(w).statement /\ row.amount = EventOf(w).total
    BY <1>1, ConfirmationInHand DEF Pending
  <1>3. \A x \in handled' \ handled : x = InHand(w)
    BY DEF CommitRequest, HandlerReturns, HandlerRaises
  <1>4. \A x \in handled' \ handled : /\ row.statement = Log[x[1]][x[2]].statement
                                      /\ row.amount = Log[x[1]][x[2]].total
    BY <1>1, <1>2, <1>3, ConfirmationInHand
  <1>5. /\ job' \in [Workers -> {"idle", "flushed", "sent"}]
        /\ job'[w] = "idle" /\ \A v \in Workers : v # w => job'[v] = job[v]
    BY DEF CommitRequest, PayoutIInv, PayoutTypeOK
  <1>6. \A v \in Workers : v # w => task'[v] = task[v]
    BY OtherTasks DEF CommitRequest, LoopStep
  <1>7. \A v \in Workers : job'[v] # "idle" => task'[v].phase = "handling"
    BY <1>5, <1>6 DEF PayoutIInv, JobInv
  <1>8. Insert(row) /\ UNCHANGED <<call, completed, byHand, created>>
    BY DEF CommitRequest
  <1>9. byHand' \in 0..MaxByHand /\ created' \in [Statements -> Nat]
    BY <1>8 DEF PayoutIInv, PayoutTypeOK
  <1> HIDE DEF row
  <1>10. QED
    BY <1>2, <1>4, <1>5, <1>7, <1>8, <1>9, InsertInv

\* A payload that does not validate counts as handled, and nothing is stored.
LEMMA PayloadIgnoredInv ==
  ASSUME PayoutIInv, ConsumerIInv', NEW w \in Workers, PayloadIgnored(w)
  PROVE  PayoutIInv'
  <1>1. \A v \in Workers : v # w => task'[v] = task[v]
    BY OtherTasks DEF PayloadIgnored, LoopStep
  <1>2. UNCHANGED payoutVars /\ job[w] = "idle" /\ handled' = handled \cup {InHand(w)}
    BY DEF PayloadIgnored, HandlerReturns
  <1>3. JobInv'
    BY <1>1, <1>2 DEF PayoutIInv, JobInv, payoutVars
  <1>4. HandledInv'
    <2>1. Log[InHand(w)[1]][InHand(w)[2]] \in Unreadable
      BY DEF PayloadIgnored, InHand, EventOf
    <2>2. QED
      BY <1>2, <2>1 DEF PayoutIInv, HandledInv, Requested, payoutVars, Ids
  <1>5. PayoutTypeOK' /\ CallInv' /\ CompletedIsPaid'
    BY <1>2 DEF PayoutIInv, PayoutTypeOK, CallInv, CallOK, CompletedIsPaid, payoutVars, Ids
  <1>6. QED
    BY <1>3, <1>4, <1>5 DEF PayoutIInv

\* A step of the loop that ends an open transaction, or finds none.
LEMMA RollbackInv ==
  ASSUME PayoutIInv, ConsumerIInv', NEW w \in Workers,
         LoopStep(w) \/ TaskDies(w) \/ Crash(w),
         handled' = handled, job' = [job EXCEPT ![w] = "idle"],
         UNCHANGED <<requests, created, byHand, call, paid, completed>>
  PROVE  PayoutIInv'
  <1>1. /\ job' \in [Workers -> {"idle", "flushed", "sent"}]
        /\ job'[w] = "idle" /\ \A v \in Workers : v # w => job'[v] = job[v]
    BY DEF PayoutIInv, PayoutTypeOK
  <1>2. \A v \in Workers : job'[v] # "idle" => task'[v].phase = "handling"
    BY <1>1, OtherTasks DEF PayoutIInv, JobInv
  <1>3. created' \in [Statements -> Nat]
    BY DEF PayoutIInv, PayoutTypeOK
  <1>4. QED
    BY <1>1, <1>2, <1>3, TableFrame

\* The loop outside a handler call.
LEMMA LoopInv ==
  ASSUME PayoutIInv, ConsumerIInv', NEW w \in Workers,
         OutsideHandler(w) \/ TransientError(w) \/ ServiceCrash(w)
         \/ (TaskDies(w) /\ UNCHANGED payoutVars)
  PROVE  PayoutIInv'
  <1>1. CASE TransientError(w)
    BY <1>1, RollbackInv DEF TransientError, HandlerRaises, LoopStep
  <1>2. CASE ServiceCrash(w)
    BY <1>2, RollbackInv DEF ServiceCrash, Crash
  <1>3. CASE OutsideHandler(w) \/ (TaskDies(w) /\ UNCHANGED payoutVars)
    <2>1. task[w].phase # "handling" /\ handled' = handled /\ (LoopStep(w) \/ TaskDies(w))
      BY <1>3 DEF OutsideHandler, LoopStep, Poll, Commit, CommitRaises, RouteToDlq,
         CommitSkipped, TaskDies
    <2>2. job[w] = "idle"
      BY <2>1 DEF PayoutIInv, JobInv
    <2>3. UNCHANGED payoutVars
      BY <1>3 DEF OutsideHandler
    <2>4. job' = [job EXCEPT ![w] = "idle"]
      BY <2>2, <2>3 DEF payoutVars, PayoutIInv, PayoutTypeOK
    <2>5. QED
      BY <2>1, <2>3, <2>4, RollbackInv DEF payoutVars
  <1>4. QED
    BY <1>1, <1>2, <1>3

\* A partition moves; nobody's phase changes.
LEMMA MoveInv ==
  ASSUME PayoutIInv, ConsumerIInv', NEW p \in Partitions, NEW w \in Workers,
         Reassign(p, w), UNCHANGED payoutVars
  PROVE  PayoutIInv'
  <1>1. \A v \in Workers : task'[v].phase = task[v].phase
    BY DEF Reassign, PayoutIInv, ConsumerIInv, ConsumerTypeOK
  <1>2. \A v \in Workers : job'[v] # "idle" => task'[v].phase = "handling"
    BY <1>1 DEF PayoutIInv, JobInv, payoutVars
  <1>3. /\ created' \in [Statements -> Nat] /\ job' \in [Workers -> {"idle", "flushed", "sent"}]
        /\ handled' = handled
    BY DEF PayoutIInv, PayoutTypeOK, payoutVars, Reassign
  <1>4. QED
    BY <1>2, <1>3, TableFrame DEF payoutVars

-----------------------------------------------------------------------------
(* The API.                                                                 *)

\* A request by hand: its event, and its row unless the commit fails.
LEMMA CreateByHandInv ==
  ASSUME PayoutIInv, NEW s \in Statements, NEW amount \in Totals, CreateByHand(s, amount)
  PROVE  PayoutIInv'
  <1>1. UNCHANGED consumerVars /\ ConsumerIInv' /\ UNCHANGED <<job, call, completed>>
    BY ConsumerNextInv DEF CreateByHand, PayoutIInv
  <1>2. byHand' \in 0..MaxByHand /\ created' \in [Statements -> Nat]
    BY PayoutAssumption DEF CreateByHand, PayoutIInv, PayoutTypeOK, PayoutAssumption
  <1>3. /\ job' \in [Workers -> {"idle", "flushed", "sent"}]
        /\ \A v \in Workers : job'[v] # "idle" => task'[v].phase = "handling"
    BY <1>1 DEF PayoutIInv, PayoutTypeOK, JobInv, consumerVars
  <1>4. CASE Insert(Pending(s, amount))
    <2>1. Pending(s, amount) \in RequestRow /\ Pending(s, amount).status = "PENDING"
      BY PayoutAssumption DEF Pending, RequestRow, PayoutAssumption
    <2>2. handled' = handled
      BY <1>1 DEF consumerVars
    <2>3. QED
      BY <1>1, <1>2, <1>3, <1>4, <2>1, <2>2, InsertInv
  <1>5. CASE UNCHANGED <<requests, paid>>
    <2>1. PayoutTypeOK'
      BY <1>1, <1>2, <1>3, <1>5 DEF PayoutIInv, PayoutTypeOK, Ids
    <2>2. CallInv' /\ CompletedIsPaid'
      BY <1>1, <1>5 DEF PayoutIInv, CallInv, CallOK, CompletedIsPaid, Ids
    <2>3. HandledInv'
      BY <1>1, <1>5 DEF PayoutIInv, HandledInv, Requested, Ids, consumerVars
    <2>4. QED
      BY <1>1, <1>3, <2>1, <2>2, <2>3 DEF PayoutIInv, JobInv
  <1>6. QED
    BY <1>4, <1>5 DEF CreateByHand

\* What the invariant says of the request a call works on.
LEMMA CallFacts ==
  ASSUME PayoutIInv, NEW c \in Calls
  PROVE  /\ call[c] \in CallRecord
         /\ CallOK(c)
         /\ paid \in Seq(Nat) /\ Len(paid) = Len(requests) /\ completed \subseteq Ids
         /\ \A i \in Ids : paid[i] \in Nat
  BY DEF PayoutIInv, PayoutTypeOK, CallRecord, CallInv, Ids

\* The row is read.
LEMMA ProcessReadInv ==
  ASSUME PayoutIInv, NEW c \in Calls, NEW i \in Ids, ProcessRead(c, i)
  PROVE  PayoutIInv'
  <1> DEFINE v == [step |-> "read", id |-> i, outcome |-> "PENDING"]
  <1>1. v \in CallRecord
    BY DEF CallRecord, Ids
  <1>2. call' = [call EXCEPT ![c] = v]
        /\ UNCHANGED <<consumerVars, requests, created, byHand, job, paid, completed>>
    BY DEF ProcessRead
  <1>3. call'[c] = v
    BY <1>2 DEF PayoutIInv, PayoutTypeOK
  <1>4. CallOK(c)'
    BY <1>2, <1>3 DEF CallOK, Ids
  <1>5. \A j \in Ids : paid'[j] >= paid[j]
    BY <1>2, CallFacts
  <1> HIDE DEF v
  <1>6. QED
    BY <1>1, <1>2, <1>4, <1>5, CallFacts, CallFrame

\* The gateway answers; a success is one payment more.
LEMMA GatewayInv ==
  ASSUME PayoutIInv, NEW c \in Calls, Gateway(c)
  PROVE  PayoutIInv'
  <1> DEFINE i == call[c].id
  <1>1. /\ call[c] \in CallRecord /\ i \in Ids
        /\ paid \in Seq(Nat) /\ Len(paid) = Len(requests) /\ completed \subseteq Ids
    BY CallFacts DEF Gateway, CallOK
  <1>2. PICK outcome \in {"COMPLETED", "FAILED"} :
          /\ call' = [call EXCEPT ![c].step = "called", ![c].outcome = outcome]
          /\ paid' = IF outcome = "COMPLETED" THEN [paid EXCEPT ![i] = @ + 1] ELSE paid
    BY DEF Gateway
  <1> DEFINE v == [call[c] EXCEPT !.step = "called", !.outcome = outcome]
  <1>3. call' = [call EXCEPT ![c] = v]
    BY <1>2 DEF PayoutIInv, PayoutTypeOK
  <1>4. v \in CallRecord /\ v.id = i /\ v.outcome = outcome
    BY <1>1 DEF CallRecord
  <1>5. call'[c] = v
    BY <1>3 DEF PayoutIInv, PayoutTypeOK
  <1>6. /\ paid' \in Seq(Nat) /\ Len(paid') = Len(paid)
        /\ \A j \in Ids : paid'[j] >= paid[j]
        /\ outcome = "COMPLETED" => paid'[i] > 0
    <2>1. \A j \in Ids : paid[j] \in Nat
      BY <1>1 DEF Ids
    <2>2. CASE outcome = "COMPLETED"
      <3>1. paid' = [paid EXCEPT ![i] = paid[i] + 1]
        BY <1>2, <2>2
      <3>2. QED
        BY <1>1, <2>1, <3>1 DEF Ids
    <2>3. CASE outcome # "COMPLETED"
      BY <1>1, <1>2, <2>1, <2>3
    <2>4. QED
      BY <2>2, <2>3
  <1>7. UNCHANGED <<consumerVars, requests, created, byHand, job, completed>>
    BY DEF Gateway
  <1>8. CallOK(c)'
    BY <1>1, <1>4, <1>5, <1>6, <1>7 DEF CallOK, Ids
  <1> HIDE DEF v
  <1>9. QED
    BY <1>1, <1>3, <1>4, <1>6, <1>7, <1>8, CallFrame

\* A call that goes on, or fails, keeps the request and the outcome it has.
LEMMA CallGoesOnInv ==
  ASSUME PayoutIInv, NEW c \in Calls, UpdateStatus(c) \/ SendCompleted(c) \/ ProcessFails(c)
  PROVE  PayoutIInv'
  <1>1. PICK step \in {"updated", "sent", "done"} :
          /\ call' = [call EXCEPT ![c].step = step]
          /\ step # "done" => call[c].step \in {"called", "updated"}
          /\ step = "done" => call[c].step \in {"read", "called", "updated", "sent"}
    BY DEF UpdateStatus, SendCompleted, ProcessFails
  <1> DEFINE v == [call[c] EXCEPT !.step = step]
  <1>2. call' = [call EXCEPT ![c] = v]
    BY <1>1 DEF PayoutIInv, PayoutTypeOK
  <1>3. /\ v \in CallRecord /\ v.id = call[c].id /\ v.outcome = call[c].outcome /\ v.step = step
    BY CallFacts DEF CallRecord
  <1>4. call'[c] = v
    BY <1>2 DEF PayoutIInv, PayoutTypeOK
  <1>5. UNCHANGED <<consumerVars, requests, created, byHand, job, paid>>
    BY DEF UpdateStatus, SendCompleted, ProcessFails
  <1>6. call[c].step # "idle" /\ call[c].id \in Ids
    BY <1>1, CallFacts DEF CallOK
  <1>7. completed' \subseteq Ids
    BY <1>6, CallFacts DEF UpdateStatus, SendCompleted, ProcessFails
  <1>8. CallOK(c)'
    BY <1>1, <1>3, <1>4, <1>5, <1>6, CallFacts DEF CallOK, Ids
  <1>9. \A j \in Ids : paid'[j] >= paid[j]
    BY <1>5, CallFacts
  <1> HIDE DEF v
  <1>10. QED
    BY <1>2, <1>3, <1>5, <1>7, <1>8, <1>9, CallFacts, CallFrame

\* The outcome is stored; if it is a success, the payment is there.
LEMMA CommitOutcomeInv ==
  ASSUME PayoutIInv, NEW c \in Calls, CommitOutcome(c)
  PROVE  PayoutIInv'
  <1> DEFINE i == call[c].id
  <1>1. call[c] \in CallRecord /\ call[c].step = "sent" /\ i \in Ids
        /\ (call[c].outcome = "COMPLETED" => paid[i] > 0)
    BY CallFacts DEF CommitOutcome, CallOK
  <1>2. /\ requests' = [requests EXCEPT ![i].status = call[c].outcome]
        /\ call' = [call EXCEPT ![c].step = "done"]
        /\ UNCHANGED <<consumerVars, created, byHand, job, paid, completed>>
    BY DEF CommitOutcome
  <1>3. /\ requests' \in Seq(RequestRow) /\ Len(requests') = Len(requests)
        /\ \A j \in Ids : /\ requests'[j].statement = requests[j].statement
                          /\ requests'[j].amount = requests[j].amount
                          /\ j # i => requests'[j] = requests[j]
        /\ requests'[i].status = call[c].outcome
    <2> DEFINE row == [requests[i] EXCEPT !.status = call[c].outcome]
    <2>1. requests \in Seq(RequestRow) /\ requests[i] \in RequestRow
      BY <1>1 DEF PayoutIInv, PayoutTypeOK, Ids
    <2>2. call[c].outcome \in {"PENDING", "COMPLETED", "FAILED"}
      BY <1>1 DEF CallRecord
    <2>3. /\ row \in RequestRow /\ row.status = call[c].outcome
          /\ row.statement = requests[i].statement /\ row.amount = requests[i].amount
      BY <2>1, <2>2 DEF RequestRow
    <2>4. requests' = [requests EXCEPT ![i] = row]
      BY <1>1, <1>2, <2>1 DEF Ids
    <2> HIDE DEF row
    <2>5. QED
      BY <1>1, <2>1, <2>3, <2>4 DEF Ids
  <1>4. Ids' = Ids
    BY <1>3 DEF Ids
  <1>5. /\ call' \in [Calls -> CallRecord] /\ call'[c].step = "done" /\ call'[c].id = i
        /\ \A d \in Calls : d # c => call'[d] = call[d]
    BY <1>1, <1>2 DEF PayoutIInv, PayoutTypeOK, CallRecord
  <1>6. PayoutTypeOK'
    BY <1>2, <1>3, <1>4, <1>5 DEF PayoutIInv, PayoutTypeOK, CallRecord
  <1>7. CallInv'
    <2> SUFFICES ASSUME NEW d \in Calls PROVE CallOK(d)'
      BY DEF CallInv
    <2>1. CASE d = c
      BY <1>1, <1>4, <1>5, <2>1 DEF CallOK
    <2>2. CASE d # c
      BY <1>2, <1>4, <1>5, <2>2, CallFacts DEF CallOK
    <2>3. QED
      BY <2>1, <2>2
  <1>8. HandledInv'
    BY <1>2, <1>3, <1>4 DEF PayoutIInv, HandledInv, Requested, consumerVars
  <1>9. CompletedIsPaid'
    <2> SUFFICES ASSUME NEW j \in Ids, requests'[j].status = "COMPLETED"
                 PROVE  paid[j] > 0
      BY <1>2, <1>4 DEF CompletedIsPaid
    <2>1. CASE j = i
      BY <1>1, <1>3, <2>1
    <2>2. CASE j # i
      BY <1>3, <2>2 DEF PayoutIInv, CompletedIsPaid
    <2>3. QED
      BY <2>1, <2>2
  <1>10. JobInv' /\ ConsumerIInv'
    BY <1>2, ConsumerNextInv DEF PayoutIInv, JobInv, consumerVars
  <1>11. QED
    BY <1>6, <1>7, <1>8, <1>9, <1>10 DEF PayoutIInv

-----------------------------------------------------------------------------
(* The theorems.                                                            *)

LEMMA PayoutInitInv == Init => PayoutIInv
  <1> SUFFICES ASSUME Init PROVE PayoutIInv
    OBVIOUS
  <1>1. ConsumerIInv
    BY ConsumerInitInv DEF Init
  <1>2. PayoutTypeOK
    BY PayoutAssumption DEF Init, PayoutTypeOK, NotCalled, PayoutAssumption, Ids
  <1>3. JobInv /\ CallInv
    BY DEF Init, JobInv, CallInv, CallOK, NotCalled
  <1>4. HandledInv /\ CompletedIsPaid
    BY DEF Init, HandledInv, CompletedIsPaid, ConsumerInit, Ids
  <1>5. QED
    BY <1>1, <1>2, <1>3, <1>4 DEF PayoutIInv

LEMMA PayoutNextInv == PayoutIInv /\ [Next]_vars => PayoutIInv'
  <1> SUFFICES ASSUME PayoutIInv, [Next]_vars PROVE PayoutIInv'
    OBVIOUS
  <1>1. ConsumerIInv'
    BY PayoutStepIsLoopStep, ConsumerNextInv DEF PayoutIInv
  <1>2. ASSUME NEW w \in Workers, HandlerStep(w) PROVE PayoutIInv'
    BY <1>1, <1>2, FlushAndSendInv, CommitRequestInv, PayloadIgnoredInv DEF HandlerStep
  <1>3. ASSUME NEW w \in Workers,
               OutsideHandler(w) \/ TransientError(w) \/ ServiceCrash(w)
               \/ (TaskDies(w) /\ UNCHANGED payoutVars)
        PROVE  PayoutIInv'
    BY <1>1, <1>3, LoopInv
  <1>4. ASSUME NEW p \in Partitions, NEW w \in Workers, Reassign(p, w), UNCHANGED payoutVars
        PROVE  PayoutIInv'
    BY <1>1, <1>4, MoveInv
  <1>5. ASSUME NEW s \in Statements, NEW amount \in Totals, CreateByHand(s, amount)
        PROVE  PayoutIInv'
    BY <1>5, CreateByHandInv
  <1>6. ASSUME NEW c \in Calls, NEW i \in Ids, ProcessRead(c, i) PROVE PayoutIInv'
    BY <1>6, ProcessReadInv
  <1>7. ASSUME NEW c \in Calls, ProcessStep(c) \/ ProcessFails(c) PROVE PayoutIInv'
    BY <1>7, GatewayInv, CallGoesOnInv, CommitOutcomeInv DEF ProcessStep
  <1>8. CASE UNCHANGED vars
    <2>1. UNCHANGED <<requests, created, byHand, job, call, paid, completed>> /\ handled' = handled
          /\ task' = task
      BY <1>8 DEF vars, payoutVars, consumerVars
    <2>2. created' \in [Statements -> Nat] /\ job' \in [Workers -> {"idle", "flushed", "sent"}]
      BY <2>1 DEF PayoutIInv, PayoutTypeOK
    <2>3. \A w \in Workers : job'[w] # "idle" => task'[w].phase = "handling"
      BY <2>1 DEF PayoutIInv, JobInv
    <2>4. QED
      BY <1>1, <2>1, <2>2, <2>3, TableFrame
  <1>9. QED
    BY <1>2, <1>3, <1>4, <1>5, <1>6, <1>7, <1>8 DEF Next

\* The inductive invariant holds of the service.
THEOREM PayoutInvariant == Spec => []PayoutIInv
  <1>1. QED
    BY PayoutInitInv, PayoutNextInv, PTL DEF Spec

\* Requests, calls and payments keep their types; each row has its count of payments.
THEOREM PayoutTyping == Spec => []PayoutTypeOK
  <1>1. PayoutIInv => PayoutTypeOK
    BY DEF PayoutIInv
  <1>2. QED
    BY <1>1, PayoutInvariant, PTL

\* However calls for one request overlap, fail and overtake each other, COMPLETED is
\* stored only for a request the gateway has paid (process_payout).
THEOREM CompletedWasPaid == Spec => []CompletedIsPaid
  <1>1. PayoutIInv => CompletedIsPaid
    BY DEF PayoutIInv
  <1>2. QED
    BY <1>1, PayoutInvariant, PTL

\* With the dead letter producer main.py gives it, the consumer settles no confirmation
\* that it could read without a request of its very total (handle_statement_confirmed).
THEOREM ConfirmationsRequested ==
  ASSUME HasDlqProducer PROVE Spec => []ConfirmationRequested
  <1>1. PayoutIInv => ConfirmationRequested
    <2> SUFFICES ASSUME PayoutIInv, NEW p \in Partitions, NEW i \in 1..committed[p],
                        <<p, i>> \notin dlq, Log[p][i] \notin Unreadable
                 PROVE  \E r \in Ids : /\ requests[r].statement = Log[p][i].statement
                                       /\ requests[r].amount = Log[p][i].total
      BY DEF ConfirmationRequested
    <2>1. <<p, i>> \in handled
      BY DEF PayoutIInv, ConsumerIInv, NoEventLost
    <2>2. Requested(<<p, i>>)
      BY <2>1 DEF PayoutIInv, HandledInv
    <2>3. QED
      BY <2>2 DEF Requested
  <1>2. QED
    BY <1>1, PayoutInvariant, PTL
=============================================================================
