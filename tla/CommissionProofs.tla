--------------------------- MODULE CommissionProofs ---------------------------
(***************************************************************************)
(* Proofs about the commission service, for any number of replicas, sales, *)
(* agreements, statements, requests and faults, and about the rules it is  *)
(* given and the engine that prices a line with them, for any set of       *)
(* rules.  The two specifications share nothing but this module: the first *)
(* abstracts the second to what a line earns under an agreement.           *)
(***************************************************************************)
EXTENDS Commission, CommissionRules, KafkaConsumerProofs, Sums

-----------------------------------------------------------------------------
(* The service runs the consumer loop: what was proved of the loop holds of *)
(* its part of the state.                                                   *)

\* Each step of the service is a step of the loop or leaves the loop alone.
LEMMA ServiceStepIsLoopStep == [Next]_vars => [ConsumerNext]_consumerVars
  <1> SUFFICES ASSUME [Next]_vars PROVE [ConsumerNext]_consumerVars
    OBVIOUS
  <1> USE DEF ConsumerNext, LoopStep
  <1>1. ASSUME NEW w \in Workers, HandlerStep(w)
        PROVE  [ConsumerNext]_consumerVars
    BY <1>1 DEF HandlerStep, FetchAgreement, NoAgreementFound, SkipLine, CreateEvent,
       MarkProcessed, PublishCalculated, ReadStatement, WriteStatement, StatementExists,
       CommitTx, NothingToClawBack, ClawbackRejected, PayloadIgnored
  <1>2. ASSUME NEW w \in Workers,
               \/ OutsideHandler(w) \/ TransientError(w) \/ ServiceCrash(w)
               \/ TaskDies(w) /\ UNCHANGED serviceVars
        PROVE  [ConsumerNext]_consumerVars
    BY <1>2 DEF OutsideHandler, TransientError, ServiceCrash
  <1>3. ASSUME NEW p \in Partitions, NEW w \in Workers, Reassign(p, w)
        PROVE  [ConsumerNext]_consumerVars
    BY <1>3
  <1>4. ASSUME NEW r \in Requests,
               \/ \E s \in Statements : ConfirmRead(r, s)
               \/ ConfirmStep(r) \/ ConfirmFails(r)
        PROVE  UNCHANGED consumerVars
    BY <1>4 DEF ConfirmRead, ConfirmStep, ConfirmWrite, ConfirmSend, ConfirmCommit, ConfirmFails
  <1>5. ASSUME NEW a \in Agreements, ChangeAgreement(a)
        PROVE  UNCHANGED consumerVars
    BY <1>5 DEF ChangeAgreement
  <1>6. CASE UNCHANGED vars
    BY <1>6 DEF vars
  <1>7. QED
    BY <1>1, <1>2, <1>3, <1>4, <1>5, <1>6 DEF Next

\* Every behaviour of the service is a behaviour of the consumer loop (start_consumer
\* runs consume()), so whatever is proved of the loop holds of the service.
THEOREM RunsTheLoop == Spec => ConsumerSpec
  <1>1. Init => ConsumerInit
    BY DEF Init
  <1>2. QED
    BY <1>1, ServiceStepIsLoopStep, PTL DEF Spec, ConsumerSpec

-----------------------------------------------------------------------------
(* The inductive invariant.                                                 *)

HasStep(w) == job[w].step # "idle"

\* An open transaction belongs to a sale event its replica is handling.
AtSale(w) ==
  /\ task[w].phase = "handling"
  /\ EventOf(w).type = "sale"
  /\ SaleOf(w) \in Sales

\* How far a transaction has got with the row it created.
RowOK(w) ==
  /\ job[w].line # 0
  /\ job[w].row = 0 => job[w].step \in {"idle", "lines"} /\ ~job[w].marked
  /\ job[w].row # 0 =>
       /\ job[w].row \in 1..LineCount[SaleOf(w)]
       /\ Earned(w, job[w].row) \in Nat
       /\ job[w].step # "created" => job[w].marked \/ Key(w) \in processed
       /\ job[w].step \in {"published", "read", "lines"} =>
            <<SaleOf(w), job[w].row, job[w].agr>> \in announced

JobOK(w) ==
  \/ job[w] = NoJob
  \/ HasStep(w) /\ AtSale(w) /\ job[w].agr \in Agreements /\ RowOK(w)

RequestOK(r) == req[r].step \in {"read", "written", "sent"} => req[r].of \in Statements

ServiceIInv ==
  /\ ConsumerIInv
  /\ CommissionTypeOK
  /\ \A w \in Workers : JobOK(w)
  /\ \A r \in Requests : RequestOK(r)
  /\ ProcessedIffCommissioned
  /\ LedgerAnnounced

\* What a replica without an open transaction looks like.
LEMMA NoJobFacts ==
  /\ NoJob \in JobState /\ Absent \in StatementRow
  /\ NoJob.step = "idle" /\ NoJob.row = 0 /\ ~NoJob.marked
  BY DEF NoJob, Absent, JobState, StatementRow

\* A replica with nothing to do for a sale event has no open transaction.
LEMMA IdleJob ==
  ASSUME ServiceIInv, NEW w \in Workers,
         task[w].phase # "handling" \/ EventOf(w).type # "sale"
  PROVE  job[w] = NoJob
  BY DEF ServiceIInv, JobOK, AtSale

\* Another replica's transaction does not notice a step that leaves its task and
\* its job alone and takes nothing back from the log and the announcements.
LEMMA JobFrame ==
  ASSUME ServiceIInv, NEW v \in Workers, job'[v] = job[v],
         task'[v].phase = task[v].phase,
         task'[v].part = task[v].part, task'[v].pos = task[v].pos,
         processed \subseteq processed', announced \subseteq announced'
  PROVE  JobOK(v)'
  <1>1. SaleOf(v)' = SaleOf(v) /\ EventOf(v)' = EventOf(v)
    BY DEF SaleOf, EventOf
  <1>2. JobOK(v)
    BY DEF ServiceIInv
  <1>3. QED
    BY <1>1, <1>2 DEF JobOK, HasStep, AtSale, RowOK, Earned, Key

\* A step of replica w leaves the tasks of all others alone.
LEMMA TaskFrame ==
  ASSUME ConsumerIInv, NEW w \in Workers,
         LoopStep(w) \/ TaskDies(w) \/ Crash(w) \/ UNCHANGED consumerVars
  PROVE  \A v \in Workers : v # w => task'[v] = task[v]
  <1>1. task \in [Workers -> TaskRecord]
    BY DEF ConsumerIInv, ConsumerTypeOK, TaskRecord
  <1>2. QED
    BY <1>1 DEF LoopStep, Poll, HandlerReturns, HandlerRaises, Retry, Commit, CommitRaises,
       RouteToDlq, CommitSkipped, TaskDies, Crash, consumerVars

\* A step of replica w that commits nothing: it suffices to look at the job and
\* the announcements.
LEMMA LocalStep ==
  ASSUME ServiceIInv, ConsumerIInv', NEW w \in Workers,
         LoopStep(w) \/ TaskDies(w) \/ Crash(w) \/ UNCHANGED consumerVars,
         NEW j \in JobState, job' = [job EXCEPT ![w] = j],
         UNCHANGED <<db, agreementVars, confirmations, req>>,
         announced \subseteq announced',
         announced' \subseteq Sales \X Nat \X Agreements,
         JobOK(w)'
  PROVE  ServiceIInv'
  <1> USE DEF db, agreementVars
  <1>1. job' \in [Workers -> JobState] /\ \A v \in Workers : v # w => job'[v] = job[v]
    BY DEF ServiceIInv, CommissionTypeOK
  <1>2. CommissionTypeOK'
    BY <1>1 DEF ServiceIInv, CommissionTypeOK
  <1>3. ASSUME NEW v \in Workers
        PROVE  JobOK(v)'
    <2>1. CASE v = w
      BY <2>1
    <2>2. CASE v # w
      <3>1. task'[v] = task[v]
        BY <2>2, TaskFrame DEF ServiceIInv
      <3>2. QED
        BY <1>1, <2>2, <3>1, JobFrame
    <2>3. QED
      BY <2>1, <2>2
  <1>4. \A r \in Requests : RequestOK(r)'
    BY DEF ServiceIInv, RequestOK
  <1>5. ProcessedIffCommissioned'
    BY DEF ServiceIInv, ProcessedIffCommissioned
  <1>6. LedgerAnnounced'
    BY DEF ServiceIInv, LedgerAnnounced
  <1>7. QED
    BY <1>2, <1>3, <1>4, <1>5, <1>6 DEF ServiceIInv

\* A step that ends or never had a transaction of w.
LEMMA NoJobStep ==
  ASSUME ServiceIInv, ConsumerIInv', NEW w \in Workers,
         LoopStep(w) \/ TaskDies(w) \/ Crash(w) \/ UNCHANGED consumerVars,
         job' = [job EXCEPT ![w] = NoJob],
         UNCHANGED <<db, agreementVars, announced, confirmations, req>>
  PROVE  ServiceIInv'
  <1>1. job'[w] = NoJob
    BY DEF ServiceIInv, CommissionTypeOK
  <1>2. JobOK(w)'
    BY <1>1 DEF JobOK
  <1>3. announced' \subseteq Sales \X Nat \X Agreements
    BY DEF ServiceIInv, CommissionTypeOK
  <1>4. QED
    BY <1>2, <1>3, NoJobFacts, LocalStep

\* A step of the loop by a replica without a transaction.
LEMMA IdleJobStep ==
  ASSUME ServiceIInv, ConsumerIInv', NEW w \in Workers,
         LoopStep(w) \/ TaskDies(w) \/ Crash(w), job[w] = NoJob,
         UNCHANGED serviceVars
  PROVE  ServiceIInv'
  <1>1. job' = [job EXCEPT ![w] = NoJob]
    BY DEF serviceVars, ServiceIInv, CommissionTypeOK
  <1>2. QED
    BY <1>1, NoJobStep DEF serviceVars

-----------------------------------------------------------------------------
(* The steps of a sale's transaction.                                       *)

\* A handler step inside the transaction: the same event, a new job.
LEMMA JobStep ==
  ASSUME ServiceIInv, ConsumerIInv', NEW w \in Workers,
         NEW j \in JobState, job' = [job EXCEPT ![w] = j],
         UNCHANGED <<consumerVars, db, agreementVars, confirmations, req>>,
         announced \subseteq announced',
         announced' \subseteq Sales \X Nat \X Agreements,
         j.step # "idle", AtSale(w), j.agr \in Agreements, j.line # 0,
         j.row = 0 => j.step \in {"idle", "lines"} /\ ~j.marked,
         j.row # 0 =>
           /\ j.row \in 1..LineCount[SaleOf(w)]
           /\ Amount[<<j.agr, SaleOf(w), j.row>>] \in Nat
           /\ j.step # "created" => j.marked \/ <<SaleOf(w), j.agr>> \in processed
           /\ j.step \in {"published", "read", "lines"} =>
                <<SaleOf(w), j.row, j.agr>> \in announced'
  PROVE  ServiceIInv'
  <1>1. job'[w] = j
    BY DEF ServiceIInv, CommissionTypeOK
  <1>2. SaleOf(w)' = SaleOf(w) /\ EventOf(w)' = EventOf(w) /\ task' = task
    BY DEF SaleOf, EventOf, consumerVars
  <1>3. HasStep(w)' /\ AtSale(w)' /\ job'[w].agr \in Agreements
    BY <1>1, <1>2 DEF HasStep, AtSale
  <1>4. RowOK(w)'
    BY <1>1, <1>2 DEF RowOK, Earned, Key, db
  <1>5. JobOK(w)'
    BY <1>3, <1>4 DEF JobOK
  <1>6. QED
    BY <1>5, LocalStep

\* What the invariant says of a replica with an open transaction.
LEMMA JobFacts ==
  ASSUME ServiceIInv, NEW w \in Workers, HasStep(w)
  PROVE  /\ job[w] \in JobState /\ AtSale(w) /\ job[w].agr \in Agreements /\ RowOK(w)
         /\ announced \subseteq Sales \X Nat \X Agreements
  BY NoJobFacts DEF ServiceIInv, CommissionTypeOK, JobOK, HasStep

\* What the invariant says of a replica that handles a sale event.
LEMMA HandlingFacts ==
  ASSUME ServiceIInv, NEW w \in Workers, task[w].phase = "handling"
  PROVE  Busy(w) /\ SaleOf(w) \in Sales
  <1>1. Busy(w)
    BY DEF Busy
  <1>2. task[w].part \in Partitions /\ task[w].pos \in 1..Len(Log[task[w].part])
    BY <1>1, BusyFacts DEF ServiceIInv
  <1>3. EventOf(w) \in Events
    BY <1>2, ConsumerAssumption DEF ConsumerAssumption, EventOf
  <1>4. QED
    BY <1>1, <1>3, CommissionAssumption DEF CommissionAssumption, SaleOf

\* The agreement is fetched and the first line is next.
LEMMA FetchAgreementInv ==
  ASSUME ServiceIInv, ConsumerIInv', NEW w \in Workers, FetchAgreement(w)
  PROVE  ServiceIInv'
  <1> DEFINE Begun(a) == [step |-> "lines", agr |-> a, line |-> 1, row |-> 0,
                          marked |-> FALSE, seen |-> Absent]
  <1>1. PICK a \in Agreements : job' = [job EXCEPT ![w] = Begun(a)]
    BY DEF FetchAgreement, Answers
  <1> DEFINE j == Begun(a)
  <1>2. j \in JobState /\ j.step = "lines" /\ j.agr = a /\ j.line # 0 /\ j.row = 0 /\ ~j.marked
    BY NoJobFacts DEF NoJob, JobState
  <1>3. AtSale(w)
    BY HandlingFacts DEF FetchAgreement, Handling, AtSale
  <1>4. /\ UNCHANGED <<consumerVars, db, agreementVars, confirmations, req>>
        /\ announced' = announced /\ announced \subseteq Sales \X Nat \X Agreements
    BY DEF FetchAgreement, ServiceIInv, CommissionTypeOK
  <1>5. QED
    BY <1>1, <1>2, <1>3, <1>4, JobStep

\* A line is passed over.
LEMMA SkipLineInv ==
  ASSUME ServiceIInv, ConsumerIInv', NEW w \in Workers, SkipLine(w)
  PROVE  ServiceIInv'
  <1> DEFINE j == [job[w] EXCEPT !.line = @ + 1]
  <1>1. HasStep(w) /\ job[w].step = "lines"
    BY DEF SkipLine, AtLine, HasStep
  <1>2. job' = [job EXCEPT ![w] = j]
    BY DEF SkipLine
  <1>3. /\ j \in JobState /\ j.step = job[w].step /\ j.agr = job[w].agr /\ j.line # 0
        /\ j.row = job[w].row /\ j.marked = job[w].marked
    BY <1>1, JobFacts DEF JobState
  <1>4. /\ UNCHANGED <<consumerVars, db, agreementVars, confirmations, req>>
        /\ announced' = announced
    BY DEF SkipLine
  <1>5. j.step = "lines" /\ AtSale(w) /\ j.agr \in Agreements /\ RowOK(w)
        /\ announced' \subseteq Sales \X Nat \X Agreements
    BY <1>1, <1>3, <1>4, JobFacts
  <1>6. j.row = 0 => ~j.marked
    BY <1>3, <1>5 DEF RowOK
  <1>7. j.row # 0 =>
          /\ j.row \in 1..LineCount[SaleOf(w)]
          /\ Amount[<<j.agr, SaleOf(w), j.row>>] \in Nat
          /\ j.marked \/ <<SaleOf(w), j.agr>> \in processed
          /\ <<SaleOf(w), j.row, j.agr>> \in announced'
    BY <1>1, <1>3, <1>4, <1>5 DEF RowOK, Earned, Key
  <1> HIDE DEF j
  <1>8. QED
    BY <1>2, <1>3, <1>4, <1>5, <1>6, <1>7, JobStep

\* A row is created for a line that earns.
LEMMA CreateEventInv ==
  ASSUME ServiceIInv, ConsumerIInv', NEW w \in Workers, CreateEvent(w)
  PROVE  ServiceIInv'
  <1> DEFINE j == [job[w] EXCEPT !.step = "created", !.row = job[w].line]
  <1>1. HasStep(w) /\ AtLine(w)
    BY DEF CreateEvent, AtLine, HasStep
  <1>2. job' = [job EXCEPT ![w] = j]
    BY DEF CreateEvent, ServiceIInv, CommissionTypeOK
  <1>3. /\ j \in JobState /\ j.step = "created" /\ j.agr = job[w].agr
        /\ j.row = job[w].line /\ j.line # 0
    BY <1>1, JobFacts DEF JobState, RowOK
  <1>4. j.row \in 1..LineCount[SaleOf(w)]
    <2>1. LineCount[SaleOf(w)] \in Nat
      BY <1>1, JobFacts, CommissionAssumption DEF AtSale, CommissionAssumption
    <2>2. job[w].line \in Nat /\ job[w].line # 0
      BY <1>1, JobFacts DEF JobState, RowOK
    <2>3. QED
      BY <1>1, <1>3, <2>1, <2>2 DEF AtLine
  <1>5. Amount[<<j.agr, SaleOf(w), j.row>>] \in Nat
    BY <1>1, <1>3, <1>4, JobFacts, CommissionAssumption
    DEF CreateEvent, Earned, AtSale, CommissionAssumption
  <1>6. /\ UNCHANGED <<consumerVars, db, agreementVars, confirmations, req>>
        /\ announced' = announced
    BY DEF CreateEvent
  <1>7. AtSale(w) /\ j.agr \in Agreements /\ announced' \subseteq Sales \X Nat \X Agreements
    BY <1>1, <1>3, <1>6, JobFacts
  <1>8. j.row # 0
    BY <1>4
  <1> HIDE DEF j
  <1>9. QED
    BY <1>2, <1>3, <1>4, <1>5, <1>6, <1>7, <1>8, JobStep

\* A step that changes neither the row nor what the row is known to satisfy.
LEMMA RowKept ==
  ASSUME ServiceIInv, ConsumerIInv', NEW w \in Workers, HasStep(w), job[w].row # 0,
         NEW j \in JobState, job' = [job EXCEPT ![w] = j],
         UNCHANGED <<consumerVars, db, agreementVars, confirmations, req>>,
         announced \subseteq announced',
         announced' \subseteq Sales \X Nat \X Agreements,
         j.step \notin {"idle", "created"}, j.line # 0,
         j.agr = job[w].agr, j.row = job[w].row,
         j.marked \/ Key(w) \in processed,
         j.step \in {"published", "read", "lines"} =>
           <<SaleOf(w), job[w].row, job[w].agr>> \in announced'
  PROVE  ServiceIInv'
  BY JobFacts, JobStep DEF RowOK, Earned, Key

\* The pair is marked, or its mark was there already.
LEMMA MarkProcessedInv ==
  ASSUME ServiceIInv, ConsumerIInv', NEW w \in Workers, MarkProcessed(w)
  PROVE  ServiceIInv'
  <1> DEFINE j == [job[w] EXCEPT !.step = "marked", !.marked = Key(w) \notin processed]
  <1>1. HasStep(w) /\ job[w].row # 0
    BY JobFacts DEF MarkProcessed, HasStep, RowOK
  <1>2. job' = [job EXCEPT ![w] = j]
    BY DEF MarkProcessed, ServiceIInv, CommissionTypeOK
  <1>3. /\ j \in JobState /\ j.step = "marked" /\ j.agr = job[w].agr
        /\ j.row = job[w].row /\ j.line # 0 /\ j.marked = (Key(w) \notin processed)
    BY <1>1, JobFacts DEF JobState, RowOK
  <1>4. /\ UNCHANGED <<consumerVars, db, agreementVars, confirmations, req>>
        /\ announced' = announced
    BY DEF MarkProcessed
  <1>5. QED
    BY <1>1, <1>2, <1>3, <1>4, JobFacts, RowKept

\* The row is announced.
LEMMA PublishCalculatedInv ==
  ASSUME ServiceIInv, ConsumerIInv', NEW w \in Workers, PublishCalculated(w)
  PROVE  ServiceIInv'
  <1> DEFINE j == [job[w] EXCEPT !.step = "published"]
  <1>1. HasStep(w) /\ job[w].row # 0 /\ (job[w].marked \/ Key(w) \in processed)
    BY JobFacts DEF PublishCalculated, HasStep, RowOK
  <1>2. job' = [job EXCEPT ![w] = j]
    BY DEF PublishCalculated, ServiceIInv, CommissionTypeOK
  <1>3. /\ j \in JobState /\ j.step = "published" /\ j.agr = job[w].agr
        /\ j.row = job[w].row /\ j.line # 0 /\ j.marked = job[w].marked
    BY <1>1, JobFacts DEF JobState, RowOK
  <1>4. /\ announced' = announced \cup {<<SaleOf(w), job[w].row, job[w].agr>>}
        /\ announced' \subseteq Sales \X Nat \X Agreements
    BY <1>1, JobFacts DEF PublishCalculated, AtSale, JobState
  <1>5. UNCHANGED <<consumerVars, db, agreementVars, confirmations, req>>
    BY DEF PublishCalculated
  <1>6. QED
    BY <1>1, <1>2, <1>3, <1>4, <1>5, JobFacts, RowKept

\* The statement is read.
LEMMA ReadStatementInv ==
  ASSUME ServiceIInv, ConsumerIInv', NEW w \in Workers, ReadStatement(w)
  PROVE  ServiceIInv'
  <1> DEFINE j == [job[w] EXCEPT !.step = "read", !.seen = stmt[StatementFor(w)]]
  <1>1. /\ HasStep(w) /\ job[w].row # 0 /\ (job[w].marked \/ Key(w) \in processed)
        /\ <<SaleOf(w), job[w].row, job[w].agr>> \in announced
    BY JobFacts DEF ReadStatement, HasStep, RowOK
  <1>2. job' = [job EXCEPT ![w] = j]
    BY DEF ReadStatement, ServiceIInv, CommissionTypeOK
  <1>3. stmt[StatementFor(w)] \in StatementRow
    BY <1>1, JobFacts, CommissionAssumption
    DEF StatementFor, AtSale, ServiceIInv, CommissionTypeOK, CommissionAssumption
  <1>4. /\ j \in JobState /\ j.step = "read" /\ j.agr = job[w].agr
        /\ j.row = job[w].row /\ j.line # 0 /\ j.marked = job[w].marked
    BY <1>1, <1>3, JobFacts DEF JobState, RowOK
  <1>5. /\ UNCHANGED <<consumerVars, db, agreementVars, confirmations, req>>
        /\ announced' = announced
    BY DEF ReadStatement
  <1>6. QED
    BY <1>1, <1>2, <1>4, <1>5, JobFacts, RowKept

\* The statement is written and the next line is up.
LEMMA WriteStatementInv ==
  ASSUME ServiceIInv, ConsumerIInv', NEW w \in Workers, WriteStatement(w)
  PROVE  ServiceIInv'
  <1> DEFINE n == job[w].line + 1
             j == [job[w] EXCEPT !.step = "lines", !.line = n]
  <1>1. /\ HasStep(w) /\ job[w].row # 0 /\ (job[w].marked \/ Key(w) \in processed)
        /\ <<SaleOf(w), job[w].row, job[w].agr>> \in announced
    BY JobFacts DEF WriteStatement, HasStep, RowOK
  <1>2. job' = [job EXCEPT ![w] = j]
    BY DEF WriteStatement, ServiceIInv, CommissionTypeOK
  <1>a. n \in Nat /\ n # 0
    BY <1>1, JobFacts DEF JobState
  <1> HIDE DEF n
  <1>3. /\ j \in JobState /\ j.step = "lines" /\ j.agr = job[w].agr
        /\ j.row = job[w].row /\ j.line # 0 /\ j.marked = job[w].marked
    BY <1>1, <1>a, JobFacts DEF JobState
  <1>4. /\ UNCHANGED <<consumerVars, db, agreementVars, confirmations, req>>
        /\ announced' = announced
    BY DEF WriteStatement
  <1>5. QED
    BY <1>1, <1>2, <1>3, <1>4, JobFacts, RowKept

-----------------------------------------------------------------------------
(* The end of a transaction.                                                *)

\* An error rolls the transaction back.
LEMMA RolledBackInv ==
  ASSUME ServiceIInv, ConsumerIInv', NEW w \in Workers,
         StatementExists(w) \/ TransientError(w) \/ ServiceCrash(w)
  PROVE  ServiceIInv'
  BY NoJobStep DEF StatementExists, TransientError, ServiceCrash, LoopStep

\* What commits with a row is a legal ledger entry, log entry and statement row.
LEMMA AppliedRow ==
  ASSUME ServiceIInv, NEW w \in Workers, CommitTx(w), job[w].row # 0
  PROVE  /\ Key(w) \in Sales \X Agreements
         /\ Key(w) = <<SaleOf(w), job[w].agr>>
         /\ ledger' = [ledger EXCEPT ![Key(w)] = Append(@, job[w].row)]
         /\ job[w].row \in Nat
         /\ <<SaleOf(w), job[w].row, job[w].agr>> \in announced
         /\ processed' = processed \cup {Key(w)}
         /\ StatementFor(w) \in Statements
         /\ stmt' = [stmt EXCEPT ![StatementFor(w)] = Updated(w, @)]
         /\ \A old \in StatementRow : Updated(w, old) \in StatementRow
  <1>1. HasStep(w) /\ job[w].step = "lines"
    BY DEF CommitTx, HasStep
  <1>2. AtSale(w) /\ job[w].agr \in Agreements /\ RowOK(w) /\ job[w] \in JobState
    BY <1>1, JobFacts
  <1>3. Key(w) \in Sales \X Agreements /\ Key(w) = <<SaleOf(w), job[w].agr>>
    BY <1>2 DEF Key, AtSale
  <1>4. processed' = processed \cup {Key(w)}
    BY <1>1, <1>2 DEF CommitTx, Apply, RowOK
  <1>5. StatementFor(w) \in Statements
    BY <1>2, CommissionAssumption DEF StatementFor, AtSale, CommissionAssumption
  <1>6. ASSUME NEW old \in StatementRow
        PROVE  Updated(w, old) \in StatementRow
    <2>1. job[w].seen \in StatementRow /\ Earned(w, job[w].row) \in Nat
      BY <1>2 DEF JobState, RowOK
    <2>2. job[w].seen.total + Earned(w, job[w].row) \in Nat /\ job[w].seen.lines + 1 \in Nat
      BY <2>1 DEF StatementRow
    <2>3. (IF old.status = "NONE" THEN "DRAFT" ELSE old.status) \in {"NONE", "DRAFT", "CONFIRMED"}
      BY DEF StatementRow
    <2>4. QED
      BY <2>2, <2>3 DEF Updated, StatementRow
  <1>7. QED
    BY <1>1, <1>2, <1>3, <1>4, <1>5, <1>6 DEF CommitTx, Apply, RowOK, JobState

\* What is in a sequence with one more element.
LEMMA AppendFacts ==
  ASSUME NEW q \in Seq(Nat), NEW n \in Nat
  PROVE  /\ Append(q, n) # <<>>
         /\ \A i \in 1..Len(Append(q, n)) :
              (i \in 1..Len(q) /\ Append(q, n)[i] = q[i]) \/ Append(q, n)[i] = n
  <1>1. Len(Append(q, n)) = Len(q) + 1 /\ Len(q) \in Nat
    OBVIOUS
  <1>2. ASSUME NEW i \in 1..Len(Append(q, n))
        PROVE  (i \in 1..Len(q) /\ Append(q, n)[i] = q[i]) \/ Append(q, n)[i] = n
    <2>1. CASE i \in 1..Len(q)
      BY <2>1
    <2>2. CASE i = Len(q) + 1
      BY <2>2
    <2>3. QED
      BY <1>1, <2>1, <2>2
  <1>3. Append(q, n) # <<>>
    BY <1>1
  <1>4. QED
    BY <1>2, <1>3

\* The commit makes row, mark and totals visible together.
LEMMA CommitTxInv ==
  ASSUME ServiceIInv, ConsumerIInv', NEW w \in Workers, CommitTx(w)
  PROVE  ServiceIInv'
  <1>1. LoopStep(w) /\ job' = [job EXCEPT ![w] = NoJob]
        /\ UNCHANGED <<agreementVars, announced, confirmations, req>>
    BY DEF CommitTx, LoopStep
  <1>2. CASE job[w].row = 0
    <2>1. UNCHANGED db
      BY <1>2 DEF CommitTx, Apply
    <2>2. QED
      BY <1>1, <2>1, NoJobStep
  <1>3. CASE job[w].row # 0
    <2> DEFINE key == Key(w)
               row == job[w].row
    <2>1. /\ key \in Sales \X Agreements
          /\ ledger \in [Sales \X Agreements -> Seq(Nat)]
          /\ ledger' = [ledger EXCEPT ![key] = Append(@, row)]
          /\ row \in Nat
          /\ processed' = processed \cup {key}
      BY <1>3, AppliedRow DEF ServiceIInv, CommissionTypeOK
    <2>2. ledger' \in [Sales \X Agreements -> Seq(Nat)]
      BY <2>1
    <2>3. stmt' \in [Statements -> StatementRow]
      <3>1. stmt \in [Statements -> StatementRow] /\ StatementFor(w) \in Statements
        BY <1>3, AppliedRow DEF ServiceIInv, CommissionTypeOK
      <3>2. Updated(w, stmt[StatementFor(w)]) \in StatementRow
        BY <1>3, <3>1, AppliedRow
      <3>3. stmt' = [stmt EXCEPT ![StatementFor(w)] = Updated(w, stmt[StatementFor(w)])]
        BY <1>3, AppliedRow
      <3>4. QED
        BY <3>1, <3>2, <3>3
    <2>4. job' \in [Workers -> JobState] /\ job'[w] = NoJob
          /\ \A v \in Workers : v # w => job'[v] = job[v]
      BY <1>1, NoJobFacts DEF ServiceIInv, CommissionTypeOK
    <2>5. CommissionTypeOK'
      BY <1>1, <2>1, <2>2, <2>3, <2>4 DEF ServiceIInv, CommissionTypeOK, agreementVars
    <2>6. ASSUME NEW v \in Workers
          PROVE  JobOK(v)'
      <3>1. CASE v = w
        BY <2>4, <3>1 DEF JobOK
      <3>2. CASE v # w
        <4>1. task'[v] = task[v]
          BY <1>1, <3>2, TaskFrame DEF ServiceIInv
        <4>2. QED
          BY <1>1, <2>1, <2>4, <3>2, <4>1, JobFrame
      <3>3. QED
        BY <3>1, <3>2
    <2>7. \A r \in Requests : RequestOK(r)'
      BY <1>1 DEF ServiceIInv, RequestOK
    <2>8. ASSUME NEW t \in Sales, NEW a \in Agreements
          PROVE  /\ <<t, a>> \in processed' <=> ledger'[<<t, a>>] # <<>>
                 /\ \A i \in 1..Len(ledger'[<<t, a>>]) : <<t, ledger'[<<t, a>>][i], a>> \in announced'
      <3>1. /\ <<t, a>> \in processed <=> ledger[<<t, a>>] # <<>>
            /\ \A i \in 1..Len(ledger[<<t, a>>]) : <<t, ledger[<<t, a>>][i], a>> \in announced
        BY DEF ServiceIInv, ProcessedIffCommissioned, LedgerAnnounced
      <3>2. CASE <<t, a>> = key
        <4>1. ledger'[<<t, a>>] = Append(ledger[<<t, a>>], row) /\ ledger[<<t, a>>] \in Seq(Nat)
          BY <2>1, <3>2
        <4>2. <<t, row, a>> \in announced
          BY <1>3, <3>2, AppliedRow DEF Key
        <4> DEFINE old == ledger[<<t, a>>]
                   new == ledger'[<<t, a>>]
        <4>3. /\ new # <<>>
              /\ \A i \in 1..Len(new) : (i \in 1..Len(old) /\ new[i] = old[i]) \/ new[i] = row
          <5>1. old \in Seq(Nat) /\ new = Append(old, row)
            BY <4>1
          <5> HIDE DEF old, new, row
          <5>2. QED
            BY <5>1, <2>1, AppendFacts
        <4>4. \A i \in 1..Len(new) : <<t, new[i], a>> \in announced
          BY <3>1, <4>2, <4>3
        <4>5. announced' = announced /\ <<t, a>> \in processed'
          BY <1>1, <2>1, <3>2
        <4>6. QED
          BY <4>3, <4>4, <4>5
      <3>3. CASE <<t, a>> # key
        <4>1. ledger'[<<t, a>>] = ledger[<<t, a>>]
          BY <2>1, <3>3
        <4>2. QED
          BY <1>1, <2>1, <3>1, <3>3, <4>1
      <3>4. QED
        BY <3>2, <3>3
    <2>9. QED
      BY <2>5, <2>6, <2>7, <2>8 DEF ServiceIInv, ProcessedIffCommissioned, LedgerAnnounced
  <1>4. QED
    BY <1>2, <1>3

-----------------------------------------------------------------------------
(* Steps outside a transaction.                                             *)

\* Steps of a replica that has no transaction open.
LEMMA NoTransactionInv ==
  ASSUME ServiceIInv, ConsumerIInv', NEW w \in Workers,
         \/ NoAgreementFound(w) \/ NothingToClawBack(w) \/ ClawbackRejected(w) \/ PayloadIgnored(w)
         \/ OutsideHandler(w)
         \/ TaskDies(w) /\ UNCHANGED serviceVars
  PROVE  ServiceIInv'
  <1>1. /\ LoopStep(w) \/ TaskDies(w)
        /\ UNCHANGED serviceVars
    BY DEF NoAgreementFound, NothingToClawBack, ClawbackRejected, PayloadIgnored,
       OutsideHandler, LoopStep
  <1>2. CASE NoAgreementFound(w) \/ PayloadIgnored(w)
    BY <1>1, <1>2, IdleJobStep DEF NoAgreementFound, PayloadIgnored, ServiceIInv, JobOK, HasStep
  <1>3. CASE NothingToClawBack(w) \/ ClawbackRejected(w)
    BY <1>1, <1>3, IdleJob, IdleJobStep DEF NothingToClawBack, ClawbackRejected, Handling
  <1>4. CASE OutsideHandler(w) \/ TaskDies(w)
    <2>1. task[w].phase # "handling"
      BY <1>4 DEF OutsideHandler, Poll, Commit, CommitRaises, RouteToDlq, CommitSkipped, TaskDies
    <2>2. QED
      BY <1>1, <2>1, IdleJob, IdleJobStep
  <1>5. QED
    BY <1>2, <1>3, <1>4

\* A rebalance changes nothing the service knows of its transactions.
LEMMA ReassignServiceInv ==
  ASSUME ServiceIInv, ConsumerIInv', NEW p \in Partitions, NEW w \in Workers,
         Reassign(p, w), UNCHANGED serviceVars
  PROVE  ServiceIInv'
  <1> USE DEF serviceVars, db, agreementVars
  <1>1. ASSUME NEW v \in Workers
        PROVE  JobOK(v)'
    <2>1. task[v] \in TaskRecord
      BY DEF ServiceIInv, ConsumerIInv, ConsumerTypeOK, TaskRecord
    <2>2. task'[v] = [task[v] EXCEPT !.held = task[v].held /\ task[v].part # p]
      BY DEF Reassign
    <2>3. task'[v].phase = task[v].phase /\ task'[v].part = task[v].part
          /\ task'[v].pos = task[v].pos
      BY <2>1, <2>2 DEF TaskRecord
    <2>4. QED
      BY <2>3, JobFrame
  <1>2. QED
    BY <1>1 DEF ServiceIInv, CommissionTypeOK, RequestOK, ProcessedIffCommissioned, LedgerAnnounced

\* An API request or an agreement update touches no job, ledger or log.
LEMMA ApiStep ==
  ASSUME ServiceIInv, ConsumerIInv', UNCHANGED <<consumerVars, ledger, processed, announced, job>>,
         CommissionTypeOK', \A r \in Requests : RequestOK(r)'
  PROVE  ServiceIInv'
  <1>1. ASSUME NEW v \in Workers
        PROVE  JobOK(v)'
    BY JobFrame DEF consumerVars
  <1>2. QED
    BY <1>1 DEF ServiceIInv, ProcessedIffCommissioned, LedgerAnnounced

\* The rules service changes an agreement.
LEMMA ChangeAgreementInv ==
  ASSUME ServiceIInv, ConsumerIInv', NEW a \in Agreements, ChangeAgreement(a)
  PROVE  ServiceIInv'
  <1> USE DEF ChangeAgreement, db
  <1>1. changes' \in 0..MaxAgreementChanges
    BY CommissionAssumption DEF CommissionAssumption, ServiceIInv, CommissionTypeOK
  <1>2. CommissionTypeOK'
    BY <1>1 DEF ServiceIInv, CommissionTypeOK
  <1>3. \A r \in Requests : RequestOK(r)'
    BY DEF ServiceIInv, RequestOK
  <1>4. QED
    BY <1>2, <1>3, ApiStep

\* A confirm request goes on.
LEMMA ConfirmInv ==
  ASSUME ServiceIInv, ConsumerIInv', NEW r \in Requests,
         \/ \E s \in Statements : ConfirmRead(r, s)
         \/ ConfirmStep(r) \/ ConfirmFails(r)
  PROVE  ServiceIInv'
  <1> USE DEF db, agreementVars
  <1>1. UNCHANGED <<consumerVars, ledger, processed, announced, job, active, changes>>
    BY DEF ConfirmRead, ConfirmStep, ConfirmWrite, ConfirmSend, ConfirmCommit, ConfirmFails
  <1>2. req \in [Requests -> RequestState] /\ stmt \in [Statements -> StatementRow]
        /\ confirmations \in [Statements -> Seq(Nat)]
    BY DEF ServiceIInv, CommissionTypeOK
  <1>3. PICK q \in RequestState :
          /\ req' = [req EXCEPT ![r] = q]
          /\ q.step \in {"read", "written", "sent"} => q.of \in Statements
    <2>1. CASE \E s \in Statements : ConfirmRead(r, s)
      <3>1. PICK s \in Statements : ConfirmRead(r, s)
        BY <2>1
      <3>2. [step |-> "read", of |-> s] \in RequestState
        BY DEF RequestState
      <3>3. QED
        BY <3>1, <3>2 DEF ConfirmRead
    <2>2. ASSUME NEW st \in {"written", "sent", "done"},
                 req[r].step \in {"read", "written", "sent"},
                 req' = [req EXCEPT ![r].step = st]
          PROVE  \E q \in RequestState :
                   /\ req' = [req EXCEPT ![r] = q]
                   /\ q.step \in {"read", "written", "sent"} => q.of \in Statements
      <3> DEFINE q == [req[r] EXCEPT !.step = st]
      <3>1. q \in RequestState /\ q.of = req[r].of
        BY <1>2 DEF RequestState
      <3>2. req[r].of \in Statements
        BY <2>2 DEF ServiceIInv, RequestOK
      <3>3. req' = [req EXCEPT ![r] = q]
        BY <1>2, <2>2
      <3>4. QED
        BY <3>1, <3>2, <3>3
    <2>3. CASE ConfirmStep(r) \/ ConfirmFails(r)
      BY <2>2, <2>3 DEF ConfirmStep, ConfirmWrite, ConfirmSend, ConfirmCommit, ConfirmFails
    <2>4. QED
      BY <2>1, <2>3
  <1>4. req' \in [Requests -> RequestState] /\ \A x \in Requests : RequestOK(x)'
    BY <1>2, <1>3 DEF RequestOK, ServiceIInv
  <1>5. req[r].step \in {"written", "sent"} => req[r].of \in Statements
    BY DEF ServiceIInv, RequestOK
  <1>6. confirmations' \in [Statements -> Seq(Nat)]
    <2>1. CASE ConfirmSend(r)
      <3>1. stmt[req[r].of].total \in Nat
        BY <1>2, <1>5, <2>1 DEF ConfirmSend, StatementRow
      <3>2. QED
        BY <1>2, <1>5, <2>1, <3>1 DEF ConfirmSend
    <2>2. CASE ~ConfirmSend(r)
      BY <1>2, <2>2 DEF ConfirmRead, ConfirmStep, ConfirmWrite, ConfirmCommit, ConfirmFails
    <2>3. QED
      BY <2>1, <2>2
  <1>7. stmt' \in [Statements -> StatementRow]
    <2>1. CASE ConfirmCommit(r)
      <3> DEFINE s == req[r].of
                 new == [stmt[s] EXCEPT !.status = "CONFIRMED"]
      <3>1. s \in Statements /\ stmt[s] \in StatementRow
        BY <1>2, <1>5, <2>1 DEF ConfirmCommit
      <3>2. new \in StatementRow
        BY <3>1 DEF StatementRow
      <3>3. stmt' = [stmt EXCEPT ![s] = new]
        BY <1>2, <2>1, <3>1 DEF ConfirmCommit
      <3>4. QED
        BY <1>2, <3>1, <3>2, <3>3
    <2>2. CASE ~ConfirmCommit(r)
      BY <1>2, <2>2 DEF ConfirmRead, ConfirmStep, ConfirmWrite, ConfirmSend, ConfirmFails
    <2>3. QED
      BY <2>1, <2>2
  <1>8. CommissionTypeOK'
    BY <1>1, <1>4, <1>6, <1>7 DEF ServiceIInv, CommissionTypeOK
  <1>9. QED
    BY <1>1, <1>4, <1>8, ApiStep

-----------------------------------------------------------------------------
(* Results.                                                                 *)

\* The inductive invariant holds initially ...
LEMMA ServiceInitInv == Init => ServiceIInv
  <1> SUFFICES ASSUME Init PROVE ServiceIInv
    OBVIOUS
  <1> USE DEF Init
  <1>1. CommissionTypeOK
    BY NoJobFacts, CommissionAssumption
    DEF CommissionTypeOK, NoRequest, RequestState, CommissionAssumption
  <1>2. \A w \in Workers : JobOK(w)
    BY DEF JobOK
  <1>3. \A r \in Requests : RequestOK(r)
    BY DEF RequestOK, NoRequest
  <1>4. ProcessedIffCommissioned /\ LedgerAnnounced
    BY DEF ProcessedIffCommissioned, LedgerAnnounced
  <1>5. QED
    BY <1>1, <1>2, <1>3, <1>4, ConsumerInitInv DEF ServiceIInv

\* ... and every step preserves it.
LEMMA ServiceNextInv == ServiceIInv /\ [Next]_vars => ServiceIInv'
  <1> SUFFICES ASSUME ServiceIInv, [Next]_vars
               PROVE  ServiceIInv'
    OBVIOUS
  <1>1. ConsumerIInv'
    BY ServiceStepIsLoopStep, ConsumerNextInv DEF ServiceIInv
  <1>2. ASSUME NEW w \in Workers, HandlerStep(w)
        PROVE  ServiceIInv'
    BY <1>1, <1>2, FetchAgreementInv, SkipLineInv, CreateEventInv, MarkProcessedInv,
       PublishCalculatedInv, ReadStatementInv, WriteStatementInv, RolledBackInv,
       CommitTxInv, NoTransactionInv DEF HandlerStep
  <1>3. ASSUME NEW w \in Workers,
               \/ OutsideHandler(w) \/ TransientError(w) \/ ServiceCrash(w)
               \/ TaskDies(w) /\ UNCHANGED serviceVars
        PROVE  ServiceIInv'
    BY <1>1, <1>3, RolledBackInv, NoTransactionInv
  <1>4. ASSUME NEW p \in Partitions, NEW w \in Workers, Reassign(p, w), UNCHANGED serviceVars
        PROVE  ServiceIInv'
    BY <1>1, <1>4, ReassignServiceInv
  <1>5. ASSUME NEW r \in Requests,
               \/ \E s \in Statements : ConfirmRead(r, s)
               \/ ConfirmStep(r) \/ ConfirmFails(r)
        PROVE  ServiceIInv'
    BY <1>1, <1>5, ConfirmInv
  <1>6. ASSUME NEW a \in Agreements, ChangeAgreement(a)
        PROVE  ServiceIInv'
    BY <1>1, <1>6, ChangeAgreementInv
  <1>7. CASE UNCHANGED vars
    <2>1. CommissionTypeOK' /\ \A r \in Requests : RequestOK(r)'
      BY <1>7 DEF vars, serviceVars, db, agreementVars, ServiceIInv, CommissionTypeOK, RequestOK
    <2>2. QED
      BY <1>1, <1>7, <2>1, ApiStep DEF vars, serviceVars, db
  <1>8. QED
    BY <1>2, <1>3, <1>4, <1>5, <1>6, <1>7 DEF Next

\* The inductive invariant of the service.
THEOREM ServiceInvariant == Spec => []ServiceIInv
  <1>1. QED
    BY ServiceInitInv, ServiceNextInv, PTL DEF Spec

\* The service's variables keep their types.
THEOREM CommissionTyping == Spec => []CommissionTypeOK
  <1>1. ServiceIInv => CommissionTypeOK
    BY DEF ServiceIInv
  <1>2. QED
    BY <1>1, ServiceInvariant, PTL

\* The idempotency log and the commission rows never disagree, not even when a
\* partition moves while its owner is in mid-event (mark_processed, commit).
THEOREM LogMatchesLedger == Spec => []ProcessedIffCommissioned
  <1>1. ServiceIInv => ProcessedIffCommissioned
    BY DEF ServiceIInv
  <1>2. QED
    BY <1>1, ServiceInvariant, PTL

\* No commission is in the ledger that was not announced (send before commit).
THEOREM NothingUnannounced == Spec => []LedgerAnnounced
  <1>1. ServiceIInv => LedgerAnnounced
    BY DEF ServiceIInv
  <1>2. QED
    BY <1>1, ServiceInvariant, PTL

-----------------------------------------------------------------------------
(* At most one commission per sale and agreement.  The idempotency guard    *)
(* alone does not give it: it needs that no two replicas have a sale of the *)
(* same dealer in hand, which follows from the key of the events and from   *)
(* rebalances that wait for the event in hand.                              *)

\* The row of an open transaction is the first one of its key.
RowIsFirst == \A w \in Workers : job[w].row # 0 => Key(w) \notin processed

OnceIInv == ServiceIInv /\ CommissionedOnce /\ RowIsFirst

\* Two open transactions are for different dealers, hence for different pairs.
LEMMA OpenTransactionsDiffer ==
  ASSUME ~ZombieHandoff, ServiceIInv, NEW v \in Workers, NEW w \in Workers, v # w,
         HasStep(v), HasStep(w)
  PROVE  Key(v) # Key(w) /\ StatementFor(v) # StatementFor(w)
  <1>1. AtSale(v) /\ AtSale(w)
    BY JobFacts
  <1>2. Busy(v) /\ Busy(w)
    BY <1>1 DEF AtSale, Busy
  <1>3. ASSUME NEW x \in Workers, Busy(x)
        PROVE  task[x].part \in Partitions /\ task[x].pos \in 1..Len(Log[task[x].part])
    BY <1>3, BusyFacts DEF ServiceIInv
  <1>4. task[v].part # task[w].part
    BY <1>2 DEF ServiceIInv, ConsumerIInv, HandInv, HandOK
  <1>5. DealerOf[SaleOf(v)] # DealerOf[SaleOf(w)]
    BY <1>1, <1>2, <1>3, <1>4, KeyedByDealer DEF AtSale, SaleOf, EventOf, KeyedByDealer
  <1>6. StatementFor(v) # StatementFor(w)
    BY <1>1, <1>5, CommissionAssumption DEF AtSale, StatementFor, CommissionAssumption
  <1>7. QED
    BY <1>5, <1>6 DEF Key

\* Only the steps of a sale's transaction change its job to another open one.
LEMMA JobChange ==
  ASSUME ServiceIInv, [Next]_vars, NEW v \in Workers, job'[v] # job[v], job'[v] # NoJob
  PROVE  \/ FetchAgreement(v) \/ SkipLine(v) \/ CreateEvent(v) \/ MarkProcessed(v)
         \/ PublishCalculated(v) \/ ReadStatement(v) \/ WriteStatement(v)
  <1>1. job \in [Workers -> JobState]
    BY DEF ServiceIInv, CommissionTypeOK
  <1>2. ASSUME NEW w \in Workers, NEW j, job' = [job EXCEPT ![w] = j]
        PROVE  w = v /\ j = job'[v]
    BY <1>1, <1>2
  <1>3. ASSUME NEW w \in Workers, job' = [job EXCEPT ![w] = NoJob]
        PROVE  FALSE
    BY <1>2, <1>3
  <1>4. job' # job
    OBVIOUS
  <1>5. ASSUME NEW w \in Workers, HandlerStep(w) \/ TransientError(w) \/ ServiceCrash(w)
        PROVE  \/ FetchAgreement(w) \/ SkipLine(w) \/ CreateEvent(w) \/ MarkProcessed(w)
               \/ PublishCalculated(w) \/ ReadStatement(w) \/ WriteStatement(w)
    BY <1>3, <1>4, <1>5 DEF HandlerStep, TransientError, ServiceCrash, StatementExists, CommitTx,
       NoAgreementFound, NothingToClawBack, ClawbackRejected, PayloadIgnored, serviceVars
  <1>6. \E w \in Workers : HandlerStep(w) \/ TransientError(w) \/ ServiceCrash(w)
    BY <1>4 DEF Next, vars, serviceVars, OutsideHandler, ConfirmRead, ConfirmStep,
       ConfirmWrite, ConfirmSend, ConfirmCommit, ConfirmFails, ChangeAgreement
  <1>7. PICK w \in Workers :
          \/ FetchAgreement(w) \/ SkipLine(w) \/ CreateEvent(w) \/ MarkProcessed(w)
          \/ PublishCalculated(w) \/ ReadStatement(w) \/ WriteStatement(w)
    BY <1>5, <1>6
  <1>8. \A x \in Workers : x # w => job'[x] = job[x]
    BY <1>1, <1>7 DEF FetchAgreement, SkipLine, CreateEvent, MarkProcessed,
       PublishCalculated, ReadStatement, WriteStatement
  <1>9. QED
    BY <1>7, <1>8

\* A replica whose transaction stays as it is keeps its event in hand.
LEMMA EventKept ==
  ASSUME ServiceIInv, [Next]_vars, NEW v \in Workers, HasStep(v), job'[v] = job[v]
  PROVE  task'[v].part = task[v].part /\ task'[v].pos = task[v].pos
  <1>1. job \in [Workers -> JobState] /\ task \in [Workers -> TaskRecord]
    BY DEF ServiceIInv, CommissionTypeOK, ConsumerIInv, ConsumerTypeOK, TaskRecord
  <1>2. task[v].phase = "handling"
    BY JobFacts DEF AtSale
  <1>3. ASSUME NEW w \in Workers, w # v, LoopStep(w) \/ TaskDies(w) \/ Crash(w)
        PROVE  task'[v] = task[v]
    BY <1>3, TaskFrame DEF ServiceIInv
  <1>4. ASSUME LoopStep(v) \/ TaskDies(v)
        PROVE  task'[v].part = task[v].part /\ task'[v].pos = task[v].pos
    <2>1. HandlerReturns(v) \/ HandlerRaises(v)
      BY <1>2, <1>4 DEF LoopStep, Poll, Commit, CommitRaises, RouteToDlq, CommitSkipped, TaskDies
    <2>2. CASE HandlerReturns(v)
      BY <1>1, <2>2 DEF HandlerReturns, TaskRecord
    <2>3. CASE HandlerRaises(v)
      BY <1>1, <2>3 DEF HandlerRaises, Retry, Retried
    <2>4. QED
      BY <2>1, <2>2, <2>3
  <1>5. ASSUME NEW p \in Partitions, NEW w \in Workers, Reassign(p, w)
        PROVE  task'[v].part = task[v].part /\ task'[v].pos = task[v].pos
    <2>1. task'[v] = [task[v] EXCEPT !.held = task[v].held /\ task[v].part # p]
      BY <1>5 DEF Reassign
    <2>2. QED
      BY <1>1, <2>1 DEF TaskRecord
  <1>6. ~ServiceCrash(v)
    BY <1>1, NoJobFacts DEF ServiceCrash, HasStep
  <1>7. \/ \E w \in Workers : w # v /\ (LoopStep(w) \/ TaskDies(w) \/ Crash(w))
        \/ LoopStep(v) \/ TaskDies(v)
        \/ \E p \in Partitions, w \in Workers : Reassign(p, w)
        \/ task' = task
    <2>1. \A w \in Workers : HandlerStep(w) => task' = task \/ LoopStep(w)
      BY DEF HandlerStep, LoopStep, consumerVars, FetchAgreement, NoAgreementFound, SkipLine,
         CreateEvent, MarkProcessed, PublishCalculated, ReadStatement, WriteStatement,
         StatementExists, CommitTx, NothingToClawBack, ClawbackRejected, PayloadIgnored,
         TransientError
    <2>2. QED
      BY <1>6, <2>1 DEF Next, vars, consumerVars, OutsideHandler, TransientError, ServiceCrash,
         LoopStep, ConfirmRead, ConfirmStep, ConfirmWrite, ConfirmSend, ConfirmCommit,
         ConfirmFails, ChangeAgreement
  <1>8. QED
    BY <1>3, <1>4, <1>5, <1>7

\* An open transaction has just begun, or it was open for the same sale and agreement.
LEMMA OpenBefore ==
  ASSUME ServiceIInv, [Next]_vars, NEW v \in Workers, HasStep(v)'
  PROVE  \/ FetchAgreement(v)
         \/ /\ HasStep(v)
            /\ SaleOf(v)' = SaleOf(v) /\ job'[v].agr = job[v].agr
            /\ \/ job'[v] = job[v]
               \/ SkipLine(v) \/ CreateEvent(v) \/ MarkProcessed(v)
               \/ PublishCalculated(v) \/ ReadStatement(v) \/ WriteStatement(v)
  <1>1. job \in [Workers -> JobState]
    BY DEF ServiceIInv, CommissionTypeOK
  <1>2. CASE job'[v] = job[v]
    <2>1. HasStep(v)
      BY <1>2 DEF HasStep
    <2>2. QED
      BY <1>2, <2>1, EventKept DEF SaleOf, EventOf
  <1>3. CASE job'[v] # job[v] /\ ~FetchAgreement(v)
    <2>1. \/ SkipLine(v) \/ CreateEvent(v) \/ MarkProcessed(v)
          \/ PublishCalculated(v) \/ ReadStatement(v) \/ WriteStatement(v)
      BY <1>3, JobChange, NoJobFacts DEF HasStep
    <2>2. task' = task
      BY <2>1 DEF SkipLine, CreateEvent, MarkProcessed, PublishCalculated,
         ReadStatement, WriteStatement, consumerVars
    <2>3. job[v] \in JobState /\ HasStep(v)
      BY <1>1, <2>1 DEF SkipLine, AtLine, CreateEvent, MarkProcessed, PublishCalculated,
         ReadStatement, WriteStatement, HasStep
    <2>4. job'[v].agr = job[v].agr
      <3>1. CASE SkipLine(v) \/ PublishCalculated(v)
        BY <1>1, <2>3, <3>1 DEF SkipLine, PublishCalculated, JobState
      <3>2. CASE CreateEvent(v) \/ MarkProcessed(v)
        BY <1>1, <2>3, <3>2 DEF CreateEvent, MarkProcessed, JobState
      <3>3. CASE ReadStatement(v) \/ WriteStatement(v)
        BY <1>1, <2>3, <3>3 DEF ReadStatement, WriteStatement, JobState
      <3>4. QED
        BY <2>1, <3>1, <3>2, <3>3
    <2>5. QED
      BY <2>1, <2>2, <2>3, <2>4 DEF SaleOf, EventOf
  <1>4. QED
    BY <1>2, <1>3

\* What becomes of the row of an open transaction: only CreateEvent sets it.
LEMMA RowEffect ==
  ASSUME ServiceIInv, NEW v \in Workers, HasStep(v)
  PROVE  /\ CreateEvent(v) => /\ job'[v].row = job[v].line /\ job'[v].step = "created"
         /\ SkipLine(v) => /\ job'[v].row = job[v].row /\ job'[v].step = "lines"
                           /\ job'[v].seen = job[v].seen /\ job'[v].line = job[v].line + 1
         /\ MarkProcessed(v) => /\ job'[v].row = job[v].row /\ job'[v].step = "marked"
         /\ PublishCalculated(v) => /\ job'[v].row = job[v].row /\ job'[v].step = "published"
         /\ ReadStatement(v) => /\ job'[v].row = job[v].row /\ job'[v].step = "read"
                                /\ job'[v].seen = stmt[StatementFor(v)]
         /\ WriteStatement(v) => /\ job'[v].row = job[v].row /\ job'[v].step = "lines"
                                 /\ job'[v].seen = job[v].seen
  <1>1. job \in [Workers -> JobState] /\ job[v] \in JobState
    BY DEF ServiceIInv, CommissionTypeOK
  <1>2. ASSUME SkipLine(v)
        PROVE  /\ job'[v].row = job[v].row /\ job'[v].step = "lines"
               /\ job'[v].seen = job[v].seen /\ job'[v].line = job[v].line + 1
    BY <1>1, <1>2 DEF SkipLine, AtLine, JobState
  <1>3. ASSUME CreateEvent(v)
        PROVE  job'[v].row = job[v].line /\ job'[v].step = "created"
    BY <1>1, <1>3 DEF CreateEvent, JobState
  <1>4. ASSUME MarkProcessed(v)
        PROVE  job'[v].row = job[v].row /\ job'[v].step = "marked"
    BY <1>1, <1>4 DEF MarkProcessed, JobState
  <1>5. ASSUME PublishCalculated(v)
        PROVE  job'[v].row = job[v].row /\ job'[v].step = "published"
    BY <1>1, <1>5 DEF PublishCalculated, JobState
  <1>6. ASSUME ReadStatement(v)
        PROVE  /\ job'[v].row = job[v].row /\ job'[v].step = "read"
               /\ job'[v].seen = stmt[StatementFor(v)]
    BY <1>1, <1>6 DEF ReadStatement, JobState
  <1>7. ASSUME WriteStatement(v)
        PROVE  /\ job'[v].row = job[v].row /\ job'[v].step = "lines"
               /\ job'[v].seen = job[v].seen
    BY <1>1, <1>7 DEF WriteStatement, JobState
  <1>8. QED
    BY <1>2, <1>3, <1>4, <1>5, <1>6, <1>7

\* Where a row comes from: it was there, or it is created after a look at the log.
LEMMA RowOrigin ==
  ASSUME ServiceIInv, [Next]_vars, NEW v \in Workers, job'[v].row # 0
  PROVE  /\ HasStep(v)
         /\ Key(v)' = Key(v)
         /\ job[v].row # 0 \/ Key(v) \notin processed
  <1>1. HasStep(v)' /\ ~FetchAgreement(v)
    <2>1. JobOK(v)'
      BY ServiceNextInv DEF ServiceIInv
    <2>2. ~FetchAgreement(v)
      BY DEF FetchAgreement, ServiceIInv, CommissionTypeOK
    <2>3. QED
      BY <2>1, <2>2, NoJobFacts DEF JobOK
  <1>2. HasStep(v) /\ Key(v)' = Key(v)
    BY <1>1, OpenBefore DEF Key
  <1>3. CASE CreateEvent(v)
    BY <1>2, <1>3 DEF CreateEvent, IsProcessed
  <1>4. CASE ~CreateEvent(v)
    BY <1>1, <1>2, <1>4, OpenBefore, RowEffect
  <1>5. QED
    BY <1>2, <1>3, <1>4

\* What a step adds to the log and the ledger.
LEMMA CommitEffect ==
  ASSUME ServiceIInv, [Next]_vars
  PROVE  \/ processed' = processed /\ ledger' = ledger
         \/ \E w \in Workers : CommitTx(w) /\ job[w].row # 0
  <1>1. ASSUME NEW w \in Workers, CommitTx(w), job[w].row = 0
        PROVE  processed' = processed /\ ledger' = ledger
    BY <1>1 DEF CommitTx, Apply, db
  <1>2. QED
    BY <1>1 DEF Next, vars, serviceVars, db, HandlerStep, OutsideHandler, TransientError,
       ServiceCrash, FetchAgreement, NoAgreementFound, SkipLine, CreateEvent,
       MarkProcessed, PublishCalculated, ReadStatement, WriteStatement, StatementExists,
       NothingToClawBack, ClawbackRejected, PayloadIgnored, ConfirmRead, ConfirmStep,
       ConfirmWrite, ConfirmSend, ConfirmCommit, ConfirmFails, ChangeAgreement

\* Every step preserves uniqueness, if rebalances wait for the event in hand.
LEMMA OnceNextInv == ~ZombieHandoff /\ OnceIInv /\ [Next]_vars => OnceIInv'
  <1> SUFFICES ASSUME ~ZombieHandoff, OnceIInv, [Next]_vars
               PROVE  OnceIInv'
    OBVIOUS
  <1> USE DEF OnceIInv
  <1>1. ServiceIInv'
    BY ServiceNextInv
  <1>2. CASE processed' = processed /\ ledger' = ledger
    <2>1. CommissionedOnce'
      BY <1>2 DEF CommissionedOnce
    <2>2. RowIsFirst'
      BY <1>2, RowOrigin DEF RowIsFirst
    <2>3. QED
      BY <1>1, <2>1, <2>2
  <1>3. CASE \E w \in Workers : CommitTx(w) /\ job[w].row # 0
    <2>1. PICK w \in Workers : CommitTx(w) /\ job[w].row # 0
      BY <1>3
    <2>2. /\ Key(w) \in Sales \X Agreements
          /\ ledger' = [ledger EXCEPT ![Key(w)] = Append(@, job[w].row)]
          /\ processed' = processed \cup {Key(w)}
      BY <2>1, AppliedRow
    <2>3. ledger[Key(w)] = <<>>
      <3>1. Key(w) \notin processed
        BY <2>1 DEF RowIsFirst
      <3>2. QED
        BY <2>2, <3>1 DEF ServiceIInv, ProcessedIffCommissioned
    <2>4. CommissionedOnce'
      <3> SUFFICES ASSUME NEW t \in Sales, NEW a \in Agreements
                   PROVE  Len(ledger'[<<t, a>>]) <= 1
        BY DEF CommissionedOnce
      <3>1. ledger \in [Sales \X Agreements -> Seq(Nat)]
        BY DEF ServiceIInv, CommissionTypeOK
      <3>2. CASE <<t, a>> = Key(w)
        <4>1. ledger'[<<t, a>>] = Append(<<>>, job[w].row)
          BY <2>2, <2>3, <3>1, <3>2
        <4>2. QED
          BY <4>1
      <3>3. CASE <<t, a>> # Key(w)
        <4>1. ledger'[<<t, a>>] = ledger[<<t, a>>]
          BY <2>2, <3>1, <3>3
        <4>2. QED
          BY <4>1 DEF CommissionedOnce
      <3>4. QED
        BY <3>2, <3>3
    <2>5. RowIsFirst'
      <3> SUFFICES ASSUME NEW v \in Workers, job'[v].row # 0
                   PROVE  Key(v)' \notin processed'
        BY DEF RowIsFirst
      <3>1. HasStep(v) /\ Key(v)' = Key(v) /\ Key(v) \notin processed
        BY RowOrigin DEF RowIsFirst
      <3>2. v # w
        BY <2>1, NoJobFacts DEF CommitTx, ServiceIInv, CommissionTypeOK
      <3>3. HasStep(w)
        BY <2>1 DEF CommitTx, HasStep
      <3>4. Key(v) # Key(w)
        BY <3>1, <3>2, <3>3, OpenTransactionsDiffer
      <3>5. QED
        BY <2>2, <3>1, <3>4
    <2>6. QED
      BY <1>1, <2>4, <2>5
  <1>4. QED
    BY <1>2, <1>3, CommitEffect

\* A sale is commissioned at most once under an agreement, however often its
\* event is delivered, as long as rebalances wait for the event in hand
\* (is_processed, mark_processed).
THEOREM NoDoubleCommission == ASSUME ~ZombieHandoff PROVE Spec => []CommissionedOnce
  <1>1. Init => OnceIInv
    BY ServiceInitInv, NoJobFacts DEF Init, OnceIInv, CommissionedOnce, RowIsFirst
  <1>2. OnceIInv /\ [Next]_vars => OnceIInv'
    BY OnceNextInv
  <1>3. OnceIInv => CommissionedOnce
    BY DEF OnceIInv
  <1>4. QED
    BY <1>1, <1>2, <1>3, PTL DEF Spec

-----------------------------------------------------------------------------
(* Confirmations.  The row lock that a flush takes until the commit makes   *)
(* the total of the event the total of the statement.                       *)

\* Past its flush and before its commit, a confirm request holds the statement's row.
Locks(r) == req[r].step \in {"written", "sent"}
Last(totals) == totals[Len(totals)]

\* Who holds a row is alone with it, and has announced the total the row has.
LockInv ==
  \A r \in Requests : Locks(r) =>
    /\ \A v \in Workers : ~(StatementWritten(v) /\ StatementFor(v) = req[r].of)
    /\ \A q \in Requests : Locks(q) /\ req[q].of = req[r].of => q = r
    /\ req[r].step = "sent" =>
         /\ confirmations[req[r].of] # <<>>
         /\ stmt[req[r].of].total = Last(confirmations[req[r].of])

\* The last element of a sequence with one more.
LEMMA LastOfAppend ==
  ASSUME NEW q \in Seq(Nat), NEW n \in Nat
  PROVE  Append(q, n) # <<>> /\ Last(Append(q, n)) = n
  <1>1. PICK k \in Nat : k = Len(q)
    OBVIOUS
  <1>2. Len(Append(q, n)) = k + 1 /\ Append(q, n)[k + 1] = n
    BY <1>1
  <1>3. QED
    BY <1>2, AppendFacts DEF Last

\* A written statement was written before, or it is this step that writes it.
LEMMA WrittenBefore ==
  ASSUME ServiceIInv, [Next]_vars, NEW v \in Workers, StatementWritten(v)'
  PROVE  /\ StatementFor(v)' = StatementFor(v)
         /\ job'[v].seen = job[v].seen
         /\ StatementWritten(v) \/ WriteStatement(v)
  <1>1. HasStep(v)' /\ job'[v].row # 0 /\ job'[v].step = "lines"
    BY DEF StatementWritten, HasStep
  <1>2. ~FetchAgreement(v)
    BY <1>1 DEF FetchAgreement, ServiceIInv, CommissionTypeOK
  <1>3. HasStep(v) /\ SaleOf(v)' = SaleOf(v)
    BY <1>1, <1>2, OpenBefore
  <1>4. job'[v] = job[v] \/ SkipLine(v) \/ WriteStatement(v)
    BY <1>1, <1>2, <1>3, OpenBefore, RowEffect
  <1>5. SkipLine(v) => job[v].step = "lines"
    BY DEF SkipLine, AtLine
  <1>6. QED
    BY <1>1, <1>3, <1>4, <1>5, RowEffect DEF StatementWritten, StatementFor

\* Statements are written by commits only.
LEMMA StatementEffect ==
  ASSUME ServiceIInv, [Next]_vars
  PROVE  \/ stmt' = stmt
         \/ \E w \in Workers : /\ CommitTx(w) /\ StatementWritten(w)
                               /\ stmt' = [stmt EXCEPT ![StatementFor(w)] = Updated(w, @)]
         \/ \E r \in Requests : ConfirmCommit(r)
  <1>1. ASSUME NEW w \in Workers, CommitTx(w)
        PROVE  \/ stmt' = stmt
               \/ /\ StatementWritten(w)
                  /\ stmt' = [stmt EXCEPT ![StatementFor(w)] = Updated(w, @)]
    BY <1>1 DEF CommitTx, Apply, db, StatementWritten
  <1>2. QED
    BY <1>1 DEF Next, vars, serviceVars, db, HandlerStep, OutsideHandler, TransientError,
       ServiceCrash, FetchAgreement, NoAgreementFound, SkipLine, CreateEvent,
       MarkProcessed, PublishCalculated, ReadStatement, WriteStatement, StatementExists,
       NothingToClawBack, ClawbackRejected, PayloadIgnored, ConfirmRead, ConfirmStep,
       ConfirmWrite, ConfirmSend, ConfirmFails, ChangeAgreement

\* Only a confirm request's own steps move it, and they move nothing of the replicas.
LEMMA RequestEffect ==
  ASSUME [Next]_vars
  PROVE  \/ UNCHANGED <<req, confirmations>> /\ \A r \in Requests : ~ConfirmCommit(r)
         \/ \E r \in Requests :
              /\ (\E s \in Statements : ConfirmRead(r, s)) \/ ConfirmStep(r) \/ ConfirmFails(r)
              /\ UNCHANGED <<consumerVars, job>>
  <1>1. ASSUME NEW r \in Requests,
               (\E s \in Statements : ConfirmRead(r, s)) \/ ConfirmStep(r) \/ ConfirmFails(r)
        PROVE  UNCHANGED <<consumerVars, job>>
    BY <1>1 DEF ConfirmRead, ConfirmStep, ConfirmWrite, ConfirmSend, ConfirmCommit, ConfirmFails
  <1>2. \/ UNCHANGED <<req, confirmations>>
        \/ \E r \in Requests :
             (\E s \in Statements : ConfirmRead(r, s)) \/ ConfirmStep(r) \/ ConfirmFails(r)
    <2>1. ASSUME NEW w \in Workers, HandlerStep(w)
          PROVE  UNCHANGED <<req, confirmations>>
      BY <2>1 DEF HandlerStep, FetchAgreement, NoAgreementFound, SkipLine, CreateEvent,
         MarkProcessed, PublishCalculated, ReadStatement, WriteStatement, StatementExists,
         CommitTx, NothingToClawBack, ClawbackRejected, PayloadIgnored, serviceVars, db
    <2>2. QED
      BY <2>1 DEF Next, vars, serviceVars, OutsideHandler, TransientError, ServiceCrash,
         ChangeAgreement
  <1>3. QED
    BY <1>1, <1>2 DEF ConfirmStep

\* A replica's commit keeps off the rows that requests hold.
LEMMA LockedTotal ==
  ASSUME ServiceIInv, LockInv, [Next]_vars, NEW r \in Requests, Locks(r)
  PROVE  stmt'[req[r].of].total = stmt[req[r].of].total
  <1>1. req[r].of \in Statements /\ stmt \in [Statements -> StatementRow]
    BY DEF ServiceIInv, RequestOK, Locks, CommissionTypeOK
  <1>2. ASSUME NEW w \in Workers, StatementWritten(w),
               stmt' = [stmt EXCEPT ![StatementFor(w)] = Updated(w, @)]
        PROVE  stmt'[req[r].of].total = stmt[req[r].of].total
    BY <1>1, <1>2 DEF LockInv
  <1>3. ASSUME NEW q \in Requests, ConfirmCommit(q)
        PROVE  stmt'[req[r].of].total = stmt[req[r].of].total
    <2>1. stmt' = [stmt EXCEPT ![req[q].of].status = "CONFIRMED"]
      BY <1>3 DEF ConfirmCommit
    <2>2. QED
      BY <1>1, <2>1 DEF StatementRow
  <1>4. QED
    BY <1>2, <1>3, StatementEffect

\* Every step keeps the rows locked that are held.
LEMMA LockNextInv == ServiceIInv /\ LockInv /\ [Next]_vars => LockInv'
  <1> SUFFICES ASSUME ServiceIInv, LockInv, [Next]_vars
               PROVE  LockInv'
    OBVIOUS
  <1>1. /\ req \in [Requests -> RequestState] /\ stmt \in [Statements -> StatementRow]
        /\ confirmations \in [Statements -> Seq(Nat)]
    BY DEF ServiceIInv, CommissionTypeOK
  <1>2. CASE UNCHANGED <<req, confirmations>>
    <2> SUFFICES ASSUME NEW r \in Requests, Locks(r)'
                 PROVE  /\ \A v \in Workers : ~(StatementWritten(v)' /\ StatementFor(v)' = req'[r].of)
                        /\ \A q \in Requests : Locks(q)' /\ req'[q].of = req'[r].of => q = r
                        /\ req'[r].step = "sent" =>
                             /\ confirmations'[req'[r].of] # <<>>
                             /\ stmt'[req'[r].of].total = Last(confirmations'[req'[r].of])
      BY DEF LockInv, Last
    <2>1. Locks(r)
      BY <1>2 DEF Locks
    <2>2. ASSUME NEW v \in Workers, StatementWritten(v)', StatementFor(v)' = req'[r].of
          PROVE  FALSE
      <3>1. StatementFor(v) = req[r].of /\ (StatementWritten(v) \/ WriteStatement(v))
        BY <1>2, <2>2, WrittenBefore
      <3>2. ~StatementWritten(v)
        BY <2>1, <3>1 DEF LockInv
      <3>3. ~WriteStatement(v)
        BY <2>1, <3>1 DEF WriteStatement, StatementFree, Locks
      <3>4. QED
        BY <3>1, <3>2, <3>3
    <2>3. QED
      BY <1>2, <2>1, <2>2, LockedTotal DEF LockInv, Locks
  <1>3. ASSUME NEW r \in Requests,
               (\E s \in Statements : ConfirmRead(r, s)) \/ ConfirmStep(r) \/ ConfirmFails(r),
               UNCHANGED <<consumerVars, job>>
        PROVE  LockInv'
    <2>1. \A v \in Workers : /\ StatementWritten(v)' = StatementWritten(v)
                             /\ StatementFor(v)' = StatementFor(v)
      BY <1>3 DEF StatementWritten, StatementFor, SaleOf, EventOf, consumerVars
    <2>2. \A q \in Requests : q # r => req'[q] = req[q]
      BY <1>1, <1>3 DEF ConfirmRead, ConfirmStep, ConfirmWrite, ConfirmSend, ConfirmCommit,
         ConfirmFails
    <2>3. ASSUME ~Locks(r)', confirmations' = confirmations
          PROVE  LockInv'
      <3> SUFFICES ASSUME NEW q \in Requests, Locks(q)'
                   PROVE  /\ Locks(q) /\ q # r /\ req'[q] = req[q]
        BY <2>1, <2>2, <2>3, LockedTotal DEF LockInv, Locks, Last
      <3>1. QED
        BY <2>2, <2>3 DEF Locks
    <2>4. CASE \E s \in Statements : ConfirmRead(r, s)
      BY <1>1, <2>3, <2>4 DEF ConfirmRead, Locks
    <2>5. CASE ConfirmFails(r) \/ ConfirmCommit(r)
      BY <1>1, <2>3, <2>5 DEF ConfirmFails, ConfirmCommit, Locks, RequestState
    <2>6. CASE ConfirmWrite(r)
      <3>1. req'[r].step = "written" /\ req'[r].of = req[r].of /\ StatementFree(req[r].of)
        BY <1>1, <2>6 DEF ConfirmWrite, RequestState
      <3>2. confirmations' = confirmations /\ stmt' = stmt
        BY <2>6 DEF ConfirmWrite, db
      <3>3. QED
        BY <2>1, <2>2, <3>1, <3>2 DEF LockInv, Locks, StatementFree, Last
    <2>7. CASE ConfirmSend(r)
      <3> DEFINE s == req[r].of
                 old == confirmations[s]
      <3>1. /\ req'[r].step = "sent" /\ req'[r].of = s /\ Locks(r) /\ stmt' = stmt
            /\ confirmations' = [confirmations EXCEPT ![s] = Append(@, stmt[s].total)]
        BY <1>1, <2>7 DEF ConfirmSend, RequestState, Locks, db
      <3>2. s \in Statements /\ stmt[s].total \in Nat /\ old \in Seq(Nat)
        BY <1>1, <3>1 DEF ServiceIInv, RequestOK, Locks, StatementRow
      <3>3. /\ confirmations'[s] # <<>> /\ Last(confirmations'[s]) = stmt[s].total
            /\ \A x \in Statements : x # s => confirmations'[x] = confirmations[x]
        <4>1. confirmations'[s] = Append(old, stmt[s].total)
          BY <1>1, <3>1, <3>2
        <4>2. \A x \in Statements : x # s => confirmations'[x] = confirmations[x]
          BY <1>1, <3>1, <3>2
        <4> HIDE DEF s, old
        <4>3. QED
          BY <3>2, <4>1, <4>2, LastOfAppend
      <3>4. ASSUME NEW q \in Requests, Locks(q)', q # r
            PROVE  /\ Locks(q) /\ req'[q] = req[q] /\ req[q].of # s
                   /\ confirmations'[req[q].of] = confirmations[req[q].of]
        <4>1. Locks(q) /\ req'[q] = req[q]
          BY <2>2, <3>4 DEF Locks
        <4>2. req[q].of # s
          BY <3>1, <3>4, <4>1 DEF LockInv
        <4>3. req[q].of \in Statements
          BY <4>1 DEF ServiceIInv, RequestOK, Locks
        <4>4. QED
          BY <3>3, <4>1, <4>2, <4>3
      <3>5. QED
        <4> HIDE DEF s, old
        <4>1. \A v \in Workers : ~(StatementWritten(v) /\ StatementFor(v) = s)
          BY <3>1 DEF LockInv, s
        <4>2. QED
          BY <2>1, <3>1, <3>3, <3>4, <4>1 DEF LockInv
    <2>8. QED
      BY <1>3, <2>4, <2>5, <2>6, <2>7 DEF ConfirmStep
  <1>4. QED
    BY <1>2, <1>3, RequestEffect

\* Whoever confirms last, however requests and handlers interleave: when a statement
\* becomes CONFIRMED, the last confirmed event carries its total (confirm_statement).
THEOREM ConfirmedTotalAnnounced == Spec => ConfirmedAsAnnounced
  <1> DEFINE Announced(s) ==
        stmt[s].status = "DRAFT" /\ stmt'[s].status = "CONFIRMED" =>
          /\ confirmations'[s] # <<>>
          /\ stmt'[s].total = confirmations'[s][Len(confirmations'[s])]
  <1>1. Init => ServiceIInv /\ LockInv
    BY ServiceInitInv DEF Init, LockInv, Locks, NoRequest
  <1>2. ServiceIInv /\ LockInv /\ [Next]_vars => ServiceIInv' /\ LockInv'
    BY ServiceNextInv, LockNextInv
  <1>3. ASSUME ServiceIInv, LockInv, [Next]_vars, NEW s \in Statements
        PROVE  Announced(s)
    <2> SUFFICES ASSUME stmt[s].status = "DRAFT", stmt'[s].status = "CONFIRMED"
                 PROVE  /\ confirmations'[s] # <<>>
                        /\ stmt'[s].total = confirmations'[s][Len(confirmations'[s])]
      OBVIOUS
    <2>1. stmt \in [Statements -> StatementRow]
      BY <1>3 DEF ServiceIInv, CommissionTypeOK
    <2>2. ASSUME NEW w \in Workers, stmt' = [stmt EXCEPT ![StatementFor(w)] = Updated(w, @)]
          PROVE  FALSE
      BY <2>1, <2>2 DEF Updated
    <2>3. PICK r \in Requests : ConfirmCommit(r)
      BY <1>3, <2>2, StatementEffect
    <2>4. /\ Locks(r) /\ req[r].step = "sent" /\ confirmations' = confirmations
          /\ stmt' = [stmt EXCEPT ![req[r].of].status = "CONFIRMED"]
      BY <2>3 DEF ConfirmCommit, Locks
    <2>5. s = req[r].of
      BY <2>1, <2>4
    <2>6. QED
      BY <1>3, <2>4, <2>5, LockedTotal DEF LockInv, Last
  <1>4. ServiceIInv /\ LockInv /\ [Next]_vars => [\A s \in Statements : Announced(s)]_vars
    BY <1>3
  <1>5. QED
    BY <1>1, <1>2, <1>4, PTL DEF Spec, ConfirmedAsAnnounced

-----------------------------------------------------------------------------
(* Nothing that earns is passed over.  The agreement updates and outages    *)
(* that may withhold the agreement from a handler are excluded.             *)

\* A transaction works under the agreement of its sale's dealer, and the lines that
\* it has left behind without a row earn nothing, or the sale was commissioned before.
PassedOver(w) ==
  HasStep(w) =>
    /\ Candidates(SaleOf(w)) = {job[w].agr}
    /\ job[w].row = 0 =>
         \/ Key(w) \in processed
         \/ \A k \in 1..LineCount[SaleOf(w)] : k < job[w].line => Earned(w, k) = NoCommission

HandledCommissioned ==
  \A x \in handled : \A a \in Agreements :
    /\ Log[x[1]][x[2]].type = "sale" /\ Log[x[1]][x[2]] \notin Unreadable
    /\ Candidates(Log[x[1]][x[2]].sale) = {a}
    /\ Earns(Log[x[1]][x[2]].sale, a)
    => Commissioned(Log[x[1]][x[2]].sale)

SettleIInv == ServiceIInv /\ (\A w \in Workers : PassedOver(w)) /\ HandledCommissioned

\* What has been commissioned stays so.
LEMMA NothingUndone ==
  ASSUME ServiceIInv, [Next]_vars
  PROVE  processed \subseteq processed' /\ \A t \in Sales : Commissioned(t) => Commissioned(t)'
  <1>1. CASE processed' = processed /\ ledger' = ledger
    BY <1>1 DEF Commissioned
  <1>2. ASSUME NEW w \in Workers, CommitTx(w), job[w].row # 0
        PROVE  processed \subseteq processed' /\ \A t \in Sales : Commissioned(t) => Commissioned(t)'
    <2>1. /\ Key(w) \in Sales \X Agreements
          /\ ledger' = [ledger EXCEPT ![Key(w)] = Append(@, job[w].row)]
          /\ processed' = processed \cup {Key(w)} /\ job[w].row \in Nat
          /\ ledger \in [Sales \X Agreements -> Seq(Nat)]
      BY <1>2, AppliedRow DEF ServiceIInv, CommissionTypeOK
    <2>2. ASSUME NEW x \in Sales \X Agreements, ledger[x] # <<>>
          PROVE  ledger'[x] # <<>>
      BY <2>1, <2>2, AppendFacts
    <2>3. QED
      BY <2>1, <2>2 DEF Commissioned
  <1>3. QED
    BY <1>1, <1>2, CommitEffect

\* Whose call of the handler comes to its end.
LEMMA HandledEffect ==
  ASSUME [Next]_vars
  PROVE  \/ handled' = handled
         \/ \E w \in Workers : /\ \/ NoAgreementFound(w) \/ CommitTx(w)
                                  \/ NothingToClawBack(w) \/ PayloadIgnored(w)
                               /\ handled' = handled \cup {InHand(w)}
  <1>1. ASSUME NEW w \in Workers, HandlerStep(w)
        PROVE  \/ handled' = handled
               \/ /\ \/ NoAgreementFound(w) \/ CommitTx(w)
                     \/ NothingToClawBack(w) \/ PayloadIgnored(w)
                  /\ handled' = handled \cup {InHand(w)}
    BY <1>1 DEF HandlerStep, HandlerReturns, HandlerRaises, FetchAgreement, NoAgreementFound,
       SkipLine, CreateEvent, MarkProcessed, PublishCalculated, ReadStatement, WriteStatement,
       StatementExists, CommitTx, NothingToClawBack, ClawbackRejected, PayloadIgnored, consumerVars
  <1>2. QED
    BY <1>1 DEF Next, vars, consumerVars, OutsideHandler, Poll, Commit, CommitRaises, RouteToDlq,
       CommitSkipped, TransientError, HandlerRaises, ServiceCrash, Crash, TaskDies, Reassign,
       ConfirmRead, ConfirmStep, ConfirmWrite, ConfirmSend, ConfirmCommit, ConfirmFails,
       ChangeAgreement

\* A transaction passes over a line for a reason.
LEMMA PassedOverInv ==
  ASSUME SettleIInv, [Next]_vars, UNCHANGED active, NEW v \in Workers
  PROVE  PassedOver(v)'
  <1> SUFFICES ASSUME HasStep(v)'
               PROVE  PassedOver(v)'
    BY DEF PassedOver
  <1>1. ServiceIInv /\ PassedOver(v)
    BY DEF SettleIInv
  <1>2. \A t : Candidates(t)' = Candidates(t)
    BY DEF Candidates
  <1>3. CASE FetchAgreement(v)
    <2>1. PICK a \in Answers(SaleOf(v)) \ {NoAgreement} :
            job' = [job EXCEPT ![v] = [step |-> "lines", agr |-> a, line |-> 1, row |-> 0,
                                       marked |-> FALSE, seen |-> Absent]]
      BY <1>3 DEF FetchAgreement
    <2>2. job'[v].agr = a /\ job'[v].line = 1
      BY <1>1, <2>1 DEF ServiceIInv, CommissionTypeOK
    <2>3. Candidates(SaleOf(v)) = {a}
      BY DEF Answers
    <2>4. SaleOf(v)' = SaleOf(v)
      BY <1>3 DEF FetchAgreement, SaleOf, EventOf, consumerVars
    <2>5. \A n \in Nat : \A k \in 1..n : ~(k < 1)
      OBVIOUS
    <2>6. LineCount[SaleOf(v)] \in Nat
      BY <1>1, <1>3, HandlingFacts, CommissionAssumption
      DEF FetchAgreement, Handling, CommissionAssumption
    <2>7. QED
      BY <1>2, <2>2, <2>3, <2>4, <2>5, <2>6 DEF PassedOver
  <1>4. CASE ~FetchAgreement(v)
    <2>1. /\ HasStep(v)
          /\ SaleOf(v)' = SaleOf(v) /\ job'[v].agr = job[v].agr
          /\ \/ job'[v] = job[v]
             \/ SkipLine(v) \/ CreateEvent(v) \/ MarkProcessed(v)
             \/ PublishCalculated(v) \/ ReadStatement(v) \/ WriteStatement(v)
      BY <1>1, <1>4, OpenBefore
    <2>2. Key(v)' = Key(v) /\ (\A k : Earned(v, k)' = Earned(v, k)) /\ processed \subseteq processed'
      BY <1>1, <2>1, NothingUndone DEF Key, Earned
    <2>3. RowOK(v) /\ job[v] \in JobState
      BY <1>1, <2>1, JobFacts
    <2>4. job'[v].row = 0 => job[v].row = 0 /\ (job'[v] = job[v] \/ SkipLine(v))
      BY <1>1, <2>1, <2>3, RowEffect
      DEF RowOK, CreateEvent, MarkProcessed, PublishCalculated, ReadStatement, WriteStatement
    <2>5. CASE job'[v].row # 0 \/ job'[v] = job[v]
      BY <1>1, <1>2, <2>1, <2>2, <2>4, <2>5 DEF PassedOver
    <2>6. CASE job'[v].row = 0 /\ SkipLine(v)
      <3>1. ~job[v].marked /\ job[v].row = 0 /\ job[v].line \in Nat /\ job'[v].line = job[v].line + 1
        BY <1>1, <2>1, <2>3, <2>4, <2>6, RowEffect DEF RowOK, JobState
      <3>2. Earned(v, job[v].line) = NoCommission \/ Key(v) \in processed
        BY <2>6, <3>1 DEF SkipLine, IsProcessed
      <3>3. ASSUME Key(v) \notin processed,
                   NEW k \in 1..LineCount[SaleOf(v)], k < job'[v].line
            PROVE  Earned(v, k) = NoCommission
        <4>1. LineCount[SaleOf(v)] \in Nat
          BY <1>1, <2>1, JobFacts, CommissionAssumption DEF AtSale, CommissionAssumption
        <4>2. k < job[v].line \/ k = job[v].line
          BY <3>1, <3>3, <4>1
        <4>3. QED
          BY <1>1, <2>1, <3>1, <3>2, <3>3, <4>2 DEF PassedOver
      <3>4. QED
        BY <1>1, <1>2, <2>1, <2>2, <3>3 DEF PassedOver
    <2>7. QED
      BY <2>4, <2>5, <2>6
  <1>5. QED
    BY <1>3, <1>4

\* A call of the handler that comes to its end has commissioned what earns.
LEMMA HandlerEnds ==
  ASSUME SettleIInv, [Next]_vars, "outage" \notin Faults, NEW w \in Workers, NEW a \in Agreements,
         NoAgreementFound(w) \/ CommitTx(w) \/ NothingToClawBack(w) \/ PayloadIgnored(w),
         NEW t \in Sales, t = SaleOf(w), EventOf(w) \notin Unreadable,
         EventOf(w).type = "sale", Candidates(t) = {a}, Earns(t, a)
  PROVE  Commissioned(t)'
  <1>1. ServiceIInv /\ PassedOver(w)
    BY DEF SettleIInv
  <1>2. ~NoAgreementFound(w)
    BY CommissionAssumption DEF NoAgreementFound, Answers, CommissionAssumption
  <1>3. ~NothingToClawBack(w) /\ ~PayloadIgnored(w)
    BY DEF NothingToClawBack, PayloadIgnored, Handling
  <1>4. CommitTx(w) /\ HasStep(w) /\ job[w].line > LineCount[t]
    BY <1>2, <1>3 DEF CommitTx, HasStep
  <1>5. job[w].agr = a /\ Key(w) = <<t, a>> /\ job[w] \in JobState
    BY <1>1, <1>4, JobFacts DEF PassedOver, Key
  <1>6. CASE job[w].row # 0
    <2>1. /\ ledger' = [ledger EXCEPT ![<<t, a>>] = Append(@, job[w].row)]
          /\ job[w].row \in Nat /\ ledger \in [Sales \X Agreements -> Seq(Nat)]
      BY <1>1, <1>4, <1>5, <1>6, AppliedRow DEF ServiceIInv, CommissionTypeOK
    <2>2. ledger'[<<t, a>>] # <<>>
      BY <2>1, AppendFacts
    <2>3. QED
      BY <2>2 DEF Commissioned
  <1>7. CASE job[w].row = 0
    <2>1. Key(w) \in processed
      <3>1. PICK k \in 1..LineCount[t] : Amount[<<a, t, k>>] # NoCommission
        BY DEF Earns
      <3>2. LineCount[t] \in Nat /\ job[w].line \in Nat
        BY <1>5, CommissionAssumption DEF CommissionAssumption, JobState
      <3>3. k < job[w].line
        BY <1>4, <3>2
      <3>4. QED
        BY <1>1, <1>4, <1>5, <1>7, <3>1, <3>3 DEF PassedOver, Earned
    <2>2. ledger[<<t, a>>] # <<>>
      BY <1>1, <1>5, <2>1 DEF ServiceIInv, ProcessedIffCommissioned
    <2>3. QED
      BY <1>1, <2>2, NothingUndone DEF Commissioned
  <1>8. QED
    BY <1>6, <1>7

\* A sale whose event is settled, was readable and earns something is commissioned or
\* parked, if the agreements stay as they are, the rules service answers and there is a
\* dead letter producer (handle_sell_out_completed, consume()).
THEOREM SettledIsCommissioned ==
  ASSUME HasDlqProducer, MaxAgreementChanges = 0, "outage" \notin Faults
  PROVE  Spec => []SettledSaleCommissioned
  <1>1. Init => SettleIInv
    BY ServiceInitInv, NoJobFacts
    DEF Init, SettleIInv, PassedOver, HasStep, HandledCommissioned, ConsumerInit
  <1>2. ASSUME SettleIInv, [Next]_vars
        PROVE  SettleIInv'
    <2>1. ServiceIInv /\ ServiceIInv'
      BY <1>2, ServiceNextInv DEF SettleIInv
    <2>2. UNCHANGED active
      <3>1. \A a \in Agreements : ~ChangeAgreement(a)
        BY <2>1 DEF ChangeAgreement, ServiceIInv, CommissionTypeOK
      <3>2. QED
        BY <1>2, <3>1 DEF Next, vars, serviceVars, agreementVars, HandlerStep, OutsideHandler,
           TransientError, ServiceCrash, FetchAgreement, NoAgreementFound, SkipLine, CreateEvent,
           MarkProcessed, PublishCalculated, ReadStatement, WriteStatement, StatementExists,
           CommitTx, NothingToClawBack, ClawbackRejected, PayloadIgnored, ConfirmRead, ConfirmStep,
           ConfirmWrite, ConfirmSend, ConfirmCommit, ConfirmFails
    <2>3. \A v \in Workers : PassedOver(v)'
      BY <1>2, <2>2, PassedOverInv
    <2>4. HandledCommissioned'
      <3> SUFFICES ASSUME NEW x \in handled', NEW a \in Agreements,
                          Log[x[1]][x[2]].type = "sale",
                          Log[x[1]][x[2]] \notin Unreadable,
                          Candidates(Log[x[1]][x[2]].sale) = {a},
                          Earns(Log[x[1]][x[2]].sale, a)
                   PROVE  Commissioned(Log[x[1]][x[2]].sale)'
        BY <2>2 DEF HandledCommissioned, Candidates, Earns
      <3>1. Log[x[1]][x[2]].sale \in Sales
        <4>1. handled' \subseteq Positions
          BY <2>1 DEF ServiceIInv, ConsumerIInv, ConsumerTypeOK
        <4>2. x[1] \in Partitions /\ x[2] \in 1..Len(Log[x[1]])
          BY <4>1 DEF Positions
        <4>3. Log[x[1]][x[2]] \in Events
          BY <4>2, ConsumerAssumption DEF ConsumerAssumption
        <4>4. QED
          BY <4>3, CommissionAssumption DEF CommissionAssumption
      <3>2. CASE x \in handled
        BY <1>2, <2>1, <3>1, <3>2, NothingUndone DEF SettleIInv, HandledCommissioned
      <3>3. CASE x \notin handled
        <4>1. PICK w \in Workers : /\ \/ NoAgreementFound(w) \/ CommitTx(w)
                                      \/ NothingToClawBack(w) \/ PayloadIgnored(w)
                                   /\ handled' = handled \cup {InHand(w)}
          BY <1>2, <3>3, HandledEffect
        <4>2. x = InHand(w) /\ Log[x[1]][x[2]] = EventOf(w)
          BY <3>3, <4>1 DEF InHand, EventOf
        <4>3. QED
          BY <1>2, <3>1, <4>1, <4>2, HandlerEnds DEF SaleOf
      <3>4. QED
        BY <3>2, <3>3
    <2>5. QED
      BY <2>1, <2>3, <2>4 DEF SettleIInv
  <1>3. ASSUME SettleIInv
        PROVE  SettledSaleCommissioned
    <2> SUFFICES ASSUME NEW p \in Partitions, NEW i \in 1..committed[p], NEW a \in Agreements,
                        Log[p][i].type = "sale", Log[p][i] \notin Unreadable,
                        Candidates(Log[p][i].sale) = {a},
                        Earns(Log[p][i].sale, a), <<p, i>> \notin dlq
                 PROVE  Commissioned(Log[p][i].sale)
      BY DEF SettledSaleCommissioned
    <2>1. <<p, i>> \in handled
      BY <1>3 DEF SettleIInv, ServiceIInv, ConsumerIInv, NoEventLost
    <2>2. Log[p][i] = Log[<<p, i>>[1]][<<p, i>>[2]]
      OBVIOUS
    <2>3. QED
      BY <1>3, <2>1, <2>2 DEF SettleIInv, HandledCommissioned
  <1>4. QED
    BY <1>1, <1>2, <1>3, PTL DEF Spec

-----------------------------------------------------------------------------
(* The running totals.  A replica writes back what it has read; nobody else *)
(* adds to the statement meanwhile, because all sales of a statement are of *)
(* one dealer, and at most one replica has a sale of the dealer in hand.    *)

\* What was read of a statement is what it holds until it is written back.
SeenIsCurrent ==
  \A w \in Workers : job[w].step = "read" \/ StatementWritten(w) =>
    /\ job[w].seen.total = stmt[StatementFor(w)].total
    /\ job[w].seen.lines = stmt[StatementFor(w)].lines

Commissioning == {x \in Sales \X Agreements : ledger[x] # <<>>}

ReconcileIInv ==
  /\ OnceIInv
  /\ SeenIsCurrent
  /\ IsFiniteSet(Commissioning)
  /\ \A x \in Commissioning : AmountOf(x) \in Int
  /\ StatementReconciles

\* A step leaves the totals of the statements of open transactions alone.
LEMMA TotalsKept ==
  ASSUME ~ZombieHandoff, ServiceIInv, [Next]_vars,
         NEW v \in Workers, HasStep(v), HasStep(v)'
  PROVE  /\ stmt'[StatementFor(v)].total = stmt[StatementFor(v)].total
         /\ stmt'[StatementFor(v)].lines = stmt[StatementFor(v)].lines
  <1>1. stmt \in [Statements -> StatementRow] /\ StatementFor(v) \in Statements
    BY JobFacts, CommissionAssumption
    DEF ServiceIInv, CommissionTypeOK, StatementFor, AtSale, CommissionAssumption
  <1>2. ASSUME NEW w \in Workers, CommitTx(w), StatementWritten(w),
               stmt' = [stmt EXCEPT ![StatementFor(w)] = Updated(w, @)]
        PROVE  stmt'[StatementFor(v)] = stmt[StatementFor(v)]
    <2>1. w # v /\ HasStep(w)
      BY <1>2, NoJobFacts DEF CommitTx, HasStep, ServiceIInv, CommissionTypeOK
    <2>2. StatementFor(w) # StatementFor(v)
      BY <2>1, OpenTransactionsDiffer
    <2>3. QED
      BY <1>1, <1>2, <2>2
  <1>3. ASSUME NEW r \in Requests, ConfirmCommit(r)
        PROVE  /\ stmt'[StatementFor(v)].total = stmt[StatementFor(v)].total
               /\ stmt'[StatementFor(v)].lines = stmt[StatementFor(v)].lines
    <2>1. stmt' = [stmt EXCEPT ![req[r].of].status = "CONFIRMED"]
      BY <1>3 DEF ConfirmCommit
    <2>2. QED
      BY <1>1, <2>1 DEF StatementRow
  <1>4. QED
    BY <1>2, <1>3, StatementEffect

\* What was read stays current.
LEMMA SeenNextInv ==
  ASSUME ~ZombieHandoff, ServiceIInv, SeenIsCurrent, [Next]_vars
  PROVE  SeenIsCurrent'
  <1> SUFFICES ASSUME NEW v \in Workers, job'[v].step = "read" \/ StatementWritten(v)'
               PROVE  /\ job'[v].seen.total = stmt'[StatementFor(v)'].total
                      /\ job'[v].seen.lines = stmt'[StatementFor(v)'].lines
    BY DEF SeenIsCurrent
  <1>1. HasStep(v)'
    BY DEF HasStep, StatementWritten
  <1>2. ~FetchAgreement(v)
    BY DEF FetchAgreement, StatementWritten, ServiceIInv, CommissionTypeOK
  <1>3. /\ HasStep(v) /\ StatementFor(v)' = StatementFor(v)
        /\ job'[v] = job[v] \/ SkipLine(v) \/ ReadStatement(v) \/ WriteStatement(v)
    BY <1>1, <1>2, OpenBefore, RowEffect DEF StatementFor, StatementWritten
  <1>4. /\ stmt'[StatementFor(v)].total = stmt[StatementFor(v)].total
        /\ stmt'[StatementFor(v)].lines = stmt[StatementFor(v)].lines
    BY <1>1, <1>3, TotalsKept
  <1>5. CASE ReadStatement(v)
    BY <1>3, <1>4, <1>5, RowEffect
  <1>6. CASE job'[v] = job[v]
    BY <1>3, <1>4, <1>6 DEF SeenIsCurrent, StatementWritten
  <1>7. CASE SkipLine(v) \/ WriteStatement(v)
    <2>1. job'[v].seen = job[v].seen /\ job'[v].row = job[v].row /\ job'[v].step = "lines"
      BY <1>3, <1>7, RowEffect
    <2>2. job[v].step = "read" \/ StatementWritten(v)
      BY <1>7, <2>1 DEF SkipLine, AtLine, WriteStatement, StatementWritten
    <2>3. QED
      BY <1>3, <1>4, <2>1, <2>2 DEF SeenIsCurrent
  <1>8. QED
    BY <1>3, <1>5, <1>6, <1>7

\* A commit adds one line and its amount to the ledger's side of its statement.
LEMMA LedgerGrows ==
  ASSUME NEW key \in Sales \X Agreements, NEW row \in Nat, NEW amount \in Int,
         ledger \in [Sales \X Agreements -> Seq(Nat)],
         ledger[key] = <<>>, ledger' = [ledger EXCEPT ![key] = Append(@, row)],
         amount = Amount[<<key[2], key[1], row>>],
         IsFiniteSet(Commissioning), \A x \in Commissioning : AmountOf(x) \in Int
  PROVE  /\ Commissioning' = Commissioning \cup {key}
         /\ AmountOf(key)' = amount
         /\ \A x \in Commissioning : AmountOf(x)' = AmountOf(x)
         /\ \A s \in Statements :
              /\ StatementOf[key[1]] = s =>
                   /\ LedgerLines(s)' = LedgerLines(s) + 1
                   /\ LedgerTotal(s)' = LedgerTotal(s) + amount
              /\ StatementOf[key[1]] # s =>
                   /\ LedgerLines(s)' = LedgerLines(s)
                   /\ LedgerTotal(s)' = LedgerTotal(s)
  <1>1. ledger'[key] = <<row>> /\ \A x \in Sales \X Agreements : x # key => ledger'[x] = ledger[x]
    OBVIOUS
  <1>2. Commissioning' = Commissioning \cup {key} /\ key \notin Commissioning
    BY <1>1 DEF Commissioning
  <1>3. AmountOf(key)' = amount
    <2> DEFINE f == [i \in DOMAIN ledger'[key] |-> Amount[<<key[2], key[1], ledger'[key][i]>>]]
    <2>1. DOMAIN ledger'[key] = {1} /\ ledger'[key][1] = row
      BY <1>1
    <2>2. DOMAIN f = {1} /\ f[1] = amount
      BY <2>1
    <2>3. AmountOf(key)' = SumFunction(f)
      BY DEF AmountOf
    <2> HIDE DEF f
    <2>4. QED
      BY <2>2, <2>3, SumFunctionOne
  <1>4. \A x \in Commissioning : AmountOf(x)' = AmountOf(x)
    BY <1>1, <1>2 DEF AmountOf, Commissioning
  <1>5. ASSUME NEW s \in Statements
        PROVE  /\ StatementOf[key[1]] = s =>
                    /\ LedgerLines(s)' = LedgerLines(s) + 1
                    /\ LedgerTotal(s)' = LedgerTotal(s) + amount
               /\ StatementOf[key[1]] # s =>
                    /\ LedgerLines(s)' = LedgerLines(s)
                    /\ LedgerTotal(s)' = LedgerTotal(s)
    <2>1. PICK U : U = Commissions(s)
      OBVIOUS
    <2>2. U = {x \in Commissioning : StatementOf[x[1]] = s}
          /\ Commissions(s)' = {x \in Commissioning' : StatementOf[x[1]] = s}
      BY <2>1 DEF Commissions, Commissioning
    <2>3. IsFiniteSet(U) /\ U \subseteq Commissioning /\ key \notin U
      BY <1>2, <2>2, FS_Subset
    <2>4. PICK f, h : /\ f = [x \in U |-> Len(ledger[x])] /\ LedgerLines(s) = SumFunction(f)
                      /\ h = [x \in U |-> AmountOf(x)] /\ LedgerTotal(s) = SumFunction(h)
      BY <2>1 DEF LedgerLines, LedgerTotal
    <2>5. PICK V, g, k :
            /\ V = Commissions(s)'
            /\ g = [x \in V |-> Len(ledger'[x])] /\ LedgerLines(s)' = SumFunction(g)
            /\ k = [x \in V |-> AmountOf(x)'] /\ LedgerTotal(s)' = SumFunction(k)
      BY DEF LedgerLines, LedgerTotal
    <2>6. CASE StatementOf[key[1]] # s
      <3>1. V = U
        BY <1>2, <2>2, <2>5, <2>6
      <3>2. \A x \in U : ledger'[x] = ledger[x]
        BY <1>1, <1>2, <2>3 DEF Commissioning
      <3>3. f = g /\ h = k
        BY <1>4, <2>3, <2>4, <2>5, <3>1, <3>2
      <3>4. QED
        BY <2>4, <2>5, <2>6, <3>3
    <2>7. CASE StatementOf[key[1]] = s
      <3>1. V = U \cup {key}
        BY <1>2, <2>2, <2>5, <2>7
      <3>2. /\ DOMAIN f = U /\ DOMAIN g = U \cup {key}
            /\ DOMAIN h = U /\ DOMAIN k = U \cup {key}
        BY <2>4, <2>5, <3>1
      <3>3. \A x \in U : f[x] \in Int /\ g[x] = f[x]
        BY <1>1, <1>2, <2>3, <2>4, <2>5, <3>1 DEF Commissioning
      <3>4. \A x \in U : h[x] \in Int /\ k[x] = h[x]
        BY <1>4, <2>3, <2>4, <2>5, <3>1
      <3>5. g[key] = 1 /\ k[key] = amount
        BY <1>1, <1>3, <2>5, <3>1
      <3>6. SumFunction(g) = SumFunction(f) + 1
        <4>1. IsFiniteSet(DOMAIN f)
          BY <2>3, <3>2
        <4>2. key \notin DOMAIN f
          BY <2>3, <3>2
        <4>3. DOMAIN g = DOMAIN f \cup {key}
          BY <3>2
        <4>4. \A x \in DOMAIN f : f[x] \in Int /\ g[x] = f[x]
          BY <3>2, <3>3
        <4>5. g[key] \in Int
          BY <3>5
        <4>6. SumFunction(g) = SumFunction(f) + g[key]
          BY ONLY <4>1, <4>2, <4>3, <4>4, <4>5, SumFunctionAdded
        <4>7. QED
          BY <3>5, <4>6
      <3>7. SumFunction(k) = SumFunction(h) + amount
        <4>1. IsFiniteSet(DOMAIN h)
          BY <2>3, <3>2
        <4>2. key \notin DOMAIN h
          BY <2>3, <3>2
        <4>3. DOMAIN k = DOMAIN h \cup {key}
          BY <3>2
        <4>4. \A x \in DOMAIN h : h[x] \in Int /\ k[x] = h[x]
          BY <3>2, <3>4
        <4>5. k[key] \in Int
          BY <3>5
        <4>6. SumFunction(k) = SumFunction(h) + k[key]
          BY ONLY <4>1, <4>2, <4>3, <4>4, <4>5, SumFunctionAdded
        <4>7. QED
          BY <3>5, <4>6
      <3>8. QED
        BY <2>4, <2>5, <2>7, <3>6, <3>7
    <2>8. QED
      BY <2>6, <2>7
  <1>6. QED
    BY <1>2, <1>3, <1>4, <1>5

\* Every step keeps the totals those of the ledger.
LEMMA ReconcileNextInv == ~ZombieHandoff /\ ReconcileIInv /\ [Next]_vars => ReconcileIInv'
  <1> SUFFICES ASSUME ~ZombieHandoff, ReconcileIInv, [Next]_vars
               PROVE  ReconcileIInv'
    OBVIOUS
  <1>1. OnceIInv /\ ServiceIInv /\ OnceIInv' /\ SeenIsCurrent'
    BY OnceNextInv, SeenNextInv DEF ReconcileIInv, OnceIInv
  <1>2. stmt \in [Statements -> StatementRow] /\ ledger \in [Sales \X Agreements -> Seq(Nat)]
    BY <1>1 DEF ServiceIInv, CommissionTypeOK
  <1>3. CASE ledger' = ledger /\ processed' = processed
    <2>1. \A s \in Statements : LedgerLines(s)' = LedgerLines(s) /\ LedgerTotal(s)' = LedgerTotal(s)
      BY <1>3 DEF LedgerLines, LedgerTotal, AmountOf, Commissions
    <2>2. Commissioning' = Commissioning /\ \A x : AmountOf(x)' = AmountOf(x)
      BY <1>3 DEF Commissioning, AmountOf
    <2>3. \A s \in Statements : stmt'[s].total = stmt[s].total /\ stmt'[s].lines = stmt[s].lines
      <3>1. ASSUME NEW w \in Workers, CommitTx(w), StatementWritten(w)
            PROVE  FALSE
        <4>1. Key(w) \in processed' /\ Key(w) \notin processed
          BY <1>1, <3>1, AppliedRow DEF StatementWritten, OnceIInv, RowIsFirst
        <4>2. QED
          BY <1>3, <4>1
      <3>2. ASSUME NEW r \in Requests, ConfirmCommit(r), NEW s \in Statements
            PROVE  stmt'[s].total = stmt[s].total /\ stmt'[s].lines = stmt[s].lines
        <4>1. stmt' = [stmt EXCEPT ![req[r].of].status = "CONFIRMED"]
          BY <3>2 DEF ConfirmCommit
        <4>2. QED
          BY <1>2, <4>1 DEF StatementRow
      <3>3. QED
        BY <1>1, <3>1, <3>2, StatementEffect
    <2>4. QED
      BY <1>1, <2>1, <2>2, <2>3 DEF ReconcileIInv, StatementReconciles
  <1>4. ASSUME NEW w \in Workers, CommitTx(w), job[w].row # 0
        PROVE  ReconcileIInv'
    <2>1. HasStep(w) /\ StatementWritten(w)
      BY <1>4 DEF CommitTx, HasStep, StatementWritten
    <2>2. PICK key \in Sales \X Agreements, row \in Nat, home \in Statements :
            /\ key = <<SaleOf(w), job[w].agr>> /\ row = job[w].row /\ home = StatementOf[key[1]]
            /\ ledger' = [ledger EXCEPT ![key] = Append(@, row)]
            /\ stmt' = [stmt EXCEPT ![home] = Updated(w, @)]
      <3>1. PICK key \in Sales \X Agreements : key = Key(w)
        BY <1>1, <1>4, AppliedRow
      <3>2. PICK row \in Nat : row = job[w].row
        BY <1>1, <1>4, AppliedRow
      <3>3. PICK home \in Statements : home = StatementFor(w)
        BY <1>1, <1>4, AppliedRow
      <3>4. key = <<SaleOf(w), job[w].agr>> /\ home = StatementOf[key[1]]
        BY <3>1, <3>3 DEF Key, StatementFor
      <3>5. /\ ledger' = [ledger EXCEPT ![key] = Append(@, row)]
            /\ stmt' = [stmt EXCEPT ![home] = Updated(w, @)]
        BY <1>1, <1>4, <3>1, <3>2, <3>3, AppliedRow
      <3>6. QED
        BY <3>2, <3>4, <3>5
    <2>3. ledger[key] = <<>>
      BY <1>1, <1>4, <2>2 DEF Key, OnceIInv, RowIsFirst, ServiceIInv, ProcessedIffCommissioned
    <2>4. PICK amount \in Nat : amount = Amount[<<key[2], key[1], row>>] /\ amount = Earned(w, row)
      <3>1. RowOK(w)
        BY <1>1, <2>1, JobFacts
      <3>2. key[1] = SaleOf(w) /\ key[2] = job[w].agr
        BY <2>2
      <3>3. QED
        BY <1>4, <2>2, <3>1, <3>2 DEF RowOK, Earned
    <2>5. /\ stmt'[home].total = stmt[home].total + amount
          /\ stmt'[home].lines = stmt[home].lines + 1
          /\ \A s \in Statements : s # home => stmt'[s] = stmt[s]
      <3>1. /\ job[w].seen.total = stmt[home].total
            /\ job[w].seen.lines = stmt[home].lines
        BY <2>1, <2>2 DEF ReconcileIInv, SeenIsCurrent, StatementFor
      <3>2. stmt'[home] = Updated(w, stmt[home])
        BY <1>2, <2>2
      <3>3. QED
        BY <1>2, <2>2, <2>4, <3>1, <3>2 DEF Updated
    <2>6. IsFiniteSet(Commissioning) /\ \A x \in Commissioning : AmountOf(x) \in Int
      BY DEF ReconcileIInv
    <2>7. /\ Commissioning' = Commissioning \cup {key}
          /\ AmountOf(key)' = amount
          /\ \A x \in Commissioning : AmountOf(x)' = AmountOf(x)
          /\ \A s \in Statements :
               /\ home = s => /\ LedgerLines(s)' = LedgerLines(s) + 1
                              /\ LedgerTotal(s)' = LedgerTotal(s) + amount
               /\ home # s => /\ LedgerLines(s)' = LedgerLines(s)
                              /\ LedgerTotal(s)' = LedgerTotal(s)
      <3>1. ledger \in [Sales \X Agreements -> Seq(Nat)]
        BY <1>2
      <3>2. ledger' = [ledger EXCEPT ![key] = Append(ledger[key], row)]
        BY <2>2
      <3>3. amount \in Int /\ amount = Amount[<<key[2], key[1], row>>]
        BY <2>4
      <3>4. IsFiniteSet(Commissioning)
        BY <2>6
      <3>5. \A x \in Commissioning : AmountOf(x) \in Int
        BY <2>6
      <3>6. home = StatementOf[key[1]]
        BY <2>2
      <3>7. /\ Commissioning' = Commissioning \cup {key}
            /\ AmountOf(key)' = amount
            /\ \A x \in Commissioning : AmountOf(x)' = AmountOf(x)
            /\ \A s \in Statements :
                 /\ StatementOf[key[1]] = s => /\ LedgerLines(s)' = LedgerLines(s) + 1
                                               /\ LedgerTotal(s)' = LedgerTotal(s) + amount
                 /\ StatementOf[key[1]] # s => /\ LedgerLines(s)' = LedgerLines(s)
                                               /\ LedgerTotal(s)' = LedgerTotal(s)
        BY ONLY <2>3, <3>1, <3>2, <3>3, <3>4, <3>5, LedgerGrows, key \in Sales \X Agreements, row \in Nat
      <3>8. QED
        BY <3>6, <3>7
    <2>8. IsFiniteSet(Commissioning') /\ \A x \in Commissioning' : AmountOf(x)' \in Int
      BY <2>6, <2>7, FS_AddElement
    <2>9. ASSUME NEW s \in Statements
          PROVE  stmt'[s].lines = LedgerLines(s)' /\ stmt'[s].total = LedgerTotal(s)'
      <3>1. stmt[s].lines = LedgerLines(s) /\ stmt[s].total = LedgerTotal(s)
        BY DEF ReconcileIInv, StatementReconciles
      <3>2. QED
        BY <2>5, <2>7, <3>1
    <2>10. QED
      BY <1>1, <2>8, <2>9 DEF ReconcileIInv, StatementReconciles
  <1>5. QED
    BY <1>1, <1>3, <1>4, CommitEffect

\* The totals of a statement are those of its commission rows, although they are read,
\* added to and written back in separate steps while other replicas and requests run,
\* as long as rebalances wait for the event in hand (add_commission_to_draft).
THEOREM TotalsReconcile == ASSUME ~ZombieHandoff PROVE Spec => []StatementReconciles
  <1>1. Init => ReconcileIInv
    <2> SUFFICES ASSUME Init PROVE ReconcileIInv
      OBVIOUS
    <2>1. OnceIInv
      BY ServiceInitInv, NoJobFacts DEF Init, OnceIInv, CommissionedOnce, RowIsFirst
    <2>2. SeenIsCurrent
      BY NoJobFacts DEF Init, SeenIsCurrent, StatementWritten
    <2>3. Commissioning = {}
      BY DEF Init, Commissioning
    <2>4. IsFiniteSet(Commissioning)
      BY <2>3, FS_EmptySet
    <2>5. ASSUME NEW s \in Statements
          PROVE  stmt[s].lines = LedgerLines(s) /\ stmt[s].total = LedgerTotal(s)
      <3> DEFINE f == [x \in Commissions(s) |-> Len(ledger[x])]
                 h == [x \in Commissions(s) |-> AmountOf(x)]
      <3>1. DOMAIN f = {} /\ DOMAIN h = {}
        BY <2>3 DEF Commissions, Commissioning
      <3>2. LedgerLines(s) = SumFunction(f) /\ LedgerTotal(s) = SumFunction(h)
        BY DEF LedgerLines, LedgerTotal
      <3> HIDE DEF f, h
      <3>3. LedgerLines(s) = 0 /\ LedgerTotal(s) = 0
        BY <3>1, <3>2, SumFunctionEmpty
      <3>4. stmt[s].lines = 0 /\ stmt[s].total = 0
        BY DEF Init, Absent
      <3>5. QED
        BY <3>3, <3>4
    <2>6. QED
      BY <2>1, <2>2, <2>3, <2>4, <2>5 DEF ReconcileIInv, StatementReconciles
  <1>2. ReconcileIInv /\ [Next]_vars => ReconcileIInv'
    BY ReconcileNextInv
  <1>3. ReconcileIInv => StatementReconciles
    BY DEF ReconcileIInv
  <1>4. QED
    BY <1>1, <1>2, <1>3, PTL DEF Spec

-----------------------------------------------------------------------------
(* The rules service and the rule engine (CommissionRules).                 *)

\* The strengthening of DeletedRuleNeverPays: no rule is deleted and alive, what
\* was dead for an ask stays dead, and an answer has only rules that were alive
\* after the ask began.
RulesIInv ==
  /\ RulesTypeOK
  /\ rules \cap gone = {}
  /\ \A q \in Asks : /\ ask[q].dead \subseteq gone
                     /\ ask[q].rules \cap ask[q].dead = {}
                     /\ ask[q].used \subseteq ask[q].rules
                     /\ ask[q].step = "found" => ask[q].used = {}

\* The rules that price a line are among the rules given.
LEMMA ApplicableGiven ==
  ASSUME NEW rs, NEW l PROVE Applicable(rs, l) \subseteq rs
BY DEF Applicable, Matching

\* Finance leaves every ask alone; its own part of the invariant is kept.
LEMMA FinanceKeeps ==
  ASSUME RulesIInv, UNCHANGED ask,
         agreements' \in [Parties \X Specs -> Statuses \cup {"NONE"}],
         patches' \in 0..MaxPatches,
         rules' \subseteq Rules, gone' \subseteq Rules, rules' \cap gone' = {}, gone \subseteq gone'
  PROVE  RulesIInv'
<1>1. RulesTypeOK' BY DEF RulesIInv, RulesTypeOK
<1>2. \A q \in Asks : ask[q].dead \subseteq gone'
  BY DEF RulesIInv
<1> QED BY <1>1, <1>2 DEF RulesIInv

\* The three steps of an ask leave finance's part alone.
LEMMA AskKeeps ==
  ASSUME RulesIInv, UNCHANGED <<agreements, rules, gone, patches>>,
         NEW q \in Asks, NEW new \in AskType, ask' = [ask EXCEPT ![q] = new],
         new.dead \subseteq gone, new.rules \cap new.dead = {}, new.used \subseteq new.rules,
         new.step = "found" => new.used = {}
  PROVE  RulesIInv'
<1>1. /\ ask' \in [Asks -> AskType]
      /\ ask'[q] = new
      /\ \A p \in Asks \ {q} : ask'[p] = ask[p]
  BY DEF RulesIInv, RulesTypeOK
<1>2. RulesTypeOK' BY <1>1 DEF RulesIInv, RulesTypeOK
<1>3. \A p \in Asks : /\ ask'[p].dead \subseteq gone
                      /\ ask'[p].rules \cap ask'[p].dead = {}
                      /\ ask'[p].used \subseteq ask'[p].rules
                      /\ ask'[p].step = "found" => ask'[p].used = {}
  BY <1>1 DEF RulesIInv
<1> QED BY <1>2, <1>3 DEF RulesIInv

\* The invariant is inductive.
LEMMA RulesInductive == RulesSpec => []RulesIInv
<1> USE RulesAssumption
<1>1. ASSUME RulesInit PROVE RulesIInv
  BY <1>1 DEF RulesInit, RulesIInv, RulesTypeOK, AskType, NotAsked, Statuses
<1>2. ASSUME RulesIInv, [RulesNext]_rulesVars PROVE RulesIInv'
  <2> USE <1>2
  <2>1. ASSUME NEW p \in Parties, NEW s \in Specs, CreateAgreement(p, s) PROVE RulesIInv'
    BY <2>1, FinanceKeeps DEF CreateAgreement, RulesIInv, RulesTypeOK, Statuses
  <2>2. ASSUME NEW p \in Parties, NEW s \in Specs, UpdateAgreement(p, s) PROVE RulesIInv'
    BY <2>2, FinanceKeeps DEF UpdateAgreement, RulesIInv, RulesTypeOK, Statuses, Accepted
  <2>3. ASSUME NEW r \in Rules, CreateRule(r) PROVE RulesIInv'
    BY <2>3, FinanceKeeps DEF CreateRule, RulesIInv, RulesTypeOK
  <2>4. ASSUME NEW r \in Rules, DeleteRule(r) PROVE RulesIInv'
    BY <2>4, FinanceKeeps DEF DeleteRule, RulesIInv, RulesTypeOK
  <2>5. ASSUME NEW q \in Asks, FindAgreement(q) PROVE RulesIInv'
    <3>1. UNCHANGED <<agreements, rules, gone, patches>> BY <2>5 DEF FindAgreement
    <3>2. ASSUME NEW l \in Lines, NEW s \in Specs,
                 ask' = [ask EXCEPT ![q] = [NotAsked EXCEPT !.step = "found", !.line = l,
                                                            !.spec = s, !.dead = gone]]
          PROVE  RulesIInv'
      <4> DEFINE new == [NotAsked EXCEPT !.step = "found", !.line = l, !.spec = s, !.dead = gone]
      <4>1. NotAsked \in AskType /\ NotAsked.rules = {} /\ NotAsked.used = {}
        BY DEF NotAsked, AskType
      <4>2. gone \in SUBSET Rules BY DEF RulesIInv, RulesTypeOK
      <4>3. new \in AskType /\ new.dead = gone /\ new.rules = {} /\ new.used = {}
        BY <4>1, <4>2 DEF AskType
      <4> HIDE DEF new
      <4> QED BY <3>1, <3>2, <4>3, AskKeeps DEF new
    <3>3. ASSUME NEW l \in Lines,
                 ask' = [ask EXCEPT ![q] = [NotAsked EXCEPT !.step = "refused", !.line = l]]
          PROVE  RulesIInv'
      <4> DEFINE new == [NotAsked EXCEPT !.step = "refused", !.line = l]
      <4>1. /\ NotAsked \in AskType /\ NotAsked.dead = {}
            /\ NotAsked.rules = {} /\ NotAsked.used = {}
        BY DEF NotAsked, AskType
      <4>2. new \in AskType /\ new.dead = {} /\ new.rules = {} /\ new.used = {}
        BY <4>1 DEF AskType
      <4> HIDE DEF new
      <4> QED BY <3>1, <3>3, <4>2, AskKeeps DEF new
    <3> QED BY <2>5, <3>2, <3>3 DEF FindAgreement, ActiveSpecs
  <2>6. ASSUME NEW q \in Asks, AnswerRules(q) PROVE RulesIInv'
    <3> DEFINE listed == ListForSpec(ask[q].spec)
               new == [ask[q] EXCEPT !.step = "answered", !.rules = listed]
    <3>1. ask[q] \in AskType BY DEF RulesIInv, RulesTypeOK
    <3>2. listed \subseteq rules BY DEF ListForSpec, RulesOfSpec
    <3>3. listed \subseteq Rules BY <3>2 DEF RulesIInv, RulesTypeOK
    <3>4. ask[q].used = {} BY <2>6 DEF AnswerRules, RulesIInv
    <3> HIDE DEF listed
    <3>5. new \in AskType /\ new.dead = ask[q].dead /\ new.used = ask[q].used
          /\ new.rules = listed /\ new.step = "answered"
      BY <3>1, <3>3 DEF AskType
    <3>6. new.dead \subseteq gone /\ new.rules \cap new.dead = {} /\ new.used \subseteq new.rules
      BY <3>2, <3>4, <3>5 DEF RulesIInv
    <3>7. ask' = [ask EXCEPT ![q] = new] /\ UNCHANGED <<agreements, rules, gone, patches>>
      BY <2>6 DEF AnswerRules, listed
    <3> HIDE DEF new
    <3> QED BY <3>5, <3>6, <3>7, AskKeeps
  <2>7. ASSUME NEW q \in Asks, PriceLine(q) PROVE RulesIInv'
    <3>1. UNCHANGED <<agreements, rules, gone, patches>> BY <2>7 DEF PriceLine
    <3>2. ask[q] \in AskType BY DEF RulesIInv, RulesTypeOK
    <3>3. CASE ask' = [ask EXCEPT ![q] = [ask[q] EXCEPT !.step = "unpriced"]]
      <4> DEFINE new == [ask[q] EXCEPT !.step = "unpriced"]
      <4>1. new \in AskType /\ new.dead = ask[q].dead /\ new.rules = ask[q].rules
            /\ new.used = ask[q].used /\ new.step = "unpriced"
        BY <3>2 DEF AskType
      <4> HIDE DEF new
      <4> QED BY <3>1, <3>3, <4>1, AskKeeps DEF new, RulesIInv
    <3>4. ASSUME NEW r \in ask[q].rules,
                 ask' = [ask EXCEPT ![q] = [ask[q] EXCEPT !.step = "priced", !.used = {r}]]
          PROVE  RulesIInv'
      <4> DEFINE new == [ask[q] EXCEPT !.step = "priced", !.used = {r}]
      <4>1. new \in AskType /\ new.dead = ask[q].dead /\ new.rules = ask[q].rules
            /\ new.used = {r} /\ new.step = "priced"
        BY <3>2 DEF AskType
      <4>2. /\ new.dead \subseteq gone /\ new.rules \cap new.dead = {}
            /\ new.used \subseteq new.rules /\ (new.step = "found" => new.used = {})
        BY <3>4, <4>1 DEF RulesIInv
      <4>3. ask' = [ask EXCEPT ![q] = new] BY <3>4
      <4> HIDE DEF new
      <4> QED BY <3>1, <4>1, <4>2, <4>3, AskKeeps
    <3> QED BY <2>7, <3>3, <3>4, ApplicableGiven DEF PriceLine
  <2>8. CASE UNCHANGED rulesVars
    BY <2>8 DEF rulesVars, RulesIInv, RulesTypeOK
  <2> QED BY <2>1, <2>2, <2>3, <2>4, <2>5, <2>6, <2>7, <2>8 DEF RulesNext
<1> QED BY <1>1, <1>2, PTL DEF RulesSpec

\* Types: all that is kept stays what it is meant to be.
THEOREM RulesTyping == RulesSpec => []RulesTypeOK
BY RulesInductive, PTL DEF RulesIInv

\* A rule deleted before an agreement is asked for prices nothing afterwards, for
\* any rules, dealers and number of concurrent requests.
THEOREM DeletedNeverPays == RulesSpec => []DeletedRuleNeverPays
<1>1. RulesIInv => DeletedRuleNeverPays BY DEF RulesIInv, DeletedRuleNeverPays
<1> QED BY RulesInductive, <1>1, PTL

\* Priorities of rules are numbers.
LEMMA PriorityIsNumber == ASSUME NEW r \in Rules PROVE RuleOf[r].priority \in Int
BY RulesAssumption DEF RulesAssumption, RuleType

\* With one more rule, another rule prices the line only if the new one matches it
\* with at most the priority number of those before.
LEMMA AddedRulePrices ==
  ASSUME NEW rs \in SUBSET Rules, NEW a \in Rules \ rs, NEW l,
         a \notin Matching({a}, l)
           \/ \E w \in Applicable(rs, l) : RuleOf[w].priority < RuleOf[a].priority
  PROVE  Applicable(rs \cup {a}, l) = Applicable(rs, l)
<1>1. CASE a \notin Matching({a}, l)
  <2>1. Matching(rs \cup {a}, l) = Matching(rs, l) BY <1>1 DEF Matching
  <2> QED BY <2>1 DEF Applicable
<1>2. ASSUME NEW w \in Applicable(rs, l), RuleOf[w].priority < RuleOf[a].priority
      PROVE  Applicable(rs \cup {a}, l) = Applicable(rs, l)
  <2> DEFINE old == Matching(rs, l)
             new == Matching(rs \cup {a}, l)
  <2>1. old \subseteq new /\ new \subseteq old \cup {a} /\ old \subseteq Rules /\ a \notin old
    BY DEF Matching
  <2>2. w \in old /\ \A o \in old : RuleOf[w].priority <= RuleOf[o].priority
    BY DEF Applicable
  <2>3. /\ Applicable(rs, l) = {r \in old : \A o \in old : RuleOf[r].priority <= RuleOf[o].priority}
        /\ Applicable(rs \cup {a}, l) =
             {r \in new : \A o \in new : RuleOf[r].priority <= RuleOf[o].priority}
    BY DEF Applicable
  <2> HIDE DEF old, new
  <2>4. \A r \in Rules : RuleOf[r].priority \in Int BY PriorityIsNumber
  <2>5. ASSUME NEW r \in old, \A o \in old : RuleOf[r].priority <= RuleOf[o].priority
        PROVE  \A o \in new : RuleOf[r].priority <= RuleOf[o].priority
    BY <1>2, <2>1, <2>2, <2>4, <2>5
  <2>6. ASSUME NEW r \in new, \A o \in new : RuleOf[r].priority <= RuleOf[o].priority
        PROVE  r \in old
    BY <1>2, <2>1, <2>2, <2>4, <2>6
  <2> QED BY <2>1, <2>3, <2>5, <2>6
<1> QED BY <1>1, <1>2

\* Without a rule that did not price the line, the same rules price it.
LEMMA RemovedRulePrices ==
  ASSUME NEW rs \in SUBSET Rules, NEW a \in rs, NEW l, a \notin Applicable(rs, l)
  PROVE  Applicable(rs \ {a}, l) = Applicable(rs, l)
<1> DEFINE old == Matching(rs, l)
           new == Matching(rs \ {a}, l)
<1>1. new = old \ {a} /\ old \subseteq Rules BY DEF Matching
<1>2. /\ Applicable(rs, l) = {r \in old : \A o \in old : RuleOf[r].priority <= RuleOf[o].priority}
      /\ Applicable(rs \ {a}, l) =
           {r \in new : \A o \in new : RuleOf[r].priority <= RuleOf[o].priority}
  BY DEF Applicable
<1> HIDE DEF old, new
<1>3. \A r \in Rules : RuleOf[r].priority \in Int BY PriorityIsNumber
<1>4. a \in old => \E o \in old : RuleOf[o].priority < RuleOf[a].priority
  BY <1>1, <1>2, <1>3
<1>5. ASSUME NEW r \in new, \A o \in new : RuleOf[r].priority <= RuleOf[o].priority
      PROVE  \A o \in old : RuleOf[r].priority <= RuleOf[o].priority
  BY <1>1, <1>3, <1>4, <1>5
<1> QED BY <1>1, <1>2, <1>5

\* Editing rules is local: only a rule of the same or better priority that covers
\* the line, or the loss of the rule that priced it, changes what prices a line.
THEOREM EditingIsLocal == RulesSpec => OnlyBetterRulesReprice
<1> DEFINE Local(s, l) ==
      LET before == PricedBy(rules, s, l) IN
      PricedBy(rules', s, l) # before =>
        \/ \E r \in Matching(RulesOfSpec(rules' \ rules, s), l) :
             \A w \in before : RuleOf[r].priority <= RuleOf[w].priority
        \/ \E w \in before : w \notin rules'
<1>1. ASSUME RulesIInv, [RulesNext]_rulesVars, NEW s \in Specs, NEW l \in Lines PROVE Local(s, l)
  <2> USE <1>1
  <2> DEFINE mine == RulesOfSpec(rules, s)
  <2>1. mine \subseteq rules /\ rules \subseteq Rules
    BY DEF RulesOfSpec, RulesIInv, RulesTypeOK
  <2>2. ASSUME NEW a \in Rules, CreateRule(a) PROVE Local(s, l)
    <3>1. rules' = rules \cup {a} /\ rules' \ rules = {a} BY <2>2 DEF CreateRule
    <3>2. CASE RuleOf[a].spec # s
      <4>1. RulesOfSpec(rules', s) = mine BY <3>1, <3>2 DEF RulesOfSpec
      <4> QED BY <4>1 DEF PricedBy
    <3>3. CASE RuleOf[a].spec = s
      <4>1. /\ RulesOfSpec(rules', s) = mine \cup {a}
            /\ RulesOfSpec(rules' \ rules, s) = {a} /\ a \notin mine
        BY <2>2, <3>1, <3>3 DEF RulesOfSpec, CreateRule
      <4>2. \A w \in PricedBy(rules, s, l) : w \in Rules
        BY <2>1, ApplicableGiven DEF PricedBy
      <4>3. ASSUME a \in Matching({a}, l),
                   ~ \E w \in PricedBy(rules, s, l) : RuleOf[w].priority < RuleOf[a].priority
            PROVE  Local(s, l)
        <5>1. \A w \in PricedBy(rules, s, l) : RuleOf[a].priority <= RuleOf[w].priority
          BY <4>2, <4>3, PriorityIsNumber
        <5>2. a \in Matching(RulesOfSpec(rules' \ rules, s), l)
          BY <4>1, <4>3
        <5> QED BY <5>1, <5>2
      <4>4. ASSUME a \notin Matching({a}, l)
                   \/ \E w \in PricedBy(rules, s, l) : RuleOf[w].priority < RuleOf[a].priority
            PROVE  Local(s, l)
        <5>1. PricedBy(rules', s, l) = PricedBy(rules, s, l)
          BY <2>1, <4>1, <4>4, AddedRulePrices DEF PricedBy
        <5> QED BY <5>1
      <4> QED BY <4>3, <4>4
    <3> QED BY <3>2, <3>3
  <2>3. ASSUME NEW a \in Rules, DeleteRule(a) PROVE Local(s, l)
    <3>1. rules' = rules \ {a} BY <2>3 DEF DeleteRule
    <3>2. RulesOfSpec(rules', s) = mine \ {a} BY <3>1 DEF RulesOfSpec
    <3>3. CASE a \in PricedBy(rules, s, l) BY <3>1, <3>3
    <3>4. CASE a \notin PricedBy(rules, s, l)
      <4>1. PricedBy(rules', s, l) = PricedBy(rules, s, l)
        <5>1. CASE a \in mine
          BY <2>1, <3>2, <3>4, <5>1, RemovedRulePrices DEF PricedBy
        <5>2. CASE a \notin mine
          <6>1. RulesOfSpec(rules', s) = mine BY <3>2, <5>2
          <6> QED BY <6>1 DEF PricedBy
        <5> QED BY <5>1, <5>2
      <4> QED BY <4>1
    <3> QED BY <3>3, <3>4
  <2>4. ASSUME UNCHANGED rules PROVE Local(s, l) BY <2>4 DEF PricedBy
  <2> QED BY <2>2, <2>3, <2>4
       DEF RulesNext, CreateAgreement, UpdateAgreement, FindAgreement, AnswerRules, PriceLine, rulesVars
<1>2. RulesIInv /\ [RulesNext]_rulesVars =>
        [\A s \in Specs, l \in Lines : Local(s, l)]_rules
  BY <1>1
<1> QED BY RulesInductive, <1>2, PTL DEF RulesSpec, OnlyBetterRulesReprice

-----------------------------------------------------------------------------
(* What a line is paid: the engine multiplies, the property counts units.   *)

\* How many of n units fall into band b, whether or not the first of it does.
UnitsOf(b, n) == IF RuleOf[b].min <= n THEN UnitsInBand(b, n) ELSE 0

\* What is known of a rule's numbers.
LEMMA RuleFacts ==
  ASSUME NEW b \in Rules
  PROVE  /\ RuleOf[b].min \in Nat /\ RuleOf[b].max \in Nat \cup {NoLimit}
         /\ RuleOf[b].value \in Nat /\ NoLimit \notin Nat
         /\ RuleOf[b].type \in {"FLAT_AMOUNT", "PERCENTAGE", "TIERED"}
BY RulesAssumption DEF RulesAssumption, RuleType

\* One unit more is in a band if and only if the band takes it, counted from position 0:
\* bands have no other edge effect.
LEMMA OneUnitMore ==
  ASSUME NEW b \in Rules, ProperBand(b), NEW n \in Nat
  PROVE  /\ UnitsOf(b, n) \in Int
         /\ UnitsOf(b, 0) = IF WithinTier(b, 0) THEN 1 ELSE 0
         /\ WithinTier(b, n + 1) => UnitsOf(b, n + 1) = UnitsOf(b, n) + 1
         /\ ~WithinTier(b, n + 1) => UnitsOf(b, n + 1) = UnitsOf(b, n)
<1>1. PICK min \in Nat : min = RuleOf[b].min BY RuleFacts
<1>3. CASE RuleOf[b].max = NoLimit
  BY <1>1, <1>3, RuleFacts DEF UnitsOf, UnitsInBand, WithinTier
<1>4. CASE RuleOf[b].max # NoLimit
  <2>1. PICK max \in Nat : max = RuleOf[b].max BY <1>4, RuleFacts
  <2>2. max >= min BY <1>1, <1>4, <2>1 DEF ProperBand
  <2>3. \A m \in Nat : UnitsOf(b, m) =
          IF min <= m THEN (IF max < m THEN max ELSE m) - min + 1 ELSE 0
    BY <1>1, <1>4, <2>1 DEF UnitsOf, UnitsInBand
  <2>4. \A m \in Nat : WithinTier(b, m) <=> min <= m /\ m <= max
    BY <1>1, <1>4, <2>1 DEF WithinTier
  <2>5. 0 \in Nat /\ n + 1 \in Nat OBVIOUS
  <2> QED BY <2>2, <2>3, <2>4, <2>5
<1> QED BY <1>3, <1>4

\* Band by band or position by position, the sum is the same.
LEMMA BandsUnitByUnit ==
  ASSUME NEW B, B \subseteq Rules, IsFiniteSet(B), \A b \in B : ProperBand(b)
  PROVE  \A n \in Nat :
           SumFunctionOnSet([b \in B |-> RuleOf[b].value * UnitsOf(b, n)], B) =
           SumFunctionOnSet([u \in 0..n |->
             SumFunction([b \in {b \in B : WithinTier(b, u)} |-> RuleOf[b].value])], 0..n)
<1> DEFINE paid(n) == [b \in B |-> RuleOf[b].value * UnitsOf(b, n)]
           won(u) == [b \in B |-> IF WithinTier(b, u) THEN RuleOf[b].value ELSE 0]
           rate(u) == SumFunction([b \in {b \in B : WithinTier(b, u)} |-> RuleOf[b].value])
           rates(n) == [u \in 0..n |-> rate(u)]
           C == {n \in Nat : SumFunctionOnSet(paid(n), B) # SumFunctionOnSet(rates(n), 0..n)}
<1>1. ASSUME NEW u PROVE rate(u) = SumFunctionOnSet(won(u), B) /\ rate(u) \in Int
  <2>1. PICK W : W = {b \in B : WithinTier(b, u)} OBVIOUS
  <2>2. PICK f : f = [b \in W |-> RuleOf[b].value] OBVIOUS
  <2>3. PICK w : w = won(u) OBVIOUS
  <2>4. IsFiniteSet(W) /\ W \subseteq B BY <2>1, FS_Subset
  <2>5. \A b \in W : f[b] = w[b] BY <2>1, <2>2, <2>3
  <2>6. \A b \in B : w[b] \in Int BY <2>3, RuleFacts
  <2>7. \A b \in B \ W : w[b] = 0 BY <2>1, <2>3
  <2>8. rate(u) = SumFunctionOnSet(f, W)
    <3>1. rate(u) = SumFunction(f) BY <2>1, <2>2
    <3>2. DOMAIN f = W BY <2>2
    <3> QED BY <3>1, <3>2, SumFunctionIs
  <2>9. SumFunctionOnSet(f, W) = SumFunctionOnSet(w, W) BY ONLY <2>4, <2>5, SumSame
  <2>10. SumFunctionOnSet(w, B) = SumFunctionOnSet(w, W)
    BY ONLY IsFiniteSet(B), <2>4, <2>6, <2>7, SumWhere
  <2>11. SumFunctionOnSet(w, B) \in Int BY ONLY IsFiniteSet(B), <2>6, SumInt
  <2> QED BY <2>3, <2>8, <2>9, <2>10, <2>11
<1>2. 0 \notin C
  <2>1. PICK f, w, g : f = paid(0) /\ w = won(0) /\ g = rates(0) OBVIOUS
  <2>2. \A b \in B : f[b] = w[b]
    <3> SUFFICES ASSUME NEW b \in B PROVE f[b] = w[b] OBVIOUS
    <3>1. f[b] = RuleOf[b].value * UnitsOf(b, 0)
          /\ w[b] = IF WithinTier(b, 0) THEN RuleOf[b].value ELSE 0
      BY <2>1
    <3>2. PICK value \in Nat : value = RuleOf[b].value BY RuleFacts
    <3>3. UnitsOf(b, 0) = IF WithinTier(b, 0) THEN 1 ELSE 0 BY OneUnitMore
    <3>4. value * 1 = value /\ value * 0 = 0 OBVIOUS
    <3> QED BY <3>1, <3>2, <3>3, <3>4
  <2>3. SumFunctionOnSet(f, B) = SumFunctionOnSet(w, B) BY ONLY IsFiniteSet(B), <2>2, SumSame
  <2>4. g[0] = SumFunctionOnSet(w, B) /\ g[0] \in Int
    <3>1. g[0] = rate(0) BY <2>1
    <3> QED BY <1>1, <2>1, <3>1
  <2>5. PICK V : V = 0..0 OBVIOUS
  <2>6. V = {0} /\ V \ {0} = {} BY <2>5
  <2>7. IsFiniteSet(V) /\ 0 \in V /\ \A x \in V : g[x] \in Int
    BY <2>4, <2>6, FS_EmptySet, FS_AddElement
  <2>8. SumFunctionOnSet(g, V) = g[0] + SumFunctionOnSet(g, V \ {0})
    BY ONLY <2>7, SumTakeOut
  <2>9. SumFunctionOnSet(g, V \ {0}) = 0 BY <2>6, SumEmpty
  <2>10. SumFunctionOnSet(g, 0..0) = g[0] BY <2>4, <2>5, <2>8, <2>9
  <2> QED BY <2>1, <2>3, <2>4, <2>10
<1>3. ASSUME NEW n \in Nat, n \notin C PROVE n + 1 \notin C
  <2>1. PICK p, q, w : p = paid(n) /\ q = paid(n + 1) /\ w = won(n + 1) OBVIOUS
  <2>2. \A b \in B : p[b] \in Int /\ w[b] \in Int /\ q[b] = p[b] + w[b]
    <3> SUFFICES ASSUME NEW b \in B
                 PROVE  p[b] \in Int /\ w[b] \in Int /\ q[b] = p[b] + w[b]
      OBVIOUS
    <3>1. PICK value \in Nat, units \in Int : value = RuleOf[b].value /\ units = UnitsOf(b, n)
      BY RuleFacts, OneUnitMore
    <3>2. p[b] = value * units /\ w[b] = (IF WithinTier(b, n + 1) THEN value ELSE 0)
          /\ q[b] = value * UnitsOf(b, n + 1)
      BY <2>1, <3>1
    <3>3. value * (units + 1) = value * units + value /\ value * units \in Int OBVIOUS
    <3>4. CASE WithinTier(b, n + 1)
      <4>1. UnitsOf(b, n + 1) = units + 1 BY <3>1, <3>4, OneUnitMore
      <4> QED BY <3>1, <3>2, <3>3, <3>4, <4>1
    <3>5. CASE ~WithinTier(b, n + 1)
      <4>1. UnitsOf(b, n + 1) = units BY <3>1, <3>5, OneUnitMore
      <4> QED BY <3>1, <3>2, <3>3, <3>5, <4>1
    <3> QED BY <3>4, <3>5
  <2>3. SumFunctionOnSet(q, B) = SumFunctionOnSet(p, B) + SumFunctionOnSet(w, B)
    BY ONLY IsFiniteSet(B), <2>2, SumPlus
  <2>4. PICK f, g : f = rates(n) /\ g = rates(n + 1) OBVIOUS
  <2>5. \A u \in 0..n : f[u] \in Int /\ g[u] = f[u]
    <3> SUFFICES ASSUME NEW u \in 0..n PROVE f[u] \in Int /\ g[u] = f[u] OBVIOUS
    <3>1. u \in 0..(n + 1) OBVIOUS
    <3>2. f[u] = rate(u) /\ g[u] = rate(u) BY <2>4, <3>1
    <3> QED BY <1>1, <3>2
  <2>6. g[n + 1] = SumFunctionOnSet(w, B) /\ g[n + 1] \in Int
    <3>1. n + 1 \in 0..(n + 1) OBVIOUS
    <3>2. g[n + 1] = rate(n + 1) BY <2>4, <3>1
    <3> QED BY <1>1, <2>1, <3>2
  <2>7. SumFunctionOnSet(g, 0..(n + 1)) = SumFunctionOnSet(f, 0..n) + g[n + 1]
    <3>1. PICK U, V, y : U = 0..n /\ V = 0..(n + 1) /\ y = n + 1 OBVIOUS
    <3>2. IsFiniteSet(U) BY <3>1, FS_Interval
    <3>3. V = U \cup {y} /\ y \notin U BY <3>1
    <3>4. (\A x \in U : f[x] \in Int) /\ (\A x \in U : g[x] = f[x]) /\ g[y] \in Int
      BY <2>5, <2>6, <3>1
    <3>5. SumFunctionOnSet(g, V) = SumFunctionOnSet(f, U) + g[y]
      BY ONLY <3>2, <3>3, <3>4, SumAdded
    <3> QED BY <3>1, <3>5
  <2>8. SumFunctionOnSet(p, B) = SumFunctionOnSet(f, 0..n) BY <1>3, <2>1, <2>4
  <2>9. SumFunctionOnSet(q, B) = SumFunctionOnSet(g, 0..(n + 1)) BY <2>3, <2>6, <2>7, <2>8
  <2> QED BY <2>1, <2>4, <2>9
<1>4. C \subseteq Nat OBVIOUS
<1>5. \A n \in Nat : n + 1 \in C => n \in C BY <1>3
<1>6. C = {}
  <2> HIDE DEF C
  <2> QED BY <1>2, <1>4, <1>5, NatDescent
<1> QED BY <1>6

\* Whatever rule was found, the amount is the sum of what the units earn.
LEMMA AmountUnitByUnit ==
  ASSUME NEW rs, NEW l \in Lines, NEW r \in Rules, rs \subseteq Rules, IsFiniteSet(rs),
         \A b \in Bands(rs, l) : ProperBand(b)
  PROVE  CommissionBy(r, rs, l) = SumFunction([u \in Counted(r, l) |-> UnitRate(r, rs, l, u)])
<1>1. PICK n \in Nat, price \in Nat : n = l.quantity /\ price = l.price
  BY RulesAssumption DEF RulesAssumption
<1>2. PICK value \in Nat : value = RuleOf[r].value BY RuleFacts
<1>3. PICK f, P : P = Counted(r, l) /\ f = [u \in P |-> UnitRate(r, rs, l, u)] OBVIOUS
<1>4. DOMAIN f = P /\ \A u \in P : f[u] = UnitRate(r, rs, l, u) BY <1>3
<1>5. SumFunction(f) = SumFunctionOnSet(f, P) BY <1>4, SumFunctionIs
<1>6. CASE RuleOf[r].type = "FLAT_AMOUNT"
  <2>0. P = 1..n BY <1>1, <1>3, <1>6 DEF Counted
  <2>1. \A u \in 1..n : f[u] = value BY <1>2, <1>4, <1>6, <2>0 DEF UnitRate
  <2>2. SumFunctionOnSet(f, 1..n) = n * value BY ONLY <2>1, SumConstant, value \in Nat, n \in Nat
  <2>3. CommissionBy(r, rs, l) = value * n BY <1>1, <1>2, <1>6 DEF CommissionBy
  <2>4. value * n = n * value OBVIOUS
  <2> QED BY <1>3, <1>5, <2>0, <2>2, <2>3, <2>4
<1>7. CASE RuleOf[r].type = "PERCENTAGE"
  <2>0. P = 1..n BY <1>1, <1>3, <1>7 DEF Counted
  <2>1. PICK c \in Nat : c = price * value OBVIOUS
  <2>2. \A u \in 1..n : f[u] = c BY <1>1, <1>2, <1>4, <1>7, <2>0, <2>1 DEF UnitRate
  <2>3. SumFunctionOnSet(f, 1..n) = n * c BY ONLY <2>2, SumConstant, c \in Nat, n \in Nat
  <2>4. CommissionBy(r, rs, l) = price * n * value BY <1>1, <1>2, <1>7 DEF CommissionBy
  <2>5. price * n * value = n * c BY <2>1
  <2> QED BY <1>3, <1>5, <2>0, <2>3, <2>4, <2>5
<1>8. CASE RuleOf[r].type = "TIERED"
  <2>1. PICK B : B = Bands(rs, l) OBVIOUS
  <2>2. B \subseteq Rules /\ IsFiniteSet(B) /\ \A b \in B : ProperBand(b)
    BY <2>1, FS_Subset DEF Bands
  <2>3. PICK R : R = Reached(rs, l) OBVIOUS
  <2>4. R = {b \in B : RuleOf[b].min <= n} /\ IsFiniteSet(R)
    BY <1>1, <2>1, <2>2, <2>3, FS_Subset DEF Reached
  <2>5. PICK p, paid : /\ p = [b \in R |-> RuleOf[b].value * UnitsInBand(b, n)]
                       /\ paid = [b \in B |-> RuleOf[b].value * UnitsOf(b, n)]
    OBVIOUS
  <2>6. CommissionBy(r, rs, l) = SumFunctionOnSet(p, R)
    <3>1. CommissionBy(r, rs, l) = TieredCommission(rs, l) BY <1>8 DEF CommissionBy
    <3>2. TieredCommission(rs, l) = SumFunction(p)
      BY <1>1, <2>3, <2>5 DEF TieredCommission
    <3>3. DOMAIN p = R BY <2>5
    <3> QED BY <3>1, <3>2, <3>3, SumFunctionIs
  <2>7. SumFunctionOnSet(p, R) = SumFunctionOnSet(paid, R)
    <3>1. \A b \in R : p[b] = paid[b] BY <2>4, <2>5 DEF UnitsOf
    <3> QED BY ONLY <2>4, <3>1, SumSame
  <2>8. SumFunctionOnSet(paid, B) = SumFunctionOnSet(paid, R)
    <3>1. \A b \in B : paid[b] \in Int
      <4> SUFFICES ASSUME NEW b \in B PROVE paid[b] \in Int OBVIOUS
      <4>1. paid[b] = RuleOf[b].value * UnitsOf(b, n) BY <2>5
      <4>2. b \in Rules /\ ProperBand(b) BY <2>2
      <4>3. UnitsOf(b, n) \in Int /\ RuleOf[b].value \in Int BY <4>2, RuleFacts, OneUnitMore
      <4> QED BY <4>1, <4>3
    <3>2. \A b \in B \ R : paid[b] = 0
      <4> SUFFICES ASSUME NEW b \in B, b \notin R PROVE paid[b] = 0 OBVIOUS
      <4>1. UnitsOf(b, n) = 0 BY <2>4 DEF UnitsOf
      <4>2. RuleOf[b].value \in Int BY <2>2, RuleFacts
      <4> QED BY <2>5, <4>1, <4>2
    <3>3. R \subseteq B BY <2>4
    <3> QED BY ONLY <2>2, <3>1, <3>2, <3>3, SumWhere
  <2>0. P = 0..n BY <1>1, <1>3, <1>8 DEF Counted
  <2>9. SumFunctionOnSet(paid, B) = SumFunctionOnSet(f, 0..n)
    <3>1. PICK g : g = [u \in 0..n |->
                         SumFunction([b \in {b \in B : WithinTier(b, u)} |-> RuleOf[b].value])]
      OBVIOUS
    <3>2. f = g BY <1>3, <1>8, <2>0, <2>1, <3>1 DEF UnitRate
    <3>3. SumFunctionOnSet(paid, B) = SumFunctionOnSet(g, 0..n)
      BY <2>2, <2>5, <3>1, BandsUnitByUnit
    <3> QED BY <3>2, <3>3
  <2> QED BY <1>3, <1>5, <2>0, <2>6, <2>7, <2>8, <2>9
<1> QED BY <1>6, <1>7, <1>8, RuleFacts

\* The strengthening of PaidUnitByUnit: rules are created one at a time, so that there
\* are finitely many at any time, and a request that has begun has a line.
PricingIInv ==
  /\ RulesIInv
  /\ IsFiniteSet(rules)
  /\ \A q \in Asks : /\ IsFiniteSet(ask[q].rules)
                     /\ ask[q].step # "idle" => ask[q].line \in Lines

\* The amount of every priced line is what its units earn one by one, and the position
\* before the first one in a band that takes it in, for any rules, lines, edits of the rules
\* meanwhile, and bands, if none ends before it starts (calculate_tiered_commission).
THEOREM UnitsPayTheAmount == RulesSpec => []PaidUnitByUnit
<1>1. RulesInit => IsFiniteSet(rules) /\ \A q \in Asks : /\ IsFiniteSet(ask[q].rules)
                                                         /\ ask[q].step = "idle"
  <2>1. NotAsked.rules = {} /\ NotAsked.step = "idle" BY DEF NotAsked
  <2>2. RulesInit => rules = {} /\ \A q \in Asks : ask[q] = NotAsked BY DEF RulesInit
  <2> QED BY <2>1, <2>2, FS_EmptySet
<1>2. ASSUME PricingIInv, [RulesNext]_rulesVars
      PROVE  IsFiniteSet(rules')
  <2>1. ASSUME NEW r \in Rules, CreateRule(r) PROVE IsFiniteSet(rules')
    BY <1>2, <2>1, FS_AddElement DEF CreateRule, PricingIInv
  <2>2. ASSUME NEW r \in Rules, DeleteRule(r) PROVE IsFiniteSet(rules')
    BY <1>2, <2>2, FS_Subset DEF DeleteRule, PricingIInv
  <2>3. CASE rules' = rules BY <1>2, <2>3 DEF PricingIInv
  <2> QED BY <1>2, <2>1, <2>2, <2>3
       DEF RulesNext, CreateAgreement, UpdateAgreement, FindAgreement, AnswerRules, PriceLine, rulesVars
<1>3. ASSUME PricingIInv, [RulesNext]_rulesVars, NEW q \in Asks
      PROVE  IsFiniteSet(ask'[q].rules) /\ (ask'[q].step # "idle" => ask'[q].line \in Lines)
  <2> DEFINE Fine(a) == IsFiniteSet(a.rules) /\ (a.step # "idle" => a.line \in Lines)
  <2>1. Fine(ask[q]) /\ ask \in [Asks -> AskType] /\ IsFiniteSet(rules)
    BY <1>3 DEF PricingIInv, RulesIInv, RulesTypeOK
  <2>2. CASE ask' = ask BY <2>1, <2>2
  <2>3. ASSUME NEW p \in Asks, FindAgreement(p) PROVE Fine(ask'[q])
    <3>1. CASE p # q BY <2>1, <2>3, <3>1 DEF FindAgreement
    <3>2. CASE p = q
      <4>1. PICK l \in Lines : ask'[q].line = l /\ ask'[q].rules = NotAsked.rules
        <5>1. PICK l \in Lines :
                \/ \E s : ask' = [ask EXCEPT ![q] = [NotAsked EXCEPT !.step = "found", !.line = l,
                                                                   !.spec = s, !.dead = gone]]
                \/ ask' = [ask EXCEPT ![q] = [NotAsked EXCEPT !.step = "refused", !.line = l]]
          BY <2>3, <3>2 DEF FindAgreement
        <5>2. CASE \E s : ask' = [ask EXCEPT ![q] = [NotAsked EXCEPT !.step = "found", !.line = l,
                                                                   !.spec = s, !.dead = gone]]
          BY <2>1, <5>2 DEF NotAsked
        <5>3. CASE ask' = [ask EXCEPT ![q] = [NotAsked EXCEPT !.step = "refused", !.line = l]]
          BY <2>1, <5>3 DEF NotAsked
        <5> QED BY <5>1, <5>2, <5>3
      <4>2. NotAsked.rules = {} BY DEF NotAsked
      <4>3. IsFiniteSet(NotAsked.rules) BY <4>2, FS_EmptySet
      <4>4. IsFiniteSet(ask'[q].rules) BY ONLY <4>1, <4>3
      <4> QED BY <4>1, <4>4
    <3> QED BY <3>1, <3>2
  <2>4. ASSUME NEW p \in Asks, AnswerRules(p) PROVE Fine(ask'[q])
    <3>1. CASE p # q BY <2>1, <2>4, <3>1 DEF AnswerRules
    <3>2. CASE p = q
      <4>1. ask'[q].line = ask[q].line /\ ask'[q].rules = ListForSpec(ask[q].spec)
            /\ ask[q].step = "found"
        BY <2>1, <2>4, <3>2 DEF AnswerRules, AskType
      <4>2. IsFiniteSet(ListForSpec(ask[q].spec))
        BY <2>1, FS_Subset DEF ListForSpec, RulesOfSpec
      <4> QED BY <2>1, <4>1, <4>2
    <3> QED BY <3>1, <3>2
  <2>5. ASSUME NEW p \in Asks, PriceLine(p) PROVE Fine(ask'[q])
    <3>1. CASE p # q BY <2>1, <2>5, <3>1 DEF PriceLine
    <3>2. CASE p = q
      <4>1. ask'[q].line = ask[q].line /\ ask'[q].rules = ask[q].rules
            /\ ask[q].step = "answered"
        <5>1. ask[q].step = "answered" BY <2>5, <3>2 DEF PriceLine
        <5>2. \/ ask' = [ask EXCEPT ![q] = [ask[q] EXCEPT !.step = "unpriced"]]
              \/ \E r : ask' = [ask EXCEPT ![q] = [ask[q] EXCEPT !.step = "priced", !.used = {r}]]
          BY <2>5, <3>2 DEF PriceLine
        <5>3. CASE ask' = [ask EXCEPT ![q] = [ask[q] EXCEPT !.step = "unpriced"]]
          BY <2>1, <5>1, <5>3 DEF AskType
        <5>4. ASSUME NEW r,
                     ask' = [ask EXCEPT ![q] = [ask[q] EXCEPT !.step = "priced", !.used = {r}]]
              PROVE  ask'[q].line = ask[q].line /\ ask'[q].rules = ask[q].rules
          BY <2>1, <5>4 DEF AskType
        <5> QED BY <5>1, <5>2, <5>3, <5>4
      <4> QED BY <2>1, <4>1
    <3> QED BY <3>1, <3>2
  <2> QED BY <1>3, <2>2, <2>3, <2>4, <2>5
       DEF RulesNext, CreateAgreement, UpdateAgreement, CreateRule, DeleteRule, rulesVars
<1>4. PricingIInv => PaidUnitByUnit
  <2> SUFFICES ASSUME PricingIInv, NEW q \in Asks, ask[q].step = "priced",
                      \A b \in Bands(ask[q].rules, ask[q].line) : ProperBand(b),
                      NEW r \in ask[q].used
               PROVE  CommissionBy(r, ask[q].rules, ask[q].line) =
                        SumFunction([u \in Counted(r, ask[q].line) |->
                                       UnitRate(r, ask[q].rules, ask[q].line, u)])
    BY DEF PaidUnitByUnit, Priced
  <2>1. ask[q].line \in Lines /\ r \in Rules /\ ask[q].rules \subseteq Rules
        /\ IsFiniteSet(ask[q].rules)
    BY DEF PricingIInv, RulesIInv, RulesTypeOK, AskType
  <2> QED BY <2>1, AmountUnitByUnit
<1>5. RulesIInv /\ [RulesNext]_rulesVars /\ RulesIInv' /\ PricingIInv => PricingIInv'
  BY <1>2, <1>3 DEF PricingIInv
<1>6. RulesInit /\ RulesIInv => PricingIInv
  BY <1>1 DEF PricingIInv
<1> QED BY <1>4, <1>5, <1>6, RulesInductive, PTL DEF RulesSpec
=============================================================================
