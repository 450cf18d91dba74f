------------------------------ MODULE Commission ------------------------------
(***************************************************************************)
(* commission-calculation-service: sale and return events in, commission   *)
(* lines and monthly statements out, statements confirmed over the API.    *)
(*                                                                         *)
(* The replicas run the consumer loop of KafkaConsumer; this module adds   *)
(* what its handler does.  A handler call is one database transaction,     *)
(* whose statements are the steps below: other replicas and API requests   *)
(* run between them, other transactions see nothing of it before           *)
(* CommitTx, and a transaction that waits for a lock is a disabled step.   *)
(* The database is PostgreSQL at READ COMMITTED (external).                *)
(*                                                                         *)
(* A sale's item lines are abstracted to what they earn under each         *)
(* agreement (rule matching and the amount are pure functions).  Amounts   *)
(* are whole numbers, so rounding a total changes nothing.                 *)
(***************************************************************************)
EXTENDS KafkaConsumer, Functions

CONSTANTS
  Sales,               \* sale transactions (transaction_id)
  LineCount,           \* LineCount[t]: the number of item lines of sale t
  Agreements,          \* commission agreements of all dealers
  NoAgreement,         \* the rules service's answer when it gives none
  DealerOf,            \* DealerOf[t]: dealer_party_id of sale t
  PartyOf,             \* PartyOf[a]: the dealer agreement a is with
  Statements,          \* one per dealer, month and tenant
  StatementOf,         \* StatementOf[t]: the statement of t's dealer and sale month
  Amount,              \* Amount[<<a, t, k>>]: commission on line k of t under a, or
  NoCommission,        \*   this, when it is not eligible or no rule of a matches
  Requests,            \* API requests to confirm a statement
  NoStatement,         \* the statement of a request that has not started
  Unreadable,          \* events whose payload does not validate; a return that names
                       \*   no sale fares the same
  MaxAgreementChanges  \* bound on the number of agreement updates

\* Besides the faults of the consumer loop: "outage" (the rules service does not
\* answer), "transient" (a statement, a send or a commit of the handler raises)
\* and "confirm" (a confirm request fails half way).

ASSUME CommissionAssumption ==
  /\ Events \subseteq [type : {"sale", "return"}, sale : Sales]
  /\ Unreadable \subseteq Events
  /\ LineCount \in [Sales -> Nat]
  /\ NoAgreement \notin Agreements
  /\ NoCommission \notin Nat
  /\ NoStatement \notin Statements
  /\ StatementOf \in [Sales -> Statements]
  /\ \A t, u \in Sales : StatementOf[t] = StatementOf[u] => DealerOf[t] = DealerOf[u]
  /\ \A a \in Agreements, t \in Sales : \A k \in 1..LineCount[t] :
       Amount[<<a, t, k>>] \in Nat \cup {NoCommission}
  /\ MaxAgreementChanges \in Nat

\* sell-out-service keys its events by dealer (key=str(data.dealer_party_id)), so
\* all sales of a dealer are on one partition; the same sale may be there twice.
ASSUME KeyedByDealer ==
  \A p, q \in Partitions : \A i \in 1..Len(Log[p]), j \in 1..Len(Log[q]) :
    /\ Log[p][i].type = "sale" /\ Log[q][j].type = "sale"
    /\ DealerOf[Log[p][i].sale] = DealerOf[Log[q][j].sale]
    => p = q

VARIABLES
  ledger,         \* ledger[<<t, a>>]: lines with a committed commission_event row, in order
  processed,      \* committed processed_event_log
  stmt,           \* committed commission_statement rows
  active,         \* agreements that are ACTIVE in commission-rules-service
  changes,        \* how many agreement updates have happened
  announced,      \* <<t, k, a>>: telco.commission.event.calculated was sent
  confirmations,  \* confirmations[s]: totals sent in statement.confirmed events
  job,            \* job[w]: the open transaction of replica w's handler
  req             \* req[r]: the progress of API request r

db == <<ledger, processed, stmt>>
agreementVars == <<active, changes>>
serviceVars == <<db, agreementVars, announced, confirmations, job, req>>
vars == <<consumerVars, serviceVars>>

Absent == [status |-> "NONE", total |-> 0, lines |-> 0]

\* A handler that has not asked for the agreement yet.
NoJob == [step |-> "idle", agr |-> NoAgreement, line |-> 0, row |-> 0,
          marked |-> FALSE, seen |-> Absent]
NoRequest == [step |-> "idle", of |-> NoStatement]

Init ==
  /\ ConsumerInit
  /\ ledger = [x \in Sales \X Agreements |-> <<>>]
  /\ processed = {}
  /\ stmt = [s \in Statements |-> Absent]
  /\ active \in SUBSET Agreements
  /\ changes = 0
  /\ announced = {}
  /\ confirmations = [s \in Statements |-> <<>>]
  /\ job = [w \in Workers |-> NoJob]
  /\ req = [r \in Requests |-> NoRequest]

-----------------------------------------------------------------------------
(* What a transaction reads and what others must wait for.                 *)

Handling(w, type) ==
  task[w].phase = "handling" /\ EventOf(w).type = type /\ EventOf(w) \notin Unreadable
SaleOf(w) == EventOf(w).sale
Key(w) == <<SaleOf(w), job[w].agr>>
StatementFor(w) == StatementOf[SaleOf(w)]
Earned(w, k) == Amount[<<job[w].agr, SaleOf(w), k>>]

\* Mutant: the committed log is not looked at.
IsProcessedHere(w) == job[w].marked

\* is_processed also sees the transaction's own, uncommitted mark.
IsProcessed(w) == Key(w) \in processed \/ job[w].marked

\* The inserted log entry blocks an insert of the same key until commit.
HoldsKey(v, key) == job[v].marked /\ Key(v) = key

\* The written statement row is locked until the writer commits: a handler that
\* is past WriteStatement, a confirm request past ConfirmWrite.
StatementWritten(w) == job[w].row # 0 /\ job[w].step = "lines"
StatementFree(s) ==
  /\ \A v \in Workers : ~(StatementWritten(v) /\ StatementFor(v) = s)
  /\ \A r \in Requests : ~(req[r].of = s /\ req[r].step \in {"written", "sent"})

\* What _fetch_agreement_with_rules may be told for a sale: the one ACTIVE
\* agreement of the dealer; 404 for none and 500 for several, both None here, as
\* is an answer that does not come.
Candidates(t) == {a \in active : PartyOf[a] = DealerOf[t]}
Answers(t) ==
  {a \in Agreements : Candidates(t) = {a}}
  \cup {n \in {NoAgreement} : \/ \A a \in Agreements : Candidates(t) # {a}
                              \/ "outage" \in Faults}

\* Either handler logs a payload that does not validate, and returns: the event is
\* settled like any other.
PayloadIgnored(w) ==
  /\ task[w].phase = "handling"
  /\ EventOf(w) \in Unreadable
  /\ job[w].step = "idle"
  /\ HandlerReturns(w)
  /\ UNCHANGED serviceVars

-----------------------------------------------------------------------------
(* handle_sell_out_completed, one action per await.                        *)

FetchAgreement(w) ==
  /\ Handling(w, "sale")
  /\ job[w].step = "idle"
  /\ \E a \in Answers(SaleOf(w)) \ {NoAgreement} :
       job' = [job EXCEPT ![w] = [step |-> "lines", agr |-> a, line |-> 1, row |-> 0,
                                  marked |-> FALSE, seen |-> Absent]]
  /\ UNCHANGED <<consumerVars, db, agreementVars, announced, confirmations, req>>

\* Without an agreement the handler returns and commits an empty transaction.
NoAgreementFound(w) ==
  /\ Handling(w, "sale")
  /\ job[w].step = "idle"
  /\ NoAgreement \in Answers(SaleOf(w))
  /\ HandlerReturns(w)
  /\ UNCHANGED serviceVars

AtLine(w) == job[w].step = "lines" /\ job[w].line <= LineCount[SaleOf(w)]

\* Not eligible, already processed, or no matching rule: on to the next line.
SkipLine(w) ==
  /\ AtLine(w)
  /\ Earned(w, job[w].line) = NoCommission \/ IsProcessed(w)
  /\ job' = [job EXCEPT ![w].line = @ + 1]
  /\ UNCHANGED <<consumerVars, db, agreementVars, announced, confirmations, req>>

CreateEvent(w) ==
  /\ AtLine(w)
  /\ Earned(w, job[w].line) # NoCommission
  /\ ~IsProcessed(w)
  /\ job' = [job EXCEPT ![w].step = "created", ![w].row = job[w].line]
  /\ UNCHANGED <<consumerVars, db, agreementVars, announced, confirmations, req>>

\* Mutant: the log entry is committed by itself, before the commission row.
MarkProcessedAtOnce(w) ==
  /\ job[w].step = "created"
  /\ processed' = processed \cup {Key(w)}
  /\ job' = [job EXCEPT ![w].step = "marked", ![w].marked = TRUE]
  /\ UNCHANGED <<consumerVars, ledger, stmt, agreementVars, announced, confirmations, req>>

\* The insert into the log waits for a rival insert to commit or roll back.  A
\* key that turns out to be taken rolls back the savepoint and nothing else: the
\* commission row stays in the transaction.
MarkProcessed(w) ==
  /\ job[w].step = "created"
  /\ \A v \in Workers \ {w} : ~HoldsKey(v, Key(w))
  /\ job' = [job EXCEPT ![w].step = "marked", ![w].marked = Key(w) \notin processed]
  /\ UNCHANGED <<consumerVars, db, agreementVars, announced, confirmations, req>>

\* Mutant: a failed send is logged and swallowed.
PublishBestEffort(w) ==
  /\ job[w].step = "marked"
  /\ announced' \in {announced, announced \cup {<<SaleOf(w), job[w].row, job[w].agr>>}}
  /\ job' = [job EXCEPT ![w].step = "published"]
  /\ UNCHANGED <<consumerVars, db, agreementVars, confirmations, req>>

PublishCalculated(w) ==
  /\ job[w].step = "marked"
  /\ announced' = announced \cup {<<SaleOf(w), job[w].row, job[w].agr>>}
  /\ job' = [job EXCEPT ![w].step = "published"]
  /\ UNCHANGED <<consumerVars, db, agreementVars, confirmations, req>>

\* add_commission_to_draft: the select ...
ReadStatement(w) ==
  /\ job[w].step = "published"
  /\ job' = [job EXCEPT ![w].step = "read", ![w].seen = stmt[StatementFor(w)]]
  /\ UNCHANGED <<consumerVars, db, agreementVars, announced, confirmations, req>>

\* ... and the flush, which inserts the row or sets the totals computed from
\* what was read; it does not look at the status.
WriteStatement(w) ==
  /\ job[w].step = "read"
  /\ StatementFree(StatementFor(w))
  /\ job[w].seen = Absent => stmt[StatementFor(w)] = Absent
  /\ job' = [job EXCEPT ![w].step = "lines", ![w].line = @ + 1]
  /\ UNCHANGED <<consumerVars, db, agreementVars, announced, confirmations, req>>

\* The row was inserted by somebody else since it was read: the unique
\* constraint fails the flush and the handler rolls back.
StatementExists(w) ==
  /\ job[w].step = "read"
  /\ StatementFree(StatementFor(w))
  /\ job[w].seen = Absent /\ stmt[StatementFor(w)] # Absent
  /\ HandlerRaises(w)
  /\ job' = [job EXCEPT ![w] = NoJob]
  /\ UNCHANGED <<db, agreementVars, announced, confirmations, req>>

\* Mutant: a statement that is confirmed meanwhile is left as it is.
UpdatedIfDraft(w, old) ==
  IF old.status = "CONFIRMED" THEN old
  ELSE [status |-> "DRAFT", total |-> job[w].seen.total + Earned(w, job[w].row),
        lines |-> job[w].seen.lines + 1]

\* The writes of w's transaction become visible.
Updated(w, old) ==
  [status |-> IF old.status = "NONE" THEN "DRAFT" ELSE old.status,
   total |-> job[w].seen.total + Earned(w, job[w].row), lines |-> job[w].seen.lines + 1]
Apply(w) ==
  IF job[w].row = 0
  THEN UNCHANGED db
  ELSE /\ ledger' = [ledger EXCEPT ![Key(w)] = Append(@, job[w].row)]
       /\ processed' = IF job[w].marked THEN processed \cup {Key(w)} ELSE processed
       /\ stmt' = [stmt EXCEPT ![StatementFor(w)] = Updated(w, @)]

\* All lines are done: session.commit().  It may raise although it succeeded.
CommitTx(w) ==
  /\ job[w].step = "lines"
  /\ job[w].line > LineCount[SaleOf(w)]
  /\ Apply(w)
  /\ HandlerReturns(w) \/ ("transient" \in Faults /\ HandlerRaises(w))
  /\ job' = [job EXCEPT ![w] = NoJob]
  /\ UNCHANGED <<agreementVars, announced, confirmations, req>>

\* Mutant: the runner rolls back and does not raise again.
TransientErrorSwallowed(w) ==
  /\ "transient" \in Faults
  /\ job[w].step # "idle"
  /\ HandlerReturns(w)
  /\ job' = [job EXCEPT ![w] = NoJob]
  /\ UNCHANGED <<db, agreementVars, announced, confirmations, req>>

\* Any statement or send may raise; the transaction rolls back.
TransientError(w) ==
  /\ "transient" \in Faults
  /\ job[w].step # "idle"
  /\ HandlerRaises(w)
  /\ job' = [job EXCEPT ![w] = NoJob]
  /\ UNCHANGED <<db, agreementVars, announced, confirmations, req>>

-----------------------------------------------------------------------------
(* handle_return_processed.                                                *)

Commissioned(t) == \E a \in Agreements : ledger[<<t, a>>] # <<>>

NothingToClawBack(w) ==
  /\ Handling(w, "return")
  /\ ~Commissioned(SaleOf(w))
  /\ HandlerReturns(w)
  /\ UNCHANGED serviceVars

\* The clawback row is to carry the source transaction "CLAWBACK-<number>", which
\* the UUID column refuses: the first insert raises.
ClawbackRejected(w) ==
  /\ Handling(w, "return")
  /\ Commissioned(SaleOf(w))
  /\ HandlerRaises(w)
  /\ UNCHANGED serviceVars

-----------------------------------------------------------------------------
(* POST /commissionStatement/{id}/confirm, one action per await.           *)

\* A statement that is not there or not DRAFT is refused without a trace.
ConfirmRead(r, s) ==
  /\ req[r] = NoRequest
  /\ stmt[s].status = "DRAFT"
  /\ req' = [req EXCEPT ![r] = [step |-> "read", of |-> s]]
  /\ UNCHANGED <<consumerVars, db, agreementVars, announced, confirmations, job>>

\* Mutant: the event is built from what is in memory, before any flush.
ConfirmUnflushed(r) ==
  /\ req[r].step = "read"
  /\ req' = [req EXCEPT ![r].step = "written"]
  /\ UNCHANGED <<consumerVars, db, agreementVars, announced, confirmations, job>>

\* The flush of the status; refresh then reads the total of the locked row.
ConfirmWrite(r) ==
  /\ req[r].step = "read"
  /\ StatementFree(req[r].of)
  /\ req' = [req EXCEPT ![r].step = "written"]
  /\ UNCHANGED <<consumerVars, db, agreementVars, announced, confirmations, job>>

ConfirmSend(r) ==
  /\ req[r].step = "written"
  /\ confirmations' = [confirmations EXCEPT ![req[r].of] = Append(@, stmt[req[r].of].total)]
  /\ req' = [req EXCEPT ![r].step = "sent"]
  /\ UNCHANGED <<consumerVars, db, agreementVars, announced, job>>

\* get_db commits when the endpoint has returned.
ConfirmCommit(r) ==
  /\ req[r].step = "sent"
  /\ stmt' = [stmt EXCEPT ![req[r].of].status = "CONFIRMED"]
  /\ req' = [req EXCEPT ![r].step = "done"]
  /\ UNCHANGED <<consumerVars, ledger, processed, agreementVars, announced, confirmations, job>>

ConfirmFails(r) ==
  /\ "confirm" \in Faults
  /\ req[r].step \in {"read", "written", "sent"}
  /\ req' = [req EXCEPT ![r].step = "done"]
  /\ UNCHANGED <<consumerVars, db, agreementVars, announced, confirmations, job>>

\* External: an agreement is created, activated or ended in the rules service.
ChangeAgreement(a) ==
  /\ changes < MaxAgreementChanges
  /\ changes' = changes + 1
  /\ active' = IF a \in active THEN active \ {a} ELSE active \cup {a}
  /\ UNCHANGED <<consumerVars, db, announced, confirmations, job, req>>

-----------------------------------------------------------------------------
HandlerStep(w) ==
  \/ FetchAgreement(w) \/ NoAgreementFound(w)
  \/ SkipLine(w) \/ CreateEvent(w) \/ MarkProcessed(w) \/ PublishCalculated(w)
  \/ ReadStatement(w) \/ WriteStatement(w) \/ StatementExists(w) \/ CommitTx(w)
  \/ NothingToClawBack(w) \/ ClawbackRejected(w) \/ PayloadIgnored(w)

\* Steps of the consumer loop outside the handler.
OutsideHandler(w) ==
  /\ \/ \E p \in Partitions : Poll(w, p)
     \/ Commit(w) \/ CommitRaises(w) \/ RouteToDlq(w) \/ CommitSkipped(w)
  /\ UNCHANGED serviceVars

\* A crash loses the open transaction.
ServiceCrash(w) ==
  /\ Crash(w)
  /\ job' = [job EXCEPT ![w] = NoJob]
  /\ UNCHANGED <<db, agreementVars, announced, confirmations, req>>

ConfirmStep(r) == ConfirmWrite(r) \/ ConfirmSend(r) \/ ConfirmCommit(r)

Next ==
  \/ \E w \in Workers : \/ HandlerStep(w) \/ OutsideHandler(w) \/ TransientError(w)
                        \/ ServiceCrash(w)
                        \/ TaskDies(w) /\ UNCHANGED serviceVars
  \/ \E p \in Partitions, w \in Workers : Reassign(p, w) /\ UNCHANGED serviceVars
  \/ \E r \in Requests : \/ \E s \in Statements : ConfirmRead(r, s)
                         \/ ConfirmStep(r) \/ ConfirmFails(r)
  \/ \E a \in Agreements : ChangeAgreement(a)

Spec == Init /\ [][Next]_vars

(* Each consumer task goes on with what it is doing, and so does an API     *)
(* request that has been accepted; nothing makes an error, a crash, a new   *)
(* request or an agreement update happen.                                   *)
Fairness ==
  /\ \A w \in Workers : WF_vars(HandlerStep(w) \/ OutsideHandler(w))
  /\ \A r \in Requests : WF_vars(ConfirmStep(r))
FairSpec == Spec /\ Fairness

-----------------------------------------------------------------------------
(* Properties.                                                             *)

StatementRow == [status : {"NONE", "DRAFT", "CONFIRMED"}, total : Nat, lines : Nat]
JobState ==
  [step : {"idle", "lines", "created", "marked", "published", "read"},
   agr : Agreements \cup {NoAgreement}, line : Nat, row : Nat, marked : BOOLEAN,
   seen : StatementRow]
RequestState == [step : {"idle", "read", "written", "sent", "done"},
                 of : Statements \cup {NoStatement}]

CommissionTypeOK ==
  /\ ledger \in [Sales \X Agreements -> Seq(Nat)]
  /\ processed \subseteq Sales \X Agreements
  /\ stmt \in [Statements -> StatementRow]
  /\ active \subseteq Agreements
  /\ changes \in 0..MaxAgreementChanges
  /\ announced \subseteq Sales \X Nat \X Agreements
  /\ confirmations \in [Statements -> Seq(Nat)]
  /\ job \in [Workers -> JobState]
  /\ req \in [Requests -> RequestState]

\* The idempotency log and the commission rows agree: a pair is marked if and only
\* if it has been commissioned, whatever crashed, raised or ran concurrently in
\* between (create, mark_processed and commit of one transaction).
ProcessedIffCommissioned ==
  \A t \in Sales, a \in Agreements : <<t, a>> \in processed <=> ledger[<<t, a>>] # <<>>

\* A sale earns at most one commission row under an agreement, although its event
\* may be handled any number of times (is_processed, mark_processed).
CommissionedOnce ==
  \A t \in Sales, a \in Agreements : Len(ledger[<<t, a>>]) <= 1

\* No commission is in the ledger that was not announced (send before commit).
LedgerAnnounced ==
  \A t \in Sales, a \in Agreements : \A i \in 1..Len(ledger[<<t, a>>]) :
    <<t, ledger[<<t, a>>][i], a>> \in announced

\* Lines and amounts in the ledger for the sales of a statement.
Commissions(s) == {x \in Sales \X Agreements : StatementOf[x[1]] = s /\ ledger[x] # <<>>}
AmountOf(x) == SumFunction([i \in DOMAIN ledger[x] |-> Amount[<<x[2], x[1], ledger[x][i]>>]])
LedgerLines(s) == SumFunction([x \in Commissions(s) |-> Len(ledger[x])])
LedgerTotal(s) == SumFunction([x \in Commissions(s) |-> AmountOf(x)])

\* The running totals of a statement are those of its commission rows, although
\* they are read and written back in separate steps (add_commission_to_draft).
StatementReconciles ==
  \A s \in Statements : stmt[s].lines = LedgerLines(s) /\ stmt[s].total = LedgerTotal(s)

\* When nobody touches the agreements and the rules service answers, a sale whose
\* event is settled, was readable and earns something is commissioned or parked.
Earns(t, a) == \E k \in 1..LineCount[t] : Amount[<<a, t, k>>] # NoCommission
SettledSaleCommissioned ==
  \A p \in Partitions : \A i \in 1..committed[p] : \A a \in Agreements :
    /\ Log[p][i].type = "sale" /\ Log[p][i] \notin Unreadable
    /\ Candidates(Log[p][i].sale) = {a}
    /\ Earns(Log[p][i].sale, a)
    => Commissioned(Log[p][i].sale) \/ <<p, i>> \in dlq

\* Whoever confirms last, the last confirmed event carries the total the
\* statement has when it becomes CONFIRMED (confirm_statement).
ConfirmedAsAnnounced ==
  [][\A s \in Statements :
       stmt[s].status = "DRAFT" /\ stmt'[s].status = "CONFIRMED" =>
         /\ confirmations'[s] # <<>>
         /\ stmt'[s].total = confirmations'[s][Len(confirmations'[s])]]_vars

\* With a rules service that answers and agreements that stay as they are, a commission
\* that was announced gets into the ledger or its sale is parked, unless a consumer task
\* has died: the event sent before a failed commit is made good by the redelivery.  An
\* outage or a change of the agreement breaks this: the redelivery finds no agreement
\* and settles the sale (handle_sell_out_completed).
AnnouncedIsRecorded ==
  "outage" \notin Faults /\ MaxAgreementChanges = 0 =>
    \A t \in Sales, a \in Agreements :
      (\E k \in 1..LineCount[t] : <<t, k, a>> \in announced)
        ~> \/ ledger[<<t, a>>] # <<>>
           \/ \E x \in dlq : Log[x[1]][x[2]].sale = t
           \/ \E w \in Workers : task[w].phase = "dead"

=============================================================================
