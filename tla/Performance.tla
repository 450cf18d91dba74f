----------------------------- MODULE Performance -----------------------------
(***************************************************************************)
(* performance-service: each sell-out event adds the units and the revenue *)
(* of a sale to its dealer's measurements of the month, and compares them  *)
(* with the targets (consumer); finance names KPI specifications, sets and *)
(* patches targets and looks at dashboards (API).                          *)
(*                                                                         *)
(* The replicas run the consumer loop of KafkaConsumer.  A handler call is *)
(* one database transaction, whose statements are the steps below.  The    *)
(* database is PostgreSQL at READ COMMITTED (external): a select sees what *)
(* is committed, an update waits for whoever has updated the row.  Months  *)
(* are numbers; an event is told from others by its place in its log.      *)
(***************************************************************************)
EXTENDS KafkaConsumer, FiniteSets, Functions

CONSTANTS
  Dealers, Months,
  Specs,          \* performance_indicator_spec rows
  None,           \* no specification, no row
  OtherName,      \* any name that is not that of a KPI the consumer knows
  Targets,        \* performance_target rows that may be created
  TargetOf,       \* TargetOf[t]: what POST /performanceTarget is given
  TargetPatches,  \* what a patch may set of a target
  Dashboards,     \* requests for a dashboard
  NamedAtStart,   \* the names the specifications have been given before
  Namings         \* <<s, name>>: s may be given that name at any time

Kpis == {"units", "revenue"}
Names == Kpis \cup {OtherName}
TargetStatuses == {"ACTIVE", "ACHIEVED", "MISSED"}
TargetTerms == [dealer : Dealers, spec : Specs, goal : Nat, from : Months, to : Months]

\* performance_measurement rows.  Nothing but the look-up before the insert keeps two of
\* one dealer, specification and month apart; they differ in the replica that inserted
\* them, as each replica finds what it has inserted itself.
RowIds == [dealer : Dealers, spec : Specs, month : Months, by : Workers]

ASSUME PerformanceAssumption ==
  /\ IsFiniteSet(Partitions)
  /\ Months \subseteq Nat
  /\ Events \subseteq [dealer : Dealers, month : Months, amount : [Kpis -> Nat]]
  /\ None \notin Specs /\ None \notin RowIds
  /\ NamedAtStart \in [Specs -> Names]
  /\ Namings \subseteq Specs \X Names
  /\ OtherName \notin Kpis
  /\ TargetOf \in [Targets -> TargetTerms]
  /\ \A patch \in TargetPatches :
       /\ "goal" \in DOMAIN patch => patch["goal"] \in Nat
       /\ "from" \in DOMAIN patch => patch["from"] \in Months
       /\ "to" \in DOMAIN patch => patch["to"] \in Months
       /\ "status" \in DOMAIN patch => patch["status"] \in TargetStatuses

\* sell-out-service keys its events by dealer.
ASSUME SalesKeyedByDealer ==
  \A p, q \in Partitions : \A i \in 1..Len(Log[p]), j \in 1..Len(Log[q]) :
    Log[p][i].dealer = Log[q][j].dealer => p = q

VARIABLES
  named,      \* named[s]: the name of specification s; one that is yet to be created
              \*   is told from the others by its name alone
  rows,       \* rows[r]: the committed row r, NoRow before it is inserted
  target,     \* target[t]: the committed performance_target row, its status "NONE" before
  tx,         \* tx[w]: the open transaction of replica w's handler
  dash,       \* dash[d]: how far a dashboard request is, and what it read
  counted,    \* counted[<<x, k, s>>]: committed additions of event x as k under s
  unnamed,    \* <<x, k>>: a delivery of x committed while nothing was named k
  judged,     \* <<t, m>>: t was compared with the month m by a committed delivery
  edited,     \* targets that were patched
  crossed     \* two transactions with sales of one dealer were open at the same time

tables == <<named, rows, target>>
observed == <<counted, unnamed, judged, edited>>
performanceVars == <<tables, tx, dash, observed, crossed>>
measureVars == <<consumerVars, performanceVars>>

SaleEvents == UNION {{p} \X DOMAIN Log[p] : p \in Partitions}
SaleAt(x) == Log[x[1]][x[2]]
NoRow == [value |-> 0, sources |-> {}]
NoNews == [t \in Targets |-> "ACTIVE"]
NoTx == [step |-> "idle", spec |-> [k \in Kpis |-> None], todo |-> {}, row |-> None,
         seen |-> NoRow, new |-> [r \in RowIds |-> NoRow], sum |-> [k \in Kpis |-> 0],
         judging |-> {}, found |-> NoNews, sets |-> NoNews]
NotAsked == [step |-> "idle", shown |-> {}]

MeasureInit ==
  /\ ConsumerInit
  /\ named = NamedAtStart
  /\ rows = [r \in RowIds |-> NoRow]
  /\ target = [t \in Targets |-> [dealer |-> TargetOf[t].dealer, spec |-> TargetOf[t].spec,
                                   goal |-> TargetOf[t].goal, from |-> TargetOf[t].from,
                                   to |-> TargetOf[t].to, status |-> "NONE"]]
  /\ tx = [w \in Workers |-> NoTx]
  /\ dash = [d \in Dashboards |-> NotAsked]
  /\ counted = [x \in SaleEvents \X Kpis \X Specs |-> 0]
  /\ unnamed = {}
  /\ judged = {}
  /\ edited = {}
  /\ crossed = FALSE

-----------------------------------------------------------------------------
(* _handle_sell_out_event: the specifications, the measurements, then the  *)
(* targets of each measurement.                                            *)

Month(w) == EventOf(w).month
Stored == {r \in RowIds : rows[r].sources # {}}
RowsOf(dealer, s, m) == {r \in Stored : r.dealer = dealer /\ r.spec = s /\ r.month = m}
RowFree(w, r) == \A v \in Workers \ {w} : tx[v].new[r] = NoRow
TargetFree(w, t) == \A v \in Workers \ {w} : tx[v].sets[t] = "ACTIVE"

TxGoes(w, j) ==
  /\ tx' = [tx EXCEPT ![w] = j]
  /\ UNCHANGED <<consumerVars, tables, dash, observed, crossed>>

\* Units come before revenue.
FirstKpi(todo) == IF "units" \in todo THEN "units" ELSE "revenue"
Kpi(w) == FirstKpi(tx[w].todo)
SpecInTurn(w) == tx[w].spec[Kpi(w)]
Measured(spec) == {k \in Kpis : spec[k] # None}

\* The measurements still to be written, then the targets of each.
Measuring(j, todo) ==
  IF todo = {} THEN [j EXCEPT !.step = "check", !.todo = Measured(j.spec)]
  ELSE [j EXCEPT !.step = "measure", !.todo = todo]

\* list_all, and the specification each KPI name leads to: of several with the same
\* name it is the one the query lists last.
ResolveSpecs(w) ==
  /\ task[w].phase = "handling"
  /\ tx[w].step = "idle"
  /\ \E f \in [Kpis -> Specs \cup {None}] :
       /\ \A k \in Kpis : LET called == {s \in Specs : named[s] = k} IN
                            f[k] \in IF called = {} THEN {None} ELSE called
       /\ tx' = [tx EXCEPT ![w] = Measuring([NoTx EXCEPT !.spec = f], Measured(f))]
  /\ crossed' = (crossed \/ \E v \in Workers \ {w} : /\ tx[v] # NoTx
                                                    /\ EventOf(v).dealer = EventOf(w).dealer)
  /\ UNCHANGED <<consumerVars, tables, dash, observed>>

\* _get_by_party_spec_period: the only row, or the one to be inserted.
Matching(w) == RowsOf(EventOf(w).dealer, SpecInTurn(w), Month(w))
NewRow(w) == [dealer |-> EventOf(w).dealer, spec |-> SpecInTurn(w), month |-> Month(w), by |-> w]

ReadMeasurement(w) ==
  /\ tx[w].step = "measure"
  /\ \E r \in IF Matching(w) = {} THEN {NewRow(w)} ELSE Matching(w) :
       /\ Matching(w) \subseteq {r}
       /\ TxGoes(w, [tx[w] EXCEPT !.step = "write", !.row = r, !.seen = rows[r]])

\* scalar_one_or_none raises if there are two.
TwoRowsFound(w) ==
  /\ tx[w].step = "measure"
  /\ Cardinality(Matching(w)) > 1
  /\ HandlerRaises(w)
  /\ tx' = [tx EXCEPT ![w] = NoTx]
  /\ UNCHANGED <<tables, dash, observed, crossed>>

\* Mutant: the value of the event replaces what was measured.
Replaced(w) ==
  [value |-> EventOf(w).amount[Kpi(w)], sources |-> tx[w].seen.sources \cup {InHand(w)}]

\* The new value is computed from the row read; that the event is among its sources
\* already makes no difference.
Upserted(w) ==
  [value |-> tx[w].seen.value + EventOf(w).amount[Kpi(w)],
   sources |-> tx[w].seen.sources \cup {InHand(w)}]

TxWritten(w) ==
  [tx[w] EXCEPT !.row = None, !.seen = NoRow, !.new = [@ EXCEPT ![tx[w].row] = Upserted(w)],
                !.sum = [@ EXCEPT ![Kpi(w)] = Upserted(w).value]]

\* Mutant: each measurement is committed as it is written.
WriteAndCommit(w) ==
  /\ tx[w].step = "write"
  /\ RowFree(w, tx[w].row)
  /\ rows' = [rows EXCEPT ![tx[w].row] = Upserted(w)]
  /\ tx' = [tx EXCEPT ![w] = Measuring(TxWritten(w), tx[w].todo \ {Kpi(w)})]
  /\ UNCHANGED <<consumerVars, named, target, dash, observed, crossed>>

WriteMeasurement(w) ==
  /\ tx[w].step = "write"
  /\ RowFree(w, tx[w].row)
  /\ TxGoes(w, Measuring(TxWritten(w), tx[w].todo \ {Kpi(w)}))

\* get_active_for_party_and_spec.
ActiveTargets(w) ==
  {t \in Targets : /\ target[t].dealer = EventOf(w).dealer /\ target[t].spec = SpecInTurn(w)
                   /\ target[t].status = "ACTIVE"
                   /\ target[t].from <= Month(w) /\ target[t].to >= Month(w)}

\* What a target becomes; "ACTIVE" stands for no new status.
Evaluation(t, value, m) ==
  IF value >= target[t].goal THEN "ACHIEVED"
  ELSE IF m > target[t].to THEN "MISSED" ELSE "ACTIVE"

\* Mutant: the amount of the sale is compared with the goal instead of the sum.
AmountOfSale(w) == EventOf(w).amount[Kpi(w)]

ValueWritten(w) == tx[w].sum[Kpi(w)]

CheckTargets(w) ==
  /\ tx[w].step = "check" /\ tx[w].todo # {}
  /\ TxGoes(w, [tx[w] EXCEPT
       !.step = "set",
       !.found = [t \in Targets |-> IF t \in ActiveTargets(w)
                                    THEN Evaluation(t, ValueWritten(w), Month(w)) ELSE "ACTIVE"],
       !.judging = @ \cup {<<t, Month(w)>> : t \in ActiveTargets(w)}])

SetTargets(w) ==
  /\ tx[w].step = "set"
  /\ \A t \in Targets : tx[w].found[t] # "ACTIVE" => TargetFree(w, t)
  /\ TxGoes(w, [tx[w] EXCEPT
       !.step = "check", !.todo = @ \ {Kpi(w)}, !.found = NoNews,
       !.sets = [t \in Targets |-> IF tx[w].found[t] = "ACTIVE" THEN @[t] ELSE tx[w].found[t]]])

\* What the commit makes visible.
RowsAfter(w) == [r \in RowIds |-> IF tx[w].new[r] = NoRow THEN rows[r] ELSE tx[w].new[r]]
TargetsAfter(w) ==
  [t \in Targets |-> IF tx[w].sets[t] = "ACTIVE" THEN target[t]
                     ELSE [target[t] EXCEPT !.status = tx[w].sets[t]]]

\* session.commit(), which may raise although it succeeded.
CommitSale(w) ==
  /\ tx[w].step = "check" /\ tx[w].todo = {}
  /\ rows' = RowsAfter(w)
  /\ target' = TargetsAfter(w)
  /\ counted' = [x \in SaleEvents \X Kpis \X Specs |->
                   IF x[1] = InHand(w) /\ tx[w].spec[x[2]] = x[3] THEN counted[x] + 1
                   ELSE counted[x]]
  /\ unnamed' = unnamed \cup {<<InHand(w), k>> : k \in Kpis \ Measured(tx[w].spec)}
  /\ judged' = judged \cup tx[w].judging
  /\ tx' = [tx EXCEPT ![w] = NoTx]
  /\ HandlerReturns(w) \/ ("transient" \in Faults /\ HandlerRaises(w))
  /\ UNCHANGED <<named, dash, edited, crossed>>

\* Any statement may raise; the transaction rolls back.
StatementRaises(w) ==
  /\ "transient" \in Faults
  /\ tx[w] # NoTx
  /\ HandlerRaises(w)
  /\ tx' = [tx EXCEPT ![w] = NoTx]
  /\ UNCHANGED <<tables, dash, observed, crossed>>

-----------------------------------------------------------------------------
(* The API.                                                                *)

\* POST and PATCH /performanceIndicatorSpec: nothing keeps a name unique.
NameSpec(s, name) ==
  /\ named[s] # name
  /\ named' = [named EXCEPT ![s] = name]
  /\ UNCHANGED <<consumerVars, rows, target, tx, dash, observed, crossed>>

CreateTarget(t) ==
  /\ target[t].status = "NONE"
  /\ target' = [target EXCEPT ![t].status = "ACTIVE"]
  /\ UNCHANGED <<consumerVars, named, rows, tx, dash, observed, crossed>>

\* PATCH /performanceTarget/{id} sets the fields it is given.
Patched(row, patch) ==
  LET Given(f, old) == IF f \in DOMAIN patch THEN patch[f] ELSE old IN
  [row EXCEPT !.goal = Given("goal", @), !.from = Given("from", @), !.to = Given("to", @),
              !.status = Given("status", @)]

PatchTarget(t, patch) ==
  /\ target[t].status # "NONE"
  /\ \A w \in Workers : tx[w].sets[t] = "ACTIVE"
  /\ target' = [target EXCEPT ![t] = Patched(@, patch)]
  /\ edited' = edited \cup {t}
  /\ UNCHANGED <<consumerVars, named, rows, tx, dash, counted, unnamed, judged, crossed>>

\* GET /performanceDashboard: the measurements first ...
ReadMeasurements(d, dealer, m) ==
  /\ dash[d] = NotAsked
  /\ dash' = [dash EXCEPT ![d] = [step |-> "measured", shown |->
       {[row |-> r, value |-> rows[r].value] :
          r \in {q \in Stored : q.dealer = dealer /\ q.month = m}}]]
  /\ UNCHANGED <<consumerVars, tables, tx, observed, crossed>>

\* ... then the targets, whatever their status; the summary compares a measurement
\* with one of the targets of its specification, the one the query lists last.
TargetsFor(r) == {t \in Targets : /\ target[t].status # "NONE"
                                  /\ target[t].dealer = r.dealer /\ target[t].spec = r.spec
                                  /\ target[t].from <= r.month /\ target[t].to >= r.month}
CalledReached(x, t) ==
  /\ t \in TargetsFor(x.row)
  /\ target[t].goal # 0 /\ x.value >= target[t].goal

ReadTargets(d) ==
  /\ dash[d].step = "measured"
  /\ dash' = [dash EXCEPT ![d] = NotAsked]
  /\ UNCHANGED <<consumerVars, tables, tx, observed, crossed>>

-----------------------------------------------------------------------------
MeasureStep(w) ==
  \/ ResolveSpecs(w) \/ ReadMeasurement(w) \/ TwoRowsFound(w) \/ WriteMeasurement(w)
  \/ CheckTargets(w) \/ SetTargets(w) \/ CommitSale(w)

BetweenSales(w) ==
  /\ \/ \E p \in Partitions : Poll(w, p)
     \/ Commit(w) \/ CommitRaises(w) \/ RouteToDlq(w) \/ CommitSkipped(w)
  /\ UNCHANGED performanceVars

\* A crash loses the open transaction of the handler.
MeasureCrash(w) ==
  /\ Crash(w)
  /\ tx' = [tx EXCEPT ![w] = NoTx]
  /\ UNCHANGED <<tables, dash, observed, crossed>>

MeasureNext ==
  \/ \E w \in Workers : \/ MeasureStep(w) \/ BetweenSales(w) \/ StatementRaises(w)
                        \/ MeasureCrash(w)
                        \/ TaskDies(w) /\ UNCHANGED performanceVars
  \/ \E p \in Partitions, w \in Workers : Reassign(p, w) /\ UNCHANGED performanceVars
  \/ \E n \in Namings : NameSpec(n[1], n[2])
  \/ \E t \in Targets : CreateTarget(t) \/ \E patch \in TargetPatches : PatchTarget(t, patch)
  \/ \E d \in Dashboards : \/ \E dealer \in Dealers, m \in Months : ReadMeasurements(d, dealer, m)
                           \/ ReadTargets(d)

MeasureSpec == MeasureInit /\ [][MeasureNext]_measureVars

-----------------------------------------------------------------------------
(* Properties.  Nothing in the tables keeps two handler transactions of one  *)
(* dealer's sales apart: what follows is what the one owner of a partition   *)
(* gives, and is lost for good once an old owner is still at work.           *)

SalesOf(dealer, m) == {x \in SaleEvents : SaleAt(x).dealer = dealer /\ SaleAt(x).month = m}

\* What each sale has added under specification s.
AddedUnder(s) ==
  [x \in SaleEvents \X Kpis |-> counted[<<x[1], x[2], s>>] * SaleAt(x[1]).amount[x[2]]]

\* Each measurement is the sum of the sales that were added to it, each as often as
\* a delivery of it was committed, and names them as its sources, whatever was
\* rolled back, delivered again or renamed in between (upsert).
MeasuredIsSold ==
  ~crossed =>
    \A r \in Stored :
      /\ rows[r].value = SumFunctionOnSet(AddedUnder(r.spec), SalesOf(r.dealer, r.month) \X Kpis)
      /\ rows[r].sources = {x \in SalesOf(r.dealer, r.month) :
                              \E k \in Kpis : counted[<<x, k, r.spec>>] > 0}

\* A settled sale is among the sources of its dealer's measurements of its month, for
\* each KPI that a specification was named after when it was handled, or is parked:
\* no crash, retry or move of the partition loses it (_handle_sell_out_event).
SettledSaleMeasured ==
  ~crossed =>
    \A p \in Partitions : \A i \in 1..committed[p] :
      \/ <<p, i>> \in dlq
      \/ \A k \in Kpis :
           \/ <<<<p, i>>, k>> \in unnamed
           \/ \E s \in Specs : /\ counted[<<<<p, i>>, k, s>>] > 0
                            /\ \E r \in RowsOf(Log[p][i].dealer, s, Log[p][i].month) :
                                 <<p, i>> \in rows[r].sources

\* Until somebody patches it, a target is achieved exactly if the measurement of some
\* month it was compared with has reached its goal: it does not stay active when it was
\* reached, nor become achieved by anything else (_handle_sell_out_event).
StatusTellsTheMeasure ==
  ~crossed =>
    \A t \in Targets \ edited :
      target[t].status = "ACHIEVED" <=>
        \E m \in target[t].from..target[t].to :
          /\ <<t, m>> \in judged
          /\ \E r \in RowsOf(target[t].dealer, target[t].spec, m) :
               rows[r].value >= target[t].goal

\* A dashboard never calls a target reached that it shows as active, although its
\* month was compared with it before: measurements and statuses change in one
\* commit, and the measurements are read first (get_dashboard).
DashboardNotAhead ==
  [][\A d \in Dashboards :
       dash[d].step = "measured" /\ dash'[d] = NotAsked /\ ~crossed =>
         \A x \in dash[d].shown, t \in Targets \ edited :
           CalledReached(x, t) /\ <<t, x.row.month>> \in judged
           => target[t].status = "ACHIEVED"]_measureVars
=============================================================================
