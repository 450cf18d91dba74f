--------------------------- MODULE CommissionRules ---------------------------
(***************************************************************************)
(* commission-rules-service and the pure rule engine its answers are fed   *)
(* to (commission-calculation-service/app/domain/rule_evaluator.py).       *)
(*                                                                         *)
(* Finance keeps agreements and rules over the API; each of those requests *)
(* is one statement and its commit.  The commission service asks for the   *)
(* active agreement of a dealer, which takes two statements at READ        *)
(* COMMITTED, and prices its sale lines from the answer later: changes may *)
(* come between any two of the three.  Agreement specs are names here, as  *)
(* nothing that answers or prices reads their rows.                        *)
(*                                                                         *)
(* Values are in hundredths of the currency per unit, percentages in whole *)
(* percent and prices in whole currency: every amount below is an exact    *)
(* number of hundredths, and rounding it to two decimals changes nothing.  *)
(***************************************************************************)
EXTENDS FiniteSets, Functions

CONSTANTS
  Specs,         \* agreement specs
  Parties,       \* dealers
  Categories,    \* what a line's product may be called, as far as rules tell
  Channels,      \* sales channels
  Rules,         \* rules that may be created; there is no request to change one
  RuleOf,        \* RuleOf[r]: what rule r says
  AnyCategory,   \* product_category "*"
  AnyChannel,    \* channel_type None
  NoLimit,       \* tier_max_qty None
  Lines,         \* sale lines to be priced
  Asks,          \* requests for the active agreement, each to price one line
  NoLine, NoSpec,\* the line and the spec of an ask that has none yet
  MaxPatches,    \* bound on the changes of an agreement's status
  MaxDeletes     \* bound on the deleted rules

RuleType == [spec : Specs, category : Categories \cup {AnyCategory},
             channel : Channels \cup {AnyChannel},
             min : Nat, max : Nat \cup {NoLimit},
             type : {"FLAT_AMOUNT", "PERCENTAGE", "TIERED"}, value : Nat, priority : Int]

ASSUME RulesAssumption ==
  /\ RuleOf \in [Rules -> RuleType]
  /\ NoLimit \notin Nat
  /\ Lines \subseteq [dealer : Parties, product : Categories, channel : Channels,
                      quantity : Nat, price : Nat]
  /\ NoLine \notin Lines /\ NoSpec \notin Specs
  /\ MaxPatches \in Nat /\ MaxDeletes \in Nat

VARIABLES
  agreements,   \* agreements[<<p, s>>]: status of the one row for a dealer and spec
  rules,        \* the rules that exist
  gone,         \* the rules that were deleted
  patches,      \* number of status changes
  ask           \* ask[q]: the progress of a request and of the pricing it is for

rulesVars == <<agreements, rules, gone, patches, ask>>

Statuses == {"ACTIVE", "SUSPENDED", "EXPIRED"}
NotAsked == [step |-> "idle", line |-> NoLine, spec |-> NoSpec, rules |-> {},
             used |-> {}, dead |-> {}]

RulesInit ==
  /\ agreements = [x \in Parties \X Specs |-> "NONE"]
  /\ rules = {}
  /\ gone = {}
  /\ patches = 0
  /\ ask = [q \in Asks |-> NotAsked]

-----------------------------------------------------------------------------
(* The rule engine: pure functions of a set of rules and a line.           *)

Covers(r, l) ==
  /\ RuleOf[r].category \in {AnyCategory, l.product}
  /\ RuleOf[r].channel \in {AnyChannel, l.channel}

WithinTier(r, n) ==
  /\ RuleOf[r].min <= n
  /\ RuleOf[r].max = NoLimit \/ n <= RuleOf[r].max

Matching(rs, l) == {r \in rs : Covers(r, l) /\ WithinTier(r, l.quantity)}

\* Mutant: the largest priority number wins.
LargestNumber(rs, l) ==
  LET matching == Matching(rs, l) IN
  {r \in matching : \A o \in matching : RuleOf[r].priority >= RuleOf[o].priority}

\* find_applicable_rule: the smallest priority number wins.  Rules with the same
\* number come in the order the database lists them, which is open.
Applicable(rs, l) ==
  LET matching == Matching(rs, l) IN
  {r \in matching : \A o \in matching : RuleOf[r].priority <= RuleOf[o].priority}

\* Mutant: the last unit of a band is not counted.
UnitsBelowTop(b, n) ==
  (IF RuleOf[b].max # NoLimit /\ RuleOf[b].max < n THEN RuleOf[b].max ELSE n) - RuleOf[b].min

\* How many of n units fall into band b, of which at least the first does.
UnitsInBand(b, n) ==
  (IF RuleOf[b].max # NoLimit /\ RuleOf[b].max < n THEN RuleOf[b].max ELSE n)
  - RuleOf[b].min + 1

Bands(rs, l) == {b \in rs : RuleOf[b].type = "TIERED" /\ Covers(b, l)}

\* calculate_tiered_commission: every band reached pays for the units within it.
Reached(rs, l) == {b \in Bands(rs, l) : RuleOf[b].min <= l.quantity}
TieredCommission(rs, l) ==
  SumFunction([b \in Reached(rs, l) |-> RuleOf[b].value * UnitsInBand(b, l.quantity)])

\* The amount once r has been found: calculate_commission, or the tiered one.
CommissionBy(r, rs, l) ==
  CASE RuleOf[r].type = "FLAT_AMOUNT" -> RuleOf[r].value * l.quantity
    [] RuleOf[r].type = "PERCENTAGE"  -> l.price * l.quantity * RuleOf[r].value
    [] RuleOf[r].type = "TIERED"      -> TieredCommission(rs, l)

-----------------------------------------------------------------------------
(* Finance.                                                                *)

\* A second agreement of a dealer with the same spec violates the unique key.
\* Neither the spec nor other active agreements of the dealer are looked at.
CreateAgreement(p, s) ==
  /\ agreements[<<p, s>>] = "NONE"
  /\ agreements' = [agreements EXCEPT ![<<p, s>>] = "ACTIVE"]
  /\ UNCHANGED <<rules, gone, patches, ask>>

\* AgreementUpdate takes an AgreementStatus.
Accepted == Statuses

\* Any status may follow any other.
UpdateAgreement(p, s) ==
  /\ agreements[<<p, s>>] # "NONE"
  /\ patches < MaxPatches
  /\ \E status \in Accepted : agreements' = [agreements EXCEPT ![<<p, s>>] = status]
  /\ patches' = patches + 1
  /\ UNCHANGED <<rules, gone, ask>>

CreateRule(r) ==
  /\ r \notin rules \cup gone
  /\ rules' = rules \cup {r}
  /\ UNCHANGED <<agreements, gone, patches, ask>>

\* A soft delete.  Deleting a rule that does not exist is a success and no step.
DeleteRule(r) ==
  /\ r \in rules
  /\ Cardinality(gone) < MaxDeletes
  /\ rules' = rules \ {r}
  /\ gone' = gone \cup {r}
  /\ UNCHANGED <<agreements, patches, ask>>

-----------------------------------------------------------------------------
(* The commission service asks, and prices a line with what it was told.   *)

ActiveSpecs(p) == {s \in Specs : agreements[<<p, s>>] = "ACTIVE"}

\* get_active_for_party: one row, or 404 for none and an error for several; the
\* asking side takes either for "no agreement".  `dead` is history.
FindAgreement(q) ==
  /\ ask[q].step = "idle"
  /\ \E l \in Lines :
       LET active == ActiveSpecs(l.dealer) IN
       \/ \E s \in active :
            /\ active = {s}
            /\ ask' = [ask EXCEPT ![q] = [NotAsked EXCEPT !.step = "found", !.line = l,
                                                          !.spec = s, !.dead = gone]]
       \/ /\ \A s \in active : active # {s}
          /\ ask' = [ask EXCEPT ![q] = [NotAsked EXCEPT !.step = "refused", !.line = l]]
  /\ UNCHANGED <<agreements, rules, gone, patches>>

RulesOfSpec(rs, s) == {r \in rs : RuleOf[r].spec = s}

\* Mutant: deleted rules are listed as well.
ListWithDeleted(s) == RulesOfSpec(rules \cup gone, s)

ListForSpec(s) == RulesOfSpec(rules, s)

AnswerRules(q) ==
  /\ ask[q].step = "found"
  /\ ask' = [ask EXCEPT ![q] = [@ EXCEPT !.step = "answered",
                                              !.rules = ListForSpec(ask[q].spec)]]
  /\ UNCHANGED <<agreements, rules, gone, patches>>

\* The lines of handle_sell_out_completed between the answer and the insert; the
\* amount inserted is CommissionBy the rule used, the answer's rules and the line.
PriceLine(q) ==
  /\ ask[q].step = "answered"
  /\ LET found == Applicable(ask[q].rules, ask[q].line) IN
     \/ /\ found = {}
        /\ ask' = [ask EXCEPT ![q] = [@ EXCEPT !.step = "unpriced"]]
     \/ \E r \in found :
          ask' = [ask EXCEPT ![q] = [@ EXCEPT !.step = "priced", !.used = {r}]]
  /\ UNCHANGED <<agreements, rules, gone, patches>>

RulesNext ==
  \/ \E p \in Parties, s \in Specs : CreateAgreement(p, s) \/ UpdateAgreement(p, s)
  \/ \E r \in Rules : CreateRule(r) \/ DeleteRule(r)
  \/ \E q \in Asks : FindAgreement(q) \/ AnswerRules(q) \/ PriceLine(q)

RulesSpec == RulesInit /\ [][RulesNext]_rulesVars

-----------------------------------------------------------------------------
(* Properties.                                                             *)

AskType == [step : {"idle", "refused", "found", "answered", "unpriced", "priced"},
            line : Lines \cup {NoLine}, spec : Specs \cup {NoSpec},
            rules : SUBSET Rules, used : SUBSET Rules, dead : SUBSET Rules]

RulesTypeOK ==
  /\ agreements \in [Parties \X Specs -> Statuses \cup {"NONE"}]
  /\ rules \subseteq Rules
  /\ gone \subseteq Rules
  /\ patches \in 0..MaxPatches
  /\ ask \in [Asks -> AskType]

\* A band does not end before it starts.
ProperBand(b) == RuleOf[b].max = NoLimit \/ RuleOf[b].max >= RuleOf[b].min

\* What the u-th unit of a line earns when rule r was found.
UnitRate(r, rs, l, u) ==
  CASE RuleOf[r].type = "FLAT_AMOUNT" -> RuleOf[r].value
    [] RuleOf[r].type = "PERCENTAGE"  -> l.price * RuleOf[r].value
    [] RuleOf[r].type = "TIERED" ->
         SumFunction([b \in {b \in Bands(rs, l) : WithinTier(b, u)} |-> RuleOf[b].value])

\* The positions that are paid for: the units, and for bands position 0 as well.
Counted(r, l) == IF RuleOf[r].type = "TIERED" THEN 0..l.quantity ELSE 1..l.quantity

Priced(q) ==
  ask[q].step = "priced" /\ \A b \in Bands(ask[q].rules, ask[q].line) : ProperBand(b)

\* The amount of a priced line is what one gets by going through its units and
\* adding up what each of them earns: bands are progressive, and what wildcard and
\* specific bands, gaps between them and the edges of a band contribute is exact.
\* Of a band that starts at 0, the default of tier_min_qty, the code pays one unit
\* more than its docstring says: position 0, and nothing else, comes on top of the
\* units.  Bands that end before they start, which the API accepts, are left out.
PaidUnitByUnit ==
  \A q \in Asks : Priced(q) =>
    \A r \in ask[q].used :
      CommissionBy(r, ask[q].rules, ask[q].line) =
        SumFunction([u \in Counted(r, ask[q].line) |->
                       UnitRate(r, ask[q].rules, ask[q].line, u)])

\* A rule that was deleted before the agreement was asked for prices nothing that
\* the answer is used for, however late it is used.
DeletedRuleNeverPays == \A q \in Asks : ask[q].used \cap ask[q].dead = {}

\* What finance does changes the rule that prices a line only if it adds a rule
\* for the line with no larger priority number than the one that priced it so
\* far, or deletes that one: rules of less priority, other tiers, channels,
\* categories and specs can be edited without touching it.
PricedBy(rs, s, l) == Applicable(RulesOfSpec(rs, s), l)
OnlyBetterRulesReprice ==
  [][\A s \in Specs, l \in Lines :
       LET before == PricedBy(rules, s, l) IN
       PricedBy(rules', s, l) # before =>
         \/ \E r \in Matching(RulesOfSpec(rules' \ rules, s), l) :
              \A w \in before : RuleOf[r].priority <= RuleOf[w].priority
         \/ \E w \in before : w \notin rules']_rules
=============================================================================
