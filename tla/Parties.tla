------------------------------- MODULE Parties -------------------------------
(***************************************************************************)
(* party-service: parties of one tenant are created and patched;           *)
(* GET /party/{id}/hierarchy walks from a party to its root, one select at *)
(* a time, while the parents change.  A party created as a dealer is       *)
(* announced, and audit-service writes what was announced to its log.      *)
(* What else a party has (its status, its names, its characteristics) no   *)
(* operation here reads, and it is left out.                               *)
(*                                                                         *)
(* PATCH takes any party for a parent: of the party itself, of one of its  *)
(* ancestors, of another tenant.  The rows are PostgreSQL's (external) at  *)
(* READ COMMITTED; a party is never deleted.  The producer tries a send    *)
(* again, so the topic may hold an event several times; the events of one  *)
(* party are one partition.                                                *)
(***************************************************************************)
EXTENDS Naturals, SequencesExt, FiniteSetsExt

CONSTANTS
  Parties,          \* ids of the tenant's parties
  NoParty,          \* the parent of a root
  Foreign,          \* a party of another tenant
  Requests,         \* POST /party: records of a party, its role and its parent
  Asked,            \* parties whose hierarchy is asked for, once at a time
  MaxDepth,         \* max_depth
  Workers,          \* replicas of audit-service, one consumer task each
  MaxCopies,        \* how often a send may put its event on the topic
  MaxRetries        \* MAX_RETRIES

Parents == Parties \cup {NoParty, Foreign}

ASSUME PartiesAssumption ==
  /\ NoParty \notin Parties /\ Foreign \notin Parties /\ NoParty # Foreign
  /\ Asked \subseteq Parties
  /\ Requests \subseteq [party : Parties, role : {"DEALER", "CUSTOMER"}, parent : Parents]
  /\ {MaxDepth, MaxCopies, MaxRetries} \subseteq Nat \ {0}

VARIABLES
  place,      \* place[p]: whether p is unused, inserted, announced, stored or gone
  parent,     \* parent[p]: its parent_id
  onboarded,  \* parties that were created as dealers
  walk,       \* walk[d]: how far request d is, and what it has found
  copies,     \* copies[p]: events on the topic that announce p
  settled,    \* settled[p]: how many of them audit-service is done with
  work,       \* work[w]: the event replica w has in hand
  audited,    \* audited[p]: audit_log rows of the event
  lost        \* parties an event of which was given up

partyVars == <<place, parent, onboarded>>
auditVars == <<settled, work, audited, lost>>
vars == <<partyVars, walk, copies, auditVars>>

NoWalk == [step |-> "idle", first |-> NoParty, at |-> NoParty, chain |-> <<>>, moved |-> FALSE]
NoWork == [party |-> NoParty, pos |-> 0, attempt |-> 0, step |-> "idle", fresh |-> FALSE]

Init ==
  /\ place = [p \in Parties |-> "unused"]
  /\ parent = [p \in Parties |-> NoParty]
  /\ onboarded = {}
  /\ walk = [d \in Asked |-> NoWalk]
  /\ copies = [p \in Parties |-> 0]
  /\ settled = [p \in Parties |-> 0]
  /\ work = [w \in Workers |-> NoWork]
  /\ audited = [p \in Parties |-> 0]
  /\ lost = {}

Stored == {p \in Parties : place[p] = "stored"}

-----------------------------------------------------------------------------
(* onboard_party: insert, announce a dealer, commit.                       *)

Insert(r) ==
  /\ place[r.party] = "unused"
  /\ r.parent \in Stored \cup {NoParty, Foreign}
  /\ place' = [place EXCEPT ![r.party] = "inserted"]
  /\ parent' = [parent EXCEPT ![r.party] = r.parent]
  /\ onboarded' = onboarded \cup {p \in {r.party} : r.role = "DEALER"}
  /\ UNCHANGED <<walk, copies, auditVars>>

Announce(p) ==
  /\ place[p] = "inserted" /\ p \in onboarded
  /\ \E n \in 1..MaxCopies : copies' = [copies EXCEPT ![p] = n]
  /\ place' = [place EXCEPT ![p] = "announced"]
  /\ UNCHANGED <<parent, onboarded, walk, auditVars>>

\* get_db commits after the handler.
CommitParty(p) ==
  /\ place[p] = IF p \in onboarded THEN "announced" ELSE "inserted"
  /\ place' = [place EXCEPT ![p] = "stored"]
  /\ UNCHANGED <<parent, onboarded, walk, copies, auditVars>>

\* The request fails; what was sent by then, or by the send that raised, stays sent.
CreationFails(p) ==
  /\ place[p] \in {"inserted", "announced"}
  /\ place' = [place EXCEPT ![p] = "gone"]
  /\ \/ UNCHANGED copies
     \/ /\ place[p] = "inserted" /\ p \in onboarded
        /\ \E n \in 1..MaxCopies : copies' = [copies EXCEPT ![p] = n]
  /\ UNCHANGED <<parent, onboarded, walk, auditVars>>

-----------------------------------------------------------------------------
(* PATCH /party/{id}: a parent can be replaced, but not taken away.        *)

PatchParty(p, q) ==
  /\ p \in Stored
  /\ q \in Stored \cup {Foreign}
  /\ parent' = [parent EXCEPT ![p] = q]
  /\ walk' = [d \in Asked |-> [walk[d] EXCEPT !.moved = @ \/ (walk[d].step # "idle" /\ q # parent[p])]]
  /\ UNCHANGED <<place, onboarded, copies, auditVars>>

-----------------------------------------------------------------------------
(* get_party_hierarchy and get_ancestors.                                  *)

\* The party itself is read first; its row stays in the session, so the loop, which
\* selects it again, goes on with the parent it had then.
WalkBegins(d) ==
  /\ walk[d].step # "walking"
  /\ d \in Stored
  /\ walk' = [walk EXCEPT ![d] = [step |-> "walking", first |-> parent[d], at |-> d,
                                  chain |-> <<>>, moved |-> FALSE]]
  /\ UNCHANGED <<partyVars, copies, auditVars>>

ParentSeen(v) == IF v.chain = <<>> THEN v.first ELSE parent[v.at]
Extended(v) == [v EXCEPT !.chain = Append(@, v.at), !.at = ParentSeen(v)]
Answered(v) == [v EXCEPT !.step = "done", !.chain = Reverse(@), !.at = NoParty]
Found(v) == v.at \in Parties
Seen(v) == v.at \in ToSet(v.chain)

\* Mutants: `<=` for `<` in the comparison with max_depth; no cycle guard; a party that
\* was seen is passed over.
AdvanceDeeper(v) ==
  IF Found(v) /\ Len(v.chain) <= MaxDepth /\ ~Seen(v) THEN Extended(v) ELSE Answered(v)
AdvanceUnguarded(v) ==
  IF Found(v) /\ Len(v.chain) < MaxDepth THEN Extended(v) ELSE Answered(v)
AdvancePastSeen(v) ==
  IF Found(v) /\ Len(v.chain) < MaxDepth
  THEN IF Seen(v) THEN [v EXCEPT !.at = ParentSeen(v)] ELSE Extended(v)
  ELSE Answered(v)

\* One turn of the loop: it ends at a root, at a party the tenant does not have, at one
\* it has seen, or after MaxDepth parties.
Advance(v) ==
  IF Found(v) /\ Len(v.chain) < MaxDepth /\ ~Seen(v) THEN Extended(v) ELSE Answered(v)

WalkStep(d) ==
  /\ walk[d].step = "walking"
  /\ walk' = [walk EXCEPT ![d] = Advance(@)]
  /\ UNCHANGED <<partyVars, copies, auditVars>>

-----------------------------------------------------------------------------
(* audit-service.  A partition may have moved while its old owner still has *)
(* the event in hand.                                                      *)

Fetch(w, p) ==
  /\ work[w] = NoWork
  /\ settled[p] < copies[p]
  /\ work' = [work EXCEPT ![w] = [NoWork EXCEPT !.party = p, !.pos = settled[p] + 1, !.step = "handling"]]
  /\ UNCHANGED <<partyVars, walk, copies, settled, audited, lost>>

\* Mutant: the insert has no ON CONFLICT, and the table no constraint.
InsertEach(w) ==
  /\ work[w].step = "handling"
  /\ work' = [work EXCEPT ![w].step = "inserted", ![w].fresh = TRUE]
  /\ UNCHANGED <<partyVars, walk, copies, settled, audited, lost>>

\* INSERT ... ON CONFLICT DO NOTHING waits for whoever is inserting the same event.
InsertAudit(w) ==
  /\ work[w].step = "handling"
  /\ \A v \in Workers \ {w} : ~(work[v].party = work[w].party /\ work[v].fresh)
  /\ work' = [work EXCEPT ![w].step = "inserted", ![w].fresh = audited[work[w].party] = 0]
  /\ UNCHANGED <<partyVars, walk, copies, settled, audited, lost>>

Retried(t) == [t EXCEPT !.attempt = @ + 1, !.fresh = FALSE,
                        !.step = IF t.attempt + 1 < MaxRetries THEN "handling" ELSE "skipping"]

\* session.commit(), which may raise although it succeeded.
CommitAudit(w) ==
  /\ work[w].step = "inserted"
  /\ audited' = [audited EXCEPT ![work[w].party] = IF work[w].fresh THEN @ + 1 ELSE @]
  /\ \/ work' = [work EXCEPT ![w].step = "committing", ![w].fresh = FALSE]
     \/ work' = [work EXCEPT ![w] = Retried(@)]
  /\ UNCHANGED <<partyVars, walk, copies, settled, lost>>

HandlerRaises(w) ==
  /\ work[w].step \in {"handling", "inserted"}
  /\ work' = [work EXCEPT ![w] = Retried(@)]
  /\ UNCHANGED <<partyVars, walk, copies, settled, audited, lost>>

\* consume() has no dlq_producer: after the last attempt the event is stepped over.
CommitOffset(w) ==
  /\ work[w].step \in {"committing", "skipping"}
  /\ settled' = [settled EXCEPT ![work[w].party] = Max({@, work[w].pos})]
  /\ lost' = lost \cup {p \in {work[w].party} : work[w].step = "skipping"}
  /\ work' = [work EXCEPT ![w] = NoWork]
  /\ UNCHANGED <<partyVars, walk, copies, audited>>

\* A replica stops, and its transaction with it.
Crash(w) ==
  /\ work[w] # NoWork
  /\ work' = [work EXCEPT ![w] = NoWork]
  /\ UNCHANGED <<partyVars, walk, copies, settled, audited, lost>>

-----------------------------------------------------------------------------
\* The endpoints of party-service.
CreateParty == \E r \in Requests : Insert(r)
UpdateParty == \E p \in Parties, q \in Parties \cup {Foreign} : PatchParty(p, q)
GetHierarchy == \E d \in Asked : WalkBegins(d)

Next ==
  \/ CreateParty \/ UpdateParty \/ GetHierarchy
  \/ \E p \in Parties : Announce(p) \/ CommitParty(p) \/ CreationFails(p)
  \/ \E d \in Asked : WalkStep(d)
  \/ \E w \in Workers :
       \/ \E p \in Parties : Fetch(w, p)
       \/ InsertAudit(w) \/ CommitAudit(w) \/ HandlerRaises(w) \/ CommitOffset(w) \/ Crash(w)

(* A request for a hierarchy goes on until it is answered.                 *)
Spec == Init /\ [][Next]_vars /\ \A d \in Asked : WF_vars(WalkStep(d))

-----------------------------------------------------------------------------
(* Properties.                                                             *)

\* Parties, walks and the audit log keep their types, and only a stored party, or one of
\* another tenant, is ever a parent (PartyRepository, AuditLogRepository).
WalkRecord == [step : {"idle", "walking", "done"}, first : Parents, at : Parents,
               chain : Seq(Parties), moved : BOOLEAN]
WorkRecord == [party : Parties \cup {NoParty}, pos : Nat, attempt : Nat,
               step : {"idle", "handling", "inserted", "committing", "skipping"}, fresh : BOOLEAN]
PartiesTypeOK ==
  /\ place \in [Parties -> {"unused", "inserted", "announced", "stored", "gone"}]
  /\ parent \in [Parties -> Stored \cup {NoParty, Foreign}]
  /\ onboarded \subseteq Parties /\ lost \subseteq Parties
  /\ walk \in [Asked -> WalkRecord]
  /\ copies \in [Parties -> Nat] /\ settled \in [Parties -> Nat] /\ audited \in [Parties -> Nat]
  /\ work \in [Workers -> WorkRecord]
  /\ \A w \in Workers : work[w].step # "idle" => work[w].party \in Parties

\* Root first, each the parent of the next; it starts at a root, at a party whose
\* parent belongs to another tenant or is in the list, or MaxDepth above its end.
IsLineage(list, p) ==
  /\ Len(list) \in 1..MaxDepth /\ list[Len(list)] = p
  /\ \A i \in 1..Len(list)-1 : parent[list[i+1]] = list[i]
  /\ \/ parent[list[1]] \notin Parties \ ToSet(list)
     \/ Len(list) = MaxDepth

\* While no parent changes, the hierarchy is the lineage of the party, whatever cycles
\* and foreign parents patches have left in the table (get_ancestors).
WalkIsLineage ==
  \A d \in Asked : walk[d].step = "done" /\ ~walk[d].moved => IsLineage(walk[d].chain, d)

\* However the parents change under the walk, the answer ends with the party that was
\* asked for, names nobody twice, nobody of another tenant, and MaxDepth at most.
WalkNeverRepeats ==
  \A d \in Asked : walk[d].step = "done" =>
    LET list == walk[d].chain IN
    /\ Len(list) \in 1..MaxDepth /\ list[Len(list)] = d
    /\ ToSet(list) \subseteq Stored
    /\ Cardinality(ToSet(list)) = Len(list)

\* A walk ends, though the parents may change for ever.
WalkEnds == \A d \in Asked : []<>(walk[d].step # "walking")

\* A party that POST stored as a dealer was announced, and once audit-service is done
\* with it, is in the audit log exactly once, however often the event was sent or
\* handled, unless an event of it was given up (onboard_party, handle_any_event).
OnboardingAudited ==
  \A p \in Stored \cap onboarded :
    /\ copies[p] > 0
    /\ settled[p] > 0 /\ p \notin lost => audited[p] = 1
    /\ audited[p] <= 1
=============================================================================
