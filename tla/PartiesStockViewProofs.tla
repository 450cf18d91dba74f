------------------------ MODULE PartiesStockViewProofs ------------------------
(***************************************************************************)
(* Proofs about the services that only read and tell: party-service and     *)
(* audit-service (Parties), for any number of parties, requests, walks,     *)
(* replicas and attempts, and the stock view (StockView), for any number of *)
(* locations, rows, requests, replicas, retries and crashes.                *)
(*                                                                         *)
(* Parties: the two services share only the topic, and so the invariant has *)
(* two halves that do not mention each other: what a walk has found so far, *)
(* and what audit-service owes for an event it has in hand.                 *)
(*                                                                         *)
(* StockView: one half says what the events of the log tell of what a       *)
(* location holds or is about to hold once the open requests commit, the    *)
(* other that what the view shows, with what is still to be written to it,  *)
(* is that.                                                                 *)
(***************************************************************************)
EXTENDS Parties, StockView, Sums

Beyond == {NoParty, Foreign}

NoRepeat(list) == \A i, j \in 1..Len(list) : list[i] = list[j] => i = j

\* What a request has found on its way up: while no parent moved, the chain of parents.
Climbing(v, d) ==
  /\ v.chain \in Seq(Stored) /\ NoRepeat(v.chain) /\ Len(v.chain) <= MaxDepth
  /\ v.at \in Stored \cup Beyond /\ v.first \in Stored \cup Beyond
  /\ v.chain = <<>> => v.at = d
  /\ v.chain # <<>> => v.chain[1] = d
  /\ ~v.moved => /\ v.first = parent[d]
                 /\ \A i \in 1..Len(v.chain)-1 : parent[v.chain[i]] = v.chain[i+1]
                 /\ v.chain # <<>> => v.at = parent[v.chain[Len(v.chain)]]

\* What it answered.
AnswerOK(v, d) ==
  /\ v.chain \in Seq(Stored) /\ NoRepeat(v.chain)
  /\ Len(v.chain) \in 1..MaxDepth /\ v.chain[Len(v.chain)] = d
  /\ ~v.moved => IsLineage(v.chain, d)

WalkOK(d) ==
  /\ walk[d].step = "walking" => d \in Stored /\ Climbing(walk[d], d)
  /\ walk[d].step = "done" => d \in Stored /\ AnswerOK(walk[d], d)

WalksOK == \A d \in Asked : WalkOK(d)

\* An insert that is not committed is the only one of its party, and its row is not in
\* the log; every other insert found the row there.
AuditOK ==
  /\ \A p \in Parties : audited[p] <= 1 /\ (settled[p] > 0 => p \in lost \/ audited[p] = 1)
  /\ \A w \in Workers : work[w].step # "idle" =>
       LET p == work[w].party IN
       /\ work[w].pos > 0
       /\ work[w].fresh => work[w].step = "inserted" /\ audited[p] = 0
       /\ work[w].step = "inserted" /\ ~work[w].fresh => audited[p] = 1
       /\ work[w].step = "committing" => audited[p] = 1
  /\ \A w, v \in Workers : w # v /\ work[w].fresh /\ work[v].fresh => work[w].party # work[v].party
  /\ \A w \in Workers : work[w].fresh => work[w].step # "idle"

\* A dealer is announced before it is stored.
AnnouncedOK ==
  \A p \in Parties : place[p] = "announced" \/ (place[p] = "stored" /\ p \in onboarded) => copies[p] > 0

PartiesInv == PartiesTypeOK /\ WalksOK /\ AuditOK /\ AnnouncedOK

-----------------------------------------------------------------------------
(* Facts about the operators.                                              *)

\* The larger of two numbers.
LEMMA MaxOfTwo == ASSUME NEW m \in Int, NEW n \in Int
                  PROVE  Max({m, n}) \in {m, n} /\ Max({m, n}) >= m /\ Max({m, n}) >= n
  <1>1. \E x \in {m, n} : \A y \in {m, n} : x >= y
    OBVIOUS
  <1>2. QED
    BY <1>1 DEF Max

\* A list without repetition has as many members as positions.
LEMMA MembersOfList ==
  ASSUME NEW S, NEW list \in Seq(S), NoRepeat(list)
  PROVE  ToSet(list) \subseteq S /\ Cardinality(ToSet(list)) = Len(list)
  <1>1. list \in Bijection(1..Len(list), ToSet(list))
    BY DEF ToSet, NoRepeat, Bijection, Injection, Surjection, IsInjective
  <1> PICK n \in Nat : Len(list) = n
    OBVIOUS
  <1>2. IsFiniteSet(1..n) /\ Cardinality(1..n) = n
    <2>1. IsFiniteSet(1..n) /\ Cardinality(1..n) = IF 1 > n THEN 0 ELSE n - 1 + 1
      BY FS_Interval
    <2>2. QED
      BY <2>1
  <1>3. Cardinality(ToSet(list)) = Cardinality(1..Len(list))
    BY <1>1, <1>2, FS_Bijection DEF ExistsBijection
  <1>4. QED
    BY <1>2, <1>3 DEF ToSet

\* A list read backwards.
LEMMA ReverseList ==
  ASSUME NEW S, NEW list \in Seq(S)
  PROVE  /\ Reverse(list) \in Seq(S) /\ Len(Reverse(list)) = Len(list)
         /\ \A i \in 1..Len(list) : Reverse(list)[i] = list[Len(list) - i + 1]
         /\ NoRepeat(list) => NoRepeat(Reverse(list))
         /\ ToSet(Reverse(list)) = ToSet(list)
  <1> PICK n \in Nat : Len(list) = n
    OBVIOUS
  <1>1. /\ Reverse(list) \in Seq(S) /\ Len(Reverse(list)) = Len(list)
        /\ \A i \in 1..Len(list) : Reverse(list)[i] = list[Len(list) - i + 1]
    BY DEF Reverse
  <1>2. NoRepeat(list) => NoRepeat(Reverse(list))
    <2> SUFFICES ASSUME NoRepeat(list), NEW i \in 1..n, NEW j \in 1..n, list[n - i + 1] = list[n - j + 1]
                 PROVE  i = j
      BY <1>1 DEF NoRepeat
    <2>1. n - i + 1 \in 1..n /\ n - j + 1 \in 1..n
      OBVIOUS
    <2>2. n - i + 1 = n - j + 1
      BY <2>1 DEF NoRepeat
    <2>3. QED
      BY <2>2
  <1>3. ASSUME NEW i \in 1..n PROVE \E j \in 1..n : list[i] = Reverse(list)[j]
    <2>1. n - i + 1 \in 1..n /\ n - (n - i + 1) + 1 = i
      OBVIOUS
    <2>2. QED
      BY <1>1, <2>1
  <1>4. QED
    <2>1. ASSUME NEW j \in 1..n PROVE \E i \in 1..n : Reverse(list)[j] = list[i]
      BY <1>1
    <2>2. DOMAIN list = 1..n /\ DOMAIN Reverse(list) = 1..n
      BY <1>1
    <2>3. ToSet(list) = {list[i] : i \in 1..n} /\ ToSet(Reverse(list)) = {Reverse(list)[i] : i \in 1..n}
      BY <2>2, Zenon DEF ToSet
    <2>4. ASSUME NEW x PROVE x \in ToSet(list) <=> x \in ToSet(Reverse(list))
      <3>1. ASSUME x \in ToSet(list) PROVE x \in ToSet(Reverse(list))
        <4>1. PICK i \in 1..n : x = list[i]
          BY <3>1, <2>3
        <4>2. QED
          BY <4>1, <1>3, <2>3
      <3>2. ASSUME x \in ToSet(Reverse(list)) PROVE x \in ToSet(list)
        <4>1. PICK j \in 1..n : x = Reverse(list)[j]
          BY <3>2, <2>3
        <4>2. QED
          BY <4>1, <2>1, <2>3
      <3>3. QED
        BY <3>1, <3>2
    <2>5. ToSet(Reverse(list)) = ToSet(list)
      BY <2>4, Zenon
    <2>6. QED
      BY <1>1, <1>2, <2>5

-----------------------------------------------------------------------------
(* The walk.                                                               *)

\* A turn that finds a party it has not seen goes one up: to the parent that party has.
LEMMA OneMore ==
  ASSUME PartiesTypeOK, NEW d \in Stored, NEW v \in WalkRecord, Climbing(v, d),
         Found(v), Len(v.chain) < MaxDepth, ~Seen(v)
  PROVE  Climbing(Extended(v), d) /\ Extended(v) \in WalkRecord /\ Extended(v).step = v.step
  <1> DEFINE u == Extended(v)
             c == v.chain
  <1>1. PICK n \in Nat : Len(c) = n
    BY DEF WalkRecord
  <1>2. /\ v.at \in Stored /\ c \in Seq(Stored) /\ c \in Seq(Parties) /\ MaxDepth \in Nat
        /\ \A i \in 1..n : c[i] \in Stored /\ c[i] # v.at
    <2>1. v.at \in Stored /\ c \in Seq(Stored) /\ c \in Seq(Parties) /\ MaxDepth \in Nat
      BY PartiesAssumption DEF Found, Climbing, Beyond, WalkRecord
    <2>2. DOMAIN c = 1..n
      BY <1>1, <2>1
    <2>3. QED
      BY <2>1, <2>2, <1>1 DEF Seen, ToSet
  <1>3. /\ u.chain = Append(c, v.at) /\ u.at = ParentSeen(v) /\ u.first = v.first
        /\ u.moved = v.moved /\ u.step = v.step
    BY DEF Extended, WalkRecord
  <1>4. /\ u.chain \in Seq(Stored) /\ Len(u.chain) = n + 1 /\ u.chain[n+1] = v.at
        /\ \A i \in 1..n : u.chain[i] = c[i]
    BY <1>1, <1>2, <1>3
  <1>5. ParentSeen(v) \in Stored \cup Beyond
    BY <1>2 DEF ParentSeen, Climbing, PartiesTypeOK, Beyond, Stored
  <1>6. NoRepeat(u.chain)
    <2> SUFFICES ASSUME NEW i \in 1..n+1, NEW j \in 1..n+1, u.chain[i] = u.chain[j] PROVE i = j
      BY <1>4 DEF NoRepeat
    <2>1. CASE i \in 1..n /\ j \in 1..n
      BY <2>1, <1>1, <1>4 DEF NoRepeat, Climbing
    <2>2. CASE i = n+1 \/ j = n+1
      BY <2>2, <1>1, <1>2, <1>4
    <2>3. QED
      BY <2>1, <2>2
  <1>7. u.chain # <<>> /\ u.chain[1] = d
    <2>1. CASE n = 0
      BY <2>1, <1>1, <1>2, <1>4 DEF Climbing
    <2>2. CASE n > 0
      BY <2>2, <1>1, <1>2, <1>4 DEF Climbing
    <2>3. QED
      BY <2>1, <2>2
  <1>8. ASSUME ~v.moved
        PROVE  /\ v.first = parent[d]
               /\ u.at = parent[u.chain[n+1]]
               /\ \A i \in 1..n : parent[u.chain[i]] = u.chain[i+1]
    <2>1. v.first = parent[d] /\ u.at = parent[v.at]
      BY <1>1, <1>2, <1>3, <1>8 DEF Climbing, ParentSeen
    <2>2. ASSUME NEW i \in 1..n PROVE parent[u.chain[i]] = u.chain[i+1]
      <3>1. CASE i = n
        BY <3>1, <1>1, <1>2, <1>4, <1>8 DEF Climbing
      <3>2. CASE i \in 1..n-1
        <4>1. parent[c[i]] = c[i+1] /\ i+1 \in 1..n
          BY <3>2, <1>1, <1>8 DEF Climbing
        <4>2. QED
          BY <4>1, <1>4
      <3>3. QED
        BY <3>1, <3>2
    <2>3. QED
      BY <2>1, <2>2, <1>4
  <1>9. Climbing(u, d)
    <2>1. Len(u.chain) <= MaxDepth /\ Len(u.chain) - 1 = n
      BY <1>1, <1>2, <1>4
    <2> HIDE DEF u
    <2>2. QED
      BY <1>3, <1>4, <1>5, <1>6, <1>7, <1>8, <2>1 DEF Climbing
  <1>10. u \in WalkRecord
    <2>1. Append(c, v.at) \in Seq(Parties) /\ ParentSeen(v) \in Parents
      BY <1>2, <1>5 DEF Parents, Beyond, Stored
    <2>2. QED
      BY <2>1 DEF Extended, WalkRecord
  <1>11. QED
    BY <1>3, <1>9, <1>10

\* The turn that does not answers with what it found, root first.
LEMMA TheAnswer ==
  ASSUME PartiesTypeOK, NEW d \in Stored, NEW v \in WalkRecord, Climbing(v, d),
         ~(Found(v) /\ Len(v.chain) < MaxDepth /\ ~Seen(v))
  PROVE  AnswerOK(Answered(v), d) /\ Answered(v) \in WalkRecord /\ Answered(v).step = "done"
  <1> DEFINE u == Answered(v)
             c == v.chain
             r == u.chain
  <1>1. PICK n \in Nat : Len(c) = n
    BY DEF WalkRecord
  <1>2. c \in Seq(Stored) /\ MaxDepth \in Nat \ {0} /\ n <= MaxDepth /\ NoRepeat(c)
    BY <1>1, PartiesAssumption DEF Climbing
  <1>3. u.chain = Reverse(c) /\ u.moved = v.moved /\ u.step = "done"
    BY DEF Answered, WalkRecord
  <1>4. /\ r \in Seq(Stored) /\ Len(r) = n /\ NoRepeat(r) /\ ToSet(r) = ToSet(c)
        /\ \A i \in 1..n : r[i] = c[n - i + 1]
    <2>1. /\ Reverse(c) \in Seq(Stored) /\ Len(Reverse(c)) = Len(c)
          /\ \A i \in 1..Len(c) : Reverse(c)[i] = c[Len(c) - i + 1]
          /\ NoRepeat(Reverse(c)) /\ ToSet(Reverse(c)) = ToSet(c)
      BY <1>2, ReverseList
    <2>2. QED
      BY <1>1, <1>3, <2>1
  <1>5. n > 0
    <2> SUFFICES ASSUME n = 0 PROVE FALSE
      OBVIOUS
    <2>1. c = <<>> /\ v.at = d /\ d \in Parties
      BY <1>1, <1>2 DEF Climbing, Stored
    <2>2. ~Seen(v)
      BY <2>1 DEF Seen, ToSet
    <2>3. QED
      BY <1>1, <1>2, <2>1, <2>2 DEF Found
  <1>6. r[n] = d /\ r[1] = c[n]
    <2>1. n \in 1..n /\ 1 \in 1..n /\ n - n + 1 = 1 /\ n - 1 + 1 = n
      BY <1>5
    <2>2. r[n] = c[1] /\ r[1] = c[n]
      BY <1>4, <2>1
    <2>3. c[1] = d
      BY <1>1, <1>2, <1>5 DEF Climbing
    <2>4. QED
      BY <2>2, <2>3
  <1>7. ASSUME ~v.moved PROVE IsLineage(r, d)
    <2>1. ASSUME NEW i \in 1..n-1 PROVE parent[r[i+1]] = r[i]
      <3>1. n - i \in 1..n-1 /\ r[i+1] = c[n - i] /\ r[i] = c[(n - i) + 1]
        BY <1>4
      <3>2. parent[c[n - i]] = c[(n - i) + 1]
        BY <1>1, <1>7, <3>1 DEF Climbing
      <3>3. QED
        BY <3>1, <3>2
    <2>2. v.at = parent[r[1]]
      BY <1>1, <1>5, <1>6, <1>7 DEF Climbing
    <2>3. v.at \notin Parties \ ToSet(r) \/ n = MaxDepth
      BY <1>1, <1>2, <1>4 DEF Found, Seen
    <2> HIDE DEF r
    <2>4. QED
      BY <1>2, <1>4, <1>5, <1>6, <2>1, <2>2, <2>3 DEF IsLineage
  <1>8. AnswerOK(u, d)
    <2> HIDE DEF u
    <2>1. QED
      BY <1>2, <1>3, <1>4, <1>5, <1>6, <1>7 DEF AnswerOK
  <1>9. u \in WalkRecord
    <2>1. Reverse(c) \in Seq(Parties)
      BY ReverseList DEF WalkRecord
    <2>2. QED
      BY <2>1 DEF Answered, WalkRecord, Parents
  <1>10. QED
    BY <1>3, <1>8, <1>9

\* What a walk has found stays true while no party it may meet leaves the table or
\* changes its parent.
LEMMA WalkKept ==
  ASSUME PartiesTypeOK, NEW d \in Asked, WalkOK(d), walk'[d] = walk[d],
         Stored \subseteq Stored', \A p \in Stored : parent'[p] = parent[p]
  PROVE  WalkOK(d)'
  <1> DEFINE v == walk[d]
             c == v.chain
  <1>1. v \in WalkRecord
    BY DEF PartiesTypeOK
  <1>2. PICK n \in Nat : Len(c) = n
    BY <1>1 DEF WalkRecord
  <1>3. ASSUME d \in Stored, Climbing(v, d) PROVE Climbing(v, d)'
    <2>1. c \in Seq(Stored) /\ \A i \in 1..n : c[i] \in Stored /\ parent'[c[i]] = parent[c[i]]
      BY <1>2, <1>3 DEF Climbing
    <2>2. c \in Seq(Stored')
      BY <2>1
    <2>3. \A i \in 1..n-1 : i \in 1..n
      OBVIOUS
    <2>4. c # <<>> => n \in 1..n
      BY <1>2, <2>1
    <2>5. QED
      BY <1>2, <1>3, <2>1, <2>2, <2>3, <2>4 DEF Climbing
  <1>4. ASSUME d \in Stored, AnswerOK(v, d) PROVE AnswerOK(v, d)'
    <2>1. c \in Seq(Stored) /\ \A i \in 1..n : c[i] \in Stored /\ parent'[c[i]] = parent[c[i]]
      BY <1>2, <1>4 DEF AnswerOK
    <2>2. c \in Seq(Stored') /\ 1 \in 1..n
      BY <1>2, <1>4, <2>1 DEF AnswerOK
    <2>3. \A i \in 1..n-1 : i+1 \in 1..n
      OBVIOUS
    <2>4. IsLineage(c, d) => IsLineage(c, d)'
      BY <1>2, <2>1, <2>2, <2>3 DEF IsLineage
    <2>5. QED
      BY <1>2, <1>4, <2>2, <2>4 DEF AnswerOK
  <1>5. QED
    BY <1>3, <1>4 DEF WalkOK

-----------------------------------------------------------------------------
(* Types.                                                                  *)

\* A replica that gives an event another turn, or gives it up.
LEMMA RetriedTyped ==
  ASSUME NEW t \in WorkRecord
  PROVE  /\ Retried(t) \in WorkRecord /\ Retried(t).party = t.party /\ Retried(t).pos = t.pos
         /\ Retried(t).fresh = FALSE /\ Retried(t).step \in {"handling", "skipping"}
  <1>1. t.attempt + 1 \in Nat /\ (t.attempt + 1 < MaxRetries) \in BOOLEAN
    BY DEF WorkRecord
  <1> DEFINE s == IF t.attempt + 1 < MaxRetries THEN "handling" ELSE "skipping"
  <1>2. s \in {"handling", "skipping"}
    OBVIOUS
  <1>3. Retried(t) = [t EXCEPT !.attempt = t.attempt + 1, !.fresh = FALSE, !.step = s]
    BY DEF Retried
  <1> HIDE DEF s
  <1>4. QED
    BY <1>1, <1>2, <1>3 DEF WorkRecord

\* Every step keeps the types.
LEMMA TypeStep ==
  ASSUME PartiesTypeOK, WalksOK, [Next]_vars
  PROVE  PartiesTypeOK'
  <1> USE DEF PartiesTypeOK
  <1>1. ASSUME NEW r \in Requests, Insert(r) PROVE PartiesTypeOK'
    <2>1. r.party \in Parties /\ r.parent \in Stored \cup {NoParty, Foreign}
      BY <1>1, PartiesAssumption DEF Insert
    <2>2. Stored' = Stored
      BY <1>1, <2>1 DEF Insert, Stored
    <2>3. QED
      BY <1>1, <2>1, <2>2 DEF Insert, auditVars
  <1>2. ASSUME NEW p \in Parties, Announce(p) \/ CommitParty(p) \/ CreationFails(p) PROVE PartiesTypeOK'
    <2>1. /\ place' \in [Parties -> {"unused", "inserted", "announced", "stored", "gone"}]
          /\ Stored \subseteq Stored'
      BY <1>2 DEF Announce, CommitParty, CreationFails, Stored
    <2>2. copies' \in [Parties -> Nat]
      BY <1>2, PartiesAssumption DEF Announce, CommitParty, CreationFails
    <2>3. UNCHANGED <<parent, onboarded, walk, auditVars>>
      BY <1>2 DEF Announce, CommitParty, CreationFails
    <2>4. parent' \in [Parties -> Stored' \cup {NoParty, Foreign}]
      BY <2>1, <2>3
    <2>5. QED
      BY <2>1, <2>2, <2>3, <2>4 DEF auditVars
  <1>3. ASSUME NEW p \in Parties, NEW q \in Parties \cup {Foreign}, PatchParty(p, q) PROVE PartiesTypeOK'
    <2>1. Stored' = Stored /\ parent' \in [Parties -> Stored \cup {NoParty, Foreign}]
      BY <1>3 DEF PatchParty, Stored
    <2>2. ASSUME NEW d \in Asked PROVE walk'[d] \in WalkRecord
      <3>1. walk[d] \in WalkRecord /\ (walk[d].step # "idle" /\ q # parent[p]) \in BOOLEAN
        OBVIOUS
      <3>2. QED
        BY <1>3, <3>1 DEF PatchParty, WalkRecord
    <2>3. walk' \in [Asked -> WalkRecord]
      BY <1>3, <2>2 DEF PatchParty
    <2>4. QED
      BY <1>3, <2>1, <2>3 DEF PatchParty, auditVars
  <1>4. ASSUME NEW d \in Asked, WalkBegins(d) PROVE PartiesTypeOK'
    <2>1. parent[d] \in Parents /\ d \in Parties
      BY PartiesAssumption DEF Parents, Stored
    <2>2. [step |-> "walking", first |-> parent[d], at |-> d, chain |-> <<>>, moved |-> FALSE] \in WalkRecord
      BY <2>1 DEF WalkRecord, Parents
    <2>3. walk' \in [Asked -> WalkRecord]
      BY <1>4, <2>2 DEF WalkBegins
    <2>4. QED
      BY <1>4, <2>3 DEF WalkBegins, partyVars, auditVars, Stored
  <1>5. ASSUME NEW d \in Asked, WalkStep(d) PROVE PartiesTypeOK'
    <2>1. d \in Stored /\ Climbing(walk[d], d) /\ walk[d] \in WalkRecord
      BY <1>5 DEF WalkStep, WalksOK, WalkOK
    <2>2. Advance(walk[d]) \in WalkRecord
      <3>1. CASE Found(walk[d]) /\ Len(walk[d].chain) < MaxDepth /\ ~Seen(walk[d])
        BY <3>1, <2>1, OneMore DEF Advance
      <3>2. CASE ~(Found(walk[d]) /\ Len(walk[d].chain) < MaxDepth /\ ~Seen(walk[d]))
        BY <3>2, <2>1, TheAnswer DEF Advance
      <3>3. QED
        BY <3>1, <3>2
    <2>3. walk' \in [Asked -> WalkRecord]
      BY <1>5, <2>2 DEF WalkStep
    <2>4. QED
      BY <1>5, <2>3 DEF WalkStep, partyVars, auditVars, Stored
  <1>6. ASSUME NEW w \in Workers, NEW p \in Parties, Fetch(w, p) PROVE PartiesTypeOK'
    <2>1. [NoWork EXCEPT !.party = p, !.pos = settled[p] + 1, !.step = "handling"] \in WorkRecord
      <3>1. NoWork \in WorkRecord
        BY DEF NoWork, WorkRecord
      <3>2. settled[p] + 1 \in Nat
        OBVIOUS
      <3>3. QED
        BY <3>1, <3>2 DEF WorkRecord
    <2>2. [NoWork EXCEPT !.party = p, !.pos = settled[p] + 1, !.step = "handling"].party = p
      BY DEF NoWork
    <2>3. /\ work' \in [Workers -> WorkRecord]
          /\ \A v \in Workers : work'[v].step # "idle" => work'[v].party \in Parties
      BY <1>6, <2>1, <2>2 DEF Fetch
    <2>4. QED
      BY <1>6, <2>3 DEF Fetch, partyVars, Stored
  <1>7. ASSUME NEW w \in Workers, InsertAudit(w) PROVE PartiesTypeOK'
    <2>1. work[w] \in WorkRecord /\ (audited[work[w].party] = 0) \in BOOLEAN
      OBVIOUS
    <2>2. [work[w] EXCEPT !.step = "inserted", !.fresh = audited[work[w].party] = 0] \in WorkRecord
      BY <2>1 DEF WorkRecord
    <2>3. work' = [work EXCEPT ![w] = [work[w] EXCEPT !.step = "inserted", !.fresh = audited[work[w].party] = 0]]
      BY <1>7 DEF InsertAudit
    <2>4. [work[w] EXCEPT !.step = "inserted", !.fresh = audited[work[w].party] = 0].party = work[w].party
      BY <2>1 DEF WorkRecord
    <2>5. work[w].party \in Parties
      BY <1>7 DEF InsertAudit
    <2>6. /\ work' \in [Workers -> WorkRecord]
          /\ \A v \in Workers : work'[v].step # "idle" => work'[v].party \in Parties
      BY <2>2, <2>3, <2>4, <2>5
    <2>7. QED
      BY <1>7, <2>6 DEF InsertAudit, partyVars, Stored
  <1>8. ASSUME NEW w \in Workers, work[w].step # "idle", work' = [work EXCEPT ![w] = Retried(@)],
               UNCHANGED <<partyVars, walk, copies, settled, lost>>, audited' \in [Parties -> Nat]
        PROVE PartiesTypeOK'
    <2>1. work[w].party \in Parties /\ Retried(work[w]) \in WorkRecord /\ Retried(work[w]).party = work[w].party
      BY <1>8, RetriedTyped
    <2>2. /\ work' \in [Workers -> WorkRecord]
          /\ \A v \in Workers : work'[v].step # "idle" => work'[v].party \in Parties
      BY <1>8, <2>1
    <2>3. QED
      BY <1>8, <2>2 DEF partyVars, Stored
  <1>9. ASSUME NEW w \in Workers, CommitAudit(w) PROVE PartiesTypeOK'
    <2>1. audited' \in [Parties -> Nat] /\ UNCHANGED <<partyVars, walk, copies, settled, lost>> /\ work[w].step # "idle"
      BY <1>9 DEF CommitAudit
    <2>2. CASE work' = [work EXCEPT ![w] = Retried(@)]
      BY <1>8, <2>1, <2>2
    <2>3. CASE work' = [work EXCEPT ![w].step = "committing", ![w].fresh = FALSE]
      <3>1. /\ [work[w] EXCEPT !.step = "committing", !.fresh = FALSE] \in WorkRecord
            /\ [work[w] EXCEPT !.step = "committing", !.fresh = FALSE].party = work[w].party
        BY DEF WorkRecord
      <3>2. work' = [work EXCEPT ![w] = [work[w] EXCEPT !.step = "committing", !.fresh = FALSE]]
        BY <2>3
      <3>3. /\ work' \in [Workers -> WorkRecord]
            /\ \A v \in Workers : work'[v].step # "idle" => work'[v].party \in Parties
        BY <2>1, <3>1, <3>2
      <3>4. QED
        BY <2>1, <3>3 DEF partyVars, Stored
    <2>4. QED
      BY <1>9, <2>2, <2>3 DEF CommitAudit
  <1>10. ASSUME NEW w \in Workers, HandlerRaises(w) PROVE PartiesTypeOK'
    BY <1>8, <1>10 DEF HandlerRaises
  <1>11. ASSUME NEW w \in Workers, CommitOffset(w) \/ Crash(w) PROVE PartiesTypeOK'
    <2>1. NoWork \in WorkRecord /\ NoWork.step = "idle"
      BY DEF NoWork, WorkRecord
    <2>2. /\ work' \in [Workers -> WorkRecord]
          /\ \A v \in Workers : work'[v].step # "idle" => work'[v].party \in Parties
      BY <1>11, <2>1 DEF CommitOffset, Crash
    <2>3. settled' \in [Parties -> Nat] /\ lost' \subseteq Parties
      <3>1. CASE CommitOffset(w)
        <4>1. work[w].party \in Parties /\ work[w].pos \in Nat
          BY <3>1 DEF CommitOffset, WorkRecord
        <4>2. Max({settled[work[w].party], work[w].pos}) \in Nat
          <5>1. PICK m \in Nat, n \in Nat : settled[work[w].party] = m /\ work[w].pos = n
            BY <4>1
          <5>2. m \in Int /\ n \in Int
            OBVIOUS
          <5>3. Max({m, n}) \in {m, n}
            BY <5>2, MaxOfTwo
          <5>4. QED
            BY <5>1, <5>3
        <4>3. QED
          BY <3>1, <4>1, <4>2 DEF CommitOffset
      <3>2. CASE Crash(w)
        BY <3>2 DEF Crash
      <3>3. QED
        BY <1>11, <3>1, <3>2
    <2>4. QED
      BY <1>11, <2>2, <2>3 DEF CommitOffset, Crash, partyVars, Stored
  <1>12. CASE UNCHANGED vars
    BY <1>12 DEF vars, partyVars, auditVars, Stored
  <1>13. QED
    BY <1>1, <1>2, <1>3, <1>4, <1>5, <1>6, <1>7, <1>9, <1>10, <1>11, <1>12
       DEF Next, CreateParty, UpdateParty, GetHierarchy

-----------------------------------------------------------------------------
(* The steps of the walk's half.                                           *)

\* Every step keeps what the walks have found: only a patch moves the parent of a party
\* that is stored, and the walks it is under are marked.
LEMMA WalksStep ==
  ASSUME PartiesTypeOK, WalksOK, [Next]_vars
  PROVE  WalksOK'
  <1> SUFFICES ASSUME NEW d \in Asked PROVE WalkOK(d)'
    BY DEF WalksOK
  <1>0. WalkOK(d) /\ walk[d] \in WalkRecord
    BY DEF WalksOK, PartiesTypeOK
  <1>1. ASSUME NEW r \in Requests, Insert(r) PROVE WalkOK(d)'
    <2>1. r.party \in Parties \ Stored
      BY <1>1, PartiesAssumption DEF Insert, Stored
    <2>2. Stored \subseteq Stored' /\ \A p \in Stored : parent'[p] = parent[p]
      BY <1>1, <2>1 DEF Insert, Stored, PartiesTypeOK
    <2>3. QED
      BY <1>0, <1>1, <2>2, WalkKept DEF Insert
  <1>2. ASSUME NEW p \in Parties, Announce(p) \/ CommitParty(p) \/ CreationFails(p) PROVE WalkOK(d)'
    <2>1. Stored \subseteq Stored' /\ parent' = parent /\ walk' = walk
      BY <1>2 DEF Announce, CommitParty, CreationFails, Stored, PartiesTypeOK
    <2>2. QED
      BY <1>0, <2>1, WalkKept
  <1>3. ASSUME NEW p \in Parties, NEW q \in Parties \cup {Foreign}, PatchParty(p, q) PROVE WalkOK(d)'
    <2>1. /\ Stored' = Stored
          /\ walk'[d] = [walk[d] EXCEPT !.moved = @ \/ (walk[d].step # "idle" /\ q # parent[p])]
      BY <1>3 DEF PatchParty, Stored
    <2>2. CASE q = parent[p]
      <3>1. parent' = parent
        BY <1>3, <2>2 DEF PatchParty, PartiesTypeOK
      <3>2. walk'[d] = walk[d]
        BY <1>0, <2>1, <2>2 DEF WalkRecord
      <3>3. QED
        BY <1>0, <2>1, <3>1, <3>2, WalkKept
    <2>3. CASE q # parent[p]
      <3>1. /\ walk'[d].step = walk[d].step /\ walk'[d].chain = walk[d].chain
            /\ walk'[d].at = walk[d].at /\ walk'[d].first = walk[d].first
        BY <1>0, <2>1 DEF WalkRecord
      <3>2. walk[d].step # "idle" => walk'[d].moved
        BY <1>0, <2>1, <2>3 DEF WalkRecord
      <3>3. QED
        BY <1>0, <2>1, <3>1, <3>2 DEF WalkOK, Climbing, AnswerOK
    <2>4. QED
      BY <2>2, <2>3
  <1>4. ASSUME NEW a \in Asked, WalkBegins(a) PROVE WalkOK(d)'
    <2>1. Stored' = Stored /\ parent' = parent
      BY <1>4 DEF WalkBegins, partyVars, Stored
    <2>2. CASE a # d
      <3>1. walk'[d] = walk[d]
        BY <1>4, <2>2 DEF WalkBegins, PartiesTypeOK
      <3>2. QED
        BY <1>0, <2>1, <3>1, WalkKept
    <2>3. CASE a = d
      <3> DEFINE u == [step |-> "walking", first |-> parent[d], at |-> d, chain |-> <<>>, moved |-> FALSE]
      <3>1. walk'[d] = u /\ d \in Stored
        BY <1>4, <2>3 DEF WalkBegins, PartiesTypeOK
      <3>2. parent[d] \in Stored \cup Beyond
        BY <3>1 DEF PartiesTypeOK, Beyond, Stored
      <3>3. Climbing(u, d)
        BY <3>1, <3>2, PartiesAssumption DEF Climbing, NoRepeat
      <3>4. u.step = "walking"
        OBVIOUS
      <3> HIDE DEF u
      <3>5. Climbing(walk'[d], d) /\ walk'[d].step = "walking"
        BY <3>1, <3>3, <3>4
      <3>6. QED
        BY <2>1, <3>1, <3>5 DEF WalkOK, Climbing
    <2>4. QED
      BY <2>2, <2>3
  <1>5. ASSUME NEW a \in Asked, WalkStep(a) PROVE WalkOK(d)'
    <2>1. Stored' = Stored /\ parent' = parent
      BY <1>5 DEF WalkStep, partyVars, Stored
    <2>2. CASE a # d
      <3>1. walk'[d] = walk[d]
        BY <1>5, <2>2 DEF WalkStep, PartiesTypeOK
      <3>2. QED
        BY <1>0, <2>1, <3>1, WalkKept
    <2>3. CASE a = d
      <3>1. d \in Stored /\ Climbing(walk[d], d) /\ walk'[d] = Advance(walk[d]) /\ walk[d].step = "walking"
        BY <1>0, <1>5, <2>3 DEF WalkStep, WalkOK, PartiesTypeOK
      <3>2. CASE Found(walk[d]) /\ Len(walk[d].chain) < MaxDepth /\ ~Seen(walk[d])
        <4>1. walk'[d] = Extended(walk[d])
          BY <3>1, <3>2 DEF Advance
        <4>2. Climbing(walk'[d], d) /\ walk'[d].step = "walking"
          BY <1>0, <3>1, <3>2, <4>1, OneMore
        <4>3. QED
          BY <2>1, <3>1, <4>2 DEF WalkOK, Climbing
      <3>3. CASE ~(Found(walk[d]) /\ Len(walk[d].chain) < MaxDepth /\ ~Seen(walk[d]))
        <4>1. walk'[d] = Answered(walk[d])
          BY <3>1, <3>3 DEF Advance
        <4>2. AnswerOK(walk'[d], d) /\ walk'[d].step = "done"
          BY <1>0, <3>1, <3>3, <4>1, TheAnswer
        <4>3. QED
          BY <2>1, <3>1, <4>2 DEF WalkOK, AnswerOK, IsLineage
      <3>4. QED
        BY <3>2, <3>3
    <2>4. QED
      BY <2>2, <2>3
  <1>6. ASSUME UNCHANGED <<partyVars, walk>> PROVE WalkOK(d)'
    <2>1. Stored' = Stored /\ parent' = parent /\ walk' = walk
      BY <1>6 DEF partyVars, Stored
    <2>2. QED
      BY <1>0, <2>1, WalkKept
  <1>7. ASSUME NEW w \in Workers,
               \/ \E p \in Parties : Fetch(w, p)
               \/ InsertAudit(w) \/ CommitAudit(w) \/ HandlerRaises(w) \/ CommitOffset(w) \/ Crash(w)
        PROVE  WalkOK(d)'
    BY <1>6, <1>7 DEF Fetch, InsertAudit, CommitAudit, HandlerRaises, CommitOffset, Crash
  <1>8. CASE UNCHANGED vars
    BY <1>6, <1>8 DEF vars
  <1>9. QED
    BY <1>1, <1>2, <1>3, <1>4, <1>5, <1>7, <1>8 DEF Next, CreateParty, UpdateParty, GetHierarchy

-----------------------------------------------------------------------------
(* The steps of the topic's half.                                          *)

\* Every step keeps a dealer announced before it is stored: the announcement and the
\* commit are two steps, and a party's role is settled when it is inserted.
LEMMA AnnouncedStep ==
  ASSUME PartiesTypeOK, AnnouncedOK, [Next]_vars
  PROVE  AnnouncedOK'
  <1> USE DEF PartiesTypeOK, AnnouncedOK
  <1>1. ASSUME NEW r \in Requests, Insert(r) PROVE AnnouncedOK'
    BY <1>1, PartiesAssumption DEF Insert
  <1>2. ASSUME NEW p \in Parties, Announce(p) \/ CommitParty(p) \/ CreationFails(p) PROVE AnnouncedOK'
    <2>1. CASE Announce(p)
      BY <2>1, PartiesAssumption DEF Announce
    <2>2. CASE CommitParty(p)
      BY <2>2 DEF CommitParty
    <2>3. CASE CreationFails(p)
      BY <2>3, PartiesAssumption DEF CreationFails
    <2>4. QED
      BY <1>2, <2>1, <2>2, <2>3
  <1>3. ASSUME UNCHANGED <<place, onboarded, copies>> PROVE AnnouncedOK'
    BY <1>3
  <1>4. QED
    BY <1>1, <1>2, <1>3
       DEF Next, vars, partyVars, auditVars, CreateParty, UpdateParty, GetHierarchy, PatchParty, WalkBegins,
           WalkStep, Fetch, InsertAudit, CommitAudit, HandlerRaises, CommitOffset, Crash

\* A replica that lets go of an event, or turns to another attempt, owes nothing for it.
LEMMA LetGo ==
  ASSUME PartiesTypeOK, AuditOK, NEW w \in Workers, NEW t \in WorkRecord,
         work' = [work EXCEPT ![w] = t], ~t.fresh,
         t.step # "idle" => t.party \in Parties /\ t.pos > 0,
         t.step = "idle" \/ t.step \in {"handling", "skipping"},
         UNCHANGED <<settled, audited, lost>>
  PROVE  AuditOK'
  <1>1. ASSUME NEW v \in Workers PROVE work'[v] = IF v = w THEN t ELSE work[v]
    BY DEF PartiesTypeOK
  <1>2. QED
    BY <1>1 DEF AuditOK

\* Every step keeps what audit-service owes.  The insert is where two replicas meet: it
\* waits until nobody holds a row of the same event that is not committed.
LEMMA AuditStep ==
  ASSUME PartiesTypeOK, AuditOK, [Next]_vars
  PROVE  AuditOK'
  <1>1. ASSUME UNCHANGED auditVars PROVE AuditOK'
    BY <1>1 DEF AuditOK, auditVars
  <1>2. ASSUME NEW w \in Workers, NEW p \in Parties, Fetch(w, p) PROVE AuditOK'
    <2> DEFINE t == [NoWork EXCEPT !.party = p, !.pos = settled[p] + 1, !.step = "handling"]
    <2>1. t \in WorkRecord /\ t.pos > 0 /\ ~t.fresh /\ t.step = "handling" /\ t.party = p
      <3>1. NoWork \in WorkRecord /\ ~NoWork.fresh
        BY DEF NoWork, WorkRecord
      <3>2. settled[p] + 1 \in Nat /\ settled[p] + 1 > 0
        BY DEF PartiesTypeOK
      <3>3. QED
        BY <3>1, <3>2 DEF WorkRecord
    <2>2. work' = [work EXCEPT ![w] = t] /\ UNCHANGED <<settled, audited, lost>>
      BY <1>2 DEF Fetch
    <2> HIDE DEF t
    <2>3. QED
      BY <2>1, <2>2, LetGo
  <1>3. ASSUME NEW w \in Workers, InsertAudit(w) PROVE AuditOK'
    <2> PICK p \in Parties : work[w].party = p
      BY <1>3 DEF InsertAudit, PartiesTypeOK
    <2> DEFINE t == [work[w] EXCEPT !.step = "inserted", !.fresh = audited[p] = 0]
    <2>1. /\ t.step = "inserted" /\ (t.fresh <=> audited[p] = 0) /\ t.party = p /\ t.pos > 0
          /\ audited[p] \in {0, 1}
      <3>1. work[w] \in WorkRecord /\ work[w].pos > 0 /\ audited[p] \in {0, 1}
        BY <1>3 DEF InsertAudit, PartiesTypeOK, AuditOK
      <3>2. t.step = "inserted" /\ t.fresh = (audited[p] = 0) /\ t.party = p /\ t.pos = work[w].pos
        BY <3>1 DEF WorkRecord
      <3> HIDE DEF t
      <3>3. QED
        BY <3>1, <3>2
    <2>2. work' = [work EXCEPT ![w] = t] /\ UNCHANGED <<settled, audited, lost>>
      BY <1>3 DEF InsertAudit
    <2> HIDE DEF t
    <2>3. \A v \in Workers : work'[v] = IF v = w THEN t ELSE work[v]
      BY <2>2 DEF PartiesTypeOK
    <2>4. \A v \in Workers : v # w /\ work[v].fresh => work[v].party # p
      BY <1>3 DEF InsertAudit
    <2>5. QED
      BY <2>1, <2>2, <2>3, <2>4 DEF AuditOK
  <1>4. ASSUME NEW w \in Workers, CommitAudit(w) PROVE AuditOK'
    <2> PICK p \in Parties : work[w].party = p
      BY <1>4 DEF CommitAudit, PartiesTypeOK
    <2>1. PICK t \in WorkRecord :
            /\ ~t.fresh /\ t.party = p /\ t.pos = work[w].pos /\ t.step \in {"committing", "handling", "skipping"}
            /\ \A v \in Workers : work'[v] = IF v = w THEN t ELSE work[v]
      <3>1. CASE work' = [work EXCEPT ![w].step = "committing", ![w].fresh = FALSE]
        <4> DEFINE c == [work[w] EXCEPT !.step = "committing", !.fresh = FALSE]
        <4>1. c \in WorkRecord /\ ~c.fresh /\ c.party = p /\ c.pos = work[w].pos /\ c.step = "committing"
          BY DEF PartiesTypeOK, WorkRecord
        <4>2. \A v \in Workers : work'[v] = IF v = w THEN c ELSE work[v]
          BY <3>1 DEF PartiesTypeOK
        <4> HIDE DEF c
        <4>3. QED
          BY <4>1, <4>2
      <3>2. CASE work' = [work EXCEPT ![w] = Retried(@)]
        BY <3>2, RetriedTyped DEF PartiesTypeOK
      <3>3. QED
        BY <1>4, <3>1, <3>2 DEF CommitAudit
    <2>2. /\ audited'[p] = 1 /\ t.pos > 0
          /\ \A q \in Parties : q # p => audited'[q] = audited[q]
      BY <1>4, <2>1 DEF CommitAudit, PartiesTypeOK, AuditOK
    <2>3. \A v \in Workers : v # w /\ work[v].fresh => work[v].party # p
      BY <1>4 DEF CommitAudit, AuditOK
    <2>4. QED
      BY <1>4, <2>1, <2>2, <2>3 DEF CommitAudit, AuditOK, PartiesTypeOK
  <1>5. ASSUME NEW w \in Workers, HandlerRaises(w) PROVE AuditOK'
    <2>1. work[w] \in WorkRecord /\ work[w].party \in Parties /\ work[w].pos > 0
      BY <1>5 DEF HandlerRaises, PartiesTypeOK, AuditOK
    <2> PICK t \in WorkRecord : /\ t = Retried(work[w]) /\ t.party = work[w].party /\ t.pos = work[w].pos
                                /\ ~t.fresh /\ t.step \in {"handling", "skipping"}
      BY <2>1, RetriedTyped
    <2>2. work' = [work EXCEPT ![w] = t] /\ UNCHANGED <<settled, audited, lost>>
      BY <1>5 DEF HandlerRaises
    <2>3. QED
      BY <2>1, <2>2, LetGo
  <1>6. ASSUME NEW w \in Workers, CommitOffset(w) PROVE AuditOK'
    <2> PICK p \in Parties : work[w].party = p
      BY <1>6 DEF CommitOffset, PartiesTypeOK
    <2>1. p \in lost' \/ audited[p] = 1
      BY <1>6 DEF CommitOffset, AuditOK
    <2>2. lost \subseteq lost' /\ \A q \in Parties : q # p => settled'[q] = settled[q]
      BY <1>6 DEF CommitOffset, PartiesTypeOK
    <2>3. \A v \in Workers : work'[v] = IF v = w THEN NoWork ELSE work[v]
      BY <1>6 DEF CommitOffset, PartiesTypeOK
    <2>4. ~NoWork.fresh /\ NoWork.step = "idle" /\ audited' = audited
      BY <1>6 DEF CommitOffset, NoWork
    <2>5. QED
      BY <2>1, <2>2, <2>3, <2>4 DEF AuditOK
  <1>7. ASSUME NEW w \in Workers, Crash(w) PROVE AuditOK'
    <2>1. NoWork \in WorkRecord /\ ~NoWork.fresh /\ NoWork.step = "idle"
      BY DEF NoWork, WorkRecord
    <2>2. work' = [work EXCEPT ![w] = NoWork] /\ UNCHANGED <<settled, audited, lost>>
      BY <1>7 DEF Crash
    <2>3. QED
      BY <2>1, <2>2, LetGo
  <1>8. QED
    BY <1>1, <1>2, <1>3, <1>4, <1>5, <1>6, <1>7
       DEF Next, vars, CreateParty, UpdateParty, GetHierarchy, Insert, Announce, CommitParty, CreationFails,
           PatchParty, WalkBegins, WalkStep

-----------------------------------------------------------------------------
(* The theorems.                                                           *)

LEMMA PartiesStart ==
  ASSUME Init PROVE PartiesInv
  <1>1. PartiesTypeOK
    <2>1. NoWork \in WorkRecord /\ NoWork.step = "idle" /\ NoWalk \in WalkRecord
      BY DEF NoWork, WorkRecord, NoWalk, WalkRecord, Parents
    <2>2. QED
      BY <2>1 DEF Init, PartiesTypeOK
  <1>2. WalksOK
    BY DEF Init, WalksOK, WalkOK, NoWalk
  <1>3. AuditOK /\ AnnouncedOK
    BY DEF Init, AuditOK, AnnouncedOK, NoWork
  <1>4. QED
    BY <1>1, <1>2, <1>3 DEF PartiesInv

LEMMA PartiesStep ==
  ASSUME PartiesInv, [Next]_vars PROVE PartiesInv'
  BY TypeStep, WalksStep, AuditStep, AnnouncedStep DEF PartiesInv

\* What the walks have found and what audit-service owes hold in every reachable state.
THEOREM PartiesInvariant == Spec => []PartiesInv
  <1>1. Init => PartiesInv
    BY PartiesStart
  <1>2. PartiesInv /\ [Next]_vars => PartiesInv'
    BY PartiesStep
  <1>3. QED
    BY <1>1, <1>2, PTL DEF Spec

\* The tables keep their types, and only a stored party or one of another tenant is ever
\* a parent (PartyRepository, AuditLogRepository).
THEOREM PartiesTyping == Spec => []PartiesTypeOK
  <1>1. PartiesInv => PartiesTypeOK
    BY DEF PartiesInv
  <1>2. QED
    BY <1>1, PartiesInvariant, PTL

\* However parents change under it, a hierarchy ends with the party that was asked for
\* and names max_depth stored parties at most, none twice (get_ancestors).
THEOREM HierarchyNeverRepeats == Spec => []WalkNeverRepeats
  <1>1. PartiesInv => WalkNeverRepeats
    <2> SUFFICES ASSUME PartiesInv, NEW d \in Asked, walk[d].step = "done"
                 PROVE  LET list == walk[d].chain IN
                        /\ Len(list) \in 1..MaxDepth /\ list[Len(list)] = d
                        /\ ToSet(list) \subseteq Stored
                        /\ Cardinality(ToSet(list)) = Len(list)
      BY DEF WalkNeverRepeats
    <2>1. AnswerOK(walk[d], d)
      BY DEF PartiesInv, WalksOK, WalkOK
    <2>2. QED
      BY <2>1, MembersOfList DEF AnswerOK
  <1>2. QED
    BY <1>1, PartiesInvariant, PTL

\* While no parent changes, the hierarchy is the lineage of the party, whatever cycles
\* and foreign parents patches have left in the table (get_ancestors).
THEOREM HierarchyIsLineage == Spec => []WalkIsLineage
  <1>1. PartiesInv => WalkIsLineage
    BY DEF PartiesInv, WalksOK, WalkOK, AnswerOK, WalkIsLineage
  <1>2. QED
    BY <1>1, PartiesInvariant, PTL

\* A stored dealer was announced, and audit-service, once done with it, holds exactly one
\* row of it, with any number of replicas, copies and retries, unless an event of it was
\* given up (onboard_party, handle_any_event).
THEOREM OnboardingIsAudited == Spec => []OnboardingAudited
  <1>1. PartiesInv => OnboardingAudited
    BY DEF PartiesInv, AuditOK, AnnouncedOK, PartiesTypeOK, OnboardingAudited, Stored
  <1>2. QED
    BY <1>1, PartiesInvariant, PTL

-----------------------------------------------------------------------------
(* The stock view.                                                          *)

\* What a request, an event and a replica's hand may be.
TxRecord == [kind : {"none", "adjust", "transfer"}, step : {"idle", "read", "sent"},
             from : SUBSET Rows, to : SUBSET Rows, source : Locations \cup {"nowhere"},
             destination : Locations \cup {"nowhere"}, seen : Int, amount : Int,
             number : Nat, sent : Nat]
EventRecord == [kind : {"adjust", "transfer"}, no : Nat, from : Locations, to : Locations,
                amount : Nat, holds : BOOLEAN]
HandRecord == [part : Partitions \cup {0}, pos : Nat, attempt : Nat,
               step : {"idle", "begin", "source", "moved", "destination", "commit", "skip",
                       "dead"},
               seen : Nat \cup {Absent}]

StockTypeOK ==
  /\ stock \in [Rows -> Int]
  /\ site \in [Rows -> Locations]
  /\ tx \in [Slots -> TxRecord]
  /\ changes \in 0..MaxChanges
  /\ log \in [Partitions -> Seq(EventRecord)]
  /\ clock \in Nat
  /\ quiet \in [Locations -> Nat]

ShownTypeOK ==
  /\ consumed \in [Partitions -> Nat]
  /\ hand \in [Replicas -> HandRecord]
  /\ shown \in [Locations -> Nat \cup {Absent}]
  /\ departed \subseteq Locations
  /\ faults \in 0..MaxFaults

Ev(p) == log[p[1]][p[2]]
TxAt(x) == <<PartitionOf(tx[x]), tx[x].sent>>

\* A request at work is about a row, or from a row to a row; once it has sent its event,
\* the log holds it, and a location of a row it is not about was told of nothing since.
Sound(t) ==
  /\ t.number \in 1..MaxChanges
  /\ t.step \in {"read", "sent"}
  /\ t.source \in Locations /\ t.destination \in Locations
  /\ \/ /\ t.kind = "adjust" /\ t.to = {} /\ t.seen + t.amount >= 0
        /\ t.source = t.destination
        /\ \E r \in Rows : t.from = {r}
     \/ /\ t.kind = "transfer" /\ t.amount > 0
        /\ \E r, q \in Rows : t.from = {r} /\ t.to = {q}
  /\ t.step = "read" <=> t.sent = 0
Told(x, l) ==
  l \in {Ev(TxAt(x)).from, Ev(TxAt(x)).to} \/ Ev(TxAt(x)).no <= quiet[l]
TxOK(x) ==
  tx[x] # NoTx =>
    /\ Sound(tx[x])
    /\ tx[x].step = "sent" => /\ TxAt(x) \in Positions
                             /\ \A l \in Places(tx[x]) : Told(x, l)
TxsOK == \A x \in Slots : TxOK(x)

\* Two requests never have one row locked; no event has told what happened at a location of
\* one row, and nothing happened there untold, since the request that has it locked sent its
\* event.
Single(l) == Cardinality({r \in Rows : site[r] = l}) = 1
LastAt(x, l) ==
  \A p \in Touching(l) : Ev(p).holds /\ quiet[l] < Ev(p).no => Ev(p).no <= Ev(TxAt(x)).no
LocksOK ==
  /\ \A x, y \in Slots : x # y /\ tx[x].step = "sent" /\ tx[y].step = "sent"
                            => Touched(tx[x]) \cap Touched(tx[y]) = {}
  /\ \A x \in Slots : tx[x].step = "sent" =>
       \A l \in Places(tx[x]) : Single(l) => LastAt(x, l)

\* Events are numbered in the order they were sent; a transfer that holds is between two
\* locations.
EventOK(e) ==
  /\ e.no \in 1..clock
  /\ e.kind = "adjust" => e.from = e.to
  /\ e.kind = "transfer" => e.amount > 0 /\ (e.holds => e.from # e.to)
LogOK ==
  /\ \A p \in Positions : EventOK(Ev(p))
  /\ \A p, q \in Positions : Ev(p).no = Ev(q).no => p = q
  /\ \A l \in Locations : quiet[l] <= clock

\* What a replica has in hand is in the log.
Resting == {EmptyHand, Dead}
HandOK(w) ==
  hand[w] \notin Resting =>
    /\ Here(w) \in Positions
    /\ hand[w].step # "idle"
    /\ hand[w].step \in {"source", "moved", "destination"} => InHand(w).kind = "transfer"
HandsOK ==
  /\ \A w \in Replicas : HandOK(w)
  /\ \A y \in written : <<y[1], y[2]>> \in Positions /\ y = <<y[1], y[2], y[3]>>

\* What a transfer changes at l, what the transfers of S change there, and what the
\* requests that have sent their events are about to change there.
Moves(e, l) == IF e.from = l THEN -e.amount ELSE e.amount
Moved(S, l) == SumFunctionOnSet([p \in Positions |-> Moves(Ev(p), l)], S)
Taken(t) == IF t.kind = "adjust" THEN t.amount ELSE -t.amount
InFlight(t, l) ==
  IF t.step # "sent" THEN 0
  ELSE (IF \E r \in t.from : site[r] = l THEN Taken(t) ELSE 0)
       + (IF \E r \in t.to : site[r] = l THEN t.amount ELSE 0)
Open(l) == SumFunction([x \in Slots |-> InFlight(tx[x], l)])
Held(l) == OnHand(l) + Open(l)

After(n, l) == {p \in Touching(l) : Ev(p).no > n}
Unwritten(l) == {p \in Touching(l) : <<p[1], p[2], l>> \notin written}
AllMoves(S) == \A p \in S : Ev(p).kind = "transfer" /\ Ev(p).holds

\* An adjustment of the only row at a location that tells what happened there, and after
\* which only transfers did, tells with them what the location holds.
Tells(l) ==
  \A e \in Touching(l) :
    /\ Single(l) /\ Ev(e).kind = "adjust" /\ Ev(e).holds /\ quiet[l] < Ev(e).no
    /\ AllMoves(After(Ev(e).no, l))
    => Ev(e).amount + Moved(After(Ev(e).no, l), l) = Held(l)
TellsOK == \A l \in Locations : Tells(l)

\* What the view shows of a location, if nothing made it depart from the stock and only
\* transfers are still to be written, tells with them what the location holds.
Shows(l) ==
  l \notin departed /\ AllMoves(Unwritten(l)) => View(l) + Moved(Unwritten(l), l) = Held(l)
ShownOK == \A l \in Locations : Shows(l)

\* What an event that holds tells of the request u that sent it.
Announces(e, u) ==
  /\ Places(u) = {e.from, e.to}
  /\ e.kind = "adjust" =>
       /\ InFlight(u, e.from) = u.amount
       /\ \E r \in Rows : /\ Touched(u) = {r} /\ site[r] = e.from
                          /\ e.amount = stock[r] + u.amount
  /\ e.kind = "transfer" =>
       e.from # e.to /\ \A l \in {e.from, e.to} : InFlight(u, l) = Moves(e, l)

\* The request of slot x sends event e to position new, and goes on as u; if the event holds,
\* it tells what u is about to change.
Sends(x, k, e, u, new) ==
  /\ k \in Partitions /\ e \in EventRecord /\ u \in TxRecord
  /\ new = <<k, Len(log[k]) + 1>>
  /\ log' = [log EXCEPT ![k] = Append(@, e)]
  /\ tx[x].step = "read"
  /\ tx' = [tx EXCEPT ![x] = u]
  /\ Sound(u) /\ u.step = "sent"
  /\ <<PartitionOf(u), u.sent>> = new
  /\ \A y \in Slots : y # x /\ tx[y].step = "sent" => Touched(tx[y]) \cap Touched(u) = {}
  /\ e.no = clock + 1 /\ clock' = clock + 1
  /\ UNCHANGED <<stock, site, changes>> /\ departed' = departed \cup Strays(u)
  /\ quiet' = [l \in Locations |-> IF l \in Strays(u) THEN clock + 1 ELSE quiet[l]]
  /\ {e.from, e.to} = {u.source, u.destination}
  /\ e.kind = "adjust" => e.from = e.to
  /\ e.kind = "transfer" => e.amount > 0
  /\ e.holds => Announces(e, u)

\* The log has event e at position new and is otherwise what it was.
Grows(e, new) ==
  /\ Positions' = Positions \cup {new} /\ new \notin Positions
  /\ \A p \in Positions : Ev(p)' = Ev(p)
  /\ Ev(new)' = e
  /\ \A l : Touching(l)' = IF l \in {e.from, e.to} THEN Touching(l) \cup {new} ELSE Touching(l)

\* The half of inventory-service, and the whole.
StockIInv == StockTypeOK /\ TxsOK /\ LocksOK /\ LogOK /\ TellsOK
ViewIInv == StockIInv /\ ShownTypeOK /\ HandsOK /\ ShownOK

-----------------------------------------------------------------------------
(* Facts about the operators.                                              *)

\* A sum one summand of which changes.
LEMMA OneChanged ==
  ASSUME NEW f, NEW g, IsFiniteSet(DOMAIN f), DOMAIN g = DOMAIN f, NEW y \in DOMAIN f,
         \A x \in DOMAIN f : f[x] \in Int /\ g[x] \in Int,
         \A x \in DOMAIN f : x # y => g[x] = f[x]
  PROVE  SumFunction(g) = SumFunction(f) - f[y] + g[y]
  <1>1. SumFunctionOnSet(g, DOMAIN f) = SumFunctionOnSet(f, DOMAIN f) - f[y] + g[y]
    BY SumChanged
  <1>2. QED
    BY <1>1, SumFunctionIs

\* The log has finitely many positions.
LEMMA PositionsFinite == ASSUME StockTypeOK PROVE IsFiniteSet(Positions)
  <1> DEFINE F == [k \in Partitions |-> {k} \X DOMAIN log[k]]
             R == {F[k] : k \in Partitions}
  <1>1. IsFiniteSet(1..MaxChanges)
    BY FS_Interval, StockViewAssumption DEF StockViewAssumption
  <1>2. IsFiniteSet(Partitions)
    BY <1>1, FS_Union, StockViewAssumption DEF StockViewAssumption, Partitions
  <1>3. F \in Surjection(Partitions, R)
    BY DEF Surjection
  <1>4. IsFiniteSet(R)
    BY <1>2, <1>3, FS_Surjection
  <1>5. ASSUME NEW T \in R PROVE IsFiniteSet(T)
    <2>1. PICK k \in Partitions : T = {k} \X DOMAIN log[k]
      OBVIOUS
    <2>2. PICK n \in Nat : DOMAIN log[k] = 1..n
      BY DEF StockTypeOK
    <2>3. IsFiniteSet(1..n)
      BY FS_Interval
    <2>4. IsFiniteSet({k}) /\ IsFiniteSet(DOMAIN log[k])
      BY <2>2, <2>3, FS_Singleton
    <2>5. QED
      BY <2>1, <2>4, FS_Product
  <1>6. IsFiniteSet(UNION R)
    BY <1>4, <1>5, FS_UNION
  <1>7. Positions = UNION R
    BY DEF Positions
  <1>8. QED
    BY <1>6, <1>7

\* A position is a partition and a place in its log, and holds an event.
LEMMA PositionIs ==
  ASSUME StockTypeOK, NEW p
  PROVE  p \in Positions <=> /\ p = <<p[1], p[2]>> /\ p[1] \in Partitions
                             /\ p[2] \in 1..Len(log[p[1]])
  <1>1. \A k \in Partitions : DOMAIN log[k] = 1..Len(log[k])
    BY DEF StockTypeOK
  <1>2. QED
    BY <1>1 DEF Positions

LEMMA EvType ==
  ASSUME StockTypeOK, NEW p \in Positions
  PROVE  Ev(p) \in EventRecord
  <1>1. p[1] \in Partitions /\ p[2] \in 1..Len(log[p[1]])
    BY PositionIs
  <1>2. log[p[1]] \in Seq(EventRecord)
    BY <1>1 DEF StockTypeOK
  <1>3. QED
    BY <1>1, <1>2 DEF Ev

LEMMA MovesInt ==
  ASSUME StockTypeOK, NEW p \in Positions, NEW l
  PROVE  Moves(Ev(p), l) \in Int
  BY EvType DEF Moves, EventRecord

\* What a set of transfers changes: an integer, and the sum of what they change.
LEMMA MovedInt ==
  ASSUME StockTypeOK, NEW S \in SUBSET Positions, NEW l
  PROVE  Moved(S, l) \in Int
  <1> DEFINE f == [p \in Positions |-> Moves(Ev(p), l)]
  <1>1. IsFiniteSet(S)
    BY PositionsFinite, FS_Subset
  <1>2. \A p \in S : f[p] \in Int
    BY MovesInt
  <1> HIDE DEF f
  <1>3. SumFunctionOnSet(f, S) \in Int
    BY <1>1, <1>2, SumInt
  <1>4. QED
    BY <1>3 DEF Moved, f

LEMMA MovedNone == \A l : Moved({}, l) = 0
  BY SumEmpty DEF Moved

LEMMA MovedTakeOut ==
  ASSUME StockTypeOK, NEW S \in SUBSET Positions, NEW p \in S, NEW l
  PROVE  Moved(S, l) = Moves(Ev(p), l) + Moved(S \ {p}, l)
  <1> DEFINE f == [q \in Positions |-> Moves(Ev(q), l)]
  <1>1. IsFiniteSet(S)
    BY PositionsFinite, FS_Subset
  <1>2. \A q \in S : f[q] \in Int
    BY MovesInt
  <1>3. f[p] = Moves(Ev(p), l)
    OBVIOUS
  <1> HIDE DEF f
  <1>4. SumFunctionOnSet(f, S) = f[p] + SumFunctionOnSet(f, S \ {p})
    BY <1>1, <1>2, SumTakeOut
  <1>5. QED
    BY <1>3, <1>4 DEF Moved, f

\* What a step leaves of the events, it leaves of what they change.
LEMMA MovedKept ==
  ASSUME StockTypeOK, NEW S \in SUBSET Positions, S \subseteq Positions', NEW l,
         \A p \in S : Moves(Ev(p)', l) = Moves(Ev(p), l)
  PROVE  Moved(S, l)' = Moved(S, l)
  <1> DEFINE f == [q \in Positions |-> Moves(Ev(q), l)]
             g == [q \in Positions' |-> Moves(Ev(q)', l)]
  <1>1. IsFiniteSet(S)
    BY PositionsFinite, FS_Subset
  <1>2. \A p \in S : f[p] = g[p]
    OBVIOUS
  <1> HIDE DEF f, g
  <1>3. SumFunctionOnSet(f, S) = SumFunctionOnSet(g, S)
    BY <1>1, <1>2, SumSame
  <1>4. QED
    BY <1>3 DEF Moved, f, g, Moves

LEMMA InFlightInt == ASSUME NEW t \in TxRecord, NEW l PROVE InFlight(t, l) \in Int
  <1>1. t.amount \in Int /\ Taken(t) \in Int
    BY DEF TxRecord, Taken
  <1>2. QED
    BY <1>1 DEF InFlight

LEMMA HeldInt ==
  ASSUME StockTypeOK, NEW l
  PROVE  OnHand(l) \in Int /\ Open(l) \in Int
  <1> DEFINE f == [r \in Rows |-> IF site[r] = l THEN stock[r] ELSE 0]
             g == [x \in Slots |-> InFlight(tx[x], l)]
  <1>1. IsFiniteSet(Rows) /\ IsFiniteSet(Slots)
    BY StockViewAssumption DEF StockViewAssumption
  <1>2. \A r \in Rows : f[r] \in Int
    BY DEF StockTypeOK
  <1>3. \A x \in Slots : g[x] \in Int
    BY InFlightInt DEF StockTypeOK
  <1>4. DOMAIN f = Rows /\ DOMAIN g = Slots
    OBVIOUS
  <1> HIDE DEF f, g
  <1>5. SumFunction(f) \in Int /\ SumFunction(g) \in Int
    BY <1>1, <1>2, <1>3, <1>4, SumFunctionInt
  <1>6. QED
    BY <1>5 DEF OnHand, Open, f, g

-----------------------------------------------------------------------------
(* The requests of inventory-service.                                      *)

\* A step that sends nothing and marks nothing leaves all that is said of the log.
LEMMA LogKept ==
  ASSUME UNCHANGED log
  PROVE  /\ Positions' = Positions
         /\ \A p : Ev(p)' = Ev(p)
         /\ \A l : Touching(l)' = Touching(l)
         /\ \A n, l : After(n, l)' = After(n, l)
         /\ \A S : AllMoves(S)' = AllMoves(S)
         /\ \A S, l : Moved(S, l)' = Moved(S, l)
  <1>1. Positions' = Positions /\ \A p : Ev(p)' = Ev(p)
    BY DEF Positions, Ev
  <1>2. \A l : Touching(l)' = Touching(l)
    BY <1>1 DEF Touching
  <1>3. \A n, l : After(n, l)' = After(n, l)
    BY <1>1, <1>2 DEF After
  <1>4. \A S : AllMoves(S)' = AllMoves(S)
    BY <1>1 DEF AllMoves
  <1>5. \A S, l : Moved(S, l)' = Moved(S, l)
    BY <1>1 DEF Moved, Moves
  <1>6. QED
    BY <1>1, <1>2, <1>3, <1>4, <1>5

LEMMA TellsKept ==
  ASSUME TellsOK, UNCHANGED <<log, quiet, site>>, \A l \in Locations : Held(l)' = Held(l)
  PROVE  TellsOK'
  <1> SUFFICES ASSUME NEW l \in Locations, NEW e \in Touching(l)',
                      Single(l)', Ev(e)'.kind = "adjust", Ev(e)'.holds, quiet'[l] < Ev(e)'.no,
                      AllMoves(After(Ev(e).no, l))'
               PROVE  Ev(e)'.amount + Moved(After(Ev(e).no, l), l)' = Held(l)'
    BY DEF TellsOK, Tells
  <1>1. Ev(e)' = Ev(e) /\ e \in Touching(l)
    BY LogKept
  <1>2. After(Ev(e).no, l)' = After(Ev(e).no, l)
    BY <1>1, LogKept
  <1>3. AllMoves(After(Ev(e).no, l))
    BY <1>2, LogKept
  <1>4. Ev(e).amount + Moved(After(Ev(e).no, l), l) = Held(l)
    BY <1>1, <1>3 DEF TellsOK, Tells, Single
  <1>5. Moved(After(Ev(e).no, l), l)' = Moved(After(Ev(e).no, l), l)
    BY <1>2, LogKept
  <1>6. QED
    BY <1>1, <1>4, <1>5

\* A request whose record stays is about what it was about.
LEMMA SameRequest ==
  ASSUME UNCHANGED site, NEW y \in Slots, tx'[y] = tx[y]
  PROVE  /\ TxAt(y)' = TxAt(y) /\ Places(tx[y])' = Places(tx[y])
         /\ Sound(tx[y])' = Sound(tx[y])
  <1>1. TxAt(y)' = TxAt(y)
    BY DEF TxAt, PartitionOf
  <1>2. Touched(tx[y])' = Touched(tx[y])
    BY DEF Touched
  <1>3. Places(tx[y])' = Places(tx[y])
    BY <1>2 DEF Places
  <1>4. Sound(tx[y])' = Sound(tx[y])
    BY DEF Sound
  <1>5. QED
    BY <1>1, <1>3, <1>4

\* A request whose record stays, while nothing is sent, stays what it was.
LEMMA TxKept ==
  ASSUME UNCHANGED <<log, quiet, site>>, NEW y \in Slots, tx'[y] = tx[y], TxOK(y)
  PROVE  TxOK(y)'
  <1>1. TxAt(y)' = TxAt(y) /\ Places(tx[y])' = Places(tx[y])
    BY DEF TxAt, PartitionOf, Places, Touched
  <1>2. Ev(TxAt(y))' = Ev(TxAt(y)) /\ (TxAt(y) \in Positions)' = (TxAt(y) \in Positions)
    BY <1>1, LogKept DEF Ev
  <1>3. Sound(tx[y])' = Sound(tx[y])
    BY DEF Sound
  <1>4. \A l : Told(y, l)' = Told(y, l)
    BY <1>2 DEF Told
  <1>5. QED
    BY <1>1, <1>2, <1>3, <1>4 DEF TxOK

\* A request whose rows stay where they are has in flight what it had.
LEMMA InFlightKept ==
  ASSUME NEW y, tx'[y] = tx[y], tx[y].step = "sent" => \A r \in Touched(tx[y]) : site'[r] = site[r],
         NEW l
  PROVE  InFlight(tx[y], l)' = InFlight(tx[y], l)
  BY DEF InFlight, Touched, Taken

\* What is in flight at l is the same when every request is what it was there.
LEMMA OpenKept ==
  ASSUME NEW l, \A x \in Slots : InFlight(tx[x], l)' = InFlight(tx[x], l)
  PROVE  Open(l)' = Open(l)
  BY DEF Open

\* One request is what changes.
LEMMA OpenChanged ==
  ASSUME StockTypeOK, StockTypeOK', NEW x \in Slots, NEW l, UNCHANGED site,
         \A y \in Slots : x # y => tx'[y] = tx[y]
  PROVE  Open(l)' = Open(l) - InFlight(tx[x], l) + InFlight(tx[x], l)'
  <1> DEFINE f == [y \in Slots |-> InFlight(tx[y], l)]
             g == [y \in Slots |-> InFlight(tx'[y], l)]
  <1>1. IsFiniteSet(DOMAIN f) /\ DOMAIN g = DOMAIN f /\ x \in DOMAIN f
    BY StockViewAssumption DEF StockViewAssumption
  <1>2. \A y \in Slots : InFlight(tx[y], l) \in Int
    BY InFlightInt DEF StockTypeOK
  <1>3. \A y \in Slots : InFlight(tx'[y], l) \in Int
    <2>1. \A y \in Slots : tx'[y] \in TxRecord
      BY DEF StockTypeOK
    <2>2. QED
      BY <2>1, InFlightInt
  <1>4. \A y \in Slots : InFlight(tx[y], l)' = InFlight(tx'[y], l)
    BY DEF InFlight, Taken
  <1>5. \A y \in DOMAIN f : f[y] \in Int /\ g[y] \in Int
    BY <1>2, <1>3, <1>4
  <1>6. \A y \in DOMAIN f : x # y => g[y] = f[y]
    OBVIOUS
  <1>7. f[x] = InFlight(tx[x], l) /\ g[x] = InFlight(tx[x], l)'
    BY <1>4
  <1>8. Open(l) = SumFunction(f) /\ Open(l)' = SumFunction(g)
    BY <1>4 DEF Open
  <1> HIDE DEF f, g
  <1>9. SumFunction(g) = SumFunction(f) - f[x] + g[x]
    BY <1>1, <1>5, <1>6, OneChanged
  <1>10. QED
    BY <1>7, <1>8, <1>9

\* Requests that have sent their events and keep their records keep their locks.
LEMMA LocksKept ==
  ASSUME LocksOK, UNCHANGED <<log, quiet, site>>,
         \A y \in Slots : tx'[y].step = "sent" => tx'[y] = tx[y]
  PROVE  LocksOK'
  <1>1. \A y, z \in Slots : y # z /\ tx'[y].step = "sent" /\ tx'[z].step = "sent"
                                        => Touched(tx'[y]) \cap Touched(tx'[z]) = {}
    BY DEF LocksOK
  <1>2. ASSUME NEW y \in Slots, tx'[y].step = "sent", NEW l \in Places(tx[y])', Single(l)'
        PROVE  LastAt(y, l)'
    <2>1. tx'[y] = tx[y]
      BY <1>2
    <2>2. TxAt(y)' = TxAt(y) /\ Places(tx[y])' = Places(tx[y])
      BY <2>1 DEF TxAt, PartitionOf, Places, Touched
    <2>3. LastAt(y, l)
      BY <1>2, <2>1, <2>2 DEF LocksOK, Single
    <2>4. Touching(l)' = Touching(l) /\ \A p : Ev(p)' = Ev(p)
      BY LogKept
    <2>5. Ev(TxAt(y))' = Ev(TxAt(y))
      BY <2>2 DEF Ev
    <2>6. QED
      BY <2>3, <2>4, <2>5 DEF LastAt
  <1>3. QED
    BY <1>1, <1>2 DEF LocksOK, Touched

\* A request begins: it has read, and nothing else has happened.
LEMMA BeginInv ==
  ASSUME StockIInv, NEW x \in Slots, NEW u \in TxRecord, u.step = "read", Sound(u),
         tx[x] = NoTx, tx' = [tx EXCEPT ![x] = u], changes' \in 0..MaxChanges,
         UNCHANGED <<stock, site, log, clock, quiet>>
  PROVE  StockIInv' /\ \A l \in Locations : Held(l)' = Held(l)
  <1> USE DEF StockIInv
  <1>1. tx'[x] = u /\ \A y \in Slots : x # y => tx'[y] = tx[y]
    BY DEF StockTypeOK
  <1>2. StockTypeOK'
    BY DEF StockTypeOK
  <1>3. TxsOK'
    <2>1. TxOK(x)'
      BY <1>1 DEF TxOK, Sound
    <2>2. QED
      BY <1>1, <2>1, TxKept DEF TxsOK
  <1>4. LocksOK'
    BY <1>1, LocksKept
  <1>5. LogOK'
    BY LogKept DEF LogOK, EventOK
  <1>6. ASSUME NEW l \in Locations PROVE Held(l)' = Held(l)
    <2>1. InFlight(tx[x], l) = 0 /\ InFlight(tx[x], l)' = 0
      BY <1>1 DEF InFlight, NoTx
    <2>2. \A y \in Slots : x # y => InFlight(tx[y], l)' = InFlight(tx[y], l)
      BY <1>1, InFlightKept
    <2>3. Open(l)' = Open(l)
      BY <2>1, <2>2, OpenKept
    <2>4. OnHand(l)' = OnHand(l)
      BY DEF OnHand
    <2>5. QED
      BY <2>3, <2>4 DEF Held
  <1>7. TellsOK'
    BY <1>6, TellsKept
  <1>8. QED
    BY <1>2, <1>3, <1>4, <1>5, <1>6, <1>7

\* The reads of an adjustment and of a transfer.
LEMMA ReadInv ==
  ASSUME StockIInv, NEW x \in Slots, NEW r \in Rows,
         \/ \E delta \in Deltas : AdjustRead(x, r, delta)
         \/ \E to \in Rows, q \in Quantities : TransferRead(x, r, to, q)
  PROVE  StockIInv' /\ \A l \in Locations : Held(l)' = Held(l)
  <1>0. PICK seen \in Int, n \in Nat, a \in Locations :
          stock[r] = seen /\ changes + 1 = n /\ changes < n /\ site[r] = a
    <2>1. stock[r] \in Int /\ changes + 1 \in Nat /\ changes < changes + 1 /\ site[r] \in Locations
      BY StockViewAssumption DEF StockIInv, StockTypeOK, StockViewAssumption
    <2>2. QED
      BY <2>1
  <1>1. ASSUME NEW delta \in Deltas, AdjustRead(x, r, delta)
        PROVE  StockIInv' /\ \A l \in Locations : Held(l)' = Held(l)
    <2>1. PICK u : u = [kind |-> "adjust", step |-> "read", from |-> {r}, to |-> {}, source |-> a,
                        destination |-> a, seen |-> seen, amount |-> delta, number |-> n,
                        sent |-> 0]
      OBVIOUS
    <2>2. /\ tx[x] = NoTx /\ changes < MaxChanges /\ changes' = n /\ seen + delta >= 0
          /\ UNCHANGED <<stock, site, log, clock, quiet>>
      BY <1>0, <1>1 DEF AdjustRead, Begin
    <2>3. tx' = [tx EXCEPT ![x] = u]
      <3>1. PICK t : t = [NoTx EXCEPT !.kind = "adjust", !.step = "read", !.from = {r},
                           !.source = site[r], !.destination = site[r],
                           !.seen = stock[r], !.amount = delta]
        OBVIOUS
      <3>2. t = [kind |-> "adjust", step |-> "read", from |-> {r}, to |-> {}, source |-> a,
                 destination |-> a, seen |-> seen, amount |-> delta, number |-> 0, sent |-> 0]
        BY <1>0, <3>1 DEF NoTx
      <3>3. [t EXCEPT !.number = n] = u
        BY <2>1, <3>2
      <3>4. tx' = [tx EXCEPT ![x] = [t EXCEPT !.number = n]]
        BY <1>0, <1>1, <3>1 DEF AdjustRead, Begin
      <3>5. QED
        BY <3>3, <3>4
    <2>4. delta \in Int /\ n \in 1..MaxChanges /\ n \in 0..MaxChanges
      BY <1>0, <2>2, StockViewAssumption DEF StockViewAssumption, StockIInv, StockTypeOK
    <2>5. u \in TxRecord
      BY <2>1, <2>4 DEF TxRecord
    <2>6. Sound(u) /\ u.step = "read"
      BY <2>1, <2>2, <2>4 DEF Sound
    <2>7. QED
      BY <2>2, <2>3, <2>4, <2>5, <2>6, BeginInv
  <1>2. ASSUME NEW to \in Rows, NEW q \in Quantities, TransferRead(x, r, to, q)
        PROVE  StockIInv' /\ \A l \in Locations : Held(l)' = Held(l)
    <2>0. PICK b \in Locations : site[to] = b
      BY DEF StockIInv, StockTypeOK
    <2>1. PICK u : u = [kind |-> "transfer", step |-> "read", from |-> {r}, to |-> {to},
                        source |-> a, destination |-> b, seen |-> seen, amount |-> q, number |-> n,
                        sent |-> 0]
      OBVIOUS
    <2>2. /\ tx[x] = NoTx /\ changes < MaxChanges /\ changes' = n
          /\ UNCHANGED <<stock, site, log, clock, quiet>>
      BY <1>0, <1>2 DEF TransferRead, Begin
    <2>3. tx' = [tx EXCEPT ![x] = u]
      <3>1. PICK t : t = [NoTx EXCEPT !.kind = "transfer", !.step = "read", !.from = {r}, !.to = {to},
                           !.source = site[r], !.destination = site[to],
                           !.seen = stock[r], !.amount = q]
        OBVIOUS
      <3>2. t = [kind |-> "transfer", step |-> "read", from |-> {r}, to |-> {to}, source |-> a,
                 destination |-> b, seen |-> seen, amount |-> q, number |-> 0, sent |-> 0]
        BY <1>0, <2>0, <3>1 DEF NoTx
      <3>3. [t EXCEPT !.number = n] = u
        BY <2>1, <3>2
      <3>4. tx' = [tx EXCEPT ![x] = [t EXCEPT !.number = n]]
        BY <1>0, <1>2, <3>1 DEF TransferRead, Begin
      <3>5. QED
        BY <3>3, <3>4
    <2>4. q \in Int /\ q > 0 /\ n \in 1..MaxChanges /\ n \in 0..MaxChanges
      BY <1>0, <2>2, StockViewAssumption DEF StockViewAssumption, StockIInv, StockTypeOK
    <2>5. u \in TxRecord
      BY <2>1, <2>4 DEF TxRecord
    <2>6. Sound(u) /\ u.step = "read"
      BY <2>1, <2>2, <2>4 DEF Sound
    <2>7. QED
      BY <2>2, <2>3, <2>4, <2>5, <2>6, BeginInv
  <1>3. QED
    BY <1>1, <1>2

\* The only row at a location is what is on hand there.
LEMMA OnHandSingle ==
  ASSUME StockTypeOK, NEW r \in Rows, NEW l, site[r] = l, Single(l)
  PROVE  OnHand(l) = stock[r] /\ \A q \in Rows : site[q] = l => q = r
  <1> DEFINE f == [q \in Rows |-> IF site[q] = l THEN stock[q] ELSE 0]
             T == {q \in Rows : site[q] = l}
  <1>1. IsFiniteSet(Rows)
    BY StockViewAssumption DEF StockViewAssumption
  <1>2. IsFiniteSet(T)
    BY <1>1, FS_Subset
  <1>3. PICK z : T = {z}
    BY <1>2, FS_Singleton DEF Single
  <1>4. T = {r} /\ \A q \in Rows : site[q] = l => q = r
    BY <1>3
  <1>5. /\ \A q \in Rows : f[q] \in Int
        /\ \A q \in Rows \ {r} : f[q] = 0
        /\ f[r] = stock[r] /\ DOMAIN f = Rows
    BY <1>4 DEF StockTypeOK
  <1> HIDE DEF f, T
  <1>6. SumFunctionOnSet(f, Rows) = SumFunctionOnSet(f, {r})
    BY <1>1, <1>5, SumWhere
  <1>7. SumFunctionOnSet(f, {r}) = f[r] + SumFunctionOnSet(f, {r} \ {r})
    <2>1. IsFiniteSet({r}) /\ \A q \in {r} : f[q] \in Int
      BY <1>5, FS_Singleton
    <2>2. QED
      BY ONLY <2>1, r \in {r}, SumTakeOut
  <1>8. SumFunctionOnSet(f, {r} \ {r}) = 0
    <2>1. {r} \ {r} = {}
      OBVIOUS
    <2>2. QED
      BY <2>1, SumEmpty
  <1>9. SumFunction(f) = f[r]
    BY <1>5, <1>6, <1>7, <1>8, SumFunctionIs
  <1>10. QED
    BY <1>4, <1>5, <1>9 DEF OnHand, f

\* A location none of whose rows is locked has nothing in flight.
LEMMA NothingOpen ==
  ASSUME NEW l, \A x \in Slots : tx[x].step = "sent" => l \notin Places(tx[x])
  PROVE  Open(l) = 0
  <1> DEFINE f == [x \in Slots |-> InFlight(tx[x], l)]
  <1>1. IsFiniteSet(Slots)
    BY StockViewAssumption DEF StockViewAssumption
  <1>2. \A x \in Slots : f[x] = 0
    BY DEF InFlight, Places, Touched
  <1>3. DOMAIN f = Slots
    OBVIOUS
  <1> HIDE DEF f
  <1>4. SumFunction(f) = 0
    BY <1>1, <1>2, <1>3, SumZero, SumFunctionIs
  <1>5. QED
    BY <1>4 DEF Open, f

\* What the event of a request says.
LEMMA EventIs ==
  ASSUME StockTypeOK, NEW t \in TxRecord, Sound(t), NEW e, e = EventOfTx(t)
  PROVE  /\ PartitionOf(t) \in Partitions /\ e \in EventRecord
         /\ e.kind = t.kind /\ e.no = clock + 1 /\ e.from = t.source /\ e.to = t.destination
         /\ e.amount = IF t.kind = "adjust" THEN t.seen + t.amount ELSE t.amount
         /\ e.holds => /\ \A r \in t.from : site[r] = t.source
                       /\ \A r \in t.to : site[r] = t.destination
                       /\ t.kind = "adjust" => \A r \in t.from : stock[r] = t.seen
                       /\ t.kind = "transfer" => t.source # t.destination
  <1>1. PICK h \in BOOLEAN :
          h <=> /\ \A r \in t.from : site[r] = t.source
                /\ \A r \in t.to : site[r] = t.destination
                /\ IF t.kind = "adjust" THEN \A r \in t.from : stock[r] = t.seen
                   ELSE t.source # t.destination
    OBVIOUS
  <1>2. PICK n \in Nat : n = IF t.kind = "adjust" THEN t.seen + t.amount ELSE t.amount
    BY DEF Sound, TxRecord
  <1>3. e = [kind |-> t.kind, no |-> clock + 1, from |-> t.source, to |-> t.destination,
             amount |-> n, holds |-> h]
    <2>1. h = (/\ \A r \in t.from : site[r] = t.source
               /\ \A r \in t.to : site[r] = t.destination
               /\ IF t.kind = "adjust" THEN \A r \in t.from : stock[r] = t.seen
                  ELSE t.source # t.destination)
      BY <1>1
    <2>2. QED
      BY <1>2, <2>1 DEF EventOfTx
  <1>4. /\ t.kind \in {"adjust", "transfer"} /\ clock + 1 \in Nat
        /\ t.source \in Locations /\ t.destination \in Locations
    BY DEF Sound, StockTypeOK
  <1>5. e \in EventRecord
    BY <1>3, <1>4 DEF EventRecord
  <1>6. PartitionOf(t) \in Partitions
    BY DEF PartitionOf, Partitions, Sound, TxRecord
  <1>7. QED
    BY <1>1, <1>2, <1>3, <1>5, <1>6

\* If it holds, it says what the request is about to change.
LEMMA AnnouncesIs ==
  ASSUME StockTypeOK, NEW u \in TxRecord, Sound(u), u.step = "sent", NEW e \in EventRecord,
         e.kind = u.kind, e.from = u.source, e.to = u.destination,
         e.amount = IF u.kind = "adjust" THEN u.seen + u.amount ELSE u.amount,
         \A r \in u.from : site[r] = u.source, \A r \in u.to : site[r] = u.destination,
         u.kind = "adjust" => \A r \in u.from : stock[r] = u.seen,
         u.kind = "transfer" => u.source # u.destination
  PROVE  Announces(e, u)
  <1>0. u.amount \in Int
    BY DEF TxRecord
  <1>1. CASE u.kind = "adjust"
    <2>1. PICK r \in Rows : u.from = {r} /\ u.to = {} /\ e.from = e.to
      BY <1>1 DEF Sound
    <2>2. Touched(u) = {r} /\ site[r] = e.from /\ e.amount = stock[r] + u.amount
      BY <1>1, <2>1 DEF Touched
    <2>3. Places(u) = {e.from, e.to}
      BY <2>1, <2>2 DEF Places
    <2>4. InFlight(u, e.from) = u.amount
      BY <1>0, <1>1, <2>1, <2>2 DEF InFlight, Taken
    <2>5. QED
      BY <1>1, <2>2, <2>3, <2>4 DEF Announces
  <1>2. CASE u.kind = "transfer"
    <2>1. PICK r \in Rows, q \in Rows : u.from = {r} /\ u.to = {q} /\ e.from # e.to
      BY <1>2 DEF Sound
    <2>2. Touched(u) = {r, q} /\ site[r] = e.from /\ site[q] = e.to
      BY <2>1 DEF Touched
    <2>3. Places(u) = {e.from, e.to}
      BY <2>2 DEF Places
    <2>4. InFlight(u, e.from) = Moves(e, e.from)
      BY <1>0, <1>2, <2>1, <2>2 DEF InFlight, Taken, Moves
    <2>5. InFlight(u, e.to) = Moves(e, e.to)
      BY <1>0, <1>2, <2>1, <2>2 DEF InFlight, Taken, Moves
    <2>6. QED
      BY <1>2, <2>1, <2>3, <2>4, <2>5 DEF Announces
  <1>3. QED
    BY <1>1, <1>2 DEF Sound

\* One event more in the log.
LEMMA LogGrows ==
  ASSUME StockTypeOK, NEW k \in Partitions, NEW e \in EventRecord,
         NEW n, n = Len(log[k]) + 1, NEW new, new = <<k, n>>,
         log' = [log EXCEPT ![k] = Append(@, e)]
  PROVE  log' \in [Partitions -> Seq(EventRecord)] /\ Grows(e, new)
  <1>1. log[k] \in Seq(EventRecord) /\ log'[k] = Append(log[k], e) /\ n \in Nat
        /\ \A j \in Partitions : j # k => log'[j] = log[j]
    BY DEF StockTypeOK
  <1>2. /\ DOMAIN log[k] = 1..Len(log[k]) /\ DOMAIN log'[k] = 1..n /\ n \notin DOMAIN log[k]
        /\ \A i \in DOMAIN log[k] : log'[k][i] = log[k][i]
        /\ log'[k][n] = e
    BY <1>1
  <1>3. DOMAIN log'[k] = DOMAIN log[k] \cup {n}
    BY <1>1, <1>2
  <1>4. log' \in [Partitions -> Seq(EventRecord)]
    BY <1>1 DEF StockTypeOK
  <1>5. new \notin Positions /\ Positions' = Positions \cup {new}
    BY <1>1, <1>2, <1>3 DEF Positions
  <1>6. \A p \in Positions : Ev(p)' = Ev(p)
    BY <1>1, <1>2 DEF Positions, Ev
  <1>7. Ev(new)' = e
    BY <1>2 DEF Ev
  <1>8. \A p : log[p[1]][p[2]] = Ev(p) /\ log'[p[1]][p[2]] = Ev(p)'
    BY DEF Ev
  <1>9. ASSUME NEW l
        PROVE  Touching(l)' = IF l \in {e.from, e.to} THEN Touching(l) \cup {new} ELSE Touching(l)
    <2>1. \A p : p \in Touching(l)' <=> p \in Positions' /\ l \in {Ev(p)'.from, Ev(p)'.to}
      BY <1>8 DEF Touching
    <2>2. \A p : p \in Touching(l) <=> p \in Positions /\ l \in {Ev(p).from, Ev(p).to}
      BY <1>8 DEF Touching
    <2>3. \A p : p \in Touching(l)' <=> p \in Touching(l) \/ (p = new /\ l \in {e.from, e.to})
      BY <1>5, <1>6, <1>7, <2>1, <2>2
    <2>4. QED
      BY <2>3
  <1>10. QED
    BY <1>4, <1>5, <1>6, <1>7, <1>9 DEF Grows

\* One summand more.
LEMMA MovedAdded ==
  ASSUME StockTypeOK, NEW S \in SUBSET Positions, NEW p, p \notin S, S \cup {p} \subseteq Positions',
         \A q \in S : Ev(q)' = Ev(q), NEW l, Moves(Ev(p)', l) \in Int
  PROVE  Moved(S \cup {p}, l)' = Moved(S, l) + Moves(Ev(p)', l)
  <1> DEFINE f == [q \in Positions |-> Moves(Ev(q), l)]
             g == [q \in Positions' |-> Moves(Ev(q)', l)]
             T == S \cup {p}
  <1>1. IsFiniteSet(S)
    BY PositionsFinite, FS_Subset
  <1>2. \A q \in S : f[q] \in Int /\ g[q] = f[q]
    BY MovesInt
  <1>3. g[p] = Moves(Ev(p)', l)
    OBVIOUS
  <1> HIDE DEF f, g
  <1>4. SumFunctionOnSet(g, T) = SumFunctionOnSet(f, S) + g[p]
    BY <1>1, <1>2, <1>3, SumAdded
  <1>5. Moved(S, l) = SumFunctionOnSet(f, S)
    BY DEF Moved, f
  <1>6. Moved(T, l)' = SumFunctionOnSet(g, T)
    BY DEF Moved, g, Moves
  <1>7. QED
    BY <1>3, <1>4, <1>5, <1>6

\* UpdateAndSend is that.
LEMMA SendIs ==
  ASSUME StockIInv, NEW x \in Slots, UpdateAndSend(x)
  PROVE  \E k, e, u, new : Sends(x, k, e, u, new)
  <1>1. PICK t : t = tx[x]
    OBVIOUS
  <1>2. /\ t \in TxRecord /\ t # NoTx /\ Sound(t) /\ t.step = "read" /\ t.sent = 0
        /\ t = [kind |-> t.kind, step |-> "read", from |-> t.from, to |-> t.to,
                source |-> t.source, destination |-> t.destination, seen |-> t.seen,
                amount |-> t.amount, number |-> t.number, sent |-> 0]
    <2>1. t \in TxRecord /\ t.step = "read" /\ t # NoTx
      BY <1>1 DEF UpdateAndSend, StockIInv, StockTypeOK, NoTx
    <2>2. Sound(t) /\ t.sent = 0
      BY <1>1, <2>1 DEF StockIInv, TxsOK, TxOK, Sound
    <2>3. QED
      BY <2>1, <2>2 DEF TxRecord
  <1>3. PICK k, e : k = PartitionOf(t) /\ e = EventOfTx(t)
    OBVIOUS
  <1>4. StockTypeOK
    BY DEF StockIInv
  <1>5. k \in Partitions /\ e \in EventRecord
    BY <1>2, <1>3, <1>4, EventIs
  <1>6. PICK n \in Nat : n = Len(log[k]) + 1 /\ n # 0
    BY <1>4, <1>5 DEF StockTypeOK
  <1>7. PICK u : u = [kind |-> t.kind, step |-> "sent", from |-> t.from, to |-> t.to,
                      source |-> t.source, destination |-> t.destination, seen |-> t.seen,
                      amount |-> t.amount, number |-> t.number, sent |-> n]
    OBVIOUS
  <1>8. u \in TxRecord
    BY <1>2, <1>7 DEF TxRecord
  <1>9. /\ u.kind = t.kind /\ u.step = "sent" /\ u.from = t.from /\ u.to = t.to /\ u.seen = t.seen
        /\ u.source = t.source /\ u.destination = t.destination
        /\ u.amount = t.amount /\ u.number = t.number /\ u.sent = n
    BY <1>7
  <1>10. /\ Sound(u) /\ Touched(u) = Touched(t) /\ PartitionOf(u) = k
         /\ Strays(u) = Strays(t)
    <2>1. Sound(u)
      BY <1>2, <1>6, <1>9 DEF Sound
    <2>2. Touched(u) = Touched(t) /\ PartitionOf(u) = k
      BY <1>3, <1>9 DEF Touched, PartitionOf
    <2>3. QED
      BY <1>9, <2>1, <2>2 DEF Strays, Places
  <1>11. /\ log' = [log EXCEPT ![k] = Append(@, e)] /\ clock' = clock + 1
         /\ UNCHANGED <<stock, site, changes>> /\ departed' = departed \cup Strays(t)
         /\ quiet' = [l \in Locations |-> IF l \in Strays(t) THEN clock + 1 ELSE quiet[l]]
    BY <1>1, <1>3 DEF UpdateAndSend
  <1>12. tx' = [tx EXCEPT ![x] = u]
    <2>1. tx' = [tx EXCEPT ![x] = [t EXCEPT !.step = "sent", !.sent = n]]
      BY <1>1, <1>3, <1>6 DEF UpdateAndSend
    <2>2. [t EXCEPT !.step = "sent", !.sent = n] = u
      <3>1. PICK kd, fr, to, so, de, se, am, nu :
              t = [kind |-> kd, step |-> "read", from |-> fr, to |-> to, source |-> so,
                   destination |-> de, seen |-> se, amount |-> am, number |-> nu, sent |-> 0]
        BY ONLY <1>2
      <3>2. u = [kind |-> kd, step |-> "sent", from |-> fr, to |-> to, source |-> so,
                 destination |-> de, seen |-> se, amount |-> am, number |-> nu, sent |-> n]
        BY ONLY <1>7, <3>1
      <3>3. PICK v : v = [t EXCEPT !.step = "sent", !.sent = n]
        OBVIOUS
      <3>4. v = [kind |-> kd, step |-> "sent", from |-> fr, to |-> to, source |-> so,
                 destination |-> de, seen |-> se, amount |-> am, number |-> nu, sent |-> n]
        BY ONLY <3>1, <3>3
      <3>5. QED
        BY ONLY <3>2, <3>3, <3>4
    <2>3. QED
      BY <2>1, <2>2
  <1>13. \A y \in Slots : y # x /\ tx[y].step = "sent" => Touched(tx[y]) \cap Touched(u) = {}
    BY <1>1, <1>10 DEF UpdateAndSend, Locks
  <1>14. /\ e.kind = u.kind /\ e.no = clock + 1 /\ e.from = u.source /\ e.to = u.destination
         /\ e.amount = IF u.kind = "adjust" THEN u.seen + u.amount ELSE u.amount
    BY <1>2, <1>3, <1>4, <1>9, EventIs
  <1>15. /\ e.kind = "adjust" => e.from = e.to
         /\ e.kind = "transfer" => e.amount > 0
    BY <1>10, <1>14 DEF Sound
  <1>16. ASSUME e.holds PROVE Announces(e, u)
    <2>1. /\ \A r \in u.from : site[r] = u.source
          /\ \A r \in u.to : site[r] = u.destination
          /\ u.kind = "adjust" => \A r \in u.from : stock[r] = u.seen
          /\ u.kind = "transfer" => u.source # u.destination
      BY <1>2, <1>3, <1>4, <1>9, <1>16, EventIs
    <2>2. QED
      BY <1>4, <1>5, <1>8, <1>9, <1>10, <1>14, <2>1, AnnouncesIs
  <1>17. Sends(x, k, e, u, <<k, n>>)
    BY <1>1, <1>2, <1>5, <1>6, <1>8, <1>9, <1>10, <1>11, <1>12, <1>13, <1>14, <1>15, <1>16
       DEF Sends
  <1>18. QED
    BY <1>17

\* Two requests that lock different rows are not both at work on a location of one row.
LEMMA OneAtSingle ==
  ASSUME StockTypeOK, NEW t \in TxRecord, NEW u \in TxRecord, Touched(t) \cap Touched(u) = {},
         NEW l, Single(l), l \in Places(t), l \in Places(u)
  PROVE  FALSE
  <1>1. PICK r \in Rows, q \in Rows : /\ r \in Touched(t) /\ site[r] = l
                                      /\ q \in Touched(u) /\ site[q] = l
    BY DEF Places, Touched, TxRecord
  <1>2. r = q
    BY <1>1, OnHandSingle
  <1>3. QED
    BY <1>1, <1>2

\* The log has one event more.
LEMMA SendLog ==
  ASSUME StockIInv, NEW x \in Slots, NEW k, NEW e, NEW u, NEW new, Sends(x, k, e, u, new)
  PROVE  log' \in [Partitions -> Seq(EventRecord)] /\ Grows(e, new)
  <1>0. StockTypeOK /\ k \in Partitions /\ e \in EventRecord
    BY DEF StockIInv, Sends
  <1>1. PICK n : n = Len(log[k]) + 1
    OBVIOUS
  <1>2. new = <<k, n>> /\ log' = [log EXCEPT ![k] = Append(@, e)]
    BY <1>1 DEF Sends
  <1>3. QED
    BY <1>0, <1>1, <1>2, LogGrows

LEMMA PlacesIn == ASSUME StockTypeOK, NEW t \in TxRecord PROVE Places(t) \subseteq Locations
  BY DEF StockTypeOK, TxRecord, Places, Touched

\* The clock goes on, and nothing quiet is forgotten.
LEMMA SendClock ==
  ASSUME StockIInv, NEW x \in Slots, NEW k, NEW e, NEW u, NEW new, Sends(x, k, e, u, new)
  PROVE  /\ clock \in Nat /\ e.no = clock + 1 /\ clock' = clock + 1
         /\ quiet' \in [Locations -> Nat]
         /\ \A l \in Locations : /\ quiet[l] \in Nat /\ quiet[l] <= quiet'[l]
                                 /\ quiet'[l] <= clock'
                                 /\ l \in Strays(u) => quiet'[l] = e.no
  <1>1. /\ clock \in Nat /\ e.no = clock + 1 /\ clock' = clock + 1 /\ quiet \in [Locations -> Nat]
        /\ quiet' = [l \in Locations |-> IF l \in Strays(u) THEN clock + 1 ELSE quiet[l]]
        /\ \A l \in Locations : quiet[l] <= clock
    BY DEF Sends, StockIInv, StockTypeOK, LogOK
  <1>2. QED
    BY <1>1

\* The log, the requests and the locks once an event was sent.
LEMMA SendKeeps ==
  ASSUME StockIInv, NEW x \in Slots, NEW k, NEW e, NEW u, NEW new, Sends(x, k, e, u, new)
  PROVE  StockTypeOK' /\ TxsOK' /\ LocksOK' /\ LogOK'
  <1>0. StockTypeOK /\ TxsOK /\ LocksOK /\ LogOK /\ k \in Partitions /\ e \in EventRecord
        /\ u \in TxRecord
    BY DEF StockIInv, Sends
  <1>1. tx'[x] = u /\ \A y \in Slots : x # y => tx'[y] = tx[y]
    BY <1>0 DEF Sends, StockTypeOK
  <1>2. log' \in [Partitions -> Seq(EventRecord)] /\ Grows(e, new)
    BY SendLog
  <1> USE DEF Grows
  <1>3. StockTypeOK'
    BY <1>0, <1>2, SendClock DEF StockTypeOK, Sends
  <1>4. TxAt(x)' = new /\ \A y \in Slots : x # y => TxAt(y)' = TxAt(y)
    <2>1. TxAt(x)' = <<PartitionOf(u), u.sent>>
      BY <1>1 DEF TxAt, PartitionOf
    <2>2. <<PartitionOf(u), u.sent>> = new
      BY DEF Sends
    <2>3. ASSUME NEW y \in Slots, x # y PROVE TxAt(y)' = TxAt(y)
      <3>1. tx'[y] = tx[y]
        BY <1>1, <2>3
      <3>2. QED
        BY <3>1 DEF TxAt, PartitionOf
    <2>4. QED
      BY <2>1, <2>2, <2>3
  <1>5. TxsOK'
    <2>1. TxOK(x)'
      <3>1. Places(tx[x])' = Places(u) /\ Places(u) \subseteq Locations
        BY <1>0, <1>1, PlacesIn DEF Places, Sends, Touched
      <3>2. Sound(tx[x])'
        BY <1>1 DEF Sends, Sound
      <3>3. Ev(TxAt(x))' = e
        BY <1>2, <1>4 DEF Ev
      <3>4. ASSUME NEW l \in Places(u) PROVE Told(x, l)'
        <4>1. l \in {e.from, e.to} \/ l \in Strays(u)
          BY DEF Sends, Strays
        <4>2. l \in Strays(u) => e.no <= quiet'[l]
          BY <3>1, SendClock
        <4>3. QED
          BY <3>3, <4>1, <4>2 DEF Told
      <3>5. QED
        BY <1>1, <1>2, <1>4, <3>1, <3>2, <3>4 DEF TxOK, Sends
    <2>2. ASSUME NEW y \in Slots, x # y PROVE TxOK(y)'
      <3>0. tx'[y] = tx[y] /\ UNCHANGED site
        BY <1>1, <2>2 DEF Sends
      <3>1. Places(tx[y])' = Places(tx[y]) /\ Sound(tx[y])' = Sound(tx[y])
        BY <3>0, SameRequest
      <3>2. TxAt(y)' = TxAt(y)
        BY <1>4, <2>2
      <3>3. TxAt(y) \in Positions => Ev(TxAt(y))' = Ev(TxAt(y))
        BY <1>2, <3>2 DEF Ev
      <3>4. ASSUME TxAt(y) \in Positions, NEW l \in Places(tx[y]), Told(y, l) PROVE Told(y, l)'
        <4>1. l \in Locations /\ Ev(TxAt(y)).no \in Nat
          BY <1>0, <3>4, PlacesIn, EvType DEF StockTypeOK, EventRecord
        <4>2. quiet[l] \in Nat /\ quiet'[l] \in Nat /\ quiet[l] <= quiet'[l]
          BY <4>1, SendClock
        <4>3. QED
          BY <3>3, <3>4, <4>1, <4>2 DEF Told
      <3>5. QED
        BY <1>0, <1>1, <1>2, <2>2, <3>1, <3>2, <3>3, <3>4 DEF TxOK, TxsOK
    <2>3. QED
      BY <2>1, <2>2 DEF TxsOK
  <1>6. LogOK'
    <2>1. clock \in Nat /\ e.no = clock + 1 /\ clock' = clock + 1
      BY <1>0 DEF Sends, StockTypeOK
    <2>2. \A p \in Positions : EventOK(Ev(p))' /\ Ev(p).no <= clock
      BY <1>0, <1>2, <2>1 DEF LogOK, EventOK
    <2>3. EventOK(Ev(new))'
      <3>1. e.no \in 1..clock'
        BY <2>1
      <3>2. e.kind = "adjust" => e.from = e.to
        BY DEF Sends
      <3>3. e.kind = "transfer" => e.amount > 0 /\ (e.holds => e.from # e.to)
        BY DEF Sends, Announces
      <3>4. QED
        BY <1>2, <3>1, <3>2, <3>3 DEF EventOK
    <2>4. \A l \in Locations : quiet'[l] <= clock'
      BY SendClock
    <2>5. \A p \in Positions : Ev(p)'.no # Ev(new)'.no /\ Ev(p).no \in Nat
      BY <1>0, <1>2, <2>1, <2>2, EvType DEF EventRecord
    <2>6. \A p, q \in Positions' : Ev(p)'.no = Ev(q)'.no => p = q
      BY <1>0, <1>2, <2>5 DEF LogOK
    <2>7. \A p \in Positions' : EventOK(Ev(p))'
      BY <1>2, <2>2, <2>3
    <2>8. QED
      BY ONLY <2>4, <2>6, <2>7 DEF LogOK
  <1>7. LocksOK'
    <2>1. \A y, z \in Slots : y # z /\ tx'[y].step = "sent" /\ tx'[z].step = "sent"
                                          => Touched(tx'[y]) \cap Touched(tx'[z]) = {}
      BY <1>0, <1>1 DEF LocksOK, Sends
    <2>2. ASSUME NEW y \in Slots, tx'[y].step = "sent", NEW l \in Places(tx[y])', Single(l)',
                 NEW p \in Touching(l)', Ev(p)'.holds, quiet'[l] < Ev(p)'.no
          PROVE  Ev(p)'.no <= Ev(TxAt(y))'.no
      <3>1. \A z \in Positions : Ev(z)'.no <= clock /\ Ev(z).no <= clock
        BY <1>0, <1>2 DEF LogOK, EventOK
      <3>2. p \in Positions' /\ clock \in Nat /\ e.no = clock + 1
        BY <1>0 DEF Touching, Sends, StockTypeOK
      <3>3. CASE y = x
        <4>1. Ev(TxAt(y))' = e
          BY <1>2, <1>4, <3>3 DEF Ev
        <4>2. Ev(p)' = e \/ (Ev(p)'.no <= clock /\ Ev(p)' \in EventRecord)
          BY <1>0, <1>2, <3>1, <3>2, EvType
        <4>3. QED
          BY <3>2, <4>1, <4>2 DEF EventRecord
      <3>4. CASE y # x
        <4>1. tx'[y] = tx[y] /\ TxAt(y)' = TxAt(y) /\ l \in Places(tx[y]) /\ Single(l)
          BY <1>1, <1>4, <2>2, <3>4 DEF Places, Touched, Single, Sends
        <4>2. tx[y] \in TxRecord /\ tx[y] # NoTx /\ TxAt(y) \in Positions /\ l \in Locations
          BY <1>0, <2>2, <4>1, PlacesIn DEF StockTypeOK, TxsOK, TxOK, NoTx
        <4>3. Ev(TxAt(y))' = Ev(TxAt(y))
          BY <1>2, <4>1, <4>2 DEF Ev
        <4>4. CASE p \in Touching(l)
          <5>1. Ev(p)' = Ev(p) /\ p \in Positions
            BY <1>2, <4>4 DEF Touching
          <5>2. quiet[l] \in Nat /\ quiet'[l] \in Nat /\ quiet[l] <= quiet'[l]
            BY <4>2, SendClock
          <5>3. quiet[l] < Ev(p).no
            <6>1. Ev(p).no \in Nat
              BY <1>0, <5>1, EvType DEF EventRecord
            <6>2. QED
              BY <2>2, <5>1, <5>2, <6>1
          <5>4. LastAt(y, l)
            BY <1>0, <2>2, <4>1 DEF LocksOK
          <5>5. QED
            BY <2>2, <4>3, <4>4, <5>1, <5>3, <5>4 DEF LastAt
        <4>5. CASE p \notin Touching(l)
          <5>1. l \in Places(u)
            <6>1. p = new /\ l \in {e.from, e.to}
              BY <1>2, <2>2, <4>5
            <6>2. e.holds
              BY <1>2, <2>2, <6>1
            <6>3. QED
              BY <6>1, <6>2 DEF Sends, Announces
          <5>2. Touched(tx[y]) \cap Touched(u) = {}
            BY <2>2, <3>4, <4>1 DEF Sends
          <5>3. QED
            BY <1>0, <2>2, <4>1, <4>2, <5>1, <5>2, OneAtSingle
        <4>6. QED
          BY <4>4, <4>5
      <3>5. QED
        BY <3>3, <3>4
    <2>3. QED
      BY <2>1, <2>2 DEF LocksOK, LastAt, Touched
  <1>8. QED
    BY <1>3, <1>5, <1>6, <1>7

\* What a location is about to hold once an event was sent.
LEMMA SendMoves ==
  ASSUME StockIInv, NEW x \in Slots, NEW k, NEW e, NEW u, NEW new, Sends(x, k, e, u, new), NEW l
  PROVE  /\ Held(l)' = Held(l) + InFlight(u, l) /\ InFlight(u, l) \in Int
         /\ l \notin Places(u) => Held(l)' = Held(l)
         /\ OnHand(l)' = OnHand(l)
  <1>0. StockTypeOK /\ StockTypeOK' /\ u \in TxRecord /\ UNCHANGED site
    BY SendKeeps DEF StockIInv, Sends
  <1>1. tx'[x] = u /\ \A y \in Slots : x # y => tx'[y] = tx[y]
    BY <1>0 DEF Sends, StockTypeOK
  <1>2. Open(l)' = Open(l) - InFlight(tx[x], l) + InFlight(tx[x], l)'
    BY <1>0, <1>1, OpenChanged
  <1>3. InFlight(tx[x], l) = 0
    BY DEF Sends, InFlight
  <1>4. InFlight(tx[x], l)' = InFlight(u, l)
    BY <1>0, <1>1 DEF InFlight, Taken
  <1>5. l \notin Places(u) => InFlight(u, l) = 0
    BY DEF InFlight, Places, Touched
  <1>6. OnHand(l)' = OnHand(l)
    BY DEF OnHand, Sends
  <1>7. OnHand(l) \in Int /\ Open(l) \in Int /\ InFlight(u, l) \in Int
    BY <1>0, HeldInt, InFlightInt
  <1>8. Open(l)' = Open(l) + InFlight(u, l)
    BY <1>2, <1>3, <1>4, <1>7
  <1>9. QED
    BY <1>5, <1>6, <1>7, <1>8 DEF Held

\* What the events said before, they say now; the new one tells what will be on hand.
LEMMA SendInv ==
  ASSUME StockIInv, NEW x \in Slots, NEW k, NEW e, NEW u, NEW new, Sends(x, k, e, u, new)
  PROVE  StockIInv'
  <1>0. /\ StockTypeOK /\ TxsOK /\ LocksOK /\ LogOK /\ k \in Partitions /\ e \in EventRecord
        /\ TellsOK /\ u \in TxRecord /\ Sound(u)
    BY DEF StockIInv, Sends
  <1>1. StockTypeOK' /\ TxsOK' /\ LocksOK' /\ LogOK'
    BY SendKeeps
  <1>2. Grows(e, new)
    BY SendLog
  <1>3. \A p \in Positions : Ev(p).no \in Nat /\ Ev(p).no < e.no
    <2>1. clock \in Nat /\ e.no = clock + 1
      BY <1>0 DEF Sends, StockTypeOK
    <2>2. \A p \in Positions : Ev(p).no \in Nat /\ Ev(p).no <= clock
      BY <1>0, EvType DEF LogOK, EventOK, EventRecord
    <2>3. QED
      BY <2>1, <2>2
  <1> USE DEF Grows
  <1>4. ASSUME NEW l \in Locations, NEW d \in Touching(l)',
               Single(l)', Ev(d)'.kind = "adjust", Ev(d)'.holds, quiet'[l] < Ev(d)'.no,
               AllMoves(After(Ev(d).no, l))'
        PROVE  Ev(d)'.amount + Moved(After(Ev(d).no, l), l)' = Held(l)'
    <2>1. PICK m, A : m = Ev(d)'.no /\ A = After(m, l)
      OBVIOUS
    <2>2. After(Ev(d).no, l)' = After(m, l)'
      BY <2>1 DEF After
    <2>3. Touching(l) \subseteq Positions /\ A \subseteq Positions
      BY <2>1 DEF After, Touching
    <2>4. OnHand(l) \in Int /\ Open(l) \in Int /\ Moved(A, l) \in Int
      BY <1>0, <2>3, HeldInt, MovedInt
    <2>9. Single(l)
      BY <1>4 DEF Single, Sends
    <2>10. \A p \in Positions : quiet'[l] < Ev(p).no => quiet[l] < Ev(p).no /\ l \notin Strays(u)
      <3>1. quiet[l] \in Nat /\ quiet'[l] \in Nat /\ quiet[l] <= quiet'[l] /\ e.no \in Nat
            /\ (l \in Strays(u) => quiet'[l] = e.no)
        BY SendClock
      <3>2. QED
        BY <1>3, <3>1
    <2>5. CASE l \notin {e.from, e.to}
      <3>1. d \in Touching(l) /\ Ev(d)' = Ev(d) /\ d \in Positions
        BY <1>2, <1>4, <2>3, <2>5
      <3>2. After(m, l)' = A
        BY <1>2, <2>1, <2>3, <2>5 DEF After
      <3>3. AllMoves(A)
        BY <1>2, <1>4, <2>2, <2>3, <3>2 DEF AllMoves
      <3>4. Ev(d).amount + Moved(A, l) = Held(l)
        BY <1>0, <1>4, <2>1, <2>9, <2>10, <3>1, <3>3 DEF TellsOK, Tells
      <3>5. Moved(A, l)' = Moved(A, l)
        BY <1>0, <1>2, <2>3, MovedKept
      <3>6. Held(l)' = Held(l)
        <4>1. l \notin Strays(u)
          BY <1>4, <2>10, <3>1
        <4>2. l \notin Places(u)
          BY <2>5, <4>1 DEF Strays, Sends
        <4>3. QED
          BY <4>2, SendMoves
      <3>7. QED
        BY <2>2, <3>1, <3>2, <3>4, <3>5, <3>6
    <2>6. CASE l \in {e.from, e.to} /\ d = new
      <3>0. e.kind = "adjust" /\ e.holds /\ m = e.no
        BY <1>2, <1>4, <2>1, <2>6
      <3>1. Announces(e, u) /\ e.from = l /\ l \in Places(u)
        BY <2>6, <3>0 DEF Sends, Announces
      <3>2. PICK r \in Rows : /\ Touched(u) = {r} /\ site[r] = l /\ e.amount = stock[r] + u.amount
                              /\ InFlight(u, l) = u.amount
        BY <3>0, <3>1 DEF Announces
      <3>3. After(m, l)' = {}
        BY <1>2, <1>3, <2>3, <2>6, <3>0, <1>0 DEF After, EventRecord
      <3>4. Moved(After(m, l), l)' = 0
        BY <3>3, SumEmpty DEF Moved
      <3>5. OnHand(l) = stock[r]
        BY <1>0, <2>9, <3>2, OnHandSingle
      <3>6. ASSUME NEW y \in Slots, tx[y].step = "sent", l \in Places(tx[y])
            PROVE  FALSE
        <4>1. Touched(tx[y]) \cap Touched(u) = {} /\ tx[y] \in TxRecord
          BY <1>0, <3>6 DEF Sends, StockTypeOK
        <4>2. QED
          BY <1>0, <2>9, <3>1, <3>6, <4>1, OneAtSingle
      <3>7. Open(l) = 0
        BY <3>6, NothingOpen
      <3>8. Held(l)' = stock[r] + u.amount /\ Held(l)' \in Int
        BY <2>4, <2>6, <3>2, <3>5, <3>7, SendMoves DEF Held
      <3>9. QED
        BY <1>2, <2>2, <2>6, <3>2, <3>4, <3>8
    <2>7. CASE l \in {e.from, e.to} /\ d # new
      <3>1. d \in Touching(l) /\ Ev(d)' = Ev(d) /\ d \in Positions
        BY <1>2, <1>4, <2>3, <2>7
      <3>2. After(m, l)' = A \cup {new}
        BY <1>2, <1>3, <2>1, <2>3, <2>7, <3>1 DEF After
      <3>3. AllMoves(A) /\ e.kind = "transfer" /\ e.holds
        BY <1>2, <1>4, <2>2, <2>3, <3>2 DEF AllMoves
      <3>4. Ev(d).amount + Moved(A, l) = Held(l)
        BY <1>0, <1>4, <2>1, <2>9, <2>10, <3>1, <3>3 DEF TellsOK, Tells
      <3>5. Moves(Ev(new)', l) = Moves(e, l) /\ Moves(e, l) = InFlight(u, l)
        BY <1>2, <2>7, <3>3 DEF Sends, Announces
      <3>6. Held(l)' = Held(l) + InFlight(u, l) /\ InFlight(u, l) \in Int
        BY SendMoves
      <3>7. new \notin A /\ A \cup {new} \subseteq Positions' /\ \A q \in A : Ev(q)' = Ev(q)
        BY <1>2, <2>3
      <3>8. Moved(A \cup {new}, l)' = Moved(A, l) + Moves(Ev(new)', l)
        BY <1>0, <2>3, <3>5, <3>6, <3>7, MovedAdded
      <3>9. Ev(d).amount \in Int
        BY <1>0, <3>1, EvType DEF EventRecord
      <3>10. Moved(After(Ev(d).no, l), l)' = Moved(A, l) + InFlight(u, l)
        BY <2>2, <3>2, <3>5, <3>8
      <3>11. QED
        BY <2>4, <3>1, <3>4, <3>6, <3>9, <3>10
    <2>8. QED
      BY <2>5, <2>6, <2>7
  <1>5. TellsOK'
    BY <1>4 DEF TellsOK, Tells
  <1>6. QED
    BY <1>1, <1>5 DEF StockIInv

\* What one row gains, its location gains.
LEMMA OneGains ==
  ASSUME NEW f, IsFiniteSet(DOMAIN f), \A z \in DOMAIN f : f[z] \in Int, NEW r \in DOMAIN f,
         NEW n \in Int, NEW g, g = [f EXCEPT ![r] = @ + n]
  PROVE  /\ SumFunction(g) = SumFunction(f) + n /\ SumFunction(f) \in Int
         /\ DOMAIN g = DOMAIN f /\ \A z \in DOMAIN f : g[z] \in Int
  <1>1. /\ DOMAIN g = DOMAIN f /\ g[r] = f[r] + n
        /\ \A z \in DOMAIN f : z # r => g[z] = f[z]
    OBVIOUS
  <1>2. \A z \in DOMAIN f : f[z] \in Int /\ g[z] \in Int
    BY <1>1
  <1>3. SumFunction(g) = SumFunction(f) - f[r] + g[r]
    BY <1>1, <1>2, OneChanged
  <1>4. SumFunction(f) \in Int
    BY SumFunctionInt
  <1>5. QED
    BY <1>1, <1>2, <1>3, <1>4

\* Of two rows, perhaps one and the same, one gains m and the other n.
LEMMA OnHandMoved ==
  ASSUME StockTypeOK, NEW r \in Rows, NEW q \in Rows, NEW m \in Int, NEW n \in Int,
         UNCHANGED site, NEW l,
         \A z \in Rows : stock'[z] = stock[z] + (IF z = r THEN m ELSE 0) + (IF z = q THEN n ELSE 0)
  PROVE  OnHand(l)' = OnHand(l) + (IF site[r] = l THEN m ELSE 0) + (IF site[q] = l THEN n ELSE 0)
  <1>1. PICK f, a, b : /\ f = [z \in Rows |-> IF site[z] = l THEN stock[z] ELSE 0]
                       /\ a = (IF site[r] = l THEN m ELSE 0) /\ b = (IF site[q] = l THEN n ELSE 0)
    OBVIOUS
  <1>2. PICK g : g = [f EXCEPT ![r] = @ + a]
    OBVIOUS
  <1>3. PICK h : h = [g EXCEPT ![q] = @ + b]
    OBVIOUS
  <1>4. /\ IsFiniteSet(DOMAIN f) /\ DOMAIN f = Rows /\ a \in Int /\ b \in Int
        /\ \A z \in DOMAIN f : f[z] \in Int
    BY <1>1, StockViewAssumption DEF StockViewAssumption, StockTypeOK
  <1>5. /\ SumFunction(g) = SumFunction(f) + a /\ SumFunction(f) \in Int
        /\ DOMAIN g = DOMAIN f /\ \A z \in DOMAIN f : g[z] \in Int
    <2>1. r \in DOMAIN f
      BY <1>4
    <2>2. QED
      BY ONLY <1>2, <1>4, <2>1, OneGains
  <1>6. SumFunction(h) = SumFunction(g) + b
    <2>1. IsFiniteSet(DOMAIN g) /\ q \in DOMAIN g /\ \A z \in DOMAIN g : g[z] \in Int
      BY <1>4, <1>5
    <2>2. QED
      BY ONLY <1>3, <1>4, <2>1, OneGains
  <1>7. h = [z \in Rows |-> IF site'[z] = l THEN stock'[z] ELSE 0]
    <2>1. h = [z \in Rows |-> h[z]]
      BY <1>1, <1>2, <1>3
    <2>2. \A z \in Rows : h[z] = f[z] + (IF z = r THEN a ELSE 0) + (IF z = q THEN b ELSE 0)
      <3>1. \A z \in Rows : g[z] = IF z = r THEN f[z] + a ELSE f[z]
        BY <1>2, <1>4
      <3>2. \A z \in Rows : h[z] = IF z = q THEN g[z] + b ELSE g[z]
        BY <1>3, <1>4, <1>5
      <3>3. QED
        BY <1>4, <3>1, <3>2
    <2>3. \A z \in Rows : h[z] = IF site'[z] = l THEN stock'[z] ELSE 0
      <3>1. \A z \in Rows : f[z] = IF site[z] = l THEN stock[z] ELSE 0
        BY <1>1
      <3>2. \A z \in Rows : stock[z] \in Int
        BY DEF StockTypeOK
      <3>3. QED
        BY <1>1, <1>4, <2>2, <3>1, <3>2
    <2>4. QED
      BY <2>1, <2>3
  <1>8. OnHand(l) = SumFunction(f) /\ OnHand(l)' = SumFunction(h)
    BY <1>1, <1>7 DEF OnHand
  <1>9. QED
    BY <1>1, <1>4, <1>5, <1>6, <1>8

LEMMA OnHandKept ==
  ASSUME NEW l, \A q \in Rows : /\ site'[q] = l <=> site[q] = l
                                /\ site[q] = l => stock'[q] = stock[q]
  PROVE  OnHand(l)' = OnHand(l)
  <1>1. [q \in Rows |-> IF site'[q] = l THEN stock'[q] ELSE 0]
          = [q \in Rows |-> IF site[q] = l THEN stock[q] ELSE 0]
    <2>1. ASSUME NEW q \in Rows
          PROVE  (IF site'[q] = l THEN stock'[q] ELSE 0) = (IF site[q] = l THEN stock[q] ELSE 0)
      <3>1. CASE site[q] = l
        BY <3>1
      <3>2. CASE site[q] # l
        BY <3>2
      <3>3. QED
        BY <3>1, <3>2
    <2>2. QED
      BY <2>1
  <1>2. QED
    BY <1>1 DEF OnHand

\* A request that is not at work has nothing in flight.
LEMMA NoneInFlight == \A t, l : t.step # "sent" => InFlight(t, l) = 0
  BY DEF InFlight

\* The commit: what was in flight is on hand.
LEMMA CommitInv ==
  ASSUME StockIInv, NEW x \in Slots, CommitChange(x)
  PROVE  StockIInv' /\ UNCHANGED log /\ \A l \in Locations : Held(l)' = Held(l)
  <1> USE DEF StockIInv
  <1>0. UNCHANGED <<site, changes, log, clock, quiet>>
    BY DEF CommitChange
  <1>1. PICK t : t = tx[x]
    OBVIOUS
  <1>2. t \in TxRecord /\ t.step = "sent" /\ Sound(t)
    BY <1>1 DEF CommitChange, StockTypeOK, TxsOK, TxOK, NoTx
  <1>3. tx' = [tx EXCEPT ![x] = NoTx]
    BY DEF CommitChange
  <1>4. tx'[x] = NoTx /\ NoTx.step = "idle" /\ \A y \in Slots : x # y => tx'[y] = tx[y]
    BY <1>3 DEF StockTypeOK, NoTx
  <1>5. /\ stock' \in [Rows -> Int] /\ t.amount \in Int /\ Taken(t) \in Int
        /\ \A q \in Rows : stock'[q] = stock[q] + (IF q \in t.from THEN Taken(t) ELSE 0)
                                               + (IF q \in t.to THEN t.amount ELSE 0)
    <2>1. t.amount \in Int /\ Taken(t) \in Int /\ stock \in [Rows -> Int]
      BY <1>2 DEF TxRecord, StockTypeOK, Taken
    <2>2. stock' = [q \in Rows |-> stock[q] + (IF q \in t.from THEN Taken(t) ELSE 0)
                                             + (IF q \in t.to THEN t.amount ELSE 0)]
      BY <1>1 DEF CommitChange, Taken
    <2>3. QED
      BY <2>1, <2>2
  <1>6. StockTypeOK'
    <2>1. NoTx \in TxRecord
      BY DEF NoTx, TxRecord
    <2>2. QED
      BY <1>0, <1>3, <1>5, <2>1 DEF StockTypeOK
  <1>7. TxsOK'
    BY <1>0, <1>4, TxKept DEF TxsOK, TxOK
  <1>8. LocksOK'
    BY <1>0, <1>4, LocksKept
  <1>9. LogOK'
    BY <1>0, LogKept DEF LogOK, EventOK
  <1>10. ASSUME NEW l \in Locations PROVE Held(l)' = Held(l)
    <2>1. Open(l)' = Open(l) - InFlight(t, l)
      <3>1. Open(l)' = Open(l) - InFlight(tx[x], l) + InFlight(tx[x], l)'
        BY <1>0, <1>4, <1>6, OpenChanged
      <3>2. InFlight(tx[x], l)' = 0
        BY <1>4 DEF InFlight
      <3>3. Open(l) \in Int /\ InFlight(t, l) \in Int
        BY <1>2, HeldInt, InFlightInt
      <3>4. QED
        BY <1>1, <3>1, <3>2, <3>3
    <2>2. OnHand(l) \in Int /\ Open(l) \in Int /\ InFlight(t, l) \in Int
      BY <1>2, HeldInt, InFlightInt
    <2>3. OnHand(l)' = OnHand(l) + InFlight(t, l)
      <3>1. PICK r \in Rows, q \in Rows, n \in Int :
              /\ t.from = {r}
              /\ \A z \in Rows : (IF z \in t.to THEN t.amount ELSE 0) = IF z = q THEN n ELSE 0
              /\ (IF \E z \in t.to : site[z] = l THEN t.amount ELSE 0) = IF site[q] = l THEN n ELSE 0
        <4>1. CASE t.kind = "adjust"
          <5>1. t.to = {} /\ \E r \in Rows : t.from = {r}
            BY <1>2, <4>1 DEF Sound
          <5>2. QED
            BY <5>1
        <4>2. CASE t.kind = "transfer"
          <5>1. PICK r \in Rows, q \in Rows : t.from = {r} /\ t.to = {q}
            BY <1>2, <4>2 DEF Sound
          <5>2. QED
            BY <1>5, <5>1
        <4>3. QED
          BY <1>2, <4>1, <4>2 DEF Sound
      <3>2. PICK m \in Int : m = Taken(t)
        BY <1>5
      <3>3. \A z \in Rows : stock'[z] = stock[z] + (IF z = r THEN m ELSE 0) + (IF z = q THEN n ELSE 0)
        BY <1>5, <3>1, <3>2
      <3>4. OnHand(l)' = OnHand(l) + (IF site[r] = l THEN m ELSE 0) + (IF site[q] = l THEN n ELSE 0)
        BY <1>0, <3>3, OnHandMoved
      <3>5. InFlight(t, l) = (IF site[r] = l THEN m ELSE 0) + (IF site[q] = l THEN n ELSE 0)
        BY <1>2, <3>1, <3>2 DEF InFlight
      <3>6. QED
        BY <2>2, <3>4, <3>5
    <2>4. QED
      BY <2>1, <2>2, <2>3 DEF Held
  <1>11. TellsOK'
    BY <1>0, <1>10, TellsKept
  <1>12. QED
    BY <1>0, <1>6, <1>7, <1>8, <1>9, <1>10, <1>11

\* A change nothing tells of: no adjustment tells what is at its location any more.
LEMMA QuietInv ==
  ASSUME StockIInv, NEW r \in Rows, NEW delta \in Deltas \cup {0}, NEW k \in Locations,
         QuietChange(r, delta, k)
  PROVE  /\ StockIInv' /\ UNCHANGED log
         /\ \A l \in Locations : l \notin departed' => l \notin departed /\ Held(l)' = Held(l)
  <1> USE DEF StockIInv
  <1>0. PICK a \in Locations : a = site[r]
    BY DEF StockTypeOK
  <1>1. /\ UNCHANGED <<tx, log>> /\ clock' = clock + 1 /\ clock \in Nat /\ delta \in Int
        /\ quiet' = [quiet EXCEPT ![a] = clock + 1, ![k] = clock + 1]
        /\ site' = [site EXCEPT ![r] = k]
        /\ stock' = [stock EXCEPT ![r] = @ + delta]
        /\ departed' = departed \cup {a, k}
        /\ \A y \in Slots : ~Locks(y, r)
    BY <1>0, StockViewAssumption DEF QuietChange, StockTypeOK, StockViewAssumption
  <1>2. /\ quiet' \in [Locations -> Nat]
        /\ \A l \in Locations : /\ quiet[l] \in Nat /\ quiet[l] <= quiet'[l] /\ quiet'[l] <= clock'
                                /\ l \in {a, k} => quiet'[l] = clock + 1
                                /\ l \notin {a, k} => quiet'[l] = quiet[l]
    <2>1. quiet \in [Locations -> Nat] /\ \A l \in Locations : quiet[l] <= clock
      BY DEF StockTypeOK, LogOK
    <2>2. QED
      BY <1>1, <2>1
  <1>3. /\ site' \in [Rows -> Locations] /\ stock' \in [Rows -> Int] /\ site'[r] = k
        /\ \A q \in Rows : q # r => stock'[q] = stock[q] /\ site'[q] = site[q]
    BY <1>1 DEF StockTypeOK
  <1>4. StockTypeOK'
    <2>1. changes' \in 0..MaxChanges
      BY StockViewAssumption DEF StockTypeOK, QuietChange, StockViewAssumption
    <2>2. QED
      BY <1>1, <1>2, <1>3, <2>1 DEF StockTypeOK
  <1>5. ASSUME NEW y \in Slots, tx[y].step = "sent"
        PROVE  /\ \A q \in Touched(tx[y]) : site'[q] = site[q]
               /\ Places(tx[y])' = Places(tx[y]) /\ Places(tx[y]) \subseteq Locations
               /\ TxAt(y)' = TxAt(y) /\ TxAt(y) \in Positions /\ Ev(TxAt(y))' = Ev(TxAt(y))
               /\ Sound(tx[y]) /\ \A l \in Places(tx[y]) : Told(y, l)
    <2>1. tx[y] \in TxRecord /\ tx[y] # NoTx
      BY <1>5 DEF StockTypeOK, NoTx
    <2>2. \A q \in Touched(tx[y]) : q \in Rows /\ q # r
      BY <1>1, <1>5, <2>1 DEF Locks, Touched, TxRecord
    <2>3. \A q \in Touched(tx[y]) : site'[q] = site[q]
      BY <1>3, <2>2
    <2>4. Places(tx[y])' = Places(tx[y])
      BY <1>1, <2>3 DEF Places, Touched
    <2>5. TxAt(y)' = TxAt(y)
      BY <1>1 DEF TxAt, PartitionOf
    <2>6. Ev(TxAt(y))' = Ev(TxAt(y))
      BY <1>1, <2>5 DEF Ev
    <2>7. TxOK(y) /\ Places(tx[y]) \subseteq Locations
      BY <2>1, PlacesIn DEF TxsOK
    <2>8. QED
      BY <1>5, <2>1, <2>3, <2>4, <2>5, <2>6, <2>7 DEF TxOK
  <1>6. TxsOK'
    <2>1. ASSUME NEW y \in Slots, tx[y] # NoTx PROVE Sound(tx[y])'
      <3>1. Sound(tx[y]) /\ tx'[y] = tx[y]
        BY <1>1, <2>1 DEF TxsOK, TxOK
      <3>2. QED
        BY <3>1 DEF Sound
    <2>2. ASSUME NEW y \in Slots, tx[y].step = "sent", NEW l \in Places(tx[y]) PROVE Told(y, l)'
      <3>1. Told(y, l) /\ l \in Locations /\ Ev(TxAt(y))' = Ev(TxAt(y)) /\ TxAt(y) \in Positions
        BY <1>5, <2>2
      <3>2. Ev(TxAt(y)).no \in Nat
        BY <3>1, EvType DEF EventRecord
      <3>3. quiet[l] \in Nat /\ quiet'[l] \in Nat /\ quiet[l] <= quiet'[l]
        BY <1>2, <3>1
      <3>4. QED
        BY <3>1, <3>2, <3>3 DEF Told
    <2>3. Positions' = Positions
      BY <1>1, LogKept
    <2>4. ASSUME NEW y \in Slots PROVE TxOK(y)'
      <3>1. CASE tx[y].step = "sent"
        <4>1. Places(tx[y])' = Places(tx[y]) /\ TxAt(y)' = TxAt(y) /\ TxAt(y) \in Positions
          BY <1>5, <3>1
        <4>2. \A l \in Places(tx[y])' : Told(y, l)'
          BY <2>2, <3>1, <4>1
        <4>3. QED
          BY <1>1, <2>1, <2>3, <4>1, <4>2 DEF TxOK
      <3>2. CASE tx[y].step # "sent"
        BY <1>1, <2>1, <3>2 DEF TxOK
      <3>3. QED
        BY <3>1, <3>2
    <2>5. QED
      BY <2>4 DEF TxsOK
  <1>7. ASSUME NEW l \in Locations, l \notin {a, k}
        PROVE  /\ \A q \in Rows : (site'[q] = l <=> site[q] = l) /\ (site[q] = l => stock'[q] = stock[q])
               /\ Single(l)' = Single(l)
    <2>1. \A q \in Rows : (site'[q] = l <=> site[q] = l) /\ (site[q] = l => stock'[q] = stock[q])
      BY <1>0, <1>3, <1>7
    <2>2. {q \in Rows : site'[q] = l} = {q \in Rows : site[q] = l}
      BY <2>1
    <2>3. QED
      BY <2>1, <2>2 DEF Single
  <1>8. LocksOK'
    <2>1. \A y, z \in Slots : y # z /\ tx'[y].step = "sent" /\ tx'[z].step = "sent"
                                          => Touched(tx'[y]) \cap Touched(tx'[z]) = {}
      BY <1>1 DEF LocksOK
    <2>2. ASSUME NEW y \in Slots, tx'[y].step = "sent", NEW l \in Places(tx[y])', Single(l)',
                 NEW p \in Touching(l)', Ev(p)'.holds, quiet'[l] < Ev(p)'.no
          PROVE  Ev(p)'.no <= Ev(TxAt(y))'.no
      <3>1. tx[y].step = "sent"
        BY <1>1, <2>2
      <3>2. l \in Places(tx[y]) /\ l \in Locations /\ Ev(TxAt(y))' = Ev(TxAt(y))
        BY <1>5, <2>2, <3>1
      <3>3. p \in Touching(l) /\ p \in Positions /\ Ev(p)' = Ev(p)
        BY <1>1, <2>2, LogKept DEF Touching
      <3>4. Ev(p).no \in Nat /\ Ev(p).no <= clock
        BY <3>3, EvType DEF LogOK, EventOK, EventRecord
      <3>5. l \notin {a, k}
        BY <1>1, <1>2, <2>2, <3>2, <3>3, <3>4
      <3>6. Single(l) /\ quiet[l] < Ev(p).no
        BY <1>2, <1>7, <2>2, <3>2, <3>3, <3>5
      <3>7. LastAt(y, l)
        BY <3>1, <3>2, <3>6 DEF LocksOK
      <3>8. QED
        BY <2>2, <3>2, <3>3, <3>6, <3>7 DEF LastAt
    <2>3. QED
      BY <2>1, <2>2 DEF LocksOK, LastAt, Touched
  <1>9. LogOK'
    <2>1. \A p \in Positions : EventOK(Ev(p))'
      BY <1>1, LogKept DEF LogOK, EventOK
    <2>2. \A l \in Locations : quiet'[l] <= clock'
      BY <1>2
    <2>3. QED
      BY <1>1, <2>1, <2>2, LogKept DEF LogOK
  <1>10. ASSUME NEW l \in Locations, l \notin {a, k} PROVE Held(l)' = Held(l)
    <2>1. OnHand(l)' = OnHand(l)
      BY <1>7, <1>10, OnHandKept
    <2>2. \A y \in Slots : InFlight(tx[y], l)' = InFlight(tx[y], l)
      <3>1. ASSUME NEW y \in Slots PROVE InFlight(tx[y], l)' = InFlight(tx[y], l)
        <4>1. tx'[y] = tx[y] /\ (tx[y].step = "sent" => \A q \in Touched(tx[y]) : site'[q] = site[q])
          BY <1>1, <1>5
        <4>2. QED
          BY <4>1, InFlightKept
      <3>2. QED
        BY <3>1
    <2>3. Open(l)' = Open(l)
      BY <2>2, OpenKept
    <2>4. QED
      BY <2>1, <2>3 DEF Held
  <1>11. TellsOK'
    <2> SUFFICES ASSUME NEW l \in Locations, NEW e \in Touching(l)',
                        Single(l)', Ev(e)'.kind = "adjust", Ev(e)'.holds, quiet'[l] < Ev(e)'.no,
                        AllMoves(After(Ev(e).no, l))'
                 PROVE  Ev(e)'.amount + Moved(After(Ev(e).no, l), l)' = Held(l)'
      BY DEF TellsOK, Tells
    <2>1. Ev(e)' = Ev(e) /\ e \in Touching(l) /\ e \in Positions
      BY <1>1, LogKept DEF Touching
    <2>2. Ev(e).no <= clock /\ Ev(e).no \in Nat
      BY <2>1, EvType DEF LogOK, EventOK, EventRecord
    <2>3. l \notin {a, k}
      BY <1>1, <1>2, <2>1, <2>2
    <2>4. After(Ev(e).no, l)' = After(Ev(e).no, l)
      BY <1>1, <2>1, LogKept
    <2>5. AllMoves(After(Ev(e).no, l))
      BY <1>1, <2>4, LogKept
    <2>6. Single(l) /\ quiet[l] < Ev(e).no
      BY <1>2, <1>7, <2>1, <2>3
    <2>7. Ev(e).amount + Moved(After(Ev(e).no, l), l) = Held(l)
      BY <2>1, <2>5, <2>6 DEF TellsOK, Tells
    <2>8. Moved(After(Ev(e).no, l), l)' = Moved(After(Ev(e).no, l), l)
      BY <1>1, <2>4, LogKept
    <2>9. QED
      BY <1>10, <2>1, <2>3, <2>7, <2>8
  <1>12. QED
    BY <1>1, <1>4, <1>6, <1>8, <1>9, <1>10, <1>11

\* The event of a request that fails says no more that it holds; what else the log says, stays.
LEMMA FailLog ==
  ASSUME StockTypeOK, NEW k \in Partitions, NEW n \in 1..Len(log[k]), NEW at, at = <<k, n>>,
         log' = [log EXCEPT ![k][n].holds = FALSE]
  PROVE  /\ log' \in [Partitions -> Seq(EventRecord)]
         /\ Positions' = Positions
         /\ \A p \in Positions : /\ Ev(p)'.kind = Ev(p).kind /\ Ev(p)'.no = Ev(p).no
                                 /\ Ev(p)'.from = Ev(p).from /\ Ev(p)'.to = Ev(p).to
                                 /\ Ev(p)'.amount = Ev(p).amount
         /\ ~Ev(at)'.holds
         /\ \A p \in Positions : p = at \/ Ev(p)' = Ev(p)
  <1>1. /\ log[k] \in Seq(EventRecord) /\ DOMAIN log[k] = 1..Len(log[k])
        /\ \A j \in Partitions : log[j] \in Seq(EventRecord)
    BY DEF StockTypeOK
  <1>2. PICK e, f : e = log[k][n] /\ f = [e EXCEPT !.holds = FALSE]
    OBVIOUS
  <1>3. e \in EventRecord
    BY <1>1, <1>2
  <1>4. /\ f \in EventRecord /\ f.kind = e.kind /\ f.no = e.no /\ f.from = e.from /\ f.to = e.to
        /\ f.amount = e.amount /\ ~f.holds
    BY <1>2, <1>3 DEF EventRecord
  <1>5. PICK s : s = [log[k] EXCEPT ![n] = f]
    OBVIOUS
  <1>6. s \in Seq(EventRecord) /\ DOMAIN s = DOMAIN log[k] /\ s[n] = f
        /\ \A i \in DOMAIN log[k] : i # n => s[i] = log[k][i]
    BY <1>1, <1>4, <1>5
  <1>7. log' = [log EXCEPT ![k] = s]
    BY <1>2, <1>5
  <1>8. log'[k] = s /\ \A j \in Partitions : j # k => log'[j] = log[j]
    BY <1>7 DEF StockTypeOK
  <1>9. log' \in [Partitions -> Seq(EventRecord)]
    BY <1>6, <1>7 DEF StockTypeOK
  <1>10. \A j \in Partitions : DOMAIN log'[j] = DOMAIN log[j]
    BY <1>6, <1>8
  <1>11. Positions' = Positions
    BY <1>10 DEF Positions
  <1>12. Ev(at)' = f /\ Ev(at) = e
    BY <1>2, <1>6, <1>8 DEF Ev
  <1>13. ASSUME NEW p \in Positions, p # at PROVE Ev(p)' = Ev(p)
    <2>1. p = <<p[1], p[2]>> /\ p[1] \in Partitions /\ p[2] \in DOMAIN log[p[1]]
      BY <1>1, PositionIs DEF StockTypeOK
    <2>2. p[1] # k \/ p[2] # n
      BY <1>13, <2>1
    <2>3. log'[p[1]][p[2]] = log[p[1]][p[2]]
      BY <1>6, <1>8, <2>1, <2>2
    <2>4. QED
      BY <2>3 DEF Ev
  <1>14. QED
    BY <1>4, <1>9, <1>11, <1>12, <1>13

\* A request fails: what it sent is not to be counted with any more.
LEMMA FailInv ==
  ASSUME StockIInv, NEW x \in Slots, Fails(x)
  PROVE  /\ StockIInv' /\ Positions' = Positions
         /\ \A p \in Positions : Ev(p)'.kind = Ev(p).kind
         /\ \A l : Touching(l)' = Touching(l)
         /\ \A S \in SUBSET Positions : AllMoves(S)' => AllMoves(S)
         /\ \A S \in SUBSET Positions : \A l : Moved(S, l)' = Moved(S, l)
         /\ \A l \in Locations : l \notin departed' => l \notin departed /\ Held(l)' = Held(l)
  <1>0. /\ StockTypeOK /\ TxsOK /\ LocksOK /\ LogOK /\ TellsOK
        /\ UNCHANGED <<stock, site, changes, clock, quiet>>
        /\ tx' = [tx EXCEPT ![x] = NoTx] /\ tx[x] # NoTx
    BY DEF StockIInv, Fails
  <1>1. PICK t, at : t = tx[x] /\ at = TxAt(x)
    OBVIOUS
  <1>2. t \in TxRecord /\ Sound(t) /\ t # NoTx
    BY <1>0, <1>1 DEF StockTypeOK, TxsOK, TxOK
  <1>3. tx'[x] = NoTx /\ NoTx.step = "idle" /\ \A y \in Slots : x # y => tx'[y] = tx[y]
    BY <1>0 DEF StockTypeOK, NoTx
  <1>4. tx' \in [Slots -> TxRecord]
    <2>1. NoTx \in TxRecord
      BY DEF NoTx, TxRecord
    <2>2. QED
      BY <1>0, <2>1 DEF StockTypeOK
  <1>5. CASE t.sent = 0
    <2>1. UNCHANGED <<log, departed>> /\ t.step # "sent"
      BY <1>1, <1>2, <1>5 DEF Fails, Sound
    <2>2. StockTypeOK'
      BY <1>0, <1>4, <2>1 DEF StockTypeOK
    <2>3. TxsOK'
      BY <1>0, <1>3, <2>1, TxKept DEF TxsOK, TxOK
    <2>4. LocksOK'
      BY <1>0, <1>3, <2>1, LocksKept
    <2>5. LogOK'
      BY <1>0, <2>1, LogKept DEF LogOK, EventOK
    <2>6. ASSUME NEW l \in Locations PROVE Held(l)' = Held(l)
      <3>1. InFlight(tx[x], l) = 0 /\ InFlight(tx[x], l)' = 0
        BY <1>1, <1>3, <2>1 DEF InFlight
      <3>2. \A y \in Slots : x # y => InFlight(tx[y], l)' = InFlight(tx[y], l)
        BY <1>0, <1>3, InFlightKept
      <3>3. Open(l)' = Open(l)
        BY <3>1, <3>2, OpenKept
      <3>4. OnHand(l)' = OnHand(l)
        BY <1>0 DEF OnHand
      <3>5. QED
        BY <3>3, <3>4 DEF Held
    <2>7. TellsOK'
      BY <1>0, <2>1, <2>6, TellsKept
    <2>8. Positions' = Positions /\ \A l : Touching(l)' = Touching(l)
      BY <2>1, LogKept
    <2>9. \A S \in SUBSET Positions : AllMoves(S)' => AllMoves(S)
      BY <2>1, LogKept
    <2>10. \A S \in SUBSET Positions : \A l : Moved(S, l)' = Moved(S, l)
      BY <2>1, LogKept
    <2>11. StockIInv'
      BY <2>2, <2>3, <2>4, <2>5, <2>7 DEF StockIInv
    <2>12. QED
      BY <2>1, LogKept, <2>6, <2>8, <2>9, <2>10, <2>11
  <1>6. CASE t.sent # 0
    <2>1. t.step = "sent" /\ departed' = departed \cup Places(t)
      BY <1>1, <1>2, <1>6 DEF Fails, Sound
    <2>2. at \in Positions /\ \A l \in Places(t) : Told(x, l)
      BY <1>0, <1>1, <2>1 DEF TxsOK, TxOK
    <2>3. PICK k, n : at = <<k, n>> /\ k = PartitionOf(t) /\ n = t.sent
      BY <1>1 DEF TxAt
    <2>4. k \in Partitions /\ n \in 1..Len(log[k])
      BY <1>0, <2>2, <2>3, PositionIs
    <2>5. log' = [log EXCEPT ![k][n].holds = FALSE]
      BY <1>1, <1>6, <2>3 DEF Fails
    <2>6. log' \in [Partitions -> Seq(EventRecord)] /\ Positions' = Positions
      BY <1>0, <2>3, <2>4, <2>5, FailLog
    <2>7. \A p \in Positions : /\ Ev(p)'.kind = Ev(p).kind /\ Ev(p)'.no = Ev(p).no
                               /\ Ev(p)'.from = Ev(p).from /\ Ev(p)'.to = Ev(p).to
                               /\ Ev(p)'.amount = Ev(p).amount
      BY <1>0, <2>3, <2>4, <2>5, FailLog
    <2>8. ~Ev(at)'.holds
      BY <1>0, <2>3, <2>4, <2>5, FailLog
    <2>9. \A p \in Positions : p = at \/ Ev(p)' = Ev(p)
      <3>1. at = <<k, n>>
        BY <2>3
      <3>2. QED
        BY ONLY <1>0, <3>1, <2>4, <2>5, FailLog
    <2>10. StockTypeOK'
      BY <1>0, <1>4, <2>6 DEF StockTypeOK
    <2>11. ASSUME NEW l PROVE Touching(l)' = Touching(l)
      <3>1. \A p : p \in Touching(l)' <=> p \in Positions' /\ l \in {Ev(p)'.from, Ev(p)'.to}
        BY DEF Touching, Ev
      <3>2. \A p : p \in Touching(l) <=> p \in Positions /\ l \in {Ev(p).from, Ev(p).to}
        BY DEF Touching, Ev
      <3>3. \A p : p \in Touching(l)' <=> p \in Touching(l)
        BY <2>6, <2>7, <3>1, <3>2
      <3>4. QED
        BY <3>3
    <2>12. \A S \in SUBSET Positions : AllMoves(S)' => AllMoves(S) /\ at \notin S
      BY <2>7, <2>8, <2>9 DEF AllMoves
    <2>13. \A p \in Positions : \A l : Moves(Ev(p)', l) = Moves(Ev(p), l)
      BY <2>7 DEF Moves
    <2>14. ASSUME NEW S \in SUBSET Positions, NEW l PROVE Moved(S, l)' = Moved(S, l)
      BY <1>0, <2>6, <2>13, MovedKept
    <2>15. TxsOK'
      <3>1. TxOK(x)'
        BY <1>3 DEF TxOK
      <3>2. ASSUME NEW y \in Slots, x # y PROVE TxOK(y)'
        <4>1. tx'[y] = tx[y] /\ TxOK(y)
          BY <1>0, <1>3, <3>2 DEF TxsOK
        <4>2. TxAt(y)' = TxAt(y) /\ Places(tx[y])' = Places(tx[y]) /\ Sound(tx[y])' = Sound(tx[y])
          BY <1>0, <4>1, SameRequest
        <4>3. TxAt(y) \in Positions => /\ Ev(TxAt(y))'.kind = Ev(TxAt(y)).kind
                                       /\ Ev(TxAt(y))'.from = Ev(TxAt(y)).from
                                       /\ Ev(TxAt(y))'.to = Ev(TxAt(y)).to
                                       /\ Ev(TxAt(y))'.no = Ev(TxAt(y)).no
          BY <2>7, <4>2 DEF Ev
        <4>4. TxAt(y) \in Positions => \A l : Told(y, l)' = Told(y, l)
          BY <1>0, <4>3 DEF Told
        <4>5. QED
          BY <2>6, <4>1, <4>2, <4>4 DEF TxOK
      <3>3. QED
        BY <3>1, <3>2 DEF TxsOK
    <2>16. LocksOK'
      <3>1. \A y, z \in Slots : y # z /\ tx'[y].step = "sent" /\ tx'[z].step = "sent"
                                            => Touched(tx'[y]) \cap Touched(tx'[z]) = {}
        BY <1>0, <1>3 DEF LocksOK
      <3>2. ASSUME NEW y \in Slots, tx'[y].step = "sent", NEW l \in Places(tx[y])', Single(l)',
                   NEW p \in Touching(l)', Ev(p)'.holds, quiet'[l] < Ev(p)'.no
            PROVE  Ev(p)'.no <= Ev(TxAt(y))'.no
        <4>1. tx'[y] = tx[y] /\ tx[y] # NoTx
          BY <1>3, <3>2
        <4>2. TxAt(y)' = TxAt(y) /\ Places(tx[y])' = Places(tx[y])
          BY <1>0, <4>1, SameRequest
        <4>3. TxAt(y) \in Positions /\ p \in Positions /\ p \in Touching(l)
          BY <1>0, <2>11, <3>2, <4>1 DEF TxsOK, TxOK, Touching
        <4>4. Ev(p)'.no = Ev(p).no /\ Ev(TxAt(y))'.no = Ev(TxAt(y)).no
          BY <2>7, <4>2, <4>3 DEF Ev
        <4>7. Ev(p).holds /\ quiet[l] < Ev(p).no
          BY <1>0, <2>8, <2>9, <3>2, <4>3, <4>4
        <4>8. LastAt(y, l)
          BY <1>0, <3>2, <4>1, <4>2 DEF LocksOK, Single
        <4>5. Ev(p).no <= Ev(TxAt(y)).no
          BY <4>3, <4>7, <4>8 DEF LastAt
        <4>6. QED
          BY <4>4, <4>5
      <3>3. QED
        BY <3>1, <3>2 DEF LocksOK, LastAt, Touched
    <2>17. LogOK'
      <3>1. \A p \in Positions : EventOK(Ev(p))'
        <4>1. \A p \in Positions : Ev(p)'.holds => Ev(p).holds
          BY <2>8, <2>9
        <4>2. QED
          BY <1>0, <2>7, <4>1 DEF LogOK, EventOK
      <3>2. \A p, q \in Positions : Ev(p)'.no = Ev(q)'.no => p = q
        BY <1>0, <2>7 DEF LogOK
      <3>3. QED
        BY <1>0, <2>6, <3>1, <3>2 DEF LogOK
    <2>18. ASSUME NEW l \in Locations, l \notin Places(t) PROVE Held(l)' = Held(l)
      <3>1. InFlight(tx[x], l) = 0 /\ InFlight(tx[x], l)' = 0
        BY <1>1, <1>3, <2>18 DEF InFlight, Places, Touched
      <3>2. \A y \in Slots : x # y => InFlight(tx[y], l)' = InFlight(tx[y], l)
        BY <1>0, <1>3, InFlightKept
      <3>3. Open(l)' = Open(l)
        BY <3>1, <3>2, OpenKept
      <3>4. OnHand(l)' = OnHand(l)
        BY <1>0 DEF OnHand
      <3>5. QED
        BY <3>3, <3>4 DEF Held
    <2>19. ASSUME NEW l \in Locations, NEW d \in Touching(l)',
                  Single(l)', Ev(d)'.kind = "adjust", Ev(d)'.holds, quiet'[l] < Ev(d)'.no,
                  AllMoves(After(Ev(d).no, l))'
           PROVE  Ev(d)'.amount + Moved(After(Ev(d).no, l), l)' = Held(l)'
      <3>1. PICK m, A : m = Ev(d).no /\ A = After(m, l)
        OBVIOUS
      <3>2. d \in Touching(l) /\ d \in Positions /\ A \subseteq Positions /\ Touching(l) \subseteq Positions
        BY <2>11, <2>19, <3>1 DEF Touching, After
      <3>3. Ev(d)' = Ev(d) /\ d # at
        BY <2>8, <2>9, <2>19, <3>2
      <3>4. After(Ev(d).no, l)' = A
        BY <2>7, <2>11, <3>1, <3>2, <3>3 DEF After
      <3>5. AllMoves(A) /\ at \notin A
        <4>1. AllMoves(A)'
          BY <2>19, <3>4 DEF AllMoves
        <4>2. QED
          BY <2>12, <3>2, <4>1
      <3>6. l \notin Places(t)
        <4>1. SUFFICES ASSUME l \in Places(t) PROVE FALSE
          OBVIOUS
        <4>2. m \in Nat /\ Ev(at).no \in Nat /\ quiet[l] \in Nat /\ quiet[l] < m
          BY <1>0, <2>2, <2>19, <3>1, <3>2, <3>3, EvType DEF EventRecord, StockTypeOK
        <4>3. m <= Ev(at).no
          <5>1. LastAt(x, l)
            BY <1>0, <1>1, <2>1, <2>19, <4>1 DEF LocksOK, Single
          <5>2. Ev(d).holds
            BY <2>19, <3>3
          <5>3. QED
            BY <1>1, <3>1, <3>2, <4>2, <5>1, <5>2 DEF LastAt
        <4>4. at \in Touching(l)
          <5>1. Told(x, l)
            BY <2>2, <4>1
          <5>2. l \in {Ev(at).from, Ev(at).to}
            BY <1>1, <4>2, <4>3, <5>1 DEF Told
          <5>3. QED
            BY <2>2, <5>2 DEF Touching, Ev
        <4>5. m # Ev(at).no
          BY <1>0, <2>2, <3>1, <3>2, <3>3 DEF LogOK
        <4>6. at \in A
          BY <3>1, <4>2, <4>3, <4>4, <4>5 DEF After
        <4>7. QED
          BY <3>5, <4>6
      <3>7. Ev(d).amount + Moved(A, l) = Held(l)
        BY <1>0, <2>19, <3>1, <3>2, <3>3, <3>5 DEF TellsOK, Tells, Single
      <3>8. Moved(A, l)' = Moved(A, l) /\ Held(l)' = Held(l)
        BY <2>14, <2>18, <3>2, <3>6
      <3>9. Moved(After(Ev(d).no, l), l)' = Moved(A, l)'
        BY <3>4 DEF Moved
      <3>10. QED
        BY <3>3, <3>7, <3>8, <3>9
    <2>20. TellsOK'
      BY <2>19 DEF TellsOK, Tells
    <2>21. StockIInv'
      BY <2>10, <2>15, <2>16, <2>17, <2>20 DEF StockIInv
    <2>22. QED
      BY <2>1, <2>6, <2>7, <2>11, <2>12, <2>14, <2>18, <2>21
  <1>7. QED
    BY <1>5, <1>6

-----------------------------------------------------------------------------
(* What the view shows, while inventory-service goes on.                   *)

LEMMA HandsKept ==
  ASSUME HandsOK, Positions \subseteq Positions',
         \A p \in Positions : Ev(p)'.kind = Ev(p).kind, UNCHANGED <<hand, written>>
  PROVE  HandsOK'
  <1>1. ASSUME NEW w \in Replicas, hand'[w] \notin Resting PROVE HandOK(w)'
    <2>1. HandOK(w) /\ hand'[w] = hand[w] /\ hand[w] \notin Resting
      BY <1>1 DEF HandsOK
    <2>2. Here(w)' = Here(w) /\ InHand(w) = Ev(Here(w)) /\ InHand(w)' = Ev(Here(w))'
      BY <2>1 DEF Here, InHand, Ev
    <2>3. Here(w) \in Positions
      BY <2>1 DEF HandOK
    <2>4. Ev(Here(w))'.kind = Ev(Here(w)).kind
      BY <2>2, <2>3 DEF Ev
    <2>5. QED
      BY <2>1, <2>2, <2>3, <2>4 DEF HandOK
  <1>2. \A y \in written' : <<y[1], y[2]>> \in Positions' /\ y = <<y[1], y[2], y[3]>>
    BY DEF HandsOK
  <1>3. QED
    BY <1>1, <1>2 DEF HandsOK, HandOK

\* What a location is to hold, what is still to be written to it and what it shows stay,
\* or the location departs.
LEMMA ShownKept ==
  ASSUME ShownOK, Positions' = Positions, \A l : Touching(l)' = Touching(l),
         \A S \in SUBSET Positions : AllMoves(S)' => AllMoves(S),
         \A S \in SUBSET Positions : \A l : Moved(S, l)' = Moved(S, l),
         \A l \in Locations : l \notin departed' => l \notin departed /\ Held(l)' = Held(l),
         UNCHANGED <<shown, written>>
  PROVE  ShownOK'
  <1> SUFFICES ASSUME NEW l \in Locations, l \notin departed', AllMoves(Unwritten(l))'
               PROVE  View(l)' + Moved(Unwritten(l), l)' = Held(l)'
    BY DEF ShownOK, Shows
  <1>1. PICK U : U = Unwritten(l)
    OBVIOUS
  <1>2. Unwritten(l)' = U
    BY <1>1 DEF Unwritten
  <1>3. U \in SUBSET Positions
    BY <1>1 DEF Unwritten, Touching
  <1>4. AllMoves(U)'
    BY <1>2 DEF AllMoves
  <1>5. View(l) + Moved(U, l) = Held(l)
    BY <1>1, <1>3, <1>4 DEF ShownOK, Shows
  <1>6. Moved(Unwritten(l), l)' = Moved(U, l)'
    BY <1>2 DEF Moved
  <1>7. View(l)' = View(l)
    BY DEF View
  <1>8. QED
    BY <1>3, <1>5, <1>6, <1>7

\* An event was sent: it is still to be written to the locations it is about.
LEMMA ShownSent ==
  ASSUME ViewIInv, NEW x \in Slots, NEW k, NEW e, NEW u, NEW new, Sends(x, k, e, u, new),
         UNCHANGED <<consumed, hand, shown, written, faults>>
  PROVE  ShownOK'
  <1>0. /\ StockIInv /\ StockTypeOK /\ TxsOK /\ ShownOK /\ HandsOK /\ ShownTypeOK
        /\ departed' = departed \cup Strays(u) /\ {e.from, e.to} = {u.source, u.destination}
    BY DEF ViewIInv, StockIInv, Sends
  <1> SUFFICES ASSUME NEW l \in Locations, l \notin departed', AllMoves(Unwritten(l))'
               PROVE  View(l)' + Moved(Unwritten(l), l)' = Held(l)'
    BY DEF ShownOK, Shows
  <1>1. /\ Positions' = Positions \cup {new} /\ new \notin Positions
        /\ \A p \in Positions : Ev(p)' = Ev(p)
        /\ Ev(new)' = e
        /\ l \notin {e.from, e.to} => Touching(l)' = Touching(l)
        /\ l \in {e.from, e.to} => Touching(l)' = Touching(l) \cup {new}
    BY <1>0, SendLog DEF Grows
  <1>2. PICK U : U = Unwritten(l)
    OBVIOUS
  <1>3. U \in SUBSET Positions /\ Touching(l) \subseteq Positions
    BY <1>2 DEF Unwritten, Touching
  <1>4. <<new[1], new[2], l>> \notin written
    <2>1. SUFFICES ASSUME <<new[1], new[2], l>> \in written PROVE FALSE
      OBVIOUS
    <2>2. <<new[1], new[2]>> \in Positions
      BY <1>0, <2>1 DEF HandsOK
    <2>3. new = <<new[1], new[2]>>
      BY DEF Sends
    <2>4. QED
      BY <1>1, <2>2, <2>3
  <1>5. View(l)' = View(l) /\ View(l) \in Int
    BY <1>0 DEF View, ShownTypeOK
  <1>6. OnHand(l) \in Int /\ Open(l) \in Int /\ Moved(U, l) \in Int
    BY <1>0, <1>3, HeldInt, MovedInt
  <1>7. CASE l \notin {e.from, e.to}
    <2>1. Unwritten(l)' = U
      BY <1>0, <1>1, <1>2, <1>7 DEF Unwritten
    <2>2. AllMoves(U)
      BY <1>1, <1>3, <2>1 DEF AllMoves
    <2>3. View(l) + Moved(U, l) = Held(l)
      BY <1>0, <1>2, <2>2 DEF ShownOK, Shows
    <2>4. Moved(U, l)' = Moved(U, l)
      BY <1>0, <1>1, <1>3, MovedKept
    <2>5. Moved(Unwritten(l), l)' = Moved(U, l)'
      BY <2>1 DEF Moved
    <2>6. Held(l)' = Held(l)
      <3>1. l \notin Strays(u)
        BY <1>0
      <3>2. l \notin Places(u)
        BY <1>0, <1>7, <3>1 DEF Strays
      <3>3. QED
        BY <1>0, <3>2, SendMoves
    <2>7. QED
      BY <1>5, <2>3, <2>4, <2>5, <2>6
  <1>8. CASE l \in {e.from, e.to}
    <2>1. Unwritten(l)' = U \cup {new}
      BY <1>0, <1>1, <1>2, <1>4, <1>8 DEF Unwritten
    <2>2. AllMoves(U) /\ e.kind = "transfer" /\ e.holds
      BY <1>1, <1>3, <2>1 DEF AllMoves
    <2>3. View(l) + Moved(U, l) = Held(l)
      BY <1>0, <1>2, <2>2 DEF ShownOK, Shows
    <2>4. Moves(Ev(new)', l) = Moves(e, l) /\ Moves(e, l) = InFlight(u, l)
      BY <1>1, <1>8, <2>2 DEF Sends, Announces
    <2>5. Held(l)' = Held(l) + InFlight(u, l) /\ InFlight(u, l) \in Int
      BY <1>0, SendMoves
    <2>6. new \notin U /\ U \cup {new} \subseteq Positions' /\ \A q \in U : Ev(q)' = Ev(q)
      BY <1>1, <1>3
    <2>7. Moved(U \cup {new}, l)' = Moved(U, l) + Moves(Ev(new)', l)
      BY <1>0, <1>3, <2>4, <2>5, <2>6, MovedAdded
    <2>8. Moved(Unwritten(l), l)' = Moved(U, l) + InFlight(u, l)
      BY <2>1, <2>4, <2>7 DEF Moved
    <2>9. QED
      BY <1>5, <1>6, <2>3, <2>5, <2>8 DEF Held
  <1>9. QED
    BY <1>7, <1>8

\* What the steps of inventory-service do.
LEMMA InventoryInv ==
  ASSUME ViewIInv, InventoryStep
  PROVE  ViewIInv'
  <1>0. StockIInv /\ ShownTypeOK /\ HandsOK /\ ShownOK
    BY DEF ViewIInv
  <1>1. ASSUME StockIInv', UNCHANGED log, UNCHANGED <<consumed, hand, shown, written, faults>>,
               departed \subseteq departed', departed' \subseteq Locations,
               \A l \in Locations : l \notin departed' => l \notin departed /\ Held(l)' = Held(l)
        PROVE  ViewIInv'
    <2>1. ShownTypeOK'
      BY <1>0, <1>1 DEF ShownTypeOK
    <2>2. Positions' = Positions /\ (\A l : Touching(l)' = Touching(l))
          /\ (\A p : Ev(p)' = Ev(p))
      BY <1>1, LogKept
    <2>3. \A S \in SUBSET Positions : AllMoves(S)' => AllMoves(S)
      BY <1>1, LogKept
    <2>4. \A S \in SUBSET Positions : \A l : Moved(S, l)' = Moved(S, l)
      BY <1>1, LogKept
    <2>5. ShownOK'
      BY <1>0, <1>1, <2>2, <2>3, <2>4, ShownKept
    <2>6. HandsOK'
      BY <1>0, <1>1, <2>2, HandsKept
    <2>7. QED
      BY <1>1, <2>1, <2>5, <2>6 DEF ViewIInv
  <1>2. ASSUME NEW x \in Slots, NEW r \in Rows,
               \/ \E delta \in Deltas : AdjustRead(x, r, delta)
               \/ \E to \in Rows, q \in Quantities : TransferRead(x, r, to, q)
        PROVE  ViewIInv'
    <2>1. UNCHANGED <<log, viewVars>>
      BY <1>2 DEF AdjustRead, TransferRead, Begin
    <2>2. StockIInv' /\ \A l \in Locations : Held(l)' = Held(l)
      BY <1>0, <1>2, ReadInv
    <2>3. QED
      BY <1>0, <1>1, <2>1, <2>2 DEF viewVars, ShownTypeOK
  <1>3. ASSUME NEW x \in Slots, UpdateAndSend(x) PROVE ViewIInv'
    <2>1. PICK k, e, u, new : Sends(x, k, e, u, new)
      BY <1>0, <1>3, SendIs
    <2>2. UNCHANGED <<consumed, hand, shown, written, faults>>
      BY <1>3 DEF UpdateAndSend
    <2>3. StockIInv' /\ ShownOK'
      BY <1>0, <2>1, <2>2, SendInv, ShownSent
    <2>4. Positions \subseteq Positions' /\ \A p \in Positions : Ev(p)' = Ev(p)
      BY <1>0, <2>1, SendLog DEF Grows
    <2>5. HandsOK'
      BY <1>0, <2>2, <2>4, HandsKept
    <2>6. ShownTypeOK'
      <3>1. StockTypeOK /\ u \in TxRecord /\ departed' = departed \cup Strays(u)
        BY <1>0, <2>1 DEF Sends, StockIInv
      <3>2. Strays(u) \subseteq Locations
        BY <3>1, PlacesIn DEF Strays
      <3>3. QED
        BY <1>0, <2>2, <3>1, <3>2 DEF ShownTypeOK
    <2>7. QED
      BY <2>3, <2>5, <2>6 DEF ViewIInv
  <1>4. ASSUME NEW x \in Slots, CommitChange(x) PROVE ViewIInv'
    <2>1. UNCHANGED viewVars
      BY <1>4 DEF CommitChange
    <2>2. StockIInv' /\ UNCHANGED log /\ \A l \in Locations : Held(l)' = Held(l)
      BY <1>0, <1>4, CommitInv
    <2>3. QED
      BY <1>0, <1>1, <2>1, <2>2 DEF viewVars, ShownTypeOK
  <1>5. ASSUME NEW x \in Slots, Fails(x) PROVE ViewIInv'
    <2>1. UNCHANGED <<consumed, hand, shown, written, faults>>
      BY <1>5 DEF Fails
    <2>2. StockIInv'
      BY <1>0, <1>5, FailInv
    <2>3. Positions' = Positions /\ \A l : Touching(l)' = Touching(l)
      BY <1>0, <1>5, FailInv
    <2>11. \A p \in Positions : Ev(p)'.kind = Ev(p).kind
      BY <1>0, <1>5, FailInv
    <2>4. \A S \in SUBSET Positions : AllMoves(S)' => AllMoves(S)
      BY <1>0, <1>5, FailInv
    <2>5. \A S \in SUBSET Positions : \A l : Moved(S, l)' = Moved(S, l)
      BY <1>0, <1>5, FailInv
    <2>6. \A l \in Locations : l \notin departed' => l \notin departed /\ Held(l)' = Held(l)
      BY <1>0, <1>5, FailInv
    <2>7. ShownOK'
      BY <1>0, <2>1, <2>3, <2>4, <2>5, <2>6, ShownKept
    <2>8. HandsOK'
      BY <1>0, <2>1, <2>3, <2>11, HandsKept
    <2>9. ShownTypeOK'
      <3>1. departed' \subseteq Locations
        <4>1. tx[x] \in TxRecord /\ StockTypeOK
          BY <1>0 DEF StockIInv, StockTypeOK
        <4>2. Places(tx[x]) \subseteq Locations
          BY <4>1, PlacesIn
        <4>3. departed' \subseteq departed \cup Places(tx[x])
          BY <1>5 DEF Fails
        <4>4. QED
          BY <1>0, <4>2, <4>3 DEF ShownTypeOK
      <3>2. QED
        BY <1>0, <2>1, <3>1 DEF ShownTypeOK
    <2>10. QED
      BY <2>2, <2>7, <2>8, <2>9 DEF ViewIInv
  <1>6. ASSUME NEW r \in Rows, NEW delta \in Deltas \cup {0}, NEW k \in Locations,
               QuietChange(r, delta, k)
        PROVE  ViewIInv'
    <2>1. /\ UNCHANGED <<consumed, hand, shown, written, faults>>
          /\ departed' = departed \cup {site[r], k} /\ site[r] \in Locations
      BY <1>0, <1>6 DEF QuietChange, StockIInv, StockTypeOK
    <2>2. /\ StockIInv' /\ UNCHANGED log
          /\ \A l \in Locations : l \notin departed' => l \notin departed /\ Held(l)' = Held(l)
      BY <1>0, <1>6, QuietInv
    <2>3. QED
      BY <1>0, <1>1, <2>1, <2>2 DEF ShownTypeOK
  <1>7. QED
    BY <1>2, <1>3, <1>4, <1>5, <1>6 DEF InventoryStep

-----------------------------------------------------------------------------
(* The replicas of stock-query-service.                                    *)

\* What a location shows once a quantity was taken from it.
LEMMA LessIs ==
  ASSUME NEW seen \in Nat, NEW n \in Nat
  PROVE  Less(seen, n) \in Nat /\ (seen >= n => Less(seen, n) = seen - n)
  <1>1. seen # Absent /\ seen - n \in Int
    BY StockViewAssumption DEF StockViewAssumption
  <1>2. Less(seen, n) = Max({0, seen - n})
    BY <1>1 DEF Less
  <1>3. /\ Max({0, seen - n}) \in {0, seen - n} /\ Max({0, seen - n}) >= 0
        /\ Max({0, seen - n}) >= seen - n
    BY <1>1, MaxOfTwo
  <1>4. QED
    BY <1>1, <1>2, <1>3

\* The view's steps leave inventory-service alone.
LEMMA StockKept ==
  ASSUME StockIInv, UNCHANGED inventoryVars
  PROVE  /\ StockIInv' /\ \A l : Held(l)' = Held(l)
         /\ Positions' = Positions
         /\ \A p : Ev(p)' = Ev(p)
         /\ \A l : Touching(l)' = Touching(l)
  <1>0. UNCHANGED <<stock, site, tx, changes, log, clock, quiet>>
    BY DEF inventoryVars
  <1>1. Positions' = Positions /\ (\A p : Ev(p)' = Ev(p)) /\ \A l : Touching(l)' = Touching(l)
    BY <1>0, LogKept
  <1>2. ASSUME NEW l PROVE Held(l)' = Held(l)
    <2>1. OnHand(l)' = OnHand(l)
      BY <1>0 DEF OnHand
    <2>2. Open(l)' = Open(l)
      BY <1>0, InFlightKept, OpenKept
    <2>3. QED
      BY <2>1, <2>2 DEF Held
  <1>3. StockTypeOK'
    BY <1>0 DEF StockIInv, StockTypeOK
  <1>4. TxsOK'
    BY <1>0, TxKept DEF StockIInv, TxsOK
  <1>5. LocksOK'
    BY <1>0, LocksKept DEF StockIInv
  <1>6. LogOK'
    BY <1>0, <1>1 DEF StockIInv, LogOK, EventOK
  <1>7. TellsOK'
    BY <1>0, <1>2, TellsKept DEF StockIInv
  <1>8. QED
    BY <1>1, <1>2, <1>3, <1>4, <1>5, <1>6, <1>7 DEF StockIInv

\* What is shown of a location stays right while nothing is written to it.
LEMMA ShowsKept ==
  ASSUME StockIInv, UNCHANGED inventoryVars, NEW l \in Locations, Shows(l),
         shown'[l] = shown[l], Unwritten(l)' = Unwritten(l),
         l \notin departed' => l \notin departed
  PROVE  Shows(l)'
  <1> SUFFICES ASSUME l \notin departed', AllMoves(Unwritten(l))'
               PROVE  View(l)' + Moved(Unwritten(l), l)' = Held(l)'
    BY DEF Shows
  <1>1. PICK U : U = Unwritten(l)
    OBVIOUS
  <1>2. UNCHANGED log
    BY DEF inventoryVars
  <1>3. AllMoves(Unwritten(l))' = AllMoves(U) /\ Moved(Unwritten(l), l)' = Moved(U, l)
    <2>1. Unwritten(l)' = U
      BY <1>1
    <2>2. AllMoves(Unwritten(l))' = AllMoves(U)' /\ Moved(Unwritten(l), l)' = Moved(U, l)'
      BY <2>1 DEF AllMoves, Moved
    <2>3. QED
      BY <1>2, <2>2, LogKept
  <1>4. View(l) + Moved(U, l) = Held(l)
    BY <1>1, <1>3 DEF Shows
  <1>5. View(l)' = View(l) /\ Held(l)' = Held(l)
    BY StockKept DEF View
  <1>6. QED
    BY <1>3, <1>4, <1>5

\* A transfer is written to a location: what is left to write is one less.
LEMMA MoveShown ==
  ASSUME StockIInv, UNCHANGED inventoryVars, NEW l \in Locations, Shows(l), View(l) \in Int,
         NEW p \in Touching(l), <<p[1], p[2], l>> \notin written,
         written' = written \cup {<<p[1], p[2], l>>},
         Ev(p).kind = "transfer", Ev(p).holds, l \notin departed' => l \notin departed,
         View(l)' = View(l) + Moves(Ev(p), l)
  PROVE  Shows(l)'
  <1>0. StockTypeOK /\ UNCHANGED log
    BY DEF StockIInv, inventoryVars
  <1> SUFFICES ASSUME l \notin departed', AllMoves(Unwritten(l))'
               PROVE  View(l)' + Moved(Unwritten(l), l)' = Held(l)'
    BY DEF Shows
  <1>1. PICK U, V : U = Unwritten(l) /\ V = U \ {p}
    OBVIOUS
  <1>2. p \in U /\ U \in SUBSET Positions /\ V \in SUBSET Positions /\ p \in Positions
    BY <1>1 DEF Unwritten, Touching
  <1>3. Unwritten(l)' = V
    <2>1. Touching(l)' = Touching(l)
      BY StockKept
    <2>2. \A q \in Touching(l) : q = <<q[1], q[2]>>
      BY <1>0, PositionIs DEF Touching
    <2>3. \A q \in Touching(l) : <<q[1], q[2], l>> = <<p[1], p[2], l>> <=> q = p
      BY <2>2
    <2>4. QED
      BY <1>1, <2>1, <2>3 DEF Unwritten
  <1>4. AllMoves(Unwritten(l))' = AllMoves(V) /\ Moved(Unwritten(l), l)' = Moved(V, l)
    <2>1. AllMoves(Unwritten(l))' = AllMoves(V)' /\ Moved(Unwritten(l), l)' = Moved(V, l)'
      BY <1>3 DEF AllMoves, Moved
    <2>2. QED
      BY <1>0, <2>1, LogKept
  <1>5. AllMoves(U)
    BY <1>1, <1>4 DEF AllMoves
  <1>6. View(l) + Moved(U, l) = Held(l)
    BY <1>1, <1>5 DEF Shows
  <1>7. Moved(U, l) = Moves(Ev(p), l) + Moved(V, l)
    BY <1>0, <1>1, <1>2, MovedTakeOut
  <1>8. Moves(Ev(p), l) \in Int /\ Moved(V, l) \in Int
    BY <1>0, <1>2, MovesInt, MovedInt
  <1>9. Held(l)' = Held(l)
    BY StockKept
  <1>10. QED
    BY <1>4, <1>6, <1>7, <1>8, <1>9

\* An adjustment is written exactly: what is left to write came after it.
LEMMA AdjustmentShown ==
  ASSUME StockIInv, UNCHANGED inventoryVars, NEW l \in Locations,
         NEW p \in Touching(l), written' = written \cup {<<p[1], p[2], l>>},
         Ev(p).kind = "adjust", Ev(p).holds, quiet[l] < Ev(p).no, Single(l),
         \A q \in Touching(l) \ {p} : Ev(q).no < Ev(p).no <=> <<q[1], q[2], l>> \in written,
         View(l)' = Ev(p).amount
  PROVE  Shows(l)'
  <1>0. StockTypeOK /\ LogOK /\ TellsOK /\ UNCHANGED log
    BY DEF StockIInv, inventoryVars
  <1> SUFFICES ASSUME AllMoves(Unwritten(l))'
               PROVE  View(l)' + Moved(Unwritten(l), l)' = Held(l)'
    BY DEF Shows
  <1>1. PICK V : V = After(Ev(p).no, l)
    OBVIOUS
  <1>2. p \in Positions /\ Touching(l) \subseteq Positions
    BY DEF Touching
  <1>3. Unwritten(l)' = V
    <2>1. Touching(l)' = Touching(l)
      BY StockKept
    <2>2. \A q \in Touching(l) : q = <<q[1], q[2]>>
      BY <1>0, PositionIs DEF Touching
    <2>3. \A q \in Touching(l) : <<q[1], q[2], l>> = <<p[1], p[2], l>> <=> q = p
      BY <2>2
    <2>4. \A q \in Touching(l) : Ev(q).no \in Nat /\ (q # p => Ev(q).no # Ev(p).no)
      BY <1>0, <1>2, EvType DEF LogOK, EventRecord
    <2>5. \A q \in Touching(l) : Ev(q).no > Ev(p).no <=> <<q[1], q[2], l>> \notin written'
      BY <2>3, <2>4
    <2>6. QED
      BY <1>1, <2>1, <2>5 DEF Unwritten, After
  <1>4. AllMoves(Unwritten(l))' = AllMoves(V) /\ Moved(Unwritten(l), l)' = Moved(V, l)
    <2>1. AllMoves(Unwritten(l))' = AllMoves(V)' /\ Moved(Unwritten(l), l)' = Moved(V, l)'
      BY <1>3 DEF AllMoves, Moved
    <2>2. QED
      BY <1>0, <2>1, LogKept
  <1>5. Ev(p).amount + Moved(V, l) = Held(l)
    BY <1>0, <1>1, <1>4 DEF TellsOK, Tells
  <1>6. Held(l)' = Held(l)
    BY StockKept
  <1>7. QED
    BY <1>4, <1>5, <1>6

\* A replica goes on with its event.
LEMMA HandGoes ==
  ASSUME ShownTypeOK, NEW w \in Replicas, NEW n \in Nat \cup {Absent},
         NEW s \in {"idle", "begin", "source", "moved", "destination", "commit", "skip"},
         Goes(w, s, n)
  PROVE  /\ hand' \in [Replicas -> HandRecord]
         /\ hand'[w].part = hand[w].part /\ hand'[w].pos = hand[w].pos /\ hand'[w].step = s
         /\ \A v \in Replicas : v # w => hand'[v] = hand[v]
  <1>1. PICK h : h = [hand[w] EXCEPT !.step = s, !.seen = n]
    OBVIOUS
  <1>2. hand[w] \in HandRecord /\ hand \in [Replicas -> HandRecord]
    BY DEF ShownTypeOK
  <1>3. h \in HandRecord /\ h.part = hand[w].part /\ h.pos = hand[w].pos /\ h.step = s
    BY <1>1, <1>2 DEF HandRecord
  <1>4. hand' = [hand EXCEPT ![w] = h]
    BY <1>1, <1>2 DEF Goes
  <1>5. QED
    BY <1>2, <1>3, <1>4

LEMMA HandOKStays ==
  ASSUME NEW w \in Replicas, HandOK(w), hand[w] \notin Resting, UNCHANGED log,
         hand'[w].part = hand[w].part, hand'[w].pos = hand[w].pos, hand'[w].step # "idle",
         hand'[w].step \in {"source", "moved", "destination"} => InHand(w).kind = "transfer"
  PROVE  HandOK(w)'
  <1>1. Here(w)' = Here(w) /\ InHand(w)' = InHand(w)
    BY DEF Here, InHand
  <1>2. Positions' = Positions
    BY LogKept
  <1>3. QED
    BY <1>1, <1>2 DEF HandOK

\* One replica takes a step; what it has written was in its hand.
LEMMA HandsStep ==
  ASSUME HandsOK, UNCHANGED log, NEW w \in Replicas, HandOK(w)',
         \A v \in Replicas : v # w => hand'[v] = hand[v],
         \A y \in written' : y \in written \/ (y = <<y[1], y[2], y[3]>> /\ <<y[1], y[2]>> \in Positions)
  PROVE  HandsOK'
  <1>1. Positions' = Positions
    BY LogKept
  <1>2. ASSUME NEW v \in Replicas PROVE HandOK(v)'
    <2>1. CASE v # w
      <3>1. hand'[v] = hand[v] /\ HandOK(v)
        BY <2>1 DEF HandsOK
      <3>2. Here(v)' = Here(v) /\ InHand(v)' = InHand(v)
        BY <3>1 DEF Here, InHand
      <3>3. QED
        BY <1>1, <3>1, <3>2 DEF HandOK
    <2>2. QED
      BY <2>1
  <1>3. \A y \in written' : <<y[1], y[2]>> \in Positions' /\ y = <<y[1], y[2], y[3]>>
    BY <1>1 DEF HandsOK
  <1>4. QED
    BY <1>2, <1>3 DEF HandsOK

\* A step that writes nothing.
LEMMA NothingWritten ==
  ASSUME ViewIInv, UNCHANGED <<inventoryVars, shown, written, departed>>,
         NEW w \in Replicas, HandOK(w)', \A v \in Replicas : v # w => hand'[v] = hand[v],
         hand' \in [Replicas -> HandRecord], consumed' \in [Partitions -> Nat],
         faults' \in 0..MaxFaults
  PROVE  ViewIInv'
  <1>0. StockIInv /\ ShownTypeOK /\ HandsOK /\ ShownOK /\ UNCHANGED log
    BY DEF ViewIInv, inventoryVars
  <1>1. StockIInv'
    BY <1>0, StockKept
  <1>2. ShownTypeOK'
    BY <1>0 DEF ShownTypeOK
  <1>3. HandsOK'
    BY <1>0, HandsStep
  <1>4. ASSUME NEW l \in Locations PROVE Shows(l)'
    <2>1. Unwritten(l)' = Unwritten(l)
      BY <1>0, LogKept DEF Unwritten
    <2>2. QED
      BY <1>0, <2>1, ShowsKept DEF ShownOK
  <1>5. QED
    BY <1>1, <1>2, <1>3, <1>4 DEF ViewIInv, ShownOK

\* A step that writes to one location.
LEMMA WriteInv ==
  ASSUME ViewIInv, NEW w \in Replicas, hand[w] \notin Resting, NEW l \in Locations,
         NEW quantity \in Nat \cup {Absent}, NEW after \in SUBSET Locations,
         NEW s \in {"moved", "commit"}, s = "moved" => InHand(w).kind = "transfer",
         Write(w, l, quantity, after), Goes(w, s, Absent),
         \A m \in Locations : m # l /\ m \notin after => m \notin departed,
         Shows(l)'
  PROVE  ViewIInv'
  <1>0. /\ StockIInv /\ StockTypeOK /\ ShownTypeOK /\ HandsOK /\ ShownOK
        /\ UNCHANGED <<inventoryVars, log, consumed, faults>>
        /\ shown' = [shown EXCEPT ![l] = quantity] /\ departed' = after
        /\ written' = written \cup {<<hand[w].part, hand[w].pos, l>>}
        /\ Here(w) \in Positions /\ HandOK(w)
    BY DEF ViewIInv, StockIInv, inventoryVars, Write, HandsOK, HandOK
  <1>1. StockIInv'
    BY <1>0, StockKept
  <1>2. /\ hand' \in [Replicas -> HandRecord]
        /\ hand'[w].part = hand[w].part /\ hand'[w].pos = hand[w].pos /\ hand'[w].step = s
        /\ \A v \in Replicas : v # w => hand'[v] = hand[v]
    BY <1>0, HandGoes
  <1>3. ShownTypeOK'
    BY <1>0, <1>2 DEF ShownTypeOK
  <1>4. HandOK(w)'
    BY <1>0, <1>2, HandOKStays
  <1>5. HandsOK'
    <2>1. \A y \in written' : y \in written \/ (y = <<y[1], y[2], y[3]>> /\ <<y[1], y[2]>> \in Positions)
      BY <1>0 DEF Here
    <2>2. QED
      BY <1>0, <1>2, <1>4, <2>1, HandsStep
  <1>6. ASSUME NEW m \in Locations, m # l PROVE Shows(m)'
    <2>1. shown'[m] = shown[m]
      BY <1>0, <1>6 DEF ShownTypeOK
    <2>2. Unwritten(m)' = Unwritten(m)
      <3>1. \A q : <<q[1], q[2], m>> # <<hand[w].part, hand[w].pos, l>>
        BY <1>6
      <3>2. Touching(m)' = Touching(m)
        BY <1>0, LogKept
      <3>3. QED
        BY <1>0, <3>1, <3>2 DEF Unwritten
    <2>3. QED
      BY <1>0, <1>6, <2>1, <2>2, ShowsKept DEF ShownOK
  <1>7. QED
    BY <1>1, <1>3, <1>5, <1>6 DEF ViewIInv, ShownOK

\* The event in hand is about its source and its destination.
LEMMA HandTouches ==
  ASSUME StockTypeOK, NEW w, Here(w) \in Positions
  PROVE  /\ InHand(w) = Ev(Here(w)) /\ InHand(w) \in EventRecord
         /\ Here(w)[1] = hand[w].part /\ Here(w)[2] = hand[w].pos
         /\ \A l : l \in {InHand(w).from, InHand(w).to} <=> Here(w) \in Touching(l)
  <1>1. InHand(w) = Ev(Here(w)) /\ Here(w)[1] = hand[w].part /\ Here(w)[2] = hand[w].pos
    BY DEF InHand, Ev, Here
  <1>2. InHand(w) \in EventRecord
    BY <1>1, EvType
  <1>3. \A l : l \in {InHand(w).from, InHand(w).to} <=> Here(w) \in Touching(l)
    BY <1>1 DEF Touching, Ev
  <1>4. QED
    BY <1>1, <1>2, <1>3

\* A location about which a transfer tells is shown right if it is written exactly.
LEMMA ExactMoveShown ==
  ASSUME ViewIInv, NEW w \in Replicas, hand[w] \notin Resting, InHand(w).kind = "transfer",
         NEW l \in {InHand(w).from, InHand(w).to}, NEW quantity, NEW after,
         Write(w, l, quantity, after), ExactMove(w, l), after = departed,
         View(l)' = View(l) + Moves(InHand(w), l)
  PROVE  Shows(l)'
  <1>0. StockIInv /\ StockTypeOK /\ ShownTypeOK /\ Here(w) \in Positions /\ ShownOK
    BY DEF ViewIInv, StockIInv, HandsOK, HandOK
  <1>1. PICK p : p = Here(w)
    OBVIOUS
  <1>2. /\ InHand(w) = Ev(p) /\ p \in Touching(l) /\ p[1] = hand[w].part /\ p[2] = hand[w].pos
        /\ l \in Locations
    BY <1>0, <1>1, HandTouches DEF EventRecord
  <1>3. /\ UNCHANGED inventoryVars /\ departed' = departed
        /\ written' = written \cup {<<p[1], p[2], l>>} /\ <<p[1], p[2], l>> \notin written
        /\ Ev(p).holds
    BY <1>2 DEF Write, ExactMove
  <1>4. View(l) \in Int /\ Shows(l)
    BY <1>0, <1>2 DEF View, ShownTypeOK, ShownOK
  <1>5. QED
    BY <1>0, <1>2, <1>3, <1>4, MoveShown

\* The events about a location that goes unheeded: nothing is said of it.
LEMMA DepartedShows == ASSUME NEW l, l \in departed' PROVE Shows(l)'
  BY DEF Shows

LEMMA SetQuantityInv ==
  ASSUME ViewIInv, NEW w \in Replicas, SetQuantity(w)
  PROVE  ViewIInv'
  <1>0. /\ StockIInv /\ StockTypeOK /\ ShownTypeOK /\ Here(w) \in Positions
        /\ hand[w].step = "begin" /\ InHand(w).kind = "adjust" /\ hand[w] \notin Resting
    <2>1. hand[w].step = "begin" /\ InHand(w).kind = "adjust"
      BY DEF SetQuantity
    <2>2. hand[w] \notin Resting
      BY <2>1 DEF Resting, EmptyHand, Dead
    <2>3. QED
      BY <2>1, <2>2 DEF ViewIInv, StockIInv, HandsOK, HandOK
  <1>1. PICK l, after : /\ l = InHand(w).from
                        /\ after = IF ExactAdjustment(w, l) THEN departed \ {l} ELSE departed \cup {l}
    OBVIOUS
  <1>2. Write(w, l, InHand(w).amount, after) /\ Goes(w, "commit", Absent)
    BY <1>1 DEF SetQuantity
  <1>3. /\ InHand(w) = Ev(Here(w)) /\ InHand(w) \in EventRecord /\ Here(w) \in Touching(l)
        /\ Here(w)[1] = hand[w].part /\ Here(w)[2] = hand[w].pos
    BY <1>0, <1>1, HandTouches
  <1>4. /\ l \in Locations /\ InHand(w).amount \in Nat /\ after \in SUBSET Locations
        /\ UNCHANGED inventoryVars /\ departed' = after
        /\ written' = written \cup {<<hand[w].part, hand[w].pos, l>>}
        /\ shown' = [shown EXCEPT ![l] = InHand(w).amount]
    BY <1>0, <1>1, <1>2, <1>3 DEF EventRecord, ShownTypeOK, Write
  <1>5. Shows(l)'
    <2>1. CASE ~ExactAdjustment(w, l)
      BY <1>1, <1>4, <2>1, DepartedShows
    <2>2. CASE ExactAdjustment(w, l)
      <3>1. /\ InHand(w).holds /\ quiet[l] < InHand(w).no /\ Single(l)
            /\ \A q \in Touching(l) \ {Here(w)} :
                 Ev(q).no < InHand(w).no <=> <<q[1], q[2], l>> \in written
        BY <1>0, <2>2 DEF ExactAdjustment, InOrder, Single, Ev
      <3>2. View(l)' = InHand(w).amount
        <4>1. shown'[l] = InHand(w).amount
          BY <1>0, <1>4 DEF ShownTypeOK
        <4>2. InHand(w).amount # Absent
          BY <1>4, StockViewAssumption DEF StockViewAssumption
        <4>3. QED
          BY <4>1, <4>2 DEF View
      <3>3. PICK p : p = Here(w)
        OBVIOUS
      <3>4. QED
        BY <1>0, <1>3, <1>4, <3>1, <3>2, <3>3, AdjustmentShown
    <2>3. QED
      BY <2>1, <2>2
  <1>6. \A m \in Locations : m # l /\ m \notin after => m \notin departed
    BY <1>1
  <1>7. QED
    BY <1>0, <1>2, <1>4, <1>5, <1>6, WriteInv

LEMMA WriteSourceInv ==
  ASSUME ViewIInv, NEW w \in Replicas, WriteSource(w)
  PROVE  ViewIInv'
  <1>0. /\ StockIInv /\ StockTypeOK /\ ShownTypeOK /\ LogOK /\ Here(w) \in Positions
        /\ hand[w].step = "source" /\ InHand(w).kind = "transfer" /\ hand[w] \notin Resting
    <2>1. hand[w].step = "source"
      BY DEF WriteSource
    <2>2. hand[w] \notin Resting
      BY <2>1 DEF Resting, EmptyHand, Dead
    <2>3. QED
      BY <2>1, <2>2 DEF ViewIInv, StockIInv, HandsOK, HandOK
  <1>1. PICK l, n, quantity, after :
          /\ l = InHand(w).from /\ n = InHand(w).amount
          /\ quantity = IF hand[w].seen = Absent THEN shown[l] ELSE Less(hand[w].seen, n)
          /\ after = IF ExactMove(w, l) /\ ~(View(l) < n) THEN departed ELSE departed \cup {l}
    OBVIOUS
  <1>2. Write(w, l, quantity, after) /\ Goes(w, "moved", Absent)
    BY <1>1 DEF WriteSource
  <1>3. /\ InHand(w) = Ev(Here(w)) /\ InHand(w) \in EventRecord /\ Here(w) \in Touching(l)
    BY <1>0, <1>1, HandTouches
  <1>4. /\ l \in Locations /\ n \in Nat /\ n > 0 /\ after \in SUBSET Locations
        /\ departed' = after /\ shown[l] \in Nat \cup {Absent}
        /\ shown' = [shown EXCEPT ![l] = quantity]
    BY <1>0, <1>1, <1>2, <1>3 DEF EventRecord, ShownTypeOK, Write, LogOK, EventOK
  <1>5. hand[w].seen \in Nat \cup {Absent} /\ Absent \notin Int
    BY <1>0, StockViewAssumption DEF ShownTypeOK, HandRecord, StockViewAssumption
  <1>6. quantity \in Nat \cup {Absent}
    BY <1>1, <1>4, <1>5, LessIs
  <1>7. Shows(l)'
    <2>1. CASE l \in after
      BY <1>4, <2>1, DepartedShows
    <2>2. CASE l \notin after
      <3>1. ExactMove(w, l) /\ ~(View(l) < n) /\ after = departed
        BY <1>1, <2>2
      <3>2. hand[w].seen = shown[l]
        BY <3>1 DEF ExactMove
      <3>3. shown[l] # Absent /\ shown[l] \in Nat /\ View(l) = shown[l] /\ shown[l] >= n
        BY <1>1, <1>4, <3>1 DEF View
      <3>4. quantity = shown[l] - n /\ quantity \in Nat
        BY <1>1, <1>4, <3>2, <3>3, LessIs
      <3>5. shown'[l] = quantity /\ quantity # Absent
        BY <1>0, <1>4, <1>5, <3>4 DEF ShownTypeOK
      <3>6. View(l)' = View(l) + Moves(InHand(w), l)
        BY <1>1, <1>4, <3>3, <3>4, <3>5 DEF View, Moves
      <3>7. QED
        BY <1>0, <1>1, <1>2, <3>1, <3>6, ExactMoveShown
    <2>3. QED
      BY <2>1, <2>2
  <1>8. \A m \in Locations : m # l /\ m \notin after => m \notin departed
    BY <1>1
  <1>9. QED
    BY <1>0, <1>2, <1>4, <1>6, <1>7, <1>8, WriteInv

LEMMA WriteDestinationInv ==
  ASSUME ViewIInv, NEW w \in Replicas, WriteDestination(w)
  PROVE  ViewIInv'
  <1>0. /\ StockIInv /\ StockTypeOK /\ ShownTypeOK /\ LogOK /\ Here(w) \in Positions
        /\ hand[w].step = "destination" /\ InHand(w).kind = "transfer" /\ hand[w] \notin Resting
    <2>1. hand[w].step = "destination"
      BY DEF WriteDestination
    <2>2. hand[w] \notin Resting
      BY <2>1 DEF Resting, EmptyHand, Dead
    <2>3. QED
      BY <2>1, <2>2 DEF ViewIInv, StockIInv, HandsOK, HandOK
  <1>1. PICK l, n, quantity, after :
          /\ l = InHand(w).to /\ n = InHand(w).amount
          /\ quantity = (IF hand[w].seen = Absent THEN 0 ELSE hand[w].seen) + n
          /\ after = IF ExactMove(w, l) THEN departed ELSE departed \cup {l}
    OBVIOUS
  <1>2. Write(w, l, quantity, after) /\ Goes(w, "commit", Absent)
    BY <1>1 DEF WriteDestination
  <1>3. /\ InHand(w) = Ev(Here(w)) /\ InHand(w) \in EventRecord /\ Here(w) \in Touching(l)
    BY <1>0, <1>1, HandTouches
  <1>4. /\ l \in Locations /\ n \in Nat /\ after \in SUBSET Locations
        /\ departed' = after /\ shown[l] \in Nat \cup {Absent}
        /\ shown' = [shown EXCEPT ![l] = quantity]
    BY <1>0, <1>1, <1>2, <1>3 DEF EventRecord, ShownTypeOK, Write, LogOK, EventOK
  <1>5. hand[w].seen \in Nat \cup {Absent} /\ Absent \notin Int
    BY <1>0, StockViewAssumption DEF ShownTypeOK, HandRecord, StockViewAssumption
  <1>6. quantity \in Nat
    BY <1>1, <1>4, <1>5
  <1>7. Shows(l)'
    <2>1. CASE l \in after
      BY <1>4, <2>1, DepartedShows
    <2>2. CASE l \notin after
      <3>1. ExactMove(w, l) /\ after = departed
        BY <1>1, <2>2
      <3>2. hand[w].seen = shown[l]
        BY <3>1 DEF ExactMove
      <3>3. shown'[l] = quantity /\ quantity # Absent
        BY <1>0, <1>4, <1>5, <1>6 DEF ShownTypeOK
      <3>4. View(l)' = View(l) + Moves(InHand(w), l)
        <4>1. InHand(w).from # l
          BY <1>0, <1>1, <1>3, <3>1 DEF LogOK, EventOK, ExactMove
        <4>2. QED
          BY <1>1, <1>4, <3>2, <3>3, <4>1 DEF View, Moves
      <3>5. QED
        BY <1>0, <1>1, <1>2, <3>1, <3>4, ExactMoveShown
    <2>3. QED
      BY <2>1, <2>2
  <1>8. \A m \in Locations : m # l /\ m \notin after => m \notin departed
    BY <1>1
  <1>9. QED
    BY <1>0, <1>2, <1>4, <1>6, <1>7, <1>8, WriteInv

\* The reads.
LEMMA ReadsInv ==
  ASSUME ViewIInv, NEW w \in Replicas, ReadSource(w) \/ ReadDestination(w)
  PROVE  ViewIInv'
  <1>1. PICK s, l : /\ s \in {"source", "destination"} /\ l \in {InHand(w).from, InHand(w).to}
                    /\ Goes(w, s, shown[l])
    BY DEF ReadSource, ReadDestination
  <1>2. /\ hand[w].step \in {"begin", "moved"} /\ hand[w] \notin Resting
        /\ UNCHANGED <<inventoryVars, consumed, shown, written, departed, faults>>
    BY DEF ReadSource, ReadDestination, Resting, EmptyHand, Dead
  <1>3. /\ StockTypeOK /\ ShownTypeOK /\ HandOK(w) /\ Here(w) \in Positions /\ UNCHANGED log
    BY <1>2 DEF ViewIInv, StockIInv, HandsOK, HandOK, inventoryVars
  <1>4. InHand(w).kind = "transfer"
    BY <1>2, <1>3 DEF HandOK, ReadSource, ReadDestination
  <1>5. shown[l] \in Nat \cup {Absent}
    <2>1. l \in Locations
      BY <1>1, <1>3, HandTouches DEF EventRecord
    <2>2. QED
      BY <1>3, <2>1 DEF ShownTypeOK
  <1>6. /\ hand' \in [Replicas -> HandRecord]
        /\ hand'[w].part = hand[w].part /\ hand'[w].pos = hand[w].pos /\ hand'[w].step = s
        /\ \A v \in Replicas : v # w => hand'[v] = hand[v]
    BY <1>1, <1>3, <1>5, HandGoes
  <1>7. HandOK(w)'
    BY <1>1, <1>2, <1>3, <1>4, <1>6, HandOKStays
  <1>8. QED
    BY <1>2, <1>3, <1>6, <1>7, NothingWritten DEF ShownTypeOK

\* What the offset may become is an offset.
LEMMA OffsetTyped ==
  ASSUME StockTypeOK, ShownTypeOK, NEW w \in Replicas, HandOK(w), hand[w] \notin Resting
  PROVE  OffsetAfterCommit(w) \in [Partitions -> Nat]
  <1>1. Here(w) \in Positions /\ hand[w] \in HandRecord /\ consumed \in [Partitions -> Nat]
    BY DEF HandOK, ShownTypeOK
  <1>2. Here(w)[1] = hand[w].part
    BY DEF Here
  <1>3. hand[w].part \in Partitions /\ hand[w].pos \in Nat
    BY <1>1, <1>2, PositionIs DEF HandRecord
  <1>4. PICK m \in Nat, n \in Nat : consumed[hand[w].part] = m /\ hand[w].pos = n
    BY <1>1, <1>3
  <1>5. Max({m, n}) \in Nat
    <2>1. m \in Int /\ n \in Int
      OBVIOUS
    <2>2. Max({m, n}) \in {m, n}
      BY ONLY <2>1, MaxOfTwo
    <2>3. QED
      BY <2>2
  <1>6. QED
    BY <1>1, <1>3, <1>4, <1>5 DEF OffsetAfterCommit

\* The steps that only take an event up, put it down or try it again, or end the task.
LEMMA HandInv ==
  ASSUME ViewIInv, NEW w \in Replicas,
         \/ \E k \in Partitions : FetchEvent(w, k)
         \/ SettleEvent(w) \/ CommandRaises(w) \/ CommitRaises(w) \/ ReplicaCrash(w)
  PROVE  ViewIInv'
  <1>0. StockTypeOK /\ ShownTypeOK /\ HandOK(w) /\ MaxFaults \in Nat
    BY StockViewAssumption DEF ViewIInv, StockIInv, HandsOK, StockViewAssumption
  <1>1. EmptyHand \in HandRecord
    BY DEF EmptyHand, HandRecord
  <1>2. ASSUME NEW k \in Partitions, FetchEvent(w, k) PROVE ViewIInv'
    <2>1. PICK n, h : n = consumed[k] + 1 /\ h = [EmptyHand EXCEPT !.part = k, !.pos = n, !.step = "begin"]
      OBVIOUS
    <2>2. n \in 1..Len(log[k])
      <3>1. consumed[k] \in Nat /\ Len(log[k]) \in Nat
        BY <1>0 DEF ShownTypeOK, StockTypeOK
      <3>2. consumed[k] < Len(log[k])
        BY <1>2 DEF FetchEvent
      <3>3. QED
        BY <2>1, <3>1, <3>2
    <2>3. h = [part |-> k, pos |-> n, attempt |-> 0, step |-> "begin", seen |-> Absent]
      BY <2>1 DEF EmptyHand
    <2>4. h \in HandRecord
      BY <2>2, <2>3 DEF HandRecord
    <2>5. hand' = [hand EXCEPT ![w] = h]
      BY <1>2, <2>1 DEF FetchEvent
    <2>6. hand'[w] = h /\ hand' \in [Replicas -> HandRecord] /\ \A v \in Replicas : v # w => hand'[v] = hand[v]
      BY <1>0, <2>4, <2>5 DEF ShownTypeOK
    <2>7. UNCHANGED <<inventoryVars, consumed, shown, written, departed>> /\ UNCHANGED log
      BY <1>2 DEF FetchEvent, inventoryVars
    <2>8. HandOK(w)'
      <3>1. Here(w)' = <<k, n>>
        BY <2>3, <2>6 DEF Here
      <3>2. <<k, n>> \in Positions
        BY <1>0, <2>2, PositionIs
      <3>3. Positions' = Positions
        BY <2>7, LogKept
      <3>4. QED
        BY <2>3, <2>6, <3>1, <3>2, <3>3 DEF HandOK
    <2>9. faults' \in 0..MaxFaults
      <3>1. faults' = faults \/ (faults < MaxFaults /\ faults' = faults + 1)
        BY <1>2 DEF FetchEvent, Fault
      <3>2. QED
        BY <1>0, <3>1 DEF ShownTypeOK
    <2>10. QED
      BY <1>0, <2>6, <2>7, <2>8, <2>9, NothingWritten DEF ShownTypeOK
  <1>3. ASSUME hand' = [hand EXCEPT ![w] = EmptyHand], consumed' \in [Partitions -> Nat],
               UNCHANGED <<inventoryVars, shown, written, departed>>, faults' \in 0..MaxFaults
        PROVE  ViewIInv'
    <2>1. hand'[w] = EmptyHand /\ hand' \in [Replicas -> HandRecord]
          /\ \A v \in Replicas : v # w => hand'[v] = hand[v]
      BY <1>0, <1>1, <1>3 DEF ShownTypeOK
    <2>2. HandOK(w)'
      BY <2>1 DEF HandOK, Resting
    <2>3. QED
      BY <1>3, <2>1, <2>2, NothingWritten
  <1>4. ASSUME SettleEvent(w) PROVE ViewIInv'
    <2>1. hand[w] \notin Resting
      BY <1>4 DEF SettleEvent, Resting, EmptyHand, Dead
    <2>2. consumed' \in [Partitions -> Nat]
      BY <1>0, <1>4, <2>1, OffsetTyped DEF SettleEvent
    <2>3. QED
      BY <1>0, <1>3, <1>4, <2>2 DEF SettleEvent, ShownTypeOK
  <1>5. ASSUME CommandRaises(w) \/ CommitRaises(w) PROVE ViewIInv'
    <2>1. PICK h : h = TriedOnceMore(hand[w])
      OBVIOUS
    <2>2. hand[w] \in HandRecord /\ hand[w] \notin Resting
      BY <1>0, <1>5 DEF ShownTypeOK, CommandRaises, CommitRaises, Resting, EmptyHand, Dead
    <2>3. /\ h \in HandRecord /\ h.part = hand[w].part /\ h.pos = hand[w].pos
          /\ h.step \in {"begin", "skip"}
      <3>1. PICK i, s : /\ i = hand[w].attempt + 1
                        /\ s = IF i < MaxAttempts THEN "begin" ELSE "skip"
        OBVIOUS
      <3>2. h = [hand[w] EXCEPT !.attempt = i, !.seen = Absent, !.step = s]
        BY <2>1, <3>1 DEF TriedOnceMore
      <3>3. s \in {"begin", "skip"} /\ i \in Nat
        BY <2>2, <3>1 DEF HandRecord
      <3>4. QED
        BY <2>2, <3>2, <3>3 DEF HandRecord
    <2>4. hand' = [hand EXCEPT ![w] = h] /\ UNCHANGED log
          /\ UNCHANGED <<inventoryVars, shown, written, departed, faults>>
      BY <1>5, <2>1 DEF CommandRaises, CommitRaises, inventoryVars
    <2>5. hand'[w] = h /\ hand' \in [Replicas -> HandRecord] /\ \A v \in Replicas : v # w => hand'[v] = hand[v]
      BY <1>0, <2>3, <2>4 DEF ShownTypeOK
    <2>6. HandOK(w)'
      BY <1>0, <2>2, <2>3, <2>4, <2>5, HandOKStays
    <2>7. consumed' \in [Partitions -> Nat]
      <3>1. consumed' = consumed \/ consumed' = OffsetAfterCommit(w)
        BY <1>5 DEF CommandRaises, CommitRaises
      <3>2. QED
        BY <1>0, <2>2, <3>1, OffsetTyped DEF ShownTypeOK
    <2>8. QED
      BY <1>0, <2>4, <2>5, <2>6, <2>7, NothingWritten DEF ShownTypeOK
  <1>6. ASSUME ReplicaCrash(w) PROVE ViewIInv'
    BY <1>0, <1>3, <1>6 DEF ReplicaCrash, Fault, ShownTypeOK
  <1>7. QED
    BY <1>2, <1>4, <1>5, <1>6

\* An event given up: the locations it was not written to have departed.
LEMMA StepOverInv ==
  ASSUME ViewIInv, NEW w \in Replicas, hand[w].step = "skip", StepOver(w),
         NEW h \in Resting, hand' = [hand EXCEPT ![w] = h],
         UNCHANGED <<inventoryVars, shown, faults>>
  PROVE  ViewIInv'
  <1>1. PICK missed : missed = {l \in {InHand(w).from, InHand(w).to} :
                                  <<hand[w].part, hand[w].pos, l>> \notin written}
    OBVIOUS
  <1>2. /\ departed' = departed \cup missed
        /\ written' = written \cup {<<hand[w].part, hand[w].pos, l>> : l \in missed}
        /\ consumed' = OffsetAfterCommit(w)
        /\ UNCHANGED <<inventoryVars, log, shown, faults>> /\ hand[w] \notin Resting
    BY <1>1 DEF StepOver, Resting, EmptyHand, Dead, inventoryVars
  <1>3. /\ StockIInv /\ StockTypeOK /\ ShownTypeOK /\ HandsOK /\ ShownOK
        /\ Here(w) \in Positions /\ hand[w] \in HandRecord
    BY <1>2 DEF ViewIInv, StockIInv, HandsOK, HandOK, ShownTypeOK
  <1>4. InHand(w) \in EventRecord /\ Here(w)[1] = hand[w].part
    BY <1>3, HandTouches
  <1>5. missed \subseteq Locations
    BY <1>1, <1>4 DEF EventRecord
  <1>7. /\ hand'[w] = h /\ hand' \in [Replicas -> HandRecord]
        /\ \A v \in Replicas : v # w => hand'[v] = hand[v]
    <2>1. h \in HandRecord
      BY DEF Resting, EmptyHand, Dead, HandRecord
    <2>2. QED
      BY <1>2, <1>3, <2>1 DEF ShownTypeOK
  <1>8. ShownTypeOK'
    <2>1. consumed' \in [Partitions -> Nat]
      BY <1>2, <1>3, OffsetTyped DEF HandsOK
    <2>2. QED
      BY <1>2, <1>3, <1>5, <1>7, <2>1 DEF ShownTypeOK
  <1>9. HandsOK'
    <2>1. HandOK(w)'
      BY <1>7 DEF HandOK
    <2>2. \A y \in written' : y \in written \/ (y = <<y[1], y[2], y[3]>> /\ <<y[1], y[2]>> \in Positions)
      BY <1>2, <1>3 DEF Here
    <2>3. QED
      BY <1>2, <1>3, <1>7, <2>1, <2>2, HandsStep
  <1>10. ASSUME NEW l \in Locations PROVE Shows(l)'
    <2>1. CASE l \in missed
      BY <1>2, <2>1, DepartedShows
    <2>2. CASE l \notin missed
      <3>1. Unwritten(l)' = Unwritten(l)
        <4>1. \A q : <<q[1], q[2], l>> \in written' <=> <<q[1], q[2], l>> \in written
          BY <1>2, <2>2
        <4>2. Touching(l)' = Touching(l)
          BY <1>2, LogKept
        <4>3. QED
          BY <4>1, <4>2 DEF Unwritten
      <3>2. QED
        BY <1>2, <1>3, <3>1, ShowsKept DEF ShownOK
    <2>3. QED
      BY <2>1, <2>2
  <1>11. StockIInv'
    BY <1>2, <1>3, StockKept
  <1>12. QED
    BY <1>8, <1>9, <1>10, <1>11 DEF ViewIInv, ShownOK

\* The event is given up, and the replica goes on or its task ends, with or without the
\* offset having moved.
LEMMA SkipInv ==
  ASSUME ViewIInv, NEW w \in Replicas, Skip(w) \/ TaskDies(w)
  PROVE  ViewIInv'
  <1>1. PICK h \in Resting : /\ hand[w].step = "skip" /\ hand' = [hand EXCEPT ![w] = h]
                             /\ StepOver(w) \/ UNCHANGED <<consumed, departed, written>>
                             /\ UNCHANGED <<inventoryVars, shown, faults>>
    BY DEF Skip, TaskDies, Resting
  <1>2. CASE StepOver(w)
    BY <1>1, <1>2, StepOverInv
  <1>3. CASE UNCHANGED <<consumed, departed, written>>
    <2>1. ShownTypeOK
      BY DEF ViewIInv
    <2>2. h \in HandRecord
      BY DEF Resting, EmptyHand, Dead, HandRecord
    <2>3. /\ hand'[w] = h /\ hand' \in [Replicas -> HandRecord]
          /\ \A v \in Replicas : v # w => hand'[v] = hand[v]
      BY <1>1, <2>1, <2>2 DEF ShownTypeOK
    <2>4. HandOK(w)'
      BY <2>3 DEF HandOK
    <2>5. QED
      BY <1>1, <1>3, <2>1, <2>3, <2>4, NothingWritten DEF ShownTypeOK
  <1>4. QED
    BY <1>1, <1>2, <1>3

\* A hash expires.
LEMMA ExpireInv ==
  ASSUME ViewIInv, NEW k \in Locations, Expire(k)
  PROVE  ViewIInv'
  <1>1. /\ UNCHANGED <<inventoryVars, log, consumed, hand, written>>
        /\ shown' = [shown EXCEPT ![k] = Absent] /\ departed' = departed \cup {k}
    BY DEF Expire, inventoryVars
  <1>2. StockIInv /\ StockTypeOK /\ ShownTypeOK /\ HandsOK /\ ShownOK
    BY DEF ViewIInv, StockIInv
  <1>3. ShownTypeOK'
    <2>1. faults' \in 0..MaxFaults
      BY <1>2, StockViewAssumption DEF Expire, Fault, ShownTypeOK, StockViewAssumption
    <2>2. QED
      BY <1>1, <1>2, <2>1 DEF ShownTypeOK
  <1>4. HandsOK'
    <2>1. Positions' = Positions /\ \A p : Ev(p)' = Ev(p)
      BY <1>1, LogKept
    <2>2. QED
      BY <1>1, <1>2, <2>1, HandsKept
  <1>5. ASSUME NEW l \in Locations PROVE Shows(l)'
    <2>1. CASE l = k
      BY <1>1, <2>1, DepartedShows
    <2>2. CASE l # k
      <3>1. shown'[l] = shown[l]
        BY <1>1, <1>2, <2>2 DEF ShownTypeOK
      <3>2. Unwritten(l)' = Unwritten(l)
        BY <1>1, LogKept DEF Unwritten
      <3>3. QED
        BY <1>1, <1>2, <3>1, <3>2, ShowsKept DEF ShownOK
    <2>3. QED
      BY <2>1, <2>2
  <1>6. StockIInv'
    BY <1>1, <1>2, StockKept
  <1>7. QED
    BY <1>3, <1>4, <1>5, <1>6 DEF ViewIInv, ShownOK

-----------------------------------------------------------------------------
(* The theorems.                                                           *)

LEMMA ViewInitInv == ViewInit => ViewIInv
  <1> SUFFICES ASSUME ViewInit PROVE ViewIInv
    OBVIOUS
  <1>1. \A x \in Slots : tx[x] = NoTx /\ NoTx.step = "idle"
    BY DEF ViewInit, NoTx
  <1>2. \A k \in Partitions : log[k] = <<>>
    BY DEF ViewInit
  <1>3. Positions = {}
    <2>1. \A k \in Partitions : DOMAIN log[k] = {}
      BY <1>2
    <2>2. QED
      BY <2>1 DEF Positions
  <1>4. StockTypeOK
    <2>1. NoTx \in TxRecord
      BY DEF NoTx, TxRecord
    <2>2. log \in [Partitions -> Seq(EventRecord)]
      BY DEF ViewInit
    <2>3. QED
      BY <2>1, <2>2, StockViewAssumption DEF ViewInit, StockTypeOK, StockViewAssumption
  <1>5. TxsOK /\ LocksOK
    BY <1>1 DEF TxsOK, TxOK, LocksOK
  <1>6. LogOK /\ TellsOK
    <2>1. \A l : Touching(l) = {}
      BY <1>3 DEF Touching
    <2>2. \A l \in Locations : quiet[l] <= clock
      BY DEF ViewInit
    <2>3. QED
      BY <1>3, <2>1, <2>2 DEF LogOK, TellsOK, Tells
  <1>7. ShownTypeOK
    <2>1. EmptyHand \in HandRecord
      BY DEF EmptyHand, HandRecord
    <2>2. QED
      BY <2>1, StockViewAssumption DEF ViewInit, ShownTypeOK, StockViewAssumption
  <1>8. HandsOK
    BY DEF HandsOK, HandOK, ViewInit, Resting
  <1>9. ASSUME NEW l \in Locations, l \notin departed PROVE View(l) + Moved(Unwritten(l), l) = Held(l)
    <2>1. OnHand(l) = 0 /\ View(l) = 0
      BY <1>9 DEF ViewInit, View
    <2>2. Unwritten(l) = {}
      BY <1>3 DEF Unwritten, Touching
    <2>3. Moved(Unwritten(l), l) = 0
      BY <2>2, MovedNone
    <2>4. Open(l) = 0
      BY <1>1, NothingOpen
    <2>5. QED
      BY <2>1, <2>3, <2>4 DEF Held
  <1>10. QED
    BY <1>4, <1>5, <1>6, <1>7, <1>8, <1>9 DEF ViewIInv, StockIInv, ShownOK, Shows

LEMMA ViewStep == ViewIInv /\ [ViewNext]_stockViewVars => ViewIInv'
  <1> SUFFICES ASSUME ViewIInv, [ViewNext]_stockViewVars PROVE ViewIInv'
    OBVIOUS
  <1>1. CASE InventoryStep
    BY <1>1, InventoryInv
  <1>2. ASSUME NEW w \in Replicas,
               \/ ConsumerStep(w) \/ CommandRaises(w) \/ CommitRaises(w)
               \/ TaskDies(w) \/ ReplicaCrash(w)
        PROVE  ViewIInv'
    BY <1>2, HandInv, SetQuantityInv, ReadsInv, WriteSourceInv, WriteDestinationInv, SkipInv
       DEF ConsumerStep
  <1>3. ASSUME NEW l \in Locations, Expire(l) PROVE ViewIInv'
    BY <1>3, ExpireInv
  <1>4. CASE UNCHANGED stockViewVars
    <2>1. /\ UNCHANGED <<inventoryVars, log, consumed, hand, shown, written, departed, faults>>
      BY <1>4 DEF stockViewVars, viewVars, inventoryVars
    <2>2. StockIInv /\ ShownTypeOK /\ HandsOK /\ ShownOK
      BY DEF ViewIInv
    <2>3. ShownTypeOK'
      BY <2>1, <2>2 DEF ShownTypeOK
    <2>4. Positions' = Positions /\ \A p : Ev(p)' = Ev(p)
      BY <2>1, LogKept
    <2>5. HandsOK'
      BY <2>1, <2>2, <2>4, HandsKept
    <2>6. ASSUME NEW l \in Locations PROVE Shows(l)'
      <3>1. Unwritten(l)' = Unwritten(l)
        BY <2>1, LogKept DEF Unwritten
      <3>2. QED
        BY <2>1, <2>2, <3>1, ShowsKept DEF ShownOK
    <2>7. QED
      BY <2>1, <2>2, <2>3, <2>5, <2>6, StockKept DEF ViewIInv, ShownOK
  <1>5. QED
    BY <1>1, <1>2, <1>3, <1>4 DEF ViewNext

\* What the view shows of a location, with what is still to be written to it, is what the
\* location holds, or is about to once the open requests commit (StockReadModel and
\* InventoryService.adjust_stock, complete_transfer).
THEOREM ViewInvariant == ViewSpec => []ViewIInv
  <1>1. QED
    BY ViewInitInv, ViewStep, PTL DEF ViewSpec

LEMMA AgreesFromInv == ViewIInv => ViewAgrees
  <1> SUFFICES ASSUME ViewIInv, NEW l \in Locations, AtRest(l), l \notin departed
               PROVE  View(l) = OnHand(l)
    BY DEF ViewAgrees
  <1>1. StockTypeOK /\ TxsOK /\ ShownTypeOK /\ ShownOK
    BY DEF ViewIInv, StockIInv
  <1>2. Unwritten(l) = {}
    BY DEF AtRest, Unwritten
  <1>3. Moved(Unwritten(l), l) = 0 /\ AllMoves(Unwritten(l))
    BY <1>2, MovedNone DEF AllMoves
  <1>4. Open(l) = 0
    BY NothingOpen DEF AtRest
  <1>5. View(l) \in Int /\ OnHand(l) \in Int
    BY <1>1, HeldInt DEF View, ShownTypeOK
  <1>6. QED
    BY <1>1, <1>3, <1>4, <1>5 DEF ShownOK, Shows, Held

\* Once everything about a location has come through, the view shows what is in stock
\* there, whatever the interleaving of requests, replicas, retries and crashes, unless
\* something made it depart since the last exact adjustment.
THEOREM ViewAgreesAlways == ViewSpec => []ViewAgrees
  <1>1. QED
    BY ViewInvariant, AgreesFromInv, PTL

\* The view never shows less than nothing: the floor of update_from_transfer and the check
\* of adjust_stock hold for a stale read, a retry and a repeated event as well.
THEOREM NeverLessThanNothing == ViewSpec => []NeverNegativeShown
  <1>1. ViewIInv => NeverNegativeShown
    BY DEF ViewIInv, ShownTypeOK, NeverNegativeShown
  <1>2. QED
    BY <1>1, ViewInvariant, PTL
=============================================================================
