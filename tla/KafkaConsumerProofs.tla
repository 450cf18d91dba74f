------------------------- MODULE KafkaConsumerProofs -------------------------
(***************************************************************************)
(* Proofs about the consumer loop, for any number of replicas, partitions, *)
(* events, attempts and faults.                                            *)
(***************************************************************************)
EXTENDS KafkaConsumer, TLAPS

TaskRecord == [phase : Phases, part : Partitions \cup {NoPartition},
               pos : Nat, attempt : 0..MaxRetries, held : BOOLEAN]

\* What is known of the event a replica has in hand: where it lies relative to
\* the committed offset, who may commit it and what has been done with it.
HandOK(w) ==
  /\ task[w].part \in Partitions
  /\ task[w].pos \in 1..Len(Log[task[w].part])
  /\ task[w].pos <= committed[task[w].part] + 1
  /\ task[w].held => /\ owner[task[w].part] = w
                     /\ committed[task[w].part] <= task[w].pos
  /\ task[w].phase \in {"handling", "committing"} => task[w].attempt < MaxRetries
  /\ task[w].phase = "committing" => InHand(w) \in handled
  /\ task[w].phase = "skipping" /\ HasDlqProducer => InHand(w) \in dlq
  /\ ~ZombieHandoff => task[w].held

HandInv == \A w \in Workers : Busy(w) => HandOK(w)

ConsumerIInv ==
  /\ ConsumerTypeOK
  /\ HandInv
  /\ HasDlqProducer => NoEventLost

\* Logs are finite.
LEMMA LogLength == ASSUME NEW p \in Partitions PROVE Len(Log[p]) \in Nat
  BY ConsumerAssumption DEF ConsumerAssumption

\* An idle task is a task.
LEMMA IdleType == Idle \in TaskRecord
  BY ConsumerAssumption DEF ConsumerAssumption, Idle, TaskRecord, Phases

\* A failed attempt keeps the event and either repeats or gives up.
LEMMA RetriedEffect ==
  ASSUME NEW t \in TaskRecord, t.attempt < MaxRetries
  PROVE  /\ Retried(t) \in TaskRecord
         /\ Retried(t).phase \in {"handling", "routing"}
         /\ Retried(t).phase = "handling" => Retried(t).attempt < MaxRetries
         /\ Retried(t).part = t.part
         /\ Retried(t).pos = t.pos
         /\ Retried(t).held = t.held
  <1>1. t.attempt + 1 \in 0..MaxRetries
    BY ConsumerAssumption DEF ConsumerAssumption, TaskRecord
  <1>2. QED
    BY <1>1 DEF Retried, TaskRecord, Phases

-----------------------------------------------------------------------------
(* Every step but a rebalance touches the task of one replica and moves the *)
(* committed offset of at most the partition that replica holds.            *)

TouchesOnly(w) ==
  /\ \A v \in Workers : v # w => task'[v] = task[v]
  /\ task'[w] \in TaskRecord
  /\ task' \in [Workers -> TaskRecord]
  /\ owner' = owner
  /\ handled \subseteq handled'
  /\ handled' \subseteq Positions
  /\ dlq \subseteq dlq'
  /\ dlq' \subseteq Positions
  /\ faults' \in 0..MaxFaults
  /\ \/ committed' = committed
     \/ Busy(w) /\ task[w].held /\ committed' = [committed EXCEPT ![task[w].part] = task[w].pos]

\* A step that touches one task only preserves the invariant if that task is in order
\* afterwards and the offset moved only over what was handled or parked.
LEMMA StepInv ==
  ASSUME ConsumerIInv, NEW w \in Workers, TouchesOnly(w),
         Busy(w)' => HandOK(w)',
         committed' # committed =>
            InHand(w) \in handled \/ (HasDlqProducer => InHand(w) \in dlq)
  PROVE  ConsumerIInv'
  <1> USE LogLength, ConsumerAssumption DEF ConsumerAssumption
  <1>1. ASSUME NEW p \in Partitions
        PROVE  /\ committed'[p] \in Nat
               /\ committed'[p] <= Len(Log[p])
               /\ committed[p] <= committed'[p]
               /\ committed'[p] # committed[p] =>
                    /\ Busy(w) /\ task[w].held /\ task[w].part = p
                    /\ committed'[p] = task[w].pos
                    /\ committed[p] + 1 = task[w].pos
    BY DEF ConsumerIInv, ConsumerTypeOK, TouchesOnly, HandInv, HandOK
  <1>2. ConsumerTypeOK'
    BY <1>1 DEF ConsumerIInv, ConsumerTypeOK, TouchesOnly, TaskRecord
  <1>3. HandInv'
    <2> SUFFICES ASSUME NEW v \in Workers, Busy(v)'
                 PROVE  HandOK(v)'
      BY DEF HandInv
    <2>1. CASE v = w
      BY <2>1
    <2>2. CASE v # w
      <3>1. task'[v] = task[v] /\ Busy(v) /\ HandOK(v)
        BY <2>2 DEF TouchesOnly, Busy, ConsumerIInv, HandInv
      <3>2. task[v].held => committed'[task[v].part] = committed[task[v].part]
        BY <1>1, <2>2, <3>1 DEF ConsumerIInv, HandInv, HandOK
      <3>3. task[v].pos <= committed'[task[v].part] + 1
        BY <1>1, <3>1 DEF HandOK, ConsumerIInv, ConsumerTypeOK
      <3>4. QED
        BY <3>1, <3>2, <3>3 DEF HandOK, InHand, TouchesOnly
    <2>3. QED
      BY <2>1, <2>2
  <1>4. HasDlqProducer => NoEventLost'
    <2> SUFFICES ASSUME HasDlqProducer, NEW p \in Partitions, NEW i \in 1..committed'[p]
                 PROVE  <<p, i>> \in handled' \cup dlq'
      BY DEF NoEventLost
    <2>1. CASE i \in 1..committed[p]
      BY <2>1 DEF ConsumerIInv, NoEventLost, TouchesOnly
    <2>2. CASE i \notin 1..committed[p]
      <3>1. committed'[p] # committed[p]
        BY <2>2
      <3>2. i = task[w].pos /\ p = task[w].part
        BY <1>1, <2>2, <3>1 DEF ConsumerIInv, ConsumerTypeOK
      <3>3. <<p, i>> \in handled \cup dlq
        BY <3>1, <3>2 DEF InHand
      <3>4. QED
        BY <3>3 DEF TouchesOnly
    <2>3. QED
      BY <2>1, <2>2
  <1>5. QED
    BY <1>2, <1>3, <1>4 DEF ConsumerIInv

\* What the invariant says of a replica with an event in hand.
LEMMA BusyFacts ==
  ASSUME ConsumerIInv, NEW w \in Workers, Busy(w)
  PROVE  /\ task[w] \in TaskRecord
         /\ task[w].part \in Partitions
         /\ task[w].pos \in 1..Len(Log[task[w].part])
         /\ InHand(w) \in Positions
         /\ HandOK(w)
  BY DEF ConsumerIInv, ConsumerTypeOK, TaskRecord, HandInv, HandOK, InHand, Positions

\* A step to a later phase of the same event.
LEMMA PhaseEffect ==
  ASSUME ConsumerIInv, NEW w \in Workers, NEW ph \in Phases,
         task' = [task EXCEPT ![w].phase = ph]
  PROVE  /\ task' \in [Workers -> TaskRecord]
         /\ task'[w].phase = ph
         /\ task'[w].part = task[w].part
         /\ task'[w].pos = task[w].pos
         /\ task'[w].attempt = task[w].attempt
         /\ task'[w].held = task[w].held
         /\ \A v \in Workers : v # w => task'[v] = task[v]
  <1>1. task \in [Workers -> TaskRecord]
    BY DEF ConsumerIInv, ConsumerTypeOK, TaskRecord
  <1>2. [task[w] EXCEPT !.phase = ph] \in TaskRecord
    BY <1>1 DEF TaskRecord
  <1>3. QED
    BY <1>1, <1>2 DEF TaskRecord

\* An idle task polls.
LEMMA IdleFacts == Idle \in TaskRecord /\ Idle.phase = "polling"
  BY IdleType DEF Idle
-----------------------------------------------------------------------------
(* One lemma per action.                                                    *)

\* The next event is fetched.
LEMMA PollInv ==
  ASSUME ConsumerIInv, NEW w \in Workers, NEW p \in Partitions, Poll(w, p)
  PROVE  ConsumerIInv'
  <1> USE LogLength, ConsumerAssumption DEF ConsumerAssumption
  <1> DEFINE r == [phase |-> "handling", part |-> p, pos |-> committed[p] + 1,
                   attempt |-> 0, held |-> TRUE]
  <1>1. r \in TaskRecord /\ r.pos \in 1..Len(Log[p])
    BY DEF Poll, TaskRecord, Phases, ConsumerIInv, ConsumerTypeOK
  <1>2. TouchesOnly(w)
    BY <1>1 DEF Poll, TouchesOnly, ConsumerIInv, ConsumerTypeOK, TaskRecord
  <1>3. task'[w] = r
    BY DEF Poll, ConsumerIInv, ConsumerTypeOK
  <1>4. HandOK(w)'
    BY <1>1, <1>3 DEF Poll, HandOK, InHand, ConsumerIInv, ConsumerTypeOK
  <1>5. QED
    BY <1>2, <1>4, StepInv DEF Poll

\* The handler returns and the event counts as handled.
LEMMA HandlerReturnsInv ==
  ASSUME ConsumerIInv, NEW w \in Workers, HandlerReturns(w)
  PROVE  ConsumerIInv'
  <1>0. Busy(w)
    BY DEF HandlerReturns, Busy
  <1>1. "committing" \in Phases /\ task' = [task EXCEPT ![w].phase = "committing"]
    BY DEF HandlerReturns, Phases
  <1>2. TouchesOnly(w)
    <2>1. /\ task' \in [Workers -> TaskRecord] /\ task'[w] \in TaskRecord
          /\ \A v \in Workers : v # w => task'[v] = task[v]
      BY <1>1, PhaseEffect
    <2>2. handled \subseteq handled' /\ handled' \subseteq Positions
      BY <1>0, BusyFacts DEF HandlerReturns, ConsumerIInv, ConsumerTypeOK
    <2>3. QED
      BY <2>1, <2>2 DEF HandlerReturns, TouchesOnly, ConsumerIInv, ConsumerTypeOK
  <1>3. HandOK(w)'
    <2>1. /\ task'[w].phase = "committing" /\ task'[w].part = task[w].part
          /\ task'[w].pos = task[w].pos /\ task'[w].attempt = task[w].attempt
          /\ task'[w].held = task[w].held
      BY <1>1, PhaseEffect
    <2>2. InHand(w) \in handled'
      BY DEF HandlerReturns
    <2>3. HandOK(w) /\ task[w].part \in Partitions
      BY <1>0, BusyFacts
    <2>4. QED
      BY <2>1, <2>2, <2>3 DEF HandlerReturns, HandOK, InHand
  <1>4. QED
    BY <1>2, <1>3, StepInv DEF HandlerReturns

\* The handler raises.
LEMMA HandlerRaisesInv ==
  ASSUME ConsumerIInv, NEW w \in Workers, HandlerRaises(w)
  PROVE  ConsumerIInv'
  <1>0. Busy(w)
    BY DEF HandlerRaises, Busy
  <1>1. /\ task[w] \in TaskRecord /\ task[w].attempt < MaxRetries
        /\ task' = [task EXCEPT ![w] = Retried(task[w])]
        /\ task'[w] = Retried(task[w])
        /\ \A v \in Workers : v # w => task'[v] = task[v]
    <2>1. task[w] \in TaskRecord /\ task[w].attempt < MaxRetries
      BY <1>0, BusyFacts DEF HandlerRaises, HandOK
    <2>2. task' = [task EXCEPT ![w] = Retried(task[w])]
      BY DEF HandlerRaises, Retry
    <2>3. QED
      BY <2>1, <2>2 DEF ConsumerIInv, ConsumerTypeOK
  <1>2. TouchesOnly(w)
    <2>1. Retried(task[w]) \in TaskRecord
      BY <1>1, RetriedEffect
    <2>2. task' \in [Workers -> TaskRecord]
      BY <1>1, <2>1 DEF ConsumerIInv, ConsumerTypeOK, TaskRecord
    <2>3. QED
      BY <1>1, <2>1, <2>2 DEF HandlerRaises, TouchesOnly, ConsumerIInv, ConsumerTypeOK
  <1>3. HandOK(w)'
    BY <1>0, <1>1, BusyFacts, RetriedEffect DEF HandlerRaises, HandOK, InHand
  <1>4. QED
    BY <1>2, <1>3, StepInv DEF HandlerRaises

\* The offset is committed.
LEMMA CommitInv ==
  ASSUME ConsumerIInv, NEW w \in Workers, Commit(w)
  PROVE  ConsumerIInv'
  <1>0. Busy(w) /\ InHand(w) \in handled
    BY BusyFacts DEF Commit, Busy, HandOK
  <1>1. task'[w] = Idle
    BY DEF Commit, ConsumerIInv, ConsumerTypeOK
  <1>2. TouchesOnly(w)
    BY <1>0, <1>1, IdleFacts
    DEF Commit, OffsetAfterCommit, TouchesOnly, ConsumerIInv, ConsumerTypeOK, TaskRecord
  <1>3. ~Busy(w)'
    BY <1>1, IdleFacts DEF Busy
  <1>4. QED
    BY <1>0, <1>2, <1>3, StepInv

\* The commit raises, applied or not.
LEMMA CommitRaisesInv ==
  ASSUME ConsumerIInv, NEW w \in Workers, CommitRaises(w)
  PROVE  ConsumerIInv'
  <1>0. Busy(w) /\ InHand(w) \in handled
    BY BusyFacts DEF CommitRaises, Busy, HandOK
  <1>1. task[w] \in TaskRecord /\ task[w].attempt < MaxRetries /\ task'[w] = Retried(task[w])
    BY <1>0, BusyFacts DEF CommitRaises, HandOK, Retry, ConsumerIInv, ConsumerTypeOK
  <1>2. faults' \in 0..MaxFaults
    BY ConsumerAssumption DEF CommitRaises, Fault, ConsumerIInv, ConsumerTypeOK, ConsumerAssumption
  <1>3. TouchesOnly(w)
    BY <1>0, <1>1, <1>2, RetriedEffect
    DEF CommitRaises, OffsetAfterCommit, Retry, TouchesOnly, ConsumerIInv, ConsumerTypeOK, TaskRecord
  <1>4. HandOK(w)'
    <2>1. committed'[task[w].part] \in {committed[task[w].part], task[w].pos}
      BY <1>0, BusyFacts DEF CommitRaises, OffsetAfterCommit, ConsumerIInv, ConsumerTypeOK
    <2>2. QED
      BY <1>0, <1>1, <2>1, BusyFacts, RetriedEffect, LogLength
      DEF CommitRaises, HandOK, InHand, ConsumerIInv, ConsumerTypeOK
  <1>5. QED
    BY <1>0, <1>3, <1>4, StepInv

\* The event is parked.
LEMMA RouteToDlqInv ==
  ASSUME ConsumerIInv, NEW w \in Workers, RouteToDlq(w)
  PROVE  ConsumerIInv'
  <1>0. Busy(w)
    BY DEF RouteToDlq, Busy
  <1>1. "skipping" \in Phases /\ task' = [task EXCEPT ![w].phase = "skipping"]
    BY DEF RouteToDlq, Phases
  <1>2. TouchesOnly(w)
    <2>1. /\ task' \in [Workers -> TaskRecord] /\ task'[w] \in TaskRecord
          /\ \A v \in Workers : v # w => task'[v] = task[v]
      BY <1>1, PhaseEffect
    <2>2. dlq \subseteq dlq' /\ dlq' \subseteq Positions
      BY <1>0, BusyFacts DEF RouteToDlq, ConsumerIInv, ConsumerTypeOK
    <2>3. QED
      BY <2>1, <2>2 DEF RouteToDlq, TouchesOnly, ConsumerIInv, ConsumerTypeOK
  <1>3. HandOK(w)'
    <2>1. /\ task'[w].phase = "skipping" /\ task'[w].part = task[w].part
          /\ task'[w].pos = task[w].pos /\ task'[w].attempt = task[w].attempt
          /\ task'[w].held = task[w].held
      BY <1>1, PhaseEffect
    <2>2. HasDlqProducer => InHand(w) \in dlq'
      BY DEF RouteToDlq
    <2>3. HandOK(w) /\ task[w].part \in Partitions
      BY <1>0, BusyFacts
    <2>4. QED
      BY <2>1, <2>2, <2>3 DEF RouteToDlq, HandOK, InHand
  <1>4. QED
    BY <1>2, <1>3, StepInv DEF RouteToDlq

\* The offset of a parked event is committed.
LEMMA CommitSkippedInv ==
  ASSUME ConsumerIInv, NEW w \in Workers, CommitSkipped(w)
  PROVE  ConsumerIInv'
  <1>0. Busy(w) /\ (HasDlqProducer => InHand(w) \in dlq)
    BY BusyFacts DEF CommitSkipped, Busy, HandOK
  <1>1. task'[w] = Idle
    BY DEF CommitSkipped, ConsumerIInv, ConsumerTypeOK
  <1>2. TouchesOnly(w)
    BY <1>0, <1>1, IdleFacts
    DEF CommitSkipped, OffsetAfterCommit, TouchesOnly, ConsumerIInv, ConsumerTypeOK, TaskRecord
  <1>3. ~Busy(w)'
    BY <1>1, IdleFacts DEF Busy
  <1>4. QED
    BY <1>0, <1>2, <1>3, StepInv

\* The task dies.
LEMMA TaskDiesInv ==
  ASSUME ConsumerIInv, NEW w \in Workers, TaskDies(w)
  PROVE  ConsumerIInv'
  <1>0. Busy(w)
    BY DEF TaskDies, Busy
  <1>1. task'[w] \in TaskRecord /\ task'[w].phase = "dead" /\ task' \in [Workers -> TaskRecord]
    BY IdleFacts DEF TaskDies, ConsumerIInv, ConsumerTypeOK, TaskRecord, Phases
  <1>2. faults' \in 0..MaxFaults
    BY ConsumerAssumption DEF TaskDies, Fault, ConsumerIInv, ConsumerTypeOK, ConsumerAssumption
  <1>3. TouchesOnly(w)
    BY <1>0, <1>1, <1>2
    DEF TaskDies, OffsetAfterCommit, TouchesOnly, ConsumerIInv, ConsumerTypeOK, TaskRecord
  <1>4. committed' # committed => (HasDlqProducer => InHand(w) \in dlq)
    BY <1>0, BusyFacts DEF TaskDies, HandOK
  <1>5. ~Busy(w)'
    BY <1>1 DEF Busy
  <1>6. QED
    BY <1>3, <1>4, <1>5, StepInv

\* A replica starts over.
LEMMA CrashInv ==
  ASSUME ConsumerIInv, NEW w \in Workers, Crash(w)
  PROVE  ConsumerIInv'
  <1>1. task'[w] = Idle
    BY DEF Crash, ConsumerIInv, ConsumerTypeOK
  <1>2. faults' \in 0..MaxFaults
    BY ConsumerAssumption DEF Crash, Fault, ConsumerIInv, ConsumerTypeOK, ConsumerAssumption
  <1>3. TouchesOnly(w)
    BY <1>1, <1>2, IdleFacts DEF Crash, TouchesOnly, ConsumerIInv, ConsumerTypeOK, TaskRecord
  <1>4. ~Busy(w)'
    BY <1>1, IdleFacts DEF Busy
  <1>5. QED
    BY <1>3, <1>4, StepInv DEF Crash

\* A rebalance moves no offset; at worst it takes from a replica the right to
\* commit what it has in hand.
LEMMA ReassignInv ==
  ASSUME ConsumerIInv, NEW p \in Partitions, NEW w \in Workers, Reassign(p, w)
  PROVE  ConsumerIInv'
  <1> USE LogLength, ConsumerAssumption DEF ConsumerAssumption
  <1>1. ASSUME NEW v \in Workers
        PROVE  /\ task'[v] \in TaskRecord
               /\ task'[v].phase = task[v].phase
               /\ task'[v].part = task[v].part
               /\ task'[v].pos = task[v].pos
               /\ task'[v].attempt = task[v].attempt
               /\ task'[v].held = (task[v].held /\ task[v].part # p)
    <2>1. task[v] \in TaskRecord
      BY DEF ConsumerIInv, ConsumerTypeOK, TaskRecord
    <2>2. task'[v] = [task[v] EXCEPT !.held = task[v].held /\ task[v].part # p]
      BY DEF Reassign
    <2>3. QED
      BY <2>1, <2>2 DEF TaskRecord
  <1>2. task' \in [Workers -> TaskRecord]
    BY <1>1 DEF Reassign
  <1>3. faults' \in 0..MaxFaults
    BY DEF Reassign, Fault, ConsumerIInv, ConsumerTypeOK
  <1>4. ConsumerTypeOK'
    BY <1>2, <1>3 DEF Reassign, ConsumerIInv, ConsumerTypeOK, TaskRecord
  <1>5. HandInv'
    <2> SUFFICES ASSUME NEW v \in Workers, Busy(v)'
                 PROVE  HandOK(v)'
      BY DEF HandInv
    <2>1. Busy(v) /\ HandOK(v)
      BY <1>1 DEF Busy, ConsumerIInv, HandInv
    <2>2. ~ZombieHandoff => task[v].part # p
      BY <2>1 DEF Reassign, HandOK
    <2>3. \A q \in Partitions : q # p => owner'[q] = owner[q]
      BY DEF Reassign, ConsumerIInv, ConsumerTypeOK
    <2>4. /\ committed' = committed /\ handled' = handled /\ dlq' = dlq
          /\ task'[v].phase = task[v].phase /\ task'[v].attempt = task[v].attempt
          /\ task'[v].part = task[v].part /\ task'[v].pos = task[v].pos
          /\ InHand(v)' = InHand(v)
      BY <1>1 DEF Reassign, InHand
    <2>5. task'[v].held => task[v].held /\ task[v].part # p
      BY <1>1
    <2>6. ~ZombieHandoff => task'[v].held
      BY <1>1, <2>1, <2>2 DEF HandOK
    <2>7. task'[v].held => owner'[task[v].part] = v
      BY <2>1, <2>3, <2>5 DEF HandOK
    <2>8. QED
      BY <2>1, <2>4, <2>5, <2>6, <2>7 DEF HandOK
  <1>6. HasDlqProducer => NoEventLost'
    BY DEF Reassign, ConsumerIInv, NoEventLost
  <1>7. QED
    BY <1>4, <1>5, <1>6 DEF ConsumerIInv

-----------------------------------------------------------------------------
(* Results.                                                                 *)

\* The inductive invariant holds initially ...
LEMMA ConsumerInitInv == ConsumerInit => ConsumerIInv
  <1> SUFFICES ASSUME ConsumerInit PROVE ConsumerIInv
    OBVIOUS
  <1>1. ConsumerTypeOK
    BY IdleType, LogLength, ConsumerAssumption
    DEF ConsumerInit, ConsumerTypeOK, TaskRecord, ConsumerAssumption
  <1>2. HandInv
    BY DEF ConsumerInit, HandInv, Busy, Idle
  <1>3. NoEventLost
    BY DEF ConsumerInit, NoEventLost
  <1>4. QED
    BY <1>1, <1>2, <1>3 DEF ConsumerIInv

\* ... and every step preserves it.
LEMMA ConsumerNextInv == ConsumerIInv /\ [ConsumerNext]_consumerVars => ConsumerIInv'
  <1> SUFFICES ASSUME ConsumerIInv, [ConsumerNext]_consumerVars
               PROVE  ConsumerIInv'
    OBVIOUS
  <1>1. ASSUME NEW w \in Workers, LoopStep(w)
        PROVE  ConsumerIInv'
    BY <1>1, PollInv, HandlerReturnsInv, HandlerRaisesInv, CommitInv,
       CommitRaisesInv, RouteToDlqInv, CommitSkippedInv DEF LoopStep
  <1>2. ASSUME NEW w \in Workers, TaskDies(w)
        PROVE  ConsumerIInv'
    BY <1>2, TaskDiesInv
  <1>3. ASSUME NEW w \in Workers, Crash(w)
        PROVE  ConsumerIInv'
    BY <1>3, CrashInv
  <1>4. ASSUME NEW p \in Partitions, NEW w \in Workers, Reassign(p, w)
        PROVE  ConsumerIInv'
    BY <1>4, ReassignInv
  <1>5. CASE UNCHANGED consumerVars
    BY <1>5 DEF consumerVars, ConsumerIInv, ConsumerTypeOK, HandInv, HandOK, Busy, InHand, NoEventLost
  <1>6. QED
    BY <1>1, <1>2, <1>3, <1>4, <1>5 DEF ConsumerNext

\* The inductive invariant of the consumer loop.
THEOREM ConsumerInvariant == ConsumerSpec => []ConsumerIInv
  <1>1. QED
    BY ConsumerInitInv, ConsumerNextInv, PTL DEF ConsumerSpec

\* The variables keep their types; in particular no offset passes the log's end.
THEOREM ConsumerTyping == ConsumerSpec => []ConsumerTypeOK
  <1>1. ConsumerIInv => ConsumerTypeOK
    BY DEF ConsumerIInv
  <1>2. QED
    BY <1>1, ConsumerInvariant, PTL

\* With a dead letter producer no event is stepped over unprocessed, however
\* crashes, rebalances and broker errors fall (consume()).
THEOREM NothingLost == ASSUME HasDlqProducer PROVE ConsumerSpec => []NoEventLost
  <1>1. ConsumerIInv => NoEventLost
    BY DEF ConsumerIInv
  <1>2. QED
    BY <1>1, ConsumerInvariant, PTL

\* With rebalances that wait for the event in hand, the replicas of a group
\* never work on one partition together.
THEOREM ExclusiveHandling == ConsumerSpec => []OneHandlerAtATime
  <1>1. ConsumerIInv => OneHandlerAtATime
    BY DEF ConsumerIInv, HandInv, HandOK, OneHandlerAtATime
  <1>2. QED
    BY <1>1, ConsumerInvariant, PTL
-----------------------------------------------------------------------------
(* The loop implements the abstract event stream: a return of the handler   *)
(* is Handle, the dead letter send is DeadLetter, the step that moves the   *)
(* offset is Settle, and everything else is invisible to the stream.        *)

\* What a replica has in hand may be handled according to the abstract stream.
LEMMA InHandDeliverable ==
  ASSUME ConsumerIInv, NEW w \in Workers, Busy(w)
  PROVE  /\ task[w].part \in Partitions
         /\ task[w].pos \in Stream!Deliverable(task[w].part)
         /\ InHand(w) = <<task[w].part, task[w].pos>>
  BY BusyFacts DEF HandOK, InHand, Stream!Deliverable

\* Moving the offset is a Settle, or nothing when it was there already.
LEMMA CommitSettles ==
  ASSUME ConsumerIInv, NEW w \in Workers, Busy(w),
         InHand(w) \in handled \cup dlq,
         committed' \in {committed, OffsetAfterCommit(w)},
         handled' = handled, dlq' = dlq
  PROVE  [Stream!StreamNext]_(Stream!streamVars)
  <1> DEFINE p == task[w].part
  <1>1. p \in Partitions /\ task[w].pos \in 1..Len(Log[p]) /\ HandOK(w)
    BY BusyFacts
  <1>2. committed[p] \in Nat /\ committed[p] <= Len(Log[p]) /\ Len(Log[p]) \in Nat
    BY <1>1, LogLength DEF ConsumerIInv, ConsumerTypeOK
  <1>3. CASE committed' = committed
    BY <1>3 DEF Stream!streamVars
  <1>4. CASE committed' # committed
    <2>1. task[w].held /\ committed' = [committed EXCEPT ![p] = task[w].pos]
      BY <1>4 DEF OffsetAfterCommit
    <2>2. task[w].pos # committed[p]
      BY <1>1, <1>4, <2>1 DEF ConsumerIInv, ConsumerTypeOK
    <2>3. task[w].pos = committed[p] + 1 /\ committed[p] < Len(Log[p])
      BY <1>1, <1>2, <2>1, <2>2 DEF HandOK
    <2>4. <<p, committed[p] + 1>> \in handled \cup dlq
      BY <2>3 DEF InHand
    <2>5. Stream!Settle(p)
      BY <2>1, <2>3, <2>4 DEF Stream!Settle
    <2>6. QED
      BY <1>1, <2>5 DEF Stream!StreamNext
  <1>5. QED
    BY <1>3, <1>4

\* Every step of the loop is a step of the abstract stream or a stutter.
LEMMA ConsumerStepImplements ==
  ASSUME HasDlqProducer, ConsumerIInv, [ConsumerNext]_consumerVars
  PROVE  [Stream!StreamNext]_(Stream!streamVars)
  <1>1. ASSUME NEW w \in Workers, HandlerReturns(w)
        PROVE  [Stream!StreamNext]_(Stream!streamVars)
    <2>1. Busy(w)
      BY <1>1 DEF HandlerReturns, Busy
    <2>2. Stream!Handle(task[w].part)
      BY <1>1, <2>1, InHandDeliverable DEF HandlerReturns, Stream!Handle
    <2>3. QED
      BY <2>1, <2>2, InHandDeliverable DEF Stream!StreamNext
  <1>2. ASSUME NEW w \in Workers, RouteToDlq(w)
        PROVE  [Stream!StreamNext]_(Stream!streamVars)
    <2>1. Busy(w)
      BY <1>2 DEF RouteToDlq, Busy
    <2>2. Stream!DeadLetter(task[w].part)
      BY <1>2, <2>1, InHandDeliverable DEF RouteToDlq, Stream!DeadLetter
    <2>3. QED
      BY <2>1, <2>2, InHandDeliverable DEF Stream!StreamNext
  <1>3. ASSUME NEW w \in Workers, Commit(w) \/ CommitRaises(w)
        PROVE  [Stream!StreamNext]_(Stream!streamVars)
    <2>1. Busy(w) /\ InHand(w) \in handled
      BY <1>3, BusyFacts DEF Commit, CommitRaises, Busy, HandOK
    <2>2. QED
      BY <1>3, <2>1, CommitSettles DEF Commit, CommitRaises
  <1>4. ASSUME NEW w \in Workers, CommitSkipped(w)
        PROVE  [Stream!StreamNext]_(Stream!streamVars)
    <2>1. Busy(w) /\ InHand(w) \in dlq
      BY <1>4, BusyFacts DEF CommitSkipped, Busy, HandOK
    <2>2. QED
      BY <1>4, <2>1, CommitSettles DEF CommitSkipped
  <1>5. ASSUME NEW w \in Workers, TaskDies(w)
        PROVE  [Stream!StreamNext]_(Stream!streamVars)
    <2>1. CASE committed' = committed
      BY <1>5, <2>1 DEF TaskDies, Stream!streamVars
    <2>2. CASE committed' # committed
      <3>1. Busy(w) /\ InHand(w) \in dlq
        BY <1>5, <2>2, BusyFacts DEF TaskDies, Busy, HandOK
      <3>2. QED
        BY <1>5, <2>2, <3>1, CommitSettles DEF TaskDies
    <2>3. QED
      BY <2>1, <2>2
  <1>6. ASSUME \/ \E w \in Workers : \/ \E p \in Partitions : Poll(w, p)
                                     \/ HandlerRaises(w)
                                     \/ Crash(w)
               \/ \E p \in Partitions, w \in Workers : Reassign(p, w)
               \/ UNCHANGED consumerVars
        PROVE  [Stream!StreamNext]_(Stream!streamVars)
    BY <1>6 DEF Poll, HandlerRaises, Crash, Reassign, consumerVars, Stream!streamVars
  <1>7. QED
    BY <1>1, <1>2, <1>3, <1>4, <1>5, <1>6 DEF ConsumerNext, LoopStep

\* The consumer loop delivers each partition in order and at least once, and
\* never runs a handler beyond the first unsettled event (consume()).
THEOREM ImplementsStream == ASSUME HasDlqProducer PROVE ConsumerSpec => DeliversInOrder
  <1>1. ConsumerInit => Stream!StreamInit
    BY DEF ConsumerInit, Stream!StreamInit
  <1>2. ConsumerIInv /\ [ConsumerNext]_consumerVars => [Stream!StreamNext]_(Stream!streamVars)
    BY ConsumerStepImplements
  <1>3. QED
    BY <1>1, <1>2, ConsumerInvariant, PTL DEF ConsumerSpec, DeliversInOrder, Stream!StreamSpec
=============================================================================
