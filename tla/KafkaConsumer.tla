---------------------------- MODULE KafkaConsumer ----------------------------
(***************************************************************************)
(* The consumer loop every service of the platform runs                    *)
(* (telco_common.kafka.KafkaConsumer): manual offset commits, three        *)
(* attempts per event, then a dead letter topic.  The replicas of one      *)
(* service form a consumer group; each partition belongs to one replica    *)
(* (external: the Kafka group coordinator).                                *)
(*                                                                         *)
(* The partitions are immutable logs read from the committed offset on: a  *)
(* replica may lag arbitrarily behind the producers, so events published   *)
(* later need no action of their own.                                      *)
(*                                                                         *)
(* The module knows nothing of what a handler does.  A service extends it  *)
(* and conjoins its own steps to HandlerReturns and HandlerRaises.         *)
(***************************************************************************)
EXTENDS Naturals, Sequences

CONSTANTS
  Workers,        \* replicas of the service, one consumer task each
  Partitions,     \* partitions of the subscribed topics
  NoPartition,    \* the partition of a replica that has no event in hand
  Events,         \* what the topics carry
  Log,            \* Log[p] is the sequence of events of partition p
  MaxRetries,     \* MAX_RETRIES
  HasDlqProducer, \* whether consume() is given a dlq_producer
  ZombieHandoff,  \* whether a partition may move while its owner is in mid-event
  Faults,         \* which of "crash", "broker", "handoff" may occur (a service may
                  \*   have faults of its own)
  MaxFaults       \* bound on the number of those faults in one behaviour

ASSUME ConsumerAssumption ==
  /\ NoPartition \notin Partitions
  /\ \A p \in Partitions : Log[p] \in Seq(Events)
  /\ MaxRetries \in Nat \ {0}
  /\ HasDlqProducer \in BOOLEAN
  /\ ZombieHandoff \in BOOLEAN
  /\ MaxFaults \in Nat

VARIABLES
  committed,   \* committed[p]: number of events of p below the committed offset
  owner,       \* owner[p]: the replica partition p is assigned to
  task,        \* task[w]: where the consumer task of replica w stands
  handled,     \* <<p, i>>: some handler call for Log[p][i] returned
  dlq,         \* <<p, i>>: Log[p][i] was sent to the dead letter topic
  faults       \* how many faults have happened

consumerVars == <<committed, owner, task, handled, dlq, faults>>

Phases == {"polling", "handling", "committing", "routing", "skipping", "dead"}
Positions == {x \in Partitions \X Nat : x[2] \in 1..Len(Log[x[1]])}

\* A consumer task waiting for its next event.
Idle == [phase |-> "polling", part |-> NoPartition, pos |-> 0,
         attempt |-> 0, held |-> FALSE]

Busy(w) == task[w].phase \notin {"polling", "dead"}
InHand(w) == <<task[w].part, task[w].pos>>
EventOf(w) == Log[task[w].part][task[w].pos]

Fault(kind) ==
  /\ kind \in Faults
  /\ faults < MaxFaults
  /\ faults' = faults + 1

ConsumerInit ==
  /\ committed = [p \in Partitions |-> 0]
  /\ owner \in [Partitions -> Workers]
  /\ task = [w \in Workers |-> Idle]
  /\ handled = {}
  /\ dlq = {}
  /\ faults = 0

-----------------------------------------------------------------------------
(* The loop of consume(), one action per await.                            *)

\* Mutant: enable_auto_commit, the offset moves when the event is fetched.
PollAutoCommit(w, p) ==
  /\ task[w].phase = "polling"
  /\ owner[p] = w
  /\ committed[p] < Len(Log[p])
  /\ committed' = [committed EXCEPT ![p] = @ + 1]
  /\ task' = [task EXCEPT ![w] = [phase |-> "handling", part |-> p,
                pos |-> committed[p] + 1, attempt |-> 0, held |-> TRUE]]
  /\ UNCHANGED <<owner, handled, dlq, faults>>

\* Mutant: no group_id, every replica reads every partition.
PollUngrouped(w, p) ==
  /\ task[w].phase = "polling"
  /\ committed[p] < Len(Log[p])
  /\ task' = [task EXCEPT ![w] = [phase |-> "handling", part |-> p,
                pos |-> committed[p] + 1, attempt |-> 0, held |-> TRUE]]
  /\ UNCHANGED <<committed, owner, handled, dlq, faults>>

\* `async for msg in self._consumer`: the next event after the committed one.
Poll(w, p) ==
  /\ task[w].phase = "polling"
  /\ owner[p] = w
  /\ committed[p] < Len(Log[p])
  /\ task' = [task EXCEPT ![w] = [phase |-> "handling", part |-> p,
                pos |-> committed[p] + 1, attempt |-> 0, held |-> TRUE]]
  /\ UNCHANGED <<committed, owner, handled, dlq, faults>>

\* `await handler(event)` returned.
HandlerReturns(w) ==
  /\ task[w].phase = "handling"
  /\ handled' = handled \cup {InHand(w)}
  /\ task' = [task EXCEPT ![w].phase = "committing"]
  /\ UNCHANGED <<committed, owner, dlq, faults>>

\* The except branch: try again, or give up after the last attempt.
Retried(t) ==
  [phase |-> IF t.attempt + 1 < MaxRetries THEN "handling" ELSE "routing",
   part |-> t.part, pos |-> t.pos, attempt |-> t.attempt + 1, held |-> t.held]
Retry(w) == task' = [task EXCEPT ![w] = Retried(@)]

HandlerRaises(w) ==
  /\ task[w].phase = "handling"
  /\ Retry(w)
  /\ UNCHANGED <<committed, owner, handled, dlq, faults>>

\* Mutant: a replica that lost the partition still sets its offset.
OffsetOfAnyone(w) == [committed EXCEPT ![task[w].part] = task[w].pos]

\* The offset that commit() leaves behind: a replica that lost the partition
\* meanwhile has nothing of it left to commit.
OffsetAfterCommit(w) ==
  IF task[w].held THEN [committed EXCEPT ![task[w].part] = task[w].pos] ELSE committed

Commit(w) ==
  /\ task[w].phase = "committing"
  /\ committed' = OffsetAfterCommit(w)
  /\ task' = [task EXCEPT ![w] = Idle]
  /\ UNCHANGED <<owner, handled, dlq, faults>>

\* commit() stands inside the same try as the handler, so an exception of it
\* (lost membership, or a broker error with the commit applied or not) counts
\* as a failed attempt and runs the handler again.
CommitRaises(w) ==
  /\ task[w].phase = "committing"
  /\ \/ ~task[w].held /\ UNCHANGED faults
     \/ Fault("broker")
  /\ committed' \in {committed, OffsetAfterCommit(w)}
  /\ Retry(w)
  /\ UNCHANGED <<owner, handled, dlq>>

\* The attempts are used up: send to the dead letter topic, if there is a
\* producer to send with, and step over the event.
RouteToDlq(w) ==
  /\ task[w].phase = "routing"
  /\ dlq' = IF HasDlqProducer THEN dlq \cup {InHand(w)} ELSE dlq
  /\ task' = [task EXCEPT ![w].phase = "skipping"]
  /\ UNCHANGED <<committed, owner, handled, faults>>

\* Mutant: the event goes to the dead letter topic and its offset stays.
SkipWithoutCommit(w) ==
  /\ task[w].phase = "skipping"
  /\ task' = [task EXCEPT ![w] = Idle]
  /\ UNCHANGED <<committed, owner, handled, dlq, faults>>

CommitSkipped(w) ==
  /\ task[w].phase = "skipping"
  /\ committed' = OffsetAfterCommit(w)
  /\ task' = [task EXCEPT ![w] = Idle]
  /\ UNCHANGED <<owner, handled, dlq, faults>>

\* Nothing catches an exception of the dead letter send or of the commit after
\* it: it leaves consume() and ends the background task for good.
TaskDies(w) ==
  /\ \/ /\ task[w].phase = "routing" /\ HasDlqProducer
        /\ Fault("broker")
        /\ UNCHANGED committed
     \/ /\ task[w].phase = "skipping"
        /\ \/ ~task[w].held /\ UNCHANGED faults
           \/ Fault("broker")
        /\ committed' \in {committed, OffsetAfterCommit(w)}
  /\ task' = [task EXCEPT ![w] = [Idle EXCEPT !.phase = "dead"]]
  /\ UNCHANGED <<owner, handled, dlq>>

-----------------------------------------------------------------------------
(* The environment: processes restart, the coordinator moves partitions.   *)

\* The process stops at an arbitrary point and start() runs again.
Crash(w) ==
  /\ task[w] # Idle
  /\ Fault("crash")
  /\ task' = [task EXCEPT ![w] = Idle]
  /\ UNCHANGED <<committed, owner, handled, dlq>>

\* The group rebalances.  The event in hand of the old owner, if it is one of
\* this partition, is no longer its to commit.
Reassign(p, w) ==
  /\ owner[p] # w
  /\ ZombieHandoff \/ ~(Busy(owner[p]) /\ task[owner[p]].part = p)
  /\ Fault("handoff")
  /\ owner' = [owner EXCEPT ![p] = w]
  /\ task' = [v \in Workers |-> [task[v] EXCEPT !.held = @ /\ task[v].part # p]]
  /\ UNCHANGED <<committed, handled, dlq>>

-----------------------------------------------------------------------------
LoopStep(w) ==
  \/ \E p \in Partitions : Poll(w, p)
  \/ HandlerReturns(w) \/ HandlerRaises(w)
  \/ Commit(w) \/ CommitRaises(w)
  \/ RouteToDlq(w) \/ CommitSkipped(w)

ConsumerNext ==
  \/ \E w \in Workers : LoopStep(w) \/ TaskDies(w) \/ Crash(w)
  \/ \E p \in Partitions, w \in Workers : Reassign(p, w)

ConsumerSpec == ConsumerInit /\ [][ConsumerNext]_consumerVars

(* An idle replica polls, and a replica with an event in hand goes on with *)
(* it: the loop is one coroutine that nothing but an exception leaves.     *)
ConsumerFairness == \A w \in Workers : WF_consumerVars(LoopStep(w))
FairConsumerSpec == ConsumerSpec /\ ConsumerFairness

-----------------------------------------------------------------------------
(* Properties.                                                             *)

ConsumerTypeOK ==
  /\ committed \in [Partitions -> Nat]
  /\ \A p \in Partitions : committed[p] <= Len(Log[p])
  /\ owner \in [Partitions -> Workers]
  /\ task \in [Workers -> [phase : Phases, part : Partitions \cup {NoPartition},
                           pos : Nat, attempt : 0..MaxRetries, held : BOOLEAN]]
  /\ handled \subseteq Positions
  /\ dlq \subseteq Positions
  /\ faults \in 0..MaxFaults

\* Every event below a committed offset was handled to the end by somebody or
\* is parked in the dead letter topic, whichever replica committed, in which
\* order partitions moved and whether the commit itself raised (consume()).
NoEventLost ==
  \A p \in Partitions : \A i \in 1..committed[p] : <<p, i>> \in handled \cup dlq

\* As long as partitions move only between events, no event is in the hands of
\* two replicas at once (the serial processing consume() relies on).
OneHandlerAtATime ==
  ~ZombieHandoff =>
    \A v, w \in Workers :
      Busy(v) /\ Busy(w) /\ task[v].part = task[w].part => v = w

\* Delivery as a service's handler sees it: in order, at least once, and never
\* beyond an event that is not settled yet.
Stream == INSTANCE EventStream WITH settled <- committed
DeliversInOrder == Stream!StreamSpec

\* Crashes, rebalances and failed commits only delay: every event is settled in
\* the end, unless the task a partition ends up with has died.
EveryEventSettled ==
  \A p \in Partitions :
    <>(committed[p] = Len(Log[p]) \/ task[owner[p]].phase = "dead")
=============================================================================
