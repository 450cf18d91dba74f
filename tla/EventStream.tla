----------------------------- MODULE EventStream -----------------------------
(***************************************************************************)
(* What the event backbone promises a service, with no workers, offsets or *)
(* retries in it: every event of a partition is settled in order, and an   *)
(* event is settled only after its handler completed or after the event    *)
(* was parked in the dead letter queue.  A handler may complete for the    *)
(* same event more than once, but never for an event that lies beyond the  *)
(* first unsettled one.  KafkaConsumer.tla implements this.                *)
(***************************************************************************)
EXTENDS Naturals, Sequences

CONSTANTS Partitions,   \* partitions of the topics the service subscribes to
          Log           \* Log[p] is the sequence of events of partition p

VARIABLES settled,      \* settled[p]: how many events of p are done with
          handled,      \* <<p, i>>: the handler completed for Log[p][i]
          dlq           \* <<p, i>>: Log[p][i] is in the dead letter queue

streamVars == <<settled, handled, dlq>>

\* Events whose handler may run: the settled ones (again) and the next one.
Deliverable(p) == {i \in 1..Len(Log[p]) : i <= settled[p] + 1}

StreamInit ==
  /\ settled = [p \in Partitions |-> 0]
  /\ handled = {}
  /\ dlq = {}

Handle(p) ==
  /\ \E i \in Deliverable(p) : handled' = handled \cup {<<p, i>>}
  /\ UNCHANGED <<settled, dlq>>

DeadLetter(p) ==
  /\ \E i \in Deliverable(p) : dlq' = dlq \cup {<<p, i>>}
  /\ UNCHANGED <<settled, handled>>

Settle(p) ==
  /\ settled[p] < Len(Log[p])
  /\ <<p, settled[p] + 1>> \in handled \cup dlq
  /\ settled' = [settled EXCEPT ![p] = @ + 1]
  /\ UNCHANGED <<handled, dlq>>

StreamNext == \E p \in Partitions : Handle(p) \/ DeadLetter(p) \/ Settle(p)

StreamSpec == StreamInit /\ [][StreamNext]_streamVars
=============================================================================
