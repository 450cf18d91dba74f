--------------------------- MODULE MCKafkaConsumer ---------------------------
(* Two replicas, two partitions with two and one events.                   *)
EXTENDS KafkaConsumer, TLC

CONSTANTS p1, p2, e1, e2, e3

MCEvents == {e1, e2, e3}
MCLog == p1 :> <<e1, e2>> @@ p2 :> <<e3>>
=============================================================================
