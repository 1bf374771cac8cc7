-------------------------- MODULE MCKafkaConsumer --------------------------
(* A small instance of KafkaConsumer: one partition with two records and   *)
(* one, of a topic without handler, with a single record.                  *)
EXTENDS KafkaConsumer, TLC

CONSTANTS p1, p2

TwoAndOne == p1 :> 2 @@ p2 :> 1
=============================================================================
