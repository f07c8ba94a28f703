------------------------------- MODULE Kafka -------------------------------
(***************************************************************************)
(* What the two sides of the event log share: the relays' writers append   *)
(* to the partitions (Outbox), a consumer group reads them (EventConsumer).*)
(* Nothing else passes between them.                                       *)
(***************************************************************************)
EXTENDS Naturals, Sequences, FiniteSets

CONSTANT Partitions

VARIABLE log   \* the messages of each partition, in the order they were appended
=============================================================================
