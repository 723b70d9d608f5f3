--------------------------- MODULE MCKafkaConsumer ---------------------------
(* Model-checking instance of KafkaConsumer.                               *)
EXTENDS KafkaConsumer, TLC

=============================================================================
