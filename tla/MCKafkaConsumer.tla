-------------------------- MODULE MCKafkaConsumer --------------------------
(* Small instances of KafkaConsumer for TLC. *)
EXTENDS KafkaConsumer, TLC

(* The loop never looks at the identity of its replica. *)
Symmetry == Permutations(Consumers)
=============================================================================
