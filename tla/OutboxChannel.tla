--------------------------- MODULE OutboxChannel ---------------------------
(***************************************************************************)
(* What the outbox and its relays promise the services: an event reaches   *)
(* Kafka only after the transaction that wrote it is committed, and stays  *)
(* there.  There are no relays, claims, marks or failures here, and no     *)
(* promise about the order of events, nor that one ever arrives.           *)
(***************************************************************************)
CONSTANT Events

VARIABLES
  inserted,  \* committed events
  kafka      \* events some consumer can read

vars == <<inserted, kafka>>

Init ==
  /\ inserted = {}
  /\ kafka = {}

Insert(e) ==
  /\ e \notin inserted
  /\ inserted' = inserted \cup {e}
  /\ UNCHANGED kafka

(* Delivered for the first time: writing it again changes nothing here.    *)
Deliver(e) ==
  /\ e \in inserted \ kafka
  /\ kafka' = kafka \cup {e}
  /\ UNCHANGED inserted

Next == \E e \in Events : Insert(e) \/ Deliver(e)

Spec == Init /\ [][Next]_vars
=============================================================================
