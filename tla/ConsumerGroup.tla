--------------------------- MODULE ConsumerGroup ---------------------------
(***************************************************************************)
(* What the replicas of a consumer group promise about one partition: the  *)
(* handler answers its messages in their order, each for the first time    *)
(* only after all earlier ones, and the group's offset moves to just after *)
(* a handled message, past answered ones only.  There are no replicas,     *)
(* positions, crashes or rebalances here.                                  *)
(***************************************************************************)
EXTENDS Naturals

VARIABLES
  published,  \* number of messages in the partition
  committed,  \* the group's offset: the next message to hand out
  handled,    \* offsets whose handler has returned nil
  failed      \* offsets whose handler has returned an error

vars == <<published, committed, handled, failed>>

Init ==
  /\ published = 0
  /\ committed = 0
  /\ handled = {}
  /\ failed = {}

Before(n) == 0 .. n - 1

(* Every message before n has been answered. *)
InTurn(n) == Before(n) \subseteq handled \cup failed

Publish ==
  /\ published' = published + 1
  /\ UNCHANGED <<committed, handled, failed>>

Handle(n) ==
  /\ InTurn(n)
  /\ handled' = handled \cup {n}
  /\ UNCHANGED <<published, committed, failed>>

Fail(n) ==
  /\ InTurn(n)
  /\ failed' = failed \cup {n}
  /\ UNCHANGED <<published, committed, handled>>

(* An offset may also move back, when a replica that has lost the          *)
(* partition commits late.                                                 *)
Commit(n) ==
  /\ InTurn(n) /\ n \in handled
  /\ committed' = n + 1
  /\ UNCHANGED <<published, handled, failed>>

Next ==
  \/ Publish
  \/ \E n \in Before(published) : Handle(n) \/ Fail(n) \/ Commit(n)

Spec == Init /\ [][Next]_vars
=============================================================================
