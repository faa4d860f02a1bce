---------------------------- MODULE KafkaConsumer ----------------------------
(***************************************************************************)
(* The consume side every service shares (internal/kafka/consumer.go), for *)
(* one partition of one topic: the loop of Consumer.Run in the replicas of *)
(* a consumer group, over the Kafka reader that hands out messages and the *)
(* broker that keeps the group's committed offset.                         *)
(*                                                                         *)
(* Messages are numbered by offset from 0.  The reader remembers its own   *)
(* position and falls back on the committed offset only when it is given   *)
(* the partition anew, at a start, a restart or a rebalance.               *)
(***************************************************************************)
EXTENDS Naturals

CONSTANTS
  Consumers,    \* replicas in the group
  NoConsumer,   \* the owner of a partition that is not assigned
  MaxPublished  \* bound on the number of messages

ASSUME NoConsumerAssumption == NoConsumer \notin Consumers
ASSUME MaxPublishedAssumption == MaxPublished \in Nat

VARIABLES
  published,  \* number of messages in the partition
  committed,  \* the group's committed offset: the next message to hand out
  owner,      \* the replica the partition is assigned to
  position,   \* the next offset each replica's reader fetches
  pc,         \* where each replica's loop is
  msg,        \* the offset each replica works on
  handled,    \* offsets whose handler has returned nil
  failed      \* offsets whose handler has returned an error

readers == <<owner, position>>
loops   == <<pc, msg>>
answers == <<handled, failed>>
vars    == <<published, committed, readers, loops, answers>>

Steps == {"fetch", "handle", "commit"}

(* The types of the variables.                                             *)
TypeOK ==
  /\ published \in Nat
  /\ committed \in Nat
  /\ owner \in Consumers \cup {NoConsumer}
  /\ position \in [Consumers -> Nat]
  /\ pc \in [Consumers -> Steps]
  /\ msg \in [Consumers -> Nat]
  /\ handled \subseteq Nat
  /\ failed \subseteq Nat

Init ==
  /\ published = 0
  /\ committed = 0
  /\ owner = NoConsumer
  /\ position = [c \in Consumers |-> 0]
  /\ pc = [c \in Consumers |-> "fetch"]
  /\ msg = [c \in Consumers |-> 0]
  /\ handled = {}
  /\ failed = {}

Goto(c, s) == pc' = [pc EXCEPT ![c] = s]

-----------------------------------------------------------------------------
(* Kafka *)

(* A relay writes a message to the partition. *)
Publish ==
  /\ published < MaxPublished
  /\ published' = published + 1
  /\ UNCHANGED <<committed, readers, loops, answers>>

(* Mutant: the reader starts at the end of the partition. *)
AssignAtEnd(c) ==
  /\ owner' = c
  /\ position' = [position EXCEPT ![c] = published]
  /\ UNCHANGED <<published, committed, loops, answers>>

(* The group coordinator assigns the partition: at a start, when a replica *)
(* leaves or joins, or when one misses its heartbeats.  The loop of the    *)
(* previous owner is not told and finishes the message it holds.           *)
Assign(c) ==
  /\ owner' = c
  /\ position' = [position EXCEPT ![c] = committed]
  /\ UNCHANGED <<published, committed, loops, answers>>

(* A replica dies and is restarted: whatever it held is gone. *)
Crash(c) ==
  /\ Goto(c, "fetch")
  /\ owner' = IF owner = c THEN NoConsumer ELSE owner
  /\ UNCHANGED <<published, committed, position, msg, answers>>

-----------------------------------------------------------------------------
(* Consumer.Run *)

(* Mutant: ReadMessage, which commits what it fetches. *)
ReadMessage(c) ==
  /\ pc[c] = "fetch"
  /\ owner = c
  /\ position[c] < published
  /\ msg' = [msg EXCEPT ![c] = position[c]]
  /\ position' = [position EXCEPT ![c] = @ + 1]
  /\ committed' = position[c] + 1
  /\ Goto(c, "handle")
  /\ UNCHANGED <<published, owner, answers>>

FetchMessage(c) ==
  /\ pc[c] = "fetch"
  /\ owner = c
  /\ position[c] < published
  /\ msg' = [msg EXCEPT ![c] = position[c]]
  /\ position' = [position EXCEPT ![c] = @ + 1]
  /\ Goto(c, "handle")
  /\ UNCHANGED <<published, committed, owner, answers>>

HandlerSucceeds(c) ==
  /\ pc[c] = "handle"
  /\ handled' = handled \cup {msg[c]}
  /\ Goto(c, "commit")
  /\ UNCHANGED <<published, committed, readers, msg, failed>>

(* Mutant: after the error is logged the loop falls through to the commit. *)
HandlerFailsAndCommits(c) ==
  /\ pc[c] = "handle"
  /\ failed' = failed \cup {msg[c]}
  /\ Goto(c, "commit")
  /\ UNCHANGED <<published, committed, readers, msg, handled>>

(* The error is logged and the loop goes on to the next message. *)
HandlerFails(c) ==
  /\ pc[c] = "handle"
  /\ failed' = failed \cup {msg[c]}
  /\ Goto(c, "fetch")
  /\ UNCHANGED <<published, committed, readers, msg, handled>>

(* The reader commits the offset after the message, whether or not earlier *)
(* ones were committed, and whether or not the partition is still its own. *)
CommitMessages(c) ==
  /\ pc[c] = "commit"
  /\ committed' = msg[c] + 1
  /\ Goto(c, "fetch")
  /\ UNCHANGED <<published, readers, msg, answers>>

(* The commit fails: it is logged and the loop goes on. *)
CommitFails(c) ==
  /\ pc[c] = "commit"
  /\ Goto(c, "fetch")
  /\ UNCHANGED <<published, committed, readers, msg, answers>>

Loop(c) ==
  \/ FetchMessage(c) \/ HandlerSucceeds(c) \/ HandlerFails(c)
  \/ CommitMessages(c) \/ CommitFails(c)

Next ==
  \/ Publish
  \/ \E c \in Consumers : Assign(c) \/ Crash(c) \/ Loop(c)

Spec == Init /\ [][Next]_vars

(* A loop that can take a step does, the group does not leave the          *)
(* partition unassigned, and crashes and rebalances stop in the end.       *)
Reassigns(c) == owner # NoConsumer /\ Assign(c)

Fairness ==
  /\ \A c \in Consumers : WF_vars(Loop(c))
  /\ WF_vars(owner = NoConsumer /\ \E c \in Consumers : Assign(c))
  /\ <>[][~\E c \in Consumers : Crash(c) \/ Reassigns(c)]_vars

FairSpec == Spec /\ Fairness

-----------------------------------------------------------------------------
(* Properties *)

Answered == handled \cup failed

(* A message the group has moved past was given to a handler that returned:*)
(* a crash, a rebalance or a failed commit at any point never loses a      *)
(* message before its handler has answered.                                *)
CommittedIsAnswered == \A n \in 0 .. committed - 1 : n \in Answered

(* Every message of the partition reaches a handler that returns.          *)
EveryMessageIsAnswered ==
  \A n \in 0 .. MaxPublished - 1 : n < published ~> n \in Answered

Group == INSTANCE ConsumerGroup

(* The replicas implement the abstract group: through crashes, rebalances  *)
(* and late commits, messages of a partition get their first answer in     *)
(* their order, and a commit stands for a handler that returned nil.       *)
GroupSpec == Group!Spec

(* What makes CommittedIsAnswered inductive: all that a loop has gone past *)
(* has been answered, except the message it is handling.                   *)
LoopSkipsNothing(c) ==
  /\ pc[c] # "fetch" => msg[c] < published
  /\ pc[c] # "fetch" => \A n \in 0 .. msg[c] - 1 : n \in Answered
  /\ pc[c] = "commit" => msg[c] \in handled
  /\ owner = c =>
       /\ position[c] <= published
       /\ \A n \in 0 .. position[c] - 1 : n \in Answered \/ (pc[c] = "handle" /\ n = msg[c])

(* All of it: whatever dies or moves, the group's offset and every loop's  *)
(* position cover answered messages only.                                  *)
InductiveInv ==
  /\ TypeOK
  /\ committed <= published
  /\ CommittedIsAnswered
  /\ \A c \in Consumers : LoopSkipsNothing(c)

-----------------------------------------------------------------------------
(* What the comments of the code claim and the loop does not do. *)

(* A message the group has moved past has been handled: a handler's error  *)
(* leaves the offset uncommitted until the message is redelivered.         *)
CommittedIsHandled == \A n \in 0 .. committed - 1 : n \in handled
=============================================================================
