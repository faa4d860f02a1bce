------------------------- MODULE KafkaConsumerProofs -------------------------
(***************************************************************************)
(* Machine-checked proofs about KafkaConsumer, for every set of replicas   *)
(* and every number of messages.                                           *)
(***************************************************************************)
EXTENDS KafkaConsumer, TLAPS

USE NoConsumerAssumption, MaxPublishedAssumption

(* An empty partition and idle replicas satisfy the invariant.             *)
LEMMA InitInv == Init => InductiveInv
  BY DEF Init, InductiveInv, TypeOK, Steps, CommittedIsAnswered, LoopSkipsNothing

(* Every step of the loops and of Kafka keeps the types.                   *)
LEMMA NextTypeOK == TypeOK /\ [Next]_vars => TypeOK'
  <1> SUFFICES ASSUME TypeOK, [Next]_vars
               PROVE  TypeOK'
    OBVIOUS
  <1> USE DEF TypeOK, Goto, Steps, readers, loops, answers
  <1>1. CASE Publish
    <2>1. published' \in Nat
      BY <1>1 DEF Publish
    <2> QED BY <1>1, <2>1 DEF Publish
  <1>2. ASSUME NEW c \in Consumers, Assign(c) \/ Crash(c)
        PROVE  TypeOK'
    BY <1>2 DEF Assign, Crash
  <1>3. ASSUME NEW c \in Consumers, FetchMessage(c)
        PROVE  TypeOK'
    <2>1. position' \in [Consumers -> Nat] /\ msg' \in [Consumers -> Nat] /\ pc' \in [Consumers -> Steps]
      BY <1>3 DEF FetchMessage
    <2> QED BY <1>3, <2>1 DEF FetchMessage
  <1>4. ASSUME NEW c \in Consumers, HandlerSucceeds(c) \/ HandlerFails(c)
        PROVE  TypeOK'
    BY <1>4 DEF HandlerSucceeds, HandlerFails
  <1>5. ASSUME NEW c \in Consumers, CommitMessages(c) \/ CommitFails(c)
        PROVE  TypeOK'
    <2>1. committed' \in Nat /\ pc' \in [Consumers -> Steps]
      BY <1>5 DEF CommitMessages, CommitFails
    <2> QED BY <1>5, <2>1 DEF CommitMessages, CommitFails
  <1>6. CASE UNCHANGED vars
    BY <1>6 DEF vars
  <1> QED BY <1>1, <1>2, <1>3, <1>4, <1>5, <1>6 DEF Next, Loop

(* Answers are never withdrawn, so what was answered stays answered. *)
LEMMA AnswersStay ==
  ASSUME [Next]_vars
  PROVE  Answered \subseteq Answered' /\ handled \subseteq handled'
         /\ (published' = published \/ published' = published + 1)
  BY DEF Answered, Next, Loop, Publish, Assign, Crash, FetchMessage, HandlerSucceeds, HandlerFails,
         CommitMessages, CommitFails, vars, answers

(* The loop of d is not disturbed by a step it takes no part in. *)
LEMMA OtherLoops ==
  ASSUME TypeOK, [Next]_vars, NEW d \in Consumers, LoopSkipsNothing(d),
         pc'[d] = pc[d], msg'[d] = msg[d], position'[d] = position[d], owner' = d => owner = d
  PROVE  LoopSkipsNothing(d)'
  BY AnswersStay DEF LoopSkipsNothing, TypeOK

(* Every step of Consumer.Run and of Kafka keeps the invariant: positions  *)
(* and the committed offset advance over answered messages only.           *)
LEMMA NextInv == InductiveInv /\ [Next]_vars => InductiveInv'
  <1> SUFFICES ASSUME InductiveInv, [Next]_vars
               PROVE  InductiveInv'
    OBVIOUS
  <1>0. TypeOK /\ TypeOK' /\ Answered \subseteq Answered'
    BY NextTypeOK, AnswersStay DEF InductiveInv
  <1>1. (committed <= published)' /\ CommittedIsAnswered'
    <2>1. CASE committed' = committed
      BY <1>0, <2>1, AnswersStay DEF InductiveInv, CommittedIsAnswered, TypeOK
    <2>2. ASSUME NEW c \in Consumers, CommitMessages(c)
          PROVE  (committed <= published)' /\ CommittedIsAnswered'
      <3>1. LoopSkipsNothing(c) /\ pc[c] = "commit" /\ committed' = msg[c] + 1
            /\ published' = published
        BY <2>2 DEF InductiveInv, CommitMessages
      <3>2. \A n \in 0 .. msg[c] : n \in Answered
        BY <1>0, <3>1 DEF LoopSkipsNothing, TypeOK, Answered
      <3> QED BY <1>0, <3>1, <3>2 DEF CommittedIsAnswered, LoopSkipsNothing, TypeOK
    <2> QED
      BY <2>1, <2>2 DEF Next, Loop, Publish, Assign, Crash, FetchMessage, HandlerSucceeds,
                        HandlerFails, CommitFails, vars
  <1>2. ASSUME NEW d \in Consumers
        PROVE  LoopSkipsNothing(d)'
    <2>0. LoopSkipsNothing(d)
      BY DEF InductiveInv
    <2>1. ASSUME NEW c \in Consumers, Assign(c)
          PROVE  LoopSkipsNothing(d)'
      <3>1. CASE c = d
        BY <1>0, <2>0, <2>1, <3>1 DEF Assign, LoopSkipsNothing, InductiveInv, CommittedIsAnswered,
                                      TypeOK, loops, answers, Answered
      <3>2. CASE c # d
        BY <1>0, <2>0, <2>1, <3>2, OtherLoops DEF Assign, TypeOK, loops
      <3> QED BY <3>1, <3>2
    <2>2. ASSUME NEW c \in Consumers, Crash(c)
          PROVE  LoopSkipsNothing(d)'
      BY <1>0, <2>0, <2>2, OtherLoops DEF Crash, Goto, LoopSkipsNothing, TypeOK, answers, Answered
    <2>3. ASSUME NEW c \in Consumers, Loop(c), c # d
          PROVE  LoopSkipsNothing(d)'
      BY <1>0, <2>0, <2>3, OtherLoops
         DEF Loop, FetchMessage, HandlerSucceeds, HandlerFails, CommitMessages, CommitFails, Goto,
             TypeOK, readers
    <2>4. ASSUME Loop(d)
          PROVE  LoopSkipsNothing(d)'
      <3>1. CASE FetchMessage(d)
        BY <1>0, <2>0, <3>1 DEF FetchMessage, Goto, LoopSkipsNothing, TypeOK, answers, Answered
      <3>2. CASE HandlerSucceeds(d) \/ HandlerFails(d)
        BY <1>0, <2>0, <3>2 DEF HandlerSucceeds, HandlerFails, Goto, LoopSkipsNothing, TypeOK,
                                readers, Answered
      <3>3. CASE CommitMessages(d) \/ CommitFails(d)
        BY <1>0, <2>0, <3>3 DEF CommitMessages, CommitFails, Goto, LoopSkipsNothing, TypeOK,
                                readers, answers, Answered
      <3> QED BY <2>4, <3>1, <3>2, <3>3 DEF Loop
    <2>5. CASE Publish \/ UNCHANGED vars
      BY <1>0, <2>0, <2>5, OtherLoops DEF Publish, vars, readers, loops
    <2> QED BY <2>1, <2>2, <2>3, <2>4, <2>5 DEF Next
  <1> QED BY <1>0, <1>1, <1>2 DEF InductiveInv

(* In every behaviour neither the committed offset nor a loop is past an   *)
(* unanswered message, other than the one a loop is handling.              *)
THEOREM Inductive == Spec => []InductiveInv
  BY InitInv, NextInv, PTL DEF Spec

(* Crashes, rebalances, stale commits and failed commits never move the    *)
(* group past a message whose handler has not returned.                    *)
THEOREM NothingIsSkipped == Spec => []CommittedIsAnswered
  <1>1. InductiveInv => CommittedIsAnswered
    BY DEF InductiveInv
  <1> QED BY <1>1, Inductive, PTL

-----------------------------------------------------------------------------
(* An answer is a first answer only in its turn: a handler works on a      *)
(* message all of whose predecessors are answered.                         *)
LEMMA HandledInTurn ==
  ASSUME InductiveInv, NEW c \in Consumers, pc[c] # "fetch"
  PROVE  msg[c] \in Group!Before(published) /\ Group!InTurn(msg[c])
  <1>1. LoopSkipsNothing(c) /\ TypeOK
    BY DEF InductiveInv
  <1> QED BY <1>1 DEF LoopSkipsNothing, TypeOK, Group!Before, Group!InTurn, Answered

(* Each step of the replicas is one of the group, or none.                 *)
LEMMA StepOfGroup ==
  ASSUME InductiveInv, [Next]_vars
  PROVE  [Group!Next]_Group!vars
  <1>1. CASE Publish
    BY <1>1 DEF Publish, answers, Group!Publish, Group!Next
  <1>2. ASSUME NEW c \in Consumers, Assign(c) \/ Crash(c) \/ FetchMessage(c) \/ CommitFails(c)
        PROVE  UNCHANGED Group!vars
    BY <1>2 DEF Assign, Crash, FetchMessage, CommitFails, answers, Group!vars
  <1>3. ASSUME NEW c \in Consumers, HandlerSucceeds(c)
        PROVE  Group!Handle(msg[c])
    BY <1>3, HandledInTurn DEF HandlerSucceeds, Group!Handle
  <1>4. ASSUME NEW c \in Consumers, HandlerFails(c)
        PROVE  Group!Fail(msg[c])
    BY <1>4, HandledInTurn DEF HandlerFails, Group!Fail
  <1>5. ASSUME NEW c \in Consumers, CommitMessages(c)
        PROVE  Group!Commit(msg[c])
    BY <1>5, HandledInTurn DEF CommitMessages, answers, Group!Commit, InductiveInv, LoopSkipsNothing
  <1>6. ASSUME NEW c \in Consumers, pc[c] # "fetch"
        PROVE  msg[c] \in Group!Before(published)
    BY <1>6, HandledInTurn
  <1>7. \A c \in Consumers : HandlerSucceeds(c) \/ HandlerFails(c) \/ CommitMessages(c) => pc[c] # "fetch"
    BY DEF HandlerSucceeds, HandlerFails, CommitMessages
  <1>8. CASE UNCHANGED vars
    BY <1>8 DEF vars, answers, Group!vars
  <1> QED
    BY <1>1, <1>2, <1>3, <1>4, <1>5, <1>6, <1>7, <1>8 DEF Next, Loop, Group!Next

(* The replicas implement the group: messages of a partition are answered  *)
(* in their order, and only answered prefixes that end with a handled      *)
(* message are committed.                                                  *)
THEOREM ImplementsGroup == Spec => GroupSpec
  <1>1. Init => Group!Init
    BY DEF Init, Group!Init
  <1> QED BY <1>1, StepOfGroup, Inductive, PTL DEF Spec, GroupSpec, Group!Spec

-----------------------------------------------------------------------------
(* A loop that owns the partition and has no more to fetch leaves nothing  *)
(* unanswered behind: the part of EveryMessageIsAnswered that is no matter *)
(* of fairness.                                                            *)
CaughtUpIsAnswered ==
  \A c \in Consumers :
    owner = c /\ pc[c] = "fetch" /\ position[c] = published =>
      \A n \in 0 .. published - 1 : n \in Answered

(* No loop gets to the end of a partition past a message that was lost     *)
(* with a crash or a rebalance.                                            *)
THEOREM CaughtUp == Spec => []CaughtUpIsAnswered
  <1>1. InductiveInv => CaughtUpIsAnswered
    BY DEF InductiveInv, LoopSkipsNothing, CaughtUpIsAnswered
  <1> QED BY <1>1, Inductive, PTL
=============================================================================
