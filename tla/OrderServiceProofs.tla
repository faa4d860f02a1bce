------------------------- MODULE OrderServiceProofs -------------------------
(***************************************************************************)
(* Machine-checked proofs about OrderService, for every set of orders and  *)
(* of HTTP handlers.                                                       *)
(***************************************************************************)
EXTENDS OrderService, TLAPS

(* Every step keeps the types of the variables. *)
LEMMA NextTypeOK ==
  ASSUME TypeOK, [Next]_vars
  PROVE  TypeOK'
<1>1. CASE UNCHANGED vars
  BY <1>1 DEF TypeOK, vars, tables, answers
<1>2. ASSUME NEW w \in Workers, NEW o \in Orders,
             CreateOrder(w, o) \/ FindPending(w, o) \/ FindCancelled(w, o)
      PROVE  TypeOK'
  BY <1>2 DEF TypeOK, CreateOrder, FindPending, FindCancelled, Goto, tables, answers, Steps, OutTypes
<1>3. ASSUME NEW w \in Workers, CancelPending(w)
      PROVE  TypeOK'
  BY <1>3 DEF TypeOK, CancelPending, Goto, tables, answers, Steps, OutTypes
<1>4. ASSUME NEW w \in Workers, NotCancellable(w) \/ Abort(w)
      PROVE  TypeOK'
  BY <1>4 DEF TypeOK, NotCancellable, Abort, EndTx, Goto, tables, answers, Steps
<1>5. ASSUME NEW w \in Workers, Commit(w)
      PROVE  TypeOK'
  <2>1. orders' \in [Orders -> Statuses]
    BY <1>5 DEF TypeOK, Commit, Statuses
  <2>2. outbox' \in [OutEvents -> Nat]
    <3>1. ASSUME NEW e, outbox' = [outbox EXCEPT ![e] = @ + 1]
          PROVE  outbox' \in [OutEvents -> Nat]
      <4>1. outbox' = [x \in OutEvents |-> IF x = e THEN outbox[x] + 1 ELSE outbox[x]]
        BY <3>1 DEF TypeOK
      <4>2. \A x \in OutEvents : outbox[x] \in Nat
        BY DEF TypeOK
      <4> QED BY <4>1, <4>2
    <3> QED BY <1>5, <3>1 DEF Commit
  <2>3. accepted' \in [Orders -> Nat]
    BY <1>5 DEF TypeOK, Commit
  <2>4. UNCHANGED <<refused, order>>
    BY <1>5 DEF Commit, EndTx
  <2>5. /\ pc' \in [Workers -> Steps]
        /\ draft' \in [Workers -> OutTypes \cup {"none"}]
        /\ rowLock' \in [Orders -> Workers \cup {NoWorker}]
    BY <1>5 DEF TypeOK, Commit, EndTx, Goto, Steps
  <2> QED
    BY <2>1, <2>2, <2>3, <2>4, <2>5 DEF TypeOK
<1> QED
  BY <1>1, <1>2, <1>3, <1>4, <1>5 DEF Next

(* Two transactions never hold the lock of one row, so a commit finds the  *)
(* row as its transaction saw it, and no other open transaction is about   *)
(* to commit to the same order.                                            *)
LEMMA NextInductive ==
  ASSUME InductiveInv, [Next]_vars
  PROVE  InductiveInv'
<1> USE DEF InductiveInv
<1>1. TypeOK'
  BY NextTypeOK
<1>2. CASE UNCHANGED vars
  BY <1>1, <1>2 DEF vars, tables, answers, WorkerInv, EventsMatchOrders, AnswersAreTrue, Announced
<1>3. ASSUME NEW w \in Workers, NEW o \in Orders, CreateOrder(w, o)
      PROVE  InductiveInv'
  <2>1. EventsMatchOrders' /\ AnswersAreTrue'
    BY <1>3 DEF CreateOrder, tables, answers, EventsMatchOrders, AnswersAreTrue, Announced
  <2>2. ASSUME NEW v \in Workers PROVE WorkerInv(v)'
    BY <1>3, NoWorkerAssumption DEF CreateOrder, tables, answers, Goto, WorkerInv, TypeOK
  <2> QED BY <1>1, <2>1, <2>2
<1>4. ASSUME NEW w \in Workers, NEW o \in Orders, FindPending(w, o) \/ FindCancelled(w, o)
      PROVE  InductiveInv'
  <2>1. EventsMatchOrders' /\ AnswersAreTrue'
    BY <1>4 DEF FindPending, FindCancelled, tables, answers, EventsMatchOrders, AnswersAreTrue, Announced
  <2>2. ASSUME NEW v \in Workers PROVE WorkerInv(v)'
    BY <1>4 DEF FindPending, FindCancelled, tables, answers, Goto, WorkerInv, TypeOK
  <2> QED BY <1>1, <2>1, <2>2
<1>5. ASSUME NEW w \in Workers, CancelPending(w)
      PROVE  InductiveInv'
  <2>1. EventsMatchOrders' /\ AnswersAreTrue'
    BY <1>5 DEF CancelPending, tables, answers, EventsMatchOrders, AnswersAreTrue, Announced
  <2>2. ASSUME NEW v \in Workers PROVE WorkerInv(v)'
    BY <1>5, NoWorkerAssumption DEF CancelPending, tables, answers, Goto, WorkerInv, TypeOK
  <2> QED BY <1>1, <2>1, <2>2
<1>6. ASSUME NEW w \in Workers, NotCancellable(w) \/ Abort(w)
      PROVE  InductiveInv'
  <2>1. UNCHANGED <<orders, outbox, accepted, order>>
    BY <1>6 DEF NotCancellable, Abort, EndTx, tables, answers
  <2>2. EventsMatchOrders'
    BY <2>1 DEF EventsMatchOrders, Announced
  <2>3. ASSUME NEW o \in refused' PROVE orders[o] = "cancelled"
    <3>1. CASE NotCancellable(w)
      BY <1>6, <3>1, <2>3 DEF NotCancellable, AnswersAreTrue, TypeOK, Statuses, WorkerInv
    <3>2. CASE Abort(w)
      BY <3>2, <2>3 DEF Abort, answers, AnswersAreTrue, TypeOK
    <3> QED BY <1>6, <3>1, <3>2
  <2>4. AnswersAreTrue'
    BY <2>1, <2>3 DEF AnswersAreTrue
  <2>5. ASSUME NEW v \in Workers PROVE WorkerInv(v)'
    BY <1>6, <2>1 DEF NotCancellable, Abort, EndTx, Goto, WorkerInv, TypeOK
  <2> QED BY <1>1, <2>2, <2>4, <2>5
<1>7. ASSUME NEW w \in Workers, Commit(w)
      PROVE  InductiveInv'
  <2> DEFINE o == order[w]
             s == IF draft[w] = "order.created" THEN "pending" ELSE "cancelled"
             e == Event(draft[w], o)
  <2>1. /\ o \in Orders
        /\ rowLock[o] = w
        /\ \/ draft[w] = "order.created" /\ orders[o] = "none"
           \/ draft[w] = "order.cancelled" /\ orders[o] = "pending"
    BY <1>7 DEF Commit, WorkerInv, TypeOK
  <2>2. /\ orders' = [orders EXCEPT ![o] = s]
        /\ outbox' = [outbox EXCEPT ![e] = @ + 1]
        /\ UNCHANGED <<refused, order>>
    BY <1>7 DEF Commit, EndTx
  <2>3. /\ accepted[o] = 0 /\ o \notin refused
        /\ \/ accepted' = accepted
           \/ draft[w] = "order.cancelled" /\ accepted' = [accepted EXCEPT ![o] = @ + 1]
    BY <1>7, <2>1 DEF Commit, AnswersAreTrue, TypeOK
  <2>4. EventsMatchOrders'
    <3> SUFFICES ASSUME NEW p \in Orders
                 PROVE  /\ outbox'[Event("order.created", p)] = IF orders'[p] = "none" THEN 0 ELSE 1
                        /\ outbox'[Event("order.cancelled", p)] = IF orders'[p] = "cancelled" THEN 1 ELSE 0
      BY DEF EventsMatchOrders, Announced
    <3>1. /\ outbox[Event("order.created", p)] = IF orders[p] = "none" THEN 0 ELSE 1
          /\ outbox[Event("order.cancelled", p)] = IF orders[p] = "cancelled" THEN 1 ELSE 0
      BY DEF EventsMatchOrders, Announced
    <3>2. \A t \in OutTypes : Event(t, p) \in OutEvents /\ (e = Event(t, p) <=> o = p /\ draft[w] = t)
      BY <2>1 DEF Event, OutEvents, OutTypes
    <3>3. \A t \in OutTypes : outbox'[Event(t, p)] =
            IF o = p /\ draft[w] = t THEN outbox[Event(t, p)] + 1 ELSE outbox[Event(t, p)]
      BY <2>2, <3>2 DEF TypeOK
    <3>4. orders'[p] = IF o = p THEN s ELSE orders[p]
      BY <2>2 DEF TypeOK
    <3> HIDE DEF e
    <3> QED BY <2>1, <3>1, <3>3, <3>4 DEF OutTypes
  <2>5. AnswersAreTrue'
    BY <2>1, <2>2, <2>3 DEF AnswersAreTrue, TypeOK
  <2>6. ASSUME NEW v \in Workers PROVE WorkerInv(v)'
    <3>1. CASE v = w
      BY <1>7, <3>1 DEF Commit, EndTx, Goto, WorkerInv, TypeOK
    <3>2. CASE v # w
      <4>1. pc'[v] = pc[v] /\ draft'[v] = draft[v] /\ order'[v] = order[v]
        BY <1>7, <3>2 DEF Commit, EndTx, Goto, TypeOK
      <4>2. pc[v] = "commit" => order[v] # o
        BY <2>1, <3>2 DEF WorkerInv
      <4>3. ASSUME NEW p \in Orders PROVE orders'[p] = IF p = o THEN s ELSE orders[p]
        BY <2>2 DEF TypeOK
      <4>4. order[v] \in Orders
        BY DEF TypeOK
      <4>5. rowLock[order[v]] = v => rowLock'[order[v]] = v
        BY <1>7, <3>2, <4>4 DEF Commit, EndTx
      <4>6. WorkerInv(v)
        OBVIOUS
      <4> QED BY <4>1, <4>2, <4>3, <4>4, <4>5, <4>6 DEF WorkerInv
    <3> QED BY <3>1, <3>2
  <2> QED BY <1>1, <2>4, <2>5, <2>6
<1> QED
  BY <1>2, <1>3, <1>4, <1>5, <1>6, <1>7 DEF Next

(* The invariant holds of every behaviour. *)
THEOREM Inductive == Spec => []InductiveInv
<1>1. Init => InductiveInv
  BY DEF Init, InductiveInv, TypeOK, Statuses, Steps, OutEvents, OutTypes, WorkerInv,
         EventsMatchOrders, AnswersAreTrue, Announced, Event
<1> QED
  BY <1>1, NextInductive, PTL DEF Spec

(* An order.created for each row and an order.cancelled for each cancelled *)
(* order, exactly once, whatever CreateOrder and CancelOrder race.         *)
THEOREM EventsAreExact == Spec => []EventsMatchOrders
<1>1. InductiveInv => EventsMatchOrders
  BY DEF InductiveInv
<1> QED
  BY <1>1, Inductive, PTL

(* At most one cancel of an order is answered with 200, and the answers of *)
(* CancelOrder are true.                                                   *)
THEOREM OneCancelSucceeds == Spec => []AnswersAreTrue
<1>1. InductiveInv => AnswersAreTrue
  BY DEF InductiveInv
<1> QED
  BY <1>1, Inductive, PTL

-----------------------------------------------------------------------------
(* Refinement of the abstract lifecycle. *)

(* Initially there are no orders and no events.                            *)
LEMMA LifecycleInit == Init => Lifecycle!Init
BY DEF Init, Lifecycle!Init

(* A commit creates or cancels the abstract order and writes its event.    *)
LEMMA LifecycleCommit ==
  ASSUME InductiveInv, NEW w \in Workers, Commit(w)
  PROVE  Lifecycle!Next
<1> PICK o \in Orders : o = order[w]
  BY DEF InductiveInv, TypeOK
<1> PICK t \in OutTypes : t = draft[w]
  BY DEF InductiveInv, WorkerInv, Commit, OutTypes
<1> DEFINE E == {e \in OutEvents : outbox[e] > 0}
<1>1. /\ TypeOK
      /\ \/ t = "order.created" /\ orders[o] = "none"
         \/ t = "order.cancelled" /\ orders[o] = "pending"
  BY DEF InductiveInv, WorkerInv, Commit
<1>2. orders' = [orders EXCEPT ![o] = IF t = "order.created" THEN "pending" ELSE "cancelled"]
  BY DEF Commit
<1>3. E' = E \cup {Event(t, o)}
  <2>1. Event(t, o) \in OutEvents
    BY DEF Event, OutEvents
  <2>2. ASSUME NEW e \in OutEvents
        PROVE  outbox'[e] > 0 <=> outbox[e] > 0 \/ e = Event(t, o)
    <3>1. outbox' = [outbox EXCEPT ![Event(t, o)] = @ + 1]
      BY DEF Commit
    <3>2. outbox'[e] = IF e = Event(t, o) THEN outbox[e] + 1 ELSE outbox[e]
      BY <1>1, <2>1, <3>1 DEF TypeOK
    <3>3. outbox[e] \in Nat
      BY <1>1 DEF TypeOK
    <3> QED BY <3>2, <3>3
  <2> QED BY <2>1, <2>2
<1>4. Lifecycle!Event(t, o) = Event(t, o)
  BY DEF Event, Lifecycle!Event
<1> HIDE DEF E
<1>5. CASE t = "order.created"
  BY <1>1, <1>2, <1>3, <1>4, <1>5 DEF Lifecycle!Next, Lifecycle!Create, E
<1>6. CASE t = "order.cancelled"
  BY <1>1, <1>2, <1>3, <1>4, <1>6 DEF Lifecycle!Next, Lifecycle!Cancel, E
<1> QED
  BY <1>5, <1>6 DEF OutTypes

(* The service implements its abstract lifecycle.                          *)
THEOREM ImplementsLifecycle == Spec => LifecycleSpec
<1>1. InductiveInv /\ [Next]_vars => [Lifecycle!Next]_(Lifecycle!vars)
  <2> SUFFICES ASSUME InductiveInv, [Next]_vars
               PROVE  Lifecycle!Next \/ UNCHANGED Lifecycle!vars
    OBVIOUS
  <2>1. ASSUME NEW w \in Workers, Commit(w) PROVE Lifecycle!Next
    BY <2>1, LifecycleCommit
  <2>2. CASE UNCHANGED tables
    BY <2>2 DEF Lifecycle!vars, tables
  <2>3. UNCHANGED tables \/ \E w \in Workers : Commit(w)
    BY DEF Next, vars, CreateOrder, FindPending, FindCancelled, CancelPending, NotCancellable, Abort
  <2> QED BY <2>1, <2>2, <2>3
<1> QED
  BY <1>1, LifecycleInit, Inductive, PTL DEF Spec, LifecycleSpec, Lifecycle!Spec
=============================================================================
