---------------------------- MODULE PaymentSaga ----------------------------
(***************************************************************************)
(* The three services together: Order, Payment and Inventory Service, each *)
(* as its abstract lifecycle, joined by the events that relays carry to    *)
(* Kafka and by the consumers that the three main functions start.  There  *)
(* is no coordinator: each service reacts to what it hears.                *)
(*                                                                         *)
(* A step is a committed transaction of one service, the arrival of what a *)
(* relay wrote, or the loss of a message: by the network, since the relays *)
(* wait for no answer of the broker, or by a consumer.  Redelivery of what *)
(* was handled changes nothing, and is not a step.                         *)
(***************************************************************************)
EXTENDS Naturals, FiniteSets

CONSTANTS
  Orders,
  Products,
  Product,   \* the product of each order
  Stocked    \* the stock each product starts with

ASSUME OrdersAssumption  == IsFiniteSet(Orders)
ASSUME ProductAssumption == Product \in [Orders -> Products]
ASSUME StockedAssumption == Stocked \in [Products -> Nat]

VARIABLES
  orders,     \* Order Service: the status of each order
  events,     \*   and the events it has written
  outcome,    \* Payment Service: what it has announced about each order
  cancelled,  \*   and the orders whose cancel it has recorded
  stock,      \* Inventory Service: what is left of each product,
  verdict,    \*   what it told each order,
  restocked,  \*   and the compensations each order has had
  topics,     \* the events in Kafka
  lost,       \* the events published that Kafka never gets
  passed      \* <<group, event>> whose handler failed and which a later
              \*   commit of the group's offset passed over

orderVars     == <<orders, events>>
paymentVars   == <<outcome, cancelled>>
inventoryVars == <<stock, verdict, restocked>>
kafkaVars     == <<topics, lost, passed>>
vars          == <<orderVars, paymentVars, inventoryVars, kafkaVars>>

OrderService     == INSTANCE OrderLifecycle
PaymentService   == INSTANCE PaymentLifecycle
InventoryService == INSTANCE InventoryLifecycle

Compensations == {"order.cancelled", "payment.failed"}

(* The events somebody consumes: payment.completed, payment.refunded and   *)
(* inventory.* have no consumer.                                           *)
Types    == {"order.created", "order.cancelled", "payment.failed"}
Events   == [type : Types, order : Orders]
Groups   == {"payment-service", "inventory-service"}
Event(t, o) == [type |-> t, order |-> o]

(* Mutant: Payment Service does not listen to cancels.                     *)
CancelUnheard ==
  {<<"payment-service", "order.created">>,
   <<"inventory-service", "order.created">>, <<"inventory-service", "order.cancelled">>,
   <<"inventory-service", "payment.failed">>}

(* Mutant: Inventory Service does not listen to failed payments.           *)
FailureUnheard ==
  {<<"payment-service", "order.created">>, <<"payment-service", "order.cancelled">>,
   <<"inventory-service", "order.created">>, <<"inventory-service", "order.cancelled">>}

(* The consumers of the three main functions. *)
Subscriptions ==
  {<<"payment-service", "order.created">>, <<"payment-service", "order.cancelled">>,
   <<"inventory-service", "order.created">>, <<"inventory-service", "order.cancelled">>,
   <<"inventory-service", "payment.failed">>}

(* The types of the variables.                                             *)
TypeOK ==
  /\ orders \in [Orders -> {"none", "pending", "cancelled"}]
  /\ events \subseteq Events
  /\ outcome \in [Orders -> {"open", "completed", "failed", "refunded"}]
  /\ cancelled \subseteq Orders
  /\ stock \in [Products -> Nat]
  /\ verdict \in [Orders -> {"open", "deducted", "failed"}]
  /\ restocked \in [Orders -> SUBSET Compensations]
  /\ topics \subseteq Events
  /\ lost \subseteq Events
  /\ passed \subseteq Groups \X Events

Init ==
  /\ OrderService!Init
  /\ PaymentService!Init
  /\ InventoryService!Init
  /\ topics = {}
  /\ lost = {}
  /\ passed = {}

-----------------------------------------------------------------------------
(* Relays and consumers *)

(* The outbox rows of all services: a failed payment's event is written in *)
(* the step that makes it failed, and failed is final.                     *)
Written == events \cup {Event("payment.failed", o) : o \in {p \in Orders : outcome[p] = "failed"}}

(* Mutant: an event is published before the transaction that writes it.    *)
PublishUnwritten(e) ==
  /\ e \notin topics \cup lost
  /\ topics' = topics \cup {e}
  /\ UNCHANGED <<orderVars, paymentVars, inventoryVars, lost, passed>>

(* The outbox and its relays, as OutboxRelay implements them.              *)
Outbox == INSTANCE OutboxChannel WITH inserted <- Written, kafka <- topics

(* What a relay writes arrives at its topic, in any order.                 *)
Publish(e) ==
  /\ e \notin lost
  /\ UNCHANGED <<orderVars, paymentVars, inventoryVars, lost, passed>>
  /\ Outbox!Deliver(e)

(* The row is marked published, no copy that was sent arrives, and none    *)
(* will be sent again: the relays' writes are not acknowledged.            *)
Lose(e) ==
  /\ e \in Written \ (topics \cup lost)
  /\ lost' = lost \cup {e}
  /\ UNCHANGED <<orderVars, paymentVars, inventoryVars, topics, passed>>

(* The group's consumer has the event for a handler. *)
Hears(g, e) ==
  /\ <<g, e.type>> \in Subscriptions
  /\ e \in topics
  /\ <<g, e>> \notin passed

(* The work an event stands for is committed.  A charge shows only in its  *)
(* outcome, which may stay open for ever.                                  *)
Handled(g, e) ==
  CASE g = "payment-service" /\ e.type = "order.created"   -> outcome[e.order] # "open"
    [] g = "payment-service" /\ e.type = "order.cancelled" -> e.order \in cancelled
    [] g = "inventory-service" /\ e.type = "order.created" -> verdict[e.order] # "open"
    [] OTHER                                               -> e.type \in restocked[e.order]

(* A handler returns an error and the consumer goes on to the next         *)
(* message, whose commit covers this one.                                  *)
PassOver(g, e) ==
  /\ Hears(g, e)
  /\ ~Handled(g, e)
  /\ passed' = passed \cup {<<g, e>>}
  /\ UNCHANGED <<orderVars, paymentVars, inventoryVars, topics, lost>>

-----------------------------------------------------------------------------
(* Order Service, moved by its clients. *)

CreateOrder(o) ==
  /\ OrderService!Create(o)
  /\ UNCHANGED <<paymentVars, inventoryVars, kafkaVars>>

CancelOrder(o) ==
  /\ OrderService!Cancel(o)
  /\ UNCHANGED <<paymentVars, inventoryVars, kafkaVars>>

-----------------------------------------------------------------------------
(* Payment Service: what becomes of a charge it was asked for, at once or  *)
(* by a webhook, and the cancel.                                           *)
Settle(o) ==
  /\ Hears("payment-service", Event("order.created", o))
  /\ PaymentService!Complete(o) \/ PaymentService!Fail(o) \/ PaymentService!LateRefund(o)
  /\ UNCHANGED <<orderVars, inventoryVars, kafkaVars>>

(* Mutant: the consumer of cancels reads the topic of new orders.          *)
RecordCancelOfCreated(o) ==
  /\ Hears("payment-service", Event("order.created", o))
  /\ PaymentService!Cancel(o)
  /\ UNCHANGED <<orderVars, inventoryVars, kafkaVars>>

RecordCancel(o) ==
  /\ Hears("payment-service", Event("order.cancelled", o))
  /\ PaymentService!Cancel(o)
  /\ UNCHANGED <<orderVars, inventoryVars, kafkaVars>>

-----------------------------------------------------------------------------
(* Inventory Service *)

Allocate(o) ==
  /\ Hears("inventory-service", Event("order.created", o))
  /\ InventoryService!Deduct(o) \/ InventoryService!Refuse(o)
  /\ UNCHANGED <<orderVars, paymentVars, kafkaVars>>

(* Mutant: any event of the order is taken for a compensation.             *)
CompensateAny(o, t) ==
  /\ \E u \in Types : Hears("inventory-service", Event(u, o))
  /\ InventoryService!Restock(o, t)
  /\ UNCHANGED <<orderVars, paymentVars, kafkaVars>>

Compensate(o, t) ==
  /\ Hears("inventory-service", Event(t, o))
  /\ InventoryService!Restock(o, t)
  /\ UNCHANGED <<orderVars, paymentVars, kafkaVars>>

-----------------------------------------------------------------------------
Next ==
  \/ \E o \in Orders :
       \/ CreateOrder(o) \/ CancelOrder(o)
       \/ Settle(o) \/ RecordCancel(o)
       \/ Allocate(o) \/ \E t \in Compensations : Compensate(o, t)
  \/ \E e \in Events : Publish(e) \/ Lose(e) \/ \E g \in Groups : PassOver(g, e)

Spec == Init /\ [][Next]_vars

(* Relays publish what is written, and then it arrives or is lost.  A      *)
(* consumer answers a message: the work is done, or the message is passed  *)
(* over.  Clients need not do anything, and a charge need not come to an   *)
(* end.                                                                    *)
Fairness ==
  /\ \A e \in Events : WF_vars(Publish(e) \/ Lose(e))
  /\ \A o \in Orders :
       /\ WF_vars(RecordCancel(o) \/ PassOver("payment-service", Event("order.cancelled", o)))
       /\ \A t \in Compensations :
            WF_vars(Compensate(o, t) \/ PassOver("inventory-service", Event(t, o)))

FairSpec == Spec /\ Fairness

-----------------------------------------------------------------------------
(* Properties *)

(* Money goes back only to a customer who cancelled: a refund by Payment   *)
(* Service implies the cancelled status in Order Service, two services and *)
(* a relay away.                                                           *)
RefundedWasCancelled ==
  \A o \in Orders : outcome[o] = "refunded" => orders[o] = "cancelled"

(* A paid order that its customer keeps keeps its piece: no compensation   *)
(* is made for it, in whatever order the topics are heard.                 *)
PaidKeepsItsPiece ==
  \A o \in Orders : outcome[o] = "completed" /\ orders[o] # "cancelled" => restocked[o] = {}

Deducted(p)   == {o \in Orders : Product[o] = p /\ verdict[o] = "deducted"}
PutBack(t, p) == {o \in Orders : Product[o] = p /\ t \in restocked[o]}
Held(p)       == {o \in Deducted(p) : restocked[o] = {}}
Due(o)        == verdict[o] = "deducted" /\ Cardinality(restocked[o]) <= 1

(* More pieces of a product are promised than there were only if an order  *)
(* was restocked twice, or without having been given a piece.              *)
SoldWasInStock ==
  \A p \in Products :
    (\A o \in Orders : Product[o] = p /\ restocked[o] # {} => Due(o)) => Cardinality(Held(p)) <= Stocked[p]

(* The two ways a message about an order fails to reach a service: the     *)
(* network drops what a relay sent, or the service's consumer passes it    *)
(* over.                                                                   *)
Missed(g, t, o) == Event(t, o) \in lost \/ <<g, Event(t, o)>> \in passed

(* A cancel accepted by Order Service takes its effect on the money, paid  *)
(* already or not: nothing marks an order paid in Order Service, so paid   *)
(* orders can be cancelled.  Payment Service records the cancel and leaves *)
(* no payment completed, unless this very cancel was lost on its way or    *)
(* passed over by its consumer; no other loss can stop it.                 *)
CancelsSettle ==
  \A o \in Orders :
    orders[o] = "cancelled" ~>
      \/ o \in cancelled /\ outcome[o] # "completed"
      \/ Missed("payment-service", "order.cancelled", o)

(* Why the piece of an order has to come back.                             *)
Reasons(o) ==
  {t \in Compensations : IF t = "order.cancelled" THEN orders[o] = "cancelled" ELSE outcome[o] = "failed"}

(* The piece of an order that is cancelled or whose payment failed comes   *)
(* back, unless every message that says so was lost or passed over: one    *)
(* that gets through is enough.                                            *)
PiecesComeBack ==
  \A o \in Orders :
    verdict[o] = "deducted" /\ Reasons(o) # {} ~>
      \/ restocked[o] # {}
      \/ \A t \in Reasons(o) : Missed("inventory-service", t, o)

-----------------------------------------------------------------------------
(* The stock counts: what is left and what was deducted is what there was  *)
(* and what was put back, for the orders of each product.                  *)
StockIsConserved ==
  \A p \in Products :
    stock[p] + Cardinality(Deducted(p)) =
      Stocked[p] + Cardinality(PutBack("order.cancelled", p)) + Cardinality(PutBack("payment.failed", p))

(* What makes these inductive: each service acts on events that are in     *)
(* Kafka, each of them was written, and the status says so.                *)
OrderInv(o) ==
  /\ Event("order.created", o) \in events <=> orders[o] # "none"
  /\ Event("order.cancelled", o) \in events <=> orders[o] = "cancelled"
  /\ Event("payment.failed", o) \notin events
  /\ outcome[o] # "open" \/ verdict[o] # "open" => Event("order.created", o) \in topics
  /\ outcome[o] = "completed" => o \notin cancelled
  /\ outcome[o] = "refunded" => o \in cancelled
  /\ o \in cancelled => Event("order.cancelled", o) \in topics
  /\ \A t \in restocked[o] : Event(t, o) \in topics

(* A message passed over was in Kafka, for a group that hears its topic,   *)
(* and what it asked for is not done.                                      *)
PassedInv(x) ==
  /\ <<x[1], x[2].type>> \in Subscriptions
  /\ x[2] \in topics
  /\ ~Handled(x[1], x[2])

InductiveInv ==
  /\ TypeOK
  /\ topics \cup lost \subseteq Written
  /\ topics \cap lost = {}
  /\ \A x \in passed : PassedInv(x)
  /\ \A o \in Orders : OrderInv(o)
  /\ StockIsConserved
=============================================================================
