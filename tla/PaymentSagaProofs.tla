------------------------- MODULE PaymentSagaProofs -------------------------
(***************************************************************************)
(* Machine-checked proofs about PaymentSaga, for every set of orders and   *)
(* products and every stock.                                               *)
(***************************************************************************)
EXTENDS PaymentSaga, FiniteSetTheorems, TLAPS

(* Events are told apart by type and order.                                *)
LEMMA EventFields ==
  /\ \A t, u, o, p : Event(t, o) = Event(u, p) <=> t = u /\ o = p
  /\ \A t, o : Event(t, o).type = t /\ Event(t, o).order = o
  /\ \A t \in Types, o \in Orders : Event(t, o) \in Events
  /\ \A e \in Events : e.type \in Types /\ e.order \in Orders /\ e = Event(e.type, e.order)
BY DEF Event, Events

(* The services name events and compensations alike.                       *)
LEMMA SameNames ==
  /\ \A t, o : OrderService!Event(t, o) = Event(t, o)
  /\ Compensations \subseteq Types
BY DEF Event, OrderService!Event, Compensations, Types

(* What was written stays written.                                         *)
LEMMA WrittenStays ==
  ASSUME events \subseteq events',
         \A o \in Orders : outcome[o] = "failed" => outcome'[o] = "failed"
  PROVE  Written \subseteq Written'
BY DEF Written

(* Sets of orders are finite.                                              *)
LEMMA Finite == \A S \in SUBSET Orders : IsFiniteSet(S) /\ Cardinality(S) \in Nat
BY OrdersAssumption, FS_Subset, FS_CardinalityType

(* One order more.                                                         *)
LEMMA OneMore ==
  ASSUME NEW S \in SUBSET Orders, NEW x, x \notin S
  PROVE  Cardinality(S \cup {x}) = Cardinality(S) + 1
BY Finite, FS_AddElement

(* The sets that are counted are sets of orders.                           *)
LEMMA Counted ==
  ASSUME NEW p
  PROVE  /\ Deducted(p) \in SUBSET Orders /\ Held(p) \in SUBSET Orders
         /\ \A t : PutBack(t, p) \in SUBSET Orders
         /\ Cardinality(Deducted(p)) \in Nat
         /\ \A t : Cardinality(PutBack(t, p)) \in Nat
BY Finite DEF Deducted, Held, PutBack

(* Steps of others leave the stock and what is counted alone.              *)
LEMMA StockKept ==
  ASSUME StockIsConserved, UNCHANGED inventoryVars
  PROVE  StockIsConserved'
BY DEF StockIsConserved, Deducted, PutBack, inventoryVars

(* A deduction, a refusal and a compensation each move the stock by what   *)
(* they add to the counts.                                                 *)
LEMMA StockMoves ==
  ASSUME TypeOK, StockIsConserved, NEW o \in Orders,
         \/ InventoryService!Deduct(o) \/ InventoryService!Refuse(o)
         \/ \E t \in Compensations : InventoryService!Restock(o, t)
  PROVE  StockIsConserved'
<1> SUFFICES ASSUME NEW p \in Products
             PROVE  stock'[p] + Cardinality(Deducted(p)') =
                      Stocked[p] + Cardinality(PutBack("order.cancelled", p)')
                                 + Cardinality(PutBack("payment.failed", p)')
  BY DEF StockIsConserved
<1>1. /\ stock[p] \in Nat /\ Stocked[p] \in Nat
      /\ stock[p] + Cardinality(Deducted(p)) =
           Stocked[p] + Cardinality(PutBack("order.cancelled", p)) + Cardinality(PutBack("payment.failed", p))
  BY StockedAssumption DEF TypeOK, StockIsConserved
<1>2. Product[o] \in Products
  BY ProductAssumption
<1>3. CASE InventoryService!Deduct(o)
  <2>1. /\ verdict[o] = "open" /\ verdict' = [verdict EXCEPT ![o] = "deducted"]
        /\ stock' = [stock EXCEPT ![Product[o]] = @ - 1] /\ restocked' = restocked
    BY <1>3 DEF InventoryService!Deduct
  <2>2. \A t : PutBack(t, p)' = PutBack(t, p)
    BY <2>1 DEF PutBack
  <2>3. CASE p = Product[o]
    <3>1. Deducted(p)' = Deducted(p) \cup {o} /\ o \notin Deducted(p)
      BY <2>1, <2>3 DEF Deducted, TypeOK
    <3>2. stock'[p] = stock[p] - 1
      BY <2>1, <2>3, <1>2 DEF TypeOK
    <3>3. Cardinality(Deducted(p)') = Cardinality(Deducted(p)) + 1
      BY <3>1, Counted, OneMore
    <3> QED BY <1>1, <2>2, <3>2, <3>3, Counted
  <2>4. CASE p # Product[o]
    <3>1. Deducted(p)' = Deducted(p)
      BY <2>1, <2>4 DEF Deducted, TypeOK
    <3>2. stock'[p] = stock[p]
      BY <2>1, <2>4 DEF TypeOK
    <3> QED BY <1>1, <2>2, <3>1, <3>2
  <2> QED BY <2>3, <2>4
<1>4. CASE InventoryService!Refuse(o)
  <2>1. /\ verdict[o] = "open" /\ verdict' = [verdict EXCEPT ![o] = "failed"]
        /\ stock' = stock /\ restocked' = restocked
    BY <1>4 DEF InventoryService!Refuse
  <2>2. Deducted(p)' = Deducted(p) /\ \A t : PutBack(t, p)' = PutBack(t, p)
    BY <2>1 DEF Deducted, PutBack, TypeOK
  <2> QED BY <1>1, <2>1, <2>2
<1>5. ASSUME NEW t \in Compensations, InventoryService!Restock(o, t)
      PROVE  stock'[p] + Cardinality(Deducted(p)') =
               Stocked[p] + Cardinality(PutBack("order.cancelled", p)')
                          + Cardinality(PutBack("payment.failed", p)')
  <2>1. /\ t \notin restocked[o] /\ restocked' = [restocked EXCEPT ![o] = @ \cup {t}]
        /\ stock' = [stock EXCEPT ![Product[o]] = @ + 1] /\ verdict' = verdict
    BY <1>5 DEF InventoryService!Restock
  <2>2. Deducted(p)' = Deducted(p)
    BY <2>1 DEF Deducted
  <2>3. ASSUME NEW u, u # t \/ p # Product[o]
        PROVE  PutBack(u, p)' = PutBack(u, p)
    BY <2>1, <2>3 DEF PutBack, TypeOK
  <2>4. CASE p = Product[o]
    <3>1. PutBack(t, p)' = PutBack(t, p) \cup {o} /\ o \notin PutBack(t, p)
      BY <2>1, <2>4 DEF PutBack, TypeOK
    <3>2. stock'[p] = stock[p] + 1
      BY <2>1, <2>4, <1>2 DEF TypeOK
    <3>3. Cardinality(PutBack(t, p)') = Cardinality(PutBack(t, p)) + 1
      BY <3>1, Counted, OneMore
    <3>4. CASE t = "order.cancelled"
      <4>1. PutBack("payment.failed", p)' = PutBack("payment.failed", p)
        BY <2>3, <3>4
      <4> QED BY <1>1, <2>2, <3>2, <3>3, <3>4, <4>1, Counted
    <3>5. CASE t = "payment.failed"
      <4>1. PutBack("order.cancelled", p)' = PutBack("order.cancelled", p)
        BY <2>3, <3>5
      <4> QED BY <1>1, <2>2, <3>2, <3>3, <3>5, <4>1, Counted
    <3> QED BY <3>4, <3>5 DEF Compensations
  <2>5. CASE p # Product[o]
    <3>1. stock'[p] = stock[p]
      BY <2>1, <2>5 DEF TypeOK
    <3>2. /\ PutBack("order.cancelled", p)' = PutBack("order.cancelled", p)
          /\ PutBack("payment.failed", p)' = PutBack("payment.failed", p)
      BY <2>3, <2>5
    <3> QED BY <1>1, <2>2, <3>1, <3>2
  <2> QED BY <2>4, <2>5
<1> QED
  BY <1>3, <1>4, <1>5

-----------------------------------------------------------------------------
(* Initially there is nothing. *)
LEMMA InitInductive == Init => InductiveInv
<1> SUFFICES ASSUME Init PROVE InductiveInv
  OBVIOUS
<1> USE DEF Init, OrderService!Init, PaymentService!Init, InventoryService!Init
<1>1. /\ TypeOK /\ topics \cup lost \subseteq Written /\ topics \cap lost = {}
      /\ \A x \in passed : PassedInv(x)
  BY StockedAssumption DEF TypeOK
<1>2. \A o \in Orders : OrderInv(o)
  BY EventFields DEF OrderInv
<1>3. StockIsConserved
  <2> SUFFICES ASSUME NEW p \in Products
               PROVE  stock[p] + Cardinality(Deducted(p)) =
                        Stocked[p] + Cardinality(PutBack("order.cancelled", p))
                                   + Cardinality(PutBack("payment.failed", p))
    BY DEF StockIsConserved
  <2>1. Deducted(p) = {} /\ \A t : PutBack(t, p) = {}
    BY DEF Deducted, PutBack
  <2>2. stock[p] = Stocked[p] /\ Stocked[p] \in Nat
    BY StockedAssumption
  <2>3. Cardinality(Deducted(p)) = 0 /\ \A t : Cardinality(PutBack(t, p)) = 0
    <3>1. \A S : S = {} => Cardinality(S) = 0
      BY FS_EmptySet
    <3> QED BY <2>1, <3>1
  <2>4. /\ Cardinality(PutBack("order.cancelled", p)) = 0
        /\ Cardinality(PutBack("payment.failed", p)) = 0
    BY <2>3
  <2> HIDE DEF Init, OrderService!Init, PaymentService!Init, InventoryService!Init
  <2> QED BY <2>2, <2>3, <2>4
<1> QED BY <1>1, <1>2, <1>3 DEF InductiveInv

(* Relays, the network and consumers: the services stand still.            *)
LEMMA KafkaInductive ==
  ASSUME InductiveInv, NEW e \in Events,
         Publish(e) \/ Lose(e) \/ \E g \in Groups : PassOver(g, e)
  PROVE  InductiveInv'
<1> USE DEF InductiveInv
<1>1. /\ UNCHANGED <<orderVars, paymentVars, inventoryVars>>
      /\ topics \subseteq topics'
  BY DEF Publish, Lose, PassOver, Outbox!Deliver
<1>2. Written' = Written /\ \A g, x : Handled(g, x)' = Handled(g, x)
  BY <1>1 DEF Written, Handled, orderVars, paymentVars, inventoryVars
<1>3. ASSUME NEW o \in Orders PROVE OrderInv(o)'
  BY <1>1 DEF OrderInv, orderVars, paymentVars, inventoryVars
<1>4. /\ topics' \cup lost' \subseteq Written' /\ topics' \cap lost' = {}
      /\ topics' \cup lost' \subseteq Events
  BY <1>2 DEF Publish, Lose, PassOver, Outbox!Deliver, TypeOK
<1>5. /\ passed' \subseteq Groups \X Events
      /\ \A x \in passed' : PassedInv(x)'
  <2>1. CASE Publish(e) \/ Lose(e)
    <3>1. passed' = passed
      BY <2>1 DEF Publish, Lose
    <3> QED BY <1>1, <1>2, <3>1 DEF TypeOK, PassedInv
  <2>2. ASSUME NEW g \in Groups, PassOver(g, e)
        PROVE  /\ passed' \subseteq Groups \X Events
               /\ \A x \in passed' : PassedInv(x)'
    <3>1. passed' = passed \cup {<<g, e>>} /\ <<g, e.type>> \in Subscriptions /\ topics' = topics /\ e \in topics /\ ~Handled(g, e)
      BY <2>2 DEF PassOver, Hears
    <3> QED BY <1>2, <3>1 DEF TypeOK, PassedInv
  <2> QED BY <2>1, <2>2
<1>6. TypeOK'
  BY <1>1, <1>4, <1>5 DEF TypeOK, orderVars, paymentVars, inventoryVars
<1>7. StockIsConserved'
  BY <1>1, StockKept
<1> QED
  BY <1>3, <1>4, <1>5, <1>6, <1>7

(* A client creates or cancels an order.                                   *)
LEMMA OrderInductive ==
  ASSUME InductiveInv, NEW o \in Orders, CreateOrder(o) \/ CancelOrder(o)
  PROVE  InductiveInv'
<1> USE DEF InductiveInv
<1>1. PICK t \in {"order.created", "order.cancelled"} :
        /\ events' = events \cup {Event(t, o)}
        /\ t = "order.created" => orders[o] = "none" /\ orders' = [orders EXCEPT ![o] = "pending"]
        /\ t = "order.cancelled" => orders[o] = "pending" /\ orders' = [orders EXCEPT ![o] = "cancelled"]
  BY SameNames DEF CreateOrder, CancelOrder, OrderService!Create, OrderService!Cancel
<1>2. UNCHANGED <<paymentVars, inventoryVars, kafkaVars>>
  BY DEF CreateOrder, CancelOrder
<1>3. TypeOK'
  BY <1>1, <1>2, EventFields DEF TypeOK, paymentVars, inventoryVars, kafkaVars, Types
<1>4. topics' \cup lost' \subseteq Written' /\ topics' \cap lost' = {}
  BY <1>1, <1>2, WrittenStays DEF paymentVars, kafkaVars
<1>5. \A x \in passed' : PassedInv(x)'
  BY <1>2 DEF PassedInv, Handled, paymentVars, inventoryVars, kafkaVars
<1>6. ASSUME NEW p \in Orders PROVE OrderInv(p)'
  <2>1. OrderInv(p)
    OBVIOUS
  <2>2. \A u \in Types : Event(u, p) \in events' <=> Event(u, p) \in events \/ (u = t /\ p = o)
    BY <1>1, EventFields
  <2>3. p # o => orders'[p] = orders[p]
    BY <1>1 DEF TypeOK
  <2>4. p = o => orders'[p] = IF t = "order.created" THEN "pending" ELSE "cancelled"
    BY <1>1 DEF TypeOK
  <2> QED
    BY <1>1, <1>2, <2>1, <2>2, <2>3, <2>4 DEF OrderInv, Types, paymentVars, inventoryVars, kafkaVars
<1>7. StockIsConserved'
  BY <1>2, StockKept DEF inventoryVars
<1> QED
  BY <1>3, <1>4, <1>5, <1>6, <1>7

(* Payment Service settles a charge or records a cancel.                   *)
LEMMA PaymentInductive ==
  ASSUME InductiveInv, NEW o \in Orders, Settle(o) \/ RecordCancel(o)
  PROVE  InductiveInv'
<1> USE DEF InductiveInv
<1>1. /\ UNCHANGED <<orderVars, inventoryVars, kafkaVars>>
      /\ outcome' \in [Orders -> {"open", "completed", "failed", "refunded"}]
      /\ cancelled' \subseteq Orders
      /\ \A p \in Orders \ {o} : outcome'[p] = outcome[p] /\ (p \in cancelled' <=> p \in cancelled)
      /\ \/ /\ Hears("payment-service", Event("order.created", o))
            /\ outcome[o] = "open" /\ cancelled' = cancelled
            /\ \/ o \notin cancelled /\ outcome'[o] \in {"completed", "failed"}
               \/ o \in cancelled /\ outcome'[o] = "refunded"
         \/ /\ Hears("payment-service", Event("order.cancelled", o))
            /\ o \notin cancelled /\ o \in cancelled'
            /\ outcome'[o] = IF outcome[o] = "completed" THEN "refunded" ELSE outcome[o]
  BY DEF Settle, RecordCancel, TypeOK, PaymentService!Complete, PaymentService!Fail,
         PaymentService!LateRefund, PaymentService!Cancel
<1>2. TypeOK'
  BY <1>1 DEF TypeOK, orderVars, inventoryVars, kafkaVars
<1>3. topics' \cup lost' \subseteq Written' /\ topics' \cap lost' = {}
  BY <1>1, WrittenStays DEF orderVars, kafkaVars
<1>4. ASSUME NEW x \in passed' PROVE PassedInv(x)'
  <2>1. /\ x \in passed /\ x[1] \in Groups /\ x[2] \in Events /\ x[2] \in topics /\ ~Handled(x[1], x[2])
        /\ <<x[1], x[2].type>> \in Subscriptions
    BY <1>1 DEF kafkaVars, TypeOK, PassedInv
  <2>2. x = <<x[1], x[2]>>
    BY <1>1 DEF kafkaVars, TypeOK
  <2>3. CASE x[1] = "payment-service" /\ x[2].type = "order.created"
    <3>1. outcome[x[2].order] = "open" /\ x[2].order \in Orders /\ x[2] = Event("order.created", x[2].order)
      BY <2>1, <2>3, EventFields DEF Handled
    <3>2. OrderInv(o) /\ x[2].order = o => ~Hears("payment-service", Event("order.created", o))
      BY <2>1, <2>2, <2>3, <3>1 DEF Hears
    <3>3. outcome'[x[2].order] = "open"
      BY <1>1, <3>1, <3>2
    <3> QED BY <1>1, <2>1, <2>3, <3>3 DEF PassedInv, Handled, kafkaVars
  <2>4. CASE x[1] = "payment-service" /\ x[2].type = "order.cancelled"
    <3>1. x[2].order \notin cancelled /\ x[2].order \in Orders /\ x[2] = Event("order.cancelled", x[2].order)
      BY <2>1, <2>4, EventFields DEF Handled
    <3>2. x[2].order = o => ~Hears("payment-service", Event("order.cancelled", o))
      BY <2>1, <2>2, <2>4, <3>1 DEF Hears
    <3>3. x[2].order \notin cancelled'
      BY <1>1, <3>1, <3>2
    <3> QED BY <1>1, <2>1, <2>4, <3>3 DEF PassedInv, Handled, kafkaVars
  <2>5. CASE ~(x[1] = "payment-service" /\ x[2].type \in {"order.created", "order.cancelled"})
    BY <1>1, <2>1, <2>5 DEF PassedInv, Handled, inventoryVars, kafkaVars
  <2> QED BY <2>3, <2>4, <2>5
<1>5. ASSUME NEW p \in Orders PROVE OrderInv(p)'
  BY <1>1 DEF OrderInv, Hears, TypeOK, orderVars, inventoryVars, kafkaVars
<1>6. StockIsConserved'
  BY <1>1, StockKept
<1> QED
  BY <1>2, <1>3, <1>4, <1>5, <1>6

(* Inventory Service allocates or compensates.                             *)
LEMMA InventoryInductive ==
  ASSUME InductiveInv, NEW o \in Orders,
         Allocate(o) \/ \E t \in Compensations : Compensate(o, t)
  PROVE  InductiveInv'
<1> USE DEF InductiveInv
<1>1. /\ UNCHANGED <<orderVars, paymentVars, kafkaVars>>
      /\ stock' \in [Products -> Nat]
      /\ \/ /\ Hears("inventory-service", Event("order.created", o))
            /\ restocked' = restocked /\ verdict[o] = "open"
            /\ \E v \in {"deducted", "failed"} : verdict' = [verdict EXCEPT ![o] = v]
         \/ \E t \in Compensations :
              /\ Hears("inventory-service", Event(t, o))
              /\ t \notin restocked[o]
              /\ verdict' = verdict /\ restocked' = [restocked EXCEPT ![o] = @ \cup {t}]
  <2>1. /\ stock \in [Products -> Nat] /\ Product[o] \in Products /\ stock[Product[o]] \in Nat
        /\ InventoryService!Compensations = Compensations
    BY ProductAssumption DEF TypeOK, Compensations, InventoryService!Compensations
  <2>2. stock' \in [Products -> Nat]
    <3>1. CASE stock[Product[o]] > 0 /\ stock' = [stock EXCEPT ![Product[o]] = @ - 1]
      <4>1. stock[Product[o]] - 1 \in Nat
        BY <2>1, <3>1
      <4> QED BY <2>1, <3>1, <4>1
    <3>2. CASE stock' = [stock EXCEPT ![Product[o]] = @ + 1]
      BY <2>1, <3>2
    <3>3. \/ stock[Product[o]] > 0 /\ stock' = [stock EXCEPT ![Product[o]] = @ - 1]
          \/ stock' = [stock EXCEPT ![Product[o]] = @ + 1]
          \/ stock' = stock
      BY DEF Allocate, Compensate, InventoryService!Deduct, InventoryService!Refuse,
             InventoryService!Restock
    <3> QED BY <2>1, <3>1, <3>2, <3>3
  <2>3. CASE Allocate(o)
    <3>1. /\ verdict[o] = "open" /\ restocked' = restocked
          /\ verdict' = [verdict EXCEPT ![o] = "deducted"] \/ verdict' = [verdict EXCEPT ![o] = "failed"]
      BY <2>3 DEF Allocate, InventoryService!Deduct, InventoryService!Refuse
    <3> QED BY <2>2, <2>3, <3>1 DEF Allocate
  <2>4. ASSUME NEW t \in Compensations, Compensate(o, t)
        PROVE  /\ Hears("inventory-service", Event(t, o))
               /\ t \notin restocked[o]
               /\ verdict' = verdict /\ restocked' = [restocked EXCEPT ![o] = @ \cup {t}]
               /\ UNCHANGED <<orderVars, paymentVars, kafkaVars>>
    BY <2>4 DEF Compensate, InventoryService!Restock
  <2> QED
    BY <2>2, <2>3, <2>4
<1>2. TypeOK'
  BY <1>1 DEF TypeOK, orderVars, paymentVars, kafkaVars
<1>3. topics' \cup lost' \subseteq Written' /\ topics' \cap lost' = {}
  BY <1>1, WrittenStays DEF orderVars, paymentVars, kafkaVars
<1>4. ASSUME NEW x \in passed' PROVE PassedInv(x)'
  <2>1. /\ x \in passed /\ x[1] \in Groups /\ x[2] \in topics /\ ~Handled(x[1], x[2])
        /\ <<x[1], x[2].type>> \in Subscriptions
        /\ x = <<x[1], x[2]>>
    BY <1>1 DEF kafkaVars, TypeOK, PassedInv
  <2>2. x[2].order \in Orders /\ x[2].type \in Types /\ x[2] = Event(x[2].type, x[2].order)
    <3>1. x[2] \in Events
      BY <2>1 DEF TypeOK
    <3> QED BY <3>1, EventFields
  <2>3. CASE x[1] = "payment-service"
    <3>1. x[2].type \in {"order.created", "order.cancelled"}
      BY <2>1, <2>3 DEF Subscriptions
    <3> QED BY <1>1, <2>1, <2>2, <2>3, <3>1 DEF PassedInv, Handled, paymentVars, kafkaVars
  <2>4. CASE x[1] = "inventory-service"
    <3>1. ~Hears("inventory-service", x[2])
      BY <2>1, <2>4 DEF Hears
    <3>2. CASE x[2].type = "order.created"
      <4>1. verdict[x[2].order] = "open"
        BY <2>1, <2>4, <3>2 DEF Handled
      <4>2. verdict'[x[2].order] = "open"
        BY <1>1, <2>2, <3>1, <3>2, <4>1 DEF TypeOK
      <4> QED BY <1>1, <2>1, <2>4, <3>2, <4>2 DEF PassedInv, Handled, kafkaVars
    <3>3. CASE x[2].type # "order.created"
      <4>1. x[2].type \notin restocked[x[2].order]
        BY <2>1, <2>4, <3>3 DEF Handled
      <4>2. x[2].type \notin restocked'[x[2].order]
        BY <1>1, <2>2, <3>1, <3>3, <4>1 DEF TypeOK
      <4> QED BY <1>1, <2>1, <2>4, <3>3, <4>2 DEF PassedInv, Handled, kafkaVars
    <3> QED BY <3>2, <3>3
  <2> QED BY <2>1, <2>3, <2>4 DEF Groups
<1>5. ASSUME NEW p \in Orders PROVE OrderInv(p)'
  <2>1. UNCHANGED <<orders, events, outcome, cancelled, topics>> /\ OrderInv(p)
    BY <1>1 DEF orderVars, paymentVars, kafkaVars
  <2>2. verdict'[p] # "open" => Event("order.created", p) \in topics
    BY <1>1, <2>1 DEF OrderInv, Hears, TypeOK
  <2>3. \A t \in restocked'[p] : Event(t, p) \in topics
    <3>1. CASE restocked' = restocked
      BY <2>1, <3>1 DEF OrderInv
    <3>2. CASE \E t \in Compensations :
                 /\ Hears("inventory-service", Event(t, o))
                 /\ restocked' = [restocked EXCEPT ![o] = @ \cup {t}]
      <4>1. PICK t \in Compensations :
               /\ Event(t, o) \in topics
               /\ restocked' = [restocked EXCEPT ![o] = @ \cup {t}]
        BY <3>2 DEF Hears
      <4>2. /\ p = o => restocked'[p] = restocked[p] \cup {t}
            /\ p # o => restocked'[p] = restocked[p]
        BY <4>1 DEF TypeOK
      <4>3. \A u \in restocked[p] : Event(u, p) \in topics
        BY <2>1 DEF OrderInv
      <4> QED BY <4>1, <4>2, <4>3
    <3> QED BY <1>1, <3>1, <3>2
  <2> QED BY <2>1, <2>2, <2>3 DEF OrderInv
<1>6. StockIsConserved'
  BY StockMoves DEF Allocate, Compensate
<1> QED
  BY <1>2, <1>3, <1>4, <1>5, <1>6

-----------------------------------------------------------------------------
(* Every step keeps the invariant. *)
LEMMA NextInductive ==
  ASSUME InductiveInv, [Next]_vars
  PROVE  InductiveInv'
<1>1. CASE UNCHANGED vars
  <2>1. StockIsConserved'
    BY <1>1, StockKept DEF InductiveInv, vars
  <2> QED
    BY <1>1, <2>1 DEF vars, orderVars, paymentVars, inventoryVars, kafkaVars, InductiveInv, TypeOK,
                      OrderInv, Written, PassedInv, Handled
<1> QED
  BY <1>1, KafkaInductive, OrderInductive, PaymentInductive, InventoryInductive DEF Next

(* Services, events and topics fit together.                               *)
THEOREM Inductive == Spec => []InductiveInv
BY InitInductive, NextInductive, PTL DEF Spec

(* The variables keep their types; stock is never negative.                *)
THEOREM TypeCorrect == Spec => []TypeOK
<1>1. InductiveInv => TypeOK
  BY DEF InductiveInv
<1> QED BY <1>1, Inductive, PTL

(* Only a failed payment writes payment.failed.                            *)
LEMMA FailedIsWritten ==
  ASSUME InductiveInv, NEW o \in Orders, Event("payment.failed", o) \in topics
  PROVE  outcome[o] = "failed"
<1>1. Event("payment.failed", o) \in Written /\ OrderInv(o)
  BY DEF InductiveInv
<1> QED
  BY <1>1, EventFields DEF Written, OrderInv

(* Only a cancelled order writes order.cancelled.                          *)
LEMMA CancelIsWritten ==
  ASSUME InductiveInv, NEW o \in Orders, Event("order.cancelled", o) \in topics
  PROVE  orders[o] = "cancelled"
<1>1. Event("order.cancelled", o) \in Written /\ OrderInv(o)
  BY DEF InductiveInv
<1> QED
  BY <1>1, EventFields DEF Written, OrderInv

(* Only the payments of cancelled orders are refunded.                     *)
THEOREM RefundsFollowCancels == Spec => []RefundedWasCancelled
<1>1. InductiveInv => RefundedWasCancelled
  BY CancelIsWritten DEF InductiveInv, OrderInv, RefundedWasCancelled
<1> QED BY <1>1, Inductive, PTL

(* No compensation for a paid order its customer keeps.                    *)
THEOREM PaidOrdersKeepPieces == Spec => []PaidKeepsItsPiece
<1>1. InductiveInv => PaidKeepsItsPiece
  <2> SUFFICES ASSUME InductiveInv, NEW o \in Orders, outcome[o] = "completed",
                      orders[o] # "cancelled", NEW t \in restocked[o]
               PROVE  FALSE
    BY DEF PaidKeepsItsPiece
  <2>1. t \in Compensations /\ Event(t, o) \in topics
    BY DEF InductiveInv, TypeOK, OrderInv
  <2> QED BY <2>1, CancelIsWritten, FailedIsWritten DEF Compensations
<1> QED BY <1>1, Inductive, PTL

-----------------------------------------------------------------------------
(* Whatever was sold was in stock. *)

(* What was put back was deducted: pieces held are the deducted ones that  *)
(* did not come back, and no two compensations are for one order.          *)
LEMMA HeldAreTheRest ==
  ASSUME InductiveInv, NEW p \in Products,
         \A o \in Orders : Product[o] = p /\ restocked[o] # {} => Due(o)
  PROVE  Cardinality(Held(p)) = Cardinality(Deducted(p)) - Cardinality(PutBack("order.cancelled", p))
                                                         - Cardinality(PutBack("payment.failed", p))
<1> DEFINE C == PutBack("order.cancelled", p)
           F == PutBack("payment.failed", p)
<1>1. IsFiniteSet(C) /\ IsFiniteSet(F) /\ IsFiniteSet(Deducted(p)) /\ IsFiniteSet(C \cup F)
  BY Finite, Counted
<1>2. C \cap F = {}
  <2> SUFFICES ASSUME NEW o \in Orders, Product[o] = p,
                      "order.cancelled" \in restocked[o], "payment.failed" \in restocked[o]
               PROVE  FALSE
    BY DEF PutBack
  <2>1. restocked[o] = Compensations
    BY DEF InductiveInv, TypeOK, Compensations
  <2>2. Cardinality({"order.cancelled"} \cup {"payment.failed"}) = 2
    <3>1. IsFiniteSet({"order.cancelled"}) /\ Cardinality({"order.cancelled"}) = 1
      BY FS_Singleton
    <3>2. "payment.failed" \notin {"order.cancelled"}
      OBVIOUS
    <3>3. Cardinality({"order.cancelled"} \cup {"payment.failed"}) = Cardinality({"order.cancelled"}) + 1
      BY <3>1, <3>2, FS_AddElement
    <3> QED BY <3>1, <3>3
  <2>3. Cardinality(restocked[o]) = 2
    <3>1. Compensations = {"order.cancelled"} \cup {"payment.failed"}
      BY DEF Compensations
    <3> QED BY <2>1, <2>2, <3>1
  <2> QED BY <2>1, <2>3 DEF Due
<1>3. C \cup F \subseteq Deducted(p)
  BY DEF PutBack, Deducted, Due
<1>4. Held(p) = Deducted(p) \ (C \cup F)
  BY DEF Held, PutBack, Deducted, InductiveInv, TypeOK, Compensations
<1>5. Cardinality(C \cup F) = Cardinality(C) + Cardinality(F)
  <2>1. Cardinality(C \cup F) = Cardinality(C) + Cardinality(F) - Cardinality(C \cap F)
    BY <1>1, FS_Union
  <2>2. Cardinality(C \cap F) = 0
    BY <1>2, FS_EmptySet
  <2>3. Cardinality(C) \in Nat /\ Cardinality(F) \in Nat
    BY Counted
  <2> HIDE DEF C, F
  <2> QED BY <2>1, <2>2, <2>3
<1>6. Cardinality(Held(p)) = Cardinality(Deducted(p)) - Cardinality(C \cup F)
  <2>1. Cardinality(Held(p)) = Cardinality(Deducted(p)) - Cardinality(Deducted(p) \cap (C \cup F))
    BY <1>1, <1>4, FS_Difference
  <2>2. Deducted(p) \cap (C \cup F) = C \cup F
    BY <1>3
  <2> QED BY <2>1, <2>2
<1> QED BY <1>5, <1>6, Counted

(* What is left and what was deducted is what there was and what was put   *)
(* back, across all services' steps.                                       *)
THEOREM StockConserved == Spec => []StockIsConserved
<1>1. InductiveInv => StockIsConserved
  BY DEF InductiveInv
<1> QED BY <1>1, Inductive, PTL

(* A product is oversold only after an order was restocked twice or        *)
(* without having been given a piece.                                      *)
THEOREM SoldPiecesWereInStock == Spec => []SoldWasInStock
<1>1. InductiveInv => SoldWasInStock
  <2> SUFFICES ASSUME InductiveInv, NEW p \in Products,
                      \A o \in Orders : Product[o] = p /\ restocked[o] # {} => Due(o)
               PROVE  Cardinality(Held(p)) <= Stocked[p]
    BY DEF SoldWasInStock
  <2>1. /\ stock[p] \in Nat /\ Stocked[p] \in Nat
        /\ stock[p] + Cardinality(Deducted(p)) =
             Stocked[p] + Cardinality(PutBack("order.cancelled", p)) + Cardinality(PutBack("payment.failed", p))
    BY StockedAssumption DEF InductiveInv, TypeOK, StockIsConserved
  <2> QED BY <2>1, HeldAreTheRest, Counted
<1> QED BY <1>1, Inductive, PTL

-----------------------------------------------------------------------------
(* The services and the outbox each keep the promise they are composed by. *)

(* Every step writes at most one event and takes none back.                *)
LEMMA WritesOne ==
  ASSUME TypeOK, Next, UNCHANGED topics
  PROVE  Written' = Written \/ \E e \in Events : Written' = Written \cup {e}
<1>1. CASE \E o \in Orders : CreateOrder(o) \/ CancelOrder(o)
  <2>1. PICK o \in Orders, t \in {"order.created", "order.cancelled"} :
          events' = events \cup {Event(t, o)} /\ outcome' = outcome
    BY <1>1, SameNames DEF CreateOrder, CancelOrder, OrderService!Create, OrderService!Cancel, paymentVars
  <2>2. Event(t, o) \in Events
    BY EventFields DEF Types
  <2>3. Written' = Written \cup {Event(t, o)}
    BY <2>1 DEF Written
  <2> QED BY <2>2, <2>3
<1>2. CASE \E o \in Orders : Settle(o) \/ RecordCancel(o)
  <2>1. PICK o \in Orders :
          /\ events' = events
          /\ \A q \in Orders \ {o} : outcome'[q] = outcome[q]
          /\ outcome'[o] # outcome[o] => outcome[o] # "failed"
    BY <1>2 DEF Settle, RecordCancel, TypeOK, orderVars, PaymentService!Complete, PaymentService!Fail,
                PaymentService!LateRefund, PaymentService!Cancel
  <2>2. CASE outcome[o] # "failed" /\ outcome'[o] = "failed"
    <3>1. Event("payment.failed", o) \in Events
      BY EventFields DEF Types
    <3>2. {q \in Orders : outcome'[q] = "failed"} = {q \in Orders : outcome[q] = "failed"} \cup {o}
      BY <2>1, <2>2
    <3>3. Written' = Written \cup {Event("payment.failed", o)}
      BY <2>1, <3>2 DEF Written
    <3> QED BY <3>1, <3>3
  <2>3. CASE ~(outcome[o] # "failed" /\ outcome'[o] = "failed")
    <3>1. {q \in Orders : outcome'[q] = "failed"} = {q \in Orders : outcome[q] = "failed"}
      BY <2>1, <2>3
    <3> QED BY <2>1, <3>1 DEF Written
  <2> QED BY <2>2, <2>3
<1>3. CASE UNCHANGED <<orderVars, paymentVars>>
  BY <1>3 DEF Written, orderVars, paymentVars
<1> QED
  BY <1>1, <1>2, <1>3 DEF Next, Allocate, Compensate, Publish, Lose, PassOver

(* Seen through its own variables, each service does what its lifecycle    *)
(* allows: the events that join the services do not let one change another.*)
LEMMA StepOfServices ==
  ASSUME [Next]_vars
  PROVE  /\ [OrderService!Next]_(OrderService!vars)
         /\ [PaymentService!Next]_(PaymentService!vars)
         /\ [InventoryService!Next]_(InventoryService!vars)
<1>1. CASE UNCHANGED vars
  BY <1>1 DEF vars, orderVars, paymentVars, inventoryVars, OrderService!vars, PaymentService!vars,
              InventoryService!vars
<1>2. CASE \E o \in Orders : CreateOrder(o) \/ CancelOrder(o)
  BY <1>2 DEF CreateOrder, CancelOrder, OrderService!Next, paymentVars, inventoryVars,
              PaymentService!vars, InventoryService!vars
<1>3. CASE \E o \in Orders : Settle(o) \/ RecordCancel(o)
  BY <1>3 DEF Settle, RecordCancel, PaymentService!Next, orderVars, inventoryVars,
              OrderService!vars, InventoryService!vars
<1>4. CASE \E o \in Orders : Allocate(o) \/ \E t \in Compensations : Compensate(o, t)
  <2>1. [InventoryService!Next]_(InventoryService!vars)
    BY <1>4 DEF Allocate, Compensate, InventoryService!Next, Compensations, InventoryService!Compensations
  <2>2. UNCHANGED <<orderVars, paymentVars>>
    BY <1>4 DEF Allocate, Compensate
  <2> QED BY <2>1, <2>2 DEF orderVars, paymentVars, OrderService!vars, PaymentService!vars
<1>5. CASE \E e \in Events : Publish(e) \/ Lose(e) \/ \E g \in Groups : PassOver(g, e)
  BY <1>5 DEF Publish, Lose, PassOver, orderVars, paymentVars, inventoryVars, OrderService!vars,
              PaymentService!vars, InventoryService!vars
<1> QED BY <1>1, <1>2, <1>3, <1>4, <1>5 DEF Next

(* A step of the three services is a step of the channel between them.     *)
LEMMA StepOfOutbox ==
  ASSUME InductiveInv, [Next]_vars
  PROVE  [Outbox!Next]_(Outbox!vars)
<1>1. CASE UNCHANGED vars
  BY <1>1 DEF vars, orderVars, paymentVars, kafkaVars, Written, Outbox!vars
<1>2. CASE Next /\ UNCHANGED topics
  <2>1. Written' = Written \/ \E e \in Events : Written' = Written \cup {e}
    BY <1>2, WritesOne DEF InductiveInv
  <2>2. CASE Written' = Written
    BY <1>2, <2>2 DEF Outbox!vars
  <2>3. CASE \E e \in Events : e \notin Written /\ Written' = Written \cup {e}
    BY <1>2, <2>3 DEF Outbox!Next, Outbox!Insert
  <2> QED BY <2>1, <2>2, <2>3
<1>3. CASE \E e \in Events : Publish(e)
  BY <1>3 DEF Publish, Outbox!Next
<1>4. Next => UNCHANGED topics \/ \E e \in Events : Publish(e)
  BY DEF Next, CreateOrder, CancelOrder, Settle, RecordCancel, Allocate, Compensate, Lose, PassOver, kafkaVars
<1> QED BY <1>1, <1>2, <1>3, <1>4

(* The three services together keep the promises of each alone, and what   *)
(* they write goes to Kafka the way one outbox would take it: no event is  *)
(* seen before it is written, none is written twice or taken back, whoever *)
(* writes it.                                                              *)
THEOREM PartsKeepTheirPromises ==
  Spec => OrderService!Spec /\ PaymentService!Spec /\ InventoryService!Spec /\ Outbox!Spec
<1>1. Init => OrderService!Init /\ PaymentService!Init /\ InventoryService!Init /\ Outbox!Init
  BY DEF Init, OrderService!Init, PaymentService!Init, InventoryService!Init, Outbox!Init, Written
<1>2. [Next]_vars => /\ [OrderService!Next]_(OrderService!vars)
                     /\ [PaymentService!Next]_(PaymentService!vars)
                     /\ [InventoryService!Next]_(InventoryService!vars)
  BY StepOfServices
<1>3. InductiveInv /\ [Next]_vars => [Outbox!Next]_(Outbox!vars)
  BY StepOfOutbox
<1> QED
  BY <1>1, <1>2, <1>3, Inductive, PTL
     DEF Spec, OrderService!Spec, PaymentService!Spec, InventoryService!Spec, Outbox!Spec

-----------------------------------------------------------------------------
(* Where the system comes to rest, it is consistent: the part of the two   *)
(* liveness properties that is no matter of fairness.                      *)

(* All that is written has arrived or is lost, and no consumer has a       *)
(* cancel or a failed payment left to handle.                              *)
Quiet ==
  /\ Written \subseteq topics \cup lost
  /\ \A o \in Orders, t \in Compensations, g \in Groups :
       Hears(g, Event(t, o)) => Handled(g, Event(t, o))

(* Then a cancelled order has no completed payment, unless its cancel was  *)
(* lost or passed over, and an order that is cancelled or whose payment    *)
(* failed has no piece, unless every message that says so was.             *)
QuietIsConsistent ==
  Quiet =>
    \A o \in Orders :
      /\ orders[o] = "cancelled" =>
           \/ o \in cancelled /\ outcome[o] # "completed"
           \/ Missed("payment-service", "order.cancelled", o)
      /\ verdict[o] = "deducted" /\ Reasons(o) # {} =>
           \/ restocked[o] # {}
           \/ \A t \in Reasons(o) : Missed("inventory-service", t, o)

(* No cancel and no failed payment is forgotten by the services themselves:*)
(* only a message lost or passed over leaves them inconsistent for good.   *)
THEOREM RestIsConsistent == Spec => []QuietIsConsistent
<1>1. InductiveInv => QuietIsConsistent
  <2> SUFFICES ASSUME InductiveInv, Quiet, NEW o \in Orders
               PROVE  /\ orders[o] = "cancelled" =>
                           \/ o \in cancelled /\ outcome[o] # "completed"
                           \/ Missed("payment-service", "order.cancelled", o)
                      /\ \A t \in Reasons(o) : t \in restocked[o] \/ Missed("inventory-service", t, o)
    BY DEF QuietIsConsistent
  <2>1. OrderInv(o)
    BY DEF InductiveInv
  <2>2. \A t \in Reasons(o) : t \in Compensations /\ Event(t, o) \in topics \cup lost
    BY <2>1 DEF OrderInv, Quiet, Written, Reasons, Compensations
  <2>3. ASSUME NEW g \in Groups, NEW t \in Reasons(o), <<g, t>> \in Subscriptions
        PROVE  Handled(g, Event(t, o)) \/ Missed(g, t, o)
    BY <2>2, <2>3, EventFields DEF Quiet, Hears, Missed
  <2>4. /\ Handled("payment-service", Event("order.cancelled", o)) => o \in cancelled
        /\ \A t \in Compensations : Handled("inventory-service", Event(t, o)) => t \in restocked[o]
    BY EventFields DEF Handled, Compensations
  <2>5. orders[o] = "cancelled" =>
          \/ o \in cancelled /\ outcome[o] # "completed"
          \/ Missed("payment-service", "order.cancelled", o)
    <3>1. orders[o] = "cancelled" => "order.cancelled" \in Reasons(o)
      BY DEF Reasons, Compensations
    <3> QED BY <2>1, <2>3, <2>4, <3>1 DEF OrderInv, Groups, Subscriptions
  <2>6. \A t \in Reasons(o) : t \in restocked[o] \/ Missed("inventory-service", t, o)
    BY <2>2, <2>3, <2>4 DEF Groups, Compensations, Subscriptions
  <2> QED BY <2>5, <2>6
<1> QED BY <1>1, Inductive, PTL
=============================================================================
