----------------------- MODULE InventoryServiceProofs -----------------------
(***************************************************************************)
(* Machine-checked proofs about InventoryService, for every finite set of  *)
(* orders, every stock and every number of workers.                        *)
(***************************************************************************)
EXTENDS InventoryService, FiniteSetTheorems, TLAPS

(* A delivery is what its two fields say.                                  *)
LEMMA MessageIsItsFields ==
  ASSUME NEW m \in Messages
  PROVE  m = Msg(m.type, m.order) /\ m.type \in Topics /\ m.order \in Orders
BY DEF Messages, Msg

(* Sets of orders are finite, and so are sets of compensations.            *)
LEMMA Finite ==
  /\ \A S \in SUBSET Orders : IsFiniteSet(S) /\ Cardinality(S) \in Nat
  /\ \A S \in SUBSET Compensations : IsFiniteSet(S) /\ Cardinality(S) \in Nat
<1>1. IsFiniteSet(Compensations)
  <2>1. IsFiniteSet({"order.cancelled"})
    BY FS_Singleton
  <2>2. IsFiniteSet({"order.cancelled"} \cup {"payment.failed"})
    BY <2>1, FS_AddElement
  <2>3. Compensations = {"order.cancelled"} \cup {"payment.failed"}
    BY DEF Compensations
  <2> QED BY <2>2, <2>3
<1> QED
  BY <1>1, OrdersAssumption, FS_Subset, FS_CardinalityType

(* One element more.                                                       *)
LEMMA OneMore ==
  ASSUME NEW S, NEW x, IsFiniteSet(S), x \notin S
  PROVE  Cardinality(S \cup {x}) = Cardinality(S) + 1
BY FS_AddElement

-----------------------------------------------------------------------------
(* A step that leaves the tables alone keeps what is said of them.         *)
LEMMA TablesKept ==
  ASSUME StockIsConserved, EachMessageAnnouncedOnce, UNCHANGED tables
  PROVE  StockIsConserved' /\ EachMessageAnnouncedOnce'
BY DEF tables, StockIsConserved, EachMessageAnnouncedOnce, Deducted, HasBeen, Announced, Restocked

(* What a commit changes: one message, one event, at most one piece.       *)
LEMMA CommitFacts ==
  ASSUME InductiveInv, NEW w \in Workers, Commit(w)
  PROVE  /\ msg[w] \in Messages /\ msg[w] \notin processed
         /\ Order(w) \in Orders /\ ProductOf(w) \in Products
         /\ processed' = processed \cup {msg[w]}
         /\ \A t \in OutTypes, x \in Orders :
              Announced(t, x)' = Announced(t, x) + IF t = draft[w] /\ x = Order(w) THEN 1 ELSE 0
         /\ \/ /\ draft[w] = "inventory.deducted" /\ msg[w].type = "order.created"
               /\ stock[ProductOf(w)] > 0
               /\ stock' = [stock EXCEPT ![ProductOf(w)] = @ - 1]
            \/ /\ draft[w] = "inventory.failed" /\ msg[w].type = "order.created"
               /\ stock' = stock
            \/ /\ draft[w] = "inventory.restocked" /\ msg[w].type \in Compensations
               /\ stock' = [stock EXCEPT ![ProductOf(w)] = @ + 1]
<1>1. WorkerInv(w) /\ pc[w] = "commit" /\ TypeOK
  BY DEF InductiveInv, Commit
<1>2. msg[w] \in Messages /\ msg[w] \notin processed
  BY <1>1 DEF WorkerInv, Marked
<1>3. Order(w) \in Orders /\ ProductOf(w) \in Products
  BY <1>2, MessageIsItsFields, ProductAssumption DEF Order, ProductOf
<1>4. ASSUME NEW t \in OutTypes, NEW x \in Orders
      PROVE  Announced(t, x)' = Announced(t, x) + IF t = draft[w] /\ x = Order(w) THEN 1 ELSE 0
  <2>1. outbox' = [outbox EXCEPT ![Msg(draft[w], Order(w))] = @ + 1]
    BY DEF Commit
  <2>2. Msg(t, x) \in OutEvents /\ outbox[Msg(t, x)] \in Nat
    BY <1>1 DEF Msg, OutEvents, TypeOK
  <2>3. Msg(t, x) = Msg(draft[w], Order(w)) <=> t = draft[w] /\ x = Order(w)
    BY DEF Msg
  <2>4. outbox'[Msg(t, x)] = outbox[Msg(t, x)] + IF t = draft[w] /\ x = Order(w) THEN 1 ELSE 0
    BY <1>1, <2>1, <2>2, <2>3 DEF TypeOK
  <2> QED BY <2>4 DEF Announced
<1>5. processed' = processed \cup {msg[w]}
  BY DEF Commit
<1>6. \/ /\ draft[w] = "inventory.deducted" /\ msg[w].type = "order.created"
         /\ stock[ProductOf(w)] > 0
         /\ stock' = [stock EXCEPT ![ProductOf(w)] = @ - 1]
      \/ /\ draft[w] = "inventory.failed" /\ msg[w].type = "order.created"
         /\ stock' = stock
      \/ /\ draft[w] = "inventory.restocked" /\ msg[w].type \in Compensations
         /\ stock' = [stock EXCEPT ![ProductOf(w)] = @ + 1]
  BY <1>1 DEF Commit, WorkerInv
<1> QED
  BY <1>2, <1>3, <1>4, <1>5, <1>6

(* The types survive a commit: what is deducted was there.                 *)
LEMMA CommitTypeOK ==
  ASSUME InductiveInv, NEW w \in Workers, Commit(w)
  PROVE  TypeOK'
<1>1. TypeOK
  BY DEF InductiveInv
<1>2. stock' \in [Products -> Nat]
  <2>1. stock \in [Products -> Nat]
    BY <1>1 DEF TypeOK
  <2>2. ProductOf(w) \in Products /\ stock[ProductOf(w)] \in Nat
    BY <2>1, CommitFacts
  <2>3. CASE stock[ProductOf(w)] > 0 /\ stock' = [stock EXCEPT ![ProductOf(w)] = @ - 1]
    <3>1. stock[ProductOf(w)] - 1 \in Nat
      BY <2>2, <2>3
    <3> QED BY <2>1, <2>2, <2>3, <3>1
  <2>4. CASE stock' = [stock EXCEPT ![ProductOf(w)] = @ + 1]
    BY <2>1, <2>2, <2>4
  <2> QED BY <2>1, <2>3, <2>4, CommitFacts
<1>3. processed' \subseteq Messages
  BY <1>1, CommitFacts DEF TypeOK
<1>4. outbox' \in [OutEvents -> Nat]
  <2>1. outbox' = [outbox EXCEPT ![Msg(draft[w], Order(w))] = @ + 1] /\ outbox \in [OutEvents -> Nat]
    BY <1>1 DEF Commit, TypeOK
  <2>2. outbox' = [x \in OutEvents |-> IF x = Msg(draft[w], Order(w)) THEN outbox[x] + 1 ELSE outbox[x]]
    BY <2>1
  <2>3. \A x \in OutEvents : outbox[x] \in Nat
    BY <2>1
  <2> QED BY <2>2, <2>3
<1>5. /\ pc' \in [Workers -> Steps]
      /\ msg' \in [Workers -> Messages \cup {NoMessage}]
      /\ draft' \in [Workers -> OutTypes \cup {"none"}]
      /\ rowLock' \in [Products -> Workers \cup {NoWorker}]
      /\ compensate' = compensate
  BY <1>1 DEF Commit, EndTx, Goto, TypeOK, Steps
<1> QED
  BY <1>1, <1>2, <1>3, <1>4, <1>5 DEF TypeOK

(* The step of a commit in the count of stock.                             *)
LEMMA CommitConserves ==
  ASSUME InductiveInv, NEW w \in Workers, Commit(w)
  PROVE  StockIsConserved'
<1> DEFINE o == Order(w)
           p == ProductOf(w)
<1>0. /\ TypeOK /\ StockIsConserved /\ EachMessageAnnouncedOnce
      /\ o \in Orders /\ p \in Products /\ p = Product[o]
      /\ msg[w] = Msg(msg[w].type, o)
  BY CommitFacts, MessageIsItsFields DEF InductiveInv, ProductOf, Order
<1> SUFFICES ASSUME NEW q \in Products
             PROVE  stock'[q] + Cardinality(Deducted(q)') =
                      Stocked[q] + Cardinality(HasBeen("order.cancelled", q)')
                                 + Cardinality(HasBeen("payment.failed", q)')
  BY DEF StockIsConserved
<1>1. /\ stock[q] + Cardinality(Deducted(q)) =
            Stocked[q] + Cardinality(HasBeen("order.cancelled", q))
                       + Cardinality(HasBeen("payment.failed", q))
      /\ stock[q] \in Nat /\ Stocked[q] \in Nat
  BY <1>0, StockedAssumption DEF StockIsConserved, TypeOK
<1>2. /\ IsFiniteSet(Deducted(q)) /\ Cardinality(Deducted(q)) \in Nat
      /\ \A t : IsFiniteSet(HasBeen(t, q)) /\ Cardinality(HasBeen(t, q)) \in Nat
  BY Finite DEF Deducted, HasBeen
<1>3. \A t : HasBeen(t, q)' = IF t = msg[w].type /\ q = p THEN HasBeen(t, q) \cup {o} ELSE HasBeen(t, q)
  <2> SUFFICES ASSUME NEW t, NEW x \in Orders, Product[x] = q
               PROVE  Msg(t, x) \in processed' <=>
                        Msg(t, x) \in processed \/ (t = msg[w].type /\ q = p /\ x = o)
    BY <1>0 DEF HasBeen
  <2>1. Msg(t, x) = Msg(msg[w].type, o) <=> t = msg[w].type /\ x = o
    BY DEF Msg
  <2> QED BY <1>0, <2>1, CommitFacts
<1>4. \A t : t = msg[w].type => o \notin HasBeen(t, q)
  BY <1>0, CommitFacts DEF HasBeen
<1>5. Deducted(q)' = IF draft[w] = "inventory.deducted" /\ q = p THEN Deducted(q) \cup {o} ELSE Deducted(q)
  <2> SUFFICES ASSUME NEW x \in Orders, Product[x] = q
               PROVE  Announced("inventory.deducted", x)' > 0 <=>
                        \/ Announced("inventory.deducted", x) > 0
                        \/ draft[w] = "inventory.deducted" /\ q = p /\ x = o
    BY <1>0 DEF Deducted
  <2>1. Announced("inventory.deducted", x) \in Nat
    BY <1>0 DEF TypeOK, Announced, OutEvents, OutTypes, Msg
  <2>2. Announced("inventory.deducted", x)' = Announced("inventory.deducted", x)
          + IF draft[w] = "inventory.deducted" /\ x = o THEN 1 ELSE 0
    BY CommitFacts DEF OutTypes
  <2>3. x = o => q = p
    BY <1>0
  <2> QED BY <2>1, <2>2, <2>3
<1>6. msg[w].type = "order.created" => o \notin Deducted(q)
  <2> SUFFICES ASSUME msg[w].type = "order.created"
               PROVE  ~(Announced("inventory.deducted", o) > 0)
    BY DEF Deducted
  <2>1. Msg("order.created", o) \notin processed
    BY <1>0, CommitFacts
  <2>2. Announced("inventory.deducted", o) + Announced("inventory.failed", o) = 0
    BY <1>0, <2>1 DEF EachMessageAnnouncedOnce
  <2>3. Announced("inventory.deducted", o) \in Nat /\ Announced("inventory.failed", o) \in Nat
    BY <1>0 DEF TypeOK, Announced, OutEvents, OutTypes, Msg
  <2> QED BY <2>2, <2>3
<1>7. CASE q # p
  <2>1. stock'[q] = stock[q]
    BY <1>0, <1>7, CommitFacts DEF TypeOK
  <2> QED BY <1>1, <1>3, <1>5, <1>7, <2>1
<1>8. CASE q = p
  <2>1. CASE draft[w] = "inventory.deducted"
    <3>1. msg[w].type = "order.created" /\ stock'[q] = stock[q] - 1
      BY <1>0, <1>8, <2>1, CommitFacts DEF TypeOK
    <3>2. Cardinality(Deducted(q)') = Cardinality(Deducted(q)) + 1
      BY <1>2, <1>5, <1>6, <1>8, <2>1, <3>1, OneMore
    <3>3. HasBeen("order.cancelled", q)' = HasBeen("order.cancelled", q)
          /\ HasBeen("payment.failed", q)' = HasBeen("payment.failed", q)
      BY <1>3, <3>1
    <3> QED BY <1>1, <1>2, <3>1, <3>2, <3>3
  <2>2. CASE draft[w] = "inventory.failed"
    <3>1. msg[w].type = "order.created" /\ stock'[q] = stock[q]
      BY <2>2, CommitFacts
    <3>2. HasBeen("order.cancelled", q)' = HasBeen("order.cancelled", q)
          /\ HasBeen("payment.failed", q)' = HasBeen("payment.failed", q)
      BY <1>3, <3>1
    <3> QED BY <1>1, <1>5, <2>2, <3>1, <3>2
  <2>3. CASE draft[w] = "inventory.restocked"
    <3>1. msg[w].type \in Compensations /\ stock'[q] = stock[q] + 1
      BY <1>0, <1>8, <2>3, CommitFacts DEF TypeOK
    <3>2. Deducted(q)' = Deducted(q)
      BY <1>5, <2>3
    <3>3. \A t : t = msg[w].type => Cardinality(HasBeen(t, q)') = Cardinality(HasBeen(t, q)) + 1
      BY <1>2, <1>3, <1>4, <1>8, OneMore
    <3>4. \A t : t # msg[w].type => HasBeen(t, q)' = HasBeen(t, q)
      BY <1>3
    <3>5. CASE msg[w].type = "order.cancelled"
      <4>1. Cardinality(HasBeen("order.cancelled", q)') = Cardinality(HasBeen("order.cancelled", q)) + 1
        BY <3>3, <3>5
      <4>2. HasBeen("payment.failed", q)' = HasBeen("payment.failed", q)
        BY <3>4, <3>5
      <4> QED BY <1>1, <1>2, <3>1, <3>2, <4>1, <4>2
    <3>6. CASE msg[w].type = "payment.failed"
      <4>1. Cardinality(HasBeen("payment.failed", q)') = Cardinality(HasBeen("payment.failed", q)) + 1
        BY <3>3, <3>6
      <4>2. HasBeen("order.cancelled", q)' = HasBeen("order.cancelled", q)
        BY <3>4, <3>6
      <4> QED BY <1>1, <1>2, <3>1, <3>2, <4>1, <4>2
    <3> QED BY <3>1, <3>5, <3>6 DEF Compensations
  <2> QED BY <2>1, <2>2, <2>3, CommitFacts
<1> QED
  BY <1>7, <1>8

(* How a commit changes what an order has been told and restocked for.     *)
LEMMA CommitAnnounces ==
  ASSUME InductiveInv, NEW w \in Workers, Commit(w), NEW x \in Orders
  PROVE  /\ Restocked(x)' = IF x = Order(w) THEN Restocked(x) \cup ({msg[w].type} \cap Compensations)
                            ELSE Restocked(x)
         /\ x = Order(w) => msg[w].type \notin Restocked(x)
         /\ Msg("order.created", x) \in processed' <=>
              Msg("order.created", x) \in processed \/ (x = Order(w) /\ msg[w].type = "order.created")
         /\ x = Order(w) /\ msg[w].type = "order.created" => Msg("order.created", x) \notin processed
<1>1. /\ msg[w] = Msg(msg[w].type, Order(w)) /\ msg[w] \notin processed
      /\ processed' = processed \cup {msg[w]}
  BY CommitFacts, MessageIsItsFields DEF Order
<1>2. \A t : Msg(t, x) = msg[w] <=> t = msg[w].type /\ x = Order(w)
  BY <1>1 DEF Msg
<1> QED
  BY <1>1, <1>2 DEF Restocked

(* A commit announces the message it marks, and nothing else.              *)
LEMMA CommitAnnouncesOnce ==
  ASSUME InductiveInv, NEW w \in Workers, Commit(w)
  PROVE  EachMessageAnnouncedOnce'
<1> SUFFICES ASSUME NEW x \in Orders
             PROVE  /\ Announced("inventory.deducted", x)' + Announced("inventory.failed", x)'
                         = IF Msg("order.created", x) \in processed' THEN 1 ELSE 0
                    /\ Announced("inventory.restocked", x)' = Cardinality(Restocked(x)')
  BY DEF EachMessageAnnouncedOnce, Msg
<1>1. /\ Announced("inventory.deducted", x) + Announced("inventory.failed", x)
           = IF Msg("order.created", x) \in processed THEN 1 ELSE 0
      /\ Announced("inventory.restocked", x) = Cardinality(Restocked(x))
  BY DEF InductiveInv, EachMessageAnnouncedOnce
<1>2. \A t \in OutTypes : Announced(t, x) \in Nat
  BY DEF InductiveInv, TypeOK, Announced, OutEvents, Msg
<1>3. IsFiniteSet(Restocked(x)) /\ Cardinality(Restocked(x)) \in Nat
  BY Finite DEF Restocked
<1>4. \A t \in OutTypes :
        Announced(t, x)' = Announced(t, x) + IF t = draft[w] /\ x = Order(w) THEN 1 ELSE 0
  BY CommitFacts
<1>5. CASE x # Order(w)
  BY <1>1, <1>2, <1>4, <1>5, CommitAnnounces DEF OutTypes
<1>6. CASE x = Order(w) /\ draft[w] = "inventory.restocked"
  <2>1. msg[w].type \in Compensations
    BY <1>6, CommitFacts
  <2>2. Restocked(x)' = Restocked(x) \cup {msg[w].type} /\ msg[w].type \notin Restocked(x)
    BY <1>6, <2>1, CommitAnnounces
  <2>3. Cardinality(Restocked(x)') = Cardinality(Restocked(x)) + 1
    BY <1>3, <2>2, OneMore
  <2>4. Msg("order.created", x) \in processed' <=> Msg("order.created", x) \in processed
    BY <2>1, CommitAnnounces DEF Compensations
  <2> QED BY <1>1, <1>2, <1>3, <1>4, <1>6, <2>3, <2>4 DEF OutTypes
<1>7. CASE x = Order(w) /\ draft[w] \in {"inventory.deducted", "inventory.failed"}
  <2>1. msg[w].type = "order.created"
    BY <1>7, CommitFacts
  <2>2. Restocked(x)' = Restocked(x)
    BY <1>7, <2>1, CommitAnnounces DEF Compensations
  <2>3. Msg("order.created", x) \in processed' /\ Msg("order.created", x) \notin processed
    BY <1>7, <2>1, CommitAnnounces
  <2> QED BY <1>1, <1>2, <1>4, <1>7, <2>2, <2>3 DEF OutTypes
<1> QED
  BY <1>5, <1>6, <1>7, CommitFacts

(* The other transactions are not disturbed by a commit: their keys are    *)
(* other keys, and the product they have locked is another product.        *)
LEMMA CommitWorkers ==
  ASSUME InductiveInv, NEW w \in Workers, Commit(w)
  PROVE  (\A v \in Workers : WorkerInv(v)') /\ KeysAreHeldOnce'
<1>1. TypeOK /\ WorkerInv(w) /\ KeysAreHeldOnce /\ pc[w] = "commit" /\ EndTx(w)
  BY DEF InductiveInv, Commit
<1>2. pc'[w] = "idle"
  BY <1>1 DEF EndTx, Goto, TypeOK
<1>3. ASSUME NEW v \in Workers, v # w
      PROVE  WorkerInv(v)'
  <2>1. WorkerInv(v)
    BY DEF InductiveInv
  <2>2. pc'[v] = pc[v] /\ msg'[v] = msg[v] /\ draft'[v] = draft[v]
    BY <1>1, <1>3 DEF EndTx, Goto, TypeOK
  <2>3. Marked(v) => msg[v] # msg[w]
    BY <1>1, <1>3 DEF KeysAreHeldOnce, Marked
  <2>4. (Marked(v) => msg[v] \notin processed)'
    BY <2>1, <2>2, <2>3, CommitFacts DEF WorkerInv, Marked
  <2>5. ProductOf(v)' = ProductOf(v)
    BY <2>2 DEF ProductOf, Order
  <2>6. ASSUME pc[v] = "commit", rowLock[ProductOf(v)] = v
        PROVE  rowLock'[ProductOf(v)] = v /\ stock'[ProductOf(v)] = stock[ProductOf(v)]
    <3>1. ProductOf(v) \in Products
      BY <2>1, <2>6, MessageIsItsFields, ProductAssumption DEF WorkerInv, ProductOf, Order
    <3>2. draft[w] # "inventory.failed" => rowLock[ProductOf(w)] = w
      BY <1>1 DEF WorkerInv
    <3>3. stock'[ProductOf(v)] = stock[ProductOf(v)]
      BY <1>1, <1>3, <2>6, <3>1, <3>2, CommitFacts DEF TypeOK
    <3>4. rowLock'[ProductOf(v)] = v
      BY <1>1, <1>3, <2>6, <3>1 DEF EndTx
    <3> QED BY <3>3, <3>4
  <2> QED BY <2>1, <2>2, <2>4, <2>5, <2>6 DEF WorkerInv
<1>4. WorkerInv(w)'
  BY <1>2 DEF WorkerInv, Marked
<1>5. KeysAreHeldOnce'
  <2> SUFFICES ASSUME NEW u \in Workers, NEW v \in Workers, Marked(u)', Marked(v)', msg'[u] = msg'[v]
               PROVE  u = v
    BY DEF KeysAreHeldOnce
  <2>1. u # w /\ v # w
    BY <1>2 DEF Marked
  <2> QED BY <1>1, <2>1 DEF KeysAreHeldOnce, Marked, EndTx, Goto, TypeOK
<1> QED
  BY <1>3, <1>4, <1>5

-----------------------------------------------------------------------------
(* Initially nothing is handled and the stock is complete.                 *)
LEMMA InitInductive == Init => InductiveInv
<1> SUFFICES ASSUME Init PROVE InductiveInv
  OBVIOUS
<1> USE DEF Init
<1>1. TypeOK
  BY StockedAssumption DEF TypeOK, Steps
<1>2. (\A w \in Workers : WorkerInv(w)) /\ KeysAreHeldOnce
  BY DEF WorkerInv, KeysAreHeldOnce, Marked
<1>3. ASSUME NEW t \in OutTypes, NEW o \in Orders PROVE Announced(t, o) = 0
  BY DEF Announced, Msg, OutEvents
<1>4. StockIsConserved
  <2>1. \A p \in Products : Deducted(p) = {} /\ \A t : HasBeen(t, p) = {}
    BY <1>3 DEF Deducted, HasBeen, OutTypes
  <2> QED BY <2>1, FS_EmptySet, StockedAssumption DEF StockIsConserved
<1>5. EachMessageAnnouncedOnce
  BY <1>3, FS_EmptySet DEF EachMessageAnnouncedOnce, Restocked, OutTypes
<1> QED
  BY <1>1, <1>2, <1>4, <1>5 DEF InductiveInv

(* Every step keeps the invariant. *)
LEMMA NextInductive ==
  ASSUME InductiveInv, [Next]_vars
  PROVE  InductiveInv'
<1>0. TypeOK /\ (\A w \in Workers : WorkerInv(w)) /\ KeysAreHeldOnce
      /\ StockIsConserved /\ EachMessageAnnouncedOnce
  BY DEF InductiveInv
<1>1. CASE UNCHANGED vars
  <2>1. StockIsConserved' /\ EachMessageAnnouncedOnce'
    BY <1>0, <1>1, TablesKept DEF vars
  <2> QED
    BY <1>0, <1>1, <2>1 DEF vars, tables, InductiveInv, TypeOK, WorkerInv, KeysAreHeldOnce, Marked,
                            ProductOf, Order
<1>2. ASSUME NEW t \in Compensations, NEW o \in Orders, PublishCompensation(t, o)
      PROVE  InductiveInv'
  <2>1. StockIsConserved' /\ EachMessageAnnouncedOnce'
    BY <1>0, <1>2, TablesKept DEF PublishCompensation
  <2>2. TypeOK'
    BY <1>0, <1>2 DEF PublishCompensation, TypeOK, tables, Msg
  <2> QED
    BY <1>0, <1>2, <2>1, <2>2 DEF PublishCompensation, tables, InductiveInv, WorkerInv,
                                  KeysAreHeldOnce, Marked, ProductOf, Order
<1>3. ASSUME NEW w \in Workers, NEW m \in Messages, Deliver(w, m)
      PROVE  InductiveInv'
  <2>1. StockIsConserved' /\ EachMessageAnnouncedOnce'
    BY <1>0, <1>3, TablesKept DEF Deliver
  <2>2. TypeOK'
    BY <1>0, <1>3 DEF Deliver, Goto, TypeOK, tables, Steps
  <2>3. ASSUME NEW v \in Workers PROVE WorkerInv(v)'
    BY <1>0, <1>3 DEF Deliver, Goto, TypeOK, tables, WorkerInv, Marked, ProductOf, Order
  <2>4. KeysAreHeldOnce'
    BY <1>0, <1>3 DEF Deliver, Goto, TypeOK, KeysAreHeldOnce, Marked
  <2> QED BY <2>1, <2>2, <2>3, <2>4 DEF InductiveInv
<1>4. ASSUME NEW w \in Workers, MarkProcessed(w)
      PROVE  InductiveInv'
  <2>1. StockIsConserved' /\ EachMessageAnnouncedOnce'
    BY <1>0, <1>4, TablesKept DEF MarkProcessed
  <2>2. TypeOK'
    BY <1>0, <1>4 DEF MarkProcessed, Goto, TypeOK, tables, Steps
  <2>3. ASSUME NEW v \in Workers PROVE WorkerInv(v)'
    BY <1>0, <1>4 DEF MarkProcessed, Goto, TypeOK, tables, WorkerInv, Marked, ProductOf, Order
  <2>4. KeysAreHeldOnce'
    BY <1>0, <1>4 DEF MarkProcessed, KeyBusy, Goto, TypeOK, KeysAreHeldOnce, Marked
  <2> QED BY <2>1, <2>2, <2>3, <2>4 DEF InductiveInv
<1>5. ASSUME NEW w \in Workers, AlreadyProcessed(w) \/ Abort(w)
      PROVE  InductiveInv'
  <2>0. EndTx(w) /\ UNCHANGED <<compensate, tables>>
    BY <1>5 DEF AlreadyProcessed, Abort
  <2>1. StockIsConserved' /\ EachMessageAnnouncedOnce'
    BY <1>0, <2>0, TablesKept
  <2>2. TypeOK'
    BY <1>0, <2>0 DEF EndTx, Goto, TypeOK, tables, Steps
  <2>3. ASSUME NEW v \in Workers PROVE WorkerInv(v)'
    <3>1. CASE v = w
      BY <1>0, <2>0, <3>1 DEF EndTx, Goto, TypeOK, WorkerInv, Marked
    <3>2. CASE v # w
      <4>1. WorkerInv(v) /\ pc'[v] = pc[v] /\ msg'[v] = msg[v] /\ draft'[v] = draft[v]
        BY <1>0, <2>0, <3>2 DEF EndTx, Goto, TypeOK
      <4>2. pc[v] = "commit" => ProductOf(v) \in Products /\ ProductOf(v)' = ProductOf(v)
        BY <4>1, MessageIsItsFields, ProductAssumption DEF WorkerInv, ProductOf, Order
      <4>3. \A p \in Products : rowLock[p] = v => rowLock'[p] = v
        BY <2>0, <3>2 DEF EndTx
      <4> QED BY <2>0, <4>1, <4>2, <4>3 DEF WorkerInv, Marked, tables
    <3> QED BY <3>1, <3>2
  <2>4. KeysAreHeldOnce'
    BY <1>0, <2>0 DEF EndTx, Goto, TypeOK, KeysAreHeldOnce, Marked
  <2> QED BY <2>1, <2>2, <2>3, <2>4 DEF InductiveInv
<1>6. ASSUME NEW w \in Workers, DeductStock(w) \/ InsufficientStock(w) \/ RestockStock(w)
      PROVE  InductiveInv'
  <2>0. /\ pc[w] = "stock" /\ Goto(w, "commit")
        /\ UNCHANGED <<compensate, tables, msg>>
        /\ \E e \in OutTypes : draft' = [draft EXCEPT ![w] = e]
        /\ ProductOf(w) \in Products
        /\ \/ rowLock' = rowLock
           \/ rowLock[ProductOf(w)] = NoWorker /\ rowLock' = [rowLock EXCEPT ![ProductOf(w)] = w]
    <3>1. ProductOf(w) \in Products
      BY <1>0, <1>6, MessageIsItsFields, ProductAssumption
         DEF DeductStock, InsufficientStock, RestockStock, WorkerInv, ProductOf, Order
    <3> QED BY <1>6, <3>1 DEF DeductStock, InsufficientStock, RestockStock, OutTypes
  <2>1. StockIsConserved' /\ EachMessageAnnouncedOnce'
    BY <1>0, <2>0, TablesKept
  <2>2. TypeOK'
    BY <1>0, <2>0 DEF Goto, TypeOK, tables, Steps
  <2>3. WorkerInv(w)'
    <3>1. pc'[w] = "commit" /\ msg'[w] = msg[w] /\ ProductOf(w)' = ProductOf(w) /\ stock' = stock
      BY <1>0, <2>0 DEF Goto, TypeOK, tables, ProductOf, Order
    <3>2. msg[w] \in Messages /\ msg[w] \notin processed'
      BY <1>0, <2>0 DEF WorkerInv, Marked, tables
    <3>3. CASE DeductStock(w)
      BY <1>0, <2>0, <3>1, <3>2, <3>3 DEF DeductStock, WorkerInv, TypeOK
    <3>4. CASE InsufficientStock(w)
      BY <1>0, <3>1, <3>2, <3>4 DEF InsufficientStock, WorkerInv, TypeOK
    <3>5. CASE RestockStock(w)
      BY <1>0, <2>0, <3>1, <3>2, <3>5 DEF RestockStock, WorkerInv, TypeOK
    <3> QED BY <1>6, <3>3, <3>4, <3>5
  <2>4. ASSUME NEW v \in Workers, v # w PROVE WorkerInv(v)'
    <3>1. WorkerInv(v) /\ pc'[v] = pc[v] /\ msg'[v] = msg[v] /\ draft'[v] = draft[v]
      BY <1>0, <2>0, <2>4 DEF Goto, TypeOK
    <3>2. pc[v] = "commit" => ProductOf(v) \in Products /\ ProductOf(v)' = ProductOf(v)
      BY <3>1, MessageIsItsFields, ProductAssumption DEF WorkerInv, ProductOf, Order
    <3>3. \A p \in Products : rowLock[p] = v => rowLock'[p] = v
      BY <1>0, <2>0, <2>4, NoWorkerAssumption DEF TypeOK
    <3> QED BY <2>0, <3>1, <3>2, <3>3 DEF WorkerInv, Marked, tables
  <2>5. KeysAreHeldOnce'
    BY <1>0, <2>0 DEF Goto, TypeOK, KeysAreHeldOnce, Marked
  <2> QED BY <2>1, <2>2, <2>3, <2>4, <2>5 DEF InductiveInv
<1>7. ASSUME NEW w \in Workers, Commit(w)
      PROVE  InductiveInv'
  BY <1>7, CommitTypeOK, CommitConserves, CommitAnnouncesOnce, CommitWorkers DEF InductiveInv
<1> QED
  BY <1>1, <1>2, <1>3, <1>4, <1>5, <1>6, <1>7 DEF Next

(* The invariant of rows, keys, locks and stock.                           *)
THEOREM Inductive == Spec => []InductiveInv
BY InitInductive, NextInductive, PTL DEF Spec

(* Types; above all, stock is never negative.                              *)
THEOREM TypeCorrect == Spec => []TypeOK
<1>1. InductiveInv => TypeOK
  BY DEF InductiveInv
<1> QED BY <1>1, Inductive, PTL

(* No piece appears or vanishes but by a deduction or a compensation.      *)
THEOREM StockConserved == Spec => []StockIsConserved
<1>1. InductiveInv => StockIsConserved
  BY DEF InductiveInv
<1> QED BY <1>1, Inductive, PTL

(* Every handled message is announced once.                                *)
THEOREM AnnouncedOnce == Spec => []EachMessageAnnouncedOnce
<1>1. InductiveInv => EachMessageAnnouncedOnce
  BY DEF InductiveInv
<1> QED BY <1>1, Inductive, PTL

-----------------------------------------------------------------------------
(* Refinement of the abstract lifecycle. *)

(* Initially no order has a verdict or a compensation.                     *)
LEMMA LifecycleInit == Init => Lifecycle!Init
<1> SUFFICES ASSUME Init, NEW o \in Orders PROVE Verdict(o) = "open" /\ Restocked(o) = {}
  BY DEF Lifecycle!Init, Init
<1> QED
  BY DEF Init, Verdict, Restocked, Announced, Msg, OutEvents, OutTypes

(* Without a commit nothing is seen from outside.                          *)
LEMMA LifecycleStutter ==
  ASSUME UNCHANGED tables
  PROVE  UNCHANGED Lifecycle!vars
<1>1. \A o \in Orders : Verdict(o)' = Verdict(o) /\ Restocked(o)' = Restocked(o)
  BY DEF tables, Verdict, Announced, Restocked
<1> QED
  BY <1>1 DEF tables, Lifecycle!vars

(* A commit is a deduction, a refusal or a restock of the abstract order.  *)
LEMMA LifecycleCommit ==
  ASSUME InductiveInv, NEW w \in Workers, Commit(w)
  PROVE  Lifecycle!Next
<1> PICK o \in Orders : o = Order(w)
  BY CommitFacts
<1> DEFINE V == [x \in Orders |-> Verdict(x)]
           R == [x \in Orders |-> Restocked(x)]
<1>1. o \in Orders /\ ProductOf(w) = Product[o]
  BY CommitFacts DEF ProductOf
<1>2. \A x \in Orders, t \in OutTypes : Announced(t, x) \in Nat
  BY DEF InductiveInv, TypeOK, Announced, OutEvents, Msg
<1>3. ASSUME NEW x \in Orders, x # o
      PROVE  Verdict(x)' = Verdict(x) /\ Restocked(x)' = Restocked(x)
  <2>1. /\ Announced("inventory.deducted", x)' = Announced("inventory.deducted", x)
        /\ Announced("inventory.failed", x)' = Announced("inventory.failed", x)
    BY <1>2, <1>3, CommitFacts DEF OutTypes
  <2> QED BY <1>3, <2>1, CommitAnnounces DEF Verdict
<1>4. /\ Announced("inventory.deducted", o)' = Announced("inventory.deducted", o)
             + IF draft[w] = "inventory.deducted" THEN 1 ELSE 0
      /\ Announced("inventory.failed", o)' = Announced("inventory.failed", o)
             + IF draft[w] = "inventory.failed" THEN 1 ELSE 0
      /\ Announced("inventory.deducted", o) \in Nat /\ Announced("inventory.failed", o) \in Nat
  BY <1>1, <1>2, CommitFacts DEF OutTypes
<1>5. CASE draft[w] = "inventory.restocked"
  <2> DEFINE t == msg[w].type
  <2>1. t \in Compensations /\ stock' = [stock EXCEPT ![Product[o]] = @ + 1]
    BY <1>1, <1>5, CommitFacts
  <2>2. Restocked(o)' = Restocked(o) \cup {t} /\ t \notin Restocked(o)
    BY <1>1, <2>1, CommitAnnounces
  <2>3. Verdict(o)' = Verdict(o)
    BY <1>4, <1>5 DEF Verdict
  <2>4. V' = V
    BY <1>3, <2>3
  <2>5. R' = [R EXCEPT ![o] = @ \cup {t}]
    BY <1>1, <1>3, <2>2
  <2>6. R[o] = Restocked(o)
    BY <1>1
  <2> HIDE DEF V, R
  <2>7. t \notin R[o] /\ UNCHANGED V
    BY <2>2, <2>4, <2>6
  <2>8. Lifecycle!Restock(o, t)
    BY <2>1, <2>5, <2>7 DEF Lifecycle!Restock, V, R
  <2>9. t \in Lifecycle!Compensations
    BY <2>1 DEF Compensations, Lifecycle!Compensations
  <2> QED BY <1>1, <2>8, <2>9 DEF Lifecycle!Next
<1>6. CASE draft[w] \in {"inventory.deducted", "inventory.failed"}
  <2>1. msg[w].type = "order.created"
    BY <1>6, CommitFacts
  <2>2. Restocked(o)' = Restocked(o)
    BY <1>1, <2>1, CommitAnnounces DEF Compensations
  <2>3. R' = R
    BY <1>3, <2>2
  <2>4. Msg("order.created", o) \notin processed
    BY <1>1, <2>1, CommitAnnounces
  <2>5. Announced("inventory.deducted", o) = 0 /\ Announced("inventory.failed", o) = 0
    BY <1>1, <1>4, <2>4 DEF InductiveInv, EachMessageAnnouncedOnce
  <2>6. Verdict(o) = "open" /\ V[o] = Verdict(o)
    BY <1>1, <2>5 DEF Verdict
  <2>7. CASE draft[w] = "inventory.deducted"
    <3>1. stock[Product[o]] > 0 /\ stock' = [stock EXCEPT ![Product[o]] = @ - 1]
      BY <1>1, <2>7, CommitFacts
    <3>2. Verdict(o)' = "deducted"
      BY <1>4, <2>5, <2>7 DEF Verdict
    <3>3. V' = [V EXCEPT ![o] = "deducted"]
      BY <1>1, <1>3, <3>2
    <3> HIDE DEF V, R
    <3>4. Lifecycle!Deduct(o)
      BY <2>3, <2>6, <3>1, <3>3 DEF Lifecycle!Deduct, V, R
    <3> QED BY <1>1, <3>4 DEF Lifecycle!Next
  <2>8. CASE draft[w] = "inventory.failed"
    <3>1. stock' = stock
      BY <2>8, CommitFacts
    <3>2. Verdict(o)' = "failed"
      BY <1>4, <2>5, <2>8 DEF Verdict
    <3>3. V' = [V EXCEPT ![o] = "failed"]
      BY <1>1, <1>3, <3>2
    <3> HIDE DEF V, R
    <3>4. Lifecycle!Refuse(o)
      BY <2>3, <2>6, <3>1, <3>3 DEF Lifecycle!Refuse, V, R
    <3> QED BY <1>1, <3>4 DEF Lifecycle!Next
  <2> QED BY <1>6, <2>7, <2>8
<1> QED
  BY <1>5, <1>6, CommitFacts

(* The service implements its abstract lifecycle.                          *)
THEOREM ImplementsLifecycle == Spec => LifecycleSpec
<1>1. InductiveInv /\ [Next]_vars => [Lifecycle!Next]_(Lifecycle!vars)
  <2> SUFFICES ASSUME InductiveInv, [Next]_vars
               PROVE  Lifecycle!Next \/ UNCHANGED Lifecycle!vars
    OBVIOUS
  <2>1. ASSUME NEW w \in Workers, Commit(w) PROVE Lifecycle!Next
    BY <2>1, LifecycleCommit
  <2>2. CASE \A w \in Workers : ~Commit(w)
    <3>1. UNCHANGED tables
      BY <2>2 DEF Next, vars, PublishCompensation, Deliver, MarkProcessed, AlreadyProcessed,
                  DeductStock, InsufficientStock, RestockStock, Abort
    <3> QED BY <3>1, LifecycleStutter
  <2> QED BY <2>1, <2>2
<1> QED
  BY <1>1, LifecycleInit, Inductive, PTL DEF Spec, LifecycleSpec, Lifecycle!Spec
=============================================================================
