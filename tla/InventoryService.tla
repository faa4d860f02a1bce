-------------------------- MODULE InventoryService --------------------------
(***************************************************************************)
(* Inventory Service: its three Kafka consumers                            *)
(* (inventory-service/handler.go) over the products, processed_events and  *)
(* outbox_events tables (internal/db/products_repo.go,                     *)
(* processed_events_repo.go, outbox_repo.go).                              *)
(*                                                                         *)
(* A worker is a goroutine of any replica running one handler at a time.   *)
(* Each handler is one READ COMMITTED transaction, cut at the insert of    *)
(* its key, at the UPDATE of the product's row and at the commit; what a   *)
(* transaction has written and not committed is in draft[w].               *)
(***************************************************************************)
EXTENDS Naturals, FiniteSets

CONSTANTS
  Orders,    \* orders whose order.created event is in Kafka
  Products,
  Product,   \* the product of each order: every event about it carries it
  Stocked,   \* the stock each product starts with
  Workers,   \* goroutines running handlers, over all replicas
  NoWorker   \* the holder of a free lock

ASSUME OrdersAssumption   == IsFiniteSet(Orders)
ASSUME ProductAssumption  == Product \in [Orders -> Products]
ASSUME StockedAssumption  == Stocked \in [Products -> Nat]
ASSUME NoWorkerAssumption == NoWorker \notin Workers

Compensations == {"order.cancelled", "payment.failed"}
Topics        == {"order.created"} \cup Compensations
OutTypes      == {"inventory.deducted", "inventory.failed", "inventory.restocked"}

Messages  == [type : Topics, order : Orders]
NoMessage == [type |-> "none"]
OutEvents == [type : OutTypes, order : Orders]
Steps     == {"idle", "mark", "stock", "commit"}

Msg(t, o) == [type |-> t, order |-> o]

VARIABLES
  compensate, \* the order.cancelled and payment.failed events in Kafka
  stock,      \* products.stock, committed
  processed,  \* processed_events of the group inventory-service, committed
  outbox,     \* number of outbox_events rows inserted, by event, committed
  pc,         \* the next statement of each worker
  msg,        \* the delivery it handles
  draft,      \* the outbox row it has not committed yet, or "none"
  rowLock     \* the holder of the lock on each product's row

tables == <<stock, processed, outbox>>
vars   == <<compensate, tables, pc, msg, draft, rowLock>>

(* The types of the variables; stock is a natural number, never negative.  *)
TypeOK ==
  /\ compensate \subseteq [type : Compensations, order : Orders]
  /\ stock \in [Products -> Nat]
  /\ processed \subseteq Messages
  /\ outbox \in [OutEvents -> Nat]
  /\ pc \in [Workers -> Steps]
  /\ msg \in [Workers -> Messages \cup {NoMessage}]
  /\ draft \in [Workers -> OutTypes \cup {"none"}]
  /\ rowLock \in [Products -> Workers \cup {NoWorker}]

Init ==
  /\ compensate = {}
  /\ stock = Stocked
  /\ processed = {}
  /\ outbox = [e \in OutEvents |-> 0]
  /\ pc = [w \in Workers |-> "idle"]
  /\ msg = [w \in Workers |-> NoMessage]
  /\ draft = [w \in Workers |-> "none"]
  /\ rowLock = [p \in Products |-> NoWorker]

Goto(w, s)   == pc' = [pc EXCEPT ![w] = s]
Order(w)     == msg[w].order
ProductOf(w) == Product[Order(w)]

(* The key of w's delivery is inserted but not committed. *)
Marked(w)  == pc[w] \in {"stock", "commit"}
(* Mutant: the insert of a key does not wait for another one of that key. *)
KeyNeverBusy(w) == FALSE
KeyBusy(w) == \E v \in Workers \ {w} : Marked(v) /\ msg[v] = msg[w]

EndTx(w) ==
  /\ Goto(w, "idle")
  /\ msg' = [msg EXCEPT ![w] = NoMessage]
  /\ draft' = [draft EXCEPT ![w] = "none"]
  /\ rowLock' = [p \in Products |-> IF rowLock[p] = w THEN NoWorker ELSE rowLock[p]]

-----------------------------------------------------------------------------
(* A cancel or a failed payment reaches Kafka.  Orders are pending for ever*)
(* once created, so one order may see both, and in either order.           *)
PublishCompensation(t, o) ==
  /\ Msg(t, o) \notin compensate
  /\ compensate' = compensate \cup {Msg(t, o)}
  /\ UNCHANGED <<tables, pc, msg, draft, rowLock>>

(* Kafka delivers at least once, and in no order across topics. *)
Deliver(w, m) ==
  /\ pc[w] = "idle"
  /\ m.type = "order.created" \/ m \in compensate
  /\ Goto(w, "mark")
  /\ msg' = [msg EXCEPT ![w] = m]
  /\ UNCHANGED <<compensate, tables, draft, rowLock>>

(* Mutant: the result of the insert is not looked at. *)
MarkAgain(w) ==
  /\ pc[w] = "mark"
  /\ ~KeyBusy(w)
  /\ Goto(w, "stock")
  /\ UNCHANGED <<compensate, tables, msg, draft, rowLock>>

MarkProcessed(w) ==
  /\ pc[w] = "mark"
  /\ ~KeyBusy(w)
  /\ msg[w] \notin processed
  /\ Goto(w, "stock")
  /\ UNCHANGED <<compensate, tables, msg, draft, rowLock>>

AlreadyProcessed(w) ==
  /\ pc[w] = "mark"
  /\ ~KeyBusy(w)
  /\ msg[w] \in processed
  /\ EndTx(w)
  /\ UNCHANGED <<compensate, tables>>

(* Mutant: neither WHERE stock > 0 nor the CHECK of the table. *)
DeductUnguarded(w) ==
  LET p == ProductOf(w) IN
  /\ pc[w] = "stock" /\ msg[w].type = "order.created"
  /\ rowLock[p] = NoWorker
  /\ rowLock' = [rowLock EXCEPT ![p] = w]
  /\ draft' = [draft EXCEPT ![w] = "inventory.deducted"]
  /\ Goto(w, "commit")
  /\ UNCHANGED <<compensate, tables, msg>>

(* HandleOrderCreated: DeductStock takes one piece, and with it the lock of*)
(* the row it updates.                                                     *)
DeductStock(w) ==
  LET p == ProductOf(w) IN
  /\ pc[w] = "stock" /\ msg[w].type = "order.created"
  /\ stock[p] > 0 /\ rowLock[p] = NoWorker
  /\ rowLock' = [rowLock EXCEPT ![p] = w]
  /\ draft' = [draft EXCEPT ![w] = "inventory.deducted"]
  /\ Goto(w, "commit")
  /\ UNCHANGED <<compensate, tables, msg>>

(* A committed row with nothing left does not match WHERE stock > 0: no    *)
(* row is locked or waited for, and the order is refused.                  *)
InsufficientStock(w) ==
  /\ pc[w] = "stock" /\ msg[w].type = "order.created"
  /\ stock[ProductOf(w)] = 0
  /\ draft' = [draft EXCEPT ![w] = "inventory.failed"]
  /\ Goto(w, "commit")
  /\ UNCHANGED <<compensate, tables, msg, rowLock>>

(* HandleCompensation: RestockStock puts one piece back. *)
RestockStock(w) ==
  LET p == ProductOf(w) IN
  /\ pc[w] = "stock" /\ msg[w].type \in Compensations
  /\ rowLock[p] = NoWorker
  /\ rowLock' = [rowLock EXCEPT ![p] = w]
  /\ draft' = [draft EXCEPT ![w] = "inventory.restocked"]
  /\ Goto(w, "commit")
  /\ UNCHANGED <<compensate, tables, msg>>

Commit(w) ==
  LET p == ProductOf(w) IN
  /\ pc[w] = "commit"
  /\ processed' = processed \cup {msg[w]}
  /\ \/ draft[w] = "inventory.deducted"  /\ stock' = [stock EXCEPT ![p] = @ - 1]
     \/ draft[w] = "inventory.restocked" /\ stock' = [stock EXCEPT ![p] = @ + 1]
     \/ draft[w] = "inventory.failed"    /\ UNCHANGED stock
  /\ outbox' = [outbox EXCEPT ![Msg(draft[w], Order(w))] = @ + 1]
  /\ EndTx(w)
  /\ UNCHANGED compensate

(* An error return, a failed commit or a crash: rolled back, and delivered *)
(* again.                                                                  *)
Abort(w) ==
  /\ pc[w] # "idle"
  /\ EndTx(w)
  /\ UNCHANGED <<compensate, tables>>

Next ==
  \/ \E t \in Compensations, o \in Orders : PublishCompensation(t, o)
  \/ \E w \in Workers :
       \/ \E m \in Messages : Deliver(w, m)
       \/ MarkProcessed(w) \/ AlreadyProcessed(w)
       \/ DeductStock(w) \/ InsufficientStock(w) \/ RestockStock(w)
       \/ Commit(w) \/ Abort(w)

Spec == Init /\ [][Next]_vars

-----------------------------------------------------------------------------
(* Properties *)

Announced(t, o) == outbox[Msg(t, o)]

(* What other services have been told of an order, and the compensations   *)
(* it has had.                                                             *)
Verdict(o) ==
  IF Announced("inventory.deducted", o) > 0 THEN "deducted"
  ELSE IF Announced("inventory.failed", o) > 0 THEN "failed"
  ELSE "open"
Restocked(o) == {t \in Compensations : Msg(t, o) \in processed}

HasBeen(t, p)   == {o \in Orders : Product[o] = p /\ Msg(t, o) \in processed}
Deducted(p)     == {o \in Orders : Product[o] = p /\ Announced("inventory.deducted", o) > 0}

(* Stock is conserved: what a product has is what it started with, less    *)
(* one for each order it was deducted for, plus one for each cancel and    *)
(* each failed payment handled, however often these are redelivered and    *)
(* whoever handles them at the same time.                                  *)
StockIsConserved ==
  \A p \in Products :
    stock[p] + Cardinality(Deducted(p)) =
      Stocked[p] + Cardinality(HasBeen("order.cancelled", p)) + Cardinality(HasBeen("payment.failed", p))

(* Each handled message is announced exactly once: an order gets one       *)
(* verdict, deducted or failed, and one restocked event per compensation.  *)
EachMessageAnnouncedOnce ==
  \A o \in Orders :
    /\ Announced("inventory.deducted", o) + Announced("inventory.failed", o)
         = IF Msg("order.created", o) \in processed THEN 1 ELSE 0
    /\ Announced("inventory.restocked", o) = Cardinality(Restocked(o))

Lifecycle == INSTANCE InventoryLifecycle
               WITH verdict   <- [o \in Orders |-> Verdict(o)],
                    restocked <- [o \in Orders |-> Restocked(o)]

(* The service implements its abstract lifecycle: seen through committed   *)
(* rows, stock, verdict and compensations of an order change together, in  *)
(* atomic steps, and no deduction takes a piece that is not there.         *)
LifecycleSpec == Lifecycle!Spec

-----------------------------------------------------------------------------
(* The inductive invariant behind these properties: the key of an open     *)
(* transaction is new, and what it read of the stock still stands, since   *)
(* it holds the lock on the product's row.                                 *)
WorkerInv(w) ==
  /\ pc[w] # "idle" => msg[w] \in Messages
  /\ pc[w] = "commit" =>
       \/ /\ draft[w] = "inventory.deducted" /\ msg[w].type = "order.created"
          /\ rowLock[ProductOf(w)] = w /\ stock[ProductOf(w)] > 0
       \/ draft[w] = "inventory.failed" /\ msg[w].type = "order.created"
       \/ /\ draft[w] = "inventory.restocked" /\ msg[w].type \in Compensations
          /\ rowLock[ProductOf(w)] = w
  /\ Marked(w) => msg[w] \notin processed

(* No two open transactions hold one key.                                  *)
KeysAreHeldOnce ==
  \A v, w \in Workers : Marked(v) /\ Marked(w) /\ msg[v] = msg[w] => v = w

(* All of it: each commit adds one message, one event and one piece.       *)
InductiveInv ==
  /\ TypeOK
  /\ \A w \in Workers : WorkerInv(w)
  /\ KeysAreHeldOnce
  /\ StockIsConserved
  /\ EachMessageAnnouncedOnce

-----------------------------------------------------------------------------
(* What comments of the code claim and the service does not do. *)

(* Stock is put back only for an order it was deducted for, and once: not  *)
(* for a cancel that overtook the deduction or followed a refused one, nor *)
(* again for a cancel after a failed payment.                              *)
RestockedWasDeducted ==
  \A o \in Orders : Announced("inventory.restocked", o) <= Announced("inventory.deducted", o)
=============================================================================
