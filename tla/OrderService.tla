---------------------------- MODULE OrderService ----------------------------
(***************************************************************************)
(* Order Service: POST /orders and the cancel of an order                  *)
(* (order-service/handlers.go) over the orders and outbox_events tables    *)
(* (internal/db/orders_repo.go, outbox_repo.go).                           *)
(*                                                                         *)
(* A worker is an HTTP handler of any replica.  CancelOrder looks at the   *)
(* order before it begins its transaction, so by the time of the UPDATE    *)
(* what it saw may be stale: the UPDATE looks again.                       *)
(***************************************************************************)
EXTENDS Naturals

CONSTANTS
  Orders,    \* ids that Create may generate
  Workers,   \* HTTP handlers running at one time, over all replicas
  NoWorker   \* the holder of a free lock

ASSUME NoWorkerAssumption == NoWorker \notin Workers

OutTypes  == {"order.created", "order.cancelled"}
OutEvents == [type : OutTypes, order : Orders]
Statuses  == {"none", "pending", "cancelled"}
Steps     == {"idle", "cancel", "commit"}

Event(t, o) == [type |-> t, order |-> o]

VARIABLES
  orders,    \* orders.status, committed, "none" when there is no row
  outbox,    \* number of outbox_events rows inserted, by event, committed
  accepted,  \* number of cancels of each order answered with 200
  refused,   \* orders a cancel of which was answered with 409
  pc,        \* the next statement of each worker
  order,     \* the order it works on
  draft,     \* the event it has inserted and not committed, or "none"
  rowLock    \* the holder of the lock on each order's row

tables  == <<orders, outbox>>
answers == <<accepted, refused>>
vars    == <<tables, answers, pc, order, draft, rowLock>>

(* The types of the variables.                                             *)
TypeOK ==
  /\ orders \in [Orders -> Statuses]
  /\ outbox \in [OutEvents -> Nat]
  /\ accepted \in [Orders -> Nat]
  /\ refused \subseteq Orders
  /\ pc \in [Workers -> Steps]
  /\ order \in [Workers -> Orders]
  /\ draft \in [Workers -> OutTypes \cup {"none"}]
  /\ rowLock \in [Orders -> Workers \cup {NoWorker}]

Init ==
  /\ orders = [o \in Orders |-> "none"]
  /\ outbox = [e \in OutEvents |-> 0]
  /\ accepted = [o \in Orders |-> 0]
  /\ refused = {}
  /\ pc = [w \in Workers |-> "idle"]
  /\ order \in [Workers -> Orders]
  /\ draft = [w \in Workers |-> "none"]
  /\ rowLock = [o \in Orders |-> NoWorker]

Goto(w, s) == pc' = [pc EXCEPT ![w] = s]

(* A handler returns; its transaction, if any, gives up draft and locks.   *)
EndTx(w) ==
  /\ Goto(w, "idle")
  /\ draft' = [draft EXCEPT ![w] = "none"]
  /\ rowLock' = [o \in Orders |-> IF rowLock[o] = w THEN NoWorker ELSE rowLock[o]]
  /\ UNCHANGED order

-----------------------------------------------------------------------------
(* CreateOrder: a row under a new UUID and its event in one transaction.   *)
(* The lock is the new row's own, which nobody else can see.               *)
CreateOrder(w, o) ==
  /\ pc[w] = "idle"
  /\ orders[o] = "none" /\ rowLock[o] = NoWorker
  /\ rowLock' = [rowLock EXCEPT ![o] = w]
  /\ order' = [order EXCEPT ![w] = o]
  /\ draft' = [draft EXCEPT ![w] = "order.created"]
  /\ Goto(w, "commit")
  /\ UNCHANGED <<tables, answers>>

(* CancelOrder: GetByID, outside the transaction, finds the order pending. *)
FindPending(w, o) ==
  /\ pc[w] = "idle"
  /\ orders[o] = "pending"
  /\ order' = [order EXCEPT ![w] = o]
  /\ Goto(w, "cancel")
  /\ UNCHANGED <<tables, answers, draft, rowLock>>

(* GetByID finds it cancelled already. *)
FindCancelled(w, o) ==
  /\ pc[w] = "idle"
  /\ orders[o] = "cancelled"
  /\ refused' = refused \cup {o}
  /\ UNCHANGED <<tables, accepted, pc, order, draft, rowLock>>

(* Mutant: the UPDATE has no WHERE status = 'pending'. *)
CancelUnguarded(w) ==
  /\ pc[w] = "cancel"
  /\ rowLock[order[w]] = NoWorker
  /\ rowLock' = [rowLock EXCEPT ![order[w]] = w]
  /\ draft' = [draft EXCEPT ![w] = "order.cancelled"]
  /\ Goto(w, "commit")
  /\ UNCHANGED <<tables, answers, order>>

(* Mutant: the status is read and written in two statements, unlocked. *)
CancelUnlocked(w) ==
  /\ pc[w] = "cancel"
  /\ orders[order[w]] = "pending"
  /\ draft' = [draft EXCEPT ![w] = "order.cancelled"]
  /\ Goto(w, "commit")
  /\ UNCHANGED <<tables, answers, order, rowLock>>

(* CancelPending: the UPDATE waits for the row and looks at its status     *)
(* again; it finds it still pending, and the event is inserted.            *)
CancelPending(w) ==
  /\ pc[w] = "cancel"
  /\ rowLock[order[w]] = NoWorker
  /\ orders[order[w]] = "pending"
  /\ rowLock' = [rowLock EXCEPT ![order[w]] = w]
  /\ draft' = [draft EXCEPT ![w] = "order.cancelled"]
  /\ Goto(w, "commit")
  /\ UNCHANGED <<tables, answers, order>>

(* ErrOrderNotCancellable: lost the race between the look and the UPDATE.  *)
NotCancellable(w) ==
  /\ pc[w] = "cancel"
  /\ orders[order[w]] # "pending"
  /\ refused' = refused \cup {order[w]}
  /\ EndTx(w)
  /\ UNCHANGED <<tables, accepted>>

(* The row and its event become visible together.  The client may get 500  *)
(* or nothing for a commit that did happen.                                *)
Commit(w) ==
  LET o == order[w] IN
  /\ pc[w] = "commit"
  /\ orders' = [orders EXCEPT ![o] = IF draft[w] = "order.created" THEN "pending" ELSE "cancelled"]
  /\ outbox' = [outbox EXCEPT ![Event(draft[w], o)] = @ + 1]
  /\ accepted' \in IF draft[w] = "order.cancelled"
                     THEN {accepted, [accepted EXCEPT ![o] = @ + 1]}
                     ELSE {accepted}
  /\ EndTx(w)
  /\ UNCHANGED refused

(* Mutant: the event is inserted outside the transaction. *)
AbortKeepsEvent(w) ==
  /\ pc[w] # "idle"
  /\ outbox' = IF draft[w] = "none" THEN outbox
                 ELSE [outbox EXCEPT ![Event(draft[w], order[w])] = @ + 1]
  /\ EndTx(w)
  /\ UNCHANGED <<orders, answers>>

(* A statement fails, the client goes away or the replica dies. *)
Abort(w) ==
  /\ pc[w] # "idle"
  /\ EndTx(w)
  /\ UNCHANGED <<tables, answers>>

Next ==
  \E w \in Workers :
    \/ \E o \in Orders : CreateOrder(w, o) \/ FindPending(w, o) \/ FindCancelled(w, o)
    \/ CancelPending(w) \/ NotCancellable(w) \/ Commit(w) \/ Abort(w)

Spec == Init /\ [][Next]_vars

-----------------------------------------------------------------------------
(* Properties *)

Announced(t, o) == outbox[Event(t, o)]

(* The other services hear of an order exactly what its row says, once:    *)
(* an order.created for each row and an order.cancelled for each cancelled *)
(* one, whichever cancels run at the same time and wherever they stop.     *)
EventsMatchOrders ==
  \A o \in Orders :
    /\ Announced("order.created", o) = IF orders[o] = "none" THEN 0 ELSE 1
    /\ Announced("order.cancelled", o) = IF orders[o] = "cancelled" THEN 1 ELSE 0

(* Of the cancels of one order at most one is told it succeeded, and a     *)
(* client told so or told "not pending" really faces a cancelled order.    *)
AnswersAreTrue ==
  \A o \in Orders :
    /\ accepted[o] <= 1
    /\ accepted[o] = 1 \/ o \in refused => orders[o] = "cancelled"

Lifecycle == INSTANCE OrderLifecycle WITH events <- {e \in OutEvents : outbox[e] > 0}

(* The service implements its abstract lifecycle: seen through committed   *)
(* rows an order is created and cancelled in atomic steps with its events, *)
(* although a cancel decides on what it read before its transaction.       *)
LifecycleSpec == Lifecycle!Spec

(* A transaction with an event to commit holds the row's lock, and what it *)
(* saw under the lock still stands.                                        *)
WorkerInv(w) ==
  /\ pc[w] = "cancel" => orders[order[w]] # "none"
  /\ pc[w] = "commit" =>
       /\ rowLock[order[w]] = w
       /\ \/ draft[w] = "order.created" /\ orders[order[w]] = "none"
          \/ draft[w] = "order.cancelled" /\ orders[order[w]] = "pending"

(* No two open transactions can both be about to cancel one order: what    *)
(* makes EventsMatchOrders and AnswersAreTrue inductive.                   *)
InductiveInv ==
  /\ TypeOK
  /\ \A w \in Workers : WorkerInv(w)
  /\ EventsMatchOrders
  /\ AnswersAreTrue
=============================================================================
