--------------------------- MODULE PaymentService ---------------------------
(***************************************************************************)
(* Payment Service: the two Kafka consumers and the Stripe webhook         *)
(* (payment-service/handler.go, webhook.go, refund.go) over the Postgres   *)
(* tables they share (internal/db/payments_repo.go,                        *)
(* processed_events_repo.go, outbox_repo.go) and the Stripe calls of       *)
(* internal/stripeclient.                                                  *)
(*                                                                         *)
(* A worker is a goroutine of any replica that runs one handler at a time: *)
(* a consumer of order.created or order.cancelled, or an HTTP handler of   *)
(* POST /webhooks/stripe.  Each handler is one READ COMMITTED transaction, *)
(* cut here at every statement another transaction can interfere with: a   *)
(* unique key, an advisory lock, a row lock, a read of committed data, a   *)
(* call to Stripe, the commit.  What a transaction has written and not yet *)
(* committed is in draft[w]; nobody else sees it.                          *)
(***************************************************************************)
EXTENDS Naturals

CONSTANTS
  Orders,    \* orders whose order.created event is in Kafka
  Workers,   \* goroutines running handlers, over all replicas
  NoWorker   \* the holder of a free lock

ASSUME NoWorkerAssumption == NoWorker \notin Workers

(* Kafka topics consumed, Stripe event types acted on, events announced. *)
Topics    == {"order.created", "order.cancelled"}
HookTypes == {"payment_intent.succeeded", "payment_intent.payment_failed"}
OutTypes  == {"payment.completed", "payment.failed", "payment.refunded"}

(* A delivery to a handler.  It is also the key of processed_events: the   *)
(* third column, consumer_group, is a function of the type in this service *)
(* ("payment-service" for topics, "payment-service-webhook" for hooks).    *)
Messages  == [type : Topics \cup HookTypes, order : Orders]
NoMessage == [type |-> "none"]

OutEvents == [type : OutTypes, order : Orders]

Statuses == {"none", "pending", "succeeded", "failed", "refunded"}
Drafts   == [status : Statuses, event : OutTypes \cup {"none"}]
NoDraft  == [status |-> "none", event |-> "none"]

Steps == {"idle", "update", "mark", "lock", "check", "charge", "charging",
          "read", "decide", "refund", "commit"}

Msg(t, o) == [type |-> t, order |-> o]

VARIABLES
  \* Stripe.  A PaymentIntent is named by its order: the charge carries the
  \* idempotency key "charge-<order>", so an order has at most one.
  requests,   \* orders with a charge request in the network
  intent,     \* what Stripe made of the order's PaymentIntent, or "none"
  refunded,   \* orders whose PaymentIntent Stripe has refunded
  acked,      \* orders whose PaymentIntent event was answered with 200
  \* Kafka
  cancels,    \* orders whose order.cancelled event is in Kafka
  \* Committed rows
  payments,   \* payments.status by order, "none" when there is no row
  cancelled,  \* cancelled_orders
  processed,  \* processed_events
  outbox,     \* number of outbox_events rows inserted, by event
  \* Transactions
  pc,         \* the next statement of each worker
  msg,        \* the delivery it handles
  draft,      \* the payments status and outbox row it has not committed yet
  advisory,   \* the holder of each order's advisory lock
  rowLock     \* the holder of the lock on each order's payments row

stripeVars == <<requests, intent, refunded, acked>>
tables     == <<payments, cancelled, processed, outbox>>
locks      == <<advisory, rowLock>>
vars       == <<stripeVars, cancels, tables, pc, msg, draft, locks>>

(* The types of the variables: statuses, drafts and locks are only those   *)
(* the code writes, and a busy worker has a delivery.                      *)
TypeOK ==
  /\ requests \subseteq Orders
  /\ intent \in [Orders -> {"none", "succeeded", "failed", "declined"}]
  /\ refunded \subseteq Orders
  /\ acked \subseteq Orders
  /\ cancels \subseteq Orders
  /\ payments \in [Orders -> Statuses]
  /\ cancelled \subseteq Orders
  /\ processed \subseteq Messages
  /\ outbox \in [OutEvents -> Nat]
  /\ pc \in [Workers -> Steps]
  /\ msg \in [Workers -> Messages \cup {NoMessage}]
  /\ \A w \in Workers : pc[w] # "idle" => msg[w] \in Messages
  /\ draft \in [Workers -> Drafts]
  /\ advisory \in [Orders -> Workers \cup {NoWorker}]
  /\ rowLock \in [Orders -> Workers \cup {NoWorker}]

Init ==
  /\ requests = {}
  /\ intent = [o \in Orders |-> "none"]
  /\ refunded = {}
  /\ acked = {}
  /\ cancels = {}
  /\ payments = [o \in Orders |-> "none"]
  /\ cancelled = {}
  /\ processed = {}
  /\ outbox = [e \in OutEvents |-> 0]
  /\ pc = [w \in Workers |-> "idle"]
  /\ msg = [w \in Workers |-> NoMessage]
  /\ draft = [w \in Workers |-> NoDraft]
  /\ advisory = [o \in Orders |-> NoWorker]
  /\ rowLock = [o \in Orders |-> NoWorker]

-----------------------------------------------------------------------------
(* Vocabulary of the handlers. *)

Order(w)     == msg[w].order
Goto(w, s)   == pc' = [pc EXCEPT ![w] = s]
IsHook(w)    == msg[w].type \in HookTypes
Refunding(w) == draft' = [draft EXCEPT ![w] = [status |-> "refunded",
                                               event |-> "payment.refunded"]]

(* The key of w's delivery is inserted into processed_events but not yet   *)
(* committed: another insert of the same key waits for w to end.           *)
Marked(w) == pc[w] \notin {"idle", "update", "mark"}
(* Mutant: the insert of a key does not wait for another one of that key. *)
KeyNeverBusy(w) == FALSE
KeyBusy(w) == \E v \in Workers \ {w} : Marked(v) /\ msg[v] = msg[w]

(* Whoever ends a transaction drops its draft and its locks. *)
EndTx(w) ==
  /\ Goto(w, "idle")
  /\ msg' = [msg EXCEPT ![w] = NoMessage]
  /\ draft' = [draft EXCEPT ![w] = NoDraft]
  /\ advisory' = [o \in Orders |-> IF advisory[o] = w THEN NoWorker ELSE advisory[o]]
  /\ rowLock' = [o \in Orders |-> IF rowLock[o] = w THEN NoWorker ELSE rowLock[o]]

(* A webhook answered with 200 is an acknowledged event. *)
Ack(w) == acked' = IF IsHook(w) THEN acked \cup {Order(w)} ELSE acked

-----------------------------------------------------------------------------
(* The environment: Order Service's relay, and Stripe. *)

(* A cancel accepted by Order Service reaches the order.cancelled topic. *)
PublishCancel(o) ==
  /\ o \notin cancels
  /\ cancels' = cancels \cup {o}
  /\ UNCHANGED <<stripeVars, tables, pc, msg, draft, locks>>

(* A charge request leaves the network: it is lost, or Stripe executes it. *)
(* The idempotency key makes a second request find the first PaymentIntent.*)
(* The verdict may reach us later than it is drawn here: nothing observes  *)
(* it before the response or the webhook.                                  *)
ChargeRequestArrives(o) ==
  /\ o \in requests
  /\ requests' = requests \ {o}
  /\ \E verdict \in IF intent[o] = "none"
                      THEN {"none", "succeeded", "failed", "declined"}
                      ELSE {intent[o]} :
       intent' = [intent EXCEPT ![o] = verdict]
  /\ UNCHANGED <<refunded, acked, cancels, tables, pc, msg, draft, locks>>

(* What may be delivered.  Kafka and Stripe both deliver at least once:    *)
(* nothing is ever withdrawn, handled and acknowledged deliveries included.*)
Available(m) ==
  \/ m.type = "order.created"
  \/ m.type = "order.cancelled" /\ m.order \in cancels
  \/ m.type = "payment_intent.succeeded" /\ intent[m.order] = "succeeded"
  \/ m.type = "payment_intent.payment_failed" /\ intent[m.order] \in {"failed", "declined"}

(* A free worker takes a delivery and begins its transaction. *)
Deliver(w, m) ==
  /\ pc[w] = "idle"
  /\ Available(m)
  /\ Goto(w, IF m.type \in HookTypes THEN "update" ELSE "mark")
  /\ msg' = [msg EXCEPT ![w] = m]
  /\ UNCHANGED <<stripeVars, cancels, tables, draft, locks>>

-----------------------------------------------------------------------------
(* Statements shared by the handlers. *)

(* Mutant: the result of the insert is not looked at. *)
MarkAgain(w) ==
  /\ pc[w] = "mark"
  /\ ~KeyBusy(w)
  /\ Goto(w, IF IsHook(w) THEN "decide" ELSE "lock")
  /\ UNCHANGED <<stripeVars, cancels, tables, msg, draft, locks>>

(* Mutant: the webhook takes the advisory lock too, after its row lock. *)
MarkThenLock(w) ==
  /\ pc[w] = "mark"
  /\ ~KeyBusy(w)
  /\ msg[w] \notin processed
  /\ Goto(w, "lock")
  /\ UNCHANGED <<stripeVars, cancels, tables, msg, draft, locks>>

(* MarkProcessed inserted a new key. *)
MarkProcessed(w) ==
  /\ pc[w] = "mark"
  /\ ~KeyBusy(w)
  /\ msg[w] \notin processed
  /\ Goto(w, IF IsHook(w) THEN "decide" ELSE "lock")
  /\ UNCHANGED <<stripeVars, cancels, tables, msg, draft, locks>>

(* Mutant: a known key ends in a commit, the status update included. *)
AlreadyProcessedCommits(w) ==
  /\ pc[w] = "mark"
  /\ ~KeyBusy(w)
  /\ msg[w] \in processed
  /\ payments' = IF draft[w].status = "none" THEN payments
                   ELSE [payments EXCEPT ![Order(w)] = draft[w].status]
  /\ EndTx(w)
  /\ Ack(w)
  /\ UNCHANGED <<requests, intent, refunded, cancels, cancelled, processed, outbox>>

(* MarkProcessed found the key: the handler returns without committing, so *)
(* whatever it wrote before (the webhook's status update) rolls back.      *)
AlreadyProcessed(w) ==
  /\ pc[w] = "mark"
  /\ ~KeyBusy(w)
  /\ msg[w] \in processed
  /\ EndTx(w)
  /\ Ack(w)
  /\ UNCHANGED <<requests, intent, refunded, cancels, tables>>

(* Mutant: the advisory lock is tried and not waited for. *)
TryLockOrder(w) ==
  /\ pc[w] = "lock"
  /\ advisory' = [advisory EXCEPT ![Order(w)] = IF @ = NoWorker THEN w ELSE @]
  /\ Goto(w, IF msg[w].type = "order.created" THEN "check" ELSE "read")
  /\ UNCHANGED <<stripeVars, cancels, tables, msg, draft, rowLock>>

(* LockOrder: pg_advisory_xact_lock, held until the transaction ends. *)
LockOrder(w) ==
  /\ pc[w] = "lock"
  /\ advisory[Order(w)] = NoWorker
  /\ advisory' = [advisory EXCEPT ![Order(w)] = w]
  /\ Goto(w, IF msg[w].type = "order.created" THEN "check" ELSE "read")
  /\ UNCHANGED <<stripeVars, cancels, tables, msg, draft, rowLock>>

(* Mutant: the refund is written down and not asked of Stripe. *)
RefundOnPaper(w) ==
  /\ pc[w] = "refund"
  /\ Refunding(w)
  /\ Goto(w, "commit")
  /\ UNCHANGED <<stripeVars, cancels, tables, msg, locks>>

(* refunder.refund: Stripe refunds (idempotently, and only a charge that   *)
(* succeeded), then the status and the event are written.  A refund whose  *)
(* response is lost is this step followed by Abort.                        *)
Refund(w) ==
  /\ pc[w] = "refund"
  /\ intent[Order(w)] = "succeeded"
  /\ refunded' = refunded \cup {Order(w)}
  /\ Refunding(w)
  /\ Goto(w, "commit")
  /\ UNCHANGED <<requests, intent, acked, cancels, tables, msg, locks>>

(* The commit makes every write of the transaction visible at once; the    *)
(* webhook then answers 200.                                               *)
Commit(w) ==
  LET o == Order(w) d == draft[w] IN
  /\ pc[w] = "commit"
  /\ processed' = processed \cup {msg[w]}
  /\ cancelled' = IF msg[w].type = "order.cancelled" THEN cancelled \cup {o} ELSE cancelled
  /\ payments' = IF d.status = "none" THEN payments ELSE [payments EXCEPT ![o] = d.status]
  /\ outbox' = IF d.event = "none" THEN outbox ELSE [outbox EXCEPT ![Msg(d.event, o)] = @ + 1]
  /\ EndTx(w)
  /\ Ack(w)
  /\ UNCHANGED <<requests, intent, refunded, cancels>>

(* Mutant: a webhook that fails answers 200 all the same. *)
AbortAnswersOK(w) ==
  /\ pc[w] # "idle"
  /\ EndTx(w)
  /\ Ack(w)
  /\ UNCHANGED <<requests, intent, refunded, cancels, tables>>

(* An error return, an open circuit, a failed commit or a crash: Postgres  *)
(* rolls the transaction back, the offset stays uncommitted (or the        *)
(* webhook answers 500) and the delivery comes again.  Requests already    *)
(* sent to Stripe are not called back.                                     *)
Abort(w) ==
  /\ pc[w] # "idle"
  /\ EndTx(w)
  /\ UNCHANGED <<stripeVars, cancels, tables>>

-----------------------------------------------------------------------------
(* HandleOrderCreated *)

(* IsCancelled is true: commit the mark alone, never charge. *)
SkipCharge(w) ==
  /\ pc[w] = "check"
  /\ Order(w) \in cancelled
  /\ Goto(w, "commit")
  /\ UNCHANGED <<stripeVars, cancels, tables, msg, draft, locks>>

(* IsCancelled is false. *)
MayCharge(w) ==
  /\ pc[w] = "check"
  /\ Order(w) \notin cancelled
  /\ Goto(w, "charge")
  /\ UNCHANGED <<stripeVars, cancels, tables, msg, draft, locks>>

(* CreateAndConfirmPaymentIntent puts the request on the wire. *)
SendCharge(w) ==
  /\ pc[w] = "charge"
  /\ requests' = requests \cup {Order(w)}
  /\ Goto(w, "charging")
  /\ UNCHANGED <<intent, refunded, acked, cancels, tables, msg, draft, locks>>

(* Stripe returned a PaymentIntent: insert the payments row as pending. *)
ChargeAccepted(w) ==
  /\ pc[w] = "charging"
  /\ Order(w) \notin requests
  /\ intent[Order(w)] \in {"succeeded", "failed"}
  /\ payments[Order(w)] = "none"      \* PRIMARY KEY (order_id)
  /\ draft' = [draft EXCEPT ![w] = [status |-> "pending", event |-> "none"]]
  /\ Goto(w, "commit")
  /\ UNCHANGED <<stripeVars, cancels, tables, msg, locks>>

(* Mutant: the final failure is committed without its event. *)
ChargeFailedQuietly(w) ==
  /\ pc[w] = "charging"
  /\ Goto(w, "commit")
  /\ UNCHANGED <<stripeVars, cancels, tables, msg, draft, locks>>

(* The retries are exhausted with the circuit closed: a decline, but also  *)
(* a Stripe that is unreachable or whose answers are lost.  Taken as final.*)
ChargeFailed(w) ==
  /\ pc[w] = "charging"
  /\ draft' = [draft EXCEPT ![w] = [status |-> "none", event |-> "payment.failed"]]
  /\ Goto(w, "commit")
  /\ UNCHANGED <<stripeVars, cancels, tables, msg, locks>>

-----------------------------------------------------------------------------
(* HandleOrderCancelled *)

(* Mutant: the payments row is read without FOR UPDATE. *)
RecordCancelUnlocked(w) ==
  /\ pc[w] = "read"
  /\ Goto(w, IF payments[Order(w)] = "succeeded" THEN "refund" ELSE "commit")
  /\ UNCHANGED <<stripeVars, cancels, tables, msg, draft, locks>>

(* MarkCancelled, then GetByOrderIDForUpdate: with a payments row, wait    *)
(* for its lock and refund if it says succeeded; without one, only record  *)
(* the cancel.                                                             *)
RecordCancel(w) ==
  LET o == Order(w) IN
  /\ pc[w] = "read"
  /\ rowLock[o] = NoWorker
  /\ rowLock' = IF payments[o] = "none" THEN rowLock ELSE [rowLock EXCEPT ![o] = w]
  /\ Goto(w, IF payments[o] = "succeeded" THEN "refund" ELSE "commit")
  /\ UNCHANGED <<stripeVars, cancels, tables, msg, draft, advisory>>

-----------------------------------------------------------------------------
(* HandleStripeWebhook *)

(* Mutant: the event type itself is stored as the status. *)
RawStatus(t) == t

(* The status an event type stands for, and the event it announces. *)
StatusOf(t) == IF t = "payment_intent.succeeded" THEN "succeeded" ELSE "failed"
EventOf(t)  == IF t = "payment_intent.succeeded" THEN "payment.completed" ELSE "payment.failed"

(* UpdateStatusByIntentID updates the row and holds its lock. *)
UpdateStatus(w) ==
  /\ pc[w] = "update"
  /\ payments[Order(w)] # "none"
  /\ rowLock[Order(w)] = NoWorker
  /\ rowLock' = [rowLock EXCEPT ![Order(w)] = w]
  /\ draft' = [draft EXCEPT ![w] = [status |-> StatusOf(msg[w].type), event |-> "none"]]
  /\ Goto(w, "mark")
  /\ UNCHANGED <<stripeVars, cancels, tables, msg, advisory>>

(* ErrPaymentNotFound: no committed row has this intent; answer 200. *)
UnknownIntent(w) ==
  /\ pc[w] = "update"
  /\ payments[Order(w)] = "none"
  /\ EndTx(w)
  /\ Ack(w)
  /\ UNCHANGED <<requests, intent, refunded, cancels, tables>>

(* Mutant: the outcome is announced without a look at cancelled_orders. *)
AnnounceAlways(w) ==
  /\ pc[w] = "decide"
  /\ draft' = [draft EXCEPT ![w].event = EventOf(msg[w].type)]
  /\ Goto(w, "commit")
  /\ UNCHANGED <<stripeVars, cancels, tables, msg, locks>>

(* Not cancelled: announce the outcome. *)
Announce(w) ==
  /\ pc[w] = "decide"
  /\ Order(w) \notin cancelled
  /\ draft' = [draft EXCEPT ![w].event = EventOf(msg[w].type)]
  /\ Goto(w, "commit")
  /\ UNCHANGED <<stripeVars, cancels, tables, msg, locks>>

(* Cancelled while the charge was in flight: refund a success, keep quiet  *)
(* about a failure.                                                        *)
AfterCancel(w) ==
  /\ pc[w] = "decide"
  /\ Order(w) \in cancelled
  /\ Goto(w, IF draft[w].status = "succeeded" THEN "refund" ELSE "commit")
  /\ UNCHANGED <<stripeVars, cancels, tables, msg, draft, locks>>

-----------------------------------------------------------------------------
Handle(w) ==
  \/ MarkProcessed(w) \/ AlreadyProcessed(w) \/ LockOrder(w) \/ Refund(w) \/ Commit(w)
  \/ SkipCharge(w) \/ MayCharge(w) \/ SendCharge(w) \/ ChargeAccepted(w) \/ ChargeFailed(w)
  \/ RecordCancel(w)
  \/ UpdateStatus(w) \/ UnknownIntent(w) \/ Announce(w) \/ AfterCancel(w)

Next ==
  \/ \E o \in Orders : PublishCancel(o) \/ ChargeRequestArrives(o)
  \/ \E w \in Workers :
       \/ \E m \in Messages : Deliver(w, m)
       \/ Handle(w)
       \/ Abort(w)

Spec == Init /\ [][Next]_vars

(* Progress of webhooks.  A transaction that waits for nothing ends, one   *)
(* way or the other.  Stripe redelivers an event until it is answered with *)
(* 200.  An UPDATE whose row is free again and again gets its lock.  And   *)
(* outages end: from some time on no webhook fails.  Nothing of the kind   *)
(* is assumed of the Kafka consumers, whose handlers may fail for ever and *)
(* whose redelivery after an error is not guaranteed.                      *)
Hears(o) == \E w \in Workers, m \in Messages :
              m.type \in HookTypes /\ m.order = o /\ o \notin acked /\ Deliver(w, m)
Writes(o) == \E w \in Workers : msg[w] # NoMessage /\ Order(w) = o /\ UpdateStatus(w)
Fails(w) == IsHook(w) /\ Abort(w) /\ ~AlreadyProcessed(w) /\ ~UnknownIntent(w)

Fairness ==
  /\ \A w \in Workers : WF_vars(Handle(w) \/ Abort(w))
  /\ \A o \in Orders : SF_vars(Hears(o)) /\ SF_vars(Writes(o))
  /\ <>[][\A w \in Workers : ~Fails(w)]_vars

FairSpec == Spec /\ Fairness

-----------------------------------------------------------------------------
(* Properties *)

(* Once the cancel of an order is committed its payment is never left      *)
(* succeeded: whichever of the cancel consumer and the webhook comes       *)
(* second refunds.  This is what the row lock of GetByOrderIDForUpdate and *)
(* the webhook's UPDATE before its IsCancelled are for.                    *)
NoSucceededAfterCancel ==
  \A o \in cancelled : payments[o] # "succeeded"

Announced(t, o) == outbox[Msg(t, o)]

(* The events inserted for other services agree with the payments row, and *)
(* each is inserted at most once however often messages and webhooks are   *)
(* redelivered: never payment.completed and payment.failed for one order,  *)
(* never a payment.refunded without the refunded status.                   *)
EventsMatchPayments ==
  \A o \in Orders :
    /\ Announced("payment.refunded", o) = IF payments[o] = "refunded" THEN 1 ELSE 0
    /\ Announced("payment.completed", o) <= 1
    /\ payments[o] = "succeeded" => Announced("payment.completed", o) = 1
    /\ Announced("payment.completed", o) = 1 => payments[o] \in {"succeeded", "refunded"}
    /\ Announced("payment.failed", o) <= 1
    /\ Announced("payment.failed", o) = 1 => payments[o] \in {"none", "failed"}

(* A mark in processed_events and the work it stands for are committed     *)
(* together: a handled order.created left a payments row, a payment.failed *)
(* or a cancel that made it skip; a row has its order.created mark; a      *)
(* recorded cancel has its order.cancelled mark.                           *)
MarksMatchWork ==
  \A o \in Orders :
    /\ Msg("order.created", o) \in processed =>
         \/ payments[o] # "none"
         \/ Announced("payment.failed", o) = 1
         \/ o \in cancelled
    /\ payments[o] # "none" => Msg("order.created", o) \in processed
    /\ o \in cancelled <=> Msg("order.cancelled", o) \in processed

(* Stripe refunds only a successful charge of an order its customer        *)
(* cancelled, and a payment is called refunded only after Stripe did it    *)
(* and the cancel is on record.                                            *)
RefundsAreOwed ==
  /\ \A o \in refunded : o \in cancels /\ intent[o] = "succeeded"
  /\ \A o \in Orders : payments[o] = "refunded" => o \in refunded \cap cancelled

(* What v waits for w to give up: a key, an advisory lock or a row lock.   *)
WaitsFor(v, w) ==
  \/ pc[v] = "mark" /\ v # w /\ Marked(w) /\ msg[w] = msg[v]
  \/ pc[v] = "lock" /\ advisory[Order(v)] = w
  \/ pc[v] \in {"update", "read"} /\ rowLock[Order(v)] = w

(* The handlers lock in compatible orders: in every set of workers there   *)
(* is one that waits for no other, so Postgres never has to break a        *)
(* deadlock by aborting a transaction.                                     *)
NoDeadlock ==
  \A S \in (SUBSET Workers) \ {{}} :
    \E v \in S : \A w \in S : ~WaitsFor(v, w)

(* A committed cancel stops the charge: no request is sent to Stripe for   *)
(* an order whose cancel is on record, even by a handler that looked       *)
(* before the cancel committed.  This is what LockOrder is for.            *)
NoChargeAfterCancel ==
  [][\A o \in Orders : o \in requests' \ requests => o \notin cancelled]_vars

(* The changes of payments.status that go forward.                         *)
Moves == {<<"none", "pending">>, <<"pending", "succeeded">>, <<"pending", "failed">>,
          <<"pending", "refunded">>, <<"succeeded", "refunded">>}

(* A payment moves only forward: a redelivered or late webhook, whose      *)
(* UPDATE has no guard on the old status, never takes back a final status. *)
PaymentsMoveForward ==
  [][\A o \in Orders : payments'[o] # payments[o] => <<payments[o], payments'[o]>> \in Moves]_vars

(* What other services have been told of an order.                         *)
Outcome(o) ==
  IF Announced("payment.refunded", o) > 0 THEN "refunded"
  ELSE IF Announced("payment.completed", o) > 0 THEN "completed"
  ELSE IF Announced("payment.failed", o) > 0 THEN "failed"
  ELSE "open"

Lifecycle == INSTANCE PaymentLifecycle WITH outcome <- [o \in Orders |-> Outcome(o)]

(* The service implements its abstract lifecycle: seen through committed   *)
(* rows, each order goes through atomic steps.                             *)
LifecycleSpec == Lifecycle!Spec

(* A pending payment whose webhook Stripe still retries does not stay      *)
(* pending: recording the cancel of such a payment really is enough.       *)
PendingIsSettled ==
  \A o \in Orders : payments[o] = "pending" /\ o \notin acked ~> payments[o] # "pending"

-----------------------------------------------------------------------------
(* The inductive invariant behind these properties: what is true of each   *)
(* open transaction, that no two hold one key, and what is true of the     *)
(* committed rows.                                                         *)

(* Which deliveries reach which statement, and that they are genuine.      *)
StepFits(w) ==
  /\ pc[w] = "idle" <=> msg[w] = NoMessage
  /\ pc[w] # "idle" => Available(msg[w])
  /\ pc[w] \in {"update", "decide"} => IsHook(w)
  /\ pc[w] = "lock" => msg[w].type \in Topics
  /\ pc[w] \in {"check", "charge", "charging"} => msg[w].type = "order.created"
  /\ pc[w] = "read" => msg[w].type = "order.cancelled"
  /\ pc[w] = "refund" => msg[w].type # "order.created"

(* A topic handler past LockOrder holds the advisory lock of its order.    *)
(* A webhook past its UPDATE holds the lock on an existing row; a cancel   *)
(* past its SELECT does too, unless there is no row.                       *)
LocksHeld(w) ==
  /\ pc[w] \notin {"idle", "mark", "lock"} /\ msg[w].type \in Topics => advisory[Order(w)] = w
  /\ pc[w] \notin {"idle", "update"} /\ IsHook(w) =>
       rowLock[Order(w)] = w /\ payments[Order(w)] # "none"
  /\ pc[w] \in {"refund", "commit"} /\ msg[w].type = "order.cancelled" =>
       rowLock[Order(w)] = w \/ payments[Order(w)] = "none"

Draft(s, e) == [status |-> s, event |-> e]

(* What a transaction has written, and what it has read that still stands. *)
DraftFits(w) ==
  LET o == Order(w) t == msg[w].type d == draft[w] IN
  /\ pc[w] \notin {"mark", "decide", "refund", "commit"} => d = NoDraft
  /\ pc[w] \in {"charge", "charging"} => o \notin cancelled
  /\ pc[w] \in {"mark", "decide"} =>
       d = IF t \in HookTypes THEN Draft(StatusOf(t), "none") ELSE NoDraft
  /\ pc[w] = "refund" =>
       \/ t = "order.cancelled" /\ d = NoDraft /\ payments[o] = "succeeded"
       \/ t = "payment_intent.succeeded" /\ d = Draft("succeeded", "none") /\ o \in cancelled
  /\ pc[w] = "commit" /\ t = "order.created" =>
       \/ d = NoDraft /\ o \in cancelled
       \/ d = Draft("pending", "none") /\ o \notin cancelled /\ intent[o] \in {"succeeded", "failed"}
       \/ d = Draft("none", "payment.failed") /\ o \notin cancelled
  /\ pc[w] = "commit" /\ t = "order.cancelled" =>
       \/ d = NoDraft /\ payments[o] # "succeeded"
       \/ d = Draft("refunded", "payment.refunded") /\ payments[o] = "succeeded" /\ o \in refunded
  /\ pc[w] = "commit" /\ t \in HookTypes =>
       \/ d = Draft(StatusOf(t), EventOf(t)) /\ o \notin cancelled
       \/ d = Draft("refunded", "payment.refunded") /\ t = "payment_intent.succeeded"
            /\ o \in cancelled \cap refunded
       \/ d = Draft("failed", "none") /\ t = "payment_intent.payment_failed" /\ o \in cancelled

(* A key that an open transaction holds is not in the table.               *)
KeyIsNew(w) == Marked(w) => msg[w] \notin processed

WorkerInv(w) == StepFits(w) /\ LocksHeld(w) /\ DraftFits(w) /\ KeyIsNew(w)

(* No two open transactions hold one key.                                  *)
KeysAreHeldOnce ==
  \A v, w \in Workers : Marked(v) /\ Marked(w) /\ msg[v] = msg[w] => v = w

(* The payments row tells which keys are in processed_events and back.     *)
StatusMatchesMarks ==
  \A o \in Orders :
    /\ payments[o] # "none" => intent[o] \in {"succeeded", "failed"}
    /\ payments[o] \in {"succeeded", "failed"} => intent[o] = payments[o]
    /\ Msg("payment_intent.payment_failed", o) \in processed <=> payments[o] = "failed"
    /\ Msg("payment_intent.succeeded", o) \in processed <=> payments[o] \in {"succeeded", "refunded"}
    /\ Announced("payment.failed", o) > 0 => Msg("order.created", o) \in processed

TableInv ==
  /\ StatusMatchesMarks
  /\ MarksMatchWork
  /\ NoSucceededAfterCancel
  /\ EventsMatchPayments
  /\ RefundsAreOwed
  /\ cancelled \subseteq cancels

(* A held lock is held by a transaction past the statement that takes it.  *)
HoldersArePast ==
  \A o \in Orders, w \in Workers :
    /\ advisory[o] = w => pc[w] \notin {"idle", "update", "mark", "lock"}
    /\ rowLock[o] = w => pc[w] \in {"decide", "refund", "commit"} \/ (pc[w] = "mark" /\ IsHook(w))

(* All of it: true initially, kept by every step, and strong enough for    *)
(* every safety property above.                                            *)
InductiveInv ==
  /\ TypeOK
  /\ \A w \in Workers : WorkerInv(w)
  /\ KeysAreHeldOnce
  /\ TableInv

-----------------------------------------------------------------------------
(* What comments of the code claim and the code does not do. *)

(* An event answered with 200 has been recorded: its payment is no longer  *)
(* pending.                                                                *)
AckedIsRecorded ==
  \A o \in acked : payments[o] # "pending"

(* order.created handled without a payments row leaves nothing to refund:  *)
(* either payment.failed is final and the customer has not been charged,   *)
(* or the order was cancelled before it was charged.  Two ways lead out:   *)
(* the answers of a charge are lost until the retries are exhausted, and a *)
(* crash after the charge, a cancel, and a redelivery that skips.          *)
UnrecordedIsNotCharged ==
  \A o \in Orders :
    Msg("order.created", o) \in processed /\ payments[o] = "none" => intent[o] # "succeeded"
=============================================================================
