# Verification of high-throughput-payments

TLA+ specifications of the three Go services of this repository and of the
messaging code they share, model-checked with TLC and, where it says so, proved
with TLAPS. Paths below are relative to the repository (`src/`).

## 1. The system

| Part | State | Operations | Talks to |
|---|---|---|---|
| Order Service (`order-service/handlers.go`) | `orders` | create, get, cancel an order (HTTP) | writes `order.created`, `order.cancelled` to the outbox |
| Inventory Service (`inventory-service/handler.go`) | `products`, `processed_events` | deduct on `order.created`, restock on `order.cancelled` and `payment.failed` | writes `inventory.*` to the outbox (nobody consumes them) |
| Payment Service (`payment-service/handler.go`, `webhook.go`, `refund.go`) | `payments`, `cancelled_orders`, `processed_events` | charge on `order.created`, cancel or refund on `order.cancelled`, record the outcome on Stripe's webhook | calls Stripe; writes `payment.*` to the outbox |
| Outbox relay (`internal/outbox/relay.go`) | `outbox_events`, shared by all services | claim a batch, publish, mark, commit, every second | reads rows of every service, writes Kafka |
| Kafka consumer (`internal/kafka/consumer.go`) | the reader's position, the group's offset | fetch, handle, commit | calls the handlers |
| Resilient Stripe client (`internal/resilientstripe`) | two circuit breakers | four attempts per call, trip after five failed calls | wraps `internal/stripeclient` |
| Stripe client (`internal/stripeclient`) | none; idempotency keys `charge-<order>`, `refund-<intent>` | charge, refund | Stripe |
| Repositories (`internal/db`) | the tables | one SQL statement each | Postgres |

Services run in several replicas over one Postgres. They interact only through
events: a handler commits its rows and an outbox row in one transaction, a relay
sends the row to Kafka at least once, without waiting for the broker's answer, and
consumers make redelivery harmless with `processed_events`. Stripe answers a charge twice, synchronously and by a
webhook, and the webhook counts.

What is hard here: a cancel racing a charge and its webhook; statements of
READ COMMITTED transactions interleaving; crashes between an effect at Stripe
and the commit that records it; lost answers and retries; redelivery and
reordering across topics; replicas that handle one message at once after a
rebalance; relays sharing one table, one of which may have lost its row locks
without knowing; a writer that is told nothing about what the broker did. What makes each part correct:

* Payment Service: money taken for a cancelled order goes back; nobody is
  charged after a cancel is on record; one outcome per order is announced.
* Inventory Service: stock is conserved and never negative; each message has one verdict.
* Order Service: events match rows; one cancel of an order wins.
* Relay: only an event that was sent is marked published, none is published twice
  without a failure, every event the writer takes is published some day.
* Consumer: no message is passed over before its handler answered.
* Resilient Stripe client: an order is called failed for good only after a full
  retry sequence; one call tests recovery; an outage, once over, leaves no breaker
  open.
* The saga: a refund follows a cancel, a paid order that is kept keeps its piece,
  and every cancel and failed payment reaches money and stock, or the very message
  that says so was lost, by the network or by its consumer.

## 2. Modules

| Module | Models | Proofs |
|---|---|---|
| `PaymentService` | the two consumers, the webhook, refunds, Stripe's side of a charge | `PaymentServiceProofs` |
| `PaymentLifecycle` | what Payment Service promises about an order: atomic steps, no transactions (abstract specification) | refinement proved in `PaymentServiceProofs` |
| `KafkaConsumer` | `Consumer.Run` in a consumer group, one partition | `KafkaConsumerProofs` |
| `ConsumerGroup` | what a group promises about its partition: answers in turn, commits after handled messages (abstract) | refinement proved in `KafkaConsumerProofs` |
| `OutboxRelay` | `Relay.publishPending` of several services over one table | `OutboxRelayProofs` |
| `OutboxChannel` | what outbox and relays promise the services: committed events only, and for good (abstract) | refinement proved in `OutboxRelayProofs` |
| `InventoryService` | `HandleOrderCreated`, `HandleCompensation` | `InventoryServiceProofs` |
| `InventoryLifecycle` | what Inventory Service promises about an order (abstract) | refinement proved in `InventoryServiceProofs` |
| `OrderService` | `CreateOrder`, `CancelOrder` | `OrderServiceProofs` |
| `OrderLifecycle` | what Order Service promises about an order (abstract) | refinement proved in `OrderServiceProofs` |
| `ResilientStripe` | both circuit breakers of a process, the retry sequences in them, the goroutines that share them | `ResilientStripeProofs` |
| `PaymentSaga` | the three lifecycles composed over an outbox channel, topics and consumers | `PaymentSagaProofs` |

The compositions: `PaymentSaga` takes the actions of `OrderLifecycle`,
`PaymentLifecycle` and `InventoryLifecycle` through `INSTANCE` and gives each the
message it waits for; its relays are the `Deliver` of `OutboxChannel`, whose
`inserted` is what the three services have written (`Written`). That
`OrderService`, `PaymentService` and `InventoryService` implement these lifecycles
is what the `LifecycleSpec` theorems say, and that `OutboxRelay` implements the
channel what `ChannelSpec` says, so the saga stands for the detailed services and
relays. `ConsumerGroup` is not instantiated there: the saga knows only which
message a group has passed over, not offsets. Its `PassOver` stands for a `Fail`
of `ConsumerGroup` that a later `Commit` covers; the relation is in prose because
a late commit may hand such a message out again, so that whether it is passed over
for good is known only at the end.

`MC*` modules hold only what TLC needs: values for constants, symmetry.
Definitions introduced by "Mutant:" are deliberate bugs, each the alternative
form of the definition after it. No specification uses them; they are there to
show that the properties notice.

### Modelling decisions

*Transactions.* A worker (goroutine of any replica) has a `pc` at its next SQL
statement or Stripe call, a delivery `msg`, and a `draft` of what it wrote and
did not commit. Consecutive statements that no other transaction can tell apart
are one action; every statement that waits, reads committed data, or has an
effect outside the database is its own. `Abort` may happen before any of them
and stands for error returns, an open circuit, failed commits and crashes.

*READ COMMITTED.* Each statement reads what is committed at that moment. An
`UPDATE` or `SELECT ... FOR UPDATE` on an existing row waits for the row lock
and then sees the row's committed form; one that matches no committed row does
not wait. `INSERT ... ON CONFLICT DO NOTHING` waits for an uncommitted insert of
the same key (`KeyBusy`).

*Keys.* In `processed_events` the consumer group is a function of the event type
within a service, and services use different groups, so each service module has
its own `processed`. Advisory locks are per order; two orders whose ids collide
in `hashtextextended` would only wait for each other.

*Stripe.* The idempotency key makes the PaymentIntent a function of the order.
A charge request is in the network (`requests`) until it is lost or executed; the
handler may give up before or after. A request outlives the crash of its sender.
The verdict is fixed when the request arrives: `declined` means the caller got an
error, `failed` that it got a PaymentIntent whose webhook says failed. A refund
and its answer are one step; a lost answer is that step followed by `Abort`.
Keys are assumed to be remembered for as long as messages are redelivered.

*Delivery.* Anything once sent may be delivered any number of times, in any
order across topics and webhooks, to any worker. This is more than one partition
of Kafka allows and includes what rebalances and offset resets produce.

*Relay.* A row is named by its `created_at`, the start of its transaction. Rows
become visible in any order; `Precedes` lists pairs where one is committed before
the other's transaction starts (an order must be visible to be cancelled).
The `kafka.Writer` literal of `relay.go:27-30` leaves `RequiredAcks` at its zero
value, `RequireNone`: `WriteMessages` returns nil once the message is sent. So a
write only adds to `sent`, and `Arrives`, which need never happen, is a step of
its own; what is sent and never arrives is lost, whatever the row says. Sets are
enough: a second copy of an event, a late one or one sent again after a loss can
do nothing a single arrival at some time cannot. `Unwritable` events are those
the writer itself refuses with an error (larger than its batches); one that the
broker refuses is sent, marked and lost. When `MarkPublished` fails, or the session is
lost (`SessionLost`), Postgres ends the transaction and drops its row locks and
marks at once (`TxEnds`), while the loop goes on writing the rest of the batch:
the relay is then in `aborted`, holds nothing, every later mark fails too, and its
commit publishes nothing. Other relays may claim the same rows meanwhile.

*Consumer.* The kafka-go reader resumes at the committed offset only when it is
given the partition anew; between that it goes by its own position. A replica that
lost the partition is not told and may still finish and commit.

*Breaker.* A behaviour of `ResilientStripe` is the life of one process. gobreaker
is modelled from the settings the code gives it: a generation per state, counts
cleared when the state changes, results of calls admitted in an older generation
ignored (`current` holds the callers of the present one), any error a failure,
an ended context included. Time is only whether the timeout of an open breaker
has elapsed; the delays between attempts, and a closed breaker's interval (zero:
counts are never cleared), have no other effect. Charges are made by one
goroutine per process, the consumer of `order.created` (`payment-service/main.go:81`);
refunds by the consumer of cancels and by any number of webhooks. So a charge is
never refused by a half-open breaker, whose `ErrTooManyRequests`
`HandleOrderCreated` would publish as a final failure. The mutant `SharedBreaker`
shows what the second breaker is for.

*Saga.* A step is a commit of a service, the arrival of an event (`Publish`), its
loss on the way (`Lose`), or a message passed over: a handler fails and the consumer's next commit covers it (`PassOver`, what
`KafkaConsumer_lost_error` shows). Every message may be passed over, also where a
retry would in fact succeed, so the fate of an order is always one of more than
the code allows. Redelivery is not a step, since the services ignore it. Events
arrive in any order. `Lose` stands for a row that is marked published with no copy
of it ever arriving, so that no relay will send it again; a copy that is lost and
sent again by another relay is only a delay. A charge shows only in what Payment Service announces, at
once or by a webhook, and may stay open for ever. A refusal of Inventory Service
(`Refuse`) has no guard on the stock: between its look, which takes no lock, and
its commit a restock may have been committed.

*Products* named in an order are assumed to exist; an unknown product behaves
as one out of stock, apart from its restock doing nothing.

## 3. Runs

| Run | Instance | Shows |
|---|---|---|
| `PaymentService_race` | 1 order, 3 workers | all safety and action properties, deadlock freedom, refinement of `PaymentLifecycle`, and settlement of pending payments |
| `KafkaConsumer_group` | 2 replicas, 3 messages | nothing is passed over; every message is answered; refinement of `ConsumerGroup` |
| `OutboxRelay_table` | 2 relays, 3 events, batch of 2, one unwritable | only what was sent is marked, standing transactions share no row, progress behind an unwritable event, refinement of `OutboxChannel` |
| `InventoryService_stock` | 2 orders, 1 product with 1 piece, 3 workers | conservation, no negative stock, one verdict per message, refinement of `InventoryLifecycle` |
| `OrderService_cancels` | 2 orders, 3 workers | events match rows, one cancel wins, answers are true, refinement of `OrderLifecycle` |
| `ResilientStripe_breaker` | 1 charger, 2 refunders, 2 attempts, threshold 2 | final failures are exhausted retries, trials are alone, late results close nothing, the breakers recover |
| `PaymentSaga_orders` | 2 orders, 1 product with 1 piece | refunds follow cancels, paid orders keep their piece, overselling needs an undue restock, cancels and compensations take effect |

Why these are enough. All state of Payment Service is kept per order and
every statement touches one order, so a second order can only occupy workers;
three workers put the charge, the cancel and a webhook (or two copies of one
delivery and a third) in flight at once. Two replicas make a stale owner of a
partition and a new one; three messages give a failed one with one before and
after it. Two relays and batches smaller than the table give overlapping claims and
rows left for the next poll, and a relay that lost its locks beside one that took
them. Two orders and one piece give a winner, a loser and
a restock between them, and a third worker a second copy of a delivery. Two
attempts and a threshold of two are the least for which a failed attempt is not
yet a failed call and a failed call not yet a trip; two refunders on one breaker give
a trial, a refusal and a late result of an older generation, and the other breaker
shares nothing with it but Stripe's health. Two orders for one piece are the least
that can be oversold, and the orders of the saga meet nowhere but in the stock.
`OutboxRelay` stops when every event is published, and `PaymentSaga` when every
order is cancelled and everything is answered, so their runs do not look for
deadlock. `MaxPublished` is the only bound in a guard;
the proofs do not depend on its value.

Runs that fail on purpose: what comments of the code say, and the code does not do.

| Run | Claim | What happens |
|---|---|---|
| `PaymentService_early_webhook` | `webhook.go:42-46`: the webhook records the outcome | the webhook overtakes the commit of the payments row, is answered 200 as unknown and never comes again: pending for ever |
| `PaymentService_unrecorded_charge` | `handler.go:108-112`: exhausted retries are a final outcome | Stripe charged, its answers were lost: `payment.failed` for a charged order, no row for the webhook or a cancel to find |
| `KafkaConsumer_lost_error` | `consumer.go:13-14,50`: a failed message is redelivered | the loop goes on, and committing the next message passes the failed one |
| `InventoryService_restock` | `products_repo.go:40-42`: for a deducted order | a cancel that overtakes the deduction puts back a piece nobody took; so does a second compensation |
| `OutboxRelay_order` | `relay.go:29`, `order-service/handlers.go:85`: an order's events stay in order | a skipped write, a message lost without acknowledgement, or a second relay puts the cancel into Kafka before the order |

`UnrecordedIsNotCharged` is violated along a second path as well, longer than the
one TLC prints: a crash after the charge and before the commit, a cancel recorded
with no row to refund, and the redelivered order skipped as "Cancelled before we
charged" (`handler.go:88`).

More observations, which no run is spent on.

* `src/README.md:118` says of the relay that it "picks up unpublished rows and
  sends them to Kafka, retrying forever if it needs to". With `RequireNone` a row
  whose message the broker never got is marked published and not retried:
  `published \subseteq kafka` is false of `OutboxRelay` right after a commit, and
  stays false when nothing arrives. `PublishedWasSent` is what remains true, and
  the saga's liveness properties name the lost messages.
* `relay.go:53-57` says that other relays "skip rows this one is already handling
  instead of racing to publish them twice". After a failed mark they do not: one
  relay claims, its transaction is aborted, a second claims the same row, and both
  have it before them (five states of `OutboxRelay`). `ClaimsAreExclusive` is about
  the relays whose transactions stand.
* `order-service/handlers.go:152`
expects Payment Service to mark orders paid; nobody does, so paid and failed
orders stay pending and can be cancelled (`CancelsSettle` shows the money
follows).
* Nobody consumes `inventory.failed`: an order refused for want of
stock is charged all the same.

### Fairness

* Payment Service (`PendingIsSettled`): a transaction in progress ends (weak
  fairness of each worker: every Stripe call has a context and a finite retry
  schedule, and Postgres ends the transactions of dead clients). Stripe redelivers
  an event that was not answered with 200 (strong: a worker must be free, and is
  again and again). A waiting `UPDATE` gets its row lock (strong: Postgres queues
  waiters). From some time on webhooks do not fail. Nothing is assumed of the
  consumers, whose handlers may fail for ever.
* Consumer (`EveryMessageIsAnswered`): each loop takes its steps, an unassigned
  partition is assigned, crashes and rebalances end.
* Relay (`WritableIsPublished`): each relay polls; outages (failed writes of
  writable events, aborted transactions, dying relays) end, but an unwritable
  event fails for ever. Nothing is assumed of the network: published means sent.
* Breaker (`Recovers`): timers go off, attempts end (the HTTP client has a
  timeout), calls return, and calls keep being made: a breaker changes only when
  it is looked at. From some time on Stripe is healthy and no context ends in the
  middle of a call. An interrupted trial counts as failed and opens the breaker
  again, so before that it may go on for ever.
* Saga (`CancelsSettle`, `PiecesComeBack`): an event that is written arrives or is
  lost (`Publish` or `Lose`): the relays publish it (`WritableIsPublished`; events are
  small, so all are writable), hence it was sent (`PublishedWasSent`), and no
  message is on its way for ever. A consumer answers a message or passes it over
  (`EveryMessageIsAnswered`). Nothing is assumed of clients, nor that a charge
  ever gets an outcome.

## 4. Proofs

Proved for every value of the constants, from the named assumptions only
(`NoWorker` and `NoConsumer` are not workers or consumers; events are a finite
set of numbers; the batch size is positive; `MaxPublished` is a number; every
order has a product, every product a stock, and the orders are finitely many; the
charger is no refunder; attempts and threshold are positive).

**PaymentService.** `Inductive` proves `InductiveInv`, from which the theorems
`TypeCorrect`, `CancelledIsRefunded`, `EventsAreConsistent`, `MarksAreHonest`,
`OnlyOwedRefunds`, `CancelStopsCharge`, `PaymentsNeverGoBack` and
`ImplementsLifecycle` follow, and `DeadlockFree` with the help of `HoldersArePast`.
The safety properties talk about committed rows; they are not inductive because a commit
makes true whatever the draft says. The invariant adds, per transaction, which
delivery can be at which statement (`StepFits`), which locks it holds there
(`LocksHeld`), what its draft can be and which of the facts it has read still
stand (`DraftFits`), and that a key is held by at most one transaction and not
committed (`KeyIsNew`, `KeysAreHeldOnce`). For instance a charge in progress stands
on `o \notin cancelled`, which only a cancel's commit could falsify, and the cancel
would need the advisory lock the charger holds. `StatusMatchesMarks` ties the
`payments` row to the webhook's marks, so a second webhook must find its key and
roll its status update back. Deadlock freedom orders the waits: key, advisory
lock, row lock for the consumers; a webhook waits for its row first and then for
a key only another webhook of the same order could hold, and that one would hold the row.
`MoneyIsAccountedFor` is the safety half of `PendingIsSettled` and of the
refunds: while a row is pending, the key of the webhook that settles it is new,
and a charged and cancelled order with a row is refunded or waits for that webhook.
What it leaves out are the two findings about Payment Service: the webhook may
have been acknowledged too early, and there may be no row.

**KafkaConsumer.** The committed offset covers only answered messages because a
loop's position does (`LoopSkipsNothing`), except the message it handles.
`ImplementsGroup` follows from the same conjuncts: a loop handles a message only
when all before it are answered, also after a crash, a rebalance or as a stale
owner, and commits only what its handler has handled. `CaughtUp` is the safety
half of `EveryMessageIsAnswered`: a loop at the end of its partition has left
nothing unanswered.

**OutboxRelay.** The invariant follows the life of a claim (`ClaimsFit`): while a
relay's transaction stands, its batch is within its row locks and what it has marked
it has sent; once Postgres has ended the transaction it has neither locks nor marks,
and only its batch is left. `TxEndsFits` states this once for the failed mark, the
lost session, the commit and the rollback. Locks are disjoint because a claim
takes only free rows (`LocksAreExclusive`), so the work of standing transactions
is (`RelaysDoNotOverlap`), and a commit publishes only what was sent
(`RelaysLoseNothing`). Whatever is sent is committed (`sent \subseteq inserted`),
so an arrival is the channel's `Deliver` and every step of a relay a stutter
(`ImplementsChannel`). Two
theorems are about the `LIMIT` of the claim, `Oldest`: a claim is never larger than a
batch (`ClaimsAreBounded`), and with fewer unwritable events than a batch it
reaches a writable event whenever one is free (`UnwritableDoNotStarve`), which is
the safety half of `WritableIsPublished`. The hypothesis cannot be weakened: with
as many unwritable events as a batch the claim may hold nothing else. Both rest on
the least and the greatest element of a set of events, from the well-foundedness
of the natural numbers.

**OrderService.** A transaction about to commit holds its row's lock and what
it saw under the lock still stands (`WorkerInv`), so no two cancels of an order
commit.

`ImplementsLifecycle` maps a create's and a cancel's commit
to the lifecycle's steps and everything else to stuttering.

**InventoryService.** `InductiveInv` says that the key of an open transaction is
new and held once, and that a transaction about to commit holds the lock on the
product's row, so the stock it saw is still there. The conservation law counts
orders: a commit adds one new order to one of three finite sets, which
`FS_AddElement` turns into one more. `ImplementsLifecycle` follows from the same
invariant: without the lock, a deduction would not be a step of the lifecycle.

**ResilientStripe.** The breaker's invariant (`BreakerInv`) ties the state to the
calls of its generation: an open breaker has none, a half-open one at most the
one it counted. The charger is alone on its breaker, so the trial that could make
it be refused would be its own; hence `FinalFailureIsExhausted`.
The safety half of `Recovers` is `NoBreakerIsStuck`: a half-open breaker has its
trial under way, or the next call is one.

**PaymentSaga.** `OrderInv` says that a service acts only on events that are in
Kafka, that these were written, and what an order's status and outcome say about
them. `RefundedWasCancelled` and `PaidKeepsItsPiece` then go back from a
refund, or from a restock, through the event to the service that wrote it.
`StockIsConserved` is the stock law of Inventory Service across the steps of all
services; `SoldWasInStock` is not inductive without it. If no order is restocked
twice or undeducted, the two sets of compensated orders are disjoint parts of the
deducted ones, so the orders that hold a piece are the difference
(`HeldAreTheRest`), and the law bounds their number by the stock there was.
`PartsKeepTheirPromises` goes back from the composition to its parts: each
service's variables follow its lifecycle, and all they write goes through one
`OutboxChannel`, since a step writes at most one event and takes none back
(`WritesOne`). `RestIsConsistent` is the safety half of `CancelsSettle` and
`PiecesComeBack`: when everything written has arrived or is lost and what consumers hear is
handled, every cancel and every failed payment has had its effect, or the message
that says so was lost or passed over; a piece stays away only if every such message
was.

The five safety halves, `ClaimsAreBounded` and `PartsKeepTheirPromises` state
more than the runs do: the definitions they are about are in the proof modules.
Left to TLC: the six liveness properties, since fairness and ENABLED are beyond
the prover. Every other property of a run is stated by a theorem.

## 5. Not modelled

GetOrder, health checks, start-up and shutdown, topic creation, migrations, the
connection pool, request validation, signatures and JSON: no state of the protocol, or a
failure that `Abort` covers (a message that cannot be parsed is a handler that
always fails). Amounts and users do not influence control. The order in which
`main` starts goroutines and creates topics is straight-line code: a failure ends
the process before it does anything. A shutdown cancels contexts, which is `Abort`
in the services and `ContextEnds` in the breaker. The tests' database container and the
deployment files hold no logic of the program. Three things are idealised: Stripe
remembers idempotency keys for as long as messages are redelivered; advisory locks
of different orders do not collide (a collision only makes one wait); and in the
services a database session lives as long as its handler. The last matters for a charge:
its four attempts, seconds apart, are one `SendCharge`, and a session lost
between them would drop the advisory lock while the handler goes on, so that a cancel
could be committed before a later attempt. `NoChargeAfterCancel` holds under
this assumption. The relay, whose loop goes on just so, has no such idealisation.

## 6. How the project is laid out, and what is left

The services are specified one by one and shown to implement their lifecycles;
the lifecycles are composed. The parts they share, relay and consumer, are
specified on their own and implement abstract ones: the saga instantiates the
channel, and uses of the group what it promises, answers or losses. That an event
may be lost before it arrives needs no channel of its own: `OutboxChannel` never
promises that `Deliver` happens.

Possible next steps: a saga with partitions and offsets, in which `PassOver`
becomes a step of `ConsumerGroup`; reads of several rows (GetOrder) against the
lifecycle; the services' start-up against the topics it creates.
