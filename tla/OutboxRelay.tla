----------------------------- MODULE OutboxRelay -----------------------------
(***************************************************************************)
(* The relay half of the transactional outbox (internal/outbox/relay.go)   *)
(* over the outbox_events table (internal/db/outbox_repo.go).  Every       *)
(* service runs a relay and all of them poll the one table: each claims a  *)
(* batch of unpublished rows, writes them to Kafka one by one, marks them  *)
(* and commits.  The claim is the row locks of one transaction: Postgres   *)
(* drops them when a statement fails, and the loop goes on without them.   *)
(*                                                                         *)
(* The writer is made with RequiredAcks at its zero value, RequireNone: it *)
(* asks for no answer of the broker, so a write that returns nil means the *)
(* event was sent, not that Kafka has it.                                  *)
(***************************************************************************)
EXTENDS Naturals, FiniteSets

CONSTANTS
  Events,     \* outbox rows, each named by its created_at
  Precedes,   \* pairs of events of one order, the first committed before the
              \* transaction of the second began (an order and its cancel)
  Unwritable, \* events the writer itself refuses, larger than its batches
  Relays,     \* relays polling the table
  BatchSize   \* rows claimed at a time

ASSUME EventsAssumption == Events \subseteq Nat /\ IsFiniteSet(Events)
ASSUME PrecedesAssumption == \A p \in Precedes : p \in Events \X Events /\ p[1] < p[2]
ASSUME BatchAssumption == BatchSize \in Nat \ {0}

VARIABLES
  inserted,  \* committed rows
  published, \* rows with published_at set
  sent,      \* events some write has sent to the broker
  kafka,     \* events some consumer can read
  claimed,   \* the rows each relay's transaction has locked
  todo,      \* the rows of its batch the loop has not come to yet
  marked,    \* those it has marked, uncommitted
  aborted    \* relays that are in the loop with a transaction Postgres ended

broker == <<sent, kafka>>
txs    == <<claimed, todo, marked, aborted>>
vars   == <<inserted, published, broker, txs>>

(* The types of the variables.                                             *)
TypeOK ==
  /\ inserted \subseteq Events
  /\ published \subseteq Events
  /\ sent \subseteq Events
  /\ kafka \subseteq Events
  /\ claimed \in [Relays -> SUBSET Events]
  /\ todo \in [Relays -> SUBSET Events]
  /\ marked \in [Relays -> SUBSET Events]
  /\ aborted \subseteq Relays

Init ==
  /\ inserted = {}
  /\ published = {}
  /\ sent = {}
  /\ kafka = {}
  /\ claimed = [r \in Relays |-> {}]
  /\ todo = [r \in Relays |-> {}]
  /\ marked = [r \in Relays |-> {}]
  /\ aborted = {}

-----------------------------------------------------------------------------
(* A handler commits its business data and the event that describes it.    *)
(* created_at is the start of its transaction: rows may become visible out *)
(* of created_at order.                                                    *)
Insert(e) ==
  /\ e \notin inserted
  /\ \A d \in Events : <<d, e>> \in Precedes => d \in inserted
  /\ inserted' = inserted \cup {e}
  /\ UNCHANGED <<published, broker, txs>>

(* A copy of an event reaches its topic.  No step need follow a write: a   *)
(* broker that refuses a message or dies loses it, and nobody is told.     *)
Arrives(e) ==
  /\ e \in sent \ kafka
  /\ kafka' = kafka \cup {e}
  /\ UNCHANGED <<inserted, published, sent, txs>>

-----------------------------------------------------------------------------
(* Mutant: the claim takes no row lock. *)
Unpublished == inserted \ published

(* Mutant: the claim sees rows whose transaction is still open. *)
Uncommitted == {e \in Events \ published : \A r \in Relays : e \notin claimed[r]}

(* Unpublished rows that no transaction has locked: FOR UPDATE SKIP LOCKED.*)
Free == {e \in inserted \ published : \A r \in Relays : e \notin claimed[r]}

(* The LIMIT oldest of them. *)
Oldest(S) == {e \in S : Cardinality({d \in S : d < e}) < BatchSize}

(* The relay is between its claim and the end of publishPending. *)
Busy(r) == claimed[r] # {} \/ r \in aborted

FetchAndClaim(r) ==
  /\ ~Busy(r)
  /\ Free # {}
  /\ claimed' = [claimed EXCEPT ![r] = Oldest(Free)]
  /\ todo' = [todo EXCEPT ![r] = Oldest(Free)]
  /\ UNCHANGED <<inserted, published, broker, marked, aborted>>

(* The loop goes through the batch in the order of created_at. *)
IsNext(r, e) == e \in todo[r] /\ \A d \in todo[r] : e <= d

Done(r, e) == todo' = [todo EXCEPT ![r] = @ \ {e}]

(* Mutant: MarkPublished does not use tx: marks outlive the transaction.   *)
MarksSurvive(r) ==
  /\ claimed' = [claimed EXCEPT ![r] = {}]
  /\ UNCHANGED marked

(* The transaction ends, by its commit or rollback, or because Postgres    *)
(* aborts it: its locks and its uncommitted marks go at once.              *)
TxEnds(r) ==
  /\ claimed' = [claimed EXCEPT ![r] = {}]
  /\ marked' = [marked EXCEPT ![r] = {}]

(* WriteMessages returns nil and MarkPublished succeeds. *)
WriteAndMark(r, e) ==
  /\ IsNext(r, e) /\ r \notin aborted
  /\ e \notin Unwritable
  /\ Done(r, e)
  /\ sent' = sent \cup {e}
  /\ marked' = [marked EXCEPT ![r] = @ \cup {e}]
  /\ UNCHANGED <<inserted, published, kafka, claimed, aborted>>

(* WriteMessages returns nil and MarkPublished fails, the first time or    *)
(* again in a transaction that is aborted already.  The loop only logs it. *)
MarkFails(r, e) ==
  /\ IsNext(r, e)
  /\ e \notin Unwritable
  /\ Done(r, e)
  /\ sent' = sent \cup {e}
  /\ aborted' = aborted \cup {r}
  /\ TxEnds(r)
  /\ UNCHANGED <<inserted, published, kafka>>

(* Postgres ends the session of a relay that is in its loop and finds out  *)
(* by its next mark, or by its commit.                                     *)
SessionLost(r) ==
  /\ claimed[r] # {}
  /\ aborted' = aborted \cup {r}
  /\ TxEnds(r)
  /\ UNCHANGED <<inserted, published, broker, todo>>

(* What a failed write may have sent: an attempt that reached the broker,  *)
(* but nothing the writer refuses.                                         *)
PerhapsSent(e) == {sent} \cup {sent \cup {x} : x \in {e} \ Unwritable}

(* Mutant: the failed event is marked like the others. *)
WriteFailsMarked(r, e) ==
  /\ IsNext(r, e)
  /\ Done(r, e)
  /\ sent' \in PerhapsSent(e)
  /\ marked' = [marked EXCEPT ![r] = IF r \in aborted THEN @ ELSE @ \cup {e}]
  /\ UNCHANGED <<inserted, published, kafka, claimed, aborted>>

(* Mutant: the rest of the batch is given up. *)
WriteFailsStops(r, e) ==
  /\ IsNext(r, e)
  /\ todo' = [todo EXCEPT ![r] = {}]
  /\ sent' \in PerhapsSent(e)
  /\ UNCHANGED <<inserted, published, kafka, claimed, marked, aborted>>

(* WriteMessages returns an error: the loop goes on to the next event.     *)
WriteFails(r, e) ==
  /\ IsNext(r, e)
  /\ Done(r, e)
  /\ sent' \in PerhapsSent(e)
  /\ UNCHANGED <<inserted, published, kafka, claimed, marked, aborted>>

(* publishPending returns. *)
Release(r) ==
  /\ TxEnds(r)
  /\ todo' = [todo EXCEPT ![r] = {}]
  /\ aborted' = aborted \ {r}

(* An aborted transaction has nothing left to commit. *)
Commit(r) ==
  /\ Busy(r) /\ todo[r] = {}
  /\ published' = published \cup marked[r]
  /\ Release(r)
  /\ UNCHANGED <<inserted, broker>>

(* The relay dies, or its commit fails: rolled back. *)
Rollback(r) ==
  /\ Busy(r)
  /\ Release(r)
  /\ UNCHANGED <<inserted, published, broker>>

Next ==
  \/ \E e \in Events : Insert(e) \/ Arrives(e)
  \/ \E r \in Relays :
       \/ FetchAndClaim(r) \/ SessionLost(r) \/ Commit(r) \/ Rollback(r)
       \/ \E e \in Events : WriteAndMark(r, e) \/ MarkFails(r, e) \/ WriteFails(r, e)

Spec == Init /\ [][Next]_vars

(* Relays poll for ever, and outages end: from some time on only the       *)
(* unwritable events fail, and no transaction is aborted that is not yet.  *)
(* Nothing is assumed of the network: what is sent need not arrive.        *)
Polls(r) ==
  \/ FetchAndClaim(r) \/ Commit(r)
  \/ \E e \in Events :
       \/ WriteAndMark(r, e)
       \/ r \in aborted /\ MarkFails(r, e)
       \/ e \in Unwritable /\ WriteFails(r, e)

Outage ==
  \E r \in Relays :
    \/ SessionLost(r) \/ (Rollback(r) /\ ~Commit(r))
    \/ \E e \in Events :
         \/ r \notin aborted /\ MarkFails(r, e)
         \/ e \notin Unwritable /\ WriteFails(r, e)

Fairness ==
  /\ \A r \in Relays : WF_vars(Polls(r))
  /\ <>[][~Outage]_vars

FairSpec == Spec /\ Fairness

-----------------------------------------------------------------------------
(* Properties *)

(* A row is committed as published only if a write of its event was sent,  *)
(* whatever failed, aborted or died in between.  So a published event that *)
(* Kafka does not have was lost by the broker or on the way to it, which a *)
(* writer without acknowledgements cannot notice, and not by the relays.   *)
PublishedWasSent == published \subseteq sent

(* What a relay has before it and what it has marked. *)
Work(r) == todo[r] \cup marked[r]

(* Relays whose transactions stand never work on the same row, nor on one  *)
(* that is already published, also while a relay whose transaction was     *)
(* aborted goes on with its batch: an event is published twice only after  *)
(* a failure, and never marked twice.                                      *)
ClaimsAreExclusive ==
  \A r \in Relays \ aborted :
    /\ Work(r) \cap published = {}
    /\ \A s \in Relays \ (aborted \cup {r}) : Work(r) \cap Work(s) = {}

(* An event the writer takes gets published, even behind events it never   *)
(* takes, as long as these are fewer than a batch.                         *)
WritableIsPublished ==
  \A e \in Events \ Unwritable : e \in inserted ~> e \in published

Channel == INSTANCE OutboxChannel

(* The relays implement the abstract channel: whatever batches are rolled  *)
(* back, written twice or only half marked, Kafka is given committed       *)
(* events only, so no consumer hears of work that was not done.            *)
ChannelSpec == Channel!Spec

(* What a relay marks it holds and has sent, and what it works on it holds *)
(* until its transaction is aborted; then it holds nothing.                *)
ClaimsFit ==
  \A r \in Relays :
    /\ claimed[r] \cup todo[r] \subseteq inserted
    /\ marked[r] \subseteq claimed[r] \cap sent
    /\ IF r \in aborted THEN claimed[r] = {} ELSE todo[r] \subseteq claimed[r]

(* A row is locked by one transaction, and not once it is published.       *)
LocksAreExclusive ==
  /\ \A r \in Relays : claimed[r] \cap published = {}
  /\ \A r, s \in Relays : r # s => claimed[r] \cap claimed[s] = {}

(* Claims, marks and the table fit together at every point of every relay. *)
InductiveInv ==
  /\ TypeOK
  /\ kafka \subseteq sent /\ sent \subseteq inserted
  /\ ClaimsFit
  /\ LocksAreExclusive
  /\ PublishedWasSent

-----------------------------------------------------------------------------
(* What a comment of the code claims and the relay does not do. *)

(* A given order's events stay in order: the later one never reaches Kafka *)
(* before the earlier one.                                                 *)
OrdersStayInOrder ==
  \A p \in Precedes : p[2] \in kafka => p[1] \in kafka
=============================================================================
