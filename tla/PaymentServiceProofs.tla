------------------------ MODULE PaymentServiceProofs ------------------------
(***************************************************************************)
(* Machine-checked proofs about PaymentService, for every set of orders    *)
(* and every set of workers.                                               *)
(***************************************************************************)
EXTENDS PaymentService, TLAPS

USE NoWorkerAssumption

(***************************************************************************)
(* Type correctness.                                                       *)
(***************************************************************************)

(* Empty tables and idle workers are well typed.                           *)
LEMMA InitTypeOK == Init => TypeOK
  BY DEF Init, TypeOK, Statuses, Drafts, NoDraft, Steps, OutEvents

(* Ending a transaction keeps the types of what it touches. *)
LEMMA EndTxTypes ==
  ASSUME TypeOK, NEW w \in Workers, EndTx(w)
  PROVE  /\ pc' \in [Workers -> Steps]
         /\ msg' \in [Workers -> Messages \cup {NoMessage}]
         /\ \A v \in Workers : pc'[v] # "idle" => msg'[v] \in Messages
         /\ draft' \in [Workers -> Drafts]
         /\ advisory' \in [Orders -> Workers \cup {NoWorker}]
         /\ rowLock' \in [Orders -> Workers \cup {NoWorker}]
  BY DEF TypeOK, EndTx, Goto, Drafts, NoDraft, Statuses, Steps

(* Every statement of a handler keeps the types.                           *)
LEMMA HandleTypeOK ==
  ASSUME TypeOK, NEW w \in Workers, Handle(w)
  PROVE  TypeOK'
  <1> DEFINE o == Order(w)
  <1>0. pc[w] # "idle"
    BY DEF Handle, MarkProcessed, AlreadyProcessed, LockOrder, Refund, Commit, SkipCharge,
           MayCharge, SendCharge, ChargeAccepted, ChargeFailed, RecordCancel, UpdateStatus,
           UnknownIntent, Announce, AfterCancel
  <1>1. msg[w] \in Messages /\ o \in Orders
    BY <1>0 DEF TypeOK, Messages, Order
  <1> USE <1>1 DEF TypeOK, Goto, Steps, stripeVars, tables, locks
  <1>2. CASE MarkProcessed(w)
    BY <1>2 DEF MarkProcessed
  <1>3. CASE AlreadyProcessed(w)
    BY <1>3, EndTxTypes DEF AlreadyProcessed, Ack
  <1>4. CASE LockOrder(w)
    BY <1>4 DEF LockOrder
  <1>5. CASE Refund(w)
    BY <1>5 DEF Refund, Refunding, Drafts, Statuses, OutTypes
  <1>6. CASE Commit(w)
    <2>1. draft[w].status \in Statuses /\ draft[w].event \in OutTypes \cup {"none"}
      BY DEF Drafts
    <2>2. payments' \in [Orders -> Statuses]
      BY <1>6, <2>1 DEF Commit
    <2>3. outbox' \in [OutEvents -> Nat]
      <3> DEFINE e == Msg(draft[w].event, o)
      <3>1. CASE draft[w].event = "none"
        BY <1>6, <3>1 DEF Commit
      <3>2. CASE draft[w].event # "none"
        <4>1. e \in OutEvents
          BY <2>1, <3>2 DEF OutEvents, Msg
        <4>2. outbox' = [outbox EXCEPT ![e] = @ + 1]
          BY <1>6, <3>2 DEF Commit
        <4> QED BY <4>1, <4>2
      <3> QED BY <3>1, <3>2
    <2>4. EndTx(w) /\ Ack(w) /\ UNCHANGED <<requests, intent, refunded, cancels>>
      BY <1>6 DEF Commit
    <2>5. processed' \subseteq Messages /\ cancelled' \subseteq Orders
      BY <1>6 DEF Commit
    <2>6. acked' \subseteq Orders
      BY <2>4 DEF Ack
    <2> QED BY <2>2, <2>3, <2>4, <2>5, <2>6, EndTxTypes
  <1>7. CASE SkipCharge(w) \/ MayCharge(w) \/ SendCharge(w)
    BY <1>7 DEF SkipCharge, MayCharge, SendCharge
  <1>8. CASE ChargeAccepted(w) \/ ChargeFailed(w)
    <2>1. [status |-> "pending", event |-> "none"] \in Drafts
      BY DEF Drafts, Statuses
    <2>2. [status |-> "none", event |-> "payment.failed"] \in Drafts
      BY DEF Drafts, Statuses, OutTypes
    <2>3. CASE ChargeAccepted(w)
      BY <2>1, <2>3 DEF ChargeAccepted
    <2>4. CASE ChargeFailed(w)
      BY <2>2, <2>4 DEF ChargeFailed
    <2> QED BY <1>8, <2>3, <2>4
  <1>9. CASE RecordCancel(w)
    BY <1>9 DEF RecordCancel
  <1>10. CASE UpdateStatus(w)
    BY <1>10 DEF UpdateStatus, StatusOf, Drafts, Statuses
  <1>11. CASE UnknownIntent(w)
    BY <1>11, EndTxTypes DEF UnknownIntent, Ack
  <1>12. CASE Announce(w)
    BY <1>12 DEF Announce, EventOf, Drafts, OutTypes
  <1>13. CASE AfterCancel(w)
    BY <1>13 DEF AfterCancel
  <1> QED
    BY <1>2, <1>3, <1>4, <1>5, <1>6, <1>7, <1>8, <1>9, <1>10, <1>11, <1>12, <1>13 DEF Handle

(* Every step of the service and of its environment keeps the types.       *)
LEMMA NextTypeOK == TypeOK /\ [Next]_vars => TypeOK'
  <1> SUFFICES ASSUME TypeOK, [Next]_vars
               PROVE  TypeOK'
    OBVIOUS
  <1>1. ASSUME NEW o \in Orders, PublishCancel(o)
        PROVE  TypeOK'
    BY <1>1 DEF PublishCancel, TypeOK, stripeVars, tables, locks
  <1>2. ASSUME NEW o \in Orders, ChargeRequestArrives(o)
        PROVE  TypeOK'
    BY <1>2 DEF ChargeRequestArrives, TypeOK, tables, locks
  <1>3. ASSUME NEW w \in Workers, NEW m \in Messages, Deliver(w, m)
        PROVE  TypeOK'
    BY <1>3 DEF Deliver, Goto, TypeOK, Steps, stripeVars, tables, locks
  <1>4. ASSUME NEW w \in Workers, Abort(w)
        PROVE  TypeOK'
    BY <1>4, EndTxTypes DEF Abort, TypeOK, stripeVars, tables
  <1>5. CASE UNCHANGED vars
    BY <1>5 DEF vars, TypeOK, stripeVars, tables, locks
  <1> QED
    BY <1>1, <1>2, <1>3, <1>4, <1>5, HandleTypeOK DEF Next

(* Every variable keeps its type: the prover's view of the tables, locks   *)
(* and open transactions of the service is well formed in every state.     *)
THEOREM TypeCorrect == Spec => []TypeOK
  BY InitTypeOK, NextTypeOK, PTL DEF Spec


(***************************************************************************)
(* The inductive invariant.                                                *)
(***************************************************************************)

(* Empty tables and idle workers satisfy the invariant.                    *)
LEMMA InitInv == Init => InductiveInv
  <1> SUFFICES ASSUME Init PROVE InductiveInv
    OBVIOUS
  <1>1. TypeOK
    BY InitTypeOK
  <1>2. \A w \in Workers : WorkerInv(w)
    BY DEF Init, WorkerInv, StepFits, LocksHeld, DraftFits, KeyIsNew, Marked
  <1>3. KeysAreHeldOnce
    BY DEF Init, KeysAreHeldOnce, Marked
  <1>4. TableInv
    BY DEF Init, TableInv, StatusMatchesMarks, MarksMatchWork, NoSucceededAfterCancel,
           EventsMatchPayments, RefundsAreOwed, Announced, Msg, OutEvents, OutTypes
  <1> QED BY <1>1, <1>2, <1>3, <1>4 DEF InductiveInv

(* What a step leaves of a worker that takes no part in it. *)
Untouched(v) ==
  /\ pc'[v] = pc[v] /\ msg'[v] = msg[v] /\ draft'[v] = draft[v]
  /\ \A o \in Orders : /\ advisory[o] = v => advisory'[o] = v
                       /\ rowLock[o] = v => rowLock'[o] = v

(* What Stripe and the cancel topic have said is never taken back. *)
NothingTakenBack ==
  /\ \A o \in Orders : intent[o] # "none" => intent'[o] = intent[o]
  /\ refunded \subseteq refunded'
  /\ cancels \subseteq cancels'

(* A step that commits nothing keeps the invariant of every other worker. *)
LEMMA OthersKept ==
  ASSUME TypeOK, NEW v \in Workers, WorkerInv(v), Untouched(v), NothingTakenBack,
         UNCHANGED tables
  PROVE  WorkerInv(v)'
  <1>0. CASE pc[v] = "idle"
    BY <1>0 DEF WorkerInv, StepFits, LocksHeld, DraftFits, KeyIsNew, Untouched, Marked
  <1>a. CASE pc[v] # "idle"
    <2>0. /\ Order(v) \in Orders
          /\ msg[v].type \in Topics \cup HookTypes
          /\ Order(v)' = Order(v)
      BY <1>a DEF TypeOK, Messages, Order, Untouched
    <2>1. StepFits(v)'
      BY <1>a, <2>0 DEF WorkerInv, StepFits, Untouched, Available, NothingTakenBack, IsHook, Order
    <2>2. LocksHeld(v)'
      BY <2>0 DEF WorkerInv, LocksHeld, Untouched, IsHook, tables
    <2>3. DraftFits(v)'
      BY <2>0 DEF WorkerInv, DraftFits, Untouched, tables, NothingTakenBack
    <2>4. KeyIsNew(v)'
      BY DEF WorkerInv, KeyIsNew, Marked, Untouched, tables
    <2> QED BY <2>1, <2>2, <2>3, <2>4 DEF WorkerInv
  <1> QED BY <1>0, <1>a

(* A step that commits nothing and refunds only what is owed keeps what is *)
(* true of the committed rows.                                             *)
LEMMA TablesKept ==
  ASSUME TypeOK, TableInv, UNCHANGED tables, NothingTakenBack,
         \A o \in refunded' \ refunded : o \in cancels /\ intent[o] = "succeeded"
  PROVE  TableInv'
  <1>1. StatusMatchesMarks'
    BY DEF TableInv, StatusMatchesMarks, tables, NothingTakenBack, Announced, Msg
  <1>2. MarksMatchWork' /\ NoSucceededAfterCancel' /\ EventsMatchPayments'
    BY DEF TableInv, MarksMatchWork, NoSucceededAfterCancel, EventsMatchPayments, tables, Announced
  <1>3. RefundsAreOwed'
    BY DEF TypeOK, TableInv, RefundsAreOwed, tables, NothingTakenBack
  <1>4. (cancelled \subseteq cancels)'
    BY DEF TableInv, tables, NothingTakenBack
  <1> QED BY <1>1, <1>2, <1>3, <1>4 DEF TableInv

(* A step after which no other worker holds a key it did not hold before,  *)
(* and w none that is busy, keeps keys exclusive.                          *)
LEMMA KeysKept ==
  ASSUME KeysAreHeldOnce, NEW w \in Workers,
         \A v \in Workers \ {w} : pc'[v] = pc[v] /\ msg'[v] = msg[v],
         Marked(w)' => msg'[w] = msg[w] /\ (Marked(w) \/ ~KeyBusy(w))
  PROVE  KeysAreHeldOnce'
  BY DEF KeysAreHeldOnce, Marked, KeyBusy

(* A step of w that commits nothing: what remains to be shown is about w.  *)
LEMMA QuietStep ==
  ASSUME InductiveInv, TypeOK', NEW w \in Workers,
         \A v \in Workers \ {w} : Untouched(v),
         Marked(w)' => msg'[w] = msg[w] /\ (Marked(w) \/ ~KeyBusy(w)),
         UNCHANGED tables, NothingTakenBack,
         \A o \in refunded' \ refunded : o \in cancels /\ intent[o] = "succeeded",
         WorkerInv(w)'
  PROVE  InductiveInv'
  <1>1. (\A v \in Workers : WorkerInv(v))'
    BY OthersKept DEF InductiveInv
  <1>2. KeysAreHeldOnce'
    BY KeysKept DEF InductiveInv, Untouched
  <1>3. TableInv'
    BY TablesKept DEF InductiveInv
  <1> QED BY <1>1, <1>2, <1>3 DEF InductiveInv

(* A transaction that ends without a commit. *)
LEMMA EndTxKeeps ==
  ASSUME InductiveInv, TypeOK', NEW w \in Workers, EndTx(w),
         UNCHANGED <<tables, intent, refunded, cancels>>
  PROVE  InductiveInv'
  <1> USE DEF InductiveInv, TypeOK
  <1>1. pc'[w] = "idle" /\ msg'[w] = NoMessage /\ draft'[w] = NoDraft
    BY DEF EndTx, Goto
  <1>2. \A v \in Workers \ {w} : Untouched(v)
    BY DEF EndTx, Goto, Untouched
  <1>3. ~Marked(w)'
    BY <1>1 DEF Marked
  <1>4. WorkerInv(w)'
    BY <1>1, <1>3 DEF WorkerInv, StepFits, LocksHeld, DraftFits, KeyIsNew, IsHook, NoMessage, Topics, HookTypes
  <1>5. NothingTakenBack
    BY DEF NothingTakenBack
  <1> QED BY <1>2, <1>3, <1>4, <1>5, QuietStep

(* The steps of the environment touch no worker. *)
LEMMA EnvironmentKeeps ==
  ASSUME InductiveInv, TypeOK', NEW o \in Orders, PublishCancel(o) \/ ChargeRequestArrives(o)
  PROVE  InductiveInv'
  <1>1. NothingTakenBack
    BY DEF InductiveInv, TypeOK, PublishCancel, ChargeRequestArrives, NothingTakenBack, stripeVars
  <1>2. UNCHANGED <<tables, pc, msg, draft, locks, refunded>>
    BY DEF PublishCancel, ChargeRequestArrives, stripeVars
  <1>3. \A v \in Workers : Untouched(v)
    BY <1>2 DEF Untouched, locks
  <1>4. (\A v \in Workers : WorkerInv(v))'
    BY <1>1, <1>2, <1>3, OthersKept DEF InductiveInv
  <1>5. TableInv'
    BY <1>1, <1>2, TablesKept DEF InductiveInv
  <1>6. KeysAreHeldOnce'
    BY <1>2 DEF InductiveInv, KeysAreHeldOnce, Marked
  <1> QED BY <1>4, <1>5, <1>6 DEF InductiveInv

(* A delivery begins a transaction that has read and locked nothing.       *)
LEMMA DeliverKeeps ==
  ASSUME InductiveInv, TypeOK', NEW w \in Workers, NEW m \in Messages, Deliver(w, m)
  PROVE  InductiveInv'
  <1> USE DEF InductiveInv, TypeOK
  <1>1. /\ pc'[w] = IF m.type \in HookTypes THEN "update" ELSE "mark"
        /\ msg'[w] = m /\ draft'[w] = draft[w]
        /\ UNCHANGED <<stripeVars, cancels, tables, locks>>
    BY DEF Deliver, Goto
  <1>2. m.type \in Topics \cup HookTypes
    BY DEF Messages
  <1>3. draft[w] = NoDraft
    BY DEF WorkerInv, DraftFits, Deliver
  <1>4. \A v \in Workers \ {w} : Untouched(v)
    BY DEF Deliver, Goto, Untouched, locks
  <1>5. ~Marked(w)' /\ NothingTakenBack
    BY <1>1 DEF Marked, NothingTakenBack, stripeVars
  <1>6. m # NoMessage
    BY <1>2 DEF NoMessage, Topics, HookTypes
  <1>7. WorkerInv(w)'
    <2>1. StepFits(w)'
      BY <1>1, <1>2, <1>6 DEF StepFits, Deliver, Available, IsHook, stripeVars
    <2>2. LocksHeld(w)' /\ DraftFits(w)'
      BY <1>1, <1>2, <1>3 DEF LocksHeld, DraftFits, IsHook, Topics, HookTypes
    <2>3. KeyIsNew(w)'
      BY <1>5 DEF KeyIsNew
    <2> QED BY <2>1, <2>2, <2>3 DEF WorkerInv
  <1> QED BY <1>1, <1>4, <1>5, <1>7, QuietStep DEF stripeVars

(* The statements of open transactions. *)
LEMMA StatementKeeps ==
  ASSUME InductiveInv, TypeOK', NEW w \in Workers,
         \/ MarkProcessed(w) \/ LockOrder(w) \/ Refund(w)
         \/ SkipCharge(w) \/ MayCharge(w) \/ SendCharge(w) \/ ChargeAccepted(w) \/ ChargeFailed(w)
         \/ RecordCancel(w) \/ UpdateStatus(w) \/ Announce(w) \/ AfterCancel(w)
  PROVE  InductiveInv'
  <1> DEFINE Statement == \/ MarkProcessed(w) \/ LockOrder(w) \/ Refund(w)
                          \/ SkipCharge(w) \/ MayCharge(w) \/ SendCharge(w)
                          \/ ChargeAccepted(w) \/ ChargeFailed(w) \/ RecordCancel(w)
                          \/ UpdateStatus(w) \/ Announce(w) \/ AfterCancel(w)
  <1> DEFINE o == Order(w)
  <1>0. Statement
    OBVIOUS
  <1> HIDE DEF Statement
  <1>1. /\ pc[w] # "idle" /\ pc'[w] # "idle"
        /\ msg' = msg
        /\ UNCHANGED <<tables, intent, cancels>>
    BY <1>0 DEF Statement, InductiveInv, TypeOK, Goto, stripeVars, MarkProcessed, LockOrder, Refund,
                SkipCharge, MayCharge, SendCharge, ChargeAccepted, ChargeFailed, RecordCancel,
                UpdateStatus, Announce, AfterCancel
  <1>2. o \in Orders /\ msg[w].type \in Topics \cup HookTypes /\ msg[w] \in Messages
    BY <1>1 DEF InductiveInv, TypeOK, Messages, Order
  <1>3. \A v \in Workers \ {w} : Untouched(v)
    BY <1>0 DEF Statement, InductiveInv, TypeOK, Goto, Untouched, Refunding, locks, MarkProcessed,
                LockOrder, Refund, SkipCharge, MayCharge, SendCharge, ChargeAccepted, ChargeFailed,
                RecordCancel, UpdateStatus, Announce, AfterCancel
  <1>4. /\ refunded \subseteq refunded'
        /\ \A p \in refunded' \ refunded : p \in cancels /\ intent[p] = "succeeded"
    <2>1. CASE Refund(w)
      <3>1. o \in cancels
        BY <1>2, <2>1 DEF InductiveInv, WorkerInv, StepFits, DraftFits, Refund, Available, TableInv, Order
      <3> QED BY <2>1, <3>1 DEF Refund
    <2>2. CASE ~Refund(w)
      BY <1>0, <2>2 DEF Statement, stripeVars, MarkProcessed, LockOrder, SkipCharge, MayCharge,
                SendCharge, ChargeAccepted, ChargeFailed, RecordCancel, UpdateStatus, Announce,
                AfterCancel
    <2> QED BY <2>1, <2>2
  <1>5. NothingTakenBack
    BY <1>1, <1>4 DEF NothingTakenBack
  <1>6. Marked(w)' => Marked(w) \/ ~KeyBusy(w)
    BY <1>0, <1>1 DEF Statement, InductiveInv, TypeOK, Goto, Marked, MarkProcessed, LockOrder, Refund,
                SkipCharge, MayCharge, SendCharge, ChargeAccepted, ChargeFailed, RecordCancel,
                UpdateStatus, Announce, AfterCancel
  <1>7. KeyIsNew(w)'
    <2>1. Marked(w)' => msg[w] \notin processed
      BY <1>0 DEF Statement, InductiveInv, TypeOK, WorkerInv, KeyIsNew, Goto, Marked, MarkProcessed,
                LockOrder, Refund, SkipCharge, MayCharge, SendCharge, ChargeAccepted, ChargeFailed,
                RecordCancel, UpdateStatus, Announce, AfterCancel
    <2> QED BY <1>1, <2>1 DEF KeyIsNew, tables
  <1>8. StepFits(w)'
    <2>1. Available(msg[w])' /\ msg[w] # NoMessage
      BY <1>1 DEF InductiveInv, WorkerInv, StepFits, Available
    <2> QED
      BY <1>0, <1>1, <1>2, <2>1 DEF Statement, InductiveInv, TypeOK, WorkerInv, StepFits, DraftFits,
                Goto, IsHook, Topics, HookTypes, MarkProcessed, LockOrder, Refund,
                SkipCharge, MayCharge, SendCharge, ChargeAccepted, ChargeFailed, RecordCancel,
                UpdateStatus, Announce, AfterCancel
  <1>9. LocksHeld(w)'
    BY <1>0, <1>1, <1>2 DEF Statement, InductiveInv, TypeOK, WorkerInv, StepFits, LocksHeld, DraftFits,
                Goto, IsHook, Order, Topics, HookTypes, tables, locks, MarkProcessed, LockOrder, Refund,
                SkipCharge, MayCharge, SendCharge, ChargeAccepted, ChargeFailed, RecordCancel,
                UpdateStatus, Announce, AfterCancel
  <1>10. DraftFits(w)'
    <2> USE <1>1, <1>2 DEF DraftFits, InductiveInv, TypeOK, WorkerInv, StepFits, Goto, Order,
                           Topics, HookTypes, IsHook, tables
    <2>1. CASE MarkProcessed(w) \/ LockOrder(w)
      BY <2>1 DEF MarkProcessed, LockOrder
    <2>2. CASE Refund(w)
      BY <2>2 DEF Refund, Refunding, Draft
    <2>3. CASE SkipCharge(w) \/ MayCharge(w) \/ SendCharge(w)
      BY <2>3 DEF SkipCharge, MayCharge, SendCharge
    <2>4. CASE ChargeAccepted(w) \/ ChargeFailed(w)
      BY <2>4 DEF ChargeAccepted, ChargeFailed, Draft
    <2>5. CASE RecordCancel(w)
      BY <2>5 DEF RecordCancel
    <2>6. CASE UpdateStatus(w)
      BY <2>6 DEF UpdateStatus, Draft
    <2>7. CASE Announce(w) \/ AfterCancel(w)
      BY <2>7 DEF Announce, AfterCancel, Draft, StatusOf
    <2> QED
      BY <1>0, <2>1, <2>2, <2>3, <2>4, <2>5, <2>6, <2>7 DEF Statement
  <1> QED
    BY <1>1, <1>3, <1>4, <1>5, <1>6, <1>7, <1>8, <1>9, <1>10, QuietStep DEF WorkerInv

(* What is known of a transaction that is about to commit. *)
LEMMA AtCommit ==
  ASSUME InductiveInv, NEW w \in Workers, pc[w] = "commit"
  PROVE  /\ Order(w) \in Orders
         /\ msg[w] = Msg(msg[w].type, Order(w))
         /\ msg[w].type \in Topics \cup HookTypes
         /\ msg[w] \in Messages
         /\ msg[w] \notin processed
         /\ msg[w].type = "order.created" => payments[Order(w)] = "none"
         /\ msg[w].type \in HookTypes => payments[Order(w)] = "pending"
         /\ Available(msg[w])
  <1> DEFINE o == Order(w)
  <1>1. /\ o \in Orders /\ msg[w].type \in Topics \cup HookTypes /\ msg[w] \in Messages
        /\ msg[w] = Msg(msg[w].type, o)
    BY DEF InductiveInv, TypeOK, Messages, Order, Msg
  <1>2. msg[w] \notin processed /\ Available(msg[w])
    BY DEF InductiveInv, WorkerInv, KeyIsNew, Marked, StepFits
  <1>3. msg[w].type = "order.created" => payments[o] = "none"
    BY <1>1, <1>2 DEF InductiveInv, TableInv, MarksMatchWork
  <1>4. msg[w].type \in HookTypes => payments[o] = "pending"
    <2>1. SUFFICES ASSUME msg[w].type \in HookTypes
                   PROVE  payments[o] = "pending"
      OBVIOUS
    <2>2. payments[o] \in Statuses /\ payments[o] # "none"
      BY <1>1, <2>1 DEF InductiveInv, TypeOK, WorkerInv, LocksHeld, IsHook
    <2>3. CASE msg[w].type = "payment_intent.succeeded"
      BY <1>1, <1>2, <2>2, <2>3 DEF InductiveInv, TableInv, StatusMatchesMarks, Available, Statuses, Order
    <2>4. CASE msg[w].type = "payment_intent.payment_failed"
      BY <1>1, <1>2, <2>2, <2>4
         DEF InductiveInv, TableInv, StatusMatchesMarks, RefundsAreOwed, Available, Statuses, Order
    <2> QED BY <2>1, <2>3, <2>4 DEF HookTypes
  <1> QED BY <1>1, <1>2, <1>3, <1>4

(* The locks keep every other transaction on the order of a committing one *)
(* at a statement that has read nothing yet.                               *)
LEMMA CommitsAlone ==
  ASSUME InductiveInv, NEW w \in Workers, pc[w] = "commit",
         NEW v \in Workers \ {w}, pc[v] # "idle", Order(v) = Order(w)
  PROVE  \/ pc[v] \in {"update", "lock", "read"}
         \/ pc[v] = "mark" /\ msg[v].type \in Topics
  <1> DEFINE o == Order(w)
  <1>0. /\ StepFits(v) /\ LocksHeld(v) /\ KeyIsNew(v) /\ LocksHeld(w)
        /\ MarksMatchWork
    BY DEF InductiveInv, WorkerInv, TableInv
  <1>1. /\ o \in Orders /\ pc[v] \in Steps
        /\ msg[v] \in Messages /\ msg[v] = Msg(msg[v].type, o)
        /\ msg[v].type \in Topics \cup HookTypes /\ msg[w].type \in Topics \cup HookTypes
        /\ v # w
    BY AtCommit DEF InductiveInv, TypeOK, Messages, Msg, Order
  <1>2. CASE msg[v].type \in HookTypes
    <2>1. pc[v] # "update" => rowLock[o] = v /\ payments[o] # "none"
      BY <1>0, <1>2 DEF LocksHeld, IsHook
    <2>2. msg[w].type = "order.created" => payments[o] = "none"
      BY AtCommit
    <2>3. msg[w].type # "order.created" => rowLock[o] = w \/ payments[o] = "none"
      BY <1>0, <1>1 DEF LocksHeld, IsHook, Topics
    <2> QED BY <1>1, <2>1, <2>2, <2>3
  <1>3. CASE msg[v].type \in Topics /\ msg[w].type \in Topics
    <2>1. advisory[o] = w
      BY <1>0, <1>3 DEF LocksHeld
    <2>2. pc[v] \in {"mark", "lock"} \/ advisory[o] = v
      BY <1>0, <1>3 DEF LocksHeld
    <2> QED BY <1>1, <1>3, <2>1, <2>2
  <1>4. CASE msg[v].type = "order.created" /\ msg[w].type \in HookTypes
    <2>1. msg[v] \in processed
      BY <1>0, <1>1, <1>4, AtCommit DEF MarksMatchWork
    <2>2. pc[v] \in {"update", "mark"}
      BY <1>0, <2>1 DEF KeyIsNew, Marked
    <2> QED BY <1>4, <2>2 DEF Topics
  <1>5. CASE msg[v].type = "order.cancelled" /\ msg[w].type \in HookTypes
    <2>1. rowLock[o] = w /\ payments[o] # "none"
      BY <1>0, <1>5 DEF LocksHeld, IsHook
    <2>2. pc[v] \notin {"refund", "commit"}
      BY <1>0, <1>1, <1>5, <2>1 DEF LocksHeld
    <2> QED BY <1>0, <1>1, <1>5, <2>2 DEF StepFits, IsHook, Steps, Topics, HookTypes
  <1> QED BY <1>1, <1>2, <1>3, <1>4, <1>5 DEF Topics

(* A commit changes the rows of its own order only. *)
LEMMA CommitEffect ==
  ASSUME InductiveInv, NEW w \in Workers, Commit(w)
  PROVE  /\ \A p \in Orders \ {Order(w)} :
              /\ payments'[p] = payments[p]
              /\ p \in cancelled' <=> p \in cancelled
              /\ \A t \in OutTypes : outbox'[Msg(t, p)] = outbox[Msg(t, p)]
         /\ payments'[Order(w)] = IF draft[w].status = "none" THEN payments[Order(w)] ELSE draft[w].status
         /\ \A t \in OutTypes :
              outbox'[Msg(t, Order(w))] = IF t = draft[w].event THEN outbox[Msg(t, Order(w))] + 1
                                                               ELSE outbox[Msg(t, Order(w))]
         /\ Order(w) \in cancelled' <=> Order(w) \in cancelled \/ msg[w].type = "order.cancelled"
         /\ processed' = processed \cup {msg[w]}
         /\ UNCHANGED <<requests, intent, refunded, cancels>>
         /\ pc'[w] = "idle" /\ msg'[w] = NoMessage /\ draft'[w] = NoDraft
         /\ \A v \in Workers \ {w} : Untouched(v)
  <1> DEFINE o == Order(w) e == Msg(draft[w].event, o)
  <1>1. o \in Orders /\ draft[w].event \in OutTypes \cup {"none"}
    BY AtCommit DEF Commit, InductiveInv, TypeOK, Drafts
  <1>2. \A v \in Workers \ {w} : Untouched(v)
    BY DEF Commit, EndTx, Goto, Untouched, InductiveInv, TypeOK
  <1>3. pc'[w] = "idle" /\ msg'[w] = NoMessage /\ draft'[w] = NoDraft
    BY DEF Commit, EndTx, Goto, InductiveInv, TypeOK
  <1>4. \A p \in Orders, t \in OutTypes :
          outbox'[Msg(t, p)] = IF p = o /\ t = draft[w].event THEN outbox[Msg(t, p)] + 1
                                                             ELSE outbox[Msg(t, p)]
    <2>1. \A p \in Orders, t \in OutTypes :
            Msg(t, p) \in OutEvents /\ (Msg(t, p) = e <=> p = o /\ t = draft[w].event)
      BY DEF Msg, OutEvents
    <2>2. outbox' = IF draft[w].event = "none" THEN outbox ELSE [outbox EXCEPT ![e] = @ + 1]
      BY DEF Commit
    <2>3. DOMAIN outbox = OutEvents
      BY DEF InductiveInv, TypeOK
    <2>4. "none" \notin OutTypes
      BY DEF OutTypes
    <2> QED BY <2>1, <2>2, <2>3, <2>4
  <1>5. \A p \in Orders :
          payments'[p] = IF p = o /\ draft[w].status # "none" THEN draft[w].status ELSE payments[p]
    BY <1>1 DEF Commit, InductiveInv, TypeOK
  <1>6. cancelled' = IF msg[w].type = "order.cancelled" THEN cancelled \cup {o} ELSE cancelled
    BY DEF Commit
  <1> QED BY <1>1, <1>2, <1>3, <1>4, <1>5, <1>6 DEF Commit

(* A commit keeps what is true of the other open transactions.             *)
LEMMA CommitKeepsWorkers ==
  ASSUME InductiveInv, NEW w \in Workers, Commit(w)
  PROVE  (\A v \in Workers : WorkerInv(v))' /\ KeysAreHeldOnce'
  <1>0. pc[w] = "commit"
    BY DEF Commit
  <1>1. WorkerInv(w)'
    BY CommitEffect DEF WorkerInv, StepFits, LocksHeld, DraftFits, KeyIsNew, Marked, IsHook,
                        NoMessage, Topics, HookTypes
  <1>2. ASSUME NEW v \in Workers \ {w}, pc[v] = "idle"
        PROVE  WorkerInv(v)'
    BY <1>2, CommitEffect DEF InductiveInv, WorkerInv, StepFits, LocksHeld, DraftFits, KeyIsNew,
                              Marked, IsHook, Untouched, NoMessage, Topics, HookTypes
  <1>3. ASSUME NEW v \in Workers \ {w}, pc[v] # "idle"
        PROVE  WorkerInv(v)'
    <2> DEFINE p == Order(v)
    <2>1. /\ p \in Orders /\ msg[v] \in Messages /\ msg[v].type \in Topics \cup HookTypes
          /\ pc'[v] = pc[v] /\ msg'[v] = msg[v] /\ draft'[v] = draft[v]
          /\ advisory[p] = v => advisory'[p] = v
          /\ rowLock[p] = v => rowLock'[p] = v
          /\ Order(v)' = p /\ IsHook(v)' = IsHook(v) /\ Marked(v)' = Marked(v)
          /\ UNCHANGED <<requests, intent, refunded, cancels>>
          /\ processed' = processed \cup {msg[w]}
      BY <1>3, CommitEffect DEF InductiveInv, TypeOK, Messages, Order, Untouched, IsHook, Marked
    <2>2. StepFits(v) /\ LocksHeld(v) /\ DraftFits(v) /\ KeyIsNew(v)
      BY DEF InductiveInv, WorkerInv
    <2>3. StepFits(v)'
      BY <2>1, <2>2 DEF StepFits, Available
    <2>4. KeyIsNew(v)'
      BY <1>0, <2>1, <2>2 DEF KeyIsNew, InductiveInv, KeysAreHeldOnce, Marked
    <2>5. CASE p = Order(w)
      <3>1. \/ pc[v] \in {"update", "lock", "read"}
            \/ pc[v] = "mark" /\ msg[v].type \in Topics
        BY <1>0, <1>3, <2>5, CommitsAlone
      <3>2. LocksHeld(v)' /\ DraftFits(v)'
        BY <2>1, <2>2, <3>1 DEF StepFits, LocksHeld, DraftFits, IsHook, Topics, HookTypes
      <3> QED BY <2>3, <2>4, <3>2 DEF WorkerInv
    <2>6. CASE p # Order(w)
      <3>1. payments'[p] = payments[p] /\ (p \in cancelled' <=> p \in cancelled)
        BY <2>1, <2>6, CommitEffect
      <3>2. LocksHeld(v)'
        BY <2>1, <2>2, <3>1 DEF LocksHeld
      <3>3. DraftFits(v)'
        BY <2>1, <2>2, <3>1 DEF DraftFits
      <3> QED BY <2>3, <2>4, <3>2, <3>3 DEF WorkerInv
    <2> QED BY <2>5, <2>6
  <1>4. KeysAreHeldOnce'
    BY CommitEffect, KeysKept DEF InductiveInv, Untouched, Marked
  <1> QED BY <1>1, <1>2, <1>3, <1>4

(* What TableInv says of one order. *)
RowInv(o) ==
  /\ payments[o] # "none" =>
       intent[o] \in {"succeeded", "failed"} /\ Msg("order.created", o) \in processed
  /\ payments[o] \in {"succeeded", "failed"} => intent[o] = payments[o]
  /\ Msg("payment_intent.payment_failed", o) \in processed <=> payments[o] = "failed"
  /\ Msg("payment_intent.succeeded", o) \in processed <=> payments[o] \in {"succeeded", "refunded"}
  /\ o \in cancelled <=> Msg("order.cancelled", o) \in processed
  /\ Announced("payment.failed", o) > 0 => Msg("order.created", o) \in processed
  /\ Msg("order.created", o) \in processed =>
       payments[o] # "none" \/ Announced("payment.failed", o) = 1 \/ o \in cancelled
  /\ o \in cancelled => payments[o] # "succeeded" /\ o \in cancels
  /\ payments[o] = "refunded" => o \in refunded /\ o \in cancelled
  /\ Announced("payment.refunded", o) = IF payments[o] = "refunded" THEN 1 ELSE 0
  /\ Announced("payment.completed", o) <= 1
  /\ payments[o] = "succeeded" => Announced("payment.completed", o) = 1
  /\ Announced("payment.completed", o) = 1 => payments[o] \in {"succeeded", "refunded"}
  /\ Announced("payment.failed", o) <= 1
  /\ Announced("payment.failed", o) = 1 => payments[o] \in {"none", "failed"}
  /\ o \in refunded => o \in cancels /\ intent[o] = "succeeded"

(* What is true of the committed rows is a conjunction over orders.        *)
LEMMA RowByRow ==
  ASSUME TypeOK
  PROVE  TableInv <=> \A o \in Orders : RowInv(o)
  BY DEF TypeOK, TableInv, RowInv, StatusMatchesMarks, MarksMatchWork, NoSucceededAfterCancel,
         EventsMatchPayments, RefundsAreOwed

(* A commit keeps what is true of the committed rows: by cases over the    *)
(* handler that commits.                                                   *)
LEMMA CommitKeepsTables ==
  ASSUME InductiveInv, TypeOK', NEW w \in Workers, Commit(w)
  PROVE  TableInv'
  <1> DEFINE o == Order(w) t == msg[w].type d == draft[w]
  <1>0. /\ \A p \in Orders : RowInv(p)
        /\ o \in Orders /\ pc[w] = "commit" /\ DraftFits(w)
    BY RowByRow, AtCommit DEF InductiveInv, Commit, WorkerInv
  <1>1. \A p \in Orders, s \in Topics \cup HookTypes :
          Msg(s, p) \in processed' <=> Msg(s, p) \in processed \/ (s = t /\ p = o)
    <2>1. msg[w] = Msg(t, o)
      BY <1>0, AtCommit
    <2>2. \A p \in Orders, s \in Topics \cup HookTypes : Msg(s, p) = Msg(t, o) <=> s = t /\ p = o
      BY DEF Msg
    <2>3. processed' = processed \cup {msg[w]}
      BY CommitEffect
    <2> QED BY <2>1, <2>2, <2>3
  <1>2. \A p \in Orders, s \in OutTypes : Msg(s, p) \in OutEvents /\ outbox[Msg(s, p)] \in Nat
    BY DEF InductiveInv, TypeOK, OutEvents, Msg
  <1>3. ASSUME NEW p \in Orders, p # o
        PROVE  RowInv(p)'
    <2>1. /\ RowInv(p)
          /\ payments'[p] = payments[p]
          /\ p \in cancelled' <=> p \in cancelled
          /\ \A s \in OutTypes : outbox'[Msg(s, p)] = outbox[Msg(s, p)]
          /\ \A s \in Topics \cup HookTypes : Msg(s, p) \in processed' <=> Msg(s, p) \in processed
          /\ UNCHANGED <<intent, refunded, cancels>>
      BY <1>0, <1>1, <1>3, CommitEffect
    <2> QED BY <2>1 DEF RowInv, Announced, OutTypes, Topics, HookTypes
  <1>4. ASSUME NEW p \in Orders, p = o
        PROVE  RowInv(p)'
    <2>1. /\ RowInv(p)
          /\ payments'[p] = IF d.status = "none" THEN payments[p] ELSE d.status
          /\ \A s \in OutTypes : outbox'[Msg(s, p)] = IF s = d.event THEN outbox[Msg(s, p)] + 1
                                                                   ELSE outbox[Msg(s, p)]
          /\ \A s \in Topics \cup HookTypes :
               Msg(s, p) \in processed' <=> Msg(s, p) \in processed \/ s = t
          /\ Msg(t, p) \notin processed
          /\ p \in cancelled' <=> p \in cancelled \/ t = "order.cancelled"
          /\ UNCHANGED <<intent, refunded, cancels>>
          /\ \A s \in OutTypes : outbox[Msg(s, p)] \in Nat
      BY <1>0, <1>1, <1>2, <1>4, AtCommit, CommitEffect
    <2>2. CASE t = "order.created"
      <3>1. payments[p] = "none"
        BY <1>0, <1>4, <2>2, AtCommit
      <3> QED
        BY <1>0, <1>4, <2>1, <2>2, <3>1
           DEF RowInv, Announced, DraftFits, Draft, NoDraft, OutTypes, Topics, HookTypes
    <2>3. CASE t = "order.cancelled"
      <3>1. p \in cancels
        BY <1>0, <1>4, <2>3, AtCommit DEF Available, Order
      <3> QED
        BY <1>0, <1>4, <2>1, <2>3, <3>1
           DEF RowInv, Announced, DraftFits, Draft, NoDraft, OutTypes, Topics, HookTypes
    <2>4. CASE t \in HookTypes
      <3>1. payments[p] = "pending" /\ (t = "payment_intent.succeeded" <=> intent[p] = "succeeded")
        BY <1>0, <1>4, <2>4, AtCommit DEF Available, Order, HookTypes
      <3> QED
        BY <1>0, <1>4, <2>1, <2>4, <3>1
           DEF RowInv, Announced, DraftFits, Draft, NoDraft, StatusOf, EventOf, OutTypes, Topics,
               HookTypes
    <2> QED BY <1>0, <2>2, <2>3, <2>4, AtCommit DEF Topics
  <1> QED
    BY <1>3, <1>4 DEF TypeOK, TableInv, RowInv, StatusMatchesMarks, MarksMatchWork,
                      NoSucceededAfterCancel, EventsMatchPayments, RefundsAreOwed, Announced

\* Every step of the service, whichever worker takes it, keeps the invariant.
LEMMA NextInv == InductiveInv /\ [Next]_vars => InductiveInv'
  <1> SUFFICES ASSUME InductiveInv, [Next]_vars
               PROVE  InductiveInv'
    OBVIOUS
  <1>0. TypeOK'
    BY NextTypeOK DEF InductiveInv
  <1>1. ASSUME NEW o \in Orders, PublishCancel(o) \/ ChargeRequestArrives(o)
        PROVE  InductiveInv'
    BY <1>0, <1>1, EnvironmentKeeps
  <1>2. ASSUME NEW w \in Workers, NEW m \in Messages, Deliver(w, m)
        PROVE  InductiveInv'
    BY <1>0, <1>2, DeliverKeeps
  <1>3. ASSUME NEW w \in Workers, Abort(w) \/ AlreadyProcessed(w) \/ UnknownIntent(w)
        PROVE  InductiveInv'
    BY <1>0, <1>3, EndTxKeeps DEF Abort, AlreadyProcessed, UnknownIntent, stripeVars
  <1>4. ASSUME NEW w \in Workers, Commit(w)
        PROVE  InductiveInv'
    BY <1>0, <1>4, CommitKeepsWorkers, CommitKeepsTables DEF InductiveInv
  <1>5. ASSUME NEW w \in Workers, Handle(w), ~Commit(w), ~AlreadyProcessed(w), ~UnknownIntent(w)
        PROVE  InductiveInv'
    BY <1>0, <1>5, StatementKeeps DEF Handle
  <1>6. CASE UNCHANGED vars
    BY <1>6 DEF vars, stripeVars, tables, locks, InductiveInv, TypeOK, WorkerInv, StepFits, LocksHeld,
                DraftFits, KeyIsNew, KeysAreHeldOnce, Marked, KeyBusy, IsHook, Order, Available,
                TableInv, StatusMatchesMarks, MarksMatchWork, NoSucceededAfterCancel,
                EventsMatchPayments, RefundsAreOwed, Announced
  <1> QED
    BY <1>1, <1>2, <1>3, <1>4, <1>5, <1>6 DEF Next

(* The invariant holds in every behaviour of the service.                  *)
THEOREM Inductive == Spec => []InductiveInv
  BY InitInv, NextInv, PTL DEF Spec

(***************************************************************************)
(* The properties.                                                         *)
(***************************************************************************)

(* A payment whose order's cancel is on record is never left succeeded.    *)
THEOREM CancelledIsRefunded == Spec => []NoSucceededAfterCancel
  <1>1. InductiveInv => NoSucceededAfterCancel
    BY DEF InductiveInv, TableInv
  <1> QED BY <1>1, Inductive, PTL

(* The events announced agree with the payments row and each is announced  *)
(* at most once, whatever is redelivered.                                  *)
THEOREM EventsAreConsistent == Spec => []EventsMatchPayments
  <1>1. InductiveInv => EventsMatchPayments
    BY DEF InductiveInv, TableInv
  <1> QED BY <1>1, Inductive, PTL

(* The mark of a delivery and the work it stands for are committed         *)
(* together.                                                               *)
THEOREM MarksAreHonest == Spec => []MarksMatchWork
  <1>1. InductiveInv => MarksMatchWork
    BY DEF InductiveInv, TableInv
  <1> QED BY <1>1, Inductive, PTL

(* Stripe refunds only successful charges of cancelled orders, and a row   *)
(* is called refunded only when it was.                                    *)
THEOREM OnlyOwedRefunds == Spec => []RefundsAreOwed
  <1>1. InductiveInv => RefundsAreOwed
    BY DEF InductiveInv, TableInv
  <1> QED BY <1>1, Inductive, PTL

(* No charge request leaves for an order whose cancel is on record.        *)
THEOREM CancelStopsCharge == Spec => NoChargeAfterCancel
  <1>1. InductiveInv /\ [Next]_vars =>
          [\A o \in Orders : o \in requests' \ requests => o \notin cancelled]_vars
    <2> SUFFICES ASSUME InductiveInv, Next, NEW o \in Orders, o \in requests' \ requests
                 PROVE  o \notin cancelled
      BY DEF vars
    <2>1. PICK w \in Workers : SendCharge(w)
      BY DEF Next, Handle, PublishCancel, ChargeRequestArrives, Deliver, Abort, MarkProcessed,
             AlreadyProcessed, LockOrder, Refund, Commit, SkipCharge, MayCharge, ChargeAccepted,
             ChargeFailed, RecordCancel, UpdateStatus, UnknownIntent, Announce, AfterCancel,
             stripeVars
    <2> QED BY <2>1 DEF SendCharge, InductiveInv, WorkerInv, DraftFits
  <1> QED BY <1>1, Inductive, PTL DEF Spec, NoChargeAfterCancel

(* Only commits write the tables. *)
LEMMA OnlyCommitsWrite ==
  ASSUME Next
  PROVE  UNCHANGED tables \/ \E w \in Workers : Commit(w)
  BY DEF Next, Handle, PublishCancel, ChargeRequestArrives, Deliver, Abort, MarkProcessed,
         AlreadyProcessed, LockOrder, Refund, SkipCharge, MayCharge, SendCharge, ChargeAccepted,
         ChargeFailed, RecordCancel, UpdateStatus, UnknownIntent, Announce, AfterCancel, tables

(* A payments row never goes back: no step takes it out of a final status. *)
THEOREM PaymentsNeverGoBack == Spec => PaymentsMoveForward
  <1> DEFINE Forward == \A o \in Orders : payments'[o] # payments[o] => <<payments[o], payments'[o]>> \in Moves
  <1>1. InductiveInv /\ [Next]_vars => [Forward]_vars
    <2> SUFFICES ASSUME InductiveInv, Next, NEW o \in Orders, payments'[o] # payments[o]
                 PROVE  <<payments[o], payments'[o]>> \in Moves
      BY DEF vars
    <2>1. PICK w \in Workers : Commit(w)
      BY OnlyCommitsWrite DEF tables
    <2>2. pc[w] = "commit" /\ DraftFits(w) /\ TableInv
      BY <2>1 DEF Commit, InductiveInv, WorkerInv
    <2>3. o = Order(w) /\ draft[w].status # "none" /\ payments'[o] = draft[w].status
      BY <2>1, CommitEffect
    <2> QED
      BY <2>2, <2>3, AtCommit DEF DraftFits, Draft, NoDraft, Moves, StatusOf, Topics, HookTypes
  <1> QED BY <1>1, Inductive, PTL DEF Spec, PaymentsMoveForward

(***************************************************************************)
(* Payment Service implements PaymentLifecycle.                            *)
(***************************************************************************)
LEMMA LifecycleInit == Init => Lifecycle!Init
  BY DEF Init, Lifecycle!Init, Outcome, Announced, Msg, OutEvents, OutTypes

\* A step of the service is a step of the lifecycle or leaves it unchanged.
LEMMA LifecycleStep == InductiveInv /\ [Next]_vars => [Lifecycle!Next]_(Lifecycle!vars)
  <1> SUFFICES ASSUME InductiveInv, [Next]_vars
               PROVE  Lifecycle!Next \/ UNCHANGED Lifecycle!vars
    OBVIOUS
  <1> DEFINE outcome == [o \in Orders |-> Outcome(o)]
  <1>1. CASE UNCHANGED <<outbox, cancelled>>
    BY <1>1 DEF Lifecycle!vars, Outcome, Announced
  <1>2. ASSUME NEW w \in Workers, Commit(w)
        PROVE  Lifecycle!Next \/ UNCHANGED Lifecycle!vars
    <2> PICK o \in Orders : o = Order(w)
      BY <1>2, AtCommit DEF Commit
    <2> DEFINE t == msg[w].type d == draft[w]
    <2>1. /\ pc[w] = "commit" /\ DraftFits(w) /\ RowInv(o) /\ TypeOK
          /\ t \in Topics \cup HookTypes
          /\ o \in cancelled <=> Msg("order.cancelled", o) \in processed
          /\ Msg(t, o) \notin processed
          /\ \A s \in OutTypes : outbox[Msg(s, o)] \in Nat
      <3>1. pc[w] = "commit" /\ DraftFits(w) /\ TypeOK /\ RowInv(o)
        BY <1>2, RowByRow DEF Commit, InductiveInv, WorkerInv
      <3>2. \A s \in OutTypes : Msg(s, o) \in OutEvents
        BY DEF OutEvents, Msg
      <3>3. \A s \in OutTypes : outbox[Msg(s, o)] \in Nat
        BY <3>1, <3>2 DEF TypeOK
      <3> QED BY <3>1, <3>3, AtCommit DEF RowInv
    <2>2. cancelled' = IF t = "order.cancelled" THEN cancelled \cup {o} ELSE cancelled
      BY <1>2 DEF Commit
    <2>3. \A p \in Orders \ {o} : Outcome(p)' = Outcome(p)
      BY <1>2, CommitEffect DEF Outcome, Announced, OutTypes
    <2>4. \A s \in OutTypes : outbox'[Msg(s, o)] = IF s = d.event THEN outbox[Msg(s, o)] + 1
                                                                  ELSE outbox[Msg(s, o)]
      BY <1>2, CommitEffect
    <2>5. CASE d.event = "none"
      <3>1. outcome' = outcome
        BY <2>3, <2>4, <2>5 DEF Outcome, Announced, OutTypes
      <3>2. CASE t = "order.cancelled"
        <4>1. o \notin cancelled /\ Outcome(o) # "completed"
          BY <2>1, <2>5, <3>2 DEF DraftFits, RowInv, Outcome, Announced, Draft, NoDraft, OutTypes
        <4> QED BY <2>2, <3>1, <3>2, <4>1 DEF Lifecycle!Next, Lifecycle!Cancel
      <3>3. CASE t # "order.cancelled"
        BY <2>2, <3>1, <3>3 DEF Lifecycle!vars
      <3> QED BY <3>2, <3>3
    <2>6. CASE t = "order.created" /\ d.event # "none"
      <3>1. o \notin cancelled /\ payments[o] = "none" /\ d = Draft("none", "payment.failed")
        BY <1>2, <2>1, <2>6, AtCommit DEF DraftFits, Draft, NoDraft, Topics, HookTypes
      <3>2. Outcome(o) = "open" /\ Outcome(o)' = "failed"
        BY <2>1, <2>4, <2>6, <3>1 DEF RowInv, Outcome, Announced, Draft, OutTypes
      <3>3. outcome' = [outcome EXCEPT ![o] = "failed"]
        BY <2>3, <3>2
      <3> QED BY <2>2, <2>6, <3>1, <3>2, <3>3 DEF Lifecycle!Next, Lifecycle!Fail
    <2>7. CASE t = "order.cancelled" /\ d.event # "none"
      <3>1. payments[o] = "succeeded" /\ d = Draft("refunded", "payment.refunded") /\ o \notin cancelled
        BY <2>1, <2>7 DEF DraftFits, Draft, NoDraft, Topics, HookTypes
      <3>2. Outcome(o) = "completed" /\ Outcome(o)' = "refunded"
        BY <2>1, <2>4, <3>1 DEF RowInv, Outcome, Announced, Draft, OutTypes
      <3>3. outcome' = [outcome EXCEPT ![o] = "refunded"]
        BY <2>3, <3>2
      <3> QED BY <2>2, <2>7, <3>1, <3>2, <3>3 DEF Lifecycle!Next, Lifecycle!Cancel
    <2>8. CASE t \in HookTypes /\ d.event # "none"
      <3>1. payments[o] = "pending"
        BY <2>1, <2>8, AtCommit
      <3>2. Outcome(o) = "open" /\ cancelled' = cancelled
        BY <2>1, <2>2, <2>8, <3>1 DEF RowInv, Outcome, Announced, OutTypes, HookTypes
      <3>3. CASE o \notin cancelled
        <4>1. d = Draft(StatusOf(t), EventOf(t))
          BY <2>1, <2>8, <3>3 DEF DraftFits
        <4>2. Outcome(o)' = IF t = "payment_intent.succeeded" THEN "completed" ELSE "failed"
          BY <2>1, <2>4, <3>1, <4>1 DEF RowInv, Outcome, Announced, Draft, EventOf, OutTypes
        <4>3. outcome' = [outcome EXCEPT ![o] = IF t = "payment_intent.succeeded" THEN "completed"
                                                                                  ELSE "failed"]
          BY <2>3, <4>2
        <4> QED BY <3>2, <3>3, <4>3 DEF Lifecycle!Next, Lifecycle!Complete, Lifecycle!Fail
      <3>4. CASE o \in cancelled
        <4>1. d = Draft("refunded", "payment.refunded")
          BY <2>1, <2>8, <3>4 DEF DraftFits, Draft
        <4>2. Outcome(o)' = "refunded"
          BY <2>1, <2>4, <3>1, <4>1 DEF RowInv, Outcome, Announced, Draft, OutTypes
        <4>3. outcome' = [outcome EXCEPT ![o] = "refunded"]
          BY <2>3, <4>2
        <4> QED BY <3>2, <3>4, <4>3 DEF Lifecycle!Next, Lifecycle!LateRefund
      <3> QED BY <3>3, <3>4
    <2> QED BY <2>1, <2>5, <2>6, <2>7, <2>8 DEF Topics
  <1> QED BY <1>1, <1>2, OnlyCommitsWrite DEF vars, tables

(* Seen through committed rows, each order goes through the atomic steps   *)
(* of PaymentLifecycle: completion, failure, cancel with its refund, late  *)
(* refund.                                                                 *)
THEOREM ImplementsLifecycle == Spec => LifecycleSpec
  BY LifecycleInit, LifecycleStep, Inductive, PTL DEF Spec, LifecycleSpec, Lifecycle!Spec

(***************************************************************************)
(* Freedom from deadlock.                                                  *)
(***************************************************************************)
LEMMA InitHolders == Init => HoldersArePast
  BY DEF Init, HoldersArePast

\* A lock is only ever held by a worker past the statement that takes it.
LEMMA NextHolders == InductiveInv /\ HoldersArePast /\ [Next]_vars => HoldersArePast'
  <1> SUFFICES ASSUME InductiveInv, HoldersArePast, [Next]_vars,
                      NEW o \in Orders, NEW v \in Workers
               PROVE  /\ advisory'[o] = v => pc'[v] \notin {"idle", "update", "mark", "lock"}
                      /\ rowLock'[o] = v =>
                           pc'[v] \in {"decide", "refund", "commit"} \/ (pc'[v] = "mark" /\ IsHook(v)')
    BY DEF HoldersArePast, IsHook
  <1> DEFINE Fits == /\ advisory'[o] = v => pc'[v] \notin {"idle", "update", "mark", "lock"}
                     /\ rowLock'[o] = v =>
                           pc'[v] \in {"decide", "refund", "commit"} \/ (pc'[v] = "mark" /\ IsHook(v)')
  <1> USE DEF InductiveInv, TypeOK, Goto, IsHook
  <1>0. /\ advisory[o] = v => pc[v] \notin {"idle", "update", "mark", "lock"}
        /\ rowLock[o] = v =>
             pc[v] \in {"decide", "refund", "commit"} \/ (pc[v] = "mark" /\ IsHook(v))
        /\ StepFits(v)
    BY DEF HoldersArePast, WorkerInv
  <1>1. ASSUME NEW w \in Workers, EndTx(w)
        PROVE  Fits
    BY <1>0, <1>1 DEF EndTx
  <1>2. ASSUME UNCHANGED <<pc, msg, locks>>
        PROVE  Fits
    BY <1>0, <1>2 DEF locks
  <1>3. ASSUME NEW w \in Workers, NEW m \in Messages, Deliver(w, m)
        PROVE  Fits
    BY <1>0, <1>3 DEF Deliver, locks
  <1>4. ASSUME NEW w \in Workers,
               MarkProcessed(w) \/ LockOrder(w) \/ RecordCancel(w) \/ UpdateStatus(w)
        PROVE  Fits
    BY <1>0, <1>4 DEF MarkProcessed, LockOrder, RecordCancel, UpdateStatus, StepFits, locks
  <1>5. ASSUME NEW w \in Workers,
               \/ SkipCharge(w) \/ MayCharge(w) \/ SendCharge(w) \/ ChargeAccepted(w) \/ ChargeFailed(w)
               \/ Refund(w) \/ Announce(w) \/ AfterCancel(w)
        PROVE  Fits
    BY <1>0, <1>5 DEF SkipCharge, MayCharge, SendCharge, ChargeAccepted, ChargeFailed, Refund,
                      Announce, AfterCancel, locks
  <1>6. CASE UNCHANGED vars
    BY <1>2, <1>6 DEF vars
  <1>7. ASSUME NEW p \in Orders, PublishCancel(p) \/ ChargeRequestArrives(p)
        PROVE  Fits
    BY <1>2, <1>7 DEF PublishCancel, ChargeRequestArrives
  <1>8. ASSUME NEW w \in Workers, Abort(w) \/ AlreadyProcessed(w) \/ UnknownIntent(w) \/ Commit(w)
        PROVE  Fits
    BY <1>1, <1>8 DEF Abort, AlreadyProcessed, UnknownIntent, Commit
  <1> QED
    BY <1>3, <1>4, <1>5, <1>6, <1>7, <1>8 DEF Next, Handle

(* Who waits, waits for a transaction at a later class of statements: keys *)
(* first, then the advisory lock, then the row lock.  The last class waits *)
(* for nobody.                                                             *)
Class(v) ==
  IF pc[v] = "mark" /\ ~IsHook(v) THEN 0
  ELSE IF pc[v] = "lock" THEN 1
  ELSE IF pc[v] \in {"update", "read"} THEN 2
  ELSE 3

\* A worker that waits for a lock waits for a worker of a later class, so
\* that waiting cannot form a cycle.
LEMMA WaitsForLaterClass ==
  ASSUME InductiveInv, HoldersArePast, NEW v \in Workers, NEW w \in Workers, WaitsFor(v, w)
  PROVE  Class(v) < Class(w)
  <1>0. /\ StepFits(v) /\ StepFits(w) /\ LocksHeld(v) /\ LocksHeld(w) /\ DraftFits(w)
        /\ pc[v] \in Steps /\ pc[w] \in Steps
    BY DEF InductiveInv, WorkerInv, TypeOK
  <1>1. pc[v] # "idle" /\ Order(v) \in Orders /\ msg[v].type \in Topics \cup HookTypes
    BY DEF WaitsFor, InductiveInv, TypeOK, Messages, Order
  <1>2. CASE pc[v] = "mark" /\ v # w /\ Marked(w) /\ msg[w] = msg[v]
    <2>1. ~IsHook(v)
      BY <1>0, <1>2 DEF LocksHeld, IsHook, Order, Marked
    <2> QED BY <1>0, <1>2, <2>1 DEF Class, Marked, IsHook
  <1>3. CASE pc[v] = "lock" /\ advisory[Order(v)] = w
    BY <1>0, <1>1, <1>3 DEF HoldersArePast, Class
  <1>4. CASE pc[v] \in {"update", "read"} /\ rowLock[Order(v)] = w
    BY <1>0, <1>1, <1>4 DEF HoldersArePast, Class
  <1> QED BY <1>2, <1>3, <1>4 DEF WaitsFor

(* In every set of workers some worker waits for no other of the set: the  *)
(* statements of the three handlers take their locks in compatible orders. *)
THEOREM DeadlockFree == Spec => []NoDeadlock
  <1>1. InductiveInv /\ HoldersArePast => NoDeadlock
    <2> SUFFICES ASSUME InductiveInv, HoldersArePast, NEW S \in (SUBSET Workers) \ {{}}
                 PROVE  \E v \in S : \A w \in S : ~WaitsFor(v, w)
      BY DEF NoDeadlock
    <2>1. \A v \in S : Class(v) \in 0..3
      BY DEF Class
    <2>2. \A v, w \in S : WaitsFor(v, w) => Class(v) < Class(w)
      BY WaitsForLaterClass
    <2>3. PICK v \in S : \A w \in S : Class(w) <= Class(v)
      <3>1. CASE \E v \in S : Class(v) = 3
        BY <2>1, <3>1
      <3>2. CASE (\A v \in S : Class(v) # 3) /\ \E v \in S : Class(v) = 2
        BY <2>1, <3>2
      <3>3. CASE (\A v \in S : Class(v) \notin {2, 3}) /\ \E v \in S : Class(v) = 1
        BY <2>1, <3>3
      <3>4. CASE (\A v \in S : Class(v) \notin {1, 2, 3})
        BY <2>1, <3>4
      <3> QED BY <3>1, <3>2, <3>3, <3>4
    <2> QED BY <2>1, <2>2, <2>3
  <1>2. Spec => []HoldersArePast
    BY InitHolders, NextHolders, Inductive, PTL DEF Spec
  <1> QED BY <1>1, <1>2, Inductive, PTL

(***************************************************************************)
(* Money is never forgotten: what can be said of PendingIsSettled and of   *)
(* refunds without fairness.                                               *)
(***************************************************************************)

(* Stripe has a verdict on the order, and the webhook that brings it has   *)
(* yet to be handled.                                                      *)
SettlementIsDue(o) ==
  \E t \in HookTypes :
    Available(Msg(t, o)) /\ Msg(t, o) \notin processed /\ StatusOf(t) = intent[o]

(* A pending payment has its webhook still to come, whatever was           *)
(* redelivered or refused before; and the charge of a cancelled order that *)
(* left a payments row has been refunded, unless that webhook is what the  *)
(* refund waits for.  Whether Stripe sends it again is another matter, see *)
(* AckedIsRecorded: handled, it settles the payment.                       *)
NoMoneyIsForgotten ==
  \A o \in Orders :
    /\ payments[o] = "pending" => SettlementIsDue(o)
    /\ o \in cancelled /\ payments[o] # "none" /\ intent[o] = "succeeded" =>
         o \in refunded \/ SettlementIsDue(o)

(* No interleaving, crash or redelivery consumes the one webhook that can  *)
(* settle a payment without settling it: while the row is pending the      *)
(* webhook's key is new.                                                   *)
THEOREM MoneyIsAccountedFor == Spec => []NoMoneyIsForgotten
  <1>1. InductiveInv => NoMoneyIsForgotten
    <2> SUFFICES ASSUME InductiveInv, NEW o \in Orders
                 PROVE  /\ payments[o] = "pending" => SettlementIsDue(o)
                        /\ o \in cancelled /\ payments[o] # "none" /\ intent[o] = "succeeded" =>
                             o \in refunded \/ SettlementIsDue(o)
      BY DEF NoMoneyIsForgotten
    <2>1. /\ payments[o] # "none" => intent[o] \in {"succeeded", "failed"}
          /\ payments[o] \in {"succeeded", "failed"} => intent[o] = payments[o]
          /\ Msg("payment_intent.payment_failed", o) \in processed <=> payments[o] = "failed"
          /\ Msg("payment_intent.succeeded", o) \in processed <=> payments[o] \in {"succeeded", "refunded"}
      BY DEF InductiveInv, TableInv, StatusMatchesMarks
    <2>2. ASSUME payments[o] = "pending"
          PROVE  SettlementIsDue(o)
      <3>1. CASE intent[o] = "succeeded"
        BY <2>1, <2>2, <3>1 DEF SettlementIsDue, HookTypes, Available, Msg, StatusOf
      <3>2. CASE intent[o] = "failed"
        BY <2>1, <2>2, <3>2 DEF SettlementIsDue, HookTypes, Available, Msg, StatusOf
      <3> QED BY <2>1, <2>2, <3>1, <3>2
    <2>3. ASSUME o \in cancelled, payments[o] # "none", intent[o] = "succeeded"
          PROVE  o \in refunded \/ SettlementIsDue(o)
      <3>1. payments[o] # "succeeded" /\ payments[o] # "failed"
        BY <2>1, <2>3 DEF InductiveInv, TableInv, NoSucceededAfterCancel
      <3>2. payments[o] = "refunded" => o \in refunded
        BY DEF InductiveInv, TableInv, RefundsAreOwed
      <3> QED BY <2>2, <2>3, <3>1, <3>2 DEF InductiveInv, TypeOK, Statuses
    <2> QED BY <2>2, <2>3
  <1> QED BY <1>1, Inductive, PTL
=============================================================================
