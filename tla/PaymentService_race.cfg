SPECIFICATION FairSpec
CONSTANTS
  Orders = {o1}
  Workers = {w1, w2, w3}
  NoWorker = NoWorker
INVARIANTS
  TypeOK
  NoSucceededAfterCancel
  EventsMatchPayments
  MarksMatchWork
  RefundsAreOwed
  NoDeadlock
  InductiveInv
PROPERTIES
  NoChargeAfterCancel
  PaymentsMoveForward
  LifecycleSpec
  PendingIsSettled
