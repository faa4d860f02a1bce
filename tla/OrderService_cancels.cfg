SPECIFICATION Spec
CONSTANTS
  Orders = {o1, o2}
  Workers = {w1, w2, w3}
  NoWorker = NoWorker
SYMMETRY Symmetry
INVARIANTS
  EventsMatchOrders
  AnswersAreTrue
  InductiveInv
PROPERTY LifecycleSpec
