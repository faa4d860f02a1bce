SPECIFICATION Spec
CONSTANTS
  Orders = {o1, o2}
  Products = {p1}
  Product <- OneProduct
  Stocked <- OnePiece
  Workers = {w1, w2, w3}
  NoWorker = NoWorker
SYMMETRY Symmetry
INVARIANTS
  TypeOK
  StockIsConserved
  EachMessageAnnouncedOnce
  InductiveInv
PROPERTY LifecycleSpec
