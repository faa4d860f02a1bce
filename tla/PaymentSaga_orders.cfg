SPECIFICATION FairSpec
CONSTANTS
  Orders = {o1, o2}
  Products = {p1}
  Product <- OneProduct
  Stocked <- OnePiece
CHECK_DEADLOCK FALSE
INVARIANTS
  RefundedWasCancelled
  PaidKeepsItsPiece
  SoldWasInStock
  InductiveInv
PROPERTIES
  CancelsSettle
  PiecesComeBack
