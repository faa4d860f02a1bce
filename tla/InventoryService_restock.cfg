SPECIFICATION Spec
CONSTANTS
  Orders = {o1}
  Products = {p1}
  Product <- OneProduct
  Stocked <- OnePiece
  Workers = {w1, w2}
  NoWorker = NoWorker
SYMMETRY Symmetry
INVARIANT RestockedWasDeducted
