SPECIFICATION Spec
CONSTANTS
  Events = {1, 2, 3}
  Precedes <- OrderThenCancel
  Unwritable = {}
  Relays = {r1, r2}
  BatchSize = 2
CHECK_DEADLOCK FALSE
SYMMETRY Symmetry
INVARIANT OrdersStayInOrder
