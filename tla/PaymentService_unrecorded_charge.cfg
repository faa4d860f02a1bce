SPECIFICATION Spec
CONSTANTS
  Orders = {o1}
  Workers = {w1, w2}
  NoWorker = NoWorker
SYMMETRY Symmetry
INVARIANT UnrecordedIsNotCharged
