SPECIFICATION Spec
CONSTANTS
  Consumers = {c1, c2}
  NoConsumer = NoConsumer
  MaxPublished = 2
SYMMETRY Symmetry
INVARIANT CommittedIsHandled
