SPECIFICATION FairSpec
CONSTANTS
  Consumers = {c1, c2}
  NoConsumer = NoConsumer
  MaxPublished = 3
INVARIANTS
  CommittedIsAnswered
  InductiveInv
PROPERTIES
  EveryMessageIsAnswered
  GroupSpec
