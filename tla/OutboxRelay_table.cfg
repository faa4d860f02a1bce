SPECIFICATION FairSpec
CONSTANTS
  Events = {1, 2, 3}
  Precedes <- OrderThenCancel
  Unwritable = {2}
  Relays = {r1, r2}
  BatchSize = 2
CHECK_DEADLOCK FALSE
INVARIANTS
  PublishedWasSent
  ClaimsAreExclusive
  InductiveInv
PROPERTIES
  WritableIsPublished
  ChannelSpec
