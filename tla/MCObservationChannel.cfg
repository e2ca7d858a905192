\* The queue holds one item more than the collector, as in the code.
SPECIFICATION ChannelFairSpec
CONSTANTS
  o1 = o1
  o2 = o2
  Observations = {o1, o2}
  MaxEvents = 3
  QueueSize = 4
  MaxOffers = 4
CHECK_DEADLOCK FALSE
INVARIANTS TypeOK SealedTranscriptExact NeverFullNeverRejected ChannelInv
PROPERTIES ShutdownSeals ImplementsSealedTranscript
