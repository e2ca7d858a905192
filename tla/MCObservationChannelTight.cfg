\* A queue smaller than the collector: the sink can be full when an event or
\* the stop item is put.
SPECIFICATION ChannelFairSpec
CONSTANTS
  o1 = o1
  o2 = o2
  Observations = {o1, o2}
  MaxEvents = 3
  QueueSize = 2
  MaxOffers = 4
CHECK_DEADLOCK FALSE
PROPERTIES ImplementsSealedTranscript
