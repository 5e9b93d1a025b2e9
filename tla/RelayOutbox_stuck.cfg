\* No failure at all: the window between an empty queue and delete(sending).
SPECIFICATION CalmSpec
CONSTANTS
  c1 = c1  m1 = m1  m2 = m2  m3 = m3
  None = None
  EventCap = 2
  Channels <- OneChannel
  Envelopes <- TwoInOne
  ChannelOf <- TwoInOneOf
PROPERTIES
  QueuedReachHub
CHECK_DEADLOCK FALSE
