\* Three envelopes of one channel, every interleaving, with restarts; fair
\* goroutines, an unreliable hub.
SPECIFICATION OrderedSpec
CONSTANTS
  c1 = c1  m1 = m1  m2 = m2  m3 = m3
  None = None
  EventCap = 1
  Channels <- OneChannel
  Envelopes <- ThreeInOne
  ChannelOf <- ThreeInOneOf
INVARIANTS
  TypeOK
  SingleSender
  OnePlace
  QueuedNeverOvertakes
PROPERTIES
  ImplementsAtLeastOnce
  EverySenderExits
  DrainsEventually
