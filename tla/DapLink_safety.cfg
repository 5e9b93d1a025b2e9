\* A send, a join and a presence query over two connections, Close at any time.
SPECIFICATION FairSpec
CONSTANTS
  c1 = c1  s1 = s1  s2 = s2  a1 = a1
  Channels <- OneChannel
  Senders <- OneSender
  Joiners <- OneJoiner
  Askers <- OneAsker
  ChannelOf <- AllToOne
  NoOne = NoOne
  MaxConns = 2
  EventCap = 1
INVARIANTS
  TypeOK
  OnlyStraddlersSpoil
  ReaderNeverBlocks
PROPERTIES
  FramesWhileLive
  ImplementsHubLink
  CloseStopsRun
CHECK_DEADLOCK FALSE
