\* What the byte stream, the modes and the queue must keep; and that a fair
\* client's calls with a time limit return, and its blocked reads are woken.
SPECIFICATION FairSpec
CONSTANTS
  PACKET_BYTES = 3
  REPLY_BYTES = 2
  HANDSHAKE_TIMEOUT = 1
  REQUEST_TIMEOUT = 2
  Timeouts = {0, 1}
  EventTypes = {1}
  MaxPackets = 3
  MaxOwed = 1
  MaxSignals = 1
  MaxElapsed = 3
INVARIANTS
  TypeOK
  FramesWhole
  EventsInOrder
  ModeAgrees
PROPERTIES
  NeverGivesUpEarly
  DeliversInOrder
  TimedCallsReturn
  BlockedReadWakes
