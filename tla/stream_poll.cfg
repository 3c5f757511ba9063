\* Refutes PollNeverBlocks: poll, then read_timeout of zero, then poll.
SPECIFICATION Spec
CONSTANTS
  PACKET_BYTES = 3
  REPLY_BYTES = 2
  HANDSHAKE_TIMEOUT = 1
  REQUEST_TIMEOUT = 2
  Timeouts = {0, 1}
  EventTypes = {1}
  MaxPackets = 1
  MaxOwed = 1
  MaxSignals = 1
  MaxElapsed = 3
INVARIANTS
  PollNeverBlocks
