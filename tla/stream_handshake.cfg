\* Refutes EventsStillDecode: an event inside the handshake's window.
SPECIFICATION Spec
CONSTANTS
  PACKET_BYTES = 3
  REPLY_BYTES = 2
  HANDSHAKE_TIMEOUT = 1
  REQUEST_TIMEOUT = 2
  Timeouts = {1}
  EventTypes = {1}
  MaxPackets = 2
  MaxOwed = 1
  MaxSignals = 1
  MaxElapsed = 3
INVARIANTS
  EventsStillDecode
