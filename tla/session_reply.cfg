\* Refutes OwnReply: an answer too late for its own request.
SPECIFICATION Spec
CONSTANTS
  short = short
  long = long
  NoDevice = NoDevice
  None = None
  Axes = {x, y}
  Devices <- MCDevices
  Packets <- MCPackets
  MaxPlugs = 0
  MaxCalls = 3
  MaxMisses = 1
INVARIANTS
  OwnReply
