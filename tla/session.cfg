\* Requests, strings, timeouts and hotplug.  MaxMisses is out of reach: two calls
\* make at most twelve requests.
SPECIFICATION FairSpec
CONSTANTS
  short = short
  long = long
  NoDevice = NoDevice
  None = None
  Axes = {x}
  Devices <- MCDevices
  Packets <- MCPackets
  MaxPlugs = 2
  MaxCalls = 2
  MaxMisses = 12
INVARIANTS
  TypeOK
  InStep
  StringWhole
  CacheConverges
PROPERTIES
  CallsReturn
