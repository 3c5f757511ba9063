\* Strings and requests through a socket with little room.
SPECIFICATION FairSpec
CONSTANTS
  CHUNK = 2
  MAX_STRING = 3
  NoByte = 0
  Settings = {"NAME", "SERDEV"}
  Lengths = {0, 4}
  Texts <- MCTexts
  PACKET_BYTES = 2
  Room = 2
  MaxSends = 4
INVARIANTS
  TypeOK
  PacketsWhole
  StringsWhole
  LastStringHeld
PROPERTIES
  SendsReturn
