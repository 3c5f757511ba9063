\* Every axis, key, word and packet there is, and descriptors of up to seven items.
SPECIFICATION Spec
CONSTANTS
  MAX_I32 = 32767
  BYTE = 16
  HALF = 128
  Longest = 520
  Protocol = Protocol
  None = None
  CHUNK = 2
  MAX_STRING = 7
  NoByte = 0
  MaxValue = 12
  MaxBit = 175
  MaxItems = 4
  MaxPackets = 4
INVARIANTS
  ScalingSound
  ButtonsCounted
  RangesAsDeclared
  DifferencesExact
  SettingsSurvive
  TextAsAnnounced
PROPERTIES
  NeverComesBack
\* The sweep ends.
CHECK_DEADLOCK FALSE
