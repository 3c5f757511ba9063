\* The decoder, its queue and the reads, against a device that never stops.
SPECIFICATION FairSpec
CONSTANTS
  MAX_I32 = 2047
  Places <- MCPlaces
  Declared <- MCDeclared
  SwapYZ = TRUE
  ButtonMap <- MCButtonMap
  Sensitivities = {1, 2}
  BitReports <- MCBitReports
  MaxLine = 1
INVARIANTS
  TypeOK
  ButtonsTold
  ButtonsAlternate
  PlaceTold
  ReadingsInRange
PROPERTIES
  ReadsReturn
