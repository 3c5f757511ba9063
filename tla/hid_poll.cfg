\* A poll stops at a report that holds no event, and leaves the next one.
SPECIFICATION Spec
CONSTANTS
  MAX_I32 = 2047
  Places <- MCPlaces
  Declared <- MCDeclared
  SwapYZ = TRUE
  ButtonMap <- MCButtonMap
  Sensitivities = {1, 2}
  BitReports <- MCBitReports
  MaxLine = 2
PROPERTIES
  PollTakesWaiting
