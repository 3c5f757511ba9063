SPECIFICATION FairSpec
CONSTANTS
  Timeouts = {0, 3}
  POLL_STEP = 2
  MaxStarts = 1
  MaxEvents = 3
  MaxCommands = 1
INVARIANTS TypeOK ButtonTold TakenSoon
PROPERTIES EventsInOrder TimelyReads ReadsReturn
CHECK_DEADLOCK FALSE
