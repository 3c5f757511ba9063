SPECIFICATION FairSourceSpec
CONSTANTS
  Timeouts = {1}
  POLL_STEP = 1
  MaxStarts = 2
  MaxEvents = 1
  MaxCommands = 1
  Builds <- MCBuilds
  MaxTurns = 2
INVARIANTS SourceTypeOK
PROPERTIES BestRouteTaken Reconnects
CHECK_DEADLOCK FALSE
