SPECIFICATION FairSpec
CONSTANTS
  Ctls = {c1, c2}
  MaxTries = 2
  BootSignals = TRUE
  Crashes = TRUE
  MaxCommands = 2
  MaxStarts = 2
CHECK_DEADLOCK FALSE
INVARIANTS TypeOK StatusTruthful OrderlySuccessHolds
PROPERTIES SignalsRead Converges
