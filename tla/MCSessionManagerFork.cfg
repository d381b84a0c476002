\* A fork of a session with a label.
SPECIFICATION SessionsSpec
CONSTANTS
  Plain <- UserAndAssistant
  MaxEntries = 4
  MaxFiles = 2
  MaxMoves = 1
  MaxFaults = 0
  OldLengths <- NoOldFile
CHECK_DEADLOCK FALSE
PROPERTY ForkKeepsPath
