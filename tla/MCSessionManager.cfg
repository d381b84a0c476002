\* Four entries, a fork, a file of version 1, one move or label, and one
\* write that fails, which leaves room for three entries.
SPECIFICATION SessionsSpec
CONSTANTS
  Plain <- UserAndAssistant
  MaxEntries = 4
  MaxFiles = 2
  MaxMoves = 1
  MaxFaults = 1
  OldLengths <- WithAndWithoutOldFile
CHECK_DEADLOCK FALSE
INVARIANTS FileIsSound
PROPERTIES ForkKeepsContext CompactionKeepsTail MigrationKeepsContext
