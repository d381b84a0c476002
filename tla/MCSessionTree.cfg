\* One call at a time, with a failed write, crashes and a new window of ids.
SPECIFICATION Spec
CONSTANTS
  w1 = w1
  Writers <- OneWriter
  MaxCalls = 3
  MaxWindows = 2
  MaxFaults = 2
  MaxCrashes = 2
CHECK_DEADLOCK FALSE
INVARIANTS TreeIsSound FileKeepsSession
