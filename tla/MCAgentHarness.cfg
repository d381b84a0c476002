\* Two runs that may overlap, with other calls and an error.
SPECIFICATION FairSpec
CONSTANTS
  c1 = c1
  c2 = c2
  Callers <- TwoCallers
  OneAtATime = TRUE
  MaxCalls = 3
  MaxErrors = 1
CHECK_DEADLOCK FALSE
INVARIANTS ContextIsPersisted BusyWhileRunning WrittenOnce QuietMeansFlushed
PROPERTY WaitsEnd
