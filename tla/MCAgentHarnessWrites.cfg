\* A direct write while another is in progress.
SPECIFICATION Spec
CONSTANTS
  c1 = c1
  c2 = c2
  Callers <- TwoCallers
  OneAtATime = TRUE
  MaxCalls = 2
  MaxErrors = 0
CHECK_DEADLOCK FALSE
INVARIANT OneWriteAtATime
