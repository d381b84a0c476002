\* Every mixture of four prompts, failures and calls, compact() at any time.
SPECIFICATION Spec
CONSTANTS
  p1 = p1
  a = a
  b = b
  Callers <- OneCaller
  Texts <- TwoTexts
  Outcomes <- AllOutcomes
  MaxCalls = 2
  MaxRetries = 1
  MaxEvents = 4
  Interrupt = TRUE
INVARIANTS SessionAgrees ToolPairs RetriesAreOver ShownIsQueued NothingStranded ContinueAccepted
