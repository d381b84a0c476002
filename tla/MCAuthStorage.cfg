\* Two processes and two providers, with a fault.
SPECIFICATION Spec
CONSTANTS
  p1 = p1
  p2 = p2
  a = a
  b = b
  Nobody = Nobody
  Processes <- TwoProcesses
  Providers <- TwoProviders
  InitialStates <- AnyStart
  MaxTokens = 2
  MaxEvents = 1
SYMMETRY Symmetry
INVARIANTS NoLostCredential TokensStayValid ChangeIsSaved
