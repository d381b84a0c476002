\* Two processes, an editor, a crash and a lock that is not had.
SPECIFICATION Spec
CONSTANTS
  p1 = p1
  p2 = p2
  f = f
  g = g
  Nobody = Nobody
  Processes <- TwoProcesses
  Scopes <- BothScopes
  Fields <- TwoFields
  InitialFiles <- GlobalOnly
  MaxChanges = 3
  MaxEvents = 1
SYMMETRY Symmetry
INVARIANTS NoLostUpdate MarksAreUnsaved SetIsSaved
PROPERTY BrokenIsKept
