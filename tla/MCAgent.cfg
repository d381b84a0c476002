\* Three user messages or incidents (listeners that throw, clears, resets and
\* removals of a failed answer), and tool calls in both modes.
SPECIFICATION FairSpec
CONSTANTS
  SteeringModes <- BothQueueModes
  FollowUpModes <- BothQueueModes
  ToolModes <- BothToolModes
  MaxInputs = 3
  MaxPrompt = 2
  MaxToolTurns = 1
  MaxCalls = 2
INVARIANTS TranscriptAgrees ToolResultsComplete StateSettled Conservation
INVARIANTS DeliveredInOrder NothingStranded
PROPERTIES FollowsProtocol Settles
CHECK_DEADLOCK FALSE
