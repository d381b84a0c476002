\* The requests and compactions of a session of six entries.
SPECIFICATION Spec
CONSTANTS
  Plain <- UserCustomSetting
  Answers <- DoneTwoCallsFailed
  Budgets = {0, 1, 3}
  MaxEntries = 6
  MaxPlain = 1
  MaxMoves = 1
CHECK_DEADLOCK FALSE
INVARIANTS RequestsAreComplete CompactionIsSound
