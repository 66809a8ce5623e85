SPECIFICATION LiveSpec
CONSTANTS
  Forms <- MCForms
  MaxLogs = 1
  MaxVersions = 3
  Bounds <- MCBounds
  Backlog = 2
  Capacity = 2
INVARIANT OneLineAtATime
PROPERTY JournalNeverGoesBack
CHECK_DEADLOCK FALSE
