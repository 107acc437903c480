CONSTANTS
  ann = ann
  Ignored = ignored
  Chats = {ann}
  MaxAttempts = 2
  DrainLimit = 1
  QueueLimit = 1
  SummaryLimit = 1
  HoursPerDay = 1
  SummaryHour = 0
  Environments <- OnlyOneCommand
  MaxUpdates = 1
  MaxStarts = 2
  MaxFaults = 1
SPECIFICATION Spec
INVARIANTS
  EndedTextIsGone
CHECK_DEADLOCK FALSE
