CONSTANTS
  ann = ann
  Ignored = ignored
  Chats = {ann}
  MaxAttempts = 2
  DrainLimit = 1
  QueueLimit = 1
  SummaryLimit = 1
  HoursPerDay = 1
  SummaryHour = 0
  Environments <- CommandsAndEvents
  MaxUpdates = 2
  MaxStarts = 2
  MaxFaults = 1
SPECIFICATION FairSpec
INVARIANTS
  TypeOK
  ActsAtMostOnce
  CommandsInOrder
  RepliesAreTrue
  PendingKeepsText
  NothingSkipped
PROPERTIES
  ImplementsContract
  ActionsAreAnswered
  RemovedChatsGetNothing
  UpdatesAreSettled
  RepliesEnd
CHECK_DEADLOCK FALSE
