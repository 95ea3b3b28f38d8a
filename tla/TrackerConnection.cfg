\* The tracker closes the connection up to twice.
SPECIFICATION FairSpec
CONSTANT MaxLost = 2
INVARIANTS
  OneOutstanding
  ConnectedIsAnnounced
  AttemptIsDue
PROPERTIES
  Restored
  CompletionIsTold
  ScheduledIsSent
CHECK_DEADLOCK FALSE
