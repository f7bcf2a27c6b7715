CONSTANTS
  Msgs = {m1}
  Durations = {1}
  Windows <- ZeroWindows
  MaxNow = 2
  MaxFaults = 1
SPECIFICATION FairSpec
INVARIANT PurgeOnlyFromTrash ExpiryIsRecoverable
PROPERTY CountdownNeverMoves DeadlinesKept
