CONSTANTS
  Self = self
  Msgs = {m1}
  Contacts = {k}
  Keys = {k}
  Persons = {{k}}
  Raisable = {k}
  Blockable = {k}
  Windows = {1}
  MaxRunning = 3
  MaxNow = 2
  MaxFaults = 1
SPECIFICATION FairSpec
INVARIANT AcceptedNotUnverified NothingLost
PROPERTY HoldEnds
