CONSTANTS
  Self = self
  Msgs = {m1}
  Contacts = {a, k}
  Keys = {k}
  Persons = {{a, k}}
  Raisable = {}
  Blockable = {}
  Windows = {0, 1}
  MaxRunning = 1
  MaxNow = 3
  MaxFaults = 0
  BlockContacts = {"k", "a"}
  AddrOf <- MCAddrOf
  DomainOf <- MCDomainOf
  BlockDevices = {1, 2}
  BlockCalls = {1, 2}
  MaxBlockCalls = 3
  MaxBlockDeaths = 1
  ByKey = {"k", "m"}
  ByAddress = {"a"}
  ContactThemes <- MCThemes
  JoinCases <- MCJoinCases
  FreshFor = 1
  RewriteBatch = 2
  MaxNewMsgs = 1
SPECIFICATION PeopleSpec
CHECK_DEADLOCK FALSE
INVARIANT GatingSettled  ContactsSafe KeysMoved
PROPERTY JoinSafe JoinedAndRewritten
