CONSTANTS
  phone = phone
  laptop = laptop
  Devices = {phone, laptop}
  Writers = {phone}
  Names = {archive, work, home}
  Reserved = {archive}
  Colors = {none, red}
  NoColor = none
  Msgs = {m1}
  Kinds = {"create", "rename", "color", "delete", "apply"}
  InOrder = TRUE
  Ttl = 9
  MaxCalls = 1
  MaxOps = 3
  MaxNow = 0
  MaxLost = 0
  MaxCrashes = 0
  XdcPeers = {"b", "c"}
  XdcLate = {"c"}
  XdcCalls = {1, 2}
  PerMail = 1
  XdcBudgets <- MCXdcBudgets
  CallDevices = {"a", "b", "c"}
  UserOf <- MCUserOf
  CallerDevice = "a"
  RingSeconds = 1
  CallBudgets <- MCCallBudgets
  StreamChats = {"x", "y"}
  Gap = 1
  LastTick = 4
  LocBudgets <- MCLocBudgets
  Relays = {"x", "y", "z"}
  FirstRelay = "x"
  MaxRelays = 2
  KeepTime = 0
  RelayCalls = {1, 2}
  RelayBudgets <- MCRelayBudgets
SPECIFICATION DevicesSpec
CHECK_DEADLOCK FALSE
 
PROPERTY LaptopFollows  
