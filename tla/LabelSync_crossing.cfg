CONSTANTS
  phone = phone
  laptop = laptop
  Devices = {phone, laptop}
  Writers = {phone, laptop}
  Names = {archive}
  Reserved = {archive}
  Colors = {none}
  NoColor = none
  Msgs = {m1}
  Kinds = {"apply"}
  InOrder = TRUE
  Ttl = 9
  MaxCalls = 1
  MaxOps = 3
  MaxNow = 1
  MaxLost = 0
  MaxCrashes = 0
SPECIFICATION Spec
CHECK_DEADLOCK FALSE
INVARIANT ApplicationsAgree
