CONSTANTS
  phone = phone
  laptop = laptop
  Devices = {phone, laptop}
  Writers = {phone}
  Names = {archive, work}
  Reserved = {archive}
  Colors = {none}
  NoColor = none
  Msgs = {m1}
  Kinds = {"create", "apply"}
  InOrder = FALSE
  Ttl = 1
  MaxCalls = 1
  MaxOps = 3
  MaxNow = 2
  MaxLost = 1
  MaxCrashes = 1
  Users = {"a", "b", "c"}
  GroupNames = {0, 1, 2}
  StaleAfter = 2
  Unhurried = TRUE
  Topics <- MCTopics
  MaxGroupOps = 2
  Subs = {"b", "c"}
  Late = {"c"}
  Emojis = {"x", "y"}
  MaxChannelActs = 3
  MaxChannelDeaths = 1
  TimerUsers = {"a", "b"}
  Durations = {0, 1}
  TimerCalls <- MCTimerCalls
  DefaultsOf <- MCDefaultsOf
  MaxMails = 3
  MaxWipes = 1
  Threads = {1, 2}
  LastSecond = 2
  ViewThemes <- MCViewThemes
SPECIFICATION ChatsSpec
CHECK_DEADLOCK FALSE
INVARIANT LabelsSafe  ViewRight
PROPERTY NothingComesBack
