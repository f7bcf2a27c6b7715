CONSTANTS
  N = 3
  Missing = 9
  MaxNamed = 2
  Letters <- MCLetters
  MaxRewrites = 2
  TextTokens <- MCTextTokens
  MaxTextLines = 3
  Posts <- MCPosts
  ForeignTrees <- MCForeignTrees
  Addrs = {"a", "b"}
  MaxTo = 1
  MaxChanges = 2
  NoMail = NoMail
  AssignMails <- MCMailsToAssign
  Bot = FALSE
  MaxMails = 3
  MaxUserActs = 2
  Dials = {"imap", "smtp"}
  HostAddrs = {"a1", "a2"}
  Host = "h"
  Answers <- MCAnswers
  Preload <- MCPreload
  Certificates <- MCCertificates
  SelfSigned = FALSE
  CacheTTL = 1
  MaxListed = 2
  MaxDelays = 1
  MaxNetNow = 3
  NetThemes <- MCNetThemes
  Urls = {"http:x", "https:y"}
  Https = {"https:y"}
  Readers = {1, 2}
  MaxHops = 2
  WebExpires = 2
  WebStale = 1
  Grace = 1
  FarAhead = 9
  MaxWebNow = 4
  MaxWebActs = 3
  Loaders = {1, 2}
  MaxLoads = 3
  Domain <- MCDomain
  Entered <- MCEntered
  Documents <- MCDocuments
  Loops = {1, 2}
  BackoffMin = 2
  BackoffMax = 4
  MaxLoginActs = 3
SPECIFICATION MailsSpec
CHECK_DEADLOCK FALSE
INVARIANT TreeRight   SendSafe
PROPERTY AssignSafe
