CONSTANTS
  Blobs = {b1}
  Ops = {"enable", "passphrase"}
  MaxRunning = 2
  MaxKeys = 1
  MaxFails = 1
  MaxCrashes = 1
  Members <- MCMembers
  Newcomer = "c"
  Self = "self"
  ChunkSize = 1
  RetryLimit = 2
  MaxEvents = 2
  MaxJobs = 3
  ShownMsgs = {1, 2}
  Asking = {1, 2}
  BccSelf = TRUE
  MdnRetries = 1
  MdnQuota = 1
  MaxActs = 1
  Mails <- MCMails
  Window = 2
  CanIdle = TRUE
  DeleteDownloaded = TRUE
  MaxFetchFaults = 1
  MaxAsks = 1
  MaxExpunged = 1
  ReceptionMails <- MCReceptionMails
  Deliveries <- MCDeliveries
  MaxReceptionDeaths = 1
  MaxUserDeletes = 1
  MaxPrunings = 1
SPECIFICATION DeliverySpec
CHECK_DEADLOCK FALSE
INVARIANT BlobsReadable OutboxSafe  FetchSafe 
PROPERTY MailFlows
