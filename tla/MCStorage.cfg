CONSTANTS
  Blobs = {b1, b2}
  Ops = {"enable", "disable", "passphrase"}
  MaxRunning = 1
  MaxKeys = 2
  MaxFails = 0
  MaxCrashes = 2
  BackupBlobs = {"p", "q"}
  BackupCases <- MCBackupCases
  Procs = {"p", "q"}
  MaxAccounts = 3
  MaxAccOps = 4
  MaxAccFaults = 1
  MaxMigDeaths = 1
  Jobs = {1, 2}
  JobKinds = {"imex", "provide", "get", "configure", "config", "fetch"}
  MaxIoOps = 3
  MaxIoFaults = 1
SPECIFICATION StorageSpec
CHECK_DEADLOCK FALSE
INVARIANT AtRestSafe   
PROPERTY WorkEnds
