----------------------------- MODULE MCStorage ------------------------------
(***************************************************************************)
(* What is kept on the disk and who may touch it: encryption at rest with  *)
(* one handler at a time, backup and transfer, the directory of accounts,  *)
(* the migrations of the database, and the starting, pausing and stopping  *)
(* of what works on it.  Each behaviour runs one of them, the others rest  *)
(* in a first state.                                                       *)
(***************************************************************************)
EXTENDS AtRest, Backup, Accounts, Migrations, IoControl

VARIABLE part    \* the one that runs

MCBackupCases ==
    [way : {"file", "wire"}, refs : {{"p"}}, sealed : BOOLEAN, newer : BOOLEAN, acts : {3}, faults : {1}]

storageVars == <<part, vars, backupVars, accVars, migVars, ioVars>>

StorageInit ==
    /\ part \in {"atrest", "backup", "accounts", "migrations", "io"}
    /\ Init /\ (part = "atrest" \/ ~is_encrypted)
    /\ BackupInit /\ (part = "backup" \/ (way = "file" /\ ~source.on /\ ~newer))
    /\ AccInit /\ IoInit
    /\ MigInit /\ (part = "migrations" \/ dbFile = NewFile)

AtRestRuns == part = "atrest" /\ Next /\ UNCHANGED <<part, backupVars, accVars, migVars, ioVars>>
BackupRuns == part = "backup" /\ BackupNext /\ UNCHANGED <<part, vars, accVars, migVars, ioVars>>
AccountsRun == part = "accounts" /\ AccNext /\ UNCHANGED <<part, vars, backupVars, migVars, ioVars>>
MigrationsRun == part = "migrations" /\ MigNext /\ UNCHANGED <<part, vars, backupVars, accVars, ioVars>>
IoRuns == part = "io" /\ IoNext /\ UNCHANGED <<part, vars, backupVars, accVars, migVars>>

StorageNext == AtRestRuns \/ BackupRuns \/ AccountsRun \/ MigrationsRun \/ IoRuns

\* The fairness of the modules, for the one that runs.
StorageFairness ==
    /\ WF_migVars(part = "migrations" /\ MigSteps)
    /\ WF_ioVars(part = "io" /\ LoopStep)
    /\ \A j \in Jobs : WF_ioVars(part = "io" /\ JobStep(j))

StorageSpec == StorageInit /\ [][StorageNext]_storageVars /\ StorageFairness

\* Opening a database ends each time, and so do background fetches and processes that were
\* asked to stop.
WorkEnds == []<>(OpeningEnded /\ FetchesEnded /\ CancelEnded)

\* Data survives being carried to another device or into another version of the schema.
DataSurvives == BackupSafe /\ MigrationsSafe
=============================================================================
