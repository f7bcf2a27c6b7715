-------------------------------- MODULE Backup -------------------------------
(***************************************************************************)
(* Backups (core/src/imex.rs, core/src/imex/transfer.rs and                *)
(* core/src/email/backup.rs): the database is exported, then the files of  *)
(* the blob directory are appended one by one, to a file or to a second    *)
(* device; the importing side unpacks the blobs, imports the database,     *)
(* checks its version and migrates it.  I/O is paused during an export,    *)
(* the user is not: messages come and go, and blob encryption may be       *)
(* turned on or off (core/src/email/blobcrypt.rs) while the tar is written.*)
(***************************************************************************)
EXTENDS Integers, FiniteSets

CONSTANTS
    BackupBlobs,   \* the blobs there may be
    BackupCases    \* initial states: which way, referenced blobs, sealed or not, version
                   \* and budgets

ASSUME BackupAssumption ==
    BackupCases \subseteq [way : {"file", "wire"}, refs : SUBSET BackupBlobs, sealed : BOOLEAN,
                          newer : BOOLEAN, acts : Nat, faults : Nat]

VARIABLES
    way,       \* to a file or to a second device
    source,    \* refs, blobs on disk (absent, clear, sealed), blob key in the database
    convertTo, \* blobcrypt's pass under way: "none", "sealed" or "clear"
    export,    \* how far the export is, its snapshot of the database, the blobs listed
    tar,       \* what was written: blob -> absent, clear or sealed; and whether whole
    recorded,  \* email_last_backup is set
    newPhone,    \* the importing device
    newer,     \* the backup is of a newer version
    slips,     \* history: cancellations, deaths and keys made too late
    backupBudget    \* user operations and failures left

backupVars == <<way, source, convertTo, export, tar, recorded, newPhone, newer, slips, backupBudget>>

NoBlobs == [b \in BackupBlobs |-> "absent"]
OnDisk(blobs) == {b \in BackupBlobs : blobs[b] # "absent"}

-----------------------------------------------------------------------------
(* The user of the exporting device                                        *)

UserActs == backupBudget.acts > 0 /\ backupBudget' = [backupBudget EXCEPT !.acts = @ - 1]

\* A message with a new attachment, sealed if blob encryption is on.
NewAttachment(b) ==
    /\ UserActs /\ source.blobs[b] = "absent"
    /\ source' = [source EXCEPT !.refs = @ \cup {b},
                                !.blobs[b] = IF source.on THEN "sealed" ELSE "clear"]
    /\ UNCHANGED <<way, convertTo, export, tar, recorded, newPhone, newer, slips>>

DeleteMessage(b) ==
    /\ UserActs /\ b \in source.refs
    /\ source' = [source EXCEPT !.refs = @ \ {b}]
    /\ UNCHANGED <<way, convertTo, export, tar, recorded, newPhone, newer, slips>>

\* enable: key, setting, then file by file.
EnableBlobEncryption ==
    /\ UserActs /\ ~source.on /\ convertTo = "none"
    /\ source' = [source EXCEPT !.on = TRUE, !.key = TRUE]
    /\ convertTo' = "sealed"
    /\ slips' = IF export.at \in {"exported", "writing"} /\ ~export.key THEN slips \cup {"late key"}
                ELSE slips
    /\ UNCHANGED <<way, export, tar, recorded, newPhone, newer>>

DisableBlobEncryption ==
    /\ UserActs /\ source.on /\ convertTo = "none"
    /\ source' = [source EXCEPT !.on = FALSE]
    /\ convertTo' = "clear"
    /\ UNCHANGED <<way, export, tar, recorded, newPhone, newer, slips>>

\* migrate: one file, or the end of the pass, which drops the key after decrypting.
ConvertBlob ==
    /\ convertTo # "none"
    /\ \/ \E b \in OnDisk(source.blobs) :
              /\ source.blobs[b] # convertTo
              /\ source' = [source EXCEPT !.blobs[b] = convertTo]
              /\ UNCHANGED convertTo
       \/ /\ \A b \in OnDisk(source.blobs) : source.blobs[b] = convertTo
          /\ source' = IF convertTo = "clear" THEN [source EXCEPT !.key = FALSE] ELSE source
          /\ convertTo' = "none"
    /\ UNCHANGED <<way, export, tar, recorded, newPhone, newer, slips, backupBudget>>

-----------------------------------------------------------------------------
(* Export                                                                  *)

Unused(s) == {b \in OnDisk(s.blobs) : b \notin s.refs}

RemoveUnused(s) == [s EXCEPT !.blobs = [b \in BackupBlobs |-> IF b \in Unused(s) THEN "absent"
                                                              ELSE @[b]]]

\* Housekeeping of the inbox loop, which an export pauses.
LoopHousekeeping ==
    /\ export.at = "idle" /\ Unused(source) # {}
    /\ source' = RemoveUnused(source)
    /\ UNCHANGED <<way, convertTo, export, tar, recorded, newPhone, newer, slips, backupBudget>>

\* export_database: housekeeping, then a snapshot of the database.
ExportDatabase ==
    /\ export.at = "idle"
    /\ source' = RemoveUnused(source)
    /\ export' = [export EXCEPT !.at = "exported", !.refs = source.refs, !.key = source.key]
    /\ UNCHANGED <<way, convertTo, tar, recorded, newPhone, newer, slips, backupBudget>>

\* BlobDirContents::new
ListBlobs ==
    /\ export.at = "exported"
    /\ way = "file" \/ newPhone.at = "asking"
    /\ export' = [export EXCEPT !.at = "writing", !.list = OnDisk(source.blobs)]
    /\ UNCHANGED <<way, source, convertTo, tar, recorded, newPhone, newer, slips, backupBudget>>

\* export_backup_stream: a blob is appended as it is on disk.
AppendBlob(b) ==
    /\ export.at = "writing" /\ b \in export.list
    /\ tar' = [tar EXCEPT !.blobs[b] = source.blobs[b]]
    /\ export' = [export EXCEPT !.list = @ \ {b}]
    /\ UNCHANGED <<way, source, convertTo, recorded, newPhone, newer, slips, backupBudget>>

BugFinishTar ==
    /\ export.at = "writing"
    /\ tar' = [tar EXCEPT !.whole = TRUE]
    /\ export' = [export EXCEPT !.at = IF way = "file" THEN "renamed" ELSE "sent"]
    /\ UNCHANGED <<way, source, convertTo, recorded, newPhone, newer, slips, backupBudget>>

\* The tar is finished and, as a file, renamed from its temporary name.
FinishTar ==
    /\ export.at = "writing" /\ export.list = {}
    /\ tar' = [tar EXCEPT !.whole = TRUE]
    /\ export' = [export EXCEPT !.at = IF way = "file" THEN "renamed" ELSE "sent"]
    /\ UNCHANGED <<way, source, convertTo, recorded, newPhone, newer, slips, backupBudget>>

\* email::backup::export
RecordBackup ==
    /\ export.at = "renamed"
    /\ recorded' = TRUE
    /\ export' = [export EXCEPT !.at = "done"]
    /\ UNCHANGED <<way, source, convertTo, tar, newPhone, newer, slips, backupBudget>>

\* handle_connection after the last byte: only the acknowledgement means success.
AwaitAck ==
    /\ export.at = "sent" /\ newPhone.ack
    /\ export' = [export EXCEPT !.at = "done"]
    /\ UNCHANGED <<way, source, convertTo, tar, recorded, newPhone, newer, slips, backupBudget>>

\* An error, a cancellation or a lost connection: the temporary files go.
ExportFails ==
    /\ export.at \in {"exported", "writing", "sent"} /\ backupBudget.faults > 0
    /\ backupBudget' = [backupBudget EXCEPT !.faults = @ - 1]
    /\ export' = [export EXCEPT !.at = "failed"]
    /\ tar' = IF way = "file" THEN [blobs |-> NoBlobs, whole |-> FALSE] ELSE tar
    /\ UNCHANGED <<way, source, convertTo, recorded, newPhone, newer, slips>>

-----------------------------------------------------------------------------
(* Import                                                                  *)

\* get_backup2 connects, or the user picks the finished file.
BeginImport ==
    /\ newPhone.at = "fresh" /\ ~newPhone.io
    /\ way = "file" => tar.whole
    /\ newPhone' = [newPhone EXCEPT !.at = IF way = "file" THEN "unpacking" ELSE "asking"]
    /\ UNCHANGED <<way, source, convertTo, export, tar, recorded, newer, slips, backupBudget>>

\* import_backup_stream_inner: one entry is unpacked and moved to the blob directory.
UnpackBlob(b) ==
    /\ newPhone.at \in {"asking", "unpacking"} /\ tar.blobs[b] # "absent"
    /\ newPhone.blobs[b] = "absent"
    /\ newPhone' = [newPhone EXCEPT !.at = "unpacking", !.blobs[b] = tar.blobs[b]]
    /\ UNCHANGED <<way, source, convertTo, export, tar, recorded, newer, slips, backupBudget>>

\* Sql::import
ImportDatabase ==
    /\ newPhone.at \in {"asking", "unpacking"} /\ tar.whole
    /\ OnDisk(tar.blobs) = OnDisk(newPhone.blobs)
    /\ newPhone' = [newPhone EXCEPT !.at = "imported", !.db = "backup", !.refs = export.refs,
                                !.key = export.key]
    /\ UNCHANGED <<way, source, convertTo, export, tar, recorded, newer, slips, backupBudget>>

\* A failed import: the database file is removed and made anew, the blobs are removed.
CleanedUp == [newPhone EXCEPT !.at = "failed", !.db = "fresh", !.blobs = NoBlobs, !.refs = {}, !.key = FALSE]

\* check_backup_version
CheckVersion ==
    /\ newPhone.at = "imported"
    /\ newPhone' = IF newer THEN CleanedUp ELSE [newPhone EXCEPT !.at = "checked"]
    /\ UNCHANGED <<way, source, convertTo, export, tar, recorded, newer, slips, backupBudget>>

\* run_migrations and, on a second device, the acknowledgement.
MigrateImported ==
    /\ newPhone.at = "checked"
    /\ newPhone' = [newPhone EXCEPT !.at = "migrated", !.db = "migrated", !.ack = way = "wire"]
    /\ UNCHANGED <<way, source, convertTo, export, tar, recorded, newer, slips, backupBudget>>

\* An entry, the database or a migration fails.
ImportFails ==
    /\ newPhone.at \in {"unpacking", "imported", "checked"} /\ backupBudget.faults > 0
    /\ backupBudget' = [backupBudget EXCEPT !.faults = @ - 1]
    /\ newPhone' = CleanedUp
    /\ UNCHANGED <<way, source, convertTo, export, tar, recorded, newer, slips>>

\* stop_ongoing drops the import where it stands; the clean-up is part of what is dropped.
CancelImport ==
    /\ newPhone.at \in {"asking", "unpacking", "imported", "checked"} /\ backupBudget.faults > 0
    /\ backupBudget' = [backupBudget EXCEPT !.faults = @ - 1]
    /\ slips' = slips \cup {"cancelled"}
    /\ newPhone' = [newPhone EXCEPT !.at = "failed"]
    /\ UNCHANGED <<way, source, convertTo, export, tar, recorded, newer>>

\* start_io works once the database says the account is configured; importing a file
\* pauses I/O meanwhile, getting a backup from a device does not.
StartIoImported ==
    /\ newPhone.db # "fresh" /\ ~newPhone.io
    /\ way = "file" => newPhone.at \notin {"imported", "checked"}
    /\ newPhone' = [newPhone EXCEPT !.io = TRUE]
    /\ UNCHANGED <<way, source, convertTo, export, tar, recorded, newer, slips, backupBudget>>

-----------------------------------------------------------------------------

BackupInit ==
    \E c \in BackupCases :
        /\ way = c.way /\ newer = c.newer
        /\ source = [refs |-> c.refs, on |-> c.sealed, key |-> c.sealed,
                     blobs |-> [b \in BackupBlobs |-> IF b \notin c.refs THEN "absent"
                                                      ELSE IF c.sealed THEN "sealed" ELSE "clear"]]
        /\ backupBudget = [acts |-> c.acts, faults |-> c.faults]
        /\ convertTo = "none" /\ recorded = FALSE /\ slips = {}
        /\ export = [at |-> "idle", refs |-> {}, key |-> FALSE, list |-> {}]
        /\ tar = [blobs |-> NoBlobs, whole |-> FALSE]
        /\ newPhone = [at |-> "fresh", db |-> "fresh", refs |-> {}, key |-> FALSE, blobs |-> NoBlobs,
                     ack |-> FALSE, io |-> FALSE]

BackupNext ==
    \/ \E b \in BackupBlobs : NewAttachment(b) \/ DeleteMessage(b) \/ AppendBlob(b) \/ UnpackBlob(b)
    \/ EnableBlobEncryption \/ DisableBlobEncryption \/ ConvertBlob \/ LoopHousekeeping
    \/ ExportDatabase \/ ListBlobs \/ FinishTar \/ RecordBackup \/ AwaitAck \/ ExportFails
    \/ BeginImport \/ ImportDatabase \/ CheckVersion \/ MigrateImported \/ ImportFails
    \/ CancelImport \/ StartIoImported

BackupSpec == BackupInit /\ [][BackupNext]_backupVars

-----------------------------------------------------------------------------
(* Properties                                                              *)

BackupTypeOK ==
    /\ export.at \in {"idle", "exported", "writing", "renamed", "sent", "done", "failed"}
    /\ newPhone.db \in {"fresh", "backup", "migrated"} /\ newPhone.refs \subseteq BackupBlobs
    /\ export.list \subseteq OnDisk(source.blobs)

ReadableHere(d) == \A b \in d.refs : d.blobs[b] = "clear" \/ (d.blobs[b] = "sealed" /\ d.key)

\* What was restored can be read: every blob that the restored messages refer to is there,
\* in the clear or under the key the restored database has, though messages were added and
\* deleted and blobs were converted while they were being written.
RestoredReadable == newPhone.at = "migrated" /\ slips = {} => ReadableHere(newPhone)

\* The time of the last backup is only ever recorded with a whole backup file, which has
\* every blob its database refers to.
RecordedIsWhole ==
    recorded => tar.whole /\ export.refs \subseteq OnDisk(tar.blobs)

\* An import ends with everything or with nothing: the new database checked and migrated
\* and all its blobs, or an empty account.
AllOrNothing ==
    "cancelled" \in slips \/
    /\ newPhone.at = "failed" => newPhone.db = "fresh" /\ OnDisk(newPhone.blobs) = {}
    /\ newPhone.at = "migrated" => ~newer /\ newPhone.refs \subseteq OnDisk(newPhone.blobs)

\* The device that offers a backup reports success only after the other one has it.
DoneMeansImported == way = "wire" /\ export.at = "done" => newPhone.db = "migrated"

\* While a file is imported, no loop runs on the account.
NoIoWhileImporting ==
    way = "file" /\ newPhone.at \in {"unpacking", "imported", "checked"} => ~newPhone.io

\* The tar is encrypted with a passphrase, so that the mailbox is not in the clear
\* (email/backup.rs).  It fails: only the database is; blobs are appended as they are.
TarSealed == \A b \in BackupBlobs : tar.blobs[b] # "clear"

\* A failed import cleans up (imex.rs).  It fails for a cancelled one.
CancelledCleansUp == newPhone.at = "failed" => newPhone.db = "fresh" /\ OnDisk(newPhone.blobs) = {}

\* Blob encryption requires an encrypted database (email/blobcrypt.rs), here for the
\* restored account, whose database has no passphrase.
KeyNeverInClear == ~newPhone.key

\* Changing blob encryption never loses a blob (email/blobcrypt.rs), here for a backup
\* written meanwhile: its database was exported before the key was made.
LateKeyHarmless == newPhone.at = "migrated" => ReadableHere(newPhone)

\* An import does not run with I/O (imex.rs).  It fails for a backup got from a device.
NeverIoWhileImporting == newPhone.at \in {"unpacking", "imported", "checked"} => ~newPhone.io

\* A backup survives its way: what is restored is readable, what is recorded is whole, an
\* import is done entirely or not at all, and nothing works on the database meanwhile.
BackupSafe ==
    BackupTypeOK /\ RestoredReadable /\ RecordedIsWhole /\ AllOrNothing /\ DoneMeansImported /\ NoIoWhileImporting
=============================================================================
