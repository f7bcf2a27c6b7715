------------------------------- MODULE AtRest -------------------------------
(***************************************************************************)
(* Encryption at rest: the database passphrase, the blob key kept in the   *)
(* database, and the files of the blobdir.                                 *)
(*                                                                         *)
(*   core/src/email/vault.rs      set_passphrase, rewrite_under_key        *)
(*   core/src/email/blobcrypt.rs  enable, disable, migrate, protect, read  *)
(*   core/src/blob.rs             create_and_deduplicate                   *)
(*   core/src/sql.rs              the configuration cache, close, open     *)
(*                                                                         *)
(* Two tasks run concurrently: the inbox, which stores a blob for each     *)
(* message and then commits the message, and the user's JSON-RPC call.     *)
(* Every statement, file operation and rename is one step, and the process *)
(* may die between any two.                                                *)
(***************************************************************************)
EXTENDS Naturals, FiniteSets

CONSTANTS
    Blobs,        \* messages, each with one blob of that content
    Ops,          \* calls the user makes: "enable", "disable", "passphrase"
    MaxRunning,   \* tasks that may be in flight at once
    MaxKeys,      \* bound on blob keys ever generated
    MaxFails,     \* bound on failed statements and file operations
    MaxCrashes    \* bound on process deaths

ASSUME OpsAssumption == Ops \subseteq {"enable", "disable", "passphrase"}
ASSUME BoundsAssumption ==
    MaxRunning \in Nat /\ MaxKeys \in Nat /\ MaxFails \in Nat /\ MaxCrashes \in Nat

VARIABLES
    db,            \* the database file: encryption, two settings, messages
    copy,          \* the file db-converting, NoCopy when there is none
    pool_open,     \* Sql::pool is Some
    is_encrypted,  \* Sql::is_encrypted, what the process believes
    cached,        \* settings held in Sql::config_cache
    mem,           \* their values there
    file,          \* the blobdir
    pc,            \* where each task is
    path,          \* the directory entry it works on
    key,           \* the blob key it has read
    buf,           \* what convert is about to rename into place
    todo,          \* entries migrate's directory scan still owes
    target,        \* what the user's call wants: encrypted or not
    keys,          \* blob keys generated so far
    fails,         \* failures so far
    crashes,       \* process deaths so far
    acked,         \* history: messages whose commit returned
    interrupted    \* history: something failed since enable last began

database == <<db, copy, pool_open, is_encrypted, cached, mem>>
locals == <<path, key, buf, todo, target>>
faults == <<fails, crashes>>
history == <<acked, interrupted>>
vars == <<database, file, pc, locals, keys, faults, history>>

Inbox == "inbox"
User == "user"
Tasks == {Inbox, User}

Idle == "idle"
Labels == {Idle, "store", "name", "check", "ensure", "generate", "read", "write",
           "replace", "commit", "on", "migrate", "scan", "next", "drop",
           "export", "close", "rename", "open"}

NoKey == 0
NoFile == [key |-> NoKey, whole |-> FALSE, fd |-> FALSE, exists |-> FALSE]
Sealed(k, f) == [f EXCEPT !.key = k, !.fd = FALSE]

\* A blob's final name, the tmp- name it is written to first, and the .tmp- name
\* beside either that convert writes to.
Temp(b) == <<b, "tmp">>
Named(b) == <<b, "named">>
Beside(e) == <<e[1], "beside">>
Entries == Blobs \X {"tmp", "named", "beside"}

\* What migrate looks at.  convert's own temporaries, with ".tmp-" in their
\* names, are passed over; a blob that is still being stored, "tmp-", is not.
Scanned == {e \in Entries : e[2] # "beside"}

Exists == {e \in Entries : file[e].exists}
NoPath == <<"none", "none">>

Database == [enc : BOOLEAN, key : 0..keys, on : BOOLEAN, rows : SUBSET Blobs]
NoCopy == [enc |-> FALSE, key |-> NoKey, on |-> FALSE, rows |-> {}]
File == [key : 0..keys, whole : BOOLEAN, fd : BOOLEAN, exists : BOOLEAN]

TypeOK ==
    /\ db \in Database
    /\ copy \in Database
    /\ pool_open \in BOOLEAN
    /\ is_encrypted \in BOOLEAN
    /\ cached \subseteq {"key", "on"}
    /\ mem \in [key : 0..keys, on : BOOLEAN]
    /\ file \in [Entries -> File]
    /\ pc \in [Tasks -> Labels]
    /\ path \in [Tasks -> Entries \cup {NoPath}]
    /\ key \in [Tasks -> 0..keys]
    /\ buf \in [Tasks -> File]
    /\ todo \subseteq Scanned
    /\ target \in BOOLEAN
    /\ keys \in 0..MaxKeys
    /\ fails \in 0..MaxFails
    /\ crashes \in 0..MaxCrashes
    /\ acked \subseteq Blobs
    /\ interrupted \in BOOLEAN

\* A new account: nothing received, nothing encrypted but perhaps the database.
Init ==
    /\ db \in {[enc |-> e, key |-> NoKey, on |-> FALSE, rows |-> {}] : e \in BOOLEAN}
    /\ copy = NoCopy
    /\ pool_open = TRUE
    /\ is_encrypted = db.enc
    /\ cached = {}
    /\ mem = [key |-> NoKey, on |-> FALSE]
    /\ file = [e \in Entries |-> NoFile]
    /\ pc = [t \in Tasks |-> Idle]
    /\ path = [t \in Tasks |-> NoPath]
    /\ key = [t \in Tasks |-> NoKey]
    /\ buf = [t \in Tasks |-> NoFile]
    /\ todo = {}
    /\ target = FALSE
    /\ keys = 0
    /\ fails = 0
    /\ crashes = 0
    /\ acked = {}
    /\ interrupted = FALSE

Quiet == \A t \in Tasks : pc[t] = Idle

\* A handler may begin: its task is free and not too many others are running.
CanStart(t) ==
    /\ pc[t] = Idle
    /\ Cardinality({u \in Tasks : pc[u] # Idle}) < MaxRunning

Goto(t, label) == pc' = [pc EXCEPT ![t] = label]

\* The task's call is over; what it had in hand is forgotten.
Reset(t) ==
    /\ path' = [path EXCEPT ![t] = NoPath]
    /\ key' = [key EXCEPT ![t] = NoKey]
    /\ buf' = [buf EXCEPT ![t] = NoFile]
    /\ todo' = IF t = User THEN {} ELSE todo
    /\ target' = IF t = User THEN FALSE ELSE target

Return(t) == Goto(t, Idle) /\ Reset(t)

----------------------------------------------------------------------------
(***************************************************************************)
(* Settings.  get_raw_config answers from the cache, also while the        *)
(* database is closed, and asks the database only the first time.          *)
(***************************************************************************)

CanGet(name) == name \in cached \/ pool_open
Get(name) == IF name \in cached THEN mem[name] ELSE db[name]

Fill(name) ==
    /\ CanGet(name)
    /\ mem' = [mem EXCEPT ![name] = Get(name)]
    /\ cached' = cached \cup {name}
    /\ UNCHANGED <<db, copy, pool_open, is_encrypted>>

SetRaw(name, value) ==
    /\ pool_open
    /\ db' = [db EXCEPT ![name] = value]
    /\ mem' = [mem EXCEPT ![name] = value]
    /\ cached' = cached \cup {name}
    /\ UNCHANGED <<copy, pool_open, is_encrypted>>

\* Where an error leaves a task: the user's call returns it.  For the inbox,
\* protect only warns and the message is stored, anything else loses the
\* message to a later fetch.
Abort(t) ==
    IF t = Inbox /\ pc[t] \in {"check", "ensure", "generate", "read", "write", "replace"}
    THEN Goto(t, "commit") /\ UNCHANGED locals
    ELSE Return(t)

\* The setting cannot be had: the database is closed.
NoSql(t) ==
    /\ \/ pc[t] = "check" /\ ~CanGet("on")
       \/ pc[t] \in {"ensure", "migrate"} /\ ~CanGet("key")
       \/ pc[t] \in {"generate", "on", "drop", "commit", "export"} /\ ~pool_open
    /\ Abort(t)
    /\ interrupted' = TRUE
    /\ UNCHANGED <<database, file, keys, faults, acked>>

----------------------------------------------------------------------------
(***************************************************************************)
(* Storing a blob: written to a tmp- file, renamed to the name its content *)
(* gives it, then protected in place.                                      *)
(***************************************************************************)

StoreBegin(b) ==
    /\ CanStart(Inbox)
    /\ file' = [file EXCEPT ![Temp(b)] =
                    [key |-> NoKey, whole |-> FALSE, fd |-> TRUE, exists |-> TRUE]]
    /\ path' = [path EXCEPT ![Inbox] = Named(b)]
    /\ Goto(Inbox, "store")
    /\ UNCHANGED <<database, key, buf, todo, target, keys, faults, history>>

\* The rest is written through the descriptor, which is not the file of that
\* name any more if something was renamed over it meanwhile.
StoreEnd(b) ==
    /\ pc[Inbox] = "store"
    /\ path[Inbox] = Named(b)
    /\ file' = IF file[Temp(b)].fd
               THEN [file EXCEPT ![Temp(b)].whole = TRUE, ![Temp(b)].fd = FALSE]
               ELSE file
    /\ Goto(Inbox, "name")
    /\ UNCHANGED <<database, locals, keys, faults, history>>

\* The rename replaces a file of that name, an encrypted one too.
NameBlob(b) ==
    /\ pc[Inbox] = "name"
    /\ path[Inbox] = Named(b)
    /\ file' = [file EXCEPT ![Named(b)] = file[Temp(b)], ![Temp(b)] = NoFile]
    /\ Goto(Inbox, "check")
    /\ UNCHANGED <<database, locals, keys, faults, history>>

ProtectCheck ==
    /\ pc[Inbox] = "check"
    /\ Fill("on")
    /\ Goto(Inbox, IF Get("on") THEN "ensure" ELSE "commit")
    /\ UNCHANGED <<file, locals, keys, faults, history>>

CommitRow(b) ==
    /\ pc[Inbox] = "commit"
    /\ path[Inbox] = Named(b)
    /\ pool_open
    /\ db' = [db EXCEPT !.rows = @ \cup {b}]
    /\ acked' = acked \cup {b}
    /\ Return(Inbox)
    /\ UNCHANGED <<copy, pool_open, is_encrypted, cached, mem, file, keys, faults,
                   interrupted>>

\* Housekeeping deletes a file no message refers to and nothing has touched for
\* an hour.
RemoveUnusedFile(e) ==
    /\ e \in Exists
    /\ \A b \in db.rows : e # Named(b)
    /\ \A t \in Tasks : path[t][1] # e[1]
    /\ pool_open
    /\ file' = [file EXCEPT ![e] = NoFile]
    /\ UNCHANGED <<database, pc, locals, keys, faults, history>>

----------------------------------------------------------------------------
(***************************************************************************)
(* Shared by protect, enable and migrate.                                  *)
(***************************************************************************)

\* Where ensure_key's caller goes on.
AfterKey(t) == IF t = Inbox THEN "read" ELSE "on"

\* ensure_key looks for the key and, finding none, makes one in a later step.
EnsureKey(t) ==
    /\ pc[t] = "ensure"
    /\ Fill("key")
    /\ key' = [key EXCEPT ![t] = Get("key")]
    /\ Goto(t, IF Get("key") = NoKey THEN "generate" ELSE AfterKey(t))
    /\ UNCHANGED <<file, path, buf, todo, target, keys, faults, history>>

GenerateKey(t) ==
    /\ pc[t] = "generate"
    /\ keys < MaxKeys
    /\ keys' = keys + 1
    /\ key' = [key EXCEPT ![t] = keys + 1]
    /\ SetRaw("key", keys + 1)
    /\ Goto(t, AfterKey(t))
    /\ UNCHANGED <<file, path, buf, todo, target, faults, history>>

\* Where convert's caller goes on: migrate only warns about a failure.
AfterConvert(t) == IF t = Inbox THEN "commit" ELSE "next"

\* What convert makes of f for t: protect seals, migrate seals or opens.  A
\* file in the wanted state, or one that t's key does not open, stays.
Converted(t, f) ==
    IF t = Inbox \/ target
    THEN IF f.key = NoKey THEN Sealed(key[t], f) ELSE f
    ELSE IF f.key = key[t] THEN Sealed(NoKey, f) ELSE f

ConvertRead(t) ==
    LET f == file[path[t]] IN
    /\ pc[t] = "read"
    /\ IF f.exists /\ Converted(t, f).key # f.key
       THEN /\ buf' = [buf EXCEPT ![t] = Converted(t, f)]
            /\ Goto(t, "write")
       ELSE /\ Goto(t, AfterConvert(t))
            /\ UNCHANGED buf
    /\ UNCHANGED <<database, file, path, key, todo, target, keys, faults, history>>

\* Written beside the blob, and renamed over it.
ConvertWrite(t) ==
    /\ pc[t] = "write"
    /\ file' = [file EXCEPT ![Beside(path[t])] = buf[t]]
    /\ Goto(t, "replace")
    /\ UNCHANGED <<database, locals, keys, faults, history>>

ConvertReplace(t) ==
    /\ pc[t] = "replace"
    /\ file' = [file EXCEPT ![path[t]] = buf[t], ![Beside(path[t])] = NoFile]
    /\ Goto(t, AfterConvert(t))
    /\ UNCHANGED <<database, locals, keys, faults, history>>

----------------------------------------------------------------------------
(***************************************************************************)
(* Turning blob encryption on and off.                                     *)
(***************************************************************************)

\* Refused without an encrypted database, and then nothing happens.
EnableBegin ==
    /\ "enable" \in Ops
    /\ CanStart(User)
    /\ is_encrypted
    /\ db.key # NoKey \/ keys < MaxKeys
    /\ target' = TRUE
    /\ interrupted' = FALSE
    /\ Goto(User, "ensure")
    /\ UNCHANGED <<database, file, path, key, buf, todo, keys, faults, acked>>

SwitchOn ==
    /\ pc[User] = "on"
    /\ SetRaw("on", TRUE)
    /\ Goto(User, "migrate")
    /\ UNCHANGED <<file, locals, keys, faults, history>>

\* The key goes with the setting, before any blob has been converted.
BugDisable ==
    /\ "disable" \in Ops
    /\ CanStart(User)
    /\ pool_open
    /\ db' = [db EXCEPT !.on = FALSE, !.key = NoKey]
    /\ mem' = [on |-> FALSE, key |-> NoKey]
    /\ cached' = {"on", "key"}
    /\ target' = FALSE
    /\ Goto(User, "migrate")
    /\ UNCHANGED <<copy, pool_open, is_encrypted, file, path, key, buf, todo, keys,
                   faults, history>>

Disable ==
    /\ "disable" \in Ops
    /\ CanStart(User)
    /\ SetRaw("on", FALSE)
    /\ target' = FALSE
    /\ Goto(User, "migrate")
    /\ UNCHANGED <<file, path, key, buf, todo, keys, faults, history>>

\* migrate has nothing to do without a key.
MigrateKey ==
    /\ pc[User] = "migrate"
    /\ Fill("key")
    /\ \/ /\ Get("key") # NoKey
          /\ key' = [key EXCEPT ![User] = Get("key")]
          /\ Goto(User, "scan")
          /\ UNCHANGED <<path, buf, todo, target>>
       \/ /\ Get("key") = NoKey
          /\ IF target THEN Return(User) ELSE Goto(User, "drop") /\ UNCHANGED locals
    /\ UNCHANGED <<file, keys, faults, history>>

MigrateScan ==
    /\ pc[User] = "scan"
    /\ todo' = Exists \cap Scanned
    /\ Goto(User, "next")
    /\ UNCHANGED <<database, file, path, key, buf, target, keys, faults, history>>

\* read_dir yields every entry that was there all along; one that appears
\* during the scan it may yield.
MigrateNext(e) ==
    /\ pc[User] = "next"
    /\ e \in todo \cup (Exists \cap Scanned)
    /\ todo' = todo \ {e}
    /\ path' = [path EXCEPT ![User] = e]
    /\ Goto(User, "read")
    /\ UNCHANGED <<database, file, key, buf, target, keys, faults, history>>

MigrateEnd ==
    /\ pc[User] = "next"
    /\ todo = {}
    /\ IF target THEN Return(User) ELSE Goto(User, "drop") /\ UNCHANGED locals
    /\ UNCHANGED <<database, file, keys, faults, history>>

DropKey ==
    /\ pc[User] = "drop"
    /\ SetRaw("key", NoKey)
    /\ Return(User)
    /\ UNCHANGED <<file, keys, faults, history>>

----------------------------------------------------------------------------
(***************************************************************************)
(* Setting, changing and removing the passphrase.                          *)
(***************************************************************************)

\* Only crossing between encrypted and plaintext rewrites the database; a
\* changed passphrase is a rekey in place, none to none is nothing.
SetPassphrase(enc) ==
    /\ "passphrase" \in Ops
    /\ CanStart(User)
    /\ is_encrypted # enc
    /\ target' = enc
    /\ copy' = NoCopy
    /\ Goto(User, "export")
    /\ UNCHANGED <<db, pool_open, is_encrypted, cached, mem, file, path, key, buf,
                   todo, keys, faults, history>>

\* The copy is made without the blob key.
BugRewriteExport ==
    /\ pc[User] = "export"
    /\ pool_open
    /\ copy' = [db EXCEPT !.enc = target, !.key = NoKey]
    /\ Goto(User, "close")
    /\ UNCHANGED <<db, pool_open, is_encrypted, cached, mem, file, locals, keys,
                   faults, history>>

RewriteExport ==
    /\ pc[User] = "export"
    /\ pool_open
    /\ copy' = [db EXCEPT !.enc = target]
    /\ Goto(User, "close")
    /\ UNCHANGED <<db, pool_open, is_encrypted, cached, mem, file, locals, keys,
                   faults, history>>

\* Sql::close waits for the statements in flight.  The configuration cache
\* stays as it is.
RewriteClose ==
    /\ pc[User] = "close"
    /\ pool_open' = FALSE
    /\ Goto(User, "rename")
    /\ UNCHANGED <<db, copy, is_encrypted, cached, mem, file, locals, keys, faults,
                   history>>

RewriteRename ==
    /\ pc[User] = "rename"
    /\ db' = copy
    /\ copy' = NoCopy
    /\ Goto(User, "open")
    /\ UNCHANGED <<pool_open, is_encrypted, cached, mem, file, locals, keys, faults,
                   history>>

RewriteOpen ==
    /\ pc[User] = "open"
    /\ pool_open' = TRUE
    /\ is_encrypted' = target
    /\ Return(User)
    /\ UNCHANGED <<db, copy, cached, mem, file, keys, faults, history>>

----------------------------------------------------------------------------
(***************************************************************************)
(* Failure.                                                                *)
(***************************************************************************)

\* A file operation or a statement fails.  convert's failure is a warning to
\* both its callers.
Fail(t) ==
    /\ fails < MaxFails
    /\ pc[t] # Idle
    /\ fails' = fails + 1
    /\ interrupted' = TRUE
    /\ IF pc[t] \in {"read", "write", "replace"}
       THEN Goto(t, AfterConvert(t)) /\ UNCHANGED locals
       ELSE Abort(t)
    /\ UNCHANGED <<database, file, keys, crashes, acked>>

\* The process dies and is started again, with the passphrase that opens what
\* is on the disk.
Crash ==
    /\ crashes < MaxCrashes
    /\ crashes' = crashes + 1
    /\ interrupted' = TRUE
    /\ pc' = [t \in Tasks |-> Idle]
    /\ path' = [t \in Tasks |-> NoPath]
    /\ key' = [t \in Tasks |-> NoKey]
    /\ buf' = [t \in Tasks |-> NoFile]
    /\ todo' = {}
    /\ target' = FALSE
    /\ pool_open' = TRUE
    /\ is_encrypted' = db.enc
    /\ cached' = {}
    /\ mem' = [key |-> NoKey, on |-> FALSE]
    /\ file' = [e \in Entries |-> [file[e] EXCEPT !.fd = FALSE]]
    /\ UNCHANGED <<db, copy, keys, fails, acked>>

----------------------------------------------------------------------------

InboxStep ==
    \/ \E b \in Blobs : StoreEnd(b) \/ NameBlob(b) \/ CommitRow(b)
    \/ ProtectCheck

KeyStep(t) == EnsureKey(t) \/ GenerateKey(t) \/ ConvertRead(t) \/ ConvertWrite(t)
              \/ ConvertReplace(t)

MigrateStep ==
    \/ SwitchOn
    \/ MigrateKey
    \/ MigrateScan
    \/ \E e \in Entries : MigrateNext(e)
    \/ MigrateEnd
    \/ DropKey

RewriteStep == RewriteExport \/ RewriteClose \/ RewriteRename \/ RewriteOpen

Call ==
    \/ \E b \in Blobs : StoreBegin(b)
    \/ EnableBegin
    \/ Disable
    \/ \E enc \in BOOLEAN : SetPassphrase(enc)

Housekeeping == \E e \in Entries : RemoveUnusedFile(e)

Fault == Crash \/ \E t \in Tasks : Fail(t)

Next ==
    \/ Call
    \/ InboxStep
    \/ MigrateStep
    \/ RewriteStep
    \/ \E t \in Tasks : KeyStep(t) \/ NoSql(t)
    \/ Housekeeping
    \/ Fault

Spec == Init /\ [][Next]_vars

----------------------------------------------------------------------------
(***************************************************************************)
(* Properties.                                                             *)
(***************************************************************************)

\* Every message's blob can be read, now and after a restart: it is there, and
\* if it is encrypted the database holds the key it was encrypted with.
\* disable's comment promises as much: "The key is kept until every blob is
\* back in cleartext".
Readable ==
    \A b \in db.rows :
        /\ file[Named(b)].exists
        /\ file[Named(b)].key \in {NoKey, db.key}

\* What is stored under a blob's name is all of it, whatever convert was doing
\* when the process died: "either wholly converted or wholly not -- never half".
WholeBlobs ==
    \A b \in Blobs : file[Named(b)].exists => file[Named(b)].whole

\* enable, run to its end, leaves nothing in cleartext, although mail arrives
\* meanwhile and whatever an earlier attempt left undone; only files that
\* convert abandoned wait for housekeeping.
NoneLeftClear ==
    Quiet /\ db.on /\ ~interrupted =>
        \A e \in Exists \cap Scanned : file[e].key # NoKey

\* A message whose commit returned stays in the database: rewriting it under
\* another key copies all of it, and an interruption leaves it as it was.
CommittedStays == acked \subseteq db.rows

\* Encryption at rest with one handler at a time: blobs are readable and whole, none is left in
\* clear behind, and what was committed stays so.
AtRestSafe == TypeOK /\ Readable /\ WholeBlobs /\ NoneLeftClear /\ CommittedStays

\* With handlers that run at the same time, blobs are still readable and none is left in clear.
BlobsReadable == Readable /\ NoneLeftClear
=============================================================================
