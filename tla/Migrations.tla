----------------------------- MODULE Migrations -----------------------------
(* Opening the database: every migration of sql/migrations.rs in its order, as the *)
(* tables and columns it needs, drops and makes, from a new file or from the file  *)
(* any earlier release left. Most migrations commit with their version number; the *)
(* others are several statements, and the process may die between any two.        *)
EXTENDS Naturals, Sequences, FiniteSets

CONSTANT MaxMigDeaths    \* bound on deaths

ASSUME MaxMigDeaths \in Nat

VARIABLES dbFile,     \* the database: exists, ver (dbversion), schema, and the settings below
          opening,  \* "closed", "running", "open", or "failed" (try_open keeps the file open)
          step,     \* the position in Steps of the migration that runs next
          stmt,     \* the statement of it that runs next
          existed,  \* exists_before_update
          recode,   \* recode_avatar
          failedAt, \* the version whose migration returned an error
          migDeaths,
          account   \* history: what the account was before the first opening, and how it was cut

migVars == <<dbFile, opening, step, stmt, existed, recode, failedAt, migDeaths, account>>

--------------------------------------------------------------------------------
(* A schema is a set of pairs: <<table, "">> and <<table, column>>. Columns of a   *)
(* table that no later migration reads, adds or drops are left out.               *)

Cols(t, cs) == {<<t, c>> : c \in cs}
Tbl(t, cs) == Cols(t, cs \cup {""})
TableOf(schema, t) == {e \in schema : e[1] = t}

\* What one migration needs, the tables it drops and what it makes.
Mig(v, needs, drops, makes) == [v |-> v, needs |-> needs, drops |-> drops, makes |-> makes]
Nothing(v) == Mig(v, {}, {}, {})
Add(v, t, cs) == Mig(v, Tbl(t, {}), {}, Cols(t, cs))
Create(v, t, cs) == Mig(v, {}, {}, Tbl(t, cs))
Creates(v, ts) == Mig(v, {}, {}, UNION {Tbl(t, {}) : t \in ts})
Rebuild(v, t, reads, cs) == Mig(v, Tbl(t, reads), {t}, Tbl(t, cs))

PeerCols == {"addr", "last_seen", "last_seen_autocrypt", "public_key", "prefer_encrypted"}
GossipCols == {"gossip_timestamp", "gossip_key"}
FprCols == {"public_key_fingerprint", "gossip_key_fingerprint"}
VerifiedCols == {"verified_key", "verified_key_fingerprint"}
TokenCols == {"namespc", "foreign_id", "token", "timestamp"}
KeypairCols == {"addr", "is_default", "private_key", "public_key", "created"}

Migs1 ==
  << Create(1, "leftgrps", {"grpid"}), Add(2, "contacts", {"authname"}),
     Create(7, "keypairs", KeypairCols), Create(10, "acpeerstates", PeerCols),
     Create(12, "msgs_mdns", {}),
     Mig(17, Tbl("chats", {}) \cup Tbl("msgs", {}), {}, Cols("chats", {"archived"}) \cup Cols("msgs", {"starred"})),
     Add(18, "acpeerstates", GossipCols),
     Mig(27, Tbl("chats_contacts", {"contact_id"}) \cup Tbl("msgs", {"chat_id"}), {},
         Cols("msgs", {"timestamp_sent", "timestamp_rcvd"})),
     Mig(34, UNION {Tbl(t, {}) : t \in {"msgs", "msgs_mdns", "acpeerstates"}}, {},
         Cols("msgs", {"hidden"}) \cup Cols("msgs_mdns", {"timestamp_sent"}) \cup Cols("acpeerstates", FprCols)),
     Mig(39, Tbl("acpeerstates", {}), {}, Tbl("tokens", TokenCols) \cup Cols("acpeerstates", VerifiedCols)),
     Add(40, "jobs", {"thread"}), Add(44, "msgs", {"mime_headers"}),
     Add(46, "msgs", {"mime_in_reply_to", "mime_references"}), Add(47, "jobs", {"tries"}),
     Add(48, "msgs", {"move_state"}), Add(49, "chats", {"gossiped_timestamp"}) >>

Migs50 ==
  << Nothing(50),
     Mig(53, Tbl("chats", {}), {}, Tbl("locations", {"from_id", "timestamp"})
         \cup Cols("chats", {"locations_send_begin", "locations_send_until", "locations_last_sent"})),
     Add(54, "msgs", {"location_id"}), Add(55, "locations", {"independent"}),
     Create(59, "devmsglabels", {"label"}), Add(60, "chats", {"created_timestamp"}),
     Add(61, "contacts", {"selfavatar_sent"}), Add(62, "chats", {"muted_until"}),
     Mig(63, Tbl("chats", {"grpid", "type"}), {}, {}), Add(64, "msgs", {"error"}),
     Mig(65, Tbl("chats", {}) \cup Tbl("msgs", {}), {},
         Cols("chats", {"ephemeral_timer"}) \cup Cols("msgs", {"ephemeral_timer", "ephemeral_timestamp"})),
     Nothing(66), Nothing(67), Mig(68, Tbl("msgs", {"state", "hidden", "chat_id"}), {}, {}),
     Mig(69, Tbl("chats", {"type"}), {}, Cols("chats", {"protected"})) >>

Migs72 ==
  << Add(72, "msgs", {"mime_modified"}), Create(73, "imap_sync", {"folder", "uidvalidity", "uid_next"}),
     Mig(74, Tbl("contacts", {"name", "authname"}), {}, {}), Add(75, "contacts", {"status"}),
     Add(76, "msgs", {"subject"}), Nothing(77), Mig(78, Tbl("chats", {"archived", "blocked"}), {}, {}),
     Add(79, "msgs", {"download_state"}), Create(80, "multi_device_sync", {}), Add(81, "msgs", {"hop_info"}) >>

Migs82 ==
  << Mig(82, Tbl("msgs", {"rfc724_mid", "server_folder", "server_uid"}) \cup Cols("imap_sync", {"folder", "uidvalidity"}),
         {}, Tbl("imap", {"rfc724_mid", "folder", "target", "uid", "uidvalidity"})),
     Add(83, "imap_sync", {"modseq"}), Create(84, "msgs_status_updates", {"msg_id", "update_item", "update_item_read"}),
     Mig(85, Tbl("imap", {"rfc724_mid"}), {}, Tbl("smtp", {})), Create(86, "bobstate", {}),
     Mig(87, Tbl("msgs", {"ephemeral_timestamp"}), {}, {}), Nothing(88),
     Mig(89, Tbl("imap", {}), {}, Tbl("imap_markseen", {"id"})), Create(90, "smtp_mdns", {}),
     Create(91, "smtp_status_updates", {}),
     Mig(92, Tbl("msgs", {}) \cup Tbl("contacts", {}), {}, Tbl("reactions", {"msg_id"})),
     Create(93, "sending_domains", {}) >>

Migs94 ==
  LET peers == PeerCols \cup GossipCols \cup FprCols \cup VerifiedCols
  IN << Rebuild(94, "acpeerstates", peers, peers),
        Rebuild(95, "chats_contacts", {"chat_id", "contact_id"}, {"chat_id", "contact_id"}),
        Add(96, "acpeerstates", {"verifier"}), Create(97, "dns_cache", {}), Nothing(98), Nothing(99),
        Add(100, "msgs", {"mime_compressed"}), Rebuild(101, "smtp", {}, {}), Create(102, "download", {"msg_id"}),
        Add(103, "contacts", {"is_bot"}),
        Add(104, "acpeerstates", {"secondary_verified_key", "secondary_verified_key_fingerprint", "secondary_verifier"}) >>

Migs105 ==
  << Rebuild(105, "msgs_status_updates", {"msg_id", "update_item"}, {"msg_id", "update_item", "uid"}),
     Rebuild(106, "config", {"keyname", "value"}, {"keyname", "value"}),
     Mig(107, Tbl("keypairs", KeypairCols), {"keypairs"},
         Tbl("keypairs", {"private_key", "public_key"}) \cup Tbl("old_keypairs", KeypairCols)),
     Mig(109, Tbl("acpeerstates", {"verified_key"}), {}, Cols("acpeerstates", {"backward_verified_key_id"})),
     Add(110, "keypairs", {"addr", "is_default", "created"}), Create(111, "iroh_gossip_peers", {}),
     Rebuild(112, "iroh_gossip_peers", {}, {}), Rebuild(113, "iroh_gossip_peers", {}, {}),
     Mig(114, Tbl("reactions", {"msg_id"}), {}, {}), Add(115, "msgs", {"txt_normalized"}) >>

Migs116 ==
  << Add(116, "msgs", {"deleted"}), Create(117, "connection_history", {}),
     Mig(118, Tbl("tokens", TokenCols) \cup Cols("chats", {"grpid"}), {"tokens"},
         Tbl("tokens", {"namespc", "foreign_key", "token", "timestamp"})),
     Create(119, "imap_send", {}), Nothing(120), Mig(121, Tbl("chats", {"name"}), {}, {}),
     Add(122, "tokens", {"foreign_id"}) >>

Migs123 ==
  << Rebuild(123, "msgs_status_updates", {"msg_id", "update_item", "uid"}, {"msg_id", "update_item", "uid"}),
     Mig(124, Tbl("chats", {"protected", "type"}) \cup Tbl("chats_contacts", {"chat_id", "contact_id"}), {}, {}),
     Create(125, "http_cache", {}), Rebuild(126, "http_cache", {}, {"stale"}), Nothing(127),
     Add(128, "chats_contacts", {"add_timestamp", "remove_timestamp"}), Nothing(129) >>

\* 132 is migrate_key_contacts (module KeyContacts). Migration 134 was removed.
Migs130 ==
  << Create(130, "gossip_timestamp", {}), Create(131, "transports", {"addr", "entered_param", "configured_param"}),
     Mig(132, Tbl("acpeerstates", PeerCols \cup FprCols \cup VerifiedCols \cup {"secondary_verified_key", "verifier"})
              \cup Tbl("contacts", {"authname"}) \cup Tbl("chats_contacts", {"add_timestamp", "remove_timestamp"}),
         {}, Cols("contacts", {"fingerprint", "verifier"}) \cup Tbl("public_keys", {})),
     Mig(133, Tbl("chats", {"protected"}), {}, {}) >>

Migs135 ==
  << Creates(135, {"stats_securejoin_sources", "stats_securejoin_uipaths", "stats_securejoin_invites", "stats_msgs"}),
     Creates(136, {"stats_sending_enabled_events", "stats_sending_disabled_events"}),
     Nothing(137), Create(138, "broadcast_secrets", {}), Nothing(139) >>

Migs140 ==
  << Mig(140, Tbl("imap", {"rfc724_mid", "folder", "target", "uid", "uidvalidity"})
              \cup Tbl("imap_sync", {"folder", "uidvalidity", "uid_next", "modseq"}), {"imap", "imap_sync"},
         Tbl("imap", {"transport_id", "rfc724_mid", "folder", "target", "uid", "uidvalidity"})
         \cup Tbl("imap_sync", {"transport_id", "folder", "uidvalidity", "uid_next", "modseq"})),
     Mig(141, Tbl("imap", {"rfc724_mid"}), {}, {}),
     Mig(142, Tbl("transports", {}), {}, Cols("transports", {"add_timestamp"}) \cup Tbl("removed_transports", {})),
     Mig(143, Tbl("chats", {}) \cup Tbl("contacts", {}), {},
         Cols("chats", {"name_normalized"}) \cup Cols("contacts", {"name_normalized"})),
     Nothing(144),
     Mig(145, Tbl("download", {"msg_id"}) \cup Tbl("msgs", {"rfc724_mid"}), {"download"},
         Tbl("download", {"rfc724_mid", "msg_id"}) \cup Tbl("available_post_msgs", {}) \cup Cols("msgs", {"pre_rfc724_mid"})) >>

Migs146 ==
  << Nothing(146), Create(147, "chats_descriptions", {}),
     Rebuild(148, "tokens", {"namespc", "foreign_key", "token", "timestamp"}, {"namespc", "foreign_key", "token", "timestamp"}),
     Mig(149, Tbl("transports", {"addr"}), {}, Cols("transports", {"is_published"})),
     Mig(150, Tbl("transports", {"entered_param", "configured_param"}), {}, {}), Create(151, "tls_spki", {}) >>

Migs152 ==
  << Mig(152, Tbl("msgs", {"state"}), {}, {}),
     Mig(153, Tbl("contacts", {"fingerprint"}) \cup Tbl("chats", {"type"}) \cup Tbl("chats_contacts", {"contact_id"}), {}, {}) >>

Migs154 ==
  << Rebuild(154, "imap_markseen", {"id"}, {"id"}), Add(155, "transports", {"last_rcvd_timestamp"}),
     Mig(156, Tbl("msgs", {"state", "hidden", "chat_id", "timestamp"}), {}, {}),
     Mig(157, Tbl("transports", {"last_rcvd_timestamp"}), {}, {}),
     Mig(158, Tbl("contacts", {}), {}, Tbl("pending_reactions", {})),
     Mig(159, Tbl("transports", {"entered_param", "configured_param"}), {}, {}),
     Create(160, "mdn_autocrypt_timestamp", {}), Create(161, "relay_candidates", {"host"}) >>

Migs162 ==
  << Mig(162, Tbl("msgs", {}), {}, Tbl("broadcasted_reactions", {}) \cup Tbl("reactions_need_broadcast", {})),
     Add(163, "msgs", {"pinned"}), Create(164, "raw_mime", {}),
     Creates(165, {"msg_recipients", "threads", "msg_threads", "thread_refs"}),
     Mig(166, {}, {}, Tbl("labels", {"name", "name_norm", "system"}) \cup Tbl("msg_labels", {}) \cup Tbl("pending_msg_labels", {})) >>

Migs167 ==
  << Mig(167, {}, {}, Tbl("contact_policy", {}) \cup Tbl("server_retention", {}) \cup Tbl("msg_undelivered", {})),
     Add(168, "contact_policy", {"mdn_enabled", "ephemeral_secs"}),
     Mig(169, Tbl("labels", {"name_norm"}), {}, Tbl("held_msgs", {"held_at", "purge_at"}) \cup Tbl("trashed_msgs", {})),
     Create(170, "structured_data", {}),
     Mig(171, Tbl("labels", {"name_norm", "system"}) \cup Tbl("held_msgs", {"purge_at"}), {"held_msgs"},
         Tbl("held_msgs", {"held_at"})) >>

Migs172 ==
  << Create(172, "blocklist", {}),
     Creates(173, {"contact_details", "contact_phones", "contact_categories", "contact_category_members"}),
     Create(174, "msg_importance", {}), Create(175, "msg_send_options", {}) >>

Steps == Migs1 \o Migs50 \o Migs72 \o Migs82 \o Migs94 \o Migs105 \o Migs116 \o Migs123 \o Migs130 \o Migs135
         \o Migs140 \o Migs146 \o Migs152 \o Migs154 \o Migs162 \o Migs167 \o Migs172

\* tables.sql: what a new file begins with, at version DBVERSION.
TablesSql ==
  Tbl("config", {"keyname", "value"}) \cup Tbl("contacts", {"name", "addr", "authname", "selfavatar_sent"})
  \cup Tbl("chats", {"type", "name", "blocked", "grpid", "archived", "gossiped_timestamp", "locations_send_begin",
                     "locations_send_until", "locations_last_sent", "created_timestamp", "muted_until", "ephemeral_timer"})
  \cup Tbl("chats_contacts", {"chat_id", "contact_id"})
  \cup Tbl("msgs", {"rfc724_mid", "server_folder", "server_uid", "chat_id", "timestamp", "state", "starred",
                    "timestamp_sent", "timestamp_rcvd", "hidden", "mime_headers", "mime_in_reply_to", "mime_references",
                    "move_state", "location_id", "error", "ephemeral_timer", "ephemeral_timestamp"})
  \cup Tbl("jobs", {"thread", "tries"}) \cup Tbl("leftgrps", {"grpid"}) \cup Tbl("keypairs", KeypairCols)
  \cup Tbl("acpeerstates", PeerCols \cup GossipCols \cup FprCols \cup VerifiedCols)
  \cup Tbl("msgs_mdns", {"timestamp_sent"}) \cup Tbl("tokens", TokenCols)
  \cup Tbl("locations", {"from_id", "timestamp", "independent"}) \cup Tbl("devmsglabels", {"label"})
DbVersion == 68

\* The file of the first release, from which migration 1 set out.
FirstTables ==
  TablesSql \ UNION {Steps[i].makes : i \in {j \in 1..Len(Steps) : Steps[j].v <= DbVersion}}

Dropped(schema, m) == UNION {TableOf(schema, t) : t \in m.drops}
Applied(schema, m) == (schema \ Dropped(schema, m)) \cup m.makes
\* SQLite refuses a missing table or column, one that is there already, and a column of no table.
Applies(schema, m) ==
  /\ m.needs \subseteq schema
  /\ m.makes \cap (schema \ Dropped(schema, m)) = {}
  /\ \A e \in m.makes : <<e[1], "">> \in Applied(schema, m)
\* The schema after the steps first..last: what was there or was made, and no later step dropped.
Undropped(es, first, last) == {e \in es : \A k \in first..last : e[1] \notin Steps[k].drops}
SchemaAfter(start, first, last) ==
  Undropped(start, first, last) \cup UNION {Undropped(Steps[j].makes, j + 1, last) : j \in first..last}
SchemaBefore == [i \in 1..(Len(Steps) + 1) |-> SchemaAfter(FirstTables, 1, i - 1)]
StepAfter(v) == 1 + Cardinality({i \in 1..Len(Steps) : Steps[i].v <= v})
LastVersion == Steps[Len(Steps)].v

--------------------------------------------------------------------------------
(* The settings migrations write: show (show_emails), bcc (bcc_self), dsa          *)
(* (delete_server_after), trashDays (the key the trash window is stored under),    *)
(* seen (the inbox's last seen uid), and labels, the names in use.                *)

NewFile == [exists |-> FALSE, ver |-> 0, schema |-> {}, show |-> "none", bcc |-> "none", dsa |-> "none",
            chatmail |-> FALSE, configured |-> FALSE, avatar |-> "none", seen |-> "none",
            trashDays |-> "none", labels |-> {}]

\* What a release left: its version, its schema and the settings it knew.
OldFile(i, own, dsa, chatmail, configured, mail, names, trash) ==
  LET v == IF i = 1 THEN 0 ELSE Steps[i - 1].v
  IN [exists |-> TRUE, ver |-> v, schema |-> SchemaBefore[i], show |-> own, bcc |-> own, dsa |-> dsa,
      chatmail |-> chatmail, configured |-> configured,
      avatar |-> IF mail THEN IF v < 77 THEN "large" ELSE "small" ELSE "none",
      seen |-> IF ~mail THEN "none" ELSE IF v < 73 THEN "config" ELSE "imap_sync",
      trashDays |-> IF ~trash THEN "none" ELSE IF v < 171 THEN "ephemeral_trash_days" ELSE "trash_purge_days",
      labels |-> names \cup (IF v >= 166 THEN {"archive"} ELSE {})
                       \cup (IF v >= 169 THEN {"trash", IF v < 171 THEN "holding" ELSE "unverified"} ELSE {})]

\* Names a user could give a label while they were not reserved.
FreeNames(v) == IF v < 166 THEN {} ELSE IF v < 169 THEN {"trash", "holding"} ELSE IF v < 171 THEN {"unverified"} ELSE {}

OldFiles ==
  UNION {LET v == IF i = 1 THEN 0 ELSE Steps[i - 1].v
         IN {OldFile(i, own, dsa, chatmail, configured, extra, names, extra /\ v >= 169) :
               own \in {"none", "own"}, dsa \in {"none", "1"}, chatmail \in BOOLEAN,
               configured \in BOOLEAN, extra \in BOOLEAN, names \in SUBSET FreeNames(v)} :
         i \in 1..(Len(Steps) + 1)}
\* A release between 69 and 73 could leave mime_modified without having written 72.
EarlyColumn == {[f EXCEPT !.schema = @ \cup Cols("msgs", {"mime_modified"})] : f \in {g \in OldFiles : g.ver = 69}}

\* bcc_self as the account must have it in the end.
BccDue(f) ==
  IF f.bcc # "none" \/ ~f.exists THEN f.bcc
  ELSE IF f.ver < 59 \/ (~f.chatmail /\ f.ver < 139) THEN "1"
  ELSE IF f.ver < 120 /\ f.configured /\ f.dsa = "none" THEN "1"
  ELSE "none"
\* show_emails likewise: a chatmail account forgets it in 144 and 146.
ShowDue(f) ==
  IF f.chatmail /\ f.ver < 146 THEN "none"
  ELSE IF f.ver < 50 /\ f.exists THEN "2"
  ELSE IF f.show = "none" /\ f.ver < 98 /\ f.exists THEN "0" ELSE f.show

MigInit ==
  /\ dbFile \in OldFiles \cup EarlyColumn \cup {NewFile}
  /\ opening = "closed" /\ step = 1 /\ stmt = 1 /\ existed = FALSE /\ recode = FALSE /\ failedAt = 0 /\ migDeaths = 0
  /\ account = [exists |-> dbFile.exists, ver53 |-> dbFile.exists /\ dbFile.ver < 53, names |-> dbFile.labels,
                bcc |-> BccDue(dbFile), show |-> ShowDue(dbFile), large |-> dbFile.avatar = "large",
                mail |-> dbFile.seen # "none", trash |-> dbFile.trashDays # "none",
                cutDefault |-> FALSE, cut73 |-> FALSE, cutRecode |-> FALSE]

--------------------------------------------------------------------------------
Cur == Steps[step]
Running(v) == opening = "running" /\ step <= Len(Steps) /\ Cur.v = v
NextStep == step' = step + 1 /\ stmt' = 1
NextStmt == stmt' = stmt + 1 /\ UNCHANGED step
NothingToSay == UNCHANGED <<opening, existed, recode, failedAt, migDeaths, account>>

\* run: tables.sql in one transaction for a new file, otherwise the version is read.
OpenFile ==
  /\ opening = "closed"
  /\ IF dbFile.exists
       THEN dbFile' = dbFile /\ existed' = TRUE /\ step' = StepAfter(dbFile.ver)
       ELSE /\ dbFile' = [dbFile EXCEPT !.exists = TRUE, !.ver = DbVersion, !.schema = TablesSql]
            /\ existed' = FALSE /\ step' = StepAfter(DbVersion)
  /\ opening' = "running" /\ stmt' = 1 /\ recode' = FALSE /\ failedAt' = 0
  /\ UNCHANGED <<migDeaths, account>>

\* A migration that returns an error ends the run; try_open reports it and goes on.
Fails == opening' = "failed" /\ failedAt' = Cur.v /\ UNCHANGED <<dbFile, step, stmt, existed, recode, migDeaths, account>>

\* The label names migration v inserts or renames to; name_norm is UNIQUE.
NewNames(v) ==
  CASE v = 166 -> {"archive"} [] v = 169 -> {"trash", "holding"} [] v = 171 -> {"unverified"} [] OTHER -> {}
OldNames(v) == IF v = 171 THEN {"holding"} ELSE {}
NamesFree(v) == NewNames(v) \cap (dbFile.labels \ OldNames(v)) = {}

\* The settings written inside the transaction of migration v.
Written(f, v) ==
  CASE v = 120 -> [f EXCEPT !.dsa = IF f.configured /\ @ = "none" THEN "0" ELSE @]
    [] v = 127 -> [f EXCEPT !.bcc = IF f.dsa = "0" /\ @ = "none" THEN "1" ELSE @]
    [] v = 129 -> [f EXCEPT !.bcc = IF f.dsa \notin {"none", "1"} /\ @ = "none" THEN "1" ELSE @]
    [] v = 137 -> [f EXCEPT !.configured = FALSE]
    [] v = 139 -> [f EXCEPT !.bcc = IF existed /\ ~f.chatmail /\ @ = "none" THEN "1" ELSE @]
    [] v \in {144, 146} -> [f EXCEPT !.show = IF f.chatmail THEN "none" ELSE @]
    [] v = 171 -> [f EXCEPT !.trashDays = IF @ = "none" THEN @ ELSE "trash_purge_days"]
    [] OTHER -> f

\* execute_migration_transaction: the version and the statements, or neither.
\* Migration 53 holds a stray quotation mark, which SQLite refuses.
Broken == {53}
Committed(f, m) ==
  LET g == Written(f, m.v)
  IN [g EXCEPT !.ver = m.v, !.schema = Applied(@, m), !.labels = (@ \ OldNames(m.v)) \cup NewNames(m.v)]

Split == {50, 59, 66, 67, 72, 73, 77, 98, 99}    \* migrations that are not one transaction

ExecuteMigration ==
  /\ opening = "running" /\ step <= Len(Steps) /\ Cur.v \notin Split
  /\ IF Applies(dbFile.schema, Cur) /\ Cur.v \notin Broken /\ NamesFree(Cur.v)
       THEN dbFile' = Committed(dbFile, Cur) /\ NextStep /\ NothingToSay
       ELSE Fails

SetVersion(v) == dbFile' = [dbFile EXCEPT !.ver = v] /\ NextStep

\* 50 and 98: the default of an existing account is written, then the version.
KeepShow(v, value, always) ==
  /\ Running(v) /\ NothingToSay
  /\ \/ /\ stmt = 1 /\ NextStmt
        /\ dbFile' = [dbFile EXCEPT !.show = IF existed /\ (always \/ @ = "none") THEN value ELSE @]
     \/ stmt = 2 /\ SetVersion(v)
Migrate50 == KeepShow(50, "2", TRUE)
Migrate98 == KeepShow(98, "0", FALSE)

\* 59: bcc_self is written after the transaction.
Migrate59 ==
  /\ Running(59) /\ NothingToSay
  /\ \/ stmt = 1 /\ dbFile' = Committed(dbFile, Cur) /\ NextStmt
     \/ stmt = 2 /\ dbFile' = [dbFile EXCEPT !.bcc = IF existed /\ @ = "none" THEN "1" ELSE @] /\ NextStep

\* 66, 67 and 99 change no schema; 67 derives settings from server_flags, whose copy is idempotent.
MigrateNothing == \E v \in {66, 67, 99} : Running(v) /\ SetVersion(v) /\ NothingToSay

\* 72: skipped, version included, when the column is there.
Migrate72 ==
  /\ Running(72) /\ NothingToSay /\ NextStep
  /\ dbFile' = IF <<"msgs", "mime_modified">> \in dbFile.schema THEN dbFile ELSE Committed(dbFile, Cur)

\* 73: the table, the folders' uids and the version are separate statements.
Migrate73 ==
  /\ Running(73)
  /\ \/ /\ stmt = 1
        /\ IF Applies(dbFile.schema, Cur) THEN dbFile' = [dbFile EXCEPT !.schema = Applied(@, Cur)] /\ NextStmt /\ NothingToSay
                                        ELSE Fails
     \/ stmt = 2 /\ dbFile' = [dbFile EXCEPT !.seen = IF @ = "none" THEN @ ELSE "imap_sync"] /\ NextStmt /\ NothingToSay
     \/ stmt = 3 /\ SetVersion(73) /\ NothingToSay

\* 77: the avatar is to be recoded once everything is migrated.
Migrate77 ==
  /\ Running(77) /\ SetVersion(77) /\ recode' = TRUE
  /\ UNCHANGED <<opening, existed, failedAt, migDeaths, account>>

\* run_migrations: what needs the whole schema.
Finish ==
  /\ opening = "running" /\ step > Len(Steps) /\ opening' = "open"
  /\ dbFile' = [dbFile EXCEPT !.avatar = IF recode /\ @ = "large" THEN "small" ELSE @]
  /\ UNCHANGED <<step, stmt, existed, recode, failedAt, migDeaths, account>>

\* The app is closed and started again, or dies while it opens the file.
Close == /\ opening \in {"open", "failed"} /\ opening' = "closed" /\ UNCHANGED <<dbFile, step, stmt, existed, recode, failedAt, migDeaths, account>>
MigDeath ==
  /\ opening = "running" /\ migDeaths < MaxMigDeaths /\ migDeaths' = migDeaths + 1 /\ opening' = "closed"
  /\ account' = [account EXCEPT !.cutDefault = @ \/ ~existed \/ (Running(59) /\ stmt = 2 /\ dbFile.chatmail), !.cut73 = @ \/ (Running(73) /\ stmt > 1),
                                !.cutRecode = @ \/ recode]
  /\ UNCHANGED <<dbFile, step, stmt, existed, recode, failedAt>>

MigSteps == OpenFile \/ ExecuteMigration \/ Migrate50 \/ Migrate59 \/ MigrateNothing \/ Migrate72 \/ Migrate73
            \/ Migrate77 \/ Migrate98 \/ Finish
MigNext == MigSteps \/ Close \/ MigDeath
MigFair == WF_migVars(MigSteps)
MigSpec == MigInit /\ [][MigNext]_migVars /\ MigFair

--------------------------------------------------------------------------------
MigTypeOK ==
  /\ dbFile.show \in {"none", "own", "0", "2"} /\ dbFile.bcc \in {"none", "own", "1"} /\ dbFile.dsa \in {"none", "0", "1"}
  /\ opening \in {"closed", "running", "open", "failed"} /\ step \in 1..(Len(Steps) + 1) /\ stmt \in 1..3
  /\ existed \in BOOLEAN /\ recode \in BOOLEAN /\ migDeaths \in 0..MaxMigDeaths

(* SameSchema: whatever release wrote the file, and however often opening it was   *)
(* cut short, an opened database has exactly the schema a new one has.             *)
SchemaNow == SchemaAfter(TablesSql, StepAfter(DbVersion), Len(Steps))
SameSchema == opening = "open" => dbFile.schema = SchemaNow /\ dbFile.ver = LastVersion

(* FailsAsKnown: a migration refuses a file only for a reason this model names: the *)
(* stray quotation mark in 53, a table 73 had made before it was cut short, or a    *)
(* label of the user's that has the name of a system label (169, 171).             *)
FailsAsKnown ==
  opening = "failed" =>
    \/ failedAt = 53 /\ account.ver53
    \/ failedAt = 73 /\ account.cut73
    \/ failedAt = 169 /\ account.names \cap {"trash", "holding"} # {}
    \/ failedAt = 171 /\ "unverified" \in account.names

(* DefaultsKept: an account that relied on an old default still behaves as it did   *)
(* after the update, and a new account gets the new default, unless its very first  *)
(* opening was cut short, or 59 was between its statements on a chatmail account,   *)
(* which 139 leaves alone.                                                         *)
DefaultsKept ==
  opening = "open" /\ ~account.cutDefault => dbFile.bcc = account.bcc /\ dbFile.show = account.show

(* NewDefaults: the same without the exception: comments of 50 and 139 promise the  *)
(* new defaults to every new account.                                              *)
NewDefaults == opening = "open" => dbFile.bcc = account.bcc /\ dbFile.show = account.show

(* DataCarried: the point the inbox was read up to and the trash window survive the *)
(* move to their new places, and a large avatar is recoded.                        *)
DataCarried ==
  opening = "open" =>
    /\ account.mail => dbFile.seen = "imap_sync"
    /\ account.trash => dbFile.trashDays = "trash_purge_days"
    /\ account.large /\ ~account.cutRecode => dbFile.avatar = "small"

(* Updated: "Updates SQL schema to the latest version." (sql.rs:212), at least where *)
(* no death and no label of the user's is in the way.                              *)
Updated == opening = "failed" => account.cut73 \/ account.names # {}

(* OpeningEnded: opening comes to an end each time, migrated or refused.            *)
OpeningEnded == opening # "running"

\* Migrations are safe: every history leads to the one schema, fails only as known, and
\* carries settings and data along.
MigrationsSafe == MigTypeOK /\ SameSchema /\ FailsAsKnown /\ DefaultsKept /\ DataCarried
================================================================================
