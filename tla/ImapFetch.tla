------------------------------ MODULE ImapFetch ------------------------------
(* The inbox loop of one transport: what it fetches, what it puts off, what it  *)
(* deletes on the server, and the uid_next that says how far it got. A message   *)
(* is one mail, or a pre-message with its text and a post-message with its       *)
(* attachment. Mails arrive in any order, another device may expunge them, the   *)
(* server may change UIDVALIDITY, the connection breaks and the process dies.   *)
EXTENDS Naturals, FiniteSets, FiniteSetsExt, Sequences, SequencesExt, Functions

CONSTANTS Mails,       \* records [msg, part] that may arrive, each once
          Window,      \* uids_to_prefetch
          CanIdle,     \* the server has IDLE and Config::DisableIdle is off
          DeleteDownloaded,  \* should_delete_all_downloaded_messages
          MaxFetchFaults,   \* bound on failures, deaths and UIDVALIDITY changes
          MaxExpunged, \* bound on what other devices expunge
          MaxAsks      \* bound on what the user does

MailParts == {"small", "large", "pre", "post", "bigpost"}   \* large, bigpost: over DownloadLimit

MailMsgs == {m.msg : m \in Mails}

\* A message comes in one mail, or in a pre-message and a post-message.
ASSUME FetchAssumption ==
  /\ Mails \subseteq [msg : MailMsgs, part : MailParts]
  /\ \A m, n \in Mails : m.msg = n.msg /\ m # n => (m.part = "pre") # (n.part = "pre")
                                                /\ {m.part, n.part} \cap {"small", "large"} = {}
  /\ Window \in Nat \ {0} /\ CanIdle \in BOOLEAN /\ DeleteDownloaded \in BOOLEAN
  /\ MaxFetchFaults \in Nat /\ MaxExpunged \in Nat /\ MaxAsks \in Nat

DownloadStates == {"absent", "available", "inprogress", "failure", "done", "deleted"}

VARIABLES box, gone, validity,      \* the server: mails by uid, the expunged uids, UIDVALIDITY
          uidNext, uidValidity,     \* imap_sync
          rows,                     \* imap: uid -> target folder
          stored, preStored,        \* msgs: download state; messages whose pre_rfc724_mid is set
          download, available,      \* tables download and available_post_msgs, by message
          session,                  \* the IMAP session
          resync,                   \* resync_request
          at, batch, work, failing, \* the loop: where it is, its batch, the messages left to
                                    \* try, and the one whose download just failed
          asking,                   \* messages with download_full between its two statements
          fetchFaults, asks,
          ownDeleted,               \* history: uids this device expunged
          lost,                     \* history: uids given up by a failure the code accepts
          stuck                     \* history: messages whose download request was cut off

serverVars == <<box, gone, validity>>
syncVars == <<uidNext, uidValidity, rows>>
storeVars == <<stored, preStored, download, available>>
loopVars == <<session, resync, at, batch, work, failing>>
fetchHistory == <<ownDeleted, lost, stuck>>
fetchVars == <<serverVars, syncVars, storeVars, loopVars, asking, fetchFaults, asks, fetchHistory>>

Closed == [selected |-> FALSE, next |-> 0, newMail |-> FALSE]
NoBatch == [old |-> 0, todo |-> {}, later |-> {}, posts |-> {}, skipped |-> 0, got |-> 0, ok |-> TRUE]
Present == DOMAIN box \ gone
At(pc) == at = pc
Go(pc) == at' = pc
FetchFault == fetchFaults < MaxFetchFaults /\ fetchFaults' = fetchFaults + 1
Ask == asks < MaxAsks /\ asks' = asks + 1

FetchInit ==
  /\ box = <<>> /\ gone = {} /\ validity = 1
  /\ uidNext = 1 /\ uidValidity = 1 /\ rows = <<>>
  /\ stored = [m \in MailMsgs |-> "absent"] /\ preStored = {} /\ download = {} /\ available = {}
  /\ session = Closed /\ resync = FALSE
  /\ at = "select" /\ batch = NoBatch /\ work = {} /\ failing = {} /\ asking = {}
  /\ fetchFaults = 0 /\ asks = 0 /\ ownDeleted = {} /\ lost = {} /\ stuck = {}

-----------------------------------------------------------------------------
(* The server and the other devices. *)

Arrive(m) ==
  /\ m \notin ToSet(box) /\ box' = Append(box, m)
  /\ UNCHANGED <<gone, validity, syncVars, storeVars, loopVars, asking, fetchFaults, asks, fetchHistory>>

ExpungeElsewhere(u) ==
  /\ u \in Present /\ Cardinality(gone \ ownDeleted) < MaxExpunged /\ gone' = gone \cup {u}
  /\ UNCHANGED <<box, validity, syncVars, storeVars, loopVars, asking, fetchFaults, asks, fetchHistory>>

NewValidity ==
  /\ ~session.selected /\ FetchFault /\ validity' = validity + 1
  /\ UNCHANGED <<box, gone, syncVars, storeVars, loopVars, asking, asks, fetchHistory>>

-----------------------------------------------------------------------------
(* Receiving one mail: what receive_imf leaves of its message. *)

\* rfc724_mid_fetch_tried
FetchTried(m) ==
  IF m.part = "pre" THEN m.msg \in preStored ELSE stored[m.msg] \notin {"absent", "available"}

\* A pre-message makes a row to be completed, unless its post-message came first; a
\* post-message completes that row or stands alone; any other mail is complete.
ReceiveImf(m) ==
  IF m.part = "pre" /\ m.msg \notin preStored
    THEN /\ preStored' = preStored \cup {m.msg}
         /\ stored' = [stored EXCEPT ![m.msg] = IF @ = "absent" THEN "available" ELSE @]
    ELSE /\ stored' = [stored EXCEPT ![m.msg] =
                IF m.part # "pre" /\ @ # "deleted" THEN "done" ELSE @]
         /\ UNCHANGED preStored

\* The loop of another transport stores the copy that came there.
ReceiveElsewhere(m) ==
  /\ m.part = "pre" /\ ~FetchTried(m) /\ ReceiveImf(m)
  /\ UNCHANGED <<serverVars, syncVars, download, available, loopVars, asking, fetchFaults, asks, fetchHistory>>

-----------------------------------------------------------------------------
(* Selecting the folder. *)

\* select_with_uidvalidity, which does nothing in a selected folder. Under a new
\* UIDVALIDITY whatever was not fetched stays behind.
Reselects == ~session.selected /\ validity # uidValidity
SelectFolder ==
  LET next == Len(box) + 1 IN
  IF session.selected THEN UNCHANGED <<session, uidNext, uidValidity, lost>>
  ELSE /\ session' = [selected |-> TRUE, next |-> next,
                      newMail |-> session.newMail \/ Reselects \/ next # uidNext]
       /\ uidNext' = IF Reselects THEN next ELSE uidNext
       /\ uidValidity' = validity
       /\ lost' = IF Reselects THEN lost \cup DOMAIN box ELSE lost
SelectedRows == IF Reselects THEN <<>> ELSE rows

\* inbox_fetch_idle and fetch_new_messages up to its loop. resync_uids_with_server makes
\* the rows what is on the server, none of them marked for deletion.
SelectInbox ==
  /\ At("select") /\ SelectFolder /\ resync' = Reselects
  /\ rows' = IF resync THEN [u \in Present |-> "inbox"] ELSE SelectedRows
  /\ Go(IF session'.newMail THEN "prefetch" ELSE "expire")
  /\ UNCHANGED <<serverVars, storeVars, batch, work, failing, asking, fetchFaults, asks, ownDeleted, stuck>>

-----------------------------------------------------------------------------
(* fetch_new_msg_batch *)

Prefetched == {u \in Present : uidNext <= u /\ u < uidNext + Window}
Wanted(u) == stored[box[u].msg] # "deleted" /\ ~FetchTried(box[u])
\* Small mails now; a large one, and a post-message that is not over the limit, later.
FetchNow(u) == Wanted(u) /\ box[u].part \in {"small", "pre"}
FetchLater(u) == Wanted(u) /\ box[u].part \in {"large", "post"}
IsPost(u) == Wanted(u) /\ box[u].part \in {"post", "bigpost"}
IsLargest(k, S) == IF S = {} THEN k = 0 ELSE k \in S /\ \A u \in S : u <= k

Prefetch ==
  /\ At("prefetch") /\ Go("fetch")
  /\ session' = [session EXCEPT !.newMail = FALSE]
  /\ rows' = [u \in Prefetched \cup DOMAIN rows |->
                IF u \notin Prefetched THEN rows[u]
                ELSE IF stored[box[u].msg] = "deleted" THEN "" ELSE "inbox"]
  /\ \E skipped \in Prefetched \cup {0} :
       /\ IsLargest(skipped, {u \in Prefetched : ~FetchNow(u)})
       /\ batch' = [old |-> uidNext,
                    todo |-> {u \in Prefetched : FetchNow(u)},
                    later |-> {box[u].msg : u \in {v \in Prefetched : FetchLater(v)}},
                    posts |-> {box[u].msg : u \in {v \in Prefetched : IsPost(v)}},
                    skipped |-> skipped, got |-> 0, ok |-> TRUE]
  /\ UNCHANGED <<failing, serverVars, uidNext, uidValidity, storeVars, resync, work, asking, fetchFaults,
                 asks, fetchHistory>>

\* One mail of fetch_many_msgs, which go by ascending uid; a mail the server no longer
\* has is skipped.
IsNext(u) == At("fetch") /\ u \in batch.todo /\ \A v \in batch.todo : u <= v
FetchOne(u) ==
  /\ IsNext(u)
  /\ IF u \in gone
       THEN batch' = [batch EXCEPT !.todo = @ \ {u}] /\ UNCHANGED <<stored, preStored>>
       ELSE batch' = [batch EXCEPT !.todo = @ \ {u}, !.got = u] /\ ReceiveImf(box[u])
  /\ UNCHANGED <<failing, serverVars, syncVars, download, available, session, resync, at, work, asking,
                 fetchFaults, asks, fetchHistory>>

\* A mail that cannot be stored is skipped, and the user is told.
FetchUnreadable(u) ==
  /\ IsNext(u) /\ u \notin gone /\ FetchFault
  /\ batch' = [batch EXCEPT !.todo = @ \ {u}, !.got = u]
  /\ lost' = lost \cup {u}
  /\ UNCHANGED <<failing, serverVars, syncVars, storeVars, session, resync, at, work, asking, asks,
                 ownDeleted, stuck>>

FetchBreaks ==
  /\ At("fetch") /\ batch.todo # {} /\ FetchFault
  /\ batch' = [batch EXCEPT !.ok = FALSE, !.todo = {}]
  /\ UNCHANGED <<failing, serverVars, syncVars, storeVars, session, resync, at, work, asking, asks,
                 fetchHistory>>

\* After a failure only as far as the last mail that was fetched, otherwise past the
\* whole window.
BugNewUidNext ==
  Max({batch.got + 1, Min({batch.old + Window, session.next}), batch.skipped + 1})
NewUidNext ==
  IF batch.ok
    THEN Max({batch.got + 1, Min({batch.old + Window, session.next}), batch.skipped + 1})
    ELSE batch.got + 1

\* The mails put off that uid_next is about to pass.
PutOff == {u \in DOMAIN box : batch.old <= u /\ u < batch.got + 1
                              /\ box[u].msg \in batch.later \cup batch.posts}

Advance ==
  /\ At("fetch") /\ batch.todo = {}
  /\ uidNext' = Max({NewUidNext, uidNext})
  /\ IF batch.ok
       THEN Go("record") /\ UNCHANGED <<batch, session, lost>>
       ELSE /\ Go("select") /\ session' = Closed /\ batch' = NoBatch
            /\ lost' = lost \cup PutOff
  /\ UNCHANGED <<failing, serverVars, uidValidity, rows, storeVars, resync, work, asking, fetchFaults, asks,
                 ownDeleted, stuck>>

\* The transaction at the end of the batch, and whether there is another one.
Record ==
  /\ At("record")
  /\ available' = available \cup batch.posts
  /\ download' = download \cup batch.later
  /\ Go(IF batch.old + Window < session.next THEN "prefetch" ELSE "expire")
  /\ batch' = NoBatch
  /\ UNCHANGED <<failing, serverVars, syncVars, stored, preStored, session, resync, work, asking,
                 fetchFaults, asks, fetchHistory>>

-----------------------------------------------------------------------------
(* Deleting on the server. *)

Downloaded(m) == IF m.part = "pre" THEN m.msg \in preStored ELSE stored[m.msg] = "done"

\* delete_expired_imap_messages and move_delete_messages with its CLOSE, which
\* unselects the folder and forgets about new mail.
DeleteOnServer ==
  /\ At("expire") /\ Go("known")
  /\ LET marked == {u \in DOMAIN rows : rows[u] = "" \/ (DeleteDownloaded /\ Downloaded(box[u]))}
     IN IF marked = {} THEN UNCHANGED <<rows, gone, ownDeleted, session>>
        ELSE /\ rows' = Restrict(rows, DOMAIN rows \ marked)
             /\ ownDeleted' = ownDeleted \cup (marked \ gone) /\ gone' = gone \cup marked
             /\ session' = Closed
  /\ work' = available
  /\ UNCHANGED <<failing, box, validity, uidNext, uidValidity, storeVars, resync, batch, asking, fetchFaults,
                 asks, lost, stuck>>

-----------------------------------------------------------------------------
(* Mails that were put off. A message's uid on the server, if a row knows it. *)

RowsOf(m) == {u \in DOMAIN rows : rows[u] # "" /\ box[u].msg = m /\ box[u].part # "pre"}

\* download_known_post_messages_without_pre_message: the pre-message may never come.
KnownPost(m) ==
  /\ At("known") /\ m \in work /\ work' = work \ {m}
  /\ \/ stored[m] # "absent" /\ available' = available \ {m} /\ UNCHANGED stored
     \/ stored[m] = "absent" /\ RowsOf(m) = {} /\ available' = available \ {m} /\ UNCHANGED stored
     \/ /\ stored[m] = "absent" /\ RowsOf(m) \ gone # {}
        /\ stored' = [stored EXCEPT ![m] = "done"] /\ available' = available \ {m}
     \/ stored[m] = "absent" /\ RowsOf(m) # {} /\ RowsOf(m) \subseteq gone
        /\ UNCHANGED <<stored, available>>
  /\ UNCHANGED <<failing, serverVars, syncVars, preStored, download, session, resync, at, batch, asking,
                 fetchFaults, asks, fetchHistory>>

KnownDone ==
  /\ At("known") /\ work = {} /\ Go("download") /\ work' = download
  /\ UNCHANGED <<failing, serverVars, syncVars, storeVars, session, resync, batch, asking, fetchFaults, asks,
                 fetchHistory>>

\* download_msgs, one message: fetched, or not on this transport.
DownloadOne(m) ==
  /\ At("download") /\ m \in work /\ work' = work \ {m}
  /\ IF RowsOf(m) = {}
       THEN available' = available \ {m} /\ UNCHANGED <<stored, download>>
       ELSE /\ RowsOf(m) \ gone # {}
            /\ stored' = [stored EXCEPT ![m] = IF @ = "deleted" THEN @ ELSE "done"]
            /\ download' = download \ {m} /\ available' = available \ {m}
  /\ UNCHANGED <<failing, serverVars, syncVars, preStored, session, resync, at, batch, asking, fetchFaults,
                 asks, fetchHistory>>

\* The mail vanished, or the connection broke: the code does not tell them apart.
\* Without a row for the message the request is dropped; a known post-message fails;
\* any other stays queued.
DownloadFails(m) ==
  /\ At("download") /\ m \in work /\ RowsOf(m) # {}
  /\ (RowsOf(m) \subseteq gone /\ UNCHANGED fetchFaults) \/ FetchFault
  /\ work' = work \ {m}
  /\ \/ /\ stored[m] = "absent" /\ download' = download \ {m} /\ lost' = lost \cup RowsOf(m)
        /\ UNCHANGED <<stored, at, failing>>
     \/ /\ stored[m] # "absent" /\ m \in available
        /\ stored' = [stored EXCEPT ![m] = "failure"]
        /\ Go("unqueue") /\ failing' = {m} /\ UNCHANGED <<download, lost>>
     \/ /\ stored[m] # "absent" /\ m \notin available
        /\ UNCHANGED <<stored, download, lost, at, failing>>
  /\ UNCHANGED <<serverVars, syncVars, preStored, available, session, resync, batch, asking,
                 asks, ownDeleted, stuck>>

\* delete_from_downloads, a statement of its own: the user may have asked again.
Unqueue ==
  /\ At("unqueue") /\ Go("download") /\ failing' = {}
  /\ download' = download \ failing /\ available' = available \ failing
  /\ stuck' = stuck \cup {m \in failing : stored[m] = "inprogress"}
  /\ UNCHANGED <<serverVars, syncVars, stored, preStored, session, resync, batch, work, asking,
                 fetchFaults, asks, ownDeleted, lost>>

\* IDLE returns on new data, an interrupt or after five minutes, and the next round
\* fetches. Without IDLE the loop only waits: the folder stays selected.
Idling ==
  /\ At("download") /\ work = {} /\ Go("select")
  /\ \/ /\ CanIdle /\ rows' = SelectedRows /\ resync' = (resync \/ Reselects)
        /\ LET next == IF session.selected THEN session.next ELSE Len(box) + 1 IN
           session' = [selected |-> TRUE, next |-> next, newMail |-> TRUE]
        /\ uidNext' = IF Reselects THEN Len(box) + 1 ELSE uidNext
        /\ uidValidity' = validity
        /\ lost' = IF Reselects THEN lost \cup DOMAIN box ELSE lost
     \/ ~CanIdle /\ UNCHANGED <<session, syncVars, resync, lost>>
  /\ UNCHANGED <<serverVars, storeVars, batch, work, failing, asking, fetchFaults, asks, ownDeleted,
                 stuck>>

-----------------------------------------------------------------------------
(* The user, and failures anywhere. *)

\* download_full: the state first, then the row of download, whose INSERT fails if
\* there already is one.
AskDownload(m) ==
  /\ stored[m] \in {"available", "failure"} /\ m \notin asking /\ Ask
  /\ stored' = [stored EXCEPT ![m] = "inprogress"] /\ asking' = asking \cup {m}
  /\ UNCHANGED <<serverVars, syncVars, preStored, download, available, loopVars, fetchFaults, fetchHistory>>

QueueDownload(m) ==
  /\ m \in asking /\ asking' = asking \ {m} /\ download' = download \cup {m}
  /\ UNCHANGED <<serverVars, syncVars, stored, preStored, available, loopVars, fetchFaults, asks,
                 fetchHistory>>

DeleteMsg(m) ==
  /\ stored[m] \notin {"absent", "deleted"} /\ Ask
  /\ stored' = [stored EXCEPT ![m] = "deleted"]
  /\ rows' = [u \in DOMAIN rows |-> IF box[u].msg = m THEN "" ELSE rows[u]]
  /\ UNCHANGED <<serverVars, uidNext, uidValidity, preStored, download, available, loopVars,
                 asking, fetchFaults, fetchHistory>>

\* The process dies, or the connection is lost between two commands.
FetchDies(dies) ==
  /\ FetchFault
  /\ session' = Closed /\ resync' = (resync /\ ~dies)
  /\ at' = "select" /\ batch' = NoBatch /\ work' = {} /\ failing' = {}
  /\ lost' = IF At("record") THEN lost \cup {u \in DOMAIN box : u < uidNext
                                     /\ box[u].msg \in batch.later \cup batch.posts} ELSE lost
  /\ IF dies THEN stuck' = stuck \cup asking /\ asking' = {}
             ELSE UNCHANGED <<stuck, asking>>
  /\ UNCHANGED <<serverVars, syncVars, storeVars, asks, ownDeleted>>

FetchStep ==
  \/ SelectInbox \/ Prefetch \/ (\E u \in batch.todo : FetchOne(u)) \/ Advance \/ Record \/ DeleteOnServer
  \/ KnownDone \/ Idling \/ Unqueue
  \/ \E m \in MailMsgs : KnownPost(m) \/ DownloadOne(m) \/ DownloadFails(m)

FetchNext ==
  \/ FetchStep \/ (\E u \in batch.todo : FetchUnreadable(u)) \/ FetchBreaks \/ NewValidity
  \/ \E m \in Mails : Arrive(m) \/ ReceiveElsewhere(m)
  \/ \E u \in Present : ExpungeElsewhere(u)
  \/ \E m \in MailMsgs : AskDownload(m) \/ QueueDownload(m) \/ DeleteMsg(m)
  \/ \E dies \in BOOLEAN : FetchDies(dies)

FetchSpec == FetchInit /\ [][FetchNext]_fetchVars /\ WF_fetchVars(FetchStep)
             /\ WF_fetchVars(\E m \in MailMsgs : QueueDownload(m))

-----------------------------------------------------------------------------
(* Properties. *)

FetchTypeOK ==
  /\ box \in Seq(Mails) /\ gone \subseteq DOMAIN box /\ DOMAIN rows \subseteq DOMAIN box
  /\ uidNext \in 1 .. Len(box) + 1
  /\ stored \in [MailMsgs -> DownloadStates]
  /\ (preStored \cup download \cup available \cup asking \cup work) \subseteq MailMsgs
  /\ at \in {"select", "prefetch", "fetch", "record", "expire", "known", "download",
            "unqueue"}

\* The mail is stored, or one of the tables still leads to it.
Reachable(u) ==
  LET m == box[u].msg IN
  \/ stored[m] = "deleted" \/ Downloaded(box[u])
  \/ at = "record" /\ m \in batch.later \cup batch.posts
  \/ box[u].part = "large" /\ m \in download
  \/ /\ box[u].part \in {"post", "bigpost"} /\ u \in DOMAIN rows
     /\ stored[m] # "absent" \/ m \in available
  \/ box[u].part = "pre" /\ stored[m] = "done"

\* Fetching never leaves a mail behind: whatever uid_next passed is stored, or some
\* table still leads to it, whichever batches failed half way and whatever was put off
\* (imap.rs, fetch_new_msg_batch). Exempt are the mails the code gives up, in `lost`.
NoMailForgotten == \A u \in Present \ lost : u < uidNext => Reachable(u)

\* Only what this device has stored, or the user deleted, is deleted on the server: a
\* pre-message never stands in for the post-message still to be downloaded
\* (ephemeral.rs, delete_expired_imap_messages).
ServerCopyKept ==
  \A u \in ownDeleted : \/ stored[box[u].msg] \in {"done", "deleted"}
                        \/ box[u].part = "pre" /\ box[u].msg \in preStored

\* A download shown as in progress is in the queue: otherwise it never ends, and
\* download_full refuses to start it again (download.rs). The two windows that break it,
\* a death between the statements of download_full and a request made while the failed
\* download is taken off the queue, are in `stuck`.
RequestQueued == \A m \in MailMsgs : stored[m] = "inprogress" => m \in download \cup asking \cup stuck

Settled(m) ==
  \E u \in DOMAIN box :
    /\ box[u] = m
    /\ \/ u \in gone \cup lost \/ m.msg \in stuck \/ stored[m.msg] \in {"done", "deleted", "failure"}
       \/ m.part \in {"pre", "bigpost"} /\ stored[m.msg] # "absent"

\* Every mail that reached the inbox is stored, or its pre-message is shown and offers the
\* download.  In the end that is so (scheduler.rs, fetch_idle; download.rs).
EveryMailFetched == \A m \in ToSet(box) : Settled(m)

\* No mail is forgotten, none is deleted on the server before it is here, no wish is lost.
FetchSafe == FetchTypeOK /\ NoMailForgotten /\ ServerCopyKept /\ RequestQueued
=============================================================================
