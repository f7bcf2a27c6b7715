----------------------------- MODULE Reception -----------------------------
(* Storing received mail. A mail may come over several relays and in any order with  *)
(* the mails that edit, delete or complete it; storing it takes several writes, a     *)
(* death may fall between any two of them, and meanwhile the user deletes messages    *)
(* and housekeeping prunes tombstones. Mails are stored one at a time.                *)
EXTENDS Integers, FiniteSets

CONSTANTS ReceptionMails,      \* [kind, own, of, parts]: its own Message-ID and that of the message it is about
          Deliveries,          \* what the relays may deliver: sets of [relay, mail]
          MaxReceptionDeaths, MaxUserDeletes, MaxPrunings

Relays == {d.relay : d \in UNION Deliveries}

\* Mails have Message-IDs of their own, and only what is a message by itself or the second half of one has the
\* message's (mimefactory.rs); nothing is about a first half, an edit or a deletion.  What core sends, which is
\* all that has halves or is edited, has one part.
ASSUME ReceptionAssumption ==
  /\ {MaxReceptionDeaths, MaxUserDeletes, MaxPrunings} \subseteq Nat
  /\ Deliveries \subseteq SUBSET [relay : Relays, mail : ReceptionMails]
  /\ ReceptionMails \subseteq [kind : {"plain", "pre", "post", "edit", "delete"}, own : Nat \ {0}, of : Nat \ {0},
                              parts : Nat \ {0}]
  /\ \A m, n \in ReceptionMails : m.own = n.own => m = n
  /\ \A m \in ReceptionMails : m.own = m.of <=> m.kind \in {"plain", "post"}
  /\ \A m, n \in ReceptionMails : m.of = n.own => n.kind \in {"plain", "post"}
  /\ \A m, n \in ReceptionMails : m.kind = "pre" /\ m.of = n.of => n.kind # "plain"
  /\ \A m, n \in ReceptionMails : m.kind \in {"pre", "post", "edit"} /\ m.of = n.of => n.parts = 1

NotReceiving == [stage |-> "idle"]

VARIABLES msgs,      \* [id, mid, part, pre, text, file, shown, dated, deleted, enriched]: shown unless in the trash chat
          nextId,
          imapRows,  \* [relay, mail, target]: "keep", or "delete" when the server is to forget the mail
          pending,   \* [relay, mail]: what the relays still deliver
          job,       \* the mail being stored: [stage, relay, mail, id, done]
          counts,    \* [deaths, deletes, prunings]
          past       \* history: [came, stored, retracted, gone, edited, cut]

receptionVars == <<msgs, nextId, imapRows, pending, job, counts, past>>

Row(id) == CHOOSE r \in msgs : r.id = id
\* A pre-message is known under an id of its own too. Of several rows the first is taken.
Rfc724MidExists(mid) == {r.id : r \in {x \in msgs : x.mid = mid \/ x.pre = mid}}
First(ids) == CHOOSE i \in ids : \A j \in ids : i <= j
\* A row in the trash chat cannot be loaded.
LoadFromDbOptional(ids) == IF ids # {} /\ Row(First(ids)).shown THEN First(ids) ELSE 0
Tombstone(id, mid) == [id |-> id, mid |-> mid, part |-> 1, pre |-> 0, text |-> 0, file |-> FALSE, shown |-> FALSE,
                       dated |-> FALSE, deleted |-> FALSE, enriched |-> FALSE]

--------------------------------------------------------------------------------
(* Storing one mail.                                                               *)

\* The fetch loop records the mail before it is downloaded; one whose every row the user deleted is to be forgotten.
Unwanted(d) == Rfc724MidExists(d.mail.own) # {} /\ \A i \in Rfc724MidExists(d.mail.own) : Row(i).deleted
InPrefetch(d) ==
  {i \in imapRows : i.relay # d.relay \/ i.mail # d.mail}
    \cup {[relay |-> d.relay, mail |-> d.mail, target |-> IF Unwanted(d) THEN "delete" ELSE "keep"]}
DoneWith(d) == pending' = pending \ {d} /\ job' = NotReceiving

Receive(d) ==
  /\ job = NotReceiving /\ d \in pending
  /\ imapRows' = InPrefetch(d)
  /\ IF Unwanted(d) \/ (d.mail.kind # "post" /\ Rfc724MidExists(d.mail.own) # {})
     THEN DoneWith(d)
     ELSE /\ job' = [stage |-> "handle", relay |-> d.relay, mail |-> d.mail, id |-> 0, done |-> {}]
          /\ UNCHANGED pending
  /\ UNCHANGED <<msgs, nextId, counts, past>>

Goes(stage) == job' = [job EXCEPT !.stage = stage]
Handling(kind) == job.stage = "handle" /\ job.mail.kind = kind
BugTrashed == job.mail.kind \in {"edit", "delete"} \/ (job.mail.kind = "post" /\ Rfc724MidExists(job.mail.of) # {})
Trashed == job.mail.kind \in {"edit", "delete"} \/ (job.mail.kind \in {"pre", "post"} /\ Rfc724MidExists(job.mail.of) # {})

\* The message to edit is loaded first and written later.
HandleEditLoad ==
  /\ Handling("edit")
  /\ \E i \in {LoadFromDbOptional(Rfc724MidExists(job.mail.of))} :
       job' = [job EXCEPT !.stage = IF i = 0 THEN "trash" ELSE "write", !.id = i]
  /\ UNCHANGED <<msgs, nextId, imapRows, pending, counts, past>>
SaveTextEditToDb ==
  /\ job.stage = "write" /\ job.mail.kind = "edit"
  /\ msgs' = {IF r.id = job.id THEN [r EXCEPT !.text = 2] ELSE r : r \in msgs}
  /\ past' = [past EXCEPT !.edited = @ \cup {job.mail.of}]
  /\ Goes("trash")
  /\ UNCHANGED <<nextId, imapRows, pending, counts>>

Trash(r) == [r EXCEPT !.shown = FALSE, !.text = 0, !.file = FALSE, !.deleted = TRUE]
Delete(ids) == msgs' = {IF r.id \in ids THEN Trash(r) ELSE r : r \in msgs}
\* Of a message that is not there yet, a tombstone is left.
HandleDelete ==
  /\ Handling("delete")
  /\ IF Rfc724MidExists(job.mail.of) = {}
     THEN /\ msgs' = msgs \cup {Tombstone(nextId, job.mail.of)} /\ nextId' = nextId + 1
          /\ past' = [past EXCEPT !.retracted = @ \cup {job.mail.of}]
     ELSE /\ \E i \in {LoadFromDbOptional(Rfc724MidExists(job.mail.of))} :
               /\ Delete({i})
               /\ past' = IF i = 0 THEN past
                          ELSE [past EXCEPT !.retracted = @ \cup {job.mail.of}, !.gone = @ \cup {<<job.mail.of, 1>>}]
          /\ UNCHANGED nextId
  /\ Goes("trash")
  /\ UNCHANGED <<imapRows, pending, counts>>

\* A post-message completes the row of its pre-message, and is stored itself if there is none.
HandlePostLoad ==
  /\ Handling("post")
  /\ \E i \in {LoadFromDbOptional(Rfc724MidExists(job.mail.of))} :
       job' = [job EXCEPT !.stage = IF i # 0 THEN "write" ELSE IF Trashed THEN "trash" ELSE "store", !.id = i]
  /\ UNCHANGED <<msgs, nextId, imapRows, pending, counts, past>>
ReplaceAttachment ==
  /\ job.stage = "write" /\ job.mail.kind = "post"
  /\ msgs' = {IF r.id = job.id THEN [r EXCEPT !.file = TRUE] ELSE r : r \in msgs}
  /\ Goes("trash")
  /\ UNCHANGED <<nextId, imapRows, pending, counts, past>>

\* A pre-message whose post-message is there already only names itself on that row.
HandlePre ==
  /\ Handling("pre")
  /\ msgs' = IF Trashed THEN {IF r.id = First(Rfc724MidExists(job.mail.of)) THEN [r EXCEPT !.pre = job.mail.own] ELSE r : r \in msgs} ELSE msgs
  /\ Goes(IF Trashed THEN "trash" ELSE "store")
  /\ UNCHANGED <<nextId, imapRows, pending, counts, past>>
HandlePlain ==
  /\ Handling("plain") /\ Goes("store")
  /\ UNCHANGED <<msgs, nextId, imapRows, pending, counts, past>>

\* Each part is a row of its own, written by itself.
InsertPart ==
  /\ job.stage = "store"
  /\ \E k \in {Cardinality(job.done) + 1} :
       /\ msgs' = msgs \cup {[id |-> nextId, mid |-> job.mail.of, part |-> k, pre |-> IF job.mail.kind = "pre" THEN job.mail.own ELSE 0, text |-> 1,
                              file |-> job.mail.kind = "post", shown |-> TRUE, dated |-> TRUE, deleted |-> FALSE,
                              enriched |-> FALSE]}
       /\ past' = [past EXCEPT !.stored = @ \cup {<<job.mail.of, k>>}]
       /\ job' = [job EXCEPT !.done = @ \cup {nextId}, !.stage = IF k = job.mail.parts THEN "enrich" ELSE "store"]
  /\ nextId' = nextId + 1
  /\ UNCHANGED <<imapRows, pending, counts>>
\* The row of a mail that is not shown: of an edit or deletion under its own id, of a pre- or post-message under the message's.
InsertTrash ==
  /\ job.stage = "trash"
  /\ msgs' = msgs \cup {[Tombstone(nextId, IF job.mail.kind = "pre" THEN job.mail.of ELSE job.mail.own)
                          EXCEPT !.pre = IF job.mail.kind = "pre" THEN job.mail.own ELSE 0, !.dated = TRUE]}
  /\ nextId' = nextId + 1
  /\ job' = [job EXCEPT !.done = {nextId}, !.stage = "enrich"]
  /\ UNCHANGED <<imapRows, pending, counts, past>>

\* What is derived for each row: raw bytes, recipients, thread, labels, gating, importance, blocklist, structured data.
Enrich ==
  /\ job.stage = "enrich"
  /\ \E i \in job.done :
       /\ msgs' = {IF r.id = i THEN [r EXCEPT !.enriched = TRUE] ELSE r : r \in msgs}
       /\ job' = [job EXCEPT !.done = @ \ {i}, !.stage = IF job.done = {i} THEN "retain" ELSE "enrich"]
  /\ UNCHANGED <<nextId, imapRows, pending, counts, past>>
\* The server may forget a mail that is stored, on every relay where it was seen.
ApplyServerRetention ==
  /\ job.stage = "retain"
  /\ imapRows' = {IF i.mail = job.mail THEN [i EXCEPT !.target = "delete"] ELSE i : i \in imapRows}
  /\ DoneWith([relay |-> job.relay, mail |-> job.mail])
  /\ past' = [past EXCEPT !.came = @ \cup {job.mail}]
  /\ UNCHANGED <<msgs, nextId, counts>>

--------------------------------------------------------------------------------
(* What happens meanwhile.                                                         *)

\* The mail is delivered again; what was written stays.
DieReceiving ==
  /\ job # NotReceiving /\ counts.deaths < MaxReceptionDeaths
  /\ counts' = [counts EXCEPT !.deaths = @ + 1] /\ job' = NotReceiving
  /\ past' = [past EXCEPT !.cut = @ \cup {job.mail}]
  /\ UNCHANGED <<msgs, nextId, imapRows, pending>>
DeleteMsgs(r) ==
  /\ counts.deletes < MaxUserDeletes /\ r.shown
  /\ counts' = [counts EXCEPT !.deletes = @ + 1]
  /\ Delete({r.id})
  /\ imapRows' = {IF i.mail.own \in {r.mid, r.pre} THEN [i EXCEPT !.target = "delete"] ELSE i : i \in imapRows}
  /\ past' = [past EXCEPT !.retracted = @ \cup {r.mid}, !.gone = @ \cup {<<r.mid, r.part>>}]
  /\ UNCHANGED <<nextId, pending, job>>
\* Rows of the trash chat older than two days go, unless the server keeps the mail; within those days only the ones
\* without a date. What was derived for a row in the trash chat goes too.
PruneTombstones ==
  /\ counts.prunings < MaxPrunings
  /\ counts' = [counts EXCEPT !.prunings = @ + 1]
  /\ msgs' = {IF r.shown THEN r ELSE [r EXCEPT !.enriched = FALSE] :
                r \in {x \in msgs : x.shown \/ x.dated \/ \E i \in imapRows : i.mail.own = x.mid /\ i.target = "keep"}}
  /\ msgs' # msgs
  /\ UNCHANGED <<nextId, imapRows, pending, job, past>>

--------------------------------------------------------------------------------
ReceptionInit ==
  /\ msgs = {} /\ nextId = 1 /\ imapRows = {} /\ job = NotReceiving
  /\ pending \in Deliveries
  /\ counts = [deaths |-> 0, deletes |-> 0, prunings |-> 0]
  /\ past = [came |-> {}, stored |-> {}, retracted |-> {}, gone |-> {}, edited |-> {}, cut |-> {}]

StoreMail ==
  \/ HandleEditLoad \/ SaveTextEditToDb \/ HandleDelete \/ HandlePostLoad \/ ReplaceAttachment \/ HandlePre \/ HandlePlain
  \/ InsertPart \/ InsertTrash \/ Enrich \/ ApplyServerRetention
ReceptionNext ==
  \/ \E d \in pending : Receive(d)
  \/ StoreMail \/ DieReceiving
  \/ \E r \in msgs : DeleteMsgs(r)
  \/ PruneTombstones

ReceptionSpec ==
  /\ ReceptionInit /\ [][ReceptionNext]_receptionVars
  /\ WF_receptionVars(\E d \in pending : Receive(d)) /\ WF_receptionVars(StoreMail)

--------------------------------------------------------------------------------
Shown(mid) == {r \in msgs : r.mid = mid /\ r.shown}

ReceptionTypeOK ==
  /\ \A r \in msgs : r.id \in 1..(nextId - 1) /\ r.text \in 0..2
  /\ \A r, s \in msgs : r.id = s.id => r = s
  /\ job # NotReceiving => [relay |-> job.relay, mail |-> job.mail] \in pending
  /\ \A i \in imapRows : i.target \in {"keep", "delete"}

\* However often and over however many relays a mail comes, each of its parts is shown once (receive_imf_inner: the
\* lookup of rfc724_mid; decide_chat_assignment for pre- and post-messages).
ShownOnce == \A r, s \in msgs : (r.shown /\ s.shown /\ r.mid = s.mid /\ r.part = s.part) => r = s

\* A mail the server may forget has all its parts stored, or was deleted: a death at no point loses one
\* (policy.rs: "The message is stored, so it is safe to let the server forget it").
StoredBeforeForgotten ==
  \A i \in imapRows : (i.target = "delete" /\ i.mail.kind \in {"plain", "pre", "post"} /\ i.mail.of \notin past.retracted)
    => \A k \in 1..i.mail.parts : <<i.mail.of, k>> \in past.stored

\* What was deleted after it came, by its sender or by the user, does not come back with a late or repeated mail
\* (MsgId::trash: "not download the same message again").
DeletedStays ==
  \A r \in msgs : r.shown => <<r.mid, r.part>> \notin past.gone

\* The same of a message deleted before it came (handle_edit_delete: "Insert a tombstone so that the message will be
\* ignored if it arrives later within a period specified in prune_tombstones()").
RetractedNeverShown == \A mid \in past.retracted : (\A m \in ReceptionMails : m.of = mid => m.parts = 1) => Shown(mid) = {}

\* When both halves of a large message are in, in either order, it is one message with its file; an edit made in
\* between is kept (handle_post_message: "ensures that doesn't overwrite the text if it was edited before").
HalvesJoin ==
  job = NotReceiving =>
    \A r \in msgs : r.shown =>
      /\ (\E m \in past.came : m.kind = "post" /\ m.of = r.mid) => r.file
      /\ r.mid \in past.edited => r.text = 2

\* A message none of whose mails a death interrupted has every part and everything that is derived from it.
Whole ==
  \A m \in ReceptionMails : (m.kind = "plain" /\ m \notin past.cut /\ <<m.of, 1>> \in past.stored
                             /\ ~(job # NotReceiving /\ job.mail = m))
    => /\ \A k \in 1..m.parts : <<m.of, k>> \in past.stored
       /\ \A r \in Shown(m.of) : r.enriched

\* A tombstone keeps nothing of the message (MsgId::trash: "Put message into trash chat and delete message text.").
TombstonesEmpty == \A r \in msgs : ~r.shown => r.text = 0 /\ ~r.file

\* Every mail has been dealt with.  In the end that is so, whatever dies on the way.
AllReceived == pending = {}

\* A received message is shown once and whole, is stored before it is forgotten, and stays
\* deleted.
ReceptionSafe ==
    ReceptionTypeOK /\ ShownOnce /\ StoredBeforeForgotten /\ DeletedStays /\ HalvesJoin /\ Whole
==========================================================================
