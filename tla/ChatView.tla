------------------------------ MODULE ChatView ------------------------------
(***************************************************************************)
(* What one device shows of its conversations: drafts becoming messages,   *)
(* the archive and its badge, the chat list, forwarded and saved copies,   *)
(* and the device chat (core/src/chat.rs, chatlist.rs, message.rs).  The   *)
(* calls of the user interface and the reception of mail run concurrently; *)
(* a call is cut into the statements it sends to the database, between     *)
(* which the other calls run.                                              *)
(*                                                                         *)
(* A row's id is its place in "shelf"; a deleted draft is "gone", a trashed *)
(* message "trashed".  A text is the number of the act that wrote it.      *)
(***************************************************************************)
EXTENDS Integers, Sequences, FiniteSets, SequencesExt

CONSTANTS Threads,      \* the calls that may run at the same time
          ViewThemes,   \* [ops, chats, acts, deaths]: what a behaviour may do, where and how often
          LastSecond    \* bound: the clock shows 1..LastSecond

ASSUME ViewAssumption == /\ IsFiniteSet(Threads) /\ Threads # {}
                         /\ LastSecond \in Nat \ {0}
                         /\ \A h \in ViewThemes : h.acts \in Nat /\ h.deaths \in Nat

VARIABLES scene,   \* the theme, with what is left of its budgets
          shelf,    \* the rows of msgs
          views,    \* chats.archived and chats.muted_until of every chat
          task,     \* the calls under way
          hour,     \* the system clock
          labelled, \* devmsglabels
          mailed,   \* what was handed to the sending queue, in order
          badge,    \* what the interface last read for the archive link
          upsets    \* which excused events have happened

viewVars == <<scene, shelf, views, task, hour, labelled, mailed, badge, upsets>>

Groups == {"g"}
Saved == "m"
Device == "d"
ShownChats == Groups \cup {"s", Saved, Device}
LabelNames == {"l"}
UnreadIn == "fresh"
ShownStates == {"fresh", "noticed", "seen", "pending", "delivered"}
RowStates == ShownStates \cup {"draft", "trashed", "gone"}
NoTask == [at |-> "idle", chat |-> "g", id |-> 0, text |-> 0, quote |-> 0, ts |-> 0,
           list |-> <<>>, next |-> "idle", label |-> "", size |-> 0]

-----------------------------------------------------------------------------
(* What the queries of the chat list and of the chats return. *)

InChat(c) == {i \in DOMAIN shelf : shelf[i].chat = c /\ shelf[i].state \in ShownStates \cup {"draft"}}
Draft(c) == {i \in InChat(c) : shelf[i].state = "draft"}

(* The rows of one chat are sorted by time, then by id. *)
NotAfter(i, j) == shelf[i].ts < shelf[j].ts \/ (shelf[i].ts = shelf[j].ts /\ i <= j)
Newest(S) == IF S = {} THEN 0 ELSE CHOOSE i \in S : \A j \in S : NotAfter(j, i)

ById(S) == SelectSeq([i \in DOMAIN shelf |-> i], LAMBDA i : i \in S)
InShownOrder(S) == SortSeq(ById(S), LAMBDA i, j : i # j /\ NotAfter(i, j))

GetChatMsgs(c) == InShownOrder({i \in InChat(c) : ~shelf[i].hidden})
FreshOf(c) == {i \in InChat(c) : shelf[i].state = UnreadIn /\ ~shelf[i].hidden}
ArchiveCount == Cardinality({c \in ShownChats : views[c].vis = "archived" /\ FreshOf(c) # {}})

(* The message try_load() shows for a chat: the draft, or the last one that is not hidden. *)
LastVisible(c) == Newest({i \in InChat(c) :
                            \/ shelf[i].state = "draft" /\ shelf[i].hidden
                            \/ shelf[i].state \in ShownStates /\ ~shelf[i].hidden})
(* The message get_last_message_for_chat() returns when one item changed. *)
GetLastMessageForChat(c) == Newest({i \in InChat(c) : ~shelf[i].hidden \/ shelf[i].state = "draft"})

(* try_load(): each chat with the message shown of it, in the archive or in the normal list. *)
ArchivedList == {<<c, LastVisible(c)>> : c \in {x \in ShownChats : views[x].vis = "archived"}}
NormalList == {<<c, LastVisible(c)>> : c \in {x \in ShownChats : views[x].vis # "archived"}}

(* The sort time of a new row. *)
Times(c) == {shelf[i].ts : i \in InChat(c)}
AfterAll(S, t) == CHOOSE x \in S \cup {t} : \A y \in S \cup {t} : y <= x
CalcSortTimestamp(c, t, bottom) ==
  AfterAll(IF bottom THEN {shelf[i].ts : i \in InChat(c) \ Draft(c)} ELSE {},
           IF t < hour THEN t ELSE hour)

-----------------------------------------------------------------------------
ViewInit ==
  /\ scene \in ViewThemes
  /\ shelf = <<>>
  /\ views = [c \in ShownChats |-> [vis |-> "normal", muted |-> FALSE]]
  /\ task = [k \in Threads |-> NoTask]
  /\ hour = 1
  /\ labelled = {}
  /\ mailed = <<>>
  /\ badge = 0
  /\ upsets = {}

Begins(op) == /\ op \in scene.ops /\ scene.acts > 0
              /\ scene' = [scene EXCEPT !.acts = @ - 1]
Text == scene.acts
RowOf(c, state, ts, text) == [chat |-> c, state |-> state, hidden |-> FALSE, ts |-> ts, text |-> text,
                              quote |-> 0, orig |-> 0, fwd |-> 0, mark |-> 0]
GoTo(k, at) == task' = [task EXCEPT ![k] = IF at = "idle" THEN NoTask ELSE [@ EXCEPT !.at = at]]
Insert(row) == shelf' = Append(shelf, row)
Upset(what, if) == upsets' = IF if THEN upsets \cup {what} ELSE upsets

(* The interface is told of everything, or of the archive link: it reads the count anew. *)
BadgeAfter(vs, ss) ==
  Cardinality({c \in ShownChats : vs[c].vis = "archived"
                 /\ \E i \in DOMAIN ss : ss[i].chat = c /\ ss[i].state = UnreadIn /\ ~ss[i].hidden})
Told == badge' = BadgeAfter(views', shelf')

(* unarchive_if_not_muted() for a message that is not fresh: one conditional UPDATE. *)
Raised(c) == IF views[c].vis = "archived" /\ ~views[c].muted
             THEN [views EXCEPT ![c].vis = "normal"] ELSE views

-----------------------------------------------------------------------------
(* Drafts. *)

MaybeDeleteDraft(c) ==
  /\ Begins("drop")
  /\ Draft(c) # {}
  /\ shelf' = [i \in DOMAIN shelf |-> IF i \in Draft(c) THEN [shelf[i] EXCEPT !.state = "gone"] ELSE shelf[i]]
  /\ UNCHANGED <<views, task, hour, labelled, mailed, badge, upsets>>

(* do_set_draft(): the object's row is updated when it is the chat's draft at the time of asking,
   otherwise one transaction replaces the draft. *)
ReplaceDraft(c, row) ==
  Append([i \in DOMAIN shelf |-> IF i \in Draft(c) THEN [shelf[i] EXCEPT !.state = "gone"] ELSE shelf[i]], row)

DraftRow(c, q) == [RowOf(c, "draft", hour, Text) EXCEPT !.hidden = TRUE, !.quote = q]
Quotable == {0} \cup {i \in DOMAIN shelf : "quote" \in scene.ops /\ shelf[i].state \in ShownStates}

DoSetDraft(k, c) == \E q \in Quotable :
  /\ Begins("draft") /\ task[k].at = "idle"
  /\ \/ /\ \E i \in Draft(c) :
             task' = [task EXCEPT ![k] = [NoTask EXCEPT !.at = "update draft", !.chat = c, !.id = i,
                                                       !.text = Text, !.quote = q]]
        /\ UNCHANGED shelf
     \/ /\ shelf' = ReplaceDraft(c, DraftRow(c, q))
        /\ UNCHANGED task
  /\ UNCHANGED <<views, hour, labelled, mailed, badge, upsets>>

(* The UPDATE names the row only: whatever has become of it meanwhile. *)
UpdateDraft(k) == LET i == task[k].id IN
  /\ task[k].at = "update draft"
  /\ shelf' = IF shelf[i].state = "gone" THEN shelf
              ELSE [shelf EXCEPT ![i].text = task[k].text, ![i].quote = task[k].quote, ![i].ts = hour]
  /\ Upset("draft", shelf[i].state # "draft")
  /\ GoTo(k, "idle")
  /\ UNCHANGED <<scene, views, hour, labelled, mailed, badge>>

-----------------------------------------------------------------------------
(* Sending. *)

QuotedMessage(q) == {i \in {q} \ {0} : shelf[i].state \in ShownStates}
QuoteAllowed(c, q) == c \notin Groups \/ \A i \in QuotedMessage(q) : shelf[i].chat = c

(* prepare_send_msg() up to the row: a new message, or the draft of a chat, whose row is kept when
   it is sent to that chat.  A refused message changes nothing. *)
SendMsg(k, c) ==
  \E o \in [id : {0}, text : {Text}, quote : Quotable] \cup
           {[id |-> IF shelf[i].chat = c THEN i ELSE 0, text |-> shelf[i].text, quote |-> shelf[i].quote] :
              i \in UNION {Draft(x) : x \in ShownChats}} :
    /\ Begins("send") /\ task[k].at = "idle" /\ c # Device
    /\ IF QuoteAllowed(c, o.quote)
       THEN /\ task' = [task EXCEPT ![k] = [NoTask EXCEPT !.at = "store", !.chat = c, !.id = o.id,
                                              !.text = o.text, !.quote = o.quote, !.ts = hour]]
            /\ views' = Raised(c)
       ELSE UNCHANGED <<task, views>>
    /\ UNCHANGED <<shelf, hour, labelled, mailed, badge, upsets>>

(* prepare_msg_raw(): the kept row is overwritten, without asking whether it is still the draft. *)
SentRow(k) == [RowOf(task[k].chat, "pending", task[k].ts, task[k].text) EXCEPT !.quote = task[k].quote]
UpdateRow(k) == [shelf EXCEPT ![task[k].id] = SentRow(k)]
PrepareMsgRaw(k) == LET i == task[k].id IN
  /\ task[k].at = "store"
  /\ IF i = 0
     THEN /\ Insert(SentRow(k))
          /\ task' = [task EXCEPT ![k].at = "queue", ![k].id = Len(shelf) + 1]
          /\ UNCHANGED upsets
     ELSE /\ shelf' = IF shelf[i].state = "gone" THEN shelf ELSE UpdateRow(k)
          /\ GoTo(k, "queue")
          /\ Upset("draft", shelf[i].state # "draft")
  /\ UNCHANGED <<scene, views, hour, labelled, mailed, badge>>

Handed(k, id, text, quote, fwd) ==
  mailed' = Append(mailed, [id |-> id, chat |-> task[k].chat, text |-> text, quote |-> quote, fwd |-> fwd])

CreateSendMsgJobs(k) ==
  /\ task[k].at = "queue"
  /\ Handed(k, task[k].id, task[k].text, task[k].quote, 0)
  /\ GoTo(k, "idle")
  /\ UNCHANGED <<scene, shelf, views, hour, labelled, badge, upsets>>

(* send_edit_request() saves the new text and sends it in a hidden message of its own; the text of
   a mail is the one its recipients hold after all mails. *)
SendEditRequest(i) ==
  /\ Begins("edit")
  /\ shelf[i].state = "pending" /\ \E n \in DOMAIN mailed : mailed[n].id = i
  /\ shelf' = [shelf EXCEPT ![i].text = Text]
  /\ mailed' = Append([j \in DOMAIN mailed |-> IF mailed[j].id = i THEN [mailed[j] EXCEPT !.text = Text] ELSE mailed[j]],
                      [id |-> 0, chat |-> shelf[i].chat, text |-> Text, quote |-> i, fwd |-> 0])
  /\ UNCHANGED <<views, task, hour, labelled, badge, upsets>>

-----------------------------------------------------------------------------
(* Forwarding and saving. *)

Sorted(S) == InShownOrder(S)

ForwardMsgs(k, c) == \E S \in SUBSET {i \in DOMAIN shelf : shelf[i].state \in ShownStates \cup {"draft"}} :
  /\ Begins("forward") /\ task[k].at = "idle" /\ c # Device /\ S # {}
  /\ views' = Raised(c)
  /\ task' = [task EXCEPT ![k] = [NoTask EXCEPT !.at = "forward", !.chat = c, !.list = Sorted(S), !.ts = hour,
                                                !.text = Text]]
  /\ UNCHANGED <<shelf, hour, labelled, mailed, badge, upsets>>

(* A message gone meanwhile or a draft ends the call; what was forwarded before stays. *)
ForwardRow(k, i) == [RowOf(task[k].chat, "pending", task[k].ts, shelf[i].text)
                       EXCEPT !.fwd = i, !.mark = task[k].text, !.quote = shelf[i].quote]
ForwardOne(k) ==
  /\ task[k].at = "forward"
  /\ \/ /\ task[k].list = <<>>
        /\ GoTo(k, "idle") /\ UNCHANGED <<shelf, mailed>>
     \/ /\ task[k].list # <<>>
        /\ LET i == Head(task[k].list) IN
             IF shelf[i].state \in ShownStates
             THEN /\ Insert(ForwardRow(k, i))
                  /\ Handed(k, Len(shelf) + 1, shelf[i].text, shelf[i].quote, i)
                  /\ task' = [task EXCEPT ![k].list = Tail(@)]
             ELSE GoTo(k, "idle") /\ UNCHANGED <<shelf, mailed>>
  /\ UNCHANGED <<scene, views, hour, labelled, badge, upsets>>

(* save_copy_in_self_talk(): the copy keeps a reference to the original; copies are refused. *)
SavedRow(i) == [RowOf(Saved, IF shelf[i].state \in {"pending", "delivered"} THEN "delivered" ELSE "seen",
                      hour, shelf[i].text) EXCEPT !.orig = i]
SaveCopyInSelfTalk(i) ==
  /\ Begins("save")
  /\ shelf[i].state \in ShownStates /\ shelf[i].orig = 0
  /\ Insert(SavedRow(i))
  /\ UNCHANGED <<views, task, hour, labelled, mailed, badge, upsets>>

-----------------------------------------------------------------------------
(* Reception, the archive and what was noticed. *)

ReceiveFresh(k, c) == \E t \in 1..LastSecond :
  /\ Begins("receive") /\ task[k].at = "idle" /\ c \in Groups \cup {"s"}
  /\ Insert(RowOf(c, UnreadIn, CalcSortTimestamp(c, t, FALSE), Text))
  /\ task' = [task EXCEPT ![k] = [NoTask EXCEPT !.at = "load", !.chat = c]]
  /\ Upset("badge", \E j \in Threads \ {k} : task[j].at = "load" /\ task[j].chat = c)
  /\ UNCHANGED <<views, hour, labelled, mailed, badge>>

(* unarchive_if_not_muted() for a fresh message: the chat is loaded, then unarchived. *)
AfterUnarchive(k) == GoTo(k, task[k].next)
BugUnarchiveIfNotMuted(k) == LET c == task[k].chat IN
  /\ task[k].at = "load"
  /\ IF views[c].vis = "archived" /\ views[c].muted THEN GoTo(k, "raise") ELSE AfterUnarchive(k)
  /\ UNCHANGED <<scene, shelf, views, hour, labelled, mailed, upsets, badge>>
UnarchiveIfNotMuted(k) == LET c == task[k].chat IN
  /\ task[k].at = "load"
  /\ IF views[c].vis = "archived" /\ ~views[c].muted
     THEN GoTo(k, "raise") /\ UNCHANGED badge
     ELSE /\ AfterUnarchive(k)
          /\ badge' = IF views[c].vis = "archived" /\ Cardinality(FreshOf(c)) = 1 THEN ArchiveCount ELSE badge
  /\ UNCHANGED <<scene, shelf, views, hour, labelled, mailed, upsets>>
Raise(k) ==
  /\ task[k].at = "raise"
  /\ views' = [views EXCEPT ![task[k].chat].vis = "normal"]
  /\ AfterUnarchive(k)
  /\ Upset("lost", views[task[k].chat].vis # "archived" \/ views[task[k].chat].muted)
  /\ UNCHANGED <<scene, shelf, hour, labelled, mailed, badge>>

NoticedIn(C) == [i \in DOMAIN shelf |-> IF i \in UNION {FreshOf(c) : c \in C}
                                        THEN [shelf[i] EXCEPT !.state = "noticed"] ELSE shelf[i]]

SetVisibilityTo(c, v) ==
  /\ Begins("visibility")
  /\ views[c].vis # v
  /\ views' = [views EXCEPT ![c].vis = v]
  /\ shelf' = IF v = "archived" THEN NoticedIn({c}) ELSE shelf
  /\ Told
  /\ UNCHANGED <<task, hour, labelled, mailed, upsets>>

SetMutedTo(c) ==
  /\ Begins("mute")
  /\ views' = [views EXCEPT ![c].muted = ~@]
  /\ Upset("unmuted", views[c].muted)
  /\ UNCHANGED <<shelf, task, hour, labelled, mailed, badge>>

(* marknoticed_chat() of a chat, or of the archive link: every archived chat. *)
MarkNoticed(C) ==
  /\ Begins("notice")
  /\ \E c \in C : FreshOf(c) # {}
  /\ shelf' = NoticedIn(C)
  /\ UNCHANGED views /\ Told
  /\ UNCHANGED <<task, hour, labelled, mailed, upsets>>

(* marknoticed_all_chats() collects the chats, then notices one after the other. *)
MarkNoticedAll(k) ==
  /\ Begins("notice all") /\ task[k].at = "idle"
  /\ task' = [task EXCEPT ![k] = [NoTask EXCEPT !.at = "notice",
                                   !.list = SetToSeq({c \in ShownChats : FreshOf(c) # {}})]]
  /\ UNCHANGED <<shelf, views, hour, labelled, mailed, badge, upsets>>
NoticeNext(k) ==
  /\ task[k].at = "notice"
  /\ IF task[k].list = <<>>
     THEN GoTo(k, "idle") /\ UNCHANGED <<shelf, badge>>
     ELSE /\ shelf' = NoticedIn({Head(task[k].list)})
          /\ task' = [task EXCEPT ![k].list = Tail(@)]
          /\ badge' = IF shelf' = shelf THEN badge ELSE BadgeAfter(views, shelf')
  /\ UNCHANGED <<scene, views, hour, labelled, mailed, upsets>>

MarkFreshChat(c) == LET S == {i \in InChat(c) : shelf[i].state \in {"fresh", "noticed", "seen"} /\ ~shelf[i].hidden} IN
  /\ Begins("fresh")
  /\ S # {} /\ shelf[Newest(S)].state # UnreadIn
  /\ shelf' = [shelf EXCEPT ![Newest(S)].state = UnreadIn]
  /\ Upset("marked", views[c].vis = "archived")
  /\ UNCHANGED <<views, task, hour, labelled, mailed, badge>>

DeleteShown(i) ==
  /\ Begins("delete")
  /\ shelf[i].state \in ShownStates
  /\ shelf' = [shelf EXCEPT ![i] = [RowOf("g", "trashed", shelf[i].ts, 0) EXCEPT !.orig = shelf[i].orig]]
  /\ UNCHANGED views /\ Told
  /\ UNCHANGED <<task, hour, labelled, mailed, upsets>>

-----------------------------------------------------------------------------
(* Rows the device adds by itself. *)

(* add_info_msg_with_cmd() without a sort time: to the bottom of the chat. *)
AddInfoMsg(k, c) ==
  /\ Begins("info") /\ task[k].at = "idle"
  /\ task' = [task EXCEPT ![k] = [NoTask EXCEPT !.at = "info", !.chat = c, !.text = Text, !.size = Len(shelf),
                                                !.ts = CalcSortTimestamp(c, hour, TRUE)]]
  /\ UNCHANGED <<shelf, views, hour, labelled, mailed, badge, upsets>>
InsertInfo(k) ==
  /\ task[k].at = "info"
  /\ Insert(RowOf(task[k].chat, "noticed", task[k].ts, task[k].text))
  /\ GoTo(k, "idle")
  /\ UNCHANGED <<scene, views, hour, labelled, mailed, badge, upsets>>

(* add_device_msg_with_importance(): after the label is asked for, the time is chosen. *)
WasEverAdded(l) == l \in labelled
StampAfter(c) == IF \E t \in Times(c) : t >= hour THEN AfterAll(Times(c), hour) + 1 ELSE hour
AddDeviceMsg(k, l) ==
  /\ Begins("device") /\ task[k].at = "idle"
  /\ IF WasEverAdded(l) THEN UNCHANGED task
     ELSE task' = [task EXCEPT ![k] = [NoTask EXCEPT !.at = "device", !.chat = Device, !.text = Text, !.label = l,
                                        !.size = Len(shelf), !.ts = StampAfter(Device)]]
  /\ UNCHANGED <<shelf, views, hour, labelled, mailed, badge, upsets>>
InsertDevice(k) ==
  /\ task[k].at = "device"
  /\ Insert([RowOf(Device, UnreadIn, task[k].ts, task[k].text) EXCEPT !.mark = IF task[k].label = "" THEN 0 ELSE 1])
  /\ task' = [task EXCEPT ![k].at = "load", ![k].next = IF task[k].label = "" THEN "idle" ELSE "label"]
  /\ Upset("twice", task[k].label \in labelled
                    \/ (task[k].label # "" /\ \E j \in Threads \ {k} : task[j].label = task[k].label))
  /\ UNCHANGED <<scene, views, hour, labelled, mailed, badge>>
InsertLabel(k) ==
  /\ task[k].at = "label"
  /\ labelled' = labelled \cup {task[k].label}
  /\ GoTo(k, "idle")
  /\ UNCHANGED <<scene, shelf, views, hour, mailed, badge, upsets>>

(* delete_and_reset_all_device_msgs() of an import: messages, then labels. *)
ResetDeviceMsgs(k) ==
  /\ Begins("reset") /\ task[k].at = "idle"
  /\ shelf' = [i \in DOMAIN shelf |-> IF i \in InChat(Device) \ Draft(Device)
                                      THEN [shelf[i] EXCEPT !.state = "gone"] ELSE shelf[i]]
  /\ task' = [task EXCEPT ![k] = [NoTask EXCEPT !.at = "reset"]]
  /\ Upset("twice", \E j \in Threads : task[j].label # "")
  /\ UNCHANGED <<views, hour, labelled, mailed, badge>>
ResetLabels(k) ==
  /\ task[k].at = "reset"
  /\ labelled' = {}
  /\ GoTo(k, "idle")
  /\ Upset("twice", \E i \in InChat(Device) : shelf[i].state \in ShownStates)
  /\ UNCHANGED <<scene, shelf, views, hour, mailed, badge>>

-----------------------------------------------------------------------------
(* The clock is the system's and may be set back. *)
SetClock(t) ==
  /\ Begins("clock") /\ t # hour
  /\ hour' = t
  /\ UNCHANGED <<shelf, views, task, labelled, mailed, badge, upsets>>

(* The process dies: no call continues, the interface reads everything anew. *)
ViewDies ==
  /\ scene.deaths > 0
  /\ \E k \in Threads : task[k].at # "idle"
  /\ scene' = [scene EXCEPT !.deaths = @ - 1]
  /\ upsets' = upsets \cup {"died"}
                       \cup {"twice" : k \in {j \in Threads : task[j].label # "" /\ task[j].at # "device"}}
  /\ task' = [k \in Threads |-> NoTask]
  /\ UNCHANGED <<shelf, views, hour, labelled, mailed>>
  /\ Told

ViewDone == /\ scene.acts = 0 /\ \A k \in Threads : task[k].at = "idle"
            /\ UNCHANGED viewVars

Continues(k) ==
  \/ UpdateDraft(k) \/ PrepareMsgRaw(k) \/ CreateSendMsgJobs(k) \/ ForwardOne(k)
  \/ UnarchiveIfNotMuted(k) \/ Raise(k) \/ NoticeNext(k) \/ InsertInfo(k)
  \/ InsertDevice(k) \/ InsertLabel(k) \/ ResetLabels(k)

ViewNext ==
  \/ \E k \in Threads : Continues(k) \/ MarkNoticedAll(k) \/ ResetDeviceMsgs(k)
  \/ \E k \in Threads, c \in scene.chats :
       DoSetDraft(k, c) \/ SendMsg(k, c) \/ ForwardMsgs(k, c) \/ ReceiveFresh(k, c) \/ AddInfoMsg(k, c)
  \/ \E k \in Threads, l \in LabelNames \cup {""} : AddDeviceMsg(k, l)
  \/ \E c \in scene.chats : MaybeDeleteDraft(c) \/ SetMutedTo(c) \/ MarkNoticed({c}) \/ MarkFreshChat(c)
  \/ \E c \in scene.chats, v \in {"normal", "archived", "pinned"} : SetVisibilityTo(c, v)
  \/ MarkNoticed({c \in ShownChats : views[c].vis = "archived"})
  \/ \E i \in DOMAIN shelf : SaveCopyInSelfTalk(i) \/ DeleteShown(i) \/ SendEditRequest(i)
  \/ \E t \in 1..LastSecond : SetClock(t)
  \/ ViewDies \/ ViewDone

ViewSpec == ViewInit /\ [][ViewNext]_viewVars

-----------------------------------------------------------------------------
AllIdle == \A k \in Threads : task[k].at = "idle"

(* Every row, call and mail is well formed, and a chat has at most one draft: do_set_draft() and
   the sending of a draft never leave two rows that get_draft_msg_id() could pick. *)
ViewTypeOK ==
  /\ \A i \in DOMAIN shelf : shelf[i].chat \in ShownChats /\ shelf[i].state \in RowStates /\ shelf[i].ts \in Nat
  /\ \A c \in ShownChats : views[c].vis \in {"normal", "archived", "pinned"} /\ Cardinality(Draft(c)) <= 1
  /\ \A n \in DOMAIN mailed : mailed[n].id \in 0..Len(shelf)

(* What was handed to the sending queue is shown in its chat with the same text, or the user
   deleted it: for every order of saving, dropping and sending drafts, except that a call caught
   the row of a draft another call had already sent or dropped (send_msg, chat.rs:2613-2649). *)
SentIsShown ==
  "draft" \notin upsets =>
    \A n \in DOMAIN mailed :
      mailed[n].id # 0 =>
        LET r == shelf[mailed[n].id] IN
          \/ r.state = "trashed"
          \/ r.state \in ShownStates /\ ~r.hidden /\ r.text = mailed[n].text /\ r.chat = mailed[n].chat

(* No exception: the property a sender would expect. *)
SentAlwaysShown ==
  \A n \in DOMAIN mailed :
    mailed[n].id # 0 => LET r == shelf[mailed[n].id] IN
      r.state = "trashed" \/ (r.state \in ShownStates /\ r.text = mailed[n].text)

(* A chat does not stay in the archive with an unread message while it is not muted, unless the
   user unmuted it there or marked it unread (unarchive_if_not_muted, chat.rs:576-626). *)
NewsNotBuried ==
  AllIdle /\ upsets \cap {"unmuted", "marked", "died"} = {} =>
    \A c \in ShownChats : views[c].vis = "archived" /\ FreshOf(c) # {} => views[c].muted

(* The count the interface shows at the archive link is never too low: no order of receiving,
   noticing, muting and archiving leaves an archived chat whose unread messages the badge does not
   count, unless two mails of one chat were received at the same time or the user marked an
   archived chat unread (chat.rs:581-582). *)
BadgeRight == AllIdle /\ upsets \cap {"badge", "marked"} = {} => badge >= ArchiveCount

(* on_archived_chats_maybe_noticed(): "Should be called if the number of unnoticed archived chats
   could decrease" (chat.rs:5457-5458): the badge is never too high either. *)
BadgeTold == AllIdle /\ "marked" \notin upsets => badge = ArchiveCount

(* The two queries for the message shown of a chat agree on every reachable database: the list as
   a whole (chatlist.rs:118-134) and the item alone (chatlist.rs:435-452); without a draft it is the
   message at the end of the chat. *)
SameLast ==
  /\ \A e \in ArchivedList \cup NormalList : e[2] = GetLastMessageForChat(e[1])
  /\ \A c \in ShownChats : LastVisible(c) # 0 /\ Draft(c) = {} =>
       LastVisible(c) = GetChatMsgs(c)[Len(GetChatMsgs(c))]

(* A labelled device message is in the device chat at most once, unless two calls overlapped or
   the process died between message and label (add_device_msg_with_importance, chat.rs:4941-5034). *)
DeviceOnce ==
  "twice" \notin upsets =>
    Cardinality({i \in DOMAIN shelf : shelf[i].chat = Device /\ shelf[i].mark = 1 /\ shelf[i].state # "gone"}) <= 1

(* No quote of another chat's message leaves for a group, unless the quoted message was deleted
   before or is part of what was forwarded (prepare_send_msg, chat.rs:2707-2720). *)
QuotesStayHome ==
  \A n \in DOMAIN mailed :
    mailed[n].chat \in Groups /\ mailed[n].quote # 0 /\ mailed[n].fwd = 0 =>
      shelf[mailed[n].quote].state \in {"trashed", "gone"} \/ shelf[mailed[n].quote].chat = mailed[n].chat

(* The messages of one forwarding are shown in the order of their originals, which is not the order
   of their ids when mail arrived late (chat.rs:4631-4641). *)
ForwardInOrder ==
  \A i, j \in {n \in DOMAIN shelf : shelf[n].fwd # 0 /\ shelf[shelf[n].fwd].state \in ShownStates} :
    i < j /\ shelf[i].chat = shelf[j].chat /\ shelf[i].mark = shelf[j].mark
      => NotAfter(i, j) /\ NotAfter(shelf[i].fwd, shelf[j].fwd)

(* A saved copy is never unread, and never the copy of a copy: the archive and the badges do not
   count it (save_copy_in_self_talk, chat.rs:4737-4806). *)
SavedQuietly ==
  \A i \in DOMAIN shelf : shelf[i].orig # 0 /\ shelf[i].state # "trashed" =>
    shelf[i].state \in {"seen", "delivered", "gone"} /\ shelf[shelf[i].orig].orig = 0

(* "makes sure, the added message is the last one, even if the date is wrong" (chat.rs:4972-4973):
   a device or info message is the newest of its chat when it is inserted, if nothing was inserted
   since its time was chosen. *)
AtBottom ==
  [][\A k \in Threads :
       /\ task[k].at \in {"device", "info"} /\ task'[k].at # task[k].at
       /\ Len(shelf') = Len(shelf) + 1 /\ task[k].size = Len(shelf)
       /\ Draft(task[k].chat) = {}
       => \A i \in InChat(task[k].chat) : shelf[i].ts <= shelf'[Len(shelf')].ts]_viewVars

\* The device shows what there is: what was sent, what is new, the right numbers, and nothing
\* of one chat in another.
ViewRight ==
    /\ ViewTypeOK /\ SentIsShown /\ NewsNotBuried /\ BadgeRight /\ SameLast
    /\ DeviceOnce /\ QuotesStayHome /\ ForwardInOrder /\ SavedQuietly
=============================================================================
