---------------------------- MODULE Assignment ----------------------------
(* Into which chat a received mail goes, and what that does to the chat. A sender    *)
(* is two contacts: the one its signature names and the one its bare address names. *)
(* A chat is open, a request that waits to be accepted, or blocked; mail creates     *)
(* chats and raises requests, and the user accepts, blocks and deletes them, here    *)
(* or, seen through outgoing mail, on another device.                                *)
EXTENDS Naturals, FiniteSets

CONSTANTS AssignMails,  \* [out, enc, list, grpid, named, many, pair, chatMail, quits, creatable, unmapped, service]
          Bot,          \* whether a bot runs the account
          MaxMails, MaxUserActs

ASSUME AssignAssumption ==
  /\ Bot \in BOOLEAN /\ MaxMails \in Nat /\ MaxUserActs \in Nat
  /\ AssignMails \subseteq [out : BOOLEAN, enc : BOOLEAN, list : BOOLEAN, grpid : BOOLEAN, named : BOOLEAN,
                            many : BOOLEAN, pair : BOOLEAN, chatMail : BOOLEAN, quits : BOOLEAN,
                            creatable : BOOLEAN, unmapped : BOOLEAN, service : BOOLEAN]
  /\ \A m \in AssignMails : ~(m.enc /\ m.grpid /\ ~m.named)

Peers == {"key", "addr"}   \* a contact, and the single chat with it
Chats == Peers \cup {"group", "adhoc", "list", "channel"}
Absent == "none"
Trash == "trash"

VARIABLES blocked,   \* chat -> none, not, request or yes
          shut,      \* the contacts that are blocked
          holds,     \* what mail the chats have: [chat, enc]
          steps,     \* [mails, acts]
          last       \* history: of the last mail, [from, list, wide, chat]; from is "user" after an act of the user

assignVars == <<blocked, shut, holds, steps, last>>

Single(m) == IF m.enc THEN "key" ELSE "addr"
IsEncrypted(c) == c \in {"key", "group", "channel"}
Exists(c) == blocked[c] # Absent
Parents == {h.chat : h \in holds} \cup {Absent}

--------------------------------------------------------------------------------
(* Deciding.                                                                       *)

\* A reply to self alone is private, unless a classical mail answers in a group of two.
IsProbablyPrivateReply(m, parent) ==
  ~m.grpid /\ ~m.many /\ ~(~m.chatMail /\ m.pair /\ parent \in {"group", "adhoc"})
LookupChatByReply(m, parent) ==
  IF \/ parent = Absent
     \/ IsProbablyPrivateReply(m, parent)
     \/ (parent \in Peers /\ m.many)
     \/ (IsEncrypted(parent) /\ ~m.enc)
  THEN Absent ELSE parent
CanBeSingleChat(m) == ~m.many

\* The kind of chat, and for "Existing" the chat itself.
DecideChatAssignment(m, parent) ==
  LET byReply == LookupChatByReply(m, parent)
      existing == [kind |-> "Existing", chat |-> byReply]
      kind(k) == [kind |-> k, chat |-> Absent]
  IN CASE m.service -> kind("Trash")
       [] ~m.service /\ m.list -> kind("MailingListOrBroadcast")
       [] ~m.service /\ ~m.list /\ m.grpid /\ m.enc -> kind("GroupChat")
       [] OTHER -> IF byReply # Absent THEN existing
                   ELSE IF m.grpid \/ m.named \/ ~CanBeSingleChat(m) THEN kind("AdHocGroup") ELSE kind("SingleChat")
\* A single chat needs a key-contact for each recipient of an encrypted mail.
GetToAndPastContactIds(m, a) == IF m.unmapped /\ a.kind = "SingleChat" THEN [a EXCEPT !.kind = "AdHocGroup"] ELSE a

--------------------------------------------------------------------------------
(* Assigning. A result is [chat, state, all]: the chat, the block state the code    *)
(* takes it to have, and the state of all chats.                                   *)

Nowhere == [chat |-> Absent, state |-> "not", all |-> blocked]
Thrown == [chat |-> Trash, state |-> "not", all |-> blocked]
Found(c) == [chat |-> c, state |-> blocked[c], all |-> blocked]
Created(c, s) == [chat |-> c, state |-> s, all |-> [blocked EXCEPT ![c] = s]]

CreateGroup(m, s) == IF m.quits THEN Thrown ELSE Created("group", s)
LookupOrCreateAdhocGroup(m, mayCreate, s) ==
  CASE Exists("adhoc") -> Found("adhoc")
    [] ~Exists("adhoc") /\ mayCreate -> IF m.quits THEN Thrown ELSE Created("adhoc", s)
    [] OTHER -> Nowhere
\* A channel is created open; its sender is told apart by encryption.
CreateOrLookupMailinglist(m, s) ==
  CASE Exists("list") -> Found("list")
    [] ~Exists("list") /\ Exists("channel") -> Found("channel")
    [] ~Exists("list") /\ ~Exists("channel") /\ m.creatable ->
         IF m.enc THEN [Created("channel", "not") EXCEPT !.state = s] ELSE Created("list", s)
    [] OTHER -> Nowhere

CreateBlocked(m) ==
  CASE blocked[Single(m)] = "not" -> "not"
    [] blocked[Single(m)] = "yes" /\ Single(m) \in shut -> "yes"
    [] OTHER -> IF Bot THEN "not" ELSE "request"
ByKindIncoming(m, a) ==
  LET mayCreate == m.creatable \/ Exists(Single(m))
  IN CASE a.kind = "Trash" -> Thrown
       [] a.kind = "GroupChat" -> IF Exists("group") THEN Found("group")
                                  ELSE IF mayCreate THEN CreateGroup(m, CreateBlocked(m)) ELSE Nowhere
       [] a.kind = "MailingListOrBroadcast" -> CreateOrLookupMailinglist(m, CreateBlocked(m))
       [] a.kind = "Existing" -> Found(a.chat)
       [] a.kind = "AdHocGroup" -> LookupOrCreateAdhocGroup(m, mayCreate, CreateBlocked(m))
       [] a.kind = "SingleChat" -> Nowhere
\* A chat that is blocked though the sender is not rises to what a new chat would be; a mailing list does not.
UnblockFound(m, a, r) ==
  IF r.chat \in Chats /\ r.state # "not" /\ CreateBlocked(m) # "yes" /\ a.kind # "MailingListOrBroadcast"
  THEN [r EXCEPT !.state = CreateBlocked(m), !.all[r.chat] = CreateBlocked(m)] ELSE r
\* Mutant: a new single chat is a request even if its contact is blocked.
BugToSingleChat(m) ==
  CASE blocked[Single(m)] = "not" -> Found(Single(m))
    [] blocked[Single(m)] # "not" /\ (Exists(Single(m)) \/ m.creatable) -> Created(Single(m), "request")
    [] OTHER -> Thrown
ToSingleChat(m) ==
  LET state == IF Single(m) \in shut THEN "yes" ELSE IF Bot THEN "not" ELSE "request"
  IN CASE blocked[Single(m)] = "not" -> Found(Single(m))
       [] blocked[Single(m)] # "not" /\ (Exists(Single(m)) \/ m.creatable) -> Created(Single(m), state)
       [] OTHER -> Thrown
AssignIncoming(m, a) ==
  LET r == UnblockFound(m, a, ByKindIncoming(m, a)) IN IF r.chat = Absent THEN ToSingleChat(m) ELSE r

ByKindOutgoing(m, a) ==
  CASE a.kind = "Trash" -> Thrown
    [] a.kind = "GroupChat" -> IF Exists("group") THEN Found("group") ELSE IF m.creatable THEN CreateGroup(m, "not") ELSE Nowhere
    [] a.kind = "MailingListOrBroadcast" ->
         IF Exists("list") THEN [Found("list") EXCEPT !.state = "not"] ELSE Nowhere
    [] a.kind = "Existing" -> Found(a.chat)
    [] a.kind = "AdHocGroup" -> LookupOrCreateAdhocGroup(m, m.creatable, "not")
    [] a.kind = "SingleChat" -> Nowhere
\* What the user wrote to is open.
AssignOutgoing(m, a) ==
  LET r == ByKindOutgoing(m, a)
      s == IF r.chat # Absent THEN r
           ELSE IF Exists(Single(m)) /\ (m.creatable \/ m.chatMail) THEN Found(Single(m))
           ELSE IF m.creatable THEN Created(Single(m), "not") ELSE Thrown
  IN IF s.chat \in Chats /\ s.state # "not" THEN [s EXCEPT !.state = "not", !.all[s.chat] = "not"] ELSE s

\* Only its owner, whom a signature names, writes in a channel; other mail goes to its sender's single chat.
AddParts(m, r) ==
  IF ~m.out /\ r.chat = "channel" /\ ~m.enc
  THEN IF r.all["addr"] # Absent THEN [r EXCEPT !.chat = "addr"] ELSE [r EXCEPT !.chat = "addr", !.all["addr"] = "request"]
  ELSE r

ReceiveMail(m, parent) ==
  /\ steps.mails < MaxMails /\ steps' = [steps EXCEPT !.mails = @ + 1]
  /\ \E a \in {GetToAndPastContactIds(m, DecideChatAssignment(m, parent))} :
       \E r \in {AddParts(m, IF m.out THEN AssignOutgoing(m, a) ELSE AssignIncoming(m, a))} :
         /\ blocked' = r.all
         /\ holds' = IF r.chat = Trash THEN holds
                     ELSE holds \cup {[chat |-> r.chat, enc |-> m.enc]}
         /\ last' = [from |-> IF m.out THEN "self" ELSE Single(m), list |-> m.list,
                     wide |-> m.many \/ m.grpid, chat |-> r.chat]
  /\ UNCHANGED shut

--------------------------------------------------------------------------------
(* The user.                                                                       *)

UserAct(c) ==
  /\ steps.acts < MaxUserActs /\ steps' = [steps EXCEPT !.acts = @ + 1]
  /\ last' = [from |-> "user", list |-> FALSE, wide |-> FALSE, chat |-> c]

SetContactBlocked(c, new) ==
  /\ UserAct(c) /\ (c \in shut) # new
  /\ shut' = IF new THEN shut \cup {c} ELSE shut \ {c}
  /\ blocked' = IF Exists(c) THEN [blocked EXCEPT ![c] = IF new THEN "yes" ELSE "not"] ELSE blocked
  /\ UNCHANGED holds
AcceptChat(c) ==
  /\ UserAct(c) /\ blocked[c] \in {"request", "yes"}
  /\ blocked' = [blocked EXCEPT ![c] = "not"]
  /\ UNCHANGED <<shut, holds>>
DeleteChat(c) ==
  /\ UserAct(c) /\ Exists(c)
  /\ blocked' = [blocked EXCEPT ![c] = Absent] /\ holds' = {h \in holds : h.chat # c}
  /\ UNCHANGED shut
\* Groups cannot be blocked and are deleted; a single chat is blocked with its contact.
BlockChat(c) ==
  CASE c \in Peers -> SetContactBlocked(c, TRUE)
    [] c \in {"group", "adhoc"} -> DeleteChat(c)
    [] OTHER -> /\ UserAct(c) /\ blocked[c] \in {"not", "request"}
                /\ blocked' = [blocked EXCEPT ![c] = "yes"]
                /\ UNCHANGED <<shut, holds>>
CreateForContact(c) ==
  /\ UserAct(c) /\ blocked[c] # "not"
  /\ blocked' = [blocked EXCEPT ![c] = "not"]
  /\ UNCHANGED <<shut, holds>>
\* Scanning a group's invitation hides the single chat with the inviter until it is used.
ScanInvite ==
  /\ UserAct("key") /\ ~Exists("key")
  /\ blocked' = [blocked EXCEPT !["key"] = "yes"]
  /\ UNCHANGED <<shut, holds>>

--------------------------------------------------------------------------------
AssignInit ==
  /\ blocked = [c \in Chats |-> Absent] /\ shut = {} /\ holds = {}
  /\ steps = [mails |-> 0, acts |-> 0] /\ last = [from |-> "user", list |-> FALSE, wide |-> FALSE, chat |-> Absent]
\* One's own mail comes back from a mailing list, never from somebody else's channel.
AssignNext ==
  \/ \E m \in AssignMails, p \in Parents : (m.out /\ m.list => ~Exists("channel")) /\ ReceiveMail(m, p)
  \/ \E c \in Peers : SetContactBlocked(c, FALSE) \/ CreateForContact(c)
  \/ \E c \in Chats : AcceptChat(c) \/ BlockChat(c) \/ DeleteChat(c)
  \/ ScanInvite

AssignSpec == AssignInit /\ [][AssignNext]_assignVars

--------------------------------------------------------------------------------
AssignTypeOK ==
  /\ blocked \in [Chats -> {Absent, "not", "request", "yes"}] /\ shut \subseteq Peers
  /\ holds \subseteq [chat : Chats, enc : BOOLEAN] /\ last.from \in Peers \cup {"self", "user"}
  /\ \A h \in holds : Exists(h.chat)

\* Mail in the clear is never shown in a chat that says its messages are encrypted, whatever it replies to
\* (lookup_chat_by_reply, add_parts).
NoPlainInEncrypted == \A h \in holds : IsEncrypted(h.chat) => h.enc

\* No chat but a channel opens by itself: the user accepts, opens or unblocks it, or writes to it on another
\* device, or has opened the sender's single chat before (do_chat_assignment).
OnlyByUser ==
  [][Bot \/ \A c \in Chats \ {"channel"} : (blocked[c] # "not" /\ blocked'[c] = "not")
        => \/ last'.from \in {"user", "self"} /\ last'.chat = c
           \/ last'.from \in Peers /\ blocked[last'.from] = "not"]_assignVars

\* Mail of a contact that is blocked together with its single chat makes no chat appear (do_chat_assignment: "User
\* has blocked the contact. Block the group contact created as well.").
ShutOut ==
  [][\A c \in Chats \ {"channel"} :
       (last'.from \in shut /\ blocked[last'.from] = "yes") => blocked'[c] \in {blocked[c], "yes"}]_assignVars

\* The same of every blocked contact, whether or not it has a single chat.
ShutOutAlways ==
  [][\A c \in Chats \ {"channel"} : last'.from \in shut => blocked'[c] \in {blocked[c], "yes"}]_assignVars

\* A blocked mailing list or channel stays blocked, whoever writes to it, until the user opens it; only a reply
\* sent around the list, to others or to a group, raises it (block_ext, do_chat_assignment).
ListsStayBlocked ==
  [][\A c \in {"list", "channel"} : (blocked[c] = "yes" /\ blocked'[c] \notin {"yes", Absent})
       => (last'.from \in {"user", "self"} \/ (~last'.list /\ last'.wide))]_assignVars

\* Mails come to the chats they belong to: none in clear to an encrypted chat, and only the
\* user brings back what was blocked or deleted.
AssignSafe == [](AssignTypeOK /\ NoPlainInEncrypted) /\ OnlyByUser /\ ShutOut /\ ListsStayBlocked
==========================================================================
