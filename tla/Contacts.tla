------------------------------- MODULE Contacts ------------------------------
(***************************************************************************)
(* Contacts (contact.rs) and their one-to-one chats on two devices of one  *)
(* user: how names, addresses and origins of several sources are merged,   *)
(* who vouches for whom, blocking, and the changes one device repeats to   *)
(* the other (SyncData::AlterChat in chat.rs).                             *)
(***************************************************************************)
EXTENDS Integers, Sequences, SequencesExt, FiniteSets

CONSTANTS
    ByKey,     \* contacts with a fingerprint
    ByAddress,    \* contacts that are an address only
    ContactThemes    \* what may happen in a run: records [ops, phones, budget]

ASSUME IsFiniteSet(ByKey) /\ IsFiniteSet(ByAddress) /\ ByKey \cap ByAddress = {}

ContactSet == ByKey \cup ByAddress
Phones == {1, 2}
\* Origin, those that behave differently, in their order.
Hidden == 8
IncomingUnknownFrom == 16
UnhandledQrScan == 128
CreateChat == 2048
AddressBook == 524288
ManuallyCreated == 67108864
Origins == {Hidden, IncomingUnknownFrom, UnhandledQrScan, CreateChat, AddressBook, ManuallyCreated}

Unverified == "undefined"
Myself == "self"
NoName == ""
\* Names a contact gives itself, and names the user gives it.
WireNames == {"Alice"}
PetNames == {"Mama"}
NoAddress == ""
Addresses == {"old", "new"}

NoContact == [exists |-> FALSE, name |-> NoName, authname |-> NoName, addr |-> NoAddress, origin |-> 0,
              blocked |-> FALSE, verifier |-> Unverified, chat |-> "none", title |-> NoName,
              visibility |-> "Normal", muted |-> FALSE, grouped |-> FALSE]

VARIABLES
    theme,      \* operations possible and left
    book,       \* phone -> contact -> its row and its one-to-one chat
    outbox,     \* phone -> changes under way to the other phone
    acted,      \* history: phones that changed something
    lapses      \* history: changes the code does not repeat to the other phone

contactVars == <<theme, book, outbox, acted, lapses>>

OtherPhone(d) == 3 - d

\* get_display_name
DisplayName(c) == IF c.name # NoName THEN c.name ELSE IF c.authname # NoName THEN c.authname ELSE c.addr

-----------------------------------------------------------------------------
(* add_or_lookup_ext                                                       *)

\* Names that must not go out to others.
IsManual(origin) == origin \in {ManuallyCreated, AddressBook, UnhandledQrScan}

\* update_chat_names
Retitled(c) == [c EXCEPT !.title = IF c.chat = "none" THEN @ ELSE DisplayName(c)]

\* What becomes of a row when a name and an address of some origin are seen.
Merged(c, name, addr, origin) ==
    IF ~c.exists
    THEN [NoContact EXCEPT !.exists = TRUE, !.addr = addr, !.origin = origin,
                           !.name = IF IsManual(origin) THEN name ELSE NoName,
                           !.authname = IF IsManual(origin) THEN NoName ELSE name]
    ELSE LET updateName == IsManual(origin) /\ name # c.name
             updateAuth == /\ ~IsManual(origin) /\ name \notin {c.authname, NoName}
                           /\ (origin >= c.origin \/ origin = IncomingUnknownFrom \/ c.authname = NoName)
             new == [c EXCEPT !.name = IF updateName THEN name ELSE @,
                              !.authname = IF updateAuth THEN name ELSE @,
                              !.addr = IF origin >= c.origin THEN addr ELSE @,
                              !.origin = IF origin > @ THEN origin ELSE @]
         IN  IF updateName \/ updateAuth THEN Retitled(new) ELSE new

\* set_name_ext
Renamed(c, name) == IF c.name = name THEN c ELSE Retitled([c EXCEPT !.name = name])

\* contact::set_blocked, with the one-to-one chat
SetContactBlocked(c, b) ==
    IF c.blocked = b THEN c
    ELSE [c EXCEPT !.blocked = b, !.chat = IF @ = "none" THEN @ ELSE IF b THEN "Yes" ELSE "Not"]

\* ChatIdBlocked::get_for_contact
WithChat(c, blocked) ==
    IF c.chat # "none" THEN c ELSE [c EXCEPT !.chat = blocked, !.title = DisplayName(c)]

ScaleUp(c, origin) == [c EXCEPT !.origin = IF origin > @ THEN origin ELSE @]

-----------------------------------------------------------------------------
(* One phone                                                               *)

May(d, op) ==
    /\ op \in theme.ops /\ d \in theme.phones /\ theme.budget > 0
    /\ theme' = [theme EXCEPT !.budget = @ - 1]

Change(d, k, c) == book' = [book EXCEPT ![d][k] = c]
Repeat(d, k, act, arg) == outbox' = [outbox EXCEPT ![OtherPhone(d)] = Append(@, [of |-> k, act |-> act, arg |-> arg])]
Acts(d) == acted' = acted \cup {d}

\* A mail from the contact arrives; it is a request if the contact is not known.
MailFrom(d, k, name, addr) ==
    /\ May(d, "mail") /\ (k \in ByAddress => addr = "old")
    /\ LET c == Merged(book[d][k], name, addr, IncomingUnknownFrom)
       IN  Change(d, k, IF c.blocked THEN c ELSE WithChat(c, "Request"))
    /\ UNCHANGED <<outbox, acted, lapses>>

\* import_vcard_contact, add_address_book, a scanned address
Import(d, k, name, origin) ==
    /\ May(d, "import") /\ (origin = AddressBook => k \in ByAddress)
    /\ Change(d, k, Merged(book[d][k], name, IF book[d][k].addr = NoAddress THEN "old" ELSE book[d][k].addr, origin))
    /\ lapses' = lapses \cup {"import"} /\ UNCHANGED <<outbox, acted>>

\* Contact::create: by hand, unblocking it; only a change of the row is repeated.
CreateContact(d, k, name) ==
    /\ May(d, "create") /\ k \in ByAddress /\ Acts(d)
    /\ LET old == book[d][k]
           c == Merged(old, name, "old", ManuallyCreated)
       IN  /\ Change(d, k, SetContactBlocked(c, FALSE))
           /\ IF c # old THEN Repeat(d, k, "rename", name) ELSE UNCHANGED outbox
           /\ lapses' = IF c = old /\ old.blocked THEN lapses \cup {"create"} ELSE lapses

SetName(d, k, name) ==
    /\ May(d, "name") /\ book[d][k].exists /\ Acts(d)
    /\ Change(d, k, Renamed(book[d][k], name))
    /\ IF book[d][k].name # name THEN Repeat(d, k, "rename", name) ELSE UNCHANGED outbox
    /\ lapses' = IF k \in ByAddress /\ book[d][k].blocked THEN lapses \cup {"rename"} ELSE lapses

\* Contact::block and unblock
BlockContact(d, k, b) ==
    /\ May(d, "block") /\ book[d][k].exists /\ Acts(d)
    /\ Change(d, k, SetContactBlocked(book[d][k], b))
    /\ IF book[d][k].blocked # b THEN Repeat(d, k, "blocked", b) ELSE UNCHANGED outbox
    /\ UNCHANGED lapses

\* ChatId::unblock: the chat alone here, the contact on the other phone.
UnblockChat(d, k) ==
    /\ May(d, "unblock chat") /\ book[d][k].chat # "none" /\ Acts(d)
    /\ Change(d, k, [book[d][k] EXCEPT !.chat = "Not"])
    /\ Repeat(d, k, "blocked", FALSE)
    /\ lapses' = lapses \cup {"unblock chat"}

\* ChatId::create_for_contact
OpenChat(d, k) ==
    /\ May(d, "open") /\ book[d][k].exists
    /\ LET c == book[d][k] IN
       Change(d, k, IF c.chat # "none" THEN [c EXCEPT !.chat = "Not"] ELSE ScaleUp(WithChat(c, "Not"), CreateChat))
    /\ Acts(d) /\ lapses' = lapses \cup {"open"}
    /\ UNCHANGED outbox

AcceptChat(d, k) ==
    /\ May(d, "accept") /\ book[d][k].chat # "none" /\ Acts(d)
    /\ Change(d, k, [ScaleUp(book[d][k], CreateChat) EXCEPT !.chat = "Not"])
    /\ Repeat(d, k, "accept", TRUE)
    /\ lapses' = IF book[d][k].blocked THEN lapses \cup {"accept"} ELSE lapses

\* set_visibility and set_muted
SetVisibility(d, k, v) ==
    /\ May(d, "visibility") /\ book[d][k].chat # "none" /\ Acts(d)
    /\ Change(d, k, [book[d][k] EXCEPT !.visibility = v])
    /\ Repeat(d, k, "visibility", v)
    /\ UNCHANGED lapses

SetMuted(d, k, m) ==
    /\ May(d, "mute") /\ book[d][k].chat # "none" /\ Acts(d)
    /\ Change(d, k, [book[d][k] EXCEPT !.muted = m])
    /\ Repeat(d, k, "muted", m)
    /\ UNCHANGED lapses

\* Contact::delete hides a contact that has a chat; this is not repeated.
DeleteContact(d, k) ==
    /\ May(d, "delete") /\ book[d][k].exists
    /\ Change(d, k, IF book[d][k].chat = "none" /\ ~book[d][k].grouped THEN NoContact
                    ELSE [book[d][k] EXCEPT !.origin = Hidden])
    /\ lapses' = lapses \cup {"delete"}
    /\ Acts(d) /\ UNCHANGED outbox

\* The contact is in a group.
JoinGroup(d, k) ==
    /\ May(d, "group") /\ k \in ByKey /\ ~book[d][k].grouped
    /\ Change(d, k, [Merged(book[d][k], NoName, "old", Hidden) EXCEPT !.grouped = TRUE])
    /\ UNCHANGED <<outbox, acted, lapses>>

-----------------------------------------------------------------------------
(* Verification                                                            *)

\* What mark_contact_id_as_verified writes: a verifier whose own verifier is not known is
\* not named.
Verified(d, k, by) ==
    LET v == IF by = "nobody" \/ (by # Myself /\ book[d][by].verifier = by) THEN k ELSE by
    IN  [book[d][k] EXCEPT !.verifier = IF by = Myself \/ @ \in {Unverified, k} THEN v ELSE @]

\* mark_contact_id_as_verified: by oneself (SecureJoin), by a verified contact that gossips
\* the key, or by somebody unknown (one's other device).
Verify(d, k, by) ==
    /\ May(d, "verify") /\ k \in ByKey /\ book[d][k].exists /\ by # k
    /\ by \in ByKey => book[d][by].exists /\ book[d][by].verifier # Unverified
    /\ Change(d, k, Verified(d, k, by))
    /\ UNCHANGED <<outbox, acted, lapses>>

-----------------------------------------------------------------------------
(* sync_alter_chat                                                         *)

\* The contact a change is about, created hidden if need be; by its fingerprint without
\* an address.
Found(d, k) == Merged(book[d][k], NoName, IF k \in ByKey THEN NoAddress ELSE "old", Hidden)

BugApplied(d, item) ==
    CASE item.act = "rename" -> Renamed(Found(d, item.of), item.arg)
      [] item.act = "blocked" -> [Found(d, item.of) EXCEPT !.chat = IF @ = "none" THEN @ ELSE IF item.arg THEN "Yes" ELSE "Not"]
      [] OTHER -> WithChat(Found(d, item.of), "Yes")

Applied(d, item) ==
    LET c == Found(d, item.of)
        chat == WithChat(c, "Yes")
    IN  CASE item.act = "rename" /\ item.of \in ByAddress ->
                 SetContactBlocked(Merged(book[d][item.of], item.arg, "old", ManuallyCreated), FALSE)
          [] item.act = "rename" /\ item.of \notin ByAddress -> Renamed(c, item.arg)
          [] item.act = "blocked" -> SetContactBlocked(c, item.arg)
          [] item.act = "accept" -> [ScaleUp(chat, CreateChat) EXCEPT !.chat = "Not"]
          [] item.act = "visibility" -> [chat EXCEPT !.visibility = item.arg]
          [] OTHER -> [chat EXCEPT !.muted = item.arg]

SyncArrives(d) ==
    /\ outbox[d] # << >>
    /\ Change(d, Head(outbox[d]).of, Applied(d, Head(outbox[d])))
    /\ outbox' = [outbox EXCEPT ![d] = Tail(@)]
    /\ UNCHANGED <<theme, acted, lapses>>

-----------------------------------------------------------------------------

ContactsInit ==
    /\ theme \in ContactThemes
    /\ book = [d \in Phones |-> [k \in ContactSet |-> NoContact]]
    /\ outbox = [d \in Phones |-> << >>] /\ acted = {} /\ lapses = {}

ContactsNext ==
    \/ \E d \in Phones : SyncArrives(d)
    \/ \E d \in Phones, k \in ContactSet :
          \/ \E n \in WireNames \cup {NoName}, a \in Addresses : MailFrom(d, k, n, a)
          \/ \E n \in WireNames : Import(d, k, n, CreateChat)
          \/ \E n \in PetNames, o \in {AddressBook, UnhandledQrScan} : Import(d, k, n, o)
          \/ \E n \in PetNames \cup {NoName} : CreateContact(d, k, n) \/ SetName(d, k, n)
          \/ \E b \in BOOLEAN : BlockContact(d, k, b) \/ SetMuted(d, k, b)
          \/ UnblockChat(d, k) \/ OpenChat(d, k) \/ AcceptChat(d, k)
          \/ \E v \in {"Normal", "Archived", "Pinned"} : SetVisibility(d, k, v)
          \/ DeleteContact(d, k) \/ JoinGroup(d, k)
          \/ \E by \in ByKey \cup {Myself, "nobody"} : Verify(d, k, by)

ContactsSpec == ContactsInit /\ [][ContactsNext]_contactVars

-----------------------------------------------------------------------------
(* Properties                                                              *)

ContactsTypeOK ==
    \A d \in Phones, k \in ContactSet :
        LET c == book[d][k] IN
        /\ c.origin \in Origins \cup {0} /\ c.chat \in {"none", "Not", "Request", "Yes"}
        /\ c.verifier \in ContactSet \cup {Unverified, Myself} /\ c.addr \in Addresses \cup {NoAddress}

\* A name the user gave a contact is never kept as one that goes out to others.
PetNamesStayHome == \A d \in Phones, k \in ContactSet : book[d][k].authname \notin PetNames

\* Whoever vouches for a contact is vouched for in turn, up to oneself or to somebody
\* unknown: no two contacts vouch for each other.
Step(d, k) == IF k \in ByKey THEN book[d][k].verifier ELSE k
NoCircles ==
    \A d \in Phones : \A k \in ByKey :
        LET up == Step(d, k)
        IN  up \in ByKey \ {k} => Step(d, up) # k /\ Step(d, up) # up

\* A blocked contact's chat is blocked too, unless the user opened, accepted or unblocked
\* the chat alone, on either phone.
ChatBlockedWithContact ==
    \A d \in Phones, k \in ContactSet :
        lapses \cap {"open", "unblock chat", "accept"} = {} /\ book[d][k].blocked => book[d][k].chat \in {"none", "Yes"}

\* When all changes have arrived and one phone made them all, both phones have the same
\* names, blocks and chat settings.
PhonesAgree ==
    Cardinality(acted) <= 1 /\ lapses = {} /\ (\A d \in Phones : outbox[d] = << >>) =>
        \A k \in ContactSet :
            LET x == book[1][k] y == book[2][k] IN
            /\ x.name = y.name
            /\ x.blocked = y.blocked
            /\ x.visibility = y.visibility /\ x.muted = y.muted

\* A chat has the name of its contact, which is kept twice.  It fails when the address of
\* a contact without a name changes.
TitleIsName ==
    \A d \in Phones, k \in ContactSet : book[d][k].chat # "none" => book[d][k].title = DisplayName(book[d][k])

\* A contact whose address is known keeps one.  It fails when the other phone changes
\* something about a contact that is hidden here: it is looked up without an address,
\* which is taken for news.
AddressKept ==
    [][\A d \in Phones, k \in ContactSet :
          book[d][k].addr # NoAddress /\ book'[d][k].exists => book'[d][k].addr # NoAddress]_contactVars

\* The address book is sound: names the user gave stay on his devices, verification has no
\* circles, chats are blocked with their contacts, and his devices end up with the same book.
ContactsSafe == ContactsTypeOK /\ PetNamesStayHome /\ NoCircles /\ ChatBlockedWithContact /\ PhonesAgree
=============================================================================
