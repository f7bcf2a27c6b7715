---------------------------- MODULE KeyContacts ----------------------------
(* Migration 132: contacts known by their address become contacts known by their   *)
(* key, the members of every chat are moved to them, and housekeeping rewrites the  *)
(* senders of the old messages, batch by batch. The migration is one transaction.  *)
EXTENDS Naturals, FiniteSets, FiniteSetsExt, Sequences, Functions, TLC

CONSTANTS RewriteBatch,   \* msgs_to_migrate
          MaxNewMsgs      \* bound on messages that arrive while old ones are rewritten

ASSUME RewriteBatch \in Nat \ {0} /\ MaxNewMsgs \in Nat

VARIABLES people,    \* id -> [addr, fpr, verifier, hidden]; ids up to 12 are address-contacts
          chat,        \* [kind, grpid, protected, members: id -> [present, added]]
          peers,       \* acpeerstates by contact id, before the migration
          order,       \* the contacts by their peerstates' last_seen, newest first
          chatmail,    \* is_chatmail
          keyMap,      \* key_contacts_map
          mails,        \* <<[from, enc, real]>>, by id; real: chat_id > 9
          firstKeyMsg, \* first_key_contacts_msg_id
          migrated,
          before       \* history: the chat's members before the migration

keyVars == <<people, chat, peers, order, chatmail, keyMap, mails, firstKeyMsg, migrated, before>>

SelfId == 1
Old == 10..12          \* 12 has no peerstate
NoFpr == "none"
OldKeys == {"k1", "k2", "k3"}

\* Peerstates: an Autocrypt key, perhaps a verified key with its verifier ("own" address, an old
\* contact, or 0 for an unknown one), perhaps a secondary one; or no peerstate at all.
NoPeer == [ac |-> NoFpr, ver |-> NoFpr, sec |-> NoFpr, verifier |-> 0, reset |-> FALSE]
Peerstates(acs, secs, verifiers) ==
  {NoPeer} \cup {[NoPeer EXCEPT !.ac = a, !.reset = r] : a \in acs, r \in BOOLEAN}
  \cup {[ac |-> a, ver |-> v, sec |-> s, verifier |-> w, reset |-> r] :
          a \in acs, v \in {"k1", "k2"}, s \in secs, w \in verifiers, r \in BOOLEAN}

Member(p, t) == [present |-> p, added |-> t]
Chats ==
  {[kind |-> "single", grpid |-> FALSE, protected |-> p, members |-> 10 :> Member(TRUE, 1)] : p \in BOOLEAN}
  \cup {[kind |-> k, grpid |-> TRUE, protected |-> p, members |-> 10 :> Member(x, t) @@ 11 :> Member(y, 2)] :
          k \in {"group"}, p \in BOOLEAN, x \in BOOLEAN, y \in BOOLEAN, t \in {1, 3}}
  \cup {[kind |-> k, grpid |-> k = "broadcast", protected |-> FALSE, members |-> 11 :> Member(TRUE, 1) @@ 12 :> Member(TRUE, 2)] :
          k \in {"group", "list", "broadcast"}}

PeerTables ==
  {10 :> p @@ 11 :> q @@ 12 :> NoPeer : p \in Peerstates({"k1"}, {NoFpr}, {10, 11}),
                                        q \in Peerstates({"k1", "k2"}, {NoFpr, "k3"}, {0, 12})}

KeyInit ==
  /\ people = [c \in Old |-> [addr |-> c, fpr |-> NoFpr, verifier |-> 0, hidden |-> FALSE]]
  /\ peers \in PeerTables
  /\ chat \in Chats /\ chatmail \in {FALSE, \E c \in Old : peers[c].reset} /\ order \in {<<10, 11>>, <<11, 10>>}
  /\ mails = << [from |-> 10, enc |-> TRUE, real |-> TRUE], [from |-> 11, enc |-> FALSE, real |-> TRUE],
               [from |-> 11, enc |-> TRUE, real |-> TRUE], [from |-> 10, enc |-> TRUE, real |-> FALSE] >>
  /\ keyMap = <<>> /\ firstKeyMsg = 0 /\ migrated = FALSE /\ before = chat

--------------------------------------------------------------------------------
(* Step 2: up to three key-contacts for each address-contact.                     *)

\* The secondary verified key is read from column 12, which holds the verified key again.
SecondaryKey(p) == p.ver
\* The keys of a peerstate, in the order their contacts are inserted; nothing without the Autocrypt key.
KeysInOrder(c) ==
  LET p == peers[c]
  IN IF p.ac = NoFpr THEN <<>>
     ELSE IF p.ver = NoFpr \/ SecondaryKey(p) = NoFpr THEN SelectSeq(<<p.ac, p.ver>>, LAMBDA k : k # NoFpr)
     ELSE <<p.ac, p.ver, SecondaryKey(p)>>
Inserted == KeysInOrder(order[1]) \o KeysInOrder(order[2])
NewKeys == {Inserted[i] : i \in DOMAIN Inserted}
\* insert_contact: the contact that has the key already, or a new one.
FirstWith(k) == Min({i \in DOMAIN Inserted : Inserted[i] = k})
InsertContact == [k \in NewKeys |-> 13 + Cardinality({l \in NewKeys : FirstWith(l) < FirstWith(k)})]
\* It has the address of the contact whose peerstate came first.
AddrOfOld(k) == IF FirstWith(k) <= Len(KeysInOrder(order[1])) THEN order[1] ELSE order[2]

WithPeer == {c \in Old : peers[c].ac # NoFpr}
AutocryptContacts(id) == [c \in {d \in WithPeer : ~peers[d].reset} |-> id[peers[c].ac]]
ResetContacts(id) == [c \in {d \in WithPeer : peers[d].reset} |-> id[peers[c].ac]]
VerifiedContacts(id) == [c \in {d \in WithPeer : peers[d].ver # NoFpr} |-> id[peers[c].ver]]

\* original_contact_id_from_addr: oneself, an old contact, or the contact itself for an unknown one.
VerifierId(c, new) ==
  LET w == peers[c].verifier IN IF w = c THEN SelfId ELSE IF w = 0 THEN new ELSE w
\* The peerstate read last decides who verified a key. A secondary key adds no entry of its own
\* here: its contact is the verified one, which has an entry (or_insert).
Verification(id, k) ==
  LET by == {i \in 1..2 : order[i] \in DOMAIN VerifiedContacts(id) /\ peers[order[i]].ver = k}
  IN IF by = {} THEN 0 ELSE VerifierId(order[Max(by)], id[k])

\* A verifier who has no key-contact leaves the key unverified.
VerifierOf(id, k) ==
  LET w == Verification(id, k)
  IN IF w \in {0, SelfId, id[k]} THEN w
     ELSE IF w \in DOMAIN VerifiedContacts(id) THEN VerifiedContacts(id)[w] ELSE 0

--------------------------------------------------------------------------------
(* Step 3: the members of the chat.                                               *)

BroadcastContact(id, m) == IF m \in WithPeer THEN id[peers[m].ac] ELSE 0
\* A reset peerstate counts only on chatmail servers, which refuse what is not encrypted.
MapToKeyContact(id, m) == IF m \in DOMAIN AutocryptContacts(id) \/ chatmail THEN BroadcastContact(id, m) ELSE 0
NewMember(id, m) ==
  CASE chat.kind = "broadcast" -> BroadcastContact(id, m)
    [] chat.kind = "group" /\ chat.protected -> IF m \in DOMAIN VerifiedContacts(id) THEN VerifiedContacts(id)[m] ELSE 0
    [] OTHER -> MapToKeyContact(id, m)

Downgrades(id) == chat.kind = "group" /\ \E m \in DOMAIN chat.members : chat.members[m].present /\ NewMember(id, m) = 0
KeepsAddresses(id) ==
  \/ chat.kind = "list" \/ (chat.kind = "group" /\ ~chat.grpid) \/ Downgrades(id)
  \/ /\ chat.kind = "single"
     /\ (NewMember(id, 10) = 0 \/ AddrOfOld(peers[10].ac) # 10)

\* chats_contacts is UNIQUE: of two members with one key, the one who left, or was added first, goes.
Weaker(a, b) == IF a.present # b.present THEN ~a.present ELSE a.added < b.added

MoveMember(ms, old, new) ==
  IF new = 0 THEN Restrict(ms, DOMAIN ms \ {old})
  ELSE IF new \notin DOMAIN ms \/ Weaker(ms[new], ms[old])
    THEN (new :> ms[old]) @@ Restrict(ms, DOMAIN ms \ {old})
  ELSE Restrict(ms, DOMAIN ms \ {old})
MovedMembers(id) ==
  LET a == Min(DOMAIN chat.members)
      b == Max(DOMAIN chat.members)
      first == MoveMember(chat.members, a, NewMember(id, a))
  IN IF a = b THEN first ELSE MoveMember(first, b, NewMember(id, b))

MigratedChat(id) ==
  IF KeepsAddresses(id) THEN [chat EXCEPT !.protected = FALSE, !.grpid = @ /\ ~Downgrades(id)]
  ELSE [chat EXCEPT !.members = MovedMembers(id)]

\* orphaned_contacts: whoever no chat has kept as a member or become one of.
Kept(id) ==
  IF KeepsAddresses(id) THEN DOMAIN chat.members ELSE {NewMember(id, m) : m \in DOMAIN chat.members}

NewContact(id, k) ==
  [addr |-> AddrOfOld(k), fpr |-> k, verifier |-> VerifierOf(id, k), hidden |-> id[k] \notin Kept(id)]

\* Steps 1 to 5, in the transaction that writes version 132.
MigrateKeyContacts ==
  /\ ~migrated /\ migrated' = TRUE
  /\ \E id \in {InsertContact} :
      /\ people' = [c \in Old |-> [people[c] EXCEPT !.hidden = c \notin Kept(id)]]
                     @@ [c \in Range(id) |-> NewContact(id, CHOOSE k \in DOMAIN id : id[k] = c)]
      /\ chat' = MigratedChat(id)
      /\ keyMap' = AutocryptContacts(id) @@ ResetContacts(id)
  /\ firstKeyMsg' = Len(mails) + 1
  /\ UNCHANGED <<peers, order, chatmail, mails, before>>

--------------------------------------------------------------------------------
(* msgs_to_key_contacts, which housekeeping calls.                                *)

MapId(c) == IF c \in DOMAIN keyMap THEN keyMap[c] ELSE c
BatchStart == IF firstKeyMsg > RewriteBatch THEN firstKeyMsg - RewriteBatch ELSE 0

BugRewriteMsgs ==   \* mutant: the bound is moved past a message that was not rewritten
  /\ migrated /\ firstKeyMsg > 0 /\ firstKeyMsg' = BatchStart
  /\ mails' = [i \in DOMAIN mails |->
                IF i > BatchStart /\ i < firstKeyMsg /\ mails[i].enc /\ mails[i].real
                  THEN [mails[i] EXCEPT !.from = MapId(@)] ELSE mails[i]]
  /\ UNCHANGED <<people, chat, peers, order, chatmail, keyMap, migrated, before>>

BugStuckMsgs ==   \* mutant: a batch without encrypted messages does not move the bound
  /\ migrated /\ firstKeyMsg > 0
  /\ firstKeyMsg' = IF \E i \in DOMAIN mails : i >= BatchStart /\ i < firstKeyMsg /\ mails[i].enc /\ mails[i].real
                      THEN BatchStart ELSE firstKeyMsg
  /\ mails' = [i \in DOMAIN mails |->
                IF i >= BatchStart /\ i < firstKeyMsg /\ mails[i].enc /\ mails[i].real
                  THEN [mails[i] EXCEPT !.from = MapId(@)] ELSE mails[i]]
  /\ UNCHANGED <<people, chat, peers, order, chatmail, keyMap, migrated, before>>

RewriteMsgs ==
  /\ migrated /\ firstKeyMsg > 0 /\ firstKeyMsg' = BatchStart
  /\ mails' = [i \in DOMAIN mails |->
                IF i >= BatchStart /\ i < firstKeyMsg /\ mails[i].enc /\ mails[i].real
                  THEN [mails[i] EXCEPT !.from = MapId(@)] ELSE mails[i]]
  /\ UNCHANGED <<people, chat, peers, order, chatmail, keyMap, migrated, before>>

\* A new message comes from a key-contact if it is encrypted, from an address-contact otherwise.
NewMsg ==
  /\ migrated /\ Len(mails) < 4 + MaxNewMsgs
  /\ \E c \in DOMAIN chat.members :
       mails' = Append(mails, [from |-> c, enc |-> people[c].fpr # NoFpr, real |-> TRUE])
  /\ UNCHANGED <<people, chat, peers, order, chatmail, keyMap, firstKeyMsg, migrated, before>>

KeyNext == MigrateKeyContacts \/ RewriteMsgs \/ NewMsg
KeyFair == WF_keyVars(MigrateKeyContacts) /\ WF_keyVars(RewriteMsgs)
KeySpec == KeyInit /\ [][KeyNext]_keyVars /\ KeyFair

--------------------------------------------------------------------------------
KeyTypeOK ==
  /\ \A c \in DOMAIN people : people[c].fpr \in OldKeys \cup {NoFpr} /\ people[c].verifier \in {0, SelfId} \cup DOMAIN people
  /\ DOMAIN chat.members \subseteq DOMAIN people /\ chat.grpid \in BOOLEAN /\ chat.protected \in BOOLEAN
  /\ DOMAIN keyMap \subseteq Old /\ firstKeyMsg \in 0..(Len(mails) + 1)

IsKeyContact(c) == people[c].fpr # NoFpr
KeysOf(c) == IF IsKeyContact(c) THEN {people[c].fpr} ELSE {peers[c].ac, peers[c].ver}

(* NoMixedChats: after the migration a chat that is encrypted by its kind has only   *)
(* key-contacts, and one that kept address-contacts is not protected and has no      *)
(* group id that would make it an encrypted group.                                  *)
NoMixedChats ==
  migrated => LET ms == DOMAIN chat.members
              IN IF \A m \in ms : IsKeyContact(m) THEN TRUE
                 ELSE (\A m \in ms : ~IsKeyContact(m)) /\ ~chat.protected /\ chat.kind # "broadcast" /\ ~chat.grpid

(* PresentStay: everyone who was in a group or single chat is still in it, as the    *)
(* same contact or as the owner of one of their keys, and nobody who had left is     *)
(* back in it. Two members with one key become one.                                 *)
PresentStay ==
  migrated /\ chat.kind # "broadcast" =>
    /\ \A m \in DOMAIN before.members : before.members[m].present =>
         \E n \in DOMAIN chat.members : chat.members[n].present /\ (n = m \/ people[n].fpr \in KeysOf(m))
    /\ \A n \in DOMAIN chat.members : chat.members[n].present =>
         \E m \in DOMAIN before.members : before.members[m].present /\ (n = m \/ people[n].fpr \in KeysOf(m))

(* HiddenIffOrphan: exactly the contacts that are in no chat are hidden, so that     *)
(* nobody can be written to twice under an old and a new contact.                   *)
HiddenIffOrphan == migrated => \A c \in DOMAIN people : people[c].hidden <=> c \notin DOMAIN chat.members

(* VerifiedByKey: a contact is verified only if it has a key, and only by oneself,   *)
(* by an unknown contact (itself) or by a contact that has a key too.               *)
VerifiedByKey ==
  \A c \in DOMAIN people : LET w == people[c].verifier
                             IN w # 0 => IsKeyContact(c) /\ (w \in {SelfId, c} \/ IsKeyContact(w))

(* SendersMoved: once housekeeping has come to the end, every encrypted message      *)
(* older than the migration is from a key-contact whenever its sender had a key, and *)
(* no other message has changed hands.                                              *)
OldFrom == <<10, 11, 11, 10>>
SendersMoved ==
  \A i \in 1..4 :
    IF mails[i].enc /\ mails[i].real /\ migrated /\ (firstKeyMsg = 0 \/ i >= firstKeyMsg)
      THEN mails[i].from = MapId(OldFrom[i])
      ELSE mails[i].from = OldFrom[i]

(* SecondaryKept: "Create up to 3 new contacts for every contact that has a          *)
(* peerstate: ... one from the secondary verified key fingerprint."                 *)
SecondaryKept ==
  migrated => \A c \in Old : peers[c].sec # NoFpr => \E n \in DOMAIN people : people[n].fpr = peers[c].sec

(* AllRewritten: every old message is rewritten some day after the migration.        *)
AllRewritten == migrated => firstKeyMsg = 0

\* The migration keeps what it moves: no chat mixes kinds of contacts, present members stay,
\* only orphans are hidden, verification is by keys, and messages keep their senders.
KeysMoved == KeyTypeOK /\ NoMixedChats /\ PresentStay /\ HiddenIffOrphan /\ VerifiedByKey /\ SendersMoved
================================================================================
