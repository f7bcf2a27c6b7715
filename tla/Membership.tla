---------------------------- MODULE Membership ----------------------------
(* A group as its members' devices keep it. No server holds the group: every       *)
(* message carries the sender's member list, name, and sometimes description and   *)
(* picture, with the time of each change, and each device merges what arrives, in  *)
(* whatever order it arrives. A member's row is there while its addition is not    *)
(* older than its removal; a row whose removal is newer is a tombstone.            *)
EXTENDS Naturals, FiniteSets, FiniteSetsExt, Functions, TLC

CONSTANTS Users,        \* one device each
          GroupNames,        \* group names and descriptions; numbers stand for the order of strings
          StaleAfter,   \* 60 days, less TIMESTAMP_SENT_TOLERANCE
          Unhurried,    \* whether users look at a name for a second before they change it
          Topics,       \* [kinds, until]: the operations a behaviour is about and the last time in it
          MaxGroupOps

ASSUME /\ IsFiniteSet(Users) /\ GroupNames \subseteq Nat /\ 0 \in GroupNames
       /\ StaleAfter \in Nat \ {0} /\ Unhurried \in BOOLEAN /\ MaxGroupOps \in Nat

VARIABLES group,     \* user -> its chat, or NoGroup
          wire,      \* messages under way: [mail, to]
          clock,
          groupOps,
          topic,
          additions, \* history: who was added by a user, or taken for a member by a newcomer, and when
          said       \* history: what a user's last message told, its chat as it was then

groupVars == <<group, wire, clock, groupOps, topic, additions, said>>

NoGroup == [rows |-> <<>>, listTs |-> 0, exists |-> FALSE, name |-> 0, nameTs |-> 0,
            desc |-> 0, descTs |-> 0, pic |-> 0, picTs |-> 0]
NoOne == "nobody"
Absent == Max(GroupNames) + 1   \* no such header
Later(s, t) == Max({s, t})

InGroup(rows) == {x \in DOMAIN rows : rows[x].add >= rows[x].rem}
MembersOf(u) == InGroup(group[u].rows)
News(g) == <<g.rows, g.name, g.nameTs>>   \* what any message tells

--------------------------------------------------------------------------------
(* The member table.                                                              *)

AddToChatContacts(rows, xs, ts) ==
  [x \in xs |-> IF x \in DOMAIN rows THEN [rows[x] EXCEPT !.add = Later(rows[x].rem, ts)] ELSE [add |-> ts, rem |-> 0]] @@ rows
RemoveFromChatContacts(rows, x, now) ==
  IF x \in DOMAIN rows THEN [rows EXCEPT ![x].rem = Later(rows[x].add + 1, now)] ELSE rows
\* Everyone is removed, and those of the new list are put back.
UpdateChatContacts(rows, xs, ts) ==
  LET removed == [x \in DOMAIN rows |-> [rows[x] EXCEPT !.rem = Later(rows[x].add + 1, ts)]]
  IN [x \in xs |-> IF x \in DOMAIN rows THEN [removed[x] EXCEPT !.add = removed[x].rem] ELSE [add |-> ts, rem |-> 0]] @@ removed
\* Mutant: a removal does not outlive an older addition that comes late.
BugUpdateTimestamps(rows, ignored, to, past) ==
  LET added(x) == IF x \notin DOMAIN rows THEN [add |-> to[x], rem |-> 0]
                  ELSE IF to[x] > rows[x].add THEN [add |-> to[x], rem |-> 0] ELSE rows[x]
      withTo == [x \in DOMAIN to \ ignored |-> added(x)] @@ rows
      removed(x) == IF x \notin DOMAIN withTo THEN [add |-> 0, rem |-> past[x]]
                    ELSE IF past[x] > withTo[x].add THEN [withTo[x] EXCEPT !.rem = past[x]] ELSE withTo[x]
  IN [x \in DOMAIN past |-> removed(x)] @@ withTo

UpdateTimestamps(rows, ignored, to, past) ==
  LET added(x) == IF x \notin DOMAIN rows THEN [add |-> to[x], rem |-> 0]
                  ELSE IF to[x] > rows[x].add /\ to[x] >= rows[x].rem THEN [rows[x] EXCEPT !.add = to[x]] ELSE rows[x]
      withTo == [x \in DOMAIN to \ ignored |-> added(x)] @@ rows
      removed(x) == IF x \notin DOMAIN withTo THEN [add |-> 0, rem |-> past[x]]
                    ELSE IF past[x] > withTo[x].rem /\ past[x] > withTo[x].add THEN [withTo[x] EXCEPT !.rem = past[x]] ELSE withTo[x]
  IN [x \in DOMAIN past |-> removed(x)] @@ withTo

MemberListIsStale(g, now) == now >= g.listTs + StaleAfter

--------------------------------------------------------------------------------
(* Sending.                                                                       *)

\* The members and the tombstones of the last 60 days go out with their times; the sender itself only
\* when it is alone.
MemberTimestamps(u, g) ==
  LET present == InGroup(g.rows)
      past == {x \in DOMAIN g.rows \ present : g.rows[x].rem + StaleAfter + 1 > clock}
  IN [to |-> [x \in (IF present = {u} THEN present ELSE present \ {u}) |-> g.rows[x].add],
      past |-> [x \in past |-> g.rows[x].rem]]
GroupImage(g, kind) == IF kind = "picture" \/ (kind = "add" /\ g.pic # 0) THEN g.pic ELSE Absent
\* The times are left out while the sender's own list is stale.
SendsTimestamps(g) == ~MemberListIsStale(g, clock)
Mail(u, g, kind, about) ==
  [from |-> u, sent |-> clock, kind |-> kind, about |-> about,
   to |-> MemberTimestamps(u, g).to, past |-> MemberTimestamps(u, g).past, stamped |-> SendsTimestamps(g),
   name |-> g.name, nameTs |-> g.nameTs,
   desc |-> IF kind \in {"describe", "add"} THEN g.desc ELSE Absent, descTs |-> g.descTs, pic |-> GroupImage(g, kind)]

\* It goes to the other members, and to the one it removes.
Recipients(u, g, kind, about) ==
  (InGroup(g.rows) \cup (IF kind = "remove" /\ about \in DOMAIN g.rows THEN {about} ELSE {})) \ {u}

\* An operation of u: its effect on u's own chat, and the message that tells the others.
Operate(u, kind, g, about) ==
  /\ kind \in topic.kinds /\ group[u].exists
  /\ IF kind = "text" /\ wire = {} /\ said[u] # News(group[u]) THEN groupOps' = groupOps ELSE groupOps < MaxGroupOps /\ groupOps' = groupOps + 1
  /\ \E h \in {[g EXCEPT !.nameTs = IF kind = "rename" THEN Later(@, clock) ELSE @,
                         !.descTs = IF kind = "describe" THEN Later(@, clock) ELSE @]} :
       /\ group' = [group EXCEPT ![u] = h]
       /\ wire' = wire \cup {[mail |-> Mail(u, h, kind, about), to |-> r] : r \in Recipients(u, h, kind, about)}
  /\ said' = IF kind = "remove" THEN said ELSE [said EXCEPT ![u] = News(group'[u])]
  /\ additions' = IF kind = "add" THEN additions \cup {<<about, group'[u].rows[about].add>>} ELSE additions
  /\ UNCHANGED <<clock, topic>>

AddContactToChat(u, x) ==
  /\ u \in MembersOf(u) /\ x \notin MembersOf(u)
  /\ Operate(u, "add", [group[u] EXCEPT !.rows = AddToChatContacts(@, {x}, clock)], x)
\* A past member may be removed again; oneself is removed to leave.
RemoveContactFromChat(u, x) ==
  /\ u \in MembersOf(u) /\ x \in DOMAIN group[u].rows
  /\ Operate(u, "remove", [group[u] EXCEPT !.rows = RemoveFromChatContacts(@, x, clock)], x)
RenameGroup(u, n) ==
  /\ u \in MembersOf(u) /\ group[u].name # n /\ (Unhurried => clock > group[u].nameTs)
  /\ Operate(u, "rename", [group[u] EXCEPT !.name = n], NoOne)
SetChatDescription(u, n) ==
  /\ u \in MembersOf(u) /\ group[u].desc # n /\ (Unhurried => clock > group[u].descTs)
  /\ Operate(u, "describe", [group[u] EXCEPT !.desc = n], NoOne)
\* The time of the change is kept by those who receive it only.
SetChatProfileImage(u, n) ==
  /\ u \in MembersOf(u)
  /\ Operate(u, "picture", [group[u] EXCEPT !.pic = n], NoOne)
SendText(u) == u \in MembersOf(u) /\ Operate(u, "text", group[u], NoOne)

--------------------------------------------------------------------------------
(* Receiving.                                                                     *)

\* create_group: the sender is a member since the message was sent.
CreateGroup(u, m) ==
  [NoGroup EXCEPT !.exists = TRUE, !.name = m.name, !.listTs = m.sent,
     !.rows = IF m.stamped THEN UpdateTimestamps(<<>>, {}, m.from :> m.sent @@ m.to, m.past)
              ELSE AddToChatContacts(<<>>, {u, m.from} \cup DOMAIN m.to, 0)]

\* With equal times, the smaller name and the larger description win.
ApplyName(g, m) ==
  IF (m.kind = "rename" \/ m.nameTs > 0) /\ (g.nameTs < m.nameTs \/ (g.nameTs = m.nameTs /\ m.name < g.name))
  THEN [g EXCEPT !.nameTs = m.nameTs, !.name = m.name] ELSE g
ApplyDescription(g, m) ==
  IF m.desc # Absent /\ (g.descTs < m.descTs \/ (g.descTs = m.descTs /\ g.desc < m.desc))
  THEN [g EXCEPT !.descTs = m.descTs, !.desc = m.desc] ELSE g
\* The picture saves the chat's parameters as they were loaded before the message: the times of the
\* name and of the description that the message itself brought are undone.
ApplyAvatar(loaded, g, m) ==
  IF m.pic # Absent /\ m.sent >= loaded.picTs
  THEN [g EXCEPT !.pic = m.pic, !.picTs = m.sent, !.nameTs = loaded.nameTs, !.descTs = loaded.descTs] ELSE g

\* The list without timestamps: only what the message says explicitly changes.
LegacyMembers(u, g, m) ==
  LET now == InGroup(g.rows)
      base == IF m.kind = "add" /\ m.about = u /\ u \notin now THEN DOMAIN m.to \cup {u, m.from} ELSE now
  IN (base \cup (IF m.kind = "add" THEN {m.about} ELSE {})) \ (IF m.kind = "remove" THEN {m.about} ELSE {})

\* Someone who is out of the group itself believes everyone.
IsFromInChat(u, g, m) == u \notin InGroup(g.rows) \/ m.from \in InGroup(g.rows)

ApplyMembers(u, g, m) ==
  LET h == IF m.kind = "add" /\ m.from \notin InGroup(g.rows)
           THEN [g EXCEPT !.rows = AddToChatContacts(@, {m.from}, m.sent)] ELSE g
      new == LegacyMembers(u, g, m)
  IN [h EXCEPT !.listTs = Later(@, m.sent),
       !.rows = IF MemberListIsStale(g, clock) THEN [x \in DOMAIN m.to \cup {u, m.from} |-> [add |-> 0, rem |-> 0]]
                ELSE IF m.stamped THEN UpdateTimestamps(@, {m.from}, m.to, m.past)
                ELSE IF new # InGroup(g.rows) THEN UpdateChatContacts(@, new, m.sent) ELSE @]

ApplyGroupChanges(u, g, m) ==
  IF ~IsFromInChat(u, g, m) THEN g
  ELSE ApplyMembers(u, ApplyAvatar(g, ApplyDescription(ApplyName(g, m), m), m), m)

\* A late removal does not create the group.
Receive(u) ==
  \E w \in wire :
    /\ w.to = u
    /\ group' = [group EXCEPT ![u] =
                   IF @.exists THEN ApplyGroupChanges(u, @, w.mail)
                   ELSE IF w.mail.kind = "remove" THEN @
                   ELSE ApplyGroupChanges(u, CreateGroup(u, w.mail), w.mail)]
    /\ additions' = IF w.mail.from \in InGroup(group'[u].rows) \ MembersOf(u)
                    THEN additions \cup {<<w.mail.from, w.mail.sent>>} ELSE additions
    /\ wire' = wire \ {w} /\ UNCHANGED <<clock, groupOps, topic, said>>

GroupTick(n) == clock + n <= topic.until /\ clock' = clock + n /\ UNCHANGED <<group, wire, groupOps, topic, additions, said>>

--------------------------------------------------------------------------------
MembershipInit ==
  /\ clock = 1 /\ groupOps = 0 /\ wire = {} /\ topic \in Topics
  /\ \E founders \in {Users} \cup {Users \ {x} : x \in Users} :
       /\ group = [u \in Users |-> IF u \in founders
                     THEN [NoGroup EXCEPT !.exists = TRUE, !.listTs = 1, !.rows = [x \in founders |-> [add |-> 1, rem |-> 0]]]
                     ELSE NoGroup]
       /\ additions = {<<x, 1>> : x \in founders} /\ said = [u \in Users |-> News(group[u])]

MembershipNext ==
  \/ \E u \in Users : \/ \E x \in Users : AddContactToChat(u, x) \/ RemoveContactFromChat(u, x)
                      \/ \E n \in GroupNames : RenameGroup(u, n) \/ SetChatDescription(u, n) \/ SetChatProfileImage(u, n)
                      \/ SendText(u) \/ Receive(u)
  \/ \E n \in {1, StaleAfter} : GroupTick(n)
MembershipSpec == MembershipInit /\ [][MembershipNext]_groupVars

--------------------------------------------------------------------------------
MembershipTypeOK ==
  /\ \A u \in Users : /\ DOMAIN group[u].rows \subseteq Users
                      /\ \A x \in DOMAIN group[u].rows : group[u].rows[x] \in [add : Nat, rem : Nat]
                      /\ group[u].name \in GroupNames /\ group[u].desc \in GroupNames
  /\ \A w \in wire : w.to \in Users \ {w.mail.from}

Mutual(u, v) == {u, v} \subseteq MembersOf(u) \cap MembersOf(v)
\* Nothing is under way and every member has told what it knows.
QuietGroup == wire = {} /\ \A u \in Users : u \in MembersOf(u) => said[u] = News(group[u])
\* While no list can have become stale yet, two who have each other in their lists have the same list
\* once everyone has told what it knows, whatever was added and removed at the same time and in
\* whatever order it was heard of (receive_imf.rs, update_chats_contacts_timestamps).
ListsAgree == (QuietGroup /\ clock <= StaleAfter) => \A u, v \in Users : Mutual(u, v) => MembersOf(u) = MembersOf(v)
\* They also have the same name for the group, for as long as nobody changes it within a second of
\* seeing it changed (receive_imf.rs, apply_chat_name_avatar_and_description_changes).
NamesAgree == QuietGroup => \A u, v \in Users : Mutual(u, v) => group[u].name = group[v].name
\* And the same description, although only some messages carry it.
DescriptionsAgree == QuietGroup => \A u, v \in Users : Mutual(u, v) => group[u].desc = group[v].desc
\* And the same picture: set_chat_profile_image keeps no time of its own change, so it is undone by
\* an older change that arrives later.
PicturesAgree == QuietGroup => \A u, v \in Users : Mutual(u, v) => group[u].pic = group[v].pic

\* A member who was removed comes back to the list of a member only by an addition that is not older
\* than the removal, never by a message written before it (tombstones), unless the list was stale.
NoResurrection ==
  [][\A u, x \in Users :
       (u \in MembersOf(u) /\ x \in DOMAIN group[u].rows \ MembersOf(u) /\ x \in InGroup(group'[u].rows))
       => \/ \E a \in additions' : a[1] = x /\ a[2] >= group[u].rows[x].rem
          \/ MemberListIsStale(group[u], clock)]_groupVars

\* Once their mails have arrived, the members of a group agree about it.
GroupAgrees == MembershipTypeOK /\ ListsAgree /\ NamesAgree /\ DescriptionsAgree
==========================================================================
