------------------------------ MODULE LabelSync ------------------------------
(***************************************************************************)
(* Labels and their synchronisation between a user's devices.              *)
(*                                                                         *)
(*   core/src/email/labels.rs   create_ext, rename_ext, set_color_ext,     *)
(*                              delete_ext, set_ext, execute_sync_item,    *)
(*                              sync_set, drain_pending, prune             *)
(*   core/src/sync.rs           add_sync_item, send_sync_msg,              *)
(*                              execute_sync_items                         *)
(*                                                                         *)
(* A change is one transaction on the device where the user makes it; the  *)
(* sync item follows in a later statement, and travels to the other        *)
(* devices by mail.  Messages arrive at each device in their own time.     *)
(* Mail is fetched under one lock, so that on one device messages and sync *)
(* items are handled one after the other.                                  *)
(***************************************************************************)
EXTENDS Naturals, Sequences, FiniteSets

CONSTANTS
    Devices,      \* the user's devices
    Writers,      \* those the user changes labels on
    phone,        \* one of them
    laptop,       \* a device that follows it
    Names,        \* label names, as normalize leaves them
    Reserved,     \* Archive, Trash and Unverified
    Colors,       \* colours, of which NoColor is none
    NoColor,
    Msgs,         \* messages, by Message-ID
    Kinds,        \* the changes the user makes
    InOrder,      \* whether sync messages arrive in the order they were sent
    Ttl,          \* PENDING_TTL
    MaxCalls,     \* calls of the user in flight on one device
    MaxOps,       \* bound on the user's changes
    MaxNow,       \* bound on the clock
    MaxLost,      \* bound on sync messages lost
    MaxCrashes    \* bound on process deaths

ASSUME DevicesAssumption == Writers \subseteq Devices
ASSUME NamesAssumption == Reserved \subseteq Names /\ NoColor \in Colors
ASSUME KindsAssumption ==
    Kinds \subseteq {"create", "rename", "color", "delete", "apply"}
ASSUME BoundsAssumption ==
    /\ InOrder \in BOOLEAN
    /\ {Ttl, MaxCalls, MaxOps, MaxNow, MaxLost, MaxCrashes} \subseteq Nat

VARIABLES
    dev,        \* each device's tables
    draining,   \* the message it has inserted and not yet drained for
    calls,      \* its changes whose sync item is not yet queued
    net,        \* sync items on their way to it, oldest first
    now,        \* the clock, the same everywhere
    ops,        \* changes so far
    lost,       \* sync messages lost so far
    crashes,    \* process deaths so far
    newest      \* history: the latest timestamp it was sent for a label on a
                \* message, until prune has it forget

counters == <<now, ops, lost, crashes>>
vars == <<dev, draining, calls, net, counters, newest>>

NoMsg == "no message"

ASSUME MsgsAssumption == NoMsg \notin Msgs

Pairs == Msgs \X Names

\* A parked change: a row of pending_msg_labels.
Parked == [msg : Msgs, label : Names, apply : BOOLEAN, timestamp : Nat]

\* The tables: labels and their colours, msgs, msg_labels, pending_msg_labels.
Tables == [labels : SUBSET Names, color : [Names -> Colors], msgs : SUBSET Msgs,
           applied : SUBSET Pairs, parked : SUBSET Parked]

NewAccount ==
    [labels |-> Reserved, color |-> [n \in Names |-> NoColor], msgs |-> {},
     applied |-> {}, parked |-> {}]

----------------------------------------------------------------------------
(***************************************************************************)
(* What each function does to the tables.  An error leaves them alone.     *)
(***************************************************************************)

CreateExt(s, n, c) ==
    IF n \in s.labels THEN s
    ELSE [s EXCEPT !.labels = @ \cup {n}, !.color[n] = c]

CanRename(s, n, to) == n \in s.labels \ Reserved /\ to \notin s.labels \ {n}

\* The row keeps its id, so what refers to it moves to the new name.
RenameExt(s, n, to) ==
    LET Renamed(m) == IF m = n THEN to ELSE m IN
    IF ~CanRename(s, n, to) THEN s
    ELSE [s EXCEPT
            !.labels = {Renamed(m) : m \in @},
            !.color = [@ EXCEPT ![n] = NoColor, ![to] = s.color[n]],
            !.applied = {<<p[1], Renamed(p[2])>> : p \in @},
            !.parked = {[p EXCEPT !.label = Renamed(@)] : p \in @}]

SetColorExt(s, n, c) == [s EXCEPT !.color[n] = c]

DeleteExt(s, n) ==
    IF n \notin s.labels \ Reserved THEN s
    ELSE [s EXCEPT
            !.labels = @ \ {n},
            !.color[n] = NoColor,
            !.applied = {p \in @ : p[2] # n},
            !.parked = {p \in @ : p.label # n}]

SetExt(s, M, n, apply) ==
    [s EXCEPT !.applied = IF apply THEN @ \cup (M \X {n}) ELSE @ \ (M \X {n})]

\* Timestamps are not compared.
BugPark(s, M, n, apply, ts) ==
    [s EXCEPT !.parked = {p \in @ : p.msg \notin M \/ p.label # n} \cup
        {[msg |-> m, label |-> n, apply |-> apply, timestamp |-> ts] : m \in M}]

\* The row of the latest timestamp stays; of two with the same, the later come.
Park(s, M, n, apply, ts) ==
    LET kept == {p \in s.parked : p.msg \in M /\ p.label = n /\ p.timestamp > ts}
        new == M \ {p.msg : p \in kept}
    IN  [s EXCEPT !.parked = {p \in @ : p.msg \notin new \/ p.label # n} \cup
            {[msg |-> m, label |-> n, apply |-> apply, timestamp |-> ts] : m \in new}]

\* Only an application is parked.
BugSyncSet(s, M, n, apply, ts) ==
    LET t == CreateExt(s, n, NoColor)
        resolved == SetExt(t, M \cap s.msgs, n, apply)
    IN  IF apply THEN Park(resolved, M \ s.msgs, n, apply, ts) ELSE resolved

\* Applying a label implies that it exists.
SyncSet(s, M, n, apply, ts) ==
    LET t == CreateExt(s, n, NoColor)
    IN  Park(SetExt(t, M \cap s.msgs, n, apply), M \ s.msgs, n, apply, ts)

ExecuteSyncItem(s, i) ==
    CASE i.kind = "create" -> CreateExt(s, i.name, i.color)
      [] i.kind = "rename" ->
            IF i.name \in s.labels THEN RenameExt(s, i.name, i.to)
            ELSE CreateExt(s, i.to, NoColor)
      [] i.kind = "delete" -> DeleteExt(s, i.name)
      [] i.kind = "color" ->
            SetColorExt(CreateExt(s, i.name, i.color), i.name, i.color)
      [] i.kind = "apply" -> SyncSet(s, i.msgs, i.name, i.apply, i.timestamp)

ParkedPairs(P, apply) == {<<p.msg, p.label>> : p \in {q \in P : q.apply = apply}}

Drain(s, m) ==
    LET mine == {p \in s.parked : p.msg = m}
    IN  [s EXCEPT !.applied = (@ \cup ParkedPairs(mine, TRUE)) \ ParkedPairs(mine, FALSE),
                  !.parked = @ \ mine]

----------------------------------------------------------------------------

\* What the user sees of the labels on a device.  A parked change counts as
\* made: it will be, when its message is there to be seen.
ViewOf(s) ==
    [labels |-> s.labels,
     color |-> s.color,
     applied |-> (s.applied \cup ParkedPairs(s.parked, TRUE))
                    \ ParkedPairs(s.parked, FALSE)]

View(d) == ViewOf(dev[d])

Views == [labels : SUBSET Names, color : [Names -> Colors], applied : SUBSET Pairs]

Items ==
    [kind : {"create", "color"}, name : Names, color : Colors, timestamp : Nat,
     after : Views]
    \cup [kind : {"rename"}, name : Names, to : Names, timestamp : Nat, after : Views]
    \cup [kind : {"delete"}, name : Names, timestamp : Nat, after : Views]
    \cup [kind : {"apply"}, msgs : SUBSET Msgs, name : Names, apply : BOOLEAN,
          timestamp : Nat, after : Views]

TypeOK ==
    /\ dev \in [Devices -> Tables]
    /\ \A d \in Devices : Reserved \subseteq dev[d].labels
    /\ draining \in [Devices -> Msgs \cup {NoMsg}]
    /\ \A d \in Devices : IsFiniteSet(calls[d]) /\ calls[d] \subseteq Items
    /\ \A d \in Devices : net[d] \in Seq(Items)
    /\ now \in 0..MaxNow
    /\ ops \in 0..MaxOps
    /\ lost \in 0..MaxLost
    /\ crashes \in 0..MaxCrashes
    /\ newest \in [Devices -> [Pairs -> 0..MaxNow]]

Init ==
    /\ dev = [d \in Devices |-> NewAccount]
    /\ draining = [d \in Devices |-> NoMsg]
    /\ calls = [d \in Devices |-> {}]
    /\ net = [d \in Devices |-> <<>>]
    /\ now = 0
    /\ ops = 0
    /\ lost = 0
    /\ crashes = 0
    /\ newest = [d \in Devices |-> [p \in Pairs |-> 0]]

----------------------------------------------------------------------------
(***************************************************************************)
(* The user's changes.  after, which is not on the wire, says what the     *)
(* device shows once the change is made.                                   *)
(***************************************************************************)

Change(d, s, item) ==
    /\ d \in Writers
    /\ item.kind \in Kinds
    /\ ops < MaxOps
    /\ Cardinality(calls[d]) < MaxCalls
    /\ ops' = ops + 1
    /\ dev' = [dev EXCEPT ![d] = s]
    /\ calls' = [calls EXCEPT ![d] = @ \cup
                    {[item EXCEPT !.after = ViewOf(s)]}]
    /\ UNCHANGED <<draining, net, now, lost, crashes, newest>>

\* An existing label is returned, and nothing is synced.
Create(d, n, c) ==
    /\ n \notin dev[d].labels
    /\ Change(d, CreateExt(dev[d], n, c),
              [kind |-> "create", name |-> n, color |-> c, timestamp |-> 0,
               after |-> View(d)])

Rename(d, n, to) ==
    /\ CanRename(dev[d], n, to)
    /\ Change(d, RenameExt(dev[d], n, to),
              [kind |-> "rename", name |-> n, to |-> to, timestamp |-> 0,
               after |-> View(d)])

SetColor(d, n, c) ==
    /\ n \in dev[d].labels
    /\ Change(d, SetColorExt(dev[d], n, c),
              [kind |-> "color", name |-> n, color |-> c, timestamp |-> 0,
               after |-> View(d)])

Delete(d, n) ==
    /\ n \in dev[d].labels \ Reserved
    /\ Change(d, DeleteExt(dev[d], n),
              [kind |-> "delete", name |-> n, timestamp |-> 0,
               after |-> View(d)])

\* Archiving and trashing are the application of a reserved label.
Apply(d, M, n, apply) ==
    /\ n \in dev[d].labels
    /\ Change(d, SetExt(dev[d], M, n, apply),
              [kind |-> "apply", msgs |-> M, name |-> n, apply |-> apply,
               timestamp |-> 0,
               after |-> View(d)])

\* add_sync_item stamps the item and queues it; the inbox loop sends the queue in
\* order, and no failure removes an unsent item from it.
AddSyncItem(d, item) ==
    /\ item \in calls[d]
    /\ calls' = [calls EXCEPT ![d] = @ \ {item}]
    /\ net' = [e \in Devices |-> IF e = d THEN net[e]
                                 ELSE Append(net[e], [item EXCEPT !.timestamp = now])]
    /\ UNCHANGED <<dev, draining, counters, newest>>

----------------------------------------------------------------------------
(***************************************************************************)
(* The inbox.                                                              *)
(***************************************************************************)

WithoutItem(s, k) == SubSeq(s, 1, k - 1) \o SubSeq(s, k + 1, Len(s))

Sends(item) == IF item.kind = "apply" THEN item.msgs \X {item.name} ELSE {}

\* A sync item is carried out here, and sends no item of its own.
ReceiveSyncItem(d, k) ==
    LET item == net[d][k] IN
    /\ draining[d] = NoMsg
    /\ InOrder => k = 1
    /\ dev' = [dev EXCEPT ![d] = ExecuteSyncItem(@, item)]
    /\ net' = [net EXCEPT ![d] = WithoutItem(@, k)]
    /\ newest' = [newest EXCEPT ![d] = [p \in Pairs |->
                    IF p \in Sends(item) /\ item.timestamp > @[p]
                    THEN item.timestamp ELSE @[p]]]
    /\ UNCHANGED <<draining, calls, counters>>

\* A message is inserted, and the hook that drains comes after that.
ReceiveMsg(d, m) ==
    /\ draining[d] = NoMsg
    /\ m \notin dev[d].msgs
    /\ dev' = [dev EXCEPT ![d].msgs = @ \cup {m}]
    /\ draining' = [draining EXCEPT ![d] = m]
    /\ UNCHANGED <<calls, net, counters, newest>>

DrainPending(d) ==
    /\ draining[d] # NoMsg
    /\ dev' = [dev EXCEPT ![d] = Drain(@, draining[d])]
    /\ draining' = [draining EXCEPT ![d] = NoMsg]
    /\ UNCHANGED <<calls, net, counters, newest>>

----------------------------------------------------------------------------

Expired(d) == {p \in dev[d].parked : p.timestamp + Ttl < now}

Prune(d) ==
    /\ Expired(d) # {}
    /\ dev' = [dev EXCEPT ![d].parked = @ \ Expired(d)]
    /\ newest' = [newest EXCEPT ![d] = [p \in Pairs |->
                    IF \E q \in Expired(d) : p = <<q.msg, q.label>> THEN 0 ELSE @[p]]]
    /\ UNCHANGED <<draining, calls, net, counters>>

Tick ==
    /\ now < MaxNow
    /\ now' = now + 1
    /\ UNCHANGED <<dev, draining, calls, net, ops, lost, crashes, newest>>

\* A sync message that announces a new label never arrives.
Lose(d) ==
    /\ lost < MaxLost
    /\ net[d] # <<>>
    /\ Head(net[d]).kind = "create"
    /\ net' = [net EXCEPT ![d] = Tail(@)]
    /\ lost' = lost + 1
    /\ UNCHANGED <<dev, draining, calls, now, ops, crashes, newest>>

\* The process dies: before an item is queued, or before the hook has run.
Crash(d) ==
    /\ crashes < MaxCrashes
    /\ crashes' = crashes + 1
    /\ calls' = [calls EXCEPT ![d] = {}]
    /\ draining' = [draining EXCEPT ![d] = NoMsg]
    /\ UNCHANGED <<dev, net, now, ops, lost, newest>>

UserStep(d) ==
    \/ \E n \in Names, c \in Colors : Create(d, n, c) \/ SetColor(d, n, c)
    \/ \E n, to \in Names : Rename(d, n, to)
    \/ \E n \in Names : Delete(d, n)
    \/ \E M \in SUBSET dev[d].msgs \ {{}}, n \in Names, b \in BOOLEAN : Apply(d, M, n, b)
    \/ \E item \in calls[d] : AddSyncItem(d, item)

InboxStep(d) ==
    \/ \E k \in DOMAIN net[d] : ReceiveSyncItem(d, k)
    \/ \E m \in Msgs : ReceiveMsg(d, m)
    \/ DrainPending(d)

Next ==
    \/ Tick
    \/ \E d \in Devices : UserStep(d) \/ InboxStep(d) \/ Prune(d) \/ Lose(d) \/ Crash(d)

Spec == Init /\ [][Next]_vars

----------------------------------------------------------------------------
(***************************************************************************)
(* Properties.                                                             *)
(***************************************************************************)

\* Nothing is left to do, and every message has reached every device.
Settled ==
    \A d \in Devices : /\ dev[d].msgs = Msgs
                       /\ draining[d] = NoMsg
                       /\ calls[d] = {}
                       /\ net[d] = <<>>

\* Once everything has arrived, every device shows the same labels on the same
\* messages, though sync items come before their messages and the announcement
\* of a label may be lost.
ApplicationsAgree ==
    Settled => \A d, e \in Devices : dev[d].applied = dev[e].applied

\* "Latest timestamp wins": no change parked for a message that has yet to come is
\* older than another one this device was sent, in whatever order they arrived.
ParkedLatest ==
    \A d \in Devices : \A p \in dev[d].parked :
        p.msg \notin dev[d].msgs => p.timestamp = newest[d][<<p.msg, p.label>>]

\* Items that wait for their message are the latest for it.
LabelsSafe == TypeOK /\ ParkedLatest

Afters(s) == [i \in DOMAIN s |-> s[i].after]

\* The laptop has still to show what is on its way and, at most one, what the
\* phone has changed and not yet queued.
Ahead ==
    Afters(net[laptop]) \o
        IF calls[phone] = {} THEN <<>>
        ELSE <<(CHOOSE item \in calls[phone] : TRUE).after>>

Laptop == INSTANCE LabelFollower
    WITH States <- Views,
         Initial <- ViewOf(NewAccount),
         leader <- View(phone),
         shown <- View(laptop),
         ahead <- Ahead

\* Whatever the user does to labels on the phone, however late the messages
\* arrive at the laptop, the laptop goes through the phone's states one by one:
\* parking and draining, renaming and deleting show no state of their own.
LaptopFollows == Laptop!Spec
=============================================================================
