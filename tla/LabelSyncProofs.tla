-------------------------- MODULE LabelSyncProofs --------------------------
(***************************************************************************)
(* Proofs about label sync, for any devices, names, messages and bounds.   *)
(***************************************************************************)
EXTENDS LabelSync, FiniteSetTheorems, SequenceTheorems, TLAPS

----------------------------------------------------------------------------
(***************************************************************************)
(* What each function makes of the tables.                                 *)
(***************************************************************************)

\* Creating a label leaves messages and parked changes alone.
LEMMA CreateKeeps ==
    ASSUME NEW s \in Tables, NEW n \in Names, NEW c \in Colors
    PROVE  /\ CreateExt(s, n, c) \in Tables
           /\ s.labels \subseteq CreateExt(s, n, c).labels
           /\ CreateExt(s, n, c).msgs = s.msgs
           /\ CreateExt(s, n, c).parked = s.parked
BY DEF CreateExt, Tables

\* So does colouring one.
LEMMA SetColorKeeps ==
    ASSUME NEW s \in Tables, NEW n \in Names, NEW c \in Colors
    PROVE  /\ SetColorExt(s, n, c) \in Tables
           /\ SetColorExt(s, n, c).labels = s.labels
           /\ SetColorExt(s, n, c).msgs = s.msgs
           /\ SetColorExt(s, n, c).parked = s.parked
BY DEF SetColorExt, Tables

\* And so does applying one or taking it off.
LEMMA SetKeeps ==
    ASSUME NEW s \in Tables, NEW M \in SUBSET Msgs, NEW n \in Names, NEW b \in BOOLEAN
    PROVE  /\ SetExt(s, M, n, b) \in Tables
           /\ SetExt(s, M, n, b).labels = s.labels
           /\ SetExt(s, M, n, b).msgs = s.msgs
           /\ SetExt(s, M, n, b).parked = s.parked
BY DEF SetExt, Tables, Pairs

\* Renaming and deleting leave the reserved labels where they are.
LEMMA RenameKeeps ==
    ASSUME NEW s \in Tables, NEW n \in Names, NEW to \in Names, Reserved \subseteq s.labels
    PROVE  /\ RenameExt(s, n, to) \in Tables
           /\ Reserved \subseteq RenameExt(s, n, to).labels
           /\ RenameExt(s, n, to).msgs = s.msgs
<1> DEFINE Renamed(m) == IF m = n THEN to ELSE m
           L == {Renamed(m) : m \in s.labels}
           C == [s.color EXCEPT ![n] = NoColor, ![to] = s.color[n]]
           A == {<<p[1], Renamed(p[2])>> : p \in s.applied}
           P == {[p EXCEPT !.label = Renamed(@)] : p \in s.parked}
<1>1. CASE ~CanRename(s, n, to)
    BY <1>1 DEF RenameExt
<1>2. CASE CanRename(s, n, to)
    <2>1. L \in SUBSET Names /\ Reserved \subseteq L
        BY <1>2 DEF CanRename, Tables
    <2>2. C \in [Names -> Colors]
        BY NamesAssumption DEF Tables
    <2>3. A \in SUBSET Pairs
        BY DEF Tables, Pairs
    <2>4. P \in SUBSET Parked
        BY DEF Tables, Parked
    <2>5. RenameExt(s, n, to) = [s EXCEPT !.labels = L, !.color = C, !.applied = A, !.parked = P]
        BY <1>2 DEF RenameExt, Tables
    <2> HIDE DEF L, C, A, P
    <2> QED
        BY <2>1, <2>2, <2>3, <2>4, <2>5 DEF Tables
<1> QED
    BY <1>1, <1>2

\* Deleting takes the rows of the label out, and no message.
LEMMA DeleteKeeps ==
    ASSUME NEW s \in Tables, NEW n \in Names, Reserved \subseteq s.labels
    PROVE  /\ DeleteExt(s, n) \in Tables
           /\ Reserved \subseteq DeleteExt(s, n).labels
           /\ DeleteExt(s, n).msgs = s.msgs
BY NamesAssumption DEF DeleteExt, Tables

\* The messages that get a new row: those that have no later one.
Newly(s, M, n, ts) ==
    {m \in M : \A p \in s.parked : p.msg = m /\ p.label = n => ~(p.timestamp > ts)}

\* The rows after parking: of those for one message and label the latest stays.
RowsAfter(s, M, n, b, ts) ==
    {p \in s.parked : p.msg \notin Newly(s, M, n, ts) \/ p.label # n} \cup
        {[msg |-> m, label |-> n, apply |-> b, timestamp |-> ts] : m \in Newly(s, M, n, ts)}

\* Parking changes these rows and nothing else.
LEMMA ParkKeeps ==
    ASSUME NEW s \in Tables, NEW M \in SUBSET Msgs, NEW n \in Names, NEW b \in BOOLEAN,
           NEW ts \in Nat
    PROVE  /\ Park(s, M, n, b, ts) \in Tables
           /\ Park(s, M, n, b, ts).labels = s.labels
           /\ Park(s, M, n, b, ts).msgs = s.msgs
           /\ Park(s, M, n, b, ts).parked = RowsAfter(s, M, n, b, ts)
<1> DEFINE kept == {p \in s.parked : p.msg \in M /\ p.label = n /\ p.timestamp > ts}
           Q == RowsAfter(s, M, n, b, ts)
<1>1. Newly(s, M, n, ts) = M \ {p.msg : p \in kept}
    BY DEF Newly
<1>2. Park(s, M, n, b, ts) = [s EXCEPT !.parked = Q]
    BY <1>1 DEF Park, RowsAfter
<1>3. Q \in SUBSET Parked
    BY DEF Tables, Parked, Newly, RowsAfter
<1> HIDE DEF Q
<1>4. /\ Park(s, M, n, b, ts) \in Tables
      /\ Park(s, M, n, b, ts).labels = s.labels
      /\ Park(s, M, n, b, ts).msgs = s.msgs
      /\ Park(s, M, n, b, ts).parked = Q
    BY <1>2, <1>3 DEF Tables
<1> QED
    BY <1>4 DEF Q

\* Draining takes the rows of the message out.
LEMMA DrainKeeps ==
    ASSUME NEW s \in Tables, NEW m \in Msgs
    PROVE  /\ Drain(s, m) \in Tables
           /\ Drain(s, m).labels = s.labels
           /\ Drain(s, m).msgs = s.msgs
           /\ Drain(s, m).parked = {p \in s.parked : p.msg # m}
<1> DEFINE mine == {p \in s.parked : p.msg = m}
           A == (s.applied \cup ParkedPairs(mine, TRUE)) \ ParkedPairs(mine, FALSE)
           Q == s.parked \ mine
<1>1. A \in SUBSET Pairs
    BY DEF ParkedPairs, Tables, Parked, Pairs
<1>2. Q \in SUBSET Parked /\ Q = {p \in s.parked : p.msg # m}
    BY DEF Tables
<1>3. Drain(s, m) = [s EXCEPT !.applied = A, !.parked = Q]
    BY DEF Drain
<1> HIDE DEF A, Q
<1> QED
    BY <1>1, <1>2, <1>3 DEF Tables

\* What a device shows.
LEMMA ViewType ==
    ASSUME NEW s \in Tables
    PROVE  ViewOf(s) \in Views
BY DEF ViewOf, Views, ParkedPairs, Tables, Parked, Pairs

\* A sync item, and what may be written into it.
LEMMA ItemFields ==
    ASSUME NEW i \in Items
    PROVE  /\ i.name \in Names /\ i.timestamp \in Nat
           /\ i.kind \in {"create", "color", "rename", "delete", "apply"}
           /\ i.kind \in {"create", "color"} => i.color \in Colors
           /\ i.kind = "rename" => i.to \in Names
           /\ i.kind = "apply" => i.msgs \in SUBSET Msgs /\ i.apply \in BOOLEAN
BY DEF Items

\* Stamping an item leaves what it says.
LEMMA ItemStamped ==
    ASSUME NEW i \in Items, NEW ts \in Nat
    PROVE  /\ [i EXCEPT !.timestamp = ts] \in Items
           /\ [i EXCEPT !.timestamp = ts].timestamp = ts
           /\ [i EXCEPT !.timestamp = ts].kind = i.kind
BY DEF Items

\* So does noting what the device shows after the change.
LEMMA ItemAfter ==
    ASSUME NEW i \in Items, NEW v \in Views
    PROVE  /\ [i EXCEPT !.after = v] \in Items
           /\ [i EXCEPT !.after = v].kind = i.kind
BY DEF Items

\* Carrying out a sync item: it is a change of the tables, and only the messages
\* that a labelling names, of those not here, get another parked row.
LEMMA ExecuteKeeps ==
    ASSUME NEW s \in Tables, NEW i \in Items, Reserved \subseteq s.labels
    PROVE  /\ ExecuteSyncItem(s, i) \in Tables
           /\ Reserved \subseteq ExecuteSyncItem(s, i).labels
           /\ ExecuteSyncItem(s, i).msgs = s.msgs
           /\ i.kind \in {"create", "color"} => ExecuteSyncItem(s, i).parked = s.parked
           /\ i.kind = "apply" =>
                \E t \in Tables :
                    /\ ExecuteSyncItem(s, i) = Park(t, i.msgs \ s.msgs, i.name, i.apply, i.timestamp)
                    /\ t.parked = s.parked
<1> USE NamesAssumption, ItemFields
<1>1. CASE i.kind = "create"
    <2>1. ExecuteSyncItem(s, i) = CreateExt(s, i.name, i.color)
        BY <1>1 DEF ExecuteSyncItem
    <2> QED
        BY <1>1, <2>1, CreateKeeps
<1>2. CASE i.kind = "color"
    <2> DEFINE t == CreateExt(s, i.name, i.color)
    <2>1. ExecuteSyncItem(s, i) = SetColorExt(t, i.name, i.color)
        BY <1>2 DEF ExecuteSyncItem
    <2>2. t \in Tables /\ s.labels \subseteq t.labels /\ t.msgs = s.msgs /\ t.parked = s.parked
        BY <1>2, CreateKeeps
    <2> HIDE DEF t
    <2> QED
        BY <1>2, <2>1, <2>2, SetColorKeeps
<1>3. CASE i.kind = "rename"
    <2>1. CASE i.name \in s.labels
        <3>1. ExecuteSyncItem(s, i) = RenameExt(s, i.name, i.to)
            BY <1>3, <2>1 DEF ExecuteSyncItem
        <3> QED
            BY <1>3, <3>1, RenameKeeps
    <2>2. CASE i.name \notin s.labels
        <3>1. ExecuteSyncItem(s, i) = CreateExt(s, i.to, NoColor)
            BY <1>3, <2>2 DEF ExecuteSyncItem
        <3> QED
            BY <1>3, <3>1, CreateKeeps
    <2> QED
        BY <2>1, <2>2
<1>4. CASE i.kind = "delete"
    <2>1. ExecuteSyncItem(s, i) = DeleteExt(s, i.name)
        BY <1>4 DEF ExecuteSyncItem
    <2> QED
        BY <1>4, <2>1, DeleteKeeps
<1>5. CASE i.kind = "apply"
    <2> DEFINE t == CreateExt(s, i.name, NoColor)
               u == SetExt(t, i.msgs \cap s.msgs, i.name, i.apply)
    <2>1. ExecuteSyncItem(s, i) = Park(u, i.msgs \ s.msgs, i.name, i.apply, i.timestamp)
        BY <1>5 DEF ExecuteSyncItem, SyncSet
    <2>2. t \in Tables /\ s.labels \subseteq t.labels /\ t.msgs = s.msgs /\ t.parked = s.parked
        BY <1>5, CreateKeeps
    <2> HIDE DEF t
    <2>3. u \in Tables /\ u.labels = t.labels /\ u.msgs = t.msgs /\ u.parked = t.parked
        BY <1>5, <2>2, SetKeeps
    <2> HIDE DEF u
    <2> DEFINE M == i.msgs \ s.msgs
               n == i.name
               b == i.apply
               ts == i.timestamp
    <2>4. M \in SUBSET Msgs /\ n \in Names /\ b \in BOOLEAN /\ ts \in Nat
        BY <1>5
    <2>5. /\ ExecuteSyncItem(s, i) \in Tables
          /\ ExecuteSyncItem(s, i).labels = u.labels
          /\ ExecuteSyncItem(s, i).msgs = u.msgs
        <3>1. ExecuteSyncItem(s, i) = Park(u, M, n, b, ts)
            BY <2>1
        <3> HIDE DEF M, n, b, ts
        <3>2. /\ Park(u, M, n, b, ts) \in Tables
              /\ Park(u, M, n, b, ts).labels = u.labels
              /\ Park(u, M, n, b, ts).msgs = u.msgs
            BY <2>3, <2>4, ParkKeeps
        <3> QED
            BY <3>1, <3>2
    <2> QED
        BY <1>5, <2>1, <2>2, <2>3, <2>5
<1> QED
    BY <1>1, <1>2, <1>3, <1>4, <1>5

----------------------------------------------------------------------------
(***************************************************************************)
(* Types.                                                                  *)
(***************************************************************************)

\* What is on its way: changes of the user, stamped with a time that has been.
Made == {i \in Items : i.kind \in Kinds}
Sent == {i \in Made : i.timestamp <= now}

\* The types, with the history that the invariants speak of.
TypeInv ==
    /\ dev \in [Devices -> Tables]
    /\ \A d \in Devices : Reserved \subseteq dev[d].labels
    /\ draining \in [Devices -> Msgs \cup {NoMsg}]
    /\ calls \in [Devices -> SUBSET Made]
    /\ \A d \in Devices : IsFiniteSet(calls[d])
    /\ net \in [Devices -> Seq(Sent)]
    /\ now \in 0..MaxNow
    /\ ops \in 0..MaxOps
    /\ lost \in 0..MaxLost
    /\ crashes \in 0..MaxCrashes
    /\ newest \in [Devices -> [Pairs -> 0..MaxNow]]

\* A queue of one kind of items is a queue of the wider kind.
LEMMA WiderQueue ==
    ASSUME NEW S, NEW T, S \subseteq T, NEW q \in Seq(S)
    PROVE  q \in Seq(T)
<1>1. Len(q) \in Nat /\ q \in [1..Len(q) -> S]
    BY LenProperties
<1>2. q \in [1..Len(q) -> T]
    BY <1>1
<1> QED
    BY <1>1, <1>2 DEF Seq

\* Taking one item out leaves a queue of the others.
LEMMA ItemTaken ==
    ASSUME NEW S, NEW q \in Seq(S), NEW k \in DOMAIN q
    PROVE  WithoutItem(q, k) \in Seq(S) /\ q[k] \in S
<1>1. Len(q) \in Nat /\ k \in 1..Len(q) /\ q \in [1..Len(q) -> S]
    BY LenProperties
<1>2. SubSeq(q, 1, k - 1) \in Seq(S)
    BY <1>1, SubSeqProperties
<1>3. SubSeq(q, k + 1, Len(q)) \in Seq(S)
    BY <1>1, SubSeqProperties
<1> QED
    BY <1>1, <1>2, <1>3, ConcatProperties DEF WithoutItem

\* A change of the user's tables.
LEMMA ChangeTypes ==
    ASSUME TypeInv, NEW d \in Devices, NEW s \in Tables, Reserved \subseteq s.labels,
           NEW i \in Items, Change(d, s, i)
    PROVE  TypeInv'
<1> DEFINE j == [i EXCEPT !.after = ViewOf(s)]
<1>1. j \in Made
    BY ItemAfter, ViewType DEF Change, Made
<1> HIDE DEF j
<1>2. calls' = [calls EXCEPT ![d] = @ \cup {j}]
    BY DEF Change, j
<1>3. calls' \in [Devices -> SUBSET Made] /\ \A e \in Devices : IsFiniteSet(calls'[e])
    BY <1>1, <1>2, FS_AddElement DEF TypeInv
<1>4. dev' \in [Devices -> Tables] /\ \A e \in Devices : Reserved \subseteq dev'[e].labels
    BY DEF Change, TypeInv
<1>5. ops' \in 0..MaxOps
    BY BoundsAssumption DEF Change, TypeInv
<1> QED
    BY <1>3, <1>4, <1>5 DEF Change, TypeInv, Sent

\* Every step keeps the tables, the queues and the history in their types.
LEMMA TypeNext == TypeInv /\ [Next]_vars => TypeInv'
<1> SUFFICES ASSUME TypeInv, [Next]_vars PROVE TypeInv'
    OBVIOUS
<1> USE NamesAssumption, BoundsAssumption
<1>0. ASSUME NEW d \in Devices
      PROVE  dev[d] \in Tables /\ Reserved \subseteq dev[d].labels /\ View(d) \in Views
    BY <1>0, ViewType DEF TypeInv, View
<1>1. CASE UNCHANGED vars
    BY <1>1 DEF vars, counters, TypeInv, Sent
<1>2. CASE Tick
    <2>1. Sent \subseteq Sent'
        BY <1>2 DEF Tick, Sent, Made, Items, TypeInv
    <2>2. net' \in [Devices -> Seq(Sent')]
        BY <1>2, <2>1, WiderQueue DEF Tick, TypeInv
    <2> QED
        BY <1>2, <2>2 DEF Tick, TypeInv
<1>3. ASSUME NEW d \in Devices, NEW n \in Names, NEW c \in Colors, Create(d, n, c)
      PROVE  TypeInv'
    <2>1. [kind |-> "create", name |-> n, color |-> c, timestamp |-> 0, after |-> View(d)] \in Items
        BY <1>0 DEF Items
    <2> QED
        BY <1>0, <1>3, <2>1, CreateKeeps, ChangeTypes DEF Create
<1>4. ASSUME NEW d \in Devices, NEW n \in Names, NEW to \in Names, Rename(d, n, to)
      PROVE  TypeInv'
    <2>1. [kind |-> "rename", name |-> n, to |-> to, timestamp |-> 0, after |-> View(d)] \in Items
        BY <1>0 DEF Items
    <2> QED
        BY <1>0, <1>4, <2>1, RenameKeeps, ChangeTypes DEF Rename
<1>5. ASSUME NEW d \in Devices, NEW n \in Names, NEW c \in Colors, SetColor(d, n, c)
      PROVE  TypeInv'
    <2>1. [kind |-> "color", name |-> n, color |-> c, timestamp |-> 0, after |-> View(d)] \in Items
        BY <1>0 DEF Items
    <2> QED
        BY <1>0, <1>5, <2>1, SetColorKeeps, ChangeTypes DEF SetColor
<1>6. ASSUME NEW d \in Devices, NEW n \in Names, Delete(d, n)
      PROVE  TypeInv'
    <2>1. [kind |-> "delete", name |-> n, timestamp |-> 0, after |-> View(d)] \in Items
        BY <1>0 DEF Items
    <2> QED
        BY <1>0, <1>6, <2>1, DeleteKeeps, ChangeTypes DEF Delete
<1>7. ASSUME NEW d \in Devices, NEW M \in SUBSET dev[d].msgs, NEW n \in Names, NEW b \in BOOLEAN,
             Apply(d, M, n, b)
      PROVE  TypeInv'
    <2>1. M \in SUBSET Msgs
        BY <1>0 DEF Tables
    <2>2. [kind |-> "apply", msgs |-> M, name |-> n, apply |-> b, timestamp |-> 0,
           after |-> View(d)] \in Items
        BY <1>0, <2>1 DEF Items
    <2> QED
        BY <1>0, <1>7, <2>1, <2>2, SetKeeps, ChangeTypes DEF Apply
<1>8. ASSUME NEW d \in Devices, NEW i \in calls[d], AddSyncItem(d, i)
      PROVE  TypeInv'
    <2> DEFINE j == [i EXCEPT !.timestamp = now]
    <2>1. i \in Made /\ now \in Nat
        BY <1>8 DEF TypeInv
    <2>2. j \in Sent
        <3>1. i \in Items
            BY <2>1 DEF Made
        <3>2. j \in Items /\ j.timestamp = now /\ j.kind = i.kind
            BY <2>1, <3>1, ItemStamped, Zenon
        <3> HIDE DEF j
        <3> QED
            BY <2>1, <3>2 DEF Made, Sent
    <2> HIDE DEF j
    <2>3. \A e \in Devices : Append(net[e], j) \in Seq(Sent)
        BY <2>2, AppendProperties DEF TypeInv
    <2>4. net' \in [Devices -> Seq(Sent)]
        BY <1>8, <2>3 DEF AddSyncItem, TypeInv, j
    <2>5. calls' \in [Devices -> SUBSET Made] /\ \A e \in Devices : IsFiniteSet(calls'[e])
        BY <1>8, FS_RemoveElement DEF AddSyncItem, TypeInv
    <2> QED
        BY <1>8, <2>4, <2>5 DEF AddSyncItem, TypeInv, counters, Sent
<1>9. ASSUME NEW d \in Devices, NEW k \in DOMAIN net[d], ReceiveSyncItem(d, k)
      PROVE  TypeInv'
    <2> DEFINE i == net[d][k]
    <2>1. net[d] \in Seq(Sent)
        BY DEF TypeInv
    <2>2. WithoutItem(net[d], k) \in Seq(Sent) /\ i \in Sent
        BY <2>1, ItemTaken
    <2>3. i \in Items /\ i.timestamp \in 0..MaxNow
        BY <2>2, ItemFields DEF Sent, Made, TypeInv
    <2> HIDE DEF i
    <2>4. dev' \in [Devices -> Tables] /\ \A e \in Devices : Reserved \subseteq dev'[e].labels
        BY <1>0, <1>9, <2>3, ExecuteKeeps DEF ReceiveSyncItem, TypeInv, i
    <2>5. net' \in [Devices -> Seq(Sent)]
        BY <1>9, <2>2 DEF ReceiveSyncItem, TypeInv
    <2>6. newest' \in [Devices -> [Pairs -> 0..MaxNow]]
        BY <1>9, <2>3 DEF ReceiveSyncItem, TypeInv, i
    <2> QED
        BY <1>9, <2>4, <2>5, <2>6 DEF ReceiveSyncItem, TypeInv, counters, Sent
<1>10. ASSUME NEW d \in Devices, NEW m \in Msgs, ReceiveMsg(d, m)
       PROVE  TypeInv'
    <2>1. [dev[d] EXCEPT !.msgs = @ \cup {m}] \in Tables
        BY <1>0 DEF Tables
    <2>2. [dev[d] EXCEPT !.msgs = @ \cup {m}].labels = dev[d].labels
        BY <1>0 DEF Tables
    <2>3. dev' \in [Devices -> Tables] /\ \A e \in Devices : Reserved \subseteq dev'[e].labels
        BY <1>10, <2>1, <2>2 DEF ReceiveMsg, TypeInv
    <2> QED
        BY <1>10, <2>3 DEF ReceiveMsg, TypeInv, counters, Sent
<1>11. ASSUME NEW d \in Devices, DrainPending(d)
       PROVE  TypeInv'
    <2>1. draining[d] \in Msgs
        BY <1>11 DEF DrainPending, TypeInv
    <2>2. dev' \in [Devices -> Tables] /\ \A e \in Devices : Reserved \subseteq dev'[e].labels
        BY <1>0, <1>11, <2>1, DrainKeeps DEF DrainPending, TypeInv
    <2> QED
        BY <1>11, <2>2 DEF DrainPending, TypeInv, counters, Sent
<1>12. ASSUME NEW d \in Devices, Prune(d)
       PROVE  TypeInv'
    <2>1. [dev[d] EXCEPT !.parked = @ \ Expired(d)] \in Tables
        BY <1>0 DEF Tables
    <2>2. [dev[d] EXCEPT !.parked = @ \ Expired(d)].labels = dev[d].labels
        BY <1>0 DEF Tables
    <2>3. dev' \in [Devices -> Tables] /\ \A e \in Devices : Reserved \subseteq dev'[e].labels
        BY <1>12, <2>1, <2>2 DEF Prune, TypeInv
    <2>4. newest' \in [Devices -> [Pairs -> 0..MaxNow]]
        BY <1>12 DEF Prune, TypeInv
    <2> QED
        BY <1>12, <2>3, <2>4 DEF Prune, TypeInv, counters, Sent
<1>13. ASSUME NEW d \in Devices, Lose(d)
       PROVE  TypeInv'
    <2>1. Tail(net[d]) \in Seq(Sent)
        BY <1>13, HeadTailProperties DEF Lose, TypeInv
    <2> QED
        BY <1>13, <2>1 DEF Lose, TypeInv, Sent
<1>14. ASSUME NEW d \in Devices, Crash(d)
       PROVE  TypeInv'
    BY <1>14, FS_EmptySet DEF Crash, TypeInv, Sent
<1>15. CASE Next
    BY <1>2, <1>3, <1>4, <1>5, <1>6, <1>7, <1>8, <1>9, <1>10, <1>11, <1>12, <1>13, <1>14, <1>15
    DEF Next, UserStep, InboxStep
<1> QED
    BY <1>1, <1>15

----------------------------------------------------------------------------
(***************************************************************************)
(* The latest change wins.                                                 *)
(***************************************************************************)

\* Labels keep their names: a row that was parked under one stays under it.
NamesStay == Kinds \cap {"rename", "delete"} = {}

\* What a device was sent about a message that is not here is in a parked row, and
\* that row is the latest.
ParkInv ==
    /\ \A d \in Devices : draining[d] # NoMsg => draining[d] \in dev[d].msgs
    /\ \A d \in Devices : \A p \in dev[d].parked :
          p.msg \notin dev[d].msgs => p.timestamp = newest[d][<<p.msg, p.label>>]
    /\ \A d \in Devices : \A m \in Msgs \ dev[d].msgs, n \in Names :
          newest[d][<<m, n>>] # 0 => \E p \in dev[d].parked : p.msg = m /\ p.label = n

\* A step that parks nothing and takes no message away.
LEMMA ParkFrame ==
    ASSUME ParkInv, UNCHANGED newest, UNCHANGED draining,
           \A d \in Devices : dev'[d].parked = dev[d].parked /\ dev'[d].msgs = dev[d].msgs
    PROVE  ParkInv'
BY DEF ParkInv

\* A change of the user leaves parked changes and the messages alone.
LEMMA ChangeFrame ==
    ASSUME TypeInv, ParkInv, NEW d \in Devices, NEW s, NEW i, Change(d, s, i),
           s.parked = dev[d].parked, s.msgs = dev[d].msgs
    PROVE  ParkInv'
BY ParkFrame DEF Change, TypeInv

\* A sync item that arrives: the rows it parks are the latest for their messages.
LEMMA ReceivePark ==
    ASSUME NamesStay, TypeInv, ParkInv, NEW d \in Devices, NEW k \in DOMAIN net[d],
           ReceiveSyncItem(d, k)
    PROVE  ParkInv'
<1> DEFINE i == net[d][k]
           s == dev[d]
           old == newest[d]
<1>1. i \in Sent
    BY ItemTaken DEF TypeInv
<1>2. i \in Items /\ i.kind \in {"create", "color", "apply"} /\ i.timestamp \in Nat
    BY <1>1, ItemFields DEF Sent, Made, NamesStay
<1>3. s \in Tables /\ Reserved \subseteq s.labels /\ old \in [Pairs -> 0..MaxNow]
    BY DEF TypeInv
<1>4. dev' = [dev EXCEPT ![d] = ExecuteSyncItem(s, i)]
    BY DEF ReceiveSyncItem
<1>5. newest' = [newest EXCEPT ![d] = [p \in Pairs |->
                    IF p \in Sends(i) /\ i.timestamp > old[p] THEN i.timestamp ELSE old[p]]]
    BY DEF ReceiveSyncItem
<1>6. UNCHANGED draining
    BY DEF ReceiveSyncItem
<1> HIDE DEF i
<1>7. CASE i.kind \in {"create", "color"}
    <2>1. /\ ExecuteSyncItem(s, i).parked = s.parked
          /\ ExecuteSyncItem(s, i).msgs = s.msgs
        BY <1>2, <1>3, <1>7, ExecuteKeeps
    <2>2. Sends(i) = {}
        BY <1>7 DEF Sends
    <2>3. newest' = newest
        BY <1>3, <1>5, <2>2 DEF TypeInv
    <2> QED
        BY <1>4, <1>6, <2>1, <2>3, ParkFrame DEF TypeInv
<1>8. CASE i.kind = "apply"
    <2> DEFINE M == i.msgs \ s.msgs
               n == i.name
               b == i.apply
               ts == i.timestamp
    <2>1. /\ M \in SUBSET Msgs /\ n \in Names /\ b \in BOOLEAN /\ ts \in Nat
          /\ i.msgs \in SUBSET Msgs
        BY <1>2, <1>8, ItemFields
    <2>2. PICK t \in Tables :
              ExecuteSyncItem(s, i) = Park(t, M, n, b, ts) /\ t.parked = s.parked
        BY <1>2, <1>3, <1>8, ExecuteKeeps
    <2>3. ExecuteSyncItem(s, i).msgs = s.msgs
        BY <1>2, <1>3, ExecuteKeeps
    <2>4. Sends(i) = i.msgs \X {n}
        BY <1>8 DEF Sends
    <2> HIDE DEF n, b, ts
    <2>5. Park(t, M, n, b, ts).parked = RowsAfter(t, M, n, b, ts)
        BY <2>1, ParkKeeps
    <2>6. RowsAfter(t, M, n, b, ts) = RowsAfter(s, M, n, b, ts)
        BY <2>2 DEF RowsAfter, Newly
    <2> DEFINE rows == RowsAfter(s, M, n, b, ts)
               new == Newly(s, M, n, ts)
    <2>7. dev'[d].parked = rows /\ dev'[d].msgs = s.msgs
        BY <1>4, <2>2, <2>3, <2>5, <2>6 DEF TypeInv
    <2>8. \A m \in Msgs, l \in Names :
             newest'[d][<<m, l>>] =
                 IF m \in i.msgs /\ l = n /\ ts > old[<<m, l>>] THEN ts ELSE old[<<m, l>>]
        BY <1>3, <1>5, <2>4 DEF TypeInv, Pairs, ts
    <2>9. \A p \in s.parked : /\ p \in Parked
                              /\ p.msg \in Msgs /\ p.label \in Names /\ p.timestamp \in Nat
                              /\ p.msg \notin s.msgs => p.timestamp = old[<<p.msg, p.label>>]
        BY <1>3 DEF Tables, Parked, ParkInv
    <2>10. \A m \in Msgs, l \in Names : old[<<m, l>>] \in Nat
        BY <1>3, BoundsAssumption DEF Pairs
    <2>11. \A m \in Msgs \ s.msgs, l \in Names :
              old[<<m, l>>] # 0 => \E p \in s.parked : p.msg = m /\ p.label = l
        BY DEF ParkInv
    <2> HIDE DEF old
    <2>12. ASSUME NEW p \in rows, p.msg \notin s.msgs
           PROVE  p.timestamp = newest'[d][<<p.msg, p.label>>]
        <3>1. CASE p \in s.parked /\ (p.msg \notin new \/ p.label # n)
            BY <2>1, <2>8, <2>9, <2>10, <2>12, <3>1 DEF Newly
        <3>2. CASE \E m \in new : p = [msg |-> m, label |-> n, apply |-> b, timestamp |-> ts]
            <4>1. PICK m \in new : p = [msg |-> m, label |-> n, apply |-> b, timestamp |-> ts]
                BY <3>2
            <4>2. p.msg = m /\ p.label = n /\ p.timestamp = ts /\ m \in M /\ m \in Msgs
                BY <2>1, <4>1 DEF Newly
            <4>3. ~(old[<<m, n>>] > ts)
                BY <2>1, <2>9, <2>10, <2>11, <2>12, <4>2 DEF Newly
            <4> QED
                BY <2>1, <2>8, <2>10, <4>2, <4>3
        <3> QED
            BY <2>12, <3>1, <3>2 DEF RowsAfter
    <2>13. ASSUME NEW m \in Msgs \ s.msgs, NEW l \in Names, newest'[d][<<m, l>>] # 0
           PROVE  \E p \in rows : p.msg = m /\ p.label = l
        <3>1. CASE m \in new /\ l = n
            <4> DEFINE q == [msg |-> m, label |-> n, apply |-> b, timestamp |-> ts]
            <4>1. q \in rows
                BY <3>1 DEF RowsAfter
            <4>2. q.msg = m /\ q.label = n
                OBVIOUS
            <4> QED
                BY <3>1, <4>1, <4>2
        <3>2. CASE ~(m \in new /\ l = n)
            <4>1. \E p \in s.parked : p.msg = m /\ p.label = l
                BY <2>1, <2>8, <2>11, <2>13, <3>2 DEF Newly
            <4> QED
                BY <3>2, <4>1 DEF RowsAfter
        <3> QED
            BY <3>1, <3>2
    <2> HIDE DEF rows
    <2>14. \A e \in Devices \ {d} : dev'[e] = dev[e] /\ newest'[e] = newest[e]
        BY <1>4, <1>5 DEF TypeInv
    <2>15. \A e \in Devices : draining'[e] # NoMsg => draining'[e] \in dev'[e].msgs
        BY <1>6, <2>7, <2>14 DEF ParkInv
    <2>16. \A e \in Devices : \A p \in dev'[e].parked :
              p.msg \notin dev'[e].msgs => p.timestamp = newest'[e][<<p.msg, p.label>>]
        BY <2>7, <2>12, <2>14 DEF ParkInv
    <2>17. \A e \in Devices : \A m \in Msgs \ dev'[e].msgs, l \in Names :
              newest'[e][<<m, l>>] # 0 => \E p \in dev'[e].parked : p.msg = m /\ p.label = l
        BY <2>7, <2>13, <2>14 DEF ParkInv
    <2> QED
        BY <2>15, <2>16, <2>17 DEF ParkInv
<1> QED
    BY <1>2, <1>7, <1>8

\* Every step keeps what is parked the latest there was.
LEMMA ParkNext == NamesStay /\ TypeInv /\ ParkInv /\ [Next]_vars => ParkInv'
<1> SUFFICES ASSUME NamesStay, TypeInv, ParkInv, [Next]_vars PROVE ParkInv'
    OBVIOUS
<1>0. ASSUME NEW d \in Devices PROVE dev[d] \in Tables
    BY <1>0 DEF TypeInv
<1>1. CASE UNCHANGED vars
    BY <1>1, ParkFrame DEF vars
<1>2. CASE Tick
    BY <1>2, ParkFrame DEF Tick
<1>3. ASSUME NEW d \in Devices, NEW n \in Names, NEW c \in Colors, Create(d, n, c)
      PROVE  ParkInv'
    BY <1>0, <1>3, CreateKeeps, ChangeFrame DEF Create
<1>4. ASSUME NEW d \in Devices, NEW n \in Names, NEW to \in Names, Rename(d, n, to)
      PROVE  FALSE
    BY <1>4 DEF Rename, Change, NamesStay
<1>5. ASSUME NEW d \in Devices, NEW n \in Names, NEW c \in Colors, SetColor(d, n, c)
      PROVE  ParkInv'
    BY <1>0, <1>5, SetColorKeeps, ChangeFrame DEF SetColor
<1>6. ASSUME NEW d \in Devices, NEW n \in Names, Delete(d, n)
      PROVE  FALSE
    BY <1>6 DEF Delete, Change, NamesStay
<1>7. ASSUME NEW d \in Devices, NEW M \in SUBSET dev[d].msgs, NEW n \in Names, NEW b \in BOOLEAN,
             Apply(d, M, n, b)
      PROVE  ParkInv'
    <2>1. M \in SUBSET Msgs
        BY <1>0 DEF Tables
    <2> QED
        BY <1>0, <1>7, <2>1, SetKeeps, ChangeFrame DEF Apply
<1>8. ASSUME NEW d \in Devices, NEW i \in calls[d], AddSyncItem(d, i)
      PROVE  ParkInv'
    BY <1>8, ParkFrame DEF AddSyncItem
<1>9. ASSUME NEW d \in Devices, NEW k \in DOMAIN net[d], ReceiveSyncItem(d, k)
      PROVE  ParkInv'
    BY <1>9, ReceivePark
<1>10. ASSUME NEW d \in Devices, NEW m \in Msgs, ReceiveMsg(d, m)
       PROVE  ParkInv'
    <2>1. \A e \in Devices :
             /\ dev'[e].parked = dev[e].parked
             /\ dev'[e].msgs = IF e = d THEN dev[e].msgs \cup {m} ELSE dev[e].msgs
             /\ draining'[e] = IF e = d THEN m ELSE draining[e]
        BY <1>0, <1>10 DEF ReceiveMsg, TypeInv, Tables
    <2>2. newest' = newest
        BY <1>10 DEF ReceiveMsg
    <2>3. \A e \in Devices : dev[e].msgs \subseteq dev'[e].msgs /\ dev'[e].parked = dev[e].parked
        BY <2>1
    <2>4. \A e \in Devices : draining'[e] # NoMsg => draining'[e] \in dev'[e].msgs
        <3> SUFFICES ASSUME NEW e \in Devices, draining'[e] # NoMsg
                     PROVE  draining'[e] \in dev'[e].msgs
            OBVIOUS
        <3>1. CASE e = d
            BY <2>1, <3>1
        <3>2. CASE e # d
            BY <2>1, <3>2 DEF ParkInv
        <3> QED
            BY <3>1, <3>2
    <2>5. \A e \in Devices : \A p \in dev'[e].parked :
             p.msg \notin dev'[e].msgs => p.timestamp = newest'[e][<<p.msg, p.label>>]
        BY <2>2, <2>3 DEF ParkInv
    <2>6. \A e \in Devices : \A n \in Msgs \ dev'[e].msgs, l \in Names :
             newest'[e][<<n, l>>] # 0 => \E p \in dev'[e].parked : p.msg = n /\ p.label = l
        BY <2>2, <2>3 DEF ParkInv
    <2> QED
        BY <2>4, <2>5, <2>6 DEF ParkInv
<1>11. ASSUME NEW d \in Devices, DrainPending(d)
       PROVE  ParkInv'
    <2>1. draining[d] \in Msgs /\ draining[d] \in dev[d].msgs
        BY <1>11 DEF DrainPending, TypeInv, ParkInv
    <2>2. /\ Drain(dev[d], draining[d]).msgs = dev[d].msgs
          /\ Drain(dev[d], draining[d]).parked = {p \in dev[d].parked : p.msg # draining[d]}
        BY <1>0, <2>1, DrainKeeps
    <2>3. \A e \in Devices :
             /\ dev'[e].msgs = dev[e].msgs
             /\ dev'[e].parked = IF e = d THEN {p \in dev[e].parked : p.msg # draining[d]}
                                 ELSE dev[e].parked
             /\ draining'[e] = IF e = d THEN NoMsg ELSE draining[e]
        BY <1>11, <2>2 DEF DrainPending, TypeInv
    <2>4. newest' = newest
        BY <1>11 DEF DrainPending
    <2>5. \A e \in Devices :
             /\ dev'[e].parked \subseteq dev[e].parked
             /\ \A p \in dev[e].parked : p.msg \notin dev[e].msgs => p \in dev'[e].parked
        <3> SUFFICES ASSUME NEW e \in Devices
                     PROVE  /\ dev'[e].parked \subseteq dev[e].parked
                            /\ \A p \in dev[e].parked :
                                  p.msg \notin dev[e].msgs => p \in dev'[e].parked
            OBVIOUS
        <3>1. CASE e = d
            BY <2>1, <2>3, <3>1
        <3>2. CASE e # d
            BY <2>3, <3>2
        <3> QED
            BY <3>1, <3>2
    <2>6. \A e \in Devices : draining'[e] # NoMsg => draining'[e] \in dev'[e].msgs
        <3> SUFFICES ASSUME NEW e \in Devices, draining'[e] # NoMsg
                     PROVE  draining'[e] \in dev'[e].msgs
            OBVIOUS
        <3>1. e # d
            BY <2>3
        <3> QED
            BY <2>3, <3>1 DEF ParkInv
    <2>7. \A e \in Devices : \A p \in dev'[e].parked :
             p.msg \notin dev'[e].msgs => p.timestamp = newest'[e][<<p.msg, p.label>>]
        <3>1. \A e \in Devices : dev'[e].msgs = dev[e].msgs
            BY <2>3
        <3> QED
            BY <2>4, <2>5, <3>1 DEF ParkInv
    <2>8. \A e \in Devices : \A m \in Msgs \ dev'[e].msgs, l \in Names :
             newest'[e][<<m, l>>] # 0 => \E p \in dev'[e].parked : p.msg = m /\ p.label = l
        <3>1. \A e \in Devices : dev'[e].msgs = dev[e].msgs
            BY <2>3
        <3> SUFFICES ASSUME NEW e \in Devices, NEW m \in Msgs \ dev'[e].msgs, NEW l \in Names,
                            newest'[e][<<m, l>>] # 0
                     PROVE  \E p \in dev'[e].parked : p.msg = m /\ p.label = l
            OBVIOUS
        <3>2. PICK p \in dev[e].parked : p.msg = m /\ p.label = l
            BY <2>4, <3>1 DEF ParkInv
        <3> QED
            BY <2>5, <3>1, <3>2
    <2> QED
        BY <2>6, <2>7, <2>8 DEF ParkInv
<1>12. ASSUME NEW d \in Devices, Prune(d)
       PROVE  ParkInv'
    <2> DEFINE gone == Expired(d)
    <2>1. \A e \in Devices :
             /\ dev'[e].msgs = dev[e].msgs
             /\ dev'[e].parked = IF e = d THEN dev[e].parked \ gone ELSE dev[e].parked
             /\ draining'[e] = draining[e]
        BY <1>0, <1>12 DEF Prune, TypeInv, Tables
    <2>2. \A e \in Devices, m \in Msgs, l \in Names :
             newest'[e][<<m, l>>] =
                 IF e = d /\ \E q \in gone : <<m, l>> = <<q.msg, q.label>> THEN 0
                 ELSE newest[e][<<m, l>>]
        BY <1>12 DEF Prune, TypeInv, Pairs
    <2>4. \A p \in dev[d].parked, q \in gone :
             p.timestamp = q.timestamp => p \in gone
        BY DEF Expired
    <2>5. gone \subseteq dev[d].parked
        BY DEF Expired
    <2> HIDE DEF gone
    <2>6. \A e \in Devices : \A p \in dev'[e].parked :
             p.msg \notin dev'[e].msgs => p.timestamp = newest'[e][<<p.msg, p.label>>]
        <3> SUFFICES ASSUME NEW e \in Devices, NEW p \in dev'[e].parked, p.msg \notin dev'[e].msgs
                     PROVE  p.timestamp = newest'[e][<<p.msg, p.label>>]
            OBVIOUS
        <3>1. p \in dev[e].parked /\ p.msg \notin dev[e].msgs /\ p.msg \in Msgs /\ p.label \in Names
            <4>1. dev'[e].parked \subseteq dev[e].parked /\ dev'[e].msgs = dev[e].msgs
                BY <2>1
            <4>2. dev[e].parked \subseteq Parked
                BY <1>0 DEF Tables
            <4>3. p \in Parked
                BY <4>1, <4>2
            <4> QED
                BY <4>1, <4>3 DEF Parked
        <3>2. p.timestamp = newest[e][<<p.msg, p.label>>]
            BY <3>1 DEF ParkInv
        <3>3. CASE e = d
            <4>1. p \notin gone
                BY <2>1, <3>3
            <4>2. ASSUME NEW q \in gone, <<p.msg, p.label>> = <<q.msg, q.label>> PROVE FALSE
                <5>1. q.msg = p.msg /\ q.label = p.label /\ q \in dev[d].parked
                    BY <2>5, <4>2
                <5>2. q.timestamp = newest[d][<<p.msg, p.label>>]
                    BY <3>1, <3>3, <5>1 DEF ParkInv
                <5> QED
                    BY <2>4, <3>1, <3>2, <3>3, <4>1, <5>2
            <4> QED
                BY <2>2, <3>1, <3>2, <4>2
        <3>4. CASE e # d
            BY <2>2, <3>1, <3>2, <3>4
        <3> QED
            BY <3>3, <3>4
    <2>7. \A e \in Devices : \A m \in Msgs \ dev'[e].msgs, l \in Names :
             newest'[e][<<m, l>>] # 0 => \E p \in dev'[e].parked : p.msg = m /\ p.label = l
        <3> SUFFICES ASSUME NEW e \in Devices, NEW m \in Msgs \ dev'[e].msgs, NEW l \in Names,
                            newest'[e][<<m, l>>] # 0
                     PROVE  \E p \in dev'[e].parked : p.msg = m /\ p.label = l
            OBVIOUS
        <3>1. m \in Msgs \ dev[e].msgs
            BY <2>1
        <3>2. /\ newest[e][<<m, l>>] # 0
              /\ ~(e = d /\ \E q \in gone : <<m, l>> = <<q.msg, q.label>>)
            BY <2>2
        <3>3. PICK p \in dev[e].parked : p.msg = m /\ p.label = l
            BY <3>1, <3>2 DEF ParkInv
        <3>4. CASE e = d
            <4>1. p \notin gone
                BY <3>2, <3>3, <3>4
            <4> QED
                BY <2>1, <3>3, <3>4, <4>1
        <3>5. CASE e # d
            BY <2>1, <3>3, <3>5
        <3> QED
            BY <3>4, <3>5
    <2>8. \A e \in Devices : draining'[e] # NoMsg => draining'[e] \in dev'[e].msgs
        BY <2>1 DEF ParkInv
    <2> QED
        BY <2>6, <2>7, <2>8 DEF ParkInv
<1>13. ASSUME NEW d \in Devices, Lose(d)
       PROVE  ParkInv'
    BY <1>13, ParkFrame DEF Lose
<1>14. ASSUME NEW d \in Devices, Crash(d)
       PROVE  ParkInv'
    BY <1>14 DEF Crash, ParkInv, TypeInv
<1>15. CASE Next
    BY <1>2, <1>3, <1>4, <1>5, <1>6, <1>7, <1>8, <1>9, <1>10, <1>11, <1>12, <1>13, <1>14, <1>15
    DEF Next, UserStep, InboxStep
<1> QED
    BY <1>1, <1>15

----------------------------------------------------------------------------
(***************************************************************************)
(* What label sync promises.                                               *)
(***************************************************************************)

\* A new account is well typed.
LEMMA TypeInit == Init => TypeInv
<1> SUFFICES ASSUME Init PROVE TypeInv
    OBVIOUS
<1>1. NewAccount \in Tables /\ NewAccount.labels = Reserved
    BY NamesAssumption DEF NewAccount, Tables
<1>2. <<>> \in Seq(Sent)
    BY EmptySeq
<1>3. newest \in [Devices -> [Pairs -> 0..MaxNow]]
    BY BoundsAssumption DEF Init
<1> HIDE DEF NewAccount
<1> QED
    BY <1>1, <1>2, <1>3, BoundsAssumption, FS_EmptySet DEF Init, TypeInv

\* The queues hold sync items, and nothing else.
LEMMA TypeImplied == TypeInv => TypeOK
<1> SUFFICES ASSUME TypeInv PROVE TypeOK
    OBVIOUS
<1>1. Sent \subseteq Items /\ Made \subseteq Items
    BY DEF Sent, Made
<1>2. \A d \in Devices : net[d] \in Seq(Items)
    BY <1>1, WiderQueue DEF TypeInv
<1>3. \A d \in Devices : calls[d] \subseteq Items
    BY <1>1 DEF TypeInv
<1> QED
    BY <1>2, <1>3 DEF TypeInv, TypeOK

\* Every reachable state is well typed: in particular no sync item, however late or out
\* of order, takes a reserved label away or leaves a row that the tables do not allow.
THEOREM TypeCorrect == Spec => []TypeOK
BY TypeInit, TypeNext, TypeImplied, PTL DEF Spec

\* "Latest timestamp wins": as long as labels keep their names, no order in which sync
\* items arrive, and no loss, death, clean-up or clock, leaves an older change parked for a
\* message where a newer one was sent to the device.
THEOREM LatestWins == ASSUME NamesStay PROVE Spec => []LabelsSafe
<1>1. Init => ParkInv
    BY DEF Init, ParkInv, NewAccount, Pairs
<1>2. TypeInv /\ ParkInv /\ [Next]_vars => ParkInv'
    BY ParkNext
<1>3. TypeInv /\ ParkInv => LabelsSafe
    BY TypeImplied DEF LabelsSafe, ParkedLatest, ParkInv
<1> QED
    BY <1>1, <1>2, <1>3, TypeInit, TypeNext, PTL DEF Spec

----------------------------------------------------------------------------
(***************************************************************************)
(* The laptop follows the phone: what a change makes of what is shown.     *)
(***************************************************************************)

\* The change i, made where v is shown, shows i.after.
Leads(v, i) ==
    \/ /\ i.kind = "create" /\ i.name \notin v.labels
       /\ i.after = [labels |-> v.labels \cup {i.name}, color |-> [v.color EXCEPT ![i.name] = i.color],
                     applied |-> v.applied]
    \/ /\ i.kind = "color" /\ i.name \in v.labels
       /\ i.after = [labels |-> v.labels, color |-> [v.color EXCEPT ![i.name] = i.color],
                     applied |-> v.applied]
    \/ /\ i.kind = "rename" /\ CanRename(v, i.name, i.to)
       /\ i.after = [labels |-> {IF n = i.name THEN i.to ELSE n : n \in v.labels},
                     color |-> [v.color EXCEPT ![i.name] = NoColor, ![i.to] = v.color[i.name]],
                     applied |-> {<<p[1], IF p[2] = i.name THEN i.to ELSE p[2]>> : p \in v.applied}]
    \/ /\ i.kind = "delete" /\ i.name \in v.labels \ Reserved
       /\ i.after = [labels |-> v.labels \ {i.name}, color |-> [v.color EXCEPT ![i.name] = NoColor],
                     applied |-> {p \in v.applied : p[2] # i.name}]
    \/ /\ i.kind = "apply" /\ i.name \in v.labels
       /\ i.after = [labels |-> v.labels, color |-> v.color,
                     applied |-> IF i.apply THEN v.applied \cup (i.msgs \X {i.name})
                                 ELSE v.applied \ (i.msgs \X {i.name})]

\* A device's rows are of labels it has, and one for a message and label is parked.
Sound(s) ==
    /\ \A p \in s.applied : p[2] \in s.labels
    /\ \A p \in s.parked : p.label \in s.labels
    /\ \A p, q \in s.parked : p.msg = q.msg /\ p.label = q.label => p = q

\* What is parked is for messages that are not here, and is no later than ts.
ParkedBefore(s, ts) == \A p \in s.parked : p.msg \notin s.msgs /\ p.timestamp <= ts

\* The parts of what is shown.
LEMMA ViewFields ==
    ASSUME NEW s \in Tables
    PROVE  /\ ViewOf(s).labels = s.labels
           /\ ViewOf(s).color = s.color
           /\ ViewOf(s).applied = (s.applied \cup ParkedPairs(s.parked, TRUE)) \ ParkedPairs(s.parked, FALSE)
BY DEF ViewOf

\* With nothing parked it is the tables that are shown.
LEMMA NothingParked ==
    ASSUME NEW s \in Tables, s.parked = {}
    PROVE  ViewOf(s).labels = s.labels /\ ViewOf(s).color = s.color /\ ViewOf(s).applied = s.applied
BY DEF ViewOf, ParkedPairs

\* A new label, or a colour, shows as it is.
LEMMA CreateShows ==
    ASSUME NEW s \in Tables, Sound(s), NEW n \in Names, NEW c \in Colors, n \notin s.labels
    PROVE  /\ ViewOf(CreateExt(s, n, c)) = [labels |-> s.labels \cup {n}, color |-> [s.color EXCEPT ![n] = c],
                                           applied |-> ViewOf(s).applied]
           /\ Sound(CreateExt(s, n, c))
<1> DEFINE L == s.labels \cup {n}
           C == [s.color EXCEPT ![n] = c]
           t == CreateExt(s, n, c)
<1>1. t.labels = L /\ t.color = C /\ t.applied = s.applied /\ t.parked = s.parked
    BY DEF CreateExt, Tables
<1> HIDE DEF t, C
<1>2. ViewOf(t) = [labels |-> L, color |-> C, applied |-> ViewOf(s).applied]
    BY <1>1 DEF ViewOf
<1>3. Sound(t)
    BY <1>1 DEF Sound
<1> QED
    BY <1>2, <1>3 DEF t, C

\* Setting a colour shows that colour and leaves the rest as it was.
LEMMA ColorShows ==
    ASSUME NEW s \in Tables, Sound(s), NEW n \in Names, NEW c \in Colors
    PROVE  /\ ViewOf(SetColorExt(s, n, c)) = [labels |-> s.labels, color |-> [s.color EXCEPT ![n] = c],
                                             applied |-> ViewOf(s).applied]
           /\ Sound(SetColorExt(s, n, c))
<1> DEFINE C == [s.color EXCEPT ![n] = c]
           t == SetColorExt(s, n, c)
<1>1. t.labels = s.labels /\ t.color = C /\ t.applied = s.applied /\ t.parked = s.parked
    BY DEF SetColorExt, Tables
<1> HIDE DEF t, C
<1>2. ViewOf(t) = [labels |-> s.labels, color |-> C, applied |-> ViewOf(s).applied]
    BY <1>1 DEF ViewOf
<1>3. Sound(t)
    BY <1>1 DEF Sound
<1> QED
    BY <1>2, <1>3 DEF t, C

\* Deleting a label takes what is parked for it too.
LEMMA DeleteShows ==
    ASSUME NEW s \in Tables, Sound(s), NEW n \in s.labels \ Reserved
    PROVE  /\ ViewOf(DeleteExt(s, n)) = [labels |-> s.labels \ {n}, color |-> [s.color EXCEPT ![n] = NoColor],
                                        applied |-> {p \in ViewOf(s).applied : p[2] # n}]
           /\ Sound(DeleteExt(s, n))
           /\ DeleteExt(s, n).parked \subseteq s.parked
<1> DEFINE L == s.labels \ {n}
           C == [s.color EXCEPT ![n] = NoColor]
           A == {p \in s.applied : p[2] # n}
           P == {p \in s.parked : p.label # n}
           t == DeleteExt(s, n)
<1>1. t.labels = L /\ t.color = C /\ t.applied = A /\ t.parked = P
    BY DEF DeleteExt, Tables
<1> HIDE DEF t, C
<1>2. \A b \in BOOLEAN : ParkedPairs(P, b) = {p \in ParkedPairs(s.parked, b) : p[2] # n}
    BY DEF ParkedPairs
<1>3. (A \cup ParkedPairs(P, TRUE)) \ ParkedPairs(P, FALSE) = {p \in ViewOf(s).applied : p[2] # n}
    BY <1>2, ViewFields
<1>4. ViewOf(t) = [labels |-> L, color |-> C, applied |-> {p \in ViewOf(s).applied : p[2] # n}]
    BY <1>1, <1>3 DEF ViewOf
<1>5. Sound(t)
    BY <1>1 DEF Sound
<1> QED
    BY <1>1, <1>4, <1>5 DEF t, C

\* Renaming moves what is parked for the label with it; no two labels become one.
LEMMA RenameShows ==
    ASSUME NEW s \in Tables, Sound(s), NEW n \in Names, NEW to \in Names, CanRename(s, n, to)
    PROVE  /\ ViewOf(RenameExt(s, n, to)) =
                [labels |-> {IF m = n THEN to ELSE m : m \in s.labels},
                 color |-> [s.color EXCEPT ![n] = NoColor, ![to] = s.color[n]],
                 applied |-> {<<p[1], IF p[2] = n THEN to ELSE p[2]>> : p \in ViewOf(s).applied}]
           /\ Sound(RenameExt(s, n, to))
           /\ \A p \in RenameExt(s, n, to).parked : \E q \in s.parked : p.msg = q.msg /\ p.timestamp = q.timestamp
<1> DEFINE R(m) == IF m = n THEN to ELSE m
           L == {R(m) : m \in s.labels}
           C == [s.color EXCEPT ![n] = NoColor, ![to] = s.color[n]]
           A == {<<p[1], R(p[2])>> : p \in s.applied}
           P == {[p EXCEPT !.label = R(@)] : p \in s.parked}
           t == RenameExt(s, n, to)
           V == ViewOf(s).applied
           VR == {<<p[1], R(p[2])>> : p \in V}
<1>1. t.labels = L /\ t.color = C /\ t.applied = A /\ t.parked = P
    <2>1. t = [s EXCEPT !.labels = L, !.color = C, !.applied = A, !.parked = P]
        BY DEF RenameExt
    <2> HIDE DEF L, C, A, P
    <2> QED
        BY <2>1 DEF Tables
<1>2. \A l, m \in s.labels : R(l) = R(m) => l = m
    BY DEF CanRename
<1>3. \A p \in s.parked : /\ [p EXCEPT !.label = R(@)].msg = p.msg /\ [p EXCEPT !.label = R(@)].label = R(p.label)
                          /\ [p EXCEPT !.label = R(@)].apply = p.apply
                          /\ [p EXCEPT !.label = R(@)].timestamp = p.timestamp
                          /\ p.label \in s.labels /\ p.apply \in BOOLEAN
    BY DEF Tables, Parked, Sound
<1>4. \A p \in s.applied : p = <<p[1], p[2]>> /\ p[2] \in s.labels
    BY DEF Tables, Pairs, Sound
<1> HIDE DEF R
<1>5. \A b \in BOOLEAN : ParkedPairs(P, b) = {<<p[1], R(p[2])>> : p \in ParkedPairs(s.parked, b)}
    <2> TAKE b \in BOOLEAN
    <2>1. ASSUME NEW x \in ParkedPairs(P, b) PROVE x \in {<<p[1], R(p[2])>> : p \in ParkedPairs(s.parked, b)}
        <3>1. PICK q \in P : q.apply = b /\ x = <<q.msg, q.label>>
            BY <2>1 DEF ParkedPairs
        <3>2. PICK p \in s.parked : q = [p EXCEPT !.label = R(@)]
            BY <3>1
        <3>3. x = <<p.msg, R(p.label)>> /\ p.apply = b
            BY <1>3, <3>1, <3>2
        <3>4. <<p.msg, p.label>> \in ParkedPairs(s.parked, b)
            BY <3>3 DEF ParkedPairs
        <3> QED
            BY <3>3, <3>4
    <2>2. ASSUME NEW x \in {<<p[1], R(p[2])>> : p \in ParkedPairs(s.parked, b)} PROVE x \in ParkedPairs(P, b)
        <3>1. PICK p \in s.parked : p.apply = b /\ x = <<p.msg, R(p.label)>>
            BY <2>2 DEF ParkedPairs
        <3>2. [p EXCEPT !.label = R(@)] \in P
            OBVIOUS
        <3> HIDE DEF P
        <3> QED
            BY <1>3, <3>1, <3>2 DEF ParkedPairs
    <2> QED
        BY <2>1, <2>2
<1>6. \A b \in BOOLEAN : \A x \in ParkedPairs(s.parked, b) : x = <<x[1], x[2]>> /\ x[2] \in s.labels
    BY <1>3 DEF ParkedPairs
<1>7. \A x, y \in s.applied \cup ParkedPairs(s.parked, TRUE) \cup ParkedPairs(s.parked, FALSE) :
         <<x[1], R(x[2])>> = <<y[1], R(y[2])>> => x = y
    <2>1. \A x \in s.applied \cup ParkedPairs(s.parked, TRUE) \cup ParkedPairs(s.parked, FALSE) :
             x = <<x[1], x[2]>> /\ x[2] \in s.labels
        BY <1>4, <1>6
    <2> QED
        BY <1>2, <2>1
<1>8. V = (s.applied \cup ParkedPairs(s.parked, TRUE)) \ ParkedPairs(s.parked, FALSE)
    BY ViewFields
<1>9. (A \cup ParkedPairs(P, TRUE)) \ ParkedPairs(P, FALSE) = VR
    <2> DEFINE T == ParkedPairs(s.parked, TRUE)
               F == ParkedPairs(s.parked, FALSE)
               TR == {<<p[1], R(p[2])>> : p \in T}
               FR == {<<p[1], R(p[2])>> : p \in F}
    <2>1. ParkedPairs(P, TRUE) = TR /\ ParkedPairs(P, FALSE) = FR
        BY <1>5
    <2> HIDE DEF T, F, V, P
    <2>2. VR = (A \cup TR) \ FR
        BY <1>7, <1>8 DEF T, F
    <2> QED
        BY <2>1, <2>2
<1>10. Sound(t)
    <2>1. \A p \in A : p[2] \in L
        BY <1>4
    <2>2. \A p \in P : p.label \in L
        BY <1>3
    <2>3. ASSUME NEW p \in P, NEW q \in P, p.msg = q.msg, p.label = q.label PROVE p = q
        <3>1. PICK x \in s.parked : p = [x EXCEPT !.label = R(@)]
            OBVIOUS
        <3>2. PICK y \in s.parked : q = [y EXCEPT !.label = R(@)]
            OBVIOUS
        <3>3. x.msg = y.msg /\ R(x.label) = R(y.label)
            BY <1>3, <2>3, <3>1, <3>2
        <3>4. x = y
            BY <1>2, <1>3, <3>3 DEF Sound
        <3> QED
            BY <3>1, <3>2, <3>4
    <2> HIDE DEF A, P, L, t
    <2> QED
        BY <1>1, <2>1, <2>2, <2>3 DEF Sound
<1>11. ViewOf(t) = [labels |-> L, color |-> C, applied |-> VR]
    <2> HIDE DEF L, C, VR, A, P, t
    <2> QED
        BY <1>1, <1>9 DEF ViewOf
<1>12. \A p \in t.parked : \E q \in s.parked : p.msg = q.msg /\ p.timestamp = q.timestamp
    <2>1. \A p \in P : \E q \in s.parked : p.msg = q.msg /\ p.timestamp = q.timestamp
        BY <1>3
    <2> HIDE DEF P, t
    <2> QED
        BY <1>1, <2>1
<1> QED
    BY <1>10, <1>11, <1>12 DEF R

\* A labelling is carried out for the messages that are here and parked for the others: both show.
LEMMA ApplyShows ==
    ASSUME NEW s \in Tables, Sound(s), NEW M \in SUBSET Msgs, NEW n \in s.labels, NEW b \in BOOLEAN,
           NEW ts \in Nat, ParkedBefore(s, ts)
    PROVE  /\ ViewOf(SyncSet(s, M, n, b, ts)) =
                [labels |-> s.labels, color |-> s.color,
                 applied |-> IF b THEN ViewOf(s).applied \cup (M \X {n}) ELSE ViewOf(s).applied \ (M \X {n})]
           /\ Sound(SyncSet(s, M, n, b, ts))
           /\ SyncSet(s, M, n, b, ts).msgs = s.msgs
           /\ ParkedBefore(SyncSet(s, M, n, b, ts), ts)
<1> DEFINE here == M \cap s.msgs
           gone == M \ s.msgs
           A == IF b THEN s.applied \cup (here \X {n}) ELSE s.applied \ (here \X {n})
           u == SetExt(s, here, n, b)
           row(m) == [msg |-> m, label |-> n, apply |-> b, timestamp |-> ts]
           P == {p \in s.parked : p.msg \notin gone \/ p.label # n} \cup {row(m) : m \in gone}
           t == SyncSet(s, M, n, b, ts)
           V == ViewOf(s).applied
<1>0. n \in Names /\ \A p \in s.parked : p \in Parked /\ p.msg \in Msgs /\ p.timestamp \in Nat /\ p.apply \in BOOLEAN
    BY DEF Tables, Parked
<1>1. CreateExt(s, n, NoColor) = s
    BY DEF CreateExt
<1>2. t = Park(u, gone, n, b, ts)
    BY <1>1 DEF SyncSet
<1>3. u \in Tables /\ u.labels = s.labels /\ u.msgs = s.msgs /\ u.parked = s.parked /\ u.color = s.color /\ u.applied = A
    BY <1>0 DEF SetExt, Tables, Pairs
<1> HIDE DEF u, A
<1>4. Newly(u, gone, n, ts) = gone
    BY <1>0, <1>3 DEF Newly, ParkedBefore
<1>5. t.labels = s.labels /\ t.color = s.color /\ t.msgs = s.msgs /\ t.applied = A /\ t.parked = P
    <2>1. gone \in SUBSET Msgs
        OBVIOUS
    <2>2. t.labels = s.labels /\ t.msgs = s.msgs /\ t.parked = RowsAfter(u, gone, n, b, ts)
        BY <1>0, <1>2, <1>3, <2>1, ParkKeeps
    <2>3. RowsAfter(u, gone, n, b, ts) = P
        BY <1>3, <1>4 DEF RowsAfter
    <2>4. t.color = u.color /\ t.applied = u.applied
        BY <1>2, <1>3 DEF Park, Tables
    <2> QED
        BY <1>3, <2>2, <2>3, <2>4
<1> HIDE DEF t
<1>6. \A m \in gone : row(m).msg = m /\ row(m).label = n /\ row(m).apply = b /\ row(m).timestamp = ts
    OBVIOUS
<1> HIDE DEF row
<1>7. Sound(t)
    <2>1. \A p \in A : p[2] \in s.labels
        BY DEF A, Sound
    <2>2. \A p \in P : p.label \in s.labels
        BY <1>6 DEF Sound
    <2>3. \A p, q \in P : p.msg = q.msg /\ p.label = q.label => p = q
        BY <1>6 DEF Sound
    <2> QED
        BY <1>5, <2>1, <2>2, <2>3 DEF Sound
<1>8. ParkedBefore(t, ts)
    BY <1>5, <1>6 DEF ParkedBefore
<1>9. ParkedPairs(P, b) = {p \in ParkedPairs(s.parked, b) : p \notin gone \X {n}} \cup (gone \X {n})
    <2>1. ASSUME NEW x \in ParkedPairs(P, b)
          PROVE  x \in {p \in ParkedPairs(s.parked, b) : p \notin gone \X {n}} \cup (gone \X {n})
        <3>1. PICK p \in P : p.apply = b /\ x = <<p.msg, p.label>>
            BY <2>1 DEF ParkedPairs
        <3>2. CASE p \in s.parked
            BY <3>1, <3>2 DEF ParkedPairs
        <3>3. CASE \E m \in gone : p = row(m)
            BY <1>6, <3>1, <3>3
        <3> QED
            BY <3>2, <3>3
    <2>2. ASSUME NEW x \in {p \in ParkedPairs(s.parked, b) : p \notin gone \X {n}} PROVE x \in ParkedPairs(P, b)
        BY <2>2 DEF ParkedPairs
    <2>3. ASSUME NEW x \in gone \X {n} PROVE x \in ParkedPairs(P, b)
        <3>1. PICK m \in gone : x = <<m, n>>
            OBVIOUS
        <3>2. row(m) \in P
            OBVIOUS
        <3> QED
            BY <1>6, <3>1, <3>2 DEF ParkedPairs
    <2> QED
        BY <2>1, <2>2, <2>3
<1>10. ParkedPairs(P, ~b) = {p \in ParkedPairs(s.parked, ~b) : p \notin gone \X {n}}
    <2>1. ASSUME NEW x \in ParkedPairs(P, ~b)
          PROVE  x \in {p \in ParkedPairs(s.parked, ~b) : p \notin gone \X {n}}
        <3>1. PICK p \in P : p.apply = ~b /\ x = <<p.msg, p.label>>
            BY <2>1 DEF ParkedPairs
        <3>2. p \in s.parked
            BY <1>6, <3>1
        <3>3. ~(p.msg \in gone /\ p.label = n)
            BY <1>6, <3>1
        <3> QED
            BY <3>1, <3>2, <3>3 DEF ParkedPairs
    <2>2. ASSUME NEW x \in {p \in ParkedPairs(s.parked, ~b) : p \notin gone \X {n}} PROVE x \in ParkedPairs(P, ~b)
        BY <2>2 DEF ParkedPairs
    <2> QED
        BY <2>1, <2>2
<1>11. \A x \in ParkedPairs(s.parked, TRUE) \cup ParkedPairs(s.parked, FALSE) : x \notin here \X {n}
    BY DEF ParkedPairs, ParkedBefore
<1>12. V = (s.applied \cup ParkedPairs(s.parked, TRUE)) \ ParkedPairs(s.parked, FALSE)
    BY ViewFields
<1>13. M \X {n} = (here \X {n}) \cup (gone \X {n}) /\ (here \X {n}) \cap (gone \X {n}) = {}
    OBVIOUS
<1> DEFINE H == here \X {n}
           G == gone \X {n}
           T == ParkedPairs(s.parked, TRUE)
           F == ParkedPairs(s.parked, FALSE)
<1>14. (A \cup ParkedPairs(P, TRUE)) \ ParkedPairs(P, FALSE) = IF b THEN V \cup (M \X {n}) ELSE V \ (M \X {n})
    <2>1. CASE b
        <3>1. ParkedPairs(P, TRUE) = {p \in T : p \notin G} \cup G /\ ParkedPairs(P, FALSE) = {p \in F : p \notin G}
            BY <1>9, <1>10, <2>1
        <3>2. A = s.applied \cup H
            BY <2>1 DEF A
        <3> HIDE DEF H, G, T, F, V, P, A, here, gone
        <3>3. (A \cup ParkedPairs(P, TRUE)) \ ParkedPairs(P, FALSE) = V \cup (H \cup G)
            BY <1>11, <1>12, <1>13, <3>1, <3>2 DEF H, G, T, F
        <3> QED
            BY <1>13, <2>1, <3>3 DEF H, G
    <2>2. CASE ~b
        <3>1. ParkedPairs(P, FALSE) = {p \in F : p \notin G} \cup G /\ ParkedPairs(P, TRUE) = {p \in T : p \notin G}
            BY <1>9, <1>10, <2>2
        <3>2. A = s.applied \ H
            BY <2>2 DEF A
        <3> HIDE DEF H, G, T, F, V, P, A, here, gone
        <3>3. (A \cup ParkedPairs(P, TRUE)) \ ParkedPairs(P, FALSE) = V \ (H \cup G)
            BY <1>11, <1>12, <1>13, <3>1, <3>2 DEF H, G, T, F
        <3> QED
            BY <1>13, <2>2, <3>3 DEF H, G
    <2> QED
        BY <2>1, <2>2
<1>15. ViewOf(t) = [labels |-> s.labels, color |-> s.color,
                    applied |-> IF b THEN V \cup (M \X {n}) ELSE V \ (M \X {n})]
    <2> HIDE DEF A, P, V
    <2> QED
        BY <1>5, <1>14 DEF ViewOf
<1> QED
    BY <1>5, <1>7, <1>8, <1>15 DEF t

\* Draining shows nothing new: a parked change counted as made.
LEMMA DrainShows ==
    ASSUME NEW s \in Tables, NEW m \in Msgs
    PROVE  ViewOf(Drain(s, m)) = ViewOf(s) /\ (Sound(s) => Sound(Drain(s, m)))
<1> DEFINE mine == {p \in s.parked : p.msg = m}
           rest == {p \in s.parked : p.msg # m}
           A == (s.applied \cup ParkedPairs(mine, TRUE)) \ ParkedPairs(mine, FALSE)
           t == Drain(s, m)
<1>1. t.labels = s.labels /\ t.color = s.color /\ t.applied = A /\ t.parked = rest
    <2>1. s.parked \ mine = rest
        OBVIOUS
    <2>2. t = [s EXCEPT !.applied = A, !.parked = rest]
        BY <2>1 DEF Drain
    <2> HIDE DEF A, rest, t
    <2> QED
        BY <2>2 DEF Tables
<1>2. \A b \in BOOLEAN : ParkedPairs(s.parked, b) = ParkedPairs(mine, b) \cup ParkedPairs(rest, b)
    BY DEF ParkedPairs
<1>3. \A b, c \in BOOLEAN : ParkedPairs(mine, b) \cap ParkedPairs(rest, c) = {}
    BY DEF ParkedPairs
<1>4. (A \cup ParkedPairs(rest, TRUE)) \ ParkedPairs(rest, FALSE) =
         (s.applied \cup ParkedPairs(s.parked, TRUE)) \ ParkedPairs(s.parked, FALSE)
    <2> HIDE DEF mine, rest
    <2> QED
        BY <1>2, <1>3
<1>5. ViewOf(t) = ViewOf(s)
    <2> HIDE DEF A, rest, t
    <2> QED
        BY <1>1, <1>4 DEF ViewOf
<1>6. Sound(s) => Sound(t)
    <2> HAVE Sound(s)
    <2>1. \A p \in A : p[2] \in s.labels
        BY DEF ParkedPairs, Sound
    <2> HIDE DEF A, t
    <2> QED
        BY <1>1, <2>1 DEF Sound
<1> QED
    BY <1>5, <1>6

\* Carrying out a change where what it was made from is shown, shows what it was made into.
LEMMA ExecuteShows ==
    ASSUME NEW s \in Tables, Reserved \subseteq s.labels, Sound(s), NEW i \in Items, Leads(ViewOf(s), i),
           ParkedBefore(s, i.timestamp)
    PROVE  /\ ViewOf(ExecuteSyncItem(s, i)) = i.after
           /\ Sound(ExecuteSyncItem(s, i))
           /\ ExecuteSyncItem(s, i).msgs = s.msgs
           /\ ParkedBefore(ExecuteSyncItem(s, i), i.timestamp)
<1> USE NamesAssumption, ItemFields
<1>1. ViewOf(s).labels = s.labels /\ ViewOf(s).color = s.color
    BY ViewFields
<1>2. ExecuteSyncItem(s, i).msgs = s.msgs
    BY ExecuteKeeps
<1>3. CASE i.kind = "create"
    <2>1. ExecuteSyncItem(s, i) = CreateExt(s, i.name, i.color)
        BY <1>3 DEF ExecuteSyncItem
    <2>2. /\ i.name \notin s.labels
          /\ i.after = [labels |-> s.labels \cup {i.name}, color |-> [s.color EXCEPT ![i.name] = i.color],
                        applied |-> ViewOf(s).applied]
        BY <1>1, <1>3 DEF Leads
    <2>3. ExecuteSyncItem(s, i).parked = s.parked
        BY <1>3, ExecuteKeeps
    <2> QED
        BY <1>2, <1>3, <2>1, <2>2, <2>3, CreateShows DEF ParkedBefore
<1>4. CASE i.kind = "color"
    <2>1. /\ i.name \in s.labels
          /\ i.after = [labels |-> s.labels, color |-> [s.color EXCEPT ![i.name] = i.color],
                        applied |-> ViewOf(s).applied]
        BY <1>1, <1>4 DEF Leads
    <2>2. ExecuteSyncItem(s, i) = SetColorExt(s, i.name, i.color)
        BY <1>4, <2>1 DEF ExecuteSyncItem, CreateExt
    <2>3. ExecuteSyncItem(s, i).parked = s.parked
        BY <1>4, ExecuteKeeps
    <2> QED
        BY <1>2, <1>4, <2>1, <2>2, <2>3, ColorShows DEF ParkedBefore
<1>5. CASE i.kind = "rename"
    <2>1. /\ CanRename(s, i.name, i.to)
          /\ i.after = [labels |-> {IF m = i.name THEN i.to ELSE m : m \in s.labels},
                        color |-> [s.color EXCEPT ![i.name] = NoColor, ![i.to] = s.color[i.name]],
                        applied |-> {<<p[1], IF p[2] = i.name THEN i.to ELSE p[2]>> : p \in ViewOf(s).applied}]
        BY <1>1, <1>5 DEF Leads, CanRename
    <2>2. ExecuteSyncItem(s, i) = RenameExt(s, i.name, i.to)
        BY <1>5, <2>1 DEF ExecuteSyncItem, CanRename
    <2>3. /\ ViewOf(ExecuteSyncItem(s, i)) = i.after
          /\ Sound(ExecuteSyncItem(s, i))
          /\ \A p \in ExecuteSyncItem(s, i).parked : \E q \in s.parked : p.msg = q.msg /\ p.timestamp = q.timestamp
        <3> DEFINE n == i.name
                   to == i.to
        <3>1. n \in Names /\ to \in Names
            BY <1>5
        <3>2. CanRename(s, n, to) /\ ExecuteSyncItem(s, i) = RenameExt(s, n, to)
            BY <2>1, <2>2
        <3>3. i.after = [labels |-> {IF m = n THEN to ELSE m : m \in s.labels},
                         color |-> [s.color EXCEPT ![n] = NoColor, ![to] = s.color[n]],
                         applied |-> {<<p[1], IF p[2] = n THEN to ELSE p[2]>> : p \in ViewOf(s).applied}]
            BY <2>1
        <3> HIDE DEF n, to
        <3>4. /\ ViewOf(RenameExt(s, n, to)) =
                   [labels |-> {IF m = n THEN to ELSE m : m \in s.labels},
                    color |-> [s.color EXCEPT ![n] = NoColor, ![to] = s.color[n]],
                    applied |-> {<<p[1], IF p[2] = n THEN to ELSE p[2]>> : p \in ViewOf(s).applied}]
              /\ Sound(RenameExt(s, n, to))
              /\ \A p \in RenameExt(s, n, to).parked :
                    \E q \in s.parked : p.msg = q.msg /\ p.timestamp = q.timestamp
            BY <3>1, <3>2, RenameShows
        <3> QED
            BY <3>2, <3>3, <3>4
    <2> QED
        BY <1>2, <2>3 DEF ParkedBefore
<1>6. CASE i.kind = "delete"
    <2>1. /\ i.name \in s.labels \ Reserved
          /\ i.after = [labels |-> s.labels \ {i.name}, color |-> [s.color EXCEPT ![i.name] = NoColor],
                        applied |-> {p \in ViewOf(s).applied : p[2] # i.name}]
        BY <1>1, <1>6 DEF Leads
    <2>2. ExecuteSyncItem(s, i) = DeleteExt(s, i.name)
        BY <1>6 DEF ExecuteSyncItem
    <2>3. /\ ViewOf(ExecuteSyncItem(s, i)) = i.after
          /\ Sound(ExecuteSyncItem(s, i))
          /\ ExecuteSyncItem(s, i).parked \subseteq s.parked
        BY <2>1, <2>2, DeleteShows
    <2> QED
        BY <1>2, <2>3 DEF ParkedBefore
<1>7. CASE i.kind = "apply"
    <2>1. /\ i.name \in s.labels
          /\ i.after = [labels |-> s.labels, color |-> s.color,
                        applied |-> IF i.apply THEN ViewOf(s).applied \cup (i.msgs \X {i.name})
                                    ELSE ViewOf(s).applied \ (i.msgs \X {i.name})]
        BY <1>1, <1>7 DEF Leads
    <2>2. ExecuteSyncItem(s, i) = SyncSet(s, i.msgs, i.name, i.apply, i.timestamp)
        BY <1>7 DEF ExecuteSyncItem
    <2>3. i.msgs \in SUBSET Msgs /\ i.apply \in BOOLEAN /\ i.timestamp \in Nat
        BY <1>7
    <2> DEFINE M == i.msgs
               n == i.name
               b == i.apply
               ts == i.timestamp
    <2>4. /\ M \in SUBSET Msgs /\ n \in s.labels /\ b \in BOOLEAN /\ ts \in Nat /\ ParkedBefore(s, ts)
          /\ ExecuteSyncItem(s, i) = SyncSet(s, M, n, b, ts)
        BY <2>1, <2>2, <2>3
    <2>5. i.after = [labels |-> s.labels, color |-> s.color,
                     applied |-> IF b THEN ViewOf(s).applied \cup (M \X {n}) ELSE ViewOf(s).applied \ (M \X {n})]
        BY <2>1
    <2> HIDE DEF M, n, b, ts
    <2>6. /\ ViewOf(SyncSet(s, M, n, b, ts)) =
               [labels |-> s.labels, color |-> s.color,
                applied |-> IF b THEN ViewOf(s).applied \cup (M \X {n}) ELSE ViewOf(s).applied \ (M \X {n})]
          /\ Sound(SyncSet(s, M, n, b, ts))
          /\ SyncSet(s, M, n, b, ts).msgs = s.msgs
          /\ ParkedBefore(SyncSet(s, M, n, b, ts), ts)
        BY <2>4, ApplyShows, Zenon
    <2> QED
        BY <2>4, <2>5, <2>6 DEF ts
<1> QED
    BY <1>3, <1>4, <1>5, <1>6, <1>7

----------------------------------------------------------------------------
(***************************************************************************)
(* The laptop follows the phone: the inductive invariant.                  *)
(***************************************************************************)

\* The user changes labels on the phone only, one call at a time; mail keeps its order and none
\* is lost, no process dies, and a parked change does not grow as old as PENDING_TTL.
OnlyPhone ==
    /\ phone \in Devices /\ laptop \in Devices /\ laptop # phone
    /\ Writers = {phone} /\ MaxCalls = 1
    /\ InOrder /\ MaxLost = 0 /\ MaxCrashes = 0 /\ MaxNow <= Ttl

\* What the laptop shows when it has carried out k of what is on its way.
Shown(k) == IF k = 0 THEN View(laptop) ELSE net[laptop][k].after

\* Nothing is sent by the others, or to the phone.
PhoneSends ==
    /\ \A d \in Devices \ {phone} : calls[d] = {}
    /\ net[phone] = <<>>
    /\ dev[phone].parked = {}

\* What the laptop has parked is for messages to come, or for the one being drained.
LaptopSound ==
    /\ Sound(dev[laptop])
    /\ \A p \in dev[laptop].parked : p.msg \in dev[laptop].msgs => draining[laptop] = p.msg

\* Items come to the laptop in the order of their timestamps.
InTime ==
    /\ \A p \in dev[laptop].parked :
          p.timestamp <= now /\ \A k \in 1..Len(net[laptop]) : p.timestamp <= net[laptop][k].timestamp
    /\ \A j, k \in 1..Len(net[laptop]) : j <= k => net[laptop][j].timestamp <= net[laptop][k].timestamp

\* Each change on its way leads from what the one before it shows to what it shows itself, and
\* the last one to what the phone shows.
Chain ==
    /\ \A k \in 1..Len(net[laptop]) : Leads(Shown(k - 1), net[laptop][k])
    /\ calls[phone] = {} => View(phone) = Shown(Len(net[laptop]))
    /\ \A c \in calls[phone] :
          calls[phone] = {c} /\ c.after = View(phone) /\ Leads(Shown(Len(net[laptop])), c)

\* The inductive invariant of the refinement.
FollowInv == TypeInv /\ PhoneSends /\ LaptopSound /\ InTime /\ Chain

----------------------------------------------------------------------------
(***************************************************************************)
(* Queues, and what they have still to show.                               *)
(***************************************************************************)

\* What the items of a queue show, one after the other.
LEMMA AftersType ==
    ASSUME NEW q \in Seq(Items)
    PROVE  /\ Afters(q) \in Seq(Views) /\ Len(Afters(q)) = Len(q)
           /\ \A k \in 1..Len(q) : Afters(q)[k] = q[k].after
<1>1. Len(q) \in Nat /\ DOMAIN q = 1..Len(q) /\ \A k \in 1..Len(q) : q[k] \in Items
    BY LenProperties
<1>2. \A i \in Items : i.after \in Views
    BY DEF Items
<1>3. Afters(q) = [k \in 1..Len(q) |-> q[k].after]
    BY <1>1 DEF Afters
<1>4. Afters(q) \in [1..Len(q) -> Views]
    BY <1>1, <1>2, <1>3
<1>5. Afters(q) \in Seq(Views)
    BY <1>1, <1>4 DEF Seq
<1> QED
    BY <1>1, <1>3, <1>4, <1>5, LenProperties

\* One more item has one more state to show.
LEMMA AftersAppend ==
    ASSUME NEW q \in Seq(Items), NEW i \in Items
    PROVE  Afters(Append(q, i)) = Append(Afters(q), i.after)
<1>1. Append(q, i) \in Seq(Items) /\ i.after \in Views
    BY DEF Items
<1>2. /\ Afters(Append(q, i)) \in Seq(Views) /\ Len(Afters(Append(q, i))) = Len(Append(q, i))
      /\ \A k \in 1..Len(Append(q, i)) : Afters(Append(q, i))[k] = Append(q, i)[k].after
    BY <1>1, AftersType
<1>3. /\ Afters(q) \in Seq(Views) /\ Len(Afters(q)) = Len(q)
      /\ \A k \in 1..Len(q) : Afters(q)[k] = q[k].after
    BY AftersType
<1>4. Append(Afters(q), i.after) \in Seq(Views)
    BY <1>1, <1>3
<1>5. /\ Len(Append(q, i)) = Len(q) + 1 /\ Append(q, i)[Len(q) + 1] = i
      /\ \A k \in 1..Len(q) : Append(q, i)[k] = q[k]
    OBVIOUS
<1>6. /\ Len(Append(Afters(q), i.after)) = Len(q) + 1 /\ Append(Afters(q), i.after)[Len(q) + 1] = i.after
      /\ \A k \in 1..Len(q) : Append(Afters(q), i.after)[k] = q[k].after
    BY <1>1, <1>3
<1>7. Len(q) \in Nat
    BY LenProperties
<1>8. \A k \in 1..Len(q) + 1 : Afters(Append(q, i))[k] = Append(Afters(q), i.after)[k]
    BY <1>2, <1>5, <1>6, <1>7
<1> QED
    BY <1>2, <1>4, <1>5, <1>6, <1>8, SeqEqual

\* The first item taken, its state is shown and the others are still to show.
LEMMA AftersTail ==
    ASSUME NEW q \in Seq(Items), 1 \in DOMAIN q
    PROVE  /\ WithoutItem(q, 1) = Tail(q)
           /\ Afters(q) # <<>> /\ Head(Afters(q)) = q[1].after /\ Tail(Afters(q)) = Afters(Tail(q))
<1>1. Len(q) \in Nat /\ Len(q) >= 1 /\ q # <<>>
    BY LenProperties
<1>2. /\ Tail(q) \in Seq(Items) /\ Len(Tail(q)) = Len(q) - 1
      /\ \A k \in 1..Len(Tail(q)) : Tail(q)[k] = q[k + 1]
    BY <1>1, HeadTailProperties
<1>3. WithoutItem(q, 1) = Tail(q)
    <2>1. SubSeq(q, 1, 0) = <<>>
        BY SubSeqEmpty
    <2>2. SubSeq(q, 2, Len(q)) = Tail(q)
        BY <1>1, TailIsSubSeq
    <2> QED
        BY <1>2, <2>1, <2>2, ConcatEmptySeq DEF WithoutItem
<1>4. /\ Afters(q) \in Seq(Views) /\ Len(Afters(q)) = Len(q)
      /\ \A k \in 1..Len(q) : Afters(q)[k] = q[k].after
    BY AftersType
<1>5. /\ Afters(Tail(q)) \in Seq(Views) /\ Len(Afters(Tail(q))) = Len(q) - 1
      /\ \A k \in 1..Len(q) - 1 : Afters(Tail(q))[k] = q[k + 1].after
    BY <1>2, AftersType
<1>6. Afters(q) # <<>> /\ Head(Afters(q)) = q[1].after
    BY <1>1, <1>4
<1>7. /\ Tail(Afters(q)) \in Seq(Views) /\ Len(Tail(Afters(q))) = Len(q) - 1
      /\ \A k \in 1..Len(q) - 1 : Tail(Afters(q))[k] = Afters(q)[k + 1]
    BY <1>4, <1>6, HeadTailProperties
<1>8. \A k \in 1..Len(q) - 1 : Tail(Afters(q))[k] = Afters(Tail(q))[k]
    BY <1>1, <1>4, <1>5, <1>7
<1> QED
    BY <1>3, <1>5, <1>6, <1>7, <1>8, SeqEqual

\* What the laptop has still to show.
LEMMA AheadIs ==
    ASSUME OnlyPhone, TypeInv
    PROVE  /\ net[laptop] \in Seq(Items) /\ \A d \in Devices : calls[d] \subseteq Items
           /\ calls[phone] = {} => Ahead = Afters(net[laptop])
           /\ \A c \in Items : calls[phone] = {c} => Ahead = Append(Afters(net[laptop]), c.after)
<1>1. net[laptop] \in Seq(Items) /\ \A d \in Devices : calls[d] \subseteq Items
    <2>1. Sent \subseteq Items /\ Made \subseteq Items
        BY DEF Sent, Made
    <2> QED
        BY <2>1, WiderQueue DEF TypeInv, OnlyPhone
<1>2. Afters(net[laptop]) \in Seq(Views)
    BY <1>1, AftersType
<1>3. calls[phone] = {} => Ahead = Afters(net[laptop])
    BY <1>2, ConcatEmptySeq DEF Ahead
<1>4. ASSUME NEW c \in Items, calls[phone] = {c} PROVE Ahead = Append(Afters(net[laptop]), c.after)
    <2>1. (CHOOSE i \in {c} : TRUE) = c
        OBVIOUS
    <2>2. Ahead = Afters(net[laptop]) \o <<c.after>>
        BY <1>4, <2>1 DEF Ahead
    <2>3. c.after \in Views
        BY DEF Items
    <2> QED
        BY <1>2, <2>2, <2>3
<1> QED
    BY <1>1, <1>3, <1>4

\* A change leads on when it is stamped.
LEMMA LeadsStamped ==
    ASSUME NEW i \in Items, NEW v, NEW ts \in Nat, Leads(v, i)
    PROVE  Leads(v, [i EXCEPT !.timestamp = ts]) /\ [i EXCEPT !.timestamp = ts].after = i.after
BY DEF Leads, Items

----------------------------------------------------------------------------
(***************************************************************************)
(* The laptop follows the phone: the steps.                                *)
(***************************************************************************)

\* A step that leaves the queues, what the phone shows and the laptop's rows alone.
LEMMA QuietStep ==
    ASSUME OnlyPhone, FollowInv, TypeInv', calls' = calls, now' >= now,
           net'[phone] = net[phone], net'[laptop] = net[laptop],
           View(phone)' = View(phone), View(laptop)' = View(laptop), dev'[phone].parked = {},
           Sound(dev'[laptop]), dev'[laptop].parked \subseteq dev[laptop].parked,
           \A p \in dev'[laptop].parked : p.msg \in dev'[laptop].msgs => draining'[laptop] = p.msg
    PROVE  FollowInv' /\ UNCHANGED Laptop!vars
<1>1. \A k : Shown(k)' = Shown(k)
    BY DEF Shown
<1>2. Chain'
    BY <1>1 DEF FollowInv, Chain
<1>3. InTime'
    <2>1. \A p \in dev[laptop].parked : p.timestamp \in Nat
        BY DEF FollowInv, TypeInv, Tables, Parked, OnlyPhone
    <2>2. now \in Nat /\ now' \in Nat
        BY BoundsAssumption DEF FollowInv, TypeInv
    <2> QED
        BY <2>1, <2>2 DEF FollowInv, InTime
<1>4. UNCHANGED Laptop!vars
    BY DEF Laptop!vars, Ahead
<1> QED
    BY <1>2, <1>3, <1>4 DEF FollowInv, PhoneSends, LaptopSound

\* A change on the phone: it leads.
LEMMA ChangeLeads ==
    ASSUME OnlyPhone, FollowInv, TypeInv', NEW d \in Devices, NEW s \in Tables, s.parked = {}, NEW i \in Items,
           Change(d, s, i), Leads(View(phone), [i EXCEPT !.after = ViewOf(s)])
    PROVE  FollowInv' /\ Laptop!Next
<1> DEFINE j == [i EXCEPT !.after = ViewOf(s)]
           q == net[laptop]
<1>1. d = phone /\ UNCHANGED <<draining, net, now>>
    BY DEF Change, OnlyPhone
<1>2. calls[phone] = {}
    <2>1. IsFiniteSet(calls[phone]) /\ Cardinality(calls[phone]) < 1
        BY <1>1 DEF Change, OnlyPhone, FollowInv, TypeInv
    <2> QED
        BY <2>1, FS_CardinalityType, FS_EmptySet
<1>3. j \in Items /\ j.after = ViewOf(s) /\ ViewOf(s) \in Views
    BY ViewType, ItemAfter DEF Items
<1>4. Leads(View(phone), j)
    OBVIOUS
<1> HIDE DEF j
<1>5. calls'[phone] = {j} /\ \A e \in Devices \ {phone} : calls'[e] = calls[e]
    BY <1>1, <1>2 DEF Change, FollowInv, TypeInv, j, OnlyPhone
<1>6. dev'[phone] = s /\ dev'[laptop] = dev[laptop]
    BY <1>1 DEF Change, FollowInv, TypeInv, OnlyPhone
<1>7. View(phone)' = ViewOf(s) /\ View(laptop)' = View(laptop)
    BY <1>6 DEF View
<1>8. \A k : Shown(k)' = Shown(k)
    BY <1>1, <1>7 DEF Shown
<1>9. Chain'
    BY <1>1, <1>2, <1>3, <1>4, <1>5, <1>7, <1>8 DEF FollowInv, Chain
<1>10. PhoneSends' /\ LaptopSound' /\ InTime'
    BY <1>1, <1>5, <1>6 DEF FollowInv, PhoneSends, LaptopSound, InTime
<1>11. Ahead = Afters(q) /\ q \in Seq(Items)
    BY <1>2, AheadIs DEF FollowInv
<1>12. Ahead' = Append(Afters(q), j.after)
    <2>1. (\A c \in Items : calls[phone] = {c} => Ahead = Append(Afters(net[laptop]), c.after))'
        BY AheadIs, PTL
    <2> QED
        BY <1>1, <1>3, <1>5, <2>1
<1>13. Laptop!Lead
    BY <1>3, <1>7, <1>11, <1>12 DEF Laptop!Lead
<1> QED
    BY <1>9, <1>10, <1>13 DEF FollowInv, Laptop!Next

\* An item is queued: what the laptop has still to show stays the same.
LEMMA SendQuiet ==
    ASSUME OnlyPhone, FollowInv, TypeInv', NEW d \in Devices, NEW c \in calls[d], AddSyncItem(d, c)
    PROVE  FollowInv' /\ UNCHANGED Laptop!vars
<1> DEFINE j == [c EXCEPT !.timestamp = now]
           q == net[laptop]
<1>1. d = phone /\ calls[phone] = {c} /\ c.after = View(phone) /\ Leads(Shown(Len(q)), c)
    BY DEF FollowInv, PhoneSends, Chain
<1>2. q \in Seq(Items) /\ c \in Items /\ Ahead = Append(Afters(q), c.after) /\ now \in Nat
    <2>1. q \in Seq(Items) /\ c \in Items
        BY AheadIs DEF FollowInv
    <2>2. Ahead = Append(Afters(q), c.after)
        BY <1>1, <2>1, AheadIs DEF FollowInv
    <2> QED
        BY <2>1, <2>2, BoundsAssumption DEF FollowInv, TypeInv
<1>3. j \in Items /\ j.timestamp = now /\ j.after = c.after /\ Leads(Shown(Len(q)), j)
    BY <1>1, <1>2, ItemStamped, LeadsStamped
<1>4. /\ calls'[phone] = {} /\ \A e \in Devices \ {phone} : calls'[e] = calls[e]
      /\ net'[phone] = net[phone] /\ net'[laptop] = Append(q, j)
      /\ dev' = dev /\ now' = now /\ draining' = draining
    BY <1>1 DEF AddSyncItem, counters, FollowInv, TypeInv, OnlyPhone
<1> HIDE DEF j
<1>5. /\ Len(q) \in Nat /\ Len(net'[laptop]) = Len(q) + 1 /\ net'[laptop][Len(q) + 1] = j
      /\ \A k \in 1..Len(q) : net'[laptop][k] = q[k]
    BY <1>2, <1>3, <1>4, LenProperties
<1>6. View(phone)' = View(phone) /\ View(laptop)' = View(laptop)
    BY <1>4 DEF View
<1>7. \A k \in 0..Len(q) : Shown(k)' = Shown(k)
    BY <1>5, <1>6 DEF Shown
<1>8. Chain'
    <2>1. ASSUME NEW k \in 1..Len(q) + 1 PROVE Leads(Shown(k - 1)', net'[laptop][k])
        <3>1. CASE k = Len(q) + 1
            BY <1>3, <1>5, <1>7, <3>1
        <3>2. CASE k \in 1..Len(q)
            <4>1. k - 1 \in 0..Len(q) /\ Leads(Shown(k - 1), q[k])
                BY <1>5, <3>2 DEF FollowInv, Chain
            <4> QED
                BY <1>5, <1>7, <3>2, <4>1
        <3> QED
            BY <1>5, <3>1, <3>2
    <2>2. View(phone)' = Shown(Len(net[laptop]))'
        BY <1>1, <1>3, <1>5, <1>6 DEF Shown
    <2>3. \A k \in 1..Len(net'[laptop]) : Leads(Shown(k - 1)', net'[laptop][k])
        BY <1>5, <2>1
    <2> QED
        BY <1>4, <2>2, <2>3 DEF Chain
<1>9. InTime'
    <2>1. \A k \in 1..Len(q) : q[k].timestamp <= now /\ q[k].timestamp \in Nat
        <3>1. \A k \in 1..Len(q) : q[k] \in Sent
            BY ElementOfSeq DEF FollowInv, TypeInv, OnlyPhone
        <3> QED
            BY <3>1, ItemFields DEF Sent, Made
    <2>2. \A k \in 1..Len(q) + 1 : k \in 1..Len(q) \/ k = Len(q) + 1
        BY <1>5
    <2>3. \A p \in dev[laptop].parked :
             p.timestamp <= now /\ \A k \in 1..Len(q) + 1 : p.timestamp <= net'[laptop][k].timestamp
        BY <1>3, <1>5, <2>2 DEF FollowInv, InTime
    <2>4. ASSUME NEW i \in 1..Len(q) + 1, NEW k \in 1..Len(q) + 1, i <= k
          PROVE  net'[laptop][i].timestamp <= net'[laptop][k].timestamp
        <3>1. CASE k = Len(q) + 1
            BY <1>2, <1>3, <1>5, <2>1, <2>2, <3>1
        <3>2. CASE k \in 1..Len(q)
            BY <1>5, <2>2, <2>4, <3>2 DEF FollowInv, InTime
        <3> QED
            BY <2>2, <3>1, <3>2
    <2> QED
        BY <1>4, <1>5, <2>3, <2>4 DEF InTime
<1>10. PhoneSends' /\ LaptopSound'
    BY <1>4 DEF FollowInv, PhoneSends, LaptopSound
<1>11. Ahead' = Ahead
    <2>1. (calls[phone] = {} => Ahead = Afters(net[laptop]))'
        BY AheadIs, PTL
    <2> QED
        BY <1>2, <1>3, <1>4, <2>1, AftersAppend
<1> QED
    BY <1>6, <1>8, <1>9, <1>10, <1>11 DEF FollowInv, Laptop!vars

\* The laptop carries out the next change: it follows.
LEMMA ReceiveFollows ==
    ASSUME OnlyPhone, FollowInv, TypeInv', NEW k \in DOMAIN net[laptop], ReceiveSyncItem(laptop, k)
    PROVE  FollowInv' /\ Laptop!Next
<1> DEFINE q == net[laptop]
           s == dev[laptop]
           i == q[1]
<1>1. k = 1 /\ draining[laptop] = NoMsg
    BY DEF ReceiveSyncItem, OnlyPhone
<1>2. q \in Seq(Items) /\ Len(q) \in Nat /\ Len(q) >= 1 /\ i \in Items
    BY <1>1, AheadIs, LenProperties DEF FollowInv
<1>3. s \in Tables /\ Reserved \subseteq s.labels /\ Sound(s)
    BY DEF FollowInv, TypeInv, LaptopSound, OnlyPhone
<1>4. ParkedBefore(s, i.timestamp)
    <2>1. \A p \in s.parked : p.msg \in Msgs
        BY <1>3 DEF Tables, Parked
    <2>2. \A p \in s.parked : p.timestamp <= i.timestamp
        BY <1>2 DEF FollowInv, InTime
    <2> QED
        BY <1>1, <2>1, <2>2, MsgsAssumption DEF FollowInv, LaptopSound, ParkedBefore
<1>5. Leads(ViewOf(s), i)
    BY <1>2 DEF FollowInv, Chain, Shown, View
<1>6. /\ dev'[laptop] = ExecuteSyncItem(s, i) /\ dev'[phone] = dev[phone]
      /\ net'[laptop] = Tail(q) /\ net'[phone] = net[phone]
      /\ UNCHANGED <<draining, calls, now>>
    BY <1>1, <1>2, AftersTail DEF ReceiveSyncItem, counters, FollowInv, TypeInv, OnlyPhone
<1>7. /\ ViewOf(dev'[laptop]) = i.after /\ Sound(dev'[laptop]) /\ dev'[laptop].msgs = s.msgs
      /\ ParkedBefore(dev'[laptop], i.timestamp)
    BY <1>2, <1>3, <1>4, <1>5, <1>6, ExecuteShows
<1>8. /\ Len(net'[laptop]) = Len(q) - 1
      /\ \A n \in 1..Len(q) - 1 : net'[laptop][n] = q[n + 1]
    BY <1>2, <1>6, HeadTailProperties
<1>9. View(phone)' = View(phone) /\ View(laptop)' = i.after
    BY <1>6, <1>7 DEF View
<1>10. \A n \in 0..Len(q) - 1 : Shown(n)' = Shown(n + 1)
    BY <1>2, <1>8, <1>9 DEF Shown
<1> HIDE DEF i
<1>11. Chain'
    <2>1. ASSUME NEW n \in 1..Len(q) - 1 PROVE Leads(Shown(n - 1)', net'[laptop][n])
        <3>1. n + 1 \in 1..Len(q) /\ n - 1 \in 0..Len(q) - 1 /\ (n + 1) - 1 = n /\ (n - 1) + 1 = n
            BY <1>2
        <3>2. Leads(Shown(n), q[n + 1])
            BY <3>1 DEF FollowInv, Chain
        <3> QED
            BY <1>8, <1>10, <3>1, <3>2
    <2>2. Shown(Len(net[laptop]))' = Shown(Len(q))
        <3>1. CASE Len(q) = 1
            BY <1>8, <1>9, <3>1 DEF Shown, i
        <3>2. CASE Len(q) # 1
            <4> DEFINE n == Len(q) - 1
            <4>1. n \in 1..n /\ n + 1 = Len(q)
                <5>1. \A l \in Nat : l >= 1 /\ l # 1 => l - 1 \in 1..(l - 1) /\ (l - 1) + 1 = l
                    OBVIOUS
                <5> QED
                    BY <1>2, <3>2, <5>1, Zenon
            <4>2. Len(net'[laptop]) = n /\ \A m \in 1..n : net'[laptop][m] = q[m + 1]
                BY <1>8
            <4> HIDE DEF n
            <4>3. net'[laptop][Len(net'[laptop])] = q[Len(q)] /\ Len(net'[laptop]) # 0 /\ Len(q) # 0
                BY <1>2, <4>1, <4>2
            <4> QED
                BY <4>3 DEF Shown
        <3> QED
            BY <3>1, <3>2
    <2>3. \A n \in 1..Len(net'[laptop]) : Leads(Shown(n - 1)', net'[laptop][n])
        BY <1>8, <2>1
    <2> QED
        BY <1>6, <1>9, <2>2, <2>3 DEF FollowInv, Chain
<1>12. InTime'
    <2>1. \A n \in 1..Len(q) : i.timestamp <= q[n].timestamp
        BY <1>2 DEF FollowInv, InTime, i
    <2>2. \A n \in 1..Len(q) : q[n].timestamp <= now /\ q[n].timestamp \in Nat
        <3>1. \A n \in 1..Len(q) : q[n] \in Sent
            BY ElementOfSeq DEF FollowInv, TypeInv, OnlyPhone
        <3> QED
            BY <3>1, ItemFields DEF Sent, Made
    <2>3. \A p \in dev'[laptop].parked : p.timestamp \in Nat /\ p.timestamp <= i.timestamp
        BY <1>7 DEF ParkedBefore, TypeInv, Tables, Parked, OnlyPhone
    <2>4. now \in Nat /\ i.timestamp \in Nat /\ i.timestamp <= now
        BY <1>2, <2>2, BoundsAssumption DEF FollowInv, TypeInv, i
    <2>5. \A n \in 1..Len(q) - 1 : n + 1 \in 1..Len(q) /\ net'[laptop][n] = q[n + 1]
        BY <1>2, <1>8
    <2>6. \A p \in dev'[laptop].parked :
             p.timestamp <= now /\ \A n \in 1..Len(q) - 1 : p.timestamp <= net'[laptop][n].timestamp
        BY <2>1, <2>2, <2>3, <2>4, <2>5
    <2>7. \A m, n \in 1..Len(q) - 1 : m <= n => net'[laptop][m].timestamp <= net'[laptop][n].timestamp
        <3> TAKE m, n \in 1..Len(q) - 1
        <3> HAVE m <= n
        <3>1. m + 1 <= n + 1
            BY <1>2
        <3> QED
            BY <2>5, <3>1 DEF FollowInv, InTime
    <2> QED
        BY <1>6, <1>8, <2>6, <2>7 DEF InTime
<1>13. PhoneSends' /\ LaptopSound'
    BY <1>6, <1>7 DEF FollowInv, PhoneSends, LaptopSound, ParkedBefore
<1>14. (\A c \in Items : calls[phone] = {c} => Ahead = Append(Afters(net[laptop]), c.after))'
    BY AheadIs, PTL
<1>15. Laptop!Follow
    <2>1. CASE calls[phone] = {}
        <3>1. (calls[phone] = {} => Ahead = Afters(net[laptop]))'
            BY AheadIs, PTL
        <3>2. Ahead = Afters(q) /\ Ahead' = Afters(Tail(q))
            BY <1>6, <2>1, <3>1, AheadIs DEF FollowInv
        <3> QED
            BY <1>1, <1>2, <1>9, <3>2, AftersTail DEF Laptop!Follow, i
    <2>2. CASE calls[phone] # {}
        <3>1. PICK x \in Items : calls[phone] = {x}
            <4>1. calls[phone] \subseteq Items
                BY AheadIs DEF FollowInv, OnlyPhone
            <4>2. PICK x \in calls[phone] : calls[phone] = {x}
                BY <2>2 DEF FollowInv, Chain
            <4> QED
                BY <4>1, <4>2
        <3>3. Ahead = Append(Afters(q), x.after) /\ Ahead' = Append(Afters(Tail(q)), x.after)
            BY <1>6, <1>14, <3>1, AheadIs DEF FollowInv
        <3>4. /\ Afters(q) \in Seq(Views) /\ Afters(q) # <<>> /\ Head(Afters(q)) = i.after
              /\ Tail(Afters(q)) = Afters(Tail(q)) /\ x.after \in Views
            BY <1>1, <1>2, AftersTail, AftersType DEF i, Items
        <3>5. /\ Append(Afters(q), x.after) # <<>> /\ Head(Append(Afters(q), x.after)) = Head(Afters(q))
              /\ Tail(Append(Afters(q), x.after)) = Append(Tail(Afters(q)), x.after)
            BY <3>4
        <3> QED
            BY <1>9, <3>3, <3>4, <3>5 DEF Laptop!Follow
    <2> QED
        BY <2>1, <2>2
<1> QED
    BY <1>11, <1>12, <1>13, <1>15 DEF FollowInv, Laptop!Next

\* Every step of the devices is a step of the follower, or shows nothing.
LEMMA FollowNext ==
    ASSUME OnlyPhone, FollowInv, [Next]_vars, TypeInv'
    PROVE  FollowInv' /\ [Laptop!Next]_(Laptop!vars)
<1> USE NamesAssumption
<1>1. /\ \A d \in Devices : dev[d] \in Tables /\ View(d) \in Views
      /\ phone \in Devices /\ laptop \in Devices
    BY ViewType DEF FollowInv, TypeInv, View, OnlyPhone
<1>2. dev[phone].parked = {} /\ Sound(dev[laptop])
    BY DEF FollowInv, PhoneSends, LaptopSound
<1>3. /\ View(phone).labels = dev[phone].labels /\ View(phone).color = dev[phone].color
      /\ View(phone).applied = dev[phone].applied
    BY <1>1, <1>2, NothingParked DEF View
<1>4. now \in Nat
    BY BoundsAssumption DEF FollowInv, TypeInv
<1>5. CASE UNCHANGED <<dev, draining, calls, net>> /\ now' >= now
    BY <1>2, <1>5, QuietStep DEF View, FollowInv, LaptopSound
<1>6. CASE UNCHANGED vars \/ Tick
    BY <1>4, <1>5, <1>6 DEF vars, counters, Tick
<1>7. ASSUME NEW d \in Devices, NEW n \in Names, NEW c \in Colors, Create(d, n, c)
      PROVE  FollowInv' /\ Laptop!Next
    <2> DEFINE s == CreateExt(dev[phone], n, c)
               i == [kind |-> "create", name |-> n, color |-> c, timestamp |-> 0, after |-> View(phone)]
    <2>1. d = phone /\ n \notin dev[phone].labels /\ Change(d, s, i)
        BY <1>7 DEF Create, Change, OnlyPhone
    <2>2. s \in Tables /\ s.parked = {} /\ i \in Items
        BY <1>1, <1>2, CreateKeeps DEF Items
    <2>3. ViewOf(s).labels = dev[phone].labels \cup {n} /\ ViewOf(s).color = [dev[phone].color EXCEPT ![n] = c]
          /\ ViewOf(s).applied = dev[phone].applied
        BY <1>1, <1>2, <2>1, <2>2, NothingParked DEF CreateExt, Tables
    <2>4. ViewOf(s) = [labels |-> ViewOf(s).labels, color |-> ViewOf(s).color, applied |-> ViewOf(s).applied]
        BY DEF ViewOf
    <2> HIDE DEF s
    <2>5. Leads(View(phone), [i EXCEPT !.after = ViewOf(s)])
        BY <1>3, <2>1, <2>3, <2>4 DEF Leads
    <2> QED
        BY <2>1, <2>2, <2>5, ChangeLeads
<1>8. ASSUME NEW d \in Devices, NEW n \in Names, NEW to \in Names, Rename(d, n, to)
      PROVE  FollowInv' /\ Laptop!Next
    <2> DEFINE s == RenameExt(dev[phone], n, to)
               i == [kind |-> "rename", name |-> n, to |-> to, timestamp |-> 0, after |-> View(phone)]
               L == {IF m = n THEN to ELSE m : m \in dev[phone].labels}
               C == [dev[phone].color EXCEPT ![n] = NoColor, ![to] = dev[phone].color[n]]
               A == {<<p[1], IF p[2] = n THEN to ELSE p[2]>> : p \in dev[phone].applied}
    <2>1. d = phone /\ CanRename(dev[phone], n, to) /\ Change(d, s, i)
        BY <1>8 DEF Rename, Change, OnlyPhone
    <2>2. s.labels = L /\ s.color = C /\ s.applied = A /\ s.parked = {}
        <3> DEFINE P == {[p EXCEPT !.label = IF @ = n THEN to ELSE @] : p \in dev[phone].parked}
        <3>1. s = [dev[phone] EXCEPT !.labels = L, !.color = C, !.applied = A, !.parked = P]
            BY <2>1 DEF RenameExt
        <3>2. P = {}
            BY <1>2
        <3> HIDE DEF L, C, A, P
        <3> QED
            BY <1>1, <3>1, <3>2 DEF Tables
    <2>3. s \in Tables /\ i \in Items
        BY <1>1, RenameKeeps DEF Items, FollowInv, TypeInv
    <2> HIDE DEF s
    <2>4. ViewOf(s) = [labels |-> L, color |-> C, applied |-> A]
        <3> HIDE DEF L, C, A
        <3> QED
            BY <2>2 DEF ViewOf, ParkedPairs
    <2>5. Leads(View(phone), [i EXCEPT !.after = ViewOf(s)])
        <3>1. CanRename(View(phone), n, to)
            BY <1>3, <2>1 DEF CanRename
        <3>2. /\ L = {IF m = n THEN to ELSE m : m \in View(phone).labels}
              /\ C = [View(phone).color EXCEPT ![n] = NoColor, ![to] = View(phone).color[n]]
              /\ A = {<<p[1], IF p[2] = n THEN to ELSE p[2]>> : p \in View(phone).applied}
            BY <1>3
        <3> HIDE DEF L, C, A
        <3> QED
            BY <2>4, <3>1, <3>2 DEF Leads
    <2> QED
        BY <2>1, <2>2, <2>3, <2>5, ChangeLeads
<1>9. ASSUME NEW d \in Devices, NEW n \in Names, NEW c \in Colors, SetColor(d, n, c)
      PROVE  FollowInv' /\ Laptop!Next
    <2> DEFINE s == SetColorExt(dev[phone], n, c)
               i == [kind |-> "color", name |-> n, color |-> c, timestamp |-> 0, after |-> View(phone)]
    <2>1. d = phone /\ n \in dev[phone].labels /\ Change(d, s, i)
        BY <1>9 DEF SetColor, Change, OnlyPhone
    <2>2. s \in Tables /\ s.parked = {} /\ i \in Items
        BY <1>1, <1>2, SetColorKeeps DEF Items
    <2>3. ViewOf(s).labels = dev[phone].labels /\ ViewOf(s).color = [dev[phone].color EXCEPT ![n] = c]
          /\ ViewOf(s).applied = dev[phone].applied
        BY <1>1, <1>2, <2>1, <2>2, NothingParked DEF SetColorExt, Tables
    <2>4. ViewOf(s) = [labels |-> ViewOf(s).labels, color |-> ViewOf(s).color, applied |-> ViewOf(s).applied]
        BY DEF ViewOf
    <2> HIDE DEF s
    <2>5. Leads(View(phone), [i EXCEPT !.after = ViewOf(s)])
        BY <1>3, <2>1, <2>3, <2>4 DEF Leads
    <2> QED
        BY <2>1, <2>2, <2>5, ChangeLeads
<1>10. ASSUME NEW d \in Devices, NEW n \in Names, Delete(d, n)
       PROVE  FollowInv' /\ Laptop!Next
    <2> DEFINE s == DeleteExt(dev[phone], n)
               i == [kind |-> "delete", name |-> n, timestamp |-> 0, after |-> View(phone)]
               A == {p \in dev[phone].applied : p[2] # n}
    <2>1. d = phone /\ n \in dev[phone].labels \ Reserved /\ Change(d, s, i)
        BY <1>10 DEF Delete, Change, OnlyPhone
    <2>2. s \in Tables /\ s.parked = {} /\ i \in Items
        <3>1. s \in Tables
            BY <1>1, DeleteKeeps DEF FollowInv, TypeInv
        <3>2. s.parked = {}
            BY <1>1, <1>2, <2>1 DEF DeleteExt, Tables
        <3> QED
            BY <1>1, <3>1, <3>2 DEF Items
    <2>3. ViewOf(s).labels = dev[phone].labels \ {n} /\ ViewOf(s).color = [dev[phone].color EXCEPT ![n] = NoColor]
          /\ ViewOf(s).applied = A
        BY <1>1, <2>1, <2>2, NothingParked DEF DeleteExt, Tables
    <2>4. ViewOf(s) = [labels |-> ViewOf(s).labels, color |-> ViewOf(s).color, applied |-> ViewOf(s).applied]
        BY DEF ViewOf
    <2> HIDE DEF s
    <2>5. Leads(View(phone), [i EXCEPT !.after = ViewOf(s)])
        <3>1. A = {p \in View(phone).applied : p[2] # n}
            BY <1>3
        <3> HIDE DEF A
        <3> QED
            BY <1>3, <2>1, <2>3, <2>4, <3>1 DEF Leads
    <2> QED
        BY <2>1, <2>2, <2>5, ChangeLeads
<1>11. ASSUME NEW d \in Devices, NEW M \in SUBSET dev[d].msgs, NEW n \in Names, NEW b \in BOOLEAN,
              Apply(d, M, n, b)
       PROVE  FollowInv' /\ Laptop!Next
    <2> DEFINE s == SetExt(dev[phone], M, n, b)
               i == [kind |-> "apply", msgs |-> M, name |-> n, apply |-> b, timestamp |-> 0, after |-> View(phone)]
               A == IF b THEN dev[phone].applied \cup (M \X {n}) ELSE dev[phone].applied \ (M \X {n})
    <2>1. d = phone /\ n \in dev[phone].labels /\ Change(d, s, i)
        BY <1>11 DEF Apply, Change, OnlyPhone
    <2>2. M \in SUBSET Msgs
        BY <1>1 DEF Tables
    <2>3. s \in Tables /\ s.parked = {} /\ i \in Items
        BY <1>1, <1>2, <2>2, SetKeeps DEF Items
    <2>4. ViewOf(s).labels = dev[phone].labels /\ ViewOf(s).color = dev[phone].color /\ ViewOf(s).applied = A
        <3>1. s.labels = dev[phone].labels /\ s.color = dev[phone].color /\ s.applied = A
            BY <1>1 DEF SetExt, Tables
        <3> HIDE DEF s, A
        <3> QED
            BY <2>3, <3>1, NothingParked
    <2>5. ViewOf(s) = [labels |-> ViewOf(s).labels, color |-> ViewOf(s).color, applied |-> ViewOf(s).applied]
        BY DEF ViewOf
    <2> HIDE DEF s
    <2>6. Leads(View(phone), [i EXCEPT !.after = ViewOf(s)])
        <3>1. A = IF b THEN View(phone).applied \cup (M \X {n}) ELSE View(phone).applied \ (M \X {n})
            BY <1>3
        <3> HIDE DEF A
        <3> QED
            BY <1>3, <2>1, <2>4, <2>5, <3>1 DEF Leads
    <2> QED
        BY <2>1, <2>3, <2>6, ChangeLeads
<1>12. ASSUME NEW d \in Devices, NEW c \in calls[d], AddSyncItem(d, c)
       PROVE  FollowInv' /\ UNCHANGED Laptop!vars
    BY <1>12, SendQuiet
<1>13. ASSUME NEW d \in Devices, NEW k \in DOMAIN net[d], ReceiveSyncItem(d, k)
       PROVE  FollowInv' /\ [Laptop!Next]_(Laptop!vars)
    <2>1. CASE d = laptop
        BY <1>13, <2>1, ReceiveFollows
    <2>2. CASE d = phone
        BY <1>13, <2>2, EmptySeq DEF FollowInv, PhoneSends
    <2>3. CASE d \notin {phone, laptop}
        <3>1. /\ dev'[phone] = dev[phone] /\ dev'[laptop] = dev[laptop] /\ draining' = draining
              /\ net'[phone] = net[phone] /\ net'[laptop] = net[laptop] /\ calls' = calls /\ now' = now
            BY <1>1, <1>13, <2>3 DEF ReceiveSyncItem, counters, FollowInv, TypeInv
        <3> QED
            BY <1>2, <1>4, <3>1, QuietStep DEF View, FollowInv, LaptopSound
    <2> QED
        BY <2>1, <2>2, <2>3
<1>14. ASSUME NEW d \in Devices, NEW m \in Msgs, ReceiveMsg(d, m)
       PROVE  FollowInv' /\ UNCHANGED Laptop!vars
    <2>1. \A e \in Devices :
             /\ dev'[e].labels = dev[e].labels /\ dev'[e].color = dev[e].color
             /\ dev'[e].applied = dev[e].applied /\ dev'[e].parked = dev[e].parked
             /\ dev'[e].msgs = (IF e = d THEN dev[e].msgs \cup {m} ELSE dev[e].msgs)
        <3>1. dev' = [dev EXCEPT ![d].msgs = @ \cup {m}] /\ dev \in [Devices -> Tables]
            BY <1>14 DEF ReceiveMsg, FollowInv, TypeInv
        <3>2. \A e \in Devices : e # d => dev'[e] = dev[e]
            BY <3>1
        <3>3. /\ dev'[d].labels = dev[d].labels /\ dev'[d].color = dev[d].color
              /\ dev'[d].applied = dev[d].applied /\ dev'[d].parked = dev[d].parked
              /\ dev'[d].msgs = dev[d].msgs \cup {m}
            BY <3>1 DEF Tables
        <3> QED
            BY <3>2, <3>3
    <2>2. \A e \in Devices : draining'[e] = IF e = d THEN m ELSE draining[e]
        BY <1>14 DEF ReceiveMsg, FollowInv, TypeInv
    <2>3. View(phone)' = View(phone) /\ View(laptop)' = View(laptop) /\ Sound(dev'[laptop])
        BY <1>1, <1>2, <2>1 DEF View, ViewOf, Sound
    <2>4. \A p \in dev'[laptop].parked : p.msg \in dev'[laptop].msgs => draining'[laptop] = p.msg
        <3>1. \A p \in dev[laptop].parked : p.msg \in Msgs
            BY <1>1 DEF Tables, Parked
        <3>2. \A p \in dev[laptop].parked : p.msg \in dev[laptop].msgs => draining[laptop] = p.msg
            BY DEF FollowInv, LaptopSound
        <3>3. CASE d = laptop
            <4>1. draining[laptop] = NoMsg
                BY <1>14, <3>3 DEF ReceiveMsg
            <4>2. \A p \in dev[laptop].parked : p.msg \notin dev[laptop].msgs
                BY <3>1, <3>2, <4>1, MsgsAssumption
            <4>3. dev'[laptop].parked = dev[laptop].parked /\ dev'[laptop].msgs = dev[laptop].msgs \cup {m}
                  /\ draining'[laptop] = m
                BY <1>1, <2>2, <2>1, <3>3
            <4> QED
                BY <4>2, <4>3
        <3>4. CASE d # laptop
            BY <1>1, <2>2, <2>1, <3>2, <3>4
        <3> QED
            BY <3>3, <3>4
    <2> QED
        BY <1>1, <1>2, <1>4, <1>14, <2>1, <2>3, <2>4, QuietStep DEF ReceiveMsg, counters
<1>15. ASSUME NEW d \in Devices, DrainPending(d)
       PROVE  FollowInv' /\ UNCHANGED Laptop!vars
    <2>1. draining[d] \in Msgs
        BY <1>15 DEF DrainPending, FollowInv, TypeInv
    <2>2. \A e \in Devices : dev'[e] = IF e = d THEN Drain(dev[e], draining[e]) ELSE dev[e]
        BY <1>15 DEF DrainPending, FollowInv, TypeInv
    <2>3. \A e \in Devices : draining'[e] = IF e = d THEN NoMsg ELSE draining[e]
        BY <1>15 DEF DrainPending, FollowInv, TypeInv
    <2>4. \A e \in {phone, laptop} :
             /\ ViewOf(dev'[e]) = ViewOf(dev[e]) /\ (Sound(dev[e]) => Sound(dev'[e]))
             /\ dev'[e].msgs = dev[e].msgs
             /\ dev'[e].parked = IF e = d THEN {p \in dev[e].parked : p.msg # draining[e]} ELSE dev[e].parked
        <3> TAKE e \in {phone, laptop}
        <3>1. CASE e = d
            <4>1. dev'[e] = Drain(dev[e], draining[e]) /\ dev[e] \in Tables /\ draining[e] \in Msgs
                BY <1>1, <2>1, <2>2, <3>1
            <4> QED
                BY <3>1, <4>1, DrainShows, DrainKeeps
        <3>2. CASE e # d
            BY <1>1, <2>2, <3>2
        <3> QED
            BY <3>1, <3>2
    <2>5. View(phone)' = View(phone) /\ View(laptop)' = View(laptop)
        BY <2>4 DEF View
    <2>6. dev'[phone].parked = {} /\ dev'[laptop].parked \subseteq dev[laptop].parked /\ Sound(dev'[laptop])
        BY <1>2, <2>4
    <2>7. \A p \in dev'[laptop].parked : p.msg \in dev'[laptop].msgs => draining'[laptop] = p.msg
        BY <1>1, <2>3, <2>4 DEF FollowInv, LaptopSound
    <2> QED
        BY <1>4, <1>15, <2>5, <2>6, <2>7, QuietStep DEF DrainPending, counters
<1>16. ASSUME NEW d \in Devices, Prune(d)
       PROVE  FollowInv' /\ UNCHANGED Laptop!vars
    <2>1. CASE d = laptop
        <3>1. \A p \in dev[laptop].parked : p.timestamp \in Nat
            BY <1>1 DEF Tables, Parked
        <3>2. now <= Ttl /\ Ttl \in Nat
            BY BoundsAssumption DEF FollowInv, TypeInv, OnlyPhone
        <3>3. Expired(laptop) = {}
            BY <1>4, <3>1, <3>2 DEF Expired
        <3> QED
            BY <1>16, <2>1, <3>3 DEF Prune
    <2>2. CASE d # laptop
        <3>1. /\ dev'[laptop] = dev[laptop] /\ UNCHANGED <<draining, calls, net, now>>
              /\ \A e \in Devices : e # d => dev'[e] = dev[e]
            BY <1>1, <1>16, <2>2 DEF Prune, counters, FollowInv, TypeInv
        <3>2. d # phone
            BY <1>2, <1>16 DEF Prune, Expired
        <3> QED
            BY <1>1, <1>2, <1>4, <3>1, <3>2, QuietStep DEF View, FollowInv, LaptopSound
    <2> QED
        BY <2>1, <2>2
<1>17. ASSUME NEW d \in Devices, Lose(d) \/ Crash(d)
       PROVE  FALSE
    BY <1>17, BoundsAssumption DEF Lose, Crash, OnlyPhone, FollowInv, TypeInv
<1> QED
    BY <1>6, <1>7, <1>8, <1>9, <1>10, <1>11, <1>12, <1>13, <1>14, <1>15, <1>16, <1>17
    DEF Next, UserStep, InboxStep

\* While the user changes labels on one device, another one goes through the very states that
\* the first has shown, one by one: LabelSync implements LabelFollower.
THEOREM LaptopShowsAll == ASSUME OnlyPhone PROVE Spec => LaptopFollows
<1>1. Init => FollowInv /\ Laptop!Init
    <2> SUFFICES ASSUME Init PROVE FollowInv /\ Laptop!Init
        OBVIOUS
    <2>1. TypeInv
        BY TypeInit
    <2>2. /\ dev[phone] = NewAccount /\ dev[laptop] = NewAccount /\ net[phone] = <<>> /\ net[laptop] = <<>>
          /\ \A d \in Devices : calls[d] = {}
        BY DEF Init, OnlyPhone
    <2>3. NewAccount.applied = {} /\ NewAccount.parked = {} /\ Len(<<>>) = 0
        BY DEF NewAccount
    <2>4. PhoneSends /\ LaptopSound /\ InTime /\ Chain
        BY <2>2, <2>3 DEF PhoneSends, LaptopSound, InTime, Chain, Shown, View, Sound, OnlyPhone
    <2>5. Ahead = <<>>
        <3>1. calls[phone] = {} /\ Ahead = Afters(<<>>)
            BY <2>1, <2>2, AheadIs DEF OnlyPhone
        <3>2. Afters(<<>>) = <<>>
            BY DEF Afters
        <3> QED
            BY <3>1, <3>2
    <2> QED
        BY <2>1, <2>2, <2>4, <2>5 DEF FollowInv, Laptop!Init, View
<1>2. FollowInv /\ [Next]_vars => FollowInv' /\ [Laptop!Next]_(Laptop!vars)
    BY TypeNext, FollowNext DEF FollowInv
<1> QED
    BY <1>1, <1>2, PTL DEF Spec, LaptopFollows, Laptop!Spec
=============================================================================
