---------------------------- MODULE PeopleProofs ----------------------------
(***************************************************************************)
(* Proofs about the blocklist, gating, location streaming and joining by   *)
(* code, for any contacts, patterns, messages, chats and codes, any        *)
(* windows and any bounds.                                                 *)
(***************************************************************************)
EXTENDS Gating, Blocking, Locations, SecureJoin, FiniteSetTheorems, SequenceTheorems, WellFoundedInduction, TLAPS


----------------------------------------------------------------------------
(***************************************************************************)
(* Blocking: the inductive invariant.                                      *)
(***************************************************************************)

\* Where a call may be, what it holds, and what is on the way to the other device.
CallPoints == {"block", "add", "unblock", "remove", "list", "each"}
CallRecords ==
    [at : CallPoints, who : BlockContacts, pattern : Patterns, rest : SUBSET BlockContacts]
CallTypes == CallRecords \cup {NoCall}
QueueItems == [who : BlockContacts, block : BOOLEAN]

\* What the variables hold.
BlockingTypes ==
    /\ rowBlocked \in [BlockDevices -> SUBSET BlockContacts]
    /\ blocklist \in [BlockDevices -> SUBSET Patterns]
    /\ calls \in [BlockDevices -> [BlockCalls -> CallTypes]]
    /\ blockSync \in [BlockDevices -> Seq(QueueItems)]

\* A call that blocks a row has the row's own address for its pattern.
OwnPattern ==
    \A d \in BlockDevices, k \in BlockCalls :
        calls[d][k].at = "block" => calls[d][k].pattern = AddrOf[calls[d][k].who]

\* A call that has still to add a pattern for the contact, or to unblock its row.
Settles(d, k, c) ==
    \/ calls[d][k].at \in {"add", "list"} /\ PatternCovers(calls[d][k].pattern, AddrOf[c])
    \/ calls[d][k].at = "each" /\ c \in calls[d][k].rest

\* A blocked row whose mail is let in: some call on the device will settle it.
RowsSettled ==
    \A d \in BlockDevices : \A c \in rowBlocked[d] :
        \/ [device |-> d, who |-> c] \in torn
        \/ Matches(d, AddrOf[c])
        \/ \E k \in BlockCalls : Settles(d, k, c)

\* The inductive invariant of the blocklist.
BlockingInv == BlockingTypes /\ OwnPattern /\ RowsSettled

\* What may become of a call's record.
LEMMA CallSteps ==
    ASSUME NEW r \in CallTypes, NEW a \in CallPoints, NEW R \in SUBSET BlockContacts
    PROVE  /\ r.at \in CallPoints \cup {"none"}
           /\ r.at # "none" => /\ r \in CallRecords
                               /\ [r EXCEPT !.at = a] \in CallRecords
                               /\ [r EXCEPT !.rest = R] \in CallRecords
                               /\ [r EXCEPT !.at = a, !.rest = R] \in CallRecords
                               /\ r.who \in BlockContacts
                               /\ r.pattern \in Patterns
                               /\ r.rest \in SUBSET BlockContacts
           /\ r = NoCall <=> r.at = "none"
<1>1. CASE r = NoCall
    BY <1>1 DEF NoCall
<1>2. CASE r \in CallRecords
    <2>1. r.at \in CallPoints /\ r.at # "none" /\ r # NoCall
        BY <1>2 DEF CallRecords, CallPoints, NoCall
    <2>2. [r EXCEPT !.at = a] \in CallRecords /\ [r EXCEPT !.rest = R] \in CallRecords
        BY <1>2 DEF CallRecords
    <2>3. [r EXCEPT !.at = a, !.rest = R] \in CallRecords
        BY <1>2 DEF CallRecords
    <2>4. /\ r.who \in BlockContacts
          /\ r.pattern \in Patterns
          /\ r.rest \in SUBSET BlockContacts
        BY <1>2 DEF CallRecords
    <2> QED
        BY <1>2, <2>1, <2>2, <2>3, <2>4
<1> QED
    BY <1>1, <1>2 DEF CallTypes

\* One call moves, the others stay.
LEMMA CallMoves ==
    ASSUME NEW d \in BlockDevices, NEW k \in BlockCalls, NEW r \in CallTypes,
           BlockingTypes, Moves(d, k, r)
    PROVE  /\ calls' \in [BlockDevices -> [BlockCalls -> CallTypes]]
           /\ \A e \in BlockDevices, j \in BlockCalls :
                 calls'[e][j] = IF e = d /\ j = k THEN r ELSE calls[e][j]
BY DEF BlockingTypes, Moves

\* Blocking and unblocking a row, and the news of it for the other devices.
LEMMA RowSet ==
    ASSUME NEW d \in BlockDevices, NEW c \in BlockContacts, NEW b \in BOOLEAN,
           BlockingTypes, SetRow(d, c, b)
    PROVE  /\ rowBlocked' \in [BlockDevices -> SUBSET BlockContacts]
           /\ blockSync' \in [BlockDevices -> Seq(QueueItems)]
<1>1. rowBlocked' \in [BlockDevices -> SUBSET BlockContacts]
    BY DEF BlockingTypes, SetRow
<1>2. ASSUME NEW e \in BlockDevices
      PROVE  blockSync[e] \o <<[who |-> c, block |-> b]>> \in Seq(QueueItems)
    <2>1. blockSync[e] \in Seq(QueueItems)
        BY DEF BlockingTypes
    <2>2. [who |-> c, block |-> b] \in QueueItems
        BY DEF QueueItems
    <2> QED
        BY <2>1, <2>2
<1>3. blockSync' \in [BlockDevices -> Seq(QueueItems)]
    BY <1>2 DEF BlockingTypes, SetRow
<1> QED
    BY <1>1, <1>3

\* The rest of a queue is a queue.
LEMMA RestOfQueue ==
    ASSUME NEW S, NEW q \in Seq(S), q # <<>>
    PROVE  [i \in 1..(Len(q) - 1) |-> q[i + 1]] \in Seq(S) /\ q[1] \in S
<1>1. Len(q) \in Nat /\ Len(q) >= 1 /\ q \in [1..Len(q) -> S]
    BY EmptySeq, LenProperties
<1>2. [i \in 1..(Len(q) - 1) |-> q[i + 1]] \in [1..(Len(q) - 1) -> S]
    BY <1>1
<1>3. Len(q) - 1 \in Nat
    BY <1>1
<1> QED
    BY <1>1, <1>2, <1>3 DEF Seq

\* Every step keeps it.
LEMMA BlockingNextInv == BlockingInv /\ [BlockingNext]_blockingVars => BlockingInv'
<1> SUFFICES ASSUME BlockingInv, [BlockingNext]_blockingVars PROVE BlockingInv'
    OBVIOUS
<1> USE DEF BlockingInv
<1>1. CASE UNCHANGED blockingVars
    BY <1>1 DEF blockingVars, BlockingTypes, OwnPattern, RowsSettled, Settles, Matches
<1>2. ASSUME NEW d \in BlockDevices, NEW k \in BlockCalls, NEW c \in BlockContacts,
             NEW p \in Patterns, NEW at \in {"block", "unblock", "add", "remove"},
             at = "block" => p = AddrOf[c], StartCall(d, k, Call(at, c, p))
      PROVE  BlockingInv'
    <2>1. Call(at, c, p) \in CallTypes
        BY DEF Call, CallTypes, CallRecords, CallPoints
    <2>2. /\ calls' \in [BlockDevices -> [BlockCalls -> CallTypes]]
          /\ \A e \in BlockDevices, j \in BlockCalls :
                calls'[e][j] = IF e = d /\ j = k THEN Call(at, c, p) ELSE calls[e][j]
        BY <1>2, <2>1, CallMoves DEF StartCall
    <2>3. BlockingTypes'
        BY <1>2, <2>2 DEF StartCall, BlockingTypes
    <2>4. OwnPattern'
        BY <1>2, <2>2 DEF OwnPattern, Call
    <2>5. calls[d][k].at = "none"
        BY <1>2 DEF StartCall, NoCall
    <2>6. RowsSettled'
        <3>1. \A e \in BlockDevices, j \in BlockCalls, x \in BlockContacts :
                 Settles(e, j, x) => Settles(e, j, x)'
            BY <2>2, <2>5 DEF Settles
        <3> QED
            BY <1>2, <3>1 DEF StartCall, RowsSettled, Matches, BlockingTypes
    <2> QED
        BY <2>3, <2>4, <2>6
<1>3. ASSUME NEW d \in BlockDevices, NEW k \in BlockCalls, BlockRowAndPattern(d, k)
      PROVE  BlockingInv'
    <2> DEFINE r == calls[d][k]
    <2>1. r \in CallTypes /\ r.at = "block"
        BY <1>3 DEF BlockRowAndPattern, BlockingTypes
    <2>2. r \in CallRecords /\ [r EXCEPT !.at = "add"] \in CallRecords /\ r.who \in BlockContacts
        BY <2>1, CallSteps DEF CallPoints
    <2>3. /\ calls' \in [BlockDevices -> [BlockCalls -> CallTypes]]
          /\ \A e \in BlockDevices, j \in BlockCalls :
                calls'[e][j] = IF e = d /\ j = k THEN [r EXCEPT !.at = "add"] ELSE calls[e][j]
        BY <1>3, <2>2, CallMoves DEF BlockRowAndPattern, CallTypes
    <2>4. /\ rowBlocked' \in [BlockDevices -> SUBSET BlockContacts]
          /\ blockSync' \in [BlockDevices -> Seq(QueueItems)]
        BY <1>3, <2>2, RowSet DEF BlockRowAndPattern
    <2>5. BlockingTypes'
        BY <1>3, <2>3, <2>4 DEF BlockRowAndPattern, BlockingTypes
    <2>6. OwnPattern'
        BY <2>2, <2>3 DEF OwnPattern, CallRecords
    <2>7. [r EXCEPT !.at = "add"].at = "add" /\ [r EXCEPT !.at = "add"].pattern = AddrOf[r.who]
        BY <2>1, <2>2 DEF OwnPattern, CallRecords
    <2>8. RowsSettled'
        <3>1. \A e \in BlockDevices, j \in BlockCalls, x \in BlockContacts :
                 Settles(e, j, x) => Settles(e, j, x)'
            BY <2>1, <2>3 DEF Settles
        <3>2. \A x \in BlockContacts : x = r.who => Settles(d, k, x)'
            BY <2>3, <2>7 DEF Settles, PatternCovers
        <3>3. \A e \in BlockDevices : \A x \in rowBlocked'[e] :
                 (e = d /\ x = r.who) \/ x \in rowBlocked[e]
            BY <1>3 DEF BlockRowAndPattern, SetRow, BlockingTypes
        <3>4. \A e \in BlockDevices, x \in BlockContacts :
                 [device |-> e, who |-> x] \in torn =>
                     [device |-> e, who |-> x] \in torn' \/ (e = d /\ x = r.who)
            BY <1>3 DEF BlockRowAndPattern
        <3>5. \A e \in BlockDevices, x \in BlockContacts : Matches(e, AddrOf[x]) => Matches(e, AddrOf[x])'
            BY <1>3 DEF BlockRowAndPattern, Matches
        <3> QED
            BY <2>4, <3>1, <3>2, <3>3, <3>4, <3>5 DEF RowsSettled, BlockingTypes
    <2> QED
        BY <2>5, <2>6, <2>8
<1>4. ASSUME NEW d \in BlockDevices, NEW k \in BlockCalls, AddPattern(d, k)
      PROVE  BlockingInv'
    <2> DEFINE r == calls[d][k]
    <2>1. r \in CallTypes /\ r.at = "add"
        BY <1>4 DEF AddPattern, BlockingTypes
    <2>2. r \in CallRecords /\ r.pattern \in Patterns
        BY <2>1, CallSteps DEF CallPoints
    <2>3. /\ calls' \in [BlockDevices -> [BlockCalls -> CallTypes]]
          /\ \A e \in BlockDevices, j \in BlockCalls :
                calls'[e][j] = IF e = d /\ j = k THEN NoCall ELSE calls[e][j]
        BY <1>4, <2>2, CallMoves DEF AddPattern, CallTypes
    <2>4. BlockingTypes'
        BY <1>4, <2>2, <2>3 DEF AddPattern, BlockingTypes
    <2>5. OwnPattern'
        BY <2>3 DEF OwnPattern, NoCall
    <2>6. RowsSettled'
        <3>1. \A e \in BlockDevices, j \in BlockCalls, x \in BlockContacts :
                 Settles(e, j, x) =>
                     Settles(e, j, x)' \/ (e = d /\ j = k /\ PatternCovers(r.pattern, AddrOf[x]))
            BY <2>1, <2>3 DEF Settles
        <3>2. \A e \in BlockDevices, x \in BlockContacts : Matches(e, AddrOf[x]) => Matches(e, AddrOf[x])'
            BY <1>4 DEF AddPattern, Matches, BlockingTypes
        <3>3. \A x \in BlockContacts : PatternCovers(r.pattern, AddrOf[x]) => Matches(d, AddrOf[x])'
            BY <1>4 DEF AddPattern, Matches, BlockingTypes
        <3> QED
            BY <1>4, <3>1, <3>2, <3>3 DEF AddPattern, RowsSettled, BlockingTypes
    <2> QED
        BY <2>4, <2>5, <2>6
<1>5. ASSUME NEW d \in BlockDevices, NEW k \in BlockCalls, UnblockContact(d, k)
      PROVE  BlockingInv'
    <2> DEFINE r == calls[d][k]
    <2>1. r \in CallTypes /\ r.at = "unblock"
        BY <1>5 DEF UnblockContact, BlockingTypes
    <2>2. r \in CallRecords /\ [r EXCEPT !.at = "remove"] \in CallRecords /\ r.who \in BlockContacts
        BY <2>1, CallSteps DEF CallPoints
    <2>3. /\ calls' \in [BlockDevices -> [BlockCalls -> CallTypes]]
          /\ \A e \in BlockDevices, j \in BlockCalls :
                calls'[e][j] = IF e = d /\ j = k THEN [r EXCEPT !.at = "remove"] ELSE calls[e][j]
        BY <1>5, <2>2, CallMoves DEF UnblockContact, CallTypes
    <2>4. /\ rowBlocked' \in [BlockDevices -> SUBSET BlockContacts]
          /\ blockSync' \in [BlockDevices -> Seq(QueueItems)]
        BY <1>5, <2>2, RowSet DEF UnblockContact
    <2>5. BlockingTypes'
        BY <1>5, <2>3, <2>4 DEF UnblockContact, BlockingTypes
    <2>6. OwnPattern'
        BY <2>2, <2>3 DEF OwnPattern, CallRecords
    <2>7. RowsSettled'
        <3>1. \A e \in BlockDevices, j \in BlockCalls, x \in BlockContacts :
                 Settles(e, j, x) => Settles(e, j, x)'
            BY <2>1, <2>3 DEF Settles
        <3> QED
            BY <1>5, <2>2, <3>1 DEF UnblockContact, SetRow, RowsSettled, Matches, BlockingTypes
    <2> QED
        BY <2>5, <2>6, <2>7
<1>6. ASSUME NEW d \in BlockDevices, NEW k \in BlockCalls, RemovePattern(d, k)
      PROVE  BlockingInv'
    <2> DEFINE r == calls[d][k]
    <2>1. r \in CallTypes /\ r.at = "remove"
        BY <1>6 DEF RemovePattern, BlockingTypes
    <2>2. r \in CallRecords /\ [r EXCEPT !.at = "list"] \in CallRecords
        BY <2>1, CallSteps DEF CallPoints
    <2>3. /\ calls' \in [BlockDevices -> [BlockCalls -> CallTypes]]
          /\ \A e \in BlockDevices, j \in BlockCalls :
                calls'[e][j] = IF e = d /\ j = k THEN [r EXCEPT !.at = "list"] ELSE calls[e][j]
        BY <1>6, <2>2, CallMoves DEF RemovePattern, CallTypes
    <2>4. BlockingTypes'
        BY <1>6, <2>3 DEF RemovePattern, BlockingTypes
    <2>5. OwnPattern'
        BY <2>2, <2>3 DEF OwnPattern, CallRecords
    <2>6. RowsSettled'
        <3>1. \A e \in BlockDevices, j \in BlockCalls, x \in BlockContacts :
                 Settles(e, j, x) => Settles(e, j, x)'
            BY <2>1, <2>3 DEF Settles
        <3>2. [r EXCEPT !.at = "list"].at = "list" /\ [r EXCEPT !.at = "list"].pattern = r.pattern
            BY <2>2 DEF CallRecords
        <3>3. \A x \in BlockContacts : PatternCovers(r.pattern, AddrOf[x]) => Settles(d, k, x)'
            BY <2>3, <3>2 DEF Settles
        <3>4. \A e \in BlockDevices, x \in BlockContacts :
                 Matches(e, AddrOf[x]) =>
                     Matches(e, AddrOf[x])' \/ (e = d /\ PatternCovers(r.pattern, AddrOf[x]))
            BY <1>6 DEF RemovePattern, Matches, BlockingTypes
        <3> QED
            BY <1>6, <3>1, <3>3, <3>4 DEF RemovePattern, RowsSettled, BlockingTypes
    <2> QED
        BY <2>4, <2>5, <2>6
<1>7. ASSUME NEW d \in BlockDevices, NEW k \in BlockCalls, ListBlocked(d, k)
      PROVE  BlockingInv'
    <2> DEFINE r == calls[d][k]
               R == {c \in rowBlocked[d] : PatternCovers(r.pattern, AddrOf[c])}
               n == [r EXCEPT !.at = "each", !.rest = R]
    <2>1. r \in CallTypes /\ r.at = "list" /\ R \in SUBSET BlockContacts
        BY <1>7 DEF ListBlocked, BlockingTypes
    <2>2. r \in CallRecords /\ n \in CallRecords
        BY <2>1, CallSteps DEF CallPoints
    <2>3. n.at = "each" /\ n.rest = R
        BY <2>2 DEF CallRecords
    <2>4. Moves(d, k, n)
        BY <1>7 DEF ListBlocked
    <2> HIDE DEF n
    <2>5. /\ calls' \in [BlockDevices -> [BlockCalls -> CallTypes]]
          /\ \A e \in BlockDevices, j \in BlockCalls :
                calls'[e][j] = IF e = d /\ j = k THEN n ELSE calls[e][j]
        BY <2>2, <2>4, CallMoves DEF CallTypes
    <2>6. BlockingTypes'
        BY <1>7, <2>5 DEF ListBlocked, BlockingTypes
    <2>7. OwnPattern'
        BY <2>3, <2>5 DEF OwnPattern
    <2>8. RowsSettled'
        <3>1. \A e \in BlockDevices, j \in BlockCalls : \A x \in rowBlocked[e] :
                 Settles(e, j, x) => Settles(e, j, x)'
            BY <2>1, <2>3, <2>5 DEF Settles
        <3> QED
            BY <1>7, <3>1 DEF ListBlocked, RowsSettled, Matches, BlockingTypes
    <2> QED
        BY <2>6, <2>7, <2>8
<1>8. ASSUME NEW d \in BlockDevices, NEW k \in BlockCalls, UnblockEach(d, k)
      PROVE  BlockingInv'
    <2> DEFINE r == calls[d][k]
    <2>1. r \in CallTypes /\ r.at = "each"
        BY <1>8 DEF UnblockEach, BlockingTypes
    <2>2. r \in CallRecords /\ r.rest \in SUBSET BlockContacts
        BY <2>1, CallSteps DEF CallPoints
    <2>3. CASE r.rest = {}
        <3>1. /\ calls' \in [BlockDevices -> [BlockCalls -> CallTypes]]
              /\ \A e \in BlockDevices, j \in BlockCalls :
                    calls'[e][j] = IF e = d /\ j = k THEN NoCall ELSE calls[e][j]
            BY <1>8, <2>3, CallMoves DEF UnblockEach, CallTypes
        <3>2. BlockingTypes'
            BY <1>8, <2>3, <3>1 DEF UnblockEach, BlockingTypes
        <3>3. OwnPattern'
            BY <3>1 DEF OwnPattern, NoCall
        <3>4. \A e \in BlockDevices, j \in BlockCalls, x \in BlockContacts :
                 Settles(e, j, x) => Settles(e, j, x)'
            BY <2>1, <2>3, <3>1 DEF Settles
        <3>5. RowsSettled'
            BY <1>8, <2>3, <3>4 DEF UnblockEach, RowsSettled, Matches, BlockingTypes
        <3> QED
            BY <3>2, <3>3, <3>5
    <2>4. ASSUME NEW c \in r.rest, SetRow(d, c, FALSE),
                 Moves(d, k, [r EXCEPT !.rest = @ \ {c}]),
                 UNCHANGED <<blocklist, budget, torn>>
          PROVE  BlockingInv'
        <3> DEFINE n == [r EXCEPT !.rest = r.rest \ {c}]
        <3>1. c \in BlockContacts /\ r.rest \ {c} \in SUBSET BlockContacts
            BY <2>2
        <3>2. n \in CallRecords
            BY <2>1, <3>1, CallSteps DEF CallPoints
        <3>3. n.at = "each" /\ n.rest = r.rest \ {c}
            BY <2>1, <2>2 DEF CallRecords
        <3>4. Moves(d, k, n)
            BY <2>2, <2>4 DEF CallRecords
        <3> HIDE DEF n
        <3>5. /\ calls' \in [BlockDevices -> [BlockCalls -> CallTypes]]
              /\ \A e \in BlockDevices, j \in BlockCalls :
                    calls'[e][j] = IF e = d /\ j = k THEN n ELSE calls[e][j]
            BY <3>2, <3>4, CallMoves DEF CallTypes
        <3>6. /\ rowBlocked' \in [BlockDevices -> SUBSET BlockContacts]
              /\ blockSync' \in [BlockDevices -> Seq(QueueItems)]
            BY <2>4, <3>1, RowSet
        <3>7. BlockingTypes'
            BY <2>4, <3>5, <3>6 DEF BlockingTypes
        <3>8. OwnPattern'
            BY <3>3, <3>5 DEF OwnPattern
        <3>9. \A e \in BlockDevices, j \in BlockCalls, x \in BlockContacts :
                 Settles(e, j, x) => Settles(e, j, x)' \/ (e = d /\ x = c)
            BY <2>1, <3>3, <3>5 DEF Settles
        <3>10. RowsSettled'
            BY <2>4, <3>1, <3>9 DEF SetRow, RowsSettled, Matches, BlockingTypes
        <3> QED
            BY <3>7, <3>8, <3>10
    <2> QED
        BY <1>8, <2>3, <2>4 DEF UnblockEach
<1>9. ASSUME NEW d \in BlockDevices, Dies(d)
      PROVE  BlockingInv'
    <2>1. /\ calls' \in [BlockDevices -> [BlockCalls -> CallTypes]]
          /\ \A e \in BlockDevices, j \in BlockCalls :
                calls'[e][j] = IF e = d THEN NoCall ELSE calls[e][j]
        BY <1>9 DEF Dies, BlockingTypes, CallTypes
    <2>2. BlockingTypes'
        BY <1>9, <2>1 DEF Dies, BlockingTypes
    <2>3. OwnPattern'
        BY <2>1 DEF OwnPattern, NoCall
    <2>4. \A e \in BlockDevices, j \in BlockCalls, x \in BlockContacts :
             Settles(e, j, x) => Settles(e, j, x)' \/ e = d
        BY <2>1 DEF Settles
    <2>5. \A x \in rowBlocked[d] : [device |-> d, who |-> x] \in torn'
        BY <1>9 DEF Dies
    <2>6. RowsSettled'
        BY <1>9, <2>4, <2>5 DEF Dies, RowsSettled, Matches, BlockingTypes
    <2> QED
        BY <2>2, <2>3, <2>6
<1>10. ASSUME NEW d \in BlockDevices, SyncAlterChat(d)
       PROVE  BlockingInv'
    <2> DEFINE s == blockSync[d][1]
    <2>1. blockSync[d] \in Seq(QueueItems) /\ blockSync[d] # <<>>
        BY <1>10 DEF SyncAlterChat, BlockingTypes
    <2>2. /\ [i \in 1..(Len(blockSync[d]) - 1) |-> blockSync[d][i + 1]] \in Seq(QueueItems)
          /\ s \in QueueItems
        BY <2>1, RestOfQueue
    <2>3. s.who \in BlockContacts
        BY <2>2 DEF QueueItems
    <2>4. BlockingTypes'
        BY <1>10, <2>2, <2>3 DEF SyncAlterChat, BlockingTypes
    <2>5. OwnPattern'
        BY <1>10 DEF SyncAlterChat, OwnPattern
    <2>6. RowsSettled'
        <3>1. \A e \in BlockDevices : \A x \in rowBlocked'[e] :
                 [device |-> e, who |-> x] \in torn' \/ x \in rowBlocked[e]
            BY <1>10 DEF SyncAlterChat, BlockingTypes
        <3>2. torn \subseteq torn'
            BY <1>10 DEF SyncAlterChat
        <3>3. \A e \in BlockDevices, x \in BlockContacts :
                 /\ Matches(e, AddrOf[x]) => Matches(e, AddrOf[x])'
                 /\ \A j \in BlockCalls : Settles(e, j, x) => Settles(e, j, x)'
            BY <1>10 DEF SyncAlterChat, Matches, Settles
        <3> QED
            BY <2>4, <3>1, <3>2, <3>3 DEF RowsSettled, BlockingTypes
    <2> QED
        BY <2>4, <2>5, <2>6
<1>11. CASE BlockingNext
    BY <1>2, <1>3, <1>4, <1>5, <1>6, <1>7, <1>8, <1>9, <1>10, <1>11 DEF BlockingNext, Patterns
<1> QED
    BY <1>1, <1>11

\* However blocking, unblocking and edits of the list overlap on a device, no contact
\* is left blocked whose mail the list lets in, but for a death and for rows that
\* another device changed.
THEOREM BlockedIsRejected == BlockingSpec => []BlockingSafe
<1>1. BlockingInit => BlockingInv
    BY EmptySeq
    DEF BlockingInit, BlockingInv, BlockingTypes, CallTypes, OwnPattern, RowsSettled, NoCall
<1>2. BlockingInv => BlockingSafe
    <2> SUFFICES ASSUME BlockingInv PROVE BlockingSafe
        OBVIOUS
    <2>1. \A d \in BlockDevices, k \in BlockCalls : calls[d][k].at \in CallPoints \cup {"none"}
        BY CallSteps DEF BlockingInv, BlockingTypes, CallPoints
    <2>2. BlockingTypeOK
        BY <2>1 DEF BlockingTypeOK, BlockingInv, BlockingTypes, CallPoints
    <2>3. BlockedRejected
        BY DEF BlockedRejected, BlockingInv, RowsSettled, Settles, NoCall
    <2> QED
        BY <2>2, <2>3 DEF BlockingSafe
<1> QED
    BY <1>1, <1>2, BlockingNextInv, PTL DEF BlockingSpec

----------------------------------------------------------------------------
(***************************************************************************)
(* Gating: the inductive invariant.                                        *)
(***************************************************************************)

\* A message enters the hold once: until apply has labelled it nobody has
\* decided about it and no other handler has it in hand.
FirstHold ==
    /\ \A m \in Msgs : msgs[m] = "unreceived" =>
          /\ fate[m] = "none"
          /\ held_at[m] = NoRow
          /\ \A t \in Tasks : m \notin ids[t]
    /\ pc[Inbox] \in {"apply", "hold_label"} =>
          \A m \in ids[Inbox] : /\ fate[m] = "none"
                                 /\ held_at[m] = NoRow
                                 /\ msgs[m] # "unreceived"
                                 /\ \A t \in Tasks \ {Inbox} : m \notin ids[t]

\* Once sweep has put a message into the trash it stays there, or somebody has
\* decided about it, until it leaves the hold.
SweepInv ==
    pc[Housekeeping] \in {"trash_row", "sweep_label"} =>
        \A m \in ids[Housekeeping] \cap Live : fate[m] = "held" => m \in trashed

\* Where apply and sweep are, and what that says of the messages.
HoldInv == FirstHold /\ SweepInv /\ AcceptedNotUnverified /\ NothingLost

\* The inductive invariant of gating.
IInv == TypeOK /\ HoldInv

USE DEF Tasks, Inbox, User, Housekeeping, Idle, Labels

----------------------------------------------------------------------------
(***************************************************************************)
(* Each conjunct, action by action.                                        *)
(***************************************************************************)

\* A new database is well typed.
LEMMA TypeInit == Init => TypeOK
<1> SUFFICES ASSUME Init PROVE TypeOK
    OBVIOUS
<1>1. enabled \in BOOLEAN /\ hold_days \in Windows
    BY DEF Init
<1>2. /\ pc \in [Tasks -> Labels]
      /\ todo \in [Tasks -> SUBSET Contacts]
      /\ rows \in [Tasks -> SUBSET Contacts]
      /\ ids \in [Tasks -> SUBSET Msgs]
    BY DEF Init
<1> QED
    BY <1>1, <1>2 DEF Init, TypeOK, NoRow, None

\* Every step keeps every variable in its type.
LEMMA TypeNext == TypeOK /\ [Next]_vars => TypeOK'
<1> SUFFICES ASSUME TypeOK, [Next]_vars PROVE TypeOK'
    OBVIOUS
<1> USE ContactsAssumption, WindowsAssumption, BoundsAssumption
<1>1. CASE UNCHANGED vars
    BY <1>1
    DEF TypeOK,
        vars, mail, contacts, settings, control, Live
<1>2. CASE Next
    <2>1. CASE Tick
        BY <2>1
        DEF TypeOK, Tick, mail, contacts, settings, control, Live, NoRow, None
    <2>2. ASSUME NEW m \in Msgs, NEW c \in Contacts \cup {Self}, Receive(m, c)
          PROVE  TypeOK'
        BY <2>2
        DEF TypeOK, Receive, CanStart, Goto, mail, contacts, settings, control,
            Live, NoRow, None
    <2>3. CASE ApplyCheck
        BY <2>3
        DEF TypeOK, ApplyCheck, Done, Goto, mail, contacts, settings, control,
            Live, NoRow, None
    <2>4. CASE HoldLabel
        BY <2>4
        DEF TypeOK, HoldLabel, Decide, Goto, mail, contacts, settings, control,
            Live, NoRow, None
    <2>5. CASE HoldRow
        BY <2>5
        DEF TypeOK, HoldRow, Done, Goto, Held, mail, contacts, settings,
            control, Live, NoRow, None
    <2>6. ASSUME NEW t \in {Inbox, User}, NEW C \in SUBSET Contacts, NEW b \in BOOLEAN,
             ScaleupOrigin(t, C, b)
          PROVE  TypeOK'
        BY <2>6
        DEF TypeOK, ScaleupOrigin, CanStart, Goto, mail, contacts, settings,
            control, Live, NoRow, None
    <2>7. ASSUME NEW t \in {Inbox, User}, NEW c \in Contacts, MarkVerified(t, c)
          PROVE  TypeOK'
        BY <2>7
        DEF TypeOK, MarkVerified, CanStart, Goto, mail, contacts, settings,
            control, Live, NoRow, None
    <2>8. ASSUME NEW c \in Contacts, ReleaseHeldContact(c) PROVE TypeOK'
        BY <2>8
        DEF TypeOK, ReleaseHeldContact, CanStart, Goto, mail, contacts,
            settings, control, Live, NoRow, None
    <2>9. ASSUME NEW t \in {Inbox, User}, NEW c \in Contacts, AddOrLookup(t, c)
          PROVE  TypeOK'
        BY <2>9
        DEF TypeOK, AddOrLookup, mail, contacts, settings, control, Live, NoRow,
            None
    <2>10. ASSUME NEW c \in Contacts, NEW b \in BOOLEAN, SetBlocked(c, b)
          PROVE  TypeOK'
        BY <2>10
        DEF TypeOK, SetBlocked, mail, contacts, settings, control, Live, NoRow,
            None
    <2>11. ASSUME NEW t \in {Inbox, User}, NEW c \in Contacts, ReleaseCheck(t, c)
          PROVE  TypeOK'
        BY <2>11
        DEF TypeOK, ReleaseCheck, SamePerson, Goto, mail, contacts, settings,
            control, Live, NoRow, None
    <2>12. ASSUME NEW t \in {Inbox, User}, NEW c \in Contacts, ReleaseSelect(t, c)
          PROVE  TypeOK'
        BY <2>12
        DEF TypeOK, ReleaseSelect, Held, Goto, mail, contacts, settings,
            control, Live, NoRow, None
    <2>13. ASSUME NEW t \in {Inbox, User}, ReleaseNext(t) PROVE TypeOK'
        BY <2>13
        DEF TypeOK, ReleaseNext, Done, Goto, mail, contacts, settings, control,
            Live, NoRow, None
    <2>14. ASSUME NEW t \in {Inbox, User}, ReleaseLabel(t) PROVE TypeOK'
        BY <2>14
        DEF TypeOK, ReleaseLabel, UnholdLabel, Decide, Goto, mail, contacts,
            settings, control, Live, NoRow, None
    <2>15. ASSUME NEW t \in {Inbox, User}, ReleaseRow(t) PROVE TypeOK'
        BY <2>15
        DEF TypeOK, ReleaseRow, UnholdRows, DeleteHeld, Goto, mail, contacts,
            settings, control, Live, NoRow, None
    <2>16. ASSUME NEW b \in BOOLEAN, SetEnabled(b) PROVE TypeOK'
        BY <2>16
        DEF TypeOK, SetEnabled, CanStart, Goto, mail, contacts, settings,
            control, Live, NoRow, None
    <2>17. CASE FreeSelect
        BY <2>17
        DEF TypeOK, FreeSelect, Done, Held, Goto, mail, contacts, settings,
            control, Live, NoRow, None
    <2>18. CASE FreeLabel
        BY <2>18
        DEF TypeOK, FreeLabel, UnholdLabel, Decide, Goto, mail, contacts,
            settings, control, Live, NoRow, None
    <2>19. CASE FreeRow
        BY <2>19
        DEF TypeOK, FreeRow, UnholdRows, DeleteHeld, Done, Goto, mail, contacts,
            settings, control, Live, NoRow, None
    <2>20. ASSUME NEW w \in Windows, SetHoldDays(w) PROVE TypeOK'
        BY <2>20
        DEF TypeOK, SetHoldDays, mail, contacts, settings, control, Live, NoRow,
            None
    <2>21. CASE LabelsPrune
        BY <2>21
        DEF TypeOK, LabelsPrune, CanStart, Goto, Live, mail, contacts, settings,
            control, NoRow, None
    <2>22. CASE SweepSelect
        BY <2>22
        DEF TypeOK, SweepSelect, DeleteHeld, Done, Held, Goto, mail, contacts,
            settings, control, Live, NoRow, None
    <2>23. CASE SweepTrashLabel
        BY <2>23
        DEF TypeOK, SweepTrashLabel, Goto, mail, contacts, settings, control,
            Live, NoRow, None
    <2>24. CASE SweepTrashRow
        BY <2>24
        DEF TypeOK, SweepTrashRow, Goto, mail, contacts, settings, control,
            Live, NoRow, None
    <2>25. CASE SweepLabel
        BY <2>25
        DEF TypeOK, SweepLabel, UnholdLabel, Decide, Goto, mail, contacts,
            settings, control, Live, NoRow, None
    <2>26. CASE SweepRow
        BY <2>26
        DEF TypeOK, SweepRow, UnholdRows, DeleteHeld, Done, Goto, mail,
            contacts, settings, control, Live, NoRow, None
    <2>27. ASSUME NEW m \in Msgs, TrashByUser(m) PROVE TypeOK'
        BY <2>27
        DEF TypeOK, TrashByUser, mail, contacts, settings, control, Live, NoRow,
            None
    <2>28. ASSUME NEW m \in Msgs, Restore(m) PROVE TypeOK'
        BY <2>28
        DEF TypeOK, Restore, Decide, Live, mail, contacts, settings, control,
            NoRow, None
    <2>29. ASSUME NEW m \in Msgs, Purge(m) PROVE TypeOK'
        BY <2>29
        DEF TypeOK, Purge, mail, contacts, settings, control, Live, NoRow, None
    <2>30. ASSUME NEW t \in Tasks, Fail(t) PROVE TypeOK'
        BY <2>30
        DEF TypeOK, Fail, Done, Goto, mail, contacts, settings, control, Live,
            NoRow, None
    <2>31. CASE Crash
        BY <2>31
        DEF TypeOK, Crash, mail, contacts, settings, control, Live, NoRow, None
    <2> QED
        BY <1>2, <2>1, <2>2, <2>3, <2>4, <2>5, <2>6, <2>7, <2>8, <2>9, <2>10,
           <2>11, <2>12, <2>13, <2>14, <2>15, <2>16, <2>17, <2>18, <2>19, <2>20,
           <2>21, <2>22, <2>23, <2>24, <2>25, <2>26, <2>27, <2>28, <2>29, <2>30,
           <2>31
        DEF Next, InboxStep, UserStep, HousekeepingStep, ReleaseStep, Event, Fault
<1> QED
    BY <1>1, <1>2

\* No step reaches a message before apply has put it on hold, labels an accepted
\* one, or leaves undecided mail without a tag.
LEMMA HoldNext == TypeOK /\ HoldInv /\ [Next]_vars => HoldInv'
<1> SUFFICES ASSUME TypeOK, HoldInv, [Next]_vars PROVE HoldInv'
    OBVIOUS
<1> USE ContactsAssumption, WindowsAssumption, BoundsAssumption
<1>1. CASE UNCHANGED vars
    BY <1>1
    DEF TypeOK, HoldInv, FirstHold, SweepInv, AcceptedNotUnverified, NothingLost,
        vars, mail, contacts, settings, control, Live
<1>2. CASE Next
    <2>1. CASE Tick
        BY <2>1
        DEF TypeOK, HoldInv, FirstHold, SweepInv, AcceptedNotUnverified,
            NothingLost, Tick, mail, control, Held, Live
    <2>2. ASSUME NEW m \in Msgs, NEW c \in Contacts \cup {Self}, Receive(m, c)
          PROVE  HoldInv'
        BY <2>2
        DEF TypeOK, HoldInv, FirstHold, SweepInv, AcceptedNotUnverified,
            NothingLost, Receive, CanStart, Goto, mail, control, Held, Live
    <2>3. CASE ApplyCheck
        BY <2>3
        DEF TypeOK, HoldInv, FirstHold, SweepInv, AcceptedNotUnverified,
            NothingLost, ApplyCheck, Done, Goto, mail, control, Held, Live
    <2>4. CASE HoldLabel
        BY <2>4
        DEF TypeOK, HoldInv, FirstHold, SweepInv, AcceptedNotUnverified,
            NothingLost, HoldLabel, Decide, Goto, mail, control, Held, Live
    <2>5. CASE HoldRow
        BY <2>5
        DEF TypeOK, HoldInv, FirstHold, SweepInv, AcceptedNotUnverified,
            NothingLost, HoldRow, Done, Goto, Held, mail, control, Live
    <2>6. ASSUME NEW t \in {Inbox, User}, NEW C \in SUBSET Contacts, NEW b \in BOOLEAN,
             ScaleupOrigin(t, C, b)
          PROVE  HoldInv'
        BY <2>6
        DEF TypeOK, HoldInv, FirstHold, SweepInv, AcceptedNotUnverified,
            NothingLost, ScaleupOrigin, CanStart, Goto, mail, control, Held,
            Live
    <2>7. ASSUME NEW t \in {Inbox, User}, NEW c \in Contacts, MarkVerified(t, c)
          PROVE  HoldInv'
        BY <2>7
        DEF TypeOK, HoldInv, FirstHold, SweepInv, AcceptedNotUnverified,
            NothingLost, MarkVerified, CanStart, Goto, mail, control, Held, Live
    <2>8. ASSUME NEW c \in Contacts, ReleaseHeldContact(c) PROVE HoldInv'
        BY <2>8
        DEF TypeOK, HoldInv, FirstHold, SweepInv, AcceptedNotUnverified,
            NothingLost, ReleaseHeldContact, CanStart, Goto, mail, control,
            Held, Live
    <2>9. ASSUME NEW t \in {Inbox, User}, NEW c \in Contacts, AddOrLookup(t, c)
          PROVE  HoldInv'
        BY <2>9
        DEF TypeOK, HoldInv, FirstHold, SweepInv, AcceptedNotUnverified,
            NothingLost, AddOrLookup, mail, control, Held, Live
    <2>10. ASSUME NEW c \in Contacts, NEW b \in BOOLEAN, SetBlocked(c, b)
          PROVE  HoldInv'
        BY <2>10
        DEF TypeOK, HoldInv, FirstHold, SweepInv, AcceptedNotUnverified,
            NothingLost, SetBlocked, mail, control, Held, Live
    <2>11. ASSUME NEW t \in {Inbox, User}, NEW c \in Contacts, ReleaseCheck(t, c)
          PROVE  HoldInv'
        BY <2>11
        DEF TypeOK, HoldInv, FirstHold, SweepInv, AcceptedNotUnverified,
            NothingLost, ReleaseCheck, SamePerson, Goto, mail, control, Held,
            Live
    <2>12. ASSUME NEW t \in {Inbox, User}, NEW c \in Contacts, ReleaseSelect(t, c)
          PROVE  HoldInv'
        BY <2>12
        DEF TypeOK, HoldInv, FirstHold, SweepInv, AcceptedNotUnverified,
            NothingLost, ReleaseSelect, Held, Goto, mail, control, Live
    <2>13. ASSUME NEW t \in {Inbox, User}, ReleaseNext(t) PROVE HoldInv'
        BY <2>13
        DEF TypeOK, HoldInv, FirstHold, SweepInv, AcceptedNotUnverified,
            NothingLost, ReleaseNext, Done, Goto, mail, control, Held, Live
    <2>14. ASSUME NEW t \in {Inbox, User}, ReleaseLabel(t) PROVE HoldInv'
        BY <2>14
        DEF TypeOK, HoldInv, FirstHold, SweepInv, AcceptedNotUnverified,
            NothingLost, ReleaseLabel, UnholdLabel, Decide, Goto, mail, control,
            Held, Live
    <2>15. ASSUME NEW t \in {Inbox, User}, ReleaseRow(t) PROVE HoldInv'
        BY <2>15
        DEF TypeOK, HoldInv, FirstHold, SweepInv, AcceptedNotUnverified,
            NothingLost, ReleaseRow, UnholdRows, DeleteHeld, Goto, mail,
            control, Held, Live
    <2>16. ASSUME NEW b \in BOOLEAN, SetEnabled(b) PROVE HoldInv'
        BY <2>16
        DEF TypeOK, HoldInv, FirstHold, SweepInv, AcceptedNotUnverified,
            NothingLost, SetEnabled, CanStart, Goto, mail, control, Held, Live
    <2>17. CASE FreeSelect
        BY <2>17
        DEF TypeOK, HoldInv, FirstHold, SweepInv, AcceptedNotUnverified,
            NothingLost, FreeSelect, Done, Held, Goto, mail, control, Live
    <2>18. CASE FreeLabel
        BY <2>18
        DEF TypeOK, HoldInv, FirstHold, SweepInv, AcceptedNotUnverified,
            NothingLost, FreeLabel, UnholdLabel, Decide, Goto, mail, control,
            Held, Live
    <2>19. CASE FreeRow
        BY <2>19
        DEF TypeOK, HoldInv, FirstHold, SweepInv, AcceptedNotUnverified,
            NothingLost, FreeRow, UnholdRows, DeleteHeld, Done, Goto, mail,
            control, Held, Live
    <2>20. ASSUME NEW w \in Windows, SetHoldDays(w) PROVE HoldInv'
        BY <2>20
        DEF TypeOK, HoldInv, FirstHold, SweepInv, AcceptedNotUnverified,
            NothingLost, SetHoldDays, mail, control, Held, Live
    <2>21. CASE LabelsPrune
        BY <2>21
        DEF TypeOK, HoldInv, FirstHold, SweepInv, AcceptedNotUnverified,
            NothingLost, LabelsPrune, CanStart, Goto, Live, mail, control, Held
    <2>22. CASE SweepSelect
        BY <2>22
        DEF TypeOK, HoldInv, FirstHold, SweepInv, AcceptedNotUnverified,
            NothingLost, SweepSelect, DeleteHeld, Done, Held, Goto, mail,
            control, Live
    <2>23. CASE SweepTrashLabel
        BY <2>23
        DEF TypeOK, HoldInv, FirstHold, SweepInv, AcceptedNotUnverified,
            NothingLost, SweepTrashLabel, Goto, mail, control, Held, Live
    <2>24. CASE SweepTrashRow
        BY <2>24
        DEF TypeOK, HoldInv, FirstHold, SweepInv, AcceptedNotUnverified,
            NothingLost, SweepTrashRow, Goto, mail, control, Held, Live
    <2>25. CASE SweepLabel
        BY <2>25
        DEF TypeOK, HoldInv, FirstHold, SweepInv, AcceptedNotUnverified,
            NothingLost, SweepLabel, UnholdLabel, Decide, Goto, mail, control,
            Held, Live
    <2>26. CASE SweepRow
        BY <2>26
        DEF TypeOK, HoldInv, FirstHold, SweepInv, AcceptedNotUnverified,
            NothingLost, SweepRow, UnholdRows, DeleteHeld, Done, Goto, mail,
            control, Held, Live
    <2>27. ASSUME NEW m \in Msgs, TrashByUser(m) PROVE HoldInv'
        BY <2>27
        DEF TypeOK, HoldInv, FirstHold, SweepInv, AcceptedNotUnverified,
            NothingLost, TrashByUser, mail, control, Held, Live
    <2>28. ASSUME NEW m \in Msgs, Restore(m) PROVE HoldInv'
        BY <2>28
        DEF TypeOK, HoldInv, FirstHold, SweepInv, AcceptedNotUnverified,
            NothingLost, Restore, Decide, Live, mail, control, Held
    <2>29. ASSUME NEW m \in Msgs, Purge(m) PROVE HoldInv'
        BY <2>29
        DEF TypeOK, HoldInv, FirstHold, SweepInv, AcceptedNotUnverified,
            NothingLost, Purge, mail, control, Held, Live
    <2>30. ASSUME NEW t \in Tasks, Fail(t) PROVE HoldInv'
        BY <2>30
        DEF TypeOK, HoldInv, FirstHold, SweepInv, AcceptedNotUnverified,
            NothingLost, Fail, Done, Goto, mail, control, Held, Live
    <2>31. CASE Crash
        BY <2>31
        DEF TypeOK, HoldInv, FirstHold, SweepInv, AcceptedNotUnverified,
            NothingLost, Crash, mail, control, Held, Live
    <2> QED
        BY <1>2, <2>1, <2>2, <2>3, <2>4, <2>5, <2>6, <2>7, <2>8, <2>9, <2>10,
           <2>11, <2>12, <2>13, <2>14, <2>15, <2>16, <2>17, <2>18, <2>19, <2>20,
           <2>21, <2>22, <2>23, <2>24, <2>25, <2>26, <2>27, <2>28, <2>29, <2>30,
           <2>31
        DEF Next, InboxStep, UserStep, HousekeepingStep, ReleaseStep, Event, Fault
<1> QED
    BY <1>1, <1>2

----------------------------------------------------------------------------
(***************************************************************************)
(* What gating promises.                                                   *)
(***************************************************************************)

\* The inductive invariant holds in every reachable state.
LEMMA Invariance == Spec => []IInv
<1>1. Init => IInv
    BY TypeInit
    DEF Init, IInv, HoldInv, FirstHold, SweepInv, AcceptedNotUnverified,
        NothingLost, Live
<1>2. IInv /\ [Next]_vars => IInv'
    BY TypeNext, HoldNext DEF IInv
<1> QED
    BY <1>1, <1>2, PTL DEF Spec

\* Mail that was released because its sender was accepted never returns to the
\* Unverified view, however apply, releases and sweeps interleave.
THEOREM AcceptedStaysAccepted == Spec => []AcceptedNotUnverified
<1>1. IInv => AcceptedNotUnverified
    BY DEF IInv, HoldInv
<1> QED
    BY <1>1, Invariance, PTL

\* No failure, at any point of any handler, leaves mail that was held and not
\* decided about with neither tag.
THEOREM NothingIsLost == Spec => []NothingLost
<1>1. IInv => NothingLost
    BY DEF IInv, HoldInv
<1> QED
    BY <1>1, Invariance, PTL

\* Every reachable state is well typed: in particular only a contact with a key
\* is ever verified.
THEOREM TypeCorrect == Spec => []TypeOK
<1>1. IInv => TypeOK
    BY DEF IInv
<1> QED
    BY <1>1, Invariance, PTL

(***************************************************************************)
(* One handler at a time.                                                  *)
(***************************************************************************)

\* Handlers do not overlap, none fails half-way, and trust is given by the calls
\* that release mail only.
OneHandler ==
    MaxRunning = 1 /\ MaxFaults = 0 /\ Raisable = {} /\ Blockable = {}

\* Those whose mail is not held.
Trusted == {c \in Contacts \cup {Self} : IsTrusted(c)}

\* One handler runs at a time.
AtOnce == \A t, u \in Tasks : pc[t] # Idle /\ pc[u] # Idle => t = u

\* What apply has found is still so when it puts a message on hold.
Applying ==
    /\ \A m \in Live : from_id[m] \in Contacts \cup {Self}
    /\ pc[Inbox] \in {"hold_label", "hold_row"} =>
          enabled /\ \A m \in ids[Inbox] \cap Live : from_id[m] \notin Trusted

\* Two rows of one person.
Same(c, r) == c = r \/ \E P \in Persons : {c, r} \subseteq P

\* A held message of a trusted sender: the release that is under way has still to
\* come to it, by a contact of its list, by the sender's row, or by itself.
Releasing(m, t) ==
    \/ /\ pc[t] \in {"check", "select", "release_label", "release_row"}
       /\ \E c \in todo[t] : c \in Trusted /\ Same(c, from_id[m])
    \/ /\ pc[t] \in {"select", "release_label", "release_row"}
       /\ from_id[m] \in rows[t]
    \/ /\ pc[t] \in {"release_label", "release_row"}
       /\ m \in ids[t]

\* A trusted sender has mail on hold only while a release has it in hand.
TrustInv ==
    \A m \in Held \cap Live :
        /\ from_id[m] \in Contacts
        /\ from_id[m] \in Trusted => \E t \in {Inbox, User} : Releasing(m, t)

\* A held message while gating is off: it is about to be freed.
OffInv ==
    ~enabled => \A m \in Held \cap Live :
        \/ pc[User] = "free"
        \/ pc[User] \in {"free_label", "free_row"} /\ m \in ids[User]

\* The inductive invariant for handlers that run one after the other.
SettleInv == AtOnce /\ Applying /\ TrustInv /\ OffInv

\* A handler that starts finds the others idle.
LEMMA StartsAlone ==
    ASSUME OneHandler, NEW t \in Tasks, CanStart(t)
    PROVE  Quiet
<1> DEFINE busy == {u \in Tasks : pc[u] # Idle}
<1>1. IsFiniteSet(busy)
    <2>1. IsFiniteSet(Tasks)
        <3>1. IsFiniteSet({Inbox})
            BY FS_Singleton
        <3>2. IsFiniteSet({Inbox} \cup {User})
            BY <3>1, FS_AddElement
        <3>3. IsFiniteSet(({Inbox} \cup {User}) \cup {Housekeeping})
            BY <3>2, FS_AddElement
        <3>4. Tasks = ({Inbox} \cup {User}) \cup {Housekeeping}
            OBVIOUS
        <3> QED
            BY <3>3, <3>4
    <2> QED
        BY <2>1, FS_Subset
<1>2. Cardinality(busy) < 1
    BY DEF CanStart, OneHandler
<1>3. busy = {}
    BY <1>1, <1>2, FS_CardinalityType, FS_EmptySet
<1> QED
    BY <1>3 DEF Quiet

\* A handler starts when no other runs.
LEMMA AtOnceNext ==
    OneHandler /\ TypeOK /\ AtOnce /\ [Next]_vars => AtOnce'
<1> SUFFICES ASSUME OneHandler /\ TypeOK /\ AtOnce, [Next]_vars PROVE AtOnce'
    OBVIOUS
<1>1. CASE UNCHANGED vars
    BY <1>1
    DEF vars, mail, control, contacts, settings, AtOnce, TypeOK, Quiet
<1>2. CASE Next
    <2>1. CASE Tick
        BY <2>1, StartsAlone
        DEF Tick, mail, control, contacts, settings, AtOnce, TypeOK, Quiet
    <2>2. ASSUME NEW m \in Msgs, NEW c \in Contacts \cup {Self}, Receive(m, c)
          PROVE  AtOnce'
        BY <2>2, StartsAlone
        DEF Receive, CanStart, Goto, mail, control, contacts, settings, AtOnce,
            TypeOK, Quiet
    <2>3. CASE ApplyCheck
        BY <2>3, StartsAlone
        DEF ApplyCheck, Done, Goto, mail, control, contacts, settings, AtOnce,
            TypeOK, Quiet
    <2>4. CASE HoldLabel
        BY <2>4, StartsAlone
        DEF HoldLabel, Decide, Goto, mail, control, contacts, settings, AtOnce,
            TypeOK, Quiet
    <2>5. CASE HoldRow
        BY <2>5, StartsAlone
        DEF HoldRow, Done, Goto, mail, control, contacts, settings, AtOnce,
            TypeOK, Quiet
    <2>6. ASSUME NEW t \in {Inbox, User}, NEW C \in SUBSET Contacts, NEW b \in BOOLEAN,
             ScaleupOrigin(t, C, b)
          PROVE  AtOnce'
        BY <2>6, StartsAlone
        DEF ScaleupOrigin, Goto, mail, control, contacts, settings, AtOnce,
            TypeOK, Quiet
    <2>7. ASSUME NEW t \in {Inbox, User}, NEW c \in Contacts, MarkVerified(t, c)
          PROVE  AtOnce'
        BY <2>7, StartsAlone
        DEF MarkVerified, Goto, mail, control, contacts, settings, AtOnce, TypeOK,
            Quiet
    <2>8. ASSUME NEW c \in Contacts, ReleaseHeldContact(c)
          PROVE  AtOnce'
        BY <2>8, StartsAlone
        DEF ReleaseHeldContact, Goto, mail, control, contacts, settings, AtOnce,
            TypeOK, Quiet
    <2>9. ASSUME NEW t \in {Inbox, User}, NEW c \in Contacts, ReleaseCheck(t, c)
          PROVE  AtOnce'
        BY <2>9, StartsAlone
        DEF ReleaseCheck, Goto, mail, control, contacts, settings, AtOnce, TypeOK,
            Quiet
    <2>10. ASSUME NEW t \in {Inbox, User}, NEW c \in Contacts, ReleaseSelect(t, c)
          PROVE  AtOnce'
        BY <2>10, StartsAlone
        DEF ReleaseSelect, Goto, mail, control, contacts, settings, AtOnce,
            TypeOK, Quiet
    <2>11. ASSUME NEW t \in {Inbox, User}, ReleaseNext(t)
          PROVE  AtOnce'
        BY <2>11, StartsAlone
        DEF ReleaseNext, Done, Goto, mail, control, contacts, settings, AtOnce,
            TypeOK, Quiet
    <2>12. ASSUME NEW t \in {Inbox, User}, ReleaseLabel(t)
          PROVE  AtOnce'
        BY <2>12, StartsAlone
        DEF ReleaseLabel, UnholdLabel, Decide, Goto, mail, control, contacts,
            settings, AtOnce, TypeOK, Quiet
    <2>13. ASSUME NEW t \in {Inbox, User}, ReleaseRow(t)
          PROVE  AtOnce'
        BY <2>13, StartsAlone
        DEF ReleaseRow, UnholdRows, DeleteHeld, Goto, mail, control, contacts,
            settings, AtOnce, TypeOK, Quiet
    <2>14. ASSUME NEW b \in BOOLEAN, SetEnabled(b)
          PROVE  AtOnce'
        BY <2>14, StartsAlone
        DEF SetEnabled, Goto, mail, control, contacts, settings, AtOnce, TypeOK,
            Quiet
    <2>15. CASE FreeSelect
        BY <2>15, StartsAlone
        DEF FreeSelect, Done, Goto, mail, control, contacts, settings, AtOnce,
            TypeOK, Quiet
    <2>16. CASE FreeLabel
        BY <2>16, StartsAlone
        DEF FreeLabel, UnholdLabel, Decide, Goto, mail, control, contacts,
            settings, AtOnce, TypeOK, Quiet
    <2>17. CASE FreeRow
        BY <2>17, StartsAlone
        DEF FreeRow, UnholdRows, DeleteHeld, Done, Goto, mail, control, contacts,
            settings, AtOnce, TypeOK, Quiet
    <2>18. ASSUME NEW w \in Windows, SetHoldDays(w)
          PROVE  AtOnce'
        BY <2>18, StartsAlone
        DEF SetHoldDays, mail, control, contacts, settings, AtOnce, TypeOK, Quiet
    <2>19. CASE LabelsPrune
        BY <2>19, StartsAlone
        DEF LabelsPrune, Goto, mail, control, contacts, settings, AtOnce, TypeOK,
            Quiet
    <2>20. CASE SweepSelect
        BY <2>20, StartsAlone
        DEF SweepSelect, DeleteHeld, Done, Goto, mail, control, contacts,
            settings, AtOnce, TypeOK, Quiet
    <2>21. CASE SweepTrashLabel
        BY <2>21, StartsAlone
        DEF SweepTrashLabel, Goto, mail, control, contacts, settings, AtOnce,
            TypeOK, Quiet
    <2>22. CASE SweepTrashRow
        BY <2>22, StartsAlone
        DEF SweepTrashRow, Goto, mail, control, contacts, settings, AtOnce,
            TypeOK, Quiet
    <2>23. CASE SweepLabel
        BY <2>23, StartsAlone
        DEF SweepLabel, UnholdLabel, Decide, Goto, mail, control, contacts,
            settings, AtOnce, TypeOK, Quiet
    <2>24. CASE SweepRow
        BY <2>24, StartsAlone
        DEF SweepRow, UnholdRows, DeleteHeld, Done, Goto, mail, control, contacts,
            settings, AtOnce, TypeOK, Quiet
    <2>25. ASSUME NEW m \in Msgs, TrashByUser(m)
          PROVE  AtOnce'
        BY <2>25, StartsAlone
        DEF TrashByUser, mail, control, contacts, settings, AtOnce, TypeOK, Quiet
    <2>26. ASSUME NEW m \in Msgs, Restore(m)
          PROVE  AtOnce'
        BY <2>26, StartsAlone
        DEF Restore, Decide, mail, control, contacts, settings, AtOnce, TypeOK,
            Quiet
    <2>27. ASSUME NEW m \in Msgs, Purge(m)
          PROVE  AtOnce'
        BY <2>27, StartsAlone
        DEF Purge, mail, control, contacts, settings, AtOnce, TypeOK, Quiet
    <2>28. ASSUME NEW t \in {Inbox, User}, NEW c \in Contacts, AddOrLookup(t, c)
          PROVE  FALSE
        BY <2>28 DEF AddOrLookup, OneHandler
    <2>29. ASSUME NEW c \in Contacts, NEW b \in BOOLEAN, SetBlocked(c, b)
          PROVE  FALSE
        BY <2>29 DEF SetBlocked, OneHandler
    <2>30. CASE Fault
        BY <2>30 DEF Fault, Crash, Fail, OneHandler, TypeOK
    <2> QED
        BY <1>2, <2>1, <2>2, <2>3, <2>4, <2>5, <2>6, <2>7, <2>8, <2>9, <2>10,
            <2>11, <2>12, <2>13, <2>14, <2>15, <2>16, <2>17, <2>18, <2>19, <2>20,
            <2>21, <2>22, <2>23, <2>24, <2>25, <2>26, <2>27, <2>28, <2>29, <2>30
        DEF Next, InboxStep, UserStep, HousekeepingStep, ReleaseStep, Event
<1> QED
    BY <1>1, <1>2

\* Nothing comes between what apply checks and what it writes.
LEMMA ApplyingNext ==
    OneHandler /\ IInv /\ AtOnce /\ Applying /\ [Next]_vars => Applying'
<1> SUFFICES ASSUME OneHandler /\ IInv /\ AtOnce /\ Applying, [Next]_vars PROVE Applying'
    OBVIOUS
<1>t. UNCHANGED contacts => Trusted' = Trusted
    BY DEF Trusted, IsTrusted, SamePerson, contacts
<1>1. CASE UNCHANGED vars
    BY <1>1, <1>t
    DEF vars, mail, control, contacts, settings, Applying, IInv, HoldInv,
        FirstHold, TypeOK, Quiet, Live, Held
<1>2. CASE Next
    <2>1. CASE Tick
        BY <2>1, <1>t, StartsAlone
        DEF Tick, mail, control, contacts, settings, Applying, IInv, HoldInv,
            FirstHold, TypeOK, Quiet, Live, Held
    <2>2. ASSUME NEW m \in Msgs, NEW c \in Contacts \cup {Self}, Receive(m, c)
          PROVE  Applying'
        BY <2>2, <1>t, StartsAlone
        DEF Receive, CanStart, Goto, mail, control, contacts, settings, Applying,
            IInv, HoldInv, FirstHold, TypeOK, Quiet, Live, Held
    <2>3. CASE ApplyCheck
        BY <2>3, <1>t, StartsAlone
        DEF ApplyCheck, Trusted, Done, Goto, mail, control, contacts, settings, Applying,
            IInv, HoldInv, FirstHold, TypeOK, Quiet, Live, Held
    <2>4. CASE HoldLabel
        BY <2>4, <1>t, StartsAlone
        DEF HoldLabel, Decide, Goto, mail, control, contacts, settings, Applying,
            IInv, HoldInv, FirstHold, TypeOK, Quiet, Live, Held
    <2>5. CASE HoldRow
        BY <2>5, <1>t, StartsAlone
        DEF HoldRow, Done, Goto, mail, control, contacts, settings, Applying,
            IInv, HoldInv, FirstHold, TypeOK, Quiet, Live, Held
    <2>6. ASSUME NEW t \in {Inbox, User}, NEW C \in SUBSET Contacts, NEW b \in BOOLEAN,
             ScaleupOrigin(t, C, b)
          PROVE  Applying'
        BY <2>6, <1>t, StartsAlone
        DEF ScaleupOrigin, Goto, mail, control, contacts, settings, Applying,
            IInv, HoldInv, FirstHold, TypeOK, Quiet, Live, Held
    <2>7. ASSUME NEW t \in {Inbox, User}, NEW c \in Contacts, MarkVerified(t, c)
          PROVE  Applying'
        BY <2>7, <1>t, StartsAlone
        DEF MarkVerified, Goto, mail, control, contacts, settings, Applying, IInv,
            HoldInv, FirstHold, TypeOK, Quiet, Live, Held
    <2>8. ASSUME NEW c \in Contacts, ReleaseHeldContact(c)
          PROVE  Applying'
        BY <2>8, <1>t, StartsAlone
        DEF ReleaseHeldContact, Goto, mail, control, contacts, settings, Applying,
            IInv, HoldInv, FirstHold, TypeOK, Quiet, Live, Held
    <2>9. ASSUME NEW t \in {Inbox, User}, NEW c \in Contacts, ReleaseCheck(t, c)
          PROVE  Applying'
        BY <2>9, <1>t, StartsAlone
        DEF ReleaseCheck, Goto, mail, control, contacts, settings, Applying, IInv,
            HoldInv, FirstHold, TypeOK, Quiet, Live, Held
    <2>10. ASSUME NEW t \in {Inbox, User}, NEW c \in Contacts, ReleaseSelect(t, c)
          PROVE  Applying'
        BY <2>10, <1>t, StartsAlone
        DEF ReleaseSelect, Goto, mail, control, contacts, settings, Applying,
            IInv, HoldInv, FirstHold, TypeOK, Quiet, Live, Held
    <2>11. ASSUME NEW t \in {Inbox, User}, ReleaseNext(t)
          PROVE  Applying'
        BY <2>11, <1>t, StartsAlone
        DEF ReleaseNext, Done, Goto, mail, control, contacts, settings, Applying,
            IInv, HoldInv, FirstHold, TypeOK, Quiet, Live, Held
    <2>12. ASSUME NEW t \in {Inbox, User}, ReleaseLabel(t)
          PROVE  Applying'
        BY <2>12, <1>t, StartsAlone
        DEF ReleaseLabel, UnholdLabel, Decide, Goto, mail, control, contacts,
            settings, Applying, IInv, HoldInv, FirstHold, TypeOK, Quiet, Live,
            Held
    <2>13. ASSUME NEW t \in {Inbox, User}, ReleaseRow(t)
          PROVE  Applying'
        BY <2>13, <1>t, StartsAlone
        DEF ReleaseRow, UnholdRows, DeleteHeld, Goto, mail, control, contacts,
            settings, Applying, IInv, HoldInv, FirstHold, TypeOK, Quiet, Live,
            Held
    <2>14. ASSUME NEW b \in BOOLEAN, SetEnabled(b)
          PROVE  Applying'
        BY <2>14, <1>t, StartsAlone
        DEF SetEnabled, Goto, mail, control, contacts, settings, Applying, IInv,
            HoldInv, FirstHold, TypeOK, Quiet, Live, Held
    <2>15. CASE FreeSelect
        BY <2>15, <1>t, StartsAlone
        DEF FreeSelect, Done, Goto, mail, control, contacts, settings, Applying,
            IInv, HoldInv, FirstHold, TypeOK, Quiet, Live, Held
    <2>16. CASE FreeLabel
        BY <2>16, <1>t, StartsAlone
        DEF FreeLabel, UnholdLabel, Decide, Goto, mail, control, contacts,
            settings, Applying, IInv, HoldInv, FirstHold, TypeOK, Quiet, Live,
            Held
    <2>17. CASE FreeRow
        BY <2>17, <1>t, StartsAlone
        DEF FreeRow, UnholdRows, DeleteHeld, Done, Goto, mail, control, contacts,
            settings, Applying, IInv, HoldInv, FirstHold, TypeOK, Quiet, Live,
            Held
    <2>18. ASSUME NEW w \in Windows, SetHoldDays(w)
          PROVE  Applying'
        BY <2>18, <1>t, StartsAlone
        DEF SetHoldDays, mail, control, contacts, settings, Applying, IInv,
            HoldInv, FirstHold, TypeOK, Quiet, Live, Held
    <2>19. CASE LabelsPrune
        BY <2>19, <1>t, StartsAlone
        DEF LabelsPrune, Goto, mail, control, contacts, settings, Applying, IInv,
            HoldInv, FirstHold, TypeOK, Quiet, Live, Held
    <2>20. CASE SweepSelect
        BY <2>20, <1>t, StartsAlone
        DEF SweepSelect, DeleteHeld, Done, Goto, mail, control, contacts,
            settings, Applying, IInv, HoldInv, FirstHold, TypeOK, Quiet, Live,
            Held
    <2>21. CASE SweepTrashLabel
        BY <2>21, <1>t, StartsAlone
        DEF SweepTrashLabel, Goto, mail, control, contacts, settings, Applying,
            IInv, HoldInv, FirstHold, TypeOK, Quiet, Live, Held
    <2>22. CASE SweepTrashRow
        BY <2>22, <1>t, StartsAlone
        DEF SweepTrashRow, Goto, mail, control, contacts, settings, Applying,
            IInv, HoldInv, FirstHold, TypeOK, Quiet, Live, Held
    <2>23. CASE SweepLabel
        BY <2>23, <1>t, StartsAlone
        DEF SweepLabel, UnholdLabel, Decide, Goto, mail, control, contacts,
            settings, Applying, IInv, HoldInv, FirstHold, TypeOK, Quiet, Live,
            Held
    <2>24. CASE SweepRow
        BY <2>24, <1>t, StartsAlone
        DEF SweepRow, UnholdRows, DeleteHeld, Done, Goto, mail, control, contacts,
            settings, Applying, IInv, HoldInv, FirstHold, TypeOK, Quiet, Live,
            Held
    <2>25. ASSUME NEW m \in Msgs, TrashByUser(m)
          PROVE  Applying'
        BY <2>25, <1>t, StartsAlone
        DEF TrashByUser, mail, control, contacts, settings, Applying, IInv,
            HoldInv, FirstHold, TypeOK, Quiet, Live, Held
    <2>26. ASSUME NEW m \in Msgs, Restore(m)
          PROVE  Applying'
        BY <2>26, <1>t, StartsAlone
        DEF Restore, Decide, mail, control, contacts, settings, Applying, IInv,
            HoldInv, FirstHold, TypeOK, Quiet, Live, Held
    <2>27. ASSUME NEW m \in Msgs, Purge(m)
          PROVE  Applying'
        BY <2>27, <1>t, StartsAlone
        DEF Purge, mail, control, contacts, settings, Applying, IInv, HoldInv,
            FirstHold, TypeOK, Quiet, Live, Held
    <2>28. ASSUME NEW t \in {Inbox, User}, NEW c \in Contacts, AddOrLookup(t, c)
          PROVE  FALSE
        BY <2>28 DEF AddOrLookup, OneHandler
    <2>29. ASSUME NEW c \in Contacts, NEW b \in BOOLEAN, SetBlocked(c, b)
          PROVE  FALSE
        BY <2>29 DEF SetBlocked, OneHandler
    <2>30. CASE Fault
        BY <2>30 DEF Fault, Crash, Fail, OneHandler, IInv, TypeOK
    <2> QED
        BY <1>2, <2>1, <2>2, <2>3, <2>4, <2>5, <2>6, <2>7, <2>8, <2>9, <2>10,
            <2>11, <2>12, <2>13, <2>14, <2>15, <2>16, <2>17, <2>18, <2>19, <2>20,
            <2>21, <2>22, <2>23, <2>24, <2>25, <2>26, <2>27, <2>28, <2>29, <2>30
        DEF Next, InboxStep, UserStep, HousekeepingStep, ReleaseStep, Event
<1> QED
    BY <1>1, <1>2

\* A release that is under way reaches all the held mail of those it trusts.
LEMMA TrustNext ==
    OneHandler /\ IInv /\ AtOnce /\ Applying /\ TrustInv /\ [Next]_vars => TrustInv'
<1> SUFFICES ASSUME OneHandler /\ IInv /\ AtOnce /\ Applying /\ TrustInv, [Next]_vars PROVE TrustInv'
    OBVIOUS
<1>t. UNCHANGED contacts => Trusted' = Trusted
    BY DEF Trusted, IsTrusted, SamePerson, contacts
<1>1. CASE UNCHANGED vars
    BY <1>1, <1>t
    DEF vars, mail, control, contacts, settings, TrustInv, Releasing, Same, IInv,
        HoldInv, FirstHold, TypeOK, AtOnce, Quiet, Live, Held
<1>2. CASE Next
    <2>1. CASE Tick
        BY <2>1, <1>t, StartsAlone
        DEF Tick, mail, control, contacts, settings, TrustInv, Releasing, Same,
            IInv, HoldInv, FirstHold, TypeOK, AtOnce, Quiet, Live, Held
    <2>2. ASSUME NEW m \in Msgs, NEW c \in Contacts \cup {Self}, Receive(m, c)
          PROVE  TrustInv'
        BY <2>2, <1>t, StartsAlone
        DEF Receive, CanStart, Goto, mail, control, contacts, settings, TrustInv,
            Releasing, Same, IInv, HoldInv, FirstHold, TypeOK, AtOnce, Quiet,
            Live, Held
    <2>3. CASE ApplyCheck
        BY <2>3, <1>t, StartsAlone
        DEF ApplyCheck, Done, Goto, mail, control, contacts, settings, TrustInv,
            Releasing, Same, IInv, HoldInv, FirstHold, TypeOK, AtOnce, Quiet,
            Live, Held
    <2>4. CASE HoldLabel
        BY <2>4, <1>t, StartsAlone
        DEF HoldLabel, Decide, Goto, mail, control, contacts, settings, TrustInv,
            Releasing, Same, IInv, HoldInv, FirstHold, TypeOK, AtOnce, Quiet,
            Live, Held
    <2>5. CASE HoldRow
        BY <2>5, <1>t, StartsAlone
        DEF HoldRow, Applying, Trusted, IsTrusted, Done, Goto, mail, control, contacts, settings, TrustInv,
            Releasing, Same, IInv, HoldInv, FirstHold, TypeOK, AtOnce, Quiet,
            Live, Held
    <2>6. ASSUME NEW t \in {Inbox, User}, NEW C \in SUBSET Contacts, NEW b \in BOOLEAN,
             ScaleupOrigin(t, C, b)
          PROVE  TrustInv'
        BY <2>6, <1>t, StartsAlone
        DEF ScaleupOrigin, OneHandler, Trusted, IsTrusted, SamePerson, Goto, mail, control, contacts, settings, TrustInv,
            Releasing, Same, IInv, HoldInv, FirstHold, TypeOK, AtOnce, Quiet,
            Live, Held
    <2>7. ASSUME NEW t \in {Inbox, User}, NEW c \in Contacts, MarkVerified(t, c)
          PROVE  TrustInv'
        BY <2>7, <1>t, StartsAlone
        DEF MarkVerified, OneHandler, Trusted, IsTrusted, SamePerson, Goto, mail, control, contacts, settings, TrustInv,
            Releasing, Same, IInv, HoldInv, FirstHold, TypeOK, AtOnce, Quiet,
            Live, Held
    <2>8. ASSUME NEW c \in Contacts, ReleaseHeldContact(c)
          PROVE  TrustInv'
        BY <2>8, <1>t, StartsAlone
        DEF ReleaseHeldContact, Goto, mail, control, contacts, settings, TrustInv,
            Releasing, Same, IInv, HoldInv, FirstHold, TypeOK, AtOnce, Quiet,
            Live, Held
    <2>9. ASSUME NEW t \in {Inbox, User}, NEW c \in Contacts, ReleaseCheck(t, c)
          PROVE  TrustInv'
        BY <2>9, <1>t, StartsAlone
        DEF ReleaseCheck, OneHandler, Trusted, SamePerson, Goto, mail, control, contacts, settings, TrustInv,
            Releasing, Same, IInv, HoldInv, FirstHold, TypeOK, AtOnce, Quiet,
            Live, Held
    <2>10. ASSUME NEW t \in {Inbox, User}, NEW c \in Contacts, ReleaseSelect(t, c)
          PROVE  TrustInv'
        BY <2>10, <1>t, StartsAlone
        DEF ReleaseSelect, Goto, mail, control, contacts, settings, TrustInv,
            Releasing, Same, IInv, HoldInv, FirstHold, TypeOK, AtOnce, Quiet,
            Live, Held
    <2>11. ASSUME NEW t \in {Inbox, User}, ReleaseNext(t)
          PROVE  TrustInv'
        BY <2>11, <1>t, StartsAlone
        DEF ReleaseNext, Done, Goto, mail, control, contacts, settings, TrustInv,
            Releasing, Same, IInv, HoldInv, FirstHold, TypeOK, AtOnce, Quiet,
            Live, Held
    <2>12. ASSUME NEW t \in {Inbox, User}, ReleaseLabel(t)
          PROVE  TrustInv'
        BY <2>12, <1>t, StartsAlone
        DEF ReleaseLabel, UnholdLabel, Decide, Goto, mail, control, contacts,
            settings, TrustInv, Releasing, Same, IInv, HoldInv, FirstHold, TypeOK,
            AtOnce, Quiet, Live, Held
    <2>13. ASSUME NEW t \in {Inbox, User}, ReleaseRow(t)
          PROVE  TrustInv'
        BY <2>13, <1>t, StartsAlone
        DEF ReleaseRow, UnholdRows, DeleteHeld, Goto, mail, control, contacts,
            settings, TrustInv, Releasing, Same, IInv, HoldInv, FirstHold, TypeOK,
            AtOnce, Quiet, Live, Held
    <2>14. ASSUME NEW b \in BOOLEAN, SetEnabled(b)
          PROVE  TrustInv'
        BY <2>14, <1>t, StartsAlone
        DEF SetEnabled, Goto, mail, control, contacts, settings, TrustInv,
            Releasing, Same, IInv, HoldInv, FirstHold, TypeOK, AtOnce, Quiet,
            Live, Held
    <2>15. CASE FreeSelect
        BY <2>15, <1>t, StartsAlone
        DEF FreeSelect, Done, Goto, mail, control, contacts, settings, TrustInv,
            Releasing, Same, IInv, HoldInv, FirstHold, TypeOK, AtOnce, Quiet,
            Live, Held
    <2>16. CASE FreeLabel
        BY <2>16, <1>t, StartsAlone
        DEF FreeLabel, UnholdLabel, Decide, Goto, mail, control, contacts,
            settings, TrustInv, Releasing, Same, IInv, HoldInv, FirstHold, TypeOK,
            AtOnce, Quiet, Live, Held
    <2>17. CASE FreeRow
        BY <2>17, <1>t, StartsAlone
        DEF FreeRow, UnholdRows, DeleteHeld, Done, Goto, mail, control, contacts,
            settings, TrustInv, Releasing, Same, IInv, HoldInv, FirstHold, TypeOK,
            AtOnce, Quiet, Live, Held
    <2>18. ASSUME NEW w \in Windows, SetHoldDays(w)
          PROVE  TrustInv'
        BY <2>18, <1>t, StartsAlone
        DEF SetHoldDays, mail, control, contacts, settings, TrustInv, Releasing,
            Same, IInv, HoldInv, FirstHold, TypeOK, AtOnce, Quiet, Live, Held
    <2>19. CASE LabelsPrune
        BY <2>19, <1>t, StartsAlone
        DEF LabelsPrune, Goto, mail, control, contacts, settings, TrustInv,
            Releasing, Same, IInv, HoldInv, FirstHold, TypeOK, AtOnce, Quiet,
            Live, Held
    <2>20. CASE SweepSelect
        BY <2>20, <1>t, StartsAlone
        DEF SweepSelect, DeleteHeld, Done, Goto, mail, control, contacts,
            settings, TrustInv, Releasing, Same, IInv, HoldInv, FirstHold, TypeOK,
            AtOnce, Quiet, Live, Held
    <2>21. CASE SweepTrashLabel
        BY <2>21, <1>t, StartsAlone
        DEF SweepTrashLabel, Goto, mail, control, contacts, settings, TrustInv,
            Releasing, Same, IInv, HoldInv, FirstHold, TypeOK, AtOnce, Quiet,
            Live, Held
    <2>22. CASE SweepTrashRow
        BY <2>22, <1>t, StartsAlone
        DEF SweepTrashRow, Goto, mail, control, contacts, settings, TrustInv,
            Releasing, Same, IInv, HoldInv, FirstHold, TypeOK, AtOnce, Quiet,
            Live, Held
    <2>23. CASE SweepLabel
        BY <2>23, <1>t, StartsAlone
        DEF SweepLabel, UnholdLabel, Decide, Goto, mail, control, contacts,
            settings, TrustInv, Releasing, Same, IInv, HoldInv, FirstHold, TypeOK,
            AtOnce, Quiet, Live, Held
    <2>24. CASE SweepRow
        BY <2>24, <1>t, StartsAlone
        DEF SweepRow, UnholdRows, DeleteHeld, Done, Goto, mail, control, contacts,
            settings, TrustInv, Releasing, Same, IInv, HoldInv, FirstHold, TypeOK,
            AtOnce, Quiet, Live, Held
    <2>25. ASSUME NEW m \in Msgs, TrashByUser(m)
          PROVE  TrustInv'
        BY <2>25, <1>t, StartsAlone
        DEF TrashByUser, mail, control, contacts, settings, TrustInv, Releasing,
            Same, IInv, HoldInv, FirstHold, TypeOK, AtOnce, Quiet, Live, Held
    <2>26. ASSUME NEW m \in Msgs, Restore(m)
          PROVE  TrustInv'
        BY <2>26, <1>t, StartsAlone
        DEF Restore, Decide, mail, control, contacts, settings, TrustInv,
            Releasing, Same, IInv, HoldInv, FirstHold, TypeOK, AtOnce, Quiet,
            Live, Held
    <2>27. ASSUME NEW m \in Msgs, Purge(m)
          PROVE  TrustInv'
        BY <2>27, <1>t, StartsAlone
        DEF Purge, mail, control, contacts, settings, TrustInv, Releasing, Same,
            IInv, HoldInv, FirstHold, TypeOK, AtOnce, Quiet, Live, Held
    <2>28. ASSUME NEW t \in {Inbox, User}, NEW c \in Contacts, AddOrLookup(t, c)
          PROVE  FALSE
        BY <2>28 DEF AddOrLookup, OneHandler
    <2>29. ASSUME NEW c \in Contacts, NEW b \in BOOLEAN, SetBlocked(c, b)
          PROVE  FALSE
        BY <2>29 DEF SetBlocked, OneHandler
    <2>30. CASE Fault
        BY <2>30 DEF Fault, Crash, Fail, OneHandler, IInv, TypeOK
    <2> QED
        BY <1>2, <2>1, <2>2, <2>3, <2>4, <2>5, <2>6, <2>7, <2>8, <2>9, <2>10,
            <2>11, <2>12, <2>13, <2>14, <2>15, <2>16, <2>17, <2>18, <2>19, <2>20,
            <2>21, <2>22, <2>23, <2>24, <2>25, <2>26, <2>27, <2>28, <2>29, <2>30
        DEF Next, InboxStep, UserStep, HousekeepingStep, ReleaseStep, Event
<1> QED
    BY <1>1, <1>2

\* Switching gating off frees all that is held, and nothing is held while it is off.
LEMMA OffNext ==
    OneHandler /\ IInv /\ AtOnce /\ Applying /\ OffInv /\ [Next]_vars => OffInv'
<1> SUFFICES ASSUME OneHandler /\ IInv /\ AtOnce /\ Applying /\ OffInv, [Next]_vars PROVE OffInv'
    OBVIOUS
<1>1. CASE UNCHANGED vars
    BY <1>1
    DEF vars, mail, control, contacts, settings, OffInv, Applying, IInv, HoldInv,
        FirstHold, TypeOK, Quiet, Live, Held
<1>2. CASE Next
    <2>1. CASE Tick
        BY <2>1, StartsAlone
        DEF Tick, mail, control, contacts, settings, OffInv, Applying, IInv,
            HoldInv, FirstHold, TypeOK, Quiet, Live, Held
    <2>2. ASSUME NEW m \in Msgs, NEW c \in Contacts \cup {Self}, Receive(m, c)
          PROVE  OffInv'
        BY <2>2, StartsAlone
        DEF Receive, CanStart, Goto, mail, control, contacts, settings, OffInv,
            Applying, IInv, HoldInv, FirstHold, TypeOK, Quiet, Live, Held
    <2>3. CASE ApplyCheck
        BY <2>3, StartsAlone
        DEF ApplyCheck, Done, Goto, mail, control, contacts, settings, OffInv,
            Applying, IInv, HoldInv, FirstHold, TypeOK, Quiet, Live, Held
    <2>4. CASE HoldLabel
        BY <2>4, StartsAlone
        DEF HoldLabel, Decide, Goto, mail, control, contacts, settings, OffInv,
            Applying, IInv, HoldInv, FirstHold, TypeOK, Quiet, Live, Held
    <2>5. CASE HoldRow
        BY <2>5, StartsAlone
        DEF HoldRow, Done, Goto, mail, control, contacts, settings, OffInv,
            Applying, IInv, HoldInv, FirstHold, TypeOK, Quiet, Live, Held
    <2>6. ASSUME NEW t \in {Inbox, User}, NEW C \in SUBSET Contacts, NEW b \in BOOLEAN,
             ScaleupOrigin(t, C, b)
          PROVE  OffInv'
        BY <2>6, StartsAlone
        DEF ScaleupOrigin, Goto, mail, control, contacts, settings, OffInv,
            Applying, IInv, HoldInv, FirstHold, TypeOK, Quiet, Live, Held
    <2>7. ASSUME NEW t \in {Inbox, User}, NEW c \in Contacts, MarkVerified(t, c)
          PROVE  OffInv'
        BY <2>7, StartsAlone
        DEF MarkVerified, Goto, mail, control, contacts, settings, OffInv,
            Applying, IInv, HoldInv, FirstHold, TypeOK, Quiet, Live, Held
    <2>8. ASSUME NEW c \in Contacts, ReleaseHeldContact(c)
          PROVE  OffInv'
        BY <2>8, StartsAlone
        DEF ReleaseHeldContact, Goto, mail, control, contacts, settings, OffInv,
            Applying, IInv, HoldInv, FirstHold, TypeOK, Quiet, Live, Held
    <2>9. ASSUME NEW t \in {Inbox, User}, NEW c \in Contacts, ReleaseCheck(t, c)
          PROVE  OffInv'
        BY <2>9, StartsAlone
        DEF ReleaseCheck, Goto, mail, control, contacts, settings, OffInv,
            Applying, IInv, HoldInv, FirstHold, TypeOK, Quiet, Live, Held
    <2>10. ASSUME NEW t \in {Inbox, User}, NEW c \in Contacts, ReleaseSelect(t, c)
          PROVE  OffInv'
        BY <2>10, StartsAlone
        DEF ReleaseSelect, Goto, mail, control, contacts, settings, OffInv,
            Applying, IInv, HoldInv, FirstHold, TypeOK, Quiet, Live, Held
    <2>11. ASSUME NEW t \in {Inbox, User}, ReleaseNext(t)
          PROVE  OffInv'
        BY <2>11, StartsAlone
        DEF ReleaseNext, Done, Goto, mail, control, contacts, settings, OffInv,
            Applying, IInv, HoldInv, FirstHold, TypeOK, Quiet, Live, Held
    <2>12. ASSUME NEW t \in {Inbox, User}, ReleaseLabel(t)
          PROVE  OffInv'
        BY <2>12, StartsAlone
        DEF ReleaseLabel, UnholdLabel, Decide, Goto, mail, control, contacts,
            settings, OffInv, Applying, IInv, HoldInv, FirstHold, TypeOK, Quiet,
            Live, Held
    <2>13. ASSUME NEW t \in {Inbox, User}, ReleaseRow(t)
          PROVE  OffInv'
        BY <2>13, StartsAlone
        DEF ReleaseRow, UnholdRows, DeleteHeld, Goto, mail, control, contacts,
            settings, OffInv, Applying, IInv, HoldInv, FirstHold, TypeOK, Quiet,
            Live, Held
    <2>14. ASSUME NEW b \in BOOLEAN, SetEnabled(b)
          PROVE  OffInv'
        BY <2>14, StartsAlone
        DEF SetEnabled, Goto, mail, control, contacts, settings, OffInv, Applying,
            IInv, HoldInv, FirstHold, TypeOK, Quiet, Live, Held
    <2>15. CASE FreeSelect
        BY <2>15, StartsAlone
        DEF FreeSelect, Done, Goto, mail, control, contacts, settings, OffInv,
            Applying, IInv, HoldInv, FirstHold, TypeOK, Quiet, Live, Held
    <2>16. CASE FreeLabel
        BY <2>16, StartsAlone
        DEF FreeLabel, UnholdLabel, Decide, Goto, mail, control, contacts,
            settings, OffInv, Applying, IInv, HoldInv, FirstHold, TypeOK, Quiet,
            Live, Held
    <2>17. CASE FreeRow
        BY <2>17, StartsAlone
        DEF FreeRow, UnholdRows, DeleteHeld, Done, Goto, mail, control, contacts,
            settings, OffInv, Applying, IInv, HoldInv, FirstHold, TypeOK, Quiet,
            Live, Held
    <2>18. ASSUME NEW w \in Windows, SetHoldDays(w)
          PROVE  OffInv'
        BY <2>18, StartsAlone
        DEF SetHoldDays, mail, control, contacts, settings, OffInv, Applying,
            IInv, HoldInv, FirstHold, TypeOK, Quiet, Live, Held
    <2>19. CASE LabelsPrune
        BY <2>19, StartsAlone
        DEF LabelsPrune, Goto, mail, control, contacts, settings, OffInv,
            Applying, IInv, HoldInv, FirstHold, TypeOK, Quiet, Live, Held
    <2>20. CASE SweepSelect
        BY <2>20, StartsAlone
        DEF SweepSelect, DeleteHeld, Done, Goto, mail, control, contacts,
            settings, OffInv, Applying, IInv, HoldInv, FirstHold, TypeOK, Quiet,
            Live, Held
    <2>21. CASE SweepTrashLabel
        BY <2>21, StartsAlone
        DEF SweepTrashLabel, Goto, mail, control, contacts, settings, OffInv,
            Applying, IInv, HoldInv, FirstHold, TypeOK, Quiet, Live, Held
    <2>22. CASE SweepTrashRow
        BY <2>22, StartsAlone
        DEF SweepTrashRow, Goto, mail, control, contacts, settings, OffInv,
            Applying, IInv, HoldInv, FirstHold, TypeOK, Quiet, Live, Held
    <2>23. CASE SweepLabel
        BY <2>23, StartsAlone
        DEF SweepLabel, UnholdLabel, Decide, Goto, mail, control, contacts,
            settings, OffInv, Applying, IInv, HoldInv, FirstHold, TypeOK, Quiet,
            Live, Held
    <2>24. CASE SweepRow
        BY <2>24, StartsAlone
        DEF SweepRow, UnholdRows, DeleteHeld, Done, Goto, mail, control, contacts,
            settings, OffInv, Applying, IInv, HoldInv, FirstHold, TypeOK, Quiet,
            Live, Held
    <2>25. ASSUME NEW m \in Msgs, TrashByUser(m)
          PROVE  OffInv'
        BY <2>25, StartsAlone
        DEF TrashByUser, mail, control, contacts, settings, OffInv, Applying,
            IInv, HoldInv, FirstHold, TypeOK, Quiet, Live, Held
    <2>26. ASSUME NEW m \in Msgs, Restore(m)
          PROVE  OffInv'
        BY <2>26, StartsAlone
        DEF Restore, Decide, mail, control, contacts, settings, OffInv, Applying,
            IInv, HoldInv, FirstHold, TypeOK, Quiet, Live, Held
    <2>27. ASSUME NEW m \in Msgs, Purge(m)
          PROVE  OffInv'
        BY <2>27, StartsAlone
        DEF Purge, mail, control, contacts, settings, OffInv, Applying, IInv,
            HoldInv, FirstHold, TypeOK, Quiet, Live, Held
    <2>28. ASSUME NEW t \in {Inbox, User}, NEW c \in Contacts, AddOrLookup(t, c)
          PROVE  FALSE
        BY <2>28 DEF AddOrLookup, OneHandler
    <2>29. ASSUME NEW c \in Contacts, NEW b \in BOOLEAN, SetBlocked(c, b)
          PROVE  FALSE
        BY <2>29 DEF SetBlocked, OneHandler
    <2>30. CASE Fault
        BY <2>30 DEF Fault, Crash, Fail, OneHandler, IInv, TypeOK
    <2> QED
        BY <1>2, <2>1, <2>2, <2>3, <2>4, <2>5, <2>6, <2>7, <2>8, <2>9, <2>10,
            <2>11, <2>12, <2>13, <2>14, <2>15, <2>16, <2>17, <2>18, <2>19, <2>20,
            <2>21, <2>22, <2>23, <2>24, <2>25, <2>26, <2>27, <2>28, <2>29, <2>30
        DEF Next, InboxStep, UserStep, HousekeepingStep, ReleaseStep, Event
<1> QED
    BY <1>1, <1>2

\* While one handler runs at a time, nothing of a trusted sender is on hold between
\* them: release covers the very rows that is_trusted looks at, over all the
\* statements it takes.  And once gating is off nothing is held at all.
THEOREM TrustEndsTheHold == ASSUME OneHandler PROVE Spec => []GatingSettled
<1>1. Init => SettleInv
    BY DEF Init, SettleInv, AtOnce, Applying, TrustInv, OffInv, Live, Held, NoRow
<1>2. IInv /\ SettleInv /\ [Next]_vars => SettleInv'
    BY AtOnceNext, ApplyingNext, TrustNext, OffNext DEF SettleInv, IInv
<1>3. IInv /\ SettleInv => GatingSettled
    <2> SUFFICES ASSUME IInv, SettleInv PROVE TrustedNotHeld /\ OffHoldsNothing
        BY DEF GatingSettled, IInv
    <2>1. TrustedNotHeld
        BY DEF TrustedNotHeld, Quiet, SettleInv, TrustInv, Releasing, Trusted
    <2>2. OffHoldsNothing
        BY DEF OffHoldsNothing, Quiet, SettleInv, OffInv
    <2> QED
        BY <2>1, <2>2
<1> QED
    BY <1>1, <1>2, <1>3, Invariance, PTL DEF Spec

-----------------------------------------------------------------------------
(***************************************************************************)
(* Locations: the inductive invariant.                                     *)
(***************************************************************************)

\* What the variables hold.
StreamRow == [begin : Nat, until : Nat, last : Nat]
LoopEntry == [chat : StreamChats, begin : Nat, until : Nat, last : Nat]
StreamTypes == stream \in [StreamChats -> StreamRow]
PathTypes == path \in SUBSET [ts : Nat, chat : StreamChats] /\ \A t \in Recorded : 1 <= t /\ t <= tick
LoopTypes ==
    /\ looper \in [at : {"sleep", "run"}, wake : Int, now : Nat, rest : Seq(LoopEntry), next : Int, lag : Int]
    /\ rung \in BOOLEAN
    /\ user \in [at : {"idle", "announce", "ring"}, chat : StreamChats \cup {""}, on : BOOLEAN]
    /\ user.at = "announce" => user.chat \in StreamChats
MailTypes ==
    /\ mailsOut \in Seq([chat : StreamChats, locs : SUBSET Nat])
    /\ \A i \in DOMAIN mailsOut : \A t \in mailsOut[i].locs : t <= tick
ArrivedTypes == arrived \in Seq([ts : Nat, chat : StreamChats])
WindowTypes == windows \in SUBSET [chat : StreamChats, from : Nat, to : Nat]
PostTypes ==
    posts \in Seq([row : BOOLEAN,
                   msg : {"unlinked", "shown", "deleting", "trashed", "expired", "lost", "torn"}])

\* A streaming that is on is in a window of the user's, and has times of the clock.
StreamInWindow(c) ==
    /\ stream[c].until <= LastTick + 2 /\ stream[c].last <= tick
    /\ stream[c].until > 0 => /\ stream[c].begin > 0 /\ stream[c].begin <= stream[c].until
                              /\ [chat |-> c, from |-> stream[c].begin, to |-> stream[c].until] \in windows
    /\ stream[c].until = 0 => stream[c].begin = 0
StreamsInWindows == \A c \in StreamChats : StreamInWindow(c)

\* Nothing was sent that is newer than all that is recorded: what expires goes from the oldest on.
NewestKept == \A c \in StreamChats : Recorded # {} => \E t \in Recorded : stream[c].last <= t

\* What the user asked for is on, unless the loop has cut it off.
Wished == "cut" \notin mixed => \A w \in windows : tick + 1 < w.to => stream[w.chat].until >= w.to

\* No interrupt is waiting or about to be sent.
NoRing == ~rung /\ user.at = "idle"
Pending(c) == \E t \in Recorded : t >= stream[c].begin /\ t > stream[c].last
\* To wake at n is early enough for the chat.
Early(c, n) ==
    /\ n <= stream[c].until \/ n <= tick
    /\ IsSendingToChat(c) /\ Pending(c) => n <= stream[c].last + Gap + 1 \/ n <= tick

\* What the loop has read of a chat it has yet to handle is still so, or the streaming was switched off, or the
\* chat was sent something meanwhile.
EntryKnown(e) ==
    /\ e.begin > 0
    /\ NoRing /\ stream[e.chat].until > 0 =>
         stream[e.chat].until = e.until /\ stream[e.chat].begin = e.begin /\ stream[e.chat].last >= e.last
LoopRuns ==
    looper.at = "run" =>
        /\ looper.now <= tick
        /\ \A i \in DOMAIN looper.rest : EntryKnown(looper.rest[i])
        /\ \A c \in StreamChats : NoRing /\ stream[c].until > 0 =>
             (\E i \in DOMAIN looper.rest : looper.rest[i].chat = c) \/ Early(c, looper.next)
LoopSleeps ==
    looper.at = "sleep" /\ NoRing /\ "failed" \notin mixed =>
        \A c \in StreamChats : stream[c].until > 0 => Early(c, looper.wake - looper.lag)

\* A point of interest has its row while its message comes and goes.
PoiKnown(p) ==
    /\ p.msg \in {"unlinked", "shown"} /\ "early" \notin mixed => p.row
    /\ p.msg \in {"deleting", "trashed"} => ~p.row
PoisKnown == \A i \in DOMAIN posts : PoiKnown(posts[i])

\* The inductive invariant: streams and mails, the loop, the receiver and points of interest.
StreamInv ==
    /\ tick \in 1..LastTick /\ StreamTypes /\ PathTypes /\ MailTypes /\ WindowTypes
    /\ StreamsInWindows /\ NewestKept /\ Wished /\ OnlyWhileAsked
LoopInv == LoopTypes /\ LoopRuns /\ LoopSleeps
PoiInv == PostTypes /\ PoisKnown
LocInv == StreamInv /\ LoopInv /\ ArrivedTypes /\ NoneTwice /\ PoiInv

-----------------------------------------------------------------------------
(* Numbers and sequences *)

\* A set of numbers that is not empty has a least one.
LEMMA LeastThere ==
    ASSUME NEW S \in SUBSET Nat, S # {}
    PROVE  \E x \in S : \A y \in S : x <= y
<1> DEFINE R == {ss \in Nat \X Nat : ss[1] < ss[2]}
<1>1. IsWellFoundedOn(R, Nat) BY NatLessThanWellFounded, Zenon DEF OpToRel
<1> HIDE DEF R
<1>2. PICK x \in S : \A y \in S : ~(<<y, x>> \in R) BY <1>1, WFMin
<1>3. ASSUME NEW y \in S PROVE x <= y
  <2>1. <<y, x>> \notin R /\ <<y, x>> \in Nat \X Nat BY <1>2
  <2>2. ~(<<y, x>>[1] < <<y, x>>[2]) BY <2>1 DEF R
  <2> QED BY <2>2
<1> QED BY <1>3

\* And a greatest, if it is bounded.
LEMMA GreatestThere ==
    ASSUME NEW n \in Nat, NEW S \in SUBSET (0..n), S # {}
    PROVE  MaxOf(S) \in S /\ \A y \in S : y <= MaxOf(S)
<1> DEFINE D == {n - y : y \in S}
<1>1. D \in SUBSET Nat /\ D # {}
  <2>1. PICK z \in S : TRUE OBVIOUS
  <2>2. n - z \in D BY <2>1
  <2>3. \A y \in S : n - y \in Nat OBVIOUS
  <2> QED BY <2>2, <2>3
<1>2. PICK d \in D : \A e \in D : d <= e BY <1>1, LeastThere
<1>3. PICK x \in S : d = n - x BY <1>2
<1>4. ASSUME NEW y \in S PROVE y <= x
  <2>1. d <= n - y BY <1>2
  <2> QED BY <1>3, <2>1
<1>5. \E z \in S : \A y \in S : y <= z BY <1>4
<1> QED BY <1>5 DEF MaxOf

\* Of two numbers, the greater and the smaller
LEMMA OfTwo ==
    ASSUME NEW a \in Int, NEW b \in Int
    PROVE  /\ MaxOf({a, b}) = IF a <= b THEN b ELSE a
           /\ MinOf({a, b}) = IF a <= b THEN a ELSE b
<1>1. \E x \in {a, b} : \A y \in {a, b} : y <= x OBVIOUS
<1>2. \E x \in {a, b} : \A y \in {a, b} : x <= y OBVIOUS
<1>3. MaxOf({a, b}) \in {a, b} /\ \A y \in {a, b} : y <= MaxOf({a, b}) BY <1>1 DEF MaxOf
<1>4. MinOf({a, b}) \in {a, b} /\ \A y \in {a, b} : MinOf({a, b}) <= y BY <1>2 DEF MinOf
<1> QED BY <1>3, <1>4

\* Every bounded set of numbers can be put in order: one that cannot, of the least size, has a greatest element,
\* and the others can be.
LEMMA OrderThere ==
    ASSUME NEW n \in Nat, NEW T \in SUBSET (0..n)
    PROVE  /\ IsFiniteSet(T) /\ Cardinality(T) \in Nat
           /\ InTimeOrder(T) \in [1..Cardinality(T) -> T]
           /\ \A i, j \in 1..Cardinality(T) : i < j => InTimeOrder(T)[i] < InTimeOrder(T)[j]
<1> DEFINE Ordered(S) == \E f \in [1..Cardinality(S) -> S] : \A i, j \in DOMAIN f : i < j => f[i] < f[j]
           Bad == {Cardinality(S) : S \in {S \in SUBSET (0..n) : ~Ordered(S)}}
<1>1. ASSUME NEW S \in SUBSET (0..n) PROVE IsFiniteSet(S) /\ Cardinality(S) \in Nat
  <2>1. IsFiniteSet(0..n) BY FS_Interval
  <2> QED BY <1>1, <2>1, FS_Subset, FS_CardinalityType
<1>2. ASSUME NEW S \in SUBSET (0..n), ~Ordered(S) PROVE FALSE
  <2>1. Bad \in SUBSET Nat /\ Bad # {} BY <1>1, <1>2
  <2>2. PICK m \in Bad : \A k \in Bad : m <= k BY <2>1, LeastThere
  <2>3. PICK U \in SUBSET (0..n) : ~Ordered(U) /\ Cardinality(U) = m BY <2>2
  <2>4. U # {}
    <3>1. SUFFICES ASSUME U = {} PROVE Ordered(U) BY <2>3
    <3>2. Cardinality(U) = 0 BY <3>1, FS_EmptySet
    <3> DEFINE e == [i \in 1..0 |-> 0]
    <3>3. e \in [1..Cardinality(U) -> U] BY <3>2
    <3>4. \A i, j \in DOMAIN e : i < j => e[i] < e[j] OBVIOUS
    <3> QED BY <3>3, <3>4
  <2>5. MaxOf(U) \in U /\ \A y \in U : y <= MaxOf(U) BY <2>4, GreatestThere
  <2>6. PICK x : x = MaxOf(U) OBVIOUS
  <2>7. Cardinality(U \ {x}) = m - 1 /\ m \in Nat BY <1>1, <2>3, <2>5, <2>6, FS_RemoveElement
  <2>8. m - 1 \notin Bad BY <2>1, <2>2, <2>7
  <2>9. Ordered(U \ {x}) BY <2>7, <2>8
  <2>10. PICK f \in [1..(m - 1) -> U \ {x}] : \A i, j \in DOMAIN f : i < j => f[i] < f[j] BY <2>7, <2>9
  <2> DEFINE g == [i \in 1..m |-> IF i = m THEN x ELSE f[i]]
  <2>11. \A i \in 1..m : i # m => i \in 1..(m - 1) BY <2>7
  <2>12. g \in [1..Cardinality(U) -> U] BY <2>3, <2>5, <2>6, <2>10, <2>11
  <2>13. ASSUME NEW i \in 1..m, NEW j \in 1..m, i < j PROVE g[i] < g[j]
    <3>1. i \in 1..(m - 1) /\ g[i] = f[i] /\ f[i] \in U \ {x} BY <2>7, <2>10, <2>13
    <3>2. CASE j = m
      <4>1. f[i] <= x /\ f[i] # x BY <2>5, <2>6, <3>1
      <4>2. f[i] \in 0..n /\ x \in 0..n BY <2>3, <2>5, <2>6, <3>1
      <4>3. f[i] < x BY <4>1, <4>2
      <4>4. g[j] = x BY <3>2
      <4> QED BY <3>1, <4>3, <4>4
    <3>3. CASE j # m BY <2>10, <2>11, <2>13, <3>1, <3>3
    <3> QED BY <3>2, <3>3
  <2>14. Ordered(U) BY <2>12, <2>13
  <2> QED BY <2>3, <2>14
<1>3. Ordered(T) BY <1>2
<1>4. /\ InTimeOrder(T) \in [1..Cardinality(T) -> T]
      /\ \A i, j \in DOMAIN InTimeOrder(T) : i < j => InTimeOrder(T)[i] < InTimeOrder(T)[j]
  BY <1>3 DEF InTimeOrder
<1> QED BY <1>1, <1>4

\* What is left of a sequence without one of its elements
LEMMA WithoutOne ==
    ASSUME NEW S, NEW s \in Seq(S), NEW i \in DOMAIN s
    PROVE  /\ SubSeq(s, 1, i - 1) \o SubSeq(s, i + 1, Len(s)) \in Seq(S)
           /\ \A k \in DOMAIN (SubSeq(s, 1, i - 1) \o SubSeq(s, i + 1, Len(s))) :
                \E j \in DOMAIN s : (SubSeq(s, 1, i - 1) \o SubSeq(s, i + 1, Len(s)))[k] = s[j]
<1>1. DOMAIN s = 1..Len(s) /\ Len(s) \in Nat /\ i \in 1..Len(s) OBVIOUS
<1> DEFINE a == SubSeq(s, 1, i - 1)
           b == SubSeq(s, i + 1, Len(s))
<1>2. a \in Seq(S) /\ Len(a) = i - 1 /\ \A k \in 1..(i - 1) : a[k] = s[k]
  BY <1>1, SubSeqProperties
<1>3. b \in Seq(S) /\ Len(b) = Len(s) - i /\ \A k \in 1..(Len(s) - i) : b[k] = s[i + k]
  BY <1>1, SubSeqProperties
<1> HIDE DEF a, b
<1>4. a \o b \in Seq(S) /\ Len(a \o b) = Len(s) - 1
  <2>1. a \o b \in Seq(S) /\ Len(a \o b) = Len(a) + Len(b) BY <1>2, <1>3, ConcatProperties
  <2> QED BY <1>1, <1>2, <1>3, <2>1
<1>5. ASSUME NEW k \in DOMAIN (a \o b) PROVE \E j \in DOMAIN s : (a \o b)[k] = s[j]
  <2>1. k \in 1..(Len(s) - 1) BY <1>1, <1>4
  <2>2. CASE k <= i - 1
    <3>1. (a \o b)[k] = s[k] BY <1>1, <1>2, <1>3, <2>1, <2>2, ConcatProperties
    <3> QED BY <1>1, <2>1, <3>1
  <2>3. CASE k > i - 1
    <3>1. (a \o b)[k] = b[k - (i - 1)] BY <1>1, <1>2, <1>3, <2>1, <2>3, ConcatProperties
    <3>2. k - (i - 1) \in 1..(Len(s) - i) BY <1>1, <2>1, <2>3
    <3>3. b[k - (i - 1)] = s[i + (k - (i - 1))] BY <1>3, <3>2
    <3>4. i + (k - (i - 1)) \in DOMAIN s BY <1>1, <2>1, <2>3
    <3> QED BY <3>1, <3>3, <3>4
  <2> QED BY <1>1, <2>1, <2>2, <2>3
<1> QED BY <1>4, <1>5 DEF a, b

-----------------------------------------------------------------------------
(* Streams and mails *)

\* What is recorded is in the past.
LEMMA RecordedFacts ==
    ASSUME StreamInv
    PROVE  tick \in Nat /\ Recorded \in SUBSET (0..tick) /\ \A t \in Recorded : t \in Nat /\ 1 <= t /\ t <= tick
BY LocAssumption DEF StreamInv, PathTypes, Recorded

\* The rows of a chat
LEMMA RowFacts ==
    ASSUME StreamInv, NEW c \in StreamChats
    PROVE  stream[c] \in StreamRow /\ stream[c].begin \in Nat /\ stream[c].until \in Nat /\ stream[c].last \in Nat
BY DEF StreamInv, StreamTypes, StreamRow

\* The mails
LEMMA MailFacts ==
    ASSUME StreamInv, NEW i \in DOMAIN mailsOut, NEW t \in mailsOut[i].locs
    PROVE  mailsOut[i].chat \in StreamChats /\ t \in Nat /\ t <= tick
<1>1. mailsOut \in Seq([chat : StreamChats, locs : SUBSET Nat]) BY DEF StreamInv, MailTypes
<1>2. i \in 1..Len(mailsOut) BY <1>1
<1>3. mailsOut[i] \in [chat : StreamChats, locs : SUBSET Nat] BY <1>1, <1>2, ElementOfSeq
<1> QED BY <1>3 DEF StreamInv, MailTypes

\* A mail of a chat: what it takes along is of a time the user asked for, and nothing is pending afterwards.
LEMMA MailsInFacts ==
    ASSUME StreamInv, NEW c \in StreamChats, MailsIn(c), UNCHANGED <<tick, path, windows>>
    PROVE  /\ StreamTypes' /\ MailTypes' /\ OnlyWhileAsked' /\ NewestKept'
           /\ \A d \in StreamChats : stream'[d].begin = stream[d].begin /\ stream'[d].until = stream[d].until
           /\ \A d \in StreamChats : stream'[d].last >= stream[d].last /\ stream'[d].last <= tick
           /\ IsSendingToChat(c) => ~Pending(c)'
           /\ \A d \in StreamChats : stream'[d].last # stream[d].last =>
                {t \in Recorded : t >= stream[d].begin /\ t > stream[d].last /\ t <= stream'[d].last}
                  \subseteq mailsOut'[Len(mailsOut')].locs
<1>1. PICK K : K = IF IsSendingToChat(c) THEN GetKml(c) ELSE {} OBVIOUS
<1>2. /\ mailsOut' = IF K = {} THEN mailsOut ELSE Append(mailsOut, [chat |-> c, locs |-> K])
      /\ stream' = IF K = {} THEN stream ELSE SentUpTo(c, K)
  BY <1>1 DEF MailsIn
<1>3. tick \in Nat /\ Recorded \in SUBSET (0..tick) /\ \A t \in Recorded : t \in Nat /\ 1 <= t /\ t <= tick
  BY RecordedFacts
<1>4. Recorded' = Recorded BY DEF Recorded
<1>5. K \subseteq Recorded /\ \A t \in K : t >= stream[c].begin BY <1>1 DEF GetKml
<1>6. \A t \in Recorded : IsSendingToChat(c) /\ t >= stream[c].begin /\ t > stream[c].last => t \in K
  BY <1>1 DEF GetKml
<1>7. \A d \in StreamChats : stream[d] \in StreamRow /\ stream[d].begin \in Nat /\ stream[d].until \in Nat
                             /\ stream[d].last \in Nat /\ stream[d].last <= tick
  BY RowFacts DEF StreamInv, StreamsInWindows, StreamInWindow
<1>8. CASE K = {}
  <2>1. UNCHANGED <<stream, mailsOut>> BY <1>2, <1>8
  <2>2. IsSendingToChat(c) => ~Pending(c)'
    <3>1. Pending(c)' => \E t \in Recorded : t >= stream[c].begin /\ t > stream[c].last BY <1>4, <2>1 DEF Pending
    <3> QED BY <1>6, <1>8, <3>1
  <2>3. StreamTypes' /\ MailTypes' /\ OnlyWhileAsked' /\ NewestKept'
    BY <1>4, <2>1 DEF StreamInv, StreamTypes, MailTypes, OnlyWhileAsked, NewestKept
  <2> QED BY <1>7, <2>1, <2>2, <2>3
<1>9. CASE K # {}
  <2>1. PICK m : m = MaxOf(K) OBVIOUS
  <2>2. m \in K /\ (\A t \in K : t <= m) /\ m \in Nat /\ m <= tick
    <3>1. K \in SUBSET (0..tick) BY <1>3, <1>5
    <3>2. MaxOf(K) \in K /\ \A t \in K : t <= MaxOf(K) BY <1>3, <1>9, <3>1, GreatestThere
    <3> QED BY <1>3, <1>5, <2>1, <3>2
  <2>3. IsSendingToChat(c) BY <1>1, <1>9
  <2>4. stream' = [stream EXCEPT ![c].last = m] BY <1>2, <1>9, <2>1 DEF SentUpTo
  <2>5. StreamTypes' BY <2>2, <2>4 DEF StreamInv, StreamTypes, StreamRow
  <2>6. /\ \A d \in StreamChats : stream'[d].begin = stream[d].begin /\ stream'[d].until = stream[d].until
        /\ \A d \in StreamChats : stream'[d].last = IF d = c THEN m ELSE stream[d].last
    BY <2>4 DEF StreamInv, StreamTypes, StreamRow
  <2>7. m >= stream[c].last
    <3>1. PICK t \in Recorded : stream[c].last <= t BY <1>5, <2>2 DEF StreamInv, NewestKept
    <3>2. CASE m > stream[c].last BY <1>3, <1>7, <2>2, <3>2
    <3>3. CASE m = MaxOf(Recorded)
      <4>1. \A y \in Recorded : y <= MaxOf(Recorded) BY <1>3, <3>1, GreatestThere
      <4> QED BY <1>3, <1>7, <2>2, <3>1, <3>3, <4>1
    <3> QED BY <1>1, <2>2, <2>3, <3>2, <3>3 DEF GetKml
  <2>8. ~Pending(c)'
    <3>1. Pending(c)' => \E t \in Recorded : t >= stream[c].begin /\ t > m BY <1>4, <2>6 DEF Pending
    <3>2. ASSUME NEW t \in Recorded, t >= stream[c].begin, t > m PROVE FALSE
      <4>1. t > stream[c].last BY <1>3, <1>7, <2>2, <2>7, <3>2
      <4>2. t <= m BY <1>6, <2>2, <2>3, <3>2, <4>1
      <4> QED BY <1>3, <2>2, <3>2, <4>2
    <3> QED BY <3>1, <3>2
  <2>9. mailsOut' = Append(mailsOut, [chat |-> c, locs |-> K]) BY <1>2, <1>9
  <2>10. /\ mailsOut \in Seq([chat : StreamChats, locs : SUBSET Nat])
         /\ [chat |-> c, locs |-> K] \in [chat : StreamChats, locs : SUBSET Nat]
    BY <1>3, <1>5 DEF StreamInv, MailTypes
  <2>11. /\ mailsOut' \in Seq([chat : StreamChats, locs : SUBSET Nat]) /\ Len(mailsOut') = Len(mailsOut) + 1
         /\ DOMAIN mailsOut' = 1..(Len(mailsOut) + 1) /\ DOMAIN mailsOut = 1..Len(mailsOut) /\ Len(mailsOut) \in Nat
         /\ \A i \in DOMAIN mailsOut : mailsOut'[i] = mailsOut[i]
         /\ mailsOut'[Len(mailsOut) + 1] = [chat |-> c, locs |-> K]
    BY <2>9, <2>10
  <2>12. \A i \in DOMAIN mailsOut' : i \in DOMAIN mailsOut \/ i = Len(mailsOut) + 1 BY <2>11
  <2>13. \A i \in DOMAIN mailsOut' : \A t \in mailsOut'[i].locs : t <= tick
    BY <1>3, <1>5, <2>11, <2>12 DEF StreamInv, MailTypes
  <2>14. MailTypes' BY <2>11, <2>13 DEF MailTypes
  <2>15. ASSUME NEW t \in K PROVE \E w \in windows : w.chat = c /\ w.from <= t /\ t < w.to
    <3>1. stream[c].until > tick BY <2>3 DEF IsSendingToChat
    <3>2. [chat |-> c, from |-> stream[c].begin, to |-> stream[c].until] \in windows
      BY <1>3, <1>7, <3>1 DEF StreamInv, StreamsInWindows, StreamInWindow
    <3>3. stream[c].begin <= t /\ t < stream[c].until BY <1>3, <1>5, <1>7, <3>1
    <3> QED BY <3>2, <3>3
  <2>16. OnlyWhileAsked' BY <2>11, <2>12, <2>15 DEF StreamInv, OnlyWhileAsked
  <2>17. NewestKept'
    <3>1. ASSUME NEW d \in StreamChats, Recorded # {} PROVE \E t \in Recorded : stream'[d].last <= t
      <4>1. CASE d = c BY <1>5, <2>2, <2>6, <4>1
      <4>2. CASE d # c BY <2>6, <3>1, <4>2 DEF StreamInv, NewestKept
      <4> QED BY <4>1, <4>2
    <3> QED BY <1>4, <3>1 DEF NewestKept
  <2>18. \A d \in StreamChats : stream'[d].last >= stream[d].last /\ stream'[d].last <= tick BY <1>7, <2>2, <2>6, <2>7
  <2>19. ASSUME NEW d \in StreamChats, stream'[d].last # stream[d].last
         PROVE  {t \in Recorded : t >= stream[d].begin /\ t > stream[d].last /\ t <= stream'[d].last}
                  \subseteq mailsOut'[Len(mailsOut')].locs
    <3>1. d = c BY <2>6, <2>19
    <3>2. mailsOut'[Len(mailsOut')].locs = K BY <2>11
    <3> QED BY <1>6, <2>3, <3>1, <3>2
  <2> QED BY <2>5, <2>6, <2>8, <2>14, <2>16, <2>17, <2>18, <2>19
<1> QED BY <1>8, <1>9

\* So the streams are as they were but for what was sent.
LEMMA MailsKeepStreams ==
    ASSUME StreamInv, NEW c \in StreamChats, MailsIn(c), UNCHANGED <<tick, path, windows, mixed>>
    PROVE  StreamInv'
<1>1. /\ StreamTypes' /\ MailTypes' /\ OnlyWhileAsked' /\ NewestKept'
      /\ \A d \in StreamChats : stream'[d].begin = stream[d].begin /\ stream'[d].until = stream[d].until
      /\ \A d \in StreamChats : stream'[d].last <= tick
  BY MailsInFacts
<1>2. PathTypes' /\ WindowTypes' BY DEF StreamInv, PathTypes, WindowTypes, Recorded
<1>3. StreamsInWindows' BY <1>1 DEF StreamInv, StreamsInWindows, StreamInWindow
<1>4. Wished' BY <1>1 DEF StreamInv, Wished, WindowTypes
<1> QED BY <1>1, <1>2, <1>3, <1>4 DEF StreamInv

\* The windows after those of some chats were closed
Closed(C) == {IF w.chat \in C /\ w.to > tick THEN [w EXCEPT !.to = tick + 1] ELSE w : w \in windows}

\* What is in the past is in them as before.
LEMMA WindowsClose ==
    ASSUME StreamInv, NEW C \in SUBSET StreamChats
    PROVE  /\ Closed(C) \in SUBSET [chat : StreamChats, from : Nat, to : Nat]
           /\ \A w \in windows : w.chat \notin C \/ w.to <= tick => w \in Closed(C)
           /\ \A v \in Closed(C) : tick + 1 < v.to => v \in windows /\ v.chat \notin C
           /\ \A w \in windows : \E v \in Closed(C) : v.chat = w.chat /\ v.from = w.from
                                              /\ \A t \in Nat : t <= tick /\ t < w.to => t < v.to
<1> DEFINE W == Closed(C)
<1> USE DEF StreamInv, WindowTypes, Closed
<1>1. tick \in Nat BY RecordedFacts
<1>2. ASSUME NEW w \in windows
      PROVE  /\ [w EXCEPT !.to = tick + 1] \in [chat : StreamChats, from : Nat, to : Nat]
             /\ [w EXCEPT !.to = tick + 1].to = tick + 1 /\ [w EXCEPT !.to = tick + 1].chat = w.chat
             /\ [w EXCEPT !.to = tick + 1].from = w.from
             /\ w.to \in Nat /\ w.from \in Nat /\ w.chat \in StreamChats
  BY <1>1
<1>3. W \in SUBSET [chat : StreamChats, from : Nat, to : Nat] BY <1>2
<1>4. ASSUME NEW w \in windows, w.chat \notin C \/ w.to <= tick PROVE w \in W BY <1>1, <1>2, <1>4
<1>5. ASSUME NEW v \in W, tick + 1 < v.to PROVE v \in windows /\ v.chat \notin C
  <2>1. PICK w \in windows : v = IF w.chat \in C /\ w.to > tick THEN [w EXCEPT !.to = tick + 1] ELSE w OBVIOUS
  <2>2. ~(w.chat \in C /\ w.to > tick) BY <1>1, <1>2, <1>5, <2>1
  <2> QED BY <1>1, <1>2, <1>5, <2>1, <2>2
<1>6. ASSUME NEW w \in windows
      PROVE  \E v \in W : v.chat = w.chat /\ v.from = w.from /\ \A t \in Nat : t <= tick /\ t < w.to => t < v.to
  <2>1. CASE w.chat \in C /\ w.to > tick
    <3>1. [w EXCEPT !.to = tick + 1] \in W BY <2>1
    <3> QED BY <1>1, <1>2, <3>1
  <2>2. CASE ~(w.chat \in C /\ w.to > tick)
    <3>1. w \in W BY <2>2
    <3> QED BY <3>1
  <2> QED BY <2>1, <2>2
<1> QED BY <1>3, <1>4, <1>5, <1>6

\* A step that leaves them alone
LEMMA StreamsRest ==
    ASSUME StreamInv, UNCHANGED <<tick, stream, path, mailsOut, windows>>, mixed \subseteq mixed'
    PROVE  StreamInv'
<1>1. Recorded' = Recorded BY DEF Recorded
<1>2. StreamTypes' /\ PathTypes' /\ MailTypes' /\ WindowTypes'
  BY <1>1 DEF StreamInv, StreamTypes, PathTypes, MailTypes, WindowTypes
<1>3. StreamsInWindows' BY DEF StreamInv, StreamsInWindows, StreamInWindow
<1>4. NewestKept' BY <1>1 DEF StreamInv, NewestKept
<1>5. Wished' /\ OnlyWhileAsked' BY DEF StreamInv, Wished, OnlyWhileAsked
<1> QED BY <1>2, <1>3, <1>4, <1>5 DEF StreamInv

\* Streams that are switched on or off, with the windows closed that were open for them
LEMMA StreamsSwitched ==
    ASSUME StreamInv, UNCHANGED <<tick, path, mailsOut>>, mixed \subseteq mixed', StreamTypes', WindowTypes',
           \A c \in StreamChats : stream'[c].last = stream[c].last,
           StreamsInWindows', Wished',
           \A w \in windows : \E v \in windows' : v.chat = w.chat /\ v.from = w.from
                                                  /\ \A t \in Nat : t <= tick /\ t < w.to => t < v.to
    PROVE  StreamInv'
<1>1. Recorded' = Recorded BY DEF Recorded
<1>2. PathTypes' /\ MailTypes' BY <1>1 DEF StreamInv, PathTypes, MailTypes
<1>3. NewestKept' BY <1>1 DEF StreamInv, NewestKept
<1>4. OnlyWhileAsked'
  <2> SUFFICES ASSUME NEW i \in DOMAIN mailsOut, NEW t \in mailsOut[i].locs
               PROVE  \E v \in windows' : v.chat = mailsOut[i].chat /\ v.from <= t /\ t < v.to
    BY DEF OnlyWhileAsked
  <2>1. t \in Nat /\ t <= tick BY MailFacts
  <2>2. PICK w \in windows : w.chat = mailsOut[i].chat /\ w.from <= t /\ t < w.to BY DEF StreamInv, OnlyWhileAsked
  <2>3. PICK v \in windows' : v.chat = w.chat /\ v.from = w.from /\ \A u \in Nat : u <= tick /\ u < w.to => u < v.to
    OBVIOUS
  <2> QED BY <2>1, <2>2, <2>3
<1> QED BY <1>2, <1>3, <1>4 DEF StreamInv

\* The user starts, prolongs or ends a streaming.
LEMMA SendToChatStreams ==
    ASSUME StreamInv, NEW c \in StreamChats, NEW seconds \in {0, 2}, SendToChat(c, seconds)
    PROVE  StreamInv'
<1>1. tick \in Nat /\ tick >= 1 /\ tick <= LastTick /\ LastTick \in Nat BY LocAssumption DEF StreamInv
<1>2. UNCHANGED <<tick, path, mailsOut, mixed>> BY DEF SendToChat
<1>3. \A d \in StreamChats : stream[d].begin \in Nat /\ stream[d].until \in Nat /\ stream[d].last \in Nat BY RowFacts
<1>4. stream' = [stream EXCEPT ![c].begin = IF seconds = 0 THEN 0 ELSE tick,
                               ![c].until = IF seconds = 0 THEN 0 ELSE tick + seconds]
  BY DEF SendToChat
<1>5. StreamTypes'
  <2>2. PICK b : b = IF seconds = 0 THEN 0 ELSE tick OBVIOUS
  <2>3. PICK u : u = IF seconds = 0 THEN 0 ELSE tick + seconds OBVIOUS
  <2>1. stream' = [stream EXCEPT ![c].begin = b, ![c].until = u] /\ b \in Nat /\ u \in Nat
    BY <1>1, <1>4, <2>2, <2>3
  <2> QED BY <2>1 DEF StreamInv, StreamTypes, StreamRow
<1>6. /\ stream'[c].begin = (IF seconds = 0 THEN 0 ELSE tick) /\ stream'[c].until = (IF seconds = 0 THEN 0 ELSE tick + 2)
      /\ \A d \in StreamChats : stream'[d].last = stream[d].last
      /\ \A d \in StreamChats \ {c} : stream'[d] = stream[d]
  BY <1>4 DEF StreamInv, StreamTypes, StreamRow
<1>7. PICK W : W = Closed({c}) OBVIOUS
<1>8. windows' = IF seconds = 0 THEN W ELSE W \cup {[chat |-> c, from |-> tick, to |-> tick + 2]}
  BY <1>7 DEF SendToChat, ClosedWindows, Closed
<1>9. /\ W \in SUBSET [chat : StreamChats, from : Nat, to : Nat]
      /\ \A w \in windows : w.chat \notin {c} \/ w.to <= tick => w \in W
      /\ \A v \in W : tick + 1 < v.to => v \in windows /\ v.chat \notin {c}
      /\ \A w \in windows : \E v \in W : v.chat = w.chat /\ v.from = w.from
                                         /\ \A t \in Nat : t <= tick /\ t < w.to => t < v.to
  BY <1>7, WindowsClose
<1>10. WindowTypes' BY <1>1, <1>8, <1>9 DEF WindowTypes
<1>11. StreamsInWindows'
  <2>2. \A d \in StreamChats : stream[d].last <= tick BY DEF StreamInv, StreamsInWindows, StreamInWindow
  <2>1. ASSUME NEW d \in StreamChats PROVE StreamInWindow(d)'
    <3>1. CASE d = c /\ seconds = 0
      BY <1>1, <1>2, <1>6, <2>2, <3>1 DEF StreamInWindow
    <3>2. CASE d = c /\ seconds = 2
      <4>1. stream'[c].begin = tick /\ stream'[c].until = tick + 2 BY <1>6, <3>2
      <4>2. [chat |-> c, from |-> tick, to |-> tick + 2] \in windows' BY <1>8, <3>2
      <4> QED BY <1>1, <1>2, <1>6, <2>2, <3>2, <4>1, <4>2 DEF StreamInWindow
    <3>3. CASE d # c
      <4>1. stream'[d] = stream[d] BY <1>6, <3>3
      <4>2. [chat |-> d, from |-> stream[d].begin, to |-> stream[d].until] \in windows =>
              [chat |-> d, from |-> stream[d].begin, to |-> stream[d].until] \in windows'
        BY <1>8, <1>9, <3>3
      <4> QED BY <1>2, <4>1, <4>2 DEF StreamInv, StreamsInWindows, StreamInWindow
    <3> QED BY <3>1, <3>2, <3>3
  <2> QED BY <2>1 DEF StreamsInWindows
<1>12. Wished'
  <2> SUFFICES ASSUME "cut" \notin mixed, NEW w \in windows', tick + 1 < w.to PROVE stream'[w.chat].until >= w.to
    BY <1>2 DEF Wished
  <2>1. CASE w \in W
    <3>1. w \in windows /\ w.chat # c /\ w.chat \in StreamChats BY <1>9, <2>1
    <3> QED BY <1>6, <3>1 DEF StreamInv, Wished
  <2>2. CASE w \notin W BY <1>1, <1>6, <1>8, <2>2
  <2> QED BY <2>1, <2>2
<1>13. \A w \in windows : \E v \in windows' : v.chat = w.chat /\ v.from = w.from
                                              /\ \A t \in Nat : t <= tick /\ t < w.to => t < v.to
  BY <1>8, <1>9
<1> QED BY <1>2, <1>5, <1>6, <1>10, <1>11, <1>12, <1>13, StreamsSwitched

\* The user ends all streamings.
LEMMA StopSendingStreams ==
    ASSUME StreamInv, StopSending
    PROVE  StreamInv'
<1>1. tick \in Nat /\ tick >= 1 BY LocAssumption DEF StreamInv
<1>2. UNCHANGED <<tick, path, mailsOut, mixed>> BY DEF StopSending
<1>3. \A d \in StreamChats : stream[d].begin \in Nat /\ stream[d].until \in Nat /\ stream[d].last \in Nat BY RowFacts
<1>4. stream' = [c \in StreamChats |-> IF stream[c].until > tick THEN [stream[c] EXCEPT !.begin = 0, !.until = 0]
                                       ELSE stream[c]]
  BY DEF StopSending, IsSendingToChat
<1>5. StreamTypes' BY <1>4 DEF StreamInv, StreamTypes, StreamRow
<1>6. /\ \A c \in StreamChats : stream[c].until > tick => stream'[c].begin = 0 /\ stream'[c].until = 0
      /\ \A c \in StreamChats : stream'[c].last = stream[c].last
      /\ \A c \in StreamChats : ~(stream[c].until > tick) => stream'[c] = stream[c]
  BY <1>4 DEF StreamInv, StreamTypes, StreamRow
<1>7. windows' = Closed(StreamChats) BY DEF StopSending, StreamInv, WindowTypes, Closed
<1>8. /\ windows' \in SUBSET [chat : StreamChats, from : Nat, to : Nat]
      /\ \A w \in windows : w.to <= tick => w \in windows'
      /\ \A v \in windows' : tick + 1 < v.to => v.chat \notin StreamChats
      /\ \A w \in windows : \E v \in windows' : v.chat = w.chat /\ v.from = w.from
                                                /\ \A t \in Nat : t <= tick /\ t < w.to => t < v.to
  BY <1>7, WindowsClose
<1>9. StreamsInWindows'
  <2>2. \A d \in StreamChats : stream[d].last <= tick BY DEF StreamInv, StreamsInWindows, StreamInWindow
  <2>1. ASSUME NEW d \in StreamChats PROVE StreamInWindow(d)'
    <3>1. CASE stream[d].until > tick
      BY <1>2, <1>6, <2>2, <3>1, LocAssumption DEF StreamInWindow
    <3>2. CASE ~(stream[d].until > tick)
      BY <1>1, <1>2, <1>3, <1>6, <1>8, <3>2 DEF StreamInv, StreamsInWindows, StreamInWindow
    <3> QED BY <3>1, <3>2
  <2> QED BY <2>1 DEF StreamsInWindows
<1>10. Wished' BY <1>2, <1>8 DEF Wished
<1> QED BY <1>2, <1>5, <1>6, <1>8, <1>9, <1>10, StreamsSwitched DEF WindowTypes

\* The loop switches a streaming off; if that one was meant to go on, it is noted.
LEMMA DisableStreams ==
    ASSUME StreamInv, NEW c \in StreamChats, looper.now \in Nat, looper.now <= tick,
           stream' = [stream EXCEPT ![c].begin = 0, ![c].until = 0],
           mixed' = IF stream[c].until > looper.now THEN mixed \cup {"cut"} ELSE mixed,
           UNCHANGED <<tick, path, mailsOut, windows>>
    PROVE  StreamInv'
<1>1. tick \in Nat /\ tick >= 1 BY LocAssumption DEF StreamInv
<1>2. \A d \in StreamChats : stream[d].begin \in Nat /\ stream[d].until \in Nat /\ stream[d].last \in Nat BY RowFacts
<1>3. StreamTypes' BY DEF StreamInv, StreamTypes, StreamRow
<1>4. /\ stream'[c].begin = 0 /\ stream'[c].until = 0
      /\ \A d \in StreamChats : stream'[d].last = stream[d].last
      /\ \A d \in StreamChats \ {c} : stream'[d] = stream[d]
  BY DEF StreamInv, StreamTypes, StreamRow
<1>5. StreamsInWindows'
  <2>1. \A d \in StreamChats : stream[d].last <= tick /\ StreamInWindow(d)
    BY DEF StreamInv, StreamsInWindows, StreamInWindow
  <2>2. StreamInWindow(c)'
    <3>1. stream[c].last <= tick BY <2>1
    <3>2. 0 <= LastTick + 2 BY LocAssumption
    <3>3. stream'[c].last <= tick' BY <1>4, <3>1
    <3> QED BY ONLY <1>4, <3>2, <3>3 DEF StreamInWindow
  <2>3. ASSUME NEW d \in StreamChats \ {c} PROVE StreamInWindow(d)'
    <3>1. stream'[d] = stream[d] /\ StreamInWindow(d) BY <1>4, <2>1
    <3>2. UNCHANGED <<tick, windows>> OBVIOUS
    <3> QED BY ONLY <3>1, <3>2 DEF StreamInWindow
  <2> QED BY <2>2, <2>3 DEF StreamsInWindows
<1>6. Wished'
  <2> SUFFICES ASSUME "cut" \notin mixed', NEW w \in windows, tick + 1 < w.to PROVE stream'[w.chat].until >= w.to
    BY DEF Wished
  <2>1. w.chat \in StreamChats /\ w.to \in Nat BY DEF StreamInv, WindowTypes
  <2>2. stream[w.chat].until >= w.to BY DEF StreamInv, Wished
  <2>3. w.chat # c BY <1>1, <1>2, <2>1, <2>2
  <2> QED BY <1>4, <2>1, <2>2, <2>3
<1>7. WindowTypes' BY DEF StreamInv, WindowTypes
<1> QED BY <1>3, <1>4, <1>5, <1>6, <1>7, StreamsSwitched

\* A position is of now.
LEMMA SetPositionStreams ==
    ASSUME StreamInv, SetPosition
    PROVE  StreamInv'
<1>1. tick \in Nat /\ tick >= 1 BY LocAssumption DEF StreamInv
<1>2. UNCHANGED <<tick, stream, mailsOut, windows, mixed>> BY DEF SetPosition
<1>3. PICK C \in SUBSET StreamChats : path' = path \cup {[ts |-> tick, chat |-> c] : c \in C} BY DEF SetPosition
<1>4. PathTypes' BY <1>1, <1>2, <1>3 DEF StreamInv, PathTypes, Recorded
<1>5. NewestKept'
  <2>1. CASE C = {} BY <1>2, <1>3, <2>1 DEF StreamInv, NewestKept, Recorded
  <2>2. CASE C # {}
    <3>0. PICK c \in C : TRUE BY <2>2
    <3>1. [ts |-> tick, chat |-> c] \in path' /\ [ts |-> tick, chat |-> c].ts = tick BY <1>3
    <3>2. tick \in Recorded' BY <3>1 DEF Recorded
    <3> QED BY <1>2, <3>2 DEF StreamInv, NewestKept, StreamsInWindows, StreamInWindow
  <2> QED BY <2>1, <2>2
<1>6. StreamTypes' /\ MailTypes' /\ WindowTypes' BY <1>2 DEF StreamInv, StreamTypes, MailTypes, WindowTypes
<1>7. StreamsInWindows' BY <1>2 DEF StreamInv, StreamsInWindows, StreamInWindow
<1>8. Wished' /\ OnlyWhileAsked' BY <1>2 DEF StreamInv, Wished, OnlyWhileAsked
<1> QED BY <1>2, <1>4, <1>5, <1>6, <1>7, <1>8 DEF StreamInv

\* Positions expire from the oldest on.
LEMMA DeleteExpiredStreams ==
    ASSUME StreamInv, DeleteExpired
    PROVE  StreamInv' /\ Recorded' \subseteq Recorded
<1>1. tick \in Nat /\ tick >= 1 /\ \A t \in Recorded : t \in Nat BY RecordedFacts, LocAssumption DEF StreamInv
<1>2. UNCHANGED <<tick, stream, mailsOut, windows>> /\ mixed \subseteq mixed' BY DEF DeleteExpired
<1>3. PICK t \in 1..(tick - 1) : path' = {r \in path : r.ts >= t} BY DEF DeleteExpired
<1>4. Recorded' = {u \in Recorded : u >= t} BY <1>3 DEF Recorded
<1>5. PathTypes' BY <1>2, <1>3, <1>4 DEF StreamInv, PathTypes
<1>6. NewestKept'
  <2> SUFFICES ASSUME NEW c \in StreamChats, Recorded' # {} PROVE \E u \in Recorded' : stream[c].last <= u
    BY <1>2 DEF NewestKept
  <2>1. PICK v \in Recorded' : TRUE OBVIOUS
  <2>2. v \in Recorded /\ v >= t BY <1>4, <2>1
  <2>3. PICK u \in Recorded : stream[c].last <= u BY <2>2 DEF StreamInv, NewestKept
  <2>4. CASE u >= t BY <1>4, <2>3, <2>4
  <2>5. CASE ~(u >= t)
    <3>1. stream[c].last <= v BY <1>1, <2>2, <2>3, <2>5, RowFacts
    <3> QED BY <2>1, <3>1
  <2> QED BY <2>4, <2>5
<1>7. StreamTypes' /\ MailTypes' /\ WindowTypes' BY <1>2 DEF StreamInv, StreamTypes, MailTypes, WindowTypes
<1>8. StreamsInWindows' BY <1>2 DEF StreamInv, StreamsInWindows, StreamInWindow
<1>9. Wished' /\ OnlyWhileAsked' BY <1>2 DEF StreamInv, Wished, OnlyWhileAsked
<1> QED BY <1>2, <1>4, <1>5, <1>6, <1>7, <1>8, <1>9 DEF StreamInv

\* Time passes.
LEMMA TicksStreams ==
    ASSUME StreamInv, Ticks
    PROVE  StreamInv'
<1>1. tick \in Nat /\ tick' = tick + 1 /\ tick' \in 1..LastTick BY LocAssumption DEF StreamInv, Ticks
<1>2. UNCHANGED <<stream, path, mailsOut, windows, mixed>> BY DEF Ticks
<1>3. Recorded' = Recorded BY <1>2 DEF Recorded
<1>4. PathTypes' BY <1>1, <1>2, <1>3 DEF StreamInv, PathTypes, Recorded
<1>5. MailTypes'
  <2>1. \A i \in DOMAIN mailsOut : \A t \in mailsOut[i].locs : t <= tick + 1 BY <1>1, MailFacts
  <2> QED BY <1>1, <1>2, <2>1 DEF StreamInv, MailTypes
<1>6. StreamTypes' /\ WindowTypes' /\ NewestKept' /\ OnlyWhileAsked'
  BY <1>2, <1>3 DEF StreamInv, StreamTypes, WindowTypes, NewestKept, OnlyWhileAsked
<1>7. StreamsInWindows' BY <1>1, <1>2, RowFacts DEF StreamInv, StreamsInWindows, StreamInWindow
<1>8. Wished' BY <1>1, <1>2 DEF StreamInv, Wished, WindowTypes
<1> QED BY <1>1, <1>4, <1>5, <1>6, <1>7, <1>8 DEF StreamInv

\* A mail arrives: the others are as they were.
LEMMA ReceiveKmlStreams ==
    ASSUME StreamInv, NEW i \in DOMAIN mailsOut, ReceiveKml(i)
    PROVE  StreamInv'
<1>1. UNCHANGED <<tick, stream, path, windows, mixed>> BY DEF ReceiveKml
<1>2. mailsOut \in Seq([chat : StreamChats, locs : SUBSET Nat]) BY DEF StreamInv, MailTypes
<1>3. /\ mailsOut' \in Seq([chat : StreamChats, locs : SUBSET Nat])
      /\ \A k \in DOMAIN mailsOut' : \E j \in DOMAIN mailsOut : mailsOut'[k] = mailsOut[j]
  BY <1>2, WithoutOne DEF ReceiveKml
<1>4. MailTypes' BY <1>1, <1>3 DEF StreamInv, MailTypes
<1>5. OnlyWhileAsked' BY <1>1, <1>3 DEF StreamInv, OnlyWhileAsked
<1>6. StreamTypes' /\ PathTypes' /\ WindowTypes' /\ NewestKept' /\ Wished'
  BY <1>1 DEF StreamInv, StreamTypes, PathTypes, WindowTypes, NewestKept, Wished, Recorded
<1>7. StreamsInWindows' BY <1>1 DEF StreamInv, StreamsInWindows, StreamInWindow
<1> QED BY <1>1, <1>4, <1>5, <1>6, <1>7 DEF StreamInv

-----------------------------------------------------------------------------
(* The loop *)

\* What was early enough still is, while time goes on and more is sent.
LEMMA EarlyStays ==
    ASSUME StreamInv, NEW c \in StreamChats, NEW n \in Int, Early(c, n), tick' \in Nat, tick <= tick',
           stream'[c].until = stream[c].until, stream'[c].begin = stream[c].begin,
           stream'[c].last \in Nat, stream'[c].last >= stream[c].last, Recorded' \subseteq Recorded
    PROVE  Early(c, n)'
<1>1. stream[c].begin \in Nat /\ stream[c].until \in Nat /\ stream[c].last \in Nat BY RowFacts
<1>2. tick \in Nat /\ Gap \in Nat /\ \A t \in Recorded : t \in Nat BY RecordedFacts, LocAssumption
<1>3. Pending(c)' => Pending(c) BY <1>1, <1>2 DEF Pending
<1>4. IsSendingToChat(c)' => IsSendingToChat(c) BY <1>1, <1>2 DEF IsSendingToChat
<1>5. n <= stream'[c].until \/ n <= tick' BY <1>1, <1>2 DEF Early
<1>6. IsSendingToChat(c)' /\ Pending(c)' => n <= stream'[c].last + Gap + 1 \/ n <= tick'
  BY <1>1, <1>2, <1>3, <1>4 DEF Early
<1> QED BY <1>5, <1>6 DEF Early

\* A step of others, as the loop sees it: an interrupt is on its way, or no streaming was switched on and nothing
\* was recorded.
Unseen ==
    NoRing' => /\ NoRing /\ Recorded' \subseteq Recorded
              /\ \A c \in StreamChats : stream'[c].until > 0 =>
                   stream'[c].until = stream[c].until /\ stream'[c].begin = stream[c].begin /\ stream'[c].last >= stream[c].last

\* Others' steps leave the loop as it is.
LEMMA LoopRests ==
    ASSUME StreamInv, StreamInv', LoopInv, UNCHANGED looper, tick <= tick', mixed \subseteq mixed', LoopTypes', Unseen
    PROVE  LoopInv'
<1>1. tick \in Nat /\ tick' \in Nat BY LocAssumption DEF StreamInv
<1>2. \A c \in StreamChats : stream[c].begin \in Nat /\ stream[c].until \in Nat /\ stream[c].last \in Nat BY RowFacts
<1>3. \A c \in StreamChats : stream'[c].begin \in Nat /\ stream'[c].until \in Nat /\ stream'[c].last \in Nat
  BY DEF StreamInv, StreamTypes, StreamRow
<1>4. looper.now \in Nat /\ looper.next \in Int /\ looper.wake - looper.lag \in Int /\ looper.rest \in Seq(LoopEntry)
  <2>1. looper \in [at : {"sleep", "run"}, wake : Int, now : Nat, rest : Seq(LoopEntry), next : Int, lag : Int]
    BY DEF LoopInv, LoopTypes
  <2> QED BY <2>1
<1>5. \A i \in DOMAIN looper.rest : looper.rest[i] \in LoopEntry
  <2>1. DOMAIN looper.rest = 1..Len(looper.rest) BY <1>4
  <2> QED BY <1>4, <2>1, ElementOfSeq
<1>6. ASSUME NoRing', NEW c \in StreamChats, stream'[c].until > 0, NEW n \in Int, Early(c, n) PROVE Early(c, n)'
  <2>1. /\ Recorded' \subseteq Recorded /\ stream'[c].until = stream[c].until /\ stream'[c].begin = stream[c].begin
        /\ stream'[c].last >= stream[c].last
    BY <1>6 DEF Unseen
  <2> QED BY <1>1, <1>3, <1>6, <2>1, EarlyStays
<1>7. LoopRuns'
  <2> SUFFICES ASSUME looper.at = "run"
               PROVE  /\ looper.now <= tick'
                      /\ \A i \in DOMAIN looper.rest : EntryKnown(looper.rest[i])'
                      /\ \A c \in StreamChats : NoRing' /\ stream'[c].until > 0 =>
                           (\E i \in DOMAIN looper.rest : looper.rest[i].chat = c) \/ Early(c, looper.next)'
    BY DEF LoopRuns
  <2>1. /\ looper.now <= tick
        /\ \A i \in DOMAIN looper.rest : EntryKnown(looper.rest[i])
        /\ \A c \in StreamChats : NoRing /\ stream[c].until > 0 =>
             (\E i \in DOMAIN looper.rest : looper.rest[i].chat = c) \/ Early(c, looper.next)
    BY DEF LoopInv, LoopRuns
  <2>2. looper.now <= tick' BY <1>1, <1>4, <2>1
  <2>3. ASSUME NEW i \in DOMAIN looper.rest PROVE EntryKnown(looper.rest[i])'
    <3>1. PICK e \in LoopEntry : e = looper.rest[i] BY <1>5
    <3>2. e.chat \in StreamChats /\ e.last \in Nat BY <3>1 DEF LoopEntry
    <3>3. EntryKnown(e) BY <2>1, <3>1
    <3>4. e = looper'.rest[i] BY <3>1
    <3>5. EntryKnown(e)' BY <1>2, <1>3, <3>2, <3>3 DEF EntryKnown, Unseen
    <3> QED BY <3>4, <3>5 DEF EntryKnown
  <2>4. ASSUME NEW c \in StreamChats, NoRing', stream'[c].until > 0
        PROVE  (\E i \in DOMAIN looper.rest : looper.rest[i].chat = c) \/ Early(c, looper.next)'
    <3>1. NoRing /\ stream[c].until > 0 BY <2>4 DEF Unseen
    <3>2. PICK n \in Int : n = looper.next BY <1>4
    <3>3. Early(c, n) => Early(c, n)' BY <1>6, <2>4
    <3>4. Early(c, n)' => Early(c, looper.next)' BY <3>2 DEF Early
    <3> QED BY <2>1, <3>1, <3>2, <3>3, <3>4
  <2> QED BY <2>2, <2>3, <2>4
<1>8. LoopSleeps'
  <2> SUFFICES ASSUME looper.at = "sleep", NoRing', "failed" \notin mixed', NEW c \in StreamChats, stream'[c].until > 0
               PROVE  Early(c, looper.wake - looper.lag)'
    BY DEF LoopSleeps
  <2>1. NoRing /\ stream[c].until > 0 BY DEF Unseen
  <2>2. PICK n \in Int : n = looper.wake - looper.lag BY <1>4
  <2>3. Early(c, n) BY <2>1, <2>2 DEF LoopInv, LoopSleeps
  <2>4. Early(c, n)' BY <1>6, <2>3
  <2> QED BY <2>2, <2>4 DEF Early
<1> QED BY <1>7, <1>8 DEF LoopInv

\* The chat at the head is left out, and the others are as they were.
LEMMA HeadFacts ==
    ASSUME LoopTypes, looper.rest # <<>>
    PROVE  /\ Current \in LoopEntry /\ 1 \in DOMAIN looper.rest /\ Current = looper.rest[1]
           /\ Tail(looper.rest) \in Seq(LoopEntry)
           /\ DOMAIN looper.rest = 1..Len(looper.rest) /\ DOMAIN Tail(looper.rest) = 1..(Len(looper.rest) - 1)
           /\ Len(looper.rest) \in Nat /\ Len(looper.rest) >= 1
           /\ \A i \in 1..(Len(looper.rest) - 1) : Tail(looper.rest)[i] = looper.rest[i + 1]
           /\ \A i \in DOMAIN looper.rest : looper.rest[i] \in LoopEntry
<1>1. looper.rest \in Seq(LoopEntry) BY DEF LoopTypes
<1> QED BY <1>1 DEF Current

\* A round goes on behind its head: the head's chat was switched off or will be looked at early enough.
LEMMA LoopGoesOn ==
    ASSUME StreamInv, StreamInv', LoopInv, looper.at = "run", looper.rest # <<>>, NEW n \in Int,
           UNCHANGED <<tick, path, rung, user>>,
           looper' = [looper EXCEPT !.rest = Tail(@), !.next = n], n <= looper.next,
           \A c \in StreamChats : stream'[c].until > 0 =>
             stream'[c].until = stream[c].until /\ stream'[c].begin = stream[c].begin /\ stream'[c].last >= stream[c].last,
           NEW d \in StreamChats, d = Current.chat, NoRing /\ stream'[d].until > 0 => Early(d, n)'
    PROVE  LoopInv'
<1>1. tick \in Nat /\ Recorded' = Recorded /\ NoRing' = NoRing BY LocAssumption DEF StreamInv, Recorded, NoRing
<1>2. \A c \in StreamChats : stream[c].begin \in Nat /\ stream[c].until \in Nat /\ stream[c].last \in Nat BY RowFacts
<1>3. \A c \in StreamChats : stream'[c].begin \in Nat /\ stream'[c].until \in Nat /\ stream'[c].last \in Nat
  BY DEF StreamInv, StreamTypes, StreamRow
<1>4. looper \in [at : {"sleep", "run"}, wake : Int, now : Nat, rest : Seq(LoopEntry), next : Int, lag : Int]
  BY DEF LoopInv, LoopTypes
<1>5. looper'.at = "run" /\ looper'.now = looper.now /\ looper'.next = n /\ looper'.rest = Tail(looper.rest) BY <1>4
<1>6. /\ Current \in LoopEntry /\ Current = looper.rest[1]
      /\ Tail(looper.rest) \in Seq(LoopEntry)
      /\ DOMAIN looper.rest = 1..Len(looper.rest) /\ DOMAIN Tail(looper.rest) = 1..(Len(looper.rest) - 1)
      /\ Len(looper.rest) \in Nat /\ Len(looper.rest) >= 1
      /\ \A i \in 1..(Len(looper.rest) - 1) : Tail(looper.rest)[i] = looper.rest[i + 1]
      /\ \A i \in DOMAIN looper.rest : looper.rest[i] \in LoopEntry
  BY HeadFacts DEF LoopInv
<1>7. LoopTypes' BY <1>4, <1>6 DEF LoopInv, LoopTypes
<1>8. /\ looper.now <= tick
      /\ \A i \in DOMAIN looper.rest : EntryKnown(looper.rest[i])
      /\ \A c \in StreamChats : NoRing /\ stream[c].until > 0 =>
           (\E i \in DOMAIN looper.rest : looper.rest[i].chat = c) \/ Early(c, looper.next)
  BY DEF LoopInv, LoopRuns
<1>9. ASSUME NEW i \in DOMAIN looper'.rest PROVE EntryKnown(looper.rest[i])'
  <2>1. i + 1 \in DOMAIN looper.rest /\ looper'.rest[i] = looper.rest[i + 1] BY <1>5, <1>6
  <2>2. PICK e \in LoopEntry : e = looper.rest[i + 1] BY <1>6, <2>1
  <2>3. e.chat \in StreamChats /\ e.last \in Nat BY <2>2 DEF LoopEntry
  <2>4. EntryKnown(e) BY <1>8, <2>1, <2>2
  <2>5. EntryKnown(e)' BY <1>1, <1>2, <1>3, <2>3, <2>4 DEF EntryKnown
  <2>6. e = looper'.rest[i] BY <2>1, <2>2
  <2> QED BY <2>5, <2>6 DEF EntryKnown
<1>10. ASSUME NEW c \in StreamChats, NoRing, stream'[c].until > 0
       PROVE  (\E i \in DOMAIN looper'.rest : looper'.rest[i].chat = c) \/ Early(c, n)'
  <2>1. CASE c = d BY <1>10, <2>1
  <2>2. CASE c # d
    <3>1. stream[c].until > 0 BY <1>10
    <3>2. CASE \E i \in DOMAIN looper.rest : looper.rest[i].chat = c
      <4>1. PICK i \in DOMAIN looper.rest : looper.rest[i].chat = c BY <3>2
      <4>2. i # 1 BY <1>6, <2>2, <4>1
      <4>3. i - 1 \in 1..(Len(looper.rest) - 1) /\ (i - 1) + 1 = i BY <1>6, <4>1, <4>2
      <4>4. Tail(looper.rest)[i - 1] = looper.rest[i] BY <1>6, <4>3
      <4> QED BY <1>5, <1>6, <4>1, <4>3, <4>4
    <3>3. CASE Early(c, looper.next)
      <4>1. PICK k \in Int : k = looper.next BY <1>4
      <4>2. Early(c, k)' BY <1>1, <1>3, <1>10, <3>3, <4>1, EarlyStays
      <4>3. n <= k BY <4>1
      <4>4. Early(c, n)'
        <5>1. tick' \in Nat /\ Gap \in Nat /\ stream'[c].until \in Nat /\ stream'[c].last \in Nat
          BY <1>1, <1>3, LocAssumption
        <5> QED BY <4>2, <4>3, <5>1 DEF Early
      <4> QED BY <4>4
    <3> QED BY <1>8, <1>10, <3>1, <3>2, <3>3
  <2> QED BY <2>1, <2>2
<1>11. LoopRuns'
  <2>1. looper'.now <= tick' BY <1>5, <1>8
  <2>2. ASSUME NEW c \in StreamChats, Early(c, n)' PROVE Early(c, looper.next)' BY <1>5, <2>2 DEF Early
  <2> QED BY <1>1, <1>5, <1>9, <1>10, <2>1, <2>2 DEF LoopRuns
<1>12. LoopSleeps' BY <1>5 DEF LoopSleeps
<1> QED BY <1>7, <1>11, <1>12 DEF LoopInv

\* A round begins with every chat that has a streaming.
LEMMA WakesLoop ==
    ASSUME StreamInv, LoopInv, Wakes
    PROVE  LoopInv'
<1> DEFINE C == {c \in StreamChats : stream[c].until > 0}
<1>1. UNCHANGED <<tick, stream, path, user>> /\ rung' = FALSE BY DEF Wakes, LoopInv, LoopTypes
<1>2. PICK s \in [1..Cardinality(C) -> C] :
        /\ \A c \in C : \E i \in DOMAIN s : s[i] = c
        /\ looper' = [looper EXCEPT !.at = "run", !.now = tick, !.next = Forever,
                        !.rest = [i \in DOMAIN s |-> [chat |-> s[i], begin |-> stream[s[i]].begin,
                                                      until |-> stream[s[i]].until, last |-> stream[s[i]].last]]]
  BY DEF Wakes
<1>3. Cardinality(C) \in Nat
  <2>1. C \in SUBSET StreamChats OBVIOUS
  <2> QED BY <2>1, LocAssumption, FS_Subset, FS_CardinalityType
<1>4. PICK k \in Nat : k = Cardinality(C) BY <1>3
<1>5. \A c \in StreamChats : stream[c].begin \in Nat /\ stream[c].until \in Nat /\ stream[c].last \in Nat BY RowFacts
<1>6. DOMAIN s = 1..k /\ \A i \in 1..k : s[i] \in StreamChats /\ stream[s[i]].until > 0 BY <1>2, <1>4
<1>7. PICK q : q = [i \in 1..k |-> [chat |-> s[i], begin |-> stream[s[i]].begin,
                                    until |-> stream[s[i]].until, last |-> stream[s[i]].last]]
  OBVIOUS
<1>8. q \in Seq(LoopEntry)
  <2>1. \A i \in 1..k : [chat |-> s[i], begin |-> stream[s[i]].begin, until |-> stream[s[i]].until,
                         last |-> stream[s[i]].last] \in LoopEntry
    BY <1>5, <1>6 DEF LoopEntry
  <2> QED BY <1>4, <1>7, <2>1
<1>9. looper \in [at : {"sleep", "run"}, wake : Int, now : Nat, rest : Seq(LoopEntry), next : Int, lag : Int]
  BY DEF LoopInv, LoopTypes
<1>10. tick \in Nat /\ Forever \in Int BY LocAssumption DEF StreamInv, Forever
<1>11. looper' = [looper EXCEPT !.at = "run", !.now = tick, !.next = Forever, !.rest = q] BY <1>2, <1>6, <1>7
<1>12. looper'.at = "run" /\ looper'.now = tick /\ looper'.rest = q BY <1>9, <1>11
<1>13. LoopTypes' BY <1>1, <1>8, <1>9, <1>10, <1>11 DEF LoopInv, LoopTypes
<1>14. ASSUME NEW i \in DOMAIN looper'.rest PROVE EntryKnown(looper.rest[i])'
  <2>1. i \in 1..k BY <1>7, <1>12
  <2>2. PICK e : e = q[i] OBVIOUS
  <2>3. e.chat = s[i] /\ e.begin = stream[s[i]].begin /\ e.until = stream[s[i]].until /\ e.last = stream[s[i]].last
    BY <1>7, <2>1, <2>2
  <2>4. e.begin > 0 BY <1>6, <2>1, <2>3 DEF StreamInv, StreamsInWindows, StreamInWindow
  <2>5. EntryKnown(e)' BY <1>1, <1>5, <1>6, <2>1, <2>3, <2>4 DEF EntryKnown
  <2>6. e = looper'.rest[i] BY <1>12, <2>2
  <2> QED BY <2>5, <2>6 DEF EntryKnown
<1>15. ASSUME NEW c \in StreamChats, stream'[c].until > 0 PROVE \E i \in DOMAIN looper'.rest : looper'.rest[i].chat = c
  <2>1. c \in C BY <1>1, <1>15
  <2>2. PICK i \in DOMAIN s : s[i] = c BY <1>2, <2>1
  <2>3. i \in 1..k /\ q[i].chat = c BY <1>6, <1>7, <2>2
  <2> QED BY <1>7, <1>12, <2>3
<1>16. LoopRuns' BY <1>1, <1>10, <1>12, <1>14, <1>15 DEF LoopRuns
<1>17. LoopSleeps' BY <1>12 DEF LoopSleeps
<1> QED BY <1>13, <1>16, <1>17 DEF LoopInv

\* The chat at the head, as the round knows it
LEMMA CurrentFacts ==
    ASSUME StreamInv, LoopInv, looper.at = "run", looper.rest # <<>>
    PROVE  /\ Current \in LoopEntry /\ Current.chat \in StreamChats /\ EntryKnown(Current)
           /\ Current.begin \in Nat /\ Current.until \in Nat /\ Current.last \in Nat
           /\ looper.now \in Nat /\ looper.now <= tick /\ looper.next \in Int
<1>1. Current \in LoopEntry /\ 1 \in DOMAIN looper.rest /\ Current = looper.rest[1] BY HeadFacts DEF LoopInv
<1>2. EntryKnown(looper.rest[1]) BY <1>1 DEF LoopInv, LoopRuns
<1>3. looper.now <= tick BY DEF LoopInv, LoopRuns
<1>4. looper.now \in Nat /\ looper.next \in Int BY DEF LoopInv, LoopTypes
<1> QED BY <1>1, <1>2, <1>3, <1>4 DEF LoopEntry

\* What is sent is not pending any more, and the streaming's end is the next that counts.
LEMMA MaybeSendLoop ==
    ASSUME StreamInv, LoopInv, MaybeSend
    PROVE  LoopInv' /\ StreamInv'
<1>1. looper.at = "run" /\ looper.rest # <<>> /\ UNCHANGED <<tick, path, rung, user, windows, mixed>>
  BY DEF MaybeSend, Streaming
<1>2. /\ Current.chat \in StreamChats /\ EntryKnown(Current) /\ Current.until \in Nat /\ looper.next \in Int
  BY <1>1, CurrentFacts
<1>3. PICK d \in StreamChats : d = Current.chat BY <1>2
<1>4. MailsIn(d) BY <1>3 DEF MaybeSend
<1>5. StreamInv' BY <1>1, <1>4, MailsKeepStreams
<1>6. /\ \A c \in StreamChats : stream'[c].begin = stream[c].begin /\ stream'[c].until = stream[c].until
      /\ \A c \in StreamChats : stream'[c].last >= stream[c].last
      /\ IsSendingToChat(d) => ~Pending(d)'
  BY <1>1, <1>4, MailsInFacts
<1>7. PICK n \in Int : n = MinOf({looper.next, Current.until}) /\ n <= looper.next /\ n <= Current.until
  <2>1. looper.next \in Int /\ Current.until \in Int BY <1>2
  <2>2. MinOf({looper.next, Current.until}) = IF looper.next <= Current.until THEN looper.next ELSE Current.until
    BY <2>1, OfTwo
  <2> QED BY <2>1, <2>2
<1>8. looper' = [looper EXCEPT !.rest = Tail(@), !.next = n] BY <1>7 DEF MaybeSend, NextChat
<1>9. NoRing /\ stream'[d].until > 0 => Early(d, n)'
  <2> SUFFICES ASSUME NoRing, stream'[d].until > 0 PROVE Early(d, n)' OBVIOUS
  <2>1. stream'[d].until = Current.until BY <1>2, <1>3, <1>6 DEF EntryKnown
  <2>2. IsSendingToChat(d)' => IsSendingToChat(d) BY <1>1, <1>6 DEF IsSendingToChat
  <2> QED BY <1>6, <1>7, <2>1, <2>2 DEF Early
<1>10. LoopInv' BY <1>1, <1>3, <1>5, <1>6, <1>7, <1>8, <1>9, LoopGoesOn
<1> QED BY <1>5, <1>10

\* A chat with nothing to send, or not yet, is looked at again in time.
LEMMA SkipChatLoop ==
    ASSUME StreamInv, LoopInv, SkipChat
    PROVE  LoopInv' /\ StreamInv'
<1>1. looper.at = "run" /\ looper.rest # <<>> /\ UNCHANGED <<tick, stream, path, mailsOut, rung, user, windows, mixed>>
  BY DEF SkipChat, Streaming
<1>2. /\ Current.chat \in StreamChats /\ EntryKnown(Current) /\ Current.until \in Nat /\ Current.last \in Nat
      /\ Current.begin \in Nat /\ looper.next \in Int /\ looper.now \in Nat /\ looper.now <= tick
  BY <1>1, CurrentFacts
<1>3. PICK d \in StreamChats : d = Current.chat BY <1>2
<1>4. StreamInv' BY <1>1, StreamsRest
<1>5. tick \in Nat /\ Gap \in Nat /\ \A t \in Recorded : t \in Nat BY RecordedFacts, LocAssumption
<1>6. stream[d].begin \in Nat /\ stream[d].until \in Nat /\ stream[d].last \in Nat BY RowFacts
<1>7. /\ Waits \in Int /\ Waits <= Current.until
      /\ HasLocations => Waits <= Current.last + Gap + 1
  <2>1. PICK u \in Int : u = Current.until BY <1>2
  <2>2. PICK g \in Int : g = Current.last + Gap + 1 BY <1>2, <1>5
  <2>3. MinOf({u, g}) = IF u <= g THEN u ELSE g BY OfTwo
  <2>4. Waits = IF HasLocations THEN MinOf({u, g}) ELSE u BY <2>1, <2>2 DEF Waits
  <2> QED BY <2>1, <2>2, <2>3, <2>4
<1>8. PICK n \in Int : n = MinOf({looper.next, Waits}) /\ n <= looper.next /\ n <= Waits
  <2>1. looper.next \in Int /\ Waits \in Int BY <1>2, <1>7
  <2>2. MinOf({looper.next, Waits}) = IF looper.next <= Waits THEN looper.next ELSE Waits BY <2>1, OfTwo
  <2> QED BY <2>1, <2>2
<1>9. looper' = [looper EXCEPT !.rest = Tail(@), !.next = n] BY <1>8 DEF SkipChat, NextChat
<1>10. NoRing /\ stream'[d].until > 0 => Early(d, n)'
  <2> SUFFICES ASSUME NoRing, stream[d].until > 0 PROVE Early(d, n)' BY <1>1
  <2>1. stream[d].until = Current.until /\ stream[d].begin = Current.begin /\ stream[d].last >= Current.last
    BY <1>2, <1>3 DEF EntryKnown
  <2>2. Pending(d) => HasLocations BY <1>2, <1>5, <1>6, <2>1 DEF Pending, HasLocations
  <2>3. Early(d, n) BY <1>2, <1>5, <1>6, <1>7, <1>8, <2>1, <2>2 DEF Early
  <2>4. Recorded' = Recorded BY <1>1 DEF Recorded
  <2> QED BY <1>1, <2>3, <2>4 DEF Early, IsSendingToChat, Pending
<1>11. \A c \in StreamChats : stream'[c].last >= stream[c].last BY <1>1, RowFacts
<1>12. LoopInv' BY <1>1, <1>3, <1>4, <1>8, <1>9, <1>10, <1>11, LoopGoesOn
<1> QED BY <1>4, <1>12

\* A streaming that is over is switched off.
LEMMA DisableLoop ==
    ASSUME StreamInv, LoopInv, Disable
    PROVE  LoopInv' /\ StreamInv'
<1>1. looper.at = "run" /\ looper.rest # <<>> /\ UNCHANGED <<tick, path, mailsOut, rung, user, windows>>
  BY DEF Disable
<1>2. Current.chat \in StreamChats /\ looper.now \in Nat /\ looper.now <= tick /\ looper.next \in Int
  BY <1>1, CurrentFacts
<1>3. PICK d \in StreamChats : d = Current.chat BY <1>2
<1>4. /\ stream' = [stream EXCEPT ![d].begin = 0, ![d].until = 0]
      /\ mixed' = IF stream[d].until > looper.now THEN mixed \cup {"cut"} ELSE mixed
  BY <1>3 DEF Disable, Ends
<1>5. StreamInv' BY <1>1, <1>2, <1>4, DisableStreams
<1>6. stream'[d].until = 0 /\ \A c \in StreamChats : c # d => stream'[c] = stream[c]
  BY <1>4 DEF StreamInv, StreamTypes, StreamRow
<1>7. PICK n \in Int : n = looper.next BY <1>2
<1>8. looper' = [looper EXCEPT !.rest = Tail(@), !.next = n]
  <2>1. looper \in [at : {"sleep", "run"}, wake : Int, now : Nat, rest : Seq(LoopEntry), next : Int, lag : Int]
    BY DEF LoopInv, LoopTypes
  <2>2. looper' = [looper EXCEPT !.rest = Tail(@)] BY DEF Disable
  <2> QED BY <1>7, <2>1, <2>2
<1>9. \A c \in StreamChats : stream'[c].until > 0 =>
        stream'[c].until = stream[c].until /\ stream'[c].begin = stream[c].begin /\ stream'[c].last >= stream[c].last
  BY <1>6, RowFacts
<1>10. ~(stream'[d].until > 0) /\ n <= looper.next BY <1>2, <1>6, <1>7
<1>11. LoopInv' BY <1>1, <1>3, <1>5, <1>7, <1>8, <1>9, <1>10, LoopGoesOn
<1> QED BY <1>5, <1>11

\* The loop sleeps as long as it may, but for the time that the round took.
LEMMA SleepsLoop ==
    ASSUME StreamInv, LoopInv, Sleeps
    PROVE  LoopInv'
<1>1. /\ looper.at = "run" /\ looper.rest = <<>> /\ UNCHANGED <<tick, stream, path, rung, user, mixed>>
      /\ looper' = [looper EXCEPT !.at = "sleep", !.lag = tick - looper.now,
                                  !.wake = IF looper.next = Forever THEN Forever ELSE tick + (looper.next - looper.now)]
  BY DEF Sleeps
<1>2. looper \in [at : {"sleep", "run"}, wake : Int, now : Nat, rest : Seq(LoopEntry), next : Int, lag : Int]
  BY DEF LoopInv, LoopTypes
<1>3. /\ tick \in Nat /\ tick <= LastTick /\ LastTick \in Nat /\ Gap \in Nat /\ Forever = LastTick + Gap + 10
      /\ looper.now \in Nat /\ looper.next \in Int
  BY <1>2, LocAssumption DEF StreamInv, Forever
<1>4. PICK w \in Int : w = IF looper.next = Forever THEN Forever ELSE tick + (looper.next - looper.now) BY <1>3
<1>5. looper' = [looper EXCEPT !.at = "sleep", !.lag = tick - looper.now, !.wake = w] BY <1>1, <1>4
<1>6. looper'.at = "sleep" /\ looper'.lag = tick - looper.now /\ looper'.wake = w BY <1>2, <1>5
<1>7. tick - looper.now \in Int BY <1>3
<1>8. LoopTypes' BY <1>1, <1>2, <1>5, <1>7 DEF LoopInv, LoopTypes
<1>9. LoopRuns' BY <1>6 DEF LoopRuns
<1>10. LoopSleeps'
  <2> SUFFICES ASSUME NoRing, NEW c \in StreamChats, stream[c].until > 0
               PROVE  Early(c, looper.wake - looper.lag)'
    BY <1>1 DEF LoopSleeps, NoRing
  <2>1. Early(c, looper.next) BY <1>1 DEF LoopInv, LoopRuns
  <2>2. stream[c].until \in Nat /\ stream[c].until <= LastTick + 2
    BY RowFacts DEF StreamInv, StreamsInWindows, StreamInWindow
  <2>3. looper.next # Forever BY <1>3, <2>1, <2>2 DEF Early
  <2>4. PICK n \in Int : n = looper.next BY <1>3
  <2>5. looper'.wake - looper'.lag = n BY <1>3, <1>4, <1>6, <2>3, <2>4
  <2>6. Early(c, n)' BY <1>1, <2>1, <2>4 DEF Early, IsSendingToChat, Pending, Recorded
  <2> QED BY <2>5, <2>6 DEF Early
<1> QED BY <1>8, <1>9, <1>10 DEF LoopInv

\* A failure ends the round, and so does a death; a new process looks at once.
LEMMA LoopCut ==
    ASSUME StreamInv, LoopInv, SendingFails \/ LocDies
    PROVE  LoopInv' /\ StreamInv'
<1>1. UNCHANGED <<tick, stream, path, mailsOut, windows>> /\ mixed \subseteq mixed' BY DEF SendingFails, LocDies
<1>2. StreamInv' BY <1>1, StreamsRest
<1>3. looper \in [at : {"sleep", "run"}, wake : Int, now : Nat, rest : Seq(LoopEntry), next : Int, lag : Int]
  BY DEF LoopInv, LoopTypes
<1>4. tick \in Nat /\ tick + Gap \in Int /\ <<>> \in Seq(LoopEntry) BY LocAssumption DEF StreamInv
<1>5. CASE SendingFails
  <2>1. /\ looper' = [looper EXCEPT !.at = "sleep", !.wake = tick + Gap, !.rest = <<>>]
        /\ "failed" \in mixed' /\ UNCHANGED <<rung, user>>
    BY <1>5 DEF SendingFails
  <2>2. LoopTypes' BY <1>3, <1>4, <2>1 DEF LoopInv, LoopTypes
  <2>3. LoopRuns' /\ LoopSleeps' BY <1>3, <2>1 DEF LoopRuns, LoopSleeps
  <2> QED BY <1>2, <2>2, <2>3 DEF LoopInv
<1>6. CASE LocDies
  <2>1. /\ looper' = [looper EXCEPT !.at = "sleep", !.wake = tick, !.lag = 0, !.rest = <<>>]
        /\ rung' = FALSE /\ user' = NoUser
    BY <1>6 DEF LocDies
  <2>2. LoopTypes'
    <3>1. NoUser \in [at : {"idle", "announce", "ring"}, chat : StreamChats \cup {""}, on : BOOLEAN] /\ NoUser.at = "idle"
      BY DEF NoUser
    <3>2. looper' \in [at : {"sleep", "run"}, wake : Int, now : Nat, rest : Seq(LoopEntry), next : Int, lag : Int]
      <4>1. PICK k \in Int : k = tick BY <1>4
      <4>2. looper' = [looper EXCEPT !.at = "sleep", !.wake = k, !.lag = 0, !.rest = <<>>] BY <2>1, <4>1
      <4>3. 0 \in Int /\ <<>> \in Seq(LoopEntry) OBVIOUS
      <4> QED BY ONLY <1>3, <4>1, <4>2, <4>3
    <3> QED BY <2>1, <3>1, <3>2 DEF LoopTypes
  <2>3. looper'.at = "sleep" /\ looper'.wake = tick /\ looper'.lag = 0 BY <1>3, <2>1
  <2>4. \A c \in StreamChats : Early(c, looper.wake - looper.lag)' BY <1>1, <1>4, <2>3 DEF Early
  <2>5. LoopRuns' /\ LoopSleeps' BY <2>3, <2>4 DEF LoopRuns, LoopSleeps
  <2> QED BY <1>2, <2>2, <2>5 DEF LoopInv
<1> QED BY <1>5, <1>6

\* Any message the user sends, and the one that announces a streaming
LEMMA MailsLoop ==
    ASSUME StreamInv, LoopInv, NEW c \in StreamChats, MailsIn(c),
           UNCHANGED <<tick, path, looper, windows, mixed>>, LoopTypes', NoRing' => NoRing
    PROVE  StreamInv' /\ LoopInv'
<1>1. StreamInv' BY MailsKeepStreams
<1>2. /\ \A d \in StreamChats : stream'[d].begin = stream[d].begin /\ stream'[d].until = stream[d].until
      /\ \A d \in StreamChats : stream'[d].last >= stream[d].last
  BY MailsInFacts
<1>3. Recorded' = Recorded BY DEF Recorded
<1>4. Unseen BY <1>2, <1>3 DEF Unseen
<1>5. tick <= tick' /\ mixed \subseteq mixed' BY RecordedFacts
<1> QED BY <1>1, <1>4, <1>5, LoopRests

\* A step that touches neither streams nor the loop
LEMMA LoopUnseen ==
    ASSUME StreamInv, LoopInv, UNCHANGED <<tick, stream, path, looper, rung, user, mailsOut, windows>>, mixed \subseteq mixed'
    PROVE  StreamInv' /\ LoopInv'
<1>1. StreamInv' BY StreamsRest
<1>2. LoopTypes' BY DEF LoopInv, LoopTypes
<1>3. Recorded' = Recorded BY DEF Recorded
<1>4. Unseen BY <1>3, RowFacts DEF Unseen, NoRing
<1>5. tick <= tick' BY RecordedFacts
<1> QED BY <1>1, <1>2, <1>4, <1>5, LoopRests

\* The call of a user
LEMMA UserMade ==
    ASSUME NEW a \in {"idle", "announce", "ring"}, NEW c \in StreamChats, NEW b \in BOOLEAN
    PROVE  /\ [at |-> a, chat |-> c, on |-> b] \in [at : {"idle", "announce", "ring"}, chat : StreamChats \cup {""}, on : BOOLEAN]
           /\ [at |-> a, chat |-> c, on |-> b].chat \in StreamChats
OBVIOUS

\* Every step keeps the streams and the loop.
LEMMA LoopNext ==
    ASSUME StreamInv, LoopInv, LocNext
    PROVE  StreamInv' /\ LoopInv'
<1> DEFINE Users == [at : {"idle", "announce", "ring"}, chat : StreamChats \cup {""}, on : BOOLEAN]
<1>1. tick \in Nat BY RecordedFacts
<1>2. user \in Users /\ (user.at = "announce" => user.chat \in StreamChats) BY DEF LoopInv, LoopTypes
<1>3. /\ looper \in [at : {"sleep", "run"}, wake : Int, now : Nat, rest : Seq(LoopEntry), next : Int, lag : Int]
      /\ rung \in BOOLEAN
  BY DEF LoopInv, LoopTypes
<1>4. CASE LocationLoop
  <2>1. CASE Wakes
    <3>1. UNCHANGED <<tick, stream, path, mailsOut, windows>> /\ mixed \subseteq mixed' BY <2>1 DEF Wakes
    <3> QED BY <2>1, <3>1, StreamsRest, WakesLoop
  <2>2. CASE MaybeSend BY <2>2, MaybeSendLoop
  <2>3. CASE SendingFails BY <2>3, LoopCut
  <2>4. CASE SkipChat BY <2>4, SkipChatLoop
  <2>5. CASE Disable BY <2>5, DisableLoop
  <2>6. CASE Sleeps
    <3>1. UNCHANGED <<tick, stream, path, mailsOut, windows>> /\ mixed \subseteq mixed' BY <2>6 DEF Sleeps
    <3> QED BY <2>6, <3>1, StreamsRest, SleepsLoop
  <2> QED BY <1>4, <2>1, <2>2, <2>3, <2>4, <2>5, <2>6 DEF LocationLoop
<1>5. CASE Announce
  <2>1. /\ user.at = "announce" /\ MailsIn(user.chat) /\ user' = [user EXCEPT !.at = "ring"]
        /\ UNCHANGED <<tick, path, looper, rung, windows, mixed>>
    BY <1>5 DEF Announce
  <2>2. PICK c \in StreamChats : c = user.chat BY <1>2, <2>1
  <2>3. user' \in Users /\ user'.at = "ring" BY <1>2, <2>1
  <2>4. LoopTypes' BY <1>3, <2>1, <2>3 DEF LoopTypes
  <2>5. ~NoRing' BY <2>3 DEF NoRing
  <2> QED BY <2>1, <2>2, <2>4, <2>5, MailsLoop
<1>6. CASE Ring
  <2>1. rung' = TRUE /\ user' = NoUser /\ UNCHANGED <<tick, stream, path, looper, mailsOut, windows, mixed>>
    BY <1>6 DEF Ring
  <2>2. NoUser \in Users /\ NoUser.at = "idle" BY DEF NoUser
  <2>3. LoopTypes' BY <1>3, <2>1, <2>2 DEF LoopTypes
  <2>4. Unseen BY <2>1 DEF Unseen, NoRing
  <2>5. StreamInv' BY <2>1, StreamsRest
  <2> QED BY <1>1, <2>1, <2>3, <2>4, <2>5, LoopRests
<1>7. CASE SetPosition
  <2>1. /\ user.at = "idle" /\ UNCHANGED <<tick, stream, looper, rung, mixed>> BY <1>7 DEF SetPosition
  <2>2. PICK C \in SUBSET StreamChats : /\ path' = path \cup {[ts |-> tick, chat |-> c] : c \in C}
                                         /\ user' = [NoUser EXCEPT !.at = AfterSet(C # {})]
    BY <1>7 DEF SetPosition
  <2>3. user' \in Users /\ user'.at = IF C # {} THEN "ring" ELSE "idle" BY <2>2 DEF NoUser, AfterSet
  <2>4. LoopTypes' BY <1>3, <2>1, <2>3 DEF LoopTypes
  <2>5. C = {} => Recorded' = Recorded BY <2>2 DEF Recorded
  <2>6. Unseen
    <3>1. NoRing' => NoRing /\ C = {} BY <2>1, <2>3 DEF NoRing
    <3>2. \A c \in StreamChats : stream'[c] = stream[c] /\ stream[c].last \in Nat BY <2>1, RowFacts
    <3> QED BY <2>5, <3>1, <3>2 DEF Unseen
  <2>7. StreamInv' BY <1>7, SetPositionStreams
  <2> QED BY <1>1, <2>1, <2>4, <2>6, <2>7, LoopRests
<1>8. CASE StopSending
  <2>1. UNCHANGED <<tick, path, looper, rung, user, mixed>> BY <1>8 DEF StopSending
  <2>2. stream' = [c \in StreamChats |-> IF IsSendingToChat(c) THEN [stream[c] EXCEPT !.begin = 0, !.until = 0]
                                         ELSE stream[c]]
    BY <1>8 DEF StopSending
  <2>3. \A c \in StreamChats : stream'[c].until = 0 \/ stream'[c] = stream[c]
    BY <2>2 DEF StreamInv, StreamTypes, StreamRow
  <2>4. LoopTypes' BY <1>2, <1>3, <2>1 DEF LoopTypes
  <2>5. Recorded' = Recorded BY <2>1 DEF Recorded
  <2>6. \A c \in StreamChats : stream'[c].until > 0 =>
          stream'[c].until = stream[c].until /\ stream'[c].begin = stream[c].begin /\ stream'[c].last >= stream[c].last
    BY <2>3, RowFacts
  <2>7. Unseen BY <2>1, <2>5, <2>6 DEF Unseen, NoRing
  <2>8. StreamInv' BY <1>8, StopSendingStreams
  <2> QED BY <1>1, <2>1, <2>4, <2>7, <2>8, LoopRests
<1>9. CASE DeleteExpired
  <2>1. UNCHANGED <<tick, stream, looper, rung, user>> /\ mixed \subseteq mixed' BY <1>9 DEF DeleteExpired
  <2>2. LoopTypes' BY <1>2, <1>3, <2>1 DEF LoopTypes
  <2>3. StreamInv' /\ Recorded' \subseteq Recorded BY <1>9, DeleteExpiredStreams
  <2>4. Unseen BY <2>1, <2>3, RowFacts DEF Unseen, NoRing
  <2> QED BY <1>1, <2>1, <2>2, <2>3, <2>4, LoopRests
<1>10. CASE Ticks
  <2>1. UNCHANGED <<stream, path, looper, rung, user, mixed>> /\ tick' = tick + 1 BY <1>10 DEF Ticks
  <2>2. LoopTypes' BY <1>2, <1>3, <2>1 DEF LoopTypes
  <2>3. Recorded' = Recorded BY <2>1 DEF Recorded
  <2>4. Unseen BY <2>1, <2>3, RowFacts DEF Unseen, NoRing
  <2>5. StreamInv' BY <1>10, TicksStreams
  <2> QED BY <1>1, <2>1, <2>2, <2>4, <2>5, LoopRests
<1>11. CASE LocDies BY <1>11, LoopCut
<1>12. ASSUME NEW c \in StreamChats, SendAny(c) PROVE StreamInv' /\ LoopInv'
  <2>1. MailsIn(c) /\ UNCHANGED <<tick, path, looper, rung, user, windows, mixed>> BY <1>12 DEF SendAny
  <2>2. LoopTypes' /\ (NoRing' => NoRing) BY <1>2, <1>3, <2>1 DEF LoopTypes, NoRing
  <2> QED BY <2>1, <2>2, MailsLoop
<1>13. ASSUME NEW c \in StreamChats, NEW s \in {0, 2}, SendToChat(c, s) PROVE StreamInv' /\ LoopInv'
  <2>1. UNCHANGED <<tick, path, looper, rung, mixed>> /\ user.at = "idle" BY <1>13 DEF SendToChat
  <2>2. user' = [at |-> IF s # 0 /\ ~IsSendingToChat(c) THEN "announce" ELSE IF s # 0 THEN "ring" ELSE "idle",
                 chat |-> c, on |-> s # 0]
    BY <1>13 DEF SendToChat
  <2>3. user' \in Users /\ user'.chat \in StreamChats /\ (user'.at = "idle" => s = 0)
    <3>1. PICK a \in {"idle", "announce", "ring"} : /\ user'.at = a /\ (a = "idle" => s = 0)
                                                    /\ user' = [at |-> a, chat |-> c, on |-> s # 0]
      <4>1. CASE s # 0 /\ ~IsSendingToChat(c) BY <2>2, <4>1
      <4>2. CASE s # 0 /\ IsSendingToChat(c) BY <2>2, <4>2
      <4>3. CASE s = 0 BY <2>2, <4>3
      <4> QED BY <4>1, <4>2, <4>3
    <3>2. PICK b \in BOOLEAN : b = (s # 0) OBVIOUS
    <3>3. user' = [at |-> a, chat |-> c, on |-> b] BY <3>1, <3>2
    <3>4. [at |-> a, chat |-> c, on |-> b] \in Users /\ [at |-> a, chat |-> c, on |-> b].chat \in StreamChats
      BY ONLY <1>13, <3>1, <3>2, UserMade
    <3>5. user' \in Users /\ user'.chat \in StreamChats BY <3>3, <3>4, Zenon
    <3>6. user'.at = "idle" => s = 0 BY <3>1
    <3> QED BY <3>5, <3>6
  <2>4. LoopTypes' BY <1>3, <2>1, <2>3 DEF LoopTypes
  <2>5. stream' = [stream EXCEPT ![c].begin = IF s = 0 THEN 0 ELSE tick, ![c].until = IF s = 0 THEN 0 ELSE tick + s]
    BY <1>13 DEF SendToChat
  <2>6. s = 0 => \A d \in StreamChats : stream'[d].until = 0 \/ stream'[d] = stream[d]
    BY <2>5 DEF StreamInv, StreamTypes, StreamRow
  <2>7. s = 0 => \A d \in StreamChats : stream'[d].until > 0 =>
          stream'[d].until = stream[d].until /\ stream'[d].begin = stream[d].begin /\ stream'[d].last >= stream[d].last
    BY <2>6, RowFacts
  <2>8. Recorded' = Recorded BY <2>1 DEF Recorded
  <2>9. Unseen BY <2>1, <2>3, <2>7, <2>8 DEF Unseen, NoRing
  <2>10. StreamInv' BY <1>13, SendToChatStreams
  <2> QED BY <1>1, <2>1, <2>4, <2>9, <2>10, LoopRests
<1>14. ASSUME NEW i \in DOMAIN mailsOut, ReceiveKml(i) PROVE StreamInv' /\ LoopInv'
  <2>1. UNCHANGED <<tick, stream, path, looper, rung, user, mixed>> BY <1>14 DEF ReceiveKml
  <2>2. LoopTypes' BY <1>2, <1>3, <2>1 DEF LoopTypes
  <2>3. Recorded' = Recorded BY <2>1 DEF Recorded
  <2>4. Unseen BY <2>1, <2>3, RowFacts DEF Unseen, NoRing
  <2>5. StreamInv' BY <1>14, ReceiveKmlStreams
  <2> QED BY <1>1, <2>1, <2>2, <2>4, <2>5, LoopRests
<1>15. CASE NewPoi \/ PoiHousekeeping \/ LocDone
  <2>1. UNCHANGED <<tick, stream, path, looper, rung, user, mailsOut, windows>> /\ mixed \subseteq mixed'
    BY <1>15 DEF NewPoi, PoiHousekeeping, LocDone, locVars
  <2> QED BY <2>1, LoopUnseen
<1>16. ASSUME NEW i \in DOMAIN posts, LinkPoi(i) \/ DeletePoi(i) \/ TrashPost(i) \/ ExpirePost(i)
       PROVE  StreamInv' /\ LoopInv'
  <2>1. UNCHANGED <<tick, stream, path, looper, rung, user, mailsOut, windows, mixed>>
    BY <1>16 DEF LinkPoi, DeletePoi, TrashPost, ExpirePost
  <2> QED BY <2>1, LoopUnseen
<1> QED BY <1>4, <1>5, <1>6, <1>7, <1>8, <1>9, <1>10, <1>11, <1>12, <1>13, <1>14, <1>15, <1>16 DEF LocNext

-----------------------------------------------------------------------------
(* The receiver, and points of interest *)

\* What a mail brings that is not known yet is one row for each second.
LEMMA ReceiveKmlRows ==
    ASSUME StreamInv, ArrivedTypes, NoneTwice, NEW i \in DOMAIN mailsOut, ReceiveKml(i)
    PROVE  ArrivedTypes' /\ NoneTwice'
<1> DEFINE Rows == [ts : Nat, chat : StreamChats]
<1>1. tick \in Nat BY RecordedFacts
<1>2. mailsOut[i] \in [chat : StreamChats, locs : SUBSET Nat]
  <2>1. mailsOut \in Seq([chat : StreamChats, locs : SUBSET Nat]) BY DEF StreamInv, MailTypes
  <2>2. i \in 1..Len(mailsOut) BY <2>1
  <2> QED BY <2>1, <2>2, ElementOfSeq
<1>3. PICK c \in StreamChats : c = mailsOut[i].chat BY <1>2
<1>4. PICK T : T = {t \in Parse(mailsOut[i].locs) : ~Already(t)} OBVIOUS
<1>5. T \in SUBSET (0..tick) /\ \A t \in T : ~Already(t) BY <1>1, <1>2, <1>4 DEF Parse
<1>6. PICK n \in Nat : n = Cardinality(T) BY <1>1, <1>5, OrderThere
<1>7. PICK f \in [1..n -> T] : f = InTimeOrder(T) /\ \A k, j \in 1..n : k < j => f[k] < f[j]
  BY <1>1, <1>5, <1>6, OrderThere
<1>8. PICK q : q = [k \in 1..n |-> [ts |-> f[k], chat |-> c]] OBVIOUS
<1>9. arrived' = arrived \o q BY <1>3, <1>4, <1>6, <1>7, <1>8 DEF ReceiveKml, SaveAll
<1>10. \A k \in 1..n : f[k] \in T /\ f[k] \in Nat
  <2>1. \A k \in 1..n : f[k] \in T BY <1>7
  <2>2. \A t \in T : t \in Nat BY <1>1, <1>5
  <2> QED BY <2>1, <2>2
<1>11. q \in Seq(Rows) /\ Len(q) = n /\ \A k \in 1..n : q[k].ts = f[k]
  <2>1. \A k \in 1..n : [ts |-> f[k], chat |-> c] \in Rows BY <1>10
  <2> QED BY <1>8, <2>1
<1>12. arrived \in Seq(Rows) BY DEF ArrivedTypes
<1>13. PICK m \in Nat : m = Len(arrived) /\ DOMAIN arrived = 1..m BY <1>12
<1>14. /\ arrived' \in Seq(Rows) /\ Len(arrived') = m + n
       /\ \A k \in 1..(m + n) : arrived'[k] = IF k <= m THEN arrived[k] ELSE q[k - m]
  BY <1>9, <1>11, <1>12, <1>13, ConcatProperties
<1>15. DOMAIN arrived' = 1..(m + n) BY <1>14
<1>16. \A k \in 1..(m + n) : k <= m => k \in DOMAIN arrived /\ arrived'[k].ts = arrived[k].ts BY <1>13, <1>14
<1>17. \A k \in 1..(m + n) : ~(k <= m) => k - m \in 1..n /\ arrived'[k].ts = f[k - m] BY <1>11, <1>13, <1>14
<1>18. ASSUME NEW k \in 1..(m + n), NEW j \in 1..(m + n), arrived'[k].ts = arrived'[j].ts, k < j PROVE FALSE
  <2>1. CASE j <= m
    <3>1. k <= m BY <1>18, <2>1
    <3>2. k \in DOMAIN arrived /\ j \in DOMAIN arrived /\ arrived[k].ts = arrived[j].ts BY <1>16, <1>18, <2>1, <3>1
    <3> QED BY <1>18, <3>2 DEF NoneTwice
  <2>2. CASE k <= m /\ ~(j <= m)
    <3>1. k \in DOMAIN arrived /\ arrived[k].ts = f[j - m] /\ j - m \in 1..n BY <1>16, <1>17, <1>18, <2>2
    <3>2. ~Already(f[j - m]) BY <1>5, <1>10, <3>1
    <3> QED BY <3>1, <3>2 DEF Already
  <2>3. CASE ~(k <= m)
    <3>1. ~(j <= m) BY <1>18, <2>3
    <3>2. k - m \in 1..n /\ j - m \in 1..n /\ f[k - m] = f[j - m] BY <1>17, <1>18, <2>3, <3>1
    <3>3. k - m < j - m BY <1>13, <1>18
    <3>4. f[k - m] < f[j - m] BY <1>7, <3>2, <3>3
    <3> QED BY <1>10, <3>2, <3>4
  <2> QED BY <2>1, <2>2, <2>3
<1>19. NoneTwice'
  <2> SUFFICES ASSUME NEW k \in DOMAIN arrived', NEW j \in DOMAIN arrived', arrived'[k].ts = arrived'[j].ts PROVE k = j
    BY DEF NoneTwice
  <2>1. k \in 1..(m + n) /\ j \in 1..(m + n) BY <1>15
  <2>2. ~(k < j) /\ ~(j < k) BY <1>18, <2>1
  <2> QED BY <2>1, <2>2
<1> QED BY <1>14, <1>19 DEF ArrivedTypes

\* No other step stores a row of the path.
LEMMA RowsNext ==
    ASSUME StreamInv, ArrivedTypes, NoneTwice, LocNext
    PROVE  ArrivedTypes' /\ NoneTwice'
<1>1. ASSUME UNCHANGED arrived PROVE ArrivedTypes' /\ NoneTwice' BY <1>1 DEF ArrivedTypes, NoneTwice
<1>2. ASSUME NEW i \in DOMAIN mailsOut, ReceiveKml(i) PROVE ArrivedTypes' /\ NoneTwice' BY <1>2, ReceiveKmlRows
<1>3. CASE LocationLoop
  <2>1. UNCHANGED arrived BY <1>3 DEF LocationLoop, Wakes, MaybeSend, SendingFails, SkipChat, Disable, Sleeps
  <2> QED BY <1>1, <2>1
<1>4. CASE Announce \/ Ring \/ SetPosition \/ StopSending \/ NewPoi \/ PoiHousekeeping \/ DeleteExpired \/ Ticks
           \/ LocDies \/ LocDone
  <2>1. UNCHANGED arrived
    BY <1>4 DEF Announce, Ring, SetPosition, StopSending, NewPoi, PoiHousekeeping, DeleteExpired, Ticks, LocDies,
                LocDone, locVars
  <2> QED BY <1>1, <2>1
<1>5. ASSUME NEW c \in StreamChats, SendAny(c) \/ \E s \in {0, 2} : SendToChat(c, s) PROVE UNCHANGED arrived
  BY <1>5 DEF SendAny, SendToChat
<1>6. ASSUME NEW i \in DOMAIN posts, LinkPoi(i) \/ DeletePoi(i) \/ TrashPost(i) \/ ExpirePost(i) PROVE UNCHANGED arrived
  BY <1>6 DEF LinkPoi, DeletePoi, TrashPost, ExpirePost
<1> QED BY <1>1, <1>2, <1>3, <1>4, <1>5, <1>6 DEF LocNext

\* The points of interest, one post at a time
LEMMA PostFacts ==
    ASSUME PoiInv
    PROVE  /\ DOMAIN posts = 1..Len(posts) /\ Len(posts) \in Nat
           /\ \A i \in DOMAIN posts : /\ posts[i].row \in BOOLEAN /\ PoiKnown(posts[i])
                /\ posts[i] \in [row : BOOLEAN, msg : {"unlinked", "shown", "deleting", "trashed", "expired", "lost", "torn"}]
<1>1. posts \in Seq([row : BOOLEAN, msg : {"unlinked", "shown", "deleting", "trashed", "expired", "lost", "torn"}])
  BY DEF PoiInv, PostTypes
<1>2. DOMAIN posts = 1..Len(posts) /\ Len(posts) \in Nat BY <1>1
<1>3. \A i \in DOMAIN posts : posts[i] \in [row : BOOLEAN, msg : {"unlinked", "shown", "deleting", "trashed", "expired", "lost", "torn"}]
  BY <1>1, <1>2, ElementOfSeq
<1> QED BY <1>2, <1>3 DEF PoiInv, PoisKnown

\* A step that maps each post to one the invariant allows
LEMMA PostsMapped ==
    ASSUME PoiInv, mixed \subseteq mixed', posts' = [i \in DOMAIN posts |-> posts'[i]],
           \A i \in DOMAIN posts :
             /\ posts'[i] \in [row : BOOLEAN, msg : {"unlinked", "shown", "deleting", "trashed", "expired", "lost", "torn"}]
             /\ posts'[i].msg \in {"unlinked", "shown"} /\ "early" \notin mixed' => posts'[i].row
             /\ posts'[i].msg \in {"deleting", "trashed"} => ~posts'[i].row
    PROVE  PoiInv'
<1>1. DOMAIN posts = 1..Len(posts) /\ Len(posts) \in Nat BY PostFacts
<1>2. posts' \in Seq([row : BOOLEAN, msg : {"unlinked", "shown", "deleting", "trashed", "expired", "lost", "torn"}])
  <2>1. posts' \in [1..Len(posts) -> [row : BOOLEAN,
                                      msg : {"unlinked", "shown", "deleting", "trashed", "expired", "lost", "torn"}]]
    BY <1>1, Zenon
  <2> QED BY ONLY <1>1, <2>1, SeqDef
<1>3. DOMAIN posts' = DOMAIN posts BY Zenon
<1>4. ASSUME NEW i \in DOMAIN posts' PROVE PoiKnown(posts[i])' BY <1>3 DEF PoiKnown
<1> QED BY <1>2, <1>4 DEF PoiInv, PostTypes, PoisKnown

\* Every step keeps the points of interest.
LEMMA PoiNext ==
    ASSUME PoiInv, LocNext
    PROVE  PoiInv'
<1> DEFINE Posts == [row : BOOLEAN, msg : {"unlinked", "shown", "deleting", "trashed", "expired", "lost", "torn"}]
<1>1. /\ DOMAIN posts = 1..Len(posts) /\ Len(posts) \in Nat
      /\ \A i \in DOMAIN posts : posts[i].row \in BOOLEAN /\ PoiKnown(posts[i]) /\ posts[i] \in Posts
  BY PostFacts
<1>2. posts \in Seq(Posts) BY DEF PoiInv, PostTypes
<1>3. ASSUME UNCHANGED posts, mixed \subseteq mixed' PROVE PoiInv'
  BY <1>3 DEF PoiInv, PostTypes, PoisKnown, PoiKnown
<1>4. CASE LocationLoop
  <2>1. UNCHANGED posts /\ mixed \subseteq mixed'
    BY <1>4 DEF LocationLoop, Wakes, MaybeSend, SendingFails, SkipChat, Disable, Sleeps
  <2> QED BY <1>3, <2>1
<1>5. CASE Announce \/ Ring \/ SetPosition \/ StopSending \/ DeleteExpired \/ Ticks \/ LocDone
  <2>1. UNCHANGED posts /\ mixed \subseteq mixed'
    BY <1>5 DEF Announce, Ring, SetPosition, StopSending, DeleteExpired, Ticks, LocDone, locVars
  <2> QED BY <1>3, <2>1
<1>6. ASSUME NEW c \in StreamChats, SendAny(c) \/ \E s \in {0, 2} : SendToChat(c, s) PROVE PoiInv'
  <2>1. UNCHANGED <<posts, mixed>> BY <1>6 DEF SendAny, SendToChat
  <2> QED BY <1>3, <2>1
<1>7. ASSUME NEW i \in DOMAIN mailsOut, ReceiveKml(i) PROVE PoiInv'
  <2>1. UNCHANGED <<posts, mixed>> BY <1>7 DEF ReceiveKml
  <2> QED BY <1>3, <2>1
<1>8. CASE NewPoi
  <2>1. posts' = Append(posts, [row |-> TRUE, msg |-> "unlinked"]) /\ UNCHANGED mixed BY <1>8 DEF NewPoi
  <2>2. [row |-> TRUE, msg |-> "unlinked"] \in Posts OBVIOUS
  <2>3. /\ posts' \in Seq(Posts) /\ DOMAIN posts' = 1..(Len(posts) + 1)
        /\ \A i \in DOMAIN posts : posts'[i] = posts[i]
        /\ posts'[Len(posts) + 1] = [row |-> TRUE, msg |-> "unlinked"]
    BY <1>1, <1>2, <2>1, <2>2
  <2>4. ASSUME NEW i \in DOMAIN posts' PROVE PoiKnown(posts[i])'
    <3>1. CASE i \in DOMAIN posts
      <4>1. posts'[i] = posts[i] /\ PoiKnown(posts[i]) BY <1>1, <2>3, <3>1
      <4> QED BY <2>1, <4>1 DEF PoiKnown
    <3>2. CASE i = Len(posts) + 1
      <4>1. posts'[i] = [row |-> TRUE, msg |-> "unlinked"] BY <2>3, <3>2
      <4>2. posts'[i].row = TRUE /\ posts'[i].msg = "unlinked" BY <4>1
      <4> QED BY <4>2 DEF PoiKnown
    <3> QED BY <1>1, <2>3, <3>1, <3>2
  <2> QED BY <2>3, <2>4 DEF PoiInv, PostTypes, PoisKnown
<1>9. ASSUME NEW i \in DOMAIN posts, NEW p \in Posts, posts' = [posts EXCEPT ![i] = p], UNCHANGED mixed,
             p.msg \in {"unlinked", "shown"} /\ "early" \notin mixed => p.row, p.msg \in {"deleting", "trashed"} => ~p.row
      PROVE  PoiInv'
  <2>1. DOMAIN posts' = DOMAIN posts /\ posts' = [j \in DOMAIN posts |-> posts'[j]] BY <1>2, <1>9
  <2>2. \A j \in DOMAIN posts : posts'[j] = IF j = i THEN p ELSE posts[j] BY <1>2, <1>9
  <2>3. ASSUME NEW j \in DOMAIN posts
        PROVE  /\ posts'[j] \in Posts
               /\ posts'[j].msg \in {"unlinked", "shown"} /\ "early" \notin mixed' => posts'[j].row
               /\ posts'[j].msg \in {"deleting", "trashed"} => ~posts'[j].row
    <3>1. CASE j = i BY <1>9, <2>2, <3>1
    <3>2. CASE j # i
      <4>1. posts'[j] = posts[j] BY <2>2, <3>2
      <4> QED BY <1>1, <1>9, <4>1 DEF PoiKnown
    <3> QED BY <3>1, <3>2
  <2> QED BY <1>9, <2>1, <2>3, PostsMapped
<1>10. ASSUME NEW i \in DOMAIN posts, LinkPoi(i) \/ DeletePoi(i) \/ TrashPost(i) \/ ExpirePost(i) PROVE PoiInv'
  <2>1. posts[i] \in Posts /\ PoiKnown(posts[i]) BY <1>1
  <2>2. UNCHANGED mixed BY <1>10 DEF LinkPoi, DeletePoi, TrashPost, ExpirePost
  <2>3. CASE LinkPoi(i)
    <3>1. posts[i].msg = "unlinked" /\ posts' = [posts EXCEPT ![i].msg = "shown"] BY <2>3 DEF LinkPoi
    <3>2. PICK p : p = [posts[i] EXCEPT !.msg = "shown"] OBVIOUS
    <3>3. p \in Posts /\ p.row = posts[i].row /\ p.msg = "shown" BY <2>1, <3>2
    <3>4. posts' = [posts EXCEPT ![i] = p] BY <3>1, <3>2
    <3> QED BY <1>9, <2>1, <2>2, <3>1, <3>3, <3>4 DEF PoiKnown
  <2>4. CASE DeletePoi(i)
    <3>1. posts' = [posts EXCEPT ![i] = [row |-> FALSE, msg |-> "deleting"]] BY <2>4 DEF DeletePoi
    <3>2. PICK p : p = [row |-> FALSE, msg |-> "deleting"] OBVIOUS
    <3>3. p \in Posts /\ p.row = FALSE /\ p.msg = "deleting" BY <3>2
    <3> QED BY <1>9, <2>2, <3>1, <3>2, <3>3
  <2>5. CASE TrashPost(i)
    <3>1. posts[i].msg = "deleting" /\ posts' = [posts EXCEPT ![i].msg = "trashed"] BY <2>5 DEF TrashPost
    <3>2. PICK p : p = [posts[i] EXCEPT !.msg = "trashed"] OBVIOUS
    <3>3. p \in Posts /\ p.row = posts[i].row /\ p.msg = "trashed" BY <2>1, <3>2
    <3>4. posts' = [posts EXCEPT ![i] = p] BY <3>1, <3>2
    <3> QED BY <1>9, <2>1, <2>2, <3>1, <3>3, <3>4 DEF PoiKnown
  <2>6. CASE ExpirePost(i)
    <3>1. posts' = [posts EXCEPT ![i].msg = "expired"] BY <2>6 DEF ExpirePost
    <3>2. PICK p : p = [posts[i] EXCEPT !.msg = "expired"] OBVIOUS
    <3>3. p \in Posts /\ p.row = posts[i].row /\ p.msg = "expired" BY <2>1, <3>2
    <3>4. posts' = [posts EXCEPT ![i] = p] BY <3>1, <3>2
    <3> QED BY <1>9, <2>2, <3>3, <3>4
  <2> QED BY <1>10, <2>3, <2>4, <2>5, <2>6
<1>11. CASE PoiHousekeeping
  <2>1. /\ posts' = [i \in DOMAIN posts |-> IF i \in DeleteOrphanedPoi THEN [posts[i] EXCEPT !.row = FALSE] ELSE posts[i]]
        /\ mixed' = IF \E p \in {posts[i] : i \in DOMAIN posts} : p.msg = "unlinked" THEN mixed \cup {"early"} ELSE mixed
    BY <1>11 DEF PoiHousekeeping
  <2>2. mixed \subseteq mixed' /\ ("early" \notin mixed' => \A i \in DOMAIN posts : posts[i].msg # "unlinked") BY <2>1
  <2>3. posts' = [i \in DOMAIN posts |-> posts'[i]] BY <2>1
  <2>4. ASSUME NEW i \in DOMAIN posts
        PROVE  /\ posts'[i] \in Posts
               /\ posts'[i].msg \in {"unlinked", "shown"} /\ "early" \notin mixed' => posts'[i].row
               /\ posts'[i].msg \in {"deleting", "trashed"} => ~posts'[i].row
    <3>1. posts[i] \in Posts /\ PoiKnown(posts[i]) BY <1>1
    <3>2. CASE i \in DeleteOrphanedPoi
      <4>1. posts'[i] = [posts[i] EXCEPT !.row = FALSE] BY <2>1, <3>2
      <4>2. posts'[i] \in Posts /\ posts'[i].row = FALSE /\ posts'[i].msg = posts[i].msg BY <3>1, <4>1
      <4>3. posts[i].msg \notin {"shown", "deleting"} BY <3>2 DEF DeleteOrphanedPoi, Orphaned
      <4> QED BY <2>2, <4>2, <4>3
    <3>3. CASE i \notin DeleteOrphanedPoi
      <4>1. posts'[i] = posts[i] BY <2>1, <3>3
      <4> QED BY <2>2, <3>1, <4>1 DEF PoiKnown
    <3> QED BY <3>2, <3>3
  <2> QED BY <2>2, <2>3, <2>4, PostsMapped
<1>12. CASE LocDies
  <2>1. /\ posts' = [i \in DOMAIN posts |-> IF posts[i].msg = "unlinked" THEN [posts[i] EXCEPT !.msg = "lost"]
                                             ELSE IF posts[i].msg = "deleting" THEN [posts[i] EXCEPT !.msg = "torn"]
                                             ELSE posts[i]]
        /\ UNCHANGED mixed
    BY <1>12 DEF LocDies
  <2>2. posts' = [i \in DOMAIN posts |-> posts'[i]] BY <2>1
  <2>3. ASSUME NEW i \in DOMAIN posts
        PROVE  /\ posts'[i] \in Posts
               /\ posts'[i].msg \in {"unlinked", "shown"} /\ "early" \notin mixed' => posts'[i].row
               /\ posts'[i].msg \in {"deleting", "trashed"} => ~posts'[i].row
    <3>1. posts[i] \in Posts /\ PoiKnown(posts[i]) BY <1>1
    <3>2. CASE posts[i].msg = "unlinked"
      <4>1. posts'[i] = [posts[i] EXCEPT !.msg = "lost"] BY <2>1, <3>2
      <4> QED BY <3>1, <4>1
    <3>3. CASE posts[i].msg = "deleting"
      <4>1. posts'[i] = [posts[i] EXCEPT !.msg = "torn"] BY <2>1, <3>3
      <4> QED BY <3>1, <4>1
    <3>4. CASE posts[i].msg \notin {"unlinked", "deleting"}
      <4>1. posts'[i] = posts[i] BY <2>1, <3>4
      <4> QED BY <2>1, <3>1, <4>1 DEF PoiKnown
    <3> QED BY <3>2, <3>3, <3>4
  <2> QED BY <2>1, <2>2, <2>3, PostsMapped
<1> QED BY <1>4, <1>5, <1>6, <1>7, <1>8, <1>10, <1>11, <1>12 DEF LocNext

-----------------------------------------------------------------------------
(* Locations *)

\* Every step keeps the invariant, and remembers as sent what it has sent.
LEMMA LocStep ==
    ASSUME LocInv, [LocNext]_locVars
    PROVE  LocInv'
<1>1. CASE LocNext BY <1>1, LoopNext, RowsNext, PoiNext DEF LocInv
<1>2. CASE UNCHANGED locVars
  <2>1. UNCHANGED <<tick, stream, path, looper, rung, user, mailsOut, windows, mixed, arrived, posts>> BY <1>2 DEF locVars
  <2>2. StreamInv' /\ LoopInv' BY <2>1, LoopUnseen DEF LocInv
  <2>3. ArrivedTypes' /\ NoneTwice' BY <2>1 DEF LocInv, ArrivedTypes, NoneTwice
  <2>4. PoiInv' BY <2>1 DEF LocInv, PoiInv, PostTypes, PoisKnown, PoiKnown
  <2> QED BY <2>2, <2>3, <2>4 DEF LocInv
<1> QED BY <1>1, <1>2

\* The invariant holds at the start.
LEMMA LocStart ==
    ASSUME LocInit
    PROVE  LocInv
<1> USE DEF LocInit
<1>1. LastTick \in Nat /\ LastTick >= 1 /\ Gap \in Nat BY LocAssumption
<1>2. \A c \in StreamChats : stream[c] = Off BY DEF LocInit
<1>3. Off \in StreamRow /\ Off.begin = 0 /\ Off.until = 0 /\ Off.last = 0 BY DEF Off, StreamRow
<1>4. Recorded = {} BY DEF Recorded
<1>5. StreamTypes BY <1>3 DEF StreamTypes
<1>6. PathTypes /\ MailTypes /\ WindowTypes BY <1>4 DEF PathTypes, MailTypes, WindowTypes
<1>7. StreamsInWindows BY <1>1, <1>2, <1>3 DEF StreamsInWindows, StreamInWindow
<1>8. NewestKept /\ Wished /\ OnlyWhileAsked BY <1>4 DEF NewestKept, Wished, OnlyWhileAsked
<1>9. StreamInv BY <1>1, <1>5, <1>6, <1>7, <1>8 DEF StreamInv
<1>10. LoopTypes
  <2>1. Forever \in Int /\ <<>> \in Seq(LoopEntry) BY <1>1 DEF Forever
  <2>2. looper \in [at : {"sleep", "run"}, wake : Int, now : Nat, rest : Seq(LoopEntry), next : Int, lag : Int] BY <2>1
  <2>3. NoUser \in [at : {"idle", "announce", "ring"}, chat : StreamChats \cup {""}, on : BOOLEAN] /\ NoUser.at = "idle"
    BY DEF NoUser
  <2> QED BY <2>2, <2>3 DEF LoopTypes
<1>11. LoopRuns /\ LoopSleeps BY <1>2, <1>3 DEF LoopRuns, LoopSleeps
<1>12. ArrivedTypes /\ NoneTwice BY DEF ArrivedTypes, NoneTwice
<1>13. PoiInv BY DEF PoiInv, PostTypes, PoisKnown
<1> QED BY <1>9, <1>10, <1>11, <1>12, <1>13 DEF LocInv, LoopInv

\* The invariant says what is promised.
LEMMA LocPromises ==
    ASSUME LocInv
    PROVE  LocTypeOK /\ OnlyWhileAsked /\ NeverOversleeps /\ StreamsAsAsked /\ NoneTwice /\ PoiWithMessage
<1> USE DEF LocInv
<1>1. tick \in Nat /\ Gap \in Nat BY RecordedFacts, LocAssumption
<1>2. \A c \in StreamChats : stream[c].begin \in Nat /\ stream[c].until \in Nat /\ stream[c].last \in Nat BY RowFacts
<1>3. looper.wake \in Int /\ looper.lag \in Int
  <2>1. looper \in [at : {"sleep", "run"}, wake : Int, now : Nat, rest : Seq(LoopEntry), next : Int, lag : Int]
    BY DEF LoopInv, LoopTypes
  <2> QED BY <2>1
<1>4. LocTypeOK
  <2>1. tick \in 1..LastTick BY DEF StreamInv
  <2>2. \A c \in StreamChats : stream[c].begin <= stream[c].until /\ stream[c].last <= tick
    <3> SUFFICES ASSUME NEW c \in StreamChats PROVE stream[c].begin <= stream[c].until /\ stream[c].last <= tick OBVIOUS
    <3>1. StreamInWindow(c) BY DEF StreamInv, StreamsInWindows
    <3>2. stream[c].until \in Nat /\ stream[c].begin \in Nat BY <1>2
    <3> QED BY <3>1, <3>2 DEF StreamInWindow
  <2>3. \A r \in path : r.ts <= tick /\ r.chat \in StreamChats BY DEF StreamInv, PathTypes, Recorded
  <2>4. \A i \in DOMAIN mailsOut : \A t \in mailsOut[i].locs : t <= tick BY DEF StreamInv, MailTypes
  <2> QED BY <2>1, <2>2, <2>3, <2>4 DEF LocTypeOK
<1>5. NeverOversleeps
  <2> SUFFICES ASSUME looper.at = "sleep", ~rung, user.at = "idle", "failed" \notin mixed,
                      NEW c \in StreamChats, stream[c].until > 0
               PROVE  /\ looper.wake <= MaxOf({stream[c].until, tick}) + looper.lag
                      /\ IsSendingToChat(c) /\ (\E t \in Recorded : t >= stream[c].begin /\ t > stream[c].last) =>
                           looper.wake <= MaxOf({stream[c].last + Gap + 1, tick}) + looper.lag
    BY DEF NeverOversleeps
  <2>1. PICK n \in Int : n = looper.wake - looper.lag BY <1>3
  <2>2. Early(c, n) BY <2>1 DEF LoopInv, LoopSleeps, NoRing
  <2>3. PICK u \in Int : u = stream[c].until BY <1>2
  <2>4. PICK g \in Int : g = stream[c].last + Gap + 1 BY <1>1, <1>2
  <2>5. MaxOf({u, tick}) = (IF u <= tick THEN tick ELSE u) /\ MaxOf({g, tick}) = (IF g <= tick THEN tick ELSE g)
    BY <1>1, OfTwo
  <2>6. n <= MaxOf({u, tick}) BY <1>1, <2>2, <2>3, <2>5 DEF Early
  <2>7. IsSendingToChat(c) /\ Pending(c) => n <= MaxOf({g, tick}) BY <1>1, <2>2, <2>4, <2>5 DEF Early
  <2>8. MaxOf({u, tick}) \in Int /\ MaxOf({g, tick}) \in Int BY <1>1, <2>5
  <2>9. looper.wake <= MaxOf({u, tick}) + looper.lag BY <1>3, <2>1, <2>6, <2>8
  <2>10. IsSendingToChat(c) /\ Pending(c) => looper.wake <= MaxOf({g, tick}) + looper.lag BY <1>3, <2>1, <2>7, <2>8
  <2> QED BY <2>3, <2>4, <2>9, <2>10 DEF Pending
<1>6. StreamsAsAsked
  <2> SUFFICES ASSUME looper.at = "sleep", ~rung, user.at = "idle", NEW c \in StreamChats
               PROVE  /\ "failed" \notin mixed /\ tick + looper.lag < looper.wake => (stream[c].until > 0 => IsSendingToChat(c))
                      /\ "cut" \notin mixed => \A w \in windows : w.chat = c /\ tick + 1 < w.to => IsSendingToChat(c)
    BY DEF StreamsAsAsked
  <2>1. ASSUME "failed" \notin mixed, tick + looper.lag < looper.wake, stream[c].until > 0 PROVE IsSendingToChat(c)
    <3>1. PICK n \in Int : n = looper.wake - looper.lag BY <1>3
    <3>2. Early(c, n) BY <2>1, <3>1 DEF LoopInv, LoopSleeps, NoRing
    <3>3. n <= stream[c].until \/ n <= tick BY <3>2 DEF Early
    <3> QED BY <1>1, <1>2, <1>3, <2>1, <3>1, <3>3 DEF IsSendingToChat
  <2>2. ASSUME "cut" \notin mixed, NEW w \in windows, w.chat = c, tick + 1 < w.to PROVE IsSendingToChat(c)
    <3>1. stream[c].until >= w.to /\ w.to \in Nat BY <2>2 DEF StreamInv, Wished, WindowTypes
    <3> QED BY <1>1, <1>2, <2>2, <3>1 DEF IsSendingToChat
  <2> QED BY <2>1, <2>2
<1>7. PoiWithMessage BY DEF PoiInv, PoisKnown, PoiKnown, PoiWithMessage
<1> QED BY <1>4, <1>5, <1>6, <1>7 DEF StreamInv

\* What a step remembers as sent it has sent.
Remembers ==
    \A c \in StreamChats : stream'[c].last # stream[c].last =>
       {t \in Recorded : t >= stream[c].begin /\ t > stream[c].last /\ t <= stream'[c].last}
         \subseteq mailsOut'[Len(mailsOut')].locs

\* Only mails change what is remembered.
LEMMA StepRemembers ==
    ASSUME LocInv, [LocNext]_locVars
    PROVE  Remembers
<1> USE DEF LocInv
<1>1. ASSUME \A c \in StreamChats : stream'[c].last = stream[c].last PROVE Remembers BY <1>1 DEF Remembers
<1>2. ASSUME NEW c \in StreamChats, MailsIn(c), UNCHANGED <<tick, path, windows>> PROVE Remembers
  BY <1>2, MailsInFacts DEF Remembers
<1>3. CASE UNCHANGED stream BY <1>1, <1>3
<1>4. CASE LocationLoop
  <2>1. CASE Wakes \/ SendingFails \/ SkipChat \/ Sleeps
    <3>1. UNCHANGED stream BY <2>1 DEF Wakes, SendingFails, SkipChat, Sleeps
    <3> QED BY <1>3, <3>1
  <2>2. CASE MaybeSend
    <3>1. looper.at = "run" /\ looper.rest # <<>> /\ UNCHANGED <<tick, path, windows>> /\ MailsIn(Current.chat)
      BY <2>2 DEF MaybeSend, Streaming
    <3>2. Current.chat \in StreamChats BY <3>1, CurrentFacts
    <3> QED BY <1>2, <3>1, <3>2
  <2>3. CASE Disable
    <3>1. stream' = [stream EXCEPT ![Current.chat].begin = 0, ![Current.chat].until = 0] BY <2>3 DEF Disable, Ends
    <3>2. \A c \in StreamChats : stream'[c].last = stream[c].last BY <3>1 DEF StreamInv, StreamTypes, StreamRow
    <3> QED BY <1>1, <3>2
  <2> QED BY <1>4, <2>1, <2>2, <2>3 DEF LocationLoop
<1>5. CASE Announce
  <2>1. user.chat \in StreamChats /\ MailsIn(user.chat) /\ UNCHANGED <<tick, path, windows>>
    BY <1>5 DEF Announce, LoopInv, LoopTypes
  <2> QED BY <1>2, <2>1
<1>6. CASE StopSending
  <2>1. stream' = [c \in StreamChats |-> IF IsSendingToChat(c) THEN [stream[c] EXCEPT !.begin = 0, !.until = 0]
                                         ELSE stream[c]]
    BY <1>6 DEF StopSending
  <2>2. \A c \in StreamChats : stream'[c].last = stream[c].last BY <2>1 DEF StreamInv, StreamTypes, StreamRow
  <2> QED BY <1>1, <2>2
<1>7. ASSUME NEW c \in StreamChats, SendAny(c) PROVE Remembers
  <2>1. MailsIn(c) /\ UNCHANGED <<tick, path, windows>> BY <1>7 DEF SendAny
  <2> QED BY <1>2, <2>1
<1>8. ASSUME NEW c \in StreamChats, NEW s \in {0, 2}, SendToChat(c, s) PROVE Remembers
  <2>1. stream' = [stream EXCEPT ![c].begin = IF s = 0 THEN 0 ELSE tick, ![c].until = IF s = 0 THEN 0 ELSE tick + s]
    BY <1>8 DEF SendToChat
  <2>2. \A d \in StreamChats : stream'[d].last = stream[d].last BY <2>1 DEF StreamInv, StreamTypes, StreamRow
  <2> QED BY <1>1, <2>2
<1>9. CASE Ring \/ SetPosition \/ NewPoi \/ PoiHousekeeping \/ DeleteExpired \/ Ticks \/ LocDies \/ LocDone
           \/ UNCHANGED locVars
  <2>1. UNCHANGED stream
    BY <1>9 DEF Ring, SetPosition, NewPoi, PoiHousekeeping, DeleteExpired, Ticks, LocDies, LocDone, locVars
  <2> QED BY <1>3, <2>1
<1>10. ASSUME NEW i \in DOMAIN mailsOut, ReceiveKml(i) PROVE Remembers
  <2>1. UNCHANGED stream BY <1>10 DEF ReceiveKml
  <2> QED BY <1>3, <2>1
<1>11. ASSUME NEW i \in DOMAIN posts, LinkPoi(i) \/ DeletePoi(i) \/ TrashPost(i) \/ ExpirePost(i) PROVE Remembers
  <2>1. UNCHANGED stream BY <1>11 DEF LinkPoi, DeletePoi, TrashPost, ExpirePost
  <2> QED BY <1>3, <2>1
<1> QED BY <1>4, <1>5, <1>6, <1>7, <1>8, <1>9, <1>10, <1>11 DEF LocNext

\* A chat is sent only locations of the time the user streamed into it, the loop never oversleeps, what was asked for
\* is on and what is over is off, a second is stored once, a point of interest stays with its message, and
\* nothing is remembered as sent that was not: for every number of chats, every gap, however long it runs.
THEOREM LocationsSound == LocSpec => LocationsSafe
<1>1. LocInit => LocInv BY LocStart
<1>2. LocInv /\ [LocNext]_locVars => LocInv' BY LocStep
<1>3. LocInv => LocTypeOK /\ OnlyWhileAsked /\ NeverOversleeps /\ StreamsAsAsked /\ NoneTwice /\ PoiWithMessage
  BY LocPromises
<1>4. LocInv /\ [LocNext]_locVars => [Remembers]_locVars BY StepRemembers
<1>5. SentBeforeRemembered <=> [][Remembers]_locVars BY DEF SentBeforeRemembered, Remembers
<1>6. LocSpec => []LocInv BY <1>1, <1>2, PTL DEF LocSpec
<1>7. LocSpec => [][Remembers]_locVars BY <1>4, <1>6, PTL DEF LocSpec
<1> QED BY <1>3, <1>5, <1>6, <1>7, PTL DEF LocationsSafe

(***************************************************************************)
(* Joining: the inductive invariant.                                       *)
(***************************************************************************)

\* What the variables hold.
TokenRows == [tok : Nat, ts : Nat]
CodeNumbers == [inv : Nat, auth : Nat]
SyncItems == [what : {"add", "delete", "block", "members"}, code : CodeNumbers, ts : Nat]
JoinSteps == {"request", "request-pubkey", "request-with-auth", "contact-confirm", "member-added"}
JoinMails == [step : JoinSteps, code : CodeNumbers]
CodesKnown ==
    /\ joinCase \in JoinCases /\ IsFiniteSet(codes) /\ Cardinality(codes) <= joinCase.codes /\ withdrawn \subseteq codes
    /\ codes \subseteq [inv : 1..Cardinality(codes), auth : 1..Cardinality(codes)]
    /\ \A b, c \in codes : b.auth = c.auth => b = c
    /\ joinClock \in 0..joinCase.ticks
TokenKnown(r) == r.tok >= 1 /\ r.tok <= Cardinality(codes) /\ r.ts <= joinClock
TokensKnown ==
    /\ tokens \in [Hosts -> [inv : Seq(TokenRows), auth : Seq(TokenRows)]]
    /\ \A d \in Hosts : /\ \A i \in DOMAIN tokens[d].auth : TokenKnown(tokens[d].auth[i])
                        /\ \A i \in DOMAIN tokens[d].inv : TokenKnown(tokens[d].inv[i])
                        /\ \A i, j \in DOMAIN tokens[d].inv : tokens[d].inv[i].tok = tokens[d].inv[j].tok => i = j
ItemKnown(s) ==
    /\ s.ts <= joinClock
    /\ s.what = "add" => /\ s.code.inv >= 1 /\ s.code.inv <= Cardinality(codes)
                         /\ s.code.auth >= 1 /\ s.code.auth <= Cardinality(codes)
SyncKnown ==
    /\ syncing \in [Hosts -> Seq(SyncItems)]
    /\ \A d \in Hosts : \A i \in DOMAIN syncing[d] : ItemKnown(syncing[d][i])
JoinerKnown ==
    joiner \in [key : BOOLEAN, rows : SUBSET codes, scanning : codes \cup {NoCode}, forgetting : codes \cup {NoCode},
                joined : BOOLEAN, asked : SUBSET codes]
GuestsKnown ==
    /\ guest \in [Hosts -> [verified : BOOLEAN, blocked : BOOLEAN, member : BOOLEAN]]
    /\ hostBox \in [Hosts -> SUBSET JoinMails] /\ missed \in BOOLEAN

\* A code that was withdrawn: a device that takes it, or will once it hears of it, hears of the withdrawal after
\* that, and of one that is not older.
Adds(s, t) == s.what = "add" /\ s.code.auth = t
Untaken(c, d) ==
    /\ \A i \in DOMAIN tokens[d].auth : tokens[d].auth[i].tok # c.auth
    /\ \A i \in DOMAIN syncing[d] : ~Adds(syncing[d][i], c.auth)
Dropped(c, d, k) ==
    /\ syncing[d][k].what = "delete" /\ syncing[d][k].code = c
    /\ \A i \in DOMAIN tokens[d].auth : tokens[d].auth[i].tok = c.auth => tokens[d].auth[i].ts <= syncing[d][k].ts
    /\ \A i \in DOMAIN syncing[d] : Adds(syncing[d][i], c.auth) => i < k /\ syncing[d][i].ts <= syncing[d][k].ts
Cleared(c, d) == Untaken(c, d) \/ \E k \in DOMAIN syncing[d] : Dropped(c, d, k)
WithdrawnCleared == \A c \in withdrawn, d \in Hosts : Cleared(c, d)

\* Whom one device lets in the other hears of.
AddedMail == [step |-> "member-added", code |-> NoCode]
TellsOf(d) == AddedMail \in hostBox[d] \/ \E i \in DOMAIN syncing[d] : syncing[d][i].what = "members"
GuestsTold ==
    \A d \in Hosts : /\ TellsOf(d) => guest[Other(d)].member
                     /\ joinCase.kind # "contact" /\ guest[Other(d)].member => guest[d].member \/ AddedMail \in hostBox[d]
\* What such a mail says, and where contacts are confirmed
MailsMarked ==
    \A d \in Hosts : \A m \in hostBox[d] : /\ m.step = "member-added" => m = AddedMail
                                           /\ m.step = "contact-confirm" => joinCase.kind = "contact"

CodeInv == CodesKnown /\ TokensKnown /\ SyncKnown /\ WithdrawnCleared
GuestInv == GuestsKnown /\ GuestsTold /\ MailsMarked
JoinInv == CodeInv /\ JoinerKnown /\ GuestInv

-----------------------------------------------------------------------------
(* The token table and the items on their way *)

\* The other device
LEMMA OtherFacts ==
    /\ \A d \in Hosts : Other(d) \in Hosts /\ Other(d) # d /\ Other(Other(d)) = d
    /\ \A d, e \in Hosts : e = d \/ e = Other(d)
<1>1. Other("d1") = "d2" /\ Other("d2") = "d1" BY DEF Other, Hosts
<1> QED BY <1>1 DEF Hosts

\* A token is stored once.
LEMMA SaveTokenFacts ==
    ASSUME NEW old \in Seq(TokenRows), NEW t \in Nat, NEW ts \in Nat, NEW s, s = SaveToken(old, t, ts)
    PROVE  /\ s \in Seq(TokenRows)
           /\ \A i \in 1..Len(s) : (i \in 1..Len(old) /\ s[i] = old[i]) \/ (s[i].tok = t /\ s[i].ts = ts)
           /\ \E i \in 1..Len(s) : LookupToken(s) = s[i].tok
           /\ ~HasToken(old, t) => LookupToken(s) = t
<1>1. PICK n \in Nat : n = Len(old) /\ DOMAIN old = 1..n OBVIOUS
<1>2. CASE HasToken(old, t)
  <2>1. s = old BY <1>2 DEF SaveToken
  <2>2. n >= 1 BY <1>1, <1>2 DEF HasToken
  <2>3. n \in 1..Len(s) /\ LookupToken(s) = s[n].tok BY <1>1, <2>1, <2>2 DEF LookupToken, Last
  <2> QED BY <1>2, <2>1, <2>3
<1>3. CASE ~HasToken(old, t)
  <2>1. s = Append(old, [tok |-> t, ts |-> ts]) BY <1>3 DEF SaveToken
  <2>2. [tok |-> t, ts |-> ts] \in TokenRows BY DEF TokenRows
  <2>3. /\ s \in Seq(TokenRows) /\ Len(s) = n + 1 /\ DOMAIN s = 1..(n + 1)
        /\ \A i \in 1..n : s[i] = old[i]
        /\ s[n + 1] = [tok |-> t, ts |-> ts]
    BY <1>1, <2>1, <2>2
  <2>4. LookupToken(s) = t /\ n + 1 \in 1..Len(s) /\ s[n + 1].tok = t BY <1>1, <2>3 DEF LookupToken, Last
  <2>5. \A i \in 1..(n + 1) : i \in 1..n \/ i = n + 1 OBVIOUS
  <2>6. \A i \in 1..Len(s) : (i \in 1..Len(old) /\ s[i] = old[i]) \/ (s[i].tok = t /\ s[i].ts = ts) BY <1>1, <2>3, <2>5
  <2> QED BY <2>3, <2>4, <2>6
<1> QED BY <1>2, <1>3

\* Of rows that differ it makes rows that differ.
LEMMA SaveTokenOnce ==
    ASSUME NEW old \in Seq(TokenRows), NEW t \in Nat, NEW ts \in Nat, NEW s, s = SaveToken(old, t, ts),
           \A i, j \in DOMAIN old : old[i].tok = old[j].tok => i = j
    PROVE  \A i, j \in DOMAIN s : s[i].tok = s[j].tok => i = j
<1>1. PICK n \in Nat : n = Len(old) /\ DOMAIN old = 1..n OBVIOUS
<1>2. CASE HasToken(old, t) BY <1>2 DEF SaveToken
<1>3. CASE ~HasToken(old, t)
  <2>1. s = Append(old, [tok |-> t, ts |-> ts]) BY <1>3 DEF SaveToken
  <2>2. [tok |-> t, ts |-> ts] \in TokenRows BY DEF TokenRows
  <2>3. /\ DOMAIN s = 1..(n + 1) /\ \A i \in 1..n : s[i] = old[i]
        /\ s[n + 1] = [tok |-> t, ts |-> ts]
    BY <1>1, <2>1, <2>2
  <2>4. \A i \in 1..(n + 1) : i \in 1..n \/ i = n + 1 OBVIOUS
  <2>5. \A i \in 1..n : s[i].tok = old[i].tok /\ old[i].tok # t BY <1>1, <1>3, <2>3 DEF HasToken
  <2>6. s[n + 1].tok = t BY <2>3
  <2> QED BY <1>1, <2>3, <2>4, <2>5, <2>6
<1> QED BY <1>2, <1>3

\* The rows of the tables
LEMMA TableFacts ==
    ASSUME TokensKnown, NEW d \in Hosts
    PROVE  /\ tokens[d] \in [inv : Seq(TokenRows), auth : Seq(TokenRows)]
           /\ tokens[d].auth \in Seq(TokenRows) /\ tokens[d].inv \in Seq(TokenRows)
           /\ \A i \in DOMAIN tokens[d].auth : tokens[d].auth[i] \in TokenRows
           /\ \A i \in DOMAIN tokens[d].inv : tokens[d].inv[i] \in TokenRows
<1>1. /\ tokens[d] \in [inv : Seq(TokenRows), auth : Seq(TokenRows)]
      /\ tokens[d].auth \in Seq(TokenRows) /\ tokens[d].inv \in Seq(TokenRows)
  BY DEF TokensKnown
<1>2. DOMAIN tokens[d].auth = 1..Len(tokens[d].auth) /\ DOMAIN tokens[d].inv = 1..Len(tokens[d].inv) BY <1>1
<1> QED BY <1>1, <1>2, ElementOfSeq

\* The items
LEMMA ItemFacts ==
    ASSUME SyncKnown, NEW d \in Hosts
    PROVE  /\ syncing[d] \in Seq(SyncItems) /\ DOMAIN syncing[d] = 1..Len(syncing[d]) /\ Len(syncing[d]) \in Nat
           /\ \A i \in DOMAIN syncing[d] : syncing[d][i] \in SyncItems
<1>1. syncing[d] \in Seq(SyncItems) BY DEF SyncKnown
<1>2. DOMAIN syncing[d] = 1..Len(syncing[d]) /\ Len(syncing[d]) \in Nat BY <1>1
<1> QED BY <1>1, <1>2, ElementOfSeq

\* A step after which no fewer codes and no earlier clock
Later == /\ Cardinality(codes) \in Nat /\ Cardinality(codes') \in Nat /\ Cardinality(codes) <= Cardinality(codes')
         /\ joinClock \in Nat /\ joinClock' \in Nat /\ joinClock <= joinClock'

\* What was known still is.
LEMMA RowsStayKnown ==
    ASSUME Later, NEW r \in TokenRows, TokenKnown(r)
    PROVE  TokenKnown(r)'
BY DEF Later, TokenKnown, TokenRows
LEMMA ItemsStayKnown ==
    ASSUME Later, NEW s \in SyncItems, ItemKnown(s)
    PROVE  ItemKnown(s)'
<1>1. s.ts \in Nat /\ s.code \in CodeNumbers BY DEF SyncItems
<1>2. s.code.inv \in Nat /\ s.code.auth \in Nat BY <1>1 DEF CodeNumbers
<1> QED BY <1>1, <1>2 DEF Later, ItemKnown
LEMMA TokensStayKnown ==
    ASSUME TokensKnown, Later, UNCHANGED tokens
    PROVE  TokensKnown'
<1>1. ASSUME NEW d \in Hosts
      PROVE  /\ \A i \in DOMAIN tokens[d].auth : TokenKnown(tokens[d].auth[i])'
             /\ \A i \in DOMAIN tokens[d].inv : TokenKnown(tokens[d].inv[i])'
  <2>1. /\ \A i \in DOMAIN tokens[d].auth : tokens[d].auth[i] \in TokenRows
        /\ \A i \in DOMAIN tokens[d].inv : tokens[d].inv[i] \in TokenRows
    BY TableFacts
  <2>2. ASSUME NEW i \in DOMAIN tokens[d].auth PROVE TokenKnown(tokens[d].auth[i])'
    <3>1. PICK r \in TokenRows : r = tokens[d].auth[i] BY <2>1
    <3>2. TokenKnown(r)' BY <3>1, RowsStayKnown DEF TokensKnown
    <3> QED BY <3>1, <3>2 DEF TokenKnown
  <2>3. ASSUME NEW i \in DOMAIN tokens[d].inv PROVE TokenKnown(tokens[d].inv[i])'
    <3>1. PICK r \in TokenRows : r = tokens[d].inv[i] BY <2>1
    <3>2. TokenKnown(r)' BY <3>1, RowsStayKnown DEF TokensKnown
    <3> QED BY <3>1, <3>2 DEF TokenKnown
  <2> QED BY <2>2, <2>3
<1> QED BY <1>1 DEF TokensKnown

\* What is stored is what was, and one token.
SavedRows(new, old, t, ts) ==
    \A i \in DOMAIN new : (i \in DOMAIN old /\ new[i] = old[i]) \/ (new[i].tok = t /\ new[i].ts = ts)

\* A code is saved.
LEMMA SaveFacts ==
    ASSUME TokensKnown, Later, NEW d \in Hosts, NEW c \in CodeNumbers, NEW ts \in Nat,
           NEW table, table = Save(tokens[d], c, ts), tokens' = [tokens EXCEPT ![d] = table], ts <= joinClock',
           c.inv >= 1, c.inv <= Cardinality(codes'), c.auth >= 1, c.auth <= Cardinality(codes')
    PROVE  /\ TokensKnown'
           /\ \A f \in Hosts \ {d} : tokens'[f] = tokens[f]
           /\ SavedRows(tokens'[d].auth, tokens[d].auth, c.auth, ts)
<1>1. c.inv \in Nat /\ c.auth \in Nat BY DEF CodeNumbers
<1>2. tokens[d].auth \in Seq(TokenRows) /\ tokens[d].inv \in Seq(TokenRows) BY TableFacts
<1>3. PICK a : a = SaveToken(tokens[d].auth, c.auth, ts) OBVIOUS
<1>4. PICK v : v = SaveToken(tokens[d].inv, c.inv, ts) OBVIOUS
<1>5. tokens' = [tokens EXCEPT ![d] = [inv |-> v, auth |-> a]] BY <1>3, <1>4 DEF Save
<1>6. /\ a \in Seq(TokenRows)
      /\ \A i \in DOMAIN a : \/ i \in DOMAIN tokens[d].auth /\ a[i] = tokens[d].auth[i]
                             \/ a[i].tok = c.auth /\ a[i].ts = ts
  <2>1. PICK old \in Seq(TokenRows) : old = tokens[d].auth BY <1>2
  <2>2. PICK t \in Nat : t = c.auth BY <1>1
  <2>3. a = SaveToken(old, t, ts) BY <1>3, <2>1, <2>2
  <2>4. a \in Seq(TokenRows) BY ONLY <2>3, SaveTokenFacts
  <2>5. \A i \in 1..Len(a) : (i \in 1..Len(old) /\ a[i] = old[i]) \/ (a[i].tok = t /\ a[i].ts = ts)
    BY ONLY <2>3, SaveTokenFacts
  <2> QED BY <2>1, <2>2, <2>4, <2>5
<1>7. /\ v \in Seq(TokenRows)
      /\ \A i \in DOMAIN v : \/ i \in DOMAIN tokens[d].inv /\ v[i] = tokens[d].inv[i]
                             \/ v[i].tok = c.inv /\ v[i].ts = ts
      /\ \A i, j \in DOMAIN v : v[i].tok = v[j].tok => i = j
  <2>1. \A i, j \in DOMAIN tokens[d].inv : tokens[d].inv[i].tok = tokens[d].inv[j].tok => i = j BY DEF TokensKnown
  <2>2. \A i, j \in DOMAIN v : v[i].tok = v[j].tok => i = j BY <1>1, <1>2, <1>4, <2>1, SaveTokenOnce
  <2>3. PICK old \in Seq(TokenRows) : old = tokens[d].inv BY <1>2
  <2>4. PICK t \in Nat : t = c.inv BY <1>1
  <2>5. v = SaveToken(old, t, ts) BY <1>4, <2>3, <2>4
  <2>6. v \in Seq(TokenRows) BY ONLY <2>5, SaveTokenFacts
  <2>7. \A i \in 1..Len(v) : (i \in 1..Len(old) /\ v[i] = old[i]) \/ (v[i].tok = t /\ v[i].ts = ts)
    BY ONLY <2>5, SaveTokenFacts
  <2> QED BY <2>2, <2>3, <2>4, <2>6, <2>7
<1>8. /\ tokens' \in [Hosts -> [inv : Seq(TokenRows), auth : Seq(TokenRows)]]
      /\ tokens'[d].auth = a /\ tokens'[d].inv = v
      /\ \A f \in Hosts \ {d} : tokens'[f] = tokens[f]
  <2>1. [inv |-> v, auth |-> a] \in [inv : Seq(TokenRows), auth : Seq(TokenRows)] BY <1>6, <1>7
  <2>2. tokens \in [Hosts -> [inv : Seq(TokenRows), auth : Seq(TokenRows)]] BY DEF TokensKnown
  <2> QED BY <1>5, <2>1, <2>2
<1>9. \A f \in Hosts : /\ \A i \in DOMAIN tokens[f].auth : TokenKnown(tokens[f].auth[i]) /\ tokens[f].auth[i] \in TokenRows
                       /\ \A i \in DOMAIN tokens[f].inv : TokenKnown(tokens[f].inv[i]) /\ tokens[f].inv[i] \in TokenRows
  BY TableFacts DEF TokensKnown
<1>10. ASSUME NEW x \in TokenRows, TokenKnown(x) \/ (x.tok = c.auth /\ x.ts = ts) \/ (x.tok = c.inv /\ x.ts = ts)
       PROVE  TokenKnown(x)'
  <2>1. CASE TokenKnown(x) BY <2>1, RowsStayKnown
  <2>2. CASE x.tok = c.auth /\ x.ts = ts BY <2>2 DEF TokenKnown
  <2>3. CASE x.tok = c.inv /\ x.ts = ts BY <2>3 DEF TokenKnown
  <2> QED BY <1>10, <2>1, <2>2, <2>3
<1>11. /\ \A f \in Hosts : \A i \in DOMAIN tokens'[f].auth : \E x \in TokenRows : x = tokens'[f].auth[i] /\ TokenKnown(x)'
       /\ \A f \in Hosts : \A i \in DOMAIN tokens'[f].inv : \E x \in TokenRows : x = tokens'[f].inv[i] /\ TokenKnown(x)'
  <2>1. /\ \A i \in DOMAIN a : a[i] \in TokenRows /\ (TokenKnown(a[i]) \/ (a[i].tok = c.auth /\ a[i].ts = ts))
        /\ \A i \in DOMAIN v : v[i] \in TokenRows /\ (TokenKnown(v[i]) \/ (v[i].tok = c.inv /\ v[i].ts = ts))
    <3>1. DOMAIN a = 1..Len(a) /\ DOMAIN v = 1..Len(v) BY <1>6, <1>7
    <3>2. (\A i \in DOMAIN a : a[i] \in TokenRows) /\ (\A i \in DOMAIN v : v[i] \in TokenRows)
      BY <1>6, <1>7, <3>1, ElementOfSeq
    <3> QED BY <1>6, <1>7, <1>9, <3>2
  <2>2. ASSUME NEW f \in Hosts, NEW i \in DOMAIN tokens'[f].auth
        PROVE  \E x \in TokenRows : x = tokens'[f].auth[i] /\ TokenKnown(x)'
    <3>1. PICK x : x = tokens'[f].auth[i] OBVIOUS
    <3>2. x \in TokenRows /\ (TokenKnown(x) \/ (x.tok = c.auth /\ x.ts = ts))
      <4>1. CASE f = d BY <1>8, <2>1, <2>2, <3>1, <4>1
      <4>2. CASE f # d BY <1>8, <1>9, <2>2, <3>1, <4>2
      <4> QED BY <4>1, <4>2
    <3>3. TokenKnown(x)' BY <1>10, <3>2
    <3> QED BY <3>1, <3>2, <3>3
  <2>3. ASSUME NEW f \in Hosts, NEW i \in DOMAIN tokens'[f].inv
        PROVE  \E x \in TokenRows : x = tokens'[f].inv[i] /\ TokenKnown(x)'
    <3>1. PICK x : x = tokens'[f].inv[i] OBVIOUS
    <3>2. x \in TokenRows /\ (TokenKnown(x) \/ (x.tok = c.inv /\ x.ts = ts))
      <4>1. CASE f = d BY <1>8, <2>1, <2>3, <3>1, <4>1
      <4>2. CASE f # d BY <1>8, <1>9, <2>3, <3>1, <4>2
      <4> QED BY <4>1, <4>2
    <3>3. TokenKnown(x)' BY <1>10, <3>2
    <3> QED BY <3>1, <3>2, <3>3
  <2> QED BY <2>2, <2>3
<1>12. \A f \in Hosts : \A i, j \in DOMAIN tokens'[f].inv : tokens'[f].inv[i].tok = tokens'[f].inv[j].tok => i = j
  BY <1>7, <1>8 DEF TokensKnown
<1>13. TokensKnown'
  <2>1. ASSUME NEW f \in Hosts, NEW i \in DOMAIN tokens'[f].auth PROVE TokenKnown(tokens[f].auth[i])'
    <3>1. PICK x \in TokenRows : x = tokens'[f].auth[i] /\ TokenKnown(x)' BY <1>11
    <3> QED BY <3>1 DEF TokenKnown
  <2>2. ASSUME NEW f \in Hosts, NEW i \in DOMAIN tokens'[f].inv PROVE TokenKnown(tokens[f].inv[i])'
    <3>1. PICK x \in TokenRows : x = tokens'[f].inv[i] /\ TokenKnown(x)' BY <1>11
    <3> QED BY <3>1 DEF TokenKnown
  <2> QED BY <1>8, <1>12, <2>1, <2>2 DEF TokensKnown
<1>14. SavedRows(tokens'[d].auth, tokens[d].auth, c.auth, ts) BY <1>6, <1>8 DEF SavedRows
<1> QED BY <1>8, <1>13, <1>14

\* A table is emptied.
LEMMA EmptyFacts ==
    ASSUME TokensKnown, Later, NEW d \in Hosts, tokens' = [tokens EXCEPT ![d] = EmptyTokens]
    PROVE  /\ TokensKnown'
           /\ \A f \in Hosts \ {d} : tokens'[f] = tokens[f]
           /\ DOMAIN tokens'[d].auth = {}
<1>1. tokens \in [Hosts -> [inv : Seq(TokenRows), auth : Seq(TokenRows)]] BY DEF TokensKnown
<1>2. EmptyTokens \in [inv : Seq(TokenRows), auth : Seq(TokenRows)] /\ EmptyTokens.inv = <<>> /\ EmptyTokens.auth = <<>>
  BY DEF EmptyTokens
<1>3. /\ tokens' \in [Hosts -> [inv : Seq(TokenRows), auth : Seq(TokenRows)]] /\ tokens'[d] = EmptyTokens
      /\ \A f \in Hosts \ {d} : tokens'[f] = tokens[f]
  BY <1>1, <1>2
<1>4. ASSUME NEW f \in Hosts, f # d
      PROVE  /\ \A i \in DOMAIN tokens[f].auth : TokenKnown(tokens[f].auth[i])'
             /\ \A i \in DOMAIN tokens[f].inv : TokenKnown(tokens[f].inv[i])'
  <2>1. /\ \A i \in DOMAIN tokens[f].auth : tokens[f].auth[i] \in TokenRows /\ TokenKnown(tokens[f].auth[i])
        /\ \A i \in DOMAIN tokens[f].inv : tokens[f].inv[i] \in TokenRows /\ TokenKnown(tokens[f].inv[i])
    BY TableFacts DEF TokensKnown
  <2>2. ASSUME NEW i \in DOMAIN tokens[f].auth PROVE TokenKnown(tokens[f].auth[i])'
    <3>1. PICK r \in TokenRows : r = tokens[f].auth[i] BY <2>1
    <3>2. TokenKnown(r)' BY <2>1, <3>1, RowsStayKnown
    <3>3. tokens'[f].auth[i] = r BY <1>3, <1>4, <3>1
    <3> QED BY <3>2, <3>3 DEF TokenKnown
  <2>3. ASSUME NEW i \in DOMAIN tokens[f].inv PROVE TokenKnown(tokens[f].inv[i])'
    <3>1. PICK r \in TokenRows : r = tokens[f].inv[i] BY <2>1
    <3>2. TokenKnown(r)' BY <2>1, <3>1, RowsStayKnown
    <3>3. tokens'[f].inv[i] = r BY <1>3, <1>4, <3>1
    <3> QED BY <3>2, <3>3 DEF TokenKnown
  <2> QED BY <2>2, <2>3
<1>5. DOMAIN tokens'[d].inv = {} /\ DOMAIN tokens'[d].auth = {} BY <1>2, <1>3
<1>6. TokensKnown' BY <1>3, <1>4, <1>5 DEF TokensKnown
<1> QED BY <1>3, <1>5, <1>6

\* An item is sent.
LEMMA SentFacts ==
    ASSUME SyncKnown, NEW e \in Hosts, NEW it \in SyncItems, syncing' = [syncing EXCEPT ![e] = Append(@, it)]
    PROVE  /\ syncing' \in [Hosts -> Seq(SyncItems)]
           /\ \A f \in Hosts \ {e} : syncing'[f] = syncing[f]
           /\ \A i \in DOMAIN syncing'[e] :
                \/ i \in DOMAIN syncing[e] /\ syncing'[e][i] = syncing[e][i]
                \/ i = Len(syncing[e]) + 1 /\ syncing'[e][i] = it
           /\ \A i \in DOMAIN syncing[e] : i \in DOMAIN syncing'[e] /\ syncing'[e][i] = syncing[e][i] /\ i < Len(syncing[e]) + 1
           /\ Len(syncing[e]) + 1 \in DOMAIN syncing'[e] /\ syncing'[e][Len(syncing[e]) + 1] = it
<1>1. syncing \in [Hosts -> Seq(SyncItems)] BY DEF SyncKnown
<1>2. syncing[e] \in Seq(SyncItems) /\ DOMAIN syncing[e] = 1..Len(syncing[e]) /\ Len(syncing[e]) \in Nat BY ItemFacts
<1>3. PICK q : q = Append(syncing[e], it) OBVIOUS
<1>4. /\ q \in Seq(SyncItems) /\ DOMAIN q = 1..(Len(syncing[e]) + 1)
      /\ \A i \in 1..Len(syncing[e]) : q[i] = syncing[e][i]
      /\ q[Len(syncing[e]) + 1] = it
  BY <1>2, <1>3
<1>5. syncing' \in [Hosts -> Seq(SyncItems)] /\ syncing'[e] = q /\ \A f \in Hosts \ {e} : syncing'[f] = syncing[f]
  BY <1>1, <1>3, <1>4
<1>6. \A i \in DOMAIN q : i \in DOMAIN syncing[e] \/ i = Len(syncing[e]) + 1 BY <1>2, <1>4
<1>7. \A i \in DOMAIN q : (i \in DOMAIN syncing[e] /\ q[i] = syncing[e][i]) \/ (i = Len(syncing[e]) + 1 /\ q[i] = it)
  BY <1>2, <1>4, <1>6
<1>8. \A i \in DOMAIN syncing[e] : i \in DOMAIN q /\ q[i] = syncing[e][i] /\ i < Len(syncing[e]) + 1 BY <1>2, <1>4
<1>9. Len(syncing[e]) + 1 \in DOMAIN q BY <1>2, <1>4
<1> QED BY <1>4, <1>5, <1>7, <1>8, <1>9

-----------------------------------------------------------------------------
(* Codes that were withdrawn *)

\* What a device takes of the code it took before, and no new item brings it: it stays cleared.
LEMMA ClearedStays ==
    ASSUME SyncKnown, NEW c, NEW d \in Hosts, NEW e \in Hosts, NEW it \in SyncItems, Cleared(c, d),
           syncing' = [syncing EXCEPT ![e] = Append(@, it)], d = e => ~Adds(it, c.auth),
           \A i \in DOMAIN tokens'[d].auth : tokens'[d].auth[i].tok = c.auth =>
             i \in DOMAIN tokens[d].auth /\ tokens'[d].auth[i] = tokens[d].auth[i]
    PROVE  Cleared(c, d)'
<1>1. /\ \A f \in Hosts \ {e} : syncing'[f] = syncing[f]
      /\ \A i \in DOMAIN syncing'[e] : \/ i \in DOMAIN syncing[e] /\ syncing'[e][i] = syncing[e][i]
                                       \/ i = Len(syncing[e]) + 1 /\ syncing'[e][i] = it
      /\ \A i \in DOMAIN syncing[e] : i \in DOMAIN syncing'[e] /\ syncing'[e][i] = syncing[e][i]
  BY SentFacts
<1>2. \A i \in DOMAIN syncing'[d] : Adds(syncing'[d][i], c.auth) => i \in DOMAIN syncing[d] /\ syncing'[d][i] = syncing[d][i]
  BY <1>1
<1>3. \A i \in DOMAIN syncing[d] : i \in DOMAIN syncing'[d] /\ syncing'[d][i] = syncing[d][i] BY <1>1
<1>4. CASE Untaken(c, d)
  <2>1. \A i \in DOMAIN tokens'[d].auth : tokens'[d].auth[i].tok # c.auth BY <1>4 DEF Untaken
  <2>2. \A i \in DOMAIN syncing'[d] : ~Adds(syncing'[d][i], c.auth) BY <1>2, <1>4 DEF Untaken
  <2>3. Untaken(c, d)' BY <2>1, <2>2 DEF Untaken, Adds
  <2> QED BY <2>3 DEF Cleared
<1>5. ASSUME NEW k \in DOMAIN syncing[d], Dropped(c, d, k) PROVE Cleared(c, d)'
  <2>1. k \in DOMAIN syncing'[d] /\ syncing'[d][k] = syncing[d][k] BY <1>3
  <2>2. \A i \in DOMAIN tokens'[d].auth : tokens'[d].auth[i].tok = c.auth => tokens'[d].auth[i].ts <= syncing'[d][k].ts
    BY <1>5, <2>1 DEF Dropped
  <2>3. \A i \in DOMAIN syncing'[d] : Adds(syncing'[d][i], c.auth) => i < k /\ syncing'[d][i].ts <= syncing'[d][k].ts
    BY <1>2, <1>5, <2>1 DEF Dropped
  <2>4. syncing'[d][k].what = "delete" /\ syncing'[d][k].code = c BY <1>5, <2>1 DEF Dropped
  <2>5. Dropped(c, d, k)' BY <2>2, <2>3, <2>4 DEF Dropped, Adds
  <2> QED BY <2>1, <2>5 DEF Cleared
<1> QED BY <1>4, <1>5 DEF Cleared

\* The device that hears of the withdrawal last
LEMMA ClearedAnew ==
    ASSUME SyncKnown, TokensKnown, joinClock \in Nat, NEW c, NEW d \in Hosts, NEW it \in SyncItems,
           it.what = "delete", it.code = c, it.ts = joinClock,
           syncing' = [syncing EXCEPT ![d] = Append(@, it)],
           \A i \in DOMAIN tokens'[d].auth : i \in DOMAIN tokens[d].auth /\ tokens'[d].auth[i] = tokens[d].auth[i]
    PROVE  Cleared(c, d)'
<1>1. /\ \A i \in DOMAIN syncing'[d] : \/ i \in DOMAIN syncing[d] /\ syncing'[d][i] = syncing[d][i]
                                       \/ i = Len(syncing[d]) + 1 /\ syncing'[d][i] = it
      /\ \A i \in DOMAIN syncing[d] : i < Len(syncing[d]) + 1
      /\ Len(syncing[d]) + 1 \in DOMAIN syncing'[d] /\ syncing'[d][Len(syncing[d]) + 1] = it
  BY SentFacts
<1>2. PICK k : k = Len(syncing[d]) + 1 OBVIOUS
<1>3. \A i \in DOMAIN tokens[d].auth : tokens[d].auth[i].ts <= it.ts BY DEF TokensKnown, TokenKnown
<1>4. \A i \in DOMAIN syncing[d] : syncing[d][i].ts <= it.ts BY DEF SyncKnown, ItemKnown
<1>5. ~Adds(it, c.auth) BY DEF Adds
<1>6. \A i \in DOMAIN syncing'[d] : Adds(syncing'[d][i], c.auth) => i < k /\ syncing'[d][i].ts <= syncing'[d][k].ts
  BY <1>1, <1>2, <1>4, <1>5
<1>7. \A i \in DOMAIN tokens'[d].auth : tokens'[d].auth[i].ts <= syncing'[d][k].ts BY <1>1, <1>2, <1>3
<1>8. syncing'[d][k].what = "delete" /\ syncing'[d][k].code = c /\ k \in DOMAIN syncing'[d] BY <1>1, <1>2
<1>9. Dropped(c, d, k)' BY <1>6, <1>7, <1>8 DEF Dropped, Adds
<1> QED BY <1>8, <1>9 DEF Cleared

\* What is sent is known.
LEMMA SyncStaysKnown ==
    ASSUME SyncKnown, Later, NEW e \in Hosts, NEW it \in SyncItems, syncing' = [syncing EXCEPT ![e] = Append(@, it)],
           ItemKnown(it)'
    PROVE  SyncKnown'
<1>1. /\ syncing' \in [Hosts -> Seq(SyncItems)] /\ \A f \in Hosts \ {e} : syncing'[f] = syncing[f]
      /\ \A i \in DOMAIN syncing'[e] : \/ i \in DOMAIN syncing[e] /\ syncing'[e][i] = syncing[e][i]
                                       \/ i = Len(syncing[e]) + 1 /\ syncing'[e][i] = it
  BY SentFacts
<1>2. ASSUME NEW f \in Hosts, NEW i \in DOMAIN syncing'[f] PROVE ItemKnown(syncing[f][i])'
  <2>1. CASE i \in DOMAIN syncing[f] /\ syncing'[f][i] = syncing[f][i]
    <3>1. PICK s \in SyncItems : s = syncing[f][i] BY <2>1, ItemFacts
    <3>2. ItemKnown(s) BY <2>1, <3>1 DEF SyncKnown
    <3>3. ItemKnown(s)' BY <3>2, ItemsStayKnown
    <3>4. syncing'[f][i] = s BY <2>1, <3>1
    <3> QED BY <3>3, <3>4 DEF ItemKnown
  <2>2. CASE f = e /\ syncing'[f][i] = it BY <2>2 DEF ItemKnown
  <2> QED BY <1>1, <1>2, <2>1, <2>2
<1> QED BY <1>1, <1>2 DEF SyncKnown
LEMMA SyncUntouched ==
    ASSUME SyncKnown, Later, UNCHANGED syncing
    PROVE  SyncKnown'
<1>1. ASSUME NEW f \in Hosts, NEW i \in DOMAIN syncing[f] PROVE ItemKnown(syncing[f][i])'
  <2>1. PICK s \in SyncItems : s = syncing[f][i] BY <1>1, ItemFacts
  <2>2. ItemKnown(s) BY <2>1 DEF SyncKnown
  <2>3. ItemKnown(s)' BY <2>2, ItemsStayKnown
  <2> QED BY <2>1, <2>3 DEF ItemKnown
<1> QED BY <1>1 DEF SyncKnown

\* The numbers of the codes
LEMMA CodeFacts ==
    ASSUME CodesKnown
    PROVE  /\ Cardinality(codes) \in Nat /\ joinClock \in Nat /\ joinCase.codes \in Nat /\ joinCase.ticks \in Nat
           /\ \A c \in codes : c \in CodeNumbers /\ c.inv \in 1..Cardinality(codes) /\ c.auth \in 1..Cardinality(codes)
<1>1. IsFiniteSet(codes) BY DEF CodesKnown
<1>2. Cardinality(codes) \in Nat BY <1>1, FS_CardinalityType
<1>3. joinCase.codes \in Nat /\ joinCase.ticks \in Nat BY JoinAssumption DEF CodesKnown
<1>4. \A c \in codes : c \in CodeNumbers /\ c.inv \in 1..Cardinality(codes) /\ c.auth \in 1..Cardinality(codes)
  BY <1>2 DEF CodesKnown, CodeNumbers
<1> QED BY <1>2, <1>3, <1>4 DEF CodesKnown

\* A code is shown, or revived: its token is stored and told.
LEMMA ShownTold ==
    ASSUME CodeInv, Later, NEW d \in Hosts, NEW c \in CodeNumbers, NEW table, table = Save(tokens[d], c, joinClock),
           tokens' = [tokens EXCEPT ![d] = table], syncing' = SyncQrCodeTokens(d, table), ~HasToken(tokens[d].auth, c.auth),
           c.inv >= 1, c.inv <= Cardinality(codes'), c.auth >= 1, c.auth <= Cardinality(codes'), UNCHANGED joinClock
    PROVE  /\ TokensKnown' /\ SyncKnown'
           /\ \A b \in withdrawn, f \in Hosts : b.auth # c.auth => Cleared(b, f)'
           /\ \E it \in SyncItems : it.what = "add" /\ syncing' = [syncing EXCEPT ![Other(d)] = Append(@, it)]
<1> USE DEF CodeInv
<1>1. joinClock \in Nat BY DEF Later
<1>2. /\ TokensKnown'
      /\ \A f \in Hosts : \A i \in DOMAIN tokens'[f].auth :
           \/ i \in DOMAIN tokens[f].auth /\ tokens'[f].auth[i] = tokens[f].auth[i]
           \/ f = d /\ tokens'[f].auth[i].tok = c.auth /\ tokens'[f].auth[i].ts = joinClock
  <2>1. PICK ts \in Nat : ts = joinClock BY <1>1
  <2>2. tokens' = [tokens EXCEPT ![d] = Save(tokens[d], c, ts)] /\ ts <= joinClock' BY <1>1, <2>1
  <2>3. TokensKnown /\ ts \in Nat /\ table = Save(tokens[d], c, ts) BY <2>1
  <2>4. /\ TokensKnown' /\ \A f \in Hosts \ {d} : tokens'[f] = tokens[f]
        /\ SavedRows(tokens'[d].auth, tokens[d].auth, c.auth, ts)
    BY <2>2, <2>3, SaveFacts
  <2>5. ASSUME NEW f \in Hosts, NEW i \in DOMAIN tokens'[f].auth
        PROVE  \/ i \in DOMAIN tokens[f].auth /\ tokens'[f].auth[i] = tokens[f].auth[i]
               \/ f = d /\ tokens'[f].auth[i].tok = c.auth /\ tokens'[f].auth[i].ts = ts
    <3>1. CASE f = d BY <2>4, <2>5, <3>1 DEF SavedRows
    <3>2. CASE f # d BY <2>4, <2>5, <3>2
    <3> QED BY <3>1, <3>2
  <2> QED BY <2>1, <2>4, <2>5
<1>3. tokens[d].auth \in Seq(TokenRows) /\ tokens[d].inv \in Seq(TokenRows) /\ c.auth \in Nat /\ c.inv \in Nat
  BY TableFacts DEF CodeNumbers
<1>4. PICK a : a = SaveToken(tokens[d].auth, c.auth, joinClock) OBVIOUS
<1>5. PICK v : v = SaveToken(tokens[d].inv, c.inv, joinClock) OBVIOUS
<1>6. table = [inv |-> v, auth |-> a] BY <1>4, <1>5 DEF Save
<1>7. LookupToken(a) = c.auth
  <2>1. PICK old \in Seq(TokenRows) : old = tokens[d].auth BY <1>3
  <2>2. PICK t \in Nat : t = c.auth BY <1>3
  <2>3. a = SaveToken(old, t, joinClock) /\ ~HasToken(old, t) BY <1>4, <2>1, <2>2
  <2>4. PICK ts \in Nat : ts = joinClock BY <1>1
  <2>5. a = SaveToken(old, t, ts) BY <2>3, <2>4
  <2>6. LookupToken(a) = t BY ONLY <2>3, <2>5, SaveTokenFacts
  <2> QED BY <2>2, <2>6
<1>8. LookupToken(v) \in 1..Cardinality(codes')
  <2>1. PICK old \in Seq(TokenRows) : old = tokens[d].inv BY <1>3
  <2>2. PICK t \in Nat : t = c.inv BY <1>3
  <2>3. v = SaveToken(old, t, joinClock) BY <1>5, <2>1, <2>2
  <2>4. v \in Seq(TokenRows) /\ \E i \in 1..Len(v) : LookupToken(v) = v[i].tok
    <3>1. PICK ts \in Nat : ts = joinClock BY <1>1
    <3>2. v = SaveToken(old, t, ts) BY <2>3, <3>1
    <3>3. v \in Seq(TokenRows) BY ONLY <3>2, SaveTokenFacts
    <3>4. \E i \in 1..Len(v) : LookupToken(v) = v[i].tok BY ONLY <3>2, SaveTokenFacts
    <3> QED BY <3>3, <3>4
  <2>5. tokens'[d].inv = v BY <1>6 DEF TokensKnown
  <2>6. PICK i \in DOMAIN tokens'[d].inv : LookupToken(v) = tokens'[d].inv[i].tok BY <2>4, <2>5
  <2>7. tokens'[d].inv[i].tok >= 1 /\ tokens'[d].inv[i].tok <= Cardinality(codes') BY <1>2 DEF TokensKnown, TokenKnown
  <2>8. tokens'[d].inv[i].tok \in Nat
    <3>1. tokens' \in [Hosts -> [inv : Seq(TokenRows), auth : Seq(TokenRows)]] BY <1>2 DEF TokensKnown
    <3>2. tokens'[d].inv \in Seq(TokenRows) BY <3>1
    <3>3. i \in 1..Len(tokens'[d].inv) BY <3>2, <2>6
    <3>4. tokens'[d].inv[i] \in TokenRows BY <3>2, <3>3, ElementOfSeq
    <3> QED BY <3>4 DEF TokenRows
  <2> QED BY <2>6, <2>7, <2>8 DEF Later
<1>9. PICK it : it = [what |-> "add", code |-> [inv |-> LookupToken(v), auth |-> c.auth], ts |-> joinClock] OBVIOUS
<1>10. syncing' = [syncing EXCEPT ![Other(d)] = Append(@, it)]
  <2>1. table.inv = v /\ table.auth = a BY <1>6
  <2>2. [what |-> "add", code |-> [inv |-> LookupToken(table.inv), auth |-> LookupToken(table.auth)], ts |-> joinClock] = it
    BY <1>7, <1>9, <2>1
  <2> QED BY <2>2 DEF SyncQrCodeTokens
<1>11. it \in SyncItems /\ it.what = "add" /\ it.code.auth = c.auth /\ it.ts = joinClock /\ it.code.inv = LookupToken(v)
  BY <1>1, <1>3, <1>8, <1>9 DEF SyncItems, CodeNumbers, Later
<1>12. Other(d) \in Hosts BY OtherFacts
<1>13. ItemKnown(it)' BY <1>1, <1>8, <1>11 DEF ItemKnown, Later
<1>14. SyncKnown' BY <1>10, <1>11, <1>12, <1>13, SyncStaysKnown
<1>15. ASSUME NEW b \in withdrawn, NEW f \in Hosts, b.auth # c.auth PROVE Cleared(b, f)'
  <2>1. Cleared(b, f) BY DEF WithdrawnCleared
  <2>2. ~Adds(it, b.auth) BY <1>11, <1>15 DEF Adds
  <2>3. \A i \in DOMAIN tokens'[f].auth : tokens'[f].auth[i].tok = b.auth =>
          i \in DOMAIN tokens[f].auth /\ tokens'[f].auth[i] = tokens[f].auth[i]
    BY <1>2, <1>15
  <2> QED BY <1>10, <1>11, <1>12, <2>1, <2>2, <2>3, ClearedStays
<1> QED BY <1>2, <1>10, <1>11, <1>14, <1>15

-----------------------------------------------------------------------------
(* The steps of the codes *)

\* What no step of the codes touches stays.
LEMMA CodesUntouched ==
    ASSUME CodeInv, UNCHANGED <<joinCase, codes, tokens, syncing, joinClock, withdrawn>>
    PROVE  CodeInv'
<1> USE DEF CodeInv
<1>1. CodesKnown' BY DEF CodesKnown
<1>2. TokensKnown' BY DEF TokensKnown, TokenKnown
<1>3. SyncKnown' BY DEF SyncKnown, ItemKnown
<1>4. WithdrawnCleared' BY DEF WithdrawnCleared, Cleared, Untaken, Dropped, Adds
<1> QED BY <1>1, <1>2, <1>3, <1>4

\* Time passes.
LEMMA CodesTick ==
    ASSUME CodeInv, JoinTick
    PROVE  CodeInv'
<1> USE DEF CodeInv
<1>1. CodesKnown' /\ Later
  <2>1. Cardinality(codes) \in Nat /\ joinClock \in Nat /\ joinCase.ticks \in Nat BY CodeFacts
  <2>2. joinClock < joinCase.ticks /\ joinClock' = joinClock + 1 /\ UNCHANGED <<joinCase, codes, withdrawn>> BY DEF JoinTick
  <2>3. joinClock' \in 0..joinCase'.ticks BY <2>1, <2>2
  <2> QED BY <2>1, <2>2, <2>3 DEF CodesKnown, Later
<1>2. UNCHANGED <<tokens, syncing, withdrawn>> BY DEF JoinTick
<1>3. TokensKnown' BY <1>1, <1>2, TokensStayKnown
<1>4. SyncKnown' BY <1>1, <1>2, SyncUntouched
<1>5. WithdrawnCleared' BY <1>2 DEF WithdrawnCleared, Cleared, Untaken, Dropped, Adds
<1> QED BY <1>1, <1>3, <1>4, <1>5

\* An item of no code is sent.
LEMMA CodesNotSent ==
    ASSUME CodeInv, UNCHANGED <<joinCase, codes, tokens, joinClock, withdrawn>>, NEW e \in Hosts, NEW w \in {"block", "members"},
           syncing' = [syncing EXCEPT ![e] = Append(@, [what |-> w, code |-> NoCode, ts |-> joinClock])]
    PROVE  CodeInv'
<1> USE DEF CodeInv
<1>1. CodesKnown' BY DEF CodesKnown
<1>2. TokensKnown' BY DEF TokensKnown, TokenKnown
<1>3. PICK it : it = [what |-> w, code |-> NoCode, ts |-> joinClock] OBVIOUS
<1>4. Later BY CodeFacts DEF Later
<1>5. it \in SyncItems /\ it.what \notin {"add", "delete"} /\ it.ts = joinClock BY <1>3, <1>4 DEF SyncItems, CodeNumbers, NoCode, Later
<1>6. syncing' = [syncing EXCEPT ![e] = Append(@, it)] BY <1>3
<1>7. ItemKnown(it)' BY <1>4, <1>5 DEF ItemKnown, Later
<1>8. SyncKnown' BY <1>4, <1>5, <1>6, <1>7, SyncStaysKnown
<1>9. ASSUME NEW c \in withdrawn, NEW d \in Hosts PROVE Cleared(c, d)'
  <2>1. Cleared(c, d) BY DEF WithdrawnCleared
  <2>2. ~Adds(it, c.auth) BY <1>5 DEF Adds
  <2>3. \A i \in DOMAIN tokens'[d].auth : tokens'[d].auth[i].tok = c.auth =>
          i \in DOMAIN tokens[d].auth /\ tokens'[d].auth[i] = tokens[d].auth[i]
    OBVIOUS
  <2> QED BY <1>5, <1>6, <2>1, <2>2, <2>3, ClearedStays
<1>10. WithdrawnCleared' BY <1>9 DEF WithdrawnCleared
<1> QED BY <1>1, <1>2, <1>8, <1>10

\* A code is shown: its auth token is new.
LEMMA CodesShown ==
    ASSUME CodeInv, NEW d \in Hosts, GetSecurejoinQr(d)
    PROVE  CodeInv' /\ codes \subseteq codes'
           /\ \E it \in SyncItems : it.what = "add" /\ syncing' = [syncing EXCEPT ![Other(d)] = Append(@, it)]
<1> USE DEF CodeInv
<1>1. /\ Cardinality(codes) \in Nat /\ joinClock \in Nat /\ joinCase.codes \in Nat
      /\ \A c \in codes : c \in CodeNumbers /\ c.inv \in 1..Cardinality(codes) /\ c.auth \in 1..Cardinality(codes)
  BY CodeFacts
<1>2. PICK n : n = Cardinality(codes) + 1 OBVIOUS
<1>3. PICK inv : inv = IF tokens[d].inv = <<>> THEN n ELSE LookupToken(tokens[d].inv) OBVIOUS
<1>4. PICK c : c = [inv |-> inv, auth |-> n] OBVIOUS
<1>5. PICK table : table = Save(tokens[d], c, joinClock) OBVIOUS
<1>6. /\ tokens' = [tokens EXCEPT ![d] = table] /\ codes' = codes \cup {c} /\ syncing' = SyncQrCodeTokens(d, table)
      /\ UNCHANGED <<joinCase, joinClock, withdrawn>> /\ Cardinality(codes) < joinCase.codes
  BY <1>2, <1>3, <1>4, <1>5 DEF GetSecurejoinQr
<1>7. inv \in 1..n
  <2>1. CASE tokens[d].inv = <<>> BY <1>1, <1>2, <1>3, <2>1
  <2>2. CASE tokens[d].inv # <<>>
    <3>1. PICK old \in Seq(TokenRows) : old = tokens[d].inv BY TableFacts
    <3>2. PICK k \in Nat : k = Len(old) OBVIOUS
    <3>3. k \in DOMAIN old BY <2>2, <3>1, <3>2
    <3>4. inv = old[k].tok BY <1>3, <2>2, <3>1, <3>2 DEF LookupToken, Last
    <3>5. old[k] \in TokenRows /\ TokenKnown(old[k]) BY <3>1, <3>3, TableFacts DEF TokensKnown
    <3> QED BY <1>1, <1>2, <3>4, <3>5 DEF TokenKnown, TokenRows
  <2> QED BY <2>1, <2>2
<1>8. c \in CodeNumbers /\ c.inv = inv /\ c.auth = n BY <1>1, <1>2, <1>4, <1>7 DEF CodeNumbers
<1>9. c \notin codes BY <1>1, <1>2, <1>8
<1>10. IsFiniteSet(codes') /\ Cardinality(codes') = n BY <1>2, <1>6, <1>9, FS_AddElement DEF CodesKnown
<1>11. Later BY <1>1, <1>2, <1>6, <1>10 DEF Later
<1>12. CodesKnown'
  <2>1. codes' \subseteq [inv : 1..n, auth : 1..n]
    <3>1. c \in [inv : 1..n, auth : 1..n] BY <1>1, <1>2, <1>4, <1>7
    <3>2. \A b \in codes : b \in [inv : 1..n, auth : 1..n] BY <1>1, <1>2 DEF CodesKnown
    <3> QED BY <1>6, <3>1, <3>2
  <2>2. \A a, b \in codes' : a.auth = b.auth => a = b
    <3>1. \A b \in codes : b.auth # n BY <1>1, <1>2
    <3>2. \A a, b \in codes : a.auth = b.auth => a = b BY DEF CodesKnown
    <3> QED BY <1>6, <1>8, <3>1, <3>2
  <2>3. n <= joinCase.codes BY <1>1, <1>2, <1>6
  <2> QED BY <1>6, <1>10, <2>1, <2>2, <2>3 DEF CodesKnown
<1>13. ~HasToken(tokens[d].auth, c.auth)
  <2>1. \A i \in DOMAIN tokens[d].auth : tokens[d].auth[i] \in TokenRows /\ TokenKnown(tokens[d].auth[i])
    BY TableFacts DEF TokensKnown
  <2> QED BY <1>1, <1>2, <1>8, <2>1 DEF HasToken, TokenKnown, TokenRows
<1>14. c.inv >= 1 /\ c.inv <= Cardinality(codes') /\ c.auth >= 1 /\ c.auth <= Cardinality(codes')
  BY <1>1, <1>2, <1>7, <1>8, <1>10
<1>15. /\ TokensKnown' /\ SyncKnown'
       /\ \A b \in withdrawn, f \in Hosts : b.auth # c.auth => Cleared(b, f)'
       /\ \E it \in SyncItems : it.what = "add" /\ syncing' = [syncing EXCEPT ![Other(d)] = Append(@, it)]
  <2>1. UNCHANGED joinClock BY <1>6
  <2> HIDE DEF CodeInv
  <2> QED BY <1>5, <1>6, <1>8, <1>11, <1>13, <1>14, <2>1, ShownTold
<1>16. \A b \in withdrawn : b.auth # c.auth BY <1>1, <1>2, <1>8 DEF CodesKnown
<1>17. WithdrawnCleared' BY <1>6, <1>15, <1>16 DEF WithdrawnCleared
<1> QED BY <1>6, <1>12, <1>15, <1>17

\* A code is revived.
LEMMA CodesRevived ==
    ASSUME CodeInv, NEW d \in Hosts, NEW c \in codes, ReviveQr(d, c)
    PROVE  CodeInv'
           /\ \E it \in SyncItems : it.what = "add" /\ syncing' = [syncing EXCEPT ![Other(d)] = Append(@, it)]
<1> USE DEF CodeInv
<1>1. /\ Cardinality(codes) \in Nat /\ joinClock \in Nat
      /\ c \in CodeNumbers /\ c.inv \in 1..Cardinality(codes) /\ c.auth \in 1..Cardinality(codes)
  BY CodeFacts
<1>2. PICK table : table = Save(tokens[d], c, joinClock) OBVIOUS
<1>3. /\ tokens' = [tokens EXCEPT ![d] = table] /\ syncing' = SyncQrCodeTokens(d, table)
      /\ UNCHANGED <<joinCase, codes, joinClock>> /\ withdrawn' = withdrawn \ {c} /\ ~HasToken(tokens[d].auth, c.auth)
  BY <1>2 DEF ReviveQr, OwnCodeGood
<1>4. Later BY <1>1, <1>3 DEF Later
<1>5. CodesKnown' BY <1>3 DEF CodesKnown
<1>6. c.inv >= 1 /\ c.inv <= Cardinality(codes') /\ c.auth >= 1 /\ c.auth <= Cardinality(codes') BY <1>1, <1>3
<1>7. /\ TokensKnown' /\ SyncKnown'
      /\ \A b \in withdrawn, f \in Hosts : b.auth # c.auth => Cleared(b, f)'
      /\ \E it \in SyncItems : it.what = "add" /\ syncing' = [syncing EXCEPT ![Other(d)] = Append(@, it)]
  <2>1. UNCHANGED joinClock BY <1>3
  <2> HIDE DEF CodeInv
  <2> QED BY <1>1, <1>2, <1>3, <1>4, <1>6, <2>1, ShownTold
<1>8. \A b \in withdrawn' : b \in withdrawn /\ b.auth # c.auth BY <1>3 DEF CodesKnown
<1>9. WithdrawnCleared' BY <1>7, <1>8 DEF WithdrawnCleared
<1> QED BY <1>5, <1>7, <1>9

\* A code is withdrawn.
LEMMA CodesWithdrawn ==
    ASSUME CodeInv, NEW d \in Hosts, NEW c \in codes, WithdrawQr(d, c)
    PROVE  CodeInv'
           /\ \E it \in SyncItems : it.what = "delete" /\ syncing' = [syncing EXCEPT ![Other(d)] = Append(@, it)]
<1> USE DEF CodeInv
<1>1. Cardinality(codes) \in Nat /\ joinClock \in Nat /\ c \in CodeNumbers BY CodeFacts
<1>2. PICK it : it = [what |-> "delete", code |-> c, ts |-> joinClock] OBVIOUS
<1>3. /\ tokens' = [tokens EXCEPT ![d] = EmptyTokens] /\ syncing' = [syncing EXCEPT ![Other(d)] = Append(@, it)]
      /\ UNCHANGED <<joinCase, codes, joinClock>> /\ withdrawn' = withdrawn \cup ({c} \ Arriving(d))
  BY <1>2 DEF WithdrawQr
<1>4. Later BY <1>1, <1>3 DEF Later
<1>5. it \in SyncItems /\ it.what = "delete" /\ it.code = c /\ it.ts = joinClock BY <1>1, <1>2 DEF SyncItems
<1>6. Other(d) \in Hosts /\ Other(d) # d BY OtherFacts
<1>7. CodesKnown' BY <1>3 DEF CodesKnown
<1>8. ItemKnown(it)' BY <1>1, <1>3, <1>5 DEF ItemKnown
<1>9. SyncKnown' BY <1>3, <1>4, <1>5, <1>6, <1>8, SyncStaysKnown
<1>10. TokensKnown' /\ (\A f \in Hosts \ {d} : tokens'[f] = tokens[f]) /\ DOMAIN tokens'[d].auth = {}
  BY <1>3, <1>4, EmptyFacts
<1>11. \A f \in Hosts : \A i \in DOMAIN tokens'[f].auth : i \in DOMAIN tokens[f].auth /\ tokens'[f].auth[i] = tokens[f].auth[i]
  BY <1>10
<1>12. ASSUME NEW b \in withdrawn, NEW f \in Hosts PROVE Cleared(b, f)'
  <2>1. Cleared(b, f) BY DEF WithdrawnCleared
  <2>2. ~Adds(it, b.auth) BY <1>5 DEF Adds
  <2>3. \A i \in DOMAIN tokens'[f].auth : tokens'[f].auth[i].tok = b.auth =>
          i \in DOMAIN tokens[f].auth /\ tokens'[f].auth[i] = tokens[f].auth[i]
    BY <1>11
  <2> QED BY <1>3, <1>5, <1>6, <2>1, <2>2, <2>3, ClearedStays
<1>13. Cleared(c, Other(d))'
  <2>1. PICK e \in Hosts : e = Other(d) BY <1>6
  <2>2. \A i \in DOMAIN tokens'[e].auth : i \in DOMAIN tokens[e].auth /\ tokens'[e].auth[i] = tokens[e].auth[i] BY <1>11
  <2>3. syncing' = [syncing EXCEPT ![e] = Append(@, it)] BY <1>3, <2>1
  <2>4. Cleared(c, e)' BY <1>1, <1>5, <2>2, <2>3, ClearedAnew
  <2> QED BY <2>1, <2>4
<1>14. c \notin Arriving(d) => Cleared(c, d)'
  <2> SUFFICES ASSUME c \notin Arriving(d) PROVE Cleared(c, d)' OBVIOUS
  <2>1. syncing'[d] = syncing[d] BY <1>3, <1>6 DEF SyncKnown
  <2>2. \A i \in DOMAIN syncing[d] : ~Adds(syncing[d][i], c.auth) BY DEF Arriving, Adds, Range
  <2>3. Untaken(c, d)' BY <1>10, <2>1, <2>2 DEF Untaken, Adds
  <2> QED BY <2>3 DEF Cleared
<1>15. ASSUME NEW b \in withdrawn', NEW f \in Hosts PROVE Cleared(b, f)'
  <2>1. CASE b \in withdrawn BY <1>12, <2>1
  <2>2. CASE b = c /\ c \notin Arriving(d)
    <3>1. f = d \/ f = Other(d) BY OtherFacts
    <3>2. CASE f = d BY <1>14, <2>2, <3>2
    <3>3. CASE f = Other(d) BY <1>13, <2>2, <3>3
    <3> QED BY <3>1, <3>2, <3>3
  <2> QED BY <1>3, <1>15, <2>1, <2>2
<1>16. WithdrawnCleared' BY <1>15 DEF WithdrawnCleared
<1> QED BY <1>3, <1>5, <1>7, <1>9, <1>10, <1>16

-----------------------------------------------------------------------------
(* An item is executed *)

\* The rest of the items
LEMMA RestFacts ==
    ASSUME SyncKnown, NEW d \in Hosts, syncing[d] # <<>>, syncing' = [syncing EXCEPT ![d] = Tail(@)]
    PROVE  /\ syncing' \in [Hosts -> Seq(SyncItems)]
           /\ \A f \in Hosts \ {d} : syncing'[f] = syncing[f]
           /\ Head(syncing[d]) = syncing[d][1] /\ 1 \in DOMAIN syncing[d]
           /\ \A i \in DOMAIN syncing'[d] : i \in Nat /\ i >= 1 /\ i + 1 \in DOMAIN syncing[d] /\ syncing'[d][i] = syncing[d][i + 1]
           /\ \A i \in DOMAIN syncing[d] : i \in Nat /\ i >= 1 /\ (i # 1 => i - 1 \in DOMAIN syncing'[d])
<1>1. syncing \in [Hosts -> Seq(SyncItems)] BY DEF SyncKnown
<1>2. PICK q \in Seq(SyncItems) : q = syncing[d] BY ItemFacts
<1>3. PICK n \in Nat : n = Len(q) OBVIOUS
<1>4. n >= 1 /\ DOMAIN q = 1..n BY <1>2, <1>3
<1>5. Head(q) = q[1] /\ 1 \in DOMAIN q BY <1>4
<1>6. /\ Tail(q) \in Seq(SyncItems) /\ DOMAIN Tail(q) = 1..(n - 1)
      /\ \A i \in 1..(n - 1) : Tail(q)[i] = q[i + 1]
  BY <1>2, <1>3, <1>4
<1>7. \A i \in 1..(n - 1) : i \in Nat /\ i >= 1 /\ i + 1 \in 1..n BY <1>4
<1>8. \A i \in 1..n : i \in Nat /\ i >= 1 /\ (i # 1 => i - 1 \in 1..(n - 1)) BY <1>4
<1>9. syncing' \in [Hosts -> Seq(SyncItems)] /\ syncing'[d] = Tail(q) /\ \A f \in Hosts \ {d} : syncing'[f] = syncing[f]
  BY <1>1, <1>2, <1>6
<1> QED BY <1>2, <1>4, <1>5, <1>6, <1>7, <1>8, <1>9

\* What the item leaves in the table: what was, and of an item that adds its token
TableAfter(d, it) ==
    \A i \in DOMAIN tokens'[d].auth :
      \/ i \in DOMAIN tokens[d].auth /\ tokens'[d].auth[i] = tokens[d].auth[i]
      \/ it.what = "add" /\ tokens'[d].auth[i].tok = it.code.auth /\ tokens'[d].auth[i].ts = it.ts

LEMMA ItemTakenTables ==
    ASSUME TokensKnown, SyncKnown, Later, NEW d \in Hosts, ExecuteSyncItem(d), NEW it \in SyncItems, it = Head(syncing[d]),
           ItemKnown(it), UNCHANGED <<codes, joinClock>>
    PROVE  /\ TokensKnown' /\ \A f \in Hosts \ {d} : tokens'[f] = tokens[f]
           /\ TableAfter(d, it)
           /\ it.what = "delete" => tokens'[d] = DeleteQrToken(tokens[d], it)
<1>1. tokens' = [tokens EXCEPT ![d] = CASE it.what = "add" -> AddQrToken(@, it)
                                       [] it.what = "delete" -> DeleteQrToken(@, it)
                                       [] OTHER -> @]
  BY DEF ExecuteSyncItem
<1>2. tokens \in [Hosts -> [inv : Seq(TokenRows), auth : Seq(TokenRows)]] BY DEF TokensKnown
<1>3. CASE it.what = "add"
  <2>1. PICK c \in CodeNumbers : c = it.code BY DEF SyncItems
  <2>2. PICK ts \in Nat : ts = it.ts BY DEF SyncItems
  <2>3. PICK table : table = Save(tokens[d], c, ts) OBVIOUS
  <2>4. tokens' = [tokens EXCEPT ![d] = table] BY <1>1, <1>3, <2>1, <2>2, <2>3 DEF AddQrToken
  <2>5. /\ ts <= joinClock' /\ c.inv >= 1 /\ c.inv <= Cardinality(codes') /\ c.auth >= 1 /\ c.auth <= Cardinality(codes')
    BY <1>3, <2>1, <2>2 DEF ItemKnown
  <2>6. /\ TokensKnown' /\ \A f \in Hosts \ {d} : tokens'[f] = tokens[f]
        /\ SavedRows(tokens'[d].auth, tokens[d].auth, c.auth, ts)
    BY <2>3, <2>4, <2>5, SaveFacts
  <2>7. TableAfter(d, it) BY <1>3, <2>1, <2>2, <2>6 DEF TableAfter, SavedRows
  <2> QED BY <1>3, <2>6, <2>7
<1>4. CASE it.what = "delete"
  <2>1. PICK table : table = DeleteQrToken(tokens[d], it) OBVIOUS
  <2>2. tokens' = [tokens EXCEPT ![d] = table] BY <1>1, <1>4, <2>1
  <2>3. table = EmptyTokens \/ table = tokens[d] BY <2>1 DEF DeleteQrToken
  <2>4. CASE table = EmptyTokens
    <3>1. /\ TokensKnown' /\ (\A f \in Hosts \ {d} : tokens'[f] = tokens[f]) /\ DOMAIN tokens'[d].auth = {}
      BY <2>2, <2>4, EmptyFacts
    <3> QED BY <1>2, <2>1, <2>2, <3>1 DEF TableAfter
  <2>5. CASE table = tokens[d]
    <3>1. tokens' = tokens BY <1>2, <2>2, <2>5
    <3>2. TokensKnown' BY <3>1, TokensStayKnown
    <3> QED BY <2>1, <2>5, <3>1, <3>2 DEF TableAfter
  <2> QED BY <2>3, <2>4, <2>5
<1>5. CASE it.what \notin {"add", "delete"}
  <2>1. tokens' = tokens BY <1>1, <1>2, <1>5
  <2>2. TokensKnown' BY <2>1, TokensStayKnown
  <2> QED BY <1>5, <2>1, <2>2 DEF TableAfter
<1> QED BY <1>3, <1>4, <1>5

\* A withdrawal that is heard of takes the token of the code away, if it is not newer.
LEMMA DeletedGone ==
    ASSUME NEW table, NEW it \in SyncItems, table.auth \in Seq(TokenRows), NEW new, new = DeleteQrToken(table, it),
           \A i \in DOMAIN table.auth : table.auth[i].tok = it.code.auth => table.auth[i].ts <= it.ts
    PROVE  \A i \in DOMAIN new.auth : new.auth[i].tok # it.code.auth
<1>1. CASE new = EmptyTokens
  <2>1. new.auth = <<>> BY <1>1 DEF EmptyTokens
  <2>2. DOMAIN new.auth = {} BY <2>1
  <2> QED BY <2>2
<1>2. CASE new # EmptyTokens
  <2>1. new = table /\ ~(HasToken(table.auth, it.code.auth) /\ TokenTime(table.auth, it.code.auth) <= it.ts)
    BY <1>2 DEF DeleteQrToken
  <2>2. CASE HasToken(table.auth, it.code.auth)
    <3>1. PICK i \in DOMAIN table.auth : table.auth[i].tok = it.code.auth BY <2>2 DEF HasToken
    <3>2. \E r \in Range(table.auth) : r.tok = it.code.auth BY <3>1 DEF Range
    <3>3. PICK r : r = CHOOSE x \in Range(table.auth) : x.tok = it.code.auth OBVIOUS
    <3>4. r \in Range(table.auth) /\ r.tok = it.code.auth BY <3>2, <3>3
    <3>5. PICK j \in DOMAIN table.auth : table.auth[j] = r BY <3>4 DEF Range
    <3>6. TokenTime(table.auth, it.code.auth) = r.ts BY <3>3 DEF TokenTime
    <3> QED BY <2>1, <2>2, <3>4, <3>5, <3>6
  <2>3. CASE ~HasToken(table.auth, it.code.auth) BY <2>1, <2>3 DEF HasToken
  <2> QED BY <2>2, <2>3
<1> QED BY <1>1, <1>2

\* A code that is withdrawn stays so.
LEMMA ItemTakenCleared ==
    ASSUME TokensKnown, SyncKnown, NEW d \in Hosts, NEW it \in SyncItems, it = Head(syncing[d]), syncing[d] # <<>>,
           syncing' = [syncing EXCEPT ![d] = Tail(@)], TableAfter(d, it),
           it.what = "delete" => tokens'[d] = DeleteQrToken(tokens[d], it), NEW c, Cleared(c, d)
    PROVE  Cleared(c, d)'
<1>1. /\ it = syncing[d][1] /\ 1 \in DOMAIN syncing[d]
      /\ \A i \in DOMAIN syncing'[d] : i \in Nat /\ i >= 1 /\ i + 1 \in DOMAIN syncing[d] /\ syncing'[d][i] = syncing[d][i + 1]
      /\ \A i \in DOMAIN syncing[d] : i \in Nat /\ i >= 1 /\ (i # 1 => i - 1 \in DOMAIN syncing'[d])
  BY RestFacts
<1>2. CASE Untaken(c, d)
  <2>1. ~Adds(it, c.auth) BY <1>1, <1>2 DEF Untaken
  <2>2. \A i \in DOMAIN tokens'[d].auth : tokens'[d].auth[i].tok # c.auth BY <1>2, <2>1 DEF Untaken, TableAfter, Adds
  <2>3. \A i \in DOMAIN syncing'[d] : ~Adds(syncing'[d][i], c.auth) BY <1>1, <1>2 DEF Untaken
  <2>4. Untaken(c, d)' BY <2>2, <2>3 DEF Untaken, Adds
  <2> QED BY <2>4 DEF Cleared
<1>3. ASSUME NEW k \in DOMAIN syncing[d], Dropped(c, d, k) PROVE Cleared(c, d)'
  <2>1. /\ syncing[d][k].what = "delete" /\ syncing[d][k].code = c
        /\ \A i \in DOMAIN tokens[d].auth : tokens[d].auth[i].tok = c.auth => tokens[d].auth[i].ts <= syncing[d][k].ts
        /\ \A i \in DOMAIN syncing[d] : Adds(syncing[d][i], c.auth) => i < k /\ syncing[d][i].ts <= syncing[d][k].ts
    BY <1>3 DEF Dropped
  <2>2. CASE k = 1
    <3>1. tokens'[d] = DeleteQrToken(tokens[d], it) /\ it.code = c BY <1>1, <2>1, <2>2
    <3>2. tokens[d].auth \in Seq(TokenRows) BY TableFacts
    <3>3. \A i \in DOMAIN tokens[d].auth : tokens[d].auth[i].tok = it.code.auth => tokens[d].auth[i].ts <= it.ts
      BY <1>1, <2>1, <2>2
    <3>4. \A i \in DOMAIN tokens'[d].auth : tokens'[d].auth[i].tok # it.code.auth BY <3>1, <3>2, <3>3, DeletedGone
    <3>5. ASSUME NEW i \in DOMAIN syncing'[d], Adds(syncing'[d][i], c.auth) PROVE FALSE
      <4>1. i \in Nat /\ i + 1 \in DOMAIN syncing[d] /\ syncing'[d][i] = syncing[d][i + 1] BY <1>1
      <4>2. i + 1 < 1 BY <2>1, <2>2, <3>5, <4>1
      <4> QED BY <4>1, <4>2
    <3>6. Untaken(c, d)' BY <3>1, <3>4, <3>5 DEF Untaken, Adds
    <3> QED BY <3>6 DEF Cleared
  <2>3. CASE k # 1
    <3>1. PICK j \in Nat : j = k - 1 /\ k = j + 1 /\ j \in DOMAIN syncing'[d] BY <1>1, <2>3
    <3>2. syncing'[d][j] = syncing[d][k] BY <1>1, <3>1
    <3>3. Adds(it, c.auth) => it.ts <= syncing[d][k].ts BY <1>1, <2>1
    <3>4. \A i \in DOMAIN tokens'[d].auth : tokens'[d].auth[i].tok = c.auth => tokens'[d].auth[i].ts <= syncing'[d][j].ts
      BY <2>1, <3>2, <3>3 DEF TableAfter, Adds
    <3>5. ASSUME NEW i \in DOMAIN syncing'[d], Adds(syncing'[d][i], c.auth) PROVE i < j /\ syncing'[d][i].ts <= syncing'[d][j].ts
      <4>1. i \in Nat /\ i + 1 \in DOMAIN syncing[d] /\ syncing'[d][i] = syncing[d][i + 1] BY <1>1
      <4>2. i + 1 < k /\ syncing[d][i + 1].ts <= syncing[d][k].ts BY <2>1, <3>5, <4>1
      <4> QED BY <3>1, <3>2, <4>1, <4>2
    <3>6. syncing'[d][j].what = "delete" /\ syncing'[d][j].code = c BY <2>1, <3>2
    <3>7. Dropped(c, d, j)' BY <3>4, <3>5, <3>6 DEF Dropped, Adds
    <3> QED BY <3>1, <3>7 DEF Cleared
  <2> QED BY <2>2, <2>3
<1> QED BY <1>2, <1>3 DEF Cleared

LEMMA CodesItemTaken ==
    ASSUME CodeInv, NEW d \in Hosts, ExecuteSyncItem(d)
    PROVE  CodeInv'
<1> USE DEF CodeInv
<1>1. /\ syncing[d] # <<>> /\ syncing' = [syncing EXCEPT ![d] = Tail(@)] /\ UNCHANGED <<joinCase, codes, joinClock, withdrawn>>
  BY DEF ExecuteSyncItem
<1>2. /\ syncing' \in [Hosts -> Seq(SyncItems)] /\ \A f \in Hosts \ {d} : syncing'[f] = syncing[f]
      /\ Head(syncing[d]) = syncing[d][1] /\ 1 \in DOMAIN syncing[d]
      /\ \A i \in DOMAIN syncing'[d] : i + 1 \in DOMAIN syncing[d] /\ syncing'[d][i] = syncing[d][i + 1]
  BY <1>1, RestFacts
<1>3. Later BY <1>1, CodeFacts DEF Later
<1>4. CodesKnown' BY <1>1 DEF CodesKnown
<1>5. ASSUME NEW f \in Hosts, NEW i \in DOMAIN syncing'[f] PROVE ItemKnown(syncing[f][i])'
  <2>1. PICK s : s = syncing'[f][i] OBVIOUS
  <2>2. s \in SyncItems /\ ItemKnown(s)
    <3>1. CASE f = d
      <4>1. PICK j \in DOMAIN syncing[d] : s = syncing[d][j] BY <1>2, <1>5, <2>1, <3>1
      <4> QED BY <4>1, ItemFacts DEF SyncKnown
    <3>2. CASE f # d
      <4>1. i \in DOMAIN syncing[f] /\ s = syncing[f][i] BY <1>2, <1>5, <2>1, <3>2
      <4> QED BY <4>1, ItemFacts DEF SyncKnown
    <3> QED BY <3>1, <3>2
  <2>3. ItemKnown(s)' BY <1>3, <2>2, ItemsStayKnown
  <2> QED BY <2>1, <2>3 DEF ItemKnown
<1>6. SyncKnown' BY <1>2, <1>5 DEF SyncKnown
<1>7. PICK it \in SyncItems : it = Head(syncing[d]) /\ ItemKnown(it) BY <1>2, ItemFacts DEF SyncKnown
<1>8. UNCHANGED <<codes, joinClock>> BY <1>1
<1>9. /\ TokensKnown' /\ \A f \in Hosts \ {d} : tokens'[f] = tokens[f]
      /\ TableAfter(d, it)
      /\ it.what = "delete" => tokens'[d] = DeleteQrToken(tokens[d], it)
  BY <1>3, <1>7, <1>8, ItemTakenTables
<1>10. ASSUME NEW c \in withdrawn, NEW f \in Hosts PROVE Cleared(c, f)'
  <2>1. Cleared(c, f) BY DEF WithdrawnCleared
  <2>2. CASE f = d BY <1>1, <1>7, <1>9, <2>1, <2>2, ItemTakenCleared
  <2>3. CASE f # d
    <3>1. tokens'[f] = tokens[f] /\ syncing'[f] = syncing[f] BY <1>2, <1>9, <2>3
    <3> QED BY <2>1, <3>1 DEF Cleared, Untaken, Dropped, Adds
  <2> QED BY <2>2, <2>3
<1>11. WithdrawnCleared' BY <1>1, <1>10 DEF WithdrawnCleared
<1> QED BY <1>4, <1>6, <1>9, <1>11

-----------------------------------------------------------------------------
(* The joiner, and whom the devices let in *)

\* A step that sends no word of members and takes no mail of them
LEMMA GuestsUntouched ==
    ASSUME GuestInv, UNCHANGED <<joinCase, guest, hostBox>>, missed' \in BOOLEAN,
           \A d \in Hosts : \A i \in DOMAIN syncing'[d] :
             syncing'[d][i].what = "members" => \E j \in DOMAIN syncing[d] : syncing[d][j].what = "members"
    PROVE  GuestInv'
<1> USE DEF GuestInv
<1>1. GuestsKnown' BY DEF GuestsKnown
<1>2. MailsMarked' BY DEF MailsMarked, AddedMail
<1>3. \A d \in Hosts : TellsOf(d)' => TellsOf(d) BY DEF TellsOf, AddedMail
<1>4. GuestsTold' BY <1>3 DEF GuestsTold, AddedMail
<1> QED BY <1>1, <1>2, <1>4

\* An item of a code is sent.
LEMMA GuestsCodeSent ==
    ASSUME GuestInv, SyncKnown, UNCHANGED <<joinCase, guest, hostBox, missed>>, NEW e \in Hosts, NEW it \in SyncItems,
           it.what # "members", syncing' = [syncing EXCEPT ![e] = Append(@, it)]
    PROVE  GuestInv'
<1>1. /\ \A f \in Hosts \ {e} : syncing'[f] = syncing[f]
      /\ \A i \in DOMAIN syncing'[e] : \/ i \in DOMAIN syncing[e] /\ syncing'[e][i] = syncing[e][i]
                                       \/ i = Len(syncing[e]) + 1 /\ syncing'[e][i] = it
  BY SentFacts
<1>2. \A d \in Hosts : \A i \in DOMAIN syncing'[d] :
        syncing'[d][i].what = "members" => \E j \in DOMAIN syncing[d] : syncing[d][j].what = "members"
  BY <1>1
<1>3. missed' \in BOOLEAN BY DEF GuestInv, GuestsKnown
<1> QED BY <1>2, <1>3, GuestsUntouched

\* The joiner writes to both devices.
LEMMA GuestsAsked ==
    ASSUME GuestInv, UNCHANGED <<joinCase, guest, syncing, missed>>, NEW c \in CodeNumbers, NEW step,
           step \in {"request", "request-with-auth"}, SendHandshakeMessage(c, step)
    PROVE  GuestInv'
<1> USE DEF GuestInv
<1>1. PICK m : m = [step |-> BobHandshakeMsg(step), code |-> c] OBVIOUS
<1>2. m \in JoinMails /\ m.step \notin {"member-added", "contact-confirm"} BY <1>1 DEF JoinMails, JoinSteps, BobHandshakeMsg
<1>3. hostBox' = [d \in Hosts |-> hostBox[d] \cup {m}] BY <1>1 DEF SendHandshakeMessage, ToHosts
<1>4. m # AddedMail BY <1>2 DEF AddedMail
<1>5. hostBox \in [Hosts -> SUBSET JoinMails] BY DEF GuestsKnown
<1>6. \A d \in Hosts : hostBox'[d] = hostBox[d] \cup {m} BY <1>3
<1>7. GuestsKnown'
  <2>1. hostBox' \in [Hosts -> SUBSET JoinMails] BY <1>2, <1>3, <1>5
  <2> QED BY <2>1 DEF GuestsKnown
<1>8. MailsMarked' BY <1>2, <1>6 DEF MailsMarked, AddedMail
<1>9. \A d \in Hosts : (AddedMail \in hostBox'[d]) <=> (AddedMail \in hostBox[d]) BY <1>4, <1>6
<1>10. \A d \in Hosts : TellsOf(d)' <=> TellsOf(d) BY <1>9 DEF TellsOf, AddedMail
<1>11. GuestsTold' BY <1>9, <1>10 DEF GuestsTold, AddedMail
<1> QED BY <1>7, <1>8, <1>11

\* A mail that tells of nobody is done with.
LEMMA GuestsHandled ==
    ASSUME GuestInv, UNCHANGED <<joinCase, syncing, missed>>, NEW d \in Hosts, NEW m \in hostBox[d], NEW deletes,
           m.step # "member-added", Handled(d, m, deletes),
           guest' \in [Hosts -> [verified : BOOLEAN, blocked : BOOLEAN, member : BOOLEAN]],
           \A e \in Hosts : guest'[e].member = guest[e].member
    PROVE  GuestInv'
<1> USE DEF GuestInv
<1>1. hostBox \in [Hosts -> SUBSET JoinMails] BY DEF GuestsKnown
<1>2. m # AddedMail BY DEF AddedMail
<1>3. \A e \in Hosts : hostBox'[e] \subseteq hostBox[e] /\ hostBox[e] \ {m} \subseteq hostBox'[e] BY <1>1 DEF Handled
<1>4. hostBox' \in [Hosts -> SUBSET JoinMails] BY <1>1 DEF Handled
<1>5. GuestsKnown' BY <1>4 DEF GuestsKnown
<1>6. MailsMarked' BY <1>3 DEF MailsMarked, AddedMail
<1>7. \A e \in Hosts : (AddedMail \in hostBox'[e]) <=> (AddedMail \in hostBox[e]) BY <1>2, <1>3
<1>8. \A e \in Hosts : TellsOf(e)' <=> TellsOf(e) BY <1>7 DEF TellsOf, AddedMail
<1>9. GuestsTold' BY <1>7, <1>8, OtherFacts DEF GuestsTold, AddedMail
<1> QED BY <1>5, <1>6, <1>9

\* The device d lets the joiner in, and tells the other.
LEMMA GuestsLetIn ==
    ASSUME GuestInv, SyncKnown, joinClock \in Nat, UNCHANGED <<joinCase, missed>>, NEW d \in Hosts, NEW m \in hostBox[d],
           m.step = "request-with-auth",
           NEW step \in {"contact-confirm", "member-added"}, NEW deletes \in BOOLEAN,
           step = IF joinCase.kind = "contact" THEN "contact-confirm" ELSE "member-added",
           hostBox' = Copied(d, step, m, deletes),
           guest' \in [Hosts -> [verified : BOOLEAN, blocked : BOOLEAN, member : BOOLEAN]],
           guest'[d].member = TRUE, guest'[Other(d)].member = guest[Other(d)].member,
           \/ UNCHANGED syncing
           \/ syncing' = [syncing EXCEPT ![Other(d)] = Append(@, [what |-> "members", code |-> NoCode, ts |-> joinClock])]
    PROVE  GuestInv'
<1> USE DEF GuestInv
<1>1. hostBox \in [Hosts -> SUBSET JoinMails] BY DEF GuestsKnown
<1>2. PICK e : e = Other(d) OBVIOUS
<1>3. e \in Hosts /\ e # d /\ Other(e) = d /\ \A f \in Hosts : f = d \/ f = e BY <1>2, OtherFacts
<1>4. PICK o : o = [step |-> step, code |-> NoCode] OBVIOUS
<1>5. o \in JoinMails /\ o.step = step BY <1>4 DEF JoinMails, JoinSteps, NoCode, CodeNumbers
<1>6. /\ hostBox' \in [Hosts -> SUBSET JoinMails]
      /\ hostBox'[d] = hostBox[d] \ {m}
      /\ hostBox'[e] \subseteq hostBox[e] \cup {o} /\ (hostBox[e] \ {m}) \cup {o} \subseteq hostBox'[e]
  <2>1. hostBox' = [f \in Hosts |-> IF f = d THEN hostBox[f] \ {m}
                                    ELSE (IF deletes THEN hostBox[f] \ {m} ELSE hostBox[f]) \cup {o}]
    BY <1>4 DEF Copied
  <2> QED BY <1>1, <1>3, <1>5, <2>1
<1>7. GuestsKnown' BY <1>6 DEF GuestsKnown
<1>8. MailsMarked'
  <2>1. \A x \in hostBox'[d] : x \in hostBox[d] BY <1>6
  <2>2. \A x \in hostBox'[e] : x \in hostBox[e] \/ x = o BY <1>6
  <2>3. (o.step = "member-added" => o = AddedMail) /\ (o.step = "contact-confirm" => joinCase.kind = "contact")
    BY <1>4, <1>5 DEF AddedMail
  <2>4. \A f \in Hosts : \A x \in hostBox'[f] : /\ x.step = "member-added" => x = AddedMail
                                                /\ x.step = "contact-confirm" => joinCase.kind = "contact"
    BY <1>3, <2>1, <2>2, <2>3 DEF MailsMarked
  <2> QED BY <2>4 DEF MailsMarked, AddedMail
<1>9. AddedMail \in hostBox'[d] <=> AddedMail \in hostBox[d]
  <2>1. m # AddedMail BY DEF AddedMail
  <2> QED BY <1>6, <2>1
<1>10. syncing'[d] = syncing[d] BY <1>2, <1>3 DEF SyncKnown
<1>11. TellsOf(d)' <=> TellsOf(d) BY <1>9, <1>10 DEF TellsOf, AddedMail
<1>12. TellsOf(d)' => guest'[e].member BY <1>2, <1>3, <1>11 DEF GuestsTold
<1>13. joinCase.kind # "contact" => AddedMail \in hostBox'[e] BY <1>4, <1>6 DEF AddedMail
<1>14. ASSUME NEW f \in Hosts
       PROVE  /\ TellsOf(f)' => guest'[Other(f)].member
              /\ joinCase.kind # "contact" /\ guest'[Other(f)].member => guest'[f].member \/ AddedMail \in hostBox'[f]
  <2>1. CASE f = d BY <1>2, <1>12, <2>1
  <2>2. CASE f = e BY <1>3, <1>13, <2>2
  <2> QED BY <1>3, <2>1, <2>2
<1>15. GuestsTold' BY <1>14 DEF GuestsTold, AddedMail
<1> QED BY <1>7, <1>8, <1>15

-----------------------------------------------------------------------------
(* The steps of the devices *)

\* A device hears of what its sibling did.
LEMMA GuestsItemTaken ==
    ASSUME GuestInv, SyncKnown, NEW d \in Hosts, ExecuteSyncItem(d)
    PROVE  /\ GuestInv'
           /\ \A e \in Hosts : (guest'[e].member = guest[e].member) \/ (e = d /\ guest[Other(d)].member)
<1> USE DEF GuestInv
<1>1. /\ syncing[d] # <<>> /\ syncing' = [syncing EXCEPT ![d] = Tail(@)] /\ UNCHANGED <<joinCase, hostBox, missed>>
  BY DEF ExecuteSyncItem
<1>2. /\ \A f \in Hosts \ {d} : syncing'[f] = syncing[f]
      /\ Head(syncing[d]) = syncing[d][1] /\ 1 \in DOMAIN syncing[d]
      /\ \A i \in DOMAIN syncing'[d] : i + 1 \in DOMAIN syncing[d] /\ syncing'[d][i] = syncing[d][i + 1]
  BY <1>1, RestFacts
<1>3. PICK it \in SyncItems : it = syncing[d][1] BY <1>2, ItemFacts
<1>4. guest' = CASE it.what = "block" -> [guest EXCEPT ![d].blocked = TRUE]
                 [] it.what = "members" -> [guest EXCEPT ![d].member = TRUE]
                 [] OTHER -> guest
  BY <1>2, <1>3 DEF ExecuteSyncItem
<1>5. \A e \in Hosts : TellsOf(e)' => TellsOf(e)
  <2>1. ASSUME NEW e \in Hosts, NEW i \in DOMAIN syncing'[e], syncing'[e][i].what = "members"
        PROVE  \E j \in DOMAIN syncing[e] : syncing[e][j].what = "members"
    <3>1. CASE e = d BY <1>2, <2>1, <3>1
    <3>2. CASE e # d BY <1>2, <2>1, <3>2
    <3> QED BY <3>1, <3>2
  <2> QED BY <1>1, <2>1 DEF TellsOf, AddedMail
<1>6. guest \in [Hosts -> [verified : BOOLEAN, blocked : BOOLEAN, member : BOOLEAN]] BY DEF GuestsKnown
<1>7. /\ guest' \in [Hosts -> [verified : BOOLEAN, blocked : BOOLEAN, member : BOOLEAN]]
      /\ \A e \in Hosts : \/ guest'[e].member = guest[e].member
                          \/ e = d /\ it.what = "members" /\ guest'[e].member = TRUE
  <2>1. CASE it.what = "block"
    <3>1. guest' = [guest EXCEPT ![d].blocked = TRUE] BY <1>4, <2>1
    <3> QED BY <1>6, <3>1
  <2>2. CASE it.what = "members"
    <3>1. guest' = [guest EXCEPT ![d].member = TRUE] BY <1>4, <2>2
    <3> QED BY <1>6, <2>2, <3>1
  <2>3. CASE it.what \notin {"block", "members"}
    <3>1. guest' = guest BY <1>4, <2>3
    <3> QED BY <1>6, <3>1
  <2> QED BY <2>1, <2>2, <2>3
<1>8. it.what = "members" => guest[Other(d)].member BY <1>2, <1>3 DEF GuestsTold, TellsOf
<1>9. GuestsKnown' BY <1>1, <1>7 DEF GuestsKnown
<1>10. MailsMarked' BY <1>1 DEF MailsMarked, AddedMail
<1>11. ASSUME NEW f \in Hosts
       PROVE  /\ TellsOf(f)' => guest'[Other(f)].member
              /\ joinCase.kind # "contact" /\ guest'[Other(f)].member => guest'[f].member \/ AddedMail \in hostBox[f]
  <2>1. f = d \/ f = Other(d) BY OtherFacts
  <2>2. Other(d) \in Hosts /\ Other(d) # d /\ Other(Other(d)) = d BY OtherFacts
  <2>3. guest[f].member => guest'[f].member BY <1>7
  <2>4. guest[Other(f)].member => guest'[Other(f)].member BY <1>7, <2>1, <2>2
  <2>5. TellsOf(f)' => guest'[Other(f)].member BY <1>5, <2>4 DEF GuestsTold
  <2>6. guest[Other(f)].member /\ joinCase.kind # "contact" => guest'[f].member \/ AddedMail \in hostBox[f] BY <2>3 DEF GuestsTold
  <2>7. ASSUME guest'[Other(f)].member, ~guest[Other(f)].member PROVE guest'[f].member
    <3>1. Other(f) = d /\ it.what = "members" BY <1>7, <2>1, <2>2, <2>7
    <3>2. f = Other(d) BY <2>1, <2>2, <3>1
    <3>3. guest[f].member BY <1>8, <3>1, <3>2
    <3> QED BY <2>3, <3>3
  <2> QED BY <2>5, <2>6, <2>7
<1>12. GuestsTold' BY <1>1, <1>11 DEF GuestsTold, AddedMail
<1>13. \A e \in Hosts : (guest'[e].member = guest[e].member) \/ (e = d /\ guest[Other(d)].member) BY <1>7, <1>8
<1> QED BY <1>9, <1>10, <1>12, <1>13

\* The other device sees the answer.
LEMMA GuestsObserved ==
    ASSUME GuestInv, NEW d \in Hosts, NEW m \in hostBox[d], ObserveSecurejoin(d, m)
    PROVE  /\ GuestInv'
           /\ \A e \in Hosts : \/ guest'[e].member = guest[e].member
                               \/ e = d /\ (guest[Other(d)].member \/ ~guest[d].blocked)
<1> USE DEF GuestInv
<1>1. /\ m.step \in {"contact-confirm", "member-added"} /\ hostBox' = [hostBox EXCEPT ![d] = @ \ {m}]
      /\ guest' = [guest EXCEPT ![d].verified = TRUE, ![d].member = @ \/ m.step = "member-added" \/ ~guest[d].blocked]
      /\ UNCHANGED <<joinCase, syncing, missed>>
  BY DEF ObserveSecurejoin
<1>2. /\ guest \in [Hosts -> [verified : BOOLEAN, blocked : BOOLEAN, member : BOOLEAN]]
      /\ hostBox \in [Hosts -> SUBSET JoinMails]
  BY DEF GuestsKnown
<1>3. hostBox' \in [Hosts -> SUBSET JoinMails] /\ hostBox'[d] = hostBox[d] \ {m} /\ \A e \in Hosts \ {d} : hostBox'[e] = hostBox[e]
  BY <1>1, <1>2
<1>4. PICK n \in BOOLEAN : n = (guest[d].member \/ m.step = "member-added" \/ ~guest[d].blocked) OBVIOUS
<1>5. /\ guest' \in [Hosts -> [verified : BOOLEAN, blocked : BOOLEAN, member : BOOLEAN]]
      /\ guest'[d].member = n /\ \A e \in Hosts \ {d} : guest'[e] = guest[e]
  <2>1. guest' = [guest EXCEPT ![d].verified = TRUE, ![d].member = n] BY <1>1, <1>4
  <2> QED BY <1>2, <2>1
<1>6. m.step = "member-added" => m = AddedMail /\ guest[Other(d)].member BY DEF MailsMarked, GuestsTold, TellsOf
<1>7. m.step = "contact-confirm" => m # AddedMail /\ joinCase.kind = "contact" BY DEF MailsMarked, AddedMail
<1>8. GuestsKnown' BY <1>1, <1>3, <1>5 DEF GuestsKnown
<1>9. \A e \in Hosts : hostBox'[e] \subseteq hostBox[e] BY <1>3
<1>10. MailsMarked' BY <1>1, <1>9 DEF MailsMarked, AddedMail
<1>11. \A e \in Hosts : TellsOf(e)' => TellsOf(e) BY <1>1, <1>9 DEF TellsOf, AddedMail
<1>12. ASSUME NEW f \in Hosts
       PROVE  /\ TellsOf(f)' => guest'[Other(f)].member
              /\ joinCase.kind # "contact" /\ guest'[Other(f)].member => guest'[f].member \/ AddedMail \in hostBox'[f]
  <2>1. f = d \/ f = Other(d) BY OtherFacts
  <2>2. Other(d) \in Hosts /\ Other(d) # d /\ Other(Other(d)) = d BY OtherFacts
  <2>3. \A e \in Hosts : guest[e].member => guest'[e].member
    <3>1. guest[d].member => guest'[d].member BY <1>4, <1>5
    <3> QED BY <1>5, <3>1
  <2>4. TellsOf(f)' => guest'[Other(f)].member BY <1>11, <2>1, <2>2, <2>3 DEF GuestsTold
  <2>5. CASE f = d
    <3>1. guest'[Other(f)] = guest[Other(f)] BY <1>5, <2>2, <2>5
    <3>2. CASE m.step = "member-added" BY <1>4, <1>5, <2>4, <2>5, <3>2
    <3>3. CASE m.step = "contact-confirm" BY <1>7, <2>4, <3>3
    <3> QED BY <1>1, <3>2, <3>3
  <2>6. CASE f = Other(d)
    <3>1. guest'[f] = guest[f] /\ hostBox'[f] = hostBox[f] BY <1>3, <1>5, <2>2, <2>6
    <3>2. CASE m.step = "member-added" BY <1>6, <2>4, <2>6, <3>1, <3>2
    <3>3. CASE m.step = "contact-confirm" BY <1>7, <2>4, <3>3
    <3> QED BY <1>1, <3>2, <3>3
  <2> QED BY <2>1, <2>5, <2>6
<1>13. GuestsTold' BY <1>1, <1>12 DEF GuestsTold, AddedMail
<1>14. \A e \in Hosts : \/ guest'[e].member = guest[e].member
                        \/ e = d /\ (guest[Other(d)].member \/ ~guest[d].blocked)
  <2>1. CASE m.step = "member-added" BY <1>5, <1>6, <2>1
  <2>2. CASE m.step = "contact-confirm"
    <3>1. guest[d].blocked => n = guest[d].member BY <1>2, <1>4, <2>2
    <3> QED BY <1>5, <3>1
  <2> QED BY <1>1, <2>1, <2>2
<1> QED BY <1>8, <1>10, <1>13, <1>14

\* The joiner proves with the auth token that the code was scanned.
LEMMA HostAnswers ==
    ASSUME GuestInv, CodeInv, NEW d \in Hosts, NEW m \in hostBox[d], RequestWithAuth(d, m)
    PROVE  /\ GuestInv' /\ CodeInv'
           /\ \A e \in Hosts : (guest'[e].member = guest[e].member) \/ (e = d /\ ~guest[d].blocked)
<1>1. /\ m.step = "request-with-auth" /\ UNCHANGED <<joinCase, tokens, codes, joinClock, withdrawn, missed>>
  BY DEF RequestWithAuth
<1>2. /\ guest \in [Hosts -> [verified : BOOLEAN, blocked : BOOLEAN, member : BOOLEAN]] /\ GuestsKnown /\ SyncKnown
  BY DEF GuestInv, GuestsKnown, CodeInv
<1>3. joinClock \in Nat BY CodeFacts DEF CodeInv
<1>4. Other(d) \in Hosts /\ Other(d) # d BY OtherFacts
<1>5. PICK g : g = IF Fresh(d, m.code.auth) THEN MarkContactIdAsVerified(d) ELSE guest OBVIOUS
<1>6. /\ g \in [Hosts -> [verified : BOOLEAN, blocked : BOOLEAN, member : BOOLEAN]]
      /\ \A e \in Hosts : g[e].member = guest[e].member
  BY <1>2, <1>5 DEF MarkContactIdAsVerified
<1>7. ASSUME guest' = [g EXCEPT ![d].member = TRUE]
      PROVE  /\ guest' \in [Hosts -> [verified : BOOLEAN, blocked : BOOLEAN, member : BOOLEAN]]
             /\ guest'[d].member = TRUE /\ \A e \in Hosts \ {d} : guest'[e].member = guest[e].member
  BY <1>6, <1>7
<1>8. CASE guest' = guest /\ Handled(d, m, FALSE) /\ UNCHANGED syncing
  <2>1. UNCHANGED <<joinCase, syncing, missed>> /\ m.step # "member-added" BY <1>1, <1>8
  <2>2. GuestInv' BY <1>2, <1>8, <2>1, GuestsHandled
  <2>3. UNCHANGED <<joinCase, codes, tokens, syncing, joinClock, withdrawn>> BY <1>1, <1>8
  <2> QED BY <1>8, <2>2, <2>3, CodesUntouched
<1>9. CASE guest' = g /\ Handled(d, m, FALSE) /\ UNCHANGED syncing
  <2>1. UNCHANGED <<joinCase, syncing, missed>> /\ m.step # "member-added" BY <1>1, <1>9
  <2>2. GuestInv' BY <1>6, <1>9, <2>1, GuestsHandled
  <2>3. UNCHANGED <<joinCase, codes, tokens, syncing, joinClock, withdrawn>> BY <1>1, <1>9
  <2> QED BY <1>6, <1>9, <2>2, <2>3, CodesUntouched
<1>10. CASE /\ ~guest[d].blocked /\ joinCase.kind = "contact" /\ guest' = [g EXCEPT ![d].member = TRUE]
            /\ hostBox' = Copied(d, "contact-confirm", m, FALSE) /\ UNCHANGED syncing
  <2>1. PICK step \in {"contact-confirm", "member-added"} : step = "contact-confirm" OBVIOUS
  <2>2. step = IF joinCase.kind = "contact" THEN "contact-confirm" ELSE "member-added" BY <1>10, <2>1
  <2>3. hostBox' = Copied(d, step, m, FALSE) /\ UNCHANGED <<joinCase, missed>> BY <1>1, <1>10, <2>1
  <2>4. guest'[Other(d)].member = guest[Other(d)].member BY <1>4, <1>7, <1>10
  <2>5. GuestInv' BY <1>1, <1>2, <1>3, <1>7, <1>10, <2>2, <2>3, <2>4, GuestsLetIn
  <2>6. UNCHANGED <<joinCase, codes, tokens, syncing, joinClock, withdrawn>> BY <1>1, <1>10
  <2> QED BY <1>7, <1>10, <2>5, <2>6, CodesUntouched
<1>11. CASE /\ ~guest[d].blocked /\ joinCase.kind # "contact" /\ guest' = [g EXCEPT ![d].member = TRUE]
            /\ \E deletes \in BOOLEAN : hostBox' = Copied(d, "member-added", m, deletes)
            /\ syncing' = IF joinCase.kind = "channel"
                          THEN [syncing EXCEPT ![Other(d)] = Append(@, [what |-> "members", code |-> NoCode, ts |-> joinClock])]
                          ELSE syncing
  <2>1. PICK step \in {"contact-confirm", "member-added"} : step = "member-added" OBVIOUS
  <2>2. step = IF joinCase.kind = "contact" THEN "contact-confirm" ELSE "member-added" BY <1>11, <2>1
  <2>3. PICK deletes \in BOOLEAN : hostBox' = Copied(d, step, m, deletes) BY <1>11, <2>1
  <2>4. UNCHANGED <<joinCase, missed>> BY <1>1
  <2>5. guest'[Other(d)].member = guest[Other(d)].member BY <1>4, <1>7, <1>11
  <2>6. \/ UNCHANGED syncing
        \/ syncing' = [syncing EXCEPT ![Other(d)] = Append(@, [what |-> "members", code |-> NoCode, ts |-> joinClock])]
    BY <1>11
  <2>7. GuestInv' BY <1>1, <1>2, <1>3, <1>7, <1>11, <2>2, <2>3, <2>4, <2>5, <2>6, GuestsLetIn
  <2>8. CodeInv'
    <3>1. CASE UNCHANGED syncing
      <4>1. UNCHANGED <<joinCase, codes, tokens, syncing, joinClock, withdrawn>> BY <1>1, <3>1
      <4> QED BY <4>1, CodesUntouched
    <3>2. CASE syncing' = [syncing EXCEPT ![Other(d)] = Append(@, [what |-> "members", code |-> NoCode, ts |-> joinClock])]
      <4>1. UNCHANGED <<joinCase, codes, tokens, joinClock, withdrawn>> BY <1>1
      <4>2. PICK e \in Hosts : e = Other(d) BY <1>4
      <4>3. PICK w \in {"block", "members"} : w = "members" OBVIOUS
      <4>4. syncing' = [syncing EXCEPT ![e] = Append(@, [what |-> w, code |-> NoCode, ts |-> joinClock])] BY <3>2, <4>2, <4>3
      <4> QED BY <4>1, <4>4, CodesNotSent
    <3> QED BY <2>6, <3>1, <3>2
  <2> QED BY <1>7, <1>11, <2>7, <2>8
<1> QED
  <2>1. CASE ~HasToken(tokens[d].auth, m.code.auth) /\ Handled(d, m, FALSE) /\ UNCHANGED <<guest, guestBox, syncing, presented>>
    BY <1>8, <2>1
  <2>2. CASE \/ guest[d].blocked /\ guest' = g /\ Handled(d, m, FALSE) /\ UNCHANGED <<guestBox, syncing>>
             \/ /\ ~guest[d].blocked /\ joinCase.kind = "contact" /\ guest' = [g EXCEPT ![d].member = TRUE]
                /\ hostBox' = Copied(d, "contact-confirm", m, FALSE) /\ UNCHANGED syncing
             \/ /\ ~guest[d].blocked /\ joinCase.kind # "contact" /\ guest' = [g EXCEPT ![d].member = TRUE]
                /\ \E deletes \in BOOLEAN : hostBox' = Copied(d, "member-added", m, deletes)
                /\ syncing' = IF joinCase.kind = "channel"
                              THEN [syncing EXCEPT ![Other(d)] = Append(@, [what |-> "members", code |-> NoCode, ts |-> joinClock])]
                              ELSE syncing
    BY <1>9, <1>10, <1>11, <2>2
  <2> QED BY <1>5, <2>1, <2>2 DEF RequestWithAuth

-----------------------------------------------------------------------------
(* Every step *)

\* What a step may not do: let in someone blocked, unless the sibling did.
NoneLetIn ==
    \A d \in Hosts : (guest[d].blocked /\ ~guest[d].member /\ guest'[d].member)
      => (guest[Other(d)].member /\ presented' = presented)

\* What the joiner does
LEMMA JoinerSteps ==
    ASSUME JoinInv, JoinerStep \/ JoinerDies \/ \E c \in codes : StartProtocol(c)
    PROVE  JoinInv' /\ NoneLetIn
<1> USE DEF JoinInv
<1>1. /\ joiner \in [key : BOOLEAN, rows : SUBSET codes, scanning : codes \cup {NoCode}, forgetting : codes \cup {NoCode},
                     joined : BOOLEAN, asked : SUBSET codes]
      /\ missed \in BOOLEAN
  BY DEF JoinerKnown, GuestInv, GuestsKnown
<1>2. \A c \in codes : c \in CodeNumbers BY CodeFacts DEF CodeInv
<1>3. ASSUME UNCHANGED <<joinCase, codes, tokens, syncing, joinClock, withdrawn, guest, hostBox>>, missed' \in BOOLEAN
      PROVE  CodeInv' /\ GuestInv' /\ NoneLetIn
  <2>1. CodeInv' BY <1>3, CodesUntouched
  <2>2. \A d \in Hosts : \A i \in DOMAIN syncing'[d] :
          syncing'[d][i].what = "members" => \E j \in DOMAIN syncing[d] : syncing[d][j].what = "members"
    BY <1>3
  <2>3. GuestInv' BY <1>3, <2>2, GuestsUntouched
  <2> QED BY <1>3, <2>1, <2>3 DEF NoneLetIn
<1>4. ASSUME UNCHANGED <<joinCase, codes, tokens, syncing, joinClock, withdrawn, guest, missed>>, NEW c \in codes,
             NEW step \in {"request", "request-with-auth"}, SendHandshakeMessage(c, step)
      PROVE  CodeInv' /\ GuestInv' /\ NoneLetIn
  <2>1. CodeInv' BY <1>4, CodesUntouched
  <2>2. GuestInv' BY <1>2, <1>4, GuestsAsked
  <2> QED BY <1>4, <2>1, <2>2 DEF NoneLetIn
<1>5. CASE InsertNewDbEntry
  <2>1. JoinerKnown' BY <1>1, <1>5 DEF InsertNewDbEntry, JoinerKnown
  <2> QED BY <1>1, <1>3, <1>5, <2>1 DEF InsertNewDbEntry
<1>6. CASE DeleteBobstate
  <2>1. JoinerKnown' BY <1>1, <1>6 DEF DeleteBobstate, JoinerKnown
  <2> QED BY <1>1, <1>3, <1>6, <2>1 DEF DeleteBobstate
<1>7. ASSUME NEW m \in guestBox, LeaveAuthRequired(m) PROVE JoinInv' /\ NoneLetIn
  <2>1. JoinerKnown' BY <1>1, <1>7 DEF LeaveAuthRequired, JoinerKnown
  <2>2. missed' \in BOOLEAN BY <1>1, <1>7 DEF LeaveAuthRequired
  <2> QED BY <1>3, <1>7, <2>1, <2>2 DEF LeaveAuthRequired
<1>8. ASSUME NEW m \in guestBox, JoinSucceeds(m) PROVE JoinInv' /\ NoneLetIn
  <2>1. JoinerKnown' BY <1>1, <1>8 DEF JoinSucceeds, JoinerKnown
  <2> QED BY <1>1, <1>3, <1>8, <2>1 DEF JoinSucceeds
<1>9. ASSUME NEW m \in guestBox, NEW c \in joiner.rows, AnswerAuthRequired(m, c) PROVE JoinInv' /\ NoneLetIn
  <2>1. c \in codes BY <1>1
  <2>2. JoinerKnown' BY <1>1, <1>9, <2>1 DEF AnswerAuthRequired, JoinerKnown
  <2> QED BY <1>4, <1>9, <2>1, <2>2 DEF AnswerAuthRequired
<1>10. CASE JoinerDies
  <2>1. JoinerKnown' BY <1>1, <1>10 DEF JoinerDies, JoinerKnown
  <2>2. missed' \in BOOLEAN BY <1>1, <1>10 DEF JoinerDies
  <2> QED BY <1>3, <1>10, <2>1, <2>2 DEF JoinerDies
<1>11. ASSUME NEW c \in codes, StartProtocol(c) PROVE JoinInv' /\ NoneLetIn
  <2>1. UNCHANGED <<joinCase, codes, tokens, syncing, joinClock, withdrawn, guest, missed>> BY <1>11 DEF StartProtocol
  <2>2. CASE UNCHANGED <<hostBox, joiner>>
    <3>1. JoinerKnown' BY <2>1, <2>2 DEF JoinerKnown
    <3> QED BY <1>1, <1>3, <2>1, <2>2, <3>1
  <2>3. CASE SendHandshakeMessage(c, "request-with-auth") /\ joiner' = [joiner EXCEPT !.asked = @ \cup {c}]
    <3>1. JoinerKnown' BY <1>1, <2>1, <2>3 DEF JoinerKnown
    <3> QED BY <1>4, <2>1, <2>3, <3>1
  <2>4. CASE SendHandshakeMessage(c, "request") /\ joiner' = [joiner EXCEPT !.scanning = c, !.asked = @ \cup {c}]
    <3>1. JoinerKnown' BY <1>1, <2>1, <2>4 DEF JoinerKnown
    <3> QED BY <1>4, <2>1, <2>4, <3>1
  <2> QED BY <1>11, <2>2, <2>3, <2>4 DEF StartProtocol
<1> QED BY <1>5, <1>6, <1>7, <1>8, <1>9, <1>10, <1>11 DEF JoinerStep

\* What a device of the inviter does
LEMMA HostSteps ==
    ASSUME JoinInv, NEW d \in Hosts, HostStep(d)
    PROVE  JoinInv' /\ NoneLetIn
<1> USE DEF JoinInv
<1>1. GuestsKnown /\ SyncKnown BY DEF GuestInv, CodeInv
<1>2. Other(d) \in Hosts /\ Other(d) # d BY OtherFacts
<1>3. ASSUME UNCHANGED <<codes, joiner>> PROVE JoinerKnown' BY <1>3 DEF JoinerKnown
<1>4. CASE ExecuteSyncItem(d)
  <2>1. CodeInv' BY <1>4, CodesItemTaken
  <2>2. /\ GuestInv'
        /\ \A e \in Hosts : (guest'[e].member = guest[e].member) \/ (e = d /\ guest[Other(d)].member)
    BY <1>1, <1>4, GuestsItemTaken
  <2>3. presented' = presented /\ UNCHANGED <<codes, joiner>> BY <1>4 DEF ExecuteSyncItem
  <2>4. NoneLetIn BY <2>2, <2>3 DEF NoneLetIn
  <2> QED BY <1>3, <2>1, <2>2, <2>3, <2>4
<1>5. ASSUME NEW m \in hostBox[d], Request(d, m) PROVE JoinInv' /\ NoneLetIn
  <2>1. /\ m.step # "member-added"
        /\ UNCHANGED <<joinCase, tokens, codes, syncing, guest, joiner, joinClock, joinOps, withdrawn, presented, missed>>
    BY <1>5 DEF Request
  <2>2. PICK ok : Handled(d, m, ok) BY <1>5 DEF Request
  <2>3. guest' \in [Hosts -> [verified : BOOLEAN, blocked : BOOLEAN, member : BOOLEAN]] BY <1>1, <2>1 DEF GuestsKnown
  <2>4. UNCHANGED <<joinCase, syncing, missed>> /\ \A e \in Hosts : guest'[e].member = guest[e].member BY <2>1
  <2>5. GuestInv' BY <2>1, <2>2, <2>3, <2>4, GuestsHandled
  <2>6. CodeInv'
    <3>1. UNCHANGED <<joinCase, codes, tokens, syncing, joinClock, withdrawn>> BY <2>1
    <3> QED BY <3>1, CodesUntouched
  <2> QED BY <1>3, <2>1, <2>4, <2>5, <2>6 DEF NoneLetIn
<1>6. ASSUME NEW m \in hostBox[d], RequestWithAuth(d, m) PROVE JoinInv' /\ NoneLetIn
  <2>1. /\ GuestInv' /\ CodeInv'
        /\ \A e \in Hosts : (guest'[e].member = guest[e].member) \/ (e = d /\ ~guest[d].blocked)
    BY <1>6, HostAnswers
  <2>2. UNCHANGED <<codes, joiner>> BY <1>6 DEF RequestWithAuth
  <2> QED BY <1>3, <2>1, <2>2 DEF NoneLetIn
<1>7. ASSUME NEW m \in hostBox[d], ObserveSecurejoin(d, m) PROVE JoinInv' /\ NoneLetIn
  <2>1. /\ GuestInv'
        /\ \A e \in Hosts : \/ guest'[e].member = guest[e].member
                            \/ e = d /\ (guest[Other(d)].member \/ ~guest[d].blocked)
    BY <1>7, GuestsObserved
  <2>2. UNCHANGED <<joinCase, tokens, codes, syncing, joiner, joinClock, withdrawn, presented>> BY <1>7 DEF ObserveSecurejoin
  <2>3. CodeInv'
    <3>1. UNCHANGED <<joinCase, codes, tokens, syncing, joinClock, withdrawn>> BY <2>2
    <3> QED BY <3>1, CodesUntouched
  <2>4. NoneLetIn BY <2>1, <2>2 DEF NoneLetIn
  <2> QED BY <1>3, <2>1, <2>2, <2>3, <2>4
<1> QED BY <1>4, <1>5, <1>6, <1>7 DEF HostStep

\* What the inviter does
LEMMA InviterSteps ==
    ASSUME JoinInv, NEW d \in Hosts,
           GetSecurejoinQr(d) \/ BlockJoiner(d) \/ \E c \in codes : WithdrawQr(d, c) \/ ReviveQr(d, c)
    PROVE  JoinInv' /\ NoneLetIn
<1> USE DEF JoinInv
<1>1. GuestsKnown /\ SyncKnown BY DEF GuestInv, CodeInv
<1>2. Other(d) \in Hosts BY OtherFacts
<1>3. ASSUME UNCHANGED joiner, codes \subseteq codes' PROVE JoinerKnown' BY <1>3 DEF JoinerKnown
<1>4. ASSUME UNCHANGED <<joinCase, guest, hostBox, missed>>, NEW it \in SyncItems, it.what # "members",
             syncing' = [syncing EXCEPT ![Other(d)] = Append(@, it)]
      PROVE  GuestInv' /\ NoneLetIn
  <2>1. PICK e \in Hosts : e = Other(d) BY <1>2
  <2>2. syncing' = [syncing EXCEPT ![e] = Append(@, it)] BY <1>4, <2>1
  <2>3. GuestInv' BY <1>1, <1>4, <2>2, GuestsCodeSent
  <2> QED BY <1>4, <2>3 DEF NoneLetIn
<1>5. CASE GetSecurejoinQr(d)
  <2>1. /\ CodeInv' /\ codes \subseteq codes'
        /\ \E it \in SyncItems : it.what = "add" /\ syncing' = [syncing EXCEPT ![Other(d)] = Append(@, it)]
    BY <1>5, CodesShown
  <2>2. UNCHANGED joiner /\ UNCHANGED <<joinCase, guest, hostBox, missed>> BY <1>5 DEF GetSecurejoinQr
  <2> QED BY <1>3, <1>4, <2>1, <2>2
<1>6. ASSUME NEW c \in codes, WithdrawQr(d, c) PROVE JoinInv' /\ NoneLetIn
  <2>1. /\ CodeInv'
        /\ \E it \in SyncItems : it.what = "delete" /\ syncing' = [syncing EXCEPT ![Other(d)] = Append(@, it)]
    BY <1>6, CodesWithdrawn
  <2>2. UNCHANGED <<joiner, codes>> /\ UNCHANGED <<joinCase, guest, hostBox, missed>> BY <1>6 DEF WithdrawQr
  <2> QED BY <1>3, <1>4, <2>1, <2>2
<1>7. ASSUME NEW c \in codes, ReviveQr(d, c) PROVE JoinInv' /\ NoneLetIn
  <2>1. /\ CodeInv'
        /\ \E it \in SyncItems : it.what = "add" /\ syncing' = [syncing EXCEPT ![Other(d)] = Append(@, it)]
    BY <1>7, CodesRevived
  <2>2. UNCHANGED <<joiner, codes>> /\ UNCHANGED <<joinCase, guest, hostBox, missed>> BY <1>7 DEF ReviveQr
  <2> QED BY <1>3, <1>4, <2>1, <2>2
<1>8. CASE BlockJoiner(d)
  <2>1. /\ guest' = [guest EXCEPT ![d].blocked = TRUE]
        /\ syncing' = [syncing EXCEPT ![Other(d)] = Append(@, [what |-> "block", code |-> NoCode, ts |-> joinClock])]
        /\ UNCHANGED <<joinCase, tokens, codes, hostBox, joiner, joinClock, withdrawn, presented, missed>>
    BY <1>8 DEF BlockJoiner
  <2>2. PICK e \in Hosts : e = Other(d) BY <1>2
  <2>3. PICK w \in {"block", "members"} : w = "block" OBVIOUS
  <2>4. syncing' = [syncing EXCEPT ![e] = Append(@, [what |-> w, code |-> NoCode, ts |-> joinClock])] BY <2>1, <2>2, <2>3
  <2>5. CodeInv'
    <3>1. UNCHANGED <<joinCase, codes, tokens, joinClock, withdrawn>> BY <2>1
    <3> QED BY <2>4, <3>1, CodesNotSent
  <2>6. /\ guest' \in [Hosts -> [verified : BOOLEAN, blocked : BOOLEAN, member : BOOLEAN]]
        /\ \A f \in Hosts : guest'[f].member = guest[f].member
    BY <1>1, <2>1 DEF GuestsKnown
  <2>7. GuestInv'
    <3> USE DEF GuestInv
    <3>1. joinClock \in Nat BY CodeFacts DEF CodeInv
    <3>2. PICK it : it = [what |-> w, code |-> NoCode, ts |-> joinClock] OBVIOUS
    <3>3. it \in SyncItems /\ it.what = "block" BY <2>3, <3>1, <3>2 DEF SyncItems, NoCode, CodeNumbers
    <3>4. syncing' = [syncing EXCEPT ![e] = Append(@, it)] BY <2>4, <3>2
    <3>5. /\ \A f \in Hosts \ {e} : syncing'[f] = syncing[f]
          /\ \A i \in DOMAIN syncing'[e] : \/ i \in DOMAIN syncing[e] /\ syncing'[e][i] = syncing[e][i]
                                           \/ i = Len(syncing[e]) + 1 /\ syncing'[e][i] = it
      BY <1>1, <3>3, <3>4, SentFacts
    <3>6. \A f \in Hosts : \A i \in DOMAIN syncing'[f] :
            syncing'[f][i].what = "members" => \E j \in DOMAIN syncing[f] : syncing[f][j].what = "members"
      BY <3>3, <3>5
    <3>7. \A f \in Hosts : TellsOf(f)' => TellsOf(f) BY <2>1, <3>6 DEF TellsOf, AddedMail
    <3>8. GuestsTold' BY <2>1, <2>6, <3>7, OtherFacts DEF GuestsTold, AddedMail
    <3>9. GuestsKnown' BY <1>1, <2>1, <2>6 DEF GuestsKnown
    <3>10. MailsMarked' BY <2>1 DEF MailsMarked, AddedMail
    <3> QED BY <3>8, <3>9, <3>10
  <2>8. NoneLetIn BY <2>6 DEF NoneLetIn
  <2>9. JoinerKnown' BY <1>3, <2>1
  <2> QED BY <2>5, <2>7, <2>8, <2>9
<1> QED BY <1>5, <1>6, <1>7, <1>8

\* Every step preserves the invariant and lets in nobody who is blocked.
LEMMA EveryJoinStep ==
    ASSUME JoinInv, JoinNext
    PROVE  JoinInv' /\ NoneLetIn
<1>1. CASE JoinTick
  <2>1. CodeInv' BY <1>1, CodesTick DEF JoinInv
  <2>2. UNCHANGED <<joinCase, codes, syncing, guest, hostBox, joiner, missed>> BY <1>1 DEF JoinTick
  <2>3. JoinerKnown' BY <2>2 DEF JoinInv, JoinerKnown
  <2>4. GuestInv'
    <3>1. missed' \in BOOLEAN BY <2>2 DEF JoinInv, GuestInv, GuestsKnown
    <3>2. \A d \in Hosts : \A i \in DOMAIN syncing'[d] :
            syncing'[d][i].what = "members" => \E j \in DOMAIN syncing[d] : syncing[d][j].what = "members"
      BY <2>2
    <3> QED BY <2>2, <3>1, <3>2, GuestsUntouched DEF JoinInv
  <2> QED BY <2>1, <2>2, <2>3, <2>4 DEF JoinInv, NoneLetIn
<1> QED BY <1>1, JoinerSteps, HostSteps, InviterSteps DEF JoinNext

\* At first
LEMMA JoinStarts ==
    ASSUME JoinInit
    PROVE  JoinInv
<1> USE DEF JoinInit
<1>1. IsFiniteSet({}) /\ Cardinality({}) = 0 BY FS_EmptySet
<1>2. joinCase.codes \in Nat /\ joinCase.ticks \in Nat /\ joinCase.key \in BOOLEAN BY JoinAssumption
<1>3. CodesKnown BY <1>1, <1>2 DEF CodesKnown
<1>4. TokensKnown
  <2>1. EmptyTokens \in [inv : Seq(TokenRows), auth : Seq(TokenRows)] /\ EmptyTokens.inv = <<>> /\ EmptyTokens.auth = <<>>
    BY DEF EmptyTokens
  <2>2. tokens \in [Hosts -> [inv : Seq(TokenRows), auth : Seq(TokenRows)]] BY <2>1
  <2>3. \A d \in Hosts : tokens[d].inv = <<>> /\ tokens[d].auth = <<>> BY <2>1
  <2>4. \A d \in Hosts : DOMAIN tokens[d].inv = {} /\ DOMAIN tokens[d].auth = {} BY <2>3
  <2> QED BY <2>2, <2>4 DEF TokensKnown
<1>5. SyncKnown
  <2>1. syncing \in [Hosts -> Seq(SyncItems)] /\ \A d \in Hosts : syncing[d] = <<>> OBVIOUS
  <2>2. \A d \in Hosts : DOMAIN syncing[d] = {} BY <2>1
  <2> QED BY <2>1, <2>2 DEF SyncKnown
<1>6. WithdrawnCleared BY DEF WithdrawnCleared
<1>7. JoinerKnown BY <1>2 DEF JoinerKnown
<1>8. GuestInv
  <2>1. GuestsKnown BY DEF GuestsKnown
  <2>2. MailsMarked BY DEF MailsMarked
  <2>3. \A d \in Hosts : DOMAIN syncing[d] = {} /\ hostBox[d] = {} OBVIOUS
  <2>4. \A d \in Hosts : ~TellsOf(d) BY <2>3 DEF TellsOf
  <2>5. \A d \in Hosts : ~guest[Other(d)].member BY OtherFacts
  <2>6. GuestsTold BY <2>4, <2>5 DEF GuestsTold
  <2> QED BY <2>1, <2>2, <2>6 DEF GuestInv
<1> QED BY <1>3, <1>4, <1>5, <1>6, <1>7, <1>8 DEF JoinInv, CodeInv

\* What the invariant says of codes and members
LEMMA JoinInvGives ==
    ASSUME JoinInv
    PROVE  JoinTypeOK /\ WithdrawnGone /\ HostsAgree
<1> USE DEF JoinInv, CodeInv, GuestInv
<1>1. JoinTypeOK
  <2>1. /\ Cardinality(codes) \in Nat /\ joinClock \in Nat /\ joinCase.codes \in Nat /\ joinCase.ticks \in Nat
        /\ Cardinality(codes) <= joinCase.codes /\ joinClock <= joinCase.ticks
    BY CodeFacts DEF CodesKnown
  <2>2. codes \subseteq [inv : 1..joinCase.codes, auth : 1..joinCase.codes] BY <2>1 DEF CodesKnown
  <2>3. ASSUME NEW r \in TokenRows, TokenKnown(r) PROVE r.tok \in 1..joinCase.codes /\ r.ts \in 0..joinCase.ticks
    BY <2>1, <2>3 DEF TokenKnown, TokenRows
  <2>4. ASSUME NEW d \in Hosts, NEW r \in Range(tokens[d].auth) \cup Range(tokens[d].inv) PROVE r \in TokenRows /\ TokenKnown(r)
    <3>1. /\ \A i \in DOMAIN tokens[d].auth : tokens[d].auth[i] \in TokenRows /\ TokenKnown(tokens[d].auth[i])
          /\ \A i \in DOMAIN tokens[d].inv : tokens[d].inv[i] \in TokenRows /\ TokenKnown(tokens[d].inv[i])
      BY TableFacts DEF TokensKnown
    <3>2. \/ \E i \in DOMAIN tokens[d].auth : r = tokens[d].auth[i]
          \/ \E i \in DOMAIN tokens[d].inv : r = tokens[d].inv[i]
      BY <2>4 DEF Range
    <3> QED BY <3>1, <3>2
  <2>5. joiner.rows \subseteq codes BY DEF JoinerKnown
  <2>6. \A d \in Hosts : \A r \in Range(tokens[d].auth) \cup Range(tokens[d].inv) :
          r.tok \in 1..joinCase.codes /\ r.ts \in 0..joinCase.ticks
    BY <2>3, <2>4
  <2> QED BY <2>2, <2>5, <2>6 DEF JoinTypeOK, CodesKnown, TokensKnown, GuestsKnown
<1>2. WithdrawnGone
  <2> SUFFICES ASSUME \A d \in Hosts : syncing[d] = <<>>, NEW d \in Hosts, NEW c \in withdrawn
               PROVE  ~HasToken(tokens[d].auth, c.auth)
    BY DEF WithdrawnGone
  <2>1. DOMAIN syncing[d] = {} OBVIOUS
  <2>2. Untaken(c, d) BY <2>1 DEF WithdrawnCleared, Cleared
  <2> QED BY <2>2 DEF Untaken, HasToken
<1>3. HostsAgree
  <2> SUFFICES ASSUME joinCase.kind # "contact", \A d \in Hosts : hostBox[d] = {} /\ syncing[d] = <<>>
               PROVE  guest["d1"].member = guest["d2"].member
    BY DEF HostsAgree
  <2>1. Other("d1") = "d2" /\ Other("d2") = "d1" BY DEF Other, Hosts
  <2>2. "d1" \in Hosts /\ "d2" \in Hosts BY DEF Hosts
  <2>3. guest["d1"].member \in BOOLEAN /\ guest["d2"].member \in BOOLEAN BY <2>2 DEF GuestsKnown
  <2>4. guest["d2"].member => guest["d1"].member BY <2>1, <2>2 DEF GuestsTold
  <2>5. guest["d1"].member => guest["d2"].member BY <2>1, <2>2 DEF GuestsTold
  <2> QED BY <2>3, <2>4, <2>5
<1> QED BY <1>1, <1>2, <1>3

\* Joining by code is safe for any number of codes, scans and events, and for every order in which mail, sync items
\* and the joiner's steps cross (securejoin, token, sync): once the inviter's devices have heard of each other, none
\* takes a withdrawn code and they agree whom they let in; and no step lets in someone whom the device blocks,
\* unless the sibling did.
THEOREM JoinSound == JoinSpec => JoinSafe
<1>1. JoinInit => JoinInv BY JoinStarts
<1>2. JoinInv /\ [JoinNext]_joinVars => JoinInv'
  <2> SUFFICES ASSUME JoinInv, [JoinNext]_joinVars PROVE JoinInv' OBVIOUS
  <2>1. CASE JoinNext BY <2>1, EveryJoinStep
  <2>2. CASE UNCHANGED joinVars
    <3> USE DEF JoinInv
    <3>1. UNCHANGED <<joinCase, codes, tokens, syncing, joinClock, withdrawn>> BY <2>2 DEF joinVars
    <3>2. UNCHANGED <<joinCase, guest, hostBox>> /\ UNCHANGED <<syncing, missed, joiner, codes>> BY <2>2 DEF joinVars
    <3>3. missed' \in BOOLEAN BY <3>2 DEF GuestInv, GuestsKnown
    <3>4. \A d \in Hosts : \A i \in DOMAIN syncing'[d] :
            syncing'[d][i].what = "members" => \E j \in DOMAIN syncing[d] : syncing[d][j].what = "members"
      BY <3>2
    <3>5. GuestInv' BY <3>2, <3>3, <3>4, GuestsUntouched
    <3>6. JoinerKnown' BY <3>2 DEF JoinerKnown
    <3> QED BY <3>1, <3>5, <3>6, CodesUntouched
  <2> QED BY <2>1, <2>2
<1>3. JoinInv /\ [JoinNext]_joinVars =>
        [\A d \in Hosts : (guest[d].blocked /\ ~guest[d].member /\ guest'[d].member)
           => (guest[Other(d)].member /\ presented' = presented)]_joinVars
  BY EveryJoinStep DEF NoneLetIn
<1>4. JoinInv => JoinTypeOK /\ WithdrawnGone /\ HostsAgree BY JoinInvGives
<1> QED BY <1>1, <1>2, <1>3, <1>4, PTL DEF JoinSpec, JoinSafe, BlockedStayOut
=============================================================================
