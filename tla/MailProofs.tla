----------------------------- MODULE MailProofs -----------------------------
(***************************************************************************)
(* Proofs about what becomes of a mail.  Threading: conversations are the  *)
(* connected components of what messages name, for every set of messages   *)
(* and Message-IDs.  Sending: for any correspondents and any number of     *)
(* changes of settings, keys and drafts while a message is on its way.     *)
(* Outbox: for any recipients, chunk size, retry limit and server answers. *)
(* Receipts: for any messages and any changes of settings and chats.       *)
(***************************************************************************)
EXTENDS Threading, Sending, Outbox, ReadReceipts, FiniteSetTheorems, SequenceTheorems, TLAPS


(***************************************************************************)
(* Threading: the inductive invariant.                                     *)
(***************************************************************************)

\* What a task has read of a message's row is still true of the message, and only
\* a message that came to exist has a thread.
Placing ==
    /\ \A m \in Msgs : msg_threads[m] # NoThread => msgs[m] # "absent"
    /\ \A m \in Msgs : msgs[m] # "absent" => Own[m] \in linked[m]
    /\ \A t \in Tasks : pc[t] # "idle" => msg[t] \in Msgs /\ msgs[msg[t]] # "absent"
    /\ \A t \in Tasks : pc[t] = "assign" =>
          /\ Own[msg[t]] \in headers[t].ids
          /\ headers[t].timestamp = Timestamp[msg[t]]
          /\ msgs[msg[t]] = "live" => headers[t].subject = Subject[msg[t]]

\* IDs that a message brought together are in one thread.
Together ==
    \A L \in claims : /\ L # {}
                      /\ \A i, j \in L : /\ thread_refs[i] = thread_refs[j]
                                         /\ thread_refs[i] # NoThread

\* A message is in the thread its own ID is known by.
Known == \A m \in Assigned : thread_refs[Own[m]] = msg_threads[m]

\* IDs in one thread are there for a reason.
Apart ==
    \A i, j \in Mids : thread_refs[i] # NoThread /\ thread_refs[i] = thread_refs[j]
                          => Connected(claims, i, j)

\* Threads are the connected components of what messages have brought together.
Grouping == Together /\ Known /\ Apart

\* The inductive invariant of threading.
IInv == TypeOK /\ Placing /\ Grouping /\ RowCoversMessages

----------------------------------------------------------------------------
(***************************************************************************)
(* Type correctness.                                                       *)
(***************************************************************************)

\* A new database is well typed.
LEMMA TypeInit == Init => TypeOK
  BY SubjectAssumption DEF Init, TypeOK, ThreadIds, NoHeaders, Headers, Row, NoThread

\* A row that a merge leaves is a row of the table.
LEMMA MergedRowType ==
    ASSUME TypeOK, NEW h \in Headers, NEW E \in SUBSET ThreadIds,
           NEW merged \in MergedRow(E, h)
    PROVE  merged \in Row
  <1>1. \A t \in E : threads[t] \in Row
    BY DEF TypeOK
  <1>2. \A t \in E : threads[t].subject_norm \in Subjects /\ threads[t].last_activity \in Nat
    BY <1>1 DEF Row
  <1>3. h.subject \in Subjects /\ h.timestamp \in Nat
    BY DEF Headers
  <1>4. Labels(E, h) \subseteq Subjects
    BY <1>2, <1>3 DEF Labels, Oldest
  <1>5. Latest(E, h) \subseteq Nat
    BY <1>2, <1>3 DEF Latest
  <1> QED
    BY <1>4, <1>5 DEF MergedRow, Row

\* The threads that a message joins exist.
LEMMA ExistingType ==
    ASSUME TypeOK, NEW h \in Headers
    PROVE  Existing(h) \in SUBSET ThreadIds
  BY DEF TypeOK, Headers, Existing

\* Every step keeps every variable in its type, given that a task at work has a
\* message.
LEMMA TypeNext == TypeOK /\ Placing /\ [Next]_vars => TypeOK'
  <1> SUFFICES ASSUME TypeOK, Placing, [Next]_vars PROVE TypeOK'
    OBVIOUS
  <1> USE OwnAssumption, SubjectAssumption, TimestampAssumption
  <1>1. ASSUME NEW t \in Tasks, NEW m \in Msgs, NEW R \in SUBSET Mids, Store(t, m, R)
        PROVE  TypeOK'
    BY <1>1 DEF Store, Begin, TypeOK, tables, ThreadIds
  <1>2. ASSUME NEW t \in Tasks, NEW m \in Msgs, Resend(t, m)
        PROVE  TypeOK'
    BY <1>2 DEF Resend, Begin, TypeOK, tables, ThreadIds
  <1>3. ASSUME NEW t \in Tasks, ReadRow(t)
        PROVE  TypeOK'
    <2>1. msg[t] \in Msgs
      BY <1>3 DEF ReadRow, Placing
    <2>2. headers' \in [Tasks -> Headers]
      BY <1>3, <2>1 DEF ReadRow, TypeOK, Headers
    <2> QED
      BY <1>3, <2>2 DEF ReadRow, TypeOK, tables, ThreadIds
  <1>4. NoHeaders \in Headers
    BY DEF NoHeaders, Headers
  <1>5. ASSUME NEW t \in Tasks, Return(t)
        PROVE  /\ pc' \in [Tasks -> {"idle", "read", "assign"}]
               /\ msg' \in [Tasks -> Msgs \cup {NoMsg}]
               /\ headers' \in [Tasks -> Headers]
    BY <1>4, <1>5 DEF Return, TypeOK
  <1>6. ASSUME NEW t \in Tasks, Join(t)
        PROVE  TypeOK'
    <2> DEFINE h == headers[t]
               E == Existing(h)
    <2>1. h \in Headers
      BY DEF TypeOK
    <2>2. E \in SUBSET ThreadIds
      BY <2>1, ExistingType
    <2>3. PICK s \in Oldest(E), merged \in MergedRow(E, h) :
             /\ Repoint(msg[t], E, s, h)
             /\ threads' = [u \in (ThreadIds \ E) \cup {s} |->
                               IF u = s THEN merged ELSE threads[u]]
      BY <1>6 DEF Join
    <2>4. merged \in Row
      BY <2>1, <2>2, MergedRowType
    <2>5. s \in E
      BY DEF Oldest
    <2>6. ThreadIds' = (ThreadIds \ E) \cup {s}
      BY <2>3 DEF ThreadIds
    <2>7. threads' \in [ThreadIds' -> Row] /\ ThreadIds' \subseteq ThreadIds
      BY <2>2, <2>3, <2>4, <2>5, <2>6 DEF TypeOK
    <2>8. thread_refs' \in [Mids -> ThreadIds' \cup {NoThread}]
      BY <2>3, <2>6 DEF Repoint, TypeOK
    <2>9. msg_threads' \in [Msgs -> ThreadIds' \cup {NoThread}]
      BY <2>3, <2>6 DEF Repoint, TypeOK
    <2>10. claims' \subseteq SUBSET Mids
      BY <1>6, <2>1 DEF Join, TypeOK, Headers
    <2> QED
      BY <1>5, <1>6, <2>7, <2>8, <2>9, <2>10 DEF Join, TypeOK
  <1>7. ASSUME NEW t \in Tasks, Start(t)
        PROVE  TypeOK'
    <2> DEFINE h == headers[t]
               s == sequence + 1
    <2>1. h \in Headers
      BY DEF TypeOK
    <2>2. ThreadIds' = ThreadIds \cup {s}
      BY <1>7 DEF Start, ThreadIds
    <2>3. threads' \in [ThreadIds' -> Row]
      BY <1>7, <2>1, <2>2 DEF Start, TypeOK, Headers, Row
    <2>4. sequence' \in Nat /\ ThreadIds' \subseteq 1..sequence'
      <3>1. sequence' = s /\ sequence \in Nat /\ ThreadIds \subseteq 1..sequence
        BY <1>7 DEF Start, TypeOK
      <3>2. s \in Nat /\ 1..sequence \subseteq 1..s /\ s \in 1..s
        BY <3>1
      <3> QED
        BY <2>2, <3>1, <3>2
    <2>5. thread_refs' \in [Mids -> ThreadIds' \cup {NoThread}]
      BY <1>7, <2>2 DEF Start, Repoint, TypeOK
    <2>6. msg_threads' \in [Msgs -> ThreadIds' \cup {NoThread}]
      BY <1>7, <2>2 DEF Start, Repoint, TypeOK
    <2>7. claims' \subseteq SUBSET Mids
      BY <1>7, <2>1 DEF Start, TypeOK, Headers
    <2> QED
      BY <1>5, <1>7, <2>3, <2>4, <2>5, <2>6, <2>7 DEF Start, TypeOK
  <1>8. ASSUME NEW t \in Tasks, Fail(t)
        PROVE  TypeOK'
    BY <1>5, <1>8 DEF Fail, TypeOK, tables, ThreadIds
  <1>9. ASSUME NEW m \in Msgs, Trash(m)
        PROVE  TypeOK'
    BY <1>9 DEF Trash, TypeOK, tables, locals, ThreadIds
  <1>10. ASSUME Prune
         PROVE  TypeOK'
    <2> DEFINE kept == {msg_threads[m] : m \in Staying} \cap ThreadIds
    <2>1. ThreadIds' = kept
      BY <1>10 DEF Prune, ThreadIds
    <2>2. threads' \in [ThreadIds' -> Row] /\ ThreadIds' \subseteq ThreadIds
      BY <1>10, <2>1 DEF Prune, TypeOK
    <2>3. msg_threads' \in [Msgs -> ThreadIds' \cup {NoThread}]
      BY <1>10, <2>1 DEF Prune, TypeOK
    <2>4. thread_refs' \in [Mids -> ThreadIds' \cup {NoThread}]
      BY <1>10, <2>1 DEF Prune, TypeOK
    <2> QED
      BY <1>10, <2>2, <2>3, <2>4 DEF Prune, TypeOK, locals
  <1>11. CASE UNCHANGED vars
    BY <1>11 DEF vars, tables, locals, TypeOK, ThreadIds
  <1> QED
    BY <1>1, <1>2, <1>3, <1>6, <1>7, <1>8, <1>9, <1>10, <1>11 DEF Next, Place

----------------------------------------------------------------------------
(***************************************************************************)
(* Connection.                                                             *)
(***************************************************************************)

\* IDs that messages connect are in one thread: a thread's IDs are all or nothing
\* of what any message named.
LEMMA ConnectedTogether ==
    ASSUME TypeOK, Together, NEW i \in Mids, NEW j \in Mids, Connected(claims, i, j)
    PROVE  thread_refs[j] = thread_refs[i]
  <1> DEFINE C == {k \in Mids : thread_refs[k] = thread_refs[i]}
  <1>1. Closed(C, claims)
    BY DEF Closed, Together, TypeOK
  <1>2. j \in C
    BY <1>1 DEF Connected
  <1> QED
    BY <1>2

\* Placing a message keeps the grouping, whether it merges the threads its IDs
\* belong to into one of them or starts a new one.
LEMMA RepointGroups ==
    ASSUME TypeOK, Grouping,
           NEW h \in Headers, NEW m \in Msgs, Own[m] \in h.ids,
           NEW s \in Nat, s # NoThread,
           s \in Existing(h) \/ /\ \A i \in Mids : thread_refs[i] # s
                                /\ \A n \in Msgs : msg_threads[n] # s,
           Repoint(m, Existing(h), s, h),
           claims' = claims \cup {h.ids}
    PROVE  Grouping'
  <1> DEFINE E == Existing(h)
             Moved(i) == i \in h.ids \/ thread_refs[i] \in E
  <1>0. h.ids \in SUBSET Mids
    BY DEF Headers
  <1>1. \A i \in Mids : thread_refs'[i] = IF Moved(i) THEN s ELSE thread_refs[i]
    BY DEF Repoint
  <1>2. \A n \in Msgs : msg_threads'[n] = IF n = m \/ msg_threads[n] \in E THEN s
                                          ELSE msg_threads[n]
    BY DEF Repoint
  <1>3. \A i \in h.ids : thread_refs[i] # NoThread => thread_refs[i] \in E
    BY DEF Existing
  <1>4. \A e \in E : e # NoThread /\ \E k \in h.ids : thread_refs[k] = e
    BY DEF Existing
  <1>5. \A i \in Mids : thread_refs'[i] = s => Moved(i)
    BY <1>1
  <1>6. Together'
    <2> SUFFICES ASSUME NEW L \in claims \cup {h.ids}
                 PROVE  /\ L # {}
                        /\ \A i, j \in L : /\ thread_refs'[i] = thread_refs'[j]
                                           /\ thread_refs'[i] # NoThread
      BY DEF Together
    <2>1. CASE L = h.ids
      BY <1>0, <1>1, <2>1
    <2>2. CASE L \in claims
      <3>1. L \subseteq Mids
        BY <2>2 DEF TypeOK
      <3>2. /\ L # {}
            /\ \A i, j \in L : thread_refs[i] = thread_refs[j] /\ thread_refs[i] # NoThread
        BY <2>2 DEF Grouping, Together
      <3>3. \A i, j \in L : Moved(i) => Moved(j)
        BY <1>3, <3>2
      <3> QED
        BY <1>1, <3>1, <3>2, <3>3
    <2> QED
      BY <2>1, <2>2
  <1>7. Known'
    <2> SUFFICES ASSUME NEW n \in Msgs, msg_threads'[n] # NoThread
                 PROVE  thread_refs'[Own[n]] = msg_threads'[n]
      BY DEF Known, Assigned
    <2>1. Own[n] \in Mids
      BY OwnAssumption
    <2>2. CASE n = m
      BY <1>1, <1>2, <2>1, <2>2
    <2>3. CASE n # m
      <3>1. msg_threads[n] # NoThread
        BY <1>2, <1>4, <2>3
      <3>2. thread_refs[Own[n]] = msg_threads[n]
        BY <3>1 DEF Grouping, Known, Assigned
      <3>3. Moved(Own[n]) <=> msg_threads[n] \in E
        BY <1>3, <3>1, <3>2
      <3> QED
        BY <1>1, <1>2, <2>1, <2>3, <3>2, <3>3
    <2> QED
      BY <2>2, <2>3
  <1>8. Apart'
    <2> SUFFICES ASSUME NEW i \in Mids, NEW j \in Mids,
                        thread_refs'[i] # NoThread, thread_refs'[i] = thread_refs'[j],
                        NEW C \in SUBSET Mids, i \in C, Closed(C, claims \cup {h.ids})
                 PROVE  j \in C
      BY DEF Apart, Connected
    <2>1. Closed(C, claims) /\ (h.ids \cap C # {} => h.ids \subseteq C)
      BY DEF Closed
    <2>2. ASSUME NEW x \in Mids, NEW y \in Mids, x \in C,
                 thread_refs[x] # NoThread, thread_refs[x] = thread_refs[y]
          PROVE  y \in C
      BY <2>1, <2>2 DEF Grouping, Apart, Connected
    <2>3. CASE Moved(i)
      <3>1. Moved(j)
        BY <1>1, <1>5, <2>3
      <3>2. h.ids \cap C # {}
        <4>1. CASE i \in h.ids
          BY <4>1
        <4>2. CASE thread_refs[i] \in E
          <5>1. PICK k \in h.ids : thread_refs[k] = thread_refs[i] /\ thread_refs[i] # NoThread
            BY <1>4, <4>2
          <5>2. k \in C
            BY <1>0, <2>2, <5>1
          <5> QED
            BY <5>2
        <4> QED
          BY <2>3, <4>1, <4>2
      <3>3. h.ids \subseteq C
        BY <2>1, <3>2
      <3>4. CASE j \in h.ids
        BY <3>3, <3>4
      <3>5. CASE thread_refs[j] \in E
        <4>1. PICK k \in h.ids : thread_refs[k] = thread_refs[j] /\ thread_refs[j] # NoThread
          BY <1>4, <3>5
        <4> QED
          BY <1>0, <2>2, <3>3, <4>1
      <3> QED
        BY <3>1, <3>4, <3>5
    <2>4. CASE ~Moved(i)
      <3>1. ~Moved(j)
        BY <1>1, <1>5, <2>4
      <3> QED
        BY <1>1, <2>2, <2>4, <3>1
    <2> QED
      BY <2>3, <2>4
  <1> QED
    BY <1>6, <1>7, <1>8 DEF Grouping

\* Prune keeps the grouping of what it leaves: it takes whole conversations only.
LEMMA PruneGroups ==
    ASSUME TypeOK, Grouping, Prune
    PROVE  Grouping'
  <1> DEFINE kept == {msg_threads[m] : m \in Staying} \cap ThreadIds
             Stays(L) == \E i \in L : \E m \in Live \cap Assigned :
                             Connected(claims, i, Own[m])
  <1>1. \A i \in Mids : thread_refs'[i] = IF thread_refs[i] \in kept THEN thread_refs[i]
                                          ELSE NoThread
    BY DEF Prune
  <1>2. \A m \in Msgs : msg_threads'[m] = IF m \in Staying THEN msg_threads[m] ELSE NoThread
    BY DEF Prune
  <1>3. claims' = {L \in claims : Stays(L)}
    BY DEF Prune
  <1>4. \A m \in Staying : /\ m \in Live \cap Assigned
                           /\ Own[m] \in Mids
                           /\ msg_threads[m] # NoThread
                           /\ thread_refs[Own[m]] = msg_threads[m]
                           /\ msg_threads[m] \in kept
    BY OwnAssumption DEF Staying, Live, Assigned, Grouping, Known, TypeOK
  <1>5. NoThread \notin kept
    BY DEF TypeOK, NoThread
  <1>6. ASSUME NEW L \in claims, NEW k \in L
        PROVE  Stays(L) <=> thread_refs[k] \in kept
    <2>1. L \subseteq Mids
      BY DEF TypeOK
    <2>2. \A i \in L : thread_refs[i] = thread_refs[k]
      BY <1>6 DEF Grouping, Together
    <2>3. ASSUME NEW i \in L, NEW m \in Live \cap Assigned, Connected(claims, i, Own[m])
          PROVE  thread_refs[k] \in kept
      <3>1. m \in Staying
        BY DEF Staying
      <3>2. thread_refs[Own[m]] = thread_refs[i]
        BY <1>4, <2>1, <2>3, <3>1, ConnectedTogether DEF Grouping
      <3> QED
        BY <1>4, <2>2, <3>1, <3>2
    <2>4. ASSUME thread_refs[k] \in kept
          PROVE  Stays(L)
      <3>1. PICK m \in Staying : msg_threads[m] = thread_refs[k]
        BY <2>4
      <3>2. Connected(claims, k, Own[m])
        BY <1>4, <2>1, <3>1 DEF Grouping, Apart
      <3> QED
        BY <1>4, <3>1, <3>2
    <2> QED
      BY <2>3, <2>4
  <1>7. Together'
    <2> SUFFICES ASSUME NEW L \in claims, Stays(L)
                 PROVE  /\ L # {}
                        /\ \A i, j \in L : /\ thread_refs'[i] = thread_refs'[j]
                                           /\ thread_refs'[i] # NoThread
      BY <1>3 DEF Together
    <2>1. L \subseteq Mids /\ \A i, j \in L : thread_refs[i] = thread_refs[j]
      BY DEF TypeOK, Grouping, Together
    <2>2. \A i \in L : thread_refs[i] \in kept
      BY <1>6
    <2> QED
      BY <1>1, <1>5, <2>1, <2>2
  <1>8. Known'
    <2> SUFFICES ASSUME NEW m \in Msgs, msg_threads'[m] # NoThread
                 PROVE  thread_refs'[Own[m]] = msg_threads'[m]
      BY DEF Known, Assigned
    <2> QED
      BY <1>1, <1>2, <1>4
  <1>9. Apart'
    <2> SUFFICES ASSUME NEW i \in Mids, NEW j \in Mids,
                        thread_refs'[i] # NoThread, thread_refs'[i] = thread_refs'[j],
                        NEW C \in SUBSET Mids, i \in C, Closed(C, claims')
                 PROVE  j \in C
      BY DEF Apart, Connected
    <2>1. thread_refs[i] \in kept /\ thread_refs[j] = thread_refs[i]
      BY <1>1, <1>5
    <2> DEFINE D == C \cap {k \in Mids : thread_refs[k] = thread_refs[i]}
    <2>2. Closed(D, claims)
      <3> SUFFICES ASSUME NEW L \in claims, NEW k \in L, k \in D
                   PROVE  L \subseteq D
        BY DEF Closed
      <3>1. Stays(L)
        BY <1>6, <2>1
      <3>2. L \in claims'
        BY <1>3, <3>1
      <3>3. L \subseteq C
        BY <3>2 DEF Closed
      <3>4. \A x \in L : thread_refs[x] = thread_refs[k]
        BY DEF Grouping, Together
      <3> QED
        BY <3>3, <3>4 DEF TypeOK
    <2>3. Connected(claims, i, j)
      BY <1>5, <2>1 DEF Grouping, Apart
    <2>4. j \in D
      BY <2>2, <2>3 DEF Connected
    <2> QED
      BY <2>4
  <1> QED
    BY <1>7, <1>8, <1>9 DEF Grouping

----------------------------------------------------------------------------
(***************************************************************************)
(* Invariance.                                                             *)
(***************************************************************************)

\* No step makes what a task has read of its message untrue: a message that is
\* there becomes a tombstone, and nothing else.
LEMMA PlacingNext == TypeOK /\ Placing /\ [Next]_vars => Placing'
  <1> SUFFICES ASSUME TypeOK, Placing, [Next]_vars PROVE Placing'
    OBVIOUS
  <1> USE OwnAssumption
  <1>1. ASSUME NEW t \in Tasks, NEW m \in Msgs, NEW R \in SUBSET Mids, Store(t, m, R)
        PROVE  Placing'
    BY <1>1 DEF Store, Begin, Placing, TypeOK, tables
  <1>2. ASSUME NEW t \in Tasks, NEW m \in Msgs, Resend(t, m)
        PROVE  Placing'
    BY <1>2 DEF Resend, Begin, Placing, TypeOK, tables
  <1>3. ASSUME NEW t \in Tasks, ReadRow(t)
        PROVE  Placing'
    BY <1>3 DEF ReadRow, Placing, TypeOK, tables
  <1>4. ASSUME NEW t \in Tasks, Return(t), UNCHANGED <<msgs, linked>>,
               \A m \in Msgs : msg_threads'[m] # NoThread =>
                   msg_threads[m] # NoThread \/ (m = msg[t] /\ pc[t] # "idle")
        PROVE  Placing'
    BY <1>4 DEF Return, Placing, TypeOK
  <1>5. ASSUME NEW t \in Tasks, Join(t) \/ Start(t)
        PROVE  Placing'
    <2>1. Return(t) /\ UNCHANGED <<msgs, linked>> /\ pc[t] = "assign"
      BY <1>5 DEF Join, Start
    <2>2. \A m \in Msgs : msg_threads'[m] # NoThread =>
             msg_threads[m] # NoThread \/ m = msg[t]
      BY <1>5 DEF Join, Start, Repoint, Existing
    <2> QED
      BY <1>4, <2>1, <2>2
  <1>9. ASSUME NEW t \in Tasks, Fail(t)
        PROVE  Placing'
    BY <1>4, <1>9 DEF Fail, tables
  <1>6. ASSUME NEW m \in Msgs, Trash(m)
        PROVE  Placing'
    BY <1>6 DEF Trash, locals, tables, Placing, TypeOK
  <1>7. ASSUME Prune
        PROVE  Placing'
    BY <1>7 DEF Prune, locals, Placing
  <1>8. CASE UNCHANGED vars
    BY <1>8 DEF vars, locals, tables, Placing
  <1> QED
    BY <1>1, <1>2, <1>3, <1>5, <1>6, <1>7, <1>8, <1>9 DEF Next, Place

\* Placing a message goes through Repoint, with a thread that is there or a new one.
LEMMA AssignRepoints ==
    ASSUME TypeOK, Placing, NEW t \in Tasks, Join(t) \/ Start(t)
    PROVE  /\ headers[t] \in Headers
           /\ msg[t] \in Msgs
           /\ Own[msg[t]] \in headers[t].ids
           /\ claims' = claims \cup {headers[t].ids}
           /\ \E s \in Nat :
                 /\ s # NoThread
                 /\ \/ s \in Oldest(Existing(headers[t]))
                    \/ /\ Existing(headers[t]) = {}
                       /\ s \notin ThreadIds
                 /\ Repoint(msg[t], Existing(headers[t]), s, headers[t])
  <1>1. headers[t] \in Headers /\ Existing(headers[t]) \in SUBSET ThreadIds
    BY ExistingType DEF TypeOK
  <1>2. CASE Join(t)
    <2>1. PICK s \in Oldest(Existing(headers[t])) :
             Repoint(msg[t], Existing(headers[t]), s, headers[t])
      BY <1>2 DEF Join
    <2>2. s \in 1..sequence /\ sequence \in Nat
      BY <1>1 DEF Oldest, TypeOK
    <2>3. s \in Nat /\ s # NoThread
      BY <2>2 DEF NoThread
    <2> QED
      BY <1>1, <1>2, <2>1, <2>3 DEF Join, Placing
  <1>3. CASE Start(t)
    <2>1. sequence + 1 \in Nat /\ sequence + 1 # NoThread /\ sequence + 1 \notin ThreadIds
      BY DEF TypeOK, NoThread
    <2>2. Repoint(msg[t], Existing(headers[t]), sequence + 1, headers[t])
      BY <1>3 DEF Start
    <2> QED
      BY <1>1, <1>3, <2>1, <2>2 DEF Start, Placing
  <1> QED
    BY <1>2, <1>3

\* Every step keeps the threads what the messages connect.
LEMMA GroupingNext == TypeOK /\ Placing /\ Grouping /\ [Next]_vars => Grouping'
  <1> SUFFICES ASSUME TypeOK, Placing, Grouping, [Next]_vars PROVE Grouping'
    OBVIOUS
  <1>1. ASSUME UNCHANGED <<msg_threads, thread_refs, claims>>
        PROVE  Grouping'
    BY <1>1 DEF Grouping, Together, Known, Apart, Assigned, Connected, Closed
  <1>2. ASSUME NEW t \in Tasks, Join(t) \/ Start(t)
        PROVE  Grouping'
    <2>1. PICK s \in Nat : /\ s # NoThread
                           /\ \/ s \in Oldest(Existing(headers[t]))
                              \/ /\ Existing(headers[t]) = {}
                                 /\ s \notin ThreadIds
                           /\ Repoint(msg[t], Existing(headers[t]), s, headers[t])
      BY <1>2, AssignRepoints
    <2>2. \/ s \in Existing(headers[t])
          \/ /\ \A i \in Mids : thread_refs[i] # s
             /\ \A n \in Msgs : msg_threads[n] # s
      BY <2>1 DEF Oldest, TypeOK
    <2>3. /\ headers[t] \in Headers
          /\ msg[t] \in Msgs
          /\ Own[msg[t]] \in headers[t].ids
          /\ claims' = claims \cup {headers[t].ids}
      BY <1>2, AssignRepoints
    <2> QED
      BY <2>1, <2>2, <2>3, RepointGroups
  <1>3. ASSUME NEW t \in Tasks, NEW m \in Msgs,
               Resend(t, m) \/ \E R \in SUBSET Mids : Store(t, m, R)
        PROVE  Grouping'
    BY <1>1, <1>3 DEF Resend, Store, tables
  <1>4. ASSUME NEW t \in Tasks, ReadRow(t) \/ Fail(t)
        PROVE  Grouping'
    BY <1>1, <1>4 DEF ReadRow, Fail, tables
  <1>5. ASSUME NEW m \in Msgs, Trash(m)
        PROVE  Grouping'
    BY <1>1, <1>5 DEF Trash, tables
  <1>6. CASE UNCHANGED vars
    BY <1>1, <1>6 DEF vars, tables
  <1> QED
    BY <1>2, <1>3, <1>4, <1>5, <1>6, PruneGroups DEF Next, Place

\* Every step keeps each thread's row above its messages.
LEMMA RowNext ==
    TypeOK /\ Placing /\ Grouping /\ RowCoversMessages /\ [Next]_vars
        => RowCoversMessages'
  <1> SUFFICES ASSUME TypeOK, Placing, Grouping, RowCoversMessages, [Next]_vars
               PROVE  RowCoversMessages'
    OBVIOUS
  <1>1. ASSUME UNCHANGED <<msg_threads, threads>>,
               \A m \in Assigned : msgs'[m] = "live" => msgs[m] = "live"
        PROVE  RowCoversMessages'
    BY <1>1 DEF RowCoversMessages, Live, Assigned
  <1>2. ASSUME NEW t \in Tasks, NEW m \in Msgs, NEW R \in SUBSET Mids, Store(t, m, R)
        PROVE  RowCoversMessages'
    BY <1>1, <1>2 DEF Store, tables, Placing, Assigned, TypeOK
  <1>3. ASSUME NEW t \in Tasks, NEW m \in Msgs, Resend(t, m)
        PROVE  RowCoversMessages'
    BY <1>1, <1>3 DEF Resend, tables
  <1>4. ASSUME NEW t \in Tasks, ReadRow(t) \/ Fail(t)
        PROVE  RowCoversMessages'
    BY <1>1, <1>4 DEF ReadRow, Fail, tables
  <1>5. ASSUME NEW t \in Tasks, Join(t)
        PROVE  RowCoversMessages'
    <2> DEFINE h == headers[t]
               E == Existing(h)
    <2>1. h \in Headers /\ E \in SUBSET ThreadIds /\ msgs' = msgs
      BY <1>5, ExistingType DEF TypeOK, Join
    <2>2. PICK s \in Oldest(E), merged \in MergedRow(E, h) :
             /\ Repoint(msg[t], E, s, h)
             /\ threads' = [u \in (ThreadIds \ E) \cup {s} |->
                               IF u = s THEN merged ELSE threads[u]]
      BY <1>5 DEF Join
    <2>3. s \in E /\ threads'[s] = merged
      BY <2>2 DEF Oldest
    <2>4. /\ merged.last_activity \in Latest(E, h)
          /\ merged.subject_norm \in Labels(E, h)
      BY <2>2 DEF MergedRow
    <2>5. /\ h.timestamp <= merged.last_activity
          /\ \A e \in E : threads[e].last_activity <= merged.last_activity
      BY <2>4 DEF Latest
    <2>6. /\ h.subject # Blank => merged.subject_norm # Blank
          /\ \A e \in E : threads[e].subject_norm # Blank => merged.subject_norm # Blank
      BY <2>4 DEF Labels, Oldest
    <2>7. /\ msg[t] \in Msgs
          /\ h.timestamp = Timestamp[msg[t]]
          /\ msgs[msg[t]] = "live" => h.subject = Subject[msg[t]]
      BY <1>5 DEF Join, Placing
    <2>8. merged.last_activity \in Nat /\ \A e \in E : threads[e].last_activity \in Nat
      <3>1. merged \in Row /\ \A e \in E : threads[e] \in Row
        BY <2>1, <2>2, MergedRowType DEF TypeOK
      <3> QED
        BY <3>1 DEF Row
    <2> SUFFICES ASSUME NEW m \in Msgs, msgs[m] = "live", msg_threads'[m] # NoThread
                 PROVE  /\ Subject[m] # Blank
                              => threads'[msg_threads'[m]].subject_norm # Blank
                        /\ Timestamp[m] <= threads'[msg_threads'[m]].last_activity
      BY <2>1 DEF RowCoversMessages, Live, Assigned
    <2>9. CASE m = msg[t]
      <3>1. msg_threads'[m] = s
        BY <2>2, <2>9 DEF Repoint
      <3> QED
        BY <2>3, <2>5, <2>6, <2>7, <2>9, <3>1
    <2>10. CASE m # msg[t] /\ msg_threads[m] \in E
      <3>1. msg_threads'[m] = s
        BY <2>2, <2>10 DEF Repoint
      <3>2. m \in Live \cap Assigned
        BY <2>1, <2>10 DEF Live, Assigned, Existing
      <3>3. /\ Subject[m] # Blank => threads[msg_threads[m]].subject_norm # Blank
            /\ Timestamp[m] <= threads[msg_threads[m]].last_activity
        BY <3>2 DEF RowCoversMessages
      <3>4. Timestamp[m] \in Nat
        BY TimestampAssumption
      <3> QED
        BY <2>3, <2>5, <2>6, <2>8, <2>10, <3>1, <3>3, <3>4
    <2>11. CASE m # msg[t] /\ msg_threads[m] \notin E
      <3>1. msg_threads'[m] = msg_threads[m]
        BY <2>2, <2>11 DEF Repoint
      <3>2. m \in Live \cap Assigned /\ msg_threads[m] \in ThreadIds
        BY <3>1 DEF Live, Assigned, TypeOK
      <3>3. threads'[msg_threads[m]] = threads[msg_threads[m]]
        BY <2>2, <2>3, <2>11, <3>2
      <3> QED
        BY <3>1, <3>2, <3>3 DEF RowCoversMessages
    <2> QED
      BY <2>9, <2>10, <2>11
  <1>6. ASSUME NEW t \in Tasks, Start(t)
        PROVE  RowCoversMessages'
    <2> DEFINE h == headers[t]
               s == sequence + 1
    <2>1. /\ msg[t] \in Msgs
          /\ h.timestamp = Timestamp[msg[t]]
          /\ msgs[msg[t]] = "live" => h.subject = Subject[msg[t]]
          /\ msgs' = msgs
      BY <1>6 DEF Start, Placing
    <2>2. /\ s \notin ThreadIds
          /\ threads'[s] = [subject_norm |-> h.subject, last_activity |-> h.timestamp]
          /\ \A u \in ThreadIds : threads'[u] = threads[u]
      BY <1>6 DEF Start, TypeOK
    <2>3. \A m \in Msgs : msg_threads'[m] = IF m = msg[t] THEN s ELSE msg_threads[m]
      BY <1>6 DEF Start, Repoint
    <2>4. \A m \in Assigned : msg_threads[m] \in ThreadIds
      BY DEF Assigned, TypeOK
    <2>5. Timestamp[msg[t]] \in Nat
      BY <2>1, TimestampAssumption
    <2> SUFFICES ASSUME NEW m \in Msgs, msgs[m] = "live", msg_threads'[m] # NoThread
                 PROVE  /\ Subject[m] # Blank
                              => threads'[msg_threads'[m]].subject_norm # Blank
                        /\ Timestamp[m] <= threads'[msg_threads'[m]].last_activity
      BY <2>1 DEF RowCoversMessages, Live, Assigned
    <2>6. CASE m = msg[t]
      BY <2>1, <2>2, <2>3, <2>5, <2>6
    <2>7. CASE m # msg[t]
      BY <2>2, <2>3, <2>4, <2>7 DEF RowCoversMessages, Live, Assigned
    <2> QED
      BY <2>6, <2>7
  <1>7. ASSUME NEW m \in Msgs, Trash(m)
        PROVE  RowCoversMessages'
    BY <1>1, <1>7 DEF Trash, tables, TypeOK, Assigned
  <1>8. ASSUME Prune
        PROVE  RowCoversMessages'
    <2>1. \A m \in Msgs : msg_threads'[m] # NoThread =>
             /\ m \in Live \cap Assigned
             /\ msg_threads'[m] = msg_threads[m]
             /\ threads'[msg_threads[m]] = threads[msg_threads[m]]
      BY <1>8 DEF Prune, Staying, Assigned, TypeOK
    <2> QED
      BY <2>1 DEF RowCoversMessages, Assigned, Live
  <1>9. CASE UNCHANGED vars
    BY <1>1, <1>9 DEF vars, tables
  <1> QED
    BY <1>2, <1>3, <1>4, <1>5, <1>6, <1>7, <1>8, <1>9 DEF Next, Place

\* The inductive invariant holds in every reachable state.
LEMMA Invariance == Spec => []IInv
  <1>1. Init => IInv
    <2> SUFFICES ASSUME Init PROVE IInv
      OBVIOUS
    <2>1. TypeOK
      BY TypeInit
    <2>2. Placing
      BY DEF Init, Placing
    <2>3. Grouping
      BY DEF Init, Grouping, Together, Known, Apart, Assigned
    <2>4. RowCoversMessages
      BY DEF Init, RowCoversMessages, Assigned
    <2> QED
      BY <2>1, <2>2, <2>3, <2>4 DEF IInv
  <1>2. IInv /\ [Next]_vars => IInv'
    BY TypeNext, PlacingNext, GroupingNext, RowNext DEF IInv
  <1> QED
    BY <1>1, <1>2, PTL DEF Spec

----------------------------------------------------------------------------
(***************************************************************************)
(* The theorems.                                                           *)
(***************************************************************************)

\* Every reachable state is well typed: in particular no message and no Message-ID
\* points to a thread that prune or a merge has deleted.
THEOREM TypeCorrect == Spec => []TypeOK
  <1>1. IInv => TypeOK
    BY DEF IInv
  <1> QED
    BY <1>1, Invariance, PTL

\* Conversations do not depend on the order in which messages arrive: they are
\* what the references connect.
THEOREM ThreadsAreComponents == Spec => []GroupedByReferences
  <1>1. IInv => GroupedByReferences
    <2> SUFFICES ASSUME IInv, NEW m \in Assigned, NEW n \in Assigned
                 PROVE  msg_threads[m] = msg_threads[n]
                            <=> Connected(claims, Own[m], Own[n])
      BY DEF GroupedByReferences
    <2>1. Own[m] \in Mids /\ Own[n] \in Mids
      BY OwnAssumption DEF Assigned
    <2>2. /\ thread_refs[Own[m]] = msg_threads[m]
          /\ thread_refs[Own[n]] = msg_threads[n]
          /\ msg_threads[m] # NoThread
      BY DEF IInv, Grouping, Known, Assigned
    <2>3. msg_threads[m] = msg_threads[n] => Connected(claims, Own[m], Own[n])
      BY <2>1, <2>2 DEF IInv, Grouping, Apart
    <2>4. Connected(claims, Own[m], Own[n]) => msg_threads[m] = msg_threads[n]
      BY <2>1, <2>2, ConnectedTogether DEF IInv, Grouping
    <2> QED
      BY <2>3, <2>4
  <1> QED
    BY <1>1, Invariance, PTL

\* No merge hides a label or an activity of a thread it swallows.
THEOREM RowCovers == Spec => []RowCoversMessages
  <1>1. IInv => RowCoversMessages
    BY DEF IInv
  <1> QED
    BY <1>1, Invariance, PTL

\* A message that is there never leaves its conversation for a newer one or for
\* none.
THEOREM ConversationIsKept == Spec => ConversationKept
  <1> DEFINE StaysPut == \A m \in Assigned : msgs'[m] = "live"
                 => msg_threads'[m] # NoThread /\ msg_threads'[m] <= msg_threads[m]
  <1>1. IInv /\ [Next]_vars => [StaysPut]_vars
    <2> SUFFICES ASSUME IInv, Next PROVE StaysPut
      OBVIOUS
    <2>1. \A m \in Assigned : /\ m \in Msgs
                              /\ msg_threads[m] \in Nat
                              /\ msg_threads[m] # NoThread
                              /\ msg_threads[m] \in ThreadIds
      <3>1. \A m \in Assigned : m \in Msgs /\ msg_threads[m] # NoThread
        BY DEF Assigned
      <3>2. \A m \in Assigned : msg_threads[m] \in ThreadIds
        BY <3>1 DEF IInv, TypeOK
      <3>3. ThreadIds \subseteq Nat
        BY DEF IInv, TypeOK
      <3> QED
        BY <3>1, <3>2, <3>3
    <2>2. ASSUME UNCHANGED msg_threads
          PROVE  StaysPut
      BY <2>1, <2>2
    <2>3. ASSUME NEW t \in Tasks, Join(t) \/ Start(t)
          PROVE  StaysPut
      <3>1. PICK s \in Nat : /\ s # NoThread
                             /\ \/ s \in Oldest(Existing(headers[t]))
                                \/ /\ Existing(headers[t]) = {}
                                   /\ s \notin ThreadIds
                             /\ Repoint(msg[t], Existing(headers[t]), s, headers[t])
        BY <2>3, AssignRepoints DEF IInv
      <3>2. Own[msg[t]] \in headers[t].ids
        BY <2>3, AssignRepoints DEF IInv
      <3> SUFFICES ASSUME NEW m \in Assigned
                   PROVE  msg_threads'[m] # NoThread /\ msg_threads'[m] <= msg_threads[m]
        OBVIOUS
      <3>3. CASE m = msg[t]
        <4>1. thread_refs[Own[m]] = msg_threads[m]
          BY DEF IInv, Grouping, Known
        <4>2. msg_threads[m] \in Existing(headers[t])
          BY <2>1, <3>2, <3>3, <4>1 DEF Existing
        <4>3. s <= msg_threads[m]
          BY <3>1, <4>2 DEF Oldest
        <4>4. msg_threads'[m] = s
          BY <2>1, <3>1, <3>3 DEF Repoint
        <4> QED
          BY <3>1, <4>3, <4>4
      <3>4. CASE m # msg[t] /\ msg_threads[m] \in Existing(headers[t])
        <4>1. s <= msg_threads[m]
          BY <3>1, <3>4 DEF Oldest
        <4>2. msg_threads'[m] = s
          BY <2>1, <3>1, <3>4 DEF Repoint
        <4> QED
          BY <3>1, <4>1, <4>2
      <3>5. CASE m # msg[t] /\ msg_threads[m] \notin Existing(headers[t])
        BY <2>1, <3>1, <3>5 DEF Repoint
      <3> QED
        BY <3>3, <3>4, <3>5
    <2>4. ASSUME Prune
          PROVE  StaysPut
      BY <2>1, <2>4 DEF Prune, Staying, Live
    <2> QED
      BY <2>2, <2>3, <2>4
         DEF Next, Place, Store, Resend, ReadRow, Fail, Trash, tables
  <1> QED
    BY <1>1, Invariance, PTL DEF Spec, ConversationKept

----------------------------------------------------------------------------

(***************************************************************************)
(* Sending: the inductive invariant.                                       *)
(***************************************************************************)

\* Where a call of send may be.
Points == {"idle", "contact", "draft", "recipients", "options", "prepare", "policy", "build",
           "done"}

\* What a call holds.
Calls ==
    [pc : Points, request : Requests \cup {NoRecipients}, choice : Padlock,
     chat : {"none", "key", "addr"}, guarantee : BOOLEAN, plaintext : BOOLEAN,
     result : {"none", "refused", "error", "ok"}]

\* What the variables hold.
SendTypes ==
    /\ force \in BOOLEAN
    /\ mode \in Modes
    /\ setting \in Modes \cup {NoOverride}
    /\ override \in [ContactRows -> Modes \cup {NoOverride}]
    /\ keyed \subseteq Addrs
    /\ call \in Calls
    /\ row \in {"none", "draft", "pending", "failed"}
    /\ stored.cc \subseteq Addrs /\ stored.bcc \subseteq Addrs
    /\ option \in Padlock
    /\ undelivered \subseteq Addrs
    /\ mail \in Mails \cup {NoMail}
    /\ strictBy \in {"none", "global", "override"}

\* How far compose::send has come, and what it has stored by then.
Progress ==
    /\ call.pc \notin {"idle", "done"} => call.request \in Requests
    /\ call.pc \notin {"idle", "contact", "done"} => call.chat \in {"key", "addr"}
    /\ call.pc \in {"recipients", "options", "prepare"} => row \in {"none", "draft"}
    /\ call.pc \in {"policy", "build"} => row \in {"none", "pending"}
    /\ call.pc \in {"options", "prepare", "policy", "build"} => stored = call.request
    /\ call.pc \in {"prepare", "policy", "build"} => option = call.choice
    /\ call.pc # "done" => mail = NoMail /\ call.result = "none"

\* What the policy has decided still binds when the mail is built.
Decided ==
    call.pc = "build" =>
        /\ option = "required" => call.guarantee
        /\ strictBy = "override" => call.guarantee
        /\ strictBy = "global" => force /\ ~call.plaintext

\* The parts of SendSafe that need no bound on the addresses.
InClear == RequiredNeverClear /\ StrictNeverClear /\ EnvelopeHasKeys /\ OkMeansQueued

\* The inductive invariant of sending.
SendInv == SendTypes /\ Progress /\ Decided /\ InClear

----------------------------------------------------------------------------
(***************************************************************************)
(* The operators.                                                          *)
(***************************************************************************)

\* The first address of a request, which the chat is with; with one address in To it is the
\* only one.
LEMMA RequestFacts ==
    ASSUME NEW r \in Requests
    PROVE  /\ r.to[1] \in Addrs
           /\ r.cc \subseteq Addrs /\ r.bcc \subseteq Addrs
           /\ MaxTo = 1 => ToSet(r.to) = {r.to[1]}
<1>1. r.to \in SeqOf(Addrs, MaxTo) /\ r.to # <<>> /\ r.cc \subseteq Addrs /\ r.bcc \subseteq Addrs
    BY DEF Requests
<1>2. PICK m \in 0..MaxTo : r.to \in [1..m -> Addrs]
    BY <1>1 DEF SeqOf
<1>3. m # 0
    <2>1. ASSUME m = 0 PROVE r.to = <<>>
        <3>1. 1..m = {}
            BY <2>1
        <3> QED
            BY <1>2, <3>1
    <2> QED
        BY <1>1, <2>1
<1>4. m \in Nat /\ m >= 1 /\ m <= MaxTo
    BY <1>2, <1>3, SendBounds
<1>5. r.to[1] \in Addrs
    BY <1>2, <1>4
<1>6. ASSUME MaxTo = 1 PROVE ToSet(r.to) = {r.to[1]}
    <2>1. m = 1
        BY <1>4, <1>6
    <2>2. 1..m = {1}
        BY <2>1
    <2>3. DOMAIN r.to = {1}
        BY <1>2, <2>2
    <2> QED
        BY <2>3 DEF ToSet
<1> QED
    BY <1>1, <1>5, <1>6

\* The stricter of two modes counts.
LEMMA StricterCounts ==
    ASSUME NEW a \in Nat, NEW b \in Nat
    PROVE  Min({a, b}) \in {a, b} /\ Min({a, b}) <= a /\ Min({a, b}) <= b
<1>1. \E x \in {a, b} : \A y \in {a, b} : x <= y
    <2>1. CASE a <= b
        BY <2>1
    <2>2. CASE b <= a
        BY <2>2
    <2> QED
        BY <2>1, <2>2
<1> QED
    BY <1>1 DEF Min

\* The policy for the contact of the chat: strict if the global mode or the override is.
LEMMA PolicyStrict ==
    ASSUME SendTypes, NEW c \in ContactRows
    PROVE  /\ force => Load = Strict
           /\ ~force => Load # Strict
           /\ force \/ override[c] = Strict => Effective({c}) = Strict
<1>1. Load \in Nat /\ override[c] \in Nat
    BY DEF SendTypes, Load, Modes, Strict, Opportunistic, Lenient, NoOverride
<1>2. {Load} \cup {override[r] : r \in {c}} = {Load, override[c]}
    OBVIOUS
<1>3. /\ Effective({c}) \in Nat
      /\ Effective({c}) <= Load
      /\ Effective({c}) <= override[c]
    <2>1. Effective({c}) = Min({Load, override[c]})
        BY <1>2 DEF Effective
    <2> QED
        BY <1>1, <2>1, StricterCounts
<1>4. (force => Load = Strict) /\ (~force => Load # Strict)
    BY DEF SendTypes, Load, Modes, Strict, Opportunistic, Lenient
<1> QED
    BY <1>1, <1>3, <1>4 DEF Strict

----------------------------------------------------------------------------
(***************************************************************************)
(* Every step keeps the invariant.                                         *)
(***************************************************************************)

\* A call that goes on to its next point keeps its local variables.
LEMMA GoesOn ==
    ASSUME NEW c \in Calls, NEW p \in Points
    PROVE  /\ [c EXCEPT !.pc = p] \in Calls
           /\ [c EXCEPT !.pc = p].pc = p
           /\ [c EXCEPT !.pc = p].request = c.request
           /\ [c EXCEPT !.pc = p].choice = c.choice
           /\ [c EXCEPT !.pc = p].chat = c.chat
           /\ [c EXCEPT !.pc = p].result = c.result
BY DEF Calls

\* Settings, keys and drafts change while the call runs.
LEMMA SettingsKeep ==
    ASSUME SendInv,
           \/ \E m \in Modes : SetModeForce(m)
           \/ SetModeMode
           \/ \E r \in ContactRows, m \in Modes \cup {NoOverride} : SetForContact(r, m)
           \/ \E a \in Addrs : KeyChanges(a)
           \/ SaveDraft
    PROVE  SendInv'
<1>1. UNCHANGED <<call, stored, option, undelivered, mail>>
    BY DEF SetModeForce, SetModeMode, SetForContact, KeyChanges, SaveDraft, Change
<1>2. strictBy' \in {"none", strictBy} /\ (strictBy' = "global" => force' = TRUE \/ force' = force)
    BY DEF SetModeForce, SetModeMode, SetForContact, KeyChanges, SaveDraft, Change, StillStrict
<1>3. row' = row \/ (row = "draft" /\ row' = "none")
    BY DEF SetModeForce, SetModeMode, SetForContact, KeyChanges, SaveDraft
<1>4. SendTypes'
    <2>1. /\ force' \in BOOLEAN
          /\ mode' \in Modes
          /\ setting' \in Modes \cup {NoOverride}
          /\ override' \in [ContactRows -> Modes \cup {NoOverride}]
          /\ keyed' \subseteq Addrs
        BY DEF SendInv, SendTypes, SetModeForce, SetModeMode, SetForContact, KeyChanges, SaveDraft
    <2> QED
        BY <1>1, <1>2, <1>3, <2>1 DEF SendInv, SendTypes
<1>5. Progress'
    BY <1>1, <1>3 DEF SendInv, Progress
<1>6. Decided'
    BY <1>1, <1>2, <1>4 DEF SendInv, Decided, SendTypes
<1>7. InClear'
    BY <1>1, <1>2, <1>3
    DEF SendInv, InClear, RequiredNeverClear, StrictNeverClear, EnvelopeHasKeys, OkMeansQueued
<1> QED
    BY <1>4, <1>5, <1>6, <1>7 DEF SendInv

\* The steps of compose::send up to the policy, of which each stores one thing.
LEMMA StoringKeeps ==
    ASSUME SendInv,
           \/ \E r \in Requests, c \in Padlock : Compose(r, c)
           \/ PickContact \/ DoSetDraft \/ SetRecipients \/ SetOptions \/ PrepareMsgRaw
    PROVE  SendInv'
<1>1. UNCHANGED <<force, mode, setting, override, keyed, undelivered, mail, strictBy>>
    BY DEF Compose, PickContact, DoSetDraft, SetRecipients, SetOptions, PrepareMsgRaw, settingVars
<1>2. mail = NoMail /\ call.result = "none"
    BY DEF Compose, PickContact, DoSetDraft, SetRecipients, SetOptions, PrepareMsgRaw,
           SendInv, Progress
<1>3. call'.result # "ok" /\ call'.pc # "build"
    BY <1>2 DEF Compose, PickContact, DoSetDraft, SetRecipients, SetOptions, PrepareMsgRaw,
           SendInv, SendTypes, Calls, Goto
<1>4. Decided' /\ InClear'
    BY <1>1, <1>2, <1>3
    DEF Decided, InClear, RequiredNeverClear, StrictNeverClear, EnvelopeHasKeys, OkMeansQueued
<1>5. ASSUME NEW r \in Requests, NEW c \in Padlock, Compose(r, c)
      PROVE  SendTypes' /\ Progress'
    BY <1>1, <1>5 DEF Compose, SendInv, SendTypes, Progress, Calls, Points
<1>6. CASE PickContact
    <2> DEFINE c == IF call.request.to[1] \in keyed THEN "key" ELSE "addr"
    <2>1. call' = [call EXCEPT !.pc = "draft", !.chat = c] /\ c \in {"key", "addr"}
        BY <1>6 DEF PickContact
    <2> HIDE DEF c
    <2>2. /\ call' \in Calls
          /\ call'.pc = "draft"
          /\ call'.request = call.request
          /\ call'.chat = c
          /\ call'.result = call.result
        BY <2>1 DEF SendInv, SendTypes, Calls, Points
    <2>3. SendTypes'
        BY <1>1, <1>6, <2>2 DEF PickContact, SendInv, SendTypes, Progress
    <2>4. Progress'
        BY <1>1, <1>2, <1>6, <2>1, <2>2 DEF PickContact, SendInv, Progress
    <2> QED
        BY <1>4, <2>3, <2>4 DEF SendInv
<1>7. CASE DoSetDraft
    <2>1. call' = [call EXCEPT !.pc = "recipients"] /\ call \in Calls /\ "recipients" \in Points
        BY <1>7 DEF DoSetDraft, Goto, SendInv, SendTypes, Points
    <2>2. /\ call' \in Calls
          /\ call'.pc = "recipients"
          /\ call'.request = call.request
          /\ call'.choice = call.choice
          /\ call'.chat = call.chat
          /\ call'.result = call.result
        BY <2>1, GoesOn
    <2>3. SendTypes'
        BY <1>1, <1>7, <2>2 DEF DoSetDraft, SendInv, SendTypes, Progress
    <2>4. Progress'
        BY <1>1, <1>2, <1>7, <2>2 DEF DoSetDraft, SendInv, Progress
    <2> QED
        BY <1>4, <2>3, <2>4 DEF SendInv
<1>8. CASE SetRecipients
    <2>1. call' = [call EXCEPT !.pc = "options"] /\ call \in Calls /\ "options" \in Points
        BY <1>8 DEF SetRecipients, Goto, SendInv, SendTypes, Points
    <2>2. /\ call' \in Calls
          /\ call'.pc = "options"
          /\ call'.request = call.request
          /\ call'.choice = call.choice
          /\ call'.chat = call.chat
          /\ call'.result = call.result
        BY <2>1, GoesOn
    <2>3. SendTypes'
        BY <1>1, <1>8, <2>2, RequestFacts DEF SetRecipients, SendInv, SendTypes, Progress
    <2>4. Progress'
        BY <1>1, <1>2, <1>8, <2>2 DEF SetRecipients, SendInv, Progress
    <2> QED
        BY <1>4, <2>3, <2>4 DEF SendInv
<1>9. CASE SetOptions
    <2>1. call' = [call EXCEPT !.pc = "prepare"] /\ call \in Calls /\ "prepare" \in Points
        BY <1>9 DEF SetOptions, Goto, SendInv, SendTypes, Points
    <2>2. /\ call' \in Calls
          /\ call'.pc = "prepare"
          /\ call'.request = call.request
          /\ call'.choice = call.choice
          /\ call'.chat = call.chat
          /\ call'.result = call.result
        BY <2>1, GoesOn
    <2>3. SendTypes'
        BY <1>1, <1>9, <2>2 DEF SetOptions, SendInv, SendTypes, Calls
    <2>4. Progress'
        BY <1>1, <1>2, <1>9, <2>2 DEF SetOptions, SendInv, Progress
    <2> QED
        BY <1>4, <2>3, <2>4 DEF SendInv
<1>10. CASE PrepareMsgRaw
    <2>1. call' = [call EXCEPT !.pc = "policy"] /\ call \in Calls /\ "policy" \in Points
        BY <1>10 DEF PrepareMsgRaw, Goto, SendInv, SendTypes, Points
    <2>2. /\ call' \in Calls
          /\ call'.pc = "policy"
          /\ call'.request = call.request
          /\ call'.choice = call.choice
          /\ call'.chat = call.chat
          /\ call'.result = call.result
        BY <2>1, GoesOn
    <2>3. SendTypes'
        BY <1>1, <1>10, <2>2 DEF PrepareMsgRaw, SendInv, SendTypes, Progress
    <2>4. Progress'
        BY <1>1, <1>2, <1>10, <2>2 DEF PrepareMsgRaw, SendInv, Progress
    <2> QED
        BY <1>4, <2>3, <2>4 DEF SendInv
<1> QED
    BY <1>4, <1>5, <1>6, <1>7, <1>8, <1>9, <1>10 DEF SendInv

\* The policy decides by what holds when it runs.
LEMMA PolicyKeeps == SendInv /\ PrepareSend => SendInv'
<1> SUFFICES ASSUME SendInv, PrepareSend PROVE SendInv'
    OBVIOUS
<1> DEFINE m == Effective({ChatRow})
           missing == MissingKeys({ChatRow})
<1>1. /\ call.pc = "policy"
      /\ strictBy' = IF force THEN "global"
                     ELSE IF override[ChatRow] = Strict THEN "override" ELSE "none"
      /\ call' = IF Refused(m, missing)
                 THEN [call EXCEPT !.pc = "done", !.result = "error"]
                 ELSE [call EXCEPT !.pc = "build", !.guarantee = GuaranteeE2ee(m),
                                   !.plaintext = ForcePlaintext(m, missing)]
      /\ UNCHANGED <<row, stored, option, undelivered, mail>>
      /\ UNCHANGED <<force, mode, setting, override, keyed>>
    BY DEF PrepareSend, settingVars
<1>2. ChatRow \in ContactRows
    BY <1>1, RequestFacts DEF SendInv, Progress, ChatRow, ContactRows
<1>3. /\ force => Load = Strict
      /\ ~force => Load # Strict
      /\ force \/ override[ChatRow] = Strict => m = Strict
    BY <1>2, PolicyStrict DEF SendInv
<1>4. mail = NoMail
    BY <1>1 DEF SendInv, Progress
<1>5. GuaranteeE2ee(m) \in BOOLEAN /\ ForcePlaintext(m, missing) \in BOOLEAN
    BY DEF GuaranteeE2ee, ForcePlaintext
<1>6. CASE Refused(m, missing)
    BY <1>1, <1>4, <1>6
    DEF SendInv, SendTypes, Progress, Decided, InClear, Calls, Points, RequiredNeverClear,
        StrictNeverClear, EnvelopeHasKeys, OkMeansQueued
<1>7. CASE ~Refused(m, missing)
    <2>1. call' = [call EXCEPT !.pc = "build", !.guarantee = GuaranteeE2ee(m),
                               !.plaintext = ForcePlaintext(m, missing)]
        BY <1>1, <1>7
    <2>2. /\ option = "required" => GuaranteeE2ee(m)
          /\ strictBy' = "override" => GuaranteeE2ee(m)
          /\ strictBy' = "global" => force /\ ~ForcePlaintext(m, missing)
        BY <1>1, <1>3, <1>7
        DEF Refused, OverrideOnly, GuaranteeE2ee, ForcePlaintext, SendInv, SendTypes, Padlock,
            Strict, Lenient
    <2> HIDE DEF m, missing
    <2>3. /\ call'.pc = "build"
          /\ call'.guarantee = GuaranteeE2ee(m)
          /\ call'.plaintext = ForcePlaintext(m, missing)
          /\ call'.request = call.request
          /\ call'.choice = call.choice
          /\ call'.chat = call.chat
          /\ call'.result = call.result
          /\ call' \in Calls
        BY <1>5, <2>1 DEF SendInv, SendTypes, Calls, Points
    <2>4. SendTypes'
        BY <1>1, <2>3 DEF SendInv, SendTypes
    <2>5. Progress'
        BY <1>1, <2>3 DEF SendInv, Progress
    <2>6. Decided'
        BY <1>1, <2>2, <2>3 DEF Decided
    <2>7. InClear'
        BY <1>1, <1>4, <2>3 DEF SendInv, Progress, InClear, RequiredNeverClear,
            StrictNeverClear, EnvelopeHasKeys, OkMeansQueued
    <2> QED
        BY <2>4, <2>5, <2>6, <2>7 DEF SendInv
<1> QED
    BY <1>6, <1>7

\* The mail is built and queued by what was stored and decided.
LEMMA BuildKeeps ==
    ASSUME SendInv, CreateSendMsgJobs
    PROVE  /\ SendInv'
           /\ call.request \in Requests /\ call'.request = call.request
           /\ mail' # NoMail =>
                 {call.request.to[1]} \cup call.request.cc \subseteq mail'.envelope \cup undelivered'
<1> DEFINE f == FromMsg
           primary == call.request.to[1]
           needs_encryption == call.guarantee \/ (~call.plaintext /\ force)
           fails == ~f.ok \/ (needs_encryption /\ ~f.encrypted)
<1>1. /\ call.pc = "build"
      /\ row' = IF fails /\ row = "pending" THEN "failed" ELSE row
      /\ UNCHANGED <<option, strictBy, force, mode, setting, override, keyed>>
    BY DEF CreateSendMsgJobs, settingVars
<1>2. /\ call \in Calls /\ call.request \in Requests /\ primary \in Addrs
      /\ call.chat \in {"key", "addr"} /\ row \in {"none", "pending"}
      /\ stored = call.request /\ option = call.choice /\ mail = NoMail
    BY <1>1, RequestFacts DEF SendInv, SendTypes, Progress
<1>3. CASE fails
    <2>1. call' = [call EXCEPT !.pc = "done", !.result = "error"] /\ UNCHANGED <<stored, undelivered, mail>>
        BY <1>3 DEF CreateSendMsgJobs, Reports
    <2>2. /\ call' \in Calls /\ call'.pc = "done" /\ call'.result = "error"
          /\ call'.request = call.request
        BY <1>2, <2>1 DEF Calls, Points
    <2>3. SendTypes'
        BY <1>1, <2>1, <2>2 DEF SendInv, SendTypes
    <2>4. Progress' /\ Decided' /\ InClear'
        BY <1>2, <2>1, <2>2 DEF Progress, Decided, InClear, RequiredNeverClear, StrictNeverClear,
            EnvelopeHasKeys, OkMeansQueued
    <2> QED
        BY <1>2, <2>1, <2>2, <2>3, <2>4 DEF SendInv
<1>4. CASE ~fails
    <2>1. /\ call' = [call EXCEPT !.pc = "done", !.result = "ok"]
          /\ stored' = [to |-> <<f.to>>, cc |-> f.cc, bcc |-> stored.bcc]
          /\ undelivered' = Dropped(f)
          /\ mail' = [encrypted |-> f.encrypted, keys |-> f.keys, envelope |-> f.envelope]
        BY <1>4 DEF CreateSendMsgJobs, Reports
    <2> DEFINE cc == stored.cc \ {primary}
               others == cc \cup ((stored.bcc \ {primary}) \ stored.cc)
               keys == Keys(primary, others)
    <2>2. /\ f.ok = Buildable(keys)
          /\ f.encrypted = ChatEncrypted
          /\ f.keys = keys
          /\ f.envelope = Retain(ChatEncrypted, keys, {primary} \cup others)
          /\ f.to = primary
          /\ f.cc = cc
        BY DEF FromMsg, ExtraRecipients
    <2>3. /\ cc \subseteq Addrs /\ others \subseteq Addrs /\ keys \subseteq Addrs
          /\ stored.bcc \subseteq Addrs
        BY <1>2 DEF SendInv, SendTypes, Keys
    <2> HIDE DEF f, keys, others, needs_encryption
    <2>4. ChatEncrypted \in BOOLEAN /\ f.ok /\ (needs_encryption => f.encrypted)
        BY <1>4 DEF ChatEncrypted
    <2>5. /\ call' \in Calls /\ call'.pc = "done" /\ call'.result = "ok"
          /\ call'.request = call.request /\ call'.choice = call.choice
        BY <1>2, <2>1 DEF Calls, Points
    <2>6. /\ mail' \in Mails /\ mail' # NoMail
          /\ mail'.encrypted = ChatEncrypted
          /\ mail'.keys = keys
          /\ mail'.envelope = IF ChatEncrypted THEN keys ELSE {primary} \cup others
        BY <1>2, <2>1, <2>2, <2>3, <2>4, NoMailAssumption DEF Mails, Retain
    <2>7. undelivered' = ({primary} \cup cc) \ mail'.envelope
        BY <2>1, <2>2 DEF Dropped
    <2>8. row = "pending" /\ row' = "pending" /\ (ChatEncrypted => keys # {})
        BY <1>1, <1>2, <1>4, <2>2, <2>4 DEF Buildable
    <2>9. stored'.cc = cc /\ stored'.bcc = stored.bcc
        BY <2>1, <2>2
    <2>10. SendTypes'
        BY <1>1, <1>2, <2>3, <2>5, <2>6, <2>7, <2>8, <2>9 DEF SendInv, SendTypes
    <2>11. Progress' /\ Decided'
        BY <2>5 DEF Progress, Decided
    <2>12. RequiredNeverClear' /\ StrictNeverClear'
        BY <1>1, <1>2, <2>2, <2>4, <2>5, <2>6
        DEF needs_encryption, SendInv, SendTypes, Decided, RequiredNeverClear, StrictNeverClear
    <2>13. EnvelopeHasKeys' /\ OkMeansQueued'
        BY <2>6, <2>8 DEF EnvelopeHasKeys, OkMeansQueued
    <2>14. {primary} \cup call.request.cc \subseteq mail'.envelope \cup undelivered'
        BY <1>2, <2>7
    <2> QED
        BY <1>2, <2>5, <2>10, <2>11, <2>12, <2>13, <2>14 DEF SendInv, InClear
<1> QED
    BY <1>3, <1>4

\* Every step keeps the invariant.
LEMMA SendNextInv == SendInv /\ [SendNext]_sendVars => SendInv'
<1> SUFFICES ASSUME SendInv, [SendNext]_sendVars PROVE SendInv'
    OBVIOUS
<1>1. CASE UNCHANGED sendVars
    BY <1>1 DEF sendVars, SendInv, SendTypes, Progress, Decided, InClear, RequiredNeverClear,
        StrictNeverClear, EnvelopeHasKeys, OkMeansQueued
<1>2. CASE SendNext
    BY <1>2, SettingsKeep, StoringKeeps, PolicyKeeps, BuildKeeps DEF SendNext
<1> QED
    BY <1>1, <1>2

\* The empty composer.
LEMMA SendInitInv == SendInit => SendInv
<1> SUFFICES ASSUME SendInit PROVE SendInv
    OBVIOUS
<1>1. call \in Calls /\ call.pc = "idle" /\ call.result = "none" /\ call.choice = "auto"
    BY DEF SendInit, Calls, Points, Padlock
<1>2. SendTypes
    BY <1>1 DEF SendInit, SendTypes, Modes, Padlock, NoRecipients
<1>3. Progress /\ Decided /\ InClear
    BY <1>1 DEF SendInit, Progress, Decided, InClear, RequiredNeverClear, StrictNeverClear,
        EnvelopeHasKeys, OkMeansQueued
<1> QED
    BY <1>2, <1>3 DEF SendInv

----------------------------------------------------------------------------
(***************************************************************************)
(* What sending promises.                                                  *)
(***************************************************************************)

\* Whatever settings, keys and drafts become while the message is on its way: what the user
\* marked as encrypted, and what goes to an end-to-end conversation, is never queued in
\* clear, an encrypted mail goes only to those it has keys of, and send reports success only
\* for a mail that is queued with its row.
THEOREM NeverInClear == SendSpec => []InClear
<1>1. SendInv => InClear
    BY DEF SendInv
<1> QED
    BY <1>1, SendInitInv, SendNextInv, PTL DEF SendSpec

\* And with one address in To, everyone the message names gets it or is recorded as not
\* reached.
THEOREM SentAsAsked == ASSUME MaxTo = 1 PROVE SendSpec => []SendSafe
<1> DEFINE Accounted == mail # NoMail => call.request \in Requests
                            /\ {call.request.to[1]} \cup call.request.cc
                                   \subseteq mail.envelope \cup undelivered
<1>1. SendInit => Accounted
    BY DEF SendInit
<1>2. SendInv /\ Accounted /\ [SendNext]_sendVars => Accounted'
    <2> SUFFICES ASSUME SendInv, Accounted, [SendNext]_sendVars PROVE Accounted'
        OBVIOUS
    <2>1. CASE UNCHANGED sendVars
        BY <2>1 DEF sendVars
    <2>2. CASE CreateSendMsgJobs
        BY <2>2, BuildKeeps
    <2>3. ASSUME \/ \E m \in Modes : SetModeForce(m)
                 \/ SetModeMode
                 \/ \E r \in ContactRows, m \in Modes \cup {NoOverride} : SetForContact(r, m)
                 \/ \E a \in Addrs : KeyChanges(a)
                 \/ SaveDraft
          PROVE  Accounted'
        BY <2>3 DEF SetModeForce, SetModeMode, SetForContact, KeyChanges, SaveDraft, Change
    <2>4. ASSUME \/ \E r \in Requests, c \in Padlock : Compose(r, c)
                 \/ PickContact \/ DoSetDraft \/ SetRecipients \/ SetOptions \/ PrepareMsgRaw
                 \/ PrepareSend
          PROVE  Accounted'
        BY <2>4 DEF Compose, PickContact, DoSetDraft, SetRecipients, SetOptions, PrepareMsgRaw,
            PrepareSend, SendInv, Progress
    <2> QED
        BY <2>1, <2>2, <2>3, <2>4 DEF SendNext
<1>3. SendInv /\ Accounted => SendSafe
    <2> SUFFICES ASSUME SendInv, Accounted PROVE SendSafe
        OBVIOUS
    <2>1. SendTypeOK
        BY DEF SendInv, SendTypes, SendTypeOK, Calls
    <2>2. VisibleAccounted
        BY RequestFacts DEF VisibleAccounted
    <2> QED
        BY <2>1, <2>2 DEF SendSafe, SendInv, InClear
<1> HIDE DEF Accounted
<1> QED
    BY <1>1, <1>2, <1>3, SendInitInv, SendNextInv, PTL DEF SendSpec

----------------------------------------------------------------------------
(***************************************************************************)
(* The outgoing queue: the inductive invariant.                            *)
(***************************************************************************)

\* Who may be on a list, the loop's places, the places with a list in hand, a row of smtp and
\* what is recorded of it.
People == ToSet(Members) \cup {Newcomer, Self}
Steps == {"idle", "jobs", "giveup", "send", "progress", "sent", "refused", "check"}
Serving == {"send", "progress", "sent"}
Job == [part : Parts, recipients : Seq(People), retries : 0 .. RetryLimit]
Reach == [part : Parts, to : SUBSET People, due : SUBSET People]

\* A list of recipients: everybody once, our own address last.
ToSelf(s) == s \in Seq(People) /\ s # <<>> /\ IsInjective(s) /\ Last(s) = Self

\* The types, and that a job belongs to one of the message's parts and lists each recipient once.
OutboxTypes ==
    /\ split \in {{}, {"whole"}, {"pre", "post"}}
    /\ resending => split # {}
    /\ members \in Seq(People) /\ IsInjective(members) /\ Self \notin ToSet(members)
    /\ ToSet(Members) \subseteq ToSet(members)
    /\ state \in {"pending", "delivered", "failed", "undefined"}
    /\ nextRow \in Nat \ {0}
    /\ reached \in [1 .. nextRow - 1 -> Reach]
    /\ DOMAIN jobs \subseteq 1 .. nextRow - 1
    /\ jobs \in [DOMAIN jobs -> Job]
    /\ \A r \in DOMAIN jobs :
          jobs[r].part \in split /\ jobs[r].part = reached[r].part /\ ToSelf(jobs[r].recipients)
    /\ loop = [pc |-> loop.pc, todo |-> loop.todo, row |-> loop.row, unsent |-> loop.unsent]
    /\ loop.pc \in Steps

\* What the loop has in hand is what the row says, as long as there is one.
LoopHolds ==
    /\ loop.pc \in Serving =>
          /\ loop.row \in DOMAIN reached /\ ToSelf(loop.unsent)
          /\ loop.row \in DOMAIN jobs => jobs[loop.row].recipients = loop.unsent
    /\ loop.pc = "refused" => loop.row \in DOMAIN reached
    /\ loop.pc = "progress" => Rest(loop.unsent) # <<>>
    /\ loop.pc = "sent" => Rest(loop.unsent) = <<>>

\* The part p reached all it was first sent to.
Complete(p) == ToSet(Members) \subseteq Served(p)

\* A job has reached all the others; our own copy comes with the last chunk.
AllOnList ==
    /\ \A r \in DOMAIN jobs : ToSet(Members) \subseteq reached[r].to \cup ToSet(jobs[r].recipients)
    /\ loop.pc \in Serving => ToSet(Members) \subseteq reached[loop.row].to \cup ToSet(loop.unsent)
    /\ loop.pc \in {"progress", "sent"} => Chunk(loop.unsent) \subseteq reached[loop.row].to
    /\ \A p \in copies : Complete(p)

\* The message does not count as failed.
Open == state \in {"pending", "delivered"}

\* A refused message counts as sent again only with other jobs in the queue.
RefusedAgain ==
    loop.pc = "refused" /\ loop.row \in DOMAIN jobs /\ Open =>
        resending \/ \E r \in DOMAIN jobs \ {loop.row} : jobs[r].part = jobs[loop.row].part

\* A part that is not complete is in the queue, or somebody is about to say that it failed.
Queued ==
    ~cut /\ Open => \A p \in split :
        \/ Complete(p) \/ resending \/ deleting \/ loop.pc = "giveup"
        \/ \E r \in DOMAIN jobs : jobs[r].part = p

\* Who is still on a job's list was not served by it, unless we cannot know.
Once ==
    /\ \A r \in DOMAIN jobs \ unsure : 
          \/ loop.pc \in {"progress", "sent"} /\ loop.row = r
          \/ ToSet(jobs[r].recipients) \cap reached[r].to = {}
    /\ loop.pc = "send" /\ loop.row \notin unsure => ToSet(loop.unsent) \cap reached[loop.row].to = {}
    /\ loop.pc = "progress" /\ loop.row \notin unsure => ToSet(Rest(loop.unsent)) \cap reached[loop.row].to = {}
    /\ twice \subseteq unsure

\* The inductive invariant of the queue.
OutboxInv ==
    OutboxTypes /\ LoopHolds /\ AllOnList /\ RefusedAgain /\ Queued /\ PendingHasJob /\ Once

----------------------------------------------------------------------------
(***************************************************************************)
(* Lists of recipients.                                                    *)
(***************************************************************************)

\* The members of a list.
LEMMA ListMembers ==
    ASSUME NEW S, NEW s \in Seq(S)
    PROVE  ToSet(s) = {s[i] : i \in 1 .. Len(s)} /\ ToSet(s) \subseteq S
BY LenProperties DEF ToSet

\* The smaller of two numbers.
LEMMA MinOf ==
    \A a, b \in Nat : (a <= b => Min({a, b}) = a) /\ (b <= a => Min({a, b}) = b)
BY DEF Min

\* A list without its first c members.
LEMMA Remainder ==
    ASSUME NEW S, NEW s \in Seq(S), NEW c \in Nat, NEW n \in Nat, n = Len(s), c <= n
    PROVE  /\ SubSeq(s, c + 1, n) \in Seq(S) /\ Len(SubSeq(s, c + 1, n)) = n - c
           /\ \A i \in 1 .. n - c : SubSeq(s, c + 1, n)[i] = s[c + i]
<1> DEFINE t == [i \in 1 .. n - c |-> s[c + i]]
<1>1. \A i \in 1 .. n - c : c + i \in 1 .. n
    OBVIOUS
<1>2. \A i \in 1 .. n - c : s[c + i] \in S
    BY <1>1, ElementOfSeq
<1>3. SubSeq(s, c + 1, n) = t
    OBVIOUS
<1>4. n - c \in Nat
    OBVIOUS
<1>5. t \in Seq(S) /\ Len(t) = n - c
    BY <1>2, <1>4, IsASeq
<1> QED
    BY <1>3, <1>5

\* A chunk and the rest of a list: our own address is in the last chunk.
LEMMA ChunkFacts ==
    ASSUME NEW s, ToSelf(s)
    PROVE  /\ ToSet(s) = Chunk(s) \cup ToSet(Rest(s)) /\ ToSet(s) \subseteq People
           /\ Chunk(s) \cap ToSet(Rest(s)) = {}
           /\ Rest(s) # <<>> => ToSelf(Rest(s))
           /\ Rest(s) = <<>> => Chunk(s) = ToSet(s)
           /\ Self \in Chunk(s) => Rest(s) = <<>>
<1> DEFINE n == Len(s)
           c == ChunkSize
<1>1. s \in Seq(People) /\ n \in Nat /\ n > 0 /\ DOMAIN s = 1 .. n /\ c \in Nat /\ c > 0
    BY LimitsAssumption, LenProperties, EmptySeq DEF ToSelf
<1>2. ToSet(s) = {s[i] : i \in 1 .. n} /\ ToSet(s) \subseteq People
    BY <1>1, ListMembers
<1>3. s[n] = Self /\ \A i, j \in 1 .. n : s[i] = s[j] => i = j
    BY <1>1 DEF ToSelf, Last, IsInjective
<1>4. CASE n <= c
    <2>1. Min({c, n}) = n
        BY <1>1, <1>4, MinOf
    <2>2. SubSeq(s, 1, n) = s
        BY <1>1, SubSeqFull
    <2>3. Rest(s) = <<>>
        BY <1>1, <1>4, SubSeqEmpty DEF Rest
    <2>4. Chunk(s) = ToSet(s)
        BY <2>1, <2>2 DEF Chunk
    <2>5. ToSet(<<>>) = {}
        BY DEF ToSet
    <2> QED
        BY <1>2, <2>3, <2>4, <2>5
<1>5. CASE n > c
    <2>1. Min({c, n}) = c
        BY <1>1, <1>5, MinOf
    <2>2. /\ SubSeq(s, 1, c) \in Seq(People) /\ Len(SubSeq(s, 1, c)) = c
          /\ \A i \in 1 .. c : SubSeq(s, 1, c)[i] = s[i]
        BY <1>1, <1>5, SubSeqProperties, ElementOfSeq
    <2>3. /\ Rest(s) \in Seq(People) /\ Len(Rest(s)) = n - c
          /\ \A i \in 1 .. n - c : Rest(s)[i] = s[c + i]
        <3>1. Rest(s) = SubSeq(s, c + 1, n) /\ n = Len(s) /\ c <= n
            BY <1>1, <1>5 DEF Rest
        <3> HIDE DEF n, c
        <3>2. /\ SubSeq(s, c + 1, n) \in Seq(People) /\ Len(SubSeq(s, c + 1, n)) = n - c
              /\ \A i \in 1 .. n - c : SubSeq(s, c + 1, n)[i] = s[c + i]
            <4>1. c \in Nat
                BY <1>1
            <4>2. n \in Nat
                BY <1>1
            <4>3. s \in Seq(People)
                BY <1>1
            <4>4. n = Len(s)
                BY <3>1
            <4>5. c <= n
                BY <3>1
            <4> QED
                BY <4>1, <4>2, <4>3, <4>4, <4>5, Remainder
        <3> QED
            BY <3>1, <3>2, Zenon
    <2>4. Chunk(s) = {s[i] : i \in 1 .. c}
        <3> DEFINE f == SubSeq(s, 1, c)
        <3>1. Chunk(s) = ToSet(f) /\ f \in Seq(People) /\ Len(f) = c
            BY <2>1, <2>2 DEF Chunk
        <3> HIDE DEF f
        <3>2. Chunk(s) = {f[i] : i \in 1 .. c}
            BY <3>1, ListMembers
        <3>3. \A i \in 1 .. c : f[i] = s[i]
            BY <2>2 DEF f
        <3> QED
            BY <3>2, <3>3
    <2>5. ToSet(Rest(s)) = {s[i] : i \in c + 1 .. n}
        <3>1. ToSet(Rest(s)) = {Rest(s)[i] : i \in 1 .. n - c}
            BY <2>3, ListMembers
        <3>2. \A i \in c + 1 .. n : i - c \in 1 .. n - c /\ c + (i - c) = i
            BY <1>1, <1>5
        <3>3. \A i \in 1 .. n - c : c + i \in c + 1 .. n
            BY <1>1, <1>5
        <3> QED
            BY <2>3, <3>1, <3>2, <3>3
    <2>6. 1 .. n = (1 .. c) \cup (c + 1 .. n) /\ (1 .. c) \cap (c + 1 .. n) = {} /\ n \in c + 1 .. n
        BY <1>1, <1>5
    <2>7. ToSet(s) = Chunk(s) \cup ToSet(Rest(s)) /\ Chunk(s) \cap ToSet(Rest(s)) = {} /\ Self \notin Chunk(s)
        BY <1>2, <1>3, <2>4, <2>5, <2>6
    <2>8. Rest(s) # <<>>
        BY <1>1, <1>5, <2>3
    <2>9. ToSelf(Rest(s))
        <3>1. Last(Rest(s)) = Self
            <4>1. n - c \in 1 .. n - c /\ c + (n - c) = n
                BY <1>1, <1>5
            <4> QED
                BY <1>3, <2>3, <4>1 DEF Last
        <3>2. IsInjective(Rest(s))
            <4>1. DOMAIN Rest(s) = 1 .. n - c
                BY <2>3, LenProperties
            <4>2. \A i \in 1 .. n - c : c + i \in 1 .. n
                BY <1>1, <1>5
            <4>3. \A i, j \in 1 .. n - c : c + i = c + j => i = j
                BY <1>1, <1>5
            <4> QED
                BY <1>3, <2>3, <4>1, <4>2, <4>3 DEF IsInjective
        <3> QED
            BY <2>3, <2>8, <3>1, <3>2 DEF ToSelf
    <2> QED
        BY <1>2, <2>7, <2>8, <2>9
<1> QED
    BY <1>1, <1>4, <1>5

\* One more on a list.
LEMMA OneMore ==
    ASSUME NEW m \in Seq(People), NEW x \in People, IsInjective(m), x \notin ToSet(m),
           NEW s, s = Append(m, x)
    PROVE  /\ s \in Seq(People) /\ IsInjective(s) /\ ToSet(s) = ToSet(m) \cup {x}
           /\ s # <<>> /\ Last(s) = x
<1> DEFINE n == Len(m)
<1>1. n \in Nat /\ DOMAIN m = 1 .. n /\ ToSet(m) = {m[i] : i \in 1 .. n}
    BY LenProperties, ListMembers
<1>2. /\ s \in Seq(People) /\ Len(s) = n + 1 /\ s[n + 1] = x
      /\ \A i \in 1 .. n : s[i] = m[i]
    BY <1>1
<1>3. DOMAIN s = 1 .. n + 1 /\ ToSet(s) = {s[i] : i \in 1 .. n + 1}
    <2>1. DOMAIN s = 1 .. Len(s)
        BY <1>2, LenProperties
    <2>2. ToSet(s) = {s[i] : i \in 1 .. Len(s)}
        BY <2>1 DEF ToSet
    <2> QED
        BY <1>2, <2>1, <2>2, Zenon
<1>4. \A i \in 1 .. n + 1 : i \in 1 .. n \/ i = n + 1
    BY <1>1
<1>5. ToSet(s) = ToSet(m) \cup {x}
    BY <1>1, <1>2, <1>3, <1>4
<1>6. IsInjective(s)
    <2>1. \A i, j \in 1 .. n : m[i] = m[j] => i = j
        BY <1>1 DEF IsInjective
    <2>2. \A i \in 1 .. n : m[i] # x
        BY <1>1
    <2> QED
        BY <1>2, <1>3, <1>4, <2>1, <2>2 DEF IsInjective
<1>7. Last(s) = x /\ s # <<>>
    BY <1>1, <1>2 DEF Last
<1> QED
    BY <1>2, <1>5, <1>6, <1>7

\* The recipients of a new job: the members and we.
LEMMA NewList ==
    ASSUME OutboxTypes
    PROVE  ToSelf(JobRecipients) /\ ToSet(JobRecipients) = ToSet(members) \cup {Self}
<1>1. Self \in People
    BY DEF People
<1>2. members \in Seq(People) /\ IsInjective(members) /\ Self \notin ToSet(members)
    BY DEF OutboxTypes
<1> DEFINE s == JobRecipients
<1>3. /\ s \in Seq(People) /\ IsInjective(s) /\ ToSet(s) = ToSet(members) \cup {Self}
      /\ s # <<>> /\ Last(s) = Self
    BY <1>1, <1>2, OneMore DEF JobRecipients
<1> QED
    BY <1>3 DEF ToSelf

\* New rows are at the end of the table, one for each part.
LEMMA NewRows ==
    ASSUME OutboxTypes, NEW parts \in {{"whole"}, {"pre", "post"}}, InsertJobs(parts)
    PROVE  /\ nextRow' \in Nat \ {0} /\ nextRow < nextRow'
           /\ reached' \in [1 .. nextRow' - 1 -> Reach]
           /\ DOMAIN jobs' = DOMAIN jobs \cup (nextRow .. nextRow' - 1)
           /\ jobs' \in [DOMAIN jobs' -> Job]
           /\ \A r \in DOMAIN jobs : jobs'[r] = jobs[r]
           /\ \A r \in DOMAIN reached : r \in DOMAIN reached' /\ reached'[r] = reached[r]
           /\ \A r \in nextRow .. nextRow' - 1 :
                 /\ jobs'[r].part \in parts /\ jobs'[r].part = reached'[r].part
                 /\ jobs'[r].recipients = JobRecipients /\ reached'[r].to = {}
           /\ \A p \in parts : \E r \in nextRow .. nextRow' - 1 : jobs'[r].part = p
<1> DEFINE order == IF parts = {"whole"} THEN <<"whole">> ELSE <<"pre", "post">>
           n == Len(order)
           rows == nextRow .. nextRow + n - 1
           job(r) == [part |-> order[r - nextRow + 1], recipients |-> JobRecipients, retries |-> 0]
           reach(r) == [part |-> job(r).part, to |-> {}, due |-> ToSet(members)]
<1>1. n \in 1 .. 2 /\ \A i \in 1 .. n : order[i] \in parts /\ order[i] \in Parts
    <2>1. CASE parts = {"whole"}
        BY <2>1 DEF Parts
    <2>2. CASE parts = {"pre", "post"}
        <3>1. parts # {"whole"}
            BY <2>2
        <3> QED
            BY <2>2, <3>1 DEF Parts
    <2> QED
        BY <2>1, <2>2
<1>2. \A p \in parts : \E i \in 1 .. n : order[i] = p
    <2>1. CASE parts = {"whole"}
        BY <2>1
    <2>2. CASE parts = {"pre", "post"}
        <3>1. order = <<"pre", "post">> /\ n = 2
            BY <2>2
        <3>2. 1 \in 1 .. n /\ 2 \in 1 .. n /\ order[1] = "pre" /\ order[2] = "post"
            BY <3>1
        <3> QED
            BY <2>2, <3>2
    <2> QED
        BY <2>1, <2>2
<1>3. /\ jobs' = [r \in rows \cup DOMAIN jobs |-> IF r \in rows THEN job(r) ELSE jobs[r]]
      /\ reached' = [r \in rows \cup DOMAIN reached |-> IF r \in rows THEN reach(r) ELSE reached[r]]
      /\ nextRow' = nextRow + n
    BY DEF InsertJobs
<1>4. /\ nextRow \in Nat \ {0} /\ DOMAIN reached = 1 .. nextRow - 1 /\ DOMAIN jobs \subseteq 1 .. nextRow - 1
      /\ \A r \in DOMAIN jobs : jobs[r] \in Job
      /\ \A r \in DOMAIN reached : reached[r] \in Reach
    BY DEF OutboxTypes
<1>5. JobRecipients \in Seq(People) /\ ToSet(members) \subseteq People /\ 0 \in 0 .. RetryLimit
    BY NewList, ListMembers, LimitsAssumption DEF ToSelf, OutboxTypes
<1> HIDE DEF order
<1>6. \A r \in rows : r - nextRow + 1 \in 1 .. n
    BY <1>1, <1>4
<1>7. \A r \in rows : job(r) \in Job /\ reach(r) \in Reach
    BY <1>1, <1>5, <1>6 DEF Job, Reach
<1>8. nextRow' - 1 = nextRow + n - 1 /\ 1 .. nextRow' - 1 = (1 .. nextRow - 1) \cup rows
      /\ (1 .. nextRow - 1) \cap rows = {}
    BY <1>1, <1>3, <1>4
<1>9. \A r \in rows : jobs'[r] = job(r) /\ reached'[r] = reach(r)
    BY <1>3
<1>10. \A i \in 1 .. n : nextRow + i - 1 \in rows /\ (nextRow + i - 1) - nextRow + 1 = i
    BY <1>1, <1>4
<1> HIDE DEF n, rows, job, reach
<1>11. DOMAIN jobs' = DOMAIN jobs \cup rows /\ DOMAIN reached' = DOMAIN reached \cup rows
    BY <1>3
<1>12. /\ \A r \in DOMAIN jobs : jobs'[r] = jobs[r]
       /\ \A r \in DOMAIN reached : r \in DOMAIN reached' /\ reached'[r] = reached[r]
    BY <1>3, <1>4, <1>8
<1>13. jobs' \in [DOMAIN jobs' -> Job]
    <2>1. \A r \in DOMAIN jobs' : jobs'[r] \in Job
        BY <1>4, <1>7, <1>9, <1>11, <1>12
    <2> QED
        BY <1>3, <2>1
<1>14. reached' \in [1 .. nextRow' - 1 -> Reach]
    <2>1. \A r \in DOMAIN reached' : reached'[r] \in Reach
        BY <1>4, <1>7, <1>9, <1>11, <1>12
    <2>2. DOMAIN reached' = 1 .. nextRow' - 1
        BY <1>4, <1>8, <1>11
    <2> QED
        BY <1>3, <2>1, <2>2
<1>15. nextRow' \in Nat \ {0} /\ nextRow < nextRow' /\ rows = nextRow .. nextRow' - 1
    BY <1>1, <1>3, <1>4, <1>8 DEF rows
<1>16. \A r \in rows : /\ jobs'[r].part = order[r - nextRow + 1] /\ jobs'[r].part = reached'[r].part
                       /\ jobs'[r].recipients = JobRecipients /\ reached'[r].to = {}
    <2> SUFFICES ASSUME NEW r \in rows
                 PROVE  /\ jobs'[r].part = order[r - nextRow + 1] /\ jobs'[r].part = reached'[r].part
                        /\ jobs'[r].recipients = JobRecipients /\ reached'[r].to = {}
        OBVIOUS
    <2>1. jobs'[r] = [part |-> order[r - nextRow + 1], recipients |-> JobRecipients, retries |-> 0]
        BY <1>9 DEF job
    <2>2. reached'[r] = [part |-> order[r - nextRow + 1], to |-> {}, due |-> ToSet(members)]
        BY <1>9 DEF job, reach
    <2> QED
        BY <2>1, <2>2
<1>17. \A p \in parts : \E r \in rows : jobs'[r].part = p
    BY <1>2, <1>10, <1>16
<1>18. \A r \in rows : jobs'[r].part \in parts
    BY <1>1, <1>6, <1>16
<1>19. /\ \A r \in nextRow .. nextRow' - 1 :
             /\ jobs'[r].part \in parts /\ jobs'[r].part = reached'[r].part
             /\ jobs'[r].recipients = JobRecipients /\ reached'[r].to = {}
       /\ \A p \in parts : \E r \in nextRow .. nextRow' - 1 : jobs'[r].part = p
       /\ DOMAIN jobs' = DOMAIN jobs \cup (nextRow .. nextRow' - 1)
    BY <1>11, <1>15, <1>16, <1>17, <1>18, Zenon
<1> QED
    BY <1>12, <1>13, <1>14, <1>15, <1>19, Zenon

----------------------------------------------------------------------------
(***************************************************************************)
(* The outgoing queue: every step keeps the invariant.                 *)
(***************************************************************************)

\* What was reached stays reached.
LEMMA ReachedStays ==
    ASSUME \A r \in DOMAIN reached : /\ r \in DOMAIN reached' /\ reached'[r].part = reached[r].part
                                     /\ reached[r].to \subseteq reached'[r].to
    PROVE  \A p : Complete(p) => Complete(p)'
<1>1. \A p : Served(p) \subseteq Served(p)'
    BY DEF Served
<1> QED
    BY <1>1 DEF Complete

\* A message that failed is not counted as sent.
LEMMA FailedIsNot ==
    ASSUME state \in {"pending", "delivered", "failed", "undefined"}
    PROVE  FailedState \in {"failed", "undefined"}
BY DEF FailedState

\* Somebody joins the chat.
LEMMA JoinKeeps ==
    ASSUME OutboxInv, MemberJoins
    PROVE  OutboxInv'
<1>1. OutboxTypes /\ LoopHolds /\ AllOnList /\ RefusedAgain /\ Queued /\ PendingHasJob /\ Once
    BY DEF OutboxInv
<1>2. /\ members' = Append(members, Newcomer) /\ Newcomer \notin ToSet(members) \cup {Self}
      /\ state' = state /\ split' = split /\ jobs' = jobs /\ nextRow' = nextRow
      /\ reached' = reached /\ twice' = twice /\ unsure' = unsure /\ loop' = loop
      /\ copies' = copies /\ fetching' = fetching /\ resending' = resending
      /\ deleting' = deleting /\ cut' = cut
    BY DEF MemberJoins, jobVars
<1>3. \A p : Complete(p)' <=> Complete(p)
    BY <1>2 DEF Complete, Served
<1>4. /\ members' \in Seq(People) /\ IsInjective(members') /\ ToSet(members') = ToSet(members) \cup {Newcomer}
    BY <1>1, <1>2, OneMore DEF OutboxTypes, People
<1>5. OutboxTypes'
    BY <1>1, <1>2, <1>4 DEF OutboxTypes
<1>6. LoopHolds'
    BY <1>1, <1>2 DEF LoopHolds
<1>7. AllOnList'
    BY <1>1, <1>2, <1>3 DEF AllOnList
<1>8. RefusedAgain'
    BY <1>1, <1>2 DEF RefusedAgain, Open
<1>9. Queued'
    BY <1>1, <1>2, <1>3 DEF Queued, Open
<1>10. PendingHasJob'
    BY <1>1, <1>2 DEF PendingHasJob, OutboxSettled, HasJob
<1>11. Once'
    BY <1>1, <1>2 DEF Once
<1> QED
    BY <1>5, <1>6, <1>7, <1>8, <1>9, <1>10, <1>11 DEF OutboxInv

\* The message is to be sent again.
LEMMA ResendKeeps ==
    ASSUME OutboxInv, ResendMsgs
    PROVE  OutboxInv'
<1>1. OutboxTypes /\ LoopHolds /\ AllOnList /\ RefusedAgain /\ Queued /\ PendingHasJob /\ Once
    BY DEF OutboxInv
<1>2. /\ state' = "pending" /\ resending' = TRUE /\ split # {} /\ split' = split
      /\ members' = members /\ jobs' = jobs /\ nextRow' = nextRow /\ reached' = reached
      /\ twice' = twice /\ unsure' = unsure /\ loop' = loop /\ copies' = copies
      /\ fetching' = fetching /\ deleting' = deleting /\ cut' = cut
    BY DEF ResendMsgs, jobVars
<1>3. \A p : Complete(p)' <=> Complete(p)
    BY <1>2 DEF Complete, Served
<1>4. OutboxTypes'
    BY <1>1, <1>2 DEF OutboxTypes
<1>5. LoopHolds'
    BY <1>1, <1>2 DEF LoopHolds
<1>6. AllOnList'
    BY <1>1, <1>2, <1>3 DEF AllOnList
<1>7. RefusedAgain'
    BY <1>2 DEF RefusedAgain
<1>8. Queued'
    BY <1>2 DEF Queued
<1>9. PendingHasJob'
    BY <1>2 DEF PendingHasJob, OutboxSettled
<1>10. Once'
    BY <1>1, <1>2 DEF Once
<1> QED
    BY <1>4, <1>5, <1>6, <1>7, <1>8, <1>9, <1>10 DEF OutboxInv

\* Sending again fails.
LEMMA ResendFailsKeeps ==
    ASSUME OutboxInv, ResendFails
    PROVE  OutboxInv'
<1>1. OutboxTypes /\ LoopHolds /\ AllOnList /\ RefusedAgain /\ Queued /\ PendingHasJob /\ Once
    BY DEF OutboxInv
<1>2. /\ state' = FailedState /\ resending' = FALSE /\ split' = split /\ members' = members
      /\ jobs' = jobs /\ nextRow' = nextRow /\ reached' = reached /\ twice' = twice
      /\ unsure' = unsure /\ loop' = loop /\ copies' = copies /\ fetching' = fetching
      /\ deleting' = deleting /\ cut' = cut
    BY DEF ResendFails, jobVars
<1>3. \A p : Complete(p)' <=> Complete(p)
    BY <1>2 DEF Complete, Served
<1>4. state' \in {"failed", "undefined"}
    BY <1>1, <1>2, FailedIsNot DEF OutboxTypes
<1>5. OutboxTypes'
    BY <1>1, <1>2, <1>4 DEF OutboxTypes
<1>6. LoopHolds'
    BY <1>1, <1>2 DEF LoopHolds
<1>7. AllOnList'
    BY <1>1, <1>2, <1>3 DEF AllOnList
<1>8. RefusedAgain'
    BY <1>4 DEF RefusedAgain, Open
<1>9. Queued'
    BY <1>4 DEF Queued, Open
<1>10. PendingHasJob'
    BY <1>4 DEF PendingHasJob
<1>11. Once'
    BY <1>1, <1>2 DEF Once
<1> QED
    BY <1>5, <1>6, <1>7, <1>8, <1>9, <1>10, <1>11 DEF OutboxInv

\* The jobs of a deleted message go.
LEMMA DeleteKeeps ==
    ASSUME OutboxInv, DeleteJobs
    PROVE  OutboxInv'
<1>1. OutboxTypes /\ LoopHolds /\ AllOnList /\ RefusedAgain /\ Queued /\ PendingHasJob /\ Once
    BY DEF OutboxInv
<1>2. /\ jobs' = <<>> /\ DOMAIN jobs' = {} /\ deleting' = TRUE /\ state' = state /\ split' = split
      /\ members' = members /\ nextRow' = nextRow /\ reached' = reached /\ twice' = twice
      /\ unsure' = unsure /\ loop' = loop /\ copies' = copies /\ fetching' = fetching
      /\ resending' = resending /\ cut' = cut
    BY DEF DeleteJobs, msgVars
<1>3. \A p : Complete(p)' <=> Complete(p)
    BY <1>2 DEF Complete, Served
<1>4. OutboxTypes'
    BY <1>1, <1>2 DEF OutboxTypes
<1>5. LoopHolds'
    BY <1>1, <1>2 DEF LoopHolds
<1>6. AllOnList'
    BY <1>1, <1>2, <1>3 DEF AllOnList
<1>7. RefusedAgain'
    BY <1>2 DEF RefusedAgain
<1>8. Queued'
    BY <1>2 DEF Queued
<1>9. PendingHasJob'
    BY <1>2 DEF PendingHasJob, OutboxSettled
<1>10. Once'
    BY <1>1, <1>2 DEF Once
<1> QED
    BY <1>4, <1>5, <1>6, <1>7, <1>8, <1>9, <1>10 DEF OutboxInv

\* The row of a deleted message becomes a tombstone.
LEMMA TrashRowKeeps ==
    ASSUME OutboxInv, TrashRow
    PROVE  OutboxInv'
<1>1. OutboxTypes /\ LoopHolds /\ AllOnList /\ RefusedAgain /\ Queued /\ PendingHasJob /\ Once
    BY DEF OutboxInv
<1>2. /\ state' = "undefined" /\ deleting' = FALSE /\ split' = split /\ members' = members
      /\ jobs' = jobs /\ nextRow' = nextRow /\ reached' = reached /\ twice' = twice
      /\ unsure' = unsure /\ loop' = loop /\ copies' = copies /\ fetching' = fetching
      /\ resending' = resending /\ cut' = cut
    BY DEF TrashRow, jobVars
<1>3. \A p : Complete(p)' <=> Complete(p)
    BY <1>2 DEF Complete, Served
<1>4. OutboxTypes'
    BY <1>1, <1>2 DEF OutboxTypes
<1>5. LoopHolds'
    BY <1>1, <1>2 DEF LoopHolds
<1>6. AllOnList'
    BY <1>1, <1>2, <1>3 DEF AllOnList
<1>7. RefusedAgain'
    BY <1>2 DEF RefusedAgain, Open
<1>8. Queued'
    BY <1>2 DEF Queued, Open
<1>9. PendingHasJob'
    BY <1>2 DEF PendingHasJob
<1>10. Once'
    BY <1>1, <1>2 DEF Once
<1> QED
    BY <1>4, <1>5, <1>6, <1>7, <1>8, <1>9, <1>10 DEF OutboxInv

\* A bounce comes back.
LEMMA BounceKeeps ==
    ASSUME OutboxInv, Bounce
    PROVE  OutboxInv'
<1>1. OutboxTypes /\ LoopHolds /\ AllOnList /\ RefusedAgain /\ Queued /\ PendingHasJob /\ Once
    BY DEF OutboxInv
<1>2. /\ state' = FailedState /\ split' = split /\ members' = members /\ jobs' = jobs
      /\ nextRow' = nextRow /\ reached' = reached /\ twice' = twice /\ unsure' = unsure
      /\ loop' = loop /\ copies' = copies /\ fetching' = fetching /\ resending' = resending
      /\ deleting' = deleting /\ cut' = cut
    BY DEF Bounce, jobVars
<1>3. \A p : Complete(p)' <=> Complete(p)
    BY <1>2 DEF Complete, Served
<1>4. state' \in {"failed", "undefined"}
    BY <1>1, <1>2, FailedIsNot DEF OutboxTypes
<1>5. OutboxTypes'
    BY <1>1, <1>2, <1>4 DEF OutboxTypes
<1>6. LoopHolds'
    BY <1>1, <1>2 DEF LoopHolds
<1>7. AllOnList'
    BY <1>1, <1>2, <1>3 DEF AllOnList
<1>8. RefusedAgain'
    BY <1>4 DEF RefusedAgain, Open
<1>9. Queued'
    BY <1>4 DEF Queued, Open
<1>10. PendingHasJob'
    BY <1>4 DEF PendingHasJob
<1>11. Once'
    BY <1>1, <1>2 DEF Once
<1> QED
    BY <1>5, <1>6, <1>7, <1>8, <1>9, <1>10, <1>11 DEF OutboxInv

\* The loop begins or ends a pass, or stops sending for now.
LEMMA PassKeeps ==
    ASSUME OutboxInv, Poll \/ Offline \/ SendRetry \/ EndPass
    PROVE  OutboxInv'
<1>1. OutboxTypes /\ LoopHolds /\ AllOnList /\ RefusedAgain /\ Queued /\ PendingHasJob /\ Once
    BY DEF OutboxInv
<1>2. /\ state' = state /\ split' = split /\ members' = members /\ jobs' = jobs
      /\ nextRow' = nextRow /\ reached' = reached /\ twice' = twice /\ unsure' = unsure
      /\ copies' = copies /\ fetching' = fetching /\ resending' = resending
      /\ deleting' = deleting /\ cut' = cut
    BY DEF Poll, Offline, SendRetry, EndPass, msgVars, jobVars, otherVars
<1>3. \A p : Complete(p)' <=> Complete(p)
    BY <1>2 DEF Complete, Served
<1>4. /\ loop' = [pc |-> loop'.pc, todo |-> loop'.todo, row |-> loop'.row, unsent |-> loop'.unsent]
      /\ loop'.pc \in {"idle", "jobs"} /\ loop.pc \in {"idle", "jobs", "send"}
    <2>1. CASE Poll
        BY <2>1, Zenon DEF Poll, NoPass
    <2>2. CASE Offline
        BY <2>2 DEF Offline, NoPass
    <2>3. CASE SendRetry
        BY <2>3 DEF SendRetry, NoPass
    <2>4. CASE EndPass
        BY <2>4 DEF EndPass, NoPass
    <2> QED
        BY <2>1, <2>2, <2>3, <2>4
<1>5. OutboxTypes'
    BY <1>1, <1>2, <1>4 DEF OutboxTypes, Steps
<1>6. LoopHolds'
    BY <1>4 DEF LoopHolds, Serving
<1>7. AllOnList'
    BY <1>1, <1>2, <1>3, <1>4 DEF AllOnList, Serving, Serving
<1>8. RefusedAgain'
    BY <1>4 DEF RefusedAgain
<1>9. Queued'
    BY <1>1, <1>2, <1>3, <1>4 DEF Queued, Open
<1>10. PendingHasJob'
    BY <1>1, <1>2, <1>4 DEF PendingHasJob, OutboxSettled, HasJob
<1>11. Once'
    BY <1>1, <1>2, <1>4 DEF Once
<1> QED
    BY <1>5, <1>6, <1>7, <1>8, <1>9, <1>10, <1>11 DEF OutboxInv

\* The loop gives a job up.
LEMMA GiveUpKeeps ==
    ASSUME OutboxInv, GiveUp
    PROVE  OutboxInv'
<1>1. OutboxTypes /\ LoopHolds /\ AllOnList /\ RefusedAgain /\ Queued /\ PendingHasJob /\ Once
    BY DEF OutboxInv
<1>2. /\ state' = FailedState /\ split' = split /\ members' = members /\ jobs' = jobs
      /\ nextRow' = nextRow /\ reached' = reached /\ twice' = twice /\ unsure' = unsure
      /\ copies' = copies /\ fetching' = fetching /\ resending' = resending
      /\ deleting' = deleting /\ cut' = cut
    BY DEF GiveUp, jobVars, otherVars
<1>3. \A p : Complete(p)' <=> Complete(p)
    BY <1>2 DEF Complete, Served
<1>4. /\ loop' = [pc |-> loop'.pc, todo |-> loop'.todo, row |-> loop'.row, unsent |-> loop'.unsent]
      /\ loop'.pc = "jobs" /\ loop.pc = "giveup"
    BY DEF GiveUp, NoPass, NextJob
<1>5. state' \in {"failed", "undefined"}
    BY <1>1, <1>2, FailedIsNot DEF OutboxTypes
<1>6. OutboxTypes'
    BY <1>1, <1>2, <1>4, <1>5 DEF OutboxTypes, Steps
<1>7. LoopHolds'
    BY <1>4 DEF LoopHolds, Serving
<1>8. AllOnList'
    BY <1>1, <1>2, <1>3, <1>4 DEF AllOnList, Serving, Serving
<1>9. RefusedAgain'
    BY <1>4 DEF RefusedAgain
<1>10. Queued'
    BY <1>5 DEF Queued, Open
<1>11. PendingHasJob'
    BY <1>5 DEF PendingHasJob
<1>12. Once'
    BY <1>1, <1>2, <1>4 DEF Once
<1> QED
    BY <1>6, <1>7, <1>8, <1>9, <1>10, <1>11, <1>12 DEF OutboxInv

\* The server refuses the message.
LEMMA RefusedKeeps ==
    ASSUME OutboxInv, SendRefused
    PROVE  OutboxInv'
<1>1. OutboxTypes /\ LoopHolds /\ AllOnList /\ RefusedAgain /\ Queued /\ PendingHasJob /\ Once
    BY DEF OutboxInv
<1>2. /\ state' = FailedState /\ split' = split /\ members' = members /\ jobs' = jobs
      /\ nextRow' = nextRow /\ reached' = reached /\ twice' = twice /\ unsure' = unsure
      /\ copies' = copies /\ fetching' = fetching /\ resending' = resending
      /\ deleting' = deleting /\ cut' = cut
    BY DEF SendRefused, jobVars, otherVars
<1>3. \A p : Complete(p)' <=> Complete(p)
    BY <1>2 DEF Complete, Served
<1>4. /\ loop' = [pc |-> loop'.pc, todo |-> loop'.todo, row |-> loop'.row, unsent |-> loop'.unsent]
      /\ loop'.pc = "refused" /\ loop.pc = "send" /\ loop'.row = loop.row
    BY <1>1 DEF SendRefused, JobGoto, OutboxTypes
<1>5. state' \in {"failed", "undefined"}
    BY <1>1, <1>2, FailedIsNot DEF OutboxTypes
<1>6. OutboxTypes'
    BY <1>1, <1>2, <1>4, <1>5 DEF OutboxTypes, Steps
<1>7. LoopHolds'
    BY <1>1, <1>2, <1>4 DEF LoopHolds, Serving
<1>8. AllOnList'
    BY <1>1, <1>2, <1>3, <1>4 DEF AllOnList, Serving, Serving
<1>9. RefusedAgain'
    BY <1>5 DEF RefusedAgain, Open
<1>10. Queued'
    BY <1>5 DEF Queued, Open
<1>11. PendingHasJob'
    BY <1>5 DEF PendingHasJob
<1>12. Once'
    BY <1>1, <1>2, <1>4 DEF Once
<1> QED
    BY <1>6, <1>7, <1>8, <1>9, <1>10, <1>11, <1>12 DEF OutboxInv

\* The state is settled after the last job.
LEMMA CheckKeeps ==
    ASSUME OutboxInv, CheckSent
    PROVE  OutboxInv'
<1>1. OutboxTypes /\ LoopHolds /\ AllOnList /\ RefusedAgain /\ Queued /\ PendingHasJob /\ Once
    BY DEF OutboxInv
<1>2. /\ state' = (IF HasJob THEN state ELSE Delivered) /\ split' = split /\ members' = members
      /\ jobs' = jobs /\ nextRow' = nextRow /\ reached' = reached /\ twice' = twice
      /\ unsure' = unsure /\ copies' = copies /\ fetching' = fetching /\ resending' = resending
      /\ deleting' = deleting /\ cut' = cut
    BY DEF CheckSent, jobVars, otherVars
<1>3. \A p : Complete(p)' <=> Complete(p)
    BY <1>2 DEF Complete, Served
<1>4. /\ loop' = [pc |-> loop'.pc, todo |-> loop'.todo, row |-> loop'.row, unsent |-> loop'.unsent]
      /\ loop'.pc = "jobs" /\ loop.pc = "check"
    BY DEF CheckSent, NoPass, NextJob
<1>5. /\ state' \in {"pending", "delivered", "failed", "undefined"} /\ Open' = Open
      /\ state' = "pending" => HasJob
    BY <1>1, <1>2 DEF OutboxTypes, Delivered, Open
<1>6. OutboxTypes'
    BY <1>1, <1>2, <1>4, <1>5 DEF OutboxTypes, Steps
<1>7. LoopHolds'
    BY <1>4 DEF LoopHolds, Serving
<1>8. AllOnList'
    BY <1>1, <1>2, <1>3, <1>4 DEF AllOnList, Serving, Serving
<1>9. RefusedAgain'
    BY <1>4 DEF RefusedAgain
<1>10. Queued'
    BY <1>1, <1>2, <1>3, <1>4, <1>5 DEF Queued
<1>11. PendingHasJob'
    BY <1>2, <1>5 DEF PendingHasJob, OutboxSettled, HasJob
<1>12. Once'
    BY <1>1, <1>2, <1>4 DEF Once
<1> QED
    BY <1>6, <1>7, <1>8, <1>9, <1>10, <1>11, <1>12 DEF OutboxInv

\* The state is settled after our own copy came in.
LEMMA FetchedKeeps ==
    ASSUME OutboxInv, CheckFetched
    PROVE  OutboxInv'
<1>1. OutboxTypes /\ LoopHolds /\ AllOnList /\ RefusedAgain /\ Queued /\ PendingHasJob /\ Once
    BY DEF OutboxInv
<1>2. /\ state' = (IF HasJob THEN state ELSE Delivered) /\ split' = split /\ members' = members
      /\ jobs' = jobs /\ nextRow' = nextRow /\ reached' = reached /\ twice' = twice
      /\ unsure' = unsure /\ loop' = loop /\ copies' = copies /\ resending' = resending
      /\ deleting' = deleting /\ cut' = cut
    BY DEF CheckFetched, jobVars
<1>3. \A p : Complete(p)' <=> Complete(p)
    BY <1>2 DEF Complete, Served
<1>4. /\ state' \in {"pending", "delivered", "failed", "undefined"} /\ Open' = Open
      /\ state' = "pending" => HasJob
    BY <1>1, <1>2 DEF OutboxTypes, Delivered, Open
<1>5. OutboxTypes'
    BY <1>1, <1>2, <1>4 DEF OutboxTypes
<1>6. LoopHolds'
    BY <1>1, <1>2 DEF LoopHolds
<1>7. AllOnList'
    BY <1>1, <1>2, <1>3 DEF AllOnList
<1>8. RefusedAgain'
    BY <1>1, <1>2, <1>4 DEF RefusedAgain
<1>9. Queued'
    BY <1>1, <1>2, <1>3, <1>4 DEF Queued
<1>10. PendingHasJob'
    BY <1>2, <1>4 DEF PendingHasJob, OutboxSettled, HasJob
<1>11. Once'
    BY <1>1, <1>2 DEF Once
<1> QED
    BY <1>5, <1>6, <1>7, <1>8, <1>9, <1>10, <1>11 DEF OutboxInv

\* The job of a refused message goes.
LEMMA DropRefusedKeeps ==
    ASSUME OutboxInv, DropRefused
    PROVE  OutboxInv'
<1>1. OutboxTypes /\ LoopHolds /\ AllOnList /\ RefusedAgain /\ Queued /\ PendingHasJob /\ Once
    BY DEF OutboxInv
<1>2. /\ loop.pc = "refused" /\ jobs' = WithoutJob(loop.row) /\ state' = state /\ split' = split
      /\ members' = members /\ nextRow' = nextRow /\ reached' = reached /\ twice' = twice
      /\ unsure' = unsure /\ copies' = copies /\ fetching' = fetching /\ resending' = resending
      /\ deleting' = deleting /\ cut' = cut
    BY DEF DropRefused, msgVars, otherVars
<1>3. \A p : Complete(p)' <=> Complete(p)
    BY <1>2 DEF Complete, Served
<1>4. /\ loop' = [pc |-> loop'.pc, todo |-> loop'.todo, row |-> loop'.row, unsent |-> loop'.unsent]
      /\ loop'.pc = "idle"
    BY DEF DropRefused, NoPass
<1>5. /\ DOMAIN jobs' = DOMAIN jobs \ {loop.row} /\ jobs' \in [DOMAIN jobs' -> Job]
      /\ \A r \in DOMAIN jobs' : r \in DOMAIN jobs /\ jobs'[r] = jobs[r]
    BY <1>1, <1>2 DEF WithoutJob, Restrict, OutboxTypes
<1>6. OutboxTypes'
    BY <1>1, <1>2, <1>4, <1>5 DEF OutboxTypes, Steps
<1>7. LoopHolds'
    BY <1>4 DEF LoopHolds, Serving
<1>8. AllOnList'
    BY <1>1, <1>2, <1>3, <1>4, <1>5 DEF AllOnList, Serving, Serving
<1>9. RefusedAgain'
    BY <1>4 DEF RefusedAgain
<1>10. Queued'
    BY <1>1, <1>2, <1>3, <1>5 DEF Queued, Open, RefusedAgain
<1>11. PendingHasJob'
    BY <1>1, <1>2, <1>5 DEF PendingHasJob, OutboxSettled, HasJob, RefusedAgain, Open
<1>12. Once'
    BY <1>1, <1>2, <1>4, <1>5 DEF Once
<1> QED
    BY <1>6, <1>7, <1>8, <1>9, <1>10, <1>11, <1>12 DEF OutboxInv

\* Our own copy takes the jobs of its part off the queue.
LEMMA FetchKeeps ==
    ASSUME OutboxInv, NEW p \in Parts, FetchCopy(p)
    PROVE  OutboxInv'
<1>1. OutboxTypes /\ LoopHolds /\ AllOnList /\ RefusedAgain /\ Queued /\ PendingHasJob /\ Once
    BY DEF OutboxInv
<1>2. /\ p \in copies /\ copies' = copies \ {p} /\ fetching' = TRUE
      /\ jobs' = Restrict(jobs, {r \in DOMAIN jobs : ~(jobs[r].part = p /\ Last(jobs[r].recipients) = Self)})
      /\ state' = state /\ split' = split /\ members' = members /\ nextRow' = nextRow
      /\ reached' = reached /\ twice' = twice /\ unsure' = unsure /\ loop' = loop
      /\ resending' = resending /\ deleting' = deleting /\ cut' = cut
    BY DEF FetchCopy, msgVars
<1>3. \A q : Complete(q)' <=> Complete(q)
    BY <1>2 DEF Complete, Served
<1>4. /\ DOMAIN jobs' = {r \in DOMAIN jobs : jobs[r].part # p} /\ jobs' \in [DOMAIN jobs' -> Job]
      /\ \A r \in DOMAIN jobs' : r \in DOMAIN jobs /\ jobs'[r] = jobs[r]
    BY <1>1, <1>2 DEF Restrict, OutboxTypes, ToSelf
<1>5. Complete(p)
    BY <1>1, <1>2 DEF AllOnList
<1>6. OutboxTypes'
    BY <1>1, <1>2, <1>4 DEF OutboxTypes
<1>7. LoopHolds'
    BY <1>1, <1>2, <1>4 DEF LoopHolds
<1>8. AllOnList'
    BY <1>1, <1>2, <1>3, <1>4 DEF AllOnList
<1>9. RefusedAgain'
    BY <1>1, <1>2, <1>4 DEF RefusedAgain, Open
<1>10. Queued'
    BY <1>1, <1>2, <1>3, <1>4, <1>5 DEF Queued, Open
<1>11. PendingHasJob'
    BY <1>2 DEF PendingHasJob, OutboxSettled
<1>12. Once'
    BY <1>1, <1>2, <1>4 DEF Once
<1> QED
    BY <1>6, <1>7, <1>8, <1>9, <1>10, <1>11, <1>12 DEF OutboxInv

\* The job goes after its last chunk.
LEMMA DropSentKeeps ==
    ASSUME OutboxInv, DropSent
    PROVE  OutboxInv'
<1>1. OutboxTypes /\ LoopHolds /\ AllOnList /\ RefusedAgain /\ Queued /\ PendingHasJob /\ Once
    BY DEF OutboxInv
<1>2. /\ loop.pc = "sent" /\ jobs' = WithoutJob(loop.row) /\ state' = state /\ split' = split
      /\ members' = members /\ nextRow' = nextRow /\ reached' = reached /\ twice' = twice
      /\ unsure' = unsure /\ copies' = copies /\ fetching' = fetching /\ resending' = resending
      /\ deleting' = deleting /\ cut' = cut
    BY DEF DropSent, msgVars, otherVars
<1>3. \A p : Complete(p)' <=> Complete(p)
    BY <1>2 DEF Complete, Served
<1>4. /\ loop' = [pc |-> loop'.pc, todo |-> loop'.todo, row |-> loop'.row, unsent |-> loop'.unsent]
      /\ loop'.pc = "check"
    BY <1>1 DEF DropSent, JobGoto, OutboxTypes
<1>5. /\ DOMAIN jobs' = DOMAIN jobs \ {loop.row} /\ jobs' \in [DOMAIN jobs' -> Job]
      /\ \A r \in DOMAIN jobs' : r \in DOMAIN jobs /\ jobs'[r] = jobs[r]
    BY <1>1, <1>2 DEF WithoutJob, Restrict, OutboxTypes
<1>6. loop.row \in DOMAIN jobs => Complete(jobs[loop.row].part)
    <2>1. /\ loop.row \in DOMAIN reached /\ ToSelf(loop.unsent) /\ Rest(loop.unsent) = <<>>
          /\ ToSet(Members) \subseteq reached[loop.row].to \cup ToSet(loop.unsent)
          /\ Chunk(loop.unsent) \subseteq reached[loop.row].to
        BY <1>1, <1>2 DEF LoopHolds, AllOnList, Serving
    <2>2. ToSet(Members) \subseteq reached[loop.row].to
        BY <2>1, ChunkFacts
    <2>3. loop.row \in DOMAIN jobs => jobs[loop.row].part = reached[loop.row].part
        BY <1>1 DEF OutboxTypes
    <2> QED
        BY <2>1, <2>2, <2>3 DEF Complete, Served
<1>7. OutboxTypes'
    BY <1>1, <1>2, <1>4, <1>5 DEF OutboxTypes, Steps
<1>8. LoopHolds'
    BY <1>4 DEF LoopHolds, Serving
<1>9. AllOnList'
    BY <1>1, <1>2, <1>3, <1>4, <1>5 DEF AllOnList, Serving, Serving
<1>10. RefusedAgain'
    BY <1>4 DEF RefusedAgain
<1>11. Queued'
    BY <1>1, <1>2, <1>3, <1>5, <1>6 DEF Queued, Open
<1>12. PendingHasJob'
    BY <1>4 DEF PendingHasJob, OutboxSettled
<1>13. Once'
    BY <1>1, <1>2, <1>4, <1>5 DEF Once
<1> QED
    BY <1>7, <1>8, <1>9, <1>10, <1>11, <1>12, <1>13 DEF OutboxInv

\* The process dies.
LEMMA CrashKeeps ==
    ASSUME OutboxInv, OutboxCrash
    PROVE  OutboxInv'
<1>1. OutboxTypes /\ LoopHolds /\ AllOnList /\ RefusedAgain /\ Queued /\ PendingHasJob /\ Once
    BY DEF OutboxInv
<1>2. /\ unsure' = (IF loop.pc \in {"progress", "sent"} THEN unsure \cup {loop.row} ELSE unsure)
      /\ cut' = (cut \/ loop.pc \in {"giveup", "check"} \/ fetching \/ resending \/ deleting)
      /\ fetching' = FALSE /\ resending' = FALSE /\ deleting' = FALSE /\ state' = state
      /\ split' = split /\ members' = members /\ jobs' = jobs /\ nextRow' = nextRow
      /\ reached' = reached /\ twice' = twice /\ copies' = copies
    BY DEF OutboxCrash, msgVars
<1>3. \A p : Complete(p)' <=> Complete(p)
    BY <1>2 DEF Complete, Served
<1>4. /\ loop' = [pc |-> loop'.pc, todo |-> loop'.todo, row |-> loop'.row, unsent |-> loop'.unsent]
      /\ loop'.pc = "idle"
    BY DEF OutboxCrash, NoPass
<1>5. OutboxTypes'
    BY <1>1, <1>2, <1>4 DEF OutboxTypes, Steps
<1>6. LoopHolds'
    BY <1>4 DEF LoopHolds, Serving
<1>7. AllOnList'
    BY <1>1, <1>2, <1>3, <1>4 DEF AllOnList, Serving, Serving
<1>8. RefusedAgain'
    BY <1>4 DEF RefusedAgain
<1>9. Queued'
    BY <1>1, <1>2, <1>3 DEF Queued, Open
<1>10. PendingHasJob'
    BY <1>1, <1>2 DEF PendingHasJob, OutboxSettled, HasJob
<1>11. Once'
    BY <1>1, <1>2, <1>4 DEF Once
<1> QED
    BY <1>5, <1>6, <1>7, <1>8, <1>9, <1>10, <1>11 DEF OutboxInv

\* New jobs come into the queue.
LEMMA InsertKeeps ==
    ASSUME OutboxInv, NEW parts \in {{"whole"}, {"pre", "post"}}, InsertJobs(parts),
           split \subseteq parts, split' = parts,
           UNCHANGED <<state, members, loop, copies, fetching, deleting, cut>>
    PROVE  OutboxInv'
<1>1. OutboxTypes /\ LoopHolds /\ AllOnList /\ RefusedAgain /\ Queued /\ PendingHasJob /\ Once
    BY DEF OutboxInv
<1>2. /\ split \subseteq parts /\ split' = parts /\ state' = state /\ members' = members
      /\ loop' = loop /\ copies' = copies /\ fetching' = fetching /\ deleting' = deleting
      /\ cut' = cut /\ unsure' = unsure /\ twice' = twice
    BY DEF InsertJobs
<1>3. /\ nextRow' \in Nat \ {0} /\ nextRow < nextRow'
      /\ reached' \in [1 .. nextRow' - 1 -> Reach]
      /\ DOMAIN jobs' = DOMAIN jobs \cup (nextRow .. nextRow' - 1)
      /\ jobs' \in [DOMAIN jobs' -> Job]
      /\ \A r \in DOMAIN jobs : jobs'[r] = jobs[r]
      /\ \A r \in DOMAIN reached : r \in DOMAIN reached' /\ reached'[r] = reached[r]
      /\ \A r \in nextRow .. nextRow' - 1 :
            /\ jobs'[r].part \in parts /\ jobs'[r].part = reached'[r].part
            /\ jobs'[r].recipients = JobRecipients /\ reached'[r].to = {}
      /\ \A p \in parts : \E r \in nextRow .. nextRow' - 1 : jobs'[r].part = p
    BY <1>1, NewRows
<1>4. \A p : Complete(p) => Complete(p)'
    BY <1>3, ReachedStays
<1>5. /\ ToSelf(JobRecipients) /\ ToSet(JobRecipients) = ToSet(members) \cup {Self}
      /\ ToSet(Members) \subseteq ToSet(JobRecipients)
    BY <1>1, NewList DEF OutboxTypes
<1>6. /\ nextRow \in Nat \ {0} /\ DOMAIN reached = 1 .. nextRow - 1 /\ DOMAIN jobs \subseteq 1 .. nextRow - 1
      /\ DOMAIN reached' = 1 .. nextRow' - 1 /\ DOMAIN jobs' \subseteq 1 .. nextRow' - 1
      /\ \A r \in 1 .. nextRow - 1 : r \notin nextRow .. nextRow' - 1
      /\ \A r \in nextRow .. nextRow' - 1 : r \in DOMAIN reached'
    BY <1>1, <1>3 DEF OutboxTypes
<1>7. /\ \A p \in parts : \E r \in DOMAIN jobs' : jobs'[r].part = p /\ r \notin DOMAIN reached
      /\ DOMAIN jobs' # {}
    BY <1>3, <1>6
<1>8. \A r \in DOMAIN jobs' :
         \/ /\ r \in DOMAIN jobs /\ jobs'[r] = jobs[r] /\ jobs[r].part \in parts /\ ToSelf(jobs[r].recipients)
            /\ r \in DOMAIN reached /\ reached'[r] = reached[r] /\ jobs[r].part = reached[r].part
         \/ /\ r \notin DOMAIN reached /\ jobs'[r].part \in parts /\ jobs'[r].part = reached'[r].part
            /\ jobs'[r].recipients = JobRecipients /\ reached'[r].to = {}
    BY <1>1, <1>3 DEF OutboxTypes
<1>9. loop.pc \in Serving \cup {"refused"} => loop.row \in DOMAIN reached /\ reached'[loop.row] = reached[loop.row]
    BY <1>1, <1>3 DEF LoopHolds
<1>10. OutboxTypes'
    BY <1>1, <1>3, <1>5 DEF OutboxTypes
<1>11. LoopHolds'
    BY <1>1, <1>3, <1>8 DEF LoopHolds
<1>12. AllOnList'
    BY <1>1, <1>4, <1>5, <1>8, <1>9 DEF AllOnList, Serving
<1>13. RefusedAgain'
    <2> SUFFICES ASSUME loop.pc = "refused", loop.row \in DOMAIN jobs', Open
                 PROVE  \E r \in DOMAIN jobs' \ {loop.row} : jobs'[r].part = jobs'[loop.row].part
        BY <1>2 DEF RefusedAgain, Open
    <2>1. loop.row \in DOMAIN reached /\ jobs'[loop.row].part \in parts
        BY <1>8, <1>9
    <2> QED
        BY <1>7, <2>1
<1>14. Queued'
    BY <1>2, <1>7 DEF Queued
<1>15. PendingHasJob'
    BY <1>7 DEF PendingHasJob, OutboxSettled, HasJob
<1>16. Once'
    BY <1>1, <1>2, <1>8, <1>9 DEF Once, Serving
<1> QED
    BY <1>10, <1>11, <1>12, <1>13, <1>14, <1>15, <1>16 DEF OutboxInv

\* The loop takes a job up.
LEMMA LoadKeeps ==
    ASSUME OutboxInv, LoadJob
    PROVE  OutboxInv'
<1> DEFINE r == Head(loop.todo)
<1>1. OutboxTypes /\ LoopHolds /\ AllOnList /\ RefusedAgain /\ Queued /\ PendingHasJob /\ Once
    BY DEF OutboxInv
<1>2. /\ loop.pc = "jobs"
      /\ state' = state /\ split' = split /\ members' = members /\ nextRow' = nextRow
      /\ reached' = reached /\ twice' = twice /\ unsure' = unsure /\ copies' = copies
      /\ fetching' = fetching /\ resending' = resending /\ deleting' = deleting /\ cut' = cut
    BY DEF LoadJob, msgVars, otherVars
<1>3. \A p : Complete(p)' <=> Complete(p)
    BY <1>2 DEF Complete, Served
<1>4. \/ /\ loop' = [NoPass EXCEPT !.pc = "jobs", !.todo = Tail(loop.todo)] /\ jobs' = jobs
      \/ /\ r \in DOMAIN jobs /\ jobs' = WithoutJob(r)
         /\ loop' = [loop EXCEPT !.pc = "giveup", !.row = r]
      \/ /\ r \in DOMAIN jobs /\ ~(jobs[r].retries + 1 > RetryLimit)
         /\ jobs' = [jobs EXCEPT ![r].retries = @ + 1]
         /\ loop' = [loop EXCEPT !.pc = "send", !.row = r, !.unsent = jobs[r].recipients]
    BY DEF LoadJob, NextJob
<1> HIDE DEF r
<1>5. CASE loop' = [NoPass EXCEPT !.pc = "jobs", !.todo = Tail(loop.todo)] /\ jobs' = jobs
    <2>1. loop' = [pc |-> loop'.pc, todo |-> loop'.todo, row |-> loop'.row, unsent |-> loop'.unsent] /\ loop'.pc = "jobs"
        BY <1>5 DEF NoPass
    <2>2. OutboxTypes'
        BY <1>1, <1>2, <1>5, <2>1 DEF OutboxTypes
    <2>3. LoopHolds' /\ RefusedAgain' /\ Once'
        BY <1>1, <1>2, <1>5 DEF LoopHolds, Serving, RefusedAgain, Once
    <2>4. AllOnList'
        BY <1>1, <1>2, <1>3, <1>5 DEF AllOnList, Serving
    <2>5. Queued'
        BY <1>1, <1>2, <1>3, <1>5 DEF Queued, Open
    <2>6. PendingHasJob'
        BY <1>1, <1>2, <1>5 DEF PendingHasJob, OutboxSettled, HasJob
    <2> QED
        BY <2>2, <2>3, <2>4, <2>5, <2>6 DEF OutboxInv
<1>6. CASE /\ r \in DOMAIN jobs /\ jobs' = WithoutJob(r)
           /\ loop' = [loop EXCEPT !.pc = "giveup", !.row = r]
    <2>1. loop' = [pc |-> loop'.pc, todo |-> loop'.todo, row |-> loop'.row, unsent |-> loop'.unsent] /\ loop'.pc = "giveup"
        BY <1>1, <1>6 DEF OutboxTypes
    <2>2. /\ DOMAIN jobs' = DOMAIN jobs \ {r} /\ jobs' \in [DOMAIN jobs' -> Job]
          /\ \A q \in DOMAIN jobs' : q \in DOMAIN jobs /\ jobs'[q] = jobs[q]
        BY <1>1, <1>6 DEF WithoutJob, Restrict, OutboxTypes
    <2>3. OutboxTypes'
        BY <1>1, <1>2, <2>1, <2>2 DEF OutboxTypes, Steps
    <2>4. LoopHolds' /\ RefusedAgain' /\ Once'
        BY <1>1, <1>2, <2>1, <2>2 DEF LoopHolds, Serving, RefusedAgain, Once
    <2>5. AllOnList'
        BY <1>1, <1>2, <1>3, <2>1, <2>2 DEF AllOnList, Serving
    <2>6. Queued' /\ PendingHasJob'
        BY <2>1 DEF Queued, PendingHasJob, OutboxSettled
    <2> QED
        BY <2>3, <2>4, <2>5, <2>6 DEF OutboxInv
<1>7. CASE /\ r \in DOMAIN jobs /\ ~(jobs[r].retries + 1 > RetryLimit)
           /\ jobs' = [jobs EXCEPT ![r].retries = @ + 1]
           /\ loop' = [loop EXCEPT !.pc = "send", !.row = r, !.unsent = jobs[r].recipients]
    <2>1. /\ loop' = [pc |-> loop'.pc, todo |-> loop'.todo, row |-> loop'.row, unsent |-> loop'.unsent]
          /\ loop'.pc = "send" /\ loop'.row = r /\ loop'.unsent = jobs[r].recipients
        BY <1>1, <1>7 DEF OutboxTypes
    <2>2. jobs[r] \in Job /\ jobs[r].retries + 1 \in 0 .. RetryLimit
        BY <1>1, <1>7, LimitsAssumption DEF OutboxTypes, Job
    <2>3. /\ DOMAIN jobs' = DOMAIN jobs
          /\ \A q \in DOMAIN jobs : jobs'[q].part = jobs[q].part /\ jobs'[q].recipients = jobs[q].recipients
        BY <1>7
    <2>4. jobs' \in [DOMAIN jobs' -> Job]
        BY <1>1, <1>7, <2>2 DEF OutboxTypes, Job
    <2>5. r \in DOMAIN reached /\ ToSelf(jobs[r].recipients)
        BY <1>1, <1>7 DEF OutboxTypes
    <2>6. OutboxTypes'
        BY <1>1, <1>2, <2>1, <2>3, <2>4 DEF OutboxTypes, Steps
    <2>7. LoopHolds'
        BY <1>2, <2>1, <2>3, <2>5 DEF LoopHolds
    <2>8. RefusedAgain'
        BY <2>1 DEF RefusedAgain
    <2>9. Once'
        BY <1>1, <1>2, <1>7 DEF Once
    <2>10. AllOnList'
        BY <1>1, <1>2, <1>3, <1>7 DEF AllOnList
    <2>11. Queued'
        BY <1>1, <1>2, <1>3, <2>3 DEF Queued, Open
    <2>12. PendingHasJob'
        BY <1>7 DEF PendingHasJob, OutboxSettled, HasJob
    <2> QED
        BY <2>6, <2>7, <2>8, <2>9, <2>10, <2>11, <2>12 DEF OutboxInv
<1> QED
    BY <1>4, <1>5, <1>6, <1>7

\* The server takes a chunk: what is known of the job afterwards.
LEMMA ChunkTaken ==
    ASSUME OutboxInv, loop.pc = "send", Accepted
    PROVE  LET r == loop.row
               u == loop.unsent IN
           /\ r \in DOMAIN reached /\ ToSelf(u)
           /\ DOMAIN reached' = DOMAIN reached /\ reached' \in [DOMAIN reached -> Reach]
           /\ \A q \in DOMAIN reached : reached'[q].part = reached[q].part
           /\ \A q \in DOMAIN reached \ {r} : reached'[q].to = reached[q].to
           /\ reached'[r].to = reached[r].to \cup Chunk(u)
           /\ ToSet(u) = Chunk(u) \cup ToSet(Rest(u)) /\ Chunk(u) \cap ToSet(Rest(u)) = {}
           /\ Rest(u) = <<>> => Chunk(u) = ToSet(u)
           /\ r \notin unsure => ToSet(u) \cap reached[r].to = {}
           /\ twice' \subseteq unsure \cup (IF r \in unsure THEN {r} ELSE {})
           /\ \A p \in copies' : Complete(p)'
           /\ \A p : Complete(p) => Complete(p)'
<1> DEFINE r == loop.row
           u == loop.unsent
<1>1. OutboxTypes /\ LoopHolds /\ AllOnList /\ Once
    BY DEF OutboxInv
<1>2. /\ r \in DOMAIN reached /\ ToSelf(u)
      /\ ToSet(Members) \subseteq reached[r].to \cup ToSet(u)
    BY <1>1 DEF LoopHolds, AllOnList, Serving
<1>3. /\ reached' = [reached EXCEPT ![r].to = @ \cup Chunk(u)]
      /\ twice' = (IF reached[r].to \cap Chunk(u) # {} THEN twice \cup {r} ELSE twice)
      /\ copies' = (IF Self \in Chunk(u) THEN copies \cup {reached[r].part} ELSE copies)
    BY DEF Accepted
<1>4. /\ ToSet(u) = Chunk(u) \cup ToSet(Rest(u)) /\ Chunk(u) \cap ToSet(Rest(u)) = {} /\ ToSet(u) \subseteq People
      /\ Rest(u) = <<>> => Chunk(u) = ToSet(u)
      /\ Self \in Chunk(u) => Rest(u) = <<>>
    BY <1>2, ChunkFacts
<1>5. \A q \in DOMAIN reached : reached[q] \in Reach
    BY <1>1 DEF OutboxTypes
<1> HIDE DEF r, u
<1>6. /\ DOMAIN reached' = DOMAIN reached
      /\ \A q \in DOMAIN reached : reached'[q].part = reached[q].part /\ reached'[q].due = reached[q].due
      /\ \A q \in DOMAIN reached \ {r} : reached'[q].to = reached[q].to
      /\ reached'[r].to = reached[r].to \cup Chunk(u)
    BY <1>2, <1>3, <1>5 DEF Reach
<1>7. reached' \in [DOMAIN reached -> Reach]
    BY <1>3, <1>4, <1>5 DEF Reach
<1>8. \A p : Complete(p) => Complete(p)'
    BY <1>2, <1>6, ReachedStays
<1>9. r \notin unsure => ToSet(u) \cap reached[r].to = {}
    BY <1>1 DEF Once, r, u
<1>10. twice' \subseteq unsure
    BY <1>1, <1>3, <1>4, <1>9 DEF Once
<1>11. Self \in Chunk(u) => \A p : p = reached[r].part => Complete(p)'
    <2>1. Self \in Chunk(u) => ToSet(Members) \subseteq reached'[r].to
        BY <1>2, <1>4, <1>6
    <2> QED
        BY <1>2, <1>6, <2>1 DEF Complete, Served
<1>12. \A p \in copies' : Complete(p)'
    BY <1>1, <1>3, <1>8, <1>11 DEF AllOnList
<1> QED
    BY <1>2, <1>4, <1>6, <1>7, <1>8, <1>9, <1>10, <1>12 DEF r, u

\* The server takes a chunk and says so.
LEMMA SendKeeps ==
    ASSUME OutboxInv, SendChunk
    PROVE  OutboxInv'
<1>1. OutboxTypes /\ LoopHolds /\ AllOnList /\ RefusedAgain /\ Queued /\ PendingHasJob /\ Once
    BY DEF OutboxInv
<1>2. /\ loop.pc = "send" /\ Accepted /\ state' = state /\ split' = split /\ members' = members
      /\ jobs' = jobs /\ nextRow' = nextRow /\ unsure' = unsure /\ fetching' = fetching
      /\ resending' = resending /\ deleting' = deleting /\ cut' = cut
    BY DEF SendChunk, msgVars, otherVars
<1>3. /\ loop.row \in DOMAIN reached /\ ToSelf(loop.unsent)
      /\ DOMAIN reached' = DOMAIN reached /\ reached' \in [DOMAIN reached -> Reach]
      /\ \A q \in DOMAIN reached : reached'[q].part = reached[q].part
      /\ \A q \in DOMAIN reached \ {loop.row} : reached'[q].to = reached[q].to
      /\ reached'[loop.row].to = reached[loop.row].to \cup Chunk(loop.unsent)
      /\ twice' \subseteq unsure
      /\ \A p \in copies' : Complete(p)'
      /\ \A p : Complete(p) => Complete(p)'
    BY <1>2, ChunkTaken
<1>4. /\ ToSet(loop.unsent) = Chunk(loop.unsent) \cup ToSet(Rest(loop.unsent))
      /\ Chunk(loop.unsent) \cap ToSet(Rest(loop.unsent)) = {}
      /\ loop.row \notin unsure => ToSet(loop.unsent) \cap reached[loop.row].to = {}
    BY <1>2, ChunkTaken
<1>5. /\ loop' = [pc |-> loop'.pc, todo |-> loop'.todo, row |-> loop'.row, unsent |-> loop'.unsent]
      /\ loop'.pc = (IF Rest(loop.unsent) = <<>> THEN "sent" ELSE "progress")
      /\ loop'.row = loop.row /\ loop'.unsent = loop.unsent
    BY <1>1 DEF SendChunk, JobGoto, OutboxTypes
<1>6. \A r \in DOMAIN jobs : r \in DOMAIN reached
    BY <1>1 DEF OutboxTypes
<1>7. OutboxTypes'
    BY <1>1, <1>2, <1>3, <1>5 DEF OutboxTypes, Steps
<1>8. LoopHolds'
    BY <1>1, <1>2, <1>3, <1>5 DEF LoopHolds, Serving
<1>9. AllOnList'
    BY <1>1, <1>2, <1>3, <1>5, <1>6 DEF AllOnList, Serving, Serving
<1>10. RefusedAgain'
    BY <1>5 DEF RefusedAgain
<1>11. Queued'
    BY <1>1, <1>2, <1>3 DEF Queued, Open
<1>12. PendingHasJob'
    BY <1>1, <1>2 DEF PendingHasJob, OutboxSettled, HasJob
<1>13. Once'
    BY <1>1, <1>2, <1>3, <1>4, <1>5, <1>6 DEF Once
<1> QED
    BY <1>7, <1>8, <1>9, <1>10, <1>11, <1>12, <1>13 DEF OutboxInv

\* The server takes a chunk and its answer is lost.
LEMMA LostKeeps ==
    ASSUME OutboxInv, AnswerLost
    PROVE  OutboxInv'
<1>1. OutboxTypes /\ LoopHolds /\ AllOnList /\ RefusedAgain /\ Queued /\ PendingHasJob /\ Once
    BY DEF OutboxInv
<1>2. /\ loop.pc = "send" /\ Accepted /\ unsure' = unsure \cup {loop.row} /\ state' = state
      /\ split' = split /\ members' = members /\ jobs' = jobs /\ nextRow' = nextRow
      /\ fetching' = fetching /\ resending' = resending /\ deleting' = deleting /\ cut' = cut
    BY DEF AnswerLost, msgVars, otherVars
<1>3. /\ loop.row \in DOMAIN reached /\ ToSelf(loop.unsent)
      /\ DOMAIN reached' = DOMAIN reached /\ reached' \in [DOMAIN reached -> Reach]
      /\ \A q \in DOMAIN reached : reached'[q].part = reached[q].part
      /\ \A q \in DOMAIN reached \ {loop.row} : reached'[q].to = reached[q].to
      /\ reached'[loop.row].to = reached[loop.row].to \cup Chunk(loop.unsent)
      /\ twice' \subseteq unsure
      /\ \A p \in copies' : Complete(p)'
      /\ \A p : Complete(p) => Complete(p)'
    BY <1>2, ChunkTaken
<1>4. /\ loop' = [pc |-> loop'.pc, todo |-> loop'.todo, row |-> loop'.row, unsent |-> loop'.unsent]
      /\ loop'.pc = "idle"
    BY DEF AnswerLost, NoPass
<1>5. \A r \in DOMAIN jobs : r \in DOMAIN reached
    BY <1>1 DEF OutboxTypes
<1>6. OutboxTypes'
    BY <1>1, <1>2, <1>3, <1>4 DEF OutboxTypes, Steps
<1>7. LoopHolds'
    BY <1>4 DEF LoopHolds, Serving
<1>8. AllOnList'
    BY <1>1, <1>2, <1>3, <1>4, <1>5 DEF AllOnList, Serving, Serving
<1>9. RefusedAgain'
    BY <1>4 DEF RefusedAgain
<1>10. Queued'
    BY <1>1, <1>2, <1>3 DEF Queued, Open
<1>11. PendingHasJob'
    BY <1>1, <1>2 DEF PendingHasJob, OutboxSettled, HasJob
<1>12. Once'
    BY <1>1, <1>2, <1>3, <1>4, <1>5 DEF Once
<1> QED
    BY <1>6, <1>7, <1>8, <1>9, <1>10, <1>11, <1>12 DEF OutboxInv

\* The recipients still to be served are written back.
LEMMA SaveKeeps ==
    ASSUME OutboxInv, SaveProgress
    PROVE  OutboxInv'
<1>1. OutboxTypes /\ LoopHolds /\ AllOnList /\ RefusedAgain /\ Queued /\ PendingHasJob /\ Once
    BY DEF OutboxInv
<1>2. /\ loop.pc = "progress" /\ state' = state /\ split' = split /\ members' = members
      /\ nextRow' = nextRow /\ reached' = reached /\ twice' = twice /\ unsure' = unsure
      /\ copies' = copies /\ fetching' = fetching /\ resending' = resending
      /\ deleting' = deleting /\ cut' = cut
    BY DEF SaveProgress, msgVars, otherVars
<1>3. \A p : Complete(p)' <=> Complete(p)
    BY <1>2 DEF Complete, Served
<1>4. /\ loop' = [pc |-> loop'.pc, todo |-> loop'.todo, row |-> loop'.row, unsent |-> loop'.unsent]
      /\ loop'.pc = "send" /\ loop'.row = loop.row /\ loop'.unsent = Rest(loop.unsent)
    BY <1>1 DEF SaveProgress, OutboxTypes
<1>5. /\ loop.row \in DOMAIN reached /\ ToSelf(loop.unsent) /\ ToSelf(Rest(loop.unsent))
      /\ ToSet(loop.unsent) = Chunk(loop.unsent) \cup ToSet(Rest(loop.unsent))
    BY <1>1, <1>2, ChunkFacts DEF LoopHolds, Serving
<1>6. /\ DOMAIN jobs' = DOMAIN jobs /\ jobs' \in [DOMAIN jobs' -> Job]
      /\ \A q \in DOMAIN jobs : jobs'[q].part = jobs[q].part
      /\ \A q \in DOMAIN jobs \ {loop.row} : jobs'[q].recipients = jobs[q].recipients
      /\ loop.row \in DOMAIN jobs => jobs'[loop.row].recipients = Rest(loop.unsent)
    <2>1. \A q \in DOMAIN jobs : jobs[q] \in Job
        BY <1>1 DEF OutboxTypes
    <2>2. CASE loop.row \in DOMAIN jobs
        <3>1. jobs' = [jobs EXCEPT ![loop.row].recipients = Rest(loop.unsent)]
            BY <2>2 DEF SaveProgress
        <3> QED
            BY <1>5, <2>1, <3>1 DEF Job, ToSelf
    <2>3. CASE loop.row \notin DOMAIN jobs
        BY <1>1, <2>3 DEF SaveProgress, OutboxTypes
    <2> QED
        BY <2>2, <2>3
<1>7. OutboxTypes'
    BY <1>1, <1>2, <1>4, <1>5, <1>6 DEF OutboxTypes, Steps
<1>8. LoopHolds'
    BY <1>2, <1>4, <1>5, <1>6 DEF LoopHolds
<1>9. AllOnList'
    BY <1>1, <1>2, <1>3, <1>4, <1>5, <1>6 DEF AllOnList, Serving, Serving
<1>10. RefusedAgain'
    BY <1>4 DEF RefusedAgain
<1>11. Queued'
    BY <1>1, <1>2, <1>3, <1>6 DEF Queued, Open
<1>12. PendingHasJob'
    BY <1>1, <1>2, <1>6 DEF PendingHasJob, OutboxSettled, HasJob
<1>13. Once'
    BY <1>1, <1>2, <1>4, <1>6 DEF Once
<1> QED
    BY <1>7, <1>8, <1>9, <1>10, <1>11, <1>12, <1>13 DEF OutboxInv

\* Every step of the queue and of those around it keeps the invariant.
LEMMA OutboxStep ==
    ASSUME OutboxInv, [OutboxNext]_outboxVars
    PROVE  OutboxInv'
<1>1. CASE UNCHANGED outboxVars
    <2>1. \A p : Complete(p)' <=> Complete(p)
        BY <1>1 DEF outboxVars, jobVars, Complete, Served
    <2>2. OutboxTypes' /\ LoopHolds' /\ RefusedAgain'
        BY <1>1 DEF outboxVars, msgVars, jobVars, otherVars, OutboxInv, OutboxTypes, LoopHolds, RefusedAgain, Open
    <2>3. PendingHasJob' /\ Once'
        BY <1>1 DEF outboxVars, msgVars, jobVars, otherVars, OutboxInv, PendingHasJob, OutboxSettled, HasJob, Once
    <2>4. AllOnList' /\ Queued'
        BY <1>1, <2>1 DEF outboxVars, msgVars, jobVars, otherVars, OutboxInv, AllOnList, Queued, Open
    <2> QED
        BY <2>2, <2>3, <2>4 DEF OutboxInv
<1>2. ASSUME NEW parts \in {{"whole"}, {"pre", "post"}}, Submit(parts) PROVE OutboxInv'
    <2>1. /\ split = {} /\ split' = parts /\ InsertJobs(parts) /\ resending' = resending
          /\ UNCHANGED <<state, members, loop, copies, fetching, deleting, cut>>
        BY <1>2 DEF Submit, otherVars
    <2> QED
        BY <2>1, InsertKeeps
<1>3. CASE ResendJobs
    <2>1. split \in {{"whole"}, {"pre", "post"}}
        BY <1>3 DEF ResendJobs, OutboxInv, OutboxTypes
    <2>2. /\ split' = split /\ InsertJobs(split) /\ resending' = FALSE
          /\ UNCHANGED <<state, members, loop, copies, fetching, deleting, cut>>
        BY <1>3 DEF ResendJobs, msgVars
    <2> QED
        BY <2>1, <2>2, InsertKeeps
<1>4. CASE MemberJoins \/ ResendMsgs \/ ResendFails \/ DeleteJobs \/ TrashRow \/ Bounce
    BY <1>4, JoinKeeps, ResendKeeps, ResendFailsKeeps, DeleteKeeps, TrashRowKeeps, BounceKeeps
<1>5. CASE Poll \/ Offline \/ SendRetry \/ EndPass
    BY <1>5, PassKeeps
<1>6. CASE LoadJob \/ GiveUp \/ SendChunk \/ AnswerLost \/ SendRefused
    BY <1>6, LoadKeeps, GiveUpKeeps, SendKeeps, LostKeeps, RefusedKeeps
<1>7. CASE DropRefused \/ SaveProgress \/ DropSent \/ CheckSent
    BY <1>7, DropRefusedKeeps, SaveKeeps, DropSentKeeps, CheckKeeps
<1>8. CASE (\E p \in Parts : FetchCopy(p)) \/ CheckFetched \/ OutboxCrash
    BY <1>8, FetchKeeps, FetchedKeeps, CrashKeeps
<1> QED
    BY <1>1, <1>2, <1>3, <1>4, <1>5, <1>6, <1>7, <1>8 DEF OutboxNext, SmtpStep

\* The queue starts empty.
LEMMA OutboxStart ==
    ASSUME OutboxInit
    PROVE  OutboxInv
<1>1. /\ DOMAIN jobs = {} /\ DOMAIN reached = {} /\ copies = {} /\ twice = {} /\ split = {} /\ nextRow = 1
      /\ members = Members /\ state = "pending" /\ resending = FALSE
      /\ loop = NoPass /\ loop.pc = "idle"
    BY DEF OutboxInit, NoPass
<1>2. members \in Seq(People) /\ ToSet(Members) \subseteq ToSet(members)
    BY <1>1, MembersAssumption DEF People
<1>3. OutboxTypes
    BY <1>1, <1>2, MembersAssumption DEF OutboxTypes, Steps, NoPass
<1>4. LoopHolds /\ AllOnList /\ RefusedAgain /\ Once
    BY <1>1 DEF LoopHolds, AllOnList, RefusedAgain, Once, Serving
<1>5. Queued /\ PendingHasJob
    BY <1>1 DEF Queued, PendingHasJob
<1> QED
    BY <1>3, <1>4, <1>5 DEF OutboxInv

\* The invariant says what the queue promises.
LEMMA OutboxPromises ==
    ASSUME OutboxInv
    PROVE  OutboxSafe
<1>1. OutboxTypeOK
    BY DEF OutboxInv, OutboxTypes, OutboxTypeOK, ToSelf, Job
<1>2. DeliveredReached
    BY DEF OutboxInv, Queued, Open, Complete, DeliveredReached, OutboxSettled, HasJob
<1>3. PendingHasJob /\ NoneServedTwice
    BY DEF OutboxInv, Once, NoneServedTwice
<1> QED
    BY <1>1, <1>2, <1>3 DEF OutboxSafe

\* A message that counts as delivered was accepted, in every part, for all it was first
\* sent to; a pending one has a job or somebody about to settle it; nobody is served
\* twice by a job unless an answer was lost or the process died. For any number of
\* recipients, any chunk size and retry limit, whatever the server answers (smtp.rs,
\* receive_imf's own-copy branch, set_delivered).
THEOREM DeliveredMeansReached == OutboxSpec => []OutboxSafe
<1>1. OutboxInit => OutboxInv
    BY OutboxStart
<1>2. OutboxInv /\ [OutboxNext]_outboxVars => OutboxInv'
    BY OutboxStep
<1>3. OutboxInv => OutboxSafe
    BY OutboxPromises
<1> QED
    BY <1>1, <1>2, <1>3, PTL DEF OutboxSpec

----------------------------------------------------------------------------
(***************************************************************************)
(* Receipts: the inductive invariant.                                      *)
(***************************************************************************)

\* What the settings, a call of markseen_msgs, a row of smtp_mdns and the loop may hold.
Policies == {Never, VerifiedOnly, Always}
ReadStates == [ShownMsgs -> {"fresh", "noticed", "seen"}]
Seeings == [todo : Seq(ShownMsgs), pc : {"state", "decide", "contact", "self"}, from : ReadStates,
            wants : SUBSET Asking, blocked : {"not", "request", "yes"}]
MdnRows == [mid : ShownMsgs, to : {"contact", "self"}, retries : 0 .. MdnRetries + 1]
MdnLoops == [pc : {"idle", "send", "sent"}, mids : SUBSET ShownMsgs,
             to : {"none", "contact", "self"}, first : ShownMsgs \cup {"none"}]

ChoiceTypes ==
    /\ enabled \in BOOLEAN /\ policy \in Policies /\ setPolicy \in Policies \cup {3}
    /\ before \in Policies /\ toggled \in BOOLEAN
SeenTypes ==
    /\ chatBlocked \in {"not", "request", "yes"} /\ read \in ReadStates
    /\ wants \in SUBSET Asking /\ seeing \in Seeings
LoopTypes ==
    /\ queue \in SUBSET MdnRows /\ mdnLoop \in MdnLoops /\ mdnRate \in 0 .. MdnQuota
ToldTypes ==
    /\ flying \in [ShownMsgs -> Nat] /\ counted \in [ShownMsgs -> {0, 1}]
    /\ told \in [ShownMsgs -> Nat] /\ risky \in SUBSET ShownMsgs
ReceiptTypes == ChoiceTypes /\ SeenTypes /\ LoopTypes /\ ToldTypes

\* Unless MdnsEnabled was written on its own it agrees with MdnPolicy, and while
\* MdnPolicy::set is between its writes MdnPolicy still is what was in force.
AsChosen ==
    ~toggled => IF setPolicy = 3 THEN enabled <=> policy # Never ELSE before = policy

\* What a call of markseen_msgs holds of messages it has yet to handle is still true: no
\* message is listed twice, so only the one it is at has been taken from wants.
StillAsked(w, see) ==
    /\ \A i, j \in 1 .. Len(see.todo) : see.todo[i] = see.todo[j] => i = j
    /\ \A i \in 1 .. Len(see.todo) :
          see.todo[i] \in see.wants => \/ see.todo[i] \in w
                                       \/ i = 1 /\ see.pc \in {"contact", "self"}
    /\ see.todo # <<>> /\ see.pc = "contact" => see.todo[1] \in Asking \ w

\* Where the one receipt for a message is: about to be queued, in smtp_mdns, in the
\* hands of the loop.
Writing(see, m) == see.todo # <<>> /\ see.pc = "contact" /\ see.todo[1] = m
MdnQueued(rows, m) == \E q \in rows : q.mid = m /\ q.to = "contact"
Carried(lp, m) == lp.pc \in {"send", "sent"} /\ lp.to = "contact" /\ m \in lp.mids

\* A message that still wants a receipt has none on the way; one on its way has not left
\* yet, unless an answer or the process was lost, or its row is about to go.
OneReceipt(w, see, rows, lp, t, rsk, m) ==
    /\ m \in w \/ Writing(see, m) => t[m] = 0 /\ ~MdnQueued(rows, m) /\ ~Carried(lp, m)
    /\ MdnQueued(rows, m) => t[m] = 0 \/ m \in rsk \/ (Carried(lp, m) /\ lp.pc = "sent")
    /\ Carried(lp, m) /\ lp.pc = "send" => t[m] = 0 \/ m \in rsk
    /\ t[m] > 1 => m \in rsk
    /\ t[m] > 0 \/ MdnQueued(rows, m) \/ Carried(lp, m) => m \in Asking

Receipts ==
    \A m \in ShownMsgs : OneReceipt(wants, seeing, queue, mdnLoop, told, risky, m)
ReceiptInv ==
    ReceiptTypes /\ AsChosen /\ ~wrongly /\ StillAsked(wants, seeing) /\ Receipts

\* What the receipts of messages depend on.
mailOnWay == <<wants, seeing, queue, mdnLoop, told, risky>>

----------------------------------------------------------------------------

LEMMA ReceiptInvSafe == ReceiptInv => ReceiptsSafe
<1> SUFFICES ASSUME ReceiptInv PROVE ReceiptsSafe OBVIOUS
<1>1. ReceiptTypeOK
  BY DEF ReceiptInv, ReceiptTypes, ChoiceTypes, SeenTypes, LoopTypes, ReceiptTypeOK, MdnRows, Policies
<1>2. ReceiptOnce /\ OnlyAllowed
  BY DEF ReceiptInv, Receipts, OneReceipt, ReceiptOnce, OnlyAllowed
<1>3. CountedOnce
  BY DEF ReceiptInv, ReceiptTypes, ToldTypes, CountedOnce
<1> QED BY <1>1, <1>2, <1>3 DEF ReceiptsSafe

\* A call of markseen_msgs that is over or has not begun.
LEMMA NotSeeingTyped ==
    NotSeeing \in Seeings /\ NotSeeing.todo = <<>> /\ \A w : StillAsked(w, NotSeeing)
<1>1. NotSeeing \in Seeings /\ \A w : StillAsked(w, NotSeeing)
  BY EmptySeq DEF NotSeeing, Seeings, ReadStates, StillAsked
<1>2. NotSeeing.todo = <<>>
  BY Zenon DEF NotSeeing
<1> QED BY <1>1, <1>2

LEMMA MdnIdleTyped == MdnIdle \in MdnLoops /\ \A m : ~Carried(MdnIdle, m)
BY DEF MdnIdle, MdnLoops, Carried

LEMMA ReceiptInitInv == ReceiptInit => ReceiptInv
<1> SUFFICES ASSUME ReceiptInit PROVE ReceiptInv OBVIOUS
<1> USE DEF ReceiptInit
<1>1. ChoiceTypes /\ AsChosen /\ ~wrongly
  <2>1. policy = Always /\ before = Always /\ setPolicy = 3 OBVIOUS
  <2>2. enabled = TRUE /\ toggled = FALSE /\ wrongly = FALSE OBVIOUS
  <2>3. Always # Never BY DEF Always, Never
  <2>4. AsChosen BY <2>1, <2>2, <2>3, Zenon DEF AsChosen
  <2> QED BY <2>1, <2>2, <2>4, Zenon DEF ChoiceTypes, Policies
<1>2. SeenTypes /\ StillAsked(wants, seeing)
  BY NotSeeingTyped DEF SeenTypes, ReadStates
<1>3. LoopTypes
  BY MdnIdleTyped, ReceiptAssumption DEF LoopTypes
<1>4. ToldTypes
  BY DEF ToldTypes
<1>5. ASSUME NEW m \in ShownMsgs
      PROVE  OneReceipt(wants, seeing, queue, mdnLoop, told, risky, m)
  <2>1. ~MdnQueued(queue, m) BY DEF MdnQueued
  <2>2. ~Carried(mdnLoop, m) BY MdnIdleTyped
  <2>3. told[m] = 0 OBVIOUS
  <2> QED BY <2>1, <2>2, <2>3 DEF OneReceipt
<1> QED BY <1>1, <1>2, <1>3, <1>4, <1>5 DEF ReceiptInv, ReceiptTypes, Receipts

\* A step that does not touch what receipts depend on.
LEMMA MailStays ==
    ASSUME ReceiptInv, UNCHANGED mailOnWay
    PROVE  StillAsked(wants, seeing)' /\ Receipts'
BY DEF ReceiptInv, mailOnWay, StillAsked, Receipts, OneReceipt, Writing, MdnQueued, Carried

----------------------------------------------------------------------------
(* The settings and the chat. *)

LEMMA ChoiceInv ==
    ASSUME ReceiptInv,
           \/ \E p \in Policies : SetEnabled(p)
           \/ WritePolicy \/ ToggleEnabled \/ \E e \in {"none", "on", "off"} : SetException(e)
           \/ Verify
    PROVE  ReceiptInv'
<1> USE DEF ReceiptInv, ReceiptTypes, ChoiceTypes, choiceVars, chatVars, mdnVars
<1>1. UNCHANGED <<mailOnWay, chatBlocked, read, mdnRate, flying, counted, wrongly>>
  BY DEF mailOnWay, SetEnabled, WritePolicy, ToggleEnabled, SetException, Verify
<1>2. SeenTypes' /\ LoopTypes' /\ ToldTypes' /\ ~wrongly'
  BY <1>1 DEF mailOnWay, SeenTypes, LoopTypes, ToldTypes
<1>3. ChoiceTypes' /\ AsChosen'
  <2> USE DEF AsChosen, LoadPolicy, Policies
  <2>0. 3 \notin Policies /\ Never \in Policies BY DEF Never, VerifiedOnly, Always
  <2>1. ASSUME NEW p \in Policies, SetEnabled(p) PROVE ChoiceTypes' /\ AsChosen'
    BY <2>0, <2>1 DEF SetEnabled
  <2>2. CASE WritePolicy
    BY <2>0, <2>2 DEF WritePolicy
  <2>3. CASE ToggleEnabled
    BY <2>0, <2>3 DEF ToggleEnabled
  <2>4. ASSUME NEW e, SetException(e) PROVE ChoiceTypes' /\ AsChosen'
    BY <2>4 DEF SetException
  <2>5. CASE Verify
    BY <2>5 DEF Verify
  <2> QED BY <2>1, <2>2, <2>3, <2>4, <2>5
<1> QED BY <1>1, <1>2, <1>3, MailStays

LEMMA ChatInv ==
    ASSUME ReceiptInv, Accept \/ Block \/ Notice \/ MarkFresh
    PROVE  ReceiptInv'
<1> USE DEF ReceiptInv, ReceiptTypes, choiceVars, chatVars, mdnVars
<1>1. UNCHANGED <<mailOnWay, choiceVars, mdnRate, flying, counted, wrongly>>
  BY DEF mailOnWay, Accept, Block, Notice, MarkFresh
<1>2. ChoiceTypes' /\ AsChosen' /\ LoopTypes' /\ ToldTypes' /\ ~wrongly'
  BY <1>1 DEF mailOnWay, ChoiceTypes, AsChosen, LoopTypes, ToldTypes
<1>3. SeenTypes'
  BY <1>1 DEF mailOnWay, SeenTypes, ReadStates, Accept, Block, Notice, MarkFresh
<1> QED BY <1>1, <1>2, <1>3, MailStays

----------------------------------------------------------------------------
(* What the user has seen. *)

\* markseen_msgs handles each of its messages once.
LEMMA ListedOnce ==
    ASSUME NEW s \in {SetToSeq(ShownMsgs)} \cup {<<m>> : m \in ShownMsgs}
    PROVE  s \in Seq(ShownMsgs) /\ \A i, j \in 1 .. Len(s) : s[i] = s[j] => i = j
<1>1. CASE s = SetToSeq(ShownMsgs)
  <2> DEFINE n == Cardinality(ShownMsgs)
  <2>1. n \in Nat /\ ExistsBijection(1 .. n, ShownMsgs)
    BY FS_CardinalityType, ReceiptAssumption
  <2>2. PICK f \in Bijection(1 .. n, ShownMsgs) : TRUE
    BY <2>1 DEF ExistsBijection
  <2>3. f \in [1 .. n -> ShownMsgs] /\ IsInjective(f)
    BY <2>2 DEF Bijection, Injection, Surjection, IsInjective
  <2>4. s \in [1 .. n -> ShownMsgs] /\ IsInjective(s)
    BY <1>1, <2>3 DEF SetToSeq
  <2> HIDE DEF n
  <2>5. s \in Seq(ShownMsgs) /\ Len(s) = n
    BY <2>1, <2>4
  <2> QED BY <2>4, <2>5 DEF IsInjective
<1>2. CASE s \in {<<m>> : m \in ShownMsgs}
  <2>1. PICK m \in ShownMsgs : s = <<m>> BY <1>2
  <2>2. s \in Seq(ShownMsgs) /\ Len(s) = 1 BY <2>1
  <2> QED BY <2>2
<1> QED BY <1>1, <1>2

LEMMA MarkSeenInv ==
    ASSUME ReceiptInv, NEW s \in {SetToSeq(ShownMsgs)} \cup {<<m>> : m \in ShownMsgs}, MarkSeen(s)
    PROVE  ReceiptInv'
<1> USE DEF MarkSeen, ReceiptInv, ReceiptTypes, choiceVars, chatVars, mdnVars
<1>1. ChoiceTypes' /\ AsChosen' /\ LoopTypes' /\ ToldTypes' /\ ~wrongly'
  BY DEF ChoiceTypes, AsChosen, LoopTypes, ToldTypes
<1>2. /\ seeing' = [todo |-> s, pc |-> "state", from |-> read, wants |-> wants,
                    blocked |-> chatBlocked]
      /\ wants' = wants
  OBVIOUS
<1>3. s \in Seq(ShownMsgs) /\ \A i, j \in 1 .. Len(s) : s[i] = s[j] => i = j
  BY ListedOnce
<1>4. SeenTypes'
  BY <1>2, <1>3 DEF SeenTypes, Seeings
<1>5. StillAsked(wants, seeing)'
  BY <1>2, <1>3 DEF StillAsked
<1>6. ASSUME NEW m \in ShownMsgs
      PROVE  OneReceipt(wants, seeing, queue, mdnLoop, told, risky, m)'
  BY <1>2 DEF Receipts, OneReceipt, Writing, MdnQueued, Carried
<1> QED BY <1>1, <1>4, <1>5, <1>6 DEF Receipts

\* Once a message is handled, what the call holds of the others is true.
LEMMA HandledOne ==
    ASSUME NEW see \in Seeings, NEW w, NEW v, see.todo # <<>>, StillAsked(w, see),
           \A m \in w : m = see.todo[1] \/ m \in v, v \subseteq w,
           NEW next, next = IF Len(see.todo) = 1 THEN NotSeeing
                            ELSE [see EXCEPT !.todo = Tail(@), !.pc = "state"]
    PROVE  next \in Seeings /\ StillAsked(v, next) /\ \A m : ~Writing(next, m)
<1>1. CASE Len(see.todo) = 1
  <2>1. next = NotSeeing BY <1>1
  <2>2. next \in Seeings /\ StillAsked(v, next) BY <2>1, NotSeeingTyped
  <2>3. next.todo = <<>> BY <2>1, NotSeeingTyped, Zenon
  <2> QED BY <2>2, <2>3 DEF Writing
<1>2. CASE Len(see.todo) # 1
  <2>1. next = [see EXCEPT !.todo = Tail(@), !.pc = "state"] BY <1>2
  <2>2. /\ next.todo = Tail(see.todo) /\ next.pc = "state" /\ next.from = see.from
        /\ next.wants = see.wants /\ next.blocked = see.blocked
    BY <2>1 DEF Seeings
  <2>3. see.todo \in Seq(ShownMsgs) BY DEF Seeings
  <2>4. /\ Tail(see.todo) \in Seq(ShownMsgs) /\ Len(Tail(see.todo)) = Len(see.todo) - 1
        /\ \A i \in 1 .. Len(Tail(see.todo)) : Tail(see.todo)[i] = see.todo[i + 1]
    BY <2>3, HeadTailProperties
  <2>5. next \in Seeings
    BY <2>1, <2>4 DEF Seeings
  <2>6. \A i \in 1 .. Len(next.todo) : /\ i + 1 \in 1 .. Len(see.todo) /\ i + 1 # 1
                                       /\ next.todo[i] = see.todo[i + 1]
    <3>0. Len(next.todo) = Len(Tail(see.todo)) BY <2>2, Zenon
    <3>1. Len(next.todo) = Len(see.todo) - 1 /\ Len(see.todo) \in Nat BY <2>3, <2>4, <3>0
    <3>2. \A i \in 1 .. Len(next.todo) : next.todo[i] = see.todo[i + 1] BY <2>2, <2>4
    <3> QED BY <3>1, <3>2
  <2>7. 1 \in 1 .. Len(see.todo)
    BY <2>3
  <2>8. \A i, j \in 1 .. Len(next.todo) : next.todo[i] = next.todo[j] => i = j
    BY <2>6 DEF StillAsked
  <2>9. \A i \in 1 .. Len(next.todo) : next.todo[i] \in next.wants => next.todo[i] \in v
    BY <2>2, <2>6, <2>7 DEF StillAsked
  <2> QED BY <2>2, <2>5, <2>8, <2>9 DEF StillAsked, Writing
<1> QED BY <1>1, <1>2

LEMMA HeadIsFirst ==
    ASSUME NEW see \in Seeings, see.todo # <<>>
    PROVE  Head(see.todo) = see.todo[1] /\ see.todo[1] \in ShownMsgs /\ 1 \in 1 .. Len(see.todo)
BY DEF Seeings

LEMMA SeeStateInv ==
    ASSUME ReceiptInv, SeeState PROVE ReceiptInv'
<1> USE DEF ReceiptInv, ReceiptTypes, choiceVars, chatVars, mdnVars
<1> DEFINE m == Head(seeing.todo)
<1>1. ChoiceTypes' /\ AsChosen' /\ LoopTypes' /\ ToldTypes' /\ ~wrongly'
  BY DEF SeeState, ChoiceTypes, AsChosen, LoopTypes, ToldTypes
<1>2. UNCHANGED <<chatBlocked, wants, queue, mdnLoop, told, risky>>
  BY DEF SeeState
<1>3. seeing \in Seeings /\ seeing.todo # <<>> /\ seeing.pc = "state"
  BY DEF SeeState, SeenTypes
<1>4. \/ Done(m) /\ read' = read
      \/ read' = [read EXCEPT ![m] = "seen"] /\ seeing' = [seeing EXCEPT !.pc = "decide"]
  BY DEF SeeState
<1>5. read' \in ReadStates
  BY <1>4 DEF SeenTypes, ReadStates
<1>6. seeing' \in Seeings /\ StillAsked(wants', seeing') /\ \A k : ~Writing(seeing', k)
  <2>1. CASE Done(m)
    BY <1>2, <1>3, <2>1, HandledOne DEF Done
  <2>2. CASE seeing' = [seeing EXCEPT !.pc = "decide"]
    <3>1. /\ seeing'.todo = seeing.todo /\ seeing'.pc = "decide" /\ seeing'.wants = seeing.wants
          /\ seeing' \in Seeings
      BY <1>3, <2>2 DEF Seeings
    <3> QED BY <1>2, <1>3, <3>1 DEF StillAsked, Writing
  <2> QED BY <1>4, <2>1, <2>2
<1>7. SeenTypes'
  BY <1>2, <1>5, <1>6 DEF SeenTypes
<1>8. ASSUME NEW k \in ShownMsgs
      PROVE  OneReceipt(wants, seeing, queue, mdnLoop, told, risky, k)'
  BY <1>2, <1>6 DEF Receipts, OneReceipt, MdnQueued, Carried
<1> QED BY <1>1, <1>6, <1>7, <1>8 DEF Receipts

LEMMA DecideInv ==
    ASSUME ReceiptInv, Decide PROVE ReceiptInv'
<1> USE DEF ReceiptInv, ReceiptTypes, choiceVars, chatVars, mdnVars
<1> DEFINE m == Head(seeing.todo)
           go == seeing.blocked = "not" /\ m \in seeing.wants /\ ShouldSend
<1>1. ChoiceTypes' /\ AsChosen' /\ LoopTypes' /\ ToldTypes'
  BY DEF Decide, ChoiceTypes, AsChosen, LoopTypes, ToldTypes
<1>2. UNCHANGED <<chatBlocked, read, queue, mdnLoop, told, risky>>
  BY DEF Decide
<1>3. seeing \in Seeings /\ seeing.todo # <<>> /\ seeing.pc = "decide"
  BY DEF Decide, SeenTypes
<1>4. /\ wants' = IF go THEN wants \ {m} ELSE wants
      /\ wrongly' = (wrongly \/ (go /\ ~toggled /\ \A p \in Chosen : ~Allows(p)))
      /\ IF go \/ BccSelf
         THEN seeing' = [seeing EXCEPT !.pc = IF go THEN "contact" ELSE "self"]
         ELSE Done(m)
  BY DEF Decide
<1>5. ~wrongly'
  <2>1. SUFFICES ASSUME go, ~toggled PROVE \E p \in Chosen : Allows(p)
    BY <1>4
  <2>2. Allows(LoadPolicy)
    BY <2>1 DEF ShouldSend
  <2>3. LoadPolicy # Never
    BY <2>2 DEF Allows
  <2>4. LoadPolicy \in Chosen
    BY <2>1, <2>3 DEF LoadPolicy, Chosen, AsChosen
  <2> QED BY <2>2, <2>4
<1>6. m = seeing.todo[1] /\ m \in ShownMsgs /\ 1 \in 1 .. Len(seeing.todo)
  BY <1>3, HeadIsFirst
<1>7. go => m \in wants /\ m \in Asking
  BY <1>3, <1>6 DEF StillAsked, SeenTypes
<1> HIDE DEF go
<1>8. CASE go
  <2>1. seeing' = [seeing EXCEPT !.pc = "contact"] /\ wants' = wants \ {m}
    BY <1>4, <1>8
  <2>2. /\ seeing'.todo = seeing.todo /\ seeing'.pc = "contact" /\ seeing'.wants = seeing.wants
        /\ seeing' \in Seeings
    BY <1>3, <2>1 DEF Seeings
  <2>3. StillAsked(wants', seeing')
    BY <1>3, <1>6, <1>7, <1>8, <2>1, <2>2 DEF StillAsked
  <2>4. SeenTypes'
    BY <1>2, <2>1, <2>2 DEF SeenTypes
  <2>5. ASSUME NEW k \in ShownMsgs
        PROVE  OneReceipt(wants, seeing, queue, mdnLoop, told, risky, k)'
    <3>1. k \in wants' \/ Writing(seeing', k) => k \in wants
      BY <1>6, <1>7, <1>8, <2>1, <2>2 DEF Writing
    <3> QED BY <1>2, <3>1 DEF Receipts, OneReceipt, MdnQueued, Carried
  <2> QED BY <1>1, <1>5, <2>3, <2>4, <2>5 DEF Receipts
<1>9. CASE ~go
  <2>1. wants' = wants BY <1>4, <1>9
  <2>2. seeing' \in Seeings /\ StillAsked(wants', seeing') /\ \A k : ~Writing(seeing', k)
    <3>1. CASE BccSelf
      <4>1. seeing' = [seeing EXCEPT !.pc = "self"]
        BY <1>4, <1>9, <3>1
      <4>2. /\ seeing'.todo = seeing.todo /\ seeing'.pc = "self" /\ seeing'.wants = seeing.wants
            /\ seeing' \in Seeings
        BY <1>3, <4>1 DEF Seeings
      <4> QED BY <1>3, <2>1, <4>2 DEF StillAsked, Writing
    <3>2. CASE ~BccSelf
      <4>1. Done(m) BY <1>4, <1>9, <3>2
      <4> QED BY <1>3, <2>1, <4>1, HandledOne DEF Done
    <3> QED BY <3>1, <3>2
  <2>3. SeenTypes'
    BY <1>2, <2>1, <2>2 DEF SeenTypes
  <2>4. ASSUME NEW k \in ShownMsgs
        PROVE  OneReceipt(wants, seeing, queue, mdnLoop, told, risky, k)'
    BY <1>2, <2>1, <2>2 DEF Receipts, OneReceipt, MdnQueued, Carried
  <2> QED BY <1>1, <1>5, <2>2, <2>3, <2>4 DEF Receipts
<1> QED BY <1>8, <1>9

LEMMA EnqueueInv ==
    ASSUME ReceiptInv, Enqueue PROVE ReceiptInv'
<1> USE DEF ReceiptInv, ReceiptTypes, choiceVars, chatVars, mdnVars
<1> DEFINE m == Head(seeing.todo)
           added == [mid |-> m, to |-> seeing.pc, retries |-> 0]
<1>1. ChoiceTypes' /\ AsChosen' /\ ToldTypes' /\ ~wrongly'
  BY DEF Enqueue, ChoiceTypes, AsChosen, ToldTypes
<1>2. UNCHANGED <<chatBlocked, read, wants, mdnLoop, mdnRate, told, risky>>
  BY DEF Enqueue
<1>3. /\ seeing \in Seeings /\ seeing.todo # <<>> /\ seeing.pc \in {"contact", "self"}
      /\ queue' = queue \cup {added} /\ Done(m)
  BY DEF Enqueue, SeenTypes
<1>4. m = seeing.todo[1] /\ m \in ShownMsgs
  BY <1>3, HeadIsFirst
<1>5. added \in MdnRows
  BY <1>3, <1>4, ReceiptAssumption DEF MdnRows
<1>6. LoopTypes'
  BY <1>2, <1>3, <1>5 DEF LoopTypes
<1>7. seeing' \in Seeings /\ StillAsked(wants', seeing') /\ \A k : ~Writing(seeing', k)
  <2>1. \A k \in wants : k = seeing.todo[1] \/ k \in wants' BY <1>2
  <2>2. wants' \subseteq wants BY <1>2
  <2> QED BY <1>2, <1>3, <2>1, <2>2, HandledOne DEF Done
<1>8. SeenTypes'
  BY <1>2, <1>7 DEF SeenTypes
<1>9. ASSUME NEW k \in ShownMsgs
      PROVE  OneReceipt(wants, seeing, queue, mdnLoop, told, risky, k)'
  <2>1. MdnQueued(queue', k) <=> MdnQueued(queue, k) \/ (k = m /\ seeing.pc = "contact")
    <3>1. added.mid = m /\ added.to = seeing.pc OBVIOUS
    <3> HIDE DEF added
    <3> QED BY <1>3, <3>1 DEF MdnQueued
  <2>2. (k = m /\ seeing.pc = "contact") <=> Writing(seeing, k)
    BY <1>3, <1>4 DEF Writing
  <2>3. Writing(seeing, k) => k \in Asking \ wants
    BY <1>3 DEF Writing, StillAsked
  <2>4. OneReceipt(wants, seeing, queue, mdnLoop, told, risky, k)
    BY DEF Receipts
  <2> QED BY <1>2, <1>7, <2>1, <2>2, <2>3, <2>4 DEF OneReceipt, Carried
<1> QED BY <1>1, <1>6, <1>7, <1>8, <1>9 DEF Receipts

----------------------------------------------------------------------------
(* The smtp loop and the sender's counter. *)

\* The rate limiter's level stays within its burst.
LEMMA CountedRate ==
    ASSUME mdnRate \in 0 .. MdnQuota, CountMdn PROVE mdnRate' \in 0 .. MdnQuota
<1>1. MdnQuota \in Nat BY ReceiptAssumption
<1>2. \E x \in {MdnQuota, mdnRate + 1} : \A y \in {MdnQuota, mdnRate + 1} : x =< y
  BY <1>1
<1>3. Min({MdnQuota, mdnRate + 1}) \in {MdnQuota, mdnRate + 1}
      /\ \A y \in {MdnQuota, mdnRate + 1} : Min({MdnQuota, mdnRate + 1}) =< y
  BY <1>2 DEF Min
<1> QED BY <1>1, <1>3 DEF CountMdn

\* What the loop leaves alone.
LEMMA LoopKeeps ==
    ASSUME ReceiptInv, UNCHANGED <<choiceVars, chatVars, seeing, wrongly>>
    PROVE  /\ ChoiceTypes' /\ AsChosen' /\ SeenTypes' /\ ~wrongly'
           /\ StillAsked(wants, seeing)' /\ wants' = wants /\ seeing' = seeing
BY DEF ReceiptInv, ReceiptTypes, ChoiceTypes, AsChosen, SeenTypes, StillAsked, choiceVars, chatVars

LEMMA PickMdnInv ==
    ASSUME ReceiptInv, PickMdn PROVE ReceiptInv'
<1> USE DEF ReceiptInv, ReceiptTypes
<1>1. /\ ChoiceTypes' /\ AsChosen' /\ SeenTypes' /\ ~wrongly'
      /\ StillAsked(wants, seeing)' /\ wants' = wants /\ seeing' = seeing
  BY LoopKeeps DEF PickMdn
<1>2. ToldTypes' /\ UNCHANGED <<mdnRate, told, risky>>
  BY DEF PickMdn, ToldTypes
<1>3. mdnLoop \in MdnLoops /\ mdnLoop.pc = "idle" /\ queue \in SUBSET MdnRows
  BY DEF PickMdn, LoopTypes
<1>4. \A m : ~Carried(mdnLoop, m)
  BY <1>3 DEF Carried
<1>5. CASE Kept = {} /\ queue' = {} /\ UNCHANGED mdnLoop
  <2>1. LoopTypes'
    BY <1>2, <1>5 DEF LoopTypes
  <2>2. ASSUME NEW m \in ShownMsgs
        PROVE  OneReceipt(wants, seeing, queue, mdnLoop, told, risky, m)'
    <3>1. ~MdnQueued(queue', m) BY <1>5 DEF MdnQueued
    <3>2. ~Carried(mdnLoop', m) BY <1>4, <1>5
    <3> QED BY <1>1, <1>2, <3>1, <3>2 DEF Receipts, OneReceipt
  <2> QED BY <1>1, <1>2, <2>1, <2>2 DEF Receipts
<1>6. ASSUME NEW first \in Kept,
             queue' = {IF q.mid = first.mid THEN Counted(q) ELSE q : q \in Kept},
             mdnLoop' = [pc |-> "send", to |-> first.to, first |-> first.mid,
                         mids |-> {q.mid : q \in {r \in Kept : r.to = first.to}}]
      PROVE  ReceiptInv'
  <2>1. \A q \in Kept : q \in queue /\ q \in MdnRows /\ q.retries \in 0 .. MdnRetries
    BY <1>3, ReceiptAssumption DEF Kept, MdnRows
  <2>2. \A q \in Kept : /\ Counted(q) \in MdnRows /\ Counted(q).mid = q.mid
                        /\ Counted(q).to = q.to
    BY <2>1, ReceiptAssumption DEF Counted, MdnRows
  <2>3. \A q \in queue' : q \in MdnRows /\ \E r \in Kept : r.mid = q.mid /\ r.to = q.to
    BY <1>6, <2>1, <2>2
  <2>4. /\ mdnLoop'.pc = "send" /\ mdnLoop'.to = first.to
        /\ mdnLoop'.mids = {q.mid : q \in {r \in Kept : r.to = first.to}}
    BY <1>6
  <2>5. mdnLoop' \in MdnLoops
    <3>1. first.to \in {"contact", "self"} /\ first.mid \in ShownMsgs
      BY <2>1 DEF MdnRows
    <3>2. {q.mid : q \in {r \in Kept : r.to = first.to}} \in SUBSET ShownMsgs
      BY <2>1 DEF MdnRows
    <3> QED BY <1>6, <3>1, <3>2 DEF MdnLoops
  <2>6. LoopTypes'
    BY <1>2, <2>3, <2>5 DEF LoopTypes
  <2>7. ASSUME NEW m \in ShownMsgs
        PROVE  OneReceipt(wants, seeing, queue, mdnLoop, told, risky, m)'
    <3>1. MdnQueued(queue', m) => MdnQueued(queue, m)
      BY <2>1, <2>3 DEF MdnQueued
    <3>2. Carried(mdnLoop', m) => MdnQueued(queue, m)
      BY <2>1, <2>4 DEF Carried, MdnQueued
    <3>3. OneReceipt(wants, seeing, queue, mdnLoop, told, risky, m) /\ ~Carried(mdnLoop, m)
      BY <1>4 DEF Receipts
    <3> QED BY <1>1, <1>2, <3>1, <3>2, <3>3 DEF OneReceipt
  <2> QED BY <1>1, <1>2, <2>6, <2>7 DEF Receipts
<1> QED BY <1>5, <1>6 DEF PickMdn

\* A receipt leaves: counted for the messages it is for.
LEMMA SentCounts ==
    ASSUME ReceiptInv, SentMdn
    PROVE  /\ mdnRate' \in 0 .. MdnQuota /\ told' \in [ShownMsgs -> Nat]
           /\ flying' \in [ShownMsgs -> Nat]
           /\ \A m \in ShownMsgs :
                 told'[m] = IF mdnLoop.to = "contact" /\ m \in mdnLoop.mids
                            THEN told[m] + 1 ELSE told[m]
<1>1. mdnRate' \in 0 .. MdnQuota
  BY CountedRate DEF SentMdn, ReceiptInv, ReceiptTypes, LoopTypes
<1>2. /\ told' \in [ShownMsgs -> Nat]
      /\ \A m \in ShownMsgs :
            told'[m] = IF mdnLoop.to = "contact" /\ m \in mdnLoop.mids
                       THEN told[m] + 1 ELSE told[m]
  BY DEF SentMdn, ReceiptInv, ReceiptTypes, ToldTypes
<1>3. flying' \in [ShownMsgs -> Nat]
  BY DEF SentMdn, ReceiptInv, ReceiptTypes, ToldTypes
<1> QED BY <1>1, <1>2, <1>3

LEMMA SendMdnInv ==
    ASSUME ReceiptInv, SendMdn PROVE ReceiptInv'
<1> USE DEF ReceiptInv, ReceiptTypes
<1>1. /\ ChoiceTypes' /\ AsChosen' /\ SeenTypes' /\ ~wrongly'
      /\ StillAsked(wants, seeing)' /\ wants' = wants /\ seeing' = seeing
  BY LoopKeeps DEF SendMdn
<1>2. UNCHANGED <<queue, counted, risky>> /\ SentMdn
  BY DEF SendMdn
<1>3. mdnLoop \in MdnLoops /\ mdnLoop.pc = "send"
  BY DEF SendMdn, LoopTypes
<1>4. /\ mdnLoop'.pc = "sent" /\ mdnLoop'.to = mdnLoop.to /\ mdnLoop'.mids = mdnLoop.mids
      /\ mdnLoop' \in MdnLoops
  BY <1>3 DEF SendMdn, MdnLoops
<1>5. LoopTypes' /\ ToldTypes'
  BY <1>2, <1>4, SentCounts DEF LoopTypes, ToldTypes
<1>6. ASSUME NEW m \in ShownMsgs
      PROVE  OneReceipt(wants, seeing, queue, mdnLoop, told, risky, m)'
  <2>1. Carried(mdnLoop', m) <=> Carried(mdnLoop, m)
    BY <1>3, <1>4 DEF Carried
  <2>2. told'[m] = IF Carried(mdnLoop, m) THEN told[m] + 1 ELSE told[m]
    BY <1>2, <1>3, SentCounts DEF Carried
  <2>3. told[m] \in Nat
    BY DEF ToldTypes
  <2>4. OneReceipt(wants, seeing, queue, mdnLoop, told, risky, m)
    BY DEF Receipts
  <2> QED BY <1>1, <1>2, <1>3, <1>4, <2>1, <2>2, <2>3, <2>4 DEF OneReceipt
<1> QED BY <1>1, <1>5, <1>6 DEF Receipts

LEMMA MdnAnswerLostInv ==
    ASSUME ReceiptInv, MdnAnswerLost PROVE ReceiptInv'
<1> USE DEF ReceiptInv, ReceiptTypes
<1>1. /\ ChoiceTypes' /\ AsChosen' /\ SeenTypes' /\ ~wrongly'
      /\ StillAsked(wants, seeing)' /\ wants' = wants /\ seeing' = seeing
  BY LoopKeeps DEF MdnAnswerLost
<1>2. /\ UNCHANGED <<queue, counted>> /\ SentMdn /\ mdnLoop' = MdnIdle
      /\ risky' = risky \cup mdnLoop.mids
  BY DEF MdnAnswerLost
<1>3. mdnLoop \in MdnLoops /\ mdnLoop.pc = "send"
  BY DEF MdnAnswerLost, LoopTypes
<1>4. mdnLoop.mids \in SUBSET ShownMsgs
  BY <1>3 DEF MdnLoops
<1>5. LoopTypes' /\ ToldTypes'
  BY <1>2, <1>4, SentCounts, MdnIdleTyped DEF LoopTypes, ToldTypes
<1>6. ASSUME NEW m \in ShownMsgs
      PROVE  OneReceipt(wants, seeing, queue, mdnLoop, told, risky, m)'
  <2>1. ~Carried(mdnLoop', m)
    BY <1>2, MdnIdleTyped
  <2>2. told'[m] = IF Carried(mdnLoop, m) THEN told[m] + 1 ELSE told[m]
    BY <1>2, <1>3, SentCounts DEF Carried
  <2>3. told[m] \in Nat
    BY DEF ToldTypes
  <2>4. OneReceipt(wants, seeing, queue, mdnLoop, told, risky, m)
    BY DEF Receipts
  <2>5. Carried(mdnLoop, m) => m \in risky'
    BY <1>2 DEF Carried
  <2>6. m \in risky => m \in risky'
    BY <1>2
  <2> QED BY <1>1, <1>2, <1>3, <2>1, <2>2, <2>3, <2>4, <2>5, <2>6 DEF OneReceipt
<1> QED BY <1>1, <1>5, <1>6 DEF Receipts

\* The loop gives a receipt up or away: rows may only go, and what was sent is gone or may
\* go out twice.
LEMMA LoopEnds ==
    ASSUME ReceiptInv, UNCHANGED <<wants, told>>, queue' \subseteq queue, mdnLoop' = MdnIdle,
           seeing' = seeing \/ seeing' = NotSeeing, risky \subseteq risky',
           \A m \in ShownMsgs : Carried(mdnLoop, m) /\ mdnLoop.pc = "sent"
                                => m \in risky' \/ ~MdnQueued(queue', m)
    PROVE  Receipts'
<1> SUFFICES ASSUME NEW m \in ShownMsgs
             PROVE  OneReceipt(wants, seeing, queue, mdnLoop, told, risky, m)'
  BY DEF Receipts
<1>1. ~Carried(mdnLoop', m)
  BY MdnIdleTyped
<1>2. MdnQueued(queue', m) => MdnQueued(queue, m)
  BY DEF MdnQueued
<1>3. Writing(seeing', m) => Writing(seeing, m)
  BY NotSeeingTyped DEF Writing
<1>4. OneReceipt(wants, seeing, queue, mdnLoop, told, risky, m)
  BY DEF ReceiptInv, Receipts
<1> QED BY <1>1, <1>2, <1>3, <1>4 DEF OneReceipt

LEMMA MdnRetryInv ==
    ASSUME ReceiptInv, MdnRetry PROVE ReceiptInv'
<1> USE DEF ReceiptInv, ReceiptTypes
<1>1. /\ ChoiceTypes' /\ AsChosen' /\ SeenTypes' /\ ~wrongly'
      /\ StillAsked(wants, seeing)' /\ wants' = wants /\ seeing' = seeing
  BY LoopKeeps DEF MdnRetry
<1>2. /\ UNCHANGED <<queue, flying, counted, told, risky>> /\ CountMdn /\ mdnLoop' = MdnIdle
      /\ mdnLoop.pc = "send"
  BY DEF MdnRetry
<1>3. LoopTypes' /\ ToldTypes'
  BY <1>2, CountedRate, MdnIdleTyped DEF LoopTypes, ToldTypes
<1>4. Receipts'
  BY <1>1, <1>2, LoopEnds
<1> QED BY <1>1, <1>3, <1>4

LEMMA DropInv ==
    ASSUME ReceiptInv, MdnError \/ DropMdns PROVE ReceiptInv'
<1> USE DEF ReceiptInv, ReceiptTypes
<1>1. /\ ChoiceTypes' /\ AsChosen' /\ SeenTypes' /\ ~wrongly'
      /\ StillAsked(wants, seeing)' /\ wants' = wants /\ seeing' = seeing
  BY LoopKeeps DEF MdnError, DropMdns
<1>2. /\ UNCHANGED <<mdnRate, flying, counted, told, risky>> /\ mdnLoop' = MdnIdle
      /\ queue' \subseteq queue
      /\ mdnLoop.pc = "send" \/ \A q \in queue' : q.mid \notin mdnLoop.mids
  BY DEF MdnError, DropMdns, Drop
<1>3. LoopTypes' /\ ToldTypes'
  BY <1>2, MdnIdleTyped DEF LoopTypes, ToldTypes
<1>4. Receipts'
  <2>1. ASSUME NEW m \in ShownMsgs, Carried(mdnLoop, m), mdnLoop.pc = "sent"
        PROVE  ~MdnQueued(queue', m)
    BY <1>2, <2>1 DEF Carried, MdnQueued
  <2> QED BY <1>1, <1>2, <2>1, LoopEnds
<1> QED BY <1>1, <1>3, <1>4

LEMMA MdnCrashInv ==
    ASSUME ReceiptInv, MdnCrash PROVE ReceiptInv'
<1> USE DEF ReceiptInv, ReceiptTypes, choiceVars, chatVars
<1>1. /\ UNCHANGED <<choiceVars, chatBlocked, read, wants, queue, flying, counted, told, wrongly>>
      /\ seeing' = NotSeeing /\ mdnLoop' = MdnIdle /\ mdnRate' = 0
      /\ risky' = IF mdnLoop.pc = "sent" THEN risky \cup mdnLoop.mids ELSE risky
  BY DEF MdnCrash
<1>2. ChoiceTypes' /\ AsChosen' /\ ~wrongly'
  BY <1>1 DEF ChoiceTypes, AsChosen
<1>3. SeenTypes' /\ StillAsked(wants, seeing)'
  BY <1>1, NotSeeingTyped DEF SeenTypes
<1>4. LoopTypes'
  BY <1>1, MdnIdleTyped, ReceiptAssumption DEF LoopTypes
<1>5. ToldTypes'
  BY <1>1 DEF ToldTypes, LoopTypes, MdnLoops
<1>6. Receipts'
  <2>1. ASSUME NEW m \in ShownMsgs, Carried(mdnLoop, m), mdnLoop.pc = "sent"
        PROVE  m \in risky'
    BY <1>1, <2>1 DEF Carried
  <2>2. risky \subseteq risky' BY <1>1
  <2> QED BY <1>1, <2>1, <2>2, LoopEnds
<1> QED BY <1>2, <1>3, <1>4, <1>5, <1>6

LEMMA CounterInv ==
    ASSUME ReceiptInv, Decay \/ \E m \in ShownMsgs : HandleMdn(m) PROVE ReceiptInv'
<1> USE DEF ReceiptInv, ReceiptTypes, choiceVars, chatVars
<1>1. UNCHANGED <<choiceVars, chatBlocked, read, mailOnWay, wrongly>>
  BY DEF Decay, HandleMdn, mailOnWay
<1>2. ChoiceTypes' /\ AsChosen' /\ SeenTypes' /\ ~wrongly'
  BY <1>1 DEF ChoiceTypes, AsChosen, SeenTypes, mailOnWay
<1>3. mdnRate' \in 0 .. MdnQuota
  BY ReceiptAssumption DEF Decay, HandleMdn, LoopTypes
<1>4. flying' \in [ShownMsgs -> Nat] /\ counted' \in [ShownMsgs -> {0, 1}]
  BY DEF Decay, HandleMdn, ToldTypes
<1> QED BY <1>1, <1>2, <1>3, <1>4, MailStays DEF LoopTypes, ToldTypes, mailOnWay

\* For any messages, any number of changes of settings, chats and marks, and any answers of
\* the server, with losses and deaths: one receipt for a message, unless an answer or the
\* process was lost between the mail and the removal of its row; the sender counts one
\* reader; only messages that asked are answered, under a policy somebody chose, also in the
\* middle of MdnPolicy::set.
THEOREM ReceiptsSound == ReceiptSpec => []ReceiptsSafe
<1>1. ReceiptInit => ReceiptInv BY ReceiptInitInv
<1>2. ReceiptInv /\ [ReceiptNext]_receiptVars => ReceiptInv'
  <2> SUFFICES ASSUME ReceiptInv, [ReceiptNext]_receiptVars PROVE ReceiptInv' OBVIOUS
  <2>1. CASE UNCHANGED receiptVars
    <3>1. UNCHANGED <<mailOnWay, choiceVars, chatVars, mdnRate, flying, counted, wrongly>>
      BY <2>1 DEF receiptVars, mailOnWay, chatVars, mdnVars
    <3>2. ReceiptTypes' /\ AsChosen' /\ ~wrongly'
      BY <3>1 DEF ReceiptInv, ReceiptTypes, ChoiceTypes, SeenTypes, LoopTypes, ToldTypes, AsChosen,
                  mailOnWay, choiceVars, chatVars
    <3> QED BY <3>1, <3>2, MailStays DEF ReceiptInv
  <2>2. CASE \/ \E p \in {Never, VerifiedOnly, Always} : SetEnabled(p)
             \/ WritePolicy \/ ToggleEnabled
             \/ \E e \in {"none", "on", "off"} : SetException(e)
             \/ Verify
    BY <2>2, ChoiceInv DEF Policies
  <2>3. CASE Accept \/ Block \/ Notice \/ MarkFresh
    BY <2>3, ChatInv
  <2>4. CASE \E s \in {SetToSeq(ShownMsgs)} \cup {<<m>> : m \in ShownMsgs} : MarkSeen(s)
    BY <2>4, MarkSeenInv
  <2>5. CASE SeeState \/ Decide \/ Enqueue
    BY <2>5, SeeStateInv, DecideInv, EnqueueInv
  <2>6. CASE MdnLoopStep
    BY <2>6, PickMdnInv, SendMdnInv, MdnAnswerLostInv, MdnRetryInv, DropInv DEF MdnLoopStep
  <2>7. CASE MdnCrash
    BY <2>7, MdnCrashInv
  <2>8. CASE Decay \/ \E m \in ShownMsgs : HandleMdn(m)
    BY <2>8, CounterInv
  <2> QED BY <2>1, <2>2, <2>3, <2>4, <2>5, <2>6, <2>7, <2>8 DEF ReceiptNext
<1> QED BY <1>1, <1>2, ReceiptInvSafe, PTL DEF ReceiptSpec
=============================================================================
