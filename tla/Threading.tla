------------------------------ MODULE Threading ------------------------------
(***************************************************************************)
(* Conversations: which messages form one thread.                          *)
(*                                                                         *)
(*   core/src/email/threading.rs  assign, assign_stored, prune             *)
(*   core/src/receive_imf.rs, core/src/chat.rs   the hooks that call them  *)
(*                                                                         *)
(* A thread is the set of Message-IDs it is known by.  A message joins the *)
(* threads of every ID it names, and merges them.  assign_stored reads the *)
(* message's row first and changes the tables in a transaction afterwards; *)
(* the inbox and the user's sending do so concurrently, while messages are *)
(* destroyed and housekeeping prunes.                                      *)
(***************************************************************************)
EXTENDS Naturals

CONSTANTS
    Msgs,       \* rows of msgs that may come to exist
    Tasks,      \* who places messages: the inbox, the user's calls
    Senders,    \* those among them that may send a message again
    Mids,       \* Message-IDs, of messages that may never arrive too
    Own,        \* the Message-ID of each message; two may have the same
    Subjects,   \* normalised subjects
    Blank,      \* the empty one
    Subject,    \* the subject of each message
    Timestamp   \* its sort timestamp

ASSUME SendersAssumption == Senders \subseteq Tasks
ASSUME OwnAssumption == Own \in [Msgs -> Mids]
ASSUME SubjectAssumption == Blank \in Subjects /\ Subject \in [Msgs -> Subjects]
ASSUME TimestampAssumption == Timestamp \in [Msgs -> Nat]

VARIABLES
    msgs,         \* table msgs: absent, live, or a tombstone
    linked,       \* the Message-IDs each message names, its own among them
    threads,      \* table threads: the rows, by id
    sequence,     \* the last id AUTOINCREMENT gave
    msg_threads,  \* table msg_threads, NoThread without a row
    thread_refs,  \* table thread_refs, NoThread without a row
    pc,           \* where each task is
    msg,          \* the message it places
    headers,      \* what it has read of that message's row
    claims        \* history: the sets of IDs that messages have brought
                  \* together, until their conversation is gone

tables == <<threads, sequence, msg_threads, thread_refs>>
locals == <<pc, msg, headers>>
vars == <<msgs, linked, tables, locals, claims>>

NoThread == 0
NoMsg == "none"
NoHeaders == [ids |-> {}, subject |-> Blank, timestamp |-> 0]

Live == {m \in Msgs : msgs[m] = "live"}
Assigned == {m \in Msgs : msg_threads[m] # NoThread}
ThreadIds == DOMAIN threads
Row == [subject_norm : Subjects, last_activity : Nat]
Headers == [ids : SUBSET Mids, subject : Subjects, timestamp : Nat]

TypeOK ==
    /\ msgs \in [Msgs -> {"absent", "live", "tombstone"}]
    /\ linked \in [Msgs -> SUBSET Mids]
    /\ sequence \in Nat
    /\ ThreadIds \subseteq 1..sequence
    /\ threads \in [ThreadIds -> Row]
    /\ msg_threads \in [Msgs -> ThreadIds \cup {NoThread}]
    /\ thread_refs \in [Mids -> ThreadIds \cup {NoThread}]
    /\ pc \in [Tasks -> {"idle", "read", "assign"}]
    /\ msg \in [Tasks -> Msgs \cup {NoMsg}]
    /\ headers \in [Tasks -> Headers]
    /\ claims \subseteq SUBSET Mids

Init ==
    /\ msgs = [m \in Msgs |-> "absent"]
    /\ linked = [m \in Msgs |-> {}]
    /\ threads = [t \in {} |-> [subject_norm |-> Blank, last_activity |-> 0]]
    /\ sequence = 0
    /\ msg_threads = [m \in Msgs |-> NoThread]
    /\ thread_refs = [i \in Mids |-> NoThread]
    /\ pc = [t \in Tasks |-> "idle"]
    /\ msg = [t \in Tasks |-> NoMsg]
    /\ headers = [t \in Tasks |-> NoHeaders]
    /\ claims = {}

----------------------------------------------------------------------------
(***************************************************************************)
(* What makes two IDs one conversation, whatever came first: every set of  *)
(* IDs that holds the one, and all or nothing of what any message named,   *)
(* holds the other.                                                        *)
(***************************************************************************)

Closed(C, S) == \A L \in S : L \cap C # {} => L \subseteq C

Connected(S, i, j) == \A C \in SUBSET Mids : i \in C /\ Closed(C, S) => j \in C

----------------------------------------------------------------------------
(***************************************************************************)
(* A message comes to exist, received by the inbox or written by the user, *)
(* or is sent again, and the hook places it.                               *)
(***************************************************************************)

Begin(t, m) ==
    /\ pc[t] = "idle"
    /\ pc' = [pc EXCEPT ![t] = "read"]
    /\ msg' = [msg EXCEPT ![t] = m]

\* R is what References and In-Reply-To name.
Store(t, m, R) ==
    /\ msgs[m] = "absent"
    /\ Begin(t, m)
    /\ msgs' = [msgs EXCEPT ![m] = "live"]
    /\ linked' = [linked EXCEPT ![m] = {Own[m]} \cup R]
    /\ UNCHANGED <<tables, headers, claims>>

Resend(t, m) ==
    /\ t \in Senders
    /\ msgs[m] = "live"
    /\ Begin(t, m)
    /\ UNCHANGED <<msgs, linked, tables, headers, claims>>

\* A tombstone has kept the Message-ID and the timestamp, and nothing else.
ReadRow(t) ==
    /\ pc[t] = "read"
    /\ headers' = [headers EXCEPT ![t] =
          [ids |-> IF msgs[msg[t]] = "live" THEN linked[msg[t]] ELSE {Own[msg[t]]},
           subject |-> IF msgs[msg[t]] = "live" THEN Subject[msg[t]] ELSE Blank,
           timestamp |-> Timestamp[msg[t]]]]
    /\ pc' = [pc EXCEPT ![t] = "assign"]
    /\ UNCHANGED <<msgs, linked, tables, msg, claims>>

Return(t) ==
    /\ pc' = [pc EXCEPT ![t] = "idle"]
    /\ msg' = [msg EXCEPT ![t] = NoMsg]
    /\ headers' = [headers EXCEPT ![t] = NoHeaders]

----------------------------------------------------------------------------
(***************************************************************************)
(* assign, one transaction.                                                *)
(***************************************************************************)

BugOldest(E) == {s \in E : \A u \in E : u <= s}

\* The ids are never given twice, so the oldest thread has the least.
Oldest(E) == {s \in E : \A u \in E : s <= u}

BugExisting(h) == Oldest({thread_refs[i] : i \in h.ids} \ {NoThread})

\* The threads that the message's IDs already belong to.
Existing(h) == {thread_refs[i] : i \in h.ids} \ {NoThread}

\* The label of the oldest of E that has one, else the message's own.
Labels(E, h) ==
    LET labelled == {t \in E : threads[t].subject_norm # Blank}
    IN  IF labelled = {} THEN {h.subject}
        ELSE {threads[t].subject_norm : t \in Oldest(labelled)}

Latest(E, h) ==
    LET times == {threads[t].last_activity : t \in E} \cup {h.timestamp}
    IN  {n \in times : \A k \in times : k <= n}

\* Everything of the threads in E, and this message and its IDs, goes to s.
Repoint(m, E, s, h) ==
    /\ thread_refs' = [i \in Mids |-> IF i \in h.ids \/ thread_refs[i] \in E THEN s
                                      ELSE thread_refs[i]]
    /\ msg_threads' = [n \in Msgs |-> IF n = m \/ msg_threads[n] \in E THEN s
                                      ELSE msg_threads[n]]

BugMergedRow(E, h) ==
    [subject_norm : Labels(Oldest(E), h), last_activity : Latest(Oldest(E), h)]

\* The one row that is left of the threads in E.
MergedRow(E, h) == [subject_norm : Labels(E, h), last_activity : Latest(E, h)]

\* The oldest survives, the others are merged into it and deleted.
Join(t) ==
    LET h == headers[t]
        E == Existing(h)
    IN  /\ pc[t] = "assign"
        /\ \E s \in Oldest(E), row \in MergedRow(E, h) :
              /\ Repoint(msg[t], E, s, h)
              /\ threads' = [u \in (ThreadIds \ E) \cup {s} |->
                                IF u = s THEN row ELSE threads[u]]
        /\ claims' = claims \cup {h.ids}
        /\ Return(t)
        /\ UNCHANGED <<msgs, linked, sequence>>

Start(t) ==
    LET h == headers[t]
        s == sequence + 1
    IN  /\ pc[t] = "assign"
        /\ Existing(h) = {}
        /\ sequence' = s
        /\ Repoint(msg[t], {}, s, h)
        /\ threads' = [u \in ThreadIds \cup {s} |->
                          IF u = s THEN [subject_norm |-> h.subject,
                                         last_activity |-> h.timestamp]
                          ELSE threads[u]]
        /\ claims' = claims \cup {h.ids}
        /\ Return(t)
        /\ UNCHANGED <<msgs, linked>>

\* The hook is best-effort: an error is logged, and the message has no thread.
Fail(t) ==
    /\ pc[t] # "idle"
    /\ Return(t)
    /\ UNCHANGED <<msgs, linked, tables, claims>>

----------------------------------------------------------------------------

\* MsgId::trash, by the trash's purge or the user's deletion.
Trash(m) ==
    /\ msgs[m] = "live"
    /\ msgs' = [msgs EXCEPT ![m] = "tombstone"]
    /\ UNCHANGED <<linked, tables, locals, claims>>

\* The messages that prune leaves in their threads.
Staying == Live \cap Assigned

\* Rows of messages that are gone, then threads without messages, then their IDs.
Prune ==
    LET kept == {msg_threads[m] : m \in Staying} \cap ThreadIds
    IN  /\ msg_threads' = [m \in Msgs |-> IF m \in Staying THEN msg_threads[m]
                                          ELSE NoThread]
        /\ threads' = [t \in kept |-> threads[t]]
        /\ thread_refs' = [i \in Mids |-> IF thread_refs[i] \in kept THEN thread_refs[i]
                                          ELSE NoThread]
        /\ claims' = {L \in claims : \E i \in L : \E m \in Live \cap Assigned :
                                        Connected(claims, i, Own[m])}
        /\ UNCHANGED <<msgs, linked, sequence, locals>>

----------------------------------------------------------------------------

Place(t) == ReadRow(t) \/ Join(t) \/ Start(t) \/ Fail(t)

Next ==
    \/ \E t \in Tasks, m \in Msgs : Resend(t, m) \/ \E R \in SUBSET Mids : Store(t, m, R)
    \/ \E t \in Tasks : Place(t)
    \/ \E m \in Msgs : Trash(m)
    \/ Prune

Spec == Init /\ [][Next]_vars

----------------------------------------------------------------------------
(***************************************************************************)
(* Properties.                                                             *)
(***************************************************************************)

\* Arrival order does not matter: two placed messages are in one thread exactly if
\* the IDs that the messages of their conversation name connect them, however
\* assign merged, whatever failed, and whatever prune removed in between.
GroupedByReferences ==
    \A m, n \in Assigned :
        msg_threads[m] = msg_threads[n] <=> Connected(claims, Own[m], Own[n])

\* A message that is there keeps its conversation: no merge and no prune takes its
\* thread away, and a thread it moves to is an older one.
ConversationKept ==
    [][\A m \in Assigned : msgs'[m] = "live"
          => msg_threads'[m] # NoThread /\ msg_threads'[m] <= msg_threads[m]]_vars

\* A thread's row covers its messages: the label of a message that is there is not
\* lost in a merge, and no message is newer than the thread's last activity.
RowCoversMessages ==
    \A m \in Live \cap Assigned :
        /\ Subject[m] # Blank => threads[msg_threads[m]].subject_norm # Blank
        /\ Timestamp[m] <= threads[msg_threads[m]].last_activity
=============================================================================
