-------------------------------- MODULE Outbox --------------------------------
(* One message in the send queue: the smtp table, the loop that empties it in   *)
(* chunks of recipients, and what the message's state says of it. Next to the   *)
(* loop run the reception of the sender's own copy, which takes a job off the    *)
(* queue, resending, deletion, bounces and death of the process.                  *)
(* A large message is two jobs, a pre-message and a post-message. Every server   *)
(* answer is possible; "lost" is a mail the server took without our seeing OK.   *)
EXTENDS Naturals, FiniteSets, FiniteSetsExt, Sequences, SequencesExt, Functions

CONSTANTS Members,     \* sequence of recipients when the message is first sent
          Newcomer,    \* somebody who may join the chat before a resend
          Self,        \* our own address, last in every job (Config::BccSelf)
          ChunkSize,   \* get_max_smtp_rcpt_to
          RetryLimit,  \* the 6 of "retries > 6"
          MaxJobs,     \* bound on the rows of smtp, over time
          MaxEvents    \* bound on what users, contacts and the system do meanwhile

ASSUME LimitsAssumption == ChunkSize \in Nat \ {0} /\ RetryLimit \in Nat
ASSUME MembersAssumption ==
    Members \in Seq(ToSet(Members)) /\ IsInjective(Members) /\ Self \notin ToSet(Members)

Parts == {"whole", "pre", "post"}

VARIABLES state,      \* msgs.state of the message, "undefined" in a tombstone
          trashed,    \* the row is a tombstone
          split,      \* the parts the message is sent in
          members,    \* recipients of the chat
          jobs,       \* smtp: row id -> [part, recipients, retries]
          nextRow,
          loop,       \* the smtp loop's local state
          copies,     \* parts of which our own copy waits on the IMAP server
          fetching,   \* the inbox loop is between dropping jobs and the delivered check
          resending, deleting,   \* other calls between two of their steps
          reached,    \* history: row id -> recipients the server accepted it for
          twice, unsure,  \* history: rows sent twice to somebody; rows that may be
          cut,        \* history: the process died between two steps that belong together
          events

jobVars == <<jobs, nextRow, reached, twice, unsure>>
msgVars == <<state, trashed, split, members>>
otherVars == <<fetching, resending, deleting, cut, events>>
outboxVars == <<msgVars, jobVars, loop, copies, otherVars>>

NoPass == [pc |-> "idle", todo |-> <<>>, row |-> 0, unsent |-> <<>>]
JobGoto(pc) == loop' = [loop EXCEPT !.pc = pc]
NextJob == loop' = [NoPass EXCEPT !.pc = "jobs", !.todo = Tail(loop.todo)]
Rest(s) == SubSeq(s, ChunkSize + 1, Len(s))
Chunk(s) == ToSet(SubSeq(s, 1, Min({ChunkSize, Len(s)})))
HasJob == DOMAIN jobs # {}
WithoutJob(r) == Restrict(jobs, DOMAIN jobs \ {r})

Event == events < MaxEvents /\ events' = events + 1

OutboxInit ==
  /\ state = "pending" /\ trashed = FALSE /\ split = {} /\ members = Members
  /\ jobs = <<>> /\ nextRow = 1 /\ loop = NoPass /\ copies = {}
  /\ fetching = FALSE /\ resending = FALSE /\ deleting = FALSE
  /\ reached = <<>> /\ twice = {} /\ unsure = {} /\ cut = FALSE
  /\ events = 0

-----------------------------------------------------------------------------
(* Jobs come into the queue. *)

\* add_self_recipients: our own address comes last.
JobRecipients == Append(members, Self)

\* The transaction at the end of create_send_msg_jobs: the pre-message first.
InsertJobs(parts) ==
  LET order == IF parts = {"whole"} THEN <<"whole">> ELSE <<"pre", "post">>
      rows == nextRow .. nextRow + Len(order) - 1
      job(r) == [part |-> order[r - nextRow + 1], recipients |-> JobRecipients, retries |-> 0]
  IN /\ jobs' = [r \in rows \cup DOMAIN jobs |-> IF r \in rows THEN job(r) ELSE jobs[r]]
     /\ reached' = [r \in rows \cup DOMAIN reached |->
            IF r \in rows THEN [part |-> job(r).part, to |-> {}, due |-> ToSet(members)] ELSE reached[r]]
     /\ nextRow' = nextRow + Len(order)
     /\ UNCHANGED <<twice, unsure>>

Submit(parts) ==
  /\ split = {} /\ split' = parts
  /\ InsertJobs(parts)
  /\ UNCHANGED <<state, trashed, members, loop, copies, otherVars>>

MemberJoins ==
  /\ Newcomer \notin ToSet(members) \cup {Self} /\ Event
  /\ members' = Append(members, Newcomer)
  /\ UNCHANGED <<state, trashed, split, jobVars, loop, copies, fetching, resending,
                 deleting, cut>>

\* resend_msgs: the state first, the jobs later.
ResendMsgs ==
  /\ split # {} /\ ~trashed /\ ~resending /\ Event
  /\ nextRow + Cardinality(split) - 1 <= MaxJobs
  /\ resending' = TRUE /\ state' = "pending"
  /\ UNCHANGED <<trashed, split, members, jobVars, loop, copies, fetching, deleting, cut>>

ResendJobs ==
  /\ resending /\ resending' = FALSE
  /\ InsertJobs(split)
  /\ UNCHANGED <<msgVars, loop, copies, fetching, deleting, cut, events>>

\* set_msg_failed writes the state it found if that one cannot fail.
FailedState == IF state \in {"pending", "delivered"} THEN "failed" ELSE state

\* MimeFactory or rendering failed: no job, and the message says so.
ResendFails ==
  /\ resending /\ resending' = FALSE
  /\ state' = FailedState
  /\ UNCHANGED <<trashed, split, members, jobVars, loop, copies, fetching, deleting, cut,
                 events>>

\* delete_msgs: the jobs in a transaction, the row to the trash later.
DeleteJobs ==
  /\ split # {} /\ ~trashed /\ ~deleting /\ Event
  /\ deleting' = TRUE /\ jobs' = <<>>
  /\ UNCHANGED <<msgVars, nextRow, reached, twice, unsure, loop, copies, fetching,
                 resending, cut>>

TrashRow ==
  /\ deleting /\ deleting' = FALSE
  /\ trashed' = TRUE /\ state' = "undefined"
  /\ UNCHANGED <<split, members, jobVars, loop, copies, fetching, resending, cut, events>>

\* handle_ndn: only the message-id of the row is looked up, not the pre-message's.
Bounce ==
  /\ Event
  /\ \E r \in DOMAIN reached : reached[r].part # "pre" /\ reached[r].to \ {Self} # {}
  /\ ~trashed /\ state' = FailedState
  /\ UNCHANGED <<trashed, split, members, jobVars, loop, copies, fetching, resending,
                 deleting, cut>>

-----------------------------------------------------------------------------
(* The smtp loop over the jobs. *)

\* send_smtp_messages picks up the row ids, after an interrupt or a timeout.
Poll ==
  /\ loop.pc = "idle" /\ HasJob
  /\ loop' = [NoPass EXCEPT !.pc = "jobs", !.todo = SetToSortSeq(DOMAIN jobs, <)]
  /\ UNCHANGED <<msgVars, jobVars, copies, otherVars>>

\* No connection: the loop gives up for now and the retries are not counted.
Offline ==
  /\ loop.pc = "jobs" /\ loop.todo # <<>>
  /\ loop' = NoPass
  /\ UNCHANGED <<msgVars, jobVars, copies, otherVars>>

\* With a connection the retry is counted before the row is read.
BugLoadJob ==
  /\ loop.pc = "jobs" /\ loop.todo # <<>>
  /\ LET r == Head(loop.todo) IN
     IF r \notin DOMAIN jobs THEN NextJob /\ UNCHANGED jobs
     ELSE /\ loop' = [loop EXCEPT !.pc = "send", !.row = r, !.unsent = jobs[r].recipients]
          /\ UNCHANGED jobs
  /\ UNCHANGED <<msgVars, nextRow, reached, twice, unsure, copies, otherVars>>
LoadJob ==
  /\ loop.pc = "jobs" /\ loop.todo # <<>>
  /\ LET r == Head(loop.todo) IN
     IF r \notin DOMAIN jobs THEN NextJob /\ UNCHANGED jobs
     ELSE IF jobs[r].retries + 1 > RetryLimit
     THEN /\ jobs' = WithoutJob(r)
          /\ loop' = [loop EXCEPT !.pc = "giveup", !.row = r]
     ELSE /\ jobs' = [jobs EXCEPT ![r].retries = @ + 1]
          /\ loop' = [loop EXCEPT !.pc = "send", !.row = r, !.unsent = jobs[r].recipients]
  /\ UNCHANGED <<msgVars, nextRow, reached, twice, unsure, copies, otherVars>>

GiveUp ==
  /\ loop.pc = "giveup"
  /\ state' = FailedState /\ NextJob
  /\ UNCHANGED <<trashed, split, members, jobVars, copies, otherVars>>

\* The server takes the chunk.
Accepted ==
  LET r == loop.row
      chunk == Chunk(loop.unsent) IN
  /\ reached' = [reached EXCEPT ![r].to = @ \cup chunk]
  /\ twice' = IF reached[r].to \cap chunk # {} THEN twice \cup {r} ELSE twice
  /\ copies' = IF Self \in chunk THEN copies \cup {reached[r].part} ELSE copies

SendChunk ==
  /\ loop.pc = "send" /\ Accepted
  /\ JobGoto(IF Rest(loop.unsent) = <<>> THEN "sent" ELSE "progress")
  /\ UNCHANGED <<msgVars, jobs, nextRow, unsure, otherVars>>

\* The server took it but its OK never came: SendResult::Retry.
AnswerLost ==
  /\ loop.pc = "send" /\ Accepted
  /\ unsure' = unsure \cup {loop.row}
  /\ loop' = NoPass
  /\ UNCHANGED <<msgVars, jobs, nextRow, otherVars>>

\* A transient answer or a dead connection.
SendRetry ==
  /\ loop.pc = "send" /\ loop' = NoPass
  /\ UNCHANGED <<msgVars, jobVars, copies, otherVars>>

\* A permanent error: smtp_send marks the message failed at once.
SendRefused ==
  /\ loop.pc = "send" /\ JobGoto("refused")
  /\ state' = FailedState
  /\ UNCHANGED <<trashed, split, members, jobVars, copies, otherVars>>

DropRefused ==
  /\ loop.pc = "refused"
  /\ jobs' = WithoutJob(loop.row) /\ loop' = NoPass
  /\ UNCHANGED <<msgVars, nextRow, reached, twice, unsure, copies, otherVars>>

\* The recipients still to be served are written back after each chunk.
BugSaveProgress ==
  /\ loop.pc = "progress"
  /\ loop' = [loop EXCEPT !.pc = "send", !.unsent = Rest(@)]
  /\ UNCHANGED <<msgVars, jobVars, copies, otherVars>>
SaveProgress ==
  /\ loop.pc = "progress"
  /\ loop' = [loop EXCEPT !.pc = "send", !.unsent = Rest(@)]
  /\ jobs' = IF loop.row \in DOMAIN jobs
             THEN [jobs EXCEPT ![loop.row].recipients = Rest(loop.unsent)] ELSE jobs
  /\ UNCHANGED <<msgVars, nextRow, reached, twice, unsure, copies, otherVars>>

DropSent ==
  /\ loop.pc = "sent"
  /\ jobs' = WithoutJob(loop.row) /\ JobGoto("check")
  /\ UNCHANGED <<msgVars, nextRow, reached, twice, unsure, copies, otherVars>>

\* MsgId::set_delivered: only a pending message becomes delivered.
Delivered == IF state = "pending" THEN "delivered" ELSE state

\* msg_has_pending_smtp_job and set_delivered.
CheckSent ==
  /\ loop.pc = "check" /\ NextJob
  /\ state' = IF HasJob THEN state ELSE Delivered
  /\ UNCHANGED <<trashed, split, members, jobVars, copies, otherVars>>

EndPass ==
  /\ loop.pc = "jobs" /\ loop.todo = <<>> /\ loop' = NoPass
  /\ UNCHANGED <<msgVars, jobVars, copies, otherVars>>

\* receive_imf finds the message known and outgoing: the job whose list ends
\* with our address goes, whatever else is left on that list.
FetchCopy(p) ==
  /\ p \in copies /\ copies' = copies \ {p} /\ ~fetching
  /\ jobs' = Restrict(jobs, {r \in DOMAIN jobs : ~(jobs[r].part = p
                                                   /\ Last(jobs[r].recipients) = Self)})
  /\ fetching' = TRUE
  /\ UNCHANGED <<msgVars, nextRow, reached, twice, unsure, loop, resending, deleting, cut,
                 events>>

CheckFetched ==
  /\ fetching /\ fetching' = FALSE
  /\ state' = IF HasJob THEN state ELSE Delivered
  /\ UNCHANGED <<trashed, split, members, jobVars, loop, copies, resending, deleting, cut,
                 events>>

\* The process dies and starts again; what it was doing is forgotten.
OutboxCrash ==
  /\ Event
  /\ loop' = NoPass
  /\ unsure' = IF loop.pc \in {"progress", "sent"} THEN unsure \cup {loop.row} ELSE unsure
  /\ cut' = (cut \/ loop.pc \in {"giveup", "check"}
             \/ fetching \/ resending \/ deleting)
  /\ fetching' = FALSE /\ resending' = FALSE /\ deleting' = FALSE
  /\ UNCHANGED <<msgVars, jobs, nextRow, reached, twice, copies>>

\* What the loop does with a connection and a server that answers.
SmtpStep ==
  \/ Poll \/ LoadJob \/ GiveUp \/ SendChunk \/ DropRefused \/ SaveProgress \/ DropSent
  \/ CheckSent \/ EndPass

OutboxNext ==
  \/ Submit({"whole"}) \/ Submit({"pre", "post"})
  \/ MemberJoins \/ ResendMsgs \/ ResendJobs \/ ResendFails \/ DeleteJobs \/ TrashRow \/ Bounce
  \/ SmtpStep \/ Offline \/ AnswerLost \/ SendRetry \/ SendRefused
  \/ (\E p \in Parts : FetchCopy(p)) \/ CheckFetched
  \/ OutboxCrash

\* The loop runs as long as the process does, and the network is not down for
\* ever: whenever jobs are tried again and again, a connection comes about.
OutboxSpec ==
  /\ OutboxInit /\ [][OutboxNext]_outboxVars
  /\ WF_outboxVars(Poll) /\ SF_outboxVars(LoadJob) /\ WF_outboxVars(EndPass)
  /\ WF_outboxVars(GiveUp \/ DropRefused \/ SaveProgress \/ DropSent \/ CheckSent)
  /\ WF_outboxVars(SendChunk \/ AnswerLost \/ SendRetry \/ SendRefused)

-----------------------------------------------------------------------------

OutboxTypeOK ==
  /\ state \in {"pending", "delivered", "failed", "undefined"}
  /\ \A r \in DOMAIN jobs : /\ r \in 1 .. nextRow - 1 /\ r \in DOMAIN reached
                            /\ jobs[r].part \in split /\ jobs[r].recipients # <<>>
                            /\ jobs[r].retries \in 0 .. RetryLimit

\* The recipients the server has taken a part for, over all jobs of that part.
Served(p) == UNION {reached[r].to : r \in {q \in DOMAIN reached : reached[q].part = p}}

\* Nobody is about to queue a job or to write the message's state.
OutboxSettled ==
  ~HasJob /\ ~resending /\ ~deleting /\ ~fetching /\ loop.pc \notin {"giveup", "check"}

\* "Delivered" is a promise: once nothing is under way, a delivered message was
\* accepted, in every part, for all it was first sent to (send_msg_to_smtp, receive_imf's
\* own-copy branch, set_delivered).
DeliveredReached ==
  state = "delivered" /\ OutboxSettled /\ ~cut
    => \A p \in split : ToSet(Members) \subseteq Served(p)

\* The comment in receive_imf on the own copy: "removing the job removes the last
\* chunk which apparently went out fine". So whoever a job was queued for, resent
\* or not, has the message once it counts as delivered and nothing is under way.
ResentReached ==
  state = "delivered" /\ OutboxSettled /\ ~cut
    => \A r \in DOMAIN reached : reached[r].due \subseteq Served(reached[r].part)

\* The spinner stops: a pending message has a job, or somebody is about to
\* settle its state. Only a death between a job's removal and the state that
\* belongs to it leaves a message pending for ever.
PendingHasJob == state = "pending" /\ split # {} /\ ~cut => ~OutboxSettled

\* A recipient who was served is not served again by the same job, unless the
\* answer was lost or the process died before the progress was saved.
NoneServedTwice == twice \subseteq unsure

\* Every job has left the queue.  It happens again and again, whatever the server
\* answers: a job that keeps failing is given up and stops holding back the others.
OutboxDrained == ~HasJob

\* The outgoing queue: delivered means reached, pending means queued, nobody is served twice.
OutboxSafe == OutboxTypeOK /\ DeliveredReached /\ PendingHasJob /\ NoneServedTwice
==============================================================================
