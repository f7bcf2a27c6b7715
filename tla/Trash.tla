------------------------------- MODULE Trash -------------------------------
(***************************************************************************)
(* The trash of one eeemail device: how a message gets into it (the user,  *)
(* an ephemeral timer, another device), how it gets out again, and who     *)
(* destroys it.                                                            *)
(*                                                                         *)
(*   core/src/email/ephemeral.rs   to_trash, restore, reconcile, purge,    *)
(*                                 destroy_now, empty, divert              *)
(*   core/src/ephemeral.rs         the timers and core's expiry sweep      *)
(*   core/src/sql.rs               housekeeping                            *)
(*                                                                         *)
(* Every SQL statement or transaction the code awaits is one step, so the  *)
(* handlers interleave exactly where the code may be preempted.  Three     *)
(* tasks run concurrently: housekeeping (never twice at once, it holds a   *)
(* mutex), the ephemeral loop, and a JSON-RPC call of the user.  Calls     *)
(* that are one statement are one action and need no task.                 *)
(*                                                                         *)
(* Time is in days.  A handler takes well under a day, so the clock only   *)
(* moves while no handler is running and the `now` a handler captured is   *)
(* the current one.                                                        *)
(***************************************************************************)
EXTENDS Integers, FiniteSets

CONSTANTS
    Msgs,        \* message rows this device may come to hold
    Durations,   \* lengths an ephemeral timer may have
    Windows,     \* values the user may give Config::TrashPurgeDays
    MaxNow,      \* bound on the clock
    MaxFaults    \* bound on failed statements and process deaths

ASSUME DurationsAssumption == Durations \subseteq Nat \ {0}
ASSUME WindowsAssumption == Windows \subseteq Int
ASSUME BoundsAssumption == MaxNow \in Nat /\ MaxFaults \in Nat

\* Windows to check with: set_purge_days clamps a negative one to zero.
ZeroWindows == {-1, 1}

VARIABLES
    now,         \* the device's clock
    msgs,        \* table msgs: unreceived, live, or a tombstone in the trash chat
    seen,        \* messages whose state is past InFresh and InNoticed
    timer,       \* column ephemeral_timer, 0 for none
    timestamp,   \* column ephemeral_timestamp, 0 for none
    labelled,    \* messages with a msg_labels row for Trash
    purge_at,    \* table trashed_msgs: the deadline, NoRow without a row
    reason,      \* table trashed_msgs: why it is there
    purge_days,  \* Config::TrashPurgeDays
    pc,          \* where each task is
    ids,         \* the message ids a task's handler works on
    left,        \* those a destroy loop has still to reach
    skipped,     \* whether the loop's running sweep went without divert
    faults,      \* failures so far
    witnessed    \* history: messages that carried Trash at some moment since the
                 \* last housekeeping pass began, or got a zero window in it

store == <<msgs, seen, timer, timestamp, labelled, purge_at, reason>>
control == <<pc, ids, left, skipped>>
vars == <<now, store, purge_days, control, faults, witnessed>>

Housekeeping == "housekeeping"
Loop == "ephemeral_loop"
User == "user"
Tasks == {Housekeeping, Loop, User}

Idle == "idle"
Labels == {Idle, "trash_row", "restore_row", "filter", "select_trash",
           "reconcile", "select_due", "prune_rows", "start_timers",
           "destroy",
           "divert_label", "divert_row", "divert_clear",
           "core_select", "core_delete"}

NoRow == -1

\* set_purge_days stores days.max(0).
AtLeastZero(w) == IF w < 0 THEN 0 ELSE w

Reasons == {"none", "deleted", "expired"}

TypeOK ==
    /\ now \in Nat
    /\ msgs \in [Msgs -> {"unreceived", "live", "tombstone"}]
    /\ seen \subseteq Msgs
    /\ timer \in [Msgs -> Durations \cup {0}]
    /\ timestamp \in [Msgs -> Nat]
    /\ labelled \subseteq Msgs
    /\ purge_at \in [Msgs -> Nat \cup {NoRow}]
    /\ reason \in [Msgs -> Reasons]
    /\ purge_days \in Nat
    /\ pc \in [Tasks -> Labels]
    /\ ids \in [Tasks -> SUBSET Msgs]
    /\ left \in [Tasks -> SUBSET Msgs]
    /\ skipped \in BOOLEAN
    /\ faults \in Nat
    /\ witnessed \subseteq Msgs

Init ==
    /\ now = 1
    /\ msgs = [m \in Msgs |-> "unreceived"]
    /\ seen = {}
    /\ timer = [m \in Msgs |-> 0]
    /\ timestamp = [m \in Msgs |-> 0]
    /\ labelled = {}
    /\ purge_at = [m \in Msgs |-> NoRow]
    /\ reason = [m \in Msgs |-> "none"]
    /\ purge_days \in {AtLeastZero(w) : w \in Windows}
    /\ pc = [t \in Tasks |-> Idle]
    /\ ids = [t \in Tasks |-> {}]
    /\ left = [t \in Tasks |-> {}]
    /\ skipped = FALSE
    /\ faults = 0
    /\ witnessed = {}

Live == {m \in Msgs : msgs[m] = "live"}
Rows == {m \in Msgs : purge_at[m] # NoRow}
Quiet == \A t \in Tasks : pc[t] = Idle

(***************************************************************************)
(* Building blocks: one SQL statement or transaction each.                 *)
(***************************************************************************)

\* INSERT ... ON CONFLICT(msg_id) DO NOTHING into trashed_msgs.
BugInsertRows(S, why) ==
    /\ purge_at' = [m \in Msgs |-> IF m \in S THEN now + purge_days ELSE purge_at[m]]
    /\ reason' = [m \in Msgs |-> IF m \in S THEN why ELSE reason[m]]
InsertRows(S, why) ==
    /\ purge_at' = [m \in Msgs |-> IF m \in S /\ purge_at[m] = NoRow
                                   THEN now + purge_days ELSE purge_at[m]]
    /\ reason' = [m \in Msgs |-> IF m \in S /\ purge_at[m] = NoRow
                                 THEN why ELSE reason[m]]

\* Those of S that a zero window dooms to be destroyed without a stay.
AtOnce(S) == IF purge_days = 0 THEN S ELSE {}

DeleteRows(S) ==
    /\ purge_at' = [m \in Msgs |-> IF m \in S THEN NoRow ELSE purge_at[m]]
    /\ reason' = [m \in Msgs |-> IF m \in S THEN "none" ELSE reason[m]]

\* Mutant of Reconcile: it trusts the rows.
BugReconcileKeeps ==
    /\ purge_at' = [m \in Msgs |-> IF m \in labelled /\ purge_at[m] = NoRow
                                   THEN now + purge_days ELSE purge_at[m]]
    /\ reason' = [m \in Msgs |-> IF m \in labelled /\ purge_at[m] = NoRow
                                 THEN "deleted" ELSE reason[m]]
    /\ UNCHANGED <<msgs, seen, timer, timestamp, labelled>>

\* The label is the authority: a row without it goes, a label without a row
\* gets one, as a deletion, with a deadline counted from now.
Reconcile ==
    /\ purge_at' = [m \in Msgs |->
                      IF m \notin labelled THEN NoRow
                      ELSE IF purge_at[m] = NoRow THEN now + purge_days
                      ELSE purge_at[m]]
    /\ reason' = [m \in Msgs |->
                      IF m \notin labelled THEN "none"
                      ELSE IF purge_at[m] = NoRow THEN "deleted"
                      ELSE reason[m]]
    /\ UNCHANGED <<msgs, seen, timer, timestamp, labelled>>

\* INSERT OR REPLACE of a tombstone: the id and the Message-ID stay, every
\* other column goes back to its default.
Tombstone(S) ==
    LET gone == S \cap Live IN
    /\ msgs' = [m \in Msgs |-> IF m \in gone THEN "tombstone" ELSE msgs[m]]
    /\ seen' = seen \ gone
    /\ timer' = [m \in Msgs |-> IF m \in gone THEN 0 ELSE timer[m]]
    /\ timestamp' = [m \in Msgs |-> IF m \in gone THEN 0 ELSE timestamp[m]]

\* A timer is started once, and only ever brought forward.
StartTimers(S) ==
    timestamp' = [m \in Msgs |->
        IF /\ m \in S
           /\ timer[m] > 0
           /\ timestamp[m] = 0 \/ timestamp[m] > now + timer[m]
        THEN now + timer[m] ELSE timestamp[m]]

Expired == {m \in Live : timestamp[m] # 0 /\ timestamp[m] <= now}

Goto(t, label) == pc' = [pc EXCEPT ![t] = label]
Take(t, S) == ids' = [ids EXCEPT ![t] = S]

Done(t) ==
    /\ Goto(t, Idle)
    /\ Take(t, {})
    /\ left' = [left EXCEPT ![t] = {}]

----------------------------------------------------------------------------
(***************************************************************************)
(* What happens around the trash: one statement each, no task.             *)
(***************************************************************************)

Tick ==
    /\ Quiet
    /\ now < MaxNow
    /\ now' = now + 1
    /\ UNCHANGED <<store, purge_days, control, faults, witnessed>>

\* A message is stored.  A fresh one waits to be seen before its timer runs;
\* one already seen, or our own, starts at once.  A Trash label parked for it
\* is applied by the receive hook.
Receive(m, d, isSeen, parked) ==
    /\ msgs[m] = "unreceived"
    /\ msgs' = [msgs EXCEPT ![m] = "live"]
    /\ seen' = IF isSeen THEN seen \cup {m} ELSE seen
    /\ timer' = [timer EXCEPT ![m] = d]
    /\ timestamp' = [timestamp EXCEPT ![m] = IF isSeen /\ d > 0 THEN now + d ELSE 0]
    /\ labelled' = IF parked THEN labelled \cup {m} ELSE labelled
    /\ witnessed' = witnessed \cup labelled'
    /\ UNCHANGED <<now, purge_at, reason, purge_days, control, faults>>

\* markseen_msgs: the timer starts, then the state becomes InSeen.
MarkSeen(m) ==
    /\ m \in Live
    /\ StartTimers({m})
    /\ seen' = seen \cup {m}
    /\ UNCHANGED <<now, msgs, timer, labelled, purge_at, reason, purge_days,
                   control, faults, witnessed>>

\* Marking a chat noticed starts the timer of everything in it.
NoticeChat ==
    /\ StartTimers(Live)
    /\ timestamp' # timestamp
    /\ UNCHANGED <<now, msgs, seen, timer, labelled, purge_at, reason,
                   purge_days, control, faults, witnessed>>

\* The user's own timer on one message; 0 takes it off.
SetMessageTimer(m, d) ==
    /\ m \in Live
    /\ timestamp' = [timestamp EXCEPT ![m] = IF d = 0 THEN 0 ELSE now + d]
    /\ UNCHANGED <<now, msgs, seen, timer, labelled, purge_at, reason,
                   purge_days, control, faults, witnessed>>

\* Trash applied or removed on another device.  Only the label is synced.
SyncLabel(m, apply) ==
    /\ msgs[m] # "unreceived"
    /\ labelled' = IF apply THEN labelled \cup {m} ELSE labelled \ {m}
    /\ witnessed' = witnessed \cup labelled'
    /\ UNCHANGED <<now, msgs, seen, timer, timestamp, purge_at, reason,
                   purge_days, control, faults>>

SetPurgeDays(w) ==
    /\ purge_days' = AtLeastZero(w)
    /\ UNCHANGED <<now, store, control, faults, witnessed>>

----------------------------------------------------------------------------
(***************************************************************************)
(* The user's calls.                                                       *)
(***************************************************************************)

\* trash: to_trash labels first, and writes the deadline in a second
\* transaction.
TrashLabel(S) ==
    /\ pc[User] = Idle
    /\ labelled' = labelled \cup S
    /\ Take(User, S)
    /\ Goto(User, "trash_row")
    /\ witnessed' = witnessed \cup labelled'
    /\ UNCHANGED <<now, msgs, seen, timer, timestamp, purge_at, reason,
                   purge_days, left, skipped, faults>>

TrashRow ==
    /\ pc[User] = "trash_row"
    /\ InsertRows(ids[User], "deleted")
    /\ Done(User)
    /\ witnessed' = witnessed \cup AtOnce(ids[User])
    /\ UNCHANGED <<now, msgs, seen, timer, timestamp, labelled, purge_days,
                   skipped, faults>>

\* restore: the label comes off, then the deadline and the countdown go.
RestoreLabel(S) ==
    /\ pc[User] = Idle
    /\ labelled' = labelled \ S
    /\ Take(User, S)
    /\ Goto(User, "restore_row")
    /\ UNCHANGED <<now, msgs, seen, timer, timestamp, purge_at, reason,
                   purge_days, left, skipped, faults, witnessed>>

RestoreRow ==
    /\ pc[User] = "restore_row"
    /\ DeleteRows(ids[User])
    /\ timestamp' = [m \in Msgs |-> IF m \in ids[User] THEN 0 ELSE timestamp[m]]
    /\ Done(User)
    /\ UNCHANGED <<now, msgs, seen, timer, labelled, purge_days, skipped,
                   faults, witnessed>>

\* destroy_now: reconcile, then only the ids that have a row.
DestroyNow(S) ==
    /\ pc[User] = Idle
    /\ Reconcile
    /\ Take(User, S)
    /\ Goto(User, "filter")
    /\ UNCHANGED <<now, purge_days, left, skipped, faults, witnessed>>

DestroyFilter ==
    /\ pc[User] = "filter"
    /\ Take(User, ids[User] \cap Rows)
    /\ left' = [left EXCEPT ![User] = ids[User] \cap Rows]
    /\ Goto(User, "destroy")
    /\ UNCHANGED <<now, store, purge_days, skipped, faults, witnessed>>

\* empty: reconcile, then exactly what in_trash shows.
Empty ==
    /\ pc[User] = Idle
    /\ Reconcile
    /\ Goto(User, "select_trash")
    /\ UNCHANGED <<now, purge_days, ids, left, skipped, faults, witnessed>>

EmptySelect ==
    /\ pc[User] = "select_trash"
    /\ Take(User, labelled \cap Live)
    /\ left' = [left EXCEPT ![User] = labelled \cap Live]
    /\ Goto(User, "destroy")
    /\ UNCHANGED <<now, store, purge_days, skipped, faults, witnessed>>

----------------------------------------------------------------------------
(***************************************************************************)
(* destroy, shared by purge, destroy_now and empty.                        *)
(***************************************************************************)

Destroy(t, m) ==
    /\ pc[t] = "destroy"
    /\ m \in left[t]
    /\ Tombstone({m})
    /\ left' = [left EXCEPT ![t] = @ \ {m}]
    /\ UNCHANGED <<now, labelled, purge_at, reason, purge_days, pc, ids,
                   skipped, faults, witnessed>>

DestroyRows(t) ==
    /\ pc[t] = "destroy"
    /\ left[t] = {}
    /\ DeleteRows(ids[t])
    /\ IF t = Housekeeping
       THEN /\ Goto(t, "start_timers")
            /\ Take(t, {})
            /\ UNCHANGED left
       ELSE Done(t)
    /\ UNCHANGED <<now, msgs, seen, timer, timestamp, labelled, purge_days,
                   skipped, faults, witnessed>>

----------------------------------------------------------------------------
(***************************************************************************)
(* Housekeeping: labels::prune, then purge, then start_ephemeral_timers.   *)
(***************************************************************************)

LabelsPrune ==
    /\ pc[Housekeeping] = Idle
    /\ labelled' = labelled \cap Live
    /\ Goto(Housekeeping, "reconcile")
    /\ witnessed' = labelled'
    /\ UNCHANGED <<now, msgs, seen, timer, timestamp, purge_at, reason,
                   purge_days, ids, left, skipped, faults>>

PurgeReconcile ==
    /\ pc[Housekeeping] = "reconcile"
    /\ Reconcile
    /\ Goto(Housekeeping, "select_due")
    /\ UNCHANGED <<now, purge_days, ids, left, skipped, faults, witnessed>>

BugPurgeSelect ==
    LET due == {m \in Rows : purge_at[m] < now} IN
    /\ pc[Housekeeping] = "select_due"
    /\ Take(Housekeeping, due)
    /\ left' = [left EXCEPT ![Housekeeping] = due]
    /\ Goto(Housekeeping, IF due = {} THEN "prune_rows" ELSE "destroy")
    /\ UNCHANGED <<now, store, purge_days, skipped, faults, witnessed>>
PurgeSelect ==
    LET due == {m \in Rows : purge_at[m] <= now} IN
    /\ pc[Housekeeping] = "select_due"
    /\ Take(Housekeeping, due)
    /\ left' = [left EXCEPT ![Housekeeping] = due]
    /\ Goto(Housekeeping, IF due = {} THEN "prune_rows" ELSE "destroy")
    /\ UNCHANGED <<now, store, purge_days, skipped, faults, witnessed>>

\* Nothing due: drop the rows of messages whose content is already gone.
PurgePrune ==
    /\ pc[Housekeeping] = "prune_rows"
    /\ DeleteRows(Msgs \ Live)
    /\ Goto(Housekeeping, "start_timers")
    /\ UNCHANGED <<now, msgs, seen, timer, timestamp, labelled, purge_days,
                   ids, left, skipped, faults, witnessed>>

\* The safety net for timers that were never started.
StartEphemeralTimers ==
    /\ pc[Housekeeping] = "start_timers"
    /\ timestamp' = [m \in Msgs |->
         IF m \in seen /\ timer[m] > 0 /\ timestamp[m] = 0
         THEN now + timer[m] ELSE timestamp[m]]
    /\ Done(Housekeeping)
    /\ UNCHANGED <<now, msgs, seen, timer, labelled, purge_at, reason,
                   purge_days, skipped, faults, witnessed>>

----------------------------------------------------------------------------
(***************************************************************************)
(* The ephemeral loop: delete_expired_messages, which diverts first.       *)
(***************************************************************************)

\* The loop wakes when a timestamp is reached.  With a zero window divert
\* returns at once and core's sweep does the work.
DivertSelect ==
    /\ pc[Loop] = Idle
    /\ Expired # {}
    /\ skipped' = (purge_days <= 0)
    /\ IF purge_days <= 0
       THEN /\ Goto(Loop, "core_select")
            /\ UNCHANGED ids
       ELSE /\ Goto(Loop, "divert_label")
            /\ Take(Loop, Expired)
    /\ UNCHANGED <<now, store, purge_days, left, faults, witnessed>>

DivertLabel ==
    /\ pc[Loop] = "divert_label"
    /\ labelled' = labelled \cup ids[Loop]
    /\ Goto(Loop, "divert_row")
    /\ witnessed' = witnessed \cup labelled'
    /\ UNCHANGED <<now, msgs, seen, timer, timestamp, purge_at, reason,
                   purge_days, ids, left, skipped, faults>>

DivertRow ==
    /\ pc[Loop] = "divert_row"
    /\ InsertRows(ids[Loop], "expired")
    /\ Goto(Loop, "divert_clear")
    /\ witnessed' = witnessed \cup AtOnce(ids[Loop])
    /\ UNCHANGED <<now, msgs, seen, timer, timestamp, labelled, purge_days,
                   ids, left, skipped, faults>>

BugDivertClear ==
    /\ pc[Loop] = "divert_clear"
    /\ Take(Loop, {})
    /\ Goto(Loop, "core_select")
    /\ UNCHANGED <<now, store, purge_days, left, skipped, faults, witnessed>>

\* Clearing the timestamp hides the message from core's own sweep.
DivertClear ==
    /\ pc[Loop] = "divert_clear"
    /\ timestamp' = [m \in Msgs |-> IF m \in ids[Loop] THEN 0 ELSE timestamp[m]]
    /\ Take(Loop, {})
    /\ Goto(Loop, "core_select")
    /\ UNCHANGED <<now, msgs, seen, timer, labelled, purge_at, reason,
                   purge_days, left, skipped, faults, witnessed>>

CoreSelect ==
    /\ pc[Loop] = "core_select"
    /\ Take(Loop, Expired)
    /\ Goto(Loop, IF Expired = {} THEN Idle ELSE "core_delete")
    /\ skipped' = (skipped /\ Expired # {})
    /\ UNCHANGED <<now, store, purge_days, left, faults, witnessed>>

CoreDelete ==
    /\ pc[Loop] = "core_delete"
    /\ Tombstone(ids[Loop])
    /\ Done(Loop)
    /\ skipped' = FALSE
    /\ UNCHANGED <<now, labelled, purge_at, reason, purge_days, faults, witnessed>>

----------------------------------------------------------------------------
(***************************************************************************)
(* Failure.  A failed statement ends the handler it is in.  Housekeeping   *)
(* logs it and goes on with its next step; the loop goes on to core's      *)
(* sweep, because failing to divert must not stop expiry.                  *)
(***************************************************************************)

Failing ==
    /\ faults < MaxFaults
    /\ faults' = faults + 1

\* Failing before the label prune is done only skips the prune; failing inside
\* purge leaves purge for the next pass.
HousekeepingFails ==
    /\ Failing
    /\ \/ /\ pc[Housekeeping] = Idle
          /\ Goto(Housekeeping, "reconcile")
          /\ witnessed' = labelled
       \/ /\ pc[Housekeeping] = "start_timers"
          /\ Goto(Housekeeping, Idle)
          /\ UNCHANGED witnessed
       \/ /\ pc[Housekeeping] \in {"reconcile", "select_due", "prune_rows",
                                    "destroy"}
          /\ Goto(Housekeeping, "start_timers")
          /\ UNCHANGED witnessed
    /\ Take(Housekeeping, {})
    /\ left' = [left EXCEPT ![Housekeeping] = {}]
    /\ UNCHANGED <<now, store, purge_days, skipped>>

DivertFails ==
    /\ Failing
    /\ pc[Loop] \in {"divert_label", "divert_row", "divert_clear"}
    /\ Goto(Loop, "core_select")
    /\ Take(Loop, {})
    /\ skipped' = TRUE
    /\ UNCHANGED <<now, store, purge_days, left, witnessed>>

CoreSweepFails ==
    /\ Failing
    /\ pc[Loop] \in {"core_select", "core_delete"}
    /\ Done(Loop)
    /\ skipped' = FALSE
    /\ UNCHANGED <<now, store, purge_days, witnessed>>

CallFails ==
    /\ Failing
    /\ pc[User] # Idle
    /\ Done(User)
    /\ UNCHANGED <<now, store, purge_days, skipped, witnessed>>

\* The process dies: every handler is gone, the database stays.
Crash ==
    /\ Failing
    /\ ~Quiet
    /\ pc' = [t \in Tasks |-> Idle]
    /\ ids' = [t \in Tasks |-> {}]
    /\ left' = [t \in Tasks |-> {}]
    /\ skipped' = FALSE
    /\ UNCHANGED <<now, store, purge_days, witnessed>>

----------------------------------------------------------------------------

HousekeepingStep ==
    \/ LabelsPrune
    \/ PurgeReconcile
    \/ PurgeSelect
    \/ PurgePrune
    \/ \E m \in Msgs : Destroy(Housekeeping, m)
    \/ DestroyRows(Housekeeping)
    \/ StartEphemeralTimers

LoopStep ==
    \/ DivertSelect
    \/ DivertLabel
    \/ DivertRow
    \/ DivertClear
    \/ CoreSelect
    \/ CoreDelete

\* The steps a call goes on with once the user has made it.
UserStep ==
    \/ TrashRow
    \/ RestoreRow
    \/ DestroyFilter
    \/ EmptySelect
    \/ \E m \in Msgs : Destroy(User, m)
    \/ DestroyRows(User)

UserCall ==
    \/ \E S \in SUBSET Live \ {{}} :
          \/ TrashLabel(S)
          \/ RestoreLabel(S)
          \/ DestroyNow(S)
    \/ Empty
    \/ \E m \in Msgs : MarkSeen(m)
    \/ NoticeChat
    \/ \E m \in Msgs, d \in Durations \cup {0} : SetMessageTimer(m, d)
    \/ \E w \in Windows : SetPurgeDays(w)

Network ==
    \/ \E m \in Msgs, d \in Durations \cup {0}, isSeen, parked \in BOOLEAN :
          Receive(m, d, isSeen, parked)
    \/ \E m \in Msgs, apply \in BOOLEAN : SyncLabel(m, apply)

Fault ==
    \/ HousekeepingFails
    \/ DivertFails
    \/ CoreSweepFails
    \/ CallFails
    \/ Crash

Next ==
    \/ Tick
    \/ HousekeepingStep
    \/ LoopStep
    \/ UserStep
    \/ UserCall
    \/ Network
    \/ Fault

\* Housekeeping runs daily and the loop wakes by itself; once begun, handlers
\* run on.  Nobody has to use the client.
Fairness ==
    /\ SF_vars(Tick)
    /\ WF_vars(HousekeepingStep)
    /\ WF_vars(LoopStep)
    /\ WF_vars(UserStep)
    /\ []<>Quiet

Spec == Init /\ [][Next]_vars
FairSpec == Spec /\ Fairness

----------------------------------------------------------------------------
(***************************************************************************)
(* Properties.                                                             *)
(***************************************************************************)

\* What housekeeping's purge is about to destroy carried the Trash label at
\* some moment of this very pass: a deadline left behind by a message that was
\* restored on another device before the pass began destroys nothing.
\* (reconcile, "every path that destroys calls this first".)  Only a zero
\* window, which means destruction without a stay in the trash, is excepted.
PurgeOnlyFromTrash ==
    pc[Housekeeping] = "destroy" => ids[Housekeeping] \subseteq witnessed

\* Whatever else starts, stops or brings forward timers while divert is under
\* way, core's irreversible sweep finds nothing to delete after it: a fired
\* timer destroys a message only when the window is zero or divert failed.
ExpiryIsRecoverable ==
    pc[Loop] = "core_delete" => skipped

\* A deadline in trashed_msgs never moves and its reason never changes, by
\* re-trashing, by a second expiry, by reconcile or by a new window: the row
\* can only go away.
RowsKept ==
    \A m \in Rows : m \in Rows' => /\ purge_at'[m] = purge_at[m]
                                  /\ reason'[m] = reason[m]
CountdownNeverMoves == [][RowsKept]_vars

\* A live message with the label and no deadline, as sync or an interrupted
\* to_trash leaves it, gets a deadline (or leaves the trash): it does not sit
\* there forever.
TrashedGetsDeadline ==
    \A m \in Msgs : (m \in labelled \cap Live) ~>
                        (m \notin labelled \cap Live \/ m \in Rows)

\* A message in the trash whose deadline passes is destroyed, unless it left
\* the trash or its row was dropped in between.
DueIsDestroyed ==
    \A m \in Msgs : (m \in labelled \cap Live \cap Rows /\ purge_at[m] <= MaxNow)
                        ~> (m \notin labelled \cap Live \cap Rows)

\* A timer that has started fires: the loop diverts or deletes the message,
\* unless the timer is taken off or set beyond the horizon.
StartedTimerFires ==
    \A m \in Msgs : (m \in Live /\ timestamp[m] \in 1 .. MaxNow)
                        ~> ~(m \in Live /\ timestamp[m] \in 1 .. MaxNow)

\* Deadlines are kept all the way: what goes to the trash gets its deadline, what is due is
\* destroyed, and a timer that was started fires.
DeadlinesKept == TrashedGetsDeadline /\ DueIsDestroyed /\ StartedTimerFires
=============================================================================
