------------------------------ MODULE IoControl ------------------------------
(***************************************************************************)
(* Who runs when: the I/O scheduler of an account with its pause guards    *)
(* (core/src/scheduler.rs), the ongoing process (core/src/context.rs) and  *)
(* the background fetches of the account manager (core/src/accounts.rs).   *)
(* Jobs (an import or export, offering a backup, getting one, configuring, *)
(* a setting that needs a restart, a background fetch) take the guard and  *)
(* the ongoing mutex in the order their code does, while the user starts   *)
(* and stops I/O.                                                          *)
(***************************************************************************)
EXTENDS Integers, FiniteSets

CONSTANTS
    Jobs,         \* concurrent jobs
    JobKinds,
    MaxIoOps,     \* calls by the user
    MaxIoFaults   \* failures

ASSUME IoAssumption ==
    /\ IsFiniteSet(Jobs) /\ 0 \notin Jobs
    /\ JobKinds \subseteq {"imex", "provide", "get", "configure", "config", "fetch"}
    /\ MaxIoOps \in Nat /\ MaxIoFaults \in Nat

NoJob == 0
Resting == [kind |-> "none", at |-> "idle", guard |-> "none", stop |-> FALSE, saw |-> "none"]

VARIABLES
    sched,      \* InnerSchedulerState
    loop,       \* the inbox loop: off, connect, fetch or idling
    conn,       \* its ConnectivityStore
    interrupt,  \* its idle_interrupt channel
    jobs,       \* job -> kind, how far, its guard, asked to stop, what it saw fetched
    ongoing,    \* RunningState
    slot,       \* background_fetch_interrupt_sender: the fetch it stops
    restarting, \* restart_io_if_running
    wish,       \* history: what the user asked for last
    trouble,    \* history: races and failures
    room        \* calls and failures left

ioVars == <<sched, loop, conn, interrupt, jobs, ongoing, slot, restarting, wish, trouble, room>>

NeedsOngoing(k) == k \in {"imex", "provide", "get", "configure"}
NeedsGuard(k) == k \in {"imex", "provide", "config", "fetch"}

-----------------------------------------------------------------------------
(* The scheduler                                                           *)

\* Scheduler::start and do_start: new loops, or an error that leaves the state alone.
DoStart(fails) ==
    IF fails THEN UNCHANGED <<sched, loop, conn, interrupt>>
    ELSE /\ sched' = [st |-> "started", started |-> FALSE, count |-> 0]
         /\ loop' = "connect" /\ conn' = "uninit" /\ interrupt' = FALSE

\* Scheduler::stop and do_stop: every loop has ended when it returns.
DoStop(state) ==
    /\ sched' = state
    /\ loop' = "off" /\ conn' = "uninit" /\ interrupt' = FALSE

\* SchedulerState::start
Start(fails) ==
    CASE sched.st = "started" -> UNCHANGED <<sched, loop, conn, interrupt>>
      [] sched.st = "stopped" -> DoStart(fails)
      [] OTHER -> sched' = [sched EXCEPT !.started = TRUE] /\ UNCHANGED <<loop, conn, interrupt>>

\* SchedulerState::stop
Stop ==
    CASE sched.st = "started" -> DoStop([st |-> "stopped", started |-> FALSE, count |-> 0])
      [] sched.st = "stopped" -> UNCHANGED <<sched, loop, conn, interrupt>>
      [] OTHER -> sched' = [sched EXCEPT !.started = FALSE] /\ UNCHANGED <<loop, conn, interrupt>>

\* SchedulerState::pause
Pause ==
    CASE sched.st = "started" -> DoStop([st |-> "paused", started |-> TRUE, count |-> 1])
      [] sched.st = "stopped" -> DoStop([st |-> "paused", started |-> FALSE, count |-> 1])
      [] OTHER -> sched' = [sched EXCEPT !.count = @ + 1] /\ UNCHANGED <<loop, conn, interrupt>>

\* The task that waits for a dropped guard.
Resume(j, fails) ==
    /\ jobs[j].guard = "dropped"
    /\ jobs' = [jobs EXCEPT ![j].guard = "none"]
    /\ fails => room.faults > 0 /\ sched.st = "paused" /\ sched.count = 1 /\ sched.started
    /\ CASE sched.st # "paused"  -> UNCHANGED <<sched, loop, conn, interrupt>>
         [] sched.st = "paused" /\ sched.count = 1 ->
                IF sched.started THEN DoStart(fails)
                ELSE DoStop([st |-> "stopped", started |-> FALSE, count |-> 0])
         [] OTHER -> sched' = [sched EXCEPT !.count = @ - 1] /\ UNCHANGED <<loop, conn, interrupt>>
    /\ trouble' = IF fails THEN trouble \cup {"unstarted"} ELSE trouble
    /\ room' = IF fails THEN [room EXCEPT !.faults = @ - 1] ELSE room
    /\ UNCHANGED <<ongoing, slot, restarting, wish>>

-----------------------------------------------------------------------------
(* The user                                                                *)

Called == room.ops > 0 /\ room' = [room EXCEPT !.ops = @ - 1]

StartIo ==
    /\ Called /\ Start(FALSE) /\ wish' = TRUE
    /\ UNCHANGED <<jobs, ongoing, slot, restarting, trouble>>

StopIo ==
    /\ Called /\ Stop /\ wish' = FALSE
    /\ trouble' = IF restarting = "idle" THEN trouble ELSE trouble \cup {"undone"}
    /\ UNCHANGED <<jobs, ongoing, slot, restarting>>

\* restart: the three steps take the lock one after the other.
Restart ==
    \/ /\ restarting = "idle" /\ Called
       /\ restarting' = IF sched.st = "started" THEN "checked" ELSE "idle"
       /\ UNCHANGED <<sched, loop, conn, interrupt>>
    \/ restarting = "checked" /\ restarting' = "stopped" /\ Stop /\ UNCHANGED room
    \/ restarting = "stopped" /\ restarting' = "idle" /\ Start(FALSE) /\ UNCHANGED room

RestartIo == Restart /\ UNCHANGED <<jobs, ongoing, slot, wish, trouble>>

\* maybe_network_lost
NetworkLost ==
    /\ Called /\ sched.st = "started"
    /\ interrupt' = TRUE
    /\ conn' = IF conn \in {"uninit", "error"} THEN conn ELSE "error"
    /\ UNCHANGED <<sched, loop, jobs, ongoing, slot, restarting, wish, trouble>>

\* stop_ongoing
StopOngoing ==
    /\ Called /\ ongoing.st = "running"
    /\ ongoing' = [ongoing EXCEPT !.st = "shallstop"]
    /\ jobs' = [j \in Jobs |-> IF j = ongoing.by THEN [jobs[j] EXCEPT !.stop = TRUE] ELSE jobs[j]]
    /\ UNCHANGED <<sched, loop, conn, interrupt, slot, restarting, wish, trouble>>

\* stop_background_fetch
StopBackgroundFetch ==
    /\ Called /\ slot # NoJob
    /\ slot' = NoJob
    /\ jobs' = [jobs EXCEPT ![slot].stop = TRUE]
    /\ UNCHANGED <<sched, loop, conn, interrupt, ongoing, restarting, wish, trouble>>

-----------------------------------------------------------------------------
(* The inbox loop                                                          *)

LoopConnects(fails) ==
    /\ loop = "connect"
    /\ fails => room.faults > 0
    /\ loop' = IF fails THEN "connect" ELSE "fetch"
    /\ conn' = IF fails THEN "error" ELSE "busy"
    /\ room' = IF fails THEN [room EXCEPT !.faults = @ - 1] ELSE room
    /\ jobs' = IF fails THEN jobs
               ELSE [j \in Jobs |-> IF jobs[j].saw = "no" THEN [jobs[j] EXCEPT !.saw = "begun"]
                                    ELSE jobs[j]]
    /\ UNCHANGED <<sched, interrupt, ongoing, slot, restarting, wish, trouble>>

\* The round is over: set_idle, then idle.
LoopIdles ==
    /\ loop = "fetch"
    /\ loop' = "idling" /\ conn' = "idle"
    /\ jobs' = [j \in Jobs |-> IF jobs[j].saw = "begun" THEN [jobs[j] EXCEPT !.saw = "done"]
                               ELSE jobs[j]]
    /\ UNCHANGED <<sched, interrupt, ongoing, slot, restarting, wish, trouble, room>>

\* A round begins after an interrupt; only mails it finds make it look busy.
LoopWakes(found) ==
    /\ loop = "idling" /\ interrupt
    /\ loop' = "fetch" /\ interrupt' = FALSE
    /\ conn' = IF found THEN "busy" ELSE conn
    /\ jobs' = [j \in Jobs |-> IF jobs[j].saw = "no" THEN [jobs[j] EXCEPT !.saw = "begun"]
                               ELSE jobs[j]]
    /\ UNCHANGED <<sched, ongoing, slot, restarting, wish, trouble, room>>

-----------------------------------------------------------------------------
(* Jobs                                                                    *)

StepTo(j, at) == jobs' = [jobs EXCEPT ![j].at = at]

\* alloc_ongoing
AllocOngoing(j) ==
    /\ ongoing.st = "stopped"
    /\ ongoing' = [st |-> "running", by |-> j]

\* free_ongoing
FreeOngoing == ongoing' = [st |-> "stopped", by |-> NoJob]

\* imex, prepare, get_backup and add_transport begin with the mutex; configuring refuses
\* while I/O runs.
BeginJob(j, k) ==
    /\ jobs[j].at = "idle" /\ jobs[j].kind = "none" /\ NeedsOngoing(k)
    /\ k = "configure" => sched.st # "started"
    /\ AllocOngoing(j)
    /\ jobs' = [jobs EXCEPT ![j].kind = k, ![j].at = IF NeedsGuard(k) THEN "pausing" ELSE "working"]
    /\ UNCHANGED <<sched, loop, conn, interrupt, slot, restarting, wish, trouble, room>>

\* set_config
BeginConfig(j) ==
    /\ jobs[j].at = "idle" /\ jobs[j].kind = "none"
    /\ jobs' = [jobs EXCEPT ![j].kind = "config", ![j].at = "pausing"]
    /\ UNCHANGED <<sched, loop, conn, interrupt, ongoing, slot, restarting, wish, trouble, room>>

TakeGuard(j) ==
    /\ jobs[j].at = "pausing"
    /\ Pause
    /\ jobs' = [jobs EXCEPT ![j].at = "working", ![j].guard = "held"]
    /\ UNCHANGED <<ongoing, slot, restarting, wish, trouble, room>>

\* The work is over, cancelled or not; an import frees the mutex after the guard, an
\* offer before it.
FinishWork(j) ==
    /\ jobs[j].at = "working" /\ jobs[j].kind # "fetch"
    /\ jobs' = [jobs EXCEPT ![j].at = CASE jobs[j].kind = "imex"   -> "freeing"
                                        [] jobs[j].kind = "config" -> "ended"
                                        [] jobs[j].kind = "provide" -> "dropping"
                                        [] OTHER                   -> "ended",
                            ![j].guard = IF jobs[j].kind \in {"imex", "config"} THEN "dropped" ELSE @]
    /\ IF jobs[j].kind \in {"provide", "get", "configure"} THEN FreeOngoing ELSE UNCHANGED ongoing
    /\ UNCHANGED <<sched, loop, conn, interrupt, slot, restarting, wish, trouble, room>>

FinishJob(j) ==
    /\ jobs[j].at \in {"freeing", "dropping"}
    /\ jobs' = [jobs EXCEPT ![j].at = "ended",
                            ![j].guard = IF jobs[j].at = "dropping" THEN "dropped" ELSE @]
    /\ IF jobs[j].at = "freeing" THEN FreeOngoing ELSE UNCHANGED ongoing
    /\ UNCHANGED <<sched, loop, conn, interrupt, slot, restarting, wish, trouble, room>>

\* Preparing an offer fails after it took the mutex, or the future of an import is
\* dropped: the guard goes, the mutex stays.
AbandonJob(j) ==
    /\ jobs[j].at = "working" /\ jobs[j].kind \in {"provide", "imex"} /\ room.faults > 0
    /\ room' = [room EXCEPT !.faults = @ - 1]
    /\ trouble' = trouble \cup {"leaked"}
    /\ jobs' = [jobs EXCEPT ![j].at = "ended", ![j].guard = "dropped"]
    /\ UNCHANGED <<sched, loop, conn, interrupt, ongoing, slot, restarting, wish>>

-----------------------------------------------------------------------------
(* Background fetches                                                      *)

\* Accounts::background_fetch: nothing if another one runs; then Context::background_fetch
\* looks whether I/O runs.
BeginFetch(j) ==
    /\ jobs[j].at = "idle" /\ jobs[j].kind = "none" /\ slot = NoJob
    /\ slot' = j
    /\ jobs' = [jobs EXCEPT ![j].kind = "fetch", ![j].saw = "no",
                            ![j].at = IF sched.st = "started" THEN "interrupting" ELSE "pausing"]
    /\ UNCHANGED <<sched, loop, conn, interrupt, ongoing, restarting, wish, trouble, room>>

\* maybe_network, first half ...
InterruptLoop(j) ==
    /\ jobs[j].at = "interrupting"
    /\ StepTo(j, IF sched.st = "started" THEN "marking" ELSE "waiting")
    /\ interrupt' = IF sched.st = "started" THEN TRUE ELSE interrupt
    /\ trouble' = IF loop = "fetch" THEN trouble \cup {"crossed"} ELSE trouble
    /\ UNCHANGED <<sched, loop, conn, ongoing, slot, restarting, wish, room>>

BugIdleInterrupted(j) ==
    /\ jobs[j].at = "marking"
    /\ StepTo(j, "waiting")
    /\ UNCHANGED <<sched, loop, conn, interrupt, ongoing, slot, restarting, wish, trouble, room>>

\* ... and idle_interrupted.
IdleInterrupted(j) ==
    /\ jobs[j].at = "marking"
    /\ StepTo(j, "waiting")
    /\ conn' = IF conn = "idle" THEN "interrupting" ELSE conn
    /\ UNCHANGED <<sched, loop, interrupt, ongoing, slot, restarting, wish, trouble, room>>

\* all_work_done
AllWorkDone == sched.st = "started" /\ conn \in {"idle", "error"}

\* wait_for_all_work_done
DoneWaiting(j) ==
    /\ jobs[j].at = "waiting" /\ AllWorkDone
    /\ jobs' = [jobs EXCEPT ![j].at = "fetched",
                            ![j].saw = IF @ # "done" /\ conn = "error" THEN "failed" ELSE @]
    /\ UNCHANGED <<sched, loop, conn, interrupt, ongoing, slot, restarting, wish, trouble, room>>

\* A round on a connection of its own.
OwnRound(j) ==
    /\ jobs[j].at = "working" /\ jobs[j].kind = "fetch"
    /\ jobs' = [jobs EXCEPT ![j].at = "fetched", ![j].saw = "done", ![j].guard = "dropped"]
    /\ UNCHANGED <<sched, loop, conn, interrupt, ongoing, slot, restarting, wish, trouble, room>>

BugEndFetch(j) ==
    /\ jobs[j].kind = "fetch" /\ jobs[j].at # "ended"
    /\ \/ jobs[j].at = "fetched"
       \/ jobs[j].stop
       \/ jobs[j].at = "waiting" /\ ~AllWorkDone
    /\ jobs' = [jobs EXCEPT ![j].at = "ended", ![j].guard = IF @ = "held" THEN "dropped" ELSE @]
    /\ slot' = IF jobs[j].at = "fetched" THEN NoJob ELSE slot
    /\ UNCHANGED <<sched, loop, conn, interrupt, ongoing, restarting, wish, trouble, room>>

\* background_fetch_with_timeout: done, interrupted or timed out; the slot is cleared.
EndFetch(j) ==
    /\ jobs[j].kind = "fetch" /\ jobs[j].at # "ended"
    /\ \/ jobs[j].at = "fetched"
       \/ jobs[j].stop
       \/ jobs[j].at = "waiting" /\ ~AllWorkDone
    /\ jobs' = [jobs EXCEPT ![j].at = "ended", ![j].guard = IF @ = "held" THEN "dropped" ELSE @]
    /\ slot' = NoJob
    /\ UNCHANGED <<sched, loop, conn, interrupt, ongoing, restarting, wish, trouble, room>>

-----------------------------------------------------------------------------

IoInit ==
    /\ sched = [st |-> "stopped", started |-> FALSE, count |-> 0]
    /\ loop = "off" /\ conn = "uninit" /\ interrupt = FALSE
    /\ jobs = [j \in Jobs |-> Resting]
    /\ ongoing = [st |-> "stopped", by |-> NoJob] /\ slot = NoJob /\ restarting = "idle"
    /\ wish = FALSE /\ trouble = {} /\ room = [ops |-> MaxIoOps, faults |-> MaxIoFaults]

LoopStep == \/ \E b \in BOOLEAN : LoopConnects(b) \/ LoopWakes(b)
            \/ LoopIdles

JobStep(j) ==
    \/ TakeGuard(j) \/ FinishWork(j) \/ FinishJob(j)
    \/ InterruptLoop(j) \/ IdleInterrupted(j) \/ DoneWaiting(j) \/ OwnRound(j) \/ EndFetch(j)
    \/ \E b \in BOOLEAN : Resume(j, b)

IoNext ==
    \/ StartIo \/ StopIo \/ RestartIo \/ NetworkLost \/ StopOngoing \/ StopBackgroundFetch
    \/ LoopStep
    \/ \E j \in Jobs : \/ JobStep(j) \/ AbandonJob(j)
                       \/ "config" \in JobKinds /\ BeginConfig(j)
                       \/ "fetch" \in JobKinds /\ BeginFetch(j)
                       \/ \E k \in JobKinds : BeginJob(j, k)

\* Tasks and loops that can go on do so: the runtime schedules every ready task, and the
\* work of a job ends or is cancelled.
IoFairness == WF_ioVars(LoopStep) /\ \A j \in Jobs : WF_ioVars(JobStep(j))

IoSpec == IoInit /\ [][IoNext]_ioVars /\ IoFairness

-----------------------------------------------------------------------------
(* Properties                                                              *)

Guards == {j \in Jobs : jobs[j].guard # "none"}

IoTypeOK ==
    /\ sched.st \in {"started", "stopped", "paused"} /\ loop \in {"off", "connect", "fetch", "idling"}
    /\ (loop = "off") = (sched.st # "started")
    /\ slot \in Jobs \cup {NoJob} /\ ongoing.by \in Jobs \cup {NoJob}

\* The guards are counted: the scheduler is paused exactly as long as one of the jobs that
\* took a guard has it or its resuming is due, and no loop runs meanwhile, whatever is
\* started, stopped and restarted; a resume that cannot start the loops is the exception.
PausedByGuards ==
    "unstarted" \in trouble \/
    /\ (sched.st = "paused") = (Guards # {})
    /\ sched.st = "paused" => sched.count = Cardinality(Guards)

\* After pauses and restarts, I/O is as the last call of the user asked for.
AsLastAsked ==
    Guards = {} /\ restarting = "idle" /\ trouble \cap {"unstarted", "undone"} = {} =>
        (sched.st = "started") = wish

\* At most one job at a time has the ongoing mutex.
OneOngoing ==
    Cardinality({j \in Jobs : NeedsOngoing(jobs[j].kind)
                              /\ jobs[j].at \in {"pausing", "working", "freeing"}}) <= 1

\* A background fetch that found the loop idle does not report done before the loop has
\* fetched once more.
FetchedSince ==
    trouble \cap {"crossed"} = {} =>
        \A j \in Jobs : jobs[j].kind = "fetch" /\ jobs[j].at = "fetched" =>
            jobs[j].saw \in {"done", "failed"}

\* No background fetch is under way, and no process that was asked to stop holds the mutex
\* of the ongoing process: both come about again and again.
FetchesEnded == slot = NoJob
CancelEnded == ongoing.st = "shallstop" => "leaked" \in trouble

\* When the IoPausedGuard is dropped the scheduler is started again (scheduler.rs).  It
\* fails when the loops cannot be started then: the state stays paused, with no guard left
\* to resume it, and starting I/O only sets its flag.
NeverStuckPaused == sched.st = "paused" => Guards # {}

\* The scheduler is restarted only if it is running (scheduler.rs).  It fails when the
\* user stops I/O between the steps of a restart.
StoppedStays ==
    Guards = {} /\ restarting = "idle" /\ "unstarted" \notin trouble /\ sched.st = "started" => wish

\* The cancel token releases the ongoing mutex when dropped (context.rs).  It fails when
\* preparing an offer fails or the future of an import is dropped.
TokenReleases == ongoing.st = "stopped" \/ jobs[ongoing.by].at \notin {"ended", "idle"}

\* stop_background_fetch interrupts the ongoing fetch (accounts.rs).  It fails for a fetch
\* begun while a stopped one was ending, which clears the newer one's slot.
FetchStoppable ==
    \A j \in Jobs : jobs[j].kind = "fetch" /\ jobs[j].at # "ended" /\ ~jobs[j].stop => slot = j

\* background_fetch does a round of fetching (context.rs).  It fails when a round was under
\* way: the loop looks idle before it has seen the interrupt.
RoundFetched == \A j \in Jobs : jobs[j].kind = "fetch" /\ jobs[j].at = "fetched" =>
            jobs[j].saw \in {"done", "failed"}

\* Starting, pausing and stopping work as asked: paused means a guard is held, running is what
\* was asked for last, one process at a time is ongoing, and an idle fetch loop missed no wish.
IoSafe == IoTypeOK /\ PausedByGuards /\ AsLastAsked /\ OneOngoing /\ FetchedSince
=============================================================================
