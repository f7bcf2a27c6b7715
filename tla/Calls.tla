-------------------------------- MODULE Calls --------------------------------
(***************************************************************************)
(* One call (calls.rs) between the devices of two users: ringing with a    *)
(* timeout on each device, accepting, declining, cancelling and hanging    *)
(* up, by messages that every other device receives.  On a device the user,*)
(* the timer and the receive loop each load the call, change its           *)
(* parameters and write them back as a whole.                              *)
(***************************************************************************)
EXTENDS Integers, Sequences, FiniteSets

CONSTANTS
    CallDevices,    \* all devices
    UserOf,         \* device -> "caller" or "callee"
    CallerDevice,   \* the one that places the call
    RingSeconds,    \* RINGING_SECONDS
    CallBudgets     \* [acts, deaths] of a run, and whether it is safe from deaths

ASSUME CallsAssumption == CallerDevice \in CallDevices /\ UserOf[CallerDevice] = "caller" /\ RingSeconds \in Nat \ {0}

Sides == {"caller", "callee"}
CallActors == {"user", "timer", "loop"}
NoCallRow == [here |-> FALSE, acc |-> FALSE, end |-> FALSE, canc |-> FALSE, text |-> "none"]
NotDoing == [what |-> "none", seen |-> NoCallRow]

VARIABLES
    callLeft,   \* of the budget
    second,     \* time() since the call was placed
    row,        \* device -> the call message
    alarm,      \* device -> emit_end_call_if_unaccepted is waiting
    ringing,    \* device -> an IncomingCall event was not followed by one that ends ringing
    doing,      \* device -> actor -> what it is about to write, from what it loaded
    inbox,      \* side -> messages in the mailbox of that side, in order
    seen,       \* device -> how many of them it has received
    raced,      \* history: somebody wrote over a change it had not seen
    late,       \* history: a call was accepted after it stopped ringing
    ended       \* history: somebody ended the call

callVars == <<callLeft, second, row, alarm, ringing, doing, inbox, seen, raced, late, ended>>

Incoming(d) == UserOf[d] = "callee"
Over == second >= RingSeconds

\* call_state
CallState(d) ==
    IF row[d].acc THEN (IF row[d].end THEN "Completed" ELSE "Active")
    ELSE IF row[d].canc THEN (IF Incoming(d) THEN "Missed" ELSE "Canceled")
    ELSE IF row[d].end THEN "Declined"
    ELSE IF Over THEN (IF Incoming(d) THEN "Missed" ELSE "Declined")
    ELSE "Alerting"

\* A message goes to both mailboxes; a device that is alone has no need of a copy.
SendAll(d, kind) ==
    inbox' = [u \in Sides |-> IF \E o \in CallDevices \ {d} : UserOf[o] = u
                              THEN Append(inbox[u], [kind |-> kind, by |-> d]) ELSE inbox[u]]

-----------------------------------------------------------------------------

\* place_outgoing_call
Place ==
    /\ ~row[CallerDevice].here
    /\ row' = [row EXCEPT ![CallerDevice] = [NoCallRow EXCEPT !.here = TRUE, !.text = "outgoing"]]
    /\ alarm' = [alarm EXCEPT ![CallerDevice] = TRUE]
    /\ SendAll(CallerDevice, "call")
    /\ UNCHANGED <<callLeft, second, ringing, doing, seen, raced, late, ended>>

Loads(d, who, what) == doing' = [doing EXCEPT ![d][who] = [what |-> what, seen |-> row[d]]]
SpendCall(k) == callLeft[k] > 0 /\ callLeft' = [callLeft EXCEPT ![k] = @ - 1]

\* accept_incoming_call and end_call, until the parameters are written
UserLoads(d, what) ==
    /\ row[d].here /\ doing[d]["user"].what = "none" /\ SpendCall("acts")
    /\ ~row[d].end /\ (what = "accept" => Incoming(d) /\ ~row[d].acc)
    /\ Loads(d, "user", what)
    /\ UNCHANGED <<second, row, alarm, ringing, inbox, seen, raced, late, ended>>

BugTimerLoads(d) ==
    /\ alarm[d] /\ Over
    /\ alarm' = [alarm EXCEPT ![d] = FALSE]
    /\ IF row[d].end THEN UNCHANGED doing ELSE Loads(d, "timer", "timeout")
    /\ UNCHANGED <<callLeft, second, row, ringing, inbox, seen, raced, late, ended>>

\* emit_end_call_if_unaccepted
TimerLoads(d) ==
    /\ alarm[d] /\ Over
    /\ alarm' = [alarm EXCEPT ![d] = FALSE]
    /\ IF row[d].acc \/ row[d].end THEN UNCHANGED doing ELSE Loads(d, "timer", "timeout")
    /\ UNCHANGED <<callLeft, second, row, ringing, inbox, seen, raced, late, ended>>

\* handle_call_msg for a call: a device of the caller's has no timer.
ReceiveCall(d) ==
    /\ row' = [row EXCEPT ![d] = [NoCallRow EXCEPT !.here = TRUE, !.text = IF ~Incoming(d) THEN "outgoing" ELSE IF Over THEN "missed" ELSE "incoming"]]
    /\ alarm' = [alarm EXCEPT ![d] = Incoming(d) /\ ~Over]
    /\ ringing' = [ringing EXCEPT ![d] = Incoming(d) /\ ~Over]

\* receive_imf for the next message; those of the device itself are known to it.
Receives(d) ==
    /\ seen[d] < Len(inbox[UserOf[d]]) /\ doing[d]["loop"].what = "none"
    /\ seen' = [seen EXCEPT ![d] = @ + 1]
    /\ LET m == inbox[UserOf[d]][seen[d] + 1] IN
       IF m.by = d \/ (m.kind # "call" /\ ~row[d].here) \/ (m.kind # "call" /\ row[d].end) \/ (m.kind = "accepted" /\ row[d].acc)
       THEN UNCHANGED <<row, alarm, ringing, doing>>
       ELSE IF m.kind = "call" THEN ReceiveCall(d) /\ UNCHANGED doing
       ELSE /\ Loads(d, "loop", IF m.kind = "accepted" THEN "accepted" ELSE IF UserOf[m.by] = UserOf[d] THEN "ended by self" ELSE "ended by peer")
            /\ UNCHANGED <<row, alarm, ringing>>
    /\ UNCHANGED <<callLeft, second, inbox, raced, late, ended>>

\* What is written to the message: mark_as_accepted, mark_as_ended or mark_as_canceled, and
\* the text.
Written(d, what, c) ==
    LET canceled == [c EXCEPT !.end = TRUE, !.canc = TRUE]
        over == [c EXCEPT !.end = TRUE]
    IN  CASE what \in {"accept", "accepted"} -> [c EXCEPT !.acc = TRUE]
          [] what = "timeout" /\ Incoming(d) -> [canceled EXCEPT !.text = "missed"]
          [] what = "timeout" /\ ~Incoming(d) -> [over EXCEPT !.text = "canceled"]
          [] what \notin {"accept", "accepted", "timeout"} /\ c.acc -> [over EXCEPT !.text = "duration"]
          [] what \in {"end", "ended by self"} /\ ~c.acc ->
                 IF Incoming(d) THEN [over EXCEPT !.text = "declined"] ELSE [canceled EXCEPT !.text = "canceled"]
          [] OTHER -> IF Incoming(d) THEN [canceled EXCEPT !.text = "missed"] ELSE [over EXCEPT !.text = "declined"]

\* The parameters are written as a whole; the user's decision is told to everybody, and
\* each of the events ends ringing.
Writes(d, who) ==
    LET t == doing[d][who] IN
    /\ t.what # "none"
    /\ row' = [row EXCEPT ![d] = Written(d, t.what, t.seen)]
    /\ raced' = (raced \/ row[d] # t.seen)
    /\ doing' = [doing EXCEPT ![d][who] = NotDoing]
    /\ ringing' = [ringing EXCEPT ![d] = FALSE]
    /\ IF who = "user" THEN SendAll(d, IF t.what = "accept" THEN "accepted" ELSE "ended") ELSE UNCHANGED inbox
    /\ late' = (late \/ (t.what = "accept" /\ Over))
    /\ ended' = (ended \/ t.what = "end")
    /\ UNCHANGED <<callLeft, second, alarm, seen>>

-----------------------------------------------------------------------------

CallTick ==
    /\ row[CallerDevice].here /\ second <= RingSeconds /\ second' = second + 1
    /\ UNCHANGED <<callLeft, row, alarm, ringing, doing, inbox, seen, raced, late, ended>>

\* The process dies: timers are gone, nothing rings, and a message that was being handled is
\* fetched again.
CallDeath(d) ==
    /\ SpendCall("deaths")
    /\ alarm' = [alarm EXCEPT ![d] = FALSE] /\ ringing' = [ringing EXCEPT ![d] = FALSE]
    /\ doing' = [doing EXCEPT ![d] = [w \in CallActors |-> NotDoing]]
    /\ seen' = [seen EXCEPT ![d] = IF doing[d]["loop"].what = "none" THEN @ ELSE @ - 1]
    /\ UNCHANGED <<second, row, inbox, raced, late, ended>>

CallsInit ==
    /\ callLeft \in CallBudgets /\ second = 0
    /\ row = [d \in CallDevices |-> NoCallRow] /\ alarm = [d \in CallDevices |-> FALSE] /\ ringing = [d \in CallDevices |-> FALSE]
    /\ doing = [d \in CallDevices |-> [w \in CallActors |-> NotDoing]]
    /\ inbox = [u \in Sides |-> << >>]
    /\ seen = [d \in CallDevices |-> 0] /\ raced = FALSE /\ late = FALSE /\ ended = FALSE

CallsNext ==
    \/ Place \/ CallTick
    \/ \E d \in CallDevices :
          \/ UserLoads(d, "accept") \/ UserLoads(d, "end") \/ TimerLoads(d) \/ Receives(d) \/ CallDeath(d)
          \/ \E w \in CallActors : Writes(d, w)

CallsSpec == CallsInit /\ [][CallsNext]_callVars

-----------------------------------------------------------------------------
(* Properties                                                              *)

Texts == {"none", "incoming", "outgoing", "missed", "declined", "canceled", "duration"}
CallsTypeOK ==
    /\ \A d \in CallDevices : row[d].text \in Texts /\ seen[d] \in 0..Len(inbox[UserOf[d]]) /\ (row[d].canc => row[d].end)
    /\ second \in 0..(RingSeconds + 1)

Delivered ==
    \A d \in CallDevices : seen[d] = Len(inbox[UserOf[d]]) /\ \A w \in CallActors : doing[d][w].what = "none"

\* When somebody has ended the call and everybody has heard, no device shows it as going on.
OverForAll == Delivered /\ ended /\ ~raced => \A d \in CallDevices : row[d].here => CallState(d) \notin {"Active", "Alerting"}

\* What the message says is what the call is, on every device of the callee, unless the
\* device died while it rang or the call was accepted after it stopped ringing.  A device
\* that hears of the call late may say missed while another one is talking.
TextAgrees ==
    Delivered /\ ~raced /\ ~late /\ callLeft.safe =>
        \A d \in CallDevices : row[d].here /\ Incoming(d) /\ ~alarm[d] =>
            CASE CallState(d) = "Missed" -> row[d].text = "missed"
              [] CallState(d) = "Declined" -> row[d].text = "declined"
              [] CallState(d) = "Completed" -> row[d].text = "duration"
              [] CallState(d) = "Active" -> row[d].text \in {"incoming", "missed"}
              [] OTHER -> row[d].text = "incoming"

\* "to prevent accepted calls being terminated as stale": the timer leaves an accepted call
\* alone, unless it had loaded it before.
AcceptedNotTimedOut ==
    [][\A d \in CallDevices : row[d].acc /\ doing[d]["timer"].what = "timeout" /\ doing'[d]["timer"].what = "none" => raced' \/ row'[d] = row[d]]_callVars

\* No device rings for ever: while it does, its timer is waiting or somebody is about to
\* write that ringing is over.
RingStops == \A d \in CallDevices : ringing[d] => alarm[d] \/ \E w \in CallActors : doing[d][w].what # "none"

\* "as the callee won't start the call afterwards".  It fails: a call that was missed can
\* still be accepted.
CalleeNotLate == ~late

\* What the message says is what the call is, for the caller.  It fails: a call nobody took
\* is shown as declined, and its text says it was canceled.
CallerTextAgrees ==
    Delivered /\ ~raced =>
        \A d \in CallDevices : row[d].here /\ ~Incoming(d) /\ row[d].end =>
            CASE CallState(d) = "Declined" -> row[d].text = "declined"
              [] CallState(d) = "Canceled" -> row[d].text = "canceled"
              [] OTHER -> row[d].text = "duration"

\* Nobody is left talking to a caller who gave up.  It fails when the answer comes in after
\* the caller's timeout.
NoGhosts == Delivered /\ ~raced /\ ~late => \A d \in CallDevices : CallState(d) = "Active" => CallState(CallerDevice) \in {"Active", "Alerting"}

\* An accepted call is not ended by a timer: it fails when the timer had loaded it before.
NeverTimedOut == [][\A d \in CallDevices : row[d].acc => row'[d].acc]_callVars

\* A call that is over is over for all, is described alike, and does not ring on.
CallsSafe == CallsTypeOK /\ OverForAll /\ TextAgrees /\ RingStops
=============================================================================
