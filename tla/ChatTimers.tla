------------------------------ MODULE ChatTimers -----------------------------
(***************************************************************************)
(* The disappearing-message timer of a conversation: eeemail's default for *)
(* a conversation first written to (email/receipts.rs), core's timer and   *)
(* its changes (ephemeral.rs), and how the other side takes them over from *)
(* a header of every message (receive_imf.rs).  Two users write to each    *)
(* other; mails overtake each other; a user's own calls overlap.           *)
(***************************************************************************)
EXTENDS Integers, Sequences, SequencesExt, FiniteSets

CONSTANTS
    TimerUsers,     \* the two users
    Durations,      \* timers that can be chosen; 0 is Disabled
    TimerCalls,     \* user -> the calls it may have under way at once
    DefaultsOf,     \* possible settings: user -> [global, override]
    MaxMails,
    MaxWipes

ASSUME /\ Cardinality(TimerUsers) = 2 /\ 0 \in Durations /\ Durations \subseteq Nat
       /\ MaxMails \in Nat /\ MaxWipes \in Nat

Disabled == 0
NoOverride == -1
NoMid == 0
Resting == [at |-> "idle", sys |-> FALSE, mid |-> NoMid, prev |-> NoMid, was |-> Disabled]

VARIABLES
    defaults,   \* user -> the settings for new conversations
    timer,      \* user -> chats.ephemeral_timer
    stamp,      \* user -> EphemeralSettingsTimestamp
    rows,       \* user -> the messages of the chat: mid (also the second it was sent), timer, own, sys
    timerCalls,      \* user -> call -> what it is doing
    mails,      \* mails in flight
    count,      \* mails written
    chosen,     \* history: the timer last chosen by hand
    unwritten,  \* history: somebody had not written anything when it was chosen
    crossed,    \* history: changes overlapped in a way the rollback check cannot tell
    odd,        \* history: mails whose timer changed between storing and rendering them
    wipes       \* how often own messages may still be deleted

timerVars == <<defaults, timer, stamp, rows, timerCalls, mails, count, chosen, unwritten, crossed, odd, wipes>>

Peer(u) == CHOOSE v \in TimerUsers : v # u

-----------------------------------------------------------------------------
(* The default                                                             *)

\* shorter: Disabled is the longest of all.
Shorter(a, b) == IF a = Disabled THEN b ELSE IF b = Disabled THEN a ELSE IF a < b THEN a ELSE b

\* effective_default_timer, for the one correspondent of the chat
EffectiveDefault(u) ==
    IF defaults[u].override = NoOverride THEN defaults[u].global
    ELSE Shorter(defaults[u].global, defaults[u].override)

Own(u) == {i \in DOMAIN rows[u] : rows[u][i].own}

\* Nothing of one's own stands before the message being sent.
IsNew(u, mid) == \A i \in Own(u) : rows[u][i].mid >= mid

-----------------------------------------------------------------------------
(* Writing                                                                 *)

Busy(u) == {c \in TimerCalls[u] : timerCalls[u][c].at # "idle"}
Underway == mails # {} \/ \E u \in TimerUsers : Busy(u) # {}
OthersUnderway(u, c) == mails # {} \/ Busy(Peer(u)) # {} \/ Busy(u) \ {c} # {}
Unread(u) == Busy(Peer(u)) # {} \/ \E m \in mails : m.to = u

\* parent_query: the last message of the chat
ParentOf(u) ==
    IF rows[u] = << >> THEN NoMid
    ELSE CHOOSE mid \in {r.mid : r \in Range(rows[u])} : \A r \in Range(rows[u]) : r.mid <= mid

TimerRow(u, mid) == {r \in Range(rows[u]) : r.mid = mid}

\* set_ephemeral_timer sets the timer and then announces it.
SetTimer(u, c, t) ==
    /\ timerCalls[u][c].at = "idle" /\ t # timer[u] /\ count < MaxMails
    /\ timer' = [timer EXCEPT ![u] = t]
    /\ timerCalls' = [timerCalls EXCEPT ![u][c] = [Resting EXCEPT !.at = "prepare", !.sys = TRUE]]
    /\ chosen' = t /\ unwritten' = (\E v \in TimerUsers : Own(v) = {})
    /\ crossed' = (crossed \/ Underway)
    /\ UNCHANGED <<defaults, stamp, rows, mails, count, odd, wipes>>

\* prepare_msg_raw stores the message with the chat's timer and looks up its parent ...
StoreOwn(u, c) ==
    /\ timerCalls[u][c].at \in {"idle", "prepare"} /\ count < MaxMails
    /\ count' = count + 1
    /\ LET sys == timerCalls[u][c].sys
           parent == ParentOf(u)
       IN  /\ rows' = [rows EXCEPT ![u] = Append(@, [mid |-> count', own |-> TRUE, sys |-> sys,
                                                     timer |-> IF sys THEN Disabled ELSE timer[u]])]
           /\ timerCalls' = [timerCalls EXCEPT ![u][c].at = "decide", ![u][c].mid = count', ![u][c].prev = parent,
                                     ![u][c].was = timer[u]]
           /\ crossed' = (crossed \/ (\E d \in Busy(u) \ {c} : timerCalls[u][d].sys)
                                  \/ (Unread(u) /\ \A r \in TimerRow(u, parent) : r.sys \/ r.mid \in odd))
    /\ UNCHANGED <<defaults, timer, stamp, mails, chosen, unwritten, odd, wipes>>

\* ... apply_default_timer looks whether the conversation is new ...
DecideDefault(u, c) ==
    /\ timerCalls[u][c].at = "decide"
    /\ timerCalls' = [timerCalls EXCEPT ![u][c].at =
           IF timer[u] = Disabled /\ EffectiveDefault(u) # Disabled /\ IsNew(u, timerCalls[u][c].mid)
           THEN "apply" ELSE "render"]
    /\ UNCHANGED <<defaults, timer, stamp, rows, mails, count, chosen, unwritten, crossed, odd, wipes>>

\* ... and sets its timer ...
ApplyDefault(u, c) ==
    /\ timerCalls[u][c].at = "apply"
    /\ timer' = [timer EXCEPT ![u] = EffectiveDefault(u)]
    /\ crossed' = (crossed \/ OthersUnderway(u, c))
    /\ timerCalls' = [timerCalls EXCEPT ![u][c].at = "render"]
    /\ UNCHANGED <<defaults, stamp, rows, mails, count, chosen, unwritten, odd, wipes>>

\* ... and the mail is rendered with the timer the chat then has.
RenderMail(u, c) ==
    /\ timerCalls[u][c].at = "render"
    /\ mails' = mails \cup {[to |-> Peer(u), mid |-> timerCalls[u][c].mid, prev |-> timerCalls[u][c].prev,
                             sys |-> timerCalls[u][c].sys, timer |-> timer[u]]}
    /\ odd' = IF timer[u] = timerCalls[u][c].was THEN odd ELSE odd \cup {timerCalls[u][c].mid}
    /\ timerCalls' = [timerCalls EXCEPT ![u][c] = Resting]
    /\ UNCHANGED <<defaults, timer, stamp, rows, count, chosen, unwritten, crossed, wipes>>

-----------------------------------------------------------------------------
(* Receiving                                                               *)

\* The sender has seen no change since the message it refers to.
IsStale(u, m) == ~m.sys /\ \E r \in TimerRow(u, m.prev) : r.timer = m.timer

\* The row add_parts stores; the announcement of a change does not disappear itself.
ReceivedRow(u, m) ==
    [mid |-> m.mid, own |-> FALSE, sys |-> m.sys, timer |-> IF m.sys THEN Disabled ELSE m.timer]

ReceiveMail(u, m) ==
    /\ m \in mails /\ m.to = u
    /\ mails' = mails \ {m}
    /\ LET take == timer[u] # m.timer /\ ~IsStale(u, m) /\ m.mid >= stamp[u] IN
       /\ timer' = [timer EXCEPT ![u] = IF take THEN m.timer ELSE @]
       /\ stamp' = [stamp EXCEPT ![u] = IF take THEN m.mid ELSE @]
    /\ rows' = [rows EXCEPT ![u] = Append(@, ReceivedRow(u, m))]
    /\ UNCHANGED <<defaults, timerCalls, count, chosen, unwritten, crossed, odd, wipes>>

\* The user deletes what they have written.
DeleteOwn(u) ==
    /\ wipes > 0 /\ Own(u) # {} /\ Busy(u) = {}
    /\ wipes' = wipes - 1
    /\ rows' = [rows EXCEPT ![u] = SelectSeq(@, LAMBDA r : ~r.own)]
    /\ UNCHANGED <<defaults, timer, stamp, timerCalls, mails, count, chosen, unwritten, crossed, odd>>

-----------------------------------------------------------------------------

TimersInit ==
    /\ defaults \in DefaultsOf
    /\ timer = [u \in TimerUsers |-> Disabled] /\ stamp = [u \in TimerUsers |-> 0]
    /\ rows = [u \in TimerUsers |-> << >>]
    /\ timerCalls = [u \in TimerUsers |-> [c \in TimerCalls[u] |-> Resting]]
    /\ mails = {} /\ count = 0 /\ chosen = NoOverride /\ unwritten = FALSE /\ crossed = FALSE /\ odd = {}
    /\ wipes = MaxWipes

TimersNext ==
    \E u \in TimerUsers :
        \/ DeleteOwn(u)
        \/ \E m \in mails : ReceiveMail(u, m)
        \/ \E c \in TimerCalls[u] :
              \/ \E t \in Durations : SetTimer(u, c, t)
              \/ StoreOwn(u, c) \/ DecideDefault(u, c) \/ ApplyDefault(u, c)
              \/ RenderMail(u, c)

TimersSpec == TimersInit /\ [][TimersNext]_timerVars

-----------------------------------------------------------------------------
(* Properties                                                              *)

TimersTypeOK ==
    /\ \A u \in TimerUsers : timer[u] \in Nat /\ stamp[u] \in 0..MaxMails
    /\ mails \subseteq [to : TimerUsers, mid : 1..MaxMails, prev : 0..MaxMails, sys : BOOLEAN, timer : Nat]

\* When all mail has arrived both sides have the same timer: a default reaches the other
\* side with the message, and a message written before a change was seen, and arriving
\* after it, does not roll the change back.
TimersAgree == ~Underway /\ ~crossed /\ wipes = MaxWipes => \A u, v \in TimerUsers : timer[u] = timer[v]

\* Both copies of a message disappear after the same time.
CopiesAgree ==
    \A u, v \in TimerUsers : \A r \in Range(rows[u]), s \in Range(rows[v]) :
        r.mid = s.mid /\ r.mid \notin odd => r.timer = s.timer

\* Once both have written something, a timer turned off stays off until somebody turns it on.
OffSticks ==
    chosen = Disabled /\ ~unwritten /\ ~crossed /\ ~Underway /\ wipes = MaxWipes =>
        \A u \in TimerUsers : timer[u] = Disabled

\* With the default for a lawyer shorter than the general one, a conversation started by
\* the default never keeps mail longer.
ShortestDefault ==
    \A u \in TimerUsers : chosen = NoOverride /\ timer[u] # Disabled =>
        \E v \in TimerUsers :
            LET set == {defaults[v].global, defaults[v].override} \ {NoOverride, Disabled}
            IN  set # {} /\ \A t \in set : timer[u] <= t

\* Turning the timer off sticks (email/receipts.rs, ADR 0011).  It fails in a conversation
\* the user has not written to: the announcement is the first message, and puts the
\* default back.
OffAlwaysSticks == chosen = Disabled /\ ~crossed /\ ~Underway => \A u \in TimerUsers : timer[u] = Disabled

\* The first message of a conversation disappears like the others (email/receipts.rs).  It
\* fails for the sender's own copy, stored before the default was applied.
FirstDisappearsToo ==
    crossed \/ \A u, v \in TimerUsers : \A r \in Range(rows[u]), s \in Range(rows[v]) :
        r.mid = s.mid => r.timer = s.timer

\* A message whose sender had not seen a change does not roll it back (receive_imf.rs).  It
\* fails when the message refers to the announcement of an earlier change, or to the first
\* message, stored before the default was applied: both rows have no timer.
NoRollback ==
    [][\A u \in TimerUsers : \A m \in mails :
          ReceiveMail(u, m) /\ timer'[u] # timer[u] /\ ~m.sys =>
              \/ m.prev = NoMid
              \/ \A r \in Range(rows[u]) : r.own /\ r.sys => r.mid <= m.prev]_timerVars

\* Once their mails have arrived, both users agree about the timer, and a timer that was
\* turned off stays off.
TimersSafe == TimersTypeOK /\ TimersAgree /\ CopiesAgree /\ OffSticks /\ ShortestDefault
=============================================================================
