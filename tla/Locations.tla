----------------------------- MODULE Locations ------------------------------
(***************************************************************************)
(* Location streaming and points of interest (core/src/location.rs): the   *)
(* user streams the device's path into chats for some time, the location   *)
(* loop sends what is pending at most once per gap, every mail of a chat   *)
(* takes the pending locations along, and a receiver who is in all the     *)
(* chats saves what arrives.  A location is known by the second it was     *)
(* recorded in: get_kml() groups by it.                                    *)
(***************************************************************************)
EXTENDS Integers, Sequences, FiniteSets

CONSTANTS StreamChats,  \* chats the path may be streamed into
          Gap,          \* seconds between two location-only messages (60 in the code)
          LastTick,     \* bound: the clock shows 1..LastTick
          LocBudgets    \* how often a behaviour may do each thing

ASSUME LocAssumption == Gap \in Nat \ {0} /\ LastTick \in Nat \ {0} /\ IsFiniteSet(StreamChats)

VARIABLES tick,      \* time()
          stream,    \* chats.locations_send_begin, _until and _last_sent
          path,      \* the device's own rows of locations, independent=0
          looper,    \* the location loop: where it is, when it wakes, what it still handles
          rung,      \* an interrupt waits in the loop's channel
          user,      \* the call of the user under way
          mailsOut,     \* the mails on their way: chat and placemarks
          arrived,   \* the receiver's rows of locations, in order of their ids
          windows,   \* the spans of time the user asked for
          posts,     \* the messages with a point of interest, and whether its row exists
          spent,     \* what is left of the budgets
          mixed      \* which excused events have happened

locVars == <<tick, stream, path, looper, rung, user, mailsOut, arrived, windows, posts, spent, mixed>>

NoUser == [at |-> "idle", chat |-> "", on |-> FALSE]
Off == [begin |-> 0, until |-> 0, last |-> 0]
Forever == LastTick + Gap + 10
MaxOf(S) == CHOOSE x \in S : \A y \in S : y <= x
MinOf(S) == CHOOSE x \in S : \A y \in S : x <= y

LocInit ==
  /\ tick = 1
  /\ stream = [c \in StreamChats |-> Off]
  /\ path = {}
  /\ looper = [at |-> "sleep", wake |-> Forever, now |-> 1, rest |-> <<>>, next |-> Forever, lag |-> 0]
  /\ rung = FALSE
  /\ user = NoUser
  /\ mailsOut = <<>>
  /\ arrived = <<>>
  /\ windows = {}
  /\ posts = <<>>
  /\ spent \in LocBudgets
  /\ mixed = {}

Pays(what) == spent[what] > 0 /\ spent' = [spent EXCEPT ![what] = @ - 1]
IsSendingToChat(c) == stream[c].until > tick

-----------------------------------------------------------------------------
(* get_kml(): every own location since the streaming into the chat began that was not sent yet,
   and the newest in any case. *)
Recorded == {r.ts : r \in path}
BugOnlyNewest(c) == {t \in Recorded : t >= stream[c].begin /\ t = MaxOf(Recorded)}
GetKml(c) == {t \in Recorded : t >= stream[c].begin /\ (t > stream[c].last \/ t = MaxOf(Recorded))}

(* A mail of the chat takes them along; the newest one is remembered as sent.  Mails without
   locations are left out. *)
SentUpTo(c, K) == [stream EXCEPT ![c].last = MaxOf(K)]
MailsIn(c) ==
  LET K == IF IsSendingToChat(c) THEN GetKml(c) ELSE {} IN
  /\ mailsOut' = IF K = {} THEN mailsOut ELSE Append(mailsOut, [chat |-> c, locs |-> K])
  /\ stream' = IF K = {} THEN stream ELSE SentUpTo(c, K)

(* Any message the user sends. *)
SendAny(c) ==
  /\ Pays("mails") /\ IsSendingToChat(c)
  /\ MailsIn(c)
  /\ UNCHANGED <<tick, path, looper, rung, user, arrived, windows, posts, mixed>>

-----------------------------------------------------------------------------
(* send_to_chat(): the chat's row, then the message or the info message, then the interrupt. *)
ClosedWindows(c) == {IF w.chat = c /\ w.to > tick THEN [w EXCEPT !.to = tick + 1] ELSE w : w \in windows}

SendToChat(c, seconds) ==
  /\ Pays("calls") /\ user.at = "idle"
  /\ stream' = [stream EXCEPT ![c].begin = IF seconds = 0 THEN 0 ELSE tick,
                              ![c].until = IF seconds = 0 THEN 0 ELSE tick + seconds]
  /\ windows' = IF seconds = 0 THEN ClosedWindows(c)
                ELSE ClosedWindows(c) \cup {[chat |-> c, from |-> tick, to |-> tick + seconds]}
  /\ user' = [at |-> IF seconds # 0 /\ ~IsSendingToChat(c) THEN "announce"
                     ELSE IF seconds # 0 THEN "ring" ELSE "idle",
              chat |-> c, on |-> seconds # 0]
  /\ UNCHANGED <<tick, path, looper, rung, mailsOut, arrived, posts, mixed>>
Announce ==
  /\ user.at = "announce"
  /\ MailsIn(user.chat)
  /\ user' = [user EXCEPT !.at = "ring"]
  /\ UNCHANGED <<tick, path, looper, rung, arrived, windows, posts, spent, mixed>>
Ring ==
  /\ user.at = "ring"
  /\ rung' = TRUE
  /\ user' = NoUser
  /\ UNCHANGED <<tick, stream, path, looper, mailsOut, arrived, windows, posts, spent, mixed>>

(* stop_sending() of every chat that streams. *)
StopSending ==
  /\ Pays("calls") /\ user.at = "idle"
  /\ \E c \in StreamChats : IsSendingToChat(c)
  /\ stream' = [c \in StreamChats |-> IF IsSendingToChat(c) THEN [stream[c] EXCEPT !.begin = 0, !.until = 0]
                                      ELSE stream[c]]
  /\ windows' = {IF w.to > tick THEN [w EXCEPT !.to = tick + 1] ELSE w : w \in windows}
  /\ UNCHANGED <<tick, path, looper, rung, user, mailsOut, arrived, posts, mixed>>

(* set(): the position is stored for every chat that streams, and the loop interrupted. *)
AfterSet(stored) == IF stored THEN "ring" ELSE "idle"
SetPosition ==
  /\ Pays("sets") /\ user.at = "idle"
  /\ LET C == {c \in StreamChats : IsSendingToChat(c)} IN
       /\ path' = path \cup {[ts |-> tick, chat |-> c] : c \in C}
       /\ user' = [NoUser EXCEPT !.at = AfterSet(C # {})]
  /\ UNCHANGED <<tick, stream, looper, rung, mailsOut, arrived, windows, posts, mixed>>

-----------------------------------------------------------------------------
(* The location loop. *)

Wakes ==
  /\ looper.at = "sleep"
  /\ rung \/ tick >= looper.wake
  /\ rung' = (IF rung THEN FALSE ELSE rung)
  /\ LET C == {c \in StreamChats : stream[c].until > 0} IN
     \E s \in {f \in [1..Cardinality(C) -> C] : \A c \in C : \E i \in DOMAIN f : f[i] = c} :
       looper' = [looper EXCEPT !.at = "run", !.now = tick, !.next = Forever,
                    !.rest = [i \in DOMAIN s |-> [chat |-> s[i], begin |-> stream[s[i]].begin,
                                                  until |-> stream[s[i]].until, last |-> stream[s[i]].last]]]
  /\ UNCHANGED <<tick, stream, path, user, mailsOut, arrived, windows, posts, spent, mixed>>

Current == Head(looper.rest)
Streaming == looper.rest # <<>> /\ Current.begin > 0 /\ Current.until > looper.now
CanSend == looper.now > Current.last + Gap
HasLocations == \E t \in Recorded : t >= Current.begin /\ t > Current.last
NextChat(next) == looper' = [looper EXCEPT !.rest = Tail(@), !.next = MinOf({looper.next, next})]

MaybeSend ==
  /\ looper.at = "run" /\ Streaming /\ HasLocations /\ CanSend
  /\ MailsIn(Current.chat)
  /\ NextChat(Current.until)
  /\ UNCHANGED <<tick, path, rung, user, arrived, windows, posts, spent, mixed>>

(* Sending fails: the round ends, the chats behind are left for the next one. *)
SendingFails ==
  /\ looper.at = "run" /\ Streaming /\ HasLocations /\ CanSend
  /\ Pays("fails")
  /\ looper' = [looper EXCEPT !.at = "sleep", !.wake = tick + Gap, !.rest = <<>>]
  /\ mixed' = mixed \cup {"failed"}
  /\ UNCHANGED <<tick, stream, path, rung, user, mailsOut, arrived, windows, posts>>

Waits == IF HasLocations THEN MinOf({Current.until, Current.last + Gap + 1}) ELSE Current.until
SkipChat ==
  /\ looper.at = "run" /\ Streaming /\ ~(HasLocations /\ CanSend)
  /\ NextChat(Waits)
  /\ UNCHANGED <<tick, stream, path, rung, user, mailsOut, arrived, windows, posts, spent, mixed>>

(* The streaming ended: the row is reset whatever it says by now. *)
Ends == stream' = [stream EXCEPT ![Current.chat].begin = 0, ![Current.chat].until = 0]
Disable ==
  /\ looper.at = "run" /\ looper.rest # <<>> /\ ~Streaming
  /\ Ends
  /\ looper' = [looper EXCEPT !.rest = Tail(@)]
  /\ mixed' = IF stream[Current.chat].until > looper.now THEN mixed \cup {"cut"} ELSE mixed
  /\ UNCHANGED <<tick, path, rung, user, mailsOut, arrived, windows, posts, spent>>

Sleeps ==
  /\ looper.at = "run" /\ looper.rest = <<>>
  /\ looper' = [looper EXCEPT !.at = "sleep", !.lag = tick - looper.now,
                               !.wake = IF looper.next = Forever THEN Forever
                                        ELSE tick + (looper.next - looper.now)]
  /\ UNCHANGED <<tick, stream, path, rung, user, mailsOut, arrived, windows, posts, spent, mixed>>

-----------------------------------------------------------------------------
(* The receiver: a placemark of the future is set to now; a path location whose second and sender
   are already known is not stored again. *)
Parse(locs) == {IF t > tick THEN tick ELSE t : t \in locs}
Already(t) == \E i \in DOMAIN arrived : arrived[i].ts = t
InTimeOrder(T) == CHOOSE f \in [1..Cardinality(T) -> T] : \A i, j \in DOMAIN f : i < j => f[i] < f[j]
SaveAll(c, T) == arrived \o [i \in 1..Cardinality(T) |-> [ts |-> InTimeOrder(T)[i], chat |-> c]]

ReceiveKml(i) ==
  /\ LET T == {t \in Parse(mailsOut[i].locs) : ~Already(t)} IN arrived' = SaveAll(mailsOut[i].chat, T)
  /\ mailsOut' = SubSeq(mailsOut, 1, i - 1) \o SubSeq(mailsOut, i + 1, Len(mailsOut))
  /\ UNCHANGED <<tick, stream, path, looper, rung, user, windows, posts, spent, mixed>>

-----------------------------------------------------------------------------
(* Points of interest: prepare_msg_raw() stores the location, then the message that names it;
   save_locations() of a received one stores the location, then links it.  "posts" tells for each
   whether the location row exists and how far the message is. *)
NewPoi ==
  /\ Pays("posts")
  /\ posts' = Append(posts, [row |-> TRUE, msg |-> "unlinked"])
  /\ UNCHANGED <<tick, stream, path, looper, rung, user, mailsOut, arrived, windows, mixed>>
LinkPoi(i) ==
  /\ posts[i].msg = "unlinked"
  /\ posts' = [posts EXCEPT ![i].msg = "shown"]
  /\ UNCHANGED <<tick, stream, path, looper, rung, user, mailsOut, arrived, windows, spent, mixed>>
(* delete_msg_locally(): the point first, then the message. *)
DeletePoi(i) ==
  /\ posts[i].msg = "shown" /\ Pays("deletes")
  /\ posts' = [posts EXCEPT ![i] = [row |-> FALSE, msg |-> "deleting"]]
  /\ UNCHANGED <<tick, stream, path, looper, rung, user, mailsOut, arrived, windows, mixed>>
TrashPost(i) ==
  /\ posts[i].msg = "deleting"
  /\ posts' = [posts EXCEPT ![i].msg = "trashed"]
  /\ UNCHANGED <<tick, stream, path, looper, rung, user, mailsOut, arrived, windows, spent, mixed>>
(* A disappearing message is trashed alone; housekeeping finds its point. *)
ExpirePost(i) ==
  /\ posts[i].msg = "shown" /\ Pays("deletes")
  /\ posts' = [posts EXCEPT ![i].msg = "expired"]
  /\ UNCHANGED <<tick, stream, path, looper, rung, user, mailsOut, arrived, windows, mixed>>
Orphaned(p) == p.row /\ p.msg \notin {"shown", "deleting"}
DeleteOrphanedPoi == {i \in DOMAIN posts : Orphaned(posts[i])}
PoiHousekeeping ==
  /\ posts # <<>> /\ Pays("deletes")
  /\ posts' = [i \in DOMAIN posts |-> IF i \in DeleteOrphanedPoi THEN [posts[i] EXCEPT !.row = FALSE] ELSE posts[i]]
  /\ mixed' = IF \E p \in {posts[i] : i \in DOMAIN posts} : p.msg = "unlinked" THEN mixed \cup {"early"} ELSE mixed
  /\ UNCHANGED <<tick, stream, path, looper, rung, user, mailsOut, arrived, windows>>

-----------------------------------------------------------------------------
(* delete_expired(): path locations older than the device keeps messages; points stay. *)
DeleteExpired ==
  /\ Pays("olds")
  /\ \E t \in 1..(tick - 1) : path' = {r \in path : r.ts >= t} /\ path' # path
  /\ mixed' = mixed \cup {"old"}
  /\ UNCHANGED <<tick, stream, looper, rung, user, mailsOut, arrived, windows, posts>>

(* The calls of the user take less than a second, the rounds of the loop may take longer. *)
Ticks ==
  /\ tick < LastTick /\ user.at = "idle"
  /\ tick' = tick + 1
  /\ UNCHANGED <<stream, path, looper, rung, user, mailsOut, arrived, windows, posts, spent, mixed>>

(* The process dies; the loop starts over when it runs again. *)
LocDies ==
  /\ Pays("deaths")
  /\ looper' = [looper EXCEPT !.at = "sleep", !.wake = tick, !.lag = 0, !.rest = <<>>]
  /\ rung' = FALSE /\ user' = NoUser
  /\ posts' = [i \in DOMAIN posts |-> IF posts[i].msg = "unlinked" THEN [posts[i] EXCEPT !.msg = "lost"]
                                      ELSE IF posts[i].msg = "deleting" THEN [posts[i] EXCEPT !.msg = "torn"]
                                      ELSE posts[i]]
  /\ UNCHANGED <<tick, stream, path, mailsOut, arrived, windows, mixed>>

LocDone == /\ tick = LastTick
           /\ UNCHANGED locVars

LocationLoop == Wakes \/ MaybeSend \/ SendingFails \/ SkipChat \/ Disable \/ Sleeps

LocNext ==
  \/ LocationLoop \/ Announce \/ Ring \/ SetPosition \/ StopSending \/ NewPoi \/ PoiHousekeeping
  \/ DeleteExpired \/ Ticks \/ LocDies \/ LocDone
  \/ \E c \in StreamChats : SendAny(c) \/ \E s \in {0, 2} : SendToChat(c, s)
  \/ \E i \in DOMAIN mailsOut : ReceiveKml(i)
  \/ \E i \in DOMAIN posts : LinkPoi(i) \/ DeletePoi(i) \/ TrashPost(i) \/ ExpirePost(i)

LocSpec == LocInit /\ [][LocNext]_locVars

-----------------------------------------------------------------------------
(* Times are times, rows are rows. *)
LocTypeOK ==
  /\ tick \in 1..LastTick
  /\ \A c \in StreamChats : stream[c].begin <= stream[c].until /\ stream[c].last <= tick
  /\ \A r \in path : r.ts <= tick /\ r.chat \in StreamChats
  /\ \A i \in DOMAIN mailsOut : \A t \in mailsOut[i].locs : t <= tick

(* A chat is sent only locations of the time the user streamed into it, although get_kml() takes
   the path of all chats together and a mail takes along what the loop left (location.rs:551-569). *)
OnlyWhileAsked ==
  \A i \in DOMAIN mailsOut : \A t \in mailsOut[i].locs :
    \E w \in windows : w.chat = mailsOut[i].chat /\ w.from <= t /\ t < w.to

(* The loop never sleeps past the moment pending locations may be sent or a streaming ends: no
   order of recording, mails, interrupts and rounds loses the wake-up, except for the time the
   round itself took (location.rs:715-752). *)
NeverOversleeps ==
  looper.at = "sleep" /\ ~rung /\ user.at = "idle" /\ "failed" \notin mixed =>
    \A c \in StreamChats : stream[c].until > 0 =>
      /\ looper.wake <= MaxOf({stream[c].until, tick}) + looper.lag
      /\ IsSendingToChat(c) /\ (\E t \in Recorded : t >= stream[c].begin /\ t > stream[c].last) =>
           looper.wake <= MaxOf({stream[c].last + Gap + 1, tick}) + looper.lag

(* When the time asked for is over and the loop has run, nothing is left switched on; and what the
   user asked for is on, unless the loop was about to switch off the streaming that ended when the
   user started the next (location.rs:835-857). *)
StreamsAsAsked ==
  looper.at = "sleep" /\ ~rung /\ user.at = "idle" =>
    \A c \in StreamChats :
      /\ "failed" \notin mixed /\ tick + looper.lag < looper.wake => (stream[c].until > 0 => IsSendingToChat(c))
      /\ "cut" \notin mixed => \A w \in windows : w.chat = c /\ tick + 1 < w.to => IsSendingToChat(c)

(* Without the exception. *)
NeverCut ==
  looper.at = "sleep" /\ ~rung /\ user.at = "idle" =>
    \A w \in windows : tick + 1 < w.to => IsSendingToChat(w.chat)

(* The newest location travels with every mail, and mails overtake each other: the receiver has
   one row for each second all the same (save(), location.rs:684-690). *)
NoneTwice == \A i, j \in DOMAIN arrived : arrived[i].ts = arrived[j].ts => i = j

(* What was sent into two chats is shown in both to a receiver who is in both. *)
InEachChat ==
  mailsOut = <<>> /\ "old" \notin mixed =>
    \A r \in path : (\E i \in DOMAIN arrived : arrived[i].ts = r.ts)
                    /\ r.ts <= stream[r.chat].last => [ts |-> r.ts, chat |-> r.chat] \in {arrived[i] : i \in DOMAIN arrived}

(* A message keeps its point of interest until it is deleted, and "POIs should be deleted when
   corresponding message is deleted" (location.rs:477): unless housekeeping ran between the
   location and the message that names it. *)
PoiWithMessage ==
  "early" \notin mixed =>
    \A i \in DOMAIN posts : /\ posts[i].msg = "shown" => posts[i].row
                            /\ posts[i].msg = "trashed" => ~posts[i].row

(* Without the exception. *)
PoiKept == \A i \in DOMAIN posts : posts[i].msg = "shown" => posts[i].row

(* The pending locations are what the stream remembers: nothing at or before the remembered second
   is held back from the chat unsent, as long as the user only streams (set_kml_sent_timestamp). *)
SentBeforeRemembered ==
  [][\A c \in StreamChats : stream'[c].last # stream[c].last =>
       {t \in Recorded : t >= stream[c].begin /\ t > stream[c].last /\ t <= stream'[c].last}
         \subseteq mailsOut'[Len(mailsOut')].locs]_locVars

\* Positions are sent only while asked for, as asked, once, and before they are remembered
\* as sent.
LocationsSafe ==
    /\ [](LocTypeOK /\ OnlyWhileAsked /\ NeverOversleeps /\ StreamsAsAsked /\ NoneTwice /\ PoiWithMessage)
    /\ SentBeforeRemembered
=============================================================================
