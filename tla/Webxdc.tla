------------------------------- MODULE Webxdc -------------------------------
(***************************************************************************)
(* An app in a chat (core/src/webxdc.rs, core/src/peer_channels.rs): its   *)
(* status updates, numbered in a table on each device and sent in ranges   *)
(* by the SMTP loop, and the topic and peers of its realtime channel.  The *)
(* app is sent by one device, which the model follows step by step; the    *)
(* other members run the same code, of which their receiving is modelled.  *)
(***************************************************************************)
EXTENDS Integers, Sequences, SequencesExt, FiniteSets

CONSTANTS
    XdcPeers,       \* the other members
    XdcLate,        \* those who are added later and need a resend
    XdcCalls,       \* concurrent calls of the app's sendUpdate()
    PerMail,        \* updates that fit below STATUS_UPDATE_SIZE_MAX
    XdcBudgets      \* bounds on updates, other operations and deaths

ASSUME /\ IsFiniteSet(XdcPeers) /\ XdcLate \subseteq XdcPeers /\ "me" \notin XdcPeers
       /\ PerMail \in Nat \ {0}
       /\ XdcBudgets \subseteq [updates : Nat, acts : Nat, deaths : Nat]

Me == "me"
XdcDevices == {Me} \cup XdcPeers
NoTopic == 0
IdleCall == [at |-> "idle", now |-> FALSE, uid |-> 0, serial |-> 0]
IdleFlush == [at |-> "idle", first |-> 0, last |-> 0, new |-> 0, items |-> << >>]
NoRange == [on |-> FALSE, first |-> 0, last |-> 0]

VARIABLES
    large,    \* the app is too large for one mail
    inst,     \* the sender's instance: "draft", "preparing" or "sent"
    xdc,      \* device -> has the app, table of updates, topic rows, peers, in the channel
    present,  \* the members besides the sender
    range,    \* the sender's row of smtp_status_updates
    call,     \* call of sendUpdate() -> how far it is
    flush,    \* flush_status_updates
    way,      \* from -> to -> mails
    uids,     \* updates made so far
    topics,   \* random topics made so far
    mishaps,  \* history: races known to lose something
    spare     \* what is left of the budget

xdcVars == <<large, inst, xdc, present, range, call, flush, way, uids, topics, mishaps, spare>>

Parcel(kind, items, topic) == [kind |-> kind, items |-> items, topic |-> topic]

Posted(w, from, to, ms) == [w EXCEPT ![from] = [d \in XdcDevices |-> IF d \in to THEN @[d] \o ms
                                                                  ELSE @[d]]]

Others(d) == ({Me} \cup present) \ {d}

-----------------------------------------------------------------------------
(* The table of updates                                                    *)

\* write_status_update_inner: the next serial, unless the update is there already.
WriteStatusUpdate(table, uid) == IF uid \in Range(table) THEN table ELSE Append(table, uid)

\* receive_status_update: one item after the other.
ReceiveStatusUpdate(table, items) == FoldLeft(WriteStatusUpdate, table, items)

\* render_webxdc_status_update_object: the updates of a range that fit, and the serial
\* to go on with.
RenderUpdates(table, first, last, limit) ==
    LET from == IF first < 1 THEN 1 ELSE first
        to   == IF last > Len(table) THEN Len(table) ELSE last
        cut  == IF to - from + 1 > limit THEN from + limit - 1 ELSE to
    IN  [items |-> SubSeq(table, from, cut), new |-> IF cut < to THEN cut + 1 ELSE last + 1]

-----------------------------------------------------------------------------
(* sendUpdate(): load the instance, write the update, queue it             *)

LoadInstance(c) ==
    /\ call[c].at = "idle" /\ spare.updates > 0
    /\ call' = [call EXCEPT ![c] = [IdleCall EXCEPT !.at = "loaded", !.now = inst # "draft",
                                                    !.uid = uids + 1]]
    /\ uids' = uids + 1
    /\ spare' = [spare EXCEPT !.updates = @ - 1]
    /\ UNCHANGED <<large, inst, xdc, present, range, flush, way, topics, mishaps>>

CreateStatusUpdateRecord(c) ==
    /\ call[c].at = "loaded"
    /\ LET table == WriteStatusUpdate(xdc[Me].table, call[c].uid)
       IN  /\ xdc' = [xdc EXCEPT ![Me].table = table]
           /\ call' = [call EXCEPT ![c] = IF @.now THEN [@ EXCEPT !.at = "recorded",
                                                                  !.serial = Len(table)]
                                          ELSE IdleCall]
    /\ mishaps' = IF ~call[c].now /\ inst # "draft" THEN mishaps \cup {"undrafted"} ELSE mishaps
    /\ UNCHANGED <<large, inst, present, range, flush, way, uids, topics, spare>>

\* One row per app: a later update moves its end.
QueueUpdate(c) ==
    /\ call[c].at = "recorded"
    /\ range' = IF range.on THEN [range EXCEPT !.last = call[c].serial]
                ELSE [on |-> TRUE, first |-> call[c].serial, last |-> call[c].serial]
    /\ mishaps' = IF range.on /\ call[c].serial < range.last THEN mishaps \cup {"crossed"}
                  ELSE mishaps
    /\ call' = [call EXCEPT ![c] = IdleCall]
    /\ UNCHANGED <<large, inst, xdc, present, flush, way, uids, topics, spare>>

-----------------------------------------------------------------------------
(* The SMTP loop                                                           *)

FlushGet ==
    /\ range.on /\ flush.at = "idle"
    /\ flush' = [IdleFlush EXCEPT !.at = "got", !.first = range.first, !.last = range.last]
    /\ UNCHANGED <<large, inst, xdc, present, range, call, way, uids, topics, mishaps, spare>>

FlushRender ==
    /\ flush.at = "got"
    /\ LET r == RenderUpdates(xdc[Me].table, flush.first, flush.last, PerMail)
       IN  flush' = [flush EXCEPT !.at = "rendered", !.new = r.new, !.items = r.items]
    /\ UNCHANGED <<large, inst, xdc, present, range, call, way, uids, topics, mishaps, spare>>

FlushSend ==
    /\ flush.at = "rendered"
    /\ way' = IF flush.items = << >> THEN way
              ELSE Posted(way, Me, present, <<Parcel("update", flush.items, NoTopic)>>)
    /\ flush' = [flush EXCEPT !.at = "sent"]
    /\ UNCHANGED <<large, inst, xdc, present, range, call, uids, topics, mishaps, spare>>

BugPopSerials ==
    /\ flush.at = "sent"
    /\ range' = IF range.on /\ flush.new > flush.last THEN NoRange
                ELSE [range EXCEPT !.first = flush.new]
    /\ flush' = IdleFlush
    /\ UNCHANGED <<large, inst, xdc, present, call, way, uids, topics, mishaps, spare>>

\* smtp_status_update_pop_serials: the row goes if nothing was added, unless a resend has
\* moved its start.
PopSerials ==
    /\ flush.at = "sent"
    /\ range' = IF ~range.on \/ range.first # flush.first THEN range
                ELSE IF range.last < flush.new THEN NoRange
                ELSE [range EXCEPT !.first = flush.new]
    /\ flush' = IdleFlush
    /\ UNCHANGED <<large, inst, xdc, present, call, way, uids, topics, mishaps, spare>>

XdcDies ==
    /\ spare.deaths > 0 /\ (flush.at # "idle" \/ \E c \in XdcCalls : call[c].at = "recorded")
    /\ mishaps' = IF \E c \in XdcCalls : call[c].at = "recorded" THEN mishaps \cup {"death"}
                  ELSE mishaps
    /\ flush' = IdleFlush
    /\ call' = [c \in XdcCalls |-> IdleCall]
    /\ spare' = [spare EXCEPT !.deaths = @ - 1]
    /\ UNCHANGED <<large, inst, xdc, present, range, way, uids, topics>>

-----------------------------------------------------------------------------
(* Sending the app                                                         *)

\* get_iroh_topic_for_msg: the first row.
TopicOf(d) == IF xdc[d].rows = << >> THEN NoTopic ELSE Head(xdc[d].rows)

\* create_iroh_header is called for every rendering, whether its topic is used or not;
\* a large app is rendered twice, the second mail first, by factories that both looked
\* for a topic beforehand.
RenderTopics ==
    LET old == TopicOf(Me)
        n   == IF large THEN 2 ELSE 1
    IN  [post |-> IF old # NoTopic THEN old ELSE topics + 1,
         pre  |-> IF old # NoTopic THEN old ELSE topics + n,
         rows |-> xdc[Me].rows \o [i \in 1..n |-> topics + i],
         made |-> topics + n]

\* The mails of the app with all updates so far.
RenderApp(items) ==
    IF large THEN <<Parcel("pre", << >>, RenderTopics.pre), Parcel("post", items, RenderTopics.post)>>
    ELSE <<Parcel("whole", items, RenderTopics.post)>>

\* The draft becomes a message ...
SendDraft ==
    /\ inst = "draft"
    /\ inst' = "preparing"
    /\ UNCHANGED <<large, xdc, present, range, call, flush, way, uids, topics, mishaps, spare>>

\* ... and is rendered.
SendApp ==
    /\ inst = "preparing"
    /\ inst' = "sent"
    /\ way' = Posted(way, Me, present, RenderApp(xdc[Me].table))
    /\ xdc' = [xdc EXCEPT ![Me].rows = RenderTopics.rows]
    /\ topics' = RenderTopics.made
    /\ UNCHANGED <<large, present, range, call, flush, uids, mishaps, spare>>

\* The whole table is queued again; the start of a row being flushed moves down, so that
\* the flush does not take it for done.
ResendRange(table) ==
    IF table = << >> THEN range
    ELSE IF range.on THEN [range EXCEPT !.first = IF @ - 1 < 1 THEN @ - 1 ELSE 1]
    ELSE [on |-> TRUE, first |-> 1, last |-> Len(table)]

\* resend_msgs_ext, here after somebody was added: to everybody.
ResendApp(p) ==
    /\ inst = "sent" /\ spare.acts > 0 /\ p \in XdcLate \ present
    /\ present' = present \cup {p}
    /\ way' = Posted(way, Me, present', RenderApp(xdc[Me].table))
    /\ xdc' = [xdc EXCEPT ![Me].rows = RenderTopics.rows]
    /\ topics' = RenderTopics.made
    /\ range' = ResendRange(xdc[Me].table)
    /\ spare' = [spare EXCEPT !.acts = @ - 1]
    /\ mishaps' = IF \E d \in present : way[d][Me] # << >> THEN mishaps \cup {"late"} ELSE mishaps
    /\ UNCHANGED <<large, inst, call, flush, uids>>

-----------------------------------------------------------------------------
(* The other members                                                       *)

\* A member's app makes an update; that device's queue is not modelled.
PeerUpdate(p) ==
    /\ p \in present /\ xdc[p].has /\ spare.updates > 0
    /\ uids' = uids + 1
    /\ spare' = [spare EXCEPT !.updates = @ - 1]
    /\ xdc' = [xdc EXCEPT ![p].table = Append(@, uids + 1)]
    /\ way' = Posted(way, p, Others(p), <<Parcel("update", <<uids + 1>>, NoTopic)>>)
    /\ UNCHANGED <<large, inst, present, range, call, flush, topics, mishaps>>

\* add_gossip_peer_from_header: the address of a member, for an app one has.
AddPeer(d, from) == IF d.has THEN [d EXCEPT !.peers = @ \cup {from}] ELSE d

\* insert_topic_stub
AddTopic(rows, topic) == IF topic \in Range(rows) THEN rows ELSE Append(rows, topic)

\* What a mail does to a device: an app one has is not taken again, but the second half
\* of a large one brings its updates; updates and peers of an app one has not are lost.
TakenIn(d, m, from) ==
    CASE m.kind = "advert" -> AddPeer(d, from)
      [] m.kind = "update" -> IF d.has THEN [d EXCEPT !.table = ReceiveStatusUpdate(@, m.items)]
                              ELSE d
      [] m.kind = "post"   -> [d EXCEPT !.table = ReceiveStatusUpdate(@, m.items),
                                        !.rows = AddTopic(@, m.topic)]
      [] OTHER             -> IF d.has THEN d
                              ELSE [d EXCEPT !.has = TRUE, !.rows = AddTopic(@, m.topic),
                                             !.table = ReceiveStatusUpdate(@, m.items)]

ReceiveXdc(from, to) ==
    /\ way[from][to] # << >>
    /\ LET m == Head(way[from][to])
       IN  /\ xdc' = [xdc EXCEPT ![to] = TakenIn(@, m, from)]
           /\ mishaps' = IF m.kind = "update" /\ ~xdc[to].has THEN mishaps \cup {"early"}
                         ELSE mishaps
    /\ way' = [way EXCEPT ![from][to] = Tail(@)]
    /\ UNCHANGED <<large, inst, present, range, call, flush, uids, topics, spare>>

-----------------------------------------------------------------------------
(* Realtime channels                                                       *)

\* join_and_subscribe_gossip: at most one subscription per topic, to the peers known.
Subscribe(d) == xdc' = [xdc EXCEPT ![d].joined = TRUE]

\* send_webxdc_realtime_advertisement: join the topic with the peers known, and tell.
JoinRealtime(d) ==
    /\ spare.acts > 0 /\ ~xdc[d].joined /\ TopicOf(d) # NoTopic /\ xdc[d].has
    /\ d = Me => inst = "sent"
    /\ Subscribe(d)
    /\ way' = Posted(way, d, Others(d), <<Parcel("advert", << >>, NoTopic)>>)
    /\ spare' = [spare EXCEPT !.acts = @ - 1]
    /\ UNCHANGED <<large, inst, present, range, call, flush, uids, topics, mishaps>>

LeaveRealtime(d) ==
    /\ xdc[d].joined /\ spare.acts > 0
    /\ xdc' = [xdc EXCEPT ![d].joined = FALSE]
    /\ spare' = [spare EXCEPT !.acts = @ - 1]
    /\ UNCHANGED <<large, inst, present, range, call, flush, way, uids, topics, mishaps>>

-----------------------------------------------------------------------------

XdcInit ==
    /\ large \in BOOLEAN /\ inst = "draft" /\ present = XdcPeers \ XdcLate
    /\ xdc = [d \in XdcDevices |-> [has |-> d = Me, table |-> << >>, rows |-> << >>,
                                 peers |-> {}, joined |-> FALSE]]
    /\ range = NoRange /\ call = [c \in XdcCalls |-> IdleCall] /\ flush = IdleFlush
    /\ way = [d \in XdcDevices |-> [e \in XdcDevices |-> << >>]]
    /\ uids = 0 /\ topics = 0 /\ mishaps = {}
    /\ spare \in XdcBudgets

XdcNext ==
    \/ \E c \in XdcCalls : LoadInstance(c) \/ CreateStatusUpdateRecord(c) \/ QueueUpdate(c)
    \/ FlushGet \/ FlushRender \/ FlushSend \/ PopSerials \/ XdcDies
    \/ SendDraft \/ SendApp
    \/ \E p \in XdcPeers : ResendApp(p) \/ PeerUpdate(p)
    \/ \E d, e \in XdcDevices : ReceiveXdc(d, e)
    \/ \E d \in XdcDevices : JoinRealtime(d) \/ LeaveRealtime(d)

XdcSpec == XdcInit /\ [][XdcNext]_xdcVars

-----------------------------------------------------------------------------
(* Properties                                                              *)

XdcTypeOK ==
    /\ \A d \in XdcDevices : Range(xdc[d].table) \subseteq 1..uids
                          /\ IsInjective(xdc[d].table)
    /\ flush.at \in {"idle", "got", "rendered", "sent"} /\ present \subseteq XdcPeers

XdcSettled ==
    /\ \A d, e \in XdcDevices : way[d][e] = << >>
    /\ \A c \in XdcCalls : call[c].at = "idle"
    /\ inst = "sent" /\ ~range.on /\ flush.at = "idle"

SameUpdates == \A p \in present : xdc[p].has => Range(xdc[p].table) = Range(xdc[Me].table)

\* When nothing is queued or under way, every member who has the app has all updates, those
\* made in the draft, those made while others were being sent, those resent to somebody
\* new, and each of them once; a death between the steps of sending loses none.
UpdatesArrive == XdcSettled /\ mishaps = {} => SameUpdates

\* Otherwise, the update is sent as soon as possible (webxdc.rs).  It fails when two
\* calls queue their updates in the opposite order of their serials.
SentAsSoonAsPossible == XdcSettled /\ mishaps \subseteq {"crossed"} => SameUpdates

\* If the instance is a draft, the status update is sent once the instance is actually
\* sent (webxdc.rs).  It fails when the draft is sent while an update is being made.
DraftUpdatesSent == XdcSettled /\ mishaps \subseteq {"undrafted"} => SameUpdates

\* Everybody's channel of one small app is the sender's, also after resends.
OneTopic ==
    ~large => \A d \in XdcDevices : TopicOf(d) \in {NoTopic, TopicOf(Me)}

\* The topic is sent in the same message as the app (peer_channels.rs), so that members
\* meet.  It fails for large apps, whose two mails carry two topics.
MembersMeet ==
    XdcSettled => \A d, e \in XdcDevices : xdc[d].joined /\ xdc[e].joined => TopicOf(d) = TopicOf(e)

\* Of two members in the channel at least one has the other's address once the
\* advertisements have arrived, in whatever order app and advertisements came.
PeersKnown ==
    XdcSettled => \A d, e \in XdcDevices :
                   xdc[d].joined /\ xdc[e].joined /\ d # e =>
                       d \in xdc[e].peers \/ e \in xdc[d].peers

\* All devices of an app end up with all its updates, on one topic and with known peers.
XdcSafe == XdcTypeOK /\ UpdatesArrive /\ OneTopic /\ PeersKnown
=============================================================================
