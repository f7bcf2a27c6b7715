----------------------------- MODULE Transports ------------------------------
(***************************************************************************)
(* The relays of a profile on two devices (transport.rs, configure.rs):    *)
(* adding one, evicting one to make room, hiding, promoting and removing,  *)
(* the sync message that carries all of them to the other device, and the  *)
(* election of a primary relay there.                                      *)
(***************************************************************************)
EXTENDS Integers, Sequences, FiniteSets, FiniteSetsExt

CONSTANTS
    Relays,           \* addresses
    FirstRelay,       \* the one of the initial configuration
    MaxRelays,        \* MAX_RELAYS
    KeepTime,         \* UNPUBLISHED_TRANSPORT_KEEP_TIME
    RelayCalls,       \* calls of the user's: 1, 2, ...
    RelayBudgets      \* [acts, ticks, deaths] of a run, and how many calls may overlap

ASSUME RelaysAssumption == FirstRelay \in Relays /\ MaxRelays \in Nat \ {0} /\ KeepTime \in Nat

RelayDevices == {1, 2}
NoRow == [id |-> 0, at |-> 0, pub |-> FALSE, rcvd |-> 0]
NoSnap == [rows |-> {}, removed |-> [a \in Relays |-> 0]]
NoRelayCall == [dev |-> 1, at |-> "none", addr |-> FirstRelay, snap |-> NoSnap]

VARIABLES
    relayNow,        \* time(), the same on both devices
    left,       \* of the budget
    db,         \* device -> transports, removed_transports and configured_addr
    io,         \* device -> relays its scheduler watches; none when stopped
    restart,    \* device -> restart_io_after_fetch
    todo,       \* the user's calls under way
    mail,       \* device -> sync messages on their way to it
    acted,      \* history: when the user last changed something
    crossed,    \* history: a change was made while another was on its way, or within a second of it
    cut         \* history: changes whose sync message was never queued

relayVars == <<relayNow, left, db, io, restart, todo, mail, acted, crossed, cut>>

Row(d, a) == db[d].row[a]
Stored(d) == {a \in Relays : db[d].row[a].id > 0}
Published(d) == {a \in Stored(d) : Row(d, a).pub}

\* Newest first: the order of get_published_self_addrs and of the election.
Newest(rows, S) ==
    CHOOSE a \in S : \A b \in S : rows[b].at < rows[a].at \/ (rows[b].at = rows[a].at /\ rows[b].id <= rows[a].id)

\* The timestamp of our public key: peers take a key for newer by it.
KeyTime(b) == Max({b.row[a].at : a \in Relays} \cup {b.removed[a] : a \in Relays})

\* save_transport: a row that differs in anything is overwritten.
Saved(b, a, at, pub) ==
    CASE b.row[a].id = 0 -> [b EXCEPT !.row[a] = [id |-> b.next, at |-> at, pub |-> pub, rcvd |-> 0], !.next = @ + 1]
      [] b.row[a].id > 0 /\ (b.row[a].at < at \/ b.row[a].pub # pub) -> [b EXCEPT !.row[a] = [@ EXCEPT !.at = at, !.pub = pub]]
      [] OTHER -> b

\* maybe_reelect_local_primary
Reelected(b) ==
    LET all == {a \in Relays : b.row[a].id > 0}
        pub == {a \in all : b.row[a].pub}
    IN  IF b.primary \in pub \/ all = {} THEN b
        ELSE [b EXCEPT !.primary = Newest(b.row, IF pub # {} THEN pub ELSE all)]

\* The removals of a sync message.  The loop ends when one transport is left: if all are
\* to go, it is the one visited last.
WithRemoved(b, removed, last) ==
    LET all == {a \in Relays : b.row[a].id > 0}
        gone == {a \in all : removed[a] > 0 /\ b.row[a].at <= removed[a]}
        kept == IF gone = all THEN {last} ELSE {}
    IN  [b EXCEPT !.row = [a \in Relays |-> IF a \in gone \ kept THEN NoRow ELSE @[a]],
                  !.removed = [a \in Relays |-> IF a \notin kept /\ removed[a] > @[a] THEN removed[a] ELSE @[a]]]

RECURSIVE SavedAll(_, _)
SavedAll(b, rows) ==
    IF rows = {} THEN b
    ELSE LET r == CHOOSE r \in rows : \A s \in rows : r.id <= s.id
         IN  SavedAll(Saved(b, r.addr, r.at, r.pub), rows \ {r})

\* send_sync_transports: the first transport is never sent.
Snapshot(b) == [rows |-> {[addr |-> a, id |-> b.row[a].id, at |-> b.row[a].at, pub |-> b.row[a].pub] :
                              a \in {a \in Relays : b.row[a].id > 1}},
                removed |-> b.removed]

-----------------------------------------------------------------------------

Spend(what) == left[what] > 0 /\ left' = [left EXCEPT ![what] = @ - 1]
Overlaps(d) == mail[d] # << >> \/ \E c \in RelayCalls : todo[c].at # "none"
Begin(c, d) == todo[c].at = "none" /\ c <= left.calls /\ Spend("acts") /\ crossed' = (crossed \/ Overlaps(d) \/ acted = relayNow) /\ acted' = relayNow
Enter(c, d, a, at) == todo' = [todo EXCEPT ![c] = [NoRelayCall EXCEPT !.dev = d, !.addr = a, !.at = at]]
Configuring(d) == \E c \in RelayCalls : todo[c].dev = d /\ todo[c].at \in {"connect", "save", "tell, start", "queue, start"}

\* The transaction of delete_transport
RemoveRelay(b, a) == [b EXCEPT !.row[a] = NoRow, !.removed[a] = IF b.row[a].at > relayNow THEN b.row[a].at ELSE relayNow]

\* delete_transport
DeleteTransport(c, d, a) ==
    /\ Begin(c, d)
    /\ a \in Stored(d) /\ a # db[d].primary
    /\ db' = [db EXCEPT ![d] = RemoveRelay(@, a)]
    /\ Enter(c, d, a, "tell, restart")
    /\ UNCHANGED <<relayNow, io, restart, mail, cut>>

\* set_transport_unpublished; the primary one cannot be hidden.
SetUnpublished(c, d, a, hide) ==
    /\ Begin(c, d)
    /\ a \in Stored(d) /\ ~(a = db[d].primary /\ hide)
    /\ db' = IF Row(d, a).pub = ~hide THEN db
             ELSE [db EXCEPT ![d].row[a] = [@ EXCEPT !.pub = ~hide, !.at = relayNow]]
    /\ Enter(c, d, a, "tell")
    /\ UNCHANGED <<relayNow, io, restart, mail, cut>>

\* set_config(ConfiguredAddr)
Promote(c, d, a) ==
    /\ Begin(c, d)
    /\ a \in Stored(d)
    /\ LET at == IF relayNow > Row(d, a).at THEN relayNow ELSE Row(d, a).at + 1
       IN  db' = [db EXCEPT ![d] = [@ EXCEPT !.primary = a, !.row[a] = [@ EXCEPT !.at = at, !.pub = TRUE]]]
    /\ Enter(c, d, a, "tell")
    /\ UNCHANGED <<relayNow, io, restart, mail, cut>>

\* try_make_space_for_new_relay: what is left after evicting the hidden relay that received
\* nothing for longest; nothing if all are published.
Room(b) ==
    LET all == {a \in Relays : b.row[a].id > 0}
        hidden == {a \in all : ~b.row[a].pub}
        oldest == {a \in hidden : \A o \in hidden : b.row[a].rcvd < b.row[o].rcvd
                                     \/ (b.row[a].rcvd = b.row[o].rcvd /\ b.row[a].at <= b.row[o].at)}
    IN  IF Cardinality(all) < MaxRelays THEN {b}
        ELSE {n \in {RemoveRelay(b, a) : a \in oldest \ {b.primary}} : Cardinality(all) - 1 < MaxRelays}

\* add_or_update_transport: IO is stopped, and room made before the new relay is tried.
AddTransport(c, d, a) ==
    /\ Begin(c, d) /\ ~Configuring(d)
    /\ IF a \in Stored(d)
       THEN /\ Enter(c, d, a, "connect") /\ io' = [io EXCEPT ![d] = {}] /\ UNCHANGED <<db, mail>>
       ELSE \/ /\ Room(db[d]) = {}
               /\ UNCHANGED <<todo, io, db, mail>>
            \/ \E b \in Room(db[d]) :
                  /\ db' = [db EXCEPT ![d] = b]
                  /\ mail' = IF b = db[d] THEN mail ELSE [mail EXCEPT ![3 - d] = Append(@, Snapshot(b))]
                  /\ Enter(c, d, a, "connect") /\ io' = [io EXCEPT ![d] = {}]
    /\ UNCHANGED <<relayNow, restart, cut>>

\* get_configured_param and configure: the servers found take the login or not, or the
\* user cancels.
Connect(c) ==
    /\ todo[c].at = "connect"
    /\ LET d == todo[c].dev IN
       \/ /\ todo' = [todo EXCEPT ![c].at = "save"] /\ UNCHANGED io
       \/ /\ todo' = [todo EXCEPT ![c] = NoRelayCall]
          /\ io' = [io EXCEPT ![d] = Stored(d)]
    /\ UNCHANGED <<relayNow, left, db, restart, mail, acted, crossed, cut>>

SaveTransport(c) ==
    /\ todo[c].at = "save"
    /\ db' = [db EXCEPT ![todo[c].dev] = Saved(@, todo[c].addr, relayNow, TRUE)]
    /\ todo' = [todo EXCEPT ![c].at = "tell, start"]
    /\ UNCHANGED <<relayNow, left, io, restart, mail, acted, crossed, cut>>

\* The user cancels the configuration after the relay was saved.
CancelLate(c) ==
    /\ todo[c].at \in {"tell, start", "queue, start"} /\ Spend("deaths")
    /\ cut' = cut \cup {todo[c].addr}
    /\ io' = [io EXCEPT ![todo[c].dev] = Stored(todo[c].dev)]
    /\ todo' = [todo EXCEPT ![c] = NoRelayCall]
    /\ UNCHANGED <<relayNow, db, restart, mail, acted, crossed>>

\* send_sync_transports reads the tables and then queues the item.
ReadAll(c) ==
    /\ todo[c].at \in {"tell", "tell, restart", "tell, start"}
    /\ todo' = [todo EXCEPT ![c] = [@ EXCEPT !.snap = Snapshot(db[todo[c].dev]),
                      !.at = CASE @ = "tell" -> "queue" [] @ = "tell, start" -> "queue, start" [] OTHER -> "queue, restart"]]
    /\ UNCHANGED <<relayNow, left, db, io, restart, mail, acted, crossed, cut>>

QueueSync(c) ==
    /\ todo[c].at \in {"queue", "queue, restart", "queue, start"}
    /\ LET d == todo[c].dev IN
       /\ mail' = [mail EXCEPT ![3 - d] = Append(@, todo[c].snap)]
       /\ io' = IF todo[c].at = "queue, start" \/ (todo[c].at = "queue, restart" /\ io[d] # {})
                THEN [io EXCEPT ![d] = Stored(d)] ELSE io
    /\ todo' = [todo EXCEPT ![c] = NoRelayCall]
    /\ UNCHANGED <<relayNow, left, db, restart, acted, crossed, cut>>

-----------------------------------------------------------------------------

\* sync_transports: what it may make of the tables.
Synced(b, m) ==
    LET saved == SavedAll(b, m.rows)
    IN  {Reelected(WithRemoved(saved, m.removed, last)) : last \in {a \in Relays : saved.row[a].id > 0}}

\* A message is fetched over some relay the scheduler watches.
SyncTransports(d) ==
    /\ mail[d] # << >> /\ io[d] # {}
    /\ \E b \in Synced(db[d], Head(mail[d])) :
          /\ db' = [db EXCEPT ![d] = b]
          /\ restart' = [restart EXCEPT ![d] = @ \/ b.row # db[d].row \/ b.primary # db[d].primary]
    /\ mail' = [mail EXCEPT ![d] = Tail(@)]
    /\ UNCHANGED <<relayNow, left, io, todo, acted, crossed, cut>>

\* The inbox loop is about to idle.
RestartAfterFetch(d) ==
    /\ restart[d] /\ io[d] # {}
    /\ restart' = [restart EXCEPT ![d] = FALSE]
    /\ io' = [io EXCEPT ![d] = Stored(d)]
    /\ UNCHANGED <<relayNow, left, db, todo, mail, acted, crossed, cut>>

\* update_transport_last_rcvd_timestamp
Received(d, a) ==
    /\ a \in io[d] \cap Stored(d) /\ Row(d, a).rcvd # relayNow /\ ~Row(d, a).pub
    /\ db' = [db EXCEPT ![d].row[a].rcvd = relayNow]
    /\ UNCHANGED <<relayNow, left, io, restart, todo, mail, acted, crossed, cut>>

\* remove_unused_hidden_transports
Unused(b) == {a \in Relays : b.row[a].id > 0 /\ ~b.row[a].pub /\ b.row[a].rcvd < relayNow - KeepTime /\ b.row[a].at < relayNow - KeepTime}

RelayHousekeeping(d) ==
    /\ Unused(db[d]) # {}
    /\ db' = [db EXCEPT ![d].row = [a \in Relays |-> IF a \in Unused(db[d]) THEN NoRow ELSE @[a]]]
    /\ cut' = cut \cup Unused(db[d])
    /\ UNCHANGED <<relayNow, left, io, restart, todo, mail, acted, crossed>>

\* The process dies and starts again.
RelayDeath(d) ==
    /\ Spend("deaths")
    /\ cut' = cut \cup {todo[c].addr : c \in {c \in RelayCalls : todo[c].dev = d /\ todo[c].at \notin {"none", "connect", "save"}}}
    /\ todo' = [c \in RelayCalls |-> IF todo[c].dev = d THEN NoRelayCall ELSE todo[c]]
    /\ io' = [io EXCEPT ![d] = Stored(d)] /\ restart' = [restart EXCEPT ![d] = FALSE]
    /\ UNCHANGED <<relayNow, db, mail, acted, crossed>>

RelayTick == Spend("ticks") /\ relayNow' = relayNow + 1 /\ UNCHANGED <<db, io, restart, todo, mail, acted, crossed, cut>>

-----------------------------------------------------------------------------

RelaysInit ==
    /\ relayNow = 1 /\ left \in RelayBudgets
    /\ db = [d \in RelayDevices |->
               [row |-> [a \in Relays |-> IF a = FirstRelay THEN [id |-> 1, at |-> 1, pub |-> TRUE, rcvd |-> 0] ELSE NoRow],
                removed |-> [a \in Relays |-> 0], primary |-> FirstRelay, next |-> 2]]
    /\ io = [d \in RelayDevices |-> {FirstRelay}] /\ restart = [d \in RelayDevices |-> FALSE]
    /\ todo = [c \in RelayCalls |-> NoRelayCall] /\ mail = [d \in RelayDevices |-> << >>]
    /\ acted = 0 /\ crossed = FALSE /\ cut = {}

RelaysNext ==
    \/ \E c \in RelayCalls, d \in RelayDevices, a \in Relays :
          \/ DeleteTransport(c, d, a) \/ Promote(c, d, a) \/ AddTransport(c, d, a)
          \/ \E h \in BOOLEAN : SetUnpublished(c, d, a, h)
    \/ \E c \in RelayCalls : Connect(c) \/ SaveTransport(c) \/ CancelLate(c) \/ ReadAll(c) \/ QueueSync(c)
    \/ \E d \in RelayDevices : SyncTransports(d) \/ RestartAfterFetch(d) \/ RelayHousekeeping(d) \/ RelayDeath(d)
    \/ \E d \in RelayDevices, a \in Relays : Received(d, a)
    \/ RelayTick

RelaysSpec == RelaysInit /\ [][RelaysNext]_relayVars

-----------------------------------------------------------------------------
(* Properties                                                              *)

RelaysTypeOK ==
    /\ \A d \in RelayDevices : /\ db[d].primary \in Relays /\ io[d] \subseteq Relays
                               /\ \A a, b \in Stored(d) : a # b => Row(d, a).id # Row(d, b).id
    /\ cut \subseteq Relays

\* The primary relay has its row, whatever the other device removed: without it nothing can
\* be sent (ConfiguredLoginParam::load), and an account without rows is not configured.
PrimaryListed == \A d \in RelayDevices : db[d].primary \in Stored(d)

\* Contacts are told of the primary relay: it is published.
PrimaryPublished == \A d \in RelayDevices : db[d].primary \in Published(d)

RelaysQuiet == (\A c \in RelayCalls : todo[c].at = "none") /\ \A d \in RelayDevices : mail[d] = << >>

\* When the sync messages have arrived and no change crossed another, both devices have the
\* same relays, hidden or published alike; of the first one only the removal is told.
RelaysAgree ==
    RelaysQuiet /\ ~crossed /\ cut = {} =>
        \A a \in Relays :
            /\ a \in Stored(1) <=> a \in Stored(2)
            /\ a \in Stored(1) /\ Row(1, a).id > 1 => Row(1, a).pub = Row(2, a).pub

\* A device watches every relay it has, once it has nothing left to do: a relay added by the
\* other device is never forgotten by the running scheduler.
AllWatched == RelaysQuiet => \A d \in RelayDevices : restart[d] \/ Stored(d) \subseteq io[d]

\* Without crossing changes a profile never has more relays than allowed.
WithinLimit == ~crossed /\ cut = {} => \A d \in RelayDevices : Cardinality(Stored(d)) <= MaxRelays

\* A relay just hidden is kept for a while, even if it never received anything.
HiddenKept ==
    [][\A d \in RelayDevices, a \in Relays :
          a \in Stored(d) /\ Row(d, a).at = relayNow /\ left' = left /\ mail' = mail => a \in {x \in Relays : db'[d].row[x].id > 0}]_relayVars

\* "other devices ignore the row update otherwise": a sync message that is older than the row
\* does not change it.  It fails: a row that differs is overwritten.
StaleIgnored ==
    [][\A d \in RelayDevices : \A a \in Stored(d) : db'[d].row[a].id > 0 => db'[d].row[a].at >= Row(d, a).at]_relayVars

\* "so that the key's timestamp changes and is recognized as newer by our peers".  It fails
\* within one second, and after a promotion, which may have used the next second already.
HidingIsNews ==
    [][\A d \in RelayDevices : \A a \in Stored(d) :
          left'.acts < left.acts /\ db'[d].row[a].id > 0 /\ Row(d, a).pub # db'[d].row[a].pub => KeyTime(db'[d]) > KeyTime(db[d])]_relayVars

\* Both devices agree about the first relay too.  It fails: its row is never sent.
FirstAgrees == RelaysQuiet /\ ~crossed /\ cut = {} /\ FirstRelay \in Stored(1) => Row(1, FirstRelay).pub = Row(2, FirstRelay).pub

\* The relays of an account: the first is listed and published, the devices agree, all are
\* watched, and there are not too many.
RelaysSafe == RelaysTypeOK /\ PrimaryListed /\ PrimaryPublished /\ RelaysAgree /\ AllWatched /\ WithinLimit
=============================================================================
