------------------------------ MODULE Channels ------------------------------
(***************************************************************************)
(* Reactions and pins to one message (core/src/reaction.rs,                *)
(* reaction/broadcast_reactions.rs, pinned_messages.rs), in a group, where *)
(* everybody tells everybody and a reaction may come before its message,   *)
(* and in a broadcast channel (chat.rs, receive_imf.rs), where subscribers *)
(* tell the owner and the owner now and then tells all subscribers how     *)
(* often each emoji was chosen.                                            *)
(***************************************************************************)
EXTENDS Integers, Sequences, FiniteSets

CONSTANTS
    Subs,            \* the other members, or the subscribers
    Late,            \* those of them who join after the message was sent
    Emojis,          \* those allowed in channels
    MaxChannelActs,
    MaxChannelDeaths

ASSUME /\ IsFiniteSet(Subs) /\ Late \subseteq Subs /\ Subs # {}
       /\ IsFiniteSet(Emojis) /\ "" \notin Emojis /\ "owner" \notin Subs
       /\ MaxChannelActs \in Nat /\ MaxChannelDeaths \in Nat

Owner == "owner"
People == {Owner} \cup Subs
Reactions == Emojis \cup {""}       \* "": none
NoFrequencies == [e \in Emojis |-> 0]
NoState == [freq |-> NoFrequencies, pinned |-> FALSE, told |-> FALSE]

VARIABLES
    kind,      \* "group" or "channel"
    at,        \* person -> membership, message, reaction tables
    roster,    \* the owner's list of subscribers
    need,      \* reactions_need_broadcast has the message
    cast,      \* the broadcast being made: [stage, state]
    pinning,   \* a pin sent and not stored yet: "", "pin" or "unpin"
    looking,   \* person -> a reaction found to have no message, not put aside yet
    inFlight,       \* from -> to -> mails, in the order they were sent
    upset,     \* history: which of the races known to lose something happened
    tasks      \* how many operations and deaths are left

chanVars == <<kind, at, roster, need, cast, pinning, looking, inFlight, upset, tasks>>

Letter0 == [kind |-> "", sym |-> FALSE, emoji |-> "", state |-> NoState]
NoLook == [from |-> "", emoji |-> ""]

\* A mail to everybody in q, after what is under way.
Sent(n, from, q, m) == [n EXCEPT ![from] = [p \in People |-> IF p \in q THEN Append(@[p], m)
                                                             ELSE @[p]]]

-----------------------------------------------------------------------------
(* The tables                                                              *)

\* calc_frequencies: how many chose each emoji.
CalcFrequencies(by) == [e \in Emojis |-> Cardinality({q \in People : by[q] = e})]

\* refine_frequencies: an own reaction the broadcast lacks counts at least once.
RefineFrequencies(freq, by) ==
    [e \in Emojis |-> IF freq[e] = 0 /\ \E q \in People : by[q] = e THEN 1 ELSE freq[e]]

\* get_msg_reactions
GetMsgReactions(a) ==
    IF a.shown # NoFrequencies THEN RefineFrequencies(a.shown, a.react)
    ELSE CalcFrequencies(a.react)

\* modify_frequencies: one less of the old, one more of the new.
ModifyFrequencies(freq, old, new) ==
    LET less == [e \in Emojis |-> IF e = old /\ freq[e] > 0 THEN freq[e] - 1 ELSE freq[e]]
    IN  [e \in Emojis |-> IF e = new THEN less[e] + 1 ELSE less[e]]

\* set_msg_id_reaction: the row, and for a subscriber's own the counts shown.
SetMsgIdReaction(a, p, q, e) ==
    [a EXCEPT !.react[q] = e,
              !.shown = IF kind = "channel" /\ p # Owner /\ q = p
                        THEN ModifyFrequencies(@, a.react[p], e) ELSE @]

BugSetPendingReaction(a, q, e) == IF e = "" THEN a ELSE [a EXCEPT !.pend[q] = e]

\* set_pending_reaction: none takes the reaction put aside away.
SetPendingReaction(a, q, e) == [a EXCEPT !.pend[q] = e]

\* apply_pending_reactions
ApplyPending(a) ==
    [a EXCEPT !.react = [q \in People |-> IF a.pend[q] # "" THEN a.pend[q] ELSE a.react[q]],
              !.pend  = [q \in People |-> ""]]

\* render_json
RenderState == [freq |-> CalcFrequencies(at[Owner].react), pinned |-> at[Owner].pinned,
                told |-> TRUE]

\* receive_broadcast_reactions: the counts and the pin of a message one has.
ReceiveState(a, s) ==
    IF s.told /\ a.has THEN [a EXCEPT !.shown = s.freq, !.pinned = s.pinned] ELSE a

-----------------------------------------------------------------------------
(* What people do                                                          *)

Looking(reason) == IF cast.stage = "idle" /\ pinning = "" THEN upset ELSE upset \cup {reason}

\* send_reaction: first the mail, then the own table.
SendReaction(p, e) ==
    /\ tasks.acts > 0 /\ at[p].in /\ at[p].has /\ at[p].react[p] # e
    /\ LET m == [Letter0 EXCEPT !.kind = "react", !.emoji = e,
                              !.sym = kind = "channel" /\ p = Owner]
       IN  inFlight' = Sent(inFlight, p, IF kind = "group" THEN People \ {p}
                               ELSE IF p = Owner THEN roster ELSE {Owner}, m)
    /\ at' = [at EXCEPT ![p] = SetMsgIdReaction(@, p, p, e)]
    /\ need' = (need \/ (kind = "channel" /\ p = Owner))
    /\ upset' = IF p = Owner THEN Looking("overlap") ELSE upset
    /\ tasks' = [tasks EXCEPT !.acts = @ - 1]
    /\ UNCHANGED <<kind, roster, cast, pinning, looking>>

\* set_pinned_state: the info message to the audience; the row only after that.
SetPinnedState(v) ==
    /\ kind = "channel" /\ tasks.acts > 0 /\ pinning = "" /\ at[Owner].pinned # v
    /\ inFlight' = Sent(inFlight, Owner, roster,
                   [Letter0 EXCEPT !.kind = IF v THEN "pin" ELSE "unpin", !.sym = TRUE])
    /\ pinning' = IF v THEN "pin" ELSE "unpin"
    /\ upset' = Looking("overlap")
    /\ tasks' = [tasks EXCEPT !.acts = @ - 1]
    /\ UNCHANGED <<kind, at, roster, need, cast, looking>>

UpdatePinnedState ==
    /\ pinning # ""
    /\ at' = [at EXCEPT ![Owner].pinned = pinning = "pin"]
    /\ pinning' = ""
    /\ UNCHANGED <<kind, roster, need, cast, looking, inFlight, upset, tasks>>

\* add_contact_to_chat_ext at the end of the handshake: the addition with the channel's
\* secret, then the latest messages with their states, each for the newcomer alone.
AddSubscriber(s) ==
    /\ kind = "channel" /\ tasks.acts > 0 /\ s \notin roster /\ ~at[s].in
    /\ inFlight[s][Owner] = << >> /\ inFlight[Owner][s] = << >>
    /\ roster' = roster \cup {s}
    /\ inFlight' = Sent(Sent(inFlight, Owner, {s}, [Letter0 EXCEPT !.kind = "added"]), Owner, {s},
                   [Letter0 EXCEPT !.kind = "post", !.state = RenderState])
    /\ upset' = Looking("overlap") \cup (IF at[s].has THEN {"rejoin"} ELSE {})
    /\ tasks' = [tasks EXCEPT !.acts = @ - 1]
    /\ UNCHANGED <<kind, at, need, cast, pinning, looking>>

\* remove_contact_from_chat by the owner: only the one removed is told.
RemoveSubscriber(s) ==
    /\ kind = "channel" /\ tasks.acts > 0 /\ s \in roster
    /\ roster' = roster \ {s}
    /\ inFlight' = Sent(inFlight, Owner, {s}, [Letter0 EXCEPT !.kind = "removed"])
    /\ tasks' = [tasks EXCEPT !.acts = @ - 1]
    /\ UNCHANGED <<kind, at, need, cast, pinning, looking, upset>>

\* remove_contact_from_chat by a subscriber: the secret goes first.
LeaveChannel(s) ==
    /\ kind = "channel" /\ tasks.acts > 0 /\ at[s].in
    /\ at' = [at EXCEPT ![s].in = FALSE, ![s].secret = FALSE]
    /\ inFlight' = Sent(inFlight, s, {Owner}, [Letter0 EXCEPT !.kind = "left"])
    /\ tasks' = [tasks EXCEPT !.acts = @ - 1]
    /\ UNCHANGED <<kind, roster, need, cast, pinning, looking, upset>>

-----------------------------------------------------------------------------
(* broadcast_reactions_for_one_chat, every ten minutes                     *)

CastRender ==
    /\ need /\ cast.stage = "idle"
    /\ cast' = [stage |-> "rendered", state |-> RenderState]
    /\ upset' = IF pinning = "" THEN upset ELSE upset \cup {"overlap"}
    /\ UNCHANGED <<kind, at, roster, need, pinning, looking, inFlight, tasks>>

CastSend ==
    /\ cast.stage = "rendered"
    /\ inFlight' = Sent(inFlight, Owner, roster,
                   [Letter0 EXCEPT !.kind = "cast", !.sym = TRUE, !.state = cast.state])
    /\ cast' = [cast EXCEPT !.stage = "sent"]
    /\ UNCHANGED <<kind, at, roster, need, pinning, looking, upset, tasks>>

CastClear ==
    /\ cast.stage = "sent"
    /\ need' = FALSE
    /\ cast' = [stage |-> "idle", state |-> NoState]
    /\ UNCHANGED <<kind, at, roster, pinning, looking, inFlight, upset, tasks>>

\* The owner's process dies: what is queued and stored stays.
OwnerDies ==
    /\ tasks.deaths > 0 /\ (cast.stage # "idle" \/ pinning # "")
    /\ cast' = [stage |-> "idle", state |-> NoState]
    /\ pinning' = ""
    /\ upset' = IF pinning = "" THEN upset ELSE upset \cup {"death"}
    /\ tasks' = [tasks EXCEPT !.deaths = @ - 1]
    /\ UNCHANGED <<kind, at, roster, need, looking, inFlight>>

-----------------------------------------------------------------------------
(* Receiving                                                               *)

Taken(from, to) == [inFlight EXCEPT ![from][to] = Tail(@)]

\* Where the channel's mail leads to, for one who is not in it: apply_in_broadcast_changes
\* takes whoever can read a mail for a member.
Included(a) == IF kind = "channel" THEN [a EXCEPT !.in = TRUE] ELSE a

\* The message: stored once, with what was put aside for it and the state it brings; a
\* copy of a message one has is thrown away with its state.
ReceivePost(a, m) ==
    IF a.has THEN a
    ELSE ReceiveState(ApplyPending([Included(a) EXCEPT !.has = TRUE]), m.state)

\* apply_in_broadcast_changes and the rest of add_parts at a subscriber.
InChannel(a, m) ==
    CASE m.kind = "added"   -> [a EXCEPT !.in = TRUE, !.secret = TRUE]
      [] m.kind = "removed" -> [a EXCEPT !.in = FALSE, !.secret = FALSE]
      [] m.kind = "post"    -> ReceivePost(a, m)
      [] m.kind = "cast"    -> ReceiveState(Included(a), m.state)
      [] m.kind = "react"   ->
             IF a.has THEN [Included(a) EXCEPT !.react[Owner] = m.emoji]
             ELSE SetPendingReaction(Included(a), Owner, m.emoji)
      [] m.kind \in {"pin", "unpin"} ->
             IF a.has THEN [Included(a) EXCEPT !.pinned = m.kind = "pin"] ELSE Included(a)

\* A subscriber gets a mail of the channel; one it has no secret for it cannot read.
ReceiveInChannel(s) ==
    /\ kind = "channel" /\ inFlight[Owner][s] # << >>
    /\ LET m == Head(inFlight[Owner][s])
           readable == ~m.sym \/ at[s].secret
       IN  /\ at' = IF readable THEN [at EXCEPT ![s] = InChannel(@, m)] ELSE at
           /\ upset' = IF m.kind = "post" /\ readable /\ ~at[s].in THEN upset \cup {"resent"}
                       ELSE upset
    /\ inFlight' = Taken(Owner, s)
    /\ UNCHANGED <<kind, roster, need, cast, pinning, looking, tasks>>

\* The owner gets a reaction, which has to be broadcast, or word that somebody left.
ReceiveAtOwner(s) ==
    /\ kind = "channel" /\ inFlight[s][Owner] # << >>
    /\ LET m == Head(inFlight[s][Owner])
       IN  IF m.kind = "left"
           THEN roster' = roster \ {s} /\ UNCHANGED <<at, need, upset>>
           ELSE /\ at' = [at EXCEPT ![Owner] = SetMsgIdReaction(@, Owner, s, m.emoji)]
                /\ need' = TRUE
                /\ upset' = IF cast.stage = "idle" THEN upset ELSE upset \cup {"overlap"}
                /\ UNCHANGED roster
    /\ inFlight' = Taken(s, Owner)
    /\ UNCHANGED <<kind, cast, pinning, looking, tasks>>

\* A member of a group gets the message.
ReceiveMessage(p) ==
    /\ kind = "group" /\ inFlight[Owner][p] # << >> /\ Head(inFlight[Owner][p]).kind = "post"
    /\ at' = [at EXCEPT ![p] = ReceivePost(@, Head(inFlight[Owner][p]))]
    /\ inFlight' = Taken(Owner, p)
    /\ upset' = IF looking[p] = NoLook THEN upset ELSE upset \cup {"overlap"}
    /\ UNCHANGED <<kind, roster, need, cast, pinning, looking, tasks>>

\* set_msg_reaction: the reaction is stored, or there is no such message yet ...
ReceiveReaction(q, p) ==
    /\ kind = "group" /\ looking[p] = NoLook
    /\ inFlight[q][p] # << >> /\ Head(inFlight[q][p]).kind = "react"
    /\ LET e == Head(inFlight[q][p]).emoji
       IN  IF at[p].has
           THEN at' = [at EXCEPT ![p] = SetMsgIdReaction(@, p, q, e)] /\ UNCHANGED looking
           ELSE looking' = [looking EXCEPT ![p] = [from |-> q, emoji |-> e]] /\ UNCHANGED at
    /\ inFlight' = Taken(q, p)
    /\ UNCHANGED <<kind, roster, need, cast, pinning, upset, tasks>>

\* ... and it is put aside.
PutAside(p) ==
    /\ looking[p] # NoLook
    /\ at' = [at EXCEPT ![p] = SetPendingReaction(@, looking[p].from, looking[p].emoji)]
    /\ looking' = [looking EXCEPT ![p] = NoLook]
    /\ UNCHANGED <<kind, roster, need, cast, pinning, inFlight, upset, tasks>>

-----------------------------------------------------------------------------

\* The owner has sent the message to everybody who is there.
ChannelInit ==
    /\ kind \in {"group", "channel"}
    /\ roster = IF kind = "group" THEN Subs ELSE Subs \ Late
    /\ at = [p \in People |->
               [in |-> p = Owner \/ p \in roster, secret |-> p = Owner \/ p \in roster,
                has |-> p = Owner, react |-> [q \in People |-> ""],
                pend |-> [q \in People |-> ""], shown |-> NoFrequencies, pinned |-> FALSE]]
    /\ need = FALSE /\ pinning = "" /\ upset = {}
    /\ cast = [stage |-> "idle", state |-> NoState]
    /\ looking = [p \in People |-> NoLook]
    /\ inFlight = Sent([p \in People |-> [q \in People |-> << >>]], Owner, roster,
                  [Letter0 EXCEPT !.kind = "post", !.sym = kind = "channel"])
    /\ tasks = [acts |-> MaxChannelActs, deaths |-> MaxChannelDeaths]

ReceiveAny ==
    \E s \in Subs : ReceiveInChannel(s) \/ ReceiveAtOwner(s) \/ ReceiveMessage(s)

Casting == CastRender \/ CastSend \/ CastClear

ChannelNext ==
    \/ \E p \in People, e \in Reactions : SendReaction(p, e)
    \/ \E v \in BOOLEAN : SetPinnedState(v)
    \/ UpdatePinnedState
    \/ \E s \in Subs : AddSubscriber(s) \/ RemoveSubscriber(s) \/ LeaveChannel(s)
    \/ Casting \/ OwnerDies \/ ReceiveAny
    \/ \E q \in People, p \in People : ReceiveReaction(q, p)
    \/ \E p \in People : PutAside(p)

ChannelSpec == ChannelInit /\ [][ChannelNext]_chanVars

-----------------------------------------------------------------------------
(* Properties                                                              *)

ChannelTypeOK ==
    /\ kind \in {"group", "channel"} /\ roster \subseteq Subs /\ need \in BOOLEAN
    /\ \A p \in People : at[p].react \in [People -> Reactions]
                         /\ at[p].shown \in [Emojis -> 0..(Cardinality(People) + 1)]
    /\ cast.stage \in {"idle", "rendered", "sent"} /\ pinning \in {"", "pin", "unpin"}

Quiet ==
    /\ \A p, q \in People : inFlight[p][q] = << >>
    /\ \A p \in People : looking[p] = NoLook
    /\ ~need /\ cast.stage = "idle" /\ pinning = ""

SameCounts(s) == GetMsgReactions(at[s]) = CalcFrequencies(at[Owner].react)

\* When nothing is under way everybody shows the same reactions: in a group each knows
\* each one's last choice, taken back or not, also when it came before the message; in a
\* channel the subscribers' counts are the owner's, one's own counted once.
ReactionsAgree ==
    Quiet /\ upset = {} =>
        IF kind = "group"
        THEN \A p, q \in People : at[p].react[q] = at[q].react[q]
        ELSE \A s \in roster : /\ at[Owner].react[s] = at[s].react[s]
                               /\ at[s].has => SameCounts(s)

\* The full, current state for every message that received a reaction change since the
\* last broadcast (broadcast_reactions.rs).  It fails for a change between the
\* rendering of a broadcast and the removal of its record.
EveryChangeCast ==
    Quiet /\ kind = "channel" /\ upset \subseteq {"overlap"} =>
        \A s \in roster : at[s].has => SameCounts(s)

\* Rejoining members get reactions cleared as necessary (chat.rs).  It fails: the
\* message they have makes the copy that brings the state a duplicate.
RejoinersCaughtUp ==
    Quiet /\ upset \subseteq {"rejoin"} =>
        \A s \in roster : kind = "channel" /\ at[s].has => SameCounts(s)

\* For subscribers of a channel the map of reactions by contact is empty or contains SELF
\* only (reaction.rs).  It fails: the owner's own reaction is sent to all of them.
OnlyOwnByContact ==
    kind = "channel" =>
        \A s \in Subs, q \in People : at[s].react[q] # "" => q = s

\* No new pending reactions of a message in the database (reaction.rs).  It fails when
\* the message arrives while its reaction is being put aside.
NonePendingForKnown == \A p, q \in People : at[p].has => at[p].pend[q] = ""

\* When nothing is under way the subscribers show a message pinned exactly if the owner
\* does, those who joined later too.
PinsAgree ==
    Quiet /\ kind = "channel" /\ upset = {} =>
        \A s \in roster : at[s].has => at[s].pinned = at[Owner].pinned

\* When nothing is under way somebody is in the channel, and can read it, exactly if the
\* owner has them on the list, whoever left, was removed or came back in between.
SubscribersAgree ==
    Quiet /\ kind = "channel" /\ "resent" \notin upset =>
        \A s \in Subs : at[s].in = (s \in roster) /\ at[s].secret = (s \in roster)

\* Once their mails have arrived, members and subscribers agree about reactions, pins and
\* the list of subscribers.
ChannelAgrees == ChannelTypeOK /\ ReactionsAgree /\ PinsAgree /\ SubscribersAgree
=============================================================================
