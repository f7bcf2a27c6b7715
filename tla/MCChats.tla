------------------------------ MODULE MCChats -------------------------------
(***************************************************************************)
(* What several people or devices come to agree on about a conversation:   *)
(* labels whose sync is lost or out of order, the members of a group,      *)
(* reactions and pins in groups and channels, the timer of a chat, and     *)
(* what one device shows of it.  Each behaviour runs one of them, the      *)
(* others rest in a first state.                                           *)
(***************************************************************************)
EXTENDS LabelSync, Membership, Channels, ChatTimers, ChatView

VARIABLE part    \* the one that runs

\* What the members of a group do, and until when.
MCTopics ==
    {[kinds |-> {"add", "remove", "text"}, until |-> 2], [kinds |-> {"rename", "text", "remove"}, until |-> 2],
     [kinds |-> {"describe", "add"}, until |-> 2], [kinds |-> {"add", "picture"}, until |-> 2],
     [kinds |-> {"add", "text"}, until |-> 3]}

\* The first user may have two calls under way, and a shorter timer for this correspondent than for all.
MCTimerCalls == [u \in {"a", "b"} |-> IF u = "a" THEN {1, 2} ELSE {1}]
Default(g, o) == [global |-> g, override |-> o]
MCDefaultsOf ==
    {[u \in {"a", "b"} |-> IF u = "a" THEN Default(2, 1) ELSE Default(0, -1)]}

\* What happens on the device of the user, in which chats and how often.
Scene(o, c, n, d) == [ops |-> o, chats |-> c, acts |-> n, deaths |-> d]
MCViewThemes ==
    {Scene({"draft", "drop", "send", "quote", "edit"}, {"g", "s"}, 3, 0),
     Scene({"receive", "visibility", "mute", "fresh", "notice", "notice all"}, {"g"}, 5, 0),
     Scene({"receive", "visibility", "mute", "notice all"}, {"g", "s"}, 3, 1),
     Scene({"device", "reset", "clock", "info", "draft"}, {"d"}, 3, 1),
     Scene({"receive", "forward", "save", "delete", "clock"}, {"g"}, 4, 0),
     Scene({"receive", "send", "quote", "draft"}, {"g", "s"}, 3, 0)}

chatsVars == <<part, vars, groupVars, chanVars, timerVars, viewVars>>

Rests(p, v, S) == part = p \/ v = CHOOSE x \in S : TRUE

ChatsInit ==
    /\ part \in {"labels", "group", "channel", "timers", "view"}
    /\ Init
    /\ MembershipInit /\ Rests("group", topic, Topics) /\ (part = "group" \/ \A u \in Users : group[u].exists)
    /\ ChannelInit /\ Rests("channel", kind, {"group"})
    /\ TimersInit /\ Rests("timers", defaults, DefaultsOf)
    /\ ViewInit /\ Rests("view", scene, ViewThemes)

LabelsRun == part = "labels" /\ Next /\ UNCHANGED <<part, groupVars, chanVars, timerVars, viewVars>>
GroupRuns == part = "group" /\ MembershipNext /\ UNCHANGED <<part, vars, chanVars, timerVars, viewVars>>
ChannelRuns == part = "channel" /\ ChannelNext /\ UNCHANGED <<part, vars, groupVars, timerVars, viewVars>>
TimersRun == part = "timers" /\ TimersNext /\ UNCHANGED <<part, vars, groupVars, chanVars, viewVars>>
ViewRuns == part = "view" /\ ViewNext /\ UNCHANGED <<part, vars, groupVars, chanVars, timerVars>>

ChatsNext == LabelsRun \/ GroupRuns \/ ChannelRuns \/ TimersRun \/ ViewRuns

ChatsSpec == ChatsInit /\ [][ChatsNext]_chatsVars

\* Once their mails have arrived, those who share a conversation agree about it.
PeersAgree == GroupAgrees /\ ChannelAgrees /\ TimersSafe

\* A removed member does not come back by an old mail, and new messages come at the end.
NothingComesBack == NoResurrection /\ AtBottom
=============================================================================
