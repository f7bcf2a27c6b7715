----------------------------- MODULE MCContacts -----------------------------
(***************************************************************************)
(* The people a user has to do with: gating with one handler at a time,    *)
(* the blocklist, the address book on two devices, joining by a code, and  *)
(* the migration to contacts known by their key.  Each behaviour runs one  *)
(* of them, the others rest in a first state.                              *)
(***************************************************************************)
EXTENDS Gating, Blocking, Contacts, SecureJoin, KeyContacts

VARIABLE part    \* the one that runs

\* One correspondent who has an address-contact and a key-contact with the one address.
MCAddrOf == [c \in {"k", "a"} |-> "x"]
MCDomainOf == [d \in {"x"} |-> "@d"]

\* What the user and the mails of a behaviour do to contacts, and how often.
MCThemes ==
    {[ops |-> {"mail", "import", "create", "name"}, phones |-> {1}, budget |-> 4],
     [ops |-> {"mail", "verify", "group"}, phones |-> {1}, budget |-> 5],
     [ops |-> {"mail", "create", "name", "block", "unblock chat", "open", "accept", "delete", "group"},
      phones |-> {1, 2}, budget |-> 3],
     [ops |-> {"mail", "visibility", "mute", "accept", "block"}, phones |-> {1, 2}, budget |-> 3]}

\* What is joined, whether the code is new and the key known, and how many codes, seconds,
\* scans and other events there are.
Case(d, v, y, n, t, s, e) ==
    [kind |-> d, v3 |-> v, key |-> y, codes |-> n, ticks |-> t, scans |-> s, events |-> e]
MCJoinCases ==
    {Case("contact", TRUE, FALSE, 1, 0, 1, 1), Case("group", FALSE, FALSE, 1, 1, 1, 1),
     Case("channel", TRUE, TRUE, 1, 1, 1, 1), Case("group", TRUE, FALSE, 1, 0, 2, 0),
     Case("group", TRUE, FALSE, 2, 1, 0, 2)}

peopleVars == <<part, vars, blockingVars, contactVars, joinVars, keyVars>>

Rests(p, v, S) == part = p \/ v = CHOOSE x \in S : TRUE

PeopleInit ==
    /\ part \in {"gating", "blocking", "contacts", "joining", "keys"}
    /\ Init /\ Rests("gating", <<enabled, hold_days>>, BOOLEAN \X Windows)
    /\ BlockingInit
    /\ ContactsInit /\ Rests("contacts", theme, ContactThemes)
    /\ JoinInit /\ Rests("joining", joinCase, JoinCases)
    /\ KeyInit /\ Rests("keys", peers, PeerTables) /\ Rests("keys", chat, Chats)
    /\ Rests("keys", order, {<<10, 11>>}) /\ Rests("keys", chatmail, {FALSE})

GatingRuns == part = "gating" /\ Next /\ UNCHANGED <<part, blockingVars, contactVars, joinVars, keyVars>>
BlockingRuns == part = "blocking" /\ BlockingNext /\ UNCHANGED <<part, vars, contactVars, joinVars, keyVars>>
ContactsRun == part = "contacts" /\ ContactsNext /\ UNCHANGED <<part, vars, blockingVars, joinVars, keyVars>>
JoiningRuns == part = "joining" /\ JoinNext /\ UNCHANGED <<part, vars, blockingVars, contactVars, keyVars>>
KeysRun == part = "keys" /\ KeyNext /\ UNCHANGED <<part, vars, blockingVars, contactVars, joinVars>>

PeopleNext == GatingRuns \/ BlockingRuns \/ ContactsRun \/ JoiningRuns \/ KeysRun

\* The fairness of the modules, for the one that runs.
PeopleFairness ==
    /\ WF_joinVars(part = "joining" /\ JoinerStep)
    /\ \A d \in Hosts : WF_joinVars(part = "joining" /\ HostStep(d))
    /\ WF_keyVars(part = "keys" /\ MigrateKeyContacts) /\ WF_keyVars(part = "keys" /\ RewriteMsgs)

PeopleSpec == PeopleInit /\ [][PeopleNext]_peopleVars /\ PeopleFairness

\* Joining comes to its end, and so does the rewriting of old messages.
JoinedAndRewritten == []<>(JoinCompleted /\ AllRewritten)
=============================================================================
