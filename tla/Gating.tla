------------------------------- MODULE Gating -------------------------------
(***************************************************************************)
(* Inbox gating: mail from a sender who is neither known nor verified is   *)
(* held in the Unverified view until the sender is accepted, gating is     *)
(* switched off, or housekeeping sweeps it into Trash.                     *)
(*                                                                         *)
(*   core/src/email/gating.rs   apply, release, release_all, unhold, sweep *)
(*   core/src/contact.rs        scaleup_origin, mark_contact_id_as_verified*)
(*                              add_or_lookup_ext, set_blocked             *)
(*                                                                         *)
(* Each SQL statement or transaction is one step.  Three tasks run         *)
(* concurrently: the inbox, which receives mail, the user's JSON-RPC call, *)
(* and housekeeping.  The clock counts days and moves between handlers.    *)
(***************************************************************************)
EXTENDS Integers, FiniteSets

CONSTANTS
    Msgs,         \* messages that may arrive
    Contacts,     \* contact rows
    Self,         \* ContactId::SELF
    Persons,      \* the rows with one address, for each address: one person
    Keys,         \* the key-contacts among them, which alone can be verified
    Raisable,     \* contacts other people's mail or an import may make known
    Blockable,    \* contacts the user may block
    Windows,      \* values the user may give Config::UnverifiedTrashDays
    MaxRunning,   \* handlers that may be in flight at once
    MaxNow,       \* bound on the clock
    MaxFaults     \* bound on failed statements and process deaths

ASSUME ContactsAssumption ==
    /\ Self \notin Contacts
    /\ Persons \subseteq SUBSET Contacts
    /\ Keys \subseteq Contacts
    /\ Raisable \subseteq Contacts
    /\ Blockable \subseteq Contacts
ASSUME WindowsAssumption == Windows \subseteq Nat
ASSUME BoundsAssumption == MaxNow \in Nat /\ MaxFaults \in Nat /\ MaxRunning \in Nat

VARIABLES
    now,         \* the device's clock
    msgs,        \* table msgs: unreceived, live, or a tombstone
    from_id,     \* msgs.from_id, None before reception and in a tombstone
    unverified,  \* messages labelled Unverified
    trashed,     \* messages labelled Trash
    unaccepted,  \* messages with a trashed_msgs row whose reason is Unaccepted
    held_at,     \* table held_msgs, NoRow without a row
    known,       \* contacts whose origin is at least IncomingReplyTo
    verified,    \* key-contacts with a verifier
    blocked,     \* blocked contacts
    enabled,     \* Config::InboxGating
    hold_days,   \* Config::UnverifiedTrashDays
    pc,          \* where each task is
    todo,        \* contacts a release has still to look at
    rows,        \* sender rows of the contact it is looking at
    ids,         \* messages a handler works on
    faults,      \* failures so far
    fate         \* history: what was decided about a message that was held

contacts == <<known, verified, blocked>>
settings == <<enabled, hold_days>>
mail == <<msgs, from_id, unverified, trashed, unaccepted, held_at>>
control == <<pc, todo, rows, ids>>
vars == <<now, mail, contacts, settings, control, faults, fate>>

Inbox == "inbox"
User == "user"
Housekeeping == "housekeeping"
Tasks == {Inbox, User, Housekeeping}

Idle == "idle"
Labels == {Idle, "apply", "hold_label", "hold_row",
           "check", "select", "release_label", "release_row",
           "free", "free_label", "free_row",
           "sweep", "trash_label", "trash_row", "sweep_label", "sweep_row"}

NoRow == -1
None == "none"

TypeOK ==
    /\ now \in Nat
    /\ msgs \in [Msgs -> {"unreceived", "live", "tombstone"}]
    /\ from_id \in [Msgs -> Contacts \cup {Self, None}]
    /\ unverified \subseteq Msgs
    /\ trashed \subseteq Msgs
    /\ unaccepted \subseteq Msgs
    /\ held_at \in [Msgs -> Nat \cup {NoRow}]
    /\ known \subseteq Contacts
    /\ verified \subseteq Keys
    /\ blocked \subseteq Blockable
    /\ enabled \in BOOLEAN
    /\ hold_days \in Windows
    /\ pc \in [Tasks -> Labels]
    /\ todo \in [Tasks -> SUBSET Contacts]
    /\ rows \in [Tasks -> SUBSET Contacts]
    /\ ids \in [Tasks -> SUBSET Msgs]
    /\ faults \in Nat
    /\ fate \in [Msgs -> {"none", "held", "accepted", "freed"}]

Init ==
    /\ now = 1
    /\ msgs = [m \in Msgs |-> "unreceived"]
    /\ from_id = [m \in Msgs |-> None]
    /\ unverified = {}
    /\ trashed = {}
    /\ unaccepted = {}
    /\ held_at = [m \in Msgs |-> NoRow]
    /\ known = {}
    /\ verified = {}
    /\ blocked = {}
    /\ enabled \in BOOLEAN
    /\ hold_days \in Windows
    /\ pc = [t \in Tasks |-> Idle]
    /\ todo = [t \in Tasks |-> {}]
    /\ rows = [t \in Tasks |-> {}]
    /\ ids = [t \in Tasks |-> {}]
    /\ faults = 0
    /\ fate = [m \in Msgs |-> "none"]

Live == {m \in Msgs : msgs[m] = "live"}
Held == {m \in Msgs : held_at[m] # NoRow}
Quiet == \A t \in Tasks : pc[t] = Idle

\* A handler may begin: its task is free and not too many others are running.
CanStart(t) ==
    /\ pc[t] = Idle
    /\ Cardinality({u \in Tasks : pc[u] # Idle}) < MaxRunning

\* The other, unblocked rows with the same address.
SamePerson(c) == {d \in Contacts \ blocked : d # c /\ \E P \in Persons : {c, d} \subseteq P}

\* Known or verified on the row itself; only "known" carries across rows.
IsTrusted(c) ==
    \/ c = Self
    \/ c \in known \cup verified
    \/ SamePerson(c) \cap known # {}

Goto(t, label) == pc' = [pc EXCEPT ![t] = label]

Done(t) ==
    /\ Goto(t, Idle)
    /\ todo' = [todo EXCEPT ![t] = {}]
    /\ rows' = [rows EXCEPT ![t] = {}]
    /\ ids' = [ids EXCEPT ![t] = {}]

DeleteHeld(S) == held_at' = [m \in Msgs |-> IF m \in S THEN NoRow ELSE held_at[m]]

Decide(S, what) == fate' = [m \in Msgs |-> IF m \in S THEN what ELSE fate[m]]

----------------------------------------------------------------------------
(***************************************************************************)
(* apply: the receive hook.                                                *)
(***************************************************************************)

Receive(m, c) ==
    /\ CanStart(Inbox)
    /\ msgs[m] = "unreceived"
    /\ msgs' = [msgs EXCEPT ![m] = "live"]
    /\ from_id' = [from_id EXCEPT ![m] = c]
    /\ ids' = [ids EXCEPT ![Inbox] = {m}]
    /\ Goto(Inbox, "apply")
    /\ UNCHANGED <<now, unverified, trashed, unaccepted, held_at, contacts,
                   settings, todo, rows, faults, fate>>

\* Only incoming mail is held: a tombstone is addressed to nobody.
ApplyCheck ==
    /\ pc[Inbox] = "apply"
    /\ IF enabled /\ \A m \in ids[Inbox] : m \in Live /\ ~IsTrusted(from_id[m])
       THEN /\ Goto(Inbox, "hold_label")
            /\ UNCHANGED <<todo, rows, ids>>
       ELSE Done(Inbox)
    /\ UNCHANGED <<now, mail, contacts, settings, faults, fate>>

\* Mutant of HoldLabel: the row first, the label after it.
BugHoldLabel ==
    /\ pc[Inbox] = "hold_label"
    /\ IF \E m \in ids[Inbox] : held_at[m] # NoRow \/ fate[m] # "none"
       THEN /\ unverified' = unverified \cup ids[Inbox]
            /\ Goto(Inbox, "hold_row")
            /\ UNCHANGED <<held_at, fate>>
       ELSE /\ held_at' = [m \in Msgs |-> IF m \in ids[Inbox] THEN now ELSE held_at[m]]
            /\ UNCHANGED <<pc, unverified, fate>>
    /\ UNCHANGED <<now, msgs, from_id, trashed, unaccepted, contacts,
                   settings, todo, rows, ids, faults>>

HoldLabel ==
    /\ pc[Inbox] = "hold_label"
    /\ unverified' = unverified \cup ids[Inbox]
    /\ Decide(ids[Inbox], "held")
    /\ Goto(Inbox, "hold_row")
    /\ UNCHANGED <<now, msgs, from_id, trashed, unaccepted, held_at, contacts,
                   settings, todo, rows, ids, faults>>

HoldRow ==
    /\ pc[Inbox] = "hold_row"
    /\ held_at' = [m \in Msgs |-> IF m \in ids[Inbox] \ Held THEN now ELSE held_at[m]]
    /\ Done(Inbox)
    /\ UNCHANGED <<now, msgs, from_id, unverified, trashed, unaccepted, contacts,
                   settings, faults, fate>>

----------------------------------------------------------------------------
(***************************************************************************)
(* Trust, and release.                                                     *)
(***************************************************************************)

\* scaleup_origin: the origins go up, then release looks at every contact of
\* the slice.  Most scale-ups stay below the threshold.
ScaleupOrigin(t, C, isKnown) ==
    /\ CanStart(t)
    /\ known' = IF isKnown THEN known \cup C ELSE known
    /\ todo' = [todo EXCEPT ![t] = C]
    /\ Goto(t, "check")
    /\ UNCHANGED <<now, mail, verified, blocked, settings, rows, ids, faults, fate>>

\* mark_contact_id_as_verified, which refuses a row without a key.
MarkVerified(t, c) ==
    /\ CanStart(t)
    /\ c \in Keys
    /\ verified' = verified \cup {c}
    /\ todo' = [todo EXCEPT ![t] = {c}]
    /\ Goto(t, "check")
    /\ UNCHANGED <<now, mail, known, blocked, settings, rows, ids, faults, fate>>

\* release_held_contact, the JSON-RPC call.
ReleaseHeldContact(c) ==
    /\ CanStart(User)
    /\ todo' = [todo EXCEPT ![User] = {c}]
    /\ Goto(User, "check")
    /\ UNCHANGED <<now, mail, contacts, settings, rows, ids, faults, fate>>

\* add_or_lookup_ext raises an origin by an UPDATE of its own, without release.
AddOrLookup(t, c) ==
    /\ CanStart(t)
    /\ c \in Raisable
    /\ known' = known \cup {c}
    /\ UNCHANGED <<now, mail, verified, blocked, settings, control, faults, fate>>

SetBlocked(c, b) ==
    /\ CanStart(User)
    /\ c \in Blockable
    /\ blocked' = IF b THEN blocked \cup {c} ELSE blocked \ {c}
    /\ UNCHANGED <<now, mail, known, verified, settings, control, faults, fate>>

\* Mutant of ReleaseCheck: only the row it was called with.
BugReleaseCheck(t, c) ==
    /\ pc[t] = "check"
    /\ c \in todo[t]
    /\ todo' = [todo EXCEPT ![t] = @ \ {c}]
    /\ IF IsTrusted(c)
       THEN /\ rows' = [rows EXCEPT ![t] = {c}]
            /\ Goto(t, "select")
       ELSE UNCHANGED <<rows, pc>>
    /\ UNCHANGED <<now, mail, contacts, settings, ids, faults, fate>>

\* One contact of the slice: nothing if it is not trusted, else its mail and
\* the mail of every other row of the person.
ReleaseCheck(t, c) ==
    /\ pc[t] = "check"
    /\ c \in todo[t]
    /\ todo' = [todo EXCEPT ![t] = @ \ {c}]
    /\ IF IsTrusted(c)
       THEN /\ rows' = [rows EXCEPT ![t] = {c} \cup SamePerson(c)]
            /\ Goto(t, "select")
       ELSE UNCHANGED <<rows, pc>>
    /\ UNCHANGED <<now, mail, contacts, settings, ids, faults, fate>>

ReleaseSelect(t, r) ==
    LET found == {m \in Held : from_id[m] = r} IN
    /\ pc[t] = "select"
    /\ r \in rows[t]
    /\ rows' = [rows EXCEPT ![t] = @ \ {r}]
    /\ ids' = [ids EXCEPT ![t] = found]
    /\ Goto(t, IF found = {} THEN "select" ELSE "release_label")
    /\ UNCHANGED <<now, mail, contacts, settings, todo, faults, fate>>

\* The rows of one contact, and then the contacts, are through.
ReleaseNext(t) ==
    \/ /\ pc[t] = "select"
       /\ rows[t] = {}
       /\ Goto(t, "check")
       /\ UNCHANGED <<now, mail, contacts, settings, todo, rows, ids, faults, fate>>
    \/ /\ pc[t] = "check"
       /\ todo[t] = {}
       /\ Done(t)
       /\ UNCHANGED <<now, mail, contacts, settings, faults, fate>>

\* unhold: the label comes off in one transaction, the row in the next.
UnholdLabel(t, here, there, decided, what) ==
    /\ pc[t] = here
    /\ unverified' = unverified \ ids[t]
    /\ Decide(decided, what)
    /\ Goto(t, there)
    /\ UNCHANGED <<now, msgs, from_id, trashed, unaccepted, held_at, contacts,
                   settings, todo, rows, ids, faults>>

UnholdRows(t) ==
    /\ DeleteHeld(ids[t])
    /\ UNCHANGED <<now, msgs, from_id, unverified, trashed, unaccepted, contacts,
                   settings, faults, fate>>

ReleaseLabel(t) ==
    UnholdLabel(t, "release_label", "release_row", ids[t], "accepted")

ReleaseRow(t) ==
    /\ pc[t] = "release_row"
    /\ UnholdRows(t)
    /\ Goto(t, "select")
    /\ UNCHANGED <<todo, rows, ids>>

----------------------------------------------------------------------------
(***************************************************************************)
(* set_enabled: switching gating off releases everything held.             *)
(***************************************************************************)

SetEnabled(b) ==
    /\ CanStart(User)
    /\ enabled' = b
    /\ Goto(User, IF b THEN Idle ELSE "free")
    /\ UNCHANGED <<now, mail, contacts, hold_days, todo, rows, ids, faults, fate>>

FreeSelect ==
    /\ pc[User] = "free"
    /\ IF Held = {}
       THEN Done(User)
       ELSE /\ ids' = [ids EXCEPT ![User] = Held]
            /\ Goto(User, "free_label")
            /\ UNCHANGED <<todo, rows>>
    /\ UNCHANGED <<now, mail, contacts, settings, faults, fate>>

FreeLabel ==
    UnholdLabel(User, "free_label", "free_row",
                {m \in ids[User] : fate[m] = "held"}, "freed")

FreeRow ==
    /\ pc[User] = "free_row"
    /\ UnholdRows(User)
    /\ Done(User)

SetHoldDays(w) ==
    /\ hold_days' = w
    /\ UNCHANGED <<now, mail, contacts, enabled, control, faults, fate>>

----------------------------------------------------------------------------
(***************************************************************************)
(* Housekeeping: labels::prune, then sweep.                                *)
(***************************************************************************)

LabelsPrune ==
    /\ CanStart(Housekeeping)
    /\ unverified' = unverified \cap Live
    /\ trashed' = trashed \cap Live
    /\ Goto(Housekeeping, "sweep")
    /\ UNCHANGED <<now, msgs, from_id, unaccepted, held_at, contacts, settings,
                   todo, rows, ids, faults, fate>>

\* Mutant of SweepSelect: out of the hold first, into the trash afterwards.
BugSweepOrder ==
    LET due == {m \in Held : held_at[m] <= now - hold_days} IN
    /\ pc[Housekeeping] = "sweep"
    /\ IF hold_days <= 0 \/ due = {}
       THEN /\ Done(Housekeeping)
            /\ UNCHANGED unverified
       ELSE /\ ids' = [ids EXCEPT ![Housekeeping] = due]
            /\ unverified' = unverified \ due
            /\ Goto(Housekeeping, "trash_label")
            /\ UNCHANGED <<todo, rows>>
    /\ UNCHANGED <<now, msgs, from_id, trashed, unaccepted, held_at, contacts,
                   settings, faults, fate>>

\* Mutant of SweepSelect: a hold is due only the day after its window.
BugSweepLate ==
    LET due == {m \in Held : held_at[m] < now - hold_days} IN
    /\ pc[Housekeeping] = "sweep"
    /\ IF hold_days <= 0 \/ due = {}
       THEN /\ DeleteHeld(Msgs \ Live)
            /\ Done(Housekeeping)
       ELSE /\ ids' = [ids EXCEPT ![Housekeeping] = due]
            /\ Goto(Housekeeping, "trash_label")
            /\ UNCHANGED <<held_at, todo, rows>>
    /\ UNCHANGED <<now, msgs, from_id, unverified, trashed, unaccepted, contacts,
                   settings, faults, fate>>

\* The deadline is held_at plus the window of today.  With no window, or
\* nothing due, only the rows of destroyed messages go.
SweepSelect ==
    LET due == {m \in Held : held_at[m] <= now - hold_days} IN
    /\ pc[Housekeeping] = "sweep"
    /\ IF hold_days <= 0 \/ due = {}
       THEN /\ DeleteHeld(Msgs \ Live)
            /\ Done(Housekeeping)
       ELSE /\ ids' = [ids EXCEPT ![Housekeeping] = due]
            /\ Goto(Housekeeping, "trash_label")
            /\ UNCHANGED <<held_at, todo, rows>>
    /\ UNCHANGED <<now, msgs, from_id, unverified, trashed, unaccepted, contacts,
                   settings, faults, fate>>

\* to_trash, reason Unaccepted: the label and then the row.
SweepTrashLabel ==
    /\ pc[Housekeeping] = "trash_label"
    /\ trashed' = trashed \cup ids[Housekeeping]
    /\ Goto(Housekeeping, "trash_row")
    /\ UNCHANGED <<now, msgs, from_id, unverified, unaccepted, held_at, contacts,
                   settings, todo, rows, ids, faults, fate>>

SweepTrashRow ==
    /\ pc[Housekeeping] = "trash_row"
    /\ unaccepted' = unaccepted \cup ids[Housekeeping]
    /\ Goto(Housekeeping, "sweep_label")
    /\ UNCHANGED <<now, msgs, from_id, unverified, trashed, held_at, contacts,
                   settings, todo, rows, ids, faults, fate>>

SweepLabel ==
    UnholdLabel(Housekeeping, "sweep_label", "sweep_row", {}, "held")

SweepRow ==
    /\ pc[Housekeeping] = "sweep_row"
    /\ UnholdRows(Housekeeping)
    /\ Done(Housekeeping)

----------------------------------------------------------------------------
(***************************************************************************)
(* The trash next door, one action per outcome (module Trash has the       *)
(* steps), the clock, and failure.                                         *)
(***************************************************************************)

TrashByUser(m) ==
    /\ m \in Live \ trashed
    /\ trashed' = trashed \cup {m}
    /\ UNCHANGED <<now, msgs, from_id, unverified, unaccepted, held_at, contacts,
                   settings, control, faults, fate>>

Restore(m) ==
    /\ m \in Live \cap trashed
    /\ trashed' = trashed \ {m}
    /\ unaccepted' = unaccepted \ {m}
    /\ Decide({m} \cap {n \in Msgs : fate[n] = "held"}, "freed")
    /\ UNCHANGED <<now, msgs, from_id, unverified, held_at, contacts, settings,
                   control, faults>>

Purge(m) ==
    /\ m \in Live \cap trashed
    /\ msgs' = [msgs EXCEPT ![m] = "tombstone"]
    /\ from_id' = [from_id EXCEPT ![m] = None]
    /\ unaccepted' = unaccepted \ {m}
    /\ UNCHANGED <<now, unverified, trashed, held_at, contacts, settings, control,
                   faults, fate>>

Tick ==
    /\ Quiet
    /\ now < MaxNow
    /\ now' = now + 1
    /\ UNCHANGED <<mail, contacts, settings, control, faults, fate>>

\* A statement fails: the handler ends where it is.
Fail(t) ==
    /\ faults < MaxFaults
    /\ pc[t] # Idle
    /\ faults' = faults + 1
    /\ Done(t)
    /\ UNCHANGED <<now, mail, contacts, settings, fate>>

Crash ==
    /\ faults < MaxFaults
    /\ ~Quiet
    /\ faults' = faults + 1
    /\ pc' = [t \in Tasks |-> Idle]
    /\ todo' = [t \in Tasks |-> {}]
    /\ rows' = [t \in Tasks |-> {}]
    /\ ids' = [t \in Tasks |-> {}]
    /\ UNCHANGED <<now, mail, contacts, settings, fate>>

----------------------------------------------------------------------------

ReleaseStep(t) ==
    \/ \E c \in Contacts : ReleaseCheck(t, c) \/ ReleaseSelect(t, c)
    \/ ReleaseNext(t)
    \/ ReleaseLabel(t)
    \/ ReleaseRow(t)

InboxStep == ApplyCheck \/ HoldLabel \/ HoldRow \/ ReleaseStep(Inbox)

UserStep == FreeSelect \/ FreeLabel \/ FreeRow \/ ReleaseStep(User)

HousekeepingStep ==
    \/ LabelsPrune
    \/ SweepSelect
    \/ SweepTrashLabel
    \/ SweepTrashRow
    \/ SweepLabel
    \/ SweepRow

Event ==
    \/ \E m \in Msgs, c \in Contacts \cup {Self} : Receive(m, c)
    \/ \E t \in {Inbox, User}, C \in SUBSET Contacts \ {{}}, b \in BOOLEAN :
          ScaleupOrigin(t, C, b)
    \/ \E t \in {Inbox, User}, c \in Contacts : MarkVerified(t, c)
    \/ \E c \in Contacts : ReleaseHeldContact(c)
    \/ \E t \in {Inbox, User}, c \in Contacts : AddOrLookup(t, c)
    \/ \E c \in Contacts, b \in BOOLEAN : SetBlocked(c, b)
    \/ \E b \in BOOLEAN : SetEnabled(b)
    \/ \E w \in Windows : SetHoldDays(w)
    \/ \E m \in Msgs : TrashByUser(m) \/ Restore(m) \/ Purge(m)

Fault == Crash \/ \E t \in Tasks : Fail(t)

Next ==
    \/ Tick
    \/ InboxStep
    \/ UserStep
    \/ HousekeepingStep
    \/ Event
    \/ Fault

\* Housekeeping runs daily, whatever else is in flight; a handler that has begun
\* runs on and is done within the day.
Fairness ==
    /\ SF_vars(Tick)
    /\ WF_vars(InboxStep)
    /\ WF_vars(UserStep)
    /\ SF_vars(HousekeepingStep)
    /\ []<>Quiet

Spec == Init /\ [][Next]_vars
FairSpec == Spec /\ Fairness

----------------------------------------------------------------------------
(***************************************************************************)
(* Properties.                                                             *)
(***************************************************************************)

\* A message released because its sender was accepted never shows up in the
\* Unverified view again, although apply labels it and records the hold in two
\* transactions that a release may fall between.
AcceptedNotUnverified ==
    \A m \in Msgs : fate[m] = "accepted" => m \notin unverified

\* sweep moves "into the trash first, then out of the hold", so that no failure
\* leaves a message "tagged neither, which nothing would ever look at again":
\* mail that was held and nobody decided about is in Unverified or in Trash.
NothingLost ==
    \A m \in Live : fate[m] = "held" => m \in unverified \cup trashed

\* Between handlers, no mail is held whose sender is_trusted says would reach
\* the inbox: release covers the very rows that is_trusted looks at.
TrustedNotHeld ==
    Quiet => \A m \in Held \cap Live :
                from_id[m] \notin blocked => ~IsTrusted(from_id[m])

\* While gating is off, nothing is held.
OffHoldsNothing ==
    Quiet /\ ~enabled => Held \cap Live = {}

\* Mail on hold does not stay in the Unverified view for good: within the longest
\* window it is released, swept or destroyed, although releases and sweeps take
\* several statements each and one may fail or die half-way.
HoldEnds ==
    \A m \in Msgs :
        (m \in Held \cap unverified \cap Live /\ \A w \in Windows : now + w <= MaxNow)
            ~> m \notin unverified \cap Live

\* What one handler at a time leaves behind: nothing of a trusted sender is held, and nothing
\* at all once gating is off.
GatingSettled == TypeOK /\ TrustedNotHeld /\ OffHoldsNothing
=============================================================================
