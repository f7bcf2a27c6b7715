------------------------------- MODULE Accounts ------------------------------
(***************************************************************************)
(* The account manager (core/src/accounts.rs): accounts.toml with its      *)
(* lock, the directory of each account, and the operations that change     *)
(* both in several steps.  Two processes may try to open the folder; any   *)
(* step on the file system may fail, and the process may die between two   *)
(* of them.                                                                *)
(***************************************************************************)
EXTENDS Integers, Sequences, FiniteSets, FiniteSetsExt, Functions

CONSTANTS
    Procs,         \* processes that open the accounts folder
    MaxAccounts,   \* ids handed out
    MaxAccOps,
    MaxAccFaults   \* deaths and failing file operations

NoProc == "none"
NoAccount == 0

ASSUME ProcsAssumption == IsFiniteSet(Procs) /\ NoProc \notin Procs
ASSUME AccBounds == MaxAccounts \in Nat /\ MaxAccOps \in Nat /\ MaxAccFaults \in Nat

\* The accounts are listed by increasing id, since a new one is put at the end; of the order
\* the user chose it matters which accounts it names.
EmptyToml == [accounts |-> {}, order |-> {}, selected |-> NoAccount, next |-> 1]
Down == [up |-> FALSE, writable |-> FALSE, toml |-> EmptyToml, open |-> {}, at |-> "idle", id |-> NoAccount,
         old |-> NoAccount]

VARIABLES
    lockedBy,  \* who holds accounts.lock
    accountsToml,      \* accounts.toml
    dirs,      \* id -> what its directory has: "none", "empty", "mail"
    outside,   \* the account to be migrated: "whole", "torn" (database moved alone), "moved"
    procs,     \* process -> its Config, open accounts, operation under way
    everUsed,  \* history: ids handed out
    hurt,      \* history: what deaths and failures left behind
    left       \* operations and faults left

accVars == <<lockedBy, accountsToml, dirs, outside, procs, everUsed, hurt, left>>

-----------------------------------------------------------------------------
(* accounts.toml                                                           *)

\* Config::sync: written beside, synced and renamed, so the file is the old or the new one.
Sync(p, t) ==
    /\ procs[p].writable /\ lockedBy = p
    /\ accountsToml' = t

\* The id of a new account.
NextId(t) == t.next

\* Config::new_account, up to its first sync.
WithNew(t) ==
    [t EXCEPT !.accounts = @ \cup {NextId(t)}, !.order = @ \cup {NextId(t)}, !.next = NextId(t) + 1]

\* Config::remove_account: the first of the others is selected in its place.
Without(t, id) ==
    LET rest == t.accounts \ {id}
    IN  [t EXCEPT !.accounts = rest, !.order = @ \ {id},
                  !.selected = IF @ # id THEN @ ELSE IF rest = {} THEN NoAccount ELSE Min(rest)]

-----------------------------------------------------------------------------
(* Opening and closing                                                     *)

Loaded(t) == [i \in DOMAIN dirs |-> IF i \in t.accounts /\ dirs[i] = "none" THEN "empty" ELSE dirs[i]]

BugOpenAccounts(p, writable) ==
    /\ ~procs[p].up
    /\ lockedBy' = IF writable THEN p ELSE lockedBy
    /\ dirs' = Loaded(accountsToml)
    /\ procs' = [procs EXCEPT ![p] = [Down EXCEPT !.up = TRUE, !.writable = writable, !.toml = accountsToml,
                                                  !.open = accountsToml.accounts]]
    /\ UNCHANGED <<accountsToml, outside, everUsed, hurt, left>>

\* open: a writer needs the lock; loading creates what is missing of an account.
OpenAccounts(p, writable) ==
    /\ ~procs[p].up
    /\ writable => lockedBy = NoProc
    /\ lockedBy' = IF writable THEN p ELSE lockedBy
    /\ dirs' = Loaded(accountsToml)
    /\ procs' = [procs EXCEPT ![p] = [Down EXCEPT !.up = TRUE, !.writable = writable, !.toml = accountsToml,
                                                  !.open = accountsToml.accounts]]
    /\ UNCHANGED <<accountsToml, outside, everUsed, hurt, left>>

Unlocked(p) == IF lockedBy = p THEN NoProc ELSE lockedBy

CloseAccounts(p) ==
    /\ procs[p].up /\ procs[p].at = "idle"
    /\ procs' = [procs EXCEPT ![p] = Down] /\ lockedBy' = Unlocked(p)
    /\ UNCHANGED <<accountsToml, dirs, outside, everUsed, hurt, left>>

AccFault == left.faults > 0 /\ left' = [left EXCEPT !.faults = @ - 1]

ProcessDies(p) ==
    /\ procs[p].up /\ procs[p].at # "idle" /\ AccFault
    /\ hurt' = hurt \cup {procs[p].at}
    /\ procs' = [procs EXCEPT ![p] = Down] /\ lockedBy' = Unlocked(p)
    /\ UNCHANGED <<accountsToml, dirs, outside, everUsed>>

-----------------------------------------------------------------------------
(* Operations                                                              *)

MayOperate(p) == procs[p].writable /\ procs[p].at = "idle"
Operation == left.ops > 0 /\ left' = [left EXCEPT !.ops = @ - 1]

\* add_account and migrate_account begin with Config::new_account ...
NewAccount(p, then) ==
    /\ MayOperate(p) /\ Operation /\ procs[p].toml.next <= MaxAccounts
    /\ then = "migrating" => outside = "whole"
    /\ LET t == WithNew(procs[p].toml) IN
       /\ Sync(p, t)
       /\ procs' = [procs EXCEPT ![p].toml = t, ![p].at = then, ![p].id = NextId(procs[p].toml),
                                 ![p].old = procs[p].toml.selected]
       /\ everUsed' = Append(everUsed, NextId(procs[p].toml))
    /\ UNCHANGED <<lockedBy, dirs, outside, hurt>>

\* ... whose second sync selects it.
SelectNew(p) ==
    /\ procs[p].at \in {"adding", "migrating"}
    /\ LET t == [procs[p].toml EXCEPT !.selected = procs[p].id] IN
       /\ Sync(p, t)
       /\ procs' = [procs EXCEPT ![p].toml = t, ![p].at = IF @ = "adding" THEN "creating" ELSE "moving"]
    /\ UNCHANGED <<lockedBy, dirs, outside, everUsed, hurt, left>>

\* The context of a new account: directory and database.
CreateContext(p) ==
    /\ procs[p].at = "creating"
    /\ dirs' = [dirs EXCEPT ![procs[p].id] = IF @ = "none" THEN "mail" ELSE @]
    /\ procs' = [procs EXCEPT ![p].at = "idle", ![p].open = @ \cup {procs[p].id}]
    /\ UNCHANGED <<lockedBy, accountsToml, outside, everUsed, hurt, left>>

\* migrate_account renames the database, then the blobs ...
MoveDatabase(p) ==
    /\ procs[p].at = "moving"
    /\ outside' = "torn"
    /\ dirs' = [dirs EXCEPT ![procs[p].id] = "empty"]
    /\ procs' = [procs EXCEPT ![p].at = "moving blobs"]
    /\ UNCHANGED <<lockedBy, accountsToml, everUsed, hurt, left>>

MoveBlobs(p) ==
    /\ procs[p].at = "moving blobs"
    /\ outside' = "moved"
    /\ dirs' = [dirs EXCEPT ![procs[p].id] = "mail"]
    /\ procs' = [procs EXCEPT ![p].at = "idle", ![p].open = @ \cup {procs[p].id}]
    /\ UNCHANGED <<lockedBy, accountsToml, everUsed, hurt, left>>

\* ... and a failure of either returns at once: the branch that would remove the account
\* and select the old one is never reached.
MigrationFails(p) ==
    /\ procs[p].at \in {"moving", "moving blobs"} /\ AccFault
    /\ hurt' = hurt \cup {"migration failed"}
    /\ procs' = [procs EXCEPT ![p].at = "idle"]
    /\ UNCHANGED <<lockedBy, accountsToml, dirs, outside, everUsed>>

\* remove_account: the account is closed, its directory removed ...
RemoveAccount(p, id) ==
    /\ MayOperate(p) /\ Operation /\ id \in procs[p].open
    /\ procs' = [procs EXCEPT ![p].at = "removing", ![p].id = id, ![p].open = @ \ {id}]
    /\ UNCHANGED <<lockedBy, accountsToml, dirs, outside, everUsed, hurt>>

RemoveDir(p) ==
    /\ procs[p].at = "removing"
    /\ dirs' = [dirs EXCEPT ![procs[p].id] = "none"]
    /\ procs' = [procs EXCEPT ![p].at = "unlisting"]
    /\ UNCHANGED <<lockedBy, accountsToml, outside, everUsed, hurt, left>>

\* ... which may fail, after many attempts; the account is still listed.
RemoveDirFails(p) ==
    /\ procs[p].at = "removing" /\ AccFault
    /\ hurt' = hurt \cup {"not removed"}
    /\ procs' = [procs EXCEPT ![p].at = "idle"]
    /\ UNCHANGED <<lockedBy, accountsToml, dirs, outside, everUsed>>

\* ... and then it is taken from accounts.toml.
Unlist(p) ==
    /\ procs[p].at = "unlisting"
    /\ LET t == Without(procs[p].toml, procs[p].id) IN
       /\ Sync(p, t)
       /\ procs' = [procs EXCEPT ![p].toml = t, ![p].at = "idle"]
    /\ UNCHANGED <<lockedBy, dirs, outside, everUsed, hurt, left>>

SelectAccount(p, id) ==
    /\ MayOperate(p) /\ Operation /\ id \in procs[p].toml.accounts
    /\ LET t == [procs[p].toml EXCEPT !.selected = id] IN
       /\ Sync(p, t) /\ procs' = [procs EXCEPT ![p].toml = t]
    /\ UNCHANGED <<lockedBy, dirs, outside, everUsed, hurt>>

\* set_accounts_order: what exists of the list, then what is missing from it.
SetAccountsOrder(p, order) ==
    /\ MayOperate(p) /\ Operation
    /\ LET kept == order \cap procs[p].open
           t == [procs[p].toml EXCEPT !.order = kept \cup (procs[p].open \ kept)]
       IN  Sync(p, t) /\ procs' = [procs EXCEPT ![p].toml = t]
    /\ UNCHANGED <<lockedBy, dirs, outside, everUsed, hurt>>

-----------------------------------------------------------------------------

AccInit ==
    /\ lockedBy = NoProc /\ accountsToml = EmptyToml /\ dirs = [i \in 1..MaxAccounts |-> "none"]
    /\ outside = "whole" /\ procs = [p \in Procs |-> Down]
    /\ everUsed = << >> /\ hurt = {} /\ left = [ops |-> MaxAccOps, faults |-> MaxAccFaults]

AccNext ==
    \E p \in Procs :
        \/ \E w \in BOOLEAN : OpenAccounts(p, w)
        \/ CloseAccounts(p) \/ ProcessDies(p)
        \/ \E then \in {"adding", "migrating"} : NewAccount(p, then)
        \/ SelectNew(p) \/ CreateContext(p) \/ MoveDatabase(p) \/ MoveBlobs(p) \/ MigrationFails(p)
        \/ \E id \in 1..MaxAccounts : RemoveAccount(p, id) \/ SelectAccount(p, id)
        \/ RemoveDir(p) \/ RemoveDirFails(p) \/ Unlist(p)
        \/ \E order \in SUBSET (1..MaxAccounts) : SetAccountsOrder(p, order)

AccSpec == AccInit /\ [][AccNext]_accVars

-----------------------------------------------------------------------------
(* Properties                                                              *)

AccTypeOK ==
    /\ lockedBy \in Procs \cup {NoProc} /\ accountsToml.accounts \subseteq 1..MaxAccounts
    /\ \A p \in Procs : procs[p].open \subseteq procs[p].toml.accounts

\* Whoever may write accounts.toml has read what is in it: two processes never overwrite
\* each other's accounts.
WriterIsCurrent == \A p \in Procs : procs[p].writable => procs[p].toml = accountsToml

\* No id is handed out twice, over removals, deaths and restarts.
IdsUnique == IsInjective(everUsed)

\* An account that is listed is selected, if there is one, between operations and after
\* a death at any point; with none there is none.
SelectionListed ==
    /\ accountsToml.selected \in accountsToml.accounts \cup {NoAccount}
    /\ (\A p \in Procs : procs[p].at = "idle") /\ hurt \cap {"adding", "migrating"} = {} /\ accountsToml.accounts # {} =>
           accountsToml.selected # NoAccount

\* Mail is only in directories that are listed: removing an account leaves none behind,
\* and neither does a death in the middle.
NoMailLeftBehind == \A i \in 1..MaxAccounts : dirs[i] = "mail" => i \in accountsToml.accounts

\* The order kept on disk names exactly the accounts listed, unless an account was closed
\* without being unlisted.
OrderComplete ==
    hurt \cap {"not removed", "migration failed"} = {} => accountsToml.order = accountsToml.accounts

\* A removed account is removed entirely (accounts.rs).  It fails when the process dies
\* between removing the directory and unlisting it: it comes back empty.
RemovedStays == \A p \in Procs : \A i \in procs[p].open : dirs[i] # "empty" \/ hurt \cap {"unlisting"} = {}

\* A failed migration sets the selection back (accounts.rs).  It fails: the account with
\* nothing or half of it stays listed and selected, and the original cannot be tried again.
FailedMigrationUndone ==
    \A p \in Procs : "migration failed" \in hurt /\ procs[p].at = "idle" /\ left.ops = MaxAccOps - 1 =>
        procs[p].id \notin accountsToml.accounts

\* The directory of accounts is sound: one writer whose copy is current, no id used twice, a
\* selection and an order of accounts that exist, and no mail left in an unlisted directory.
AccountsSafe ==
    AccTypeOK /\ WriterIsCurrent /\ IdsUnique /\ SelectionListed /\ NoMailLeftBehind /\ OrderComplete
=============================================================================
