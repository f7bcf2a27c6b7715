---------------------------- MODULE DeviceProofs ----------------------------
(***************************************************************************)
(* Proofs about what a device keeps and does for itself.  The account      *)
(* manager: for any processes, any number of accounts, operations,         *)
(* failures and deaths.  Encryption at rest: for any messages, keys and    *)
(* deaths.  The network: for any addresses, servers, pages and loops.  The *)
(* scheduler of I/O: for any jobs, calls and failures.  Reception: for any *)
(* mails, relays, deletions and deaths.  Backups: for any blobs, changes   *)
(* and failures meanwhile.                                                 *)
(***************************************************************************)
EXTENDS Accounts, AtRest, Network, IoControl, Reception, Backup, WellFoundedInduction, FiniteSetTheorems,
        SequenceTheorems, TLAPS


(***************************************************************************)
(* Accounts: the inductive invariant.                                      *)
(***************************************************************************)

\* Account ids, where an operation may be, the file, and what a process has in memory.
Ids == 1..MaxAccounts
Points == {"idle", "adding", "migrating", "creating", "moving", "moving blobs", "removing",
           "unlisting"}
Tomls == [accounts : SUBSET Ids, order : SUBSET Ids, selected : Ids \cup {NoAccount}, next : Nat]
Managers == [up : BOOLEAN, writable : BOOLEAN, toml : Tomls, open : SUBSET Ids, at : Points,
             id : Ids \cup {NoAccount}, old : Ids \cup {NoAccount}]

\* What the variables hold.
AccTypes ==
    /\ lockedBy \in Procs \cup {NoProc}
    /\ accountsToml \in Tomls
    /\ dirs \in [Ids -> {"none", "empty", "mail"}]
    /\ procs \in [Procs -> Managers]
    /\ everUsed \in Seq(Nat)

\* An account is open that is not listed, or listed and not open, only after such a failure.
Mishaps == {"not removed", "migration failed"}

\* The account a process is at work on.
AtWork(p) ==
    /\ procs[p].writable
    /\ procs[p].id \in procs[p].toml.accounts
    /\ hurt \cap Mishaps = {} => procs[p].toml.accounts \subseteq procs[p].open \cup {procs[p].id}
    /\ procs[p].at \in {"removing", "unlisting"} => procs[p].id \notin procs[p].open
    /\ procs[p].at = "unlisting" => dirs[procs[p].id] # "mail"

\* One process: who writes has the lock and the current file, and knows what it has open.
Sound(p) ==
    /\ procs[p].open \subseteq procs[p].toml.accounts
    /\ procs[p].writable => procs[p].up /\ lockedBy = p /\ procs[p].toml = accountsToml
    /\ procs[p].at # "idle" => AtWork(p)
    /\ procs[p].at = "idle" /\ procs[p].writable /\ hurt \cap Mishaps = {} =>
          procs[p].open = procs[p].toml.accounts

\* Ids come from next, which is beyond all that were handed out.
NextIsNew ==
    /\ accountsToml.next >= 1
    /\ \A k \in 1..Len(everUsed) : everUsed[k] < accountsToml.next
    /\ IdsUnique

\* Nothing is selected only while the first account is on its way.
SelectedUnlessFirst ==
    /\ accountsToml.selected \in accountsToml.accounts \cup {NoAccount}
    /\ accountsToml.selected = NoAccount /\ accountsToml.accounts # {}
          /\ hurt \cap {"adding", "migrating"} = {} =>
          \E p \in Procs : procs[p].at \in {"adding", "migrating"}

\* The inductive invariant of the accounts.
AccInv ==
    /\ AccTypes
    /\ \A p \in Procs : Sound(p)
    /\ NextIsNew
    /\ SelectedUnlessFirst
    /\ NoMailLeftBehind
    /\ OrderComplete

----------------------------------------------------------------------------
(***************************************************************************)
(* The operators.                                                          *)
(***************************************************************************)

\* A set of numbers that is not empty has a least one.
LEMMA LeastThere ==
    ASSUME NEW S \in SUBSET Nat, S # {}
    PROVE  \E x \in S : \A y \in S : x <= y
<1> DEFINE R == {ss \in Nat \X Nat : ss[1] < ss[2]}
<1>1. IsWellFoundedOn(R, Nat)
    BY NatLessThanWellFounded, Zenon DEF OpToRel
<1> HIDE DEF R
<1>2. PICK x \in S : \A y \in S : ~(<<y, x>> \in R)
    BY <1>1, WFMin
<1>3. ASSUME NEW y \in S PROVE x <= y
    <2>1. <<y, x>> \notin R /\ <<y, x>> \in Nat \X Nat
        BY <1>2
    <2>2. ~(<<y, x>>[1] < <<y, x>>[2])
        BY <2>1 DEF R
    <2> QED
        BY <2>2
<1> QED
    BY <1>3

\* So the first account in the file is one of them.
LEMMA LeastOf ==
    ASSUME NEW S \in SUBSET Nat, S # {}
    PROVE  Min(S) \in S
<1>1. PICK x \in S : \A y \in S : x <= y
    BY LeastThere
<1> QED
    BY <1>1 DEF Min

\* The file with a new account, and with one taken out.
LEMMA NewToml ==
    ASSUME NEW t \in Tomls, t.next >= 1, t.next <= MaxAccounts
    PROVE  /\ WithNew(t) \in Tomls
           /\ NextId(t) \in Ids
           /\ WithNew(t).accounts = t.accounts \cup {NextId(t)}
           /\ WithNew(t).order = t.order \cup {NextId(t)}
           /\ WithNew(t).selected = t.selected
           /\ WithNew(t).next = NextId(t) + 1
<1>1. NextId(t) \in Ids /\ NextId(t) + 1 \in Nat
    BY AccBounds DEF NextId, Ids, Tomls
<1> QED
    BY <1>1 DEF WithNew, Tomls

\* And the file with one taken out.
LEMMA LessToml ==
    ASSUME NEW t \in Tomls, NEW id \in Ids, t.selected \in t.accounts \cup {NoAccount}
    PROVE  /\ Without(t, id) \in Tomls
           /\ Without(t, id).accounts = t.accounts \ {id}
           /\ Without(t, id).order = t.order \ {id}
           /\ Without(t, id).next = t.next
           /\ Without(t, id).selected \in (t.accounts \ {id}) \cup {NoAccount}
           /\ Without(t, id).selected = NoAccount =>
                 t.selected = NoAccount \/ t.accounts \ {id} = {}
<1> DEFINE rest == t.accounts \ {id}
           s == IF t.selected # id THEN t.selected ELSE IF rest = {} THEN NoAccount ELSE Min(rest)
<1>1. rest \subseteq Ids /\ rest \subseteq Nat /\ NoAccount \notin Ids
    BY AccBounds DEF Tomls, Ids, NoAccount
<1>2. rest # {} => Min(rest) \in rest
    BY <1>1, LeastOf
<1>3. /\ s \in rest \cup {NoAccount}
      /\ s = NoAccount => t.selected = NoAccount \/ rest = {}
    BY <1>1, <1>2
<1>4. Without(t, id) = [t EXCEPT !.accounts = rest, !.order = @ \ {id}, !.selected = s]
    BY DEF Without, Tomls
<1> HIDE DEF rest, s
<1>5. t.order \ {id} \in SUBSET Ids /\ rest \in SUBSET Ids /\ s \in Ids \cup {NoAccount}
    BY <1>1, <1>3 DEF Tomls
<1>6. /\ Without(t, id) \in Tomls
      /\ Without(t, id).accounts = rest
      /\ Without(t, id).order = t.order \ {id}
      /\ Without(t, id).next = t.next
      /\ Without(t, id).selected = s
    BY <1>4, <1>5 DEF Tomls
<1> QED
    BY <1>3, <1>6 DEF rest

----------------------------------------------------------------------------
(***************************************************************************)
(* Every step keeps the invariant.                                         *)
(***************************************************************************)

\* A step of one process does not disturb the others: there is one writer, and who only reads
\* depends on nothing that is shared.
LEMMA OthersSound ==
    ASSUME AccTypes, \A q \in Procs : Sound(q), NEW p \in Procs,
           \A q \in Procs \ {p} : procs'[q] = procs[q],
           \/ procs[p].writable
           \/ /\ accountsToml' = accountsToml /\ hurt' = hurt
              /\ \A i \in Ids : dirs'[i] = "mail" => dirs[i] = "mail"
              /\ lockedBy \notin {NoProc, p} => lockedBy' = lockedBy
    PROVE  \A q \in Procs \ {p} : Sound(q)'
<1> SUFFICES ASSUME NEW q \in Procs \ {p} PROVE Sound(q)'
    OBVIOUS
<1>1. procs'[q] = procs[q] /\ Sound(q) /\ Sound(p)
    OBVIOUS
<1>2. CASE ~procs[q].writable
    BY <1>1, <1>2 DEF Sound, AtWork
<1>3. CASE procs[q].writable
    <2>1. lockedBy = q /\ q # NoProc
        BY <1>1, <1>3, ProcsAssumption DEF Sound
    <2>2. /\ accountsToml' = accountsToml /\ hurt' = hurt /\ lockedBy' = lockedBy
          /\ \A i \in Ids : dirs'[i] = "mail" => dirs[i] = "mail"
        BY <1>1, <2>1 DEF Sound
    <2>3. procs[q].toml.accounts \subseteq Ids
        BY DEF AccTypes, Managers, Tomls
    <2>4. procs[q].at # "idle" => AtWork(q)'
        BY <1>1, <2>2, <2>3 DEF Sound, AtWork
    <2> QED
        BY <1>1, <2>2, <2>4 DEF Sound
<1> QED
    BY <1>2, <1>3

\* What a step of one process does to the table of processes.
LEMMA OneMoves ==
    ASSUME procs \in [Procs -> Managers], NEW p \in Procs, NEW r \in Managers,
           procs' = [procs EXCEPT ![p] = r]
    PROVE  /\ procs' \in [Procs -> Managers]
           /\ procs'[p] = r
           /\ \A q \in Procs \ {p} : procs'[q] = procs[q]
OBVIOUS

\* A step of a process that leaves the file alone.
LEMMA FileStays ==
    ASSUME AccInv, NEW p \in Procs,
           accountsToml' = accountsToml, hurt \subseteq hurt', everUsed' = everUsed,
           \A q \in Procs \ {p} : procs'[q] = procs[q],
           procs[p].at \in {"adding", "migrating"} => hurt' \cap {"adding", "migrating"} # {}
    PROVE  NextIsNew' /\ SelectedUnlessFirst' /\ OrderComplete'
<1>1. NextIsNew'
    BY DEF AccInv, NextIsNew, IdsUnique
<1>2. OrderComplete'
    BY DEF AccInv, OrderComplete
<1>3. SelectedUnlessFirst'
    BY DEF AccInv, SelectedUnlessFirst
<1> QED
    BY <1>1, <1>2, <1>3

\* Opening reads the file; what is missing of an account is created empty.
LEMMA OpenKeeps ==
    ASSUME AccInv, NEW p \in Procs, NEW w \in BOOLEAN, OpenAccounts(p, w)
    PROVE  AccInv'
<1> DEFINE r == [Down EXCEPT !.up = TRUE, !.writable = w, !.toml = accountsToml,
                             !.open = accountsToml.accounts]
<1>1. /\ procs' = [procs EXCEPT ![p] = r]
      /\ w => lockedBy = NoProc
      /\ lockedBy' = IF w THEN p ELSE lockedBy
      /\ dirs' = Loaded(accountsToml)
      /\ UNCHANGED <<accountsToml, everUsed, hurt>>
    BY DEF OpenAccounts
<1>2. /\ r \in Managers /\ r.writable = w /\ r.toml = accountsToml
      /\ r.open = accountsToml.accounts /\ r.at = "idle" /\ r.up = TRUE
    BY DEF AccInv, AccTypes, Tomls, Managers, Points, Down
<1> HIDE DEF r
<1>3. /\ procs' \in [Procs -> Managers]
      /\ procs'[p] = r
      /\ \A q \in Procs \ {p} : procs'[q] = procs[q]
    BY <1>1, <1>2, OneMoves DEF AccInv, AccTypes
<1>4. /\ dirs' \in [Ids -> {"none", "empty", "mail"}]
      /\ \A i \in Ids : dirs'[i] = "mail" => dirs[i] = "mail"
    BY <1>1 DEF AccInv, AccTypes, Loaded
<1>5. AccTypes'
    BY <1>1, <1>3, <1>4 DEF AccInv, AccTypes
<1>6. \A q \in Procs \ {p} : Sound(q)'
    <2>1. lockedBy \notin {NoProc, p} => lockedBy' = lockedBy
        BY <1>1
    <2> QED
        BY <1>1, <1>3, <1>4, <2>1, OthersSound DEF AccInv
<1>7. Sound(p)'
    BY <1>1, <1>2, <1>3 DEF Sound
<1>8. NoMailLeftBehind'
    BY <1>1, <1>4 DEF AccInv, NoMailLeftBehind, Ids
<1>9. procs[p].at \notin {"adding", "migrating"}
    BY DEF OpenAccounts, AccInv, Sound, AtWork
<1>10. NextIsNew' /\ SelectedUnlessFirst' /\ OrderComplete'
    BY <1>1, <1>3, <1>9, FileStays
<1> QED
    BY <1>5, <1>6, <1>7, <1>8, <1>10 DEF AccInv

\* Closing, or dying in the middle of something.
LEMMA EndKeeps ==
    ASSUME AccInv, NEW p \in Procs, CloseAccounts(p) \/ ProcessDies(p)
    PROVE  AccInv'
<1>1. /\ procs' = [procs EXCEPT ![p] = Down]
      /\ lockedBy' = Unlocked(p)
      /\ UNCHANGED <<accountsToml, dirs, everUsed>>
    BY DEF CloseAccounts, ProcessDies
<1>2. Down \in Managers /\ Down.open = {} /\ ~Down.writable /\ Down.at = "idle"
    BY AccBounds DEF Managers, Points, Down, Tomls, EmptyToml, NoAccount
<1>3. /\ procs' \in [Procs -> Managers]
      /\ procs'[p] = Down
      /\ \A q \in Procs \ {p} : procs'[q] = procs[q]
    BY <1>1, <1>2, OneMoves DEF AccInv, AccTypes
<1>4. \/ procs[p].at = "idle" /\ hurt' = hurt
      \/ procs[p].at # "idle" /\ hurt' = hurt \cup {procs[p].at}
    BY DEF CloseAccounts, ProcessDies
<1>5. procs[p].writable \/ hurt' = hurt
    BY <1>4 DEF AccInv, Sound, AtWork
<1>6. AccTypes'
    BY <1>1, <1>3 DEF AccInv, AccTypes, Unlocked
<1>7. \A q \in Procs \ {p} : Sound(q)'
    <2>1. lockedBy \notin {NoProc, p} => lockedBy' = lockedBy
        BY <1>1 DEF Unlocked
    <2> QED
        BY <1>1, <1>3, <1>5, <2>1, OthersSound DEF AccInv
<1>8. Sound(p)'
    BY <1>2, <1>3 DEF Sound
<1>9. NextIsNew' /\ SelectedUnlessFirst' /\ OrderComplete'
    BY <1>1, <1>3, <1>4, FileStays
<1>10. NoMailLeftBehind'
    BY <1>1 DEF AccInv, NoMailLeftBehind
<1> QED
    BY <1>6, <1>7, <1>8, <1>9, <1>10 DEF AccInv

\* The directories after a step of the writer that leaves the file alone.
LEMMA WriterKeeps ==
    ASSUME AccInv, NEW p \in Procs, NEW r \in Managers,
           procs' = [procs EXCEPT ![p] = r],
           procs[p].writable, r.writable = procs[p].writable, r.up = procs[p].up,
           r.toml = procs[p].toml,
           procs[p].at \notin {"adding", "migrating"},
           UNCHANGED <<lockedBy, accountsToml, everUsed>>, hurt \subseteq hurt',
           dirs' \in [Ids -> {"none", "empty", "mail"}],
           \A i \in Ids : dirs'[i] = "mail" => dirs[i] = "mail" \/ i \in accountsToml.accounts,
           r.open \subseteq r.toml.accounts,
           r.at # "idle" =>
              /\ r.id \in r.toml.accounts
              /\ hurt' \cap Mishaps = {} => r.toml.accounts \subseteq r.open \cup {r.id}
              /\ r.at \in {"removing", "unlisting"} => r.id \notin r.open
              /\ r.at = "unlisting" => dirs'[r.id] # "mail",
           r.at = "idle" /\ hurt' \cap Mishaps = {} => r.open = r.toml.accounts
    PROVE  AccInv'
<1>1. /\ procs' \in [Procs -> Managers]
      /\ procs'[p] = r
      /\ \A q \in Procs \ {p} : procs'[q] = procs[q]
    BY OneMoves DEF AccInv, AccTypes
<1>2. AccTypes'
    BY <1>1 DEF AccInv, AccTypes
<1>3. \A q \in Procs \ {p} : Sound(q)'
    BY <1>1, OthersSound DEF AccInv
<1>4. Sound(p)
    BY DEF AccInv
<1>5. Sound(p)'
    BY <1>1, <1>4 DEF Sound, AtWork
<1>6. NextIsNew' /\ SelectedUnlessFirst' /\ OrderComplete'
    BY <1>1, FileStays
<1>7. NoMailLeftBehind'
    BY DEF AccInv, NoMailLeftBehind, Ids
<1> QED
    BY <1>2, <1>3, <1>5, <1>6, <1>7 DEF AccInv

\* The context of a new account.
LEMMA CreateKeeps ==
    ASSUME AccInv, NEW p \in Procs, CreateContext(p)
    PROVE  AccInv'
<1> DEFINE s == procs[p]
           r == [s EXCEPT !.at = "idle", !.open = @ \cup {s.id}]
<1>1. Sound(p) /\ s \in Managers /\ dirs \in [Ids -> {"none", "empty", "mail"}]
    BY DEF AccInv, AccTypes
<1>2. procs' = [procs EXCEPT ![p] = r]
    BY DEF CreateContext, AccInv, AccTypes, Managers
<1>3. /\ r \in Managers /\ r.writable = s.writable /\ r.up = s.up /\ r.toml = s.toml
      /\ r.open = s.open \cup {s.id} /\ r.at = "idle" /\ r.id = s.id
    BY <1>1 DEF CreateContext, Managers, Points, Tomls, Sound, AtWork, Ids
<1>4. /\ s.writable /\ s.toml = accountsToml
      /\ s.at \notin {"adding", "migrating"}
    BY <1>1 DEF CreateContext, MayOperate, Sound, AtWork
<1>5. /\ dirs' \in [Ids -> {"none", "empty", "mail"}]
      /\ \A i \in Ids : dirs'[i] = "mail" => dirs[i] = "mail" \/ i \in accountsToml.accounts
      /\ r.at = "unlisting" => dirs'[r.id] # "mail"
    BY <1>1, <1>3, <1>4 DEF CreateContext, Sound, AtWork, Managers, Tomls
<1>6. /\ r.open \subseteq r.toml.accounts
      /\ r.at # "idle" =>
            /\ r.id \in r.toml.accounts
            /\ hurt' \cap Mishaps = {} => r.toml.accounts \subseteq r.open \cup {r.id}
            /\ r.at \in {"removing", "unlisting"} => r.id \notin r.open
      /\ r.at = "idle" /\ hurt' \cap Mishaps = {} => r.open = r.toml.accounts
    BY <1>1, <1>3, <1>4 DEF CreateContext, MayOperate, Sound, AtWork, Mishaps
<1>7. UNCHANGED <<lockedBy, accountsToml, everUsed>> /\ hurt \subseteq hurt'
    BY DEF CreateContext
<1> HIDE DEF r
<1> QED
    BY <1>2, <1>3, <1>4, <1>5, <1>6, <1>7, WriterKeeps

\* Moving the database, and then the blobs, of an account that is migrated.
LEMMA DatabaseKeeps ==
    ASSUME AccInv, NEW p \in Procs, MoveDatabase(p)
    PROVE  AccInv'
<1> DEFINE s == procs[p]
           r == [s EXCEPT !.at = "moving blobs"]
<1>1. Sound(p) /\ s \in Managers /\ dirs \in [Ids -> {"none", "empty", "mail"}]
    BY DEF AccInv, AccTypes
<1>2. procs' = [procs EXCEPT ![p] = r]
    BY DEF MoveDatabase, AccInv, AccTypes, Managers
<1>3. /\ r \in Managers /\ r.writable = s.writable /\ r.up = s.up /\ r.toml = s.toml
      /\ r.open = s.open /\ r.at = "moving blobs" /\ r.id = s.id
    BY <1>1 DEF MoveDatabase, Managers, Points, Tomls, Sound, AtWork, Ids
<1>4. /\ s.writable /\ s.toml = accountsToml
      /\ s.at \notin {"adding", "migrating"}
    BY <1>1 DEF MoveDatabase, MayOperate, Sound, AtWork
<1>5. /\ dirs' \in [Ids -> {"none", "empty", "mail"}]
      /\ \A i \in Ids : dirs'[i] = "mail" => dirs[i] = "mail" \/ i \in accountsToml.accounts
      /\ r.at = "unlisting" => dirs'[r.id] # "mail"
    BY <1>1, <1>3, <1>4 DEF MoveDatabase, Sound, AtWork, Managers, Tomls
<1>6. /\ r.open \subseteq r.toml.accounts
      /\ r.at # "idle" =>
            /\ r.id \in r.toml.accounts
            /\ hurt' \cap Mishaps = {} => r.toml.accounts \subseteq r.open \cup {r.id}
            /\ r.at \in {"removing", "unlisting"} => r.id \notin r.open
      /\ r.at = "idle" /\ hurt' \cap Mishaps = {} => r.open = r.toml.accounts
    BY <1>1, <1>3, <1>4 DEF MoveDatabase, MayOperate, Sound, AtWork, Mishaps
<1>7. UNCHANGED <<lockedBy, accountsToml, everUsed>> /\ hurt \subseteq hurt'
    BY DEF MoveDatabase
<1> HIDE DEF r
<1> QED
    BY <1>2, <1>3, <1>4, <1>5, <1>6, <1>7, WriterKeeps

\* The blobs.
LEMMA BlobsKeep ==
    ASSUME AccInv, NEW p \in Procs, MoveBlobs(p)
    PROVE  AccInv'
<1> DEFINE s == procs[p]
           r == [s EXCEPT !.at = "idle", !.open = @ \cup {s.id}]
<1>1. Sound(p) /\ s \in Managers /\ dirs \in [Ids -> {"none", "empty", "mail"}]
    BY DEF AccInv, AccTypes
<1>2. procs' = [procs EXCEPT ![p] = r]
    BY DEF MoveBlobs, AccInv, AccTypes, Managers
<1>3. /\ r \in Managers /\ r.writable = s.writable /\ r.up = s.up /\ r.toml = s.toml
      /\ r.open = s.open \cup {s.id} /\ r.at = "idle" /\ r.id = s.id
    BY <1>1 DEF MoveBlobs, Managers, Points, Tomls, Sound, AtWork, Ids
<1>4. /\ s.writable /\ s.toml = accountsToml
      /\ s.at \notin {"adding", "migrating"}
    BY <1>1 DEF MoveBlobs, MayOperate, Sound, AtWork
<1>5. /\ dirs' \in [Ids -> {"none", "empty", "mail"}]
      /\ \A i \in Ids : dirs'[i] = "mail" => dirs[i] = "mail" \/ i \in accountsToml.accounts
      /\ r.at = "unlisting" => dirs'[r.id] # "mail"
    BY <1>1, <1>3, <1>4 DEF MoveBlobs, Sound, AtWork, Managers, Tomls
<1>6. /\ r.open \subseteq r.toml.accounts
      /\ r.at # "idle" =>
            /\ r.id \in r.toml.accounts
            /\ hurt' \cap Mishaps = {} => r.toml.accounts \subseteq r.open \cup {r.id}
            /\ r.at \in {"removing", "unlisting"} => r.id \notin r.open
      /\ r.at = "idle" /\ hurt' \cap Mishaps = {} => r.open = r.toml.accounts
    BY <1>1, <1>3, <1>4 DEF MoveBlobs, MayOperate, Sound, AtWork, Mishaps
<1>7. UNCHANGED <<lockedBy, accountsToml, everUsed>> /\ hurt \subseteq hurt'
    BY DEF MoveBlobs
<1> HIDE DEF r
<1> QED
    BY <1>2, <1>3, <1>4, <1>5, <1>6, <1>7, WriterKeeps

\* A migration that fails.
LEMMA FailedKeeps ==
    ASSUME AccInv, NEW p \in Procs, MigrationFails(p)
    PROVE  AccInv'
<1> DEFINE s == procs[p]
           r == [s EXCEPT !.at = "idle"]
<1>1. Sound(p) /\ s \in Managers /\ dirs \in [Ids -> {"none", "empty", "mail"}]
    BY DEF AccInv, AccTypes
<1>2. procs' = [procs EXCEPT ![p] = r]
    BY DEF MigrationFails, AccInv, AccTypes, Managers
<1>3. /\ r \in Managers /\ r.writable = s.writable /\ r.up = s.up /\ r.toml = s.toml
      /\ r.open = s.open /\ r.at = "idle" /\ r.id = s.id
    BY <1>1 DEF MigrationFails, Managers, Points, Tomls, Sound, AtWork, Ids
<1>4. /\ s.writable /\ s.toml = accountsToml
      /\ s.at \notin {"adding", "migrating"}
    BY <1>1 DEF MigrationFails, MayOperate, Sound, AtWork
<1>5. /\ dirs' \in [Ids -> {"none", "empty", "mail"}]
      /\ \A i \in Ids : dirs'[i] = "mail" => dirs[i] = "mail" \/ i \in accountsToml.accounts
      /\ r.at = "unlisting" => dirs'[r.id] # "mail"
    BY <1>1, <1>3, <1>4 DEF MigrationFails, Sound, AtWork, Managers, Tomls
<1>6. /\ r.open \subseteq r.toml.accounts
      /\ r.at # "idle" =>
            /\ r.id \in r.toml.accounts
            /\ hurt' \cap Mishaps = {} => r.toml.accounts \subseteq r.open \cup {r.id}
            /\ r.at \in {"removing", "unlisting"} => r.id \notin r.open
      /\ r.at = "idle" /\ hurt' \cap Mishaps = {} => r.open = r.toml.accounts
    BY <1>1, <1>3, <1>4 DEF MigrationFails, MayOperate, Sound, AtWork, Mishaps
<1>7. UNCHANGED <<lockedBy, accountsToml, everUsed>> /\ hurt \subseteq hurt'
    BY DEF MigrationFails
<1> HIDE DEF r
<1> QED
    BY <1>2, <1>3, <1>4, <1>5, <1>6, <1>7, WriterKeeps

\* Removing an account: it is closed, then its directory goes or does not.
LEMMA RemoveKeeps ==
    ASSUME AccInv, NEW p \in Procs, NEW id \in Ids, RemoveAccount(p, id)
    PROVE  AccInv'
<1> DEFINE s == procs[p]
           r == [s EXCEPT !.at = "removing", !.id = id, !.open = @ \ {id}]
<1>1. Sound(p) /\ s \in Managers /\ dirs \in [Ids -> {"none", "empty", "mail"}]
    BY DEF AccInv, AccTypes
<1>2. procs' = [procs EXCEPT ![p] = r]
    BY DEF RemoveAccount, AccInv, AccTypes, Managers
<1>3. /\ r \in Managers /\ r.writable = s.writable /\ r.up = s.up /\ r.toml = s.toml
      /\ r.open = s.open \ {id} /\ r.at = "removing" /\ r.id = id
    BY <1>1 DEF RemoveAccount, Managers, Points, Tomls, Sound, AtWork, Ids
<1>4. /\ s.writable /\ s.toml = accountsToml
      /\ s.at \notin {"adding", "migrating"}
    BY <1>1 DEF RemoveAccount, MayOperate, Sound, AtWork
<1>5. /\ dirs' \in [Ids -> {"none", "empty", "mail"}]
      /\ \A i \in Ids : dirs'[i] = "mail" => dirs[i] = "mail" \/ i \in accountsToml.accounts
      /\ r.at = "unlisting" => dirs'[r.id] # "mail"
    BY <1>1, <1>3, <1>4 DEF RemoveAccount, Sound, AtWork, Managers, Tomls
<1>6. /\ r.open \subseteq r.toml.accounts
      /\ r.at # "idle" =>
            /\ r.id \in r.toml.accounts
            /\ hurt' \cap Mishaps = {} => r.toml.accounts \subseteq r.open \cup {r.id}
            /\ r.at \in {"removing", "unlisting"} => r.id \notin r.open
      /\ r.at = "idle" /\ hurt' \cap Mishaps = {} => r.open = r.toml.accounts
    BY <1>1, <1>3, <1>4 DEF RemoveAccount, MayOperate, Sound, AtWork, Mishaps
<1>7. UNCHANGED <<lockedBy, accountsToml, everUsed>> /\ hurt \subseteq hurt'
    BY DEF RemoveAccount
<1> HIDE DEF r
<1> QED
    BY <1>2, <1>3, <1>4, <1>5, <1>6, <1>7, WriterKeeps

\* The directory goes.
LEMMA RemoveDirKeeps ==
    ASSUME AccInv, NEW p \in Procs, RemoveDir(p)
    PROVE  AccInv'
<1> DEFINE s == procs[p]
           r == [s EXCEPT !.at = "unlisting"]
<1>1. Sound(p) /\ s \in Managers /\ dirs \in [Ids -> {"none", "empty", "mail"}]
    BY DEF AccInv, AccTypes
<1>2. procs' = [procs EXCEPT ![p] = r]
    BY DEF RemoveDir, AccInv, AccTypes, Managers
<1>3. /\ r \in Managers /\ r.writable = s.writable /\ r.up = s.up /\ r.toml = s.toml
      /\ r.open = s.open /\ r.at = "unlisting" /\ r.id = s.id
    BY <1>1 DEF RemoveDir, Managers, Points, Tomls, Sound, AtWork, Ids
<1>4. /\ s.writable /\ s.toml = accountsToml
      /\ s.at \notin {"adding", "migrating"}
    BY <1>1 DEF RemoveDir, MayOperate, Sound, AtWork
<1>5. /\ dirs' \in [Ids -> {"none", "empty", "mail"}]
      /\ \A i \in Ids : dirs'[i] = "mail" => dirs[i] = "mail" \/ i \in accountsToml.accounts
      /\ r.at = "unlisting" => dirs'[r.id] # "mail"
    BY <1>1, <1>3, <1>4 DEF RemoveDir, Sound, AtWork, Managers, Tomls
<1>6. /\ r.open \subseteq r.toml.accounts
      /\ r.at # "idle" =>
            /\ r.id \in r.toml.accounts
            /\ hurt' \cap Mishaps = {} => r.toml.accounts \subseteq r.open \cup {r.id}
            /\ r.at \in {"removing", "unlisting"} => r.id \notin r.open
      /\ r.at = "idle" /\ hurt' \cap Mishaps = {} => r.open = r.toml.accounts
    BY <1>1, <1>3, <1>4 DEF RemoveDir, MayOperate, Sound, AtWork, Mishaps
<1>7. UNCHANGED <<lockedBy, accountsToml, everUsed>> /\ hurt \subseteq hurt'
    BY DEF RemoveDir
<1> HIDE DEF r
<1> QED
    BY <1>2, <1>3, <1>4, <1>5, <1>6, <1>7, WriterKeeps

\* It stays.
LEMMA NotRemovedKeeps ==
    ASSUME AccInv, NEW p \in Procs, RemoveDirFails(p)
    PROVE  AccInv'
<1> DEFINE s == procs[p]
           r == [s EXCEPT !.at = "idle"]
<1>1. Sound(p) /\ s \in Managers /\ dirs \in [Ids -> {"none", "empty", "mail"}]
    BY DEF AccInv, AccTypes
<1>2. procs' = [procs EXCEPT ![p] = r]
    BY DEF RemoveDirFails, AccInv, AccTypes, Managers
<1>3. /\ r \in Managers /\ r.writable = s.writable /\ r.up = s.up /\ r.toml = s.toml
      /\ r.open = s.open /\ r.at = "idle" /\ r.id = s.id
    BY <1>1 DEF RemoveDirFails, Managers, Points, Tomls, Sound, AtWork, Ids
<1>4. /\ s.writable /\ s.toml = accountsToml
      /\ s.at \notin {"adding", "migrating"}
    BY <1>1 DEF RemoveDirFails, MayOperate, Sound, AtWork
<1>5. /\ dirs' \in [Ids -> {"none", "empty", "mail"}]
      /\ \A i \in Ids : dirs'[i] = "mail" => dirs[i] = "mail" \/ i \in accountsToml.accounts
      /\ r.at = "unlisting" => dirs'[r.id] # "mail"
    BY <1>1, <1>3, <1>4 DEF RemoveDirFails, Sound, AtWork, Managers, Tomls
<1>6. /\ r.open \subseteq r.toml.accounts
      /\ r.at # "idle" =>
            /\ r.id \in r.toml.accounts
            /\ hurt' \cap Mishaps = {} => r.toml.accounts \subseteq r.open \cup {r.id}
            /\ r.at \in {"removing", "unlisting"} => r.id \notin r.open
      /\ r.at = "idle" /\ hurt' \cap Mishaps = {} => r.open = r.toml.accounts
    BY <1>1, <1>3, <1>4 DEF RemoveDirFails, MayOperate, Sound, AtWork, Mishaps
<1>7. UNCHANGED <<lockedBy, accountsToml, everUsed>> /\ hurt \subseteq hurt'
    BY DEF RemoveDirFails
<1> HIDE DEF r
<1> QED
    BY <1>2, <1>3, <1>4, <1>5, <1>6, <1>7, WriterKeeps

\* A step of the writer that writes the file.
LEMMA SyncKeeps ==
    ASSUME AccInv, NEW p \in Procs, NEW r \in Managers,
           procs' = [procs EXCEPT ![p] = r],
           procs[p].writable, r.writable = procs[p].writable, r.up = procs[p].up,
           accountsToml' = r.toml, UNCHANGED <<lockedBy, dirs, hurt>>,
           everUsed' \in Seq(Nat), NextIsNew',
           r.toml.selected \in r.toml.accounts \cup {NoAccount},
           r.toml.selected = NoAccount =>
              \/ r.toml.accounts = {}
              \/ r.at \in {"adding", "migrating"}
              \/ accountsToml.selected = NoAccount /\ accountsToml.accounts # {}
                    /\ procs[p].at \notin {"adding", "migrating"},
           \A i \in Ids : dirs[i] = "mail" => i \in r.toml.accounts,
           hurt \cap Mishaps = {} => r.toml.order = r.toml.accounts,
           r.open \subseteq r.toml.accounts,
           r.at # "idle" =>
              /\ r.id \in r.toml.accounts
              /\ hurt \cap Mishaps = {} => r.toml.accounts \subseteq r.open \cup {r.id}
              /\ r.at \notin {"removing", "unlisting"},
           r.at = "idle" /\ hurt \cap Mishaps = {} => r.open = r.toml.accounts
    PROVE  AccInv'
<1>1. /\ procs' \in [Procs -> Managers]
      /\ procs'[p] = r
      /\ \A q \in Procs \ {p} : procs'[q] = procs[q]
    BY OneMoves DEF AccInv, AccTypes
<1>2. AccTypes'
    BY <1>1 DEF AccInv, AccTypes, Managers
<1>3. \A q \in Procs \ {p} : Sound(q)'
    BY <1>1, OthersSound DEF AccInv
<1>4. Sound(p)
    BY DEF AccInv
<1>5. Sound(p)'
    BY <1>1, <1>4 DEF Sound, AtWork
<1>6. SelectedUnlessFirst'
    <2>1. r.at \in {"adding", "migrating"} => \E q \in Procs : procs'[q].at \in {"adding", "migrating"}
        BY <1>1
    <2>2. ASSUME accountsToml.selected = NoAccount, accountsToml.accounts # {},
                 procs[p].at \notin {"adding", "migrating"}, hurt \cap {"adding", "migrating"} = {}
          PROVE  \E q \in Procs : procs'[q].at \in {"adding", "migrating"}
        BY <1>1, <2>2 DEF AccInv, SelectedUnlessFirst
    <2> QED
        BY <2>1, <2>2 DEF SelectedUnlessFirst
<1>7. NoMailLeftBehind' /\ OrderComplete'
    BY DEF NoMailLeftBehind, OrderComplete, Ids, Mishaps
<1> QED
    BY <1>2, <1>3, <1>5, <1>6, <1>7 DEF AccInv

\* A new account gets an id that was never used.
LEMMA NewKeeps ==
    ASSUME AccInv, NEW p \in Procs, NEW then \in {"adding", "migrating"}, NewAccount(p, then)
    PROVE  AccInv'
<1> DEFINE s == procs[p]
           n == NextId(s.toml)
           t == WithNew(s.toml)
           r == [s EXCEPT !.toml = t, !.at = then, !.id = n, !.old = s.toml.selected]
<1>1. Sound(p) /\ s \in Managers
    BY DEF AccInv, AccTypes
<1>2. /\ procs' = [procs EXCEPT ![p] = r]
      /\ accountsToml' = t /\ everUsed' = Append(everUsed, n)
      /\ UNCHANGED <<lockedBy, dirs, hurt>>
      /\ s.writable /\ s.at = "idle" /\ s.toml.next <= MaxAccounts
    BY DEF NewAccount, MayOperate, Sync, AccInv, AccTypes, Managers
<1>3. s.toml = accountsToml /\ s.toml \in Tomls /\ s.open \subseteq s.toml.accounts
    BY <1>1, <1>2 DEF Sound, Managers
<1>4. s.toml.next >= 1
    BY <1>3 DEF AccInv, NextIsNew
<1>5. /\ t \in Tomls /\ n \in Ids
      /\ t.accounts = s.toml.accounts \cup {n} /\ t.order = s.toml.order \cup {n}
      /\ t.selected = s.toml.selected /\ t.next = n + 1 /\ n = s.toml.next
    BY <1>2, <1>3, <1>4, NewToml DEF NextId
<1> HIDE DEF t, n
<1>6. s.toml.selected \in Ids \cup {NoAccount}
    BY <1>3 DEF Tomls
<1>7. /\ r \in Managers /\ r.writable = s.writable /\ r.up = s.up /\ r.toml = t
      /\ r.open = s.open /\ r.at = then /\ r.id = n
    BY <1>1, <1>5, <1>6 DEF Managers, Points
<1> HIDE DEF r
<1>8. everUsed' \in Seq(Nat) /\ NextIsNew'
    <2>1. everUsed \in Seq(Nat) /\ n \in Nat
        BY <1>3, <1>5 DEF AccInv, AccTypes, Tomls
    <2>2. /\ everUsed' \in Seq(Nat) /\ Len(everUsed') = Len(everUsed) + 1
          /\ \A k \in 1..Len(everUsed) : everUsed'[k] = everUsed[k]
          /\ everUsed'[Len(everUsed) + 1] = n
          /\ DOMAIN everUsed' = 1..Len(everUsed) + 1 /\ DOMAIN everUsed = 1..Len(everUsed)
        BY <1>2, <2>1
    <2>3. /\ \A k \in 1..Len(everUsed) : everUsed[k] < n
          /\ \A j, k \in 1..Len(everUsed) : everUsed[j] = everUsed[k] => j = k
        BY <1>3, <1>5, <2>2 DEF AccInv, NextIsNew, IdsUnique, IsInjective
    <2>4. Len(everUsed) \in Nat /\ \A k \in 1..Len(everUsed) : everUsed[k] \in Nat
        BY <2>1
    <2>5. \A k \in 1..Len(everUsed) + 1 : everUsed'[k] < n + 1
        BY <2>1, <2>2, <2>3, <2>4
    <2>6. \A j, k \in 1..Len(everUsed) + 1 : everUsed'[j] = everUsed'[k] => j = k
        <3> SUFFICES ASSUME NEW j \in 1..Len(everUsed) + 1, NEW k \in 1..Len(everUsed) + 1,
                            everUsed'[j] = everUsed'[k]
                     PROVE  j = k
            OBVIOUS
        <3>1. CASE j \in 1..Len(everUsed) /\ k \in 1..Len(everUsed)
            BY <2>2, <2>3, <3>1
        <3>2. CASE j \in 1..Len(everUsed) /\ k = Len(everUsed) + 1
            BY <2>1, <2>2, <2>3, <2>4, <3>2
        <3>3. CASE j = Len(everUsed) + 1 /\ k \in 1..Len(everUsed)
            BY <2>1, <2>2, <2>3, <2>4, <3>3
        <3> QED
            BY <2>4, <3>1, <3>2, <3>3
    <2>7. IdsUnique'
        BY <2>2, <2>6 DEF IdsUnique, IsInjective
    <2>8. accountsToml'.next = n + 1 /\ n + 1 >= 1
        BY <1>2, <1>5, <2>1
    <2> QED
        BY <2>2, <2>5, <2>7, <2>8 DEF NextIsNew
<1>9. /\ r.toml.selected \in r.toml.accounts \cup {NoAccount}
      /\ \A i \in Ids : dirs[i] = "mail" => i \in r.toml.accounts
      /\ hurt \cap Mishaps = {} => r.toml.order = r.toml.accounts
    BY <1>3, <1>5, <1>7
    DEF AccInv, SelectedUnlessFirst, NoMailLeftBehind, OrderComplete, Mishaps, Ids
<1>10. /\ r.open \subseteq r.toml.accounts
       /\ r.id \in r.toml.accounts
       /\ hurt \cap Mishaps = {} => r.toml.accounts \subseteq r.open \cup {r.id}
    BY <1>1, <1>2, <1>3, <1>5, <1>7 DEF Sound
<1>11. accountsToml' = r.toml
    BY <1>2, <1>7
<1> QED
    BY <1>2, <1>7, <1>8, <1>9, <1>10, <1>11, SyncKeeps

\* The other steps hand out no id.
LEMMA IdsStay ==
    ASSUME NextIsNew, accountsToml'.next = accountsToml.next, everUsed' = everUsed
    PROVE  NextIsNew'
BY DEF NextIsNew, IdsUnique

\* It is selected by a second write.
LEMMA SelectNewKeeps ==
    ASSUME AccInv, NEW p \in Procs, SelectNew(p)
    PROVE  AccInv'
<1> DEFINE s == procs[p]
           t == [s.toml EXCEPT !.selected = s.id]
           r == [s EXCEPT !.toml = t, !.at = IF @ = "adding" THEN "creating" ELSE "moving"]
<1>1. Sound(p) /\ s \in Managers /\ everUsed \in Seq(Nat)
    BY DEF AccInv, AccTypes
<1>2. /\ procs' = [procs EXCEPT ![p] = r]
      /\ accountsToml' = t /\ UNCHANGED <<lockedBy, dirs, hurt, everUsed>>
      /\ s.writable
    BY DEF SelectNew, MayOperate, Sync, AccInv, AccTypes, Managers
<1>3. s.toml = accountsToml /\ s.toml \in Tomls /\ s.open \subseteq s.toml.accounts
    BY <1>1, <1>2 DEF Sound, Managers
<1>6. s.at \in {"adding", "migrating"} /\ s.id \in s.toml.accounts /\ s.id \in Ids /\ s.id # NoAccount
    BY <1>1, <1>3 DEF SelectNew, Sound, AtWork, Tomls, Ids, NoAccount
<1>4. /\ t \in Tomls /\ t.accounts = s.toml.accounts /\ t.order = s.toml.order
      /\ t.next = s.toml.next /\ t.selected = s.id
    BY <1>3, <1>6 DEF Tomls
<1> HIDE DEF t
<1>5. /\ r \in Managers /\ r.writable = s.writable /\ r.up = s.up /\ r.toml = t
      /\ r.open = s.open /\ r.id = s.id
      /\ r.at \in {"creating", "moving"}
    BY <1>1, <1>4 DEF Managers, Points
<1> HIDE DEF r
<1>7. /\ accountsToml' = r.toml
      /\ NextIsNew'
    BY <1>2, <1>3, <1>4, <1>5, IdsStay DEF AccInv
<1>8. /\ r.toml.selected \in r.toml.accounts \cup {NoAccount}
      /\ \A i \in Ids : dirs[i] = "mail" => i \in r.toml.accounts
      /\ hurt \cap Mishaps = {} => r.toml.order = r.toml.accounts
      /\ r.toml.selected = NoAccount =>
            \/ r.toml.accounts = {}
            \/ accountsToml.selected = NoAccount /\ accountsToml.accounts # {}
                  /\ s.at \notin {"adding", "migrating"}
    BY <1>1, <1>2, <1>3, <1>4, <1>5, <1>6
    DEF AccInv, SelectedUnlessFirst, NoMailLeftBehind, OrderComplete, Mishaps, Ids, Sound
<1>9. /\ r.open \subseteq r.toml.accounts
      /\ r.at # "idle" =>
            /\ r.id \in r.toml.accounts
            /\ hurt \cap Mishaps = {} => r.toml.accounts \subseteq r.open \cup {r.id}
            /\ r.at \notin {"removing", "unlisting"}
      /\ r.at = "idle" /\ hurt \cap Mishaps = {} => r.open = r.toml.accounts
    BY <1>1, <1>2, <1>3, <1>4, <1>5, <1>6 DEF Sound, AtWork
<1> QED
    BY <1>1, <1>2, <1>5, <1>7, <1>8, <1>9, SyncKeeps

\* The account is taken out of the file, its directory being gone.
LEMMA UnlistKeeps ==
    ASSUME AccInv, NEW p \in Procs, Unlist(p)
    PROVE  AccInv'
<1> DEFINE s == procs[p]
           t == Without(s.toml, s.id)
           r == [s EXCEPT !.toml = t, !.at = "idle"]
<1>1. Sound(p) /\ s \in Managers /\ everUsed \in Seq(Nat)
    BY DEF AccInv, AccTypes
<1>2. /\ procs' = [procs EXCEPT ![p] = r]
      /\ accountsToml' = t /\ UNCHANGED <<lockedBy, dirs, hurt, everUsed>>
      /\ s.writable
    BY DEF Unlist, MayOperate, Sync, AccInv, AccTypes, Managers
<1>3. s.toml = accountsToml /\ s.toml \in Tomls /\ s.open \subseteq s.toml.accounts
    BY <1>1, <1>2 DEF Sound, Managers
<1>6. /\ s.at = "unlisting" /\ s.id \in s.toml.accounts /\ s.id \in Ids /\ s.id \notin s.open
      /\ dirs[s.id] # "mail"
      /\ s.toml.selected \in s.toml.accounts \cup {NoAccount}
    BY <1>1, <1>3 DEF Unlist, Sound, AtWork, Tomls, AccInv, SelectedUnlessFirst
<1>4. /\ t \in Tomls /\ t.accounts = s.toml.accounts \ {s.id} /\ t.order = s.toml.order \ {s.id}
      /\ t.next = s.toml.next
      /\ t.selected \in t.accounts \cup {NoAccount}
      /\ t.selected = NoAccount => s.toml.selected = NoAccount \/ t.accounts = {}
    BY <1>3, <1>6, LessToml
<1> HIDE DEF t
<1>5. /\ r \in Managers /\ r.writable = s.writable /\ r.up = s.up /\ r.toml = t
      /\ r.open = s.open /\ r.id = s.id
      /\ r.at = "idle"
    BY <1>1, <1>4 DEF Managers, Points
<1> HIDE DEF r
<1>7. /\ accountsToml' = r.toml
      /\ NextIsNew'
    BY <1>2, <1>3, <1>4, <1>5, IdsStay DEF AccInv
<1>8. /\ r.toml.selected \in r.toml.accounts \cup {NoAccount}
      /\ \A i \in Ids : dirs[i] = "mail" => i \in r.toml.accounts
      /\ hurt \cap Mishaps = {} => r.toml.order = r.toml.accounts
      /\ r.toml.selected = NoAccount =>
            \/ r.toml.accounts = {}
            \/ accountsToml.selected = NoAccount /\ accountsToml.accounts # {}
                  /\ s.at \notin {"adding", "migrating"}
    BY <1>1, <1>2, <1>3, <1>4, <1>5, <1>6
    DEF AccInv, SelectedUnlessFirst, NoMailLeftBehind, OrderComplete, Mishaps, Ids, Sound
<1>9. /\ r.open \subseteq r.toml.accounts
      /\ r.at # "idle" =>
            /\ r.id \in r.toml.accounts
            /\ hurt \cap Mishaps = {} => r.toml.accounts \subseteq r.open \cup {r.id}
            /\ r.at \notin {"removing", "unlisting"}
      /\ r.at = "idle" /\ hurt \cap Mishaps = {} => r.open = r.toml.accounts
    <2>1. hurt \cap Mishaps = {} => s.toml.accounts \subseteq s.open \cup {s.id}
        BY <1>1, <1>6 DEF Sound, AtWork
    <2>2. hurt \cap Mishaps = {} => s.open = s.toml.accounts \ {s.id}
        BY <1>3, <1>6, <2>1
    <2>3. s.open \subseteq s.toml.accounts \ {s.id}
        BY <1>3, <1>6
    <2> QED
        BY <1>4, <1>5, <2>2, <2>3
<1> QED
    BY <1>1, <1>2, <1>5, <1>7, <1>8, <1>9, SyncKeeps

\* The user selects an account.
LEMMA SelectKeeps ==
    ASSUME AccInv, NEW p \in Procs, NEW id \in Ids, SelectAccount(p, id)
    PROVE  AccInv'
<1> DEFINE s == procs[p]
           t == [s.toml EXCEPT !.selected = id]
           r == [s EXCEPT !.toml = t]
<1>1. Sound(p) /\ s \in Managers /\ everUsed \in Seq(Nat)
    BY DEF AccInv, AccTypes
<1>2. /\ procs' = [procs EXCEPT ![p] = r]
      /\ accountsToml' = t /\ UNCHANGED <<lockedBy, dirs, hurt, everUsed>>
      /\ s.writable
    BY DEF SelectAccount, MayOperate, Sync, AccInv, AccTypes, Managers
<1>3. s.toml = accountsToml /\ s.toml \in Tomls /\ s.open \subseteq s.toml.accounts
    BY <1>1, <1>2 DEF Sound, Managers
<1>6. s.at = "idle" /\ id \in s.toml.accounts /\ id # NoAccount
    BY DEF SelectAccount, MayOperate, Ids, NoAccount
<1>4. /\ t \in Tomls /\ t.accounts = s.toml.accounts /\ t.order = s.toml.order
      /\ t.next = s.toml.next /\ t.selected = id
    BY <1>3 DEF Tomls
<1> HIDE DEF t
<1>5. /\ r \in Managers /\ r.writable = s.writable /\ r.up = s.up /\ r.toml = t
      /\ r.open = s.open /\ r.id = s.id
      /\ r.at = "idle"
    BY <1>1, <1>4, <1>6 DEF Managers, Points
<1> HIDE DEF r
<1>7. /\ accountsToml' = r.toml
      /\ NextIsNew'
    BY <1>2, <1>3, <1>4, <1>5, IdsStay DEF AccInv
<1>8. /\ r.toml.selected \in r.toml.accounts \cup {NoAccount}
      /\ \A i \in Ids : dirs[i] = "mail" => i \in r.toml.accounts
      /\ hurt \cap Mishaps = {} => r.toml.order = r.toml.accounts
      /\ r.toml.selected = NoAccount =>
            \/ r.toml.accounts = {}
            \/ accountsToml.selected = NoAccount /\ accountsToml.accounts # {}
                  /\ s.at \notin {"adding", "migrating"}
    BY <1>1, <1>2, <1>3, <1>4, <1>5, <1>6
    DEF AccInv, SelectedUnlessFirst, NoMailLeftBehind, OrderComplete, Mishaps, Ids, Sound
<1>9. /\ r.open \subseteq r.toml.accounts
      /\ r.at # "idle" =>
            /\ r.id \in r.toml.accounts
            /\ hurt \cap Mishaps = {} => r.toml.accounts \subseteq r.open \cup {r.id}
            /\ r.at \notin {"removing", "unlisting"}
      /\ r.at = "idle" /\ hurt \cap Mishaps = {} => r.open = r.toml.accounts
    BY <1>1, <1>2, <1>3, <1>4, <1>5, <1>6 DEF Sound, AtWork
<1> QED
    BY <1>1, <1>2, <1>5, <1>7, <1>8, <1>9, SyncKeeps

\* The user sorts the accounts.
LEMMA OrderKeeps ==
    ASSUME AccInv, NEW p \in Procs, NEW order \in SUBSET Ids, SetAccountsOrder(p, order)
    PROVE  AccInv'
<1> DEFINE s == procs[p]
           t == [s.toml EXCEPT !.order = (order \cap s.open) \cup (s.open \ (order \cap s.open))]
           r == [s EXCEPT !.toml = t]
<1>1. Sound(p) /\ s \in Managers /\ everUsed \in Seq(Nat)
    BY DEF AccInv, AccTypes
<1>2. /\ procs' = [procs EXCEPT ![p] = r]
      /\ accountsToml' = t /\ UNCHANGED <<lockedBy, dirs, hurt, everUsed>>
      /\ s.writable
    BY DEF SetAccountsOrder, MayOperate, Sync, AccInv, AccTypes, Managers
<1>3. s.toml = accountsToml /\ s.toml \in Tomls /\ s.open \subseteq s.toml.accounts
    BY <1>1, <1>2 DEF Sound, Managers
<1>6. s.at = "idle"
    BY DEF SetAccountsOrder, MayOperate
<1>4. /\ t \in Tomls /\ t.accounts = s.toml.accounts /\ t.order = s.open
      /\ t.next = s.toml.next /\ t.selected = s.toml.selected
    BY <1>3 DEF Tomls
<1> HIDE DEF t
<1>5. /\ r \in Managers /\ r.writable = s.writable /\ r.up = s.up /\ r.toml = t
      /\ r.open = s.open /\ r.id = s.id
      /\ r.at = "idle"
    BY <1>1, <1>4, <1>6 DEF Managers, Points
<1> HIDE DEF r
<1>7. /\ accountsToml' = r.toml
      /\ NextIsNew'
    BY <1>2, <1>3, <1>4, <1>5, IdsStay DEF AccInv
<1>8. /\ r.toml.selected \in r.toml.accounts \cup {NoAccount}
      /\ \A i \in Ids : dirs[i] = "mail" => i \in r.toml.accounts
      /\ hurt \cap Mishaps = {} => r.toml.order = r.toml.accounts
      /\ r.toml.selected = NoAccount =>
            \/ r.toml.accounts = {}
            \/ accountsToml.selected = NoAccount /\ accountsToml.accounts # {}
                  /\ s.at \notin {"adding", "migrating"}
    BY <1>1, <1>2, <1>3, <1>4, <1>5, <1>6
    DEF AccInv, SelectedUnlessFirst, NoMailLeftBehind, OrderComplete, Mishaps, Ids, Sound
<1>9. /\ r.open \subseteq r.toml.accounts
      /\ r.at # "idle" =>
            /\ r.id \in r.toml.accounts
            /\ hurt \cap Mishaps = {} => r.toml.accounts \subseteq r.open \cup {r.id}
            /\ r.at \notin {"removing", "unlisting"}
      /\ r.at = "idle" /\ hurt \cap Mishaps = {} => r.open = r.toml.accounts
    BY <1>1, <1>2, <1>3, <1>4, <1>5, <1>6 DEF Sound, AtWork
<1> QED
    BY <1>1, <1>2, <1>5, <1>7, <1>8, <1>9, SyncKeeps

\* Every step keeps the invariant.
LEMMA AccNextInv == AccInv /\ [AccNext]_accVars => AccInv'
<1> SUFFICES ASSUME AccInv, [AccNext]_accVars PROVE AccInv'
    OBVIOUS
<1>1. CASE UNCHANGED accVars
    BY <1>1 DEF accVars, AccInv, AccTypes, Sound, AtWork, NextIsNew, IdsUnique, SelectedUnlessFirst,
        NoMailLeftBehind, OrderComplete
<1>2. CASE AccNext
    BY <1>2, OpenKeeps, EndKeeps, NewKeeps, SelectNewKeeps, CreateKeeps, DatabaseKeeps, BlobsKeep,
        FailedKeeps, RemoveKeeps, RemoveDirKeeps, NotRemovedKeeps, UnlistKeeps, SelectKeeps,
        OrderKeeps
    DEF AccNext, Ids
<1> QED
    BY <1>1, <1>2

\* A new folder.
LEMMA AccInitInv == AccInit => AccInv
<1> SUFFICES ASSUME AccInit PROVE AccInv
    OBVIOUS
<1>1. EmptyToml \in Tomls
    BY DEF EmptyToml, Tomls
<1>2. /\ Down \in Managers /\ Down.open = {} /\ Down.writable = FALSE /\ Down.at = "idle"
    BY <1>1 DEF Down, Managers, Points
<1>3. AccTypes
    BY <1>1, <1>2 DEF AccInit, AccTypes, Ids
<1>4. \A p \in Procs : Sound(p)
    BY <1>2 DEF AccInit, Sound
<1>5. NextIsNew
    <2>1. everUsed = << >> /\ accountsToml.next = 1
        BY DEF AccInit, EmptyToml
    <2> QED
        BY <2>1 DEF NextIsNew, IdsUnique, IsInjective
<1>6. SelectedUnlessFirst /\ NoMailLeftBehind /\ OrderComplete
    BY DEF AccInit, EmptyToml, SelectedUnlessFirst, NoMailLeftBehind, OrderComplete
<1> QED
    BY <1>3, <1>4, <1>5, <1>6 DEF AccInv

----------------------------------------------------------------------------
(***************************************************************************)
(* What the account manager promises.                                      *)
(***************************************************************************)

\* However many processes open the folder and wherever they fail or die: two never overwrite
\* each other's accounts, no id is handed out twice, a listed account is selected when there
\* is one, no mail stays in a directory that is not listed, and the order names what is
\* listed.
THEOREM FolderSound == AccSpec => []AccountsSafe
<1>1. AccInv => AccountsSafe
    <2> SUFFICES ASSUME AccInv PROVE AccountsSafe
        OBVIOUS
    <2>1. AccTypeOK
        BY DEF AccInv, AccTypes, Tomls, Sound, AccTypeOK, Ids
    <2>2. WriterIsCurrent /\ IdsUnique /\ NoMailLeftBehind /\ OrderComplete
        BY DEF AccInv, Sound, NextIsNew, WriterIsCurrent
    <2>3. SelectionListed
        BY DEF AccInv, SelectedUnlessFirst, SelectionListed
    <2> QED
        BY <2>1, <2>2, <2>3 DEF AccountsSafe
<1> QED
    BY <1>1, AccInitInv, AccNextInv, PTL DEF AccSpec

----------------------------------------------------------------------------
(***************************************************************************)
(* AtRest: the inductive invariant.                                        *)
(***************************************************************************)

\* Places of a handler: in a conversion, in enable, in the pass over the blobs, in migrate, after a blob is stored.
Converting == {"read", "write", "replace"}
Enabling == {"ensure", "generate", "on"}
Passing == {"next"} \cup Converting
Migrating == {"migrate", "scan", "drop"} \cup Passing
Stored == {"check", "ensure", "commit"} \cup Converting

\* Where the tasks work.
AtPaths ==
    /\ pc[Inbox] # Idle => \E b \in Blobs : path[Inbox] = Named(b)
    /\ pc[User] \in Converting => path[User] \in Scanned

\* With one handler at a time, one task at least is idle.
OneBusy == MaxRunning = 1 => pc[Inbox] = Idle \/ pc[User] = Idle

\* The cache tells what the database holds.
CacheRight ==
    /\ "key" \in cached => mem.key = db.key
    /\ "on" \in cached => mem.on = db.on

\* Encryption is on only with a key, and a copy has what the database has.
KeyThere ==
    /\ db.on => db.key # NoKey
    /\ pc[User] \in {"close", "rename"} =>
          copy.key = db.key /\ copy.on = db.on /\ copy.rows \subseteq db.rows

\* What the inbox knows of the key: it never makes one itself.
InboxKnows ==
    /\ pc[Inbox] # "generate"
    /\ pc[Inbox] = "ensure" => db.on
    /\ pc[Inbox] \in Converting => db.on /\ key[Inbox] = db.key

\* What the user's call knows.  Blobs are opened only where nothing runs beside it or fails.
UserKnows ==
    /\ pc[User] \in Enabling => target
    /\ pc[User] = "generate" => db.key = NoKey
    /\ pc[User] = "on" => db.key # NoKey
    /\ pc[User] \in Migrating => target = db.on
    /\ pc[User] \in {"scan"} \cup Passing => key[User] = db.key /\ db.key # NoKey
    /\ pc[User] = "drop" => ~db.on
    /\ pc[User] \in Migrating /\ ~db.on => MaxRunning = 1 /\ MaxFails = 0

\* What convert is about to rename into place.
InHand ==
    \A t \in Tasks : pc[t] \in {"write", "replace"} =>
        buf[t].exists /\ buf[t].key = IF t = Inbox \/ target THEN db.key ELSE NoKey

\* No file is under any other key.
OneKey == \A e \in Scanned : file[e].exists => file[e].key \in {NoKey, db.key}

\* The files of messages are there, and so is the one that is being stored.
BlobsThere ==
    /\ \A b \in db.rows : file[Named(b)].exists
    /\ pc[Inbox] \in {"store", "name"} => file[Temp(path[Inbox][1])].exists
    /\ pc[Inbox] \in Stored => file[path[Inbox]].exists

\* Somebody will encrypt this file.
ToBeSealed(e) ==
    \/ pc[User] \in Enabling \cup {"migrate", "scan"}
    \/ pc[User] \in Passing /\ e \in todo
    \/ pc[User] \in Converting /\ e = path[User]
    \/ pc[Inbox] \in {"store", "name"} /\ e = Temp(path[Inbox][1])
    \/ pc[Inbox] \in Stored \ {"commit"} /\ e = path[Inbox]

\* While encryption is on and no pass was cut short, a clear blob is somebody's to seal.
ClearOnesSealed ==
    db.on /\ ~interrupted =>
        \A e \in Scanned : file[e].exists /\ file[e].key = NoKey => ToBeSealed(e)

\* While encryption is turned off, what is still encrypted is ahead of the pass.
SealedOnesAhead ==
    pc[User] \in Passing \cup {"drop"} /\ ~db.on =>
        \A e \in Scanned : file[e].exists /\ file[e].key # NoKey =>
            \/ pc[User] # "drop" /\ e \in todo
            \/ pc[User] \in Converting /\ e = path[User]

\* The inductive invariant for any handlers at once.
BlobInv ==
    /\ TypeOK /\ AtPaths /\ OneBusy /\ CacheRight /\ KeyThere /\ InboxKnows /\ UserKnows /\ InHand
    /\ OneKey /\ BlobsThere /\ ClearOnesSealed /\ SealedOnesAhead

\* With one handler at a time blobs are whole and commits are kept, on the way too.
WholeInv ==
    /\ WholeBlobs
    /\ pc[Inbox] = "store" => file[Temp(path[Inbox][1])].fd
    /\ pc[Inbox] = "name" => file[Temp(path[Inbox][1])].whole
    /\ \A t \in Tasks : pc[t] \in {"write", "replace"} /\ path[t][2] = "named" => buf[t].whole

\* Committed rows are kept, and are in the copy that is about to replace the file.
CommitInv ==
    /\ CommittedStays
    /\ pc[User] \in {"close", "rename"} => acked \subseteq copy.rows

\* With one handler at a time, more is known.
RestInv == BlobInv /\ (MaxRunning = 1 => WholeInv /\ CommitInv)

\* Blob encryption is never turned off, or nothing runs beside that or fails.
SafelyOff == "disable" \notin Ops \/ (MaxRunning = 1 /\ MaxFails = 0)


----------------------------------------------------------------------------
(***************************************************************************)
(* Paths, and records that are changed in one field.                       *)
(***************************************************************************)

\* A blob's two names are scanned and differ; what convert writes beside them is not scanned.
LEMMA PathFacts ==
    /\ \A b \in Blobs : Temp(b) \in Scanned /\ Named(b) \in Scanned
    /\ \A b, c \in Blobs : Temp(b) # Named(c)
    /\ \A b \in Blobs : Temp(b)[1] = b /\ Named(b)[1] = b /\ Temp(b)[2] = "tmp" /\ Named(b)[2] = "named"
    /\ \A b, c \in Blobs : (Temp(b) = Temp(c) \/ Named(b) = Named(c)) => b = c
    /\ \A e \in Scanned : Beside(e) \in Entries \ Scanned
    /\ \A e \in Scanned : e[2] = "named" => e[1] \in Blobs /\ e = Named(e[1])
    /\ Scanned \subseteq Entries /\ NoPath \notin {Named(b) : b \in Blobs}
BY DEF Temp, Named, Beside, Scanned, Entries, NoPath

\* A file sealed or opened is the same file under another key, closed.
LEMMA SealedFacts ==
    ASSUME NEW f \in File, NEW k \in 0..keys
    PROVE  Sealed(k, f) \in File /\ Sealed(k, f).key = k /\ Sealed(k, f).exists = f.exists /\ Sealed(k, f).whole = f.whole
BY DEF Sealed, File

\* What convert makes of a file: protect seals, migrate does what its call is about.
LEMMA ConvertedFacts ==
    ASSUME TypeOK, NEW t \in Tasks, NEW f \in File
    PROVE  /\ Converted(t, f) \in File /\ Converted(t, f).exists = f.exists /\ Converted(t, f).whole = f.whole
           /\ Converted(t, f).key = IF t = Inbox \/ target THEN IF f.key = NoKey THEN key[t] ELSE f.key
                                   ELSE IF f.key = key[t] THEN NoKey ELSE f.key
<1>1. key[t] \in 0..keys /\ NoKey \in 0..keys
    BY BoundsAssumption DEF TypeOK, NoKey
<1>2. Sealed(key[t], f) \in File /\ Sealed(key[t], f).key = key[t] /\ Sealed(key[t], f).exists = f.exists
      /\ Sealed(key[t], f).whole = f.whole
    BY <1>1, SealedFacts
<1>3. Sealed(NoKey, f) \in File /\ Sealed(NoKey, f).key = NoKey /\ Sealed(NoKey, f).exists = f.exists
      /\ Sealed(NoKey, f).whole = f.whole
    BY <1>1, SealedFacts
<1> QED
    BY <1>2, <1>3 DEF Converted

\* Settings are read as they are in the database, whether from there or from the cache.
LEMMA GetRight ==
    ASSUME TypeOK, CacheRight
    PROVE  Get("key") = db.key /\ Get("on") = db.on
BY DEF TypeOK, CacheRight, Get, Database

\* Reading a setting fills the cache and changes nothing else.
LEMMA FillKeeps ==
    ASSUME TypeOK, CacheRight, NEW name \in {"key", "on"}, Fill(name), keys' = keys
    PROVE  /\ cached' \subseteq {"key", "on"} /\ mem' \in [key : 0..keys', on : BOOLEAN]
           /\ CacheRight'
           /\ UNCHANGED <<db, copy, pool_open, is_encrypted>>
<1>1. Get("key") = db.key /\ Get("on") = db.on
    BY GetRight
<1>2. mem \in [key : 0..keys, on : BOOLEAN] /\ db.key \in 0..keys /\ db.on \in BOOLEAN /\ cached \subseteq {"key", "on"}
    BY DEF TypeOK, Database
<1>3. CASE name = "key"
    BY <1>1, <1>2, <1>3 DEF Fill, CacheRight
<1>4. CASE name = "on"
    BY <1>1, <1>2, <1>4 DEF Fill, CacheRight
<1> QED
    BY <1>3, <1>4

\* Making the key, or dropping it, changes it in the database and in the cache.
LEMMA SetKeyKeeps ==
    ASSUME TypeOK, CacheRight, NEW k \in Nat, SetRaw("key", k), keys' \in Nat, k <= keys', keys <= keys'
    PROVE  /\ cached' \subseteq {"key", "on"} /\ mem' \in [key : 0..keys', on : BOOLEAN]
           /\ CacheRight'
           /\ db' \in Database' /\ db'.key = k /\ db'.on = db.on /\ db'.rows = db.rows /\ db'.enc = db.enc
           /\ UNCHANGED <<copy, pool_open, is_encrypted>>
<1>1. mem \in [key : 0..keys, on : BOOLEAN] /\ db \in Database /\ cached \subseteq {"key", "on"} /\ keys \in Nat
    BY BoundsAssumption DEF TypeOK
<1>2. k \in 0..keys' /\ 0..keys \subseteq 0..keys'
    BY <1>1
<1>3. db' = [db EXCEPT !["key"] = k] /\ mem' = [mem EXCEPT !["key"] = k] /\ cached' = cached \cup {"key"}
    BY DEF SetRaw
<1>4. db' \in Database' /\ db'.key = k /\ db'.on = db.on /\ db'.rows = db.rows /\ db'.enc = db.enc
    BY <1>1, <1>2, <1>3 DEF Database
<1>5. mem' \in [key : 0..keys', on : BOOLEAN] /\ mem'.key = k /\ mem'.on = mem.on
    BY <1>1, <1>2, <1>3
<1> QED
    BY <1>1, <1>3, <1>4, <1>5 DEF CacheRight, SetRaw

\* And so does switching encryption on or off.
LEMMA SetOnKeeps ==
    ASSUME TypeOK, CacheRight, NEW v \in BOOLEAN, SetRaw("on", v), keys' = keys
    PROVE  /\ cached' \subseteq {"key", "on"} /\ mem' \in [key : 0..keys', on : BOOLEAN]
           /\ CacheRight'
           /\ db' \in Database' /\ db'.key = db.key /\ db'.on = v /\ db'.rows = db.rows /\ db'.enc = db.enc
           /\ UNCHANGED <<copy, pool_open, is_encrypted>>
<1>1. mem \in [key : 0..keys, on : BOOLEAN] /\ db \in Database /\ cached \subseteq {"key", "on"}
    BY DEF TypeOK
<1>3. db' = [db EXCEPT !["on"] = v] /\ mem' = [mem EXCEPT !["on"] = v] /\ cached' = cached \cup {"on"}
    BY DEF SetRaw
<1>4. db' \in Database' /\ db'.key = db.key /\ db'.on = v /\ db'.rows = db.rows /\ db'.enc = db.enc
    BY <1>1, <1>3 DEF Database
<1>5. mem' \in [key : 0..keys', on : BOOLEAN] /\ mem'.key = mem.key /\ mem'.on = v
    BY <1>1, <1>3
<1> QED
    BY <1>1, <1>3, <1>4, <1>5 DEF CacheRight, SetRaw

\* A task may begin, with one handler at a time, only when all are idle.
LEMMA StartAlone ==
    ASSUME NEW t \in Tasks, CanStart(t), MaxRunning = 1
    PROVE  pc[Inbox] = Idle /\ pc[User] = Idle
<1> DEFINE busy == {u \in Tasks : pc[u] # Idle}
<1>1. IsFiniteSet(Tasks)
    <2>1. IsFiniteSet({Inbox}) /\ IsFiniteSet({User}) /\ Tasks = {Inbox} \cup {User}
        BY FS_Singleton DEF Tasks
    <2> QED
        BY <2>1, FS_Union, Zenon
<1>2. IsFiniteSet(busy)
    BY <1>1, FS_Subset
<1>3. Cardinality(busy) \in Nat /\ Cardinality(busy) < 1
    BY <1>2, FS_CardinalityType DEF CanStart
<1>4. busy = {}
    BY <1>2, <1>3, FS_EmptySet
<1> QED
    BY <1>4 DEF Tasks

\* The initial states satisfy the invariant.
LEMMA BlobInit == ASSUME Init PROVE BlobInv /\ WholeInv /\ CommitInv
<1>1. db \in Database /\ db.on = FALSE /\ db.key = 0 /\ db.rows = {}
    <2>1. PICK z \in BOOLEAN : db = [enc |-> z, key |-> NoKey, on |-> FALSE, rows |-> {}]
        BY DEF Init
    <2>2. keys = 0
        BY DEF Init
    <2>3. 0 \in 0..keys
        BY <2>2
    <2> QED
        BY <2>1, <2>3 DEF Database, NoKey
<1>2. TypeOK
    <2>1. copy \in Database /\ mem \in [key : 0..keys, on : BOOLEAN] /\ keys = 0
        BY BoundsAssumption DEF Init, Database, NoCopy, NoKey
    <2>2. NoFile \in File /\ NoKey \in 0..keys /\ Idle \in Labels
        BY <2>1 DEF File, NoFile, NoKey, Labels
    <2>3. file \in [Entries -> File] /\ pc \in [Tasks -> Labels] /\ path \in [Tasks -> Entries \cup {NoPath}]
          /\ key \in [Tasks -> 0..keys] /\ buf \in [Tasks -> File]
        BY <2>2 DEF Init
    <2>4. is_encrypted \in BOOLEAN
        BY <1>1 DEF Init, Database
    <2>5. keys \in 0..MaxKeys /\ fails \in 0..MaxFails /\ crashes \in 0..MaxCrashes
        BY BoundsAssumption DEF Init
    <2>6. pool_open \in BOOLEAN /\ cached = {} /\ todo = {} /\ acked = {} /\ target \in BOOLEAN /\ interrupted \in BOOLEAN
        BY DEF Init
    <2> QED
        BY <1>1, <2>1, <2>3, <2>4, <2>5, <2>6 DEF TypeOK
<1>3. pc[Inbox] = Idle /\ pc[User] = Idle
    <2>1. pc = [t \in Tasks |-> Idle]
        BY DEF Init
    <2> QED
        BY <2>1 DEF Tasks
<1>4. \A e \in Entries : ~file[e].exists
    BY DEF Init, NoFile
<1> QED
    BY <1>1, <1>2, <1>3, <1>4, PathFacts
    DEF Init, BlobInv, AtPaths, OneBusy, CacheRight, KeyThere, InboxKnows, UserKnows, InHand, OneKey, BlobsThere,
        ClearOnesSealed, SealedOnesAhead, WholeInv, CommitInv, WholeBlobs, CommittedStays, Idle, Converting,
        Enabling, Passing, Migrating, Stored, NoKey, Tasks

----------------------------------------------------------------------------
(***************************************************************************)
(* Each step keeps it.                                                     *)
(***************************************************************************)

\* A call that returns forgets what it had in hand, and the other task keeps its own.
LEMMA ReturnDoes ==
    ASSUME TypeOK, NEW t \in Tasks, Return(t), keys' = keys
    PROVE  /\ pc' \in [Tasks -> Labels] /\ path' \in [Tasks -> Entries \cup {NoPath}]
           /\ key' \in [Tasks -> 0..keys'] /\ buf' \in [Tasks -> File'] /\ todo' \subseteq Scanned /\ target' \in BOOLEAN
           /\ pc'[t] = Idle
           /\ \A u \in Tasks \ {t} : pc'[u] = pc[u] /\ path'[u] = path[u] /\ key'[u] = key[u] /\ buf'[u] = buf[u]
           /\ t = Inbox => todo' = todo /\ target' = target
<1>1. NoFile \in File /\ NoKey \in 0..keys /\ Idle \in Labels
    BY BoundsAssumption DEF NoFile, File, NoKey, Labels, Idle, TypeOK
<1> QED
    BY <1>1 DEF TypeOK, Return, Goto, Reset, Inbox, User, File


\* Storing begins with a new file, clear and in part.
LEMMA StoreBeginKeeps ==
    ASSUME RestInv, SafelyOff, NEW b \in Blobs, StoreBegin(b)
    PROVE  RestInv'
<1> USE DEF Idle, Converting, Enabling, Passing, Migrating, Stored, NoKey, Inbox, User, Tasks
<1>1. TypeOK /\ AtPaths /\ OneBusy /\ CacheRight /\ KeyThere /\ InboxKnows /\ UserKnows /\ InHand /\ OneKey
      /\ BlobsThere /\ ClearOnesSealed /\ SealedOnesAhead /\ (MaxRunning = 1 => WholeInv /\ CommitInv)
    BY DEF RestInv, BlobInv
<1>2. db.rows \subseteq Blobs /\ db.on \in BOOLEAN /\ target \in BOOLEAN
    BY <1>1 DEF TypeOK, Database
<1>3. pc' \in [Tasks -> Labels] /\ pc'[Inbox] = "store" /\ pc'[User] = pc[User]
    BY <1>1 DEF StoreBegin, Goto, TypeOK, Labels
<1>4. pc[Inbox] = Idle /\ (MaxRunning = 1 => pc[User] = Idle)
    BY StartAlone DEF StoreBegin, CanStart
<1>5. /\ file' \in [Entries -> File]
      /\ file'[Temp(b)] = [key |-> NoKey, whole |-> FALSE, fd |-> TRUE, exists |-> TRUE]
      /\ \A e \in Entries : e # Temp(b) => file'[e] = file[e]
    BY <1>1, PathFacts DEF StoreBegin, TypeOK, File
<1>6. path' \in [Tasks -> Entries \cup {NoPath}] /\ path'[Inbox] = Named(b) /\ path'[User] = path[User]
    BY <1>1, PathFacts DEF StoreBegin, TypeOK
<1>7. UNCHANGED <<db, copy, pool_open, is_encrypted, cached, mem, key, buf, todo, target, keys, fails, crashes, acked, interrupted, File, Database>>
    BY DEF StoreBegin, database, locals, faults, history, File, Database
<1>8. TypeOK'
    BY <1>1, <1>2, <1>3, <1>5, <1>6, <1>7 DEF TypeOK
<1>9. AtPaths' /\ OneBusy' /\ CacheRight' /\ KeyThere'
    BY <1>1, <1>2, <1>3, <1>4, <1>6, <1>7 DEF AtPaths, OneBusy, CacheRight, KeyThere
<1>10. InboxKnows' /\ UserKnows' /\ InHand'
    BY <1>1, <1>2, <1>3, <1>7 DEF InboxKnows, OneBusy, UserKnows, InHand
<1>11. OneKey' /\ BlobsThere'
    BY <1>1, <1>2, <1>3, <1>5, <1>6, <1>7, PathFacts DEF OneKey, BlobsThere, AtPaths
<1>12. ClearOnesSealed'
    BY <1>1, <1>3, <1>4, <1>5, <1>6, <1>7, PathFacts DEF ClearOnesSealed, ToBeSealed, AtPaths, UserKnows, InboxKnows
<1>13. SealedOnesAhead'
    BY <1>1, <1>3, <1>4, <1>7 DEF SealedOnesAhead, UserKnows
<1>14. MaxRunning = 1 => WholeInv' /\ CommitInv'
    BY <1>1, <1>2, <1>3, <1>5, <1>6, <1>7, PathFacts DEF WholeInv, WholeBlobs, AtPaths, OneBusy, CommitInv, CommittedStays
<1> QED
    BY <1>8, <1>9, <1>10, <1>11, <1>12, <1>13, <1>14 DEF RestInv, BlobInv

\* The rest of the file is written.
LEMMA StoreEndKeeps ==
    ASSUME RestInv, SafelyOff, NEW b \in Blobs, StoreEnd(b)
    PROVE  RestInv'
<1> USE DEF Idle, Converting, Enabling, Passing, Migrating, Stored, NoKey, Inbox, User, Tasks
<1>1. TypeOK /\ AtPaths /\ OneBusy /\ CacheRight /\ KeyThere /\ InboxKnows /\ UserKnows /\ InHand /\ OneKey
      /\ BlobsThere /\ ClearOnesSealed /\ SealedOnesAhead /\ (MaxRunning = 1 => WholeInv /\ CommitInv)
    BY DEF RestInv, BlobInv
<1>2. db.rows \subseteq Blobs /\ db.on \in BOOLEAN /\ target \in BOOLEAN
    BY <1>1 DEF TypeOK, Database
<1>3. pc' \in [Tasks -> Labels] /\ pc'[Inbox] = "name" /\ pc'[User] = pc[User]
    BY <1>1 DEF StoreEnd, Goto, TypeOK, Labels
<1>4. pc[Inbox] = "store" /\ path[Inbox] = Named(b)
    BY DEF StoreEnd
<1>5. /\ file' \in [Entries -> File]
      /\ \A e \in Entries : file'[e].key = file[e].key /\ file'[e].exists = file[e].exists
      /\ \A e \in Entries : e # Temp(b) => file'[e] = file[e]
      /\ file[Temp(b)].fd => file'[Temp(b)].whole
    BY <1>1, PathFacts DEF StoreEnd, TypeOK, File
<1>6. UNCHANGED <<db, copy, pool_open, is_encrypted, cached, mem, path, key, buf, todo, target, keys, fails, crashes, acked, interrupted, File, Database>>
    BY DEF StoreEnd, database, locals, faults, history, File, Database
<1>7. TypeOK'
    BY <1>1, <1>2, <1>3, <1>5, <1>6 DEF TypeOK
<1>8. AtPaths' /\ OneBusy' /\ CacheRight' /\ KeyThere'
    BY <1>1, <1>3, <1>4, <1>6 DEF AtPaths, OneBusy, CacheRight, KeyThere
<1>9. InboxKnows' /\ UserKnows' /\ InHand'
    BY <1>1, <1>2, <1>3, <1>6 DEF InboxKnows, OneBusy, UserKnows, InHand
<1>10. OneKey' /\ BlobsThere'
    BY <1>1, <1>2, <1>3, <1>4, <1>5, <1>6, PathFacts DEF OneKey, BlobsThere, AtPaths
<1>11. ClearOnesSealed'
    BY <1>1, <1>2, <1>3, <1>4, <1>5, <1>6, PathFacts DEF ClearOnesSealed, ToBeSealed, AtPaths, UserKnows, InboxKnows
<1>12. SealedOnesAhead'
    BY <1>1, <1>2, <1>3, <1>4, <1>6 DEF SealedOnesAhead, OneBusy, UserKnows
<1>13. MaxRunning = 1 => WholeInv' /\ CommitInv'
    BY <1>1, <1>2, <1>3, <1>4, <1>5, <1>6, PathFacts DEF WholeInv, WholeBlobs, AtPaths, OneBusy, CommitInv, CommittedStays
<1> QED
    BY <1>7, <1>8, <1>9, <1>10, <1>11, <1>12, <1>13 DEF RestInv, BlobInv

\* The file gets its name, over another one if there is one.
LEMMA NameBlobKeeps ==
    ASSUME RestInv, SafelyOff, NEW b \in Blobs, NameBlob(b)
    PROVE  RestInv'
<1> USE DEF Idle, Converting, Enabling, Passing, Migrating, Stored, NoKey, Inbox, User, Tasks
<1>1. TypeOK /\ AtPaths /\ OneBusy /\ CacheRight /\ KeyThere /\ InboxKnows /\ UserKnows /\ InHand /\ OneKey
      /\ BlobsThere /\ ClearOnesSealed /\ SealedOnesAhead /\ (MaxRunning = 1 => WholeInv /\ CommitInv)
    BY DEF RestInv, BlobInv
<1>2. db.rows \subseteq Blobs /\ db.on \in BOOLEAN /\ target \in BOOLEAN
    BY <1>1 DEF TypeOK, Database
<1>3. pc' \in [Tasks -> Labels] /\ pc'[Inbox] = "check" /\ pc'[User] = pc[User]
    BY <1>1 DEF NameBlob, Goto, TypeOK, Labels
<1>4. pc[Inbox] = "name" /\ path[Inbox] = Named(b)
    BY DEF NameBlob
<1>5. /\ file' \in [Entries -> File]
      /\ file'[Named(b)] = file[Temp(b)] /\ ~file'[Temp(b)].exists
      /\ \A e \in Entries : e # Temp(b) /\ e # Named(b) => file'[e] = file[e]
    BY <1>1, PathFacts DEF NameBlob, TypeOK, File, NoFile
<1>6. UNCHANGED <<db, copy, pool_open, is_encrypted, cached, mem, path, key, buf, todo, target, keys, fails, crashes, acked, interrupted, File, Database>>
    BY DEF NameBlob, database, locals, faults, history, File, Database
<1>7. TypeOK'
    BY <1>1, <1>2, <1>3, <1>5, <1>6 DEF TypeOK
<1>8. AtPaths' /\ OneBusy' /\ CacheRight' /\ KeyThere'
    BY <1>1, <1>2, <1>3, <1>4, <1>6 DEF AtPaths, OneBusy, CacheRight, KeyThere
<1>9. InboxKnows' /\ UserKnows' /\ InHand'
    BY <1>1, <1>2, <1>3, <1>6 DEF InboxKnows, OneBusy, UserKnows, InHand
<1>10. OneKey' /\ BlobsThere'
    BY <1>1, <1>2, <1>3, <1>4, <1>5, <1>6, PathFacts DEF OneKey, BlobsThere, AtPaths
<1>11. ClearOnesSealed'
    BY <1>1, <1>2, <1>3, <1>4, <1>5, <1>6, PathFacts DEF ClearOnesSealed, ToBeSealed, AtPaths, UserKnows, InboxKnows
<1>12. SealedOnesAhead'
    BY <1>1, <1>2, <1>3, <1>4, <1>6 DEF SealedOnesAhead, OneBusy, UserKnows
<1>13. MaxRunning = 1 => WholeInv' /\ CommitInv'
    BY <1>1, <1>2, <1>3, <1>4, <1>5, <1>6, PathFacts DEF WholeInv, WholeBlobs, AtPaths, OneBusy, CommitInv, CommittedStays
<1> QED
    BY <1>7, <1>8, <1>9, <1>10, <1>11, <1>12, <1>13 DEF RestInv, BlobInv

\* protect looks whether encryption is on.
LEMMA ProtectCheckKeeps ==
    ASSUME RestInv, SafelyOff, ProtectCheck
    PROVE  RestInv'
<1> USE DEF Idle, Converting, Enabling, Passing, Migrating, Stored, NoKey, Inbox, User, Tasks
<1>1. TypeOK /\ AtPaths /\ OneBusy /\ CacheRight /\ KeyThere /\ InboxKnows /\ UserKnows /\ InHand /\ OneKey
      /\ BlobsThere /\ ClearOnesSealed /\ SealedOnesAhead /\ (MaxRunning = 1 => WholeInv /\ CommitInv)
    BY DEF RestInv, BlobInv
<1>2. db.rows \subseteq Blobs /\ db.on \in BOOLEAN /\ target \in BOOLEAN
    BY <1>1 DEF TypeOK, Database
<1>3. pc' \in [Tasks -> Labels] /\ pc'[Inbox] = (IF Get("on") THEN "ensure" ELSE "commit") /\ pc'[User] = pc[User]
    BY <1>1 DEF ProtectCheck, Goto, TypeOK, Labels
<1>4. Get("on") = db.on /\ pc[Inbox] = "check"
    BY <1>1, GetRight DEF ProtectCheck
<1>5. UNCHANGED <<db, copy, pool_open, is_encrypted, file, path, key, buf, todo, target, keys, fails, crashes, acked, interrupted, File, Database>>
    BY DEF ProtectCheck, database, locals, faults, history, File, Database, Fill
<1>6. CacheRight' /\ cached' \subseteq {"key", "on"} /\ mem' \in [key : 0..keys', on : BOOLEAN]
    BY <1>1, FillKeeps DEF ProtectCheck
<1>7. TypeOK'
    BY <1>1, <1>2, <1>3, <1>5, <1>6 DEF TypeOK
<1>8. AtPaths' /\ OneBusy' /\ CacheRight' /\ KeyThere'
    BY <1>1, <1>2, <1>3, <1>4, <1>5, <1>6 DEF AtPaths, OneBusy, CacheRight, KeyThere
<1>9. InboxKnows' /\ UserKnows' /\ InHand'
    BY <1>1, <1>2, <1>3, <1>4, <1>5 DEF InboxKnows, OneBusy, UserKnows, InHand
<1>10. OneKey' /\ BlobsThere'
    BY <1>1, <1>2, <1>3, <1>4, <1>5 DEF OneKey, BlobsThere, AtPaths
<1>11. ClearOnesSealed'
    BY <1>1, <1>3, <1>4, <1>5 DEF ClearOnesSealed, ToBeSealed, AtPaths, UserKnows, InboxKnows
<1>12. SealedOnesAhead'
    BY <1>1, <1>2, <1>3, <1>5 DEF SealedOnesAhead
<1>13. MaxRunning = 1 => WholeInv' /\ CommitInv'
    BY <1>1, <1>2, <1>3, <1>5 DEF WholeInv, WholeBlobs, AtPaths, OneBusy, CommitInv, CommittedStays
<1> QED
    BY <1>7, <1>8, <1>9, <1>10, <1>11, <1>12, <1>13 DEF RestInv, BlobInv

\* The message is committed.
LEMMA CommitRowKeeps ==
    ASSUME RestInv, SafelyOff, NEW b \in Blobs, CommitRow(b)
    PROVE  RestInv'
<1> USE DEF Idle, Converting, Enabling, Passing, Migrating, Stored, NoKey, Inbox, User, Tasks
<1>1. TypeOK /\ AtPaths /\ OneBusy /\ CacheRight /\ KeyThere /\ InboxKnows /\ UserKnows /\ InHand /\ OneKey
      /\ BlobsThere /\ ClearOnesSealed /\ SealedOnesAhead /\ (MaxRunning = 1 => WholeInv /\ CommitInv)
    BY DEF RestInv, BlobInv
<1>2. db.rows \subseteq Blobs /\ db.on \in BOOLEAN /\ target \in BOOLEAN
    BY <1>1 DEF TypeOK, Database
<1>3. Inbox \in Tasks /\ Return(Inbox) /\ keys' = keys
    BY DEF CommitRow
<1>4. /\ pc' \in [Tasks -> Labels] /\ path' \in [Tasks -> Entries \cup {NoPath}]
      /\ key' \in [Tasks -> 0..keys'] /\ buf' \in [Tasks -> File'] /\ todo' = todo /\ target' = target
      /\ pc'[Inbox] = Idle /\ pc'[User] = pc[User] /\ path'[User] = path[User] /\ key'[User] = key[User] /\ buf'[User] = buf[User]
    BY <1>1, <1>3, ReturnDoes
<1>5. pc[Inbox] = "commit" /\ path[Inbox] = Named(b)
    BY DEF CommitRow
<1>6. UNCHANGED <<copy, pool_open, is_encrypted, cached, mem, file, keys, fails, crashes, interrupted, File, Database>>
    BY DEF CommitRow, database, locals, faults, history, File, Database
<1>7. db' \in Database' /\ db'.rows = db.rows \cup {b} /\ db'.key = db.key /\ db'.on = db.on /\ acked' = acked \cup {b}
    BY <1>1 DEF CommitRow, TypeOK, Database
<1>8. TypeOK'
    BY <1>1, <1>3, <1>4, <1>6, <1>7 DEF TypeOK
<1>9. AtPaths' /\ OneBusy' /\ CacheRight' /\ KeyThere'
    BY <1>1, <1>2, <1>3, <1>4, <1>6, <1>7 DEF AtPaths, OneBusy, CacheRight, KeyThere
<1>10. InboxKnows' /\ UserKnows' /\ InHand'
    BY <1>1, <1>2, <1>3, <1>4, <1>7 DEF InboxKnows, OneBusy, UserKnows, InHand
<1>11. OneKey' /\ BlobsThere'
    BY <1>1, <1>2, <1>3, <1>4, <1>5, <1>6, <1>7 DEF OneKey, BlobsThere, AtPaths
<1>12. ClearOnesSealed'
    BY <1>1, <1>2, <1>3, <1>4, <1>5, <1>6, <1>7 DEF ClearOnesSealed, ToBeSealed, AtPaths, UserKnows, InboxKnows
<1>13. SealedOnesAhead'
    BY <1>1, <1>3, <1>4, <1>5, <1>7 DEF SealedOnesAhead, OneBusy, UserKnows
<1>14. MaxRunning = 1 => WholeInv' /\ CommitInv'
    BY <1>1, <1>2, <1>3, <1>4, <1>5, <1>6, <1>7 DEF WholeInv, WholeBlobs, AtPaths, OneBusy, CommitInv, CommittedStays
<1> QED
    BY <1>8, <1>9, <1>10, <1>11, <1>12, <1>13, <1>14 DEF RestInv, BlobInv

\* Housekeeping removes a file that nobody uses.
LEMMA RemoveUnusedFileKeeps ==
    ASSUME RestInv, SafelyOff, NEW e \in Entries, RemoveUnusedFile(e)
    PROVE  RestInv'
<1> USE DEF Idle, Converting, Enabling, Passing, Migrating, Stored, NoKey, Inbox, User, Tasks
<1>1. TypeOK /\ AtPaths /\ OneBusy /\ CacheRight /\ KeyThere /\ InboxKnows /\ UserKnows /\ InHand /\ OneKey
      /\ BlobsThere /\ ClearOnesSealed /\ SealedOnesAhead /\ (MaxRunning = 1 => WholeInv /\ CommitInv)
    BY DEF RestInv, BlobInv
<1>2. db.rows \subseteq Blobs /\ db.on \in BOOLEAN /\ target \in BOOLEAN
    BY <1>1 DEF TypeOK, Database
<1>3. UNCHANGED <<db, copy, pool_open, is_encrypted, cached, mem, pc, path, key, buf, todo, target, keys, fails, crashes, acked, interrupted, File, Database>>
    BY DEF RemoveUnusedFile, database, locals, faults, history, File, Database
<1>4. /\ file' \in [Entries -> File]
      /\ ~file'[e].exists /\ \A x \in Entries : x # e => file'[x] = file[x]
    BY <1>1 DEF RemoveUnusedFile, TypeOK, File, NoFile
<1>5. (\A x \in db.rows : e # Named(x)) /\ path[Inbox][1] # e[1]
    BY DEF RemoveUnusedFile
<1>6. TypeOK'
    BY <1>1, <1>3, <1>4 DEF TypeOK
<1>7. AtPaths' /\ OneBusy' /\ CacheRight' /\ KeyThere'
    BY <1>1, <1>3 DEF AtPaths, OneBusy, CacheRight, KeyThere
<1>8. InboxKnows' /\ UserKnows' /\ InHand'
    BY <1>1, <1>3 DEF InboxKnows, OneBusy, UserKnows, InHand
<1>9. OneKey' /\ BlobsThere'
    BY <1>1, <1>2, <1>3, <1>4, <1>5, PathFacts DEF OneKey, BlobsThere, AtPaths
<1>10. ClearOnesSealed'
    BY <1>1, <1>3, <1>4, PathFacts DEF ClearOnesSealed, ToBeSealed, UserKnows, InboxKnows
<1>11. SealedOnesAhead'
    BY <1>1, <1>3, <1>4, PathFacts DEF SealedOnesAhead, OneBusy, UserKnows
<1>12. MaxRunning = 1 => WholeInv' /\ CommitInv'
    BY <1>1, <1>3, <1>4, <1>5, PathFacts DEF WholeInv, WholeBlobs, AtPaths, OneBusy, CommitInv, CommittedStays
<1> QED
    BY <1>6, <1>7, <1>8, <1>9, <1>10, <1>11, <1>12 DEF RestInv, BlobInv

\* protect looks for the key, which is there.
LEMMA EnsureKeyInboxKeeps ==
    ASSUME RestInv, SafelyOff, EnsureKey(Inbox)
    PROVE  RestInv'
<1> USE DEF Idle, Converting, Enabling, Passing, Migrating, Stored, NoKey, Inbox, User, Tasks
<1>1. TypeOK /\ AtPaths /\ OneBusy /\ CacheRight /\ KeyThere /\ InboxKnows /\ UserKnows /\ InHand /\ OneKey
      /\ BlobsThere /\ ClearOnesSealed /\ SealedOnesAhead /\ (MaxRunning = 1 => WholeInv /\ CommitInv)
    BY DEF RestInv, BlobInv
<1>2. db.rows \subseteq Blobs /\ db.on \in BOOLEAN /\ target \in BOOLEAN
    BY <1>1 DEF TypeOK, Database
<1>3. pc' \in [Tasks -> Labels] /\ pc'[Inbox] = (IF Get("key") = NoKey THEN "generate" ELSE "read") /\ pc'[User] = pc[User]
    BY <1>1 DEF EnsureKey, Goto, TypeOK, Labels, AfterKey
<1>4. Get("key") = db.key /\ pc[Inbox] = "ensure"
    BY <1>1, GetRight DEF EnsureKey
<1>5. UNCHANGED <<db, copy, pool_open, is_encrypted, file, path, buf, todo, target, keys, fails, crashes, acked, interrupted, File, Database>>
    BY DEF EnsureKey, database, locals, faults, history, File, Database, Fill
<1>6. CacheRight' /\ cached' \subseteq {"key", "on"} /\ mem' \in [key : 0..keys', on : BOOLEAN]
    BY <1>1, FillKeeps DEF EnsureKey
<1>7. key' \in [Tasks -> 0..keys'] /\ key'[Inbox] = db.key /\ key'[User] = key[User]
    BY <1>1, <1>4, <1>5 DEF EnsureKey, TypeOK, Database
<1>8. db.on /\ db.key # NoKey
    BY <1>1, <1>4 DEF InboxKnows, KeyThere
<1>9. TypeOK'
    BY <1>1, <1>2, <1>3, <1>4, <1>5, <1>6, <1>7 DEF TypeOK
<1>10. AtPaths' /\ OneBusy' /\ CacheRight' /\ KeyThere'
    BY <1>1, <1>2, <1>3, <1>4, <1>5, <1>6 DEF AtPaths, OneBusy, CacheRight, KeyThere
<1>11. InboxKnows' /\ UserKnows' /\ InHand'
    BY <1>1, <1>2, <1>3, <1>4, <1>5, <1>7, <1>8 DEF InboxKnows, OneBusy, UserKnows, InHand
<1>12. OneKey' /\ BlobsThere'
    BY <1>1, <1>2, <1>3, <1>4, <1>5 DEF OneKey, BlobsThere, AtPaths
<1>13. ClearOnesSealed'
    BY <1>1, <1>2, <1>3, <1>4, <1>5, <1>8 DEF ClearOnesSealed, ToBeSealed, AtPaths, UserKnows, InboxKnows
<1>14. SealedOnesAhead'
    BY <1>1, <1>2, <1>3, <1>5 DEF SealedOnesAhead, OneBusy
<1>15. MaxRunning = 1 => WholeInv' /\ CommitInv'
    BY <1>1, <1>2, <1>3, <1>4, <1>5 DEF WholeInv, WholeBlobs, AtPaths, OneBusy, CommitInv, CommittedStays
<1> QED
    BY <1>9, <1>10, <1>11, <1>12, <1>13, <1>14, <1>15 DEF RestInv, BlobInv

\* enable looks for the key.
LEMMA EnsureKeyUserKeeps ==
    ASSUME RestInv, SafelyOff, EnsureKey(User)
    PROVE  RestInv'
<1> USE DEF Idle, Converting, Enabling, Passing, Migrating, Stored, NoKey, Inbox, User, Tasks
<1>1. TypeOK /\ AtPaths /\ OneBusy /\ CacheRight /\ KeyThere /\ InboxKnows /\ UserKnows /\ InHand /\ OneKey
      /\ BlobsThere /\ ClearOnesSealed /\ SealedOnesAhead /\ (MaxRunning = 1 => WholeInv /\ CommitInv)
    BY DEF RestInv, BlobInv
<1>2. db.rows \subseteq Blobs /\ db.on \in BOOLEAN /\ target \in BOOLEAN
    BY <1>1 DEF TypeOK, Database
<1>3. pc' \in [Tasks -> Labels] /\ pc'[Inbox] = pc[Inbox] /\ pc'[User] = (IF Get("key") = NoKey THEN "generate" ELSE "on")
    BY <1>1 DEF EnsureKey, Goto, TypeOK, Labels, AfterKey
<1>4. Get("key") = db.key /\ pc[User] = "ensure"
    BY <1>1, GetRight DEF EnsureKey
<1>5. UNCHANGED <<db, copy, pool_open, is_encrypted, file, path, buf, todo, target, keys, fails, crashes, acked, interrupted, File, Database>>
    BY DEF EnsureKey, database, locals, faults, history, File, Database, Fill
<1>6. CacheRight' /\ cached' \subseteq {"key", "on"} /\ mem' \in [key : 0..keys', on : BOOLEAN]
    BY <1>1, FillKeeps DEF EnsureKey
<1>7. key' \in [Tasks -> 0..keys'] /\ key'[User] = db.key /\ key'[Inbox] = key[Inbox]
    BY <1>1, <1>4, <1>5 DEF EnsureKey, TypeOK, Database
<1>8. TypeOK'
    BY <1>1, <1>2, <1>3, <1>5, <1>6, <1>7 DEF TypeOK
<1>9. AtPaths' /\ OneBusy' /\ CacheRight' /\ KeyThere'
    BY <1>1, <1>2, <1>3, <1>4, <1>5, <1>6 DEF AtPaths, OneBusy, KeyThere
<1>10. InboxKnows' /\ UserKnows' /\ InHand'
    BY <1>1, <1>2, <1>3, <1>4, <1>5, <1>7 DEF InboxKnows, OneBusy, UserKnows, InHand
<1>11. OneKey' /\ BlobsThere'
    BY <1>1, <1>2, <1>3, <1>5 DEF OneKey, BlobsThere, AtPaths
<1>12. ClearOnesSealed'
    BY <1>1, <1>2, <1>3 DEF ClearOnesSealed, ToBeSealed, AtPaths
<1>13. SealedOnesAhead'
    BY <1>3 DEF SealedOnesAhead, UserKnows
<1>14. MaxRunning = 1 => WholeInv' /\ CommitInv'
    BY <1>1, <1>2, <1>3, <1>5 DEF WholeInv, WholeBlobs, AtPaths, OneBusy, CommitInv, CommittedStays
<1> QED
    BY <1>8, <1>9, <1>10, <1>11, <1>12, <1>13, <1>14 DEF RestInv, BlobInv

\* enable makes a key where there was none, so that no file is encrypted yet.
LEMMA GenerateKeyKeeps ==
    ASSUME RestInv, SafelyOff, GenerateKey(User)
    PROVE  RestInv'
<1> USE DEF Idle, Converting, Enabling, Passing, Migrating, Stored, NoKey, Inbox, User, Tasks
<1>1. TypeOK /\ AtPaths /\ OneBusy /\ CacheRight /\ KeyThere /\ InboxKnows /\ UserKnows /\ InHand /\ OneKey
      /\ BlobsThere /\ ClearOnesSealed /\ SealedOnesAhead /\ (MaxRunning = 1 => WholeInv /\ CommitInv)
    BY DEF RestInv, BlobInv
<1>2. db.rows \subseteq Blobs /\ db.on \in BOOLEAN /\ target \in BOOLEAN
    BY <1>1 DEF TypeOK, Database
<1>3. pc' \in [Tasks -> Labels] /\ pc'[Inbox] = pc[Inbox] /\ pc'[User] = "on"
    BY <1>1 DEF GenerateKey, Goto, TypeOK, Labels, AfterKey
<1>4. pc[User] = "generate" /\ keys' = keys + 1 /\ keys \in Nat /\ keys' \in 0..MaxKeys /\ keys <= keys'
    BY <1>1, BoundsAssumption DEF GenerateKey, TypeOK
<1>5. UNCHANGED <<copy, pool_open, is_encrypted, file, path, buf, todo, target, fails, crashes, acked, interrupted>>
    BY DEF GenerateKey, database, locals, faults, history, SetRaw
<1>6. /\ CacheRight' /\ cached' \subseteq {"key", "on"} /\ mem' \in [key : 0..keys', on : BOOLEAN]
      /\ db' \in Database' /\ db'.key = keys' /\ db'.on = db.on /\ db'.rows = db.rows
    BY <1>1, <1>4, SetKeyKeeps DEF GenerateKey
<1>7. key' \in [Tasks -> 0..keys'] /\ key'[User] = keys' /\ key'[Inbox] = key[Inbox]
    BY <1>1 DEF GenerateKey, TypeOK
<1>8. copy' \in Database' /\ file' \in [Entries -> File'] /\ buf' \in [Tasks -> File'] /\ keys' # 0
    BY <1>1, <1>4, <1>5 DEF TypeOK, Database, File
<1>9. ~db.on /\ db.key = NoKey /\ target /\ pc[Inbox] \notin {"ensure", "generate"} \cup Converting
      /\ \A e \in Scanned : file[e].exists => file[e].key = NoKey
    BY <1>1, <1>4 DEF InboxKnows, UserKnows, KeyThere, OneKey
<1>10. TypeOK'
    BY <1>1, <1>2, <1>3, <1>4, <1>5, <1>6, <1>7, <1>8 DEF TypeOK
<1>11. AtPaths' /\ OneBusy' /\ CacheRight' /\ KeyThere'
    BY <1>1, <1>2, <1>3, <1>4, <1>5, <1>6 DEF AtPaths, OneBusy, CacheRight, KeyThere
<1>12. InboxKnows' /\ UserKnows' /\ InHand'
    BY <1>1, <1>2, <1>3, <1>4, <1>5, <1>6, <1>9 DEF InboxKnows, OneBusy, UserKnows, InHand
<1>13. OneKey' /\ BlobsThere'
    BY <1>1, <1>2, <1>3, <1>4, <1>5, <1>6, <1>9 DEF OneKey, BlobsThere
<1>14. ClearOnesSealed'
    BY <1>1, <1>3, <1>5 DEF ClearOnesSealed, ToBeSealed, AtPaths
<1>15. SealedOnesAhead'
    BY <1>3, <1>5 DEF SealedOnesAhead, UserKnows
<1>16. MaxRunning = 1 => WholeInv' /\ CommitInv'
    BY <1>1, <1>2, <1>3, <1>4, <1>5, <1>6 DEF WholeInv, WholeBlobs, AtPaths, OneBusy, CommitInv, CommittedStays
<1> QED
    BY <1>10, <1>11, <1>12, <1>13, <1>14, <1>15, <1>16 DEF RestInv, BlobInv

\* protect reads the file and seals or opens what it read.
LEMMA ConvertReadInboxKeeps ==
    ASSUME RestInv, SafelyOff, ConvertRead(Inbox)
    PROVE  RestInv'
<1> USE DEF Idle, Converting, Enabling, Passing, Migrating, Stored, NoKey, Inbox, User, Tasks
<1>1. TypeOK /\ AtPaths /\ OneBusy /\ CacheRight /\ KeyThere /\ InboxKnows /\ UserKnows /\ InHand /\ OneKey
      /\ BlobsThere /\ ClearOnesSealed /\ SealedOnesAhead /\ (MaxRunning = 1 => WholeInv /\ CommitInv)
    BY DEF RestInv, BlobInv
<1>2. db.rows \subseteq Blobs /\ db.on \in BOOLEAN /\ target \in BOOLEAN
    BY <1>1 DEF TypeOK, Database
<1>3. pc[Inbox] = "read"
    BY DEF ConvertRead
<1>4. path[Inbox] \in Scanned
    BY <1>1, <1>3, PathFacts DEF AtPaths
<1>5. UNCHANGED <<db, copy, pool_open, is_encrypted, cached, mem, file, path, key, todo, target, keys, fails, crashes, acked, interrupted, File, Database>>
    BY DEF ConvertRead, database, faults, history, File, Database
<1>6. /\ file[path[Inbox]] \in File
      /\ file[path[Inbox]].exists => file[path[Inbox]].key \in {NoKey, db.key}
    BY <1>1, <1>4, PathFacts DEF TypeOK, OneKey
<1>7. /\ Converted(Inbox, file[path[Inbox]]) \in File
      /\ Converted(Inbox, file[path[Inbox]]).exists = file[path[Inbox]].exists
      /\ Converted(Inbox, file[path[Inbox]]).whole = file[path[Inbox]].whole
      /\ Converted(Inbox, file[path[Inbox]]).key =
            IF file[path[Inbox]].key = NoKey THEN key[Inbox] ELSE file[path[Inbox]].key
    BY <1>1, <1>6, ConvertedFacts
<1>8. db.on /\ db.key # NoKey /\ key[Inbox] = db.key
    BY <1>1, <1>3 DEF InboxKnows, KeyThere
<1>9. \/ /\ file[path[Inbox]].exists /\ Converted(Inbox, file[path[Inbox]]).key # file[path[Inbox]].key
         /\ buf' \in [Tasks -> File] /\ buf'[Inbox] = Converted(Inbox, file[path[Inbox]]) /\ buf'[User] = buf[User]
         /\ pc' \in [Tasks -> Labels] /\ pc'[Inbox] = "write" /\ pc'[User] = pc[User]
      \/ /\ ~file[path[Inbox]].exists \/ Converted(Inbox, file[path[Inbox]]).key = file[path[Inbox]].key
         /\ buf' = buf /\ pc' \in [Tasks -> Labels] /\ pc'[Inbox] = "commit" /\ pc'[User] = pc[User]
    BY <1>1, <1>6, <1>7 DEF ConvertRead, Goto, AfterConvert, TypeOK, Labels
<1>10. TypeOK'
    BY <1>1, <1>5, <1>9 DEF TypeOK
<1>11. AtPaths' /\ OneBusy' /\ CacheRight' /\ KeyThere'
    BY <1>1, <1>2, <1>3, <1>5, <1>9 DEF AtPaths, OneBusy, CacheRight, KeyThere
<1>12. InboxKnows' /\ UserKnows'
    BY <1>1, <1>2, <1>3, <1>4, <1>5, <1>9 DEF InboxKnows, OneBusy, UserKnows
<1>13. InHand'
    BY <1>1, <1>3, <1>5, <1>7, <1>9 DEF InHand, InboxKnows
<1>14. OneKey' /\ BlobsThere'
    BY <1>1, <1>2, <1>3, <1>4, <1>5, <1>9 DEF OneKey, BlobsThere, AtPaths
<1>15. ClearOnesSealed'
    BY <1>1, <1>2, <1>3, <1>4, <1>5, <1>7, <1>8, <1>9 DEF ClearOnesSealed, ToBeSealed, AtPaths, UserKnows
<1>16. SealedOnesAhead'
    BY <1>3, <1>5, <1>8 DEF SealedOnesAhead, OneBusy, UserKnows
<1>17. MaxRunning = 1 => WholeInv' /\ CommitInv'
    BY <1>1, <1>2, <1>3, <1>5, <1>7, <1>9 DEF WholeInv, WholeBlobs, AtPaths, OneBusy, CommitInv, CommittedStays
<1> QED
    BY <1>10, <1>11, <1>12, <1>13, <1>14, <1>15, <1>16, <1>17 DEF RestInv, BlobInv

\* protect writes beside the file.
LEMMA ConvertWriteInboxKeeps ==
    ASSUME RestInv, SafelyOff, ConvertWrite(Inbox)
    PROVE  RestInv'
<1> USE DEF Idle, Converting, Enabling, Passing, Migrating, Stored, NoKey, Inbox, User, Tasks
<1>1. TypeOK /\ AtPaths /\ OneBusy /\ CacheRight /\ KeyThere /\ InboxKnows /\ UserKnows /\ InHand /\ OneKey
      /\ BlobsThere /\ ClearOnesSealed /\ SealedOnesAhead /\ (MaxRunning = 1 => WholeInv /\ CommitInv)
    BY DEF RestInv, BlobInv
<1>2. db.rows \subseteq Blobs /\ db.on \in BOOLEAN /\ target \in BOOLEAN
    BY <1>1 DEF TypeOK, Database
<1>3. pc[Inbox] = "write"
    BY DEF ConvertWrite
<1>4. path[Inbox] \in Scanned
    BY <1>1, <1>3, PathFacts DEF AtPaths
<1>5. pc' \in [Tasks -> Labels] /\ pc'[Inbox] = "replace" /\ pc'[User] = pc[User]
    BY <1>1 DEF ConvertWrite, Goto, TypeOK, Labels
<1>6. UNCHANGED <<db, copy, pool_open, is_encrypted, cached, mem, path, key, buf, todo, target, keys, fails, crashes, acked, interrupted, File, Database>>
    BY DEF ConvertWrite, database, locals, faults, history, File, Database
<1>7. /\ file' \in [Entries -> File]
      /\ \A e \in Scanned : file'[e] = file[e]
    BY <1>1, <1>4, PathFacts DEF ConvertWrite, TypeOK
<1>8. TypeOK'
    BY <1>1, <1>2, <1>3, <1>5, <1>6, <1>7 DEF TypeOK
<1>9. AtPaths' /\ OneBusy' /\ CacheRight' /\ KeyThere'
    BY <1>1, <1>2, <1>3, <1>5, <1>6 DEF AtPaths, OneBusy, CacheRight, KeyThere
<1>10. InboxKnows' /\ UserKnows' /\ InHand'
    BY <1>1, <1>2, <1>3, <1>5, <1>6 DEF InboxKnows, OneBusy, UserKnows, InHand
<1>11. OneKey' /\ BlobsThere'
    BY <1>1, <1>2, <1>3, <1>5, <1>6, <1>7, PathFacts DEF OneKey, BlobsThere, AtPaths
<1>12. ClearOnesSealed'
    BY <1>1, <1>2, <1>3, <1>5, <1>6, <1>7 DEF ClearOnesSealed, ToBeSealed, AtPaths, UserKnows, InboxKnows
<1>13. SealedOnesAhead'
    BY <1>1, <1>2, <1>3, <1>5, <1>6 DEF SealedOnesAhead, OneBusy, UserKnows
<1>14. MaxRunning = 1 => WholeInv' /\ CommitInv'
    BY <1>1, <1>2, <1>3, <1>5, <1>6, <1>7, PathFacts DEF WholeInv, WholeBlobs, AtPaths, OneBusy, CommitInv, CommittedStays
<1> QED
    BY <1>8, <1>9, <1>10, <1>11, <1>12, <1>13, <1>14 DEF RestInv, BlobInv

\* protect renames it over the file.
LEMMA ConvertReplaceInboxKeeps ==
    ASSUME RestInv, SafelyOff, ConvertReplace(Inbox)
    PROVE  RestInv'
<1> USE DEF Idle, Converting, Enabling, Passing, Migrating, Stored, NoKey, Inbox, User, Tasks
<1>1. TypeOK /\ AtPaths /\ OneBusy /\ CacheRight /\ KeyThere /\ InboxKnows /\ UserKnows /\ InHand /\ OneKey
      /\ BlobsThere /\ ClearOnesSealed /\ SealedOnesAhead /\ (MaxRunning = 1 => WholeInv /\ CommitInv)
    BY DEF RestInv, BlobInv
<1>2. db.rows \subseteq Blobs /\ db.on \in BOOLEAN /\ target \in BOOLEAN
    BY <1>1 DEF TypeOK, Database
<1>3. pc[Inbox] = "replace"
    BY DEF ConvertReplace
<1>4. path[Inbox] \in Scanned
    BY <1>1, <1>3, PathFacts DEF AtPaths
<1>5. pc' \in [Tasks -> Labels] /\ pc'[Inbox] = "commit" /\ pc'[User] = pc[User]
    BY <1>1 DEF ConvertReplace, Goto, TypeOK, Labels, AfterConvert
<1>6. UNCHANGED <<db, copy, pool_open, is_encrypted, cached, mem, path, key, buf, todo, target, keys, fails, crashes, acked, interrupted, File, Database>>
    BY DEF ConvertReplace, database, locals, faults, history, File, Database
<1>7. /\ file' \in [Entries -> File]
      /\ file'[path[Inbox]] = buf[Inbox] /\ \A e \in Scanned : e # path[Inbox] => file'[e] = file[e]
    BY <1>1, <1>4, PathFacts DEF ConvertReplace, TypeOK, NoFile, File
<1>8. db.on /\ db.key # NoKey /\ key[Inbox] = db.key
    BY <1>1, <1>3 DEF InboxKnows, KeyThere
<1>9. buf[Inbox].exists /\ buf[Inbox].key = db.key
    BY <1>1, <1>3 DEF InHand
<1>10. TypeOK'
    BY <1>1, <1>3, <1>5, <1>6, <1>7 DEF TypeOK
<1>11. AtPaths' /\ OneBusy' /\ CacheRight' /\ KeyThere'
    BY <1>1, <1>2, <1>3, <1>4, <1>5, <1>6 DEF AtPaths, OneBusy, CacheRight, KeyThere
<1>12. InboxKnows' /\ UserKnows' /\ InHand'
    BY <1>1, <1>3, <1>4, <1>5, <1>6 DEF InboxKnows, OneBusy, UserKnows, InHand
<1>13. OneKey' /\ BlobsThere'
    BY <1>1, <1>2, <1>3, <1>4, <1>5, <1>6, <1>7, <1>9, PathFacts DEF OneKey, BlobsThere, AtPaths
<1>14. ClearOnesSealed'
    BY <1>1, <1>2, <1>3, <1>4, <1>5, <1>6, <1>7, <1>8, <1>9 DEF ClearOnesSealed, ToBeSealed, AtPaths, UserKnows, InboxKnows
<1>15. SealedOnesAhead'
    BY <1>1, <1>2, <1>3, <1>4, <1>5, <1>6 DEF SealedOnesAhead, OneBusy, UserKnows
<1>16. MaxRunning = 1 => WholeInv' /\ CommitInv'
    BY <1>1, <1>2, <1>3, <1>4, <1>5, <1>6, <1>7, PathFacts DEF WholeInv, WholeBlobs, AtPaths, OneBusy, CommitInv, CommittedStays
<1> QED
    BY <1>10, <1>11, <1>12, <1>13, <1>14, <1>15, <1>16 DEF RestInv, BlobInv

\* migrate reads the file and seals or opens what it read.
LEMMA ConvertReadUserKeeps ==
    ASSUME RestInv, SafelyOff, ConvertRead(User)
    PROVE  RestInv'
<1> USE DEF Idle, Converting, Enabling, Passing, Migrating, Stored, NoKey, Inbox, User, Tasks
<1>1. TypeOK /\ AtPaths /\ OneBusy /\ CacheRight /\ KeyThere /\ InboxKnows /\ UserKnows /\ InHand /\ OneKey
      /\ BlobsThere /\ ClearOnesSealed /\ SealedOnesAhead /\ (MaxRunning = 1 => WholeInv /\ CommitInv)
    BY DEF RestInv, BlobInv
<1>2. db.rows \subseteq Blobs /\ db.on \in BOOLEAN /\ target \in BOOLEAN
    BY <1>1 DEF TypeOK, Database
<1>3. pc[User] = "read"
    BY DEF ConvertRead
<1>4. path[User] \in Scanned
    BY <1>1, <1>3 DEF AtPaths
<1>5. UNCHANGED <<db, copy, pool_open, is_encrypted, cached, mem, file, path, key, todo, target, keys, fails, crashes, acked, interrupted, File, Database>>
    BY DEF ConvertRead, database, locals, faults, history, File, Database
<1>6. /\ file[path[User]] \in File
      /\ file[path[User]].exists => file[path[User]].key \in {NoKey, db.key}
    BY <1>1, <1>4, PathFacts DEF TypeOK, OneKey
<1>7. /\ Converted(User, file[path[User]]) \in File
      /\ Converted(User, file[path[User]]).exists = file[path[User]].exists
      /\ Converted(User, file[path[User]]).whole = file[path[User]].whole
      /\ Converted(User, file[path[User]]).key =
            IF target THEN IF file[path[User]].key = NoKey THEN key[User] ELSE file[path[User]].key
            ELSE IF file[path[User]].key = key[User] THEN NoKey ELSE file[path[User]].key
    BY <1>1, <1>6, ConvertedFacts
<1>9. \/ /\ file[path[User]].exists /\ Converted(User, file[path[User]]).key # file[path[User]].key
         /\ buf' \in [Tasks -> File] /\ buf'[User] = Converted(User, file[path[User]]) /\ buf'[Inbox] = buf[Inbox]
         /\ pc' \in [Tasks -> Labels] /\ pc'[User] = "write" /\ pc'[Inbox] = pc[Inbox]
      \/ /\ ~file[path[User]].exists \/ Converted(User, file[path[User]]).key = file[path[User]].key
         /\ buf' = buf /\ pc' \in [Tasks -> Labels] /\ pc'[User] = "next" /\ pc'[Inbox] = pc[Inbox]
    BY <1>1, <1>6, <1>7 DEF ConvertRead, Goto, AfterConvert, TypeOK, Labels
<1>10. TypeOK'
    BY <1>1, <1>4, <1>5, <1>9 DEF TypeOK
<1>11. AtPaths' /\ OneBusy' /\ CacheRight' /\ KeyThere'
    BY <1>1, <1>2, <1>3, <1>4, <1>5, <1>9 DEF AtPaths, OneBusy, CacheRight, KeyThere
<1>12. InboxKnows' /\ UserKnows'
    BY <1>1, <1>2, <1>3, <1>4, <1>5, <1>9 DEF InboxKnows, OneBusy, UserKnows
<1>13. InHand'
    BY <1>1, <1>2, <1>3, <1>4, <1>5, <1>7, <1>9 DEF InHand, InboxKnows, UserKnows
<1>14. OneKey' /\ BlobsThere'
    BY <1>1, <1>4, <1>5, <1>9 DEF OneKey, BlobsThere
<1>15. ClearOnesSealed'
    BY <1>1, <1>2, <1>3, <1>4, <1>5, <1>7, <1>9 DEF ClearOnesSealed, ToBeSealed, AtPaths, UserKnows, InboxKnows
<1>16. SealedOnesAhead'
    BY <1>1, <1>2, <1>3, <1>4, <1>5, <1>6, <1>7, <1>9 DEF SealedOnesAhead, OneBusy, UserKnows
<1>17. MaxRunning = 1 => WholeInv' /\ CommitInv'
    BY <1>1, <1>2, <1>3, <1>4, <1>5, <1>7, <1>9, PathFacts DEF WholeInv, WholeBlobs, AtPaths, OneBusy, CommitInv, CommittedStays
<1> QED
    BY <1>10, <1>11, <1>12, <1>13, <1>14, <1>15, <1>16, <1>17 DEF RestInv, BlobInv

\* migrate writes beside the file.
LEMMA ConvertWriteUserKeeps ==
    ASSUME RestInv, SafelyOff, ConvertWrite(User)
    PROVE  RestInv'
<1> USE DEF Idle, Converting, Enabling, Passing, Migrating, Stored, NoKey, Inbox, User, Tasks
<1>1. TypeOK /\ AtPaths /\ OneBusy /\ CacheRight /\ KeyThere /\ InboxKnows /\ UserKnows /\ InHand /\ OneKey
      /\ BlobsThere /\ ClearOnesSealed /\ SealedOnesAhead /\ (MaxRunning = 1 => WholeInv /\ CommitInv)
    BY DEF RestInv, BlobInv
<1>2. db.rows \subseteq Blobs /\ db.on \in BOOLEAN /\ target \in BOOLEAN
    BY <1>1 DEF TypeOK, Database
<1>3. pc[User] = "write"
    BY DEF ConvertWrite
<1>4. path[User] \in Scanned
    BY <1>1, <1>3 DEF AtPaths
<1>5. pc' \in [Tasks -> Labels] /\ pc'[Inbox] = pc[Inbox] /\ pc'[User] = "replace"
    BY <1>1 DEF ConvertWrite, Goto, TypeOK, Labels
<1>6. UNCHANGED <<db, copy, pool_open, is_encrypted, cached, mem, path, key, buf, todo, target, keys, fails, crashes, acked, interrupted, File, Database>>
    BY DEF ConvertWrite, database, locals, faults, history, File, Database
<1>7. /\ file' \in [Entries -> File]
      /\ \A e \in Scanned : file'[e] = file[e]
    BY <1>1, <1>4, PathFacts DEF ConvertWrite, TypeOK
<1>8. TypeOK'
    BY <1>1, <1>2, <1>3, <1>5, <1>6, <1>7 DEF TypeOK
<1>9. AtPaths' /\ OneBusy' /\ CacheRight' /\ KeyThere'
    BY <1>1, <1>2, <1>3, <1>5, <1>6 DEF AtPaths, OneBusy, CacheRight, KeyThere
<1>10. InboxKnows' /\ UserKnows' /\ InHand'
    BY <1>1, <1>2, <1>3, <1>5, <1>6 DEF InboxKnows, OneBusy, UserKnows, InHand
<1>11. OneKey' /\ BlobsThere'
    BY <1>1, <1>2, <1>3, <1>5, <1>6, <1>7, PathFacts DEF OneKey, BlobsThere, AtPaths
<1>12. ClearOnesSealed'
    BY <1>1, <1>3, <1>5, <1>6, <1>7 DEF ClearOnesSealed, ToBeSealed, UserKnows
<1>13. SealedOnesAhead'
    BY <1>1, <1>2, <1>3, <1>5, <1>6, <1>7 DEF SealedOnesAhead, OneBusy, UserKnows
<1>14. MaxRunning = 1 => WholeInv' /\ CommitInv'
    BY <1>1, <1>2, <1>3, <1>5, <1>6, <1>7, PathFacts DEF WholeInv, WholeBlobs, AtPaths, OneBusy, CommitInv, CommittedStays
<1> QED
    BY <1>8, <1>9, <1>10, <1>11, <1>12, <1>13, <1>14 DEF RestInv, BlobInv

\* migrate renames it over the file.
LEMMA ConvertReplaceUserKeeps ==
    ASSUME RestInv, SafelyOff, ConvertReplace(User)
    PROVE  RestInv'
<1> USE DEF Idle, Converting, Enabling, Passing, Migrating, Stored, NoKey, Inbox, User, Tasks
<1>1. TypeOK /\ AtPaths /\ OneBusy /\ CacheRight /\ KeyThere /\ InboxKnows /\ UserKnows /\ InHand /\ OneKey
      /\ BlobsThere /\ ClearOnesSealed /\ SealedOnesAhead /\ (MaxRunning = 1 => WholeInv /\ CommitInv)
    BY DEF RestInv, BlobInv
<1>2. db.rows \subseteq Blobs /\ db.on \in BOOLEAN /\ target \in BOOLEAN
    BY <1>1 DEF TypeOK, Database
<1>3. pc[User] = "replace"
    BY DEF ConvertReplace
<1>4. path[User] \in Scanned
    BY <1>1, <1>3 DEF AtPaths
<1>5. pc' \in [Tasks -> Labels] /\ pc'[Inbox] = pc[Inbox] /\ pc'[User] = "next"
    BY <1>1 DEF ConvertReplace, Goto, TypeOK, Labels, AfterConvert
<1>6. UNCHANGED <<db, copy, pool_open, is_encrypted, cached, mem, path, key, buf, todo, target, keys, fails, crashes, acked, interrupted, File, Database>>
    BY DEF ConvertReplace, database, locals, faults, history, File, Database
<1>7. /\ file' \in [Entries -> File]
      /\ file'[path[User]] = buf[User] /\ \A e \in Scanned : e # path[User] => file'[e] = file[e]
    BY <1>1, <1>4, PathFacts DEF ConvertReplace, TypeOK, NoFile, File
<1>9. buf[User].exists /\ buf[User].key = IF target THEN db.key ELSE NoKey
    BY <1>1, <1>3 DEF InHand
<1>10. TypeOK'
    BY <1>1, <1>2, <1>3, <1>4, <1>5, <1>6, <1>7 DEF TypeOK
<1>11. AtPaths' /\ OneBusy' /\ CacheRight' /\ KeyThere'
    BY <1>1, <1>2, <1>3, <1>4, <1>5, <1>6 DEF AtPaths, OneBusy, CacheRight, KeyThere
<1>12. InboxKnows' /\ UserKnows' /\ InHand'
    BY <1>1, <1>2, <1>3, <1>4, <1>5, <1>6 DEF InboxKnows, OneBusy, UserKnows, InHand
<1>13. OneKey' /\ BlobsThere'
    BY <1>1, <1>2, <1>3, <1>4, <1>5, <1>6, <1>7, <1>9, PathFacts DEF OneKey, BlobsThere, AtPaths
<1>14. ClearOnesSealed'
    BY <1>1, <1>2, <1>3, <1>4, <1>5, <1>6, <1>7, <1>9 DEF ClearOnesSealed, ToBeSealed, AtPaths, UserKnows, InboxKnows
<1>15. SealedOnesAhead'
    BY <1>1, <1>2, <1>3, <1>4, <1>5, <1>6, <1>7, <1>9 DEF SealedOnesAhead, OneBusy, UserKnows
<1>16. MaxRunning = 1 => WholeInv' /\ CommitInv'
    BY <1>1, <1>2, <1>3, <1>4, <1>5, <1>6, <1>7, PathFacts DEF WholeInv, WholeBlobs, AtPaths, OneBusy, CommitInv, CommittedStays
<1> QED
    BY <1>10, <1>11, <1>12, <1>13, <1>14, <1>15, <1>16 DEF RestInv, BlobInv

\* enable begins.
LEMMA EnableBeginKeeps ==
    ASSUME RestInv, SafelyOff, EnableBegin
    PROVE  RestInv'
<1> USE DEF Idle, Converting, Enabling, Passing, Migrating, Stored, NoKey, Inbox, User, Tasks
<1>1. TypeOK /\ AtPaths /\ OneBusy /\ CacheRight /\ KeyThere /\ InboxKnows /\ UserKnows /\ InHand /\ OneKey
      /\ BlobsThere /\ ClearOnesSealed /\ SealedOnesAhead /\ (MaxRunning = 1 => WholeInv /\ CommitInv)
    BY DEF RestInv, BlobInv
<1>2. db.rows \subseteq Blobs /\ db.on \in BOOLEAN /\ target \in BOOLEAN
    BY <1>1 DEF TypeOK, Database
<1>3. pc' \in [Tasks -> Labels] /\ pc'[Inbox] = pc[Inbox] /\ pc'[User] = "ensure"
    BY <1>1 DEF EnableBegin, Goto, TypeOK, Labels
<1>4. pc[User] = Idle /\ (MaxRunning = 1 => pc[Inbox] = Idle)
    BY StartAlone DEF EnableBegin, CanStart
<1>5. target' = TRUE /\ interrupted' = FALSE
    BY DEF EnableBegin
<1>6. UNCHANGED <<db, copy, pool_open, is_encrypted, cached, mem, file, path, key, buf, todo, keys, fails, crashes, acked, File, Database>>
    BY DEF EnableBegin, database, faults, File, Database
<1>7. TypeOK'
    BY <1>1, <1>2, <1>3, <1>5, <1>6 DEF TypeOK
<1>8. AtPaths' /\ OneBusy' /\ CacheRight' /\ KeyThere'
    BY <1>1, <1>2, <1>3, <1>4, <1>6 DEF AtPaths, OneBusy, CacheRight, KeyThere
<1>9. InboxKnows' /\ UserKnows' /\ InHand'
    BY <1>1, <1>2, <1>3, <1>5, <1>6 DEF InboxKnows, OneBusy, UserKnows, InHand
<1>10. OneKey' /\ BlobsThere'
    BY <1>1, <1>3, <1>6 DEF OneKey, BlobsThere
<1>11. ClearOnesSealed'
    BY <1>1, <1>3 DEF ClearOnesSealed, ToBeSealed
<1>12. SealedOnesAhead'
    BY <1>1, <1>3 DEF SealedOnesAhead, UserKnows
<1>13. MaxRunning = 1 => WholeInv' /\ CommitInv'
    BY <1>1, <1>2, <1>3, <1>6 DEF WholeInv, WholeBlobs, AtPaths, OneBusy, CommitInv, CommittedStays
<1> QED
    BY <1>7, <1>8, <1>9, <1>10, <1>11, <1>12, <1>13 DEF RestInv, BlobInv

\* enable switches the setting on.
LEMMA SwitchOnKeeps ==
    ASSUME RestInv, SafelyOff, SwitchOn
    PROVE  RestInv'
<1> USE DEF Idle, Converting, Enabling, Passing, Migrating, Stored, NoKey, Inbox, User, Tasks
<1>1. TypeOK /\ AtPaths /\ OneBusy /\ CacheRight /\ KeyThere /\ InboxKnows /\ UserKnows /\ InHand /\ OneKey
      /\ BlobsThere /\ ClearOnesSealed /\ SealedOnesAhead /\ (MaxRunning = 1 => WholeInv /\ CommitInv)
    BY DEF RestInv, BlobInv
<1>2. db.rows \subseteq Blobs /\ db.on \in BOOLEAN /\ target \in BOOLEAN
    BY <1>1 DEF TypeOK, Database
<1>3. pc' \in [Tasks -> Labels] /\ pc'[Inbox] = pc[Inbox] /\ pc'[User] = "migrate"
    BY <1>1 DEF SwitchOn, Goto, TypeOK, Labels
<1>4. pc[User] = "on" /\ db.key # NoKey
    BY <1>1 DEF SwitchOn, UserKnows
<1>5. UNCHANGED <<copy, pool_open, is_encrypted, file, path, key, buf, todo, target, keys, fails, crashes, acked, interrupted, File, Database>>
    BY DEF SwitchOn, database, locals, faults, history, File, Database, SetRaw
<1>6. CacheRight' /\ cached' \subseteq {"key", "on"} /\ mem' \in [key : 0..keys', on : BOOLEAN]
      /\ db' \in Database' /\ db'.key = db.key /\ db'.on = TRUE /\ db'.rows = db.rows
    BY <1>1, SetOnKeeps DEF SwitchOn
<1>7. TypeOK'
    BY <1>1, <1>2, <1>3, <1>5, <1>6 DEF TypeOK
<1>8. AtPaths' /\ OneBusy' /\ CacheRight' /\ KeyThere'
    BY <1>1, <1>2, <1>3, <1>4, <1>5, <1>6 DEF AtPaths, OneBusy, CacheRight, KeyThere
<1>9. InboxKnows' /\ UserKnows' /\ InHand'
    BY <1>1, <1>2, <1>3, <1>4, <1>5, <1>6 DEF InboxKnows, OneBusy, UserKnows, InHand
<1>10. OneKey' /\ BlobsThere'
    BY <1>1, <1>2, <1>3, <1>5, <1>6 DEF OneKey, BlobsThere, AtPaths
<1>11. ClearOnesSealed'
    BY <1>2, <1>3 DEF ClearOnesSealed, ToBeSealed
<1>12. SealedOnesAhead'
    BY <1>3 DEF SealedOnesAhead, UserKnows
<1>13. MaxRunning = 1 => WholeInv' /\ CommitInv'
    BY <1>1, <1>2, <1>3, <1>5, <1>6 DEF WholeInv, WholeBlobs, AtPaths, OneBusy, CommitInv, CommittedStays
<1> QED
    BY <1>7, <1>8, <1>9, <1>10, <1>11, <1>12, <1>13 DEF RestInv, BlobInv

\* disable switches the setting off, and only where nothing runs beside it.
LEMMA DisableKeeps ==
    ASSUME RestInv, SafelyOff, Disable
    PROVE  RestInv'
<1> USE DEF Idle, Converting, Enabling, Passing, Migrating, Stored, NoKey, Inbox, User, Tasks
<1>1. TypeOK /\ AtPaths /\ OneBusy /\ CacheRight /\ KeyThere /\ InboxKnows /\ UserKnows /\ InHand /\ OneKey
      /\ BlobsThere /\ ClearOnesSealed /\ SealedOnesAhead /\ (MaxRunning = 1 => WholeInv /\ CommitInv)
    BY DEF RestInv, BlobInv
<1>2. db.rows \subseteq Blobs /\ db.on \in BOOLEAN /\ target \in BOOLEAN
    BY <1>1 DEF TypeOK, Database
<1>3. pc' \in [Tasks -> Labels] /\ pc'[Inbox] = pc[Inbox] /\ pc'[User] = "migrate"
    BY <1>1 DEF Disable, Goto, TypeOK, Labels
<1>4. pc[User] = Idle /\ (MaxRunning = 1 => pc[Inbox] = Idle)
    BY StartAlone DEF Disable, CanStart
<1>5. MaxRunning = 1 /\ MaxFails = 0
    BY DEF Disable, SafelyOff
<1>6. UNCHANGED <<copy, pool_open, is_encrypted, file, path, key, buf, todo, keys, fails, crashes, acked, interrupted, File, Database>>
    BY DEF Disable, database, locals, faults, history, File, Database, SetRaw
<1>7. target' = FALSE /\ CacheRight' /\ cached' \subseteq {"key", "on"} /\ mem' \in [key : 0..keys', on : BOOLEAN]
      /\ db' \in Database' /\ db'.key = db.key /\ db'.on = FALSE /\ db'.rows = db.rows
    BY <1>1, SetOnKeeps DEF Disable
<1>8. TypeOK'
    BY <1>1, <1>3, <1>6, <1>7 DEF TypeOK
<1>9. AtPaths' /\ OneBusy' /\ CacheRight' /\ KeyThere'
    BY <1>1, <1>2, <1>3, <1>4, <1>5, <1>7 DEF AtPaths, OneBusy, CacheRight, KeyThere
<1>10. InboxKnows' /\ UserKnows' /\ InHand'
    BY <1>1, <1>2, <1>3, <1>4, <1>5, <1>7 DEF InboxKnows, OneBusy, UserKnows, InHand
<1>11. OneKey' /\ BlobsThere'
    BY <1>1, <1>3, <1>6, <1>7 DEF OneKey, BlobsThere
<1>12. ClearOnesSealed'
    BY <1>2, <1>3 DEF ClearOnesSealed, ToBeSealed, AtPaths, InboxKnows
<1>13. SealedOnesAhead'
    BY <1>2, <1>3 DEF SealedOnesAhead
<1>14. MaxRunning = 1 => WholeInv' /\ CommitInv'
    BY <1>1, <1>2, <1>3, <1>6, <1>7 DEF WholeInv, WholeBlobs, AtPaths, OneBusy, CommitInv, CommittedStays
<1> QED
    BY <1>8, <1>9, <1>10, <1>11, <1>12, <1>13, <1>14 DEF RestInv, BlobInv

\* migrate reads the key.
LEMMA MigrateKeyKeeps ==
    ASSUME RestInv, SafelyOff, MigrateKey
    PROVE  RestInv'
<1> USE DEF Idle, Converting, Enabling, Passing, Migrating, Stored, NoKey, Inbox, User, Tasks
<1>1. TypeOK /\ AtPaths /\ OneBusy /\ CacheRight /\ KeyThere /\ InboxKnows /\ UserKnows /\ InHand /\ OneKey
      /\ BlobsThere /\ ClearOnesSealed /\ SealedOnesAhead /\ (MaxRunning = 1 => WholeInv /\ CommitInv)
    BY DEF RestInv, BlobInv
<1>2. db.rows \subseteq Blobs /\ db.on \in BOOLEAN /\ target \in BOOLEAN
    BY <1>1 DEF TypeOK, Database
<1>3. Get("key") = db.key /\ pc[User] = "migrate" /\ (target => db.key # NoKey)
    BY <1>1, GetRight DEF MigrateKey, UserKnows, KeyThere
<1>4. UNCHANGED <<db, copy, pool_open, is_encrypted, file, keys, fails, crashes, acked, interrupted, File, Database>>
    BY DEF MigrateKey, database, locals, faults, history, File, Database, Fill
<1>5. CacheRight' /\ cached' \subseteq {"key", "on"} /\ mem' \in [key : 0..keys', on : BOOLEAN]
    BY <1>1, FillKeeps DEF MigrateKey
<1>6. db.key = NoKey => \A e \in Scanned : file[e].exists => file[e].key = NoKey
    BY <1>1 DEF OneKey
<1>7. \/ /\ db.key # NoKey /\ key'[User] = db.key /\ key' \in [Tasks -> 0..keys'] /\ key'[Inbox] = key[Inbox]
         /\ pc' \in [Tasks -> Labels] /\ pc'[User] = "scan" /\ pc'[Inbox] = pc[Inbox] /\ UNCHANGED <<path, buf, todo, target>>
      \/ /\ db.key = NoKey /\ ~target
         /\ pc' \in [Tasks -> Labels] /\ pc'[User] = "drop" /\ pc'[Inbox] = pc[Inbox] /\ UNCHANGED <<path, key, buf, todo, target>>
    BY <1>1, <1>3, <1>4 DEF MigrateKey, Goto, locals, TypeOK, Database, Labels
<1>8. TypeOK'
    BY <1>1, <1>2, <1>3, <1>4, <1>5, <1>7 DEF TypeOK
<1>9. AtPaths' /\ OneBusy' /\ CacheRight' /\ KeyThere'
    BY <1>1, <1>2, <1>3, <1>4, <1>5, <1>7 DEF AtPaths, OneBusy, CacheRight, KeyThere
<1>10. InboxKnows' /\ UserKnows' /\ InHand'
    BY <1>1, <1>2, <1>3, <1>4, <1>7 DEF InboxKnows, OneBusy, UserKnows, InHand
<1>11. OneKey' /\ BlobsThere'
    BY <1>1, <1>3, <1>4, <1>7 DEF OneKey, BlobsThere
<1>12. ClearOnesSealed'
    BY <1>1, <1>2, <1>3, <1>4, <1>7 DEF ClearOnesSealed, ToBeSealed, AtPaths, UserKnows, InboxKnows
<1>13. SealedOnesAhead'
    BY <1>1, <1>2, <1>4, <1>6, <1>7 DEF SealedOnesAhead, OneBusy, UserKnows
<1>14. MaxRunning = 1 => WholeInv' /\ CommitInv'
    BY <1>1, <1>2, <1>3, <1>4, <1>7 DEF WholeInv, WholeBlobs, AtPaths, OneBusy, CommitInv, CommittedStays
<1> QED
    BY <1>8, <1>9, <1>10, <1>11, <1>12, <1>13, <1>14 DEF RestInv, BlobInv

\* migrate lists the files.
LEMMA MigrateScanKeeps ==
    ASSUME RestInv, SafelyOff, MigrateScan
    PROVE  RestInv'
<1> USE DEF Idle, Converting, Enabling, Passing, Migrating, Stored, NoKey, Inbox, User, Tasks
<1>1. TypeOK /\ AtPaths /\ OneBusy /\ CacheRight /\ KeyThere /\ InboxKnows /\ UserKnows /\ InHand /\ OneKey
      /\ BlobsThere /\ ClearOnesSealed /\ SealedOnesAhead /\ (MaxRunning = 1 => WholeInv /\ CommitInv)
    BY DEF RestInv, BlobInv
<1>3. pc' \in [Tasks -> Labels] /\ pc'[Inbox] = pc[Inbox] /\ pc'[User] = "next"
    BY <1>1 DEF MigrateScan, Goto, TypeOK, Labels
<1>4. pc[User] = "scan" /\ todo' = Exists \cap Scanned /\ todo' \subseteq Scanned /\ \A e \in Scanned : file[e].exists => e \in todo'
    BY PathFacts DEF MigrateScan, Exists
<1>5. UNCHANGED <<db, copy, pool_open, is_encrypted, cached, mem, file, path, key, buf, target, keys, fails, crashes, acked, interrupted, File, Database>>
    BY DEF MigrateScan, database, locals, faults, history, File, Database
<1>6. TypeOK'
    BY <1>1, <1>3, <1>4, <1>5 DEF TypeOK
<1>7. AtPaths' /\ OneBusy' /\ CacheRight' /\ KeyThere'
    BY <1>1, <1>3, <1>4, <1>5 DEF AtPaths, OneBusy, CacheRight, KeyThere
<1>8. InboxKnows' /\ UserKnows' /\ InHand'
    BY <1>1, <1>3, <1>4, <1>5 DEF InboxKnows, OneBusy, UserKnows, InHand
<1>9. OneKey' /\ BlobsThere'
    BY <1>1, <1>3, <1>5 DEF OneKey, BlobsThere
<1>10. ClearOnesSealed'
    BY <1>1, <1>3, <1>4, <1>5 DEF ClearOnesSealed, ToBeSealed, AtPaths, UserKnows, InboxKnows
<1>11. SealedOnesAhead'
    BY <1>3, <1>4, <1>5 DEF SealedOnesAhead
<1>12. MaxRunning = 1 => WholeInv' /\ CommitInv'
    BY <1>1, <1>3, <1>5 DEF WholeInv, WholeBlobs, AtPaths, OneBusy, CommitInv, CommittedStays
<1> QED
    BY <1>6, <1>7, <1>8, <1>9, <1>10, <1>11, <1>12 DEF RestInv, BlobInv

\* migrate takes a file from its list.
LEMMA MigrateNextKeeps ==
    ASSUME RestInv, SafelyOff, NEW e \in Entries, MigrateNext(e)
    PROVE  RestInv'
<1> USE DEF Idle, Converting, Enabling, Passing, Migrating, Stored, NoKey, Inbox, User, Tasks
<1>1. TypeOK /\ AtPaths /\ OneBusy /\ CacheRight /\ KeyThere /\ InboxKnows /\ UserKnows /\ InHand /\ OneKey
      /\ BlobsThere /\ ClearOnesSealed /\ SealedOnesAhead /\ (MaxRunning = 1 => WholeInv /\ CommitInv)
    BY DEF RestInv, BlobInv
<1>2. db.rows \subseteq Blobs /\ db.on \in BOOLEAN /\ target \in BOOLEAN
    BY <1>1 DEF TypeOK, Database
<1>3. pc' \in [Tasks -> Labels] /\ pc'[Inbox] = pc[Inbox] /\ pc'[User] = "read"
    BY <1>1 DEF MigrateNext, Goto, TypeOK, Labels
<1>4. pc[User] = "next" /\ e \in Scanned /\ todo' = todo \ {e}
    BY <1>1 DEF MigrateNext, TypeOK
<1>5. path' \in [Tasks -> Entries \cup {NoPath}] /\ path'[User] = e /\ path'[Inbox] = path[Inbox]
    BY <1>1 DEF MigrateNext, TypeOK
<1>6. UNCHANGED <<db, copy, pool_open, is_encrypted, cached, mem, file, key, buf, target, keys, fails, crashes, acked, interrupted, File, Database>>
    BY DEF MigrateNext, database, locals, faults, history, File, Database
<1>7. TypeOK'
    BY <1>1, <1>2, <1>3, <1>4, <1>5, <1>6 DEF TypeOK
<1>8. AtPaths' /\ OneBusy' /\ CacheRight' /\ KeyThere'
    BY <1>1, <1>2, <1>3, <1>4, <1>5, <1>6 DEF AtPaths, OneBusy, CacheRight, KeyThere
<1>9. InboxKnows' /\ UserKnows' /\ InHand'
    BY <1>1, <1>2, <1>3, <1>4, <1>6 DEF InboxKnows, OneBusy, UserKnows, InHand
<1>10. OneKey' /\ BlobsThere'
    BY <1>1, <1>2, <1>3, <1>5, <1>6 DEF OneKey, BlobsThere, AtPaths
<1>11. ClearOnesSealed'
    BY <1>1, <1>2, <1>3, <1>4, <1>5, <1>6 DEF ClearOnesSealed, ToBeSealed, AtPaths, UserKnows, InboxKnows
<1>12. SealedOnesAhead'
    BY <1>1, <1>2, <1>3, <1>4, <1>5, <1>6 DEF SealedOnesAhead, OneBusy, UserKnows
<1>13. MaxRunning = 1 => WholeInv' /\ CommitInv'
    BY <1>1, <1>2, <1>3, <1>4, <1>6 DEF WholeInv, WholeBlobs, AtPaths, OneBusy, CommitInv, CommittedStays
<1> QED
    BY <1>7, <1>8, <1>9, <1>10, <1>11, <1>12, <1>13 DEF RestInv, BlobInv

\* migrate is done with its list.
LEMMA MigrateEndKeeps ==
    ASSUME RestInv, SafelyOff, MigrateEnd
    PROVE  RestInv'
<1> USE DEF Idle, Converting, Enabling, Passing, Migrating, Stored, NoKey, Inbox, User, Tasks
<1>1. TypeOK /\ AtPaths /\ OneBusy /\ CacheRight /\ KeyThere /\ InboxKnows /\ UserKnows /\ InHand /\ OneKey
      /\ BlobsThere /\ ClearOnesSealed /\ SealedOnesAhead /\ (MaxRunning = 1 => WholeInv /\ CommitInv)
    BY DEF RestInv, BlobInv
<1>3. pc[User] = "next" /\ todo = {}
    BY DEF MigrateEnd
<1>4. UNCHANGED <<db, copy, pool_open, is_encrypted, cached, mem, file, keys, fails, crashes, acked, interrupted, File, Database>>
    BY DEF MigrateEnd, database, locals, faults, history, File, Database
<1>5. \/ target 
         /\ pc' \in [Tasks -> Labels] /\ path' \in [Tasks -> Entries \cup {NoPath}]
         /\ key' \in [Tasks -> 0..keys'] /\ buf' \in [Tasks -> File'] /\ todo' \subseteq Scanned /\ target' \in BOOLEAN
         /\ pc'[User] = Idle /\ pc'[Inbox] = pc[Inbox] /\ path'[Inbox] = path[Inbox] /\ key'[Inbox] = key[Inbox]
         /\ buf'[Inbox] = buf[Inbox]
      \/ /\ ~target /\ pc' \in [Tasks -> Labels] /\ pc'[User] = "drop" /\ pc'[Inbox] = pc[Inbox]
         /\ UNCHANGED <<path, key, buf, todo, target>>
    BY <1>1, <1>4, ReturnDoes DEF MigrateEnd, Goto, locals, TypeOK, Labels
<1>6. TypeOK'
    BY <1>1, <1>4, <1>5 DEF TypeOK
<1>7. AtPaths' /\ OneBusy' /\ CacheRight' /\ KeyThere'
    BY <1>1, <1>3, <1>4, <1>5 DEF AtPaths, OneBusy, CacheRight, KeyThere
<1>8. InboxKnows' /\ UserKnows' /\ InHand'
    BY <1>1, <1>3, <1>4, <1>5 DEF InboxKnows, OneBusy, UserKnows, InHand
<1>9. OneKey' /\ BlobsThere'
    BY <1>1, <1>4, <1>5 DEF OneKey, BlobsThere, AtPaths
<1>10. ClearOnesSealed'
    BY <1>1, <1>3, <1>4, <1>5 DEF ClearOnesSealed, ToBeSealed, AtPaths, UserKnows, InboxKnows
<1>11. SealedOnesAhead'
    BY <1>1, <1>3, <1>4 DEF SealedOnesAhead, OneBusy, UserKnows
<1>12. MaxRunning = 1 => WholeInv' /\ CommitInv'
    BY <1>1, <1>4, <1>5 DEF WholeInv, WholeBlobs, AtPaths, CommitInv, CommittedStays
<1> QED
    BY <1>6, <1>7, <1>8, <1>9, <1>10, <1>11, <1>12 DEF RestInv, BlobInv

\* disable drops the key, which no file needs any more.
LEMMA DropKeyKeeps ==
    ASSUME RestInv, SafelyOff, DropKey
    PROVE  RestInv'
<1> USE DEF Idle, Converting, Enabling, Passing, Migrating, Stored, NoKey, Inbox, User, Tasks
<1>1. TypeOK /\ AtPaths /\ OneBusy /\ CacheRight /\ KeyThere /\ InboxKnows /\ UserKnows /\ InHand /\ OneKey
      /\ BlobsThere /\ ClearOnesSealed /\ SealedOnesAhead /\ (MaxRunning = 1 => WholeInv /\ CommitInv)
    BY DEF RestInv, BlobInv
<1>2. db.rows \subseteq Blobs /\ db.on \in BOOLEAN /\ target \in BOOLEAN
    BY <1>1 DEF TypeOK, Database
<1>3. pc[User] = "drop" /\ Return(User) /\ SetRaw("key", 0) /\ keys' = keys /\ keys \in Nat
    BY <1>1 DEF DropKey, TypeOK
<1>4. ~db.on /\ \A e \in Scanned : file[e].exists => file[e].key = NoKey
    BY <1>1, <1>3 DEF UserKnows, SealedOnesAhead
<1>5. UNCHANGED <<copy, pool_open, is_encrypted, file, keys, fails, crashes, acked, interrupted, File, Database>>
    BY DEF DropKey, database, locals, faults, history, File, Database, SetRaw
<1>6. /\ pc' \in [Tasks -> Labels] /\ path' \in [Tasks -> Entries \cup {NoPath}]
      /\ key' \in [Tasks -> 0..keys'] /\ buf' \in [Tasks -> File'] /\ todo' \subseteq Scanned /\ target' \in BOOLEAN
      /\ pc'[User] = Idle /\ pc'[Inbox] = pc[Inbox] /\ path'[Inbox] = path[Inbox] /\ key'[Inbox] = key[Inbox]
      /\ buf'[Inbox] = buf[Inbox]
    BY <1>1, <1>3, ReturnDoes
<1>7. /\ CacheRight' /\ cached' \subseteq {"key", "on"} /\ mem' \in [key : 0..keys', on : BOOLEAN]
      /\ db' \in Database' /\ db'.key = 0 /\ db'.on = db.on /\ db'.rows = db.rows
    BY <1>1, <1>3, SetKeyKeeps
<1>8. TypeOK'
    BY <1>1, <1>3, <1>5, <1>6, <1>7 DEF TypeOK
<1>9. AtPaths' /\ OneBusy' /\ CacheRight' /\ KeyThere'
    BY <1>1, <1>2, <1>3, <1>4, <1>6, <1>7 DEF AtPaths, OneBusy, CacheRight, KeyThere
<1>10. InboxKnows' /\ UserKnows' /\ InHand'
    BY <1>1, <1>2, <1>3, <1>6 DEF InboxKnows, OneBusy, UserKnows, InHand
<1>11. OneKey' /\ BlobsThere'
    BY <1>1, <1>3, <1>4, <1>5, <1>6, <1>7 DEF OneKey, BlobsThere, AtPaths
<1>12. ClearOnesSealed'
    BY <1>1, <1>2, <1>3, <1>7 DEF ClearOnesSealed, ToBeSealed, AtPaths, UserKnows, InboxKnows
<1>13. SealedOnesAhead'
    BY <1>1, <1>3, <1>5 DEF SealedOnesAhead, OneBusy, UserKnows
<1>14. MaxRunning = 1 => WholeInv' /\ CommitInv'
    BY <1>1, <1>2, <1>3, <1>5, <1>6, <1>7 DEF WholeInv, WholeBlobs, AtPaths, OneBusy, CommitInv, CommittedStays
<1> QED
    BY <1>8, <1>9, <1>10, <1>11, <1>12, <1>13, <1>14 DEF RestInv, BlobInv

\* A passphrase is set or removed.
LEMMA SetPassphraseKeeps ==
    ASSUME RestInv, SafelyOff, NEW enc \in BOOLEAN, SetPassphrase(enc)
    PROVE  RestInv'
<1> USE DEF Idle, Converting, Enabling, Passing, Migrating, Stored, NoKey, Inbox, User, Tasks
<1>1. TypeOK /\ AtPaths /\ OneBusy /\ CacheRight /\ KeyThere /\ InboxKnows /\ UserKnows /\ InHand /\ OneKey
      /\ BlobsThere /\ ClearOnesSealed /\ SealedOnesAhead /\ (MaxRunning = 1 => WholeInv /\ CommitInv)
    BY DEF RestInv, BlobInv
<1>2. db.rows \subseteq Blobs /\ db.on \in BOOLEAN /\ target \in BOOLEAN
    BY <1>1 DEF TypeOK, Database
<1>3. pc' \in [Tasks -> Labels] /\ pc'[Inbox] = pc[Inbox] /\ pc'[User] = "export"
    BY <1>1 DEF SetPassphrase, Goto, TypeOK, Labels
<1>4. pc[User] = Idle /\ (MaxRunning = 1 => pc[Inbox] = Idle)
    BY StartAlone DEF SetPassphrase, CanStart
<1>5. target' = enc /\ copy' \in Database
    BY <1>1 DEF SetPassphrase, NoCopy, Database, TypeOK
<1>6. UNCHANGED <<db, pool_open, is_encrypted, cached, mem, file, path, key, buf, todo, keys, fails, crashes, acked, interrupted, File, Database>>
    BY DEF SetPassphrase, database, faults, history, File, Database
<1>7. TypeOK'
    BY <1>1, <1>2, <1>3, <1>5, <1>6 DEF TypeOK
<1>8. AtPaths' /\ OneBusy' /\ CacheRight' /\ KeyThere'
    BY <1>1, <1>2, <1>3, <1>4, <1>6 DEF AtPaths, OneBusy, CacheRight, KeyThere
<1>9. InboxKnows' /\ UserKnows' /\ InHand'
    BY <1>1, <1>2, <1>3, <1>6 DEF InboxKnows, OneBusy, UserKnows, InHand
<1>10. OneKey' /\ BlobsThere'
    BY <1>1, <1>2, <1>3, <1>6 DEF OneKey, BlobsThere
<1>11. ClearOnesSealed'
    BY <1>1, <1>2, <1>3, <1>4, <1>6 DEF ClearOnesSealed, ToBeSealed
<1>12. SealedOnesAhead'
    BY <1>3 DEF SealedOnesAhead
<1>13. MaxRunning = 1 => WholeInv' /\ CommitInv'
    BY <1>1, <1>2, <1>3, <1>6 DEF WholeInv, WholeBlobs, OneBusy, CommitInv, CommittedStays
<1> QED
    BY <1>7, <1>8, <1>9, <1>10, <1>11, <1>12, <1>13 DEF RestInv, BlobInv

\* The database is exported.
LEMMA RewriteExportKeeps ==
    ASSUME RestInv, SafelyOff, RewriteExport
    PROVE  RestInv'
<1> USE DEF Idle, Converting, Enabling, Passing, Migrating, Stored, NoKey, Inbox, User, Tasks
<1>1. TypeOK /\ AtPaths /\ OneBusy /\ CacheRight /\ KeyThere /\ InboxKnows /\ UserKnows /\ InHand /\ OneKey
      /\ BlobsThere /\ ClearOnesSealed /\ SealedOnesAhead /\ (MaxRunning = 1 => WholeInv /\ CommitInv)
    BY DEF RestInv, BlobInv
<1>3. pc' \in [Tasks -> Labels] /\ pc'[Inbox] = pc[Inbox] /\ pc'[User] = "close"
    BY <1>1 DEF RewriteExport, Goto, TypeOK, Labels
<1>4. pc[User] = "export" /\ copy' \in Database /\ copy'.key = db.key /\ copy'.on = db.on /\ copy'.rows = db.rows
    BY <1>1 DEF RewriteExport, TypeOK, Database
<1>5. UNCHANGED <<db, pool_open, is_encrypted, cached, mem, file, path, key, buf, todo, target, keys, fails, crashes, acked, interrupted, File, Database>>
    BY DEF RewriteExport, database, locals, faults, history, File, Database
<1>6. TypeOK'
    BY <1>1, <1>3, <1>4, <1>5 DEF TypeOK
<1>7. AtPaths' /\ OneBusy' /\ CacheRight' /\ KeyThere'
    BY <1>1, <1>3, <1>4, <1>5 DEF AtPaths, OneBusy, CacheRight, KeyThere
<1>8. InboxKnows' /\ UserKnows' /\ InHand'
    BY <1>1, <1>3, <1>5 DEF InboxKnows, OneBusy, UserKnows, InHand
<1>9. OneKey' /\ BlobsThere'
    BY <1>1, <1>3, <1>5 DEF OneKey, BlobsThere
<1>10. ClearOnesSealed'
    BY <1>1, <1>3, <1>4, <1>5 DEF ClearOnesSealed, ToBeSealed, AtPaths, UserKnows, InboxKnows
<1>11. SealedOnesAhead'
    BY <1>1, <1>3 DEF SealedOnesAhead
<1>12. MaxRunning = 1 => WholeInv' /\ CommitInv'
    BY <1>1, <1>3, <1>4, <1>5 DEF WholeInv, WholeBlobs, AtPaths, OneBusy, CommitInv, CommittedStays
<1> QED
    BY <1>6, <1>7, <1>8, <1>9, <1>10, <1>11, <1>12 DEF RestInv, BlobInv

\* The database is closed.
LEMMA RewriteCloseKeeps ==
    ASSUME RestInv, SafelyOff, RewriteClose
    PROVE  RestInv'
<1> USE DEF Idle, Converting, Enabling, Passing, Migrating, Stored, NoKey, Inbox, User, Tasks
<1>1. TypeOK /\ AtPaths /\ OneBusy /\ CacheRight /\ KeyThere /\ InboxKnows /\ UserKnows /\ InHand /\ OneKey
      /\ BlobsThere /\ ClearOnesSealed /\ SealedOnesAhead /\ (MaxRunning = 1 => WholeInv /\ CommitInv)
    BY DEF RestInv, BlobInv
<1>3. pc' \in [Tasks -> Labels] /\ pc'[Inbox] = pc[Inbox] /\ pc'[User] = "rename"
    BY <1>1 DEF RewriteClose, Goto, TypeOK, Labels
<1>4. pc[User] = "close" /\ pool_open' = FALSE
    BY DEF RewriteClose
<1>5. UNCHANGED <<db, copy, is_encrypted, cached, mem, file, path, key, buf, todo, target, keys, fails, crashes, acked, interrupted, File, Database>>
    BY DEF RewriteClose, database, locals, faults, history, File, Database
<1>6. TypeOK'
    BY <1>1, <1>3, <1>4, <1>5 DEF TypeOK
<1>7. AtPaths' /\ OneBusy' /\ CacheRight' /\ KeyThere'
    BY <1>1, <1>3, <1>4, <1>5 DEF AtPaths, OneBusy, CacheRight, KeyThere
<1>8. InboxKnows' /\ UserKnows' /\ InHand'
    BY <1>1, <1>3, <1>5 DEF InboxKnows, OneBusy, UserKnows, InHand
<1>9. OneKey' /\ BlobsThere'
    BY <1>1, <1>3, <1>5 DEF OneKey, BlobsThere
<1>10. ClearOnesSealed'
    BY <1>1, <1>3, <1>4, <1>5 DEF ClearOnesSealed, ToBeSealed, AtPaths, UserKnows, InboxKnows
<1>11. SealedOnesAhead'
    BY <1>1, <1>3 DEF SealedOnesAhead
<1>12. MaxRunning = 1 => WholeInv' /\ CommitInv'
    BY <1>1, <1>3, <1>4, <1>5 DEF WholeInv, WholeBlobs, AtPaths, OneBusy, CommitInv, CommittedStays
<1> QED
    BY <1>6, <1>7, <1>8, <1>9, <1>10, <1>11, <1>12 DEF RestInv, BlobInv

\* The copy takes the place of the database.
LEMMA RewriteRenameKeeps ==
    ASSUME RestInv, SafelyOff, RewriteRename
    PROVE  RestInv'
<1> USE DEF Idle, Converting, Enabling, Passing, Migrating, Stored, NoKey, Inbox, User, Tasks
<1>1. TypeOK /\ AtPaths /\ OneBusy /\ CacheRight /\ KeyThere /\ InboxKnows /\ UserKnows /\ InHand /\ OneKey
      /\ BlobsThere /\ ClearOnesSealed /\ SealedOnesAhead /\ (MaxRunning = 1 => WholeInv /\ CommitInv)
    BY DEF RestInv, BlobInv
<1>2. db.rows \subseteq Blobs /\ db.on \in BOOLEAN /\ target \in BOOLEAN
    BY <1>1 DEF TypeOK, Database
<1>3. pc' \in [Tasks -> Labels] /\ pc'[Inbox] = pc[Inbox] /\ pc'[User] = "open"
    BY <1>1 DEF RewriteRename, Goto, TypeOK, Labels
<1>4. pc[User] = "rename" /\ db' = copy /\ copy' \in Database
    BY <1>1, BoundsAssumption DEF RewriteRename, NoCopy, Database, TypeOK
<1>5. db'.key = db.key /\ db'.on = db.on /\ db'.rows \subseteq db.rows
    BY <1>1, <1>4 DEF KeyThere
<1>6. UNCHANGED <<pool_open, is_encrypted, cached, mem, file, path, key, buf, todo, target, keys, fails, crashes, acked, interrupted, File, Database>>
    BY DEF RewriteRename, database, locals, faults, history, File, Database
<1>7. TypeOK'
    BY <1>1, <1>2, <1>3, <1>4, <1>6 DEF TypeOK
<1>8. AtPaths' /\ OneBusy' /\ CacheRight' /\ KeyThere'
    BY <1>1, <1>2, <1>3, <1>4, <1>6 DEF AtPaths, OneBusy, CacheRight, KeyThere
<1>9. InboxKnows' /\ UserKnows' /\ InHand'
    BY <1>1, <1>2, <1>3, <1>5, <1>6 DEF InboxKnows, OneBusy, UserKnows, InHand
<1>10. OneKey' /\ BlobsThere'
    BY <1>1, <1>2, <1>3, <1>5, <1>6 DEF OneKey, BlobsThere, AtPaths
<1>11. ClearOnesSealed'
    BY <1>1, <1>2, <1>3, <1>4, <1>5, <1>6 DEF ClearOnesSealed, ToBeSealed, AtPaths, UserKnows, InboxKnows
<1>12. SealedOnesAhead'
    BY <1>3 DEF SealedOnesAhead, OneBusy
<1>13. MaxRunning = 1 => WholeInv' /\ CommitInv'
    BY <1>1, <1>2, <1>3, <1>4, <1>6 DEF WholeInv, WholeBlobs, AtPaths, OneBusy, CommitInv, CommittedStays
<1> QED
    BY <1>7, <1>8, <1>9, <1>10, <1>11, <1>12, <1>13 DEF RestInv, BlobInv

\* It is opened.
LEMMA RewriteOpenKeeps ==
    ASSUME RestInv, SafelyOff, RewriteOpen
    PROVE  RestInv'
<1> USE DEF Idle, Converting, Enabling, Passing, Migrating, Stored, NoKey, Inbox, User, Tasks
<1>1. TypeOK /\ AtPaths /\ OneBusy /\ CacheRight /\ KeyThere /\ InboxKnows /\ UserKnows /\ InHand /\ OneKey
      /\ BlobsThere /\ ClearOnesSealed /\ SealedOnesAhead /\ (MaxRunning = 1 => WholeInv /\ CommitInv)
    BY DEF RestInv, BlobInv
<1>3. pc[User] = "open" /\ Return(User) /\ keys' = keys /\ pool_open' = TRUE /\ is_encrypted' = target
    BY DEF RewriteOpen
<1>4. UNCHANGED <<db, copy, cached, mem, file, keys, fails, crashes, acked, interrupted, File, Database>>
    BY DEF RewriteOpen, locals, faults, history, File, Database
<1>5. /\ pc' \in [Tasks -> Labels] /\ path' \in [Tasks -> Entries \cup {NoPath}]
      /\ key' \in [Tasks -> 0..keys'] /\ buf' \in [Tasks -> File'] /\ todo' \subseteq Scanned /\ target' \in BOOLEAN
      /\ pc'[User] = Idle /\ pc'[Inbox] = pc[Inbox] /\ path'[Inbox] = path[Inbox] /\ key'[Inbox] = key[Inbox]
      /\ buf'[Inbox] = buf[Inbox]
    BY <1>1, <1>3, ReturnDoes
<1>6. TypeOK'
    BY <1>1, <1>3, <1>4, <1>5 DEF TypeOK
<1>7. AtPaths' /\ OneBusy' /\ CacheRight' /\ KeyThere'
    BY <1>1, <1>4, <1>5 DEF AtPaths, OneBusy, CacheRight, KeyThere
<1>8. InboxKnows' /\ UserKnows' /\ InHand'
    BY <1>1, <1>4, <1>5 DEF InboxKnows, OneBusy, UserKnows, InHand
<1>9. OneKey' /\ BlobsThere'
    BY <1>1, <1>4, <1>5 DEF OneKey, BlobsThere, AtPaths
<1>10. ClearOnesSealed'
    BY <1>1, <1>3, <1>4, <1>5 DEF ClearOnesSealed, ToBeSealed, AtPaths, UserKnows, InboxKnows
<1>11. SealedOnesAhead'
    BY <1>5 DEF SealedOnesAhead
<1>12. MaxRunning = 1 => WholeInv' /\ CommitInv'
    BY <1>1, <1>4, <1>5 DEF WholeInv, WholeBlobs, AtPaths, OneBusy, CommitInv, CommittedStays
<1> QED
    BY <1>6, <1>7, <1>8, <1>9, <1>10, <1>11, <1>12 DEF RestInv, BlobInv

\* The inbox meets an error: in protect the message is stored as it is, elsewhere it is given up.
LEMMA InboxStopsKeeps ==
    ASSUME RestInv, SafelyOff, NoSql(Inbox) \/ Fail(Inbox)
    PROVE  RestInv'
<1> USE DEF Idle, Converting, Enabling, Passing, Migrating, Stored, NoKey, Inbox, User, Tasks
<1>1. TypeOK /\ AtPaths /\ OneBusy /\ CacheRight /\ KeyThere /\ InboxKnows /\ UserKnows /\ InHand /\ OneKey
      /\ BlobsThere /\ ClearOnesSealed /\ SealedOnesAhead /\ (MaxRunning = 1 => WholeInv /\ CommitInv)
    BY DEF RestInv, BlobInv
<1>3. UNCHANGED <<db, copy, pool_open, is_encrypted, cached, mem, file, keys, crashes, acked, File, Database>>
    BY DEF NoSql, Fail, database, faults, File, Database
<1>4. interrupted' = TRUE /\ fails' \in 0..MaxFails
    BY <1>1, BoundsAssumption DEF NoSql, Fail, TypeOK, faults
<1>5. /\ pc' \in [Tasks -> Labels] /\ path' \in [Tasks -> Entries \cup {NoPath}]
      /\ key' \in [Tasks -> 0..keys'] /\ buf' \in [Tasks -> File'] /\ todo' = todo /\ target' = target
      /\ pc'[User] = pc[User] /\ path'[User] = path[User] /\ key'[User] = key[User] /\ buf'[User] = buf[User]
      /\ \/ pc'[Inbox] = Idle
         \/ pc'[Inbox] = "commit" /\ pc[Inbox] \in Stored /\ UNCHANGED <<path, key, buf>>
    <2>1. CASE Return(Inbox)
        BY <1>1, <1>3, <2>1, ReturnDoes
    <2>2. CASE Goto(Inbox, "commit") /\ UNCHANGED locals /\ pc[Inbox] \in Stored
        BY <1>1, <1>3, <2>2 DEF Goto, locals, TypeOK, Labels
    <2> QED
        BY <1>1, <2>1, <2>2 DEF NoSql, Fail, Abort, AfterConvert, InboxKnows
<1>6. TypeOK'
    BY <1>1, <1>3, <1>4, <1>5 DEF TypeOK
<1>7. AtPaths' /\ OneBusy' /\ CacheRight' /\ KeyThere'
    BY <1>1, <1>3, <1>5 DEF AtPaths, OneBusy, CacheRight, KeyThere
<1>8. InboxKnows' /\ UserKnows' /\ InHand'
    BY <1>1, <1>3, <1>5 DEF InboxKnows, OneBusy, UserKnows, InHand
<1>9. OneKey' /\ BlobsThere'
    BY <1>1, <1>3, <1>5 DEF OneKey, BlobsThere, AtPaths
<1>10. ClearOnesSealed'
    BY <1>4 DEF ClearOnesSealed, AtPaths, UserKnows
<1>11. SealedOnesAhead'
    BY <1>1, <1>3, <1>5 DEF SealedOnesAhead, OneBusy, UserKnows
<1>12. MaxRunning = 1 => WholeInv' /\ CommitInv'
    BY <1>1, <1>3, <1>5 DEF WholeInv, WholeBlobs, AtPaths, OneBusy, CommitInv, CommittedStays
<1> QED
    BY <1>6, <1>7, <1>8, <1>9, <1>10, <1>11, <1>12 DEF RestInv, BlobInv

\* The user's call meets an error: it returns it, or migrate goes on with the next file.
LEMMA UserStopsKeeps ==
    ASSUME RestInv, SafelyOff, NoSql(User) \/ Fail(User)
    PROVE  RestInv'
<1> USE DEF Idle, Converting, Enabling, Passing, Migrating, Stored, NoKey, Inbox, User, Tasks
<1>1. TypeOK /\ AtPaths /\ OneBusy /\ CacheRight /\ KeyThere /\ InboxKnows /\ UserKnows /\ InHand /\ OneKey
      /\ BlobsThere /\ ClearOnesSealed /\ SealedOnesAhead /\ (MaxRunning = 1 => WholeInv /\ CommitInv)
    BY DEF RestInv, BlobInv
<1>3. UNCHANGED <<db, copy, pool_open, is_encrypted, cached, mem, file, keys, crashes, acked, File, Database>>
    BY DEF NoSql, Fail, database, faults, File, Database
<1>4. interrupted' = TRUE /\ fails' \in 0..MaxFails
    BY <1>1, BoundsAssumption DEF NoSql, Fail, TypeOK, faults
<1>5. /\ pc' \in [Tasks -> Labels] /\ path' \in [Tasks -> Entries \cup {NoPath}]
      /\ key' \in [Tasks -> 0..keys'] /\ buf' \in [Tasks -> File'] /\ todo' \subseteq Scanned /\ target' \in BOOLEAN
      /\ pc'[Inbox] = pc[Inbox] /\ path'[Inbox] = path[Inbox] /\ key'[Inbox] = key[Inbox]
      /\ buf'[Inbox] = buf[Inbox]
      /\ \/ pc'[User] = Idle
         \/ pc'[User] = "next" /\ pc[User] \in Converting /\ MaxFails # 0 /\ UNCHANGED <<path, key, buf, todo, target>>
    <2>1. CASE Return(User)
        BY <1>1, <1>3, <2>1, ReturnDoes
    <2>2. CASE Fail(User) /\ pc[User] \in Converting
        <3>1. Goto(User, "next") /\ UNCHANGED locals /\ fails < MaxFails
            BY <2>2 DEF Fail, AfterConvert
        <3>2. MaxFails # 0
            BY <1>1, <3>1 DEF TypeOK
        <3> QED
            BY <1>1, <1>3, <2>2, <3>1, <3>2 DEF Goto, locals, TypeOK, Labels
    <2> QED
        BY <2>1, <2>2 DEF NoSql, Fail, Abort
<1>6. TypeOK'
    BY <1>1, <1>3, <1>4, <1>5 DEF TypeOK
<1>7. AtPaths' /\ OneBusy' /\ CacheRight' /\ KeyThere'
    BY <1>1, <1>3, <1>5 DEF AtPaths, OneBusy, CacheRight, KeyThere
<1>8. InboxKnows' /\ UserKnows' /\ InHand'
    BY <1>1, <1>3, <1>5 DEF InboxKnows, OneBusy, UserKnows, InHand
<1>9. OneKey' /\ BlobsThere'
    BY <1>1, <1>3, <1>5 DEF OneKey, BlobsThere, AtPaths
<1>10. ClearOnesSealed'
    BY <1>4 DEF ClearOnesSealed
<1>11. SealedOnesAhead'
    BY <1>1, <1>3, <1>5 DEF SealedOnesAhead, OneBusy, UserKnows
<1>12. MaxRunning = 1 => WholeInv' /\ CommitInv'
    BY <1>1, <1>3, <1>5 DEF WholeInv, WholeBlobs, AtPaths, OneBusy, CommitInv, CommittedStays
<1> QED
    BY <1>6, <1>7, <1>8, <1>9, <1>10, <1>11, <1>12 DEF RestInv, BlobInv

\* The process dies and starts again.
LEMMA CrashKeeps ==
    ASSUME RestInv, SafelyOff, Crash
    PROVE  RestInv'
<1> USE DEF Idle, Converting, Enabling, Passing, Migrating, Stored, NoKey, Inbox, User, Tasks
<1>1. TypeOK /\ AtPaths /\ OneBusy /\ CacheRight /\ KeyThere /\ InboxKnows /\ UserKnows /\ InHand /\ OneKey
      /\ BlobsThere /\ ClearOnesSealed /\ SealedOnesAhead /\ (MaxRunning = 1 => WholeInv /\ CommitInv)
    BY DEF RestInv, BlobInv
<1>2. db.rows \subseteq Blobs /\ db.on \in BOOLEAN /\ target \in BOOLEAN
    BY <1>1 DEF TypeOK, Database
<1>3. UNCHANGED <<db, copy, keys, fails, acked, File, Database>>
    BY DEF Crash, File, Database
<1>4. interrupted' = TRUE /\ crashes' \in 0..MaxCrashes /\ cached' = {} /\ todo' = {} /\ target' = FALSE /\ pool_open' = TRUE
      /\ is_encrypted' = db.enc
    BY <1>1, BoundsAssumption DEF Crash, TypeOK
<1>5. NoFile \in File /\ NoKey \in 0..keys /\ Idle \in Labels
    BY <1>1, BoundsAssumption DEF TypeOK, NoFile, File, Labels
<1>6. pc' = [t \in Tasks |-> Idle] /\ path' = [t \in Tasks |-> NoPath] /\ key' = [t \in Tasks |-> NoKey]
      /\ buf' = [t \in Tasks |-> NoFile] /\ mem' = [key |-> NoKey, on |-> FALSE]
    BY DEF Crash
<1>8. /\ file' \in [Entries -> File]
      /\ \A e \in Entries : file'[e].key = file[e].key /\ file'[e].whole = file[e].whole /\ file'[e].exists = file[e].exists
    BY <1>1 DEF Crash, TypeOK, File
<1>9. is_encrypted' \in BOOLEAN
    BY <1>1, <1>4 DEF TypeOK, Database
<1>10. TypeOK'
    BY <1>1, <1>3, <1>4, <1>5, <1>6, <1>8, <1>9 DEF TypeOK
<1>11. AtPaths' /\ OneBusy' /\ CacheRight' /\ KeyThere'
    BY <1>1, <1>3, <1>4, <1>5, <1>6 DEF AtPaths, OneBusy, CacheRight, KeyThere
<1>12. InboxKnows' /\ UserKnows' /\ InHand'
    BY <1>1, <1>2, <1>3, <1>4, <1>5, <1>6 DEF InboxKnows, UserKnows, InHand
<1>13. OneKey' /\ BlobsThere'
    BY <1>1, <1>2, <1>3, <1>4, <1>5, <1>6, <1>8, PathFacts DEF OneKey, BlobsThere, AtPaths
<1>14. ClearOnesSealed'
    BY <1>3, <1>4 DEF ClearOnesSealed, ToBeSealed, AtPaths, InboxKnows
<1>15. SealedOnesAhead'
    BY <1>1, <1>6 DEF SealedOnesAhead
<1>16. MaxRunning = 1 => WholeInv' /\ CommitInv'
    BY <1>1, <1>2, <1>3, <1>4, <1>5, <1>6, <1>8, PathFacts DEF WholeInv, WholeBlobs, AtPaths, OneBusy, CommitInv, CommittedStays
<1> QED
    BY <1>10, <1>11, <1>12, <1>13, <1>14, <1>15, <1>16 DEF RestInv, BlobInv

(***************************************************************************)
(* The theorems about encryption at rest.                                  *)
(***************************************************************************)

\* Every step keeps the invariant.
LEMMA RestStep ==
    ASSUME RestInv, SafelyOff, [Next]_vars
    PROVE  RestInv'
<1>1. CASE UNCHANGED vars
    BY <1>1 DEF vars, database, locals, faults, history, RestInv, BlobInv, TypeOK, Database, File, AtPaths, OneBusy, CacheRight,
        KeyThere, InboxKnows, UserKnows, InHand, OneKey, BlobsThere, ClearOnesSealed, ToBeSealed, SealedOnesAhead,
        WholeInv, WholeBlobs, CommitInv, CommittedStays
<1>2. CASE Call
    BY <1>2, StoreBeginKeeps, EnableBeginKeeps, DisableKeeps, SetPassphraseKeeps DEF Call
<1>3. CASE InboxStep
    BY <1>3, StoreEndKeeps, NameBlobKeeps, CommitRowKeeps, ProtectCheckKeeps DEF InboxStep
<1>4. CASE MigrateStep
    BY <1>4, SwitchOnKeeps, MigrateKeyKeeps, MigrateScanKeeps, MigrateNextKeeps, MigrateEndKeeps, DropKeyKeeps DEF MigrateStep
<1>5. CASE RewriteStep
    BY <1>5, RewriteExportKeeps, RewriteCloseKeeps, RewriteRenameKeeps, RewriteOpenKeeps DEF RewriteStep
<1>6. CASE KeyStep(Inbox)
    <2>1. ~GenerateKey(Inbox)
        BY DEF RestInv, BlobInv, InboxKnows, GenerateKey
    <2> QED
        BY <1>6, <2>1, EnsureKeyInboxKeeps, ConvertReadInboxKeeps, ConvertWriteInboxKeeps, ConvertReplaceInboxKeeps DEF KeyStep
<1>7. CASE KeyStep(User)
    BY <1>7, EnsureKeyUserKeeps, GenerateKeyKeeps, ConvertReadUserKeeps, ConvertWriteUserKeeps, ConvertReplaceUserKeeps DEF KeyStep
<1>8. CASE NoSql(Inbox) \/ Fail(Inbox)
    BY <1>8, InboxStopsKeeps
<1>9. CASE NoSql(User) \/ Fail(User)
    BY <1>9, UserStopsKeeps
<1>10. CASE Housekeeping
    BY <1>10, RemoveUnusedFileKeeps DEF Housekeeping
<1>11. CASE Crash
    BY <1>11, CrashKeeps
<1> QED
    BY <1>1, <1>2, <1>3, <1>4, <1>5, <1>6, <1>7, <1>8, <1>9, <1>10, <1>11 DEF Next, Fault, Tasks

\* So it always holds.
LEMMA RestAlways == ASSUME SafelyOff PROVE Spec => []RestInv
<1>1. Init => RestInv
    BY BlobInit DEF RestInv
<1>2. RestInv /\ [Next]_vars => RestInv'
    BY RestStep
<1> QED
    BY <1>1, <1>2, PTL DEF Spec

\* Blobs stay readable over any restart and none is left in clear, with any number of handlers,
\* failures and deaths, as long as encryption is not turned off (blobcrypt.rs, disable), or is
\* turned off where nothing runs beside it and nothing fails.
THEOREM BlobsStayReadable == ASSUME SafelyOff PROVE Spec => []BlobsReadable
<1>1. RestInv => Readable
    BY PathFacts DEF RestInv, BlobInv, OneKey, BlobsThere, TypeOK, Database, Readable
<1>2. RestInv => NoneLeftClear
    BY PathFacts DEF RestInv, BlobInv, ClearOnesSealed, ToBeSealed, NoneLeftClear, Quiet, Exists, Tasks, Idle, Enabling,
        Passing, Converting, Stored
<1> QED
    BY <1>1, <1>2, RestAlways, PTL DEF BlobsReadable

\* With one handler at a time blobs are whole too, and what was committed stays, over any
\* deaths (vault.rs, rewrite_under_key; blobcrypt.rs, convert).
THEOREM RestSafe == ASSUME SafelyOff, MaxRunning = 1 PROVE Spec => []AtRestSafe
<1>1. RestInv => TypeOK /\ WholeBlobs /\ CommittedStays
    BY DEF RestInv, BlobInv, WholeInv, CommitInv
<1>2. Spec => []RestInv
    BY RestAlways
<1>3. Spec => []BlobsReadable
    BY BlobsStayReadable
<1>4. BlobsReadable => Readable /\ NoneLeftClear
    BY DEF BlobsReadable
<1> QED
    BY <1>1, <1>2, <1>3, <1>4, PTL DEF AtRestSafe

(***************************************************************************)
(* Network: four parts with an inductive invariant each.                   *)
(***************************************************************************)

-----------------------------------------------------------------------------
(* Connections. *)

\* Keys of servers, attempts with their stages, those past the handshake, and those under way
Keys == {NoPin} \cup {c.spki : c \in Certificates}
TrySet == [at : {"dial", "tcp", "pin", "tls", "save", "greet", "note", "record", "up", "failed"},
           spki : Keys]
Reached == {"save", "greet", "note", "record", "up"}
RunningOf(ts) == {i \in DOMAIN ts : ts[i].at # "failed"}

\* An attempt x at the address a: past the handshake it met the server, and one that checks
\* certificates knows its key; every key it knows was vouched for.
AttemptOk(d, kind, x, a, m, v) ==
    /\ x \in TrySet
    /\ x.at = "save" => x.spki # NoPin
    /\ x.at \in Reached => <<d, a>> \in m /\ (kind.security = "strict" => x.spki # NoPin)
    /\ ~SelfSigned /\ x.spki # NoPin => x.spki \in v

\* The attempts ts at the first addresses of l
AttemptsOk(d, kind, ts, l, m, v) ==
    /\ ts \in Seq(TrySet) /\ l \in Seq(Spots) /\ Len(ts) <= Len(l)
    /\ \A i \in 1..Len(ts) : AttemptOk(d, kind, ts[i], l[i], m, v)

\* How many there are
CountedOk(at, ts, l, n) ==
    /\ n \in Nat
    /\ at \in {"failed", "trying"} /\ RunningOf(ts) = {} => Len(ts) = Len(l)
    /\ at = "failed" => RunningOf(ts) = {}
    /\ IsFiniteSet(RunningOf(ts)) /\ Cardinality(RunningOf(ts)) <= 1 + n

\* Types of what connections keep, and of what is remembered between them
DialTypes ==
    /\ DOMAIN dialAt = Dials /\ dialKind \in [Dials -> DialKinds] /\ answer \in [Dials -> Seq(HostAddrs)]
    /\ DOMAIN toTry = Dials /\ DOMAIN tries = Dials /\ DOMAIN delayed = Dials /\ DOMAIN winner = Dials
    /\ memory = <<>> \/ \E s \in Seq(HostAddrs) : memory = <<s>>
StoreTypes ==
    /\ netNow \in Nat /\ connHistory \in [Dials -> [Spots -> Nat]]
    /\ pinRow \in [spki : Keys, at : Nat] /\ pins \in Keys

\* The parts of the invariant: attempts and their number, keys of servers that are connected,
\* and keys that are remembered
Attempts == \A d \in Dials : AttemptsOk(d, dialKind[d], tries[d], toTry[d], met, vouched)
Counted == \A d \in Dials : CountedOk(dialAt[d], tries[d], toTry[d], delayed[d])
Won == \A d \in Dials :
    dialAt[d] = "connected" /\ dialKind[d].security = "strict" /\ ~SelfSigned => winner[d] \in vouched
Kept == ~SelfSigned => (pins # NoPin => pins \in vouched) /\ (pinRow.at > 0 => pinRow.spki \in vouched)

\* The invariant of the connections
Dialled == DialTypes /\ Attempts /\ Counted /\ Won /\ PlainFresh
Remembered == StoreTypes /\ Kept /\ HistoryEarned
NetInv == Dialled /\ Remembered

\* What is assumed of certificates, answers and the clock
LEMMA CertificateKeys ==
    /\ \A c \in Certificates : c.valid \in BOOLEAN /\ c.spki # NoPin
    /\ Answers \subseteq Seq(HostAddrs) /\ MaxNetNow \in Nat
  BY NetworkAssumption DEF NoPin

-----------------------------------------------------------------------------
(* The lists of addresses. *)

\* Sorting leaves the addresses as they are.
LEMMA SortedSame ==
    ASSUME NEW S, NEW s \in Seq(S), NEW by, NEW l \in SortedBy(s, by)
    PROVE  l \in Seq(S) /\ ToSet(l) \subseteq ToSet(s)
<1>1. PICK p \in [DOMAIN s -> DOMAIN s] : l = [i \in DOMAIN s |-> s[p[i]]] BY DEF SortedBy
<1>2. DOMAIN s = 1..Len(s) /\ Len(s) \in Nat /\ \A i \in 1..Len(s) : s[i] \in S OBVIOUS
<1>3. l \in [1..Len(s) -> S] BY <1>1, <1>2
<1>4. l \in Seq(S) BY <1>2, <1>3 DEF Seq
<1>5. \A i \in DOMAIN l : \E j \in DOMAIN s : l[i] = s[j] BY <1>1
<1> QED BY <1>4, <1>5 DEF ToSet

\* What is picked from a list is a list of its elements.
LEMMA PickedSame ==
    ASSUME NEW S, NEW s \in Seq(S), NEW ix, ix \subseteq DOMAIN s, NEW l \in Picked(s, ix)
    PROVE  l \in Seq(S)
<1> DEFINE n == Cardinality(ix)
<1>1. PICK f \in [1..n -> ix] : l = [i \in 1..n |-> s[f[i]]] BY DEF Picked
<1>2. DOMAIN s = 1..Len(s) /\ Len(s) \in Nat /\ \A i \in 1..Len(s) : s[i] \in S OBVIOUS
<1>3. IsFiniteSet(ix)
  <2>1. IsFiniteSet(1..Len(s)) BY <1>2, FS_Interval
  <2> QED BY <1>2, <2>1, FS_Subset
<1>4. n \in Nat BY <1>3, FS_CardinalityType
<1> HIDE DEF n
<1>5. l \in [1..n -> S] BY <1>1, <1>2
<1> QED BY <1>4, <1>5 DEF Seq

\* The cache has addresses only.
LEMMA CachedSame ==
    ASSUME NEW d \in Dials, NEW l \in CachedLists(d)
    PROVE  l \in Seq(HostAddrs)
<1> DEFINE A == {a \in HostAddrs : names[a] > 0 /\ since[d] < names[a] + CacheTTL}
<1>1. l \in [1..Cardinality(A) -> A] BY DEF CachedLists, SetToSeqs
<1>2. IsFiniteSet(A) BY NetworkAssumption, FS_Subset
<1>3. Cardinality(A) \in Nat BY <1>2, FS_CardinalityType
<1>4. A \subseteq HostAddrs OBVIOUS
<1> HIDE DEF A
<1> QED BY <1>1, <1>3, <1>4 DEF Seq

\* Every list that is tried is one of addresses; and one for what is not authenticated has what
\* was just resolved, nothing else.
LEMMA ListsRight ==
    ASSUME NEW d \in Dials, answer[d] \in Seq(HostAddrs), NEW l \in ServerLists(d)
    PROVE  /\ l \in Seq(HostAddrs)
           /\ dialKind[d].security # "strict" => ToSet(l) \subseteq ToSet(answer[d])
<1>1. CASE dialKind[d].security # "strict"
  <2>1. l \in SortedBy(answer[d], connHistory[d]) BY <1>1 DEF ServerLists, LoadCache
  <2> QED BY <2>1, SortedSame
<1>2. CASE dialKind[d].security = "strict"
  <2>1. PICK r \in SortedBy(answer[d], connHistory[d]) :
          \E c \in UNION {WithPreload(x) : x \in CachedLists(d)} : l \in MergeWithCache(r, c)
    BY <1>2 DEF ServerLists, LoadCache
  <2>2. PICK c \in UNION {WithPreload(x) : x \in CachedLists(d)} : l \in MergeWithCache(r, c) BY <2>1
  <2>3. PICK x \in CachedLists(d) : c \in WithPreload(x) BY <2>2
  <2>4. r \in Seq(HostAddrs) BY SortedSame
  <2>5. x \in Seq(HostAddrs) BY CachedSame
  <2>6. Preload \in Seq(HostAddrs) BY NetworkAssumption
  <2>7. c \in Seq(HostAddrs)
    <3>1. PICK y \in Picked(Preload, {i \in DOMAIN Preload : ~Contains(x, Preload[i])}) : c = x \o y
      BY <2>3 DEF WithPreload
    <3>2. y \in Seq(HostAddrs) BY <2>6, PickedSame
    <3> QED BY <2>5, <3>1, <3>2
  <2>8. l \in Seq(HostAddrs)
    <3> DEFINE n == IF Len(r) < 2 THEN Len(r) ELSE 2
               first == SubSeq(r, 1, n)
               rest == c \o SubSeq(r, n + 1, Len(r))
               new == {i \in DOMAIN rest : ~Contains(first \o SubSeq(rest, 1, i - 1), rest[i])}
               ix == {i \in new : Cardinality({j \in new : j < i}) < MaxListed - n}
    <3>1. PICK y \in Picked(rest, ix) : l = first \o y BY <2>2 DEF MergeWithCache
    <3>2. n \in Nat /\ n <= Len(r) BY <2>4
    <3>3. first \in Seq(HostAddrs)
      <4> HIDE DEF n
      <4> QED BY <2>4, <3>2, SubSeqProperties
    <3>4. SubSeq(r, n + 1, Len(r)) \in Seq(HostAddrs)
      <4> HIDE DEF n
      <4>1. \A i \in (n + 1)..Len(r) : r[i] \in HostAddrs BY <2>4, <3>2
      <4> QED BY <2>4, <3>2, <4>1, SubSeqProperties
    <3>5. rest \in Seq(HostAddrs) BY <2>7, <3>4
    <3>6. ix \subseteq DOMAIN rest OBVIOUS
    <3> HIDE DEF ix, rest, first
    <3>7. y \in Seq(HostAddrs) BY <3>5, <3>6, PickedSame
    <3> QED BY <3>1, <3>3, <3>7
  <2> QED BY <1>2, <2>8
<1> QED BY <1>1, <1>2

-----------------------------------------------------------------------------
(* The attempts. *)

\* What is met and vouched for later does no harm.
LEMMA AttemptsMono ==
    ASSUME NEW d, NEW kind, NEW ts, NEW l, NEW m, NEW n, NEW v, NEW w, AttemptsOk(d, kind, ts, l, m, v),
           m \subseteq n, v \subseteq w
    PROVE  AttemptsOk(d, kind, ts, l, n, w)
  BY DEF AttemptsOk, AttemptOk

\* No attempt is right for any list.
LEMMA NoAttempts ==
    ASSUME NEW d, NEW kind, NEW l \in Seq(Spots), NEW m, NEW v
    PROVE  AttemptsOk(d, kind, <<>>, l, m, v)
<1>1. <<>> \in Seq(TrySet) /\ Len(<<>>) = 0 /\ DOMAIN <<>> = {} OBVIOUS
<1>2. Len(l) \in Nat OBVIOUS
<1> QED BY <1>1, <1>2 DEF AttemptsOk

\* ... and none is under way.
LEMMA NoneRunning == RunningOf(<<>>) = {} /\ Cardinality(RunningOf(<<>>)) = 0 /\ IsFiniteSet(RunningOf(<<>>))
<1>1. RunningOf(<<>>) = {} BY DEF RunningOf
<1> QED BY <1>1, FS_EmptySet, Zenon

\* An attempt that has just begun
Begun == [at |-> "dial", spki |-> NoPin]

\* ... knows nothing yet.
LEMMA BegunOk ==
    ASSUME NEW d, NEW kind, NEW a, NEW m, NEW v
    PROVE  AttemptOk(d, kind, Begun, a, m, v) /\ Begun \in TrySet /\ Begun.at = "dial"
<1>1. Begun \in TrySet /\ Begun.at = "dial" /\ Begun.spki = NoPin BY DEF Begun, TrySet, Keys
<1> QED BY <1>1 DEF AttemptOk, Reached

\* The first attempt is right for any list that is not empty, and one is under way.
LEMMA OneAttempt ==
    ASSUME NEW d, NEW kind, NEW l \in Seq(Spots), l # <<>>, NEW m, NEW v
    PROVE  /\ AttemptsOk(d, kind, <<Begun>>, l, m, v)
           /\ RunningOf(<<Begun>>) # {} /\ Cardinality(RunningOf(<<Begun>>)) = 1 /\ IsFiniteSet(RunningOf(<<Begun>>))
<1>1. AttemptOk(d, kind, Begun, l[1], m, v) /\ Begun \in TrySet /\ Begun.at = "dial" BY BegunOk
<1> HIDE DEF Begun
<1>2. /\ <<Begun>> \in Seq(TrySet) /\ Len(<<Begun>>) = 1 /\ DOMAIN <<Begun>> = {1} /\ <<Begun>>[1] = Begun
  BY <1>1
<1>3. Len(l) \in Nat /\ 1 <= Len(l) OBVIOUS
<1>4. AttemptsOk(d, kind, <<Begun>>, l, m, v)
  <2> SUFFICES ASSUME NEW i \in 1..1 PROVE AttemptOk(d, kind, <<Begun>>[i], l[i], m, v)
    BY <1>2, <1>3 DEF AttemptsOk
  <2>1. i = 1 OBVIOUS
  <2> QED BY <1>1, <1>2, <2>1
<1>5. RunningOf(<<Begun>>) = {1} BY <1>1, <1>2 DEF RunningOf
<1>6. {1} # {} /\ Cardinality({1}) = 1 /\ IsFiniteSet({1}) BY FS_Singleton
<1>7. RunningOf(<<Begun>>) # {} /\ Cardinality(RunningOf(<<Begun>>)) = 1 /\ IsFiniteSet(RunningOf(<<Begun>>))
  BY <1>5, <1>6, Zenon
<1> QED BY <1>4, <1>7

\* One attempt is replaced
Replaced(us, ts, i, x) == us = [ts EXCEPT ![i] = x]

\* An attempt goes on, or fails.
LEMMA GoesOn ==
    ASSUME NEW d, NEW kind, NEW ts, NEW l, NEW m, NEW v, AttemptsOk(d, kind, ts, l, m, v),
           NEW i \in DOMAIN ts, NEW x, AttemptOk(d, kind, x, l[i], m, v), NEW us, Replaced(us, ts, i, x)
    PROVE  /\ AttemptsOk(d, kind, us, l, m, v)
           /\ Len(us) = Len(ts)
           /\ x.at = "failed" => RunningOf(us) = RunningOf(ts) \ {i}
           /\ x.at # "failed" => RunningOf(us) = RunningOf(ts) \cup {i}
<1>1. ts \in Seq(TrySet) /\ x \in TrySet BY DEF AttemptsOk, AttemptOk
<1>2. DOMAIN ts = 1..Len(ts) /\ Len(ts) \in Nat BY <1>1
<1>3. us \in Seq(TrySet) /\ Len(us) = Len(ts) /\ DOMAIN us = DOMAIN ts BY <1>1 DEF Replaced
<1>4. \A j \in DOMAIN ts : us[j] = IF j = i THEN x ELSE ts[j] BY <1>1 DEF Replaced
<1>5. AttemptsOk(d, kind, us, l, m, v) BY <1>2, <1>3, <1>4 DEF AttemptsOk
<1>6. /\ x.at = "failed" => RunningOf(us) = RunningOf(ts) \ {i}
      /\ x.at # "failed" => RunningOf(us) = RunningOf(ts) \cup {i}
  BY <1>3, <1>4 DEF RunningOf
<1> QED BY <1>3, <1>5, <1>6

\* Another is begun, if there is another address.
LEMMA AnotherBegins ==
    ASSUME NEW d, NEW kind, NEW ts, NEW l, NEW m, NEW v, AttemptsOk(d, kind, ts, l, m, v)
    PROVE  /\ AttemptsOk(d, kind, WithNext(ts, l), l, m, v)
           /\ \/ WithNext(ts, l) = ts /\ Len(ts) = Len(l)
              \/ RunningOf(WithNext(ts, l)) = RunningOf(ts) \cup {Len(ts) + 1}
<1> DEFINE us == Append(ts, Begun)
<1>1. ts \in Seq(TrySet) /\ Len(ts) \in Nat /\ DOMAIN ts = 1..Len(ts) /\ Len(l) \in Nat /\ Len(ts) <= Len(l)
  BY DEF AttemptsOk
<1>2. CASE Len(ts) < Len(l)
  <2>1. WithNext(ts, l) = us BY <1>2 DEF WithNext, Begun
  <2>2. AttemptOk(d, kind, Begun, l[Len(ts) + 1], m, v) /\ Begun \in TrySet /\ Begun.at = "dial" BY BegunOk
  <2> HIDE DEF Begun
  <2>3. /\ us \in Seq(TrySet) /\ Len(us) = Len(ts) + 1 /\ DOMAIN us = 1..(Len(ts) + 1)
        /\ \A j \in 1..(Len(ts) + 1) : us[j] = IF j = Len(ts) + 1 THEN Begun ELSE ts[j]
    BY <1>1, <2>2
  <2> HIDE DEF us
  <2>4. AttemptsOk(d, kind, us, l, m, v) BY <1>1, <1>2, <2>2, <2>3 DEF AttemptsOk
  <2>5. RunningOf(us) = RunningOf(ts) \cup {Len(ts) + 1} BY <1>1, <2>2, <2>3 DEF RunningOf
  <2> QED BY <2>1, <2>4, <2>5
<1>3. CASE ~(Len(ts) < Len(l)) BY <1>1, <1>3 DEF WithNext
<1> QED BY <1>2, <1>3

\* The attempts under way can be counted.
LEMMA RunningFinite ==
    ASSUME NEW ts \in Seq(TrySet)
    PROVE  IsFiniteSet(RunningOf(ts)) /\ Cardinality(RunningOf(ts)) \in Nat
<1>1. IsFiniteSet(DOMAIN ts) BY FS_Interval
<1>2. RunningOf(ts) \subseteq DOMAIN ts BY DEF RunningOf
<1> QED BY <1>1, <1>2, FS_Subset, FS_CardinalityType

\* One fails, another begins.
LEMMA FailsCounted ==
    ASSUME NEW d, NEW kind, NEW ts, NEW l, NEW m, NEW v, AttemptsOk(d, kind, ts, l, m, v), NEW n,
           CountedOk("trying", ts, l, n), NEW i \in RunningOf(ts)
    PROVE  LET us == WithNext([ts EXCEPT ![i] = [at |-> "failed", spki |-> NoPin]], l)
           IN  AttemptsOk(d, kind, us, l, m, v) /\ CountedOk("trying", us, l, n)
<1> DEFINE x == [at |-> "failed", spki |-> NoPin]
           ws == [ts EXCEPT ![i] = x]
           us == WithNext(ws, l)
<1>1. x \in TrySet /\ x.at = "failed" /\ x.spki = NoPin BY DEF TrySet, Keys
<1>2. AttemptOk(d, kind, x, l[i], m, v) BY <1>1 DEF AttemptOk, Reached
<1>3. i \in DOMAIN ts BY DEF RunningOf
<1> HIDE DEF x
<1>4. AttemptsOk(d, kind, ws, l, m, v) /\ Len(ws) = Len(ts) /\ RunningOf(ws) = RunningOf(ts) \ {i}
  <2>1. Replaced(ws, ts, i, x) BY DEF Replaced
  <2> HIDE DEF ws
  <2>2. /\ AttemptsOk(d, kind, ws, l, m, v) /\ Len(ws) = Len(ts)
        /\ x.at = "failed" => RunningOf(ws) = RunningOf(ts) \ {i}
    BY <1>2, <1>3, <2>1, GoesOn
  <2> QED BY <1>1, <2>2
<1> HIDE DEF ws
<1>5. /\ AttemptsOk(d, kind, us, l, m, v)
      /\ (us = ws /\ Len(ws) = Len(l)) \/ RunningOf(us) = RunningOf(ws) \cup {Len(ws) + 1}
  BY <1>4, AnotherBegins
<1> HIDE DEF us
<1>6. ts \in Seq(TrySet) /\ us \in Seq(TrySet) BY <1>5 DEF AttemptsOk
<1>7. /\ IsFiniteSet(RunningOf(ts)) /\ Cardinality(RunningOf(ts)) \in Nat
      /\ IsFiniteSet(RunningOf(us)) /\ Cardinality(RunningOf(us)) \in Nat
  BY <1>6, RunningFinite
<1>8. IsFiniteSet(RunningOf(ws)) /\ Cardinality(RunningOf(ws)) = Cardinality(RunningOf(ts)) - 1
  BY <1>4, <1>7, FS_RemoveElement
<1>9. n \in Nat /\ Cardinality(RunningOf(ts)) <= 1 + n BY DEF CountedOk
<1>10. Cardinality(RunningOf(ws) \cup {Len(ws) + 1}) <= Cardinality(RunningOf(ws)) + 1
  <2>1. IsFiniteSet(RunningOf(ws)) BY <1>8
  <2>2. Cardinality(RunningOf(ws)) \in Nat BY <2>1, FS_CardinalityType
  <2>3. \/ Cardinality(RunningOf(ws) \cup {Len(ws) + 1}) = Cardinality(RunningOf(ws))
        \/ Cardinality(RunningOf(ws) \cup {Len(ws) + 1}) = Cardinality(RunningOf(ws)) + 1
    BY <2>1, FS_AddElement
  <2> QED BY <2>2, <2>3
<1>11. CountedOk("trying", us, l, n)
  <2>1. CASE us = ws /\ Len(ws) = Len(l) BY <1>7, <1>8, <1>9, <2>1 DEF CountedOk
  <2>2. CASE RunningOf(us) = RunningOf(ws) \cup {Len(ws) + 1} BY <1>7, <1>8, <1>9, <1>10, <2>2 DEF CountedOk
  <2> QED BY <1>5, <2>1, <2>2
<1> QED BY <1>5, <1>11 DEF us, ws, x

\* A delay is over, another begins.
LEMMA DelayCounted ==
    ASSUME NEW d, NEW kind, NEW ts, NEW l, NEW m, NEW v, AttemptsOk(d, kind, ts, l, m, v), NEW n,
           CountedOk("trying", ts, l, n), RunningOf(ts) # {}
    PROVE  AttemptsOk(d, kind, WithNext(ts, l), l, m, v) /\ CountedOk("trying", WithNext(ts, l), l, n + 1)
<1> DEFINE us == WithNext(ts, l)
<1>1. /\ AttemptsOk(d, kind, us, l, m, v)
      /\ us = ts \/ RunningOf(us) = RunningOf(ts) \cup {Len(ts) + 1}
  BY AnotherBegins
<1> HIDE DEF us
<1>2. ts \in Seq(TrySet) /\ us \in Seq(TrySet) BY <1>1 DEF AttemptsOk
<1>3. /\ IsFiniteSet(RunningOf(ts)) /\ Cardinality(RunningOf(ts)) \in Nat
      /\ IsFiniteSet(RunningOf(us)) /\ Cardinality(RunningOf(us)) \in Nat
  BY <1>2, RunningFinite
<1>4. n \in Nat /\ Cardinality(RunningOf(ts)) <= 1 + n BY DEF CountedOk
<1>5. Cardinality(RunningOf(ts) \cup {Len(ts) + 1}) <= Cardinality(RunningOf(ts)) + 1
  <2>1. \/ Cardinality(RunningOf(ts) \cup {Len(ts) + 1}) = Cardinality(RunningOf(ts))
        \/ Cardinality(RunningOf(ts) \cup {Len(ts) + 1}) = Cardinality(RunningOf(ts)) + 1
    BY <1>3, FS_AddElement
  <2> QED BY <1>3, <2>1
<1>6. CountedOk("trying", us, l, n + 1)
  <2>1. CASE us = ts BY <1>3, <1>4, <2>1 DEF CountedOk
  <2>2. CASE RunningOf(us) = RunningOf(ts) \cup {Len(ts) + 1} BY <1>3, <1>4, <1>5, <2>2 DEF CountedOk
  <2> QED BY <1>1, <2>1, <2>2
<1> QED BY <1>1, <1>6 DEF us

-----------------------------------------------------------------------------
(* The steps. *)

\* What leaves the connections alone keeps what is said of them, although more is met or vouched for.
LEMMA DialledMono ==
    ASSUME Dialled, UNCHANGED dialing, met \subseteq met', vouched \subseteq vouched',
           memory' = <<>> \/ \E s \in Seq(HostAddrs) : memory' = <<s>>
    PROVE  Dialled'
<1>1. DialTypes' BY DEF Dialled, DialTypes, dialing
<1>2. Attempts'
  <2> SUFFICES ASSUME NEW d \in Dials PROVE AttemptsOk(d, dialKind[d], tries[d], toTry[d], met', vouched')
    BY DEF Attempts, dialing
  <2> QED BY AttemptsMono DEF Dialled, Attempts
<1>3. Counted' BY DEF Dialled, Counted, dialing
<1>4. Won' BY DEF Dialled, Won, dialing
<1>5. PlainFresh' BY DEF Dialled, PlainFresh, dialing
<1> QED BY <1>1, <1>2, <1>3, <1>4, <1>5 DEF Dialled

\* An attempt goes from one stage to another.
LEMMA AttemptStep ==
    ASSUME Dialled, NEW d \in Dials, NEW i \in DOMAIN tries[d], dialAt[d] = "trying", tries[d][i].at # "failed",
           NEW b, b # "failed", NEW k, Attempt(d, i, b, k), Untouched, met \subseteq met', vouched \subseteq vouched',
           AttemptOk(d, dialKind[d], [at |-> b, spki |-> k], toTry[d][i], met', vouched')
    PROVE  Dialled'
<1> DEFINE x == [at |-> b, spki |-> k]
           us == [tries[d] EXCEPT ![i] = x]
<1>0. /\ UNCHANGED <<memory, dialAt, dialKind, answer, toTry, delayed, winner>>
      /\ DOMAIN tries' = Dials /\ tries'[d] = us /\ \A e \in Dials \ {d} : tries'[e] = tries[e]
  BY DEF Dialled, DialTypes, Untouched, resolver, Attempt
<1>1. DialTypes' BY <1>0 DEF Dialled, DialTypes
<1>2. \A e \in Dials : AttemptsOk(e, dialKind[e], tries[e], toTry[e], met', vouched')
  BY AttemptsMono DEF Dialled, Attempts
<1>3. Replaced(us, tries[d], i, x) BY DEF Replaced
<1>4. x.at # "failed" OBVIOUS
<1> HIDE DEF us, x
<1>5. AttemptOk(d, dialKind[d], x, toTry[d][i], met', vouched') BY DEF x
<1>6. /\ AttemptsOk(d, dialKind[d], us, toTry[d], met', vouched') /\ Len(us) = Len(tries[d])
      /\ RunningOf(us) = RunningOf(tries[d]) \cup {i}
  BY <1>2, <1>3, <1>4, <1>5, GoesOn
<1>7. RunningOf(us) = RunningOf(tries[d]) BY <1>6 DEF RunningOf
<1>8. Attempts' BY <1>0, <1>2, <1>6 DEF Attempts
<1>9. Counted'
  <2> SUFFICES ASSUME NEW e \in Dials PROVE CountedOk(dialAt[e], tries'[e], toTry[e], delayed[e])
    BY <1>0 DEF Counted
  <2>1. CountedOk(dialAt[e], tries[e], toTry[e], delayed[e]) BY DEF Dialled, Counted
  <2>2. CASE e = d BY <1>0, <1>6, <1>7, <2>1, <2>2 DEF CountedOk
  <2>3. CASE e # d BY <1>0, <2>1, <2>3
  <2> QED BY <2>2, <2>3
<1>10. Won' BY <1>0 DEF Dialled, Won
<1>11. PlainFresh' BY <1>0 DEF Dialled, PlainFresh
<1> QED BY <1>1, <1>8, <1>9, <1>10, <1>11 DEF Dialled

\* A connection changes as a whole.
LEMMA DialStep ==
    ASSUME Dialled, NEW d \in Dials, UNCHANGED <<met, vouched>>, DialTypes',
           \A e \in Dials \ {d} : /\ dialAt'[e] = dialAt[e] /\ dialKind'[e] = dialKind[e] /\ answer'[e] = answer[e]
                                  /\ toTry'[e] = toTry[e] /\ tries'[e] = tries[e] /\ delayed'[e] = delayed[e]
                                  /\ winner'[e] = winner[e],
           AttemptsOk(d, dialKind'[d], tries'[d], toTry'[d], met, vouched),
           CountedOk(dialAt'[d], tries'[d], toTry'[d], delayed'[d]),
           dialAt'[d] = "connected" /\ dialKind'[d].security = "strict" /\ ~SelfSigned => winner'[d] \in vouched,
           dialAt'[d] = "trying" /\ dialKind'[d].security # "strict" /\ ~dialKind'[d].proxied =>
             ToSet(toTry'[d]) \subseteq ToSet(answer'[d])
    PROVE  Dialled'
<1>1. Attempts'
  <2> SUFFICES ASSUME NEW e \in Dials PROVE AttemptsOk(e, dialKind'[e], tries'[e], toTry'[e], met, vouched)
    BY DEF Attempts
  <2>1. CASE e = d BY <2>1
  <2>2. CASE e # d BY <2>2 DEF Dialled, Attempts
  <2> QED BY <2>1, <2>2
<1>2. Counted'
  <2> SUFFICES ASSUME NEW e \in Dials PROVE CountedOk(dialAt'[e], tries'[e], toTry'[e], delayed'[e])
    BY DEF Counted
  <2>1. CASE e = d BY <2>1
  <2>2. CASE e # d BY <2>2 DEF Dialled, Counted
  <2> QED BY <2>1, <2>2
<1>3. Won'
  <2> SUFFICES ASSUME NEW e \in Dials, dialAt'[e] = "connected", dialKind'[e].security = "strict", ~SelfSigned
               PROVE  winner'[e] \in vouched
    BY DEF Won
  <2> QED BY DEF Dialled, Won
<1>4. PlainFresh'
  <2> SUFFICES ASSUME NEW e \in Dials, dialAt'[e] = "trying", dialKind'[e].security # "strict", ~dialKind'[e].proxied
               PROVE  ToSet(toTry'[e]) \subseteq ToSet(answer'[e])
    BY DEF PlainFresh
  <2>1. CASE e = d BY <2>1
  <2>2. CASE e # d BY <2>2 DEF Dialled, PlainFresh
  <2> QED BY <2>1, <2>2
<1> QED BY <1>1, <1>2, <1>3, <1>4 DEF Dialled

\* Nothing is connected, known or remembered at first.
LEMMA NetStart == NetInit => NetInv
<1> SUFFICES ASSUME NetInit PROVE NetInv OBVIOUS
<1> USE DEF NetInit
<1>0. <<>> \in Seq(Spots) /\ Len(<<>>) = 0 OBVIOUS
<1>1. DialTypes BY DEF DialTypes, DialKinds
<1>2. Attempts
  <2> SUFFICES ASSUME NEW d \in Dials PROVE AttemptsOk(d, dialKind[d], <<>>, <<>>, met, vouched) BY DEF Attempts
  <2> QED BY <1>0, NoAttempts
<1>3. Counted
  <2> SUFFICES ASSUME NEW d \in Dials PROVE CountedOk("idle", <<>>, <<>>, 0) BY DEF Counted
  <2> QED BY <1>0, NoneRunning DEF CountedOk
<1>4. Won /\ PlainFresh BY DEF Won, PlainFresh
<1>5. StoreTypes
  <2>1. pinRow \in [spki : Keys, at : Nat] /\ pins \in Keys BY DEF Keys
  <2> QED BY <2>1 DEF StoreTypes
<1>6. Kept /\ HistoryEarned BY DEF Kept, HistoryEarned
<1> QED BY <1>1, <1>2, <1>3, <1>4, <1>5, <1>6 DEF NetInv, Dialled, Remembered

\* What leaves the stores alone keeps what is said of them.
LEMMA RememberedStays ==
    ASSUME Remembered, UNCHANGED <<netNow, connHistory, pins, pinRow>>, met \subseteq met', vouched \subseteq vouched'
    PROVE  Remembered'
<1>1. StoreTypes' BY DEF Remembered, StoreTypes
<1>2. Kept' BY DEF Remembered, Kept
<1>3. HistoryEarned' BY DEF Remembered, HistoryEarned
<1> QED BY <1>1, <1>2, <1>3 DEF Remembered

\* An attempt that is under way, and what is known of it.
LEMMA AtStage ==
    ASSUME NetInv, NEW d \in Dials, NEW i \in DOMAIN tries[d]
    PROVE  /\ tries[d] \in Seq(TrySet) /\ toTry[d] \in Seq(Spots) /\ tries[d][i] \in TrySet
           /\ toTry[d][i] \in Spots
           /\ AttemptOk(d, dialKind[d], tries[d][i], toTry[d][i], met, vouched)
<1>1. AttemptsOk(d, dialKind[d], tries[d], toTry[d], met, vouched) BY DEF NetInv, Dialled, Attempts
<1>2. /\ tries[d] \in Seq(TrySet) /\ toTry[d] \in Seq(Spots) /\ Len(tries[d]) <= Len(toTry[d])
      /\ \A j \in 1..Len(tries[d]) : AttemptOk(d, dialKind[d], tries[d][j], toTry[d][j], met, vouched)
  BY <1>1 DEF AttemptsOk
<1>3. i \in 1..Len(tries[d]) /\ i \in 1..Len(toTry[d]) BY <1>2
<1> QED BY <1>2, <1>3

\* Steps of an attempt that leave the stores alone
LEMMA QuietAttempt ==
    ASSUME NetInv, NEW d \in Dials, NEW i \in DOMAIN tries[d],
           ConnectTcp(d, i) \/ Tunnel(d, i) \/ ReachPlain(d, i) \/ ReachRelaxed(d, i) \/ GetSpkiHash(d, i)
             \/ Greeted(d, i) \/ UpdateConnectTimestamp(d, i)
    PROVE  NetInv'
<1> DEFINE x == tries[d][i]
           a == toTry[d][i]
<1>1. x \in TrySet /\ a \in Spots /\ AttemptOk(d, dialKind[d], x, a, met, vouched) BY AtStage
<1>2. /\ dialAt[d] = "trying" /\ x.at # "failed" /\ Untouched /\ met \subseteq met' /\ vouched' = vouched
      /\ UNCHANGED <<connHistory, pins, pinRow>>
  BY DEF ConnectTcp, Tunnel, ReachPlain, ReachRelaxed, GetSpkiHash, Greeted, UpdateConnectTimestamp, Stage, pinStore
<1>3. netNow' = netNow BY <1>2 DEF Untouched, clocks
<1>4. Remembered' BY <1>2, <1>3, RememberedStays DEF NetInv
<1>5. \E b, k : /\ b # "failed" /\ Attempt(d, i, b, k)
                /\ AttemptOk(d, dialKind[d], [at |-> b, spki |-> k], a, met', vouched')
  <2> DEFINE Ok(b, k) == /\ b # "failed" /\ Attempt(d, i, b, k)
                         /\ AttemptOk(d, dialKind[d], [at |-> b, spki |-> k], a, met', vouched')
  <2>0. ASSUME NEW b \in {"dial", "tcp", "pin", "tls"}, NEW k \in Keys, Attempt(d, i, b, k),
               ~SelfSigned /\ k # NoPin => k \in vouched
        PROVE  Ok(b, k)
    <3>1. [at |-> b, spki |-> k] \in TrySet /\ [at |-> b, spki |-> k].at = b /\ [at |-> b, spki |-> k].spki = k
      BY DEF TrySet
    <3> QED BY <1>2, <2>0, <3>1 DEF AttemptOk, Reached
  <2>1. ASSUME NEW b \in {"greet", "note", "record"}, Attempt(d, i, b, x.spki), <<d, a>> \in met',
               dialKind[d].security = "strict" => x.spki # NoPin
        PROVE  Ok(b, x.spki)
    <3>1. /\ [at |-> b, spki |-> x.spki] \in TrySet /\ [at |-> b, spki |-> x.spki].at = b
          /\ [at |-> b, spki |-> x.spki].spki = x.spki
      BY <1>1 DEF TrySet
    <3> QED BY <1>1, <1>2, <2>1, <3>1 DEF AttemptOk, Reached
  <2>n. NoPin \in Keys BY DEF Keys
  <2>2. CASE ConnectTcp(d, i) \/ Tunnel(d, i)
    <3>1. Attempt(d, i, "tcp", NoPin) BY <2>2 DEF ConnectTcp, Tunnel
    <3> QED BY <2>0, <2>n, <3>1
  <2>3. CASE ReachPlain(d, i) \/ ReachRelaxed(d, i)
    <3>1. /\ Attempt(d, i, "greet", NoPin) /\ <<d, a>> \in met' /\ dialKind[d].security # "strict"
      BY <2>3 DEF ReachPlain, ReachRelaxed
    <3>2. [at |-> "greet", spki |-> NoPin] \in TrySet BY DEF TrySet, Keys
    <3>3. AttemptOk(d, dialKind[d], [at |-> "greet", spki |-> NoPin], a, met', vouched')
      BY <3>1, <3>2 DEF AttemptOk
    <3> QED BY <3>1, <3>3
  <2>4. CASE GetSpkiHash(d, i)
    <3>0. pins \in Keys /\ pinRow.spki \in Keys /\ Kept BY DEF NetInv, Remembered, StoreTypes
    <3>1. CASE pins = NoPin /\ pinRow.at > 0
      <4>1. Attempt(d, i, "pin", pinRow.spki) BY <2>4, <3>1 DEF GetSpkiHash
      <4> QED BY <2>0, <3>0, <3>1, <4>1 DEF Kept
    <3>2. CASE ~(pins = NoPin /\ pinRow.at > 0)
      <4>1. Attempt(d, i, "tls", pins) BY <2>4, <3>2 DEF GetSpkiHash
      <4> QED BY <2>0, <3>0, <4>1 DEF Kept
    <3> QED BY <3>1, <3>2
  <2>5. CASE Greeted(d, i)
    <3>1. x.at = "greet" /\ met' = met BY <2>5 DEF Greeted, Stage
    <3>2. <<d, a>> \in met' /\ (dialKind[d].security = "strict" => x.spki # NoPin)
      BY <1>1, <3>1 DEF AttemptOk, Reached
    <3>3. PICK b \in {"note", "record"} : Attempt(d, i, b, x.spki) BY <2>5 DEF Greeted
    <3> QED BY <2>1, <3>2, <3>3
  <2>6. CASE UpdateConnectTimestamp(d, i)
    <3>1. x.at = "note" /\ met' = met /\ Attempt(d, i, "record", x.spki)
      BY <2>6 DEF UpdateConnectTimestamp, Stage
    <3>2. <<d, a>> \in met' /\ (dialKind[d].security = "strict" => x.spki # NoPin)
      BY <1>1, <3>1 DEF AttemptOk, Reached
    <3> QED BY <2>1, <3>1, <3>2
  <2> QED BY <2>2, <2>3, <2>4, <2>5, <2>6
<1>6. PICK b, k : /\ b # "failed" /\ Attempt(d, i, b, k)
                  /\ AttemptOk(d, dialKind[d], [at |-> b, spki |-> k], a, met', vouched')
  BY <1>5
<1>7. Dialled' BY <1>2, <1>6, AttemptStep DEF NetInv
<1> QED BY <1>4, <1>7 DEF NetInv

\* Steps of an attempt that change what is remembered
LEMMA NotedAttempt ==
    ASSUME NetInv, NEW d \in Dials, NEW i \in DOMAIN tries[d],
           \/ InsertSpkiHash(d, i) \/ (\E c \in Certificates : Handshake(d, i, c)) \/ SaveSpki(d, i)
           \/ UpdateConnectionHistory(d, i)
    PROVE  NetInv'
<1> DEFINE x == tries[d][i]
           a == toTry[d][i]
<1>1. /\ x \in TrySet /\ x.spki \in Keys /\ a \in Spots /\ AttemptOk(d, dialKind[d], x, a, met, vouched)
  BY AtStage DEF TrySet
<1>2. /\ x.at = "save" => x.spki # NoPin
      /\ x.at \in Reached => <<d, a>> \in met /\ (dialKind[d].security = "strict" => x.spki # NoPin)
      /\ ~SelfSigned /\ x.spki # NoPin => x.spki \in vouched
  BY <1>1 DEF AttemptOk
<1>s. StoreTypes /\ Kept /\ HistoryEarned /\ Dialled BY DEF NetInv, Remembered
<1> DEFINE z(b, k) == [at |-> b, spki |-> k]
<1>z. ASSUME NEW b \in {"tls", "save", "greet", "up"}, NEW k \in Keys
      PROVE  z(b, k) \in TrySet /\ z(b, k).at = b /\ z(b, k).spki = k
  BY <1>z DEF TrySet
<1>3. CASE InsertSpkiHash(d, i)
  <2>1. /\ dialAt[d] = "trying" /\ x.at = "pin" /\ Attempt(d, i, "tls", x.spki) /\ pins' = x.spki /\ Untouched
        /\ UNCHANGED <<connHistory, pinRow, vouched, met>>
    BY <1>3 DEF InsertSpkiHash, Stage
  <2>2. AttemptOk(d, dialKind[d], z("tls", x.spki), a, met', vouched')
    <3>1. z("tls", x.spki) \in TrySet /\ z("tls", x.spki).at = "tls" /\ z("tls", x.spki).spki = x.spki BY <1>1, <1>z
    <3> HIDE DEF z
    <3> QED BY <1>2, <2>1, <3>1 DEF AttemptOk, Reached
  <2>3. Dialled' BY <1>s, <2>1, <2>2, AttemptStep
  <2>4. StoreTypes' BY <1>1, <1>s, <2>1 DEF StoreTypes, Untouched, clocks
  <2>5. Kept' BY <1>2, <1>s, <2>1 DEF Kept
  <2>6. HistoryEarned' BY <1>s, <2>1 DEF HistoryEarned
  <2> QED BY <2>3, <2>4, <2>5, <2>6 DEF NetInv, Remembered
<1>4. CASE \E c \in Certificates : Handshake(d, i, c)
  <2>0. PICK c \in Certificates : Handshake(d, i, c) BY <1>4
  <2>1. /\ dialAt[d] = "trying" /\ x.at = "tls" /\ Trusted(c, x.spki) /\ Attempt(d, i, "save", c.spki)
        /\ pins' = c.spki /\ Untouched /\ UNCHANGED <<connHistory, pinRow>>
        /\ met' = met \cup {<<d, a>>} /\ vouched' = IF c.valid THEN vouched \cup {c.spki} ELSE vouched
    BY <2>0 DEF Handshake, Stage
  <2>2. c.spki # NoPin /\ c.spki \in Keys BY CertificateKeys DEF Keys
  <2>3. ~SelfSigned => c.spki \in vouched' BY <1>2, <2>1, <2>2 DEF Trusted
  <2>4. vouched \subseteq vouched' BY <2>1
  <2>5. AttemptOk(d, dialKind[d], z("save", c.spki), a, met', vouched')
    <3>1. z("save", c.spki) \in TrySet /\ z("save", c.spki).at = "save" /\ z("save", c.spki).spki = c.spki
      BY <1>z, <2>2
    <3> HIDE DEF z
    <3> QED BY <2>1, <2>2, <2>3, <3>1 DEF AttemptOk, Reached
  <2>6. Dialled' BY <1>s, <2>1, <2>4, <2>5, AttemptStep
  <2>7. StoreTypes' BY <1>s, <2>1, <2>2 DEF StoreTypes, Untouched, clocks
  <2>8. Kept' BY <1>s, <2>1, <2>3, <2>4 DEF Kept
  <2>9. HistoryEarned' BY <1>s, <2>1 DEF HistoryEarned
  <2> QED BY <2>6, <2>7, <2>8, <2>9 DEF NetInv, Remembered
<1>5. CASE SaveSpki(d, i)
  <2>1. /\ dialAt[d] = "trying" /\ x.at = "save" /\ Attempt(d, i, "greet", x.spki) /\ Untouched
        /\ pinRow' = [spki |-> x.spki, at |-> netNow] /\ UNCHANGED <<connHistory, pins, vouched, met>>
    BY <1>5 DEF SaveSpki, Stage
  <2>2. AttemptOk(d, dialKind[d], z("greet", x.spki), a, met', vouched')
    <3>1. z("greet", x.spki) \in TrySet /\ z("greet", x.spki).at = "greet" /\ z("greet", x.spki).spki = x.spki
      BY <1>1, <1>z
    <3> HIDE DEF z
    <3> QED BY <1>2, <2>1, <3>1 DEF AttemptOk, Reached
  <2>3. Dialled' BY <1>s, <2>1, <2>2, AttemptStep
  <2>4. StoreTypes' BY <1>1, <1>s, <2>1 DEF StoreTypes, Untouched, clocks
  <2>5. Kept'
    <3>1. pinRow'.spki = x.spki /\ pins' = pins /\ vouched' = vouched BY <2>1
    <3>2. x.spki # NoPin BY <1>2, <2>1
    <3> QED BY <1>2, <1>s, <3>1, <3>2 DEF Kept
  <2>6. HistoryEarned' BY <1>s, <2>1 DEF HistoryEarned
  <2> QED BY <2>3, <2>4, <2>5, <2>6 DEF NetInv, Remembered
<1>6. CASE UpdateConnectionHistory(d, i)
  <2>1. /\ dialAt[d] = "trying" /\ x.at = "record" /\ Attempt(d, i, "up", x.spki) /\ Untouched
        /\ connHistory' = [connHistory EXCEPT ![d] = [@ EXCEPT ![a] = netNow]]
        /\ UNCHANGED <<pins, pinRow, vouched, met>>
    BY <1>6 DEF UpdateConnectionHistory, Stage, pinStore
  <2>2. AttemptOk(d, dialKind[d], z("up", x.spki), a, met', vouched')
    <3>1. z("up", x.spki) \in TrySet /\ z("up", x.spki).at = "up" /\ z("up", x.spki).spki = x.spki BY <1>1, <1>z
    <3> HIDE DEF z
    <3> QED BY <1>2, <2>1, <3>1 DEF AttemptOk, Reached
  <2>3. Dialled' BY <1>s, <2>1, <2>2, AttemptStep
  <2>4. connHistory' \in [Dials -> [Spots -> Nat]] BY <1>1, <1>s, <2>1 DEF StoreTypes
  <2>5. StoreTypes' BY <1>s, <2>1, <2>4 DEF StoreTypes, Untouched, clocks
  <2>6. Kept' BY <1>s, <2>1 DEF Kept
  <2>7. HistoryEarned'
    <3> SUFFICES ASSUME NEW e \in Dials, NEW y \in Spots, connHistory'[e][y] > 0 PROVE <<e, y>> \in met
      BY <2>1 DEF HistoryEarned
    <3>1. CASE e = d /\ y = a BY <1>2, <2>1, <3>1 DEF Reached
    <3>2. CASE ~(e = d /\ y = a)
      <4>1. connHistory'[e][y] = connHistory[e][y] BY <1>s, <2>1, <3>2 DEF StoreTypes
      <4> QED BY <1>s, <4>1 DEF HistoryEarned
    <3> QED BY <3>1, <3>2
  <2> QED BY <2>3, <2>5, <2>6, <2>7 DEF NetInv, Remembered
<1> QED BY <1>3, <1>4, <1>5, <1>6

\* Steps of a connection as a whole
LEMMA DialMoves ==
    ASSUME NetInv, NEW d \in Dials,
           \/ \E k \in DialKinds : Dial(d, k)
           \/ \E s \in Answers : Resolve(d, s)
           \/ ResolveFails(d) \/ SaveNames(d) \/ ListAddrs(d)
           \/ \E i \in DOMAIN tries[d] : AttemptFails(d, i) \/ AttemptWins(d, i)
           \/ DelayOver(d) \/ AllFail(d)
    PROVE  NetInv'
<1>1. /\ UNCHANGED <<netNow, connHistory, pins, pinRow, vouched, met>>
  BY DEF Dial, Resolve, ResolveFails, SaveNames, ListAddrs, AttemptFails, AttemptWins, DelayOver, AllFail, clocks,
         pinStore, Untouched
<1>2. Remembered' BY <1>1, RememberedStays DEF NetInv
<1>3. Dialled /\ DialTypes BY DEF NetInv, Dialled
<1>4. /\ AttemptsOk(d, dialKind[d], tries[d], toTry[d], met, vouched)
      /\ CountedOk(dialAt[d], tries[d], toTry[d], delayed[d]) /\ delayed[d] \in Nat
      /\ tries[d] \in Seq(TrySet) /\ toTry[d] \in Seq(Spots) /\ answer[d] \in Seq(HostAddrs)
  BY <1>3 DEF Dialled, Attempts, Counted, CountedOk, AttemptsOk, DialTypes
<1>5. <<>> \in Seq(Spots) /\ <<>> \in Seq(HostAddrs) /\ Len(<<>>) = 0 OBVIOUS
<1>6. \A n \in Nat, at \in {"resolving", "answered", "named", "connected", "failed"} :
        /\ CountedOk(at, <<>>, <<>>, n)
        /\ at # "failed" => \A l : CountedOk(at, <<>>, l, n)
  BY <1>5, NoneRunning DEF CountedOk
<1>7. ASSUME NEW k \in DialKinds, Dial(d, k) PROVE Dialled'
  <2>1. CASE k.proxied
    <3>1. /\ dialKind' = [dialKind EXCEPT ![d] = k] /\ winner' = [winner EXCEPT ![d] = NoPin]
          /\ delayed' = [delayed EXCEPT ![d] = 0] /\ dialAt' = [dialAt EXCEPT ![d] = "trying"]
          /\ toTry' = [toTry EXCEPT ![d] = <<Host>>] /\ tries' = [tries EXCEPT ![d] = <<Begun>>]
          /\ answer' = [answer EXCEPT ![d] = <<>>] /\ memory' = memory
      BY <1>7, <2>1 DEF Dial, Begun
    <3>2. DialTypes' BY <1>3, <1>5, <3>1 DEF DialTypes
    <3>3. <<Host>> \in Seq(Spots) /\ <<Host>> # <<>> BY DEF Spots
    <3>4. AttemptsOk(d, k, <<Begun>>, <<Host>>, met, vouched) /\ CountedOk("trying", <<Begun>>, <<Host>>, 0)
      <4>1. /\ AttemptsOk(d, k, <<Begun>>, <<Host>>, met, vouched)
            /\ RunningOf(<<Begun>>) # {} /\ Cardinality(RunningOf(<<Begun>>)) = 1 /\ IsFiniteSet(RunningOf(<<Begun>>))
        BY <3>3, OneAttempt
      <4> QED BY <4>1 DEF CountedOk
    <3>5. /\ dialKind'[d] = k /\ dialAt'[d] = "trying" /\ toTry'[d] = <<Host>> /\ tries'[d] = <<Begun>>
          /\ delayed'[d] = 0
          /\ \A e \in Dials \ {d} :
               /\ dialAt'[e] = dialAt[e] /\ dialKind'[e] = dialKind[e] /\ answer'[e] = answer[e]
               /\ toTry'[e] = toTry[e] /\ tries'[e] = tries[e] /\ delayed'[e] = delayed[e] /\ winner'[e] = winner[e]
      BY <1>3, <3>1 DEF DialTypes
    <3> QED BY <1>1, <1>3, <2>1, <3>2, <3>4, <3>5, DialStep
  <2>2. CASE ~k.proxied
    <3> DEFINE at == IF memory = <<>> THEN "resolving" ELSE "answered"
               ans == IF memory = <<>> THEN <<>> ELSE memory[1]
    <3>1. /\ dialKind' = [dialKind EXCEPT ![d] = k] /\ winner' = [winner EXCEPT ![d] = NoPin]
          /\ delayed' = [delayed EXCEPT ![d] = 0] /\ dialAt' = [dialAt EXCEPT ![d] = at]
          /\ toTry' = [toTry EXCEPT ![d] = <<>>] /\ tries' = [tries EXCEPT ![d] = <<>>]
          /\ answer' = [answer EXCEPT ![d] = ans] /\ memory' = memory
      BY <1>7, <2>2 DEF Dial
    <3>2. ans \in Seq(HostAddrs) BY <1>3, <1>5 DEF DialTypes
    <3>3. at \in {"resolving", "answered"} OBVIOUS
    <3> HIDE DEF at, ans
    <3>4. DialTypes' BY <1>3, <3>1, <3>2 DEF DialTypes
    <3>5. AttemptsOk(d, k, <<>>, <<>>, met, vouched) /\ CountedOk(at, <<>>, <<>>, 0)
      BY <1>5, <1>6, <3>3, NoAttempts
    <3>6. /\ dialKind'[d] = k /\ dialAt'[d] = at /\ toTry'[d] = <<>> /\ tries'[d] = <<>> /\ delayed'[d] = 0
          /\ \A e \in Dials \ {d} :
               /\ dialAt'[e] = dialAt[e] /\ dialKind'[e] = dialKind[e] /\ answer'[e] = answer[e]
               /\ toTry'[e] = toTry[e] /\ tries'[e] = tries[e] /\ delayed'[e] = delayed[e] /\ winner'[e] = winner[e]
      BY <1>3, <3>1 DEF DialTypes
    <3> QED BY <1>1, <1>3, <3>3, <3>4, <3>5, <3>6, DialStep
  <2> QED BY <2>1, <2>2
<1>8. ASSUME NEW s \in Answers, Resolve(d, s) PROVE Dialled'
  <2>1. /\ dialAt[d] = "resolving" /\ memory' = <<s>> /\ answer' = [answer EXCEPT ![d] = s]
        /\ dialAt' = [dialAt EXCEPT ![d] = "answered"] /\ UNCHANGED <<dialKind, toTry, tries, delayed, winner>>
    BY <1>8 DEF Resolve
  <2>2. s \in Seq(HostAddrs) BY CertificateKeys
  <2>3. DialTypes' BY <1>3, <2>1, <2>2 DEF DialTypes
  <2>4. /\ dialAt'[d] = "answered"
        /\ \A e \in Dials \ {d} : dialAt'[e] = dialAt[e] /\ answer'[e] = answer[e]
    BY <1>3, <2>1 DEF DialTypes
  <2>5. CountedOk("answered", tries[d], toTry[d], delayed[d]) BY <1>4, <2>1 DEF CountedOk
  <2> QED BY <1>1, <1>3, <1>4, <2>1, <2>3, <2>4, <2>5, DialStep
<1>9. ASSUME ResolveFails(d) \/ SaveNames(d) PROVE Dialled'
  <2>1. /\ dialAt[d] \in {"resolving", "answered"} /\ dialAt' = [dialAt EXCEPT ![d] = "named"]
        /\ UNCHANGED <<memory, answer, dialKind, toTry, tries, delayed, winner>>
    BY <1>9 DEF ResolveFails, SaveNames, resolver
  <2>2. DialTypes' BY <1>3, <2>1 DEF DialTypes
  <2>3. dialAt'[d] = "named" /\ \A e \in Dials \ {d} : dialAt'[e] = dialAt[e] BY <1>3, <2>1 DEF DialTypes
  <2>4. CountedOk("named", tries[d], toTry[d], delayed[d]) BY <1>4, <2>1 DEF CountedOk
  <2> QED BY <1>1, <1>3, <1>4, <2>1, <2>2, <2>3, <2>4, DialStep
<1>10. ASSUME ListAddrs(d) PROVE Dialled'
  <2>0. PICK l \in ServerLists(d) :
          /\ toTry' = [toTry EXCEPT ![d] = l]
          /\ tries' = [tries EXCEPT ![d] = IF l = <<>> THEN <<>> ELSE <<Begun>>]
          /\ dialAt' = [dialAt EXCEPT ![d] = IF l = <<>> THEN "failed" ELSE "trying"]
    BY <1>10 DEF ListAddrs, Begun
  <2>1. UNCHANGED <<memory, answer, dialKind, delayed, winner>> BY <1>10 DEF ListAddrs, resolver
  <2>2. l \in Seq(HostAddrs) /\ (dialKind[d].security # "strict" => ToSet(l) \subseteq ToSet(answer[d]))
    BY <1>4, ListsRight
  <2>3. l \in Seq(Spots) BY <2>2 DEF Spots
  <2>4. DialTypes' BY <1>3, <2>0, <2>1 DEF DialTypes
  <2>5. /\ toTry'[d] = l /\ tries'[d] = (IF l = <<>> THEN <<>> ELSE <<Begun>>)
        /\ dialAt'[d] = (IF l = <<>> THEN "failed" ELSE "trying")
        /\ \A e \in Dials \ {d} : dialAt'[e] = dialAt[e] /\ toTry'[e] = toTry[e] /\ tries'[e] = tries[e]
    BY <1>3, <2>0 DEF DialTypes
  <2>6. AttemptsOk(d, dialKind[d], tries'[d], l, met, vouched) /\ CountedOk(dialAt'[d], tries'[d], l, delayed[d])
    <3>1. CASE l = <<>>
      <4>1. AttemptsOk(d, dialKind[d], <<>>, l, met, vouched) BY <2>3, NoAttempts
      <4> QED BY <1>4, <1>6, <2>5, <3>1, <4>1
    <3>2. CASE l # <<>>
      <4>1. /\ AttemptsOk(d, dialKind[d], <<Begun>>, l, met, vouched)
            /\ RunningOf(<<Begun>>) # {} /\ Cardinality(RunningOf(<<Begun>>)) = 1 /\ IsFiniteSet(RunningOf(<<Begun>>))
        BY <2>3, <3>2, OneAttempt
      <4>2. CountedOk("trying", <<Begun>>, l, delayed[d]) BY <1>4, <4>1 DEF CountedOk
      <4> QED BY <2>5, <3>2, <4>1, <4>2
    <3> QED BY <3>1, <3>2
  <2>7. dialAt'[d] # "connected" BY <2>5
  <2> QED BY <1>1, <1>3, <2>1, <2>2, <2>4, <2>5, <2>6, <2>7, DialStep
<1>11. ASSUME NEW i \in DOMAIN tries[d], AttemptFails(d, i) PROVE Dialled'
  <2> DEFINE us == WithNext([tries[d] EXCEPT ![i] = [at |-> "failed", spki |-> NoPin]], toTry[d])
  <2>1. /\ dialAt[d] = "trying" /\ i \in RunningOf(tries[d])
        /\ tries' = [tries EXCEPT ![d] = us]
        /\ UNCHANGED <<memory, dialAt, dialKind, answer, toTry, delayed, winner>>
    BY <1>3, <1>11 DEF AttemptFails, Running, RunningOf, Untouched, resolver, DialTypes
  <2>2. AttemptsOk(d, dialKind[d], us, toTry[d], met, vouched) /\ CountedOk("trying", us, toTry[d], delayed[d])
    BY <1>4, <2>1, FailsCounted
  <2> HIDE DEF us
  <2>3. DialTypes' BY <1>3, <2>1 DEF DialTypes
  <2>4. tries'[d] = us /\ \A e \in Dials \ {d} : tries'[e] = tries[e] BY <1>3, <2>1 DEF DialTypes
  <2> QED BY <1>1, <1>3, <2>1, <2>2, <2>3, <2>4, DialStep DEF Dialled, PlainFresh
<1>12. ASSUME NEW i \in DOMAIN tries[d], AttemptWins(d, i) PROVE Dialled'
  <2>1. /\ dialAt[d] = "trying" /\ tries[d][i].at = "up" /\ winner' = [winner EXCEPT ![d] = tries[d][i].spki]
        /\ dialAt' = [dialAt EXCEPT ![d] = "connected"] /\ tries' = [tries EXCEPT ![d] = <<>>]
        /\ UNCHANGED <<memory, dialKind, answer, toTry, delayed>>
    BY <1>12 DEF AttemptWins, Stage, resolver
  <2>2. AttemptOk(d, dialKind[d], tries[d][i], toTry[d][i], met, vouched) BY AtStage
  <2>3. dialKind[d].security = "strict" /\ ~SelfSigned => tries[d][i].spki \in vouched
    BY <2>1, <2>2 DEF AttemptOk, Reached
  <2>4. DialTypes' BY <1>3, <2>1 DEF DialTypes
  <2>5. /\ tries'[d] = <<>> /\ dialAt'[d] = "connected" /\ winner'[d] = tries[d][i].spki
        /\ \A e \in Dials \ {d} : tries'[e] = tries[e] /\ dialAt'[e] = dialAt[e] /\ winner'[e] = winner[e]
    BY <1>3, <2>1 DEF DialTypes
  <2>6. AttemptsOk(d, dialKind[d], <<>>, toTry[d], met, vouched) /\ CountedOk("connected", <<>>, toTry[d], delayed[d])
    BY <1>4, <1>6, NoAttempts
  <2> QED BY <1>1, <1>3, <2>1, <2>3, <2>4, <2>5, <2>6, DialStep
<1>13. ASSUME DelayOver(d) PROVE Dialled'
  <2> DEFINE us == WithNext(tries[d], toTry[d])
             n == delayed[d] + 1
  <2>1. /\ dialAt[d] = "trying" /\ RunningOf(tries[d]) # {}
        /\ delayed' = [delayed EXCEPT ![d] = n] /\ tries' = [tries EXCEPT ![d] = us]
        /\ UNCHANGED <<memory, dialAt, dialKind, answer, toTry, winner>>
    BY <1>3, <1>13 DEF DelayOver, Running, RunningOf, resolver, DialTypes
  <2>2. AttemptsOk(d, dialKind[d], us, toTry[d], met, vouched) /\ CountedOk("trying", us, toTry[d], n)
    BY <1>4, <2>1, DelayCounted
  <2> HIDE DEF us, n
  <2>3. DialTypes' BY <1>3, <2>1 DEF DialTypes
  <2>4. /\ tries'[d] = us /\ delayed'[d] = n
        /\ \A e \in Dials \ {d} : tries'[e] = tries[e] /\ delayed'[e] = delayed[e]
    BY <1>3, <2>1 DEF DialTypes
  <2> QED BY <1>1, <1>3, <2>1, <2>2, <2>3, <2>4, DialStep DEF Dialled, PlainFresh
<1>14. ASSUME AllFail(d) PROVE Dialled'
  <2>1. /\ dialAt[d] = "trying" /\ RunningOf(tries[d]) = {} /\ dialAt' = [dialAt EXCEPT ![d] = "failed"]
        /\ UNCHANGED <<memory, dialKind, answer, toTry, tries, delayed, winner>>
    BY <1>14 DEF AllFail, Running, RunningOf, resolver
  <2>2. DialTypes' BY <1>3, <2>1 DEF DialTypes
  <2>3. dialAt'[d] = "failed" /\ \A e \in Dials \ {d} : dialAt'[e] = dialAt[e] BY <1>3, <2>1 DEF DialTypes
  <2>4. CountedOk("failed", tries[d], toTry[d], delayed[d]) BY <1>4, <2>1 DEF CountedOk
  <2> QED BY <1>1, <1>3, <1>4, <2>1, <2>2, <2>3, <2>4, DialStep
<1>15. Dialled' BY <1>7, <1>8, <1>9, <1>10, <1>11, <1>12, <1>13, <1>14
<1> QED BY <1>2, <1>15 DEF NetInv

\* Every step keeps the invariant of the connections.
LEMMA NetStays == NetInv /\ [NetNext]_netVars => NetInv'
<1> SUFFICES ASSUME NetInv, [NetNext]_netVars PROVE NetInv' OBVIOUS
<1>0. Dialled /\ DialTypes /\ Remembered /\ StoreTypes /\ Kept /\ HistoryEarned BY DEF NetInv, Dialled, Remembered
<1>m. memory = <<>> \/ \E s \in Seq(HostAddrs) : memory = <<s>> BY <1>0 DEF DialTypes
<1>1. ASSUME NEW d \in Dials, NEW i \in DOMAIN tries[d],
             \/ ConnectTcp(d, i) \/ Tunnel(d, i) \/ Greeted(d, i)
             \/ ReachPlain(d, i) \/ ReachRelaxed(d, i) \/ GetSpkiHash(d, i) \/ InsertSpkiHash(d, i)
             \/ \E c \in Certificates : Handshake(d, i, c)
             \/ SaveSpki(d, i) \/ UpdateConnectTimestamp(d, i) \/ UpdateConnectionHistory(d, i)
      PROVE  NetInv'
  BY <1>1, QuietAttempt, NotedAttempt
<1>2. CASE Relook
  <2>1. UNCHANGED <<netNow, connHistory, pins, pinRow, vouched, met, dialing>> BY <1>2 DEF Relook, clocks, pinStore
  <2>2. memory' = <<>> \/ \E s \in Seq(HostAddrs) : memory' = <<s>> BY <1>2, <1>m, CertificateKeys DEF Relook
  <2> QED BY <1>0, <2>1, <2>2, DialledMono, RememberedStays DEF NetInv
<1>3. CASE PruneDnsCache
  <2>1. UNCHANGED <<memory, netNow, connHistory, pins, pinRow, vouched, met, dialing>>
    BY <1>3 DEF PruneDnsCache, resolver, pinStore
  <2> QED BY <1>0, <1>m, <2>1, DialledMono, RememberedStays DEF NetInv
<1>4. CASE PruneConnectionHistory
  <2>1. /\ UNCHANGED <<memory, netNow, pins, pinRow, vouched, met, dialing>>
        /\ connHistory' = [d \in Dials |->
                             [a \in Spots |-> IF Expired(connHistory[d][a]) THEN 0 ELSE connHistory[d][a]]]
    BY <1>4 DEF PruneConnectionHistory, resolver, pinStore
  <2>2. Dialled' BY <1>0, <1>m, <2>1, DialledMono
  <2>3. StoreTypes' BY <1>0, <2>1 DEF StoreTypes
  <2>4. Kept' BY <1>0, <2>1 DEF Kept
  <2>5. HistoryEarned' BY <1>0, <2>1 DEF HistoryEarned
  <2> QED BY <2>2, <2>3, <2>4, <2>5 DEF NetInv, Remembered
<1>5. CASE CleanupRows
  <2>1. /\ UNCHANGED <<memory, netNow, connHistory, pins, vouched, met, dialing>> /\ pinRow.at > 0
        /\ \/ pinRow' = [spki |-> NoPin, at |-> 0]
           \/ pinRow' = [pinRow EXCEPT !.at = netNow]
           \/ pinRow' = pinRow
    BY <1>5 DEF CleanupRows, resolver
  <2>2. Dialled' BY <1>0, <1>m, <2>1, DialledMono
  <2>3. pinRow' \in [spki : Keys, at : Nat] /\ (pinRow'.at > 0 => pinRow'.spki = pinRow.spki)
    BY <1>0, <2>1 DEF StoreTypes, Keys
  <2>4. StoreTypes' BY <1>0, <2>1, <2>3 DEF StoreTypes
  <2>5. Kept' BY <1>0, <2>1, <2>3 DEF Kept
  <2>6. HistoryEarned' BY <1>0, <2>1 DEF HistoryEarned
  <2> QED BY <2>2, <2>4, <2>5, <2>6 DEF NetInv, Remembered
<1>6. CASE CleanupMemory
  <2>1. UNCHANGED <<memory, netNow, connHistory, pinRow, vouched, met, dialing>> /\ pins' = NoPin
    BY <1>6 DEF CleanupMemory, resolver, clocks
  <2>2. Dialled' BY <1>0, <1>m, <2>1, DialledMono
  <2>3. StoreTypes' BY <1>0, <2>1 DEF StoreTypes, Keys
  <2>4. Kept' BY <1>0, <2>1 DEF Kept
  <2>5. HistoryEarned' BY <1>0, <2>1 DEF HistoryEarned
  <2> QED BY <2>2, <2>3, <2>4, <2>5 DEF NetInv, Remembered
<1>7. CASE ClockMoves
  <2>1. UNCHANGED <<memory, connHistory, pins, pinRow, vouched, met, dialing>> /\ netNow' \in Nat
    BY <1>7, CertificateKeys DEF ClockMoves, resolver, pinStore
  <2>2. Dialled' BY <1>0, <1>m, <2>1, DialledMono
  <2>3. StoreTypes' BY <1>0, <2>1 DEF StoreTypes
  <2>4. Kept' BY <1>0, <2>1 DEF Kept
  <2>5. HistoryEarned' BY <1>0, <2>1 DEF HistoryEarned
  <2> QED BY <2>2, <2>3, <2>4, <2>5 DEF NetInv, Remembered
<1>8. CASE NetDies
  <2>1. /\ memory' = <<>> /\ pins' = NoPin /\ dialAt' = [d \in Dials |-> "idle"]
        /\ answer' = [d \in Dials |-> <<>>] /\ toTry' = [d \in Dials |-> <<>>] /\ tries' = [d \in Dials |-> <<>>]
        /\ delayed' = [d \in Dials |-> 0] /\ winner' = [d \in Dials |-> NoPin]
        /\ UNCHANGED <<netNow, connHistory, pinRow, dialKind, vouched, met>>
    BY <1>8 DEF NetDies
  <2>2. <<>> \in Seq(Spots) /\ <<>> \in Seq(HostAddrs) /\ Len(<<>>) = 0 OBVIOUS
  <2>3. DialTypes' BY <1>0, <2>1, <2>2 DEF DialTypes
  <2>4. Attempts'
    <3> SUFFICES ASSUME NEW d \in Dials PROVE AttemptsOk(d, dialKind[d], <<>>, <<>>, met, vouched)
      BY <2>1 DEF Attempts
    <3> QED BY <2>2, NoAttempts
  <2>5. Counted'
    <3> SUFFICES ASSUME NEW d \in Dials PROVE CountedOk("idle", <<>>, <<>>, 0) BY <2>1 DEF Counted
    <3> QED BY <2>2, NoneRunning DEF CountedOk
  <2>6. Won' /\ PlainFresh' BY <2>1 DEF Won, PlainFresh
  <2>7. StoreTypes' BY <1>0, <2>1 DEF StoreTypes, Keys
  <2>8. Kept' BY <1>0, <2>1 DEF Kept
  <2>9. HistoryEarned' BY <1>0, <2>1 DEF HistoryEarned
  <2> QED BY <2>3, <2>4, <2>5, <2>6, <2>7, <2>8, <2>9 DEF NetInv, Dialled, Remembered
<1>9. CASE UNCHANGED netVars
  <2>1. UNCHANGED <<memory, netNow, connHistory, pins, pinRow, vouched, met, dialing>>
    BY <1>9 DEF netVars, dialing
  <2> QED BY <1>0, <1>m, <2>1, DialledMono, RememberedStays DEF NetInv
<1>10. ASSUME NEW d \in Dials,
              \/ \E k \in DialKinds : Dial(d, k)
              \/ \E s \in Answers : Resolve(d, s)
              \/ ResolveFails(d) \/ SaveNames(d) \/ ListAddrs(d)
              \/ \E i \in DOMAIN tries[d] : AttemptFails(d, i) \/ AttemptWins(d, i)
              \/ DelayOver(d) \/ AllFail(d)
       PROVE  NetInv'
  BY <1>10, DialMoves
<1> QED BY <1>1, <1>2, <1>3, <1>4, <1>5, <1>6, <1>7, <1>8, <1>9, <1>10 DEF NetNext

\* It says what NetworkSafe says of connections.
LEMMA NetRight == NetInv => PinsVouched /\ HistoryEarned /\ AllTried /\ FewAtOnce /\ PlainFresh
<1> SUFFICES ASSUME NetInv PROVE PinsVouched /\ HistoryEarned /\ AllTried /\ FewAtOnce /\ PlainFresh OBVIOUS
<1>0. Attempts /\ Counted /\ Won /\ PlainFresh /\ Kept /\ HistoryEarned BY DEF NetInv, Dialled, Remembered
<1>1. PinsVouched
  <2>1. ASSUME ~SelfSigned, NEW d \in Dials, NEW i \in DOMAIN tries[d], tries[d][i].spki # NoPin
        PROVE  tries[d][i].spki \in vouched
    BY <2>1, AtStage DEF AttemptOk
  <2> QED BY <1>0, <2>1 DEF PinsVouched, Kept, Won
<1>2. AllTried BY <1>0 DEF AllTried, Counted, CountedOk, Running, RunningOf
<1>3. FewAtOnce BY <1>0 DEF FewAtOnce, Counted, CountedOk, Running, RunningOf
<1> QED BY <1>0, <1>1, <1>2, <1>3

-----------------------------------------------------------------------------
(* Pages. *)

\* URLs or none, pages, rows of http_cache, and calls of read_url_blob
MaybeUrl == Urls \cup {"none"}
PageSet == [from : MaybeUrl, sure : BOOLEAN, at : Nat]
EntrySet == [page : PageSet, expires : Nat, stale : Nat]
ReadSet == [at : {"idle", "hit", "get", "put"}, asked : MaybeUrl, url : MaybeUrl, strict : BOOLEAN, hops : Nat,
            since : Nat, entry : EntrySet]

\* A page of u that may be in the cache, and whether a time until which it is current is right.
PageOf(page, u) == page.from = u /\ (u \in Https => page.sure)
RightlyCurrent(e, begun) == e.stale <= e.page.at + WebStale \/ e.stale <= begun + Grace

\* A row for u
RowOk(u, e, fresh, now) ==
    /\ e \in EntrySet
    /\ e.expires > 0 => PageOf(e.page, u)
    /\ e.page.at <= now
    /\ RightlyCurrent(e, fresh[u])

\* What a reader took from the cache is no newer than what is there now.
ReadOk(x, cache, fresh, now) ==
    /\ x \in ReadSet
    /\ x.since <= now
    /\ x.at # "idle" => x.asked \in Urls /\ x.url \in Urls
    /\ x.at = "hit" =>
         /\ PageOf(x.entry.page, x.asked)
         /\ x.entry.page.at <= now
         /\ RightlyCurrent(x.entry, fresh[x.asked])
         /\ cache[x.asked].expires = 0 \/ x.entry.page.at <= cache[x.asked].page.at
    /\ x.at = "put" => PageOf(x.entry.page, x.url)

\* The invariant of the pages
WebInv ==
    /\ webNow \in Nat \ {0} /\ DOMAIN webCache = Urls /\ DOMAIN reading = Readers /\ refreshed \in [Urls -> Nat]
    /\ \A u \in Urls : RowOk(u, webCache[u], refreshed, webNow)
    /\ \A r \in Readers : ReadOk(reading[r], webCache, refreshed, webNow)
    /\ \A x \in served : PageOf(x.page, x.asked)

\* What is assumed of times and URLs
LEMMA WebBounds == {WebExpires, WebStale, Grace, MaxHops} \subseteq Nat /\ Https \subseteq Urls /\ "none" \notin Urls
  BY NetworkAssumption

\* A row stays right when time passes or a refresh is begun.
LEMMA RowMono ==
    ASSUME NEW u \in Urls, NEW e, NEW f \in [Urls -> Nat], NEW g \in [Urls -> Nat], NEW n \in Nat, NEW m \in Nat,
           RowOk(u, e, f, n), f[u] <= g[u], n <= m
    PROVE  RowOk(u, e, g, m)
<1> USE WebBounds DEF EntrySet, PageSet
<1>1. e.page.at \in Nat /\ e.stale \in Nat /\ f[u] \in Nat /\ g[u] \in Nat BY DEF RowOk
<1> QED BY <1>1 DEF RowOk, RightlyCurrent

\* The cache goes from c to d: rows go, stay, or are put there at the time m or later.
LEMMA ReadMono ==
    ASSUME NEW x, NEW c, NEW d, NEW f \in [Urls -> Nat], NEW g \in [Urls -> Nat], NEW n \in Nat, NEW m \in Nat,
           ReadOk(x, c, f, n), n <= m,
           \A u \in Urls : /\ f[u] <= g[u]
                           /\ c[u].page.at \in Nat /\ d[u].page.at \in Nat
                           /\ \/ d[u].expires = 0
                              \/ c[u].expires # 0 /\ d[u].page.at = c[u].page.at
                              \/ n <= d[u].page.at
    PROVE  ReadOk(x, d, g, m)
<1> USE WebBounds DEF EntrySet, PageSet, ReadSet
<1>1. x.since \in Nat /\ x.entry.page.at \in Nat /\ x.entry.stale \in Nat BY DEF ReadOk
<1>2. CASE x.at = "hit"
  <2>1. x.asked \in Urls BY <1>2 DEF ReadOk
  <2>2. f[x.asked] \in Nat /\ g[x.asked] \in Nat /\ f[x.asked] <= g[x.asked] BY <2>1
  <2>3. RightlyCurrent(x.entry, g[x.asked]) BY <1>1, <1>2, <2>2 DEF ReadOk, RightlyCurrent
  <2>4. d[x.asked].expires = 0 \/ x.entry.page.at <= d[x.asked].page.at BY <1>1, <1>2, <2>1 DEF ReadOk
  <2> QED BY <1>1, <1>2, <2>3, <2>4 DEF ReadOk
<1>3. CASE x.at # "hit" BY <1>1, <1>3 DEF ReadOk
<1> QED BY <1>2, <1>3

\* A call that is not under way is right.
LEMMA NoReadOk ==
    ASSUME NEW c, NEW f, NEW n \in Nat
    PROVE  ReadOk(NoRead, c, f, n)
  BY DEF ReadOk, NoRead, ReadSet, EntrySet, PageSet, NoEntry, NoPage, MaybeUrl

\* ... and so is one that has ended, whatever it had read.
LEMMA IdleOk ==
    ASSUME NEW c, NEW f, NEW n \in Nat
    PROVE  ReadOk([NoRead EXCEPT !.at = "idle"], c, f, n)
<1> DEFINE y == [NoRead EXCEPT !.at = "idle"]
<1>1. NoRead \in ReadSet /\ NoRead.since = 0
  BY DEF NoRead, ReadSet, EntrySet, PageSet, NoEntry, NoPage, MaybeUrl
<1>2. y \in ReadSet /\ y.at = "idle" /\ y.since = 0 BY <1>1 DEF ReadSet
<1> HIDE DEF y
<1>3. ReadOk(y, c, f, n) BY <1>2 DEF ReadOk
<1> QED BY <1>3 DEF y

\* No row is right.
LEMMA NoEntryOk ==
    ASSUME NEW u \in Urls, NEW f \in [Urls -> Nat], NEW n \in Nat
    PROVE  RowOk(u, NoEntry, f, n)
  BY WebBounds DEF RowOk, EntrySet, PageSet, NoEntry, NoPage, MaybeUrl, RightlyCurrent

\* The cache is empty at first.
LEMMA WebStart == WebInit => WebInv
  BY NoReadOk, NoEntryOk DEF WebInit, WebInv

\* A step that only one reader takes, and that leaves the cache alone.
LEMMA OneReads ==
    ASSUME WebInv, NEW r \in Readers, NEW x, ReadOk(x, webCache, refreshed, webNow),
           reading' = [reading EXCEPT ![r] = x], UNCHANGED <<webNow, webCache, refreshed, served>>
    PROVE  WebInv'
<1>1. \A o \in Readers : reading'[o] = IF o = r THEN x ELSE reading[o] BY DEF WebInv
<1>2. \A o \in Readers : ReadOk(reading'[o], webCache, refreshed, webNow) BY <1>1 DEF WebInv
<1> QED BY <1>2 DEF WebInv

\* Every step keeps the invariant of the pages.
LEMMA WebStays ==
    ASSUME WebInv, [WebNext]_webVars
    PROVE  WebInv'
<1> USE WebBounds
<1>0. /\ webNow \in Nat /\ webNow > 0 /\ refreshed \in [Urls -> Nat]
      /\ \A u \in Urls : RowOk(u, webCache[u], refreshed, webNow)
      /\ \A r \in Readers : ReadOk(reading[r], webCache, refreshed, webNow)
  BY DEF WebInv
<1>t. \A u \in Urls : webCache[u] \in EntrySet BY <1>0 DEF RowOk
<1>n. NoEntry \in EntrySet BY DEF NoEntry, EntrySet, PageSet, NoPage, MaybeUrl
<1>1. ASSUME NEW r \in Readers, NEW u \in Urls, NEW strict \in BOOLEAN, ReadUrl(r, u, strict) PROVE WebInv'
  <2> DEFINE hit == strict /\ webCache[u].expires > webNow
             entry == IF hit THEN webCache[u] ELSE NoEntry
             base == [NoRead EXCEPT !.asked = u, !.url = u, !.strict = strict, !.since = webNow, !.entry = entry]
             x == [base EXCEPT !.at = IF hit THEN "hit" ELSE "get"]
  <2>1. reading' = [reading EXCEPT ![r] = x] BY <1>1 DEF ReadUrl, Reads
  <2>2. entry \in EntrySet BY <1>t, <1>n
  <2>a. NoRead \in ReadSet BY <1>n DEF NoRead, ReadSet, MaybeUrl
  <2>b. base \in ReadSet /\ base.since = webNow /\ base.asked = u /\ base.url = u /\ base.entry = entry
    <3> HIDE DEF entry
    <3> QED BY <1>0, <2>2, <2>a DEF ReadSet, MaybeUrl
  <2>3. /\ x \in ReadSet
        /\ x.since = webNow /\ x.asked = u /\ x.url = u /\ x.at = IF hit THEN "hit" ELSE "get"
        /\ x.entry = entry
    <3> HIDE DEF base, hit
    <3> QED BY <2>b DEF ReadSet
  <2>4. hit => /\ PageOf(webCache[u].page, u) /\ webCache[u].page.at <= webNow
               /\ RightlyCurrent(webCache[u], refreshed[u]) /\ webCache[u].page.at \in Nat
    <3>1. webCache[u].expires \in Nat /\ webCache[u].page.at \in Nat BY <1>t DEF EntrySet, PageSet
    <3> QED BY <1>0, <3>1 DEF RowOk
  <2>5. ReadOk(x, webCache, refreshed, webNow)
    <3> HIDE DEF hit
    <3> HIDE DEF x
    <3> QED BY <1>0, <2>3, <2>4 DEF ReadOk
  <2> HIDE DEF x
  <2> QED BY <1>1, <2>1, <2>5, OneReads DEF ReadUrl
<1>2. ASSUME NEW r \in Readers, BlobGone(r) PROVE WebInv'
  <2> DEFINE o == reading[r]
             x == [[o EXCEPT !.entry = NoEntry] EXCEPT !.at = "get"]
  <2>1. reading' = [reading EXCEPT ![r] = x] BY <1>2 DEF BlobGone, Reads
  <2>2. ReadOk(o, webCache, refreshed, webNow) /\ o.at = "hit" BY <1>0, <1>2 DEF BlobGone
  <2> HIDE DEF o
  <2>3. x \in ReadSet /\ x.at = "get" /\ x.asked = o.asked /\ x.url = o.url /\ x.since = o.since
    BY <2>2, <1>n DEF ReadOk, ReadSet
  <2> HIDE DEF x
  <2>4. ReadOk(x, webCache, refreshed, webNow) BY <2>2, <2>3 DEF ReadOk
  <2> QED BY <1>2, <2>1, <2>4, OneReads DEF BlobGone
<1>3. ASSUME NEW r \in Readers, ServeCached(r) PROVE WebInv'
  <2> DEFINE o == reading[r]
             u == o.asked
             old == o.since > o.entry.stale
             until == IF old THEN o.since + Grace ELSE o.entry.stale
             row == [webCache[u] EXCEPT !.expires = webNow + WebExpires, !.stale = until]
             y == [NoRead EXCEPT !.at = "idle"]
             z == [o EXCEPT !.at = "get"]
  <2>1. /\ o.at = "hit" /\ UNCHANGED webNow
        /\ webCache' = IF webCache[u].expires = 0 THEN webCache ELSE [webCache EXCEPT ![u] = row]
        /\ refreshed' = IF old /\ o.since > refreshed[u] THEN [refreshed EXCEPT ![u] = o.since] ELSE refreshed
        /\ reading' = IF old THEN [reading EXCEPT ![r] = z] ELSE [reading EXCEPT ![r] = y]
        /\ served' = served \cup {[asked |-> u, page |-> o.entry.page]}
    BY <1>3 DEF ServeCached, Reads
  <2>2. ReadOk(o, webCache, refreshed, webNow) BY <1>0
  <2> HIDE DEF o
  <2>3. /\ u \in Urls /\ o.url \in Urls /\ PageOf(o.entry.page, u) /\ o.entry.page.at <= webNow
        /\ o.since <= webNow /\ RightlyCurrent(o.entry, refreshed[u])
        /\ webCache[u].expires = 0 \/ o.entry.page.at <= webCache[u].page.at
    BY <2>1, <2>2 DEF ReadOk
  <2>4. /\ o \in ReadSet /\ o.since \in Nat /\ o.entry.stale \in Nat /\ o.entry.page.at \in Nat
    BY <2>2 DEF ReadOk, ReadSet, EntrySet, PageSet
  <2>5. /\ webCache[u] \in EntrySet /\ webCache[u].page.at \in Nat /\ webCache[u].expires \in Nat
        /\ webCache[u].page.at <= webNow /\ (webCache[u].expires > 0 => PageOf(webCache[u].page, u))
    BY <1>0, <1>t, <2>3 DEF RowOk, EntrySet, PageSet
  <2>6. until \in Nat BY <2>4
  <2>7. /\ refreshed' \in [Urls -> Nat] /\ \A v \in Urls : refreshed[v] <= refreshed'[v]
        /\ old => o.since <= refreshed'[u]
    <3> HIDE DEF old, u
    <3>1. CASE old /\ o.since > refreshed[u] BY <1>0, <2>1, <2>3, <2>4, <3>1
    <3>2. CASE ~(old /\ o.since > refreshed[u]) BY <1>0, <2>1, <2>3, <2>4, <3>2
    <3> QED BY <3>1, <3>2
  <2>8. /\ row \in EntrySet /\ row.page = webCache[u].page /\ row.expires = webNow + WebExpires /\ row.stale = until
    <3> DEFINE w == webCache[u]
               ex == webNow + WebExpires
    <3>1. row = [w EXCEPT !.expires = ex, !.stale = until] OBVIOUS
    <3>2. ex \in Nat BY WebBounds, <1>0
    <3>3. w \in EntrySet BY <2>5
    <3> HIDE DEF w, ex, until, row, u
    <3>4. w = [page |-> w.page, expires |-> w.expires, stale |-> w.stale] /\ w.page \in PageSet BY <3>3 DEF EntrySet
    <3>5. row = [page |-> w.page, expires |-> ex, stale |-> until] BY <3>1, <3>4
    <3>6. row \in EntrySet /\ row.page = w.page /\ row.expires = ex /\ row.stale = until
      BY <2>6, <3>2, <3>4, <3>5 DEF EntrySet
    <3> QED BY <3>6 DEF w, ex
  <2> HIDE DEF row
  <2>9. webCache[u].expires # 0 => RowOk(u, row, refreshed', webNow)
    <3> SUFFICES ASSUME webCache[u].expires # 0 PROVE RowOk(u, row, refreshed', webNow) OBVIOUS
    <3>1. PageOf(row.page, u) BY <2>5, <2>8
    <3>2. RightlyCurrent(row, refreshed'[u])
      <4>1. CASE old BY <4>1, <2>3, <2>4, <2>5, <2>6, <2>7, <2>8 DEF RightlyCurrent
      <4>2. CASE ~old BY <4>2, <1>0, <2>3, <2>4, <2>5, <2>6, <2>7, <2>8 DEF RightlyCurrent
      <4> QED BY <4>1, <4>2
    <3> QED BY <2>5, <2>8, <3>1, <3>2 DEF RowOk
  <2>10. \A v \in Urls : webCache'[v] = IF v = u /\ webCache[u].expires # 0 THEN row ELSE webCache[v]
    BY <2>1, <2>3 DEF WebInv
  <2>11. \A v \in Urls : RowOk(v, webCache'[v], refreshed', webNow)
    <3> SUFFICES ASSUME NEW v \in Urls PROVE RowOk(v, webCache'[v], refreshed', webNow) OBVIOUS
    <3>1. RowOk(v, webCache[v], refreshed', webNow) BY <1>0, <2>7, RowMono
    <3> QED BY <2>9, <2>10, <3>1
  <2>12. \A v \in Urls : /\ refreshed[v] <= refreshed'[v]
                        /\ webCache[v].page.at \in Nat /\ webCache'[v].page.at \in Nat
                        /\ \/ webCache'[v].expires = 0
                           \/ webCache[v].expires # 0 /\ webCache'[v].page.at = webCache[v].page.at
    BY <1>t, <2>7, <2>8, <2>10 DEF EntrySet, PageSet
  <2>13. \A q \in Readers : ReadOk(reading[q], webCache', refreshed', webNow)
    BY <1>0, <2>7, <2>12, ReadMono
  <2>14. ReadOk(y, webCache', refreshed', webNow) BY <1>0, IdleOk
  <2>15. ReadOk(z, webCache', refreshed', webNow)
    <3>1. z \in ReadSet /\ z.at = "get" /\ z.asked = o.asked /\ z.url = o.url /\ z.since = o.since
      BY <2>4 DEF ReadSet
    <3> HIDE DEF z
    <3> QED BY <2>3, <3>1 DEF ReadOk
  <2> HIDE DEF y, z, old
  <2>16. \A q \in Readers : reading'[q] = reading[q] \/ reading'[q] = y \/ reading'[q] = z
    BY <2>1 DEF WebInv
  <2>17. \A q \in Readers : ReadOk(reading'[q], webCache', refreshed', webNow) BY <2>13, <2>14, <2>15, <2>16
  <2>18. \A x \in served' : PageOf(x.page, x.asked) BY <2>1, <2>3 DEF WebInv
  <2>19. DOMAIN webCache' = Urls /\ DOMAIN reading' = Readers BY <2>1 DEF WebInv
  <2> QED BY <1>0, <2>1, <2>7, <2>11, <2>17, <2>18, <2>19 DEF WebInv
<1>4. ASSUME NEW r \in Readers, NEW u \in Urls, Redirected(r, u) PROVE WebInv'
  <2> DEFINE o == reading[r]
             x == [[o EXCEPT !.url = u, !.hops = @ + 1] EXCEPT !.at = "get"]
             y == [NoRead EXCEPT !.at = "idle"]
  <2>1. reading' = [reading EXCEPT ![r] = x] \/ reading' = [reading EXCEPT ![r] = y] BY <1>4 DEF Redirected, Reads
  <2>2. ReadOk(o, webCache, refreshed, webNow) /\ o.at = "get" BY <1>0, <1>4 DEF Redirected
  <2> HIDE DEF o
  <2>a. o \in ReadSet /\ o.hops + 1 \in Nat /\ u \in MaybeUrl BY <2>2 DEF ReadOk, ReadSet, MaybeUrl
  <2>3. x \in ReadSet /\ x.at = "get" /\ x.asked = o.asked /\ x.url = u /\ x.since = o.since
    BY <2>a DEF ReadSet
  <2> HIDE DEF x, y
  <2>5. ReadOk(x, webCache, refreshed, webNow) BY <2>2, <2>3 DEF ReadOk
  <2>6. ReadOk(y, webCache, refreshed, webNow) BY <1>0, IdleOk DEF y
  <2> QED BY <1>4, <2>1, <2>5, <2>6, OneReads DEF Redirected
<1>5. ASSUME NEW r \in Readers, FetchFails(r) PROVE WebInv'
  <2> DEFINE y == [NoRead EXCEPT !.at = "idle"]
  <2>1. reading' = [reading EXCEPT ![r] = y] BY <1>5 DEF FetchFails, Reads
  <2> HIDE DEF y
  <2>3. ReadOk(y, webCache, refreshed, webNow) BY <1>0, IdleOk DEF y
  <2> QED BY <1>5, <2>1, <2>3, OneReads DEF FetchFails
<1>6. ASSUME NEW r \in Readers, FetchPage(r) PROVE WebInv'
  <2> DEFINE o == reading[r]
             page == [from |-> o.url, sure |-> o.strict /\ o.url \in Https, at |-> 0]
             e == [NoEntry EXCEPT !.page = page]
             x == [[o EXCEPT !.entry = e] EXCEPT !.at = "put"]
             y == [NoRead EXCEPT !.at = "idle"]
  <2>1. (o.strict /\ reading' = [reading EXCEPT ![r] = x]) \/ reading' = [reading EXCEPT ![r] = y]
    BY <1>6 DEF FetchPage, Reads
  <2>2. ReadOk(o, webCache, refreshed, webNow) /\ o.at = "get" BY <1>0, <1>6 DEF FetchPage
  <2> HIDE DEF o
  <2>3. o.url \in Urls /\ o.strict \in BOOLEAN BY <2>2 DEF ReadOk, ReadSet
  <2>4. page \in PageSet BY <2>3 DEF PageSet, MaybeUrl
  <2>5. e \in EntrySet /\ e.page = page BY <2>4, <1>n DEF EntrySet, NoEntry
  <2>6. o.strict => PageOf(page, o.url) BY DEF PageOf
  <2> HIDE DEF page, e
  <2>7. x \in ReadSet /\ x.at = "put" /\ x.asked = o.asked /\ x.url = o.url /\ x.since = o.since /\ x.entry = e
    BY <2>2, <2>5 DEF ReadOk, ReadSet
  <2> HIDE DEF x, y
  <2>9. o.strict => ReadOk(x, webCache, refreshed, webNow) BY <2>2, <2>5, <2>6, <2>7 DEF ReadOk
  <2>10. ReadOk(y, webCache, refreshed, webNow) BY <1>0, IdleOk DEF y
  <2> QED BY <1>6, <2>1, <2>9, <2>10, OneReads DEF FetchPage
<1>7. ASSUME NEW r \in Readers, CachePut(r) PROVE WebInv'
  <2> DEFINE o == reading[r]
             u == o.url
             page == [o.entry.page EXCEPT !.at = webNow]
             row == [page |-> page, expires |-> webNow + WebExpires, stale |-> webNow + WebStale]
             y == [NoRead EXCEPT !.at = "idle"]
  <2>1. /\ o.at = "put" /\ UNCHANGED <<webNow, refreshed, served>>
        /\ webCache' = [webCache EXCEPT ![u] = row] /\ reading' = [reading EXCEPT ![r] = y]
    BY <1>7 DEF CachePut, Reads
  <2>2. ReadOk(o, webCache, refreshed, webNow) BY <1>0
  <2> HIDE DEF o
  <2>3. u \in Urls /\ PageOf(o.entry.page, u) /\ o.entry.page \in PageSet
    BY <2>1, <2>2 DEF ReadOk, ReadSet, EntrySet
  <2>4. page \in PageSet /\ page.at = webNow /\ page.from = o.entry.page.from /\ page.sure = o.entry.page.sure
    BY <1>0, <2>3 DEF PageSet
  <2>5. PageOf(page, u) BY <2>3, <2>4 DEF PageOf
  <2> HIDE DEF page
  <2>6. /\ row \in EntrySet /\ row.page = page /\ row.page.at = webNow /\ row.stale = webNow + WebStale
        /\ row.page.at \in Nat
    BY <1>0, <2>4 DEF EntrySet
  <2> HIDE DEF row
  <2>7. RowOk(u, row, refreshed, webNow) BY <1>0, <2>4, <2>5, <2>6 DEF RowOk, RightlyCurrent
  <2>8. \A v \in Urls : webCache'[v] = IF v = u THEN row ELSE webCache[v] BY <2>1 DEF WebInv
  <2>9. \A v \in Urls : RowOk(v, webCache'[v], refreshed, webNow) BY <1>0, <2>7, <2>8
  <2>10. \A v \in Urls : /\ refreshed[v] <= refreshed[v]
                        /\ webCache[v].page.at \in Nat /\ webCache'[v].page.at \in Nat
                        /\ \/ webCache'[v].expires = 0
                           \/ webCache[v].expires # 0 /\ webCache'[v].page.at = webCache[v].page.at
                           \/ webNow <= webCache'[v].page.at
    BY <1>0, <1>t, <2>6, <2>8 DEF EntrySet, PageSet
  <2>11. \A q \in Readers : ReadOk(reading[q], webCache', refreshed, webNow) BY <1>0, <2>10, ReadMono
  <2>12. ReadOk(y, webCache', refreshed, webNow) BY <1>0, IdleOk
  <2> HIDE DEF y
  <2>13. \A q \in Readers : reading'[q] = reading[q] \/ reading'[q] = y BY <2>1 DEF WebInv
  <2>14. \A q \in Readers : ReadOk(reading'[q], webCache', refreshed, webNow) BY <2>11, <2>12, <2>13
  <2>15. DOMAIN webCache' = Urls /\ DOMAIN reading' = Readers BY <2>1 DEF WebInv
  <2> QED BY <1>0, <2>1, <2>9, <2>14, <2>15 DEF WebInv
<1>8. ASSUME HttpCacheCleanup PROVE WebInv'
  <2>1. \A u \in Urls : webCache'[u] = NoEntry \/ webCache'[u] = webCache[u] BY <1>8 DEF HttpCacheCleanup
  <2>2. NoEntry.expires = 0 /\ NoEntry.page.at = 0 BY DEF NoEntry, NoPage
  <2>3. \A u \in Urls : RowOk(u, webCache'[u], refreshed, webNow) BY <1>0, <2>1, NoEntryOk
  <2>4. \A u \in Urls : webCache[u].page.at \in Nat /\ webCache'[u].page.at \in Nat
    BY <1>t, <2>1, <2>2 DEF EntrySet, PageSet
  <2>5. \A u \in Urls : \/ webCache'[u].expires = 0
                        \/ webCache[u].expires # 0 /\ webCache'[u].page.at = webCache[u].page.at
    BY <2>1, <2>2
  <2>6. \A u \in Urls : refreshed[u] <= refreshed[u] BY <1>0
  <2>7. \A r \in Readers : ReadOk(reading[r], webCache', refreshed, webNow)
    BY <1>0, <2>4, <2>5, <2>6, ReadMono
  <2> QED BY <1>8, <2>3, <2>7 DEF HttpCacheCleanup, WebInv
<1>9. ASSUME WebTick PROVE WebInv'
  <2>1. webNow' \in Nat /\ webNow' > 0 /\ webNow <= webNow' BY <1>0, <1>9 DEF WebTick
  <2>2. \A u \in Urls : refreshed[u] <= refreshed[u] BY <1>0
  <2>3. \A u \in Urls : RowOk(u, webCache[u], refreshed, webNow') BY <1>0, <2>1, <2>2, RowMono
  <2>4. \A u \in Urls : webCache[u].page.at \in Nat /\ webCache[u].expires \in Nat BY <1>t DEF EntrySet, PageSet
  <2>5. \A r \in Readers : ReadOk(reading[r], webCache, refreshed, webNow')
    BY <1>0, <2>1, <2>2, <2>4, ReadMono
  <2> QED BY <1>9, <2>1, <2>3, <2>5 DEF WebTick, WebInv
<1>10. ASSUME WebDies PROVE WebInv'
  BY <1>10, <1>0, NoReadOk DEF WebDies, WebInv
<1>11. ASSUME UNCHANGED webVars PROVE WebInv'
  BY <1>11 DEF webVars, WebInv
<1> QED BY <1>1, <1>2, <1>3, <1>4, <1>5, <1>6, <1>7, <1>8, <1>9, <1>10, <1>11 DEF WebNext

\* It says what NetworkSafe says of pages.
LEMMA WebRight == WebInv => PagesRight /\ PagesCurrent
  BY DEF WebInv, PagesRight, PagesCurrent, RowOk, PageOf, RightlyCurrent

-----------------------------------------------------------------------------
(* The proxy and the login. *)

\* Where a reader of the settings is, and the types of the settings
LoadStates == {"idle", "url", "enable", "clear", "read"}
ProxyType ==
    /\ proxy \in [url : {"none", "socks5", "empty"}, enabled : BOOLEAN, socksEnabled : BOOLEAN, socksHost : BOOLEAN]
    /\ loading \in [Loaders -> LoadStates]
    /\ muddled \in BOOLEAN
    /\ DOMAIN found = Loaders

\* What the settings say, as they were and as they are.
OldSays == IF ~proxy.socksEnabled THEN "direct" ELSE IF proxy.socksHost THEN "proxy" ELSE "error"
NewSays == IF ~proxy.enabled THEN "direct" ELSE IF proxy.url = "socks5" THEN "proxy" ELSE "error"

\* A reader that writes the new settings from the old ones
MovesProxy(l) == loading[l] \in {"url", "enable"}

\* Until the new settings are complete, one loader writes them and the old ones are all there.
ProxyInv ==
    /\ ProxyType
    /\ ~muddled =>
         /\ \A l \in Loaders : found[l] = wanted
         /\ \A l \in Loaders : MovesProxy(l) => wanted = OldSays /\ \A o \in Loaders : o # l => loading[o] = "idle"
         /\ \A l \in Loaders : loading[l] = "url" => proxy.url = "none"
         /\ \A l \in Loaders : loading[l] = "enable" =>
              proxy.url # "none" /\ (proxy.url = "socks5" <=> proxy.socksHost)
         /\ proxy.url = "none" => wanted = OldSays /\ \A l \in Loaders : loading[l] \in {"idle", "url"}
         /\ proxy.url # "none" /\ (\A l \in Loaders : ~MovesProxy(l)) => wanted = NewSays

\* Settings that are new, old or absent say what the user wanted.
LEMMA ProxyStart == ProxyInit => ProxyInv
  BY DEF ProxyInit, ProxyInv, ProxyType, LoadStates, OldSays, NewSays, MovesProxy

\* Every step keeps that, unless one read met another or death.
LEMMA ProxyStays ==
    ASSUME ProxyInv, [ProxyNext]_proxyVars
    PROVE  ProxyInv'
<1> USE DEF ProxyInv, ProxyType, LoadStates, OldSays, NewSays, MovesProxy
<1>1. ASSUME NEW l \in Loaders, LoadProxy(l) PROVE ProxyInv'
  BY <1>1 DEF LoadProxy
<1>2. ASSUME NEW l \in Loaders, WriteProxyUrl(l) PROVE ProxyInv'
  BY <1>2 DEF WriteProxyUrl
<1>3. ASSUME NEW l \in Loaders, WriteProxyEnabled(l) PROVE ProxyInv'
  BY <1>3 DEF WriteProxyEnabled
<1>4. ASSUME NEW l \in Loaders, ClearSocks(l) PROVE ProxyInv'
  BY <1>4 DEF ClearSocks
<1>5. ASSUME NEW l \in Loaders, ReadProxy(l) PROVE ProxyInv'
  BY <1>5 DEF ReadProxy
<1>6. ASSUME LoadDies PROVE ProxyInv'
  BY <1>6 DEF LoadDies
<1>7. ASSUME UNCHANGED proxyVars PROVE ProxyInv'
  BY <1>7 DEF proxyVars
<1> QED BY <1>1, <1>2, <1>3, <1>4, <1>5, <1>6, <1>7 DEF ProxyNext

-----------------------------------------------------------------------------

\* Where a loop is, and the types
LoginStates == {"idle", "trying", "login", "session", "warning", "warned"}
LoginType ==
    /\ DOMAIN setup = {"at", "source", "entered", "servers"}
    /\ notify \in BOOLEAN /\ setups \in Nat /\ warned \in Nat /\ unnoted \in Nat
    /\ loginAt \in [Loops -> LoginStates] /\ untried \in [Loops -> Int]
    /\ backoff \in [Loops -> Nat] /\ once \in [Loops -> BOOLEAN] /\ refusals \in [Loops -> 0..2]

\* A warning that may still be given, and one that was given and is not noted yet.
Due == IF notify THEN 1 ELSE 0
Unsettled == IF \E l \in Loops : loginAt[l] = "warned" THEN 1 ELSE 0

\* The invariant of the logins: who warns holds the mutex and was refused twice, and every
\* warning is paid for by a configuration or a note that failed.
LoginInv ==
    /\ LoginType
    /\ BackoffBounded /\ EnteredKept
    /\ \A l \in Loops : once[l] => refusals[l] >= 1
    /\ \A l \in Loops : loginAt[l] \in {"warning", "warned"} => notify /\ refusals[l] >= 2 /\ warnLock = {l}
    /\ warned + Due <= setups + unnoted + Unsettled

\* load_legacy reads back what save_legacy was given.
LEMMA LegacyKept ==
    ASSUME NEW e
    PROVE  /\ LoadLegacy(SaveLegacy(e)).checks = e.checks
           /\ \A proto \in Protocols, f \in DOMAIN Blank :
                LoadLegacy(SaveLegacy(e)).servers[<<proto, f>>] = e[proto][f]
<1> DEFINE t == SaveLegacy(e)
<1>1. LoadLegacy(t).checks = e.checks
  <2>1. t.checks = IF e.checks = "automatic" THEN {} ELSE {e.checks}
    BY DEF SaveLegacy
  <2>2. LoadLegacy(t).checks = IF t.checks = {} THEN "automatic" ELSE CHOOSE c \in t.checks : TRUE
    BY DEF LoadLegacy
  <2> HIDE DEF t
  <2>3. CASE e.checks = "automatic" BY <2>1, <2>2, <2>3
  <2>4. CASE e.checks # "automatic" 
    <3>1. t.checks = {e.checks} BY <2>1, <2>4
    <3>2. (CHOOSE c \in t.checks : TRUE) \in t.checks BY <3>1
    <3> QED BY <3>1, <3>2, <2>2
  <2> QED BY <2>3, <2>4
<1>2. ASSUME NEW proto \in Protocols, NEW f \in DOMAIN Blank
      PROVE  LoadLegacy(t).servers[<<proto, f>>] = e[proto][f]
  <2> DEFINE S == {x \in Protocols \X DOMAIN Blank : e[x[1]][x[2]] # Blank[x[2]]}
             p == <<proto, f>>
  <2>1. /\ DOMAIN t.servers = S
        /\ \A x \in S : t.servers[x] = e[x[1]][x[2]]
    BY DEF SaveLegacy
  <2>2. LoadLegacy(t).servers[p] = IF p \in DOMAIN t.servers THEN t.servers[p] ELSE Blank[f]
    BY DEF LoadLegacy
  <2>3. p \in S <=> e[proto][f] # Blank[f]
    OBVIOUS
  <2>4. p[1] = proto /\ p[2] = f OBVIOUS
  <2>5. p \in S => t.servers[p] = e[p[1]][p[2]] BY <2>1
  <2> HIDE DEF t, S, p
  <2>6. p \in S => t.servers[p] = e[proto][f] BY <2>4, <2>5
  <2>7. e[proto][f] # Blank[f] => LoadLegacy(t).servers[p] = e[proto][f] BY <2>1, <2>2, <2>3, <2>6
  <2>8. e[proto][f] = Blank[f] => LoadLegacy(t).servers[p] = Blank[f] BY <2>1, <2>2, <2>3
  <2>9. LoadLegacy(t).servers[p] = e[proto][f] BY <2>7, <2>8
  <2> QED BY <2>9 DEF p
<1> QED BY <1>1, <1>2

\* What is assumed of the waits
LEMMA BackoffBounds == BackoffMin \in Nat /\ BackoffMax \in Nat /\ BackoffMin <= BackoffMax
  BY NetworkAssumption

\* At most one loop has warned and not noted it.
LEMMA WarnedCount ==
    ASSUME LoginInv
    PROVE  Cardinality({l \in Loops : loginAt[l] = "warned"}) = Unsettled
<1> DEFINE S == {l \in Loops : loginAt[l] = "warned"}
<1>1. CASE S = {}
  BY <1>1, FS_EmptySet DEF Unsettled
<1>2. CASE S # {}
  <2> PICK l \in S : TRUE BY <1>2
  <2>1. S = {l} BY DEF LoginInv
  <2> QED BY <2>1, FS_Singleton DEF Unsettled
<1> QED BY <1>1, <1>2

\* Nothing is configured at first.
LEMMA LoginStart == LoginInit => LoginInv
<1> SUFFICES ASSUME LoginInit PROVE LoginInv OBVIOUS
<1>1. setup.at = "off" /\ DOMAIN setup = {"at", "source", "entered", "servers"}
  BY DEF LoginInit
<1>2. EnteredKept BY <1>1 DEF EnteredKept
<1>3. LoginType
  <2>1. once \in [Loops -> BOOLEAN] /\ notify \in BOOLEAN BY Zenon DEF LoginInit
  <2>2. loginAt \in [Loops -> LoginStates] BY DEF LoginInit, LoginStates
  <2>3. untried \in [Loops -> Int] /\ backoff \in [Loops -> Nat] /\ refusals \in [Loops -> 0..2] BY DEF LoginInit
  <2>4. setups \in Nat /\ warned \in Nat /\ unnoted \in Nat BY DEF LoginInit
  <2> QED BY <1>1, <2>1, <2>2, <2>3, <2>4 DEF LoginType
<1>4. \A l \in Loops : loginAt[l] = "idle" /\ backoff[l] = 0 /\ ~once[l] BY DEF LoginInit
<1>5. warned = 0 /\ Due = 0 /\ Unsettled = 0 /\ setups = 0 /\ unnoted = 0 BY <1>4 DEF LoginInit, Due, Unsettled
<1> QED BY <1>2, <1>3, <1>4, <1>5 DEF LoginInv, BackoffBounded

\* Every step keeps the invariant of the logins.
LEMMA LoginStays ==
    ASSUME LoginInv, [LoginNext]_loginVars
    PROVE  LoginInv'
<1> DEFINE D == {"at", "source", "entered", "servers"}
<1> USE DEF LoginInv, LoginType, LoginStates, BackoffBounded, Due, Unsettled, warnings, loopVars
<1>0. ASSUME UNCHANGED <<setup, legacyConfig>> PROVE EnteredKept'
  BY <1>0 DEF EnteredKept
<1>a. ASSUME setup'.at # "saved" PROVE EnteredKept'
  BY <1>a DEF EnteredKept
<1>b. DOMAIN setup = D
  OBVIOUS
<1>s. ASSUME StopLoops, UNCHANGED <<notify, setups, warned>>, setup'.at # "saved", DOMAIN setup' = D
      PROVE  LoginInv'
  <2>1. unnoted' = unnoted + Unsettled BY <1>s, WarnedCount DEF StopLoops
  <2>2. \A l \in Loops : loginAt'[l] = "idle" BY <1>s DEF StopLoops
  <2>3. Unsettled' = 0 BY <2>2
  <2>4. (warned + Due <= setups + unnoted + Unsettled)' BY <1>s, <2>1, <2>3
  <2>5. (/\ loginAt \in [Loops -> LoginStates] /\ untried \in [Loops -> Int]
         /\ backoff \in [Loops -> Nat] /\ once \in [Loops -> BOOLEAN] /\ refusals \in [Loops -> 0..2])'
    BY <1>s DEF StopLoops
  <2>6. \A l \in Loops : backoff'[l] = 0 /\ ~once'[l] BY <1>s DEF StopLoops
  <2>7. unnoted' \in Nat BY <2>1
  <2>8. EnteredKept' BY <1>s, <1>a
  <2> HIDE DEF Unsettled, Due
  <2> QED BY <1>s, <2>2, <2>4, <2>5, <2>6, <2>7, <2>8
<1>1. ASSUME NEW e \in Entered, BeginSetup(e) PROVE LoginInv'
  <2>1. setup'.at # "saved" /\ DOMAIN setup' = D BY <1>1 DEF BeginSetup
  <2> QED BY <1>1, <2>1, <1>s DEF BeginSetup
<1>2. ASSUME NEW doc \in Documents, SourceAnswers(doc) PROVE LoginInv'
  <2>1. setup'.at # "saved" /\ DOMAIN setup' = D BY <1>2, <1>b DEF SourceAnswers
  <2> QED BY <1>2, <2>1, <1>a DEF SourceAnswers
<1>3. ASSUME SourceFails PROVE LoginInv'
  <2>1. setup'.at # "saved" /\ DOMAIN setup' = D BY <1>3, <1>b DEF SourceFails
  <2> QED BY <1>3, <2>1, <1>a DEF SourceFails
<1>4. ASSUME SetupWorks PROVE LoginInv'
  <2>1. DOMAIN setup' = D /\ setup'.entered = setup.entered BY <1>4, <1>b DEF SetupWorks
  <2>2. legacyConfig' = SaveLegacy(setup'.entered) BY <1>4, <2>1 DEF SetupWorks
  <2>3. EnteredKept' BY <2>2, LegacyKept DEF EnteredKept
  <2>4. /\ setups' = setups + 1 /\ notify' = TRUE
        /\ UNCHANGED <<warned, unnoted, loginAt, untried, backoff, once, refusals, warnLock>>
    BY <1>4 DEF SetupWorks
  <2> QED BY <2>1, <2>3, <2>4
<1>5. ASSUME SetupFails PROVE LoginInv'
  <2>1. setup'.at # "saved" /\ DOMAIN setup' = D BY <1>5, <1>b DEF SetupFails
  <2> QED BY <1>5, <2>1, <1>a DEF SetupFails
<1>6. ASSUME LoginDies PROVE LoginInv'
  <2>1. setup'.at # "saved" /\ DOMAIN setup' = D BY <1>6, <1>b DEF LoginDies
  <2> QED BY <1>6, <2>1, <1>s DEF LoginDies
<1> USE DEF NextCandidate, SetupStays
<1>7. ASSUME NEW l \in Loops, ConnectImap(l) PROVE LoginInv'
  <2> DEFINE b == IF backoff[l] < BackoffMax \div 2 THEN backoff[l] ELSE BackoffMax \div 2
  <2>0. b \in Nat /\ b <= BackoffMax \div 2 BY BackoffBounds
  <2>1. PICK x \in (b \div 2)..b :
          backoff' = [backoff EXCEPT ![l] = IF b + x < BackoffMin THEN BackoffMin ELSE b + x]
    BY <1>7 DEF ConnectImap
  <2> HIDE DEF b
  <2>2. x \in Nat /\ b + x <= BackoffMax BY <2>0, BackoffBounds
  <2>3. BackoffBounded' /\ backoff' \in [Loops -> Nat] BY <2>0, <2>1, <2>2, BackoffBounds
  <2> QED BY <1>7, <1>0, <2>3 DEF ConnectImap
<1>8. ASSUME NEW l \in Loops, NotReached(l) PROVE LoginInv'
  BY <1>8, <1>0 DEF NotReached
<1>9. ASSUME NEW l \in Loops, ServerReached(l) PROVE LoginInv'
  BY <1>9, <1>0, BackoffBounds DEF ServerReached
<1>10. ASSUME NEW l \in Loops, LoggedIn(l) PROVE LoginInv'
  BY <1>10, <1>0 DEF LoggedIn
<1>11. ASSUME NEW l \in Loops, SessionUnusable(l) PROVE LoginInv'
  BY <1>11, <1>0 DEF SessionUnusable
<1>12. ASSUME NEW l \in Loops, LoginFails(l) PROVE LoginInv'
  BY <1>12, <1>0 DEF LoginFails
<1>13. ASSUME NEW l \in Loops, AuthenticationRefused(l) PROVE LoginInv'
  <2>1. CASE once[l] /\ notify
    BY <1>13, <2>1, <1>0 DEF AuthenticationRefused
  <2>2. CASE ~(once[l] /\ notify)
    <3>1. UNCHANGED <<notify, setups, warned, unnoted, backoff, warnLock>> /\ EnteredKept' /\ DOMAIN setup' = D
      BY <1>13, <2>2, <1>0, <1>b DEF AuthenticationRefused
    <3>2. /\ refusals' = [refusals EXCEPT ![l] = IF refusals[l] < 2 THEN refusals[l] + 1 ELSE 2]
          /\ once' = IF once[l] THEN once ELSE [once EXCEPT ![l] = TRUE]
          /\ untried' = [untried EXCEPT ![l] = untried[l] - 1]
          /\ loginAt' = [loginAt EXCEPT ![l] = IF untried[l] = 1 THEN "idle" ELSE "trying"]
          /\ loginAt[l] = "login"
      BY <1>13, <2>2 DEF AuthenticationRefused
    <3>3. LoginType' BY <3>1, <3>2
    <3>4. Unsettled' = Unsettled BY <3>2
    <3>5. \A o \in Loops : once'[o] => refusals'[o] >= 1 BY <3>2
    <3>6. \A o \in Loops : loginAt'[o] \in {"warning", "warned"} => notify' /\ refusals'[o] >= 2 /\ warnLock' = {o}
      BY <3>1, <3>2
    <3> QED BY <3>1, <3>3, <3>4, <3>5, <3>6
  <2> QED BY <2>1, <2>2
<1>14. ASSUME NEW l \in Loops, WarnUser(l) PROVE LoginInv'
  BY <1>14, <1>0 DEF WarnUser
<1>15. ASSUME NEW l \in Loops, WarningFails(l) PROVE LoginInv'
  BY <1>15, <1>0 DEF WarningFails
<1>16. ASSUME NEW l \in Loops, ResetNotify(l) PROVE LoginInv'
  <2>1. UNCHANGED <<setups, warned, backoff, once, refusals>> /\ EnteredKept' /\ DOMAIN setup' = D
    BY <1>16, <1>0, <1>b DEF ResetNotify
  <2>2. /\ loginAt[l] = "warned"
        /\ loginAt' = [loginAt EXCEPT ![l] = IF untried[l] = 1 THEN "idle" ELSE "trying"]
        /\ untried' = [untried EXCEPT ![l] = untried[l] - 1]
        /\ \/ notify' = FALSE /\ unnoted' = unnoted
           \/ notify' = notify /\ unnoted' = unnoted + 1
    BY <1>16 DEF ResetNotify
  <2>3. \A o \in Loops : loginAt'[o] \notin {"warning", "warned"} BY <2>2
  <2>4. Unsettled = 1 /\ Unsettled' = 0 /\ notify BY <2>2, <2>3
  <2>5. Due = 1 BY <2>4
  <2>6. notify' \in BOOLEAN /\ unnoted' \in Nat /\ (warned + Due <= setups + unnoted + Unsettled)'
    <3>1. CASE notify' = FALSE /\ unnoted' = unnoted
      <4>1. Due' = 0 BY <3>1
      <4>2. unnoted' \in Nat BY <3>1
      <4>3. notify' \in BOOLEAN BY <3>1
      <4> QED BY <2>1, <2>4, <2>5, <3>1, <4>1, <4>2, <4>3
    <3>2. CASE notify' = notify /\ unnoted' = unnoted + 1
      <4>1. Due' = Due BY <3>2
      <4>2. unnoted' \in Nat BY <3>2
      <4>3. notify' \in BOOLEAN BY <3>2
      <4> QED BY <2>1, <2>4, <2>5, <3>2, <4>1, <4>2, <4>3
    <3> QED BY <2>2, <3>1, <3>2
  <2>8. LoginType'
    <3>1. loginAt' \in [Loops -> LoginStates] /\ untried' \in [Loops -> Int] BY <2>2
    <3> QED BY <2>1, <2>6, <3>1
  <2> QED BY <2>1, <2>3, <2>8, <2>6
<1>17. ASSUME NEW l \in Loops, SessionEnds(l) PROVE LoginInv'
  BY <1>17, <1>0 DEF SessionEnds
<1>18. ASSUME UNCHANGED loginVars PROVE LoginInv'
  BY <1>18, <1>0 DEF loginVars
<1> QED BY <1>1, <1>2, <1>3, <1>4, <1>5, <1>6, <1>7, <1>8, <1>9, <1>10, <1>11, <1>12, <1>13, <1>14, <1>15,
           <1>16, <1>17, <1>18 DEF LoginNext

\* Of the settings of the proxy, and of the logins: what the invariants say.
LEMMA LoginRight == ProxyInv /\ LoginInv => ProxyKept /\ EnteredKept /\ BackoffBounded /\ WarnedRightly
<1> SUFFICES ASSUME ProxyInv, LoginInv PROVE ProxyKept /\ EnteredKept /\ BackoffBounded /\ WarnedRightly OBVIOUS
<1>1. ProxyKept BY DEF ProxyInv, ProxyKept
<1>2. EnteredKept /\ BackoffBounded BY DEF LoginInv
<1>3. WarnedRightly BY DEF LoginInv, LoginType, WarnedRightly, Due, Unsettled
<1> QED BY <1>1, <1>2, <1>3

-----------------------------------------------------------------------------
(* All of it. *)

\* For any addresses, connections, certificates, pages, readers, loops and clocks, with death at
\* any point: keys that are remembered were vouched for, the history of connections was earned,
\* every address is tried before a connection fails and few at once, what is not authenticated
\* uses no address of an earlier lookup, the cache of pages tells the truth, the proxy and what
\* was entered are kept, waits are bounded and the user is warned once.
THEOREM NetworkSound == NetworkSpec => []NetworkSafe
<1> DEFINE Inv == NetInv /\ WebInv /\ ProxyInv /\ LoginInv
<1>1. NetworkInit => Inv BY NetStart, WebStart, ProxyStart, LoginStart DEF NetworkInit
<1>2. Inv /\ [NetworkNext]_networkVars => Inv'
  <2> SUFFICES ASSUME Inv, [NetworkNext]_networkVars PROVE Inv' OBVIOUS
  <2>1. [NetNext]_netVars /\ [WebNext]_webVars /\ [ProxyNext]_proxyVars /\ [LoginNext]_loginVars
    BY DEF NetworkNext, networkVars, NamesStep, WebStep, ProxyStep, LoginStep
  <2> HIDE DEF NetInv, WebInv, ProxyInv, LoginInv
  <2>2. NetInv' BY <2>1, NetStays
  <2>3. WebInv' BY <2>1, WebStays
  <2>4. ProxyInv' BY <2>1, ProxyStays
  <2>5. LoginInv' BY <2>1, LoginStays
  <2> QED BY <2>2, <2>3, <2>4, <2>5
<1>3. Inv => NetworkSafe BY NetRight, WebRight, LoginRight DEF NetworkSafe
<1> QED BY <1>1, <1>2, <1>3, PTL DEF NetworkSpec

(***************************************************************************)
(* The scheduler of I/O: the inductive invariant.                          *)
(***************************************************************************)

\* Schedulers, jobs, the ongoing process
SchedSet == [st : {"started", "stopped", "paused"}, started : BOOLEAN, count : Nat]
JobSet == [kind : {"none", "imex", "provide", "get", "configure", "config", "fetch"},
           at : {"idle", "pausing", "working", "freeing", "dropping", "ended", "interrupting", "marking", "waiting",
                 "fetched"},
           guard : {"none", "held", "dropped"}, stop : BOOLEAN, saw : {"none", "no", "begun", "done", "failed"}]

\* The types, and that the loop is off exactly while the scheduler does not run.
IoTypes ==
    /\ sched \in SchedSet /\ loop \in {"off", "connect", "fetch", "idling"}
    /\ (loop = "off") = (sched.st # "started")
    /\ loop = "off" => conn = "uninit"
    /\ sched.st = "paused" => sched.count > 0
    /\ DOMAIN jobs = Jobs
    /\ slot \in Jobs \cup {NoJob}
    /\ ongoing \in [st : {"stopped", "running", "shallstop"}, by : Jobs \cup {NoJob}]
    /\ restarting \in {"idle", "checked", "stopped"} /\ wish \in BOOLEAN

\* How far a job of each kind gets, and the guard it has there
JobShape(x) ==
    /\ x \in JobSet
    /\ x.at \in {"idle", "pausing", "interrupting", "marking", "waiting"} => x.guard = "none"
    /\ x.at = "idle" => x.kind = "none"
    /\ x.at = "pausing" => NeedsGuard(x.kind)
    /\ x.at = "working" => x.kind # "none" /\ (NeedsGuard(x.kind) => x.guard = "held")
    /\ x.at = "freeing" => x.kind = "imex"
    /\ x.at = "dropping" => x.kind = "provide" /\ x.guard = "held"
    /\ x.at \in {"interrupting", "marking", "waiting", "fetched"} => x.kind = "fetch"
    /\ x.at \in {"interrupting", "marking", "waiting"} => x.saw \in {"no", "begun", "done"}

\* A job that works with the mutex is the one it names.
Owns(j, x, og) ==
    NeedsOngoing(x.kind) /\ x.at \in {"pausing", "working", "freeing"} => og.by = j /\ og.st # "stopped"

\* A fetch that was told to the loop is seen by the round under way, and the loop does not look
\* idle to it before that round is over.
Seen(x, lp, cn) ==
    /\ x.at \in {"marking", "waiting"} /\ lp = "fetch" => x.saw # "no"
    /\ x.at = "waiting" /\ x.saw # "done" => cn # "idle"
    /\ x.at = "fetched" => x.saw \in {"done", "failed"}

\* Whether I/O runs, or will when the last guard is gone
Wanted == IF sched.st = "paused" THEN sched.started ELSE sched.st = "started"
AsWished ==
    trouble \cap {"unstarted", "undone"} = {} =>
      /\ restarting # "idle" => wish
      /\ restarting # "stopped" => Wanted = wish

\* The inductive invariant of the scheduler and its jobs.
Shaped == \A j \in Jobs : JobShape(jobs[j])
Owned == \A j \in Jobs : Owns(j, jobs[j], ongoing)
Fetching == "crossed" \notin trouble => \A j \in Jobs : Seen(jobs[j], loop, conn)
IoRest == IoTypes /\ Shaped /\ Owned /\ Fetching /\ PausedByGuards
IoInv == IoRest /\ AsWished

\* What is assumed of jobs
LEMMA JobsKnown ==
    /\ IsFiniteSet(Jobs) /\ NoJob \notin Jobs
    /\ JobKinds \subseteq {"imex", "provide", "get", "configure", "config", "fetch"}
  BY IoAssumption DEF NoJob

\* The guards can be counted.
LEMMA GuardsFinite == IsFiniteSet(Guards) /\ Cardinality(Guards) \in Nat
<1>1. Guards \subseteq Jobs BY DEF Guards
<1> QED BY <1>1, JobsKnown, FS_Subset, FS_CardinalityType

\* Nothing runs, is asked for or under way at first.
LEMMA IoStart == IoInit => IoInv
<1> SUFFICES ASSUME IoInit PROVE IoInv OBVIOUS
<1> USE DEF IoInit
<1>0. Resting \in JobSet BY DEF Resting, JobSet
<1>1. IoTypes BY DEF IoTypes, SchedSet
<1>2. \A j \in Jobs : jobs[j] = Resting OBVIOUS
<1>3. Shaped /\ Owned /\ Fetching
  BY <1>0, <1>2 DEF Shaped, Owned, Fetching, JobShape, Owns, Seen, Resting, NeedsOngoing
<1>4. AsWished BY DEF AsWished, Wanted
<1>5. Guards = {} BY <1>2 DEF Guards, Resting
<1>6. PausedByGuards BY <1>5 DEF PausedByGuards
<1> QED BY <1>1, <1>3, <1>4, <1>6 DEF IoInv, IoRest


\* SchedulerState::start keeps the guards counted, and I/O runs or will.
LEMMA StartKeeps ==
    ASSUME IoRest, Start(FALSE), UNCHANGED <<jobs, ongoing, slot>>, trouble \subseteq trouble',
           restarting' \in {"idle", "checked", "stopped"}, wish' \in BOOLEAN
    PROVE  IoRest' /\ Wanted'
<1> USE DEF IoRest
<1>0. sched \in SchedSet /\ sched.st \in {"started", "stopped", "paused"} BY DEF IoTypes, SchedSet
<1>1. Shaped' /\ Owned' BY DEF Shaped, Owned
<1>2. CASE sched.st = "started"
  <2>1. UNCHANGED <<sched, loop, conn>> BY <1>2 DEF Start
  <2> QED BY <1>1, <1>2, <2>1 DEF IoTypes, Fetching, PausedByGuards, Guards, Wanted
<1>3. CASE sched.st = "stopped"
  <2>1. sched' = [st |-> "started", started |-> FALSE, count |-> 0] /\ loop' = "connect" /\ conn' = "uninit"
    BY <1>3 DEF Start, DoStart
  <2>2. IoTypes' BY <2>1 DEF IoTypes, SchedSet
  <2>3. Fetching' BY <2>1 DEF Fetching, Seen
  <2>4. PausedByGuards' BY <1>3, <2>1 DEF PausedByGuards, Guards
  <2>5. Wanted' BY <2>1 DEF Wanted
  <2> QED BY <1>1, <2>2, <2>3, <2>4, <2>5
<1>4. CASE sched.st = "paused"
  <2>1. sched' = [sched EXCEPT !.started = TRUE] /\ UNCHANGED <<loop, conn>> BY <1>4 DEF Start
  <2>2. sched' \in SchedSet /\ sched'.st = "paused" /\ sched'.started = TRUE /\ sched'.count = sched.count
    BY <1>0, <1>4, <2>1 DEF SchedSet
  <2>3. IoTypes' BY <1>4, <2>1, <2>2 DEF IoTypes
  <2>4. Fetching' BY <2>1 DEF Fetching
  <2>5. PausedByGuards' BY <1>4, <2>2 DEF PausedByGuards, Guards
  <2>6. Wanted' BY <2>2 DEF Wanted
  <2> QED BY <1>1, <2>3, <2>4, <2>5, <2>6
<1> QED BY <1>0, <1>2, <1>3, <1>4

\* SchedulerState::stop keeps them too, and I/O does not run and will not.
LEMMA StopKeeps ==
    ASSUME IoRest, Stop, UNCHANGED <<jobs, ongoing, slot>>, trouble \subseteq trouble',
           restarting' \in {"idle", "checked", "stopped"}, wish' \in BOOLEAN
    PROVE  IoRest' /\ ~Wanted'
<1> USE DEF IoRest
<1>0. sched \in SchedSet /\ sched.st \in {"started", "stopped", "paused"} BY DEF IoTypes, SchedSet
<1>1. Shaped' /\ Owned' BY DEF Shaped, Owned
<1>2. CASE sched.st = "stopped"
  <2>1. UNCHANGED <<sched, loop, conn>> BY <1>2 DEF Stop
  <2> QED BY <1>1, <1>2, <2>1 DEF IoTypes, Fetching, PausedByGuards, Guards, Wanted
<1>3. CASE sched.st = "started"
  <2>1. sched' = [st |-> "stopped", started |-> FALSE, count |-> 0] /\ loop' = "off" /\ conn' = "uninit"
    BY <1>3 DEF Stop, DoStop
  <2>2. IoTypes' BY <2>1 DEF IoTypes, SchedSet
  <2>3. Fetching' BY <2>1 DEF Fetching, Seen
  <2>4. PausedByGuards' BY <1>3, <2>1 DEF PausedByGuards, Guards
  <2>5. ~Wanted' BY <2>1 DEF Wanted
  <2> QED BY <1>1, <2>2, <2>3, <2>4, <2>5
<1>4. CASE sched.st = "paused"
  <2>1. sched' = [sched EXCEPT !.started = FALSE] /\ UNCHANGED <<loop, conn>> BY <1>4 DEF Stop
  <2>2. sched' \in SchedSet /\ sched'.st = "paused" /\ sched'.started = FALSE /\ sched'.count = sched.count
    BY <1>0, <1>4, <2>1 DEF SchedSet
  <2>3. IoTypes' BY <1>4, <2>1, <2>2 DEF IoTypes
  <2>4. Fetching' BY <2>1 DEF Fetching
  <2>5. PausedByGuards' BY <1>4, <2>2 DEF PausedByGuards, Guards
  <2>6. ~Wanted' BY <2>2 DEF Wanted
  <2> QED BY <1>1, <2>3, <2>4, <2>5, <2>6
<1> QED BY <1>0, <1>2, <1>3, <1>4

\* The calls of the user, and the steps of a restart
LEMMA CallsKeep ==
    ASSUME IoInv, StartIo \/ StopIo \/ RestartIo
    PROVE  IoInv'
<1>0. IoRest /\ AsWished /\ restarting \in {"idle", "checked", "stopped"} /\ wish \in BOOLEAN
  BY DEF IoInv, IoRest, IoTypes
<1>1. CASE StartIo
  <2>1. Start(FALSE) /\ wish' = TRUE /\ UNCHANGED <<jobs, ongoing, slot, restarting, trouble>> BY <1>1 DEF StartIo
  <2>2. IoRest' /\ Wanted' BY <1>0, <2>1, StartKeeps
  <2>3. Wanted' \in BOOLEAN BY <2>2 DEF Wanted, IoRest, IoTypes, SchedSet
  <2>4. AsWished' BY <2>1, <2>2, <2>3 DEF AsWished
  <2> QED BY <2>2, <2>4 DEF IoInv
<1>2. CASE StopIo
  <2>1. /\ Stop /\ wish' = FALSE /\ UNCHANGED <<jobs, ongoing, slot, restarting>>
        /\ trouble' = IF restarting = "idle" THEN trouble ELSE trouble \cup {"undone"}
    BY <1>2 DEF StopIo
  <2>2. IoRest' /\ ~Wanted' BY <1>0, <2>1, StopKeeps
  <2>3. Wanted' \in BOOLEAN BY <2>2 DEF Wanted, IoRest, IoTypes, SchedSet
  <2>4. AsWished'
    <3>1. CASE restarting = "idle" BY <2>1, <2>2, <2>3, <3>1 DEF AsWished
    <3>2. CASE restarting # "idle" BY <2>1, <3>2 DEF AsWished
    <3> QED BY <3>1, <3>2
  <2> QED BY <2>2, <2>4 DEF IoInv
<1>3. CASE RestartIo
  <2>0. UNCHANGED <<jobs, ongoing, slot, wish, trouble>> BY <1>3 DEF RestartIo
  <2>1. CASE /\ restarting = "idle" /\ restarting' = (IF sched.st = "started" THEN "checked" ELSE "idle")
             /\ UNCHANGED <<sched, loop, conn>>
    <3>1. IoRest' BY <1>0, <2>0, <2>1 DEF IoRest, IoTypes, Shaped, Owned, Fetching, PausedByGuards, Guards
    <3>2. Wanted' = Wanted BY <2>1 DEF Wanted
    <3>3. sched.st = "started" => Wanted = TRUE BY DEF Wanted
    <3>4. AsWished' BY <1>0, <2>0, <2>1, <3>2, <3>3 DEF AsWished
    <3> QED BY <3>1, <3>4 DEF IoInv
  <2>2. CASE restarting = "checked" /\ restarting' = "stopped" /\ Stop
    <3>1. IoRest' BY <1>0, <2>0, <2>2, StopKeeps
    <3>2. AsWished' BY <1>0, <2>0, <2>2 DEF AsWished
    <3> QED BY <3>1, <3>2 DEF IoInv
  <2>3. CASE restarting = "stopped" /\ restarting' = "idle" /\ Start(FALSE)
    <3>1. IoRest' /\ Wanted' BY <1>0, <2>0, <2>3, StartKeeps
    <3>2. Wanted' \in BOOLEAN BY <3>1 DEF Wanted, IoRest, IoTypes, SchedSet
    <3>3. AsWished' BY <1>0, <2>0, <2>3, <3>1, <3>2 DEF AsWished
    <3> QED BY <3>1, <3>3 DEF IoInv
  <2> QED BY <1>3, <2>1, <2>2, <2>3 DEF RestartIo, Restart
<1> QED BY <1>1, <1>2, <1>3

\* What leaves the scheduler and the set of jobs with a guard alone keeps the guards counted and
\* the user's wish.
LEMMA QuietKeeps ==
    ASSUME IoInv, UNCHANGED <<sched, restarting, wish>>, IoTypes', Shaped', Owned', Fetching',
           trouble \subseteq trouble', \A j \in Jobs : jobs'[j].guard = "none" <=> jobs[j].guard = "none"
    PROVE  IoInv'
<1>1. Guards' = Guards BY DEF Guards
<1>2. PausedByGuards' BY <1>1 DEF IoInv, IoRest, PausedByGuards
<1>3. Wanted' = Wanted BY DEF Wanted
<1>4. AsWished' BY <1>3 DEF IoInv, AsWished
<1> QED BY <1>2, <1>4 DEF IoInv, IoRest

\* A job goes on, by itself.
LEMMA JobMoves ==
    ASSUME IoInv, NEW j \in Jobs, UNCHANGED <<sched, loop, conn, restarting, wish>>, slot' \in Jobs \cup {NoJob},
           ongoing' \in [st : {"stopped", "running", "shallstop"}, by : Jobs \cup {NoJob}],
           trouble \subseteq trouble', DOMAIN jobs' = Jobs, \A i \in Jobs \ {j} : jobs'[i] = jobs[i],
           JobShape(jobs'[j]), jobs'[j].guard = "none" <=> jobs[j].guard = "none", Owned',
           "crossed" \notin trouble' => Seen(jobs'[j], loop, conn)
    PROVE  IoInv'
<1>1. IoTypes' BY DEF IoInv, IoRest, IoTypes
<1>2. Shaped'
  <2> SUFFICES ASSUME NEW i \in Jobs PROVE JobShape(jobs'[i]) BY DEF Shaped
  <2>1. CASE i = j BY <2>1
  <2>2. CASE i # j BY <2>2 DEF IoInv, IoRest, Shaped
  <2> QED BY <2>1, <2>2
<1>3. Fetching'
  <2> SUFFICES ASSUME NEW i \in Jobs, "crossed" \notin trouble' PROVE Seen(jobs'[i], loop, conn)
    BY DEF Fetching
  <2>1. CASE i = j BY <2>1
  <2>2. CASE i # j BY <2>2 DEF IoInv, IoRest, Fetching
  <2> QED BY <2>1, <2>2
<1>4. \A i \in Jobs : jobs'[i].guard = "none" <=> jobs[i].guard = "none" OBVIOUS
<1> QED BY <1>1, <1>2, <1>3, <1>4, QuietKeeps

\* The owner of the mutex changes with one job.
LEMMA OwnerMoves ==
    ASSUME IoInv, NEW j \in Jobs, \A i \in Jobs \ {j} : jobs'[i] = jobs[i], Owns(j, jobs'[j], ongoing'),
           \/ ongoing' = ongoing
           \/ ongoing.st = "stopped"
           \/ NeedsOngoing(jobs[j].kind) /\ jobs[j].at \in {"pausing", "working", "freeing"}
    PROVE  Owned'
<1> SUFFICES ASSUME NEW i \in Jobs PROVE Owns(i, jobs'[i], ongoing') BY DEF Owned
<1>1. CASE i = j BY <1>1
<1>2. CASE i # j
  <2>1. jobs'[i] = jobs[i] /\ Owns(i, jobs[i], ongoing) /\ Owns(j, jobs[j], ongoing)
    BY <1>2 DEF IoInv, IoRest, Owned
  <2> QED BY <1>2, <2>1 DEF Owns
<1> QED BY <1>1, <1>2

\* Everything a job does by itself
LEMMA JobsKeep ==
    ASSUME IoInv, NEW j \in Jobs,
           \/ \E k \in JobKinds : BeginJob(j, k)
           \/ BeginConfig(j) \/ FinishWork(j) \/ FinishJob(j) \/ AbandonJob(j) \/ BeginFetch(j)
           \/ InterruptLoop(j) \/ DoneWaiting(j) \/ OwnRound(j) \/ EndFetch(j)
    PROVE  IoInv'
<1> DEFINE x == jobs[j]
           z == jobs'[j]
<1>0. /\ IoTypes /\ JobShape(x) /\ x \in JobSet /\ Owns(j, x, ongoing) /\ DOMAIN jobs = Jobs
      /\ "crossed" \notin trouble => Seen(x, loop, conn)
  BY DEF IoInv, IoRest, Shaped, Owned, Fetching, JobShape, IoTypes
<1>t. /\ slot \in Jobs \cup {NoJob}
      /\ ongoing \in [st : {"stopped", "running", "shallstop"}, by : Jobs \cup {NoJob}]
  BY <1>0 DEF IoTypes
<1> DEFINE Alone == DOMAIN jobs' = Jobs /\ \A i \in Jobs \ {j} : jobs'[i] = jobs[i]
<1>1. ASSUME NEW k \in JobKinds, BeginJob(j, k) PROVE IoInv'
  <2>1. /\ x.at = "idle" /\ NeedsOngoing(k) /\ ongoing.st = "stopped" /\ ongoing' = [st |-> "running", by |-> j]
        /\ jobs' = [jobs EXCEPT ![j].kind = k, ![j].at = IF NeedsGuard(k) THEN "pausing" ELSE "working"]
        /\ UNCHANGED <<sched, loop, conn, restarting, wish, slot, trouble>>
    BY <1>1 DEF BeginJob, AllocOngoing
  <2>2. /\ Alone /\ z \in JobSet /\ z.kind = k /\ z.at = (IF NeedsGuard(k) THEN "pausing" ELSE "working")
        /\ z.guard = x.guard
    BY <1>0, <2>1, JobsKnown DEF JobSet
  <2>3. k # "none" /\ x.guard = "none" BY <1>0, <2>1, JobsKnown DEF JobShape
  <2>4. JobShape(z) BY <2>2, <2>3 DEF JobShape
  <2>5. Owned' BY <2>1, <2>2, OwnerMoves DEF Owns
  <2>6. Seen(z, loop, conn) BY <2>2 DEF Seen
  <2>7. ongoing' \in [st : {"stopped", "running", "shallstop"}, by : Jobs \cup {NoJob}] BY <2>1
  <2> QED BY <1>t, <2>1, <2>2, <2>4, <2>5, <2>6, <2>7, JobMoves
<1>2. ASSUME BeginConfig(j) PROVE IoInv'
  <2>1. /\ x.at = "idle" /\ jobs' = [jobs EXCEPT ![j].kind = "config", ![j].at = "pausing"]
        /\ UNCHANGED <<sched, loop, conn, restarting, wish, ongoing, slot, trouble>>
    BY <1>2 DEF BeginConfig
  <2>2. Alone /\ z \in JobSet /\ z.kind = "config" /\ z.at = "pausing" /\ z.guard = x.guard
    BY <1>0, <2>1 DEF JobSet
  <2>3. JobShape(z) BY <1>0, <2>1, <2>2 DEF JobShape, NeedsGuard
  <2>4. Owned' BY <2>1, <2>2, OwnerMoves DEF Owns, NeedsOngoing
  <2>5. Seen(z, loop, conn) BY <2>2 DEF Seen
  <2> QED BY <1>t, <2>1, <2>2, <2>3, <2>4, <2>5, JobMoves
<1>3. ASSUME FinishWork(j) PROVE IoInv'
  <2> DEFINE to == CASE x.kind = "imex" -> "freeing" [] x.kind = "config" -> "ended"
                     [] x.kind = "provide" -> "dropping" [] OTHER -> "ended"
             g == IF x.kind \in {"imex", "config"} THEN "dropped" ELSE x.guard
  <2>1. /\ x.at = "working" /\ x.kind # "fetch"
        /\ jobs' = [jobs EXCEPT ![j].at = to, ![j].guard = g]
        /\ ongoing' = IF x.kind \in {"provide", "get", "configure"} THEN [st |-> "stopped", by |-> NoJob] ELSE ongoing
        /\ UNCHANGED <<sched, loop, conn, restarting, wish, slot, trouble>>
    BY <1>0, <1>3 DEF FinishWork, FreeOngoing
  <2>2. to \in {"freeing", "dropping", "ended"} /\ g \in {"none", "held", "dropped"} BY <1>0 DEF JobSet
  <2>3. Alone /\ z \in JobSet /\ z.kind = x.kind /\ z.at = to /\ z.guard = g
    <3> HIDE DEF to, g
    <3> QED BY <1>0, <2>1, <2>2 DEF JobSet
  <2>4. /\ x.kind \in {"imex", "provide", "config"} => x.guard = "held"
        /\ x.kind \in {"imex", "provide", "config", "get", "configure"}
    BY <1>0, <2>1 DEF JobShape, NeedsGuard, JobSet
  <2>5. JobShape(z) BY <2>3, <2>4 DEF JobShape
  <2>6. z.guard = "none" <=> x.guard = "none" BY <2>3, <2>4
  <2>7. Owned'
    <3>1. Owns(j, z, ongoing') BY <1>0, <2>1, <2>3, <2>4 DEF Owns, NeedsOngoing
    <3>2. ongoing' = ongoing \/ NeedsOngoing(x.kind) BY <2>1 DEF NeedsOngoing
    <3> QED BY <2>1, <2>3, <3>1, <3>2, OwnerMoves
  <2>8. Seen(z, loop, conn) BY <2>2, <2>3 DEF Seen
  <2>9. ongoing' \in [st : {"stopped", "running", "shallstop"}, by : Jobs \cup {NoJob}] BY <1>t, <2>1
  <2> QED BY <1>t, <2>1, <2>3, <2>5, <2>6, <2>7, <2>8, <2>9, JobMoves
<1>4. ASSUME FinishJob(j) PROVE IoInv'
  <2> DEFINE g == IF x.at = "dropping" THEN "dropped" ELSE x.guard
  <2>1. /\ x.at \in {"freeing", "dropping"} /\ jobs' = [jobs EXCEPT ![j].at = "ended", ![j].guard = g]
        /\ ongoing' = IF x.at = "freeing" THEN [st |-> "stopped", by |-> NoJob] ELSE ongoing
        /\ UNCHANGED <<sched, loop, conn, restarting, wish, slot, trouble>>
    BY <1>0, <1>4 DEF FinishJob, FreeOngoing
  <2>2. g \in {"none", "held", "dropped"} BY <1>0 DEF JobSet
  <2>3. Alone /\ z \in JobSet /\ z.kind = x.kind /\ z.at = "ended" /\ z.guard = g
    <3> HIDE DEF g
    <3> QED BY <1>0, <2>1, <2>2 DEF JobSet
  <2>4. JobShape(z) BY <2>3 DEF JobShape
  <2>5. z.guard = "none" <=> x.guard = "none" BY <1>0, <2>3 DEF JobShape
  <2>6. Owned'
    <3>1. Owns(j, z, ongoing') BY <2>3 DEF Owns
    <3>2. x.at = "freeing" => NeedsOngoing(x.kind) BY <1>0 DEF JobShape, NeedsOngoing
    <3> QED BY <2>1, <2>3, <3>1, <3>2, OwnerMoves
  <2>7. Seen(z, loop, conn) BY <2>3 DEF Seen
  <2>8. ongoing' \in [st : {"stopped", "running", "shallstop"}, by : Jobs \cup {NoJob}] BY <1>t, <2>1
  <2> QED BY <1>t, <2>1, <2>3, <2>4, <2>5, <2>6, <2>7, <2>8, JobMoves
<1>5. ASSUME AbandonJob(j) PROVE IoInv'
  <2>1. /\ x.at = "working" /\ x.kind \in {"provide", "imex"} /\ trouble' = trouble \cup {"leaked"}
        /\ jobs' = [jobs EXCEPT ![j].at = "ended", ![j].guard = "dropped"]
        /\ UNCHANGED <<sched, loop, conn, restarting, wish, ongoing, slot>>
    BY <1>5 DEF AbandonJob
  <2>2. Alone /\ z \in JobSet /\ z.kind = x.kind /\ z.at = "ended" /\ z.guard = "dropped"
    BY <1>0, <2>1 DEF JobSet
  <2>3. JobShape(z) /\ x.guard = "held" BY <1>0, <2>1, <2>2 DEF JobShape, NeedsGuard
  <2>4. Owned' BY <2>1, <2>2, OwnerMoves DEF Owns
  <2>5. Seen(z, loop, conn) BY <2>2 DEF Seen
  <2> QED BY <1>t, <2>1, <2>2, <2>3, <2>4, <2>5, JobMoves
<1>6. ASSUME BeginFetch(j) PROVE IoInv'
  <2> DEFINE to == IF sched.st = "started" THEN "interrupting" ELSE "pausing"
  <2>1. /\ x.at = "idle" /\ slot' = j
        /\ jobs' = [jobs EXCEPT ![j].kind = "fetch", ![j].saw = "no", ![j].at = to]
        /\ UNCHANGED <<sched, loop, conn, restarting, wish, ongoing, trouble>>
    BY <1>6 DEF BeginFetch
  <2>2. to \in {"interrupting", "pausing"} OBVIOUS
  <2>3. Alone /\ z \in JobSet /\ z.kind = "fetch" /\ z.at = to /\ z.guard = x.guard /\ z.saw = "no"
    <3> HIDE DEF to
    <3> QED BY <1>0, <2>1, <2>2 DEF JobSet
  <2> HIDE DEF to
  <2>4. JobShape(z) BY <1>0, <2>1, <2>2, <2>3 DEF JobShape, NeedsGuard
  <2>5. Owned' BY <2>1, <2>3, OwnerMoves DEF Owns, NeedsOngoing
  <2>6. Seen(z, loop, conn) BY <2>2, <2>3 DEF Seen
  <2> QED BY <1>t, <2>1, <2>3, <2>4, <2>5, <2>6, JobMoves
<1>7. ASSUME InterruptLoop(j) PROVE IoInv'
  <2> DEFINE to == IF sched.st = "started" THEN "marking" ELSE "waiting"
  <2>1. /\ x.at = "interrupting" /\ jobs' = [jobs EXCEPT ![j].at = to]
        /\ trouble' = IF loop = "fetch" THEN trouble \cup {"crossed"} ELSE trouble
        /\ UNCHANGED <<sched, loop, conn, restarting, wish, ongoing, slot>>
    BY <1>7 DEF InterruptLoop, StepTo
  <2>2. to \in {"marking", "waiting"} OBVIOUS
  <2>3. Alone /\ z \in JobSet /\ z.kind = x.kind /\ z.at = to /\ z.guard = x.guard /\ z.saw = x.saw
    <3> HIDE DEF to
    <3> QED BY <1>0, <2>1, <2>2 DEF JobSet
  <2>4. sched.st # "started" => conn = "uninit" BY <1>0 DEF IoTypes
  <2>5. "crossed" \notin trouble' => Seen(z, loop, conn) BY <2>1, <2>3, <2>4 DEF Seen
  <2> HIDE DEF to
  <2>6. JobShape(z) BY <1>0, <2>1, <2>2, <2>3 DEF JobShape
  <2>7. Owned' BY <2>1, <2>2, <2>3, OwnerMoves DEF Owns
  <2> QED BY <1>t, <2>1, <2>3, <2>5, <2>6, <2>7, JobMoves
<1>8. ASSUME DoneWaiting(j) PROVE IoInv'
  <2> DEFINE w == IF x.saw # "done" /\ conn = "error" THEN "failed" ELSE x.saw
  <2>1. /\ x.at = "waiting" /\ conn \in {"idle", "error"}
        /\ jobs' = [jobs EXCEPT ![j].at = "fetched", ![j].saw = w]
        /\ UNCHANGED <<sched, loop, conn, restarting, wish, ongoing, slot, trouble>>
    BY <1>0, <1>8 DEF DoneWaiting, AllWorkDone
  <2>2. w \in {"none", "no", "begun", "done", "failed"} BY <1>0 DEF JobSet
  <2>3. Alone /\ z \in JobSet /\ z.kind = x.kind /\ z.at = "fetched" /\ z.guard = x.guard /\ z.saw = w
    <3> HIDE DEF w
    <3> QED BY <1>0, <2>1, <2>2 DEF JobSet
  <2>4. "crossed" \notin trouble' => Seen(z, loop, conn) BY <1>0, <2>1, <2>3 DEF Seen
  <2> HIDE DEF w
  <2>5. JobShape(z) BY <1>0, <2>1, <2>3 DEF JobShape
  <2>6. Owned' BY <2>1, <2>3, OwnerMoves DEF Owns
  <2> QED BY <1>t, <2>1, <2>3, <2>4, <2>5, <2>6, JobMoves
<1>9. ASSUME OwnRound(j) PROVE IoInv'
  <2>1. /\ x.at = "working" /\ x.kind = "fetch"
        /\ jobs' = [jobs EXCEPT ![j].at = "fetched", ![j].saw = "done", ![j].guard = "dropped"]
        /\ UNCHANGED <<sched, loop, conn, restarting, wish, ongoing, slot, trouble>>
    BY <1>9 DEF OwnRound
  <2>2. Alone /\ z \in JobSet /\ z.kind = "fetch" /\ z.at = "fetched" /\ z.guard = "dropped" /\ z.saw = "done"
    BY <1>0, <2>1 DEF JobSet
  <2>3. JobShape(z) /\ x.guard = "held" BY <1>0, <2>1, <2>2 DEF JobShape, NeedsGuard
  <2>4. Owned' BY <2>1, <2>2, OwnerMoves DEF Owns
  <2>5. Seen(z, loop, conn) BY <2>2 DEF Seen
  <2> QED BY <1>t, <2>1, <2>2, <2>3, <2>4, <2>5, JobMoves
<1>10. ASSUME EndFetch(j) PROVE IoInv'
  <2> DEFINE g == IF x.guard = "held" THEN "dropped" ELSE x.guard
  <2>1. /\ x.kind = "fetch" /\ slot' = NoJob /\ jobs' = [jobs EXCEPT ![j].at = "ended", ![j].guard = g]
        /\ UNCHANGED <<sched, loop, conn, restarting, wish, ongoing, trouble>>
    BY <1>0, <1>10 DEF EndFetch
  <2>2. g \in {"none", "held", "dropped"} /\ (g = "none" <=> x.guard = "none") BY <1>0 DEF JobSet
  <2> HIDE DEF g
  <2>3. Alone /\ z \in JobSet /\ z.kind = x.kind /\ z.at = "ended" /\ z.guard = g BY <1>0, <2>1, <2>2 DEF JobSet
  <2>4. JobShape(z) BY <2>3 DEF JobShape
  <2>5. Owned' BY <2>1, <2>3, OwnerMoves DEF Owns
  <2>6. Seen(z, loop, conn) BY <2>3 DEF Seen
  <2> QED BY <1>t, <2>1, <2>2, <2>3, <2>4, <2>5, <2>6, JobMoves
<1> QED BY <1>1, <1>2, <1>3, <1>4, <1>5, <1>6, <1>7, <1>8, <1>9, <1>10

\* The network, the calls that stop jobs, and the rounds of the loop
LEMMA LoopKeeps ==
    ASSUME IoInv,
           \/ NetworkLost \/ StopOngoing \/ StopBackgroundFetch
           \/ \E b \in BOOLEAN : LoopConnects(b) \/ LoopWakes(b)
           \/ LoopIdles
           \/ \E j \in Jobs : IdleInterrupted(j)
    PROVE  IoInv'
<1>0. /\ IoTypes /\ Shaped /\ Owned /\ Fetching /\ DOMAIN jobs = Jobs
      /\ \A j \in Jobs : jobs[j] \in JobSet /\ JobShape(jobs[j])
  BY DEF IoInv, IoRest, Shaped, JobShape, IoTypes
<1>1. CASE NetworkLost
  <2>1. /\ conn' = (IF conn \in {"uninit", "error"} THEN conn ELSE "error") /\ sched.st = "started"
        /\ UNCHANGED <<sched, loop, jobs, ongoing, slot, restarting, wish, trouble>>
    BY <1>1 DEF NetworkLost
  <2>2. IoTypes' BY <1>0, <2>1 DEF IoTypes
  <2>3. Fetching' BY <1>0, <2>1 DEF Fetching, Seen
  <2> QED BY <1>0, <2>1, <2>2, <2>3, QuietKeeps DEF Shaped, Owned
<1>2. CASE StopOngoing
  <2>1. /\ ongoing' = [ongoing EXCEPT !.st = "shallstop"]
        /\ jobs' = [j \in Jobs |-> IF j = ongoing.by THEN [jobs[j] EXCEPT !.stop = TRUE] ELSE jobs[j]]
        /\ UNCHANGED <<sched, loop, conn, slot, restarting, wish, trouble>>
    BY <1>2 DEF StopOngoing
  <2>2. /\ ongoing' \in [st : {"stopped", "running", "shallstop"}, by : Jobs \cup {NoJob}]
        /\ ongoing'.by = ongoing.by /\ ongoing'.st = "shallstop"
    BY <1>0, <2>1 DEF IoTypes
  <2>3. \A j \in Jobs : /\ jobs'[j] \in JobSet /\ jobs'[j].kind = jobs[j].kind /\ jobs'[j].at = jobs[j].at
                       /\ jobs'[j].guard = jobs[j].guard /\ jobs'[j].saw = jobs[j].saw
    <3> SUFFICES ASSUME NEW j \in Jobs
                 PROVE  /\ jobs'[j] \in JobSet /\ jobs'[j].kind = jobs[j].kind /\ jobs'[j].at = jobs[j].at
                        /\ jobs'[j].guard = jobs[j].guard /\ jobs'[j].saw = jobs[j].saw
      OBVIOUS
    <3>1. jobs'[j] = jobs[j] \/ jobs'[j] = [jobs[j] EXCEPT !.stop = TRUE] BY <2>1
    <3>2. jobs[j] \in JobSet BY <1>0
    <3> QED BY <3>1, <3>2 DEF JobSet
  <2>4. IoTypes' BY <1>0, <2>1, <2>2 DEF IoTypes
  <2>5. Shaped' BY <1>0, <2>3 DEF Shaped, JobShape
  <2>6. Owned' BY <1>0, <2>2, <2>3 DEF Owned, Owns
  <2>7. Fetching' BY <1>0, <2>1, <2>3 DEF Fetching, Seen
  <2> QED BY <2>1, <2>3, <2>4, <2>5, <2>6, <2>7, QuietKeeps
<1>3. CASE StopBackgroundFetch
  <2>1. /\ slot \in Jobs /\ slot' = NoJob /\ jobs' = [jobs EXCEPT ![slot].stop = TRUE]
        /\ UNCHANGED <<sched, loop, conn, ongoing, restarting, wish, trouble>>
    BY <1>0, <1>3 DEF StopBackgroundFetch, IoTypes
  <2>2. DOMAIN jobs' = Jobs BY <1>0, <2>1
  <2>3. \A j \in Jobs : /\ jobs'[j] \in JobSet /\ jobs'[j].kind = jobs[j].kind /\ jobs'[j].at = jobs[j].at
                       /\ jobs'[j].guard = jobs[j].guard /\ jobs'[j].saw = jobs[j].saw
    <3> SUFFICES ASSUME NEW j \in Jobs
                 PROVE  /\ jobs'[j] \in JobSet /\ jobs'[j].kind = jobs[j].kind /\ jobs'[j].at = jobs[j].at
                        /\ jobs'[j].guard = jobs[j].guard /\ jobs'[j].saw = jobs[j].saw
      OBVIOUS
    <3>1. jobs'[j] = jobs[j] \/ jobs'[j] = [jobs[j] EXCEPT !.stop = TRUE] BY <1>0, <2>1
    <3>2. jobs[j] \in JobSet BY <1>0
    <3> QED BY <3>1, <3>2 DEF JobSet
  <2>4. IoTypes' BY <1>0, <2>1, <2>2 DEF IoTypes
  <2>5. Shaped' BY <1>0, <2>3 DEF Shaped, JobShape
  <2>6. Owned' BY <1>0, <2>1, <2>3 DEF Owned, Owns
  <2>7. Fetching' BY <1>0, <2>1, <2>3 DEF Fetching, Seen
  <2> QED BY <2>1, <2>3, <2>4, <2>5, <2>6, <2>7, QuietKeeps
\* A round that begins has every fetch begun; one that ends has it done.
<1>4. ASSUME NEW from, NEW to, from \in {"no", "begun"}, to \in {"begun", "done"}, from = "no" <=> to = "begun",
             jobs' = [j \in Jobs |-> IF jobs[j].saw = from THEN [jobs[j] EXCEPT !.saw = to] ELSE jobs[j]],
             UNCHANGED <<sched, ongoing, slot, restarting, wish, trouble>>, sched.st = "started",
             loop' \in {"fetch", "idling"}, loop' = "fetch" => from = "no" /\ (conn' = conn \/ conn' = "busy"),
             loop' = "idling" => from = "begun" /\ loop = "fetch"
      PROVE  IoInv'
  <2>1. \A j \in Jobs : /\ jobs'[j] \in JobSet /\ jobs'[j].kind = jobs[j].kind /\ jobs'[j].at = jobs[j].at
                       /\ jobs'[j].guard = jobs[j].guard
                       /\ jobs'[j].saw = IF jobs[j].saw = from THEN to ELSE jobs[j].saw
    <3> SUFFICES ASSUME NEW j \in Jobs
                 PROVE  /\ jobs'[j] \in JobSet /\ jobs'[j].kind = jobs[j].kind /\ jobs'[j].at = jobs[j].at
                        /\ jobs'[j].guard = jobs[j].guard
                        /\ jobs'[j].saw = IF jobs[j].saw = from THEN to ELSE jobs[j].saw
      OBVIOUS
    <3>1. jobs'[j] = IF jobs[j].saw = from THEN [jobs[j] EXCEPT !.saw = to] ELSE jobs[j] BY <1>4
    <3>2. jobs[j] \in JobSet /\ to \in {"begun", "done"} BY <1>0, <1>4
    <3> QED BY <3>1, <3>2 DEF JobSet
  <2>2. DOMAIN jobs' = Jobs BY <1>4
  <2>3. IoTypes' BY <1>0, <1>4, <2>2 DEF IoTypes
  <2>4. Shaped'
    <3> SUFFICES ASSUME NEW j \in Jobs PROVE JobShape(jobs'[j]) BY DEF Shaped
    <3> QED BY <1>0, <1>4, <2>1 DEF JobShape
  <2>5. Owned' BY <1>0, <1>4, <2>1 DEF Owned, Owns
  <2>6. Fetching'
    <3> SUFFICES ASSUME NEW j \in Jobs, "crossed" \notin trouble' PROVE Seen(jobs'[j], loop', conn') BY DEF Fetching
    <3>1. Seen(jobs[j], loop, conn) BY <1>0, <1>4 DEF Fetching
    <3>2. jobs[j].at = "waiting" => jobs[j].saw \in {"no", "begun", "done"} BY <1>0 DEF JobShape
    <3>3. CASE loop' = "fetch" BY <1>4, <2>1, <3>1, <3>2, <3>3 DEF Seen
    <3>4. CASE loop' = "idling" BY <1>4, <2>1, <3>1, <3>2, <3>4 DEF Seen
    <3> QED BY <1>4, <3>3, <3>4
  <2> QED BY <1>4, <2>1, <2>3, <2>4, <2>5, <2>6, QuietKeeps
<1>5. ASSUME NEW b \in BOOLEAN, LoopConnects(b) PROVE IoInv'
  <2>0. sched.st = "started" BY <1>0, <1>5 DEF LoopConnects, IoTypes
  <2>1. CASE b
    <3>1. UNCHANGED <<sched, jobs, ongoing, slot, restarting, wish, trouble, loop>> /\ conn' = "error"
      BY <1>5, <2>1 DEF LoopConnects
    <3>2. IoTypes' BY <1>0, <2>0, <3>1 DEF IoTypes
    <3>3. Fetching' BY <1>0, <3>1 DEF Fetching, Seen
    <3> QED BY <1>0, <3>1, <3>2, <3>3, QuietKeeps DEF Shaped, Owned
  <2>2. CASE ~b
    <3>1. /\ loop' = "fetch" /\ conn' = "busy" /\ UNCHANGED <<sched, ongoing, slot, restarting, wish, trouble>>
          /\ jobs' = [j \in Jobs |-> IF jobs[j].saw = "no" THEN [jobs[j] EXCEPT !.saw = "begun"] ELSE jobs[j]]
      BY <1>5, <2>2 DEF LoopConnects
    <3> QED BY <1>4, <2>0, <3>1
  <2> QED BY <2>1, <2>2
<1>6. ASSUME NEW b \in BOOLEAN, LoopWakes(b) PROVE IoInv'
  <2>0. sched.st = "started" BY <1>0, <1>6 DEF LoopWakes, IoTypes
  <2>1. /\ loop' = "fetch" /\ (conn' = conn \/ conn' = "busy") /\ UNCHANGED <<sched, ongoing, slot, restarting, wish, trouble>>
        /\ jobs' = [j \in Jobs |-> IF jobs[j].saw = "no" THEN [jobs[j] EXCEPT !.saw = "begun"] ELSE jobs[j]]
    BY <1>6 DEF LoopWakes
  <2> QED BY <1>4, <2>0, <2>1
<1>7. ASSUME LoopIdles PROVE IoInv'
  <2>0. sched.st = "started" BY <1>0, <1>7 DEF LoopIdles, IoTypes
  <2>1. /\ loop = "fetch" /\ loop' = "idling" /\ UNCHANGED <<sched, ongoing, slot, restarting, wish, trouble>>
        /\ jobs' = [j \in Jobs |-> IF jobs[j].saw = "begun" THEN [jobs[j] EXCEPT !.saw = "done"] ELSE jobs[j]]
    BY <1>7 DEF LoopIdles
  <2> QED BY <1>4, <2>0, <2>1
<1>8. ASSUME NEW j \in Jobs, IdleInterrupted(j) PROVE IoInv'
  <2>1. /\ jobs[j].at = "marking" /\ jobs' = [jobs EXCEPT ![j].at = "waiting"]
        /\ conn' = (IF conn = "idle" THEN "interrupting" ELSE conn)
        /\ UNCHANGED <<sched, loop, ongoing, slot, restarting, wish, trouble>>
    BY <1>8 DEF IdleInterrupted, StepTo
  <2>2. /\ DOMAIN jobs' = Jobs /\ jobs'[j] \in JobSet /\ jobs'[j].kind = jobs[j].kind /\ jobs'[j].at = "waiting"
        /\ jobs'[j].guard = jobs[j].guard /\ jobs'[j].saw = jobs[j].saw
        /\ \A i \in Jobs \ {j} : jobs'[i] = jobs[i]
    BY <1>0, <2>1 DEF JobSet
  <2>3. IoTypes' BY <1>0, <2>1, <2>2 DEF IoTypes
  <2>4. Shaped'
    <3> SUFFICES ASSUME NEW i \in Jobs PROVE JobShape(jobs'[i]) BY DEF Shaped
    <3>1. CASE i = j BY <1>0, <2>1, <2>2, <3>1 DEF JobShape
    <3>2. CASE i # j BY <1>0, <2>2, <3>2
    <3> QED BY <3>1, <3>2
  <2>5. Owned' BY <1>0, <2>1, <2>2, OwnerMoves DEF Owns
  <2>6. Fetching'
    <3> SUFFICES ASSUME NEW i \in Jobs, "crossed" \notin trouble' PROVE Seen(jobs'[i], loop', conn') BY DEF Fetching
    <3>0. Seen(jobs[i], loop, conn) /\ conn' # "idle" BY <1>0, <2>1 DEF Fetching
    <3>1. CASE i = j BY <2>1, <2>2, <3>0, <3>1 DEF Seen
    <3>2. CASE i # j BY <2>1, <2>2, <3>0, <3>2 DEF Seen
    <3> QED BY <3>1, <3>2
  <2>7. \A i \in Jobs : jobs'[i].guard = "none" <=> jobs[i].guard = "none" BY <2>2
  <2> QED BY <2>1, <2>3, <2>4, <2>5, <2>6, <2>7, QuietKeeps
<1> QED BY <1>1, <1>2, <1>3, <1>5, <1>6, <1>7, <1>8

\* A job takes its guard: SchedulerState::pause.
LEMMA TakeKeeps ==
    ASSUME IoInv, NEW j \in Jobs, TakeGuard(j)
    PROVE  IoInv'
<1> DEFINE x == jobs[j]
           z == jobs'[j]
<1>0. /\ IoTypes /\ Shaped /\ Owned /\ Fetching /\ PausedByGuards /\ AsWished /\ DOMAIN jobs = Jobs
      /\ x \in JobSet /\ JobShape(x) /\ sched \in SchedSet /\ sched.st \in {"started", "stopped", "paused"}
      /\ sched.started \in BOOLEAN /\ sched.count \in Nat
  BY DEF IoInv, IoRest, Shaped, JobShape, IoTypes, SchedSet
<1>1. /\ x.at = "pausing" /\ Pause /\ jobs' = [jobs EXCEPT ![j].at = "working", ![j].guard = "held"]
      /\ UNCHANGED <<ongoing, slot, restarting, wish, trouble>>
  BY DEF TakeGuard
<1>2. /\ DOMAIN jobs' = Jobs /\ z \in JobSet /\ z.kind = x.kind /\ z.at = "working" /\ z.guard = "held"
      /\ \A i \in Jobs \ {j} : jobs'[i] = jobs[i]
  BY <1>0, <1>1 DEF JobSet
<1>3. x.guard = "none" /\ NeedsGuard(x.kind) BY <1>0, <1>1 DEF JobShape
<1>4. Shaped'
  <2>1. JobShape(z) BY <1>2, <1>3 DEF JobShape, NeedsGuard
  <2> SUFFICES ASSUME NEW i \in Jobs PROVE JobShape(jobs'[i]) BY DEF Shaped
  <2>2. CASE i = j BY <2>1, <2>2
  <2>3. CASE i # j BY <1>0, <1>2, <2>3 DEF Shaped
  <2> QED BY <2>2, <2>3
<1>5. Owned'
  <2>1. Owns(j, x, ongoing) BY <1>0 DEF Owned
  <2>2. Owns(j, z, ongoing') BY <1>1, <1>2, <2>1 DEF Owns
  <2> QED BY <1>1, <1>2, <2>2, OwnerMoves
<1>6. /\ Guards' = Guards \cup {j} /\ j \notin Guards BY <1>2, <1>3 DEF Guards
<1>7. /\ IsFiniteSet(Guards) /\ Cardinality(Guards) \in Nat BY GuardsFinite
<1>8. Cardinality(Guards') = Cardinality(Guards) + 1 /\ Guards' # {} BY <1>6, <1>7, FS_AddElement
<1>9. ASSUME loop' = loop, conn' = conn PROVE Fetching'
  <2> SUFFICES ASSUME NEW i \in Jobs, "crossed" \notin trouble PROVE Seen(jobs'[i], loop, conn)
    BY <1>1, <1>9 DEF Fetching
  <2>1. CASE i = j BY <1>2, <2>1 DEF Seen
  <2>2. CASE i # j BY <1>0, <1>2, <2>2 DEF Fetching
  <2> QED BY <2>1, <2>2
<1>10. CASE sched.st = "paused"
  <2> DEFINE n == sched.count + 1
  <2>1. sched' = [sched EXCEPT !.count = n] /\ UNCHANGED <<loop, conn>> BY <1>0, <1>1, <1>10 DEF Pause
  <2>2. n \in Nat /\ n > 0 BY <1>0
  <2> HIDE DEF n
  <2>3. sched' \in SchedSet /\ sched'.st = "paused" /\ sched'.started = sched.started /\ sched'.count = n
    BY <1>0, <1>10, <2>1, <2>2 DEF SchedSet
  <2>4. IoTypes' BY <1>0, <1>1, <1>2, <1>10, <2>1, <2>2, <2>3 DEF IoTypes
  <2>5. "unstarted" \in trouble \/ sched.count = Cardinality(Guards) BY <1>0, <1>10 DEF PausedByGuards
  <2>6. PausedByGuards' BY <1>1, <1>8, <2>3, <2>5 DEF PausedByGuards, n
  <2>7. Wanted' = Wanted BY <1>10, <2>3 DEF Wanted
  <2>8. AsWished' BY <1>0, <1>1, <2>7 DEF AsWished
  <2> QED BY <1>4, <1>5, <1>9, <2>1, <2>4, <2>6, <2>8 DEF IoInv, IoRest
<1>11. CASE sched.st # "paused"
  <2>1. /\ sched' = [st |-> "paused", started |-> (sched.st = "started"), count |-> 1]
        /\ loop' = "off" /\ conn' = "uninit"
    <3>1. CASE sched.st = "started" BY <1>1, <3>1 DEF Pause, DoStop
    <3>2. CASE sched.st = "stopped" BY <1>1, <3>2 DEF Pause, DoStop
    <3> QED BY <1>0, <1>11, <3>1, <3>2
  <2>2. IoTypes' BY <1>0, <1>1, <1>2, <2>1 DEF IoTypes, SchedSet
  <2>3. Fetching'
    <3> SUFFICES ASSUME NEW i \in Jobs, "crossed" \notin trouble PROVE Seen(jobs'[i], loop', conn')
      BY <1>1 DEF Fetching
    <3>1. CASE i = j BY <1>2, <3>1 DEF Seen
    <3>2. CASE i # j BY <1>0, <1>2, <2>1, <3>2 DEF Fetching, Seen
    <3> QED BY <3>1, <3>2
  <2>4. "unstarted" \in trouble \/ Guards = {} BY <1>0, <1>11 DEF PausedByGuards
  <2>5. Guards = {} => Cardinality(Guards) = 0 BY FS_EmptySet
  <2>6. PausedByGuards' BY <1>1, <1>8, <2>1, <2>4, <2>5 DEF PausedByGuards
  <2>7. Wanted' = Wanted BY <1>0, <1>11, <2>1 DEF Wanted
  <2>8. AsWished' BY <1>0, <1>1, <2>7 DEF AsWished
  <2> QED BY <1>4, <1>5, <2>2, <2>3, <2>6, <2>8 DEF IoInv, IoRest
<1> QED BY <1>10, <1>11

\* A dropped guard resumes the scheduler when it is the last.
LEMMA ResumeKeeps ==
    ASSUME IoInv, NEW j \in Jobs, NEW b \in BOOLEAN, Resume(j, b)
    PROVE  IoInv'
<1> DEFINE x == jobs[j]
           z == jobs'[j]
<1>0. /\ IoTypes /\ Shaped /\ Owned /\ Fetching /\ PausedByGuards /\ AsWished /\ DOMAIN jobs = Jobs
      /\ x \in JobSet /\ JobShape(x) /\ sched \in SchedSet /\ sched.st \in {"started", "stopped", "paused"}
      /\ sched.started \in BOOLEAN /\ sched.count \in Nat
  BY DEF IoInv, IoRest, Shaped, JobShape, IoTypes, SchedSet
<1>1. /\ x.guard = "dropped" /\ jobs' = [jobs EXCEPT ![j].guard = "none"]
      /\ trouble' = (IF b THEN trouble \cup {"unstarted"} ELSE trouble)
      /\ b => sched.st = "paused" /\ sched.count = 1 /\ sched.started
      /\ UNCHANGED <<ongoing, slot, restarting, wish>>
  BY DEF Resume
<1>2. /\ DOMAIN jobs' = Jobs /\ z \in JobSet /\ z.kind = x.kind /\ z.at = x.at /\ z.guard = "none" /\ z.saw = x.saw
      /\ \A i \in Jobs \ {j} : jobs'[i] = jobs[i]
  BY <1>0, <1>1 DEF JobSet
<1>3. Shaped'
  <2>1. JobShape(z) BY <1>0, <1>1, <1>2 DEF JobShape
  <2> SUFFICES ASSUME NEW i \in Jobs PROVE JobShape(jobs'[i]) BY DEF Shaped
  <2>2. CASE i = j BY <2>1, <2>2
  <2>3. CASE i # j BY <1>0, <1>2, <2>3 DEF Shaped
  <2> QED BY <2>2, <2>3
<1>4. Owned'
  <2>1. Owns(j, x, ongoing) BY <1>0 DEF Owned
  <2>2. Owns(j, z, ongoing') BY <1>1, <1>2, <2>1 DEF Owns
  <2> QED BY <1>1, <1>2, <2>2, OwnerMoves
<1>5. Guards' = Guards \ {j} /\ j \in Guards BY <1>1, <1>2 DEF Guards
<1>6. IsFiniteSet(Guards) /\ Cardinality(Guards) \in Nat BY GuardsFinite
<1>7. IsFiniteSet(Guards') /\ Cardinality(Guards') = Cardinality(Guards) - 1 BY <1>5, <1>6, FS_RemoveElement
<1>8. Cardinality(Guards') = 0 <=> Guards' = {} BY <1>7, FS_EmptySet
<1>9. ASSUME (loop' = loop /\ conn' = conn) \/ (conn' = "uninit" /\ loop' # "fetch") PROVE Fetching'
  <2> SUFFICES ASSUME NEW i \in Jobs, "crossed" \notin trouble' PROVE Seen(jobs'[i], loop', conn')
    BY DEF Fetching
  <2>1. Seen(jobs[i], loop, conn) BY <1>0, <1>1 DEF Fetching
  <2>2. jobs'[i].at = jobs[i].at /\ jobs'[i].saw = jobs[i].saw BY <1>2
  <2> QED BY <1>9, <2>1, <2>2 DEF Seen
<1>10. "unstarted" \in trouble \/ (sched.st = "paused" /\ sched.count = Cardinality(Guards))
  BY <1>0, <1>5 DEF PausedByGuards
<1>11. CASE sched.st # "paused"
  <2>1. UNCHANGED <<sched, loop, conn>> /\ trouble' = trouble BY <1>1, <1>11 DEF Resume
  <2>2. IoTypes' BY <1>0, <1>1, <1>2, <2>1 DEF IoTypes
  <2>3. PausedByGuards' BY <1>10, <1>11, <2>1 DEF PausedByGuards
  <2>4. Wanted' = Wanted BY <2>1 DEF Wanted
  <2>5. AsWished' BY <1>0, <1>1, <2>1, <2>4 DEF AsWished
  <2>6. Fetching' BY <1>9, <2>1
  <2> QED BY <1>3, <1>4, <2>2, <2>3, <2>5, <2>6 DEF IoInv, IoRest
<1>12. CASE sched.st = "paused" /\ sched.count # 1
  <2> DEFINE n == sched.count - 1
  <2>1. sched' = [sched EXCEPT !.count = n] /\ UNCHANGED <<loop, conn>> /\ trouble' = trouble
    BY <1>0, <1>1, <1>12 DEF Resume
  <2>2. n \in Nat /\ n > 0 BY <1>0, <1>12 DEF IoTypes
  <2>3. "unstarted" \in trouble \/ n = Cardinality(Guards') BY <1>6, <1>7, <1>10
  <2> HIDE DEF n
  <2>4. sched' \in SchedSet /\ sched'.st = "paused" /\ sched'.started = sched.started /\ sched'.count = n
    BY <1>0, <1>12, <2>1, <2>2 DEF SchedSet
  <2>5. IoTypes' BY <1>0, <1>1, <1>2, <1>12, <2>1, <2>2, <2>4 DEF IoTypes
  <2>6. PausedByGuards' BY <1>7, <1>8, <2>1, <2>2, <2>3, <2>4 DEF PausedByGuards
  <2>7. Wanted' = Wanted BY <1>12, <2>4 DEF Wanted
  <2>8. AsWished' BY <1>0, <1>1, <2>1, <2>7 DEF AsWished
  <2>9. Fetching' BY <1>9, <2>1
  <2> QED BY <1>3, <1>4, <2>5, <2>6, <2>8, <2>9 DEF IoInv, IoRest
<1>13. CASE sched.st = "paused" /\ sched.count = 1 /\ ~sched.started
  <2>1. /\ sched' = [st |-> "stopped", started |-> FALSE, count |-> 0] /\ loop' = "off" /\ conn' = "uninit"
        /\ trouble' = trouble
    BY <1>1, <1>13 DEF Resume, DoStop
  <2>2. IoTypes' BY <1>0, <1>1, <1>2, <2>1 DEF IoTypes, SchedSet
  <2>3. PausedByGuards' BY <1>7, <1>8, <1>10, <1>13, <2>1 DEF PausedByGuards
  <2>4. Wanted' = Wanted BY <1>0, <1>13, <2>1 DEF Wanted
  <2>5. AsWished' BY <1>0, <1>1, <2>1, <2>4 DEF AsWished
  <2>6. Fetching' BY <1>9, <2>1
  <2> QED BY <1>3, <1>4, <2>2, <2>3, <2>5, <2>6 DEF IoInv, IoRest
<1>14. CASE sched.st = "paused" /\ sched.count = 1 /\ sched.started /\ ~b
  <2>1. /\ sched' = [st |-> "started", started |-> FALSE, count |-> 0] /\ loop' = "connect" /\ conn' = "uninit"
        /\ trouble' = trouble
    BY <1>1, <1>14 DEF Resume, DoStart
  <2>2. IoTypes' BY <1>0, <1>1, <1>2, <2>1 DEF IoTypes, SchedSet
  <2>3. PausedByGuards' BY <1>7, <1>8, <1>10, <1>14, <2>1 DEF PausedByGuards
  <2>4. Wanted' = Wanted BY <1>0, <1>14, <2>1 DEF Wanted
  <2>5. AsWished' BY <1>0, <1>1, <2>1, <2>4 DEF AsWished
  <2>6. Fetching' BY <1>9, <2>1
  <2> QED BY <1>3, <1>4, <2>2, <2>3, <2>5, <2>6 DEF IoInv, IoRest
<1>15. CASE sched.st = "paused" /\ sched.count = 1 /\ sched.started /\ b
  <2>1. UNCHANGED <<sched, loop, conn>> /\ "unstarted" \in trouble' BY <1>1, <1>15 DEF Resume, DoStart
  <2>2. IoTypes' BY <1>0, <1>1, <1>2, <2>1 DEF IoTypes
  <2>3. PausedByGuards' /\ AsWished' BY <2>1 DEF PausedByGuards, AsWished
  <2>4. Fetching' BY <1>9, <2>1
  <2> QED BY <1>3, <1>4, <2>2, <2>3, <2>4 DEF IoInv, IoRest
<1> QED BY <1>11, <1>12, <1>13, <1>14, <1>15

\* Every step keeps the invariant.
LEMMA IoStays == IoInv /\ [IoNext]_ioVars => IoInv'
<1> SUFFICES ASSUME IoInv, [IoNext]_ioVars PROVE IoInv' OBVIOUS
<1>1. CASE UNCHANGED ioVars
  <2>1. UNCHANGED <<sched, loop, conn, jobs, ongoing, slot, restarting, wish, trouble>> BY <1>1 DEF ioVars
  <2> QED BY <2>1, QuietKeeps DEF IoInv, IoRest, IoTypes, Shaped, Owned, Fetching
<1>2. CASE LoopStep BY <1>2, LoopKeeps DEF LoopStep
<1>3. ASSUME NEW j \in Jobs, JobStep(j) PROVE IoInv'
  BY <1>3, JobsKeep, LoopKeeps, TakeKeeps, ResumeKeeps DEF JobStep
<1> QED BY <1>1, <1>2, <1>3, CallsKeep, LoopKeeps, JobsKeep DEF IoNext

\* It says what IoSafe says.
LEMMA IoRight == IoInv => IoSafe
<1> SUFFICES ASSUME IoInv PROVE IoSafe OBVIOUS
<1>1. IoTypeOK BY DEF IoInv, IoRest, IoTypes, IoTypeOK, SchedSet
<1>2. PausedByGuards BY DEF IoInv, IoRest
<1>3. AsLastAsked BY <1>2 DEF IoInv, IoRest, AsWished, Wanted, AsLastAsked, PausedByGuards
<1>4. OneOngoing
  <2> DEFINE S == {j \in Jobs : NeedsOngoing(jobs[j].kind) /\ jobs[j].at \in {"pausing", "working", "freeing"}}
  <2>1. S \subseteq {ongoing.by} BY DEF IoInv, IoRest, Owned, Owns
  <2>2. IsFiniteSet({ongoing.by}) /\ Cardinality({ongoing.by}) = 1 BY FS_Singleton
  <2>3. Cardinality(S) <= 1 BY <2>1, <2>2, FS_Subset
  <2> QED BY <2>3 DEF OneOngoing
<1>5. FetchedSince BY DEF IoInv, IoRest, Fetching, Seen, FetchedSince
<1> QED BY <1>1, <1>2, <1>3, <1>4, <1>5 DEF IoSafe

\* For any jobs of any kinds, calls and failures: guards are counted and pause the loops, I/O is
\* as the user asked for last, one process at a time is ongoing, and a background fetch does not
\* report done before a round that began after it (SchedulerState, alloc_ongoing,
\* background_fetch).
THEOREM IoSound == IoSpec => []IoSafe
<1> QED BY IoStart, IoStays, IoRight, PTL DEF IoSpec

(***************************************************************************)
(* Reception: the inductive invariant.                                     *)
(***************************************************************************)

\* Rows, and where a mail may be while it is stored
RowSet == [id : Nat, mid : Nat, part : Nat, pre : Nat, text : 0..2, file : BOOLEAN, shown : BOOLEAN, dated : BOOLEAN,
           deleted : BOOLEAN, enriched : BOOLEAN]
Stages == {"handle", "write", "trash", "store", "enrich", "retain"}
ReceivingSet == [stage : Stages, relay : Relays, mail : ReceptionMails, id : Nat, done : SUBSET Nat]
DeliverySet == [relay : Relays, mail : ReceptionMails]

\* Mails that bring a message or half of one
Content == {m \in ReceptionMails : m.kind \in {"plain", "pre", "post"}}

\* What the variables hold; no two rows have one id.
RowTypes ==
    /\ msgs \in SUBSET RowSet /\ nextId \in Nat \ {0}
    /\ \A r \in msgs : r.id > 0 /\ r.id < nextId
    /\ \A r, s \in msgs : r.id = s.id => r = s
PastTypes ==
    past \in [came : SUBSET ReceptionMails, stored : SUBSET (Nat \X Nat), retracted : SUBSET Nat,
              gone : SUBSET (Nat \X Nat), edited : SUBSET Nat, cut : SUBSET ReceptionMails]
QueueTypes ==
    /\ imapRows \in SUBSET [relay : Relays, mail : ReceptionMails, target : {"keep", "delete"}]
    /\ pending \in SUBSET DeliverySet
    /\ job = NotReceiving \/ job \in ReceivingSet
    /\ job # NotReceiving => [relay |-> job.relay, mail |-> job.mail] \in pending

\* A row that the pruning of tombstones leaves
Placed(mid) == \E s \in msgs : s.mid = mid /\ s.dated
\* The rows of the mail that is being stored
Fresh == IF job = NotReceiving THEN {} ELSE job.done

\* Where a row comes from: the mail that it is of, its first half if that is named, and why it is there.
RowKnown(r) ==
    /\ \E m \in ReceptionMails : r.mid = m.of \/ (m \notin Content /\ r.mid = m.own)
    /\ r.pre # 0 => \E p \in ReceptionMails : p.kind = "pre" /\ p.own = r.pre /\ p.of = r.mid
    /\ r.deleted => r.mid \in past.retracted
    /\ \/ r.mid \in past.retracted \/ <<r.mid, 1>> \in past.stored
       \/ \E m \in ReceptionMails \ Content : r.mid = m.own

\* What is shown is a part of a message; the first part is the first row of its message, so
\* it is what a lookup finds, and the others come after it.
RowOrder(r) ==
    r.shown =>
      /\ r.dated
      /\ \E m \in Content : m.of = r.mid /\ r.part \in 1..m.parts
      /\ r.part = 1 => \A s \in msgs : s.mid = r.mid => r.id <= s.id
      /\ r.part # 1 => \E s \in msgs : s.mid = r.mid /\ s.dated /\ s.id < r.id
\* It was not deleted, and it is edited, joined and enriched as it should be.
RowState(r) ==
    r.shown =>
      /\ <<r.mid, r.part>> \notin past.gone
      /\ r.mid \in past.edited => r.text = 2
      /\ (\E m \in past.came : m.kind = "post" /\ m.of = r.mid) => r.file
      /\ r.enriched \/ r.id \in Fresh \/ \E m \in past.cut \cap Content : m.of = r.mid

\* What was deleted, edited or joined has a row.
PastPlaced ==
    /\ \A x \in past.gone : Placed(x[1])
    /\ \A mid \in past.edited : Placed(mid)
    /\ \A m \in past.came : m.kind = "post" => Placed(m.of)

\* All parts of the mail are stored, or it was deleted.
MailStored(m) == m.of \in past.retracted \/ \A k \in 1..m.parts : <<m.of, k>> \in past.stored

\* What is known of the mail that is being stored, at each stage
MailHandled ==
    job.stage = "handle" =>
      /\ job.done = {}
      /\ job.mail.kind # "post" => \A r \in msgs : r.mid # job.mail.own /\ r.pre # job.mail.own
RowWritten ==
    job.stage = "write" =>
      /\ job.mail.kind \in {"edit", "post"} /\ job.done = {}
      /\ \E s \in msgs : s.id = job.id /\ s.mid = job.mail.of /\ s.dated
      /\ \A r \in msgs : r.shown /\ r.mid = job.mail.of => r.id = job.id
PartsStored ==
    job.stage = "store" =>
      /\ job.mail \in Content /\ IsFiniteSet(job.done) /\ \A i \in job.done : i < nextId
      /\ Cardinality(job.done) < job.mail.parts
      /\ \A r \in msgs : r.mid = job.mail.of => r.part \in 1..Cardinality(job.done)
      /\ job.done # {} => Placed(job.mail.of)
      /\ \A k \in 1..Cardinality(job.done) : <<job.mail.of, k>> \in past.stored
      /\ \A x \in past.gone : x[1] = job.mail.of => x[2] <= Cardinality(job.done)
      /\ job.mail.of \notin past.edited
      /\ \A m \in past.came : m.kind = "post" /\ m.of = job.mail.of => job.mail.kind = "post"
MailFinished ==
    /\ job.stage \in {"write", "trash"} => job.mail.kind # "plain" /\ job.done = {}
    /\ job.stage \in {"write", "trash", "enrich", "retain"} /\ job.mail \in Content => MailStored(job.mail)
    /\ job.stage \in {"enrich", "retain"} /\ job.mail.kind = "plain" =>
         \A k \in 1..job.mail.parts : <<job.mail.of, k>> \in past.stored
    /\ job.stage \in {"store", "trash", "enrich", "retain"} /\ job.mail.kind = "post" =>
         \A r \in msgs : r.shown /\ r.mid = job.mail.of => r.file
    /\ job.stage \in {"enrich", "retain"} /\ job.mail.kind = "post" => Placed(job.mail.of)
    /\ job.stage = "retain" => job.done = {}
    /\ job.stage \in {"store", "enrich"} =>
         \A r \in msgs : r.id \in job.done /\ r.shown => job.mail \in Content /\ r.mid = job.mail.of
JobKnown == job # NotReceiving => MailHandled /\ RowWritten /\ PartsStored /\ MailFinished

\* A mail in one piece that was begun is complete, interrupted or under way.
MailBegun ==
    \A m \in ReceptionMails : m.kind = "plain" /\ <<m.of, 1>> \in past.stored =>
       \/ m \in past.cut \/ (job # NotReceiving /\ job.mail = m)
       \/ \A k \in 1..m.parts : <<m.of, k>> \in past.stored

\* The inductive invariant.
Origins == \A r \in msgs : RowKnown(r)
Orders == \A r \in msgs : RowOrder(r)
States == \A r \in msgs : RowState(r)
RowsInv == RowTypes /\ Origins /\ Orders /\ ShownOnce
ReceptionInv ==
    /\ RowsInv /\ PastTypes /\ QueueTypes /\ States /\ PastPlaced /\ JobKnown /\ MailBegun
    /\ StoredBeforeForgotten

-----------------------------------------------------------------------------
(* Mails and rows. *)

\* What is assumed of mails
LEMMA MailFacts ==
    /\ \A m \in ReceptionMails :
         /\ m.kind \in {"plain", "pre", "post", "edit", "delete"}
         /\ m.own \in Nat \ {0} /\ m.of \in Nat \ {0} /\ m.parts \in Nat \ {0}
    /\ \A m, n \in ReceptionMails : m.own = n.own => m = n
    /\ \A m \in ReceptionMails : m.own = m.of <=> m.kind \in {"plain", "post"}
    /\ \A m, n \in ReceptionMails : m.of = n.own => n.kind \in {"plain", "post"}
    /\ \A m, n \in ReceptionMails : m.kind = "pre" /\ m.of = n.of => n.kind # "plain"
    /\ \A m, n \in ReceptionMails : m.kind \in {"pre", "post", "edit"} /\ m.of = n.of => n.parts = 1
  BY ReceptionAssumption

\* A message in one mail has no other mail with a part of it.
LEMMA OneMail ==
    ASSUME NEW m \in ReceptionMails, m.kind = "plain", NEW n \in Content, n.of = m.of
    PROVE  n = m
<1>1. n \in ReceptionMails /\ n.kind \in {"plain", "pre", "post"} BY DEF Content
<1>2. n.kind # "pre" BY <1>1, MailFacts
<1>3. m.own = m.of /\ n.own = n.of BY <1>1, <1>2, MailFacts
<1> QED BY <1>1, <1>3, MailFacts

\* Rows are found by the message's id only, except those of first halves.
LEMMA NoneByPre ==
    ASSUME Origins, NEW m \in ReceptionMails, NEW r \in msgs
    PROVE  /\ r.pre # m.of
           /\ m.kind \in {"plain", "post"} => r.pre # m.own
           /\ m.kind = "pre" => r.mid # m.own
           /\ m.kind = "pre" /\ r.pre = m.own => r.mid = m.of
<1>1. RowKnown(r) BY DEF Origins
<1>2. m.of # 0 /\ m.own # 0 BY MailFacts
<1>3. r.pre # m.of BY <1>1, <1>2, MailFacts DEF RowKnown
<1>4. m.kind \in {"plain", "post"} => r.pre # m.own BY <1>1, <1>2, MailFacts DEF RowKnown
<1>5. ASSUME m.kind = "pre" PROVE r.mid # m.own
  <2>1. PICK n \in ReceptionMails : r.mid = n.of \/ (n \notin Content /\ r.mid = n.own) BY <1>1 DEF RowKnown
  <2>2. CASE r.mid = n.of BY <2>2, <1>5, MailFacts
  <2>3. CASE n \notin Content /\ r.mid = n.own BY <2>3, <1>5, MailFacts DEF Content
  <2> QED BY <2>1, <2>2, <2>3
<1>6. ASSUME m.kind = "pre", r.pre = m.own PROVE r.mid = m.of
  BY <1>1, <1>2, <1>6, MailFacts DEF RowKnown
<1> QED BY <1>3, <1>4, <1>5, <1>6

\* What a lookup finds
LEMMA FoundByMid ==
    ASSUME Origins, NEW m \in ReceptionMails
    PROVE  Rfc724MidExists(m.of) = {r.id : r \in {x \in msgs : x.mid = m.of}}
<1>1. {x \in msgs : x.mid = m.of \/ x.pre = m.of} = {x \in msgs : x.mid = m.of} BY NoneByPre
<1> QED BY <1>1 DEF Rfc724MidExists

\* The first of some rows
LEMMA FirstRow ==
    ASSUME RowTypes, NEW S \in SUBSET msgs, S # {}
    PROVE  \E r \in S : /\ First({x.id : x \in S}) = r.id /\ Row(r.id) = r
                        /\ \A s \in S : r.id <= s.id
<1> DEFINE ids == {x.id : x \in S}
<1>1. ids \subseteq Nat /\ ids # {} BY DEF RowTypes, RowSet
<1>2. \E i \in ids : \A j \in ids : i <= j BY <1>1, LeastThere
<1>3. First(ids) \in ids /\ \A j \in ids : First(ids) <= j BY <1>2 DEF First
<1>4. PICK r \in S : r.id = First(ids) BY <1>3
<1>5. Row(r.id) = r BY <1>4 DEF Row, RowTypes
<1> QED BY <1>3, <1>4, <1>5

\* A lookup that succeeds gives the first part, which is shown; one that fails leaves none of
\* the first parts.
LEMMA RowLoaded ==
    ASSUME RowsInv, NEW m \in ReceptionMails, NEW i, i = LoadFromDbOptional(Rfc724MidExists(m.of))
    PROVE  /\ i \in Nat
           /\ i # 0 => \E r \in msgs : r.id = i /\ r.mid = m.of /\ r.shown /\ r.part = 1
           /\ i = 0 => \A r \in msgs : r.mid = m.of /\ r.shown => r.part # 1
<1> DEFINE S == {x \in msgs : x.mid = m.of}
<1>1. Rfc724MidExists(m.of) = {x.id : x \in S} BY FoundByMid DEF RowsInv
<1>2. CASE S = {} BY <1>1, <1>2 DEF LoadFromDbOptional
<1>3. CASE S # {}
  <2>1. PICK r \in S : /\ First({x.id : x \in S}) = r.id /\ Row(r.id) = r
                        /\ \A s \in S : r.id <= s.id
    BY <1>3, FirstRow DEF RowsInv
  <2>2. r.id \in Nat /\ r.id # 0 /\ r.part \in Nat BY <2>1 DEF RowsInv, RowTypes, RowSet
  <2>3. {x.id : x \in S} # {} BY <1>3
  <2>4. i = IF r.shown THEN r.id ELSE 0 BY <1>1, <2>1, <2>3 DEF LoadFromDbOptional
  <2>5. RowOrder(r) BY <2>1 DEF RowsInv, Orders
  <2>6. ASSUME r.shown PROVE r.part = 1
    <3> SUFFICES ASSUME r.part # 1 PROVE FALSE OBVIOUS
    <3>1. PICK s \in msgs : s.mid = r.mid /\ s.dated /\ s.id < r.id BY <2>5, <2>6 DEF RowOrder
    <3>2. s \in S BY <2>1, <3>1
    <3>3. s.id \in Nat BY DEF RowsInv, RowTypes, RowSet
    <3> QED BY <2>1, <2>2, <3>1, <3>2, <3>3
  <2>7. ASSUME ~r.shown, NEW s \in msgs, s.mid = m.of, s.shown, s.part = 1 PROVE FALSE
    <3>1. s.id <= r.id BY <2>1, <2>7 DEF RowsInv, Orders, RowOrder
    <3>2. r.id <= s.id /\ s.id \in Nat BY <2>1, <2>7 DEF RowsInv, RowTypes, RowSet
    <3>3. r = s BY <2>1, <2>2, <3>1, <3>2 DEF RowsInv, RowTypes
    <3> QED BY <2>7, <3>3
  <2> QED BY <2>1, <2>2, <2>4, <2>6, <2>7
<1> QED BY <1>2, <1>3

-----------------------------------------------------------------------------
(* Rows that are written anew, and rows that are added. *)

\* What no statement changes of a row, and what it may change
SameRow(r, n) ==
    /\ n.id = r.id /\ n.mid = r.mid /\ n.part = r.part /\ n.dated = r.dated
    /\ n.pre = r.pre \/ \E p \in ReceptionMails : p.kind = "pre" /\ p.own = n.pre /\ p.of = n.mid
    /\ n.deleted => r.deleted \/ n.mid \in past'.retracted
    /\ n.shown => r.shown /\ (n.text = r.text \/ n.text = 2) /\ (r.file => n.file) /\ (r.enriched => n.enriched)
Rewritten ==
    /\ msgs' \in SUBSET RowSet
    /\ \A n \in msgs' : \E r \in msgs : SameRow(r, n)
    /\ \A r \in msgs : r.dated => \E n \in msgs' : SameRow(r, n)
\* Only one row comes from a row.
IdsApart == \A n, o \in msgs' : n.id = o.id => n = o
MoreKnown == past.stored \subseteq past'.stored /\ past.retracted \subseteq past'.retracted

\* Nothing changes, or every row is replaced by one that is the same in that sense.
LEMMA RowsSame ==
    ASSUME RowTypes, UNCHANGED msgs PROVE Rewritten /\ IdsApart
  BY DEF RowTypes, Rewritten, SameRow, IdsApart

\* Rows that are rewritten keep their order and stay known.
LEMMA RewrittenRows ==
    ASSUME RowsInv, Rewritten, IdsApart, MoreKnown, nextId' = nextId
    PROVE  RowsInv'
<1>1. RowTypes'
  BY DEF RowsInv, RowTypes, Rewritten, IdsApart, SameRow
<1>2. ASSUME NEW n \in msgs' PROVE RowKnown(n)'
  <2>1. PICK r \in msgs : SameRow(r, n) BY <1>2 DEF Rewritten
  <2>2. RowKnown(r) BY DEF RowsInv, Origins
  <2> QED BY <2>1, <2>2 DEF SameRow, RowKnown, MoreKnown
<1>3. ASSUME NEW n \in msgs', n.shown PROVE RowOrder(n)'
  <2>1. PICK r \in msgs : SameRow(r, n) BY <1>3 DEF Rewritten
  <2>2. RowOrder(r) /\ r.shown BY <1>3, <2>1 DEF RowsInv, Orders, SameRow
  <2>3. n.dated /\ \E m \in Content : m.of = n.mid /\ n.part \in 1..m.parts
    BY <2>1, <2>2 DEF RowOrder, SameRow
  <2>4. n.part = 1 => \A s \in msgs' : s.mid = n.mid => n.id <= s.id
    BY <2>1, <2>2 DEF RowOrder, SameRow, Rewritten
  <2>5. n.part # 1 => \E s \in msgs' : s.mid = n.mid /\ s.dated /\ s.id < n.id
    BY <2>1, <2>2 DEF RowOrder, SameRow, Rewritten
  <2> QED BY <2>3, <2>4, <2>5 DEF RowOrder
<1>4. ShownOnce'
  <2> SUFFICES ASSUME NEW n \in msgs', NEW o \in msgs', n.shown, o.shown, n.mid = o.mid, n.part = o.part
               PROVE  n = o
    BY DEF ShownOnce
  <2>1. PICK r \in msgs : SameRow(r, n) BY DEF Rewritten
  <2>2. PICK s \in msgs : SameRow(s, o) BY DEF Rewritten
  <2>3. r = s BY <2>1, <2>2 DEF SameRow, RowsInv, ShownOnce
  <2> QED BY <2>1, <2>2, <2>3 DEF SameRow, IdsApart
<1>5. Orders' BY <1>3 DEF Orders, RowOrder
<1> QED BY <1>1, <1>2, <1>4, <1>5 DEF RowsInv, Origins

\* Replacing rows one by one
LEMMA RowsReplaced ==
    ASSUME RowTypes, NEW S \in SUBSET msgs, NEW f, msgs' = {f[r] : r \in S},
           \A r \in msgs : r.dated => r \in S,
           \A r \in S : f[r] \in RowSet /\ SameRow(r, f[r])
    PROVE  Rewritten /\ IdsApart
<1>1. Rewritten BY DEF Rewritten
<1>2. IdsApart
  <2> SUFFICES ASSUME NEW n \in msgs', NEW o \in msgs', n.id = o.id PROVE n = o BY DEF IdsApart
  <2>1. PICK r \in S : n = f[r] OBVIOUS
  <2>2. PICK s \in S : o = f[s] OBVIOUS
  <2>3. r.id = s.id BY <2>1, <2>2 DEF SameRow
  <2>4. r = s BY <2>3 DEF RowTypes
  <2> QED BY <2>1, <2>2, <2>4
<1> QED BY <1>1, <1>2

\* A row of which something is known is added with the next id.
Added(x) ==
    /\ x \in RowSet /\ x.id = nextId /\ msgs' = msgs \cup {x} /\ nextId' = nextId + 1
    /\ RowKnown(x)' /\ RowOrder(x)'
    /\ x.shown => \A r \in msgs : r.shown /\ r.mid = x.mid => r.part # x.part

\* So do rows to which one is added.
LEMMA AddedRows ==
    ASSUME RowsInv, NEW x, Added(x), MoreKnown
    PROVE  RowsInv'
<1>1. RowTypes' BY DEF RowsInv, RowTypes, RowSet, Added
<1>2. ASSUME NEW n \in msgs PROVE RowKnown(n)'
  <2>1. RowKnown(n) BY DEF RowsInv, Origins
  <2> QED BY <2>1 DEF RowKnown, MoreKnown
<1>3. ASSUME NEW n \in msgs PROVE RowOrder(n)'
  <2>1. RowOrder(n) BY DEF RowsInv, Orders
  <2>2. n.id <= x.id BY DEF RowsInv, RowTypes, RowSet, Added
  <2> QED BY <2>1, <2>2 DEF RowOrder, Added
<1>4. ShownOnce' BY DEF ShownOnce, RowsInv, Added
<1> QED BY <1>1, <1>2, <1>3, <1>4 DEF RowsInv, Origins, Orders, Added

\* A message that has a row keeps one.
LEMMA StaysPlaced ==
    ASSUME NEW mid, Placed(mid), Rewritten \/ msgs \subseteq msgs'
    PROVE  Placed(mid)'
  BY DEF Placed, Rewritten, SameRow

-----------------------------------------------------------------------------
(* What most steps leave as it is. *)

\* Rewritten rows are edited, joined and enriched as they were.
LEMMA StatesStay ==
    ASSUME States, Rewritten, past'.gone = past.gone, past'.edited = past.edited, past'.came = past.came,
           past.cut \subseteq past'.cut, Fresh \subseteq Fresh'
    PROVE  States'
<1> SUFFICES ASSUME NEW n \in msgs', n.shown PROVE RowState(n)' BY DEF States, RowState
<1>1. PICK r \in msgs : SameRow(r, n) BY DEF Rewritten
<1>2. RowState(r) /\ r.shown BY <1>1 DEF States, SameRow
<1> QED BY <1>1, <1>2 DEF RowState, SameRow

\* What had a row has one.
LEMMA PastStays ==
    ASSUME PastPlaced, Rewritten \/ msgs \subseteq msgs', past'.gone = past.gone, past'.edited = past.edited,
           past'.came = past.came
    PROVE  PastPlaced'
  BY StaysPlaced DEF PastPlaced

\* What the server may forget is still stored.
LEMMA ForgottenStays ==
    ASSUME StoredBeforeForgotten, MoreKnown, imapRows' = imapRows PROVE StoredBeforeForgotten'
  BY DEF StoredBeforeForgotten, MoreKnown

\* A mail in one piece stays begun, complete or interrupted.
LEMMA BegunStays ==
    ASSUME MailBegun, past'.stored = past.stored, past.cut \subseteq past'.cut,
           job # NotReceiving => (job' # NotReceiving /\ job'.mail = job.mail) \/ job.mail.kind # "plain"
                                 \/ job.mail \in past'.cut
    PROVE  MailBegun'
  BY DEF MailBegun

\* A step that writes no row and learns nothing
NothingWritten == UNCHANGED <<msgs, nextId, past>>
\* Such a step changes nothing that is known of rows.
LEMMA QuietRows ==
    ASSUME ReceptionInv, NothingWritten, Fresh \subseteq Fresh' PROVE RowsInv' /\ PastTypes' /\ States' /\ PastPlaced'
<1>1. Rewritten /\ IdsApart BY RowsSame DEF ReceptionInv, RowsInv, NothingWritten
<1>2. MoreKnown BY DEF MoreKnown, NothingWritten
<1>3. RowsInv' BY <1>1, <1>2, RewrittenRows DEF ReceptionInv, NothingWritten
<1>4. States' BY <1>1, StatesStay DEF ReceptionInv, NothingWritten
<1>5. PastPlaced' BY <1>1, PastStays DEF ReceptionInv, NothingWritten
<1> QED BY <1>3, <1>4, <1>5 DEF ReceptionInv, PastTypes, NothingWritten

\* A job that has just been given a stage
LEMMA JobTyped ==
    ASSUME QueueTypes, job # NotReceiving, job' \in ReceivingSet, job'.relay = job.relay, job'.mail = job.mail,
           UNCHANGED <<imapRows, pending>>
    PROVE  QueueTypes' /\ job' # NotReceiving
<1>1. job' # NotReceiving BY DEF ReceivingSet, NotReceiving, Stages
<1> QED BY <1>1 DEF QueueTypes

\* Types of what is being received
LEMMA JobFacts ==
    ASSUME QueueTypes, job.stage \in Stages
    PROVE  /\ job # NotReceiving /\ job \in ReceivingSet /\ job.mail \in ReceptionMails /\ job.relay \in Relays
           /\ job.id \in Nat /\ job.done \in SUBSET Nat
<1>1. job # NotReceiving BY DEF NotReceiving, Stages
<1> QED BY <1>1 DEF QueueTypes, ReceivingSet

-----------------------------------------------------------------------------
(* The steps. *)

\* Only what was deleted is not wanted, so the server may forget it.
LEMMA ReceiveKeeps == ASSUME ReceptionInv, NEW d \in pending, Receive(d) PROVE ReceptionInv'
<1> DEFINE skip == Unwanted(d) \/ (d.mail.kind # "post" /\ Rfc724MidExists(d.mail.own) # {})
<1>1. d.mail \in ReceptionMails /\ d.relay \in Relays /\ d = [relay |-> d.relay, mail |-> d.mail]
  BY DEF ReceptionInv, QueueTypes, DeliverySet
<1>2. NothingWritten /\ Fresh \subseteq Fresh' BY DEF Receive, NothingWritten, Fresh
<1>3. RowsInv' /\ PastTypes' /\ States' /\ PastPlaced' BY <1>2, QuietRows
<1>4. MailBegun' BY <1>2, BegunStays DEF NothingWritten, Receive, ReceptionInv
<1>5. imapRows' \in SUBSET [relay : Relays, mail : ReceptionMails, target : {"keep", "delete"}]
  BY <1>1 DEF Receive, InPrefetch, ReceptionInv, QueueTypes
<1>6. QueueTypes'
  <2>1. CASE skip BY <1>5, <2>1 DEF Receive, DoneWith, ReceptionInv, QueueTypes, DeliverySet
  <2>2. CASE ~skip
    <3>1. job' = [stage |-> "handle", relay |-> d.relay, mail |-> d.mail, id |-> 0, done |-> {}] /\ pending' = pending
      BY <2>2 DEF Receive
    <3>2. job' \in ReceivingSet BY <1>1, <3>1 DEF ReceivingSet, Stages
    <3> QED BY <1>1, <1>5, <3>1, <3>2 DEF QueueTypes, ReceptionInv
  <2> QED BY <2>1, <2>2
<1>7. JobKnown'
  <2>1. CASE skip BY <2>1 DEF Receive, DoneWith, JobKnown
  <2>2. CASE ~skip
    <3>1. job' = [stage |-> "handle", relay |-> d.relay, mail |-> d.mail, id |-> 0, done |-> {}]
      BY <2>2 DEF Receive
    <3>2. d.mail.kind # "post" => \A r \in msgs : r.mid # d.mail.own /\ r.pre # d.mail.own
      BY <2>2 DEF Rfc724MidExists
    <3> QED BY <1>2, <3>1, <3>2 DEF JobKnown, MailHandled, RowWritten, PartsStored, MailFinished, NothingWritten
  <2> QED BY <2>1, <2>2
<1>8. ASSUME Unwanted(d), d.mail \in Content PROVE d.mail.of \in past.retracted
  <2>1. PICK r \in msgs : (r.mid = d.mail.own \/ r.pre = d.mail.own) /\ Row(r.id).deleted
    BY <1>8 DEF Unwanted, Rfc724MidExists
  <2>2. Row(r.id) = r BY DEF Row, ReceptionInv, RowsInv, RowTypes
  <2>3. r.mid \in past.retracted BY <2>1, <2>2 DEF ReceptionInv, RowsInv, Origins, RowKnown
  <2>4. r.mid = d.mail.of BY <1>1, <1>8, <2>1, NoneByPre, MailFacts DEF ReceptionInv, RowsInv, Content
  <2> QED BY <2>3, <2>4
<1>9. StoredBeforeForgotten'
  <2> SUFFICES ASSUME NEW i \in imapRows', i.target = "delete", i.mail \in Content, i.mail.of \notin past.retracted,
                      NEW k \in 1..i.mail.parts
               PROVE  <<i.mail.of, k>> \in past.stored
    BY <1>2, <1>5 DEF StoredBeforeForgotten, NothingWritten, Content
  <2>1. CASE i \in imapRows BY <2>1 DEF ReceptionInv, StoredBeforeForgotten, Content
  <2>2. CASE i \notin imapRows
    <3>1. i = [relay |-> d.relay, mail |-> d.mail, target |-> IF Unwanted(d) THEN "delete" ELSE "keep"]
      BY <2>2 DEF Receive, InPrefetch
    <3> QED BY <1>8, <3>1
  <2> QED BY <2>1, <2>2
<1> QED BY <1>3, <1>4, <1>6, <1>7, <1>9 DEF ReceptionInv

\* The loaded row is the only one of its message that is shown.
LEMMA OnlyLoaded ==
    ASSUME RowsInv, NEW m \in ReceptionMails, m.kind \in {"edit", "post", "pre"}, NEW r \in msgs, r.shown, r.mid = m.of
    PROVE  r.part = 1
<1>1. PICK n \in Content : n.of = r.mid /\ r.part \in 1..n.parts BY DEF RowsInv, Orders, RowOrder
<1>2. n.parts = 1 BY <1>1, MailFacts DEF Content
<1> QED BY <1>1, <1>2

\* The message to edit is looked for.
LEMMA EditLoadKeeps == ASSUME ReceptionInv, HandleEditLoad PROVE ReceptionInv'
<1>1. job.stage = "handle" /\ job.mail.kind = "edit" BY DEF HandleEditLoad, Handling
<1>2. job \in ReceivingSet /\ job.mail \in ReceptionMails /\ job # NotReceiving
  BY <1>1, JobFacts DEF ReceptionInv, Stages
<1>3. PICK i : i = LoadFromDbOptional(Rfc724MidExists(job.mail.of))
               /\ job' = [job EXCEPT !.stage = IF i = 0 THEN "trash" ELSE "write", !.id = i]
  BY DEF HandleEditLoad
<1>4. /\ i \in Nat
      /\ i # 0 => \E r \in msgs : r.id = i /\ r.mid = job.mail.of /\ r.shown /\ r.part = 1
  BY <1>2, <1>3, RowLoaded DEF ReceptionInv
<1>5. /\ job' \in ReceivingSet /\ job'.relay = job.relay /\ job'.mail = job.mail /\ job'.done = job.done
      /\ job'.stage = (IF i = 0 THEN "trash" ELSE "write") /\ job'.id = i
  BY <1>2, <1>3, <1>4 DEF ReceivingSet, Stages
<1>6. NothingWritten /\ UNCHANGED <<imapRows, pending>> BY DEF HandleEditLoad, NothingWritten
<1>7. QueueTypes' /\ job' # NotReceiving BY <1>2, <1>5, <1>6, JobTyped DEF ReceptionInv
<1>8. RowsInv' /\ PastTypes' /\ States' /\ PastPlaced' BY <1>2, <1>5, <1>6, <1>7, QuietRows DEF Fresh
<1>9. MailBegun' /\ StoredBeforeForgotten'
  BY <1>5, <1>6, <1>7, BegunStays, ForgottenStays DEF NothingWritten, ReceptionInv, MoreKnown
<1>10. job.done = {} BY <1>1, <1>2 DEF ReceptionInv, JobKnown, MailHandled
<1>11. i # 0 => /\ \E s \in msgs : s.id = i /\ s.mid = job.mail.of /\ s.dated
                /\ \A r \in msgs : r.shown /\ r.mid = job.mail.of => r.id = i
  <2> SUFFICES ASSUME i # 0 PROVE /\ \E s \in msgs : s.id = i /\ s.mid = job.mail.of /\ s.dated
                                 /\ \A r \in msgs : r.shown /\ r.mid = job.mail.of => r.id = i
    OBVIOUS
  <2>1. PICK s \in msgs : s.id = i /\ s.mid = job.mail.of /\ s.shown /\ s.part = 1 BY <1>4
  <2>2. s.dated BY <2>1 DEF ReceptionInv, RowsInv, Orders, RowOrder
  <2>3. ASSUME NEW r \in msgs, r.shown, r.mid = job.mail.of PROVE r.id = i
    BY <1>1, <1>2, <2>1, <2>3, OnlyLoaded DEF ReceptionInv, RowsInv, ShownOnce
  <2> QED BY <2>1, <2>2, <2>3
<1>12. job.mail \notin Content BY <1>1 DEF Content
<1>13. JobKnown' 
  BY <1>1, <1>5, <1>6, <1>10, <1>11, <1>12 DEF JobKnown, MailHandled, RowWritten, PartsStored, MailFinished, NothingWritten
<1> QED BY <1>7, <1>8, <1>9, <1>13 DEF ReceptionInv

\* A job that goes on to another stage
LEMMA JobGoes ==
    ASSUME QueueTypes, job.stage \in Stages, NEW s \in Stages, Goes(s), UNCHANGED <<imapRows, pending>>
    PROVE  /\ QueueTypes' /\ job' # NotReceiving /\ job # NotReceiving /\ job.mail \in ReceptionMails
           /\ job'.stage = s /\ job'.mail = job.mail /\ job'.done = job.done /\ job'.id = job.id
           /\ Fresh' = Fresh
<1>1. job \in ReceivingSet /\ job # NotReceiving /\ job.mail \in ReceptionMails BY JobFacts
<1>2. /\ job' \in ReceivingSet /\ job'.relay = job.relay /\ job'.mail = job.mail /\ job'.done = job.done
      /\ job'.stage = s /\ job'.id = job.id
  BY <1>1 DEF Goes, ReceivingSet
<1>3. QueueTypes' /\ job' # NotReceiving BY <1>1, <1>2, JobTyped
<1> QED BY <1>1, <1>2, <1>3 DEF Fresh

\* The edit is written to the row that was loaded.
LEMMA EditKeeps == ASSUME ReceptionInv, SaveTextEditToDb PROVE ReceptionInv'
<1> DEFINE f == [r \in msgs |-> IF r.id = job.id THEN [r EXCEPT !.text = 2] ELSE r]
<1>1. job.stage = "write" /\ job.mail.kind = "edit" /\ Goes("trash") /\ UNCHANGED <<imapRows, pending>> /\ nextId' = nextId
  BY DEF SaveTextEditToDb
<1>2. /\ QueueTypes' /\ job' # NotReceiving /\ job # NotReceiving /\ job.mail \in ReceptionMails
      /\ job'.stage = "trash" /\ job'.mail = job.mail /\ job'.done = job.done /\ Fresh' = Fresh
  BY <1>1, JobGoes DEF ReceptionInv, Stages
<1>3. /\ PastTypes' /\ past'.stored = past.stored /\ past'.retracted = past.retracted /\ past'.gone = past.gone
      /\ past'.came = past.came /\ past'.cut = past.cut /\ past'.edited = past.edited \cup {job.mail.of}
  BY <1>2, MailFacts DEF SaveTextEditToDb, ReceptionInv, PastTypes
<1>4. Rewritten /\ IdsApart
  <2>1. msgs' = {f[r] : r \in msgs} BY DEF SaveTextEditToDb
  <2>2. \A r \in msgs : f[r] \in RowSet /\ SameRow(r, f[r]) BY DEF ReceptionInv, RowsInv, RowTypes, RowSet, SameRow
  <2> HIDE DEF f
  <2> QED BY <2>1, <2>2, RowsReplaced DEF ReceptionInv, RowsInv
<1>5. RowsInv' BY <1>1, <1>3, <1>4, RewrittenRows DEF ReceptionInv, MoreKnown
<1>6. /\ \E s \in msgs : s.id = job.id /\ s.mid = job.mail.of /\ s.dated
      /\ \A r \in msgs : r.shown /\ r.mid = job.mail.of => r.id = job.id
      /\ job.done = {}
  BY <1>1, <1>2 DEF ReceptionInv, JobKnown, RowWritten
<1>7. States'
  <2> SUFFICES ASSUME NEW n \in msgs', n.shown PROVE RowState(n)' BY DEF States, RowState
  <2>1. PICK r \in msgs : SameRow(r, n) BY <1>4 DEF Rewritten
  <2>2. RowState(r) /\ r.shown BY <2>1 DEF States, SameRow, ReceptionInv
  <2>3. ASSUME n.mid = job.mail.of PROVE n.text = 2
    <3>1. PICK q \in msgs : n = IF q.id = job.id THEN [q EXCEPT !.text = 2] ELSE q BY DEF SaveTextEditToDb
    <3>2. q \in RowSet BY DEF ReceptionInv, RowsInv, RowTypes
    <3>3. n.id = q.id BY <3>1, <3>2 DEF RowSet
    <3>4. n.id = job.id BY <1>6, <2>1, <2>2, <2>3 DEF SameRow
    <3> QED BY <3>1, <3>2, <3>3, <3>4 DEF RowSet
  <2> QED BY <1>2, <1>3, <2>1, <2>2, <2>3 DEF RowState, SameRow
<1>8. PastPlaced'
  <2>1. Placed(job.mail.of) BY <1>6 DEF Placed
  <2> QED BY <1>3, <1>4, <2>1, StaysPlaced DEF PastPlaced, ReceptionInv
<1>9. MailBegun' /\ StoredBeforeForgotten'
  BY <1>1, <1>2, <1>3, BegunStays, ForgottenStays DEF ReceptionInv, MoreKnown
<1>10. job.mail \notin Content BY <1>1 DEF Content
<1>11. JobKnown' BY <1>1, <1>2, <1>6, <1>10 DEF JobKnown, MailHandled, RowWritten, PartsStored, MailFinished
<1> QED BY <1>2, <1>3, <1>5, <1>7, <1>8, <1>9, <1>11 DEF ReceptionInv

\* A row that goes to the trash is not shown, and known to be deleted.
LEMMA DeletedRows ==
    ASSUME RowsInv, NEW ids, Delete(ids), \A r \in msgs : r.id \in ids => r.mid \in past'.retracted
    PROVE  /\ Rewritten /\ IdsApart
           /\ \A n \in msgs' : n.shown => n.id \notin ids /\ n \in msgs
<1> DEFINE f == [r \in msgs |-> IF r.id \in ids THEN Trash(r) ELSE r]
<1>1. msgs' = {f[r] : r \in msgs} BY DEF Delete
<1>2. ASSUME NEW r \in msgs PROVE f[r] \in RowSet /\ SameRow(r, f[r])
  <2>1. r \in RowSet BY DEF RowsInv, RowTypes
  <2>2. CASE r.id \in ids
    <3>1. f[r] = [r EXCEPT !.shown = FALSE, !.text = 0, !.file = FALSE, !.deleted = TRUE] BY <2>2 DEF Trash
    <3> HIDE DEF f
    <3>4. 0 \in 0..2 OBVIOUS
    <3>2. /\ f[r] \in RowSet /\ f[r].id = r.id /\ f[r].mid = r.mid /\ f[r].part = r.part /\ f[r].dated = r.dated
          /\ f[r].pre = r.pre /\ ~f[r].shown
      BY <2>1, <3>1, <3>4 DEF RowSet
    <3>3. r.mid \in past'.retracted BY <2>2
    <3> QED BY <3>2, <3>3 DEF SameRow
  <2>3. CASE r.id \notin ids BY <2>1, <2>3 DEF RowSet, SameRow
  <2> QED BY <2>2, <2>3
<1>3. ASSUME NEW n \in msgs', n.shown PROVE n.id \notin ids /\ n \in msgs
  <2>1. PICK r \in msgs : n = IF r.id \in ids THEN Trash(r) ELSE r BY DEF Delete
  <2>2. r \in RowSet BY DEF RowsInv, RowTypes
  <2> QED BY <1>3, <2>1, <2>2 DEF Trash, RowSet
<1> HIDE DEF f
<1> QED BY <1>1, <1>2, <1>3, RowsReplaced DEF RowsInv

\* The tombstone of a message that has not come
LEMMA DeleteAheadKeeps ==
    ASSUME ReceptionInv, HandleDelete, Rfc724MidExists(job.mail.of) = {} PROVE ReceptionInv'
<1>0. PICK x : x = Tombstone(nextId, job.mail.of) OBVIOUS
<1>1. job.stage = "handle" /\ job.mail.kind = "delete" /\ Goes("trash") /\ UNCHANGED <<imapRows, pending>>
  BY DEF HandleDelete, Handling
<1>2. /\ QueueTypes' /\ job' # NotReceiving /\ job # NotReceiving /\ job.mail \in ReceptionMails
      /\ job'.stage = "trash" /\ job'.mail = job.mail /\ job'.done = job.done /\ Fresh' = Fresh
  BY <1>1, JobGoes DEF ReceptionInv, Stages
<1>3. /\ PastTypes' /\ past'.stored = past.stored /\ past'.gone = past.gone /\ past'.edited = past.edited
      /\ past'.came = past.came /\ past'.cut = past.cut /\ past'.retracted = past.retracted \cup {job.mail.of}
  BY <1>2, MailFacts DEF HandleDelete, ReceptionInv, PastTypes
<1>4. /\ x \in RowSet /\ x.id = nextId /\ x.mid = job.mail.of /\ x.pre = 0 /\ ~x.shown /\ ~x.deleted
  BY <1>0, <1>2, MailFacts DEF Tombstone, RowSet, ReceptionInv, RowsInv, RowTypes
<1>5. msgs' = msgs \cup {x} /\ nextId' = nextId + 1 BY <1>0 DEF HandleDelete
<1>6. RowKnown(x)' BY <1>2, <1>3, <1>4 DEF RowKnown
<1>7. Added(x) BY <1>4, <1>5, <1>6 DEF Added, RowOrder
<1>8. MoreKnown BY <1>3 DEF MoreKnown
<1>9. RowsInv' BY <1>7, <1>8, AddedRows DEF ReceptionInv
<1>10. States' BY <1>2, <1>3, <1>4, <1>5 DEF States, RowState, ReceptionInv
<1>11. PastPlaced' BY <1>3, <1>5, PastStays DEF ReceptionInv
<1>12. MailBegun' /\ StoredBeforeForgotten' BY <1>1, <1>2, <1>3, <1>8, BegunStays, ForgottenStays DEF ReceptionInv
<1>13. job.mail \notin Content /\ job.done = {} BY <1>1, <1>2 DEF Content, ReceptionInv, JobKnown, MailHandled
<1>14. JobKnown' BY <1>1, <1>2, <1>13 DEF JobKnown, MailHandled, RowWritten, PartsStored, MailFinished
<1> QED BY <1>2, <1>3, <1>9, <1>10, <1>11, <1>12, <1>14 DEF ReceptionInv

\* A message that is there goes to the trash.
LEMMA DeleteThereKeeps ==
    ASSUME ReceptionInv, HandleDelete, Rfc724MidExists(job.mail.of) # {} PROVE ReceptionInv'
<1>1. job.stage = "handle" /\ job.mail.kind = "delete" /\ Goes("trash") /\ UNCHANGED <<imapRows, pending>>
  BY DEF HandleDelete, Handling
<1>2. /\ QueueTypes' /\ job' # NotReceiving /\ job # NotReceiving /\ job.mail \in ReceptionMails
      /\ job'.stage = "trash" /\ job'.mail = job.mail /\ job'.done = job.done /\ Fresh' = Fresh
  BY <1>1, JobGoes DEF ReceptionInv, Stages
<1>3. PICK i : /\ i = LoadFromDbOptional(Rfc724MidExists(job.mail.of))
               /\ Delete({i}) /\ nextId' = nextId
               /\ past' = IF i = 0 THEN past
                          ELSE [past EXCEPT !.retracted = @ \cup {job.mail.of}, !.gone = @ \cup {<<job.mail.of, 1>>}]
  BY DEF HandleDelete
<1>4. /\ i \in Nat
      /\ i # 0 => \E r \in msgs : r.id = i /\ r.mid = job.mail.of /\ r.shown /\ r.part = 1
  BY <1>2, <1>3, RowLoaded DEF ReceptionInv
<1>5. /\ PastTypes' /\ past'.stored = past.stored /\ past'.edited = past.edited
      /\ past'.came = past.came /\ past'.cut = past.cut
      /\ past'.retracted = (IF i = 0 THEN past.retracted ELSE past.retracted \cup {job.mail.of})
      /\ past'.gone = (IF i = 0 THEN past.gone ELSE past.gone \cup {<<job.mail.of, 1>>})
  <2>1. CASE i = 0 BY <1>3, <2>1 DEF ReceptionInv, PastTypes
  <2>2. CASE i # 0
    <3>1. past' = [past EXCEPT !.retracted = @ \cup {job.mail.of}, !.gone = @ \cup {<<job.mail.of, 1>>}]
      BY <1>3, <2>2
    <3>2. <<job.mail.of, 1>> \in Nat \X Nat /\ job.mail.of \in Nat BY <1>2, MailFacts
    <3> QED BY <2>2, <3>1, <3>2 DEF ReceptionInv, PastTypes
  <2> QED BY <2>1, <2>2
<1>6. \A r \in msgs : r.id \in {i} => r.mid \in past'.retracted
  BY <1>4, <1>5 DEF ReceptionInv, RowsInv, RowTypes
<1>7. Rewritten /\ IdsApart /\ \A n \in msgs' : n.shown => n.id \notin {i} /\ n \in msgs
  BY <1>3, <1>6, DeletedRows DEF ReceptionInv
<1>8. MoreKnown BY <1>5 DEF MoreKnown
<1>9. RowsInv' BY <1>3, <1>7, <1>8, RewrittenRows DEF ReceptionInv
<1>10. States'
  <2> SUFFICES ASSUME NEW n \in msgs', n.shown PROVE RowState(n)' BY DEF States, RowState
  <2>1. RowState(n) /\ n \in msgs /\ n.id # i BY <1>7 DEF States, ReceptionInv
  <2>2. i # 0 => <<n.mid, n.part>> # <<job.mail.of, 1>>
    BY <1>4, <2>1 DEF ReceptionInv, RowsInv, ShownOnce
  <2> QED BY <1>2, <1>5, <2>1, <2>2 DEF RowState
<1>11. PastPlaced'
  <2>1. i # 0 => Placed(job.mail.of)
    BY <1>4 DEF Placed, ReceptionInv, RowsInv, Orders, RowOrder
  <2>2. \A x \in past'.gone : Placed(x[1])
    BY <1>5, <2>1 DEF PastPlaced, ReceptionInv
  <2> QED BY <1>5, <1>7, <2>2, StaysPlaced DEF PastPlaced, ReceptionInv
<1>12. MailBegun' /\ StoredBeforeForgotten' BY <1>1, <1>2, <1>5, <1>8, BegunStays, ForgottenStays DEF ReceptionInv
<1>13. job.mail \notin Content /\ job.done = {} BY <1>1, <1>2 DEF Content, ReceptionInv, JobKnown, MailHandled
<1>14. JobKnown' BY <1>1, <1>2, <1>13 DEF JobKnown, MailHandled, RowWritten, PartsStored, MailFinished
<1> QED BY <1>2, <1>5, <1>9, <1>10, <1>11, <1>12, <1>14 DEF ReceptionInv

\* What a lookup of the message decides: whether there is a row of it
LEMMA Looked ==
    ASSUME Origins, NEW m \in ReceptionMails
    PROVE  Rfc724MidExists(m.of) # {} <=> \E r \in msgs : r.mid = m.of
  BY FoundByMid

\* A message that has a row was stored or deleted.
LEMMA KeptIfFound ==
    ASSUME RowsInv, NEW m \in Content, m.kind # "plain", NEW r \in msgs, r.mid = m.of PROVE MailStored(m)
<1>1. m \in ReceptionMails /\ m.parts = 1 BY MailFacts DEF Content
<1>2. RowKnown(r) BY DEF RowsInv, Origins
<1>3. \A n \in ReceptionMails \ Content : r.mid # n.own BY <1>1, MailFacts DEF Content
<1>4. 1..m.parts = {1} BY <1>1
<1> QED BY <1>2, <1>3, <1>4 DEF RowKnown, MailStored

\* Nothing is known of a message that has no row.
LEMMA BlankMessage ==
    ASSUME ReceptionInv, NEW mid, \A r \in msgs : r.mid # mid
    PROVE  /\ \A x \in past.gone : x[1] # mid
           /\ mid \notin past.edited
           /\ \A m \in past.came : m.kind = "post" => m.of # mid
  BY DEF ReceptionInv, PastPlaced, Placed

\* The first part of a message that has no row can be stored.
LEMMA MayStore ==
    ASSUME ReceptionInv, job.stage = "handle", job.mail \in Content, job' # NotReceiving, job'.stage = "store",
           job'.mail = job.mail, job'.done = job.done, NothingWritten, \A r \in msgs : r.mid # job.mail.of
    PROVE  JobKnown'
<1>1. job # NotReceiving BY DEF NotReceiving
<1>2. job.done = {} BY <1>1 DEF ReceptionInv, JobKnown, MailHandled
<1>3. IsFiniteSet(job.done) /\ Cardinality(job.done) = 0 BY <1>2, FS_EmptySet
<1>4. job.mail \in ReceptionMails /\ job.mail.parts > 0 BY MailFacts DEF Content
<1>5. PartsStored'
  BY <1>2, <1>3, <1>4, BlankMessage DEF PartsStored, NothingWritten
<1> QED BY <1>2, <1>5 DEF JobKnown, MailHandled, RowWritten, MailFinished, NothingWritten

\* The row that a second half completes is looked for.
LEMMA PostLoadKeeps == ASSUME ReceptionInv, HandlePostLoad PROVE ReceptionInv'
<1>1. job.stage = "handle" /\ job.mail.kind = "post" BY DEF HandlePostLoad, Handling
<1>2. job \in ReceivingSet /\ job.mail \in ReceptionMails /\ job # NotReceiving
  BY <1>1, JobFacts DEF ReceptionInv, Stages
<1>3. PICK i : i = LoadFromDbOptional(Rfc724MidExists(job.mail.of))
               /\ job' = [job EXCEPT !.stage = IF i # 0 THEN "write" ELSE IF Trashed THEN "trash" ELSE "store", !.id = i]
  BY DEF HandlePostLoad
<1>4. /\ i \in Nat
      /\ i # 0 => \E r \in msgs : r.id = i /\ r.mid = job.mail.of /\ r.shown /\ r.part = 1
      /\ i = 0 => \A r \in msgs : r.mid = job.mail.of /\ r.shown => r.part # 1
  BY <1>2, <1>3, RowLoaded DEF ReceptionInv
<1>5. /\ job' \in ReceivingSet /\ job'.relay = job.relay /\ job'.mail = job.mail /\ job'.done = job.done /\ job'.id = i
      /\ job'.stage = (IF i # 0 THEN "write" ELSE IF Trashed THEN "trash" ELSE "store")
  BY <1>2, <1>3, <1>4 DEF ReceivingSet, Stages
<1>6. NothingWritten /\ UNCHANGED <<imapRows, pending>> BY DEF HandlePostLoad, NothingWritten
<1>7. QueueTypes' /\ job' # NotReceiving BY <1>2, <1>5, <1>6, JobTyped DEF ReceptionInv
<1>8. RowsInv' /\ PastTypes' /\ States' /\ PastPlaced' BY <1>2, <1>5, <1>6, <1>7, QuietRows DEF Fresh
<1>9. MailBegun' /\ StoredBeforeForgotten'
  BY <1>5, <1>6, <1>7, BegunStays, ForgottenStays DEF NothingWritten, ReceptionInv, MoreKnown
<1>10. job.done = {} /\ job.mail \in Content BY <1>1, <1>2 DEF ReceptionInv, JobKnown, MailHandled, Content
<1>11. JobKnown'
  <2>1. CASE i # 0
    <3>1. PICK s \in msgs : s.id = i /\ s.mid = job.mail.of /\ s.shown /\ s.part = 1 BY <1>4, <2>1
    <3>2. s.dated BY <3>1 DEF ReceptionInv, RowsInv, Orders, RowOrder
    <3>3. ASSUME NEW r \in msgs, r.shown, r.mid = job.mail.of PROVE r.id = i
      BY <1>1, <1>2, <3>1, <3>3, OnlyLoaded DEF ReceptionInv, RowsInv, ShownOnce
    <3>4. MailStored(job.mail) BY <1>1, <1>10, <3>1, KeptIfFound DEF ReceptionInv
    <3> QED BY <1>1, <1>5, <1>6, <1>10, <2>1, <3>1, <3>2, <3>3, <3>4
            DEF JobKnown, MailHandled, RowWritten, PartsStored, MailFinished, NothingWritten, MailStored
  <2>2. CASE i = 0 /\ Trashed
    <3>1. Rfc724MidExists(job.mail.of) # {} BY <1>1, <2>2 DEF Trashed
    <3>2. PICK r \in msgs : r.mid = job.mail.of BY <1>2, <3>1, Looked DEF ReceptionInv, RowsInv
    <3>3. MailStored(job.mail) BY <1>1, <1>10, <3>2, KeptIfFound DEF ReceptionInv
    <3>4. \A s \in msgs : ~(s.shown /\ s.mid = job.mail.of) BY <1>1, <1>2, <1>4, <2>2, OnlyLoaded DEF ReceptionInv
    <3> QED BY <1>1, <1>5, <1>6, <1>10, <2>2, <3>3, <3>4
            DEF JobKnown, MailHandled, RowWritten, PartsStored, MailFinished, NothingWritten, MailStored
  <2>3. CASE i = 0 /\ ~Trashed
    <3>1. Rfc724MidExists(job.mail.of) = {} BY <1>1, <2>3 DEF Trashed
    <3>2. \A r \in msgs : r.mid # job.mail.of BY <1>2, <3>1, Looked DEF ReceptionInv, RowsInv
    <3> QED BY <1>1, <1>5, <1>6, <1>7, <1>10, <2>3, <3>2, MayStore
  <2> QED BY <2>1, <2>2, <2>3
<1> QED BY <1>7, <1>8, <1>9, <1>11 DEF ReceptionInv

\* A message in one mail is stored.
LEMMA PlainKeeps == ASSUME ReceptionInv, HandlePlain PROVE ReceptionInv'
<1>1. job.stage = "handle" /\ job.mail.kind = "plain" /\ Goes("store") /\ NothingWritten /\ UNCHANGED <<imapRows, pending>>
  BY DEF HandlePlain, Handling, NothingWritten
<1>2. /\ QueueTypes' /\ job' # NotReceiving /\ job # NotReceiving /\ job.mail \in ReceptionMails
      /\ job'.stage = "store" /\ job'.mail = job.mail /\ job'.done = job.done /\ Fresh' = Fresh
  BY <1>1, JobGoes DEF ReceptionInv, Stages
<1>3. \A r \in msgs : r.mid # job.mail.of
  BY <1>1, <1>2, MailFacts DEF ReceptionInv, JobKnown, MailHandled
<1>4. job.mail \in Content BY <1>1, <1>2 DEF Content
<1>5. JobKnown' BY <1>1, <1>2, <1>3, <1>4, MayStore
<1>6. RowsInv' /\ PastTypes' /\ States' /\ PastPlaced' BY <1>1, <1>2, QuietRows
<1>7. MailBegun' /\ StoredBeforeForgotten'
  BY <1>1, <1>2, BegunStays, ForgottenStays DEF NothingWritten, ReceptionInv, MoreKnown
<1> QED BY <1>2, <1>5, <1>6, <1>7 DEF ReceptionInv

\* The file goes to the row that was loaded, the only one of its message that is shown.
LEMMA ReplaceKeeps == ASSUME ReceptionInv, ReplaceAttachment PROVE ReceptionInv'
<1> DEFINE f == [r \in msgs |-> IF r.id = job.id THEN [r EXCEPT !.file = TRUE] ELSE r]
<1>1. /\ job.stage = "write" /\ job.mail.kind = "post" /\ Goes("trash") /\ UNCHANGED <<imapRows, pending>>
      /\ nextId' = nextId /\ past' = past
  BY DEF ReplaceAttachment
<1>2. /\ QueueTypes' /\ job' # NotReceiving /\ job # NotReceiving /\ job.mail \in ReceptionMails
      /\ job'.stage = "trash" /\ job'.mail = job.mail /\ job'.done = job.done /\ Fresh' = Fresh
  BY <1>1, JobGoes DEF ReceptionInv, Stages
<1>3. Rewritten /\ IdsApart
  <2>1. msgs' = {f[r] : r \in msgs} BY DEF ReplaceAttachment
  <2>2. \A r \in msgs : f[r] \in RowSet /\ SameRow(r, f[r]) BY DEF ReceptionInv, RowsInv, RowTypes, RowSet, SameRow
  <2> HIDE DEF f
  <2> QED BY <2>1, <2>2, RowsReplaced DEF ReceptionInv, RowsInv
<1>4. MoreKnown BY <1>1 DEF MoreKnown
<1>5. RowsInv' BY <1>1, <1>3, <1>4, RewrittenRows DEF ReceptionInv
<1>6. States' /\ PastPlaced' BY <1>1, <1>2, <1>3, StatesStay, PastStays DEF ReceptionInv
<1>7. MailBegun' /\ StoredBeforeForgotten' BY <1>1, <1>2, <1>4, BegunStays, ForgottenStays DEF ReceptionInv
<1>8. ASSUME NEW n \in msgs', n.shown, n.mid = job.mail.of PROVE n.file
  <2>1. PICK q \in msgs : n = IF q.id = job.id THEN [q EXCEPT !.file = TRUE] ELSE q BY DEF ReplaceAttachment
  <2>2. q \in RowSet BY DEF ReceptionInv, RowsInv, RowTypes
  <2>3. n.shown = q.shown /\ n.mid = q.mid BY <2>1, <2>2 DEF RowSet
  <2>4. q.id = job.id BY <1>1, <1>2, <1>8, <2>3 DEF ReceptionInv, JobKnown, RowWritten
  <2> QED BY <2>1, <2>2, <2>4 DEF RowSet
<1>9. MailStored(job.mail) /\ job.done = {}
  BY <1>1, <1>2 DEF ReceptionInv, JobKnown, RowWritten, MailFinished, Content
<1>10. JobKnown'
  BY <1>1, <1>2, <1>8, <1>9 DEF JobKnown, MailHandled, RowWritten, PartsStored, MailFinished, MailStored
<1> QED BY <1>1, <1>2, <1>5, <1>6, <1>7, <1>10 DEF ReceptionInv, PastTypes

\* A first half names itself on the row of the second, or is stored.
LEMMA PreNamedKeeps == ASSUME ReceptionInv, HandlePre, Trashed PROVE ReceptionInv'
<1> DEFINE S == {x \in msgs : x.mid = job.mail.of}
           ids == Rfc724MidExists(job.mail.of)
           f == [r \in msgs |-> IF r.id = First(ids) THEN [r EXCEPT !.pre = job.mail.own] ELSE r]
<1>1. /\ job.stage = "handle" /\ job.mail.kind = "pre" /\ Goes("trash") /\ UNCHANGED <<imapRows, pending>>
      /\ nextId' = nextId /\ past' = past
  BY DEF HandlePre, Handling
<1>2. /\ QueueTypes' /\ job' # NotReceiving /\ job # NotReceiving /\ job.mail \in ReceptionMails
      /\ job'.stage = "trash" /\ job'.mail = job.mail /\ job'.done = job.done /\ Fresh' = Fresh
  BY <1>1, JobGoes DEF ReceptionInv, Stages
<1>3. ids = {x.id : x \in S} /\ S # {} BY <1>1, <1>2, FoundByMid DEF Trashed, ReceptionInv, RowsInv
<1>4. PICK q \in S : First(ids) = q.id BY <1>3, FirstRow DEF ReceptionInv, RowsInv
<1>5. Rewritten /\ IdsApart
  <2>1. msgs' = {f[r] : r \in msgs} BY DEF HandlePre
  <2>2. ASSUME NEW r \in msgs PROVE f[r] \in RowSet /\ SameRow(r, f[r])
    <3>1. r \in RowSet /\ job.mail.own \in Nat BY <1>2, MailFacts DEF ReceptionInv, RowsInv, RowTypes
    <3>2. CASE r.id = First(ids)
      <4>1. r = q BY <1>4, <3>2 DEF ReceptionInv, RowsInv, RowTypes
      <4>2. f[r] = [r EXCEPT !.pre = job.mail.own] /\ r.mid = job.mail.of BY <1>4, <3>2, <4>1
      <4> HIDE DEF f
      <4> QED BY <1>1, <1>2, <3>1, <4>2 DEF RowSet, SameRow
    <3>3. CASE r.id # First(ids) BY <3>1, <3>3 DEF SameRow
    <3> QED BY <3>2, <3>3
  <2> HIDE DEF f
  <2> QED BY <2>1, <2>2, RowsReplaced DEF ReceptionInv, RowsInv
<1>6. MoreKnown BY <1>1 DEF MoreKnown
<1>7. RowsInv' BY <1>1, <1>5, <1>6, RewrittenRows DEF ReceptionInv
<1>8. States' /\ PastPlaced' BY <1>1, <1>2, <1>5, StatesStay, PastStays DEF ReceptionInv
<1>9. MailBegun' /\ StoredBeforeForgotten' BY <1>1, <1>2, <1>6, BegunStays, ForgottenStays DEF ReceptionInv
<1>10. job.mail \in Content /\ job.done = {} BY <1>1, <1>2 DEF Content, ReceptionInv, JobKnown, MailHandled
<1>11. MailStored(job.mail) BY <1>1, <1>4, <1>10, KeptIfFound DEF ReceptionInv
<1>12. JobKnown' BY <1>1, <1>2, <1>10, <1>11 DEF JobKnown, MailHandled, RowWritten, PartsStored, MailFinished, MailStored
<1> QED BY <1>1, <1>2, <1>7, <1>8, <1>9, <1>12 DEF ReceptionInv, PastTypes

\* A first half whose second half has not come is stored.
LEMMA PreKeeps == ASSUME ReceptionInv, HandlePre PROVE ReceptionInv'
<1>1. CASE Trashed BY <1>1, PreNamedKeeps
<1>2. CASE ~Trashed
  <2>1. job.stage = "handle" /\ job.mail.kind = "pre" /\ Goes("store") /\ NothingWritten /\ UNCHANGED <<imapRows, pending>>
    BY <1>2 DEF HandlePre, Handling, NothingWritten
  <2>2. /\ QueueTypes' /\ job' # NotReceiving /\ job # NotReceiving /\ job.mail \in ReceptionMails
        /\ job'.stage = "store" /\ job'.mail = job.mail /\ job'.done = job.done /\ Fresh' = Fresh
    BY <2>1, JobGoes DEF ReceptionInv, Stages
  <2>3. \A r \in msgs : r.mid # job.mail.of
    BY <1>2, <2>1, <2>2, Looked DEF Trashed, ReceptionInv, RowsInv
  <2>4. job.mail \in Content BY <2>1, <2>2 DEF Content
  <2>5. JobKnown' BY <2>1, <2>2, <2>3, <2>4, MayStore
  <2>6. RowsInv' /\ PastTypes' /\ States' /\ PastPlaced' BY <2>1, <2>2, QuietRows
  <2>7. MailBegun' /\ StoredBeforeForgotten'
    BY <2>1, <2>2, BegunStays, ForgottenStays DEF NothingWritten, ReceptionInv, MoreKnown
  <2> QED BY <2>2, <2>5, <2>6, <2>7 DEF ReceptionInv
<1> QED BY <1>1, <1>2

\* The next part is stored behind those that are there.
LEMMA InsertPartKeeps == ASSUME ReceptionInv, InsertPart PROVE ReceptionInv'
<1>1. job.stage = "store" /\ nextId' = nextId + 1 /\ UNCHANGED <<imapRows, pending>> BY DEF InsertPart
<1>2. job \in ReceivingSet /\ job.mail \in ReceptionMails /\ job # NotReceiving /\ job.done \in SUBSET Nat
  BY <1>1, JobFacts DEF ReceptionInv, Stages
<1>3. PartsStored /\ job.mail \in Content BY <1>1, <1>2 DEF ReceptionInv, JobKnown, PartsStored
<1>4. PICK k : k = Cardinality(job.done) + 1 OBVIOUS
<1>5. PICK x : x = [id |-> nextId, mid |-> job.mail.of, part |-> k,
                    pre |-> IF job.mail.kind = "pre" THEN job.mail.own ELSE 0, text |-> 1,
                    file |-> job.mail.kind = "post", shown |-> TRUE, dated |-> TRUE, deleted |-> FALSE,
                    enriched |-> FALSE]
  OBVIOUS
<1>6. /\ msgs' = msgs \cup {x}
      /\ past' = [past EXCEPT !.stored = @ \cup {<<job.mail.of, k>>}]
      /\ job' = [job EXCEPT !.done = @ \cup {nextId}, !.stage = IF k = job.mail.parts THEN "enrich" ELSE "store"]
  BY <1>4, <1>5 DEF InsertPart
<1>7. /\ IsFiniteSet(job.done) /\ Cardinality(job.done) \in Nat /\ k \in Nat \ {0} /\ k \in 1..job.mail.parts
      /\ IsFiniteSet(job.done \cup {nextId}) /\ Cardinality(job.done \cup {nextId}) = k
  <2>1. IsFiniteSet(job.done) /\ Cardinality(job.done) < job.mail.parts /\ nextId \notin job.done
    BY <1>1, <1>3 DEF PartsStored, ReceptionInv, RowsInv, RowTypes
  <2>2. Cardinality(job.done) \in Nat BY <2>1, FS_CardinalityType
  <2>3. IsFiniteSet(job.done \cup {nextId}) /\ Cardinality(job.done \cup {nextId}) = Cardinality(job.done) + 1
    BY <2>1, FS_AddElement
  <2>4. job.mail.parts \in Nat BY <1>2, MailFacts
  <2> QED BY <1>4, <2>1, <2>2, <2>3, <2>4
<1>8. /\ x \in RowSet /\ x.id = nextId /\ x.mid = job.mail.of /\ x.part = k /\ x.shown /\ x.dated /\ ~x.deleted
      /\ x.text = 1 /\ x.file = (job.mail.kind = "post") /\ ~x.enriched
      /\ x.pre = IF job.mail.kind = "pre" THEN job.mail.own ELSE 0
  BY <1>2, <1>5, <1>7, MailFacts DEF RowSet, ReceptionInv, RowsInv, RowTypes
<1>9. /\ job' \in ReceivingSet /\ job'.relay = job.relay /\ job'.mail = job.mail /\ job'.done = job.done \cup {nextId}
      /\ job'.stage = (IF k = job.mail.parts THEN "enrich" ELSE "store")
  BY <1>2, <1>6 DEF ReceivingSet, Stages, ReceptionInv, RowsInv, RowTypes
<1>10. QueueTypes' /\ job' # NotReceiving BY <1>1, <1>2, <1>9, JobTyped DEF ReceptionInv
<1>11. /\ PastTypes' /\ past'.stored = past.stored \cup {<<job.mail.of, k>>} /\ past'.retracted = past.retracted
       /\ past'.gone = past.gone /\ past'.came = past.came /\ past'.cut = past.cut /\ past'.edited = past.edited
  BY <1>2, <1>6, <1>7, MailFacts DEF ReceptionInv, PastTypes
<1>12. MoreKnown BY <1>11 DEF MoreKnown
<1>13. \A j \in 1..k : <<job.mail.of, j>> \in past'.stored
  BY <1>1, <1>3, <1>4, <1>7, <1>11 DEF PartsStored
<1>14. \A r \in msgs : r.mid = job.mail.of => r.part \in 1..k - 1 BY <1>1, <1>3, <1>4, <1>7 DEF PartsStored
<1>15. RowKnown(x)'
  <2>1. <<x.mid, 1>> \in past'.stored BY <1>7, <1>8, <1>13
  <2> QED BY <1>2, <1>8, <2>1, MailFacts DEF RowKnown
<1>16. RowOrder(x)'
  <2>1. \E m \in Content : m.of = x.mid /\ x.part \in 1..m.parts BY <1>3, <1>7, <1>8
  <2>2. k = 1 => \A s \in msgs' : s.mid = x.mid => x.id <= s.id
    BY <1>6, <1>8, <1>14 DEF RowSet
  <2>3. k # 1 => job.done # {} BY <1>4, <1>7, FS_EmptySet
  <2>4. k # 1 => \E s \in msgs' : s.mid = x.mid /\ s.dated /\ s.id < x.id
    BY <1>1, <1>3, <1>6, <1>8, <2>3 DEF PartsStored, Placed, ReceptionInv, RowsInv, RowTypes
  <2> QED BY <1>8, <2>1, <2>2, <2>4 DEF RowOrder
<1>17. Added(x) BY <1>1, <1>6, <1>7, <1>8, <1>14, <1>15, <1>16 DEF Added
<1>18. RowsInv' BY <1>12, <1>17, AddedRows DEF ReceptionInv
<1>19. Fresh' = Fresh \cup {nextId} BY <1>2, <1>9, <1>10 DEF Fresh
<1>20. States'
  <2>1. ASSUME NEW r \in msgs PROVE RowState(r)' BY <1>11, <1>19 DEF States, RowState, ReceptionInv
  <2>2. <<x.mid, x.part>> \notin past'.gone
    <3>1. ASSUME <<x.mid, x.part>> \in past.gone PROVE x.part <= Cardinality(job.done)
      BY <1>1, <1>3, <1>8, <3>1 DEF PartsStored
    <3> QED BY <1>4, <1>7, <1>8, <1>11, <3>1
  <2>3. RowState(x)'
    BY <1>1, <1>3, <1>8, <1>11, <1>19, <2>2 DEF RowState, PartsStored
  <2> QED BY <1>6, <2>1, <2>3 DEF States
<1>21. PastPlaced' BY <1>6, <1>11, PastStays DEF ReceptionInv
<1>22. StoredBeforeForgotten' BY <1>1, <1>12, ForgottenStays DEF ReceptionInv
<1>23. MailBegun'
  <2> SUFFICES ASSUME NEW m \in ReceptionMails, m.kind = "plain", <<m.of, 1>> \in past'.stored, m # job.mail
               PROVE  m \in past'.cut \/ \A j \in 1..m.parts : <<m.of, j>> \in past'.stored
    BY <1>9, <1>10 DEF MailBegun
  <2>1. m.of # job.mail.of BY <1>3, OneMail
  <2>2. <<m.of, 1>> \in past.stored BY <1>11, <2>1
  <2> QED BY <1>11, <2>2 DEF MailBegun, ReceptionInv
<1>24. Placed(job.mail.of)' BY <1>6, <1>8 DEF Placed
<1>25. job.mail.kind = "post" => \A r \in msgs' : r.shown /\ r.mid = job.mail.of => r.file
  BY <1>1, <1>2, <1>6, <1>8 DEF ReceptionInv, JobKnown, MailFinished
<1>26. \A r \in msgs' : r.id \in job'.done /\ r.shown => r.mid = job.mail.of
  BY <1>1, <1>2, <1>6, <1>8, <1>9 DEF ReceptionInv, JobKnown, MailFinished, RowsInv, RowTypes
<1>27. MailStored(job.mail)' \/ k # job.mail.parts BY <1>9, <1>13 DEF MailStored
<1>28. ASSUME k # job.mail.parts PROVE PartsStored'
  <2>1. k < job.mail.parts /\ Cardinality(job'.done) = k /\ IsFiniteSet(job'.done)
    BY <1>2, <1>7, <1>9, <1>28, MailFacts
  <2>2. \A i \in job'.done : i < nextId' BY <1>1, <1>2, <1>3, <1>9 DEF PartsStored, ReceptionInv, RowsInv, RowTypes
  <2>3. \A r \in msgs' : r.mid = job.mail.of => r.part \in 1..k BY <1>6, <1>7, <1>8, <1>14
  <2>4. \A y \in past'.gone : y[1] = job.mail.of => y[2] <= k
    BY <1>1, <1>3, <1>4, <1>7, <1>11 DEF PartsStored, ReceptionInv, PastTypes
  <2> QED BY <1>1, <1>3, <1>9, <1>11, <1>13, <1>24, <2>1, <2>2, <2>3, <2>4 DEF PartsStored
<1>29. PartsStored' BY <1>9, <1>28 DEF PartsStored
<1>30. JobKnown'
  BY <1>3, <1>9, <1>13, <1>24, <1>25, <1>26, <1>27, <1>29 DEF JobKnown, MailHandled, RowWritten, MailFinished
<1> QED BY <1>10, <1>11, <1>18, <1>20, <1>21, <1>22, <1>23, <1>30 DEF ReceptionInv

\* The row of a mail that is not shown
LEMMA InsertTrashKeeps == ASSUME ReceptionInv, InsertTrash PROVE ReceptionInv'
<1>1. job.stage = "trash" /\ nextId' = nextId + 1 /\ past' = past /\ UNCHANGED <<imapRows, pending>>
  BY DEF InsertTrash
<1>2. job \in ReceivingSet /\ job.mail \in ReceptionMails /\ job # NotReceiving
  BY <1>1, JobFacts DEF ReceptionInv, Stages
<1>3. PICK x : x = [Tombstone(nextId, IF job.mail.kind = "pre" THEN job.mail.of ELSE job.mail.own)
                     EXCEPT !.pre = IF job.mail.kind = "pre" THEN job.mail.own ELSE 0, !.dated = TRUE]
  OBVIOUS
<1>4. msgs' = msgs \cup {x} /\ job' = [job EXCEPT !.done = {nextId}, !.stage = "enrich"] BY <1>3 DEF InsertTrash
<1>5. /\ x \in RowSet /\ x.id = nextId /\ x.dated /\ ~x.shown /\ ~x.deleted
      /\ x.mid = (IF job.mail.kind = "pre" THEN job.mail.of ELSE job.mail.own)
      /\ x.pre = (IF job.mail.kind = "pre" THEN job.mail.own ELSE 0)
  <2> DEFINE mid == IF job.mail.kind = "pre" THEN job.mail.of ELSE job.mail.own
             pre == IF job.mail.kind = "pre" THEN job.mail.own ELSE 0
  <2>1. mid \in Nat /\ pre \in Nat /\ nextId \in Nat BY <1>2, MailFacts DEF ReceptionInv, RowsInv, RowTypes
  <2>2. x = [id |-> nextId, mid |-> mid, part |-> 1, pre |-> pre, text |-> 0, file |-> FALSE, shown |-> FALSE,
             dated |-> TRUE, deleted |-> FALSE, enriched |-> FALSE]
    BY <1>3 DEF Tombstone
  <2> HIDE DEF mid, pre
  <2>3. x \in RowSet /\ x.id = nextId /\ x.dated /\ ~x.shown /\ ~x.deleted /\ x.mid = mid /\ x.pre = pre
    BY <2>1, <2>2 DEF RowSet
  <2> QED BY <2>3 DEF mid, pre
<1>6. /\ job' \in ReceivingSet /\ job'.relay = job.relay /\ job'.mail = job.mail /\ job'.done = {nextId}
      /\ job'.stage = "enrich"
  BY <1>2, <1>4 DEF ReceivingSet, Stages, ReceptionInv, RowsInv, RowTypes
<1>7. QueueTypes' /\ job' # NotReceiving BY <1>1, <1>2, <1>6, JobTyped DEF ReceptionInv
<1>8. MoreKnown /\ PastTypes' BY <1>1 DEF MoreKnown, PastTypes, ReceptionInv
<1>9. job.mail.kind # "plain" /\ job.done = {} /\ (job.mail \in Content => MailStored(job.mail))
  BY <1>1, <1>2 DEF ReceptionInv, JobKnown, MailFinished
<1>10. RowKnown(x)'
  <2>1. CASE job.mail \in Content
    <3>1. x.mid = job.mail.of BY <1>2, <1>5, <1>9, <2>1, MailFacts DEF Content
    <3>2. 1 \in 1..job.mail.parts BY <1>2, MailFacts
    <3>3. x.mid \in past.retracted \/ <<x.mid, 1>> \in past.stored BY <1>9, <2>1, <3>1, <3>2 DEF MailStored
    <3> QED BY <1>1, <1>2, <1>5, <3>1, <3>3 DEF RowKnown
  <2>2. CASE job.mail \notin Content
    BY <1>2, <1>5, <2>2 DEF RowKnown, Content
  <2> QED BY <2>1, <2>2
<1>11. Added(x) BY <1>1, <1>4, <1>5, <1>10 DEF Added, RowOrder
<1>12. RowsInv' BY <1>8, <1>11, AddedRows DEF ReceptionInv
<1>13. States' BY <1>1, <1>2, <1>4, <1>5, <1>9 DEF States, RowState, Fresh, ReceptionInv
<1>14. PastPlaced' BY <1>1, <1>4, PastStays DEF ReceptionInv
<1>15. MailBegun' /\ StoredBeforeForgotten' BY <1>1, <1>6, <1>7, <1>8, BegunStays, ForgottenStays DEF ReceptionInv
<1>16. job.mail.kind = "post" => \E s \in msgs' : s.mid = job.mail.of /\ s.dated
  BY <1>2, <1>4, <1>5, MailFacts
<1>17. \A r \in msgs' : r.id = nextId => ~r.shown BY <1>4, <1>5 DEF ReceptionInv, RowsInv, RowTypes
<1>18. job.mail.kind = "post" => \A r \in msgs' : r.shown /\ r.mid = job.mail.of => r.file
  BY <1>1, <1>2, <1>4, <1>5 DEF ReceptionInv, JobKnown, MailFinished
<1>19. JobKnown'
  BY <1>1, <1>6, <1>9, <1>16, <1>17, <1>18 DEF JobKnown, MailHandled, RowWritten, PartsStored, MailFinished, MailStored, Placed
<1> QED BY <1>7, <1>8, <1>12, <1>13, <1>14, <1>15, <1>19 DEF ReceptionInv

\* What is derived of a row makes it whole.
LEMMA EnrichKeeps == ASSUME ReceptionInv, Enrich PROVE ReceptionInv'
<1>1. job.stage = "enrich" /\ nextId' = nextId /\ past' = past /\ UNCHANGED <<imapRows, pending>> BY DEF Enrich
<1>2. job \in ReceivingSet /\ job.mail \in ReceptionMails /\ job # NotReceiving
  BY <1>1, JobFacts DEF ReceptionInv, Stages
<1>3. PICK i \in job.done :
        /\ msgs' = {IF r.id = i THEN [r EXCEPT !.enriched = TRUE] ELSE r : r \in msgs}
        /\ job' = [job EXCEPT !.done = @ \ {i}, !.stage = IF job.done = {i} THEN "retain" ELSE "enrich"]
  BY DEF Enrich
<1> DEFINE f == [r \in msgs |-> IF r.id = i THEN [r EXCEPT !.enriched = TRUE] ELSE r]
<1>4. /\ job' \in ReceivingSet /\ job'.relay = job.relay /\ job'.mail = job.mail /\ job'.done = job.done \ {i}
      /\ job'.stage = (IF job.done = {i} THEN "retain" ELSE "enrich")
  BY <1>2, <1>3 DEF ReceivingSet, Stages
<1>5. QueueTypes' /\ job' # NotReceiving BY <1>1, <1>2, <1>4, JobTyped DEF ReceptionInv
<1>6. Rewritten /\ IdsApart
  <2>1. msgs' = {f[r] : r \in msgs} BY <1>3
  <2>2. \A r \in msgs : f[r] \in RowSet /\ SameRow(r, f[r]) BY DEF ReceptionInv, RowsInv, RowTypes, RowSet, SameRow
  <2> HIDE DEF f
  <2> QED BY <2>1, <2>2, RowsReplaced DEF ReceptionInv, RowsInv
<1>7. MoreKnown /\ PastTypes' BY <1>1 DEF MoreKnown, PastTypes, ReceptionInv
<1>8. RowsInv' BY <1>1, <1>6, <1>7, RewrittenRows DEF ReceptionInv
<1>9. ASSUME NEW n \in msgs', n.id = i PROVE n.enriched
  <2>1. PICK q \in msgs : n = IF q.id = i THEN [q EXCEPT !.enriched = TRUE] ELSE q BY <1>3
  <2>2. q \in RowSet BY DEF ReceptionInv, RowsInv, RowTypes
  <2> QED BY <1>9, <2>1, <2>2 DEF RowSet
<1>10. States'
  <2> SUFFICES ASSUME NEW n \in msgs', n.shown PROVE RowState(n)' BY DEF States, RowState
  <2>1. PICK r \in msgs : SameRow(r, n) BY <1>6 DEF Rewritten
  <2>2. RowState(r) /\ r.shown BY <2>1 DEF States, SameRow, ReceptionInv
  <2> QED BY <1>1, <1>2, <1>4, <1>5, <1>9, <2>1, <2>2 DEF RowState, SameRow, Fresh
<1>11. PastPlaced' BY <1>1, <1>6, PastStays DEF ReceptionInv
<1>12. MailBegun' /\ StoredBeforeForgotten' BY <1>1, <1>4, <1>5, <1>7, BegunStays, ForgottenStays DEF ReceptionInv
<1>13. JobKnown'
  <2>1. MailFinished BY <1>1, <1>2 DEF ReceptionInv, JobKnown
  <2>2. job.mail.kind = "post" => \E s \in msgs' : s.mid = job.mail.of /\ s.dated
    BY <1>1, <1>6, <2>1 DEF MailFinished, Placed, Rewritten, SameRow
  <2>3. job.mail.kind = "post" => \A n \in msgs' : n.shown /\ n.mid = job.mail.of => n.file
    BY <1>1, <1>6, <2>1 DEF MailFinished, Rewritten, SameRow
  <2>4. \A n \in msgs' : n.id \in job'.done /\ n.shown => job.mail \in Content /\ n.mid = job.mail.of
    BY <1>1, <1>4, <1>6, <2>1 DEF MailFinished, Rewritten, SameRow
  <2>5. job'.stage = "retain" => job'.done = {} BY <1>4
  <2>6. MailHandled' /\ RowWritten' /\ PartsStored' BY <1>4 DEF MailHandled, RowWritten, PartsStored
  <2>7. MailFinished'
    BY <1>1, <1>4, <2>1, <2>2, <2>3, <2>4, <2>5 DEF MailFinished, MailStored, Placed
  <2> QED BY <2>6, <2>7 DEF JobKnown
<1> QED BY <1>5, <1>7, <1>8, <1>10, <1>11, <1>12, <1>13 DEF ReceptionInv

\* The mail is done with, and the server may forget it.
LEMMA RetentionKeeps == ASSUME ReceptionInv, ApplyServerRetention PROVE ReceptionInv'
<1>1. /\ job.stage = "retain" /\ UNCHANGED <<msgs, nextId>> /\ job' = NotReceiving
      /\ imapRows' = {IF i.mail = job.mail THEN [i EXCEPT !.target = "delete"] ELSE i : i \in imapRows}
      /\ pending' \subseteq pending /\ past' = [past EXCEPT !.came = @ \cup {job.mail}]
  BY DEF ApplyServerRetention, DoneWith
<1>2. job \in ReceivingSet /\ job.mail \in ReceptionMails /\ job # NotReceiving
  BY <1>1, JobFacts DEF ReceptionInv, Stages
<1>3. MailFinished BY <1>1, <1>2 DEF ReceptionInv, JobKnown
<1>4. /\ PastTypes' /\ past'.stored = past.stored /\ past'.retracted = past.retracted /\ past'.gone = past.gone
      /\ past'.edited = past.edited /\ past'.cut = past.cut /\ past'.came = past.came \cup {job.mail}
  BY <1>1, <1>2 DEF ReceptionInv, PastTypes
<1>5. MoreKnown BY <1>4 DEF MoreKnown
<1>6. Rewritten /\ IdsApart BY <1>1, RowsSame DEF ReceptionInv, RowsInv
<1>7. RowsInv' BY <1>1, <1>5, <1>6, RewrittenRows DEF ReceptionInv
<1>8. ASSUME NEW i \in imapRows' PROVE \E o \in imapRows : /\ i.relay = o.relay /\ i.mail = o.mail
                                                          /\ i.target = (IF i.mail = job.mail THEN "delete" ELSE o.target)
                                                          /\ i \in [relay : Relays, mail : ReceptionMails, target : {"keep", "delete"}]
  <2>1. PICK o \in imapRows : i = IF o.mail = job.mail THEN [o EXCEPT !.target = "delete"] ELSE o BY <1>1
  <2>2. o \in [relay : Relays, mail : ReceptionMails, target : {"keep", "delete"}] BY DEF ReceptionInv, QueueTypes
  <2> QED BY <2>1, <2>2
<1>9. QueueTypes' BY <1>1, <1>8 DEF ReceptionInv, QueueTypes
<1>10. States'
  BY <1>1, <1>2, <1>3, <1>4 DEF States, RowState, MailFinished, Fresh, ReceptionInv
<1>11. PastPlaced'
  BY <1>1, <1>3, <1>4 DEF PastPlaced, Placed, MailFinished, ReceptionInv
<1>12. StoredBeforeForgotten'
  <2> SUFFICES ASSUME NEW i \in imapRows', i.target = "delete", i.mail.kind \in {"plain", "pre", "post"},
                      i.mail.of \notin past.retracted, NEW k \in 1..i.mail.parts
               PROVE  <<i.mail.of, k>> \in past.stored
    BY <1>4 DEF StoredBeforeForgotten
  <2>1. CASE i.mail = job.mail BY <1>1, <1>2, <1>3, <2>1 DEF MailFinished, MailStored, Content
  <2>2. CASE i.mail # job.mail BY <1>8, <2>2 DEF ReceptionInv, StoredBeforeForgotten
  <2> QED BY <2>1, <2>2
<1>13. MailBegun' BY <1>1, <1>2, <1>3, <1>4 DEF MailBegun, MailFinished, ReceptionInv
<1>14. JobKnown' BY <1>1 DEF JobKnown
<1> QED BY <1>4, <1>7, <1>9, <1>10, <1>11, <1>12, <1>13, <1>14 DEF ReceptionInv

\* A death leaves the rows as they are.
LEMMA DieKeeps == ASSUME ReceptionInv, DieReceiving PROVE ReceptionInv'
<1>1. /\ job # NotReceiving /\ job' = NotReceiving /\ UNCHANGED <<msgs, nextId, imapRows, pending>>
      /\ past' = [past EXCEPT !.cut = @ \cup {job.mail}]
  BY DEF DieReceiving
<1>2. job.mail \in ReceptionMails /\ job.stage \in Stages BY <1>1 DEF ReceptionInv, QueueTypes, ReceivingSet
<1>3. /\ PastTypes' /\ past'.stored = past.stored /\ past'.retracted = past.retracted /\ past'.gone = past.gone
      /\ past'.edited = past.edited /\ past'.came = past.came /\ past'.cut = past.cut \cup {job.mail}
  BY <1>1, <1>2 DEF ReceptionInv, PastTypes
<1>4. MoreKnown BY <1>3 DEF MoreKnown
<1>5. Rewritten /\ IdsApart BY <1>1, RowsSame DEF ReceptionInv, RowsInv
<1>6. RowsInv' BY <1>1, <1>4, <1>5, RewrittenRows DEF ReceptionInv
<1>7. QueueTypes' BY <1>1 DEF ReceptionInv, QueueTypes
<1>8. ASSUME NEW r \in msgs, r.shown, r.id \in job.done PROVE job.mail \in Content /\ r.mid = job.mail.of
  BY <1>1, <1>2, <1>8 DEF ReceptionInv, JobKnown, MailHandled, RowWritten, MailFinished, Stages
<1>9. States'
  BY <1>1, <1>3, <1>8 DEF States, RowState, Fresh, ReceptionInv
<1>10. PastPlaced' BY <1>3, <1>5, PastStays DEF ReceptionInv
<1>11. StoredBeforeForgotten' /\ MailBegun' BY <1>1, <1>3, <1>4, ForgottenStays, BegunStays DEF ReceptionInv
<1>12. JobKnown' BY <1>1 DEF JobKnown
<1> QED BY <1>3, <1>6, <1>7, <1>9, <1>10, <1>11, <1>12 DEF ReceptionInv

\* What the user or housekeeping does meanwhile leaves the job's knowledge true.
LEMMA JobStays ==
    ASSUME RowsInv, QueueTypes, JobKnown, Rewritten, MoreKnown, UNCHANGED <<nextId, job>>,
           past'.edited = past.edited, past'.came = past.came,
           \A n \in msgs' : \E r \in msgs : SameRow(r, n) /\ n.pre = r.pre,
           \A x \in past'.gone : x \in past.gone \/ \E r \in msgs : x = <<r.mid, r.part>>
    PROVE  JobKnown'
<1> SUFFICES ASSUME job # NotReceiving PROVE (MailHandled /\ RowWritten /\ PartsStored /\ MailFinished)'
  BY DEF JobKnown
<1>1. MailHandled /\ RowWritten /\ PartsStored /\ MailFinished BY DEF JobKnown
<1>2. MailHandled' BY <1>1 DEF MailHandled, SameRow
<1>3. RowWritten'
  <2> SUFFICES ASSUME job.stage = "write" PROVE RowWritten' BY DEF RowWritten
  <2>1. \E s \in msgs' : s.id = job.id /\ s.mid = job.mail.of /\ s.dated
    BY <1>1 DEF RowWritten, Rewritten, SameRow
  <2>2. \A n \in msgs' : n.shown /\ n.mid = job.mail.of => n.id = job.id BY <1>1 DEF RowWritten, Rewritten, SameRow
  <2> QED BY <1>1, <2>1, <2>2 DEF RowWritten
<1>4. Placed(job.mail.of) => \E s \in msgs' : s.mid = job.mail.of /\ s.dated
  BY DEF Placed, Rewritten, SameRow
<1>5. PartsStored'
  <2> SUFFICES ASSUME job.stage = "store" PROVE PartsStored' BY DEF PartsStored
  <2>1. \A n \in msgs' : n.mid = job.mail.of => n.part \in 1..Cardinality(job.done)
    BY <1>1 DEF PartsStored, Rewritten, SameRow
  <2>2. \A x \in past'.gone : x[1] = job.mail.of => x[2] <= Cardinality(job.done)
    BY <1>1 DEF PartsStored
  <2>3. \A k \in 1..Cardinality(job.done) : <<job.mail.of, k>> \in past'.stored BY <1>1 DEF PartsStored, MoreKnown
  <2> QED BY <1>1, <1>4, <2>1, <2>2, <2>3 DEF PartsStored, Placed
<1>6. MailFinished'
  <2>1. job.mail \in Content /\ MailStored(job.mail) => MailStored(job.mail)' BY DEF MailStored, MoreKnown
  <2>2. job.stage \in {"store", "trash", "enrich", "retain"} /\ job.mail.kind = "post" =>
           \A n \in msgs' : n.shown /\ n.mid = job.mail.of => n.file
    BY <1>1 DEF MailFinished, Rewritten, SameRow
  <2>3. job.stage \in {"store", "enrich"} =>
           \A n \in msgs' : n.id \in job.done /\ n.shown => job.mail \in Content /\ n.mid = job.mail.of
    BY <1>1 DEF MailFinished, Rewritten, SameRow
  <2> QED BY <1>1, <1>4, <2>1, <2>2, <2>3 DEF MailFinished, MoreKnown, Placed
<1> QED BY <1>2, <1>3, <1>5, <1>6

\* The user deletes a message, and the server is to forget its mails.
LEMMA DeleteMsgsKeeps == ASSUME ReceptionInv, NEW r \in msgs, DeleteMsgs(r) PROVE ReceptionInv'
<1>1. /\ r.shown /\ Delete({r.id}) /\ UNCHANGED <<nextId, pending, job>>
      /\ imapRows' = {IF i.mail.own \in {r.mid, r.pre} THEN [i EXCEPT !.target = "delete"] ELSE i : i \in imapRows}
      /\ past' = [past EXCEPT !.retracted = @ \cup {r.mid}, !.gone = @ \cup {<<r.mid, r.part>>}]
  BY DEF DeleteMsgs
<1>2. r.mid \in Nat /\ r.part \in Nat /\ <<r.mid, r.part>> \in Nat \X Nat
  BY DEF ReceptionInv, RowsInv, RowTypes, RowSet
<1>3. /\ PastTypes' /\ past'.stored = past.stored /\ past'.retracted = past.retracted \cup {r.mid}
      /\ past'.gone = past.gone \cup {<<r.mid, r.part>>}
      /\ past'.edited = past.edited /\ past'.came = past.came /\ past'.cut = past.cut
  BY <1>1, <1>2 DEF ReceptionInv, PastTypes
<1>4. MoreKnown BY <1>3 DEF MoreKnown
<1>5. \A s \in msgs : s.id \in {r.id} => s.mid \in past'.retracted BY <1>3 DEF ReceptionInv, RowsInv, RowTypes
<1>6. Rewritten /\ IdsApart /\ \A n \in msgs' : n.shown => n.id \notin {r.id} /\ n \in msgs
  BY <1>1, <1>5, DeletedRows DEF ReceptionInv
<1>7. RowsInv' BY <1>1, <1>4, <1>6, RewrittenRows DEF ReceptionInv
<1>8. States'
  <2> SUFFICES ASSUME NEW n \in msgs', n.shown PROVE RowState(n)' BY DEF States, RowState
  <2>1. RowState(n) /\ n \in msgs /\ n # r BY <1>6 DEF States, ReceptionInv
  <2>2. <<n.mid, n.part>> # <<r.mid, r.part>> BY <1>1, <2>1 DEF ReceptionInv, RowsInv, ShownOnce
  <2>3. Fresh' = Fresh BY <1>1 DEF Fresh
  <2> QED BY <1>3, <2>1, <2>2, <2>3 DEF RowState
<1>9. PastPlaced'
  <2>1. Placed(r.mid) BY <1>1 DEF Placed, ReceptionInv, RowsInv, Orders, RowOrder
  <2>2. \A x \in past'.gone : Placed(x[1]) BY <1>3, <2>1 DEF PastPlaced, ReceptionInv
  <2> QED BY <1>3, <1>6, <2>2, StaysPlaced DEF PastPlaced, ReceptionInv
<1>10. ASSUME NEW i \in imapRows'
       PROVE  \E o \in imapRows : /\ i.mail = o.mail /\ i.target = (IF i.mail.own \in {r.mid, r.pre} THEN "delete" ELSE o.target)
                                 /\ i \in [relay : Relays, mail : ReceptionMails, target : {"keep", "delete"}]
  <2>1. PICK o \in imapRows : i = IF o.mail.own \in {r.mid, r.pre} THEN [o EXCEPT !.target = "delete"] ELSE o BY <1>1
  <2>2. o \in [relay : Relays, mail : ReceptionMails, target : {"keep", "delete"}] BY DEF ReceptionInv, QueueTypes
  <2> QED BY <2>1, <2>2
<1>11. QueueTypes' BY <1>1, <1>10 DEF ReceptionInv, QueueTypes
<1>12. StoredBeforeForgotten'
  <2> SUFFICES ASSUME NEW i \in imapRows', i.target = "delete", i.mail.kind \in {"plain", "pre", "post"},
                      i.mail.of \notin past'.retracted, NEW k \in 1..i.mail.parts
               PROVE  <<i.mail.of, k>> \in past'.stored
    BY DEF StoredBeforeForgotten
  <2>1. PICK o \in imapRows : /\ i.mail = o.mail /\ i.target = (IF i.mail.own \in {r.mid, r.pre} THEN "delete" ELSE o.target)
                               /\ i.mail \in ReceptionMails
    BY <1>10
  <2>2. i.mail.own \notin {r.mid, r.pre}
    BY <1>3, <2>1, NoneByPre, MailFacts DEF ReceptionInv, RowsInv
  <2> QED BY <1>3, <2>1, <2>2 DEF ReceptionInv, StoredBeforeForgotten
<1>13. MailBegun' BY <1>1, <1>3, BegunStays DEF ReceptionInv
<1>14. JobKnown'
  <2>1. \A n \in msgs' : \E s \in msgs : SameRow(s, n) /\ n.pre = s.pre
    <3> SUFFICES ASSUME NEW n \in msgs' PROVE \E s \in msgs : SameRow(s, n) /\ n.pre = s.pre OBVIOUS
    <3>1. PICK s \in msgs : n = IF s.id \in {r.id} THEN Trash(s) ELSE s BY <1>1 DEF Delete
    <3>2. s \in RowSet BY DEF ReceptionInv, RowsInv, RowTypes
    <3>3. n.pre = s.pre /\ n.id = s.id BY <3>1, <3>2 DEF Trash, RowSet
    <3>4. PICK q \in msgs : SameRow(q, n) BY <1>6 DEF Rewritten
    <3>5. q = s BY <3>3, <3>4 DEF SameRow, ReceptionInv, RowsInv, RowTypes
    <3> QED BY <3>3, <3>4, <3>5
  <2>2. \A x \in past'.gone : x \in past.gone \/ \E s \in msgs : x = <<s.mid, s.part>> BY <1>3
  <2> QED BY <1>1, <1>3, <1>4, <1>6, <2>1, <2>2, JobStays DEF ReceptionInv
<1> QED BY <1>3, <1>7, <1>8, <1>9, <1>11, <1>12, <1>13, <1>14 DEF ReceptionInv

\* Tombstones without a date go.
LEMMA PruneKeeps == ASSUME ReceptionInv, PruneTombstones PROVE ReceptionInv'
<1> DEFINE S == {x \in msgs : x.shown \/ x.dated \/ \E i \in imapRows : i.mail.own = x.mid /\ i.target = "keep"}
           f == [r \in msgs |-> IF r.shown THEN r ELSE [r EXCEPT !.enriched = FALSE]]
<1>1. UNCHANGED <<nextId, imapRows, pending, job, past>> /\ msgs' = {f[r] : r \in S} BY DEF PruneTombstones
<1>2. ASSUME NEW r \in S PROVE f[r] \in RowSet /\ SameRow(r, f[r]) /\ f[r].pre = r.pre
  <2>1. r \in RowSet BY DEF ReceptionInv, RowsInv, RowTypes
  <2> QED BY <2>1 DEF RowSet, SameRow
<1>3. \A r \in msgs : r.dated => r \in S OBVIOUS
<1>4. S \in SUBSET msgs OBVIOUS
<1> HIDE DEF S, f
<1>5. Rewritten /\ IdsApart BY <1>1, <1>2, <1>3, <1>4, RowsReplaced DEF ReceptionInv, RowsInv
<1>6. MoreKnown BY <1>1 DEF MoreKnown
<1>7. RowsInv' BY <1>1, <1>5, <1>6, RewrittenRows DEF ReceptionInv
<1>8. States' /\ PastPlaced' BY <1>1, <1>5, StatesStay, PastStays DEF ReceptionInv, Fresh
<1>9. StoredBeforeForgotten' /\ MailBegun' BY <1>1, <1>6, ForgottenStays, BegunStays DEF ReceptionInv
<1>10. \A n \in msgs' : \E r \in msgs : SameRow(r, n) /\ n.pre = r.pre BY <1>1, <1>2, <1>4
<1>11. JobKnown' BY <1>1, <1>5, <1>6, <1>10, JobStays DEF ReceptionInv
<1>12. QueueTypes' /\ PastTypes' BY <1>1 DEF ReceptionInv, QueueTypes, PastTypes
<1> QED BY <1>7, <1>8, <1>9, <1>11, <1>12 DEF ReceptionInv

-----------------------------------------------------------------------------

\* Nothing is received at first.
LEMMA ReceptionStart == ReceptionInit => ReceptionInv
<1> SUFFICES ASSUME ReceptionInit PROVE ReceptionInv OBVIOUS
<1>1. pending \in SUBSET DeliverySet BY ReceptionAssumption DEF ReceptionInit, DeliverySet
<1>2. RowsInv BY DEF ReceptionInit, RowsInv, RowTypes, Origins, Orders, ShownOnce
<1>3. PastTypes BY DEF ReceptionInit, PastTypes
<1>4. QueueTypes BY <1>1 DEF ReceptionInit, QueueTypes
<1>5. States /\ PastPlaced /\ JobKnown BY DEF ReceptionInit, States, PastPlaced, JobKnown
<1>6. MailBegun /\ StoredBeforeForgotten BY DEF ReceptionInit, MailBegun, StoredBeforeForgotten
<1> QED BY <1>2, <1>3, <1>4, <1>5, <1>6 DEF ReceptionInv

\* Every step keeps the invariant.
LEMMA ReceptionStays == ReceptionInv /\ [ReceptionNext]_receptionVars => ReceptionInv'
<1> SUFFICES ASSUME ReceptionInv, [ReceptionNext]_receptionVars PROVE ReceptionInv' OBVIOUS
<1>1. ASSUME NEW d \in pending, Receive(d) PROVE ReceptionInv' BY <1>1, ReceiveKeeps
<1>2. ASSUME StoreMail PROVE ReceptionInv'
  <2>1. ASSUME HandleDelete PROVE ReceptionInv' BY <2>1, DeleteAheadKeeps, DeleteThereKeeps
  <2> QED BY <1>2, <2>1, EditLoadKeeps, EditKeeps, PostLoadKeeps, ReplaceKeeps, PreKeeps, PlainKeeps, InsertPartKeeps,
             InsertTrashKeeps, EnrichKeeps, RetentionKeeps
          DEF StoreMail
<1>3. ASSUME NEW r \in msgs, DeleteMsgs(r) PROVE ReceptionInv' BY <1>3, DeleteMsgsKeeps
<1>4. ASSUME UNCHANGED receptionVars PROVE ReceptionInv'
  <2>1. NothingWritten /\ UNCHANGED <<imapRows, pending, job>> BY <1>4 DEF receptionVars, NothingWritten
  <2>2. RowsInv' /\ PastTypes' /\ States' /\ PastPlaced' BY <2>1, QuietRows DEF Fresh
  <2>3. QueueTypes' BY <2>1 DEF ReceptionInv, QueueTypes
  <2>4. StoredBeforeForgotten' /\ MailBegun'
    BY <2>1, ForgottenStays, BegunStays DEF ReceptionInv, NothingWritten, MoreKnown
  <2>5. Rewritten /\ MoreKnown BY <2>1, RowsSame DEF ReceptionInv, RowsInv, NothingWritten, MoreKnown
  <2>6. \A n \in msgs' : \E r \in msgs : SameRow(r, n) /\ n.pre = r.pre BY <2>1 DEF NothingWritten, SameRow
  <2>7. JobKnown' BY <2>1, <2>5, <2>6, JobStays DEF ReceptionInv, NothingWritten
  <2> QED BY <2>2, <2>3, <2>4, <2>7 DEF ReceptionInv
<1> QED BY <1>1, <1>2, <1>3, <1>4, DieKeeps, PruneKeeps DEF ReceptionNext

\* The invariant says what is promised.
LEMMA ReceptionRight == ReceptionInv => ReceptionSafe
<1> SUFFICES ASSUME ReceptionInv PROVE ReceptionSafe OBVIOUS
<1>1. ReceptionTypeOK BY DEF ReceptionInv, RowsInv, RowTypes, RowSet, QueueTypes, ReceptionTypeOK
<1>2. ShownOnce /\ StoredBeforeForgotten BY DEF ReceptionInv, RowsInv
<1>3. DeletedStays BY DEF ReceptionInv, States, RowState, DeletedStays
<1>4. HalvesJoin BY DEF ReceptionInv, States, RowState, HalvesJoin
<1>5. Whole
  <2> SUFFICES ASSUME NEW m \in ReceptionMails, m.kind = "plain", m \notin past.cut, <<m.of, 1>> \in past.stored,
                      ~(job # NotReceiving /\ job.mail = m)
               PROVE  /\ \A k \in 1..m.parts : <<m.of, k>> \in past.stored
                      /\ \A r \in Shown(m.of) : r.enriched
    BY DEF Whole
  <2>1. \A k \in 1..m.parts : <<m.of, k>> \in past.stored BY DEF ReceptionInv, MailBegun
  <2>2. ASSUME NEW r \in msgs, r.mid = m.of, r.shown PROVE r.enriched
    <3>1. r.enriched \/ r.id \in Fresh \/ \E n \in past.cut \cap Content : n.of = r.mid
      BY <2>2 DEF ReceptionInv, States, RowState
    <3>2. ASSUME NEW n \in past.cut \cap Content, n.of = r.mid PROVE FALSE BY <2>2, <3>2, OneMail
    <3>3. ASSUME r.id \in Fresh PROVE FALSE
      <4>1. job # NotReceiving /\ r.id \in job.done BY <3>3 DEF Fresh
      <4>2. job.mail \in Content /\ r.mid = job.mail.of
        BY <2>2, <4>1 DEF ReceptionInv, QueueTypes, ReceivingSet, Stages, JobKnown, MailHandled, RowWritten, MailFinished
      <4> QED BY <2>2, <4>1, <4>2, OneMail
    <3> QED BY <3>1, <3>2, <3>3
  <2> QED BY <2>1, <2>2 DEF Shown
<1> QED BY <1>1, <1>2, <1>3, <1>4, <1>5 DEF ReceptionSafe

\* However mails are delivered, cut off, edited and deleted: what is received is shown once and
\* whole, is stored before the server forgets it, and stays deleted.
THEOREM ReceptionSound == ReceptionSpec => []ReceptionSafe
<1> QED BY ReceptionStart, ReceptionStays, ReceptionRight, PTL DEF ReceptionSpec

(***************************************************************************)
(* Backup: the inductive invariant.                                        *)
(***************************************************************************)

\* What a blob may be in a directory or a tar, and what the variables hold.
BlobStates == {"absent", "clear", "sealed"}
Directories == [BackupBlobs -> BlobStates]
WayTypes ==
    /\ way \in {"file", "wire"} /\ convertTo \in {"none", "sealed", "clear"}
    /\ recorded \in BOOLEAN /\ newer \in BOOLEAN /\ slips \subseteq {"late key", "cancelled"}
SourceTypes == source \in [refs : SUBSET BackupBlobs, on : BOOLEAN, key : BOOLEAN, blobs : Directories]
ExportTypes ==
    export \in [at : {"idle", "exported", "writing", "renamed", "sent", "done", "failed"},
               refs : SUBSET BackupBlobs, key : BOOLEAN, list : SUBSET BackupBlobs]
TarTypes == tar \in [blobs : Directories, whole : BOOLEAN]
PhoneTypes ==
    newPhone \in [at : {"fresh", "asking", "unpacking", "imported", "checked", "migrated", "failed"},
                 db : {"fresh", "backup", "migrated"}, refs : SUBSET BackupBlobs, key : BOOLEAN,
                 blobs : Directories, ack : BOOLEAN, io : BOOLEAN]
BackupTypes == WayTypes /\ SourceTypes /\ ExportTypes /\ TarTypes /\ PhoneTypes

\* The exporting device has the blobs of its messages, and a key while one may be sealed.
SourceSound ==
    /\ \A b \in source.refs : source.blobs[b] # "absent"
    /\ source.on \/ convertTo = "clear" => source.key
    /\ convertTo = "sealed" => source.on
    /\ convertTo = "clear" => ~source.on
    /\ \A b \in BackupBlobs : source.blobs[b] = "sealed" => source.key

\* Of the blobs that the snapshot refers to, each is in the tar or still listed, and the snapshot has the
\* key of what is sealed, or the key came late.
ExportSound ==
    /\ export.at = "idle" => export.list = {} /\ export.refs = {}
    /\ export.at \in {"idle", "exported"} => export.list = {} /\ \A b \in BackupBlobs : tar.blobs[b] = "absent"
    /\ export.at \in {"exported", "writing"} =>
         /\ \A b \in export.refs : source.blobs[b] # "absent"
         /\ source.key /\ ~export.key => "late key" \in slips
         /\ ~tar.whole
    /\ export.at = "writing" => \A b \in export.refs : b \in export.list \/ tar.blobs[b] # "absent"
    /\ export.at \in {"renamed", "sent"} => export.list = {}
    /\ export.at = "renamed" => way = "file" /\ tar.whole
    /\ export.at = "sent" => way = "wire"
    /\ \A b \in export.list : source.blobs[b] # "absent" /\ tar.blobs[b] = "absent"
    /\ recorded => way = "file" /\ export.at = "done"
    /\ way = "file" /\ export.at = "done" => tar.whole
    /\ way = "wire" /\ export.at = "done" => newPhone.ack
    /\ way = "file" /\ export.at = "failed" => ~tar.whole
TarSound ==
    /\ tar.whole => export.at \notin {"idle", "exported", "writing"} /\ \A b \in export.refs : tar.blobs[b] # "absent"
    /\ \A b \in BackupBlobs : tar.blobs[b] = "sealed" => export.key \/ "late key" \in slips

\* The importing device has blobs as the tar has them, and from the database on all of them.
ImportSound ==
    /\ way = "file" /\ newPhone.at # "fresh" => tar.whole
    /\ newPhone.at = "asking" => way = "wire"
    /\ newPhone.at \in {"fresh", "asking", "unpacking"} => newPhone.db = "fresh"
    /\ newPhone.at # "failed" => \A b \in BackupBlobs : newPhone.blobs[b] \in {"absent", tar.blobs[b]}
    /\ newPhone.at \in {"imported", "checked", "migrated"} =>
         /\ tar.whole /\ newPhone.refs = export.refs /\ newPhone.key = export.key
         /\ \A b \in BackupBlobs : tar.blobs[b] # "absent" => newPhone.blobs[b] # "absent"
    /\ newPhone.at \in {"checked", "migrated"} => ~newer
    /\ newPhone.ack => newPhone.at = "migrated"
    /\ newPhone.at = "migrated" => newPhone.db = "migrated"
    /\ newPhone.at = "fresh" => \A b \in BackupBlobs : newPhone.blobs[b] = "absent"

\* The inductive invariant.
BackupInv ==
    /\ BackupTypes /\ SourceSound /\ ExportSound /\ TarSound /\ ImportSound
    /\ AllOrNothing /\ NoIoWhileImporting
-----------------------------------------------------------------------------
(* Which parts a step can disturb. *)

\* A step of the exporting device's user, or of its housekeeping: no blob goes while a backup is written, and a key that
\* comes meanwhile is noted.
LEMMA SourceSteps ==
    ASSUME BackupInv, UNCHANGED <<way, export, tar, recorded, newPhone, newer>>,
           slips' \in {slips, slips \cup {"late key"}}, convertTo' \in {"none", "sealed", "clear"},
           SourceTypes', SourceSound',
           \A c \in BackupBlobs : source.blobs[c] # "absent" => export.at = "idle" \/ source'.blobs[c] # "absent",
           export.at \in {"exported", "writing"} /\ source'.key /\ ~export.key => source.key \/ "late key" \in slips'
    PROVE  BackupInv'
<1>1. BackupTypes'
  <2>1. WayTypes' BY DEF BackupInv, BackupTypes, WayTypes
  <2>2. ExportTypes' /\ TarTypes' /\ PhoneTypes' BY DEF BackupInv, BackupTypes, ExportTypes, TarTypes, PhoneTypes
  <2> QED BY <2>1, <2>2 DEF BackupTypes
<1>2. ExportSound' BY DEF BackupInv, BackupTypes, ExportTypes, ExportSound
<1>3. TarSound' BY DEF BackupInv, TarSound
<1>4. ImportSound' BY DEF BackupInv, ImportSound
<1>5. AllOrNothing' BY DEF BackupInv, BackupTypes, WayTypes, AllOrNothing, OnDisk
<1>6. NoIoWhileImporting' BY DEF BackupInv, NoIoWhileImporting
<1> QED BY <1>1, <1>2, <1>3, <1>4, <1>5, <1>6 DEF BackupInv

\* A step of the importing device
LEMMA PhoneSteps ==
    ASSUME BackupInv, UNCHANGED <<way, source, convertTo, export, tar, recorded, newer>>,
           slips' \in {slips, slips \cup {"cancelled"}},
           PhoneTypes', ImportSound', AllOrNothing', NoIoWhileImporting', newPhone.ack => newPhone'.ack
    PROVE  BackupInv'
<1>1. BackupTypes' BY DEF BackupInv, BackupTypes, WayTypes, SourceTypes, ExportTypes, TarTypes
<1>2. SourceSound' BY DEF BackupInv, SourceSound
<1>3. ExportSound' BY DEF BackupInv, BackupTypes, WayTypes, ExportSound
<1>4. TarSound' BY DEF BackupInv, BackupTypes, WayTypes, TarSound
<1> QED BY <1>1, <1>2, <1>3, <1>4 DEF BackupInv

\* A step of the export: what was imported is not taken back.
LEMMA ExportSteps ==
    ASSUME BackupInv, UNCHANGED <<way, convertTo, newPhone, newer, slips>>, recorded' \in BOOLEAN,
           SourceTypes', ExportTypes', TarTypes', SourceSound', ExportSound', TarSound',
           tar.whole => tar'.whole /\ export'.refs = export.refs /\ export'.key = export.key,
           tar.whole => tar'.blobs = tar.blobs,
           tar.whole \/ way = "wire" => \A c \in BackupBlobs : tar.blobs[c] \in {"absent", tar'.blobs[c]}
    PROVE  BackupInv'
<1>1. BackupTypes' BY DEF BackupInv, BackupTypes, WayTypes, PhoneTypes
<1>2. ImportSound' BY DEF BackupInv, BackupTypes, WayTypes, PhoneTypes, ImportSound
<1>3. AllOrNothing' BY DEF BackupInv, AllOrNothing, OnDisk
<1>4. NoIoWhileImporting' BY DEF BackupInv, NoIoWhileImporting
<1> QED BY <1>1, <1>2, <1>3, <1>4 DEF BackupInv

-----------------------------------------------------------------------------
(* The exporting device *)

\* A new blob is sealed only with a key.
LEMMA NewAttachmentKeeps ==
    ASSUME NEW b \in BackupBlobs, BackupInv, NewAttachment(b)
    PROVE  BackupInv'
<1> USE DEF BackupInv, BackupTypes, WayTypes, SourceTypes, Directories, BlobStates
<1>1. source' = [source EXCEPT !.refs = @ \cup {b}, !.blobs[b] = IF source.on THEN "sealed" ELSE "clear"]
  BY DEF NewAttachment
<1>2. /\ source'.refs = source.refs \cup {b} /\ source'.on = source.on /\ source'.key = source.key
      /\ source'.blobs[b] = IF source.on THEN "sealed" ELSE "clear"
      /\ \A c \in BackupBlobs \ {b} : source'.blobs[c] = source.blobs[c]
  BY <1>1
<1>3. SourceTypes' BY <1>1
<1>4. UNCHANGED <<way, convertTo, export, tar, recorded, newPhone, newer, slips>> BY DEF NewAttachment
<1>5. SourceSound' BY <1>2, <1>4 DEF SourceSound
<1>6. \A c \in BackupBlobs : source.blobs[c] # "absent" => source'.blobs[c] # "absent" BY <1>2
<1> HIDE DEF BackupInv
<1> QED BY <1>2, <1>3, <1>4, <1>5, <1>6, SourceSteps DEF BackupInv

\* A deletion leaves the blob to housekeeping.
LEMMA DeleteMessageKeeps ==
    ASSUME NEW b \in BackupBlobs, BackupInv, DeleteMessage(b)
    PROVE  BackupInv'
<1> USE DEF DeleteMessage, BackupInv, BackupTypes, WayTypes, SourceTypes
<1>1. source'.blobs = source.blobs /\ source'.key = source.key OBVIOUS
<1>2. SourceTypes' OBVIOUS
<1>3. SourceSound' BY DEF SourceSound
<1> QED BY <1>1, <1>2, <1>3, SourceSteps

\* A key is made, and what of it a backup under way has missed is noted.
LEMMA TurnedOnKeeps ==
    ASSUME BackupInv, EnableBlobEncryption
    PROVE  BackupInv'
<1> USE DEF EnableBlobEncryption, BackupInv, BackupTypes, WayTypes, SourceTypes
<1>1. source'.blobs = source.blobs OBVIOUS
<1>2. SourceTypes' OBVIOUS
<1>3. SourceSound' BY DEF SourceSound
<1> QED BY <1>1, <1>2, <1>3, SourceSteps

\* The key stays until every file is in the clear.
LEMMA TurnedOffKeeps ==
    ASSUME BackupInv, DisableBlobEncryption
    PROVE  BackupInv'
<1> USE DEF DisableBlobEncryption, BackupInv, BackupTypes, WayTypes, SourceTypes
<1>1. source'.blobs = source.blobs /\ source'.key = source.key OBVIOUS
<1>2. SourceTypes' OBVIOUS
<1>3. SourceSound' BY DEF SourceSound
<1> QED BY <1>1, <1>2, <1>3, SourceSteps

\* One file is converted, or the pass ends and no file is sealed that the key is needed for.
LEMMA ConvertBlobKeeps ==
    ASSUME BackupInv, ConvertBlob
    PROVE  BackupInv'
<1> USE DEF BackupInv, BackupTypes, WayTypes, SourceTypes, Directories, BlobStates
<1>1. convertTo # "none" /\ UNCHANGED <<way, export, tar, recorded, newPhone, newer, slips>> BY DEF ConvertBlob
<1>2. CASE \E b \in OnDisk(source.blobs) :
              /\ source' = [source EXCEPT !.blobs[b] = convertTo] /\ UNCHANGED convertTo
  <2>1. PICK b \in BackupBlobs : /\ source' = [source EXCEPT !.blobs[b] = convertTo] /\ UNCHANGED convertTo
    BY <1>2 DEF OnDisk
  <2>2. /\ source'.refs = source.refs /\ source'.on = source.on /\ source'.key = source.key
        /\ source'.blobs[b] = convertTo
        /\ \A c \in BackupBlobs \ {b} : source'.blobs[c] = source.blobs[c]
    BY <2>1
  <2>3. SourceTypes' BY <1>1, <2>1
  <2>4. SourceSound' BY <1>1, <2>1, <2>2 DEF SourceSound
  <2>5. \A c \in BackupBlobs : source.blobs[c] # "absent" => source'.blobs[c] # "absent" BY <1>1, <2>2
  <2> QED BY <1>1, <2>1, <2>2, <2>3, <2>4, <2>5, SourceSteps
<1>3. CASE /\ \A b \in OnDisk(source.blobs) : source.blobs[b] = convertTo
           /\ source' = IF convertTo = "clear" THEN [source EXCEPT !.key = FALSE] ELSE source
           /\ convertTo' = "none"
  <2>1. source'.blobs = source.blobs /\ (source'.key => source.key) BY <1>3
  <2>2. SourceTypes' BY <1>3
  <2>3. SourceSound' BY <1>1, <1>3 DEF SourceSound, OnDisk
  <2> QED BY <1>1, <1>3, <2>1, <2>2, <2>3, SourceSteps
<1> QED BY <1>2, <1>3 DEF ConvertBlob

\* Housekeeping takes no blob that a message refers to.
LEMMA UnusedGo ==
    ASSUME SourceTypes, SourceSound, source' = RemoveUnused(source), UNCHANGED convertTo
    PROVE  /\ SourceTypes' /\ SourceSound' /\ source'.key = source.key
           /\ source'.refs = source.refs /\ \A b \in source.refs : source'.blobs[b] # "absent"
<1> USE DEF RemoveUnused, Unused, OnDisk, SourceTypes, Directories, BlobStates
<1>1. source'.refs = source.refs /\ source'.on = source.on /\ source'.key = source.key OBVIOUS
<1>2. \A b \in BackupBlobs : source'.blobs[b] \in {"absent", source.blobs[b]} OBVIOUS
<1>3. \A b \in source.refs : source'.blobs[b] # "absent" BY DEF SourceSound
<1>4. SourceTypes' OBVIOUS
<1> QED BY <1>1, <1>2, <1>3, <1>4 DEF SourceSound

\* The loop's housekeeping runs before the export only.
LEMMA LoopHousekeepingKeeps ==
    ASSUME BackupInv, LoopHousekeeping
    PROVE  BackupInv'
<1>1. SourceTypes' /\ SourceSound' /\ source'.key = source.key
  BY UnusedGo DEF LoopHousekeeping, BackupInv, BackupTypes
<1> QED BY <1>1, SourceSteps DEF LoopHousekeeping, BackupInv, BackupTypes, WayTypes

-----------------------------------------------------------------------------
(* The export *)

\* The snapshot has the messages of the moment, whose blobs are on the disk, and the key of the moment.
LEMMA ExportDatabaseKeeps ==
    ASSUME BackupInv, ExportDatabase
    PROVE  BackupInv'
<1> USE DEF BackupInv, BackupTypes, ExportTypes
<1>1. /\ SourceTypes' /\ SourceSound' /\ source'.key = source.key
      /\ \A b \in source.refs : source'.blobs[b] # "absent"
  BY UnusedGo DEF ExportDatabase
<1>2. /\ export.at = "idle" /\ export'.at = "exported" /\ export'.refs = source.refs /\ export'.key = source.key
      /\ export'.list = export.list /\ UNCHANGED <<way, convertTo, tar, recorded, newPhone, newer, slips, backupBudget>>
  BY DEF ExportDatabase
<1>3. ExportTypes' BY DEF ExportDatabase, SourceTypes
<1>4. ~tar.whole BY <1>2 DEF TarSound
<1>5. ExportSound' BY <1>1, <1>2, <1>4 DEF ExportSound
<1>6. TarSound' BY <1>2, <1>4 DEF ExportSound, TarSound
<1> QED BY <1>1, <1>2, <1>3, <1>4, <1>5, <1>6, ExportSteps DEF WayTypes, TarTypes, Directories, BlobStates

\* The list has the blobs of the snapshot.
LEMMA ListBlobsKeeps ==
    ASSUME BackupInv, ListBlobs
    PROVE  BackupInv'
<1> USE DEF BackupInv, BackupTypes, ExportTypes
<1>1. /\ export.at = "exported" /\ export'.at = "writing" /\ export'.refs = export.refs /\ export'.key = export.key
      /\ export'.list = {b \in BackupBlobs : source.blobs[b] # "absent"}
      /\ UNCHANGED <<way, source, convertTo, tar, recorded, newPhone, newer, slips, backupBudget>>
  BY DEF ListBlobs, OnDisk
<1>2. ExportTypes' BY DEF ListBlobs, OnDisk
<1>3. ~tar.whole BY <1>1 DEF TarSound
<1>4. ExportSound' BY <1>1, <1>3 DEF ExportSound
<1>5. TarSound' BY <1>1, <1>3 DEF TarSound
<1>6. SourceSound' /\ SourceTypes' /\ TarTypes' BY <1>1 DEF SourceSound, SourceTypes, TarTypes
<1> QED BY <1>1, <1>2, <1>3, <1>4, <1>5, <1>6, ExportSteps DEF WayTypes, TarTypes, Directories, BlobStates

\* A blob is on the disk while it is listed, and if it is sealed the key is known or came late.
LEMMA AppendBlobKeeps ==
    ASSUME NEW b \in BackupBlobs, BackupInv, AppendBlob(b)
    PROVE  BackupInv'
<1> USE DEF BackupInv, BackupTypes, ExportTypes, TarTypes, SourceTypes, Directories, BlobStates
<1>1. /\ export.at = "writing" /\ b \in export.list
      /\ export'.at = export.at /\ export'.refs = export.refs /\ export'.key = export.key
      /\ export'.list = export.list \ {b}
      /\ UNCHANGED <<way, source, convertTo, recorded, newPhone, newer, slips, backupBudget>>
  BY DEF AppendBlob
<1>2. /\ tar'.whole = tar.whole /\ tar'.blobs[b] = source.blobs[b]
      /\ \A c \in BackupBlobs \ {b} : tar'.blobs[c] = tar.blobs[c]
  BY DEF AppendBlob
<1>3. ExportTypes' /\ TarTypes' BY DEF AppendBlob
<1>4. ~tar.whole BY <1>1 DEF TarSound
<1>5. ExportSound'
  <2>1. \A c \in export.refs : c \in export'.list \/ tar'.blobs[c] # "absent" BY <1>1, <1>2 DEF ExportSound
  <2>2. \A c \in export'.list : source'.blobs[c] # "absent" /\ tar'.blobs[c] = "absent"
    <3>1. export.list \subseteq BackupBlobs OBVIOUS
    <3>2. \A c \in export.list : source.blobs[c] # "absent" /\ tar.blobs[c] = "absent" BY DEF ExportSound
    <3> QED BY ONLY <1>1, <1>2, <3>1, <3>2
  <2>3. ~recorded BY <1>1 DEF ExportSound
  <2> HIDE DEF TarTypes, SourceTypes
  <2> QED BY <1>1, <1>2, <1>4, <2>1, <2>2, <2>3 DEF ExportSound
<1>6. TarSound' BY <1>1, <1>2, <1>4 DEF TarSound, ExportSound, SourceSound
<1>7. SourceSound' /\ SourceTypes' BY <1>1 DEF SourceSound
<1>8. \A c \in BackupBlobs : tar.blobs[c] \in {"absent", tar'.blobs[c]} BY <1>1, <1>2 DEF ExportSound
<1> HIDE DEF ExportTypes, TarTypes, SourceTypes
<1> QED BY <1>1, <1>3, <1>4, <1>5, <1>6, <1>7, <1>8, ExportSteps DEF WayTypes

\* When nothing is listed any more, the tar has every blob that the snapshot refers to.
LEMMA FinishTarKeeps ==
    ASSUME BackupInv, FinishTar
    PROVE  BackupInv'
<1> USE DEF BackupInv, BackupTypes, ExportTypes, TarTypes
<1>1. /\ export.at = "writing" /\ export.list = {}
      /\ export'.at = (IF way = "file" THEN "renamed" ELSE "sent")
      /\ export'.refs = export.refs /\ export'.key = export.key /\ export'.list = export.list
      /\ UNCHANGED <<way, source, convertTo, recorded, newPhone, newer, slips, backupBudget>>
  BY DEF FinishTar
<1>2. tar'.whole /\ tar'.blobs = tar.blobs BY DEF FinishTar
<1>3. ExportTypes' /\ TarTypes' BY DEF FinishTar
<1>4. ~tar.whole BY <1>1 DEF TarSound
<1>5. ExportSound' BY <1>1, <1>2, <1>4 DEF ExportSound, WayTypes
<1>6. TarSound' BY <1>1, <1>2, <1>4 DEF TarSound, ExportSound, WayTypes
<1>7. SourceSound' /\ SourceTypes' BY <1>1 DEF SourceSound, SourceTypes
<1> QED BY <1>1, <1>2, <1>3, <1>4, <1>5, <1>6, <1>7, ExportSteps DEF WayTypes

\* Success is noted after the renaming, or after the acknowledgement.
LEMMA ExportEnds ==
    ASSUME BackupInv, RecordBackup \/ AwaitAck
    PROVE  BackupInv'
<1> USE DEF BackupInv, BackupTypes, ExportTypes
<1>1. /\ export'.at = "done" /\ export'.refs = export.refs /\ export'.key = export.key /\ export'.list = export.list
      /\ \/ export.at = "renamed" /\ recorded' = TRUE
         \/ export.at = "sent" /\ newPhone.ack /\ recorded' = recorded
      /\ UNCHANGED <<way, source, convertTo, tar, newPhone, newer, slips, backupBudget>>
  BY DEF RecordBackup, AwaitAck
<1>2. ExportTypes' BY DEF RecordBackup, AwaitAck
<1>3. ExportSound'
  <2>1. CASE export.at = "renamed" BY <1>1, <2>1 DEF ExportSound
  <2>2. CASE export.at = "sent" /\ newPhone.ack /\ recorded' = recorded BY <1>1, <2>2 DEF ExportSound
  <2> QED BY <1>1, <2>1, <2>2
<1>4. TarSound' BY <1>1 DEF TarSound
<1>5. SourceSound' /\ SourceTypes' /\ TarTypes' BY <1>1 DEF SourceSound, SourceTypes, TarTypes
<1> QED BY <1>1, <1>2, <1>3, <1>4, <1>5, ExportSteps DEF WayTypes

\* What fails has no file that could have been imported.
LEMMA ExportFailsKeeps ==
    ASSUME BackupInv, ExportFails
    PROVE  BackupInv'
<1> USE DEF BackupInv, BackupTypes, ExportTypes, TarTypes
<1>1. /\ export.at \in {"exported", "writing", "sent"} /\ export'.at = "failed"
      /\ export'.refs = export.refs /\ export'.key = export.key /\ export'.list = export.list
      /\ UNCHANGED <<way, source, convertTo, recorded, newPhone, newer, slips>>
  BY DEF ExportFails
<1>2. \/ way = "file" /\ ~tar'.whole /\ \A b \in BackupBlobs : tar'.blobs[b] = "absent"
      \/ way = "wire" /\ tar' = tar
  BY DEF ExportFails, NoBlobs, WayTypes
<1>3. ExportTypes' /\ TarTypes' BY DEF ExportFails, NoBlobs, Directories, BlobStates
<1>4. way = "file" => ~tar.whole BY <1>1 DEF ExportSound
<1>5. ExportSound' BY <1>1, <1>2 DEF ExportSound
<1>6. TarSound' BY <1>1, <1>2 DEF TarSound
<1>7. SourceSound' /\ SourceTypes' BY <1>1 DEF SourceSound, SourceTypes
<1> QED BY <1>1, <1>2, <1>3, <1>4, <1>5, <1>6, <1>7, ExportSteps DEF WayTypes

-----------------------------------------------------------------------------
(* The importing device *)

\* A file is imported when it is whole.
LEMMA BeginImportKeeps ==
    ASSUME BackupInv, BeginImport
    PROVE  BackupInv'
<1> USE DEF BeginImport, BackupInv, BackupTypes, PhoneTypes, WayTypes
<1>1. PhoneTypes' OBVIOUS
<1>2. ImportSound' BY DEF ImportSound
<1>3. AllOrNothing' BY DEF AllOrNothing
<1>4. NoIoWhileImporting' BY DEF NoIoWhileImporting
<1> QED BY <1>1, <1>2, <1>3, <1>4, PhoneSteps

\* A blob is unpacked as the tar has it.
LEMMA UnpackBlobKeeps ==
    ASSUME NEW b \in BackupBlobs, BackupInv, UnpackBlob(b)
    PROVE  BackupInv'
<1> USE DEF BackupInv, BackupTypes, PhoneTypes, TarTypes, Directories, BlobStates
<1>1. /\ newPhone.at \in {"asking", "unpacking"}
      /\ UNCHANGED <<way, source, convertTo, export, tar, recorded, newer, slips, backupBudget>>
  BY DEF UnpackBlob
<1>2. /\ newPhone'.at = "unpacking" /\ newPhone'.db = newPhone.db /\ newPhone'.refs = newPhone.refs
      /\ newPhone'.key = newPhone.key /\ newPhone'.ack = newPhone.ack /\ newPhone'.io = newPhone.io
      /\ newPhone'.blobs[b] = tar.blobs[b]
      /\ \A c \in BackupBlobs \ {b} : newPhone'.blobs[c] = newPhone.blobs[c]
  BY DEF UnpackBlob
<1>3. PhoneTypes' BY DEF UnpackBlob
<1>4. ImportSound' BY <1>1, <1>2 DEF ImportSound
<1>5. AllOrNothing' BY <1>2 DEF AllOrNothing
<1>6. NoIoWhileImporting' BY <1>1, <1>2 DEF NoIoWhileImporting, ImportSound
<1> HIDE DEF PhoneTypes, TarTypes
<1> QED BY <1>1, <1>2, <1>3, <1>4, <1>5, <1>6, PhoneSteps

\* The tar was read to its end, so the blobs of the snapshot are all there.
LEMMA ImportDatabaseKeeps ==
    ASSUME BackupInv, ImportDatabase
    PROVE  BackupInv'
<1> USE DEF BackupInv, BackupTypes, PhoneTypes
<1>1. /\ newPhone.at \in {"asking", "unpacking"} /\ tar.whole
      /\ \A b \in BackupBlobs : tar.blobs[b] # "absent" => newPhone.blobs[b] # "absent"
      /\ UNCHANGED <<way, source, convertTo, export, tar, recorded, newer, slips, backupBudget>>
  BY DEF ImportDatabase, OnDisk
<1>2. /\ newPhone'.at = "imported" /\ newPhone'.db = "backup" /\ newPhone'.refs = export.refs
      /\ newPhone'.key = export.key /\ newPhone'.ack = newPhone.ack /\ newPhone'.io = newPhone.io
      /\ newPhone'.blobs = newPhone.blobs
  BY DEF ImportDatabase
<1>3. PhoneTypes' BY DEF ImportDatabase, ExportTypes
<1>4. ImportSound' BY <1>1, <1>2 DEF ImportSound
<1>5. AllOrNothing' BY <1>2 DEF AllOrNothing
<1>6. NoIoWhileImporting' BY <1>1, <1>2 DEF NoIoWhileImporting, ImportSound
<1> QED BY <1>1, <1>2, <1>3, <1>4, <1>5, <1>6, PhoneSteps

\* What was cleaned up is empty.
LEMMA CleanUpKeeps ==
    ASSUME BackupInv, newPhone' = CleanedUp, newPhone.at \in {"unpacking", "imported", "checked"},
           UNCHANGED <<way, source, convertTo, export, tar, recorded, newer, slips>>
    PROVE  BackupInv'
<1> USE DEF BackupInv, BackupTypes, PhoneTypes
<1>1. /\ newPhone'.at = "failed" /\ newPhone'.db = "fresh" /\ newPhone'.refs = {} /\ ~newPhone'.key
      /\ newPhone'.ack = newPhone.ack /\ newPhone'.io = newPhone.io
      /\ newPhone'.blobs = [b \in BackupBlobs |-> "absent"]
  BY DEF CleanedUp, NoBlobs
<1>2. PhoneTypes' BY DEF CleanedUp, NoBlobs, Directories, BlobStates
<1>3. ImportSound' BY <1>1 DEF ImportSound
<1>4. AllOrNothing' BY <1>1 DEF AllOrNothing, OnDisk
<1>5. NoIoWhileImporting' BY <1>1 DEF NoIoWhileImporting
<1> QED BY <1>1, <1>2, <1>3, <1>4, <1>5, PhoneSteps

\* A step that leaves what was imported as it is: the version is checked, the database migrated, the import
\* cancelled, I/O started.
LEMMA PhoneGoesOn ==
    ASSUME BackupInv, MigrateImported \/ CancelImport \/ StartIoImported \/ (CheckVersion /\ ~newer)
    PROVE  BackupInv'
<1> USE DEF BackupInv, BackupTypes, PhoneTypes, WayTypes
<1>1. /\ newPhone'.refs = newPhone.refs /\ newPhone'.key = newPhone.key /\ newPhone'.blobs = newPhone.blobs
      /\ UNCHANGED <<way, source, convertTo, export, tar, recorded, newer>>
      /\ slips' \in {slips, slips \cup {"cancelled"}}
  BY DEF MigrateImported, CancelImport, StartIoImported, CheckVersion
<1>2. PhoneTypes' BY DEF MigrateImported, CancelImport, StartIoImported, CheckVersion
<1>3. CASE CheckVersion /\ ~newer
  <2>1. /\ newPhone.at = "imported" /\ newPhone'.at = "checked" /\ newPhone'.db = newPhone.db
        /\ newPhone'.ack = newPhone.ack /\ newPhone'.io = newPhone.io /\ ~newer /\ slips' = slips
    BY <1>3 DEF CheckVersion
  <2>2. ImportSound' BY <1>1, <2>1 DEF ImportSound
  <2>3. AllOrNothing' BY <2>1 DEF AllOrNothing
  <2>4. NoIoWhileImporting' BY <1>1, <2>1 DEF NoIoWhileImporting
  <2> QED BY <1>1, <1>2, <2>1, <2>2, <2>3, <2>4, PhoneSteps
<1>4. CASE MigrateImported
  <2>1. /\ newPhone.at = "checked" /\ newPhone'.at = "migrated" /\ newPhone'.db = "migrated"
        /\ newPhone'.io = newPhone.io /\ slips' = slips /\ newPhone'.ack \in BOOLEAN
    BY <1>4 DEF MigrateImported
  <2>2. ImportSound' BY <1>1, <2>1 DEF ImportSound
  <2>3. \A b \in newPhone.refs : newPhone.blobs[b] # "absent" BY <2>1 DEF ImportSound, TarSound, ExportTypes
  <2>4. AllOrNothing' BY <1>1, <2>1, <2>3 DEF AllOrNothing, OnDisk, ImportSound
  <2>5. NoIoWhileImporting' BY <1>1, <2>1 DEF NoIoWhileImporting
  <2>6. ~newPhone.ack BY <2>1 DEF ImportSound
  <2> QED BY <1>1, <1>2, <2>1, <2>2, <2>4, <2>5, <2>6, PhoneSteps
<1>5. CASE CancelImport
  <2>1. /\ newPhone.at \in {"asking", "unpacking", "imported", "checked"} /\ newPhone'.at = "failed"
        /\ newPhone'.db = newPhone.db /\ newPhone'.ack = newPhone.ack /\ newPhone'.io = newPhone.io
        /\ slips' = slips \cup {"cancelled"}
    BY <1>5 DEF CancelImport
  <2>2. ImportSound' BY <1>1, <2>1 DEF ImportSound
  <2>3. AllOrNothing' BY <2>1 DEF AllOrNothing
  <2>4. NoIoWhileImporting' BY <1>1, <2>1 DEF NoIoWhileImporting
  <2> QED BY <1>1, <1>2, <2>1, <2>2, <2>3, <2>4, PhoneSteps
<1>6. CASE StartIoImported
  <2>1. /\ newPhone.db # "fresh" /\ (way = "file" => newPhone.at \notin {"imported", "checked"})
        /\ newPhone'.at = newPhone.at /\ newPhone'.db = newPhone.db /\ newPhone'.ack = newPhone.ack
        /\ newPhone'.io /\ slips' = slips
    BY <1>6 DEF StartIoImported
  <2>2. ImportSound' BY <1>1, <2>1 DEF ImportSound
  <2>3. AllOrNothing' BY <1>1, <2>1 DEF AllOrNothing, OnDisk
  <2>4. NoIoWhileImporting' BY <1>1, <2>1 DEF NoIoWhileImporting, ImportSound
  <2> QED BY <1>1, <1>2, <2>1, <2>2, <2>3, <2>4, PhoneSteps
<1> QED BY <1>3, <1>4, <1>5, <1>6

-----------------------------------------------------------------------------

\* It holds at first.
LEMMA BackupInit0 == BackupInit => BackupInv
<1> SUFFICES ASSUME BackupInit PROVE BackupInv OBVIOUS
<1>1. PICK c \in BackupCases :
        /\ way = c.way /\ newer = c.newer
        /\ source = [refs |-> c.refs, on |-> c.sealed, key |-> c.sealed,
                     blobs |-> [b \in BackupBlobs |-> IF b \notin c.refs THEN "absent"
                                                      ELSE IF c.sealed THEN "sealed" ELSE "clear"]]
        /\ convertTo = "none" /\ recorded = FALSE /\ slips = {}
        /\ export = [at |-> "idle", refs |-> {}, key |-> FALSE, list |-> {}]
        /\ tar = [blobs |-> [b \in BackupBlobs |-> "absent"], whole |-> FALSE]
        /\ newPhone = [at |-> "fresh", db |-> "fresh", refs |-> {}, key |-> FALSE,
                       blobs |-> [b \in BackupBlobs |-> "absent"], ack |-> FALSE, io |-> FALSE]
  BY DEF BackupInit, NoBlobs
<1>2. c.way \in {"file", "wire"} /\ c.newer \in BOOLEAN /\ c.refs \subseteq BackupBlobs /\ c.sealed \in BOOLEAN
  BY BackupAssumption
<1> USE <1>1, <1>2
<1>3. BackupTypes
  BY DEF BackupTypes, WayTypes, SourceTypes, ExportTypes, TarTypes, PhoneTypes, Directories, BlobStates
<1>4. SourceSound BY DEF SourceSound
<1>5. ExportSound /\ TarSound BY DEF ExportSound, TarSound
<1>6. ImportSound BY DEF ImportSound
<1>7. AllOrNothing /\ NoIoWhileImporting BY DEF AllOrNothing, NoIoWhileImporting
<1> QED BY <1>3, <1>4, <1>5, <1>6, <1>7 DEF BackupInv

\* Every step keeps it.
LEMMA BackupNextKeeps == BackupInv /\ [BackupNext]_backupVars => BackupInv'
<1> SUFFICES ASSUME BackupInv, [BackupNext]_backupVars PROVE BackupInv' OBVIOUS
<1>1. CASE UNCHANGED backupVars
  <2> USE DEF backupVars, BackupInv
  <2>1. BackupTypes'
    <3>1. WayTypes' /\ SourceTypes' BY <1>1 DEF BackupTypes, WayTypes, SourceTypes
    <3>2. ExportTypes' /\ TarTypes' /\ PhoneTypes' BY <1>1 DEF BackupTypes, ExportTypes, TarTypes, PhoneTypes
    <3> QED BY <3>1, <3>2 DEF BackupTypes
  <2>2. SourceSound' BY <1>1 DEF SourceSound
  <2>3. ExportSound' /\ TarSound' BY <1>1 DEF ExportSound, TarSound
  <2>4. ImportSound' BY <1>1 DEF ImportSound
  <2>5. AllOrNothing' /\ NoIoWhileImporting' BY <1>1 DEF AllOrNothing, OnDisk, NoIoWhileImporting
  <2> QED BY <2>1, <2>2, <2>3, <2>4, <2>5
<1>2. CASE \E b \in BackupBlobs : NewAttachment(b) \/ DeleteMessage(b) \/ AppendBlob(b) \/ UnpackBlob(b)
  BY <1>2, NewAttachmentKeeps, DeleteMessageKeeps, AppendBlobKeeps, UnpackBlobKeeps
<1>3. CASE EnableBlobEncryption \/ DisableBlobEncryption \/ ConvertBlob \/ LoopHousekeeping
  BY <1>3, TurnedOnKeeps, TurnedOffKeeps, ConvertBlobKeeps, LoopHousekeepingKeeps
<1>4. CASE ExportDatabase \/ ListBlobs \/ FinishTar \/ RecordBackup \/ AwaitAck \/ ExportFails
  BY <1>4, ExportDatabaseKeeps, ListBlobsKeeps, FinishTarKeeps, ExportEnds, ExportFailsKeeps
<1>5. CASE BeginImport \/ ImportDatabase \/ MigrateImported \/ CancelImport \/ StartIoImported
  BY <1>5, BeginImportKeeps, ImportDatabaseKeeps, PhoneGoesOn
<1>6. CASE CheckVersion
  <2>1. CASE newer BY <1>6, <2>1, CleanUpKeeps DEF CheckVersion
  <2>2. CASE ~newer BY <1>6, <2>2, PhoneGoesOn
  <2> QED BY <2>1, <2>2
<1>7. CASE ImportFails BY <1>7, CleanUpKeeps DEF ImportFails
<1> QED BY <1>1, <1>2, <1>3, <1>4, <1>5, <1>6, <1>7 DEF BackupNext

\* A blob of a restored message is one of the snapshot's, so it was in the tar, and if it is sealed the snapshot has the key.
LEMMA BackupInvSafe == BackupInv => BackupSafe
<1> SUFFICES ASSUME BackupInv PROVE BackupSafe OBVIOUS
<1> USE DEF BackupInv, BackupTypes, WayTypes, ExportTypes, PhoneTypes, TarTypes, Directories, BlobStates
<1>1. BackupTypeOK BY DEF BackupTypeOK, ExportSound, OnDisk
<1>2. RestoredReadable
  <2> SUFFICES ASSUME newPhone.at = "migrated", slips = {}, NEW b \in newPhone.refs
               PROVE  newPhone.blobs[b] = "clear" \/ (newPhone.blobs[b] = "sealed" /\ newPhone.key)
    BY DEF RestoredReadable, ReadableHere
  <2>1. b \in export.refs /\ b \in BackupBlobs /\ newPhone.key = export.key /\ tar.whole BY DEF ImportSound
  <2>2. tar.blobs[b] # "absent" /\ newPhone.blobs[b] = tar.blobs[b] BY <2>1 DEF ImportSound, TarSound
  <2>3. tar.blobs[b] = "sealed" => export.key BY <2>1 DEF TarSound
  <2>4. tar.blobs[b] \in {"absent", "clear", "sealed"} BY <2>1
  <2> QED BY <2>1, <2>2, <2>3, <2>4
<1>3. RecordedIsWhole BY DEF RecordedIsWhole, ExportSound, TarSound, OnDisk
<1>4. DoneMeansImported BY DEF DoneMeansImported, ExportSound, ImportSound
<1> QED BY <1>1, <1>2, <1>3, <1>4 DEF BackupSafe

\* A backup survives its way (imex.rs, imex/transfer.rs): whatever blobs there are, whatever the user adds, deletes
\* or converts while it is written, and whatever fails, what is restored can be read, a recorded backup is
\* whole, an import is done entirely or not at all, and the offering device reports success only if the other has it.
THEOREM BackupSound == BackupSpec => []BackupSafe
<1>1. BackupSpec => []BackupInv BY BackupInit0, BackupNextKeeps, PTL DEF BackupSpec
<1> QED BY <1>1, BackupInvSafe, PTL
=============================================================================
