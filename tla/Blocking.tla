------------------------------ MODULE Blocking ------------------------------
(* Blocking a sender. A contact row is blocked, which hides it, and a pattern, an    *)
(* address or a domain, sends what arrives to the trash. Calls that do both take      *)
(* several writes, run side by side and may die in between; the row's half is synced  *)
(* to the user's other device.                                                       *)
EXTENDS Naturals, Sequences, FiniteSets

CONSTANTS BlockContacts,   \* the contact rows
          AddrOf,          \* contact -> address
          DomainOf,        \* address -> domain pattern
          BlockDevices, BlockCalls,
          MaxBlockCalls, MaxBlockDeaths

Patterns == {AddrOf[c] : c \in BlockContacts} \cup {DomainOf[AddrOf[c]] : c \in BlockContacts}
NoCall == [at |-> "none"]

VARIABLES rowBlocked,  \* device -> the contacts whose row is blocked
          blocklist,   \* device -> patterns
          calls,       \* device -> call -> [at, who, pattern, rest]
          blockSync,   \* device -> the row changes it has still to apply, in order: [who, block]
          budget,      \* [calls, deaths]
          torn         \* history: [device, who], the rows whose call died or that another device changed

blockingVars == <<rowBlocked, blocklist, calls, blockSync, budget, torn>>

PatternCovers(p, a) == p = a \/ p = DomainOf[a]
Matches(d, a) == \E p \in blocklist[d] : PatternCovers(p, a)

--------------------------------------------------------------------------------
(* One write of a call each.                                                       *)

SetRow(d, c, new) ==
  /\ rowBlocked' = [rowBlocked EXCEPT ![d] = IF new THEN @ \cup {c} ELSE @ \ {c}]
  /\ blockSync' = IF (c \in rowBlocked[d]) = new THEN blockSync
                  ELSE [e \in BlockDevices |-> IF e = d THEN blockSync[e] ELSE blockSync[e] \o <<[who |-> c, block |-> new]>>]
Moves(d, k, next) == calls' = [calls EXCEPT ![d][k] = next]
StartCall(d, k, call) ==
  /\ calls[d][k] = NoCall /\ budget.calls < MaxBlockCalls
  /\ Moves(d, k, call) /\ budget' = [budget EXCEPT !.calls = @ + 1]
  /\ UNCHANGED <<rowBlocked, blocklist, blockSync, torn>>
Call(at, c, p) == [at |-> at, who |-> c, pattern |-> p, rest |-> {}]

BlockRowAndPattern(d, k) ==
  /\ calls[d][k].at = "block"
  /\ SetRow(d, calls[d][k].who, TRUE)
  /\ Moves(d, k, [calls[d][k] EXCEPT !.at = "add"])
  /\ torn' = torn \ {[device |-> d, who |-> calls[d][k].who]}
  /\ UNCHANGED <<blocklist, budget>>
\* An entry that is there already is left as it is.
AddPattern(d, k) ==
  /\ calls[d][k].at = "add"
  /\ blocklist' = [blocklist EXCEPT ![d] = @ \cup {calls[d][k].pattern}]
  /\ Moves(d, k, NoCall)
  /\ UNCHANGED <<rowBlocked, blockSync, budget, torn>>
UnblockContact(d, k) ==
  /\ calls[d][k].at = "unblock"
  /\ SetRow(d, calls[d][k].who, FALSE)
  /\ Moves(d, k, [calls[d][k] EXCEPT !.at = "remove"])
  /\ UNCHANGED <<blocklist, budget, torn>>
RemovePattern(d, k) ==
  /\ calls[d][k].at = "remove"
  /\ blocklist' = [blocklist EXCEPT ![d] = @ \ {calls[d][k].pattern}]
  /\ Moves(d, k, [calls[d][k] EXCEPT !.at = "list"])
  /\ UNCHANGED <<rowBlocked, blockSync, budget, torn>>
\* Mutant: the pattern goes and the rows it blocked stay blocked.
BugListBlocked(d, k) ==
  /\ calls[d][k].at = "list"
  /\ Moves(d, k, NoCall)
  /\ UNCHANGED <<rowBlocked, blocklist, blockSync, budget, torn>>
ListBlocked(d, k) ==
  /\ calls[d][k].at = "list"
  /\ Moves(d, k, [calls[d][k] EXCEPT !.at = "each", !.rest = {c \in rowBlocked[d] : PatternCovers(calls[d][k].pattern, AddrOf[c])}])
  /\ UNCHANGED <<rowBlocked, blocklist, blockSync, budget, torn>>
UnblockEach(d, k) ==
  /\ calls[d][k].at = "each"
  /\ IF calls[d][k].rest = {} THEN Moves(d, k, NoCall) /\ UNCHANGED <<rowBlocked, blockSync>>
     ELSE \E c \in calls[d][k].rest :
            /\ SetRow(d, c, FALSE)
            /\ Moves(d, k, [calls[d][k] EXCEPT !.rest = @ \ {c}])
  /\ UNCHANGED <<blocklist, budget, torn>>

--------------------------------------------------------------------------------
Dies(d) ==
  /\ budget.deaths < MaxBlockDeaths /\ \E k \in BlockCalls : calls[d][k] # NoCall
  /\ budget' = [budget EXCEPT !.deaths = @ + 1]
  /\ calls' = [calls EXCEPT ![d] = [k \in BlockCalls |-> NoCall]]
  /\ torn' = torn \cup [device : {d}, who : rowBlocked[d]]
  /\ UNCHANGED <<rowBlocked, blocklist, blockSync>>
\* The other device's row follows; its patterns do not.
SyncAlterChat(d) ==
  /\ blockSync[d] # <<>>
  /\ \E s \in {blockSync[d][1]} :
       /\ rowBlocked' = [rowBlocked EXCEPT ![d] = IF s.block THEN @ \cup {s.who} ELSE @ \ {s.who}]
       /\ torn' = torn \cup {[device |-> d, who |-> s.who]}
  /\ blockSync' = [blockSync EXCEPT ![d] = [i \in 1..(Len(@) - 1) |-> @[i + 1]]]
  /\ UNCHANGED <<blocklist, calls, budget>>

BlockingInit ==
  /\ rowBlocked = [d \in BlockDevices |-> {}] /\ blocklist = [d \in BlockDevices |-> {}]
  /\ calls = [d \in BlockDevices |-> [k \in BlockCalls |-> NoCall]] /\ blockSync = [d \in BlockDevices |-> <<>>]
  /\ budget = [calls |-> 0, deaths |-> 0] /\ torn = {}
BlockingNext ==
  \E d \in BlockDevices :
    \/ \E k \in BlockCalls :
         \/ \E c \in BlockContacts : \E at \in {"block", "unblock"} : StartCall(d, k, Call(at, c, AddrOf[c]))
         \/ \E c \in BlockContacts, p \in Patterns : \E at \in {"add", "remove"} :
              c = (CHOOSE x \in BlockContacts : TRUE) /\ StartCall(d, k, Call(at, c, p))
         \/ BlockRowAndPattern(d, k) \/ AddPattern(d, k) \/ UnblockContact(d, k) \/ RemovePattern(d, k)
         \/ ListBlocked(d, k) \/ UnblockEach(d, k)
    \/ Dies(d) \/ SyncAlterChat(d)
BlockingSpec == BlockingInit /\ [][BlockingNext]_blockingVars

--------------------------------------------------------------------------------
BlockingTypeOK ==
  /\ rowBlocked \in [BlockDevices -> SUBSET BlockContacts] /\ blocklist \in [BlockDevices -> SUBSET Patterns]
  /\ \A d \in BlockDevices, k \in BlockCalls : calls[d][k].at \in {"none", "block", "add", "unblock", "remove", "list", "each"}

\* However calls on one device overlap, when they are done no contact stays blocked whose mail is let in: the "half-undone
\* block" remove speaks of. A death, and a row that another device blocked, are excepted.
BlockedRejected ==
  \A d \in BlockDevices : (\A k \in BlockCalls : calls[d][k] = NoCall) =>
    \A c \in rowBlocked[d] : [device |-> d, who |-> c] \in torn \/ Matches(d, AddrOf[c])

\* The blocklist and the blocked rows agree, on every device.
BlockingSafe == BlockingTypeOK /\ BlockedRejected

\* The same without the exceptions ("it is the state this whole module is arranged to make unrepresentable").
NoHalfBlock ==
  \A d \in BlockDevices : (\A k \in BlockCalls : calls[d][k] = NoCall) => \A c \in rowBlocked[d] : Matches(d, AddrOf[c])
==========================================================================
