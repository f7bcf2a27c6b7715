---------------------------- MODULE SecureJoin ----------------------------
(* Meeting by QR code. An inviter shows a code with an invite number and an auth    *)
(* token; the joiner who scans it asks for the inviter's key, then proves with the  *)
(* auth token that the scanned code was the inviter's, and is taken as a contact,   *)
(* or into the group or the channel. The inviter has two devices on one mailbox     *)
(* that pass the tokens on to each other, and mail arrives in any order.            *)
EXTENDS Naturals, Sequences, SequencesExt, FiniteSets, TLC

CONSTANTS JoinCases,    \* [kind, v3, key, codes, ticks, scans, events]: what the codes are for, their version,
                        \* whether the joiner has the inviter's key, and the bounds of a behaviour; events are
                        \* withdrawals, revivals, blocks and deaths
          FreshFor      \* VERIFICATION_TIMEOUT_SECONDS

ASSUME JoinAssumption ==
  /\ \A c \in JoinCases : c.kind \in {"contact", "group", "channel"} /\ c.v3 \in BOOLEAN /\ c.key \in BOOLEAN
  /\ \A c \in JoinCases : {c.codes, c.ticks, c.scans, c.events} \subseteq Nat
  /\ FreshFor \in Nat \ {0}

Hosts == {"d1", "d2"}
Other(d) == CHOOSE e \in Hosts : e # d
NoCode == [inv |-> 0, auth |-> 0]

VARIABLES joinCase,
          tokens,    \* device -> the token table, [inv, auth]: sequences of [tok, ts], oldest row first
          codes,     \* the codes shown so far
          syncing,   \* device -> sync items on their way to it, in order
          guest,     \* device -> what it holds of the joiner: [verified, blocked, member]
          hostBox,   \* device -> handshake mail it has not handled
          joiner,    \* [key, rows, scanning, forgetting, joined]; rows is the bobstate table
          guestBox,  \* handshake mail the joiner has not handled
          joinClock,
          joinOps,   \* [scans, events]
          withdrawn, \* history: codes withdrawn, except one whose token was just on its way from the other device
          presented, \* history: <<auth token, device, its age>> taken from the joiner
          missed     \* history: an answer found the scan still unrecorded, or a death lost the scan

joinVars == <<joinCase, tokens, codes, syncing, guest, hostBox, joiner, guestBox, joinClock, joinOps,
              withdrawn, presented, missed>>

--------------------------------------------------------------------------------
(* The token table. A token is stored once; of several the last row is the newest. *)

HasToken(rows, t) == \E i \in DOMAIN rows : rows[i].tok = t
SaveToken(rows, t, ts) == IF HasToken(rows, t) THEN rows ELSE Append(rows, [tok |-> t, ts |-> ts])
LookupToken(rows) == Last(rows).tok
TokenTime(rows, t) == (CHOOSE r \in Range(rows) : r.tok = t).ts
EmptyTokens == [inv |-> <<>>, auth |-> <<>>]
Save(table, code, ts) == [inv |-> SaveToken(table.inv, code.inv, ts), auth |-> SaveToken(table.auth, code.auth, ts)]
Arriving(d) == {c \in codes : \E item \in Range(syncing[d]) : item.what = "add" /\ item.code.auth = c.auth}

\* The newest invite number and the newest auth token are told to the other device.
SyncQrCodeTokens(d, table) ==
  [syncing EXCEPT ![Other(d)] = Append(@, [what |-> "add", code |-> [inv |-> LookupToken(table.inv), auth |-> LookupToken(table.auth)],
                                            ts |-> joinClock])]

\* The invite number stays, the auth token is always new.
GetSecurejoinQr(d) ==
  /\ Cardinality(codes) < joinCase.codes
  /\ LET n == Cardinality(codes) + 1
         inv == IF tokens[d].inv = <<>> THEN n ELSE LookupToken(tokens[d].inv)
         table == Save(tokens[d], [inv |-> inv, auth |-> n], joinClock)
     IN /\ tokens' = [tokens EXCEPT ![d] = table]
        /\ codes' = codes \cup {[inv |-> inv, auth |-> n]}
        /\ syncing' = SyncQrCodeTokens(d, table)
  /\ UNCHANGED <<joinCase, guest, hostBox, joiner, guestBox, joinClock, joinOps, withdrawn, presented, missed>>

JoinEvent == joinOps.events < joinCase.events /\ joinOps' = [joinOps EXCEPT !.events = @ + 1]
OwnCodeGood(d, c) == HasToken(tokens[d].auth, c.auth)
\* Scanning one's own code offers to withdraw it while its auth token is known, and to revive it when not.
WithdrawQr(d, c) ==
  /\ JoinEvent /\ c \in codes
  /\ OwnCodeGood(d, c)
  /\ tokens' = [tokens EXCEPT ![d] = EmptyTokens]
  /\ syncing' = [syncing EXCEPT ![Other(d)] = Append(@, [what |-> "delete", code |-> c, ts |-> joinClock])]
  /\ withdrawn' = withdrawn \cup ({c} \ Arriving(d))
  /\ UNCHANGED <<joinCase, codes, guest, hostBox, joiner, guestBox, joinClock, presented, missed>>
ReviveQr(d, c) ==
  /\ JoinEvent /\ c \in codes
  /\ ~OwnCodeGood(d, c)
  /\ \E table \in {Save(tokens[d], c, joinClock)} :
       tokens' = [tokens EXCEPT ![d] = table] /\ syncing' = SyncQrCodeTokens(d, table)
  /\ withdrawn' = withdrawn \ {c}
  /\ UNCHANGED <<joinCase, codes, guest, hostBox, joiner, guestBox, joinClock, presented, missed>>

AddQrToken(table, item) == Save(table, item.code, item.ts)
\* All tokens of the scope go, if it has the invite number, or the auth token from before the withdrawal.
DeleteQrToken(table, item) ==
  IF \/ HasToken(table.inv, item.code.inv)
     \/ (HasToken(table.auth, item.code.auth) /\ TokenTime(table.auth, item.code.auth) <= item.ts)
  THEN EmptyTokens ELSE table
ExecuteSyncItem(d) ==
  /\ syncing[d] # <<>>
  /\ LET item == Head(syncing[d])
     IN /\ tokens' = [tokens EXCEPT ![d] = CASE item.what = "add" -> AddQrToken(@, item)
                                             [] item.what = "delete" -> DeleteQrToken(@, item)
                                             [] OTHER -> @]
        /\ guest' = CASE item.what = "block" -> [guest EXCEPT ![d].blocked = TRUE]
                      [] item.what = "members" -> [guest EXCEPT ![d].member = TRUE]
                      [] OTHER -> guest
  /\ syncing' = [syncing EXCEPT ![d] = Tail(@)]
  /\ UNCHANGED <<joinCase, codes, hostBox, joiner, guestBox, joinClock, joinOps, withdrawn, presented, missed>>

BlockJoiner(d) ==
  /\ JoinEvent /\ ~guest[d].blocked
  /\ guest' = [guest EXCEPT ![d].blocked = TRUE]
  /\ syncing' = [syncing EXCEPT ![Other(d)] = Append(@, [what |-> "block", code |-> NoCode, ts |-> joinClock])]
  /\ UNCHANGED <<joinCase, tokens, codes, hostBox, joiner, guestBox, joinClock, withdrawn, presented, missed>>

--------------------------------------------------------------------------------
(* The joiner.                                                                     *)

ToHosts(step, code) == [d \in Hosts |-> hostBox[d] \cup {[step |-> step, code |-> code]}]
BobHandshakeMsg(step) == IF step = "request" THEN (IF joinCase.v3 THEN "request-pubkey" ELSE "request") ELSE step
SendHandshakeMessage(code, step) == hostBox' = ToHosts(BobHandshakeMsg(step), code)
AlreadyIn == joinCase.kind # "contact" /\ joiner.joined

\* One who is in the group has nothing to do; one who has the key answers at once; else the key is asked for,
\* and the scan is recorded after that.
StartProtocol(c) ==
  /\ joinOps.scans < joinCase.scans /\ joinOps' = [joinOps EXCEPT !.scans = @ + 1]
  /\ c \in codes /\ joiner.scanning = NoCode
  /\ \/ AlreadyIn /\ UNCHANGED <<hostBox, joiner>>
     \/ ~AlreadyIn /\ joiner.key /\ SendHandshakeMessage(c, "request-with-auth") /\ joiner' = [joiner EXCEPT !.asked = @ \cup {c}]
     \/ ~AlreadyIn /\ ~joiner.key /\ SendHandshakeMessage(c, "request") /\ joiner' = [joiner EXCEPT !.scanning = c, !.asked = @ \cup {c}]
  /\ UNCHANGED <<joinCase, tokens, codes, syncing, guest, guestBox, joinClock, withdrawn, presented, missed>>
InsertNewDbEntry ==
  /\ joiner.scanning # NoCode
  /\ joiner' = [joiner EXCEPT !.rows = @ \cup {joiner.scanning}, !.scanning = NoCode]
  /\ UNCHANGED <<joinCase, tokens, codes, syncing, guest, hostBox, guestBox, joinClock, joinOps, withdrawn, presented, missed>>

\* The answer carries the inviter's key. Every recorded scan of the inviter is answered, and then forgotten; a
\* mail no scan waits for is left to another device.
Answers == {m \in guestBox : m.step \in {"auth-required", "pubkey"}}
AnswerAuthRequired(m, c) ==
  /\ m \in Answers /\ joiner.forgetting = NoCode /\ c \in joiner.rows
  /\ SendHandshakeMessage(c, "request-with-auth")
  /\ joiner' = [joiner EXCEPT !.key = TRUE, !.forgetting = c]
  /\ UNCHANGED <<joinCase, tokens, codes, syncing, guest, guestBox, joinClock, joinOps, withdrawn, presented, missed>>
DeleteBobstate ==
  /\ joiner.forgetting # NoCode
  /\ joiner' = [joiner EXCEPT !.rows = @ \ {joiner.forgetting}, !.forgetting = NoCode]
  /\ UNCHANGED <<joinCase, tokens, codes, syncing, guest, hostBox, guestBox, joinClock, joinOps, withdrawn, presented, missed>>
LeaveAuthRequired(m) ==
  /\ m \in Answers /\ joiner.forgetting = NoCode /\ joiner.rows = {}
  /\ guestBox' = guestBox \ {m} /\ joiner' = [joiner EXCEPT !.key = TRUE]
  /\ missed' = (missed \/ joiner.scanning # NoCode)
  /\ UNCHANGED <<joinCase, tokens, codes, syncing, guest, hostBox, joinClock, joinOps, withdrawn, presented>>
\* vc-contact-confirm, or vg-member-added that names oneself.
JoinSucceeds(m) ==
  /\ m \in guestBox /\ m.step \in {"contact-confirm", "member-added"}
  /\ joiner' = [joiner EXCEPT !.joined = TRUE] /\ guestBox' = guestBox \ {m}
  /\ UNCHANGED <<joinCase, tokens, codes, syncing, guest, hostBox, joinClock, joinOps, withdrawn, presented, missed>>
\* What was stored stays; the mail being handled is fetched again.
JoinerDies ==
  /\ JoinEvent
  /\ joiner.scanning # NoCode \/ joiner.forgetting # NoCode
  /\ missed' = (missed \/ joiner.scanning # NoCode)
  /\ joiner' = [joiner EXCEPT !.scanning = NoCode, !.forgetting = NoCode]
  /\ UNCHANGED <<joinCase, tokens, codes, syncing, guest, hostBox, guestBox, joinClock, withdrawn, presented>>

--------------------------------------------------------------------------------
(* The inviter. A handled mail is deleted from the server, before or after the     *)
(* other device has fetched it, or left there; either way this device is done.     *)

Handled(d, m, deletes) ==
  \/ hostBox' = [hostBox EXCEPT ![d] = @ \ {m}]
  \/ deletes /\ hostBox' = [e \in Hosts |-> hostBox[e] \ {m}]
ToGuest(step) == guestBox' = guestBox \cup {[step |-> step, code |-> NoCode]}

\* A request needs a known invite number; a request for the key, a known auth token and nobody blocked.
Request(d, m) ==
  /\ m \in hostBox[d] /\ m.step \in {"request", "request-pubkey"}
  /\ \E ok \in {IF m.step = "request" THEN HasToken(tokens[d].inv, m.code.inv)
                ELSE HasToken(tokens[d].auth, m.code.auth) /\ ~guest[d].blocked} :
       /\ Handled(d, m, ok)
       /\ IF ok THEN ToGuest(IF m.step = "request" THEN "auth-required" ELSE "pubkey") ELSE UNCHANGED guestBox
  /\ UNCHANGED <<joinCase, tokens, codes, syncing, guest, joiner, joinClock, joinOps, withdrawn, presented, missed>>

MarkContactIdAsVerified(d) == [guest EXCEPT ![d].verified = TRUE]
\* A copy of what d sends reaches its other device.
Copied(d, step, m, deletes) ==
  LET rest(e) == IF e = d THEN hostBox[e] \ {m} ELSE IF deletes THEN hostBox[e] \ {m} ELSE hostBox[e]
  IN [e \in Hosts |-> IF e = d THEN rest(e) ELSE rest(e) \cup {[step |-> step, code |-> NoCode]}]
Fresh(d, t) == joinClock < TokenTime(tokens[d].auth, t) + FreshFor
\* Mutant: one whose mail comes while blocked is still added.
BugRequestWithAuth(d, m) ==
  /\ m \in hostBox[d] /\ m.step = "request-with-auth" /\ HasToken(tokens[d].auth, m.code.auth)
  /\ guest' = [guest EXCEPT ![d].member = TRUE]
  /\ presented' = presented \cup {<<m.code.auth, d, TRUE>>} /\ ToGuest("member-added")
  /\ hostBox' = [hostBox EXCEPT ![d] = @ \ {m}]
  /\ UNCHANGED <<joinCase, tokens, codes, syncing, joiner, joinClock, joinOps, withdrawn, missed>>
RequestWithAuth(d, m) ==
  /\ m \in hostBox[d] /\ m.step = "request-with-auth"
  /\ \/ /\ ~HasToken(tokens[d].auth, m.code.auth)
        /\ Handled(d, m, FALSE) /\ UNCHANGED <<guest, guestBox, syncing, presented>>
     \/ /\ HasToken(tokens[d].auth, m.code.auth)
        /\ presented' = presented \cup {<<m.code.auth, d, Fresh(d, m.code.auth)>>}
        /\ \E g \in {IF Fresh(d, m.code.auth) THEN MarkContactIdAsVerified(d) ELSE guest} :
             \/ /\ guest[d].blocked
                /\ guest' = g /\ Handled(d, m, FALSE) /\ UNCHANGED <<guestBox, syncing>>
             \/ /\ ~guest[d].blocked /\ joinCase.kind = "contact"
                /\ guest' = [g EXCEPT ![d].member = TRUE]
                /\ hostBox' = Copied(d, "contact-confirm", m, FALSE) /\ ToGuest("contact-confirm") /\ UNCHANGED syncing
             \/ /\ ~guest[d].blocked /\ joinCase.kind # "contact"
                /\ guest' = [g EXCEPT ![d].member = TRUE]
                /\ \E deletes \in BOOLEAN : hostBox' = Copied(d, "member-added", m, deletes)
                /\ ToGuest("member-added")
                /\ syncing' = IF joinCase.kind = "channel"
                              THEN [syncing EXCEPT ![Other(d)] = Append(@, [what |-> "members", code |-> NoCode, ts |-> joinClock])]
                              ELSE syncing
  /\ UNCHANGED <<joinCase, tokens, codes, joiner, joinClock, joinOps, withdrawn, missed>>

\* The inviter's other device sees the answer its sibling sent. A blocked contact is not shown, but is a member.
ObserveSecurejoin(d, m) ==
  /\ m \in hostBox[d] /\ m.step \in {"contact-confirm", "member-added"}
  /\ guest' = [guest EXCEPT ![d].verified = TRUE, ![d].member = @ \/ m.step = "member-added" \/ ~guest[d].blocked]
  /\ hostBox' = [hostBox EXCEPT ![d] = @ \ {m}]
  /\ UNCHANGED <<joinCase, tokens, codes, syncing, joiner, guestBox, joinClock, joinOps, withdrawn, presented, missed>>

JoinTick ==
  /\ joinClock < joinCase.ticks /\ joinClock' = joinClock + 1
  /\ UNCHANGED <<joinCase, tokens, codes, syncing, guest, hostBox, joiner, guestBox, joinOps, withdrawn, presented, missed>>

--------------------------------------------------------------------------------
JoinInit ==
  /\ joinCase \in JoinCases
  /\ tokens = [d \in Hosts |-> EmptyTokens] /\ codes = {} /\ syncing = [d \in Hosts |-> <<>>]
  /\ guest = [d \in Hosts |-> [verified |-> FALSE, blocked |-> FALSE, member |-> FALSE]]
  /\ hostBox = [d \in Hosts |-> {}] /\ guestBox = {}
  /\ joiner = [key |-> joinCase.key, rows |-> {}, scanning |-> NoCode, forgetting |-> NoCode, joined |-> FALSE, asked |-> {}]
  /\ joinClock = 0 /\ joinOps = [scans |-> 0, events |-> 0]
  /\ withdrawn = {} /\ presented = {} /\ missed = FALSE

JoinerStep ==
  \/ InsertNewDbEntry \/ DeleteBobstate
  \/ \E m \in guestBox : LeaveAuthRequired(m) \/ JoinSucceeds(m) \/ \E c \in joiner.rows : AnswerAuthRequired(m, c)
HostStep(d) ==
  \/ ExecuteSyncItem(d)
  \/ \E m \in hostBox[d] : Request(d, m) \/ RequestWithAuth(d, m) \/ ObserveSecurejoin(d, m)
JoinNext ==
  \/ JoinerStep \/ JoinerDies \/ JoinTick
  \/ \E c \in codes : StartProtocol(c)
  \/ \E d \in Hosts : HostStep(d) \/ GetSecurejoinQr(d) \/ BlockJoiner(d) \/ \E c \in codes : WithdrawQr(d, c) \/ ReviveQr(d, c)

\* Both devices fetch their mail, and the joiner's device runs on.
JoinSpec == JoinInit /\ [][JoinNext]_joinVars /\ WF_joinVars(JoinerStep) /\ \A d \in Hosts : WF_joinVars(HostStep(d))

--------------------------------------------------------------------------------
JoinTypeOK ==
  /\ joinCase \in JoinCases /\ codes \subseteq [inv : 1..joinCase.codes, auth : 1..joinCase.codes] /\ joiner.rows \subseteq codes
  /\ \A d \in Hosts : \A r \in Range(tokens[d].auth) \cup Range(tokens[d].inv) : r.tok \in 1..joinCase.codes /\ r.ts \in 0..joinCase.ticks
  /\ guest \in [Hosts -> [verified : BOOLEAN, blocked : BOOLEAN, member : BOOLEAN]]
  /\ \A d \in Hosts : \A i, j \in DOMAIN tokens[d].inv : tokens[d].inv[i].tok = tokens[d].inv[j].tok => i = j
  /\ withdrawn \subseteq codes /\ joinClock \in 0..joinCase.ticks /\ missed \in BOOLEAN

\* Once the devices have heard of each other's changes, no device takes a withdrawn code, however showing, reviving
\* and withdrawing cross on the way (token::delete, sync::delete_qr_token).
WithdrawnGone ==
  (\A d \in Hosts : syncing[d] = <<>>) => \A d \in Hosts, c \in withdrawn : ~HasToken(tokens[d].auth, c.auth)

\* The inviter's devices agree whom they let in once they have handled all mail, even if the joiner was blocked
\* meanwhile (observe_securejoin_on_other_device).
HostsAgree ==
  (joinCase.kind # "contact" /\ \A d \in Hosts : hostBox[d] = {} /\ syncing[d] = <<>>)
    => guest["d1"].member = guest["d2"].member

\* No device lets in someone who was blocked on it all along, unless its sibling did: a member of a blocked
\* joiner's device was told of by the sibling's mail, or was let in before (handle_securejoin_handshake).
BlockedStayOut ==
  [][\A d \in Hosts : (guest[d].blocked /\ ~guest[d].member /\ guest'[d].member)
        => (guest[Other(d)].member /\ presented' = presented)]_joinVars

\* Whoever scanned a code that nobody withdrew is in, unless blocked, or unless the scan was cut short between
\* asking for the key and recording the scan.  In the end that is so (start_protocol, handle_auth_required_or_pubkey).
JoinCompleted ==
  joiner.asked # {}
      => (joiner.joined \/ missed \/ withdrawn # {} \/ \E d \in Hosts : guest[d].blocked)

\* Only a code shown less than a week before makes the joiner a verified contact; an old one lets into the group
\* without verification (get_securejoin_qr's comment on auth tokens that "expire").
OnlyFreshVerifies == \A d \in Hosts : guest[d].verified => \E p \in presented : p[3]

\* Joining is safe: a withdrawn code is gone, the inviter's devices agree, and nobody whom the
\* user blocked gets in.
JoinSafe == [](JoinTypeOK /\ WithdrawnGone /\ HostsAgree) /\ BlockedStayOut
==========================================================================
