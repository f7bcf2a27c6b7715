------------------------------- MODULE Sending -------------------------------
(* One message from the composer to the send queue: compose::send, the          *)
(* options of the composer's padlock, the encryption policy with its overrides, *)
(* core's prepare_send_msg and create_send_msg_jobs, and the part of            *)
(* MimeFactory::from_msg that decides who gets the mail and whether it is       *)
(* encrypted. Each action is one stretch between awaits that other calls can    *)
(* observe; settings, keys and the chat's draft change in between.              *)
(* Every correspondent has an address-contact row; the ones in `keyed` also     *)
(* have a key-contact row whose key is stored. A key's own relay list, which    *)
(* replaces the address in the envelope, is taken to be that address. The copy  *)
(* to self (BccSelf) is left out: its key is always there.                      *)
EXTENDS Naturals, FiniteSets, FiniteSetsExt, Sequences, SequencesExt

CONSTANTS Addrs,       \* correspondents' addresses
          MaxTo,       \* how many addresses may stand in To
          MaxChanges,  \* bound on changes of settings, keys and drafts
          NoMail       \* nothing has been queued

\* What create_send_msg_jobs queues.
Mails == [encrypted : BOOLEAN, keys : SUBSET Addrs, envelope : SUBSET Addrs]

ASSUME SendBounds == MaxTo \in Nat \ {0} /\ MaxChanges \in Nat
ASSUME NoMailAssumption == NoMail \notin Mails

ContactRows == Addrs \X {"key", "addr"}
Strict == 0
Opportunistic == 1
Lenient == 2
Modes == {Strict, Opportunistic, Lenient}
NoOverride == 3
Padlock == {"auto", "required", "plaintext"}

VARIABLES force, mode,  \* Config::ForceEncryption and Config::EncryptionMode
          setting,      \* what EncryptionMode::set has yet to write, or NoOverride
          override,     \* contact_policy.encryption_mode of every contact row
          keyed,        \* addresses with a key-contact row and its key
          call,         \* the running compose::send with its local variables
          row,          \* the message's row: none, draft, pending or failed
          stored,       \* msg_recipients of the message
          option,       \* msg_send_options of the message
          undelivered,  \* msg_undelivered of the message
          mail,         \* what the smtp table got
          strictBy,     \* history: the setting that has made the conversation
                        \* end-to-end only since the policy was applied, or "none"
          changes

sendVars == <<force, mode, setting, override, keyed, call, row, stored, option,
              undelivered, mail, strictBy, changes>>
settingVars == <<force, mode, setting, override, keyed, changes>>

NoRecipients == [to |-> <<>>, cc |-> {}, bcc |-> {}]
Requests == [to : {s \in SeqOf(Addrs, MaxTo) : s # <<>> /\ IsInjective(s)},
             cc : SUBSET Addrs, bcc : SUBSET Addrs]
Everyone(r) == ToSet(r.to) \cup r.cc \cup r.bcc

-----------------------------------------------------------------------------
(* The policy. *)

Load == IF force THEN Strict
        ELSE IF mode = Strict THEN Opportunistic ELSE mode

BugEffective(rows) == Load
Effective(rows) == Min({Load} \cup {override[r] : r \in rows})

ContactsFor(a) == {<<a, "addr">>} \cup (IF a \in keyed THEN {<<a, "key">>} ELSE {})

MissingKeys(rows) == {r[1] : r \in {q \in rows : q[2] = "addr"}}

\* sendopts::readiness and check: every address is looked up, none is created.
Check(r, choice) ==
  LET rows == UNION {ContactsFor(a) : a \in Everyone(r)} IN
  CASE choice = "required"  -> Everyone(r) \subseteq keyed
    [] choice = "plaintext" -> Effective(rows) # Strict
    [] OTHER                -> TRUE

SendInit ==
  /\ force = FALSE /\ mode = Opportunistic /\ setting = NoOverride
  /\ override = [r \in ContactRows |-> NoOverride]
  /\ keyed = {}
  /\ call = [pc |-> "idle", request |-> NoRecipients, choice |-> "auto",
             chat |-> "none", guarantee |-> FALSE, plaintext |-> FALSE,
             result |-> "none"]
  /\ row = "none" /\ stored = NoRecipients /\ option = "auto"
  /\ undelivered = {} /\ mail = NoMail /\ strictBy = "none"
  /\ changes = 0

ChatRow == <<call.request.to[1], call.chat>>

\* Whether that setting still stands after this step.
StillStrict ==
  strictBy' = CASE strictBy = "global" /\ force' -> "global"
                [] strictBy = "override" /\ override'[ChatRow] = Strict -> "override"
                [] OTHER -> "none"

Change ==
  /\ changes < MaxChanges /\ changes' = changes + 1
  /\ StillStrict
  /\ UNCHANGED <<stored, option, undelivered, mail>>

\* EncryptionMode::set writes ForceEncryption and then EncryptionMode.
SetModeForce(m) ==
  /\ setting = NoOverride /\ m # Load
  /\ setting' = m /\ force' = (m = Strict)
  /\ UNCHANGED <<mode, override, keyed, call, row>> /\ Change

SetModeMode ==
  /\ setting # NoOverride
  /\ mode' = setting /\ setting' = NoOverride
  /\ UNCHANGED <<force, override, keyed, call, row, stored, option, undelivered,
                 mail, strictBy, changes>>

\* EncryptionMode::set_for_contact, for a contact row that exists.
SetForContact(r, m) ==
  /\ r[2] = "addr" \/ r[1] \in keyed
  /\ override[r] # m /\ override' = [override EXCEPT ![r] = m]
  /\ UNCHANGED <<force, mode, setting, keyed, call, row>> /\ Change

\* A key arrives by mail or QR code, or its contact row is removed again.
KeyChanges(a) ==
  /\ ~(call.chat = "key" /\ a = call.request.to[1])
  /\ keyed' = IF a \in keyed THEN keyed \ {a} ELSE keyed \cup {a}
  /\ override' = IF a \in keyed THEN [override EXCEPT ![<<a, "key">>] = NoOverride]
                 ELSE override
  /\ UNCHANGED <<force, mode, setting, call, row>> /\ Change

\* ChatId::set_draft by another caller: a chat has one draft, the old one goes.
SaveDraft ==
  /\ row = "draft" /\ row' = "none"
  /\ UNCHANGED <<force, mode, setting, override, keyed, call>> /\ Change

-----------------------------------------------------------------------------
(* compose::send. *)

Goto(pc) == call' = [call EXCEPT !.pc = pc]
Reports(result) == call' = [call EXCEPT !.pc = "done", !.result = result]

\* The request, checked against the policy before anything is stored.
Compose(r, choice) ==
  /\ call.pc = "idle"
  /\ call' = IF Check(r, choice)
             THEN [call EXCEPT !.pc = "contact", !.request = r, !.choice = choice]
             ELSE [call EXCEPT !.pc = "done", !.request = r, !.result = "refused"]
  /\ UNCHANGED <<row, stored, option, undelivered, mail, strictBy, settingVars>>

\* The chat of the first To address, with its key-contact if there is one.
PickContact ==
  /\ call.pc = "contact"
  /\ call' = [call EXCEPT !.pc = "draft",
                          !.chat = IF call.request.to[1] \in keyed THEN "key" ELSE "addr"]
  /\ UNCHANGED <<row, stored, option, undelivered, mail, strictBy, settingVars>>

DoSetDraft ==
  /\ call.pc = "draft" /\ row' = "draft" /\ Goto("recipients")
  /\ UNCHANGED <<stored, option, undelivered, mail, strictBy, settingVars>>

SetRecipients ==
  /\ call.pc = "recipients" /\ stored' = call.request /\ Goto("options")
  /\ UNCHANGED <<row, option, undelivered, mail, strictBy, settingVars>>

SetOptions ==
  /\ call.pc = "options" /\ option' = call.choice /\ Goto("prepare")
  /\ UNCHANGED <<row, stored, undelivered, mail, strictBy, settingVars>>

\* prepare_send_msg: the row is updated by id, whether it is still there or not.
PrepareMsgRaw ==
  /\ call.pc = "prepare" /\ Goto("policy")
  /\ row' = IF row = "draft" THEN "pending" ELSE row
  /\ UNCHANGED <<stored, option, undelivered, mail, strictBy, settingVars>>

\* policy::prepare_send, for the chat's contact: what it refuses, and the two
\* parameters that it sets on the message (GuaranteeE2ee and ForcePlaintext).
OverrideOnly(m) == option = "auto" /\ m = Strict /\ Load # Strict

Refused(m, missing) ==
  \/ option = "plaintext" /\ m = Strict
  \/ OverrideOnly(m) /\ missing # {}

GuaranteeE2ee(m) == option = "required" \/ OverrideOnly(m)

ForcePlaintext(m, missing) ==
  option = "plaintext" \/ (option = "auto" /\ m = Lenient /\ missing # {})

PrepareSend ==
  LET m == Effective({ChatRow})
      missing == MissingKeys({ChatRow})
  IN /\ call.pc = "policy"
     /\ strictBy' = IF force THEN "global"
                    ELSE IF override[ChatRow] = Strict THEN "override" ELSE "none"
     /\ call' = IF Refused(m, missing)
                THEN [call EXCEPT !.pc = "done", !.result = "error"]
                ELSE [call EXCEPT !.pc = "build", !.guarantee = GuaranteeE2ee(m),
                                  !.plaintext = ForcePlaintext(m, missing)]
     /\ UNCHANGED <<row, stored, option, undelivered, mail, settingVars>>

\* compose::extra_recipients: Cc and Bcc that the chat does not cover, each once.
ExtraRecipients(already) ==
  [cc |-> stored.cc \ already, bcc |-> (stored.bcc \ already) \ stored.cc]

\* MimeFactory::from_msg for a one-to-one chat: whether the mail is encrypted, the
\* recipients that remain, and the two ways to fail.
ChatEncrypted == ~call.plaintext /\ (call.guarantee \/ call.chat = "key")

Retain(encrypted, keys, all) == IF encrypted THEN keys ELSE all

Buildable(keys) == row # "none" /\ (ChatEncrypted => keys # {})

Keys(primary, others) ==
  (others \cap keyed) \cup (IF call.chat = "key" THEN {primary} ELSE {})

FromMsg ==
  LET primary == call.request.to[1]
      extra == ExtraRecipients({primary})
      others == extra.cc \cup extra.bcc
      keys == Keys(primary, others)
  IN [ok |-> Buildable(keys), encrypted |-> ChatEncrypted, keys |-> keys,
      envelope |-> Retain(ChatEncrypted, keys, {primary} \cup others),
      to |-> primary, cc |-> extra.cc]

\* policy::record_undelivered.
Dropped(f) == ({f.to} \cup f.cc) \ f.envelope

\* create_send_msg_jobs after prepare_send: build the mail, record whom it went to,
\* queue it. A mail that had to be encrypted and is not marks the message failed.
CreateSendMsgJobs ==
  LET f == FromMsg
      needs_encryption == call.guarantee \/ (~call.plaintext /\ force)
      fails == ~f.ok \/ (needs_encryption /\ ~f.encrypted)
  IN /\ call.pc = "build"
     /\ row' = IF fails /\ row = "pending" THEN "failed" ELSE row
     /\ IF fails THEN Reports("error") /\ UNCHANGED <<stored, undelivered, mail>>
        ELSE /\ Reports("ok")
             /\ stored' = [to |-> <<f.to>>, cc |-> f.cc, bcc |-> stored.bcc]
             /\ undelivered' = Dropped(f)
             /\ mail' = [encrypted |-> f.encrypted, keys |-> f.keys, envelope |-> f.envelope]
     /\ UNCHANGED <<option, strictBy, settingVars>>

SendNext ==
  \/ \E m \in Modes : SetModeForce(m)
  \/ SetModeMode
  \/ \E r \in ContactRows, m \in Modes \cup {NoOverride} : SetForContact(r, m)
  \/ \E a \in Addrs : KeyChanges(a)
  \/ SaveDraft
  \/ \E r \in Requests, c \in Padlock : Compose(r, c)
  \/ PickContact \/ DoSetDraft \/ SetRecipients \/ SetOptions \/ PrepareMsgRaw
  \/ PrepareSend \/ CreateSendMsgJobs

SendSpec == SendInit /\ [][SendNext]_sendVars

-----------------------------------------------------------------------------
(* Properties. *)

\* The values each variable may have.
SendTypeOK ==
  /\ force \in BOOLEAN /\ mode \in Modes /\ setting \in Modes \cup {NoOverride}
  /\ override \in [ContactRows -> Modes \cup {NoOverride}]
  /\ keyed \subseteq Addrs
  /\ call.choice \in Padlock /\ call.result \in {"none", "refused", "error", "ok"}
  /\ row \in {"none", "draft", "pending", "failed"}
  /\ undelivered \subseteq Addrs

\* A message the composer marked as encrypted (EncryptionChoice::Required) is never
\* queued in clear, whatever happens to keys and settings after the check.
RequiredNeverClear ==
  mail # NoMail /\ call.choice = "required" => mail.encrypted

\* A conversation that is end-to-end only sends nothing in clear: while the setting
\* that prepare_send relied on, the global mode or the contact's override, stands
\* until the mail is queued.
StrictNeverClear ==
  mail # NoMail /\ strictBy # "none" => mail.encrypted

\* An encrypted mail goes to nobody whose key it was not encrypted to.
EnvelopeHasKeys ==
  mail # NoMail /\ mail.encrypted => mail.envelope \subseteq mail.keys

\* compose::send reports success only when a mail with its message row is queued:
\* also when another draft replaced the message's row in between.
OkMeansQueued ==
  call.result = "ok" => mail # NoMail /\ row = "pending" /\ mail.envelope # {}

\* Whoever the message names visibly gets it or is recorded as undelivered
\* (policy::record_undelivered). It holds with one address in To.
VisibleAccounted ==
  mail # NoMail =>
    ToSet(call.request.to) \cup call.request.cc \subseteq mail.envelope \cup undelivered

\* A message goes as the user asked: never in clear where encryption is required, with a key
\* for everyone it goes to, and everyone it does not reach is named.
SendSafe ==
    SendTypeOK /\ RequiredNeverClear /\ StrictNeverClear /\ EnvelopeHasKeys /\ OkMeansQueued /\ VisibleAccounted
=============================================================================
