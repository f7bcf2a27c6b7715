----------------------------- MODULE ReadReceipts -----------------------------
(* Read receipts, from the user's eyes to the sender's counter. markseen_msgs    *)
(* marks messages seen and queues receipts in smtp_mdns as email::receipts       *)
(* allows; the smtp loop sends them behind a rate limit, several in one mail;    *)
(* the sender's own client counts them with handle_mdn. The chat has one         *)
(* correspondent. With BccSelf a message that gets no receipt is announced to    *)
(* our other devices instead, by a receipt to ourselves.                         *)
EXTENDS Naturals, FiniteSets, FiniteSetsExt, Sequences, SequencesExt

CONSTANTS ShownMsgs,   \* messages received, numbered in the order they are shown
          Asking,      \* those that ask for a receipt
          BccSelf,     \* Config::BccSelf
          MdnRetries,  \* the 6 of "retries > 6"
          MdnQuota,    \* burst of the rate limiter
          MaxActs      \* bound on what users and the system do meanwhile

ASSUME ReceiptAssumption ==
  /\ ShownMsgs \subseteq Nat /\ IsFiniteSet(ShownMsgs) /\ Asking \subseteq ShownMsgs
  /\ BccSelf \in BOOLEAN /\ MdnRetries \in Nat /\ MdnQuota \in Nat \ {0} /\ MaxActs \in Nat

\* MdnPolicy
Never == 0
VerifiedOnly == 1
Always == 2

VARIABLES enabled, policy,  \* Config::MdnsEnabled and Config::MdnPolicy
          setPolicy,    \* what MdnPolicy::set has yet to write, or 3
          exception,    \* contact_policy.mdn_enabled: "none", "on" or "off"
          verified,     \* the contact is verified and known
          chatBlocked,  \* chats.blocked: "not", "request" or "yes"
          contactBlocked,
          read,         \* msgs.state of every message
          wants,        \* messages whose Param::WantsMdn is set
          seeing,       \* markseen_msgs: messages loaded and not yet handled, and
                        \* the step it is at with the first of them
          queue,        \* smtp_mdns, rows [mid, to, retries] that nothing orders or tells apart
          mdnLoop, mdnRate,  \* the smtp loop at work on receipts; the rate limiter
          flying,       \* receipts on their way to the contact, by message-id
          counted,      \* the contact's msgs_mdns: how often we are listed per message
          told,         \* history: how often a receipt for a message left us
          risky,        \* history: messages whose receipt may have gone out twice
          asRequest,    \* history: messages seen while the chat was a request
          toggled,      \* history: MdnsEnabled was written on its own and may differ from MdnPolicy
          before,       \* history: the policy in force before MdnPolicy::set began
          wrongly,      \* history: a receipt was queued that no policy chosen allows
          acts

choiceVars == <<enabled, policy, setPolicy, exception, verified, toggled, before>>
chatVars == <<chatBlocked, contactBlocked, read, wants, asRequest>>
mdnVars == <<mdnLoop, mdnRate, flying, counted, told, risky>>
receiptVars == <<choiceVars, chatVars, seeing, queue, mdnVars, wrongly, acts>>

NotSeeing == [todo |-> <<>>, pc |-> "state", from |-> [m \in ShownMsgs |-> "seen"],
              wants |-> {}, blocked |-> "not"]
MdnIdle == [pc |-> "idle", mids |-> {}, to |-> "none", first |-> "none"]
Act == acts < MaxActs /\ acts' = acts + 1

ReceiptInit ==
  /\ enabled = TRUE /\ policy = Always /\ setPolicy = 3 /\ exception = "none"
  /\ verified = FALSE /\ chatBlocked = "request" /\ contactBlocked = FALSE
  /\ read = [m \in ShownMsgs |-> "fresh"] /\ wants = Asking
  /\ seeing = NotSeeing /\ queue = {} /\ mdnLoop = MdnIdle /\ mdnRate = 0
  /\ flying = [m \in ShownMsgs |-> 0] /\ counted = [m \in ShownMsgs |-> 0]
  /\ told = [m \in ShownMsgs |-> 0] /\ risky = {} /\ asRequest = {} /\ toggled = FALSE
  /\ before = Always /\ wrongly = FALSE /\ acts = 0

-----------------------------------------------------------------------------
(* The policy. *)

LoadPolicy == IF enabled THEN policy ELSE Never

Allows(p) ==
  p # Never /\ CASE exception = "on" -> TRUE
                 [] exception = "off" -> FALSE
                 [] OTHER -> p = Always \/ verified

ShouldSend == Allows(LoadPolicy)

\* The policies somebody chose: the one in force, or the old and the new one
\* while MdnPolicy::set is between its two writes.
Chosen == IF setPolicy = 3 THEN {LoadPolicy} ELSE {before, setPolicy}

\* MdnPolicy::set writes MdnsEnabled, then MdnPolicy.
SetEnabled(p) ==
  /\ setPolicy = 3 /\ p # LoadPolicy /\ Act
  /\ before' = LoadPolicy
  /\ enabled' = (p # Never) /\ setPolicy' = p
  /\ UNCHANGED <<policy, exception, verified, toggled, chatVars, seeing, queue, mdnVars,
                 wrongly>>

WritePolicy ==
  /\ setPolicy # 3
  /\ policy' = setPolicy /\ setPolicy' = 3 /\ toggled' = (enabled # (setPolicy # Never))
  /\ UNCHANGED <<enabled, exception, verified, before, chatVars, seeing, queue, mdnVars,
                 wrongly, acts>>

\* set_config("mdns_enabled"), here or from another device.
ToggleEnabled ==
  /\ Act /\ enabled' = ~enabled /\ toggled' = TRUE
  /\ UNCHANGED <<policy, setPolicy, exception, verified, before, chatVars, seeing, queue,
                 mdnVars, wrongly>>

SetException(e) ==
  /\ Act /\ exception # e /\ exception' = e
  /\ UNCHANGED <<enabled, policy, setPolicy, verified, toggled, before, chatVars, seeing,
                 queue, mdnVars, wrongly>>

Verify ==
  /\ Act /\ ~verified /\ verified' = TRUE
  /\ UNCHANGED <<enabled, policy, setPolicy, exception, toggled, before, chatVars, seeing,
                 queue, mdnVars, wrongly>>

\* The chat is accepted, or blocked with its contact.
Accept ==
  /\ chatBlocked = "request" /\ chatBlocked' = "not"
  /\ UNCHANGED <<choiceVars, contactBlocked, read, wants, asRequest, seeing, queue, mdnVars,
                 wrongly, acts>>

Block ==
  /\ chatBlocked = "not" /\ Act
  /\ chatBlocked' = "yes" /\ contactBlocked' = TRUE
  /\ UNCHANGED <<choiceVars, read, wants, asRequest, seeing, queue, mdnVars, wrongly>>

-----------------------------------------------------------------------------
(* What the user has seen. *)

\* marknoticed_chat, mark_old_messages_as_noticed.
Notice ==
  /\ \E m \in ShownMsgs : read[m] = "fresh"
  /\ read' = [m \in ShownMsgs |-> IF read[m] = "fresh" THEN "noticed" ELSE read[m]]
  /\ UNCHANGED <<choiceVars, chatBlocked, contactBlocked, wants, asRequest, seeing, queue,
                 mdnVars, wrongly, acts>>

\* markfresh_chat: the last message is unread again.
MarkFresh ==
  /\ Act /\ read[Max(ShownMsgs)] # "fresh" /\ read' = [read EXCEPT ![Max(ShownMsgs)] = "fresh"]
  /\ UNCHANGED <<choiceVars, chatBlocked, contactBlocked, wants, asRequest, seeing, queue,
                 mdnVars, wrongly>>

\* markseen_msgs reads state and parameters of all messages before it handles one.
MarkSeen(s) ==
  /\ seeing.todo = <<>>
  /\ \E m \in ToSet(s) : read[m] # "seen"
  /\ seeing' = [todo |-> s, pc |-> "state", from |-> read, wants |-> wants,
              blocked |-> chatBlocked]
  /\ UNCHANGED <<choiceVars, chatVars, queue, mdnVars, wrongly, acts>>

Done(m) == seeing' = IF Len(seeing.todo) = 1 THEN NotSeeing
                     ELSE [seeing EXCEPT !.todo = Tail(@), !.pc = "state"]

SeeState ==
  /\ seeing.todo # <<>> /\ seeing.pc = "state"
  /\ LET m == Head(seeing.todo) IN
     IF seeing.from[m] = "seen" THEN Done(m) /\ UNCHANGED <<read, asRequest>>
     ELSE /\ read' = [read EXCEPT ![m] = "seen"]
          /\ asRequest' = IF seeing.blocked = "request" THEN asRequest \cup {m} ELSE asRequest
          /\ seeing' = [seeing EXCEPT !.pc = "decide"]
  /\ UNCHANGED <<choiceVars, chatBlocked, contactBlocked, wants, queue, mdnVars, wrongly, acts>>

\* WantsMdn is cleared in the loaded parameters before the receipt is queued.
BugDecide ==
  /\ seeing.todo # <<>> /\ seeing.pc = "decide"
  /\ LET m == Head(seeing.todo)
         go == seeing.blocked = "not" /\ m \in seeing.wants /\ ShouldSend IN
     /\ seeing' = [seeing EXCEPT !.pc = IF go THEN "contact" ELSE "self"]
  /\ UNCHANGED <<choiceVars, chatVars, queue, mdnVars, wrongly, acts>>
Decide ==
  /\ seeing.todo # <<>> /\ seeing.pc = "decide"
  /\ LET m == Head(seeing.todo)
         go == seeing.blocked = "not" /\ m \in seeing.wants /\ ShouldSend IN
     /\ wants' = IF go THEN wants \ {m} ELSE wants
     /\ wrongly' = (wrongly \/ (go /\ ~toggled /\ \A p \in Chosen : ~Allows(p)))
     /\ IF go \/ BccSelf
        THEN seeing' = [seeing EXCEPT !.pc = IF go THEN "contact" ELSE "self"]
        ELSE Done(m)
  /\ UNCHANGED <<choiceVars, chatBlocked, contactBlocked, read, asRequest, queue, mdnVars, acts>>

Enqueue ==
  /\ seeing.todo # <<>> /\ seeing.pc \in {"contact", "self"}
  /\ LET m == Head(seeing.todo) IN
     /\ queue' = queue \cup {[mid |-> m, to |-> seeing.pc, retries |-> 0]}
     /\ Done(m)
  /\ UNCHANGED <<choiceVars, chatVars, mdnVars, wrongly, acts>>

-----------------------------------------------------------------------------
(* The smtp loop. *)

CanSend == mdnRate + 1 <= MdnQuota
CountMdn == mdnRate' = Min({MdnQuota, mdnRate + 1})
Drop(mids) == queue' = {q \in queue : q.mid \notin mids}

Kept == {q \in queue : q.retries <= MdnRetries}
Counted(q) == [q EXCEPT !.retries = @ + 1]

\* send_mdn: exhausted receipts go, one with the fewest retries is counted and
\* takes the others for the same contact along.
PickMdn ==
  /\ mdnLoop.pc = "idle" /\ CanSend /\ queue # {}
  /\ \/ Kept = {} /\ queue' = {} /\ UNCHANGED mdnLoop
     \/ \E first \in Kept :
          /\ \A q \in Kept : first.retries <= q.retries
          /\ queue' = {IF q.mid = first.mid THEN Counted(q) ELSE q : q \in Kept}
          /\ mdnLoop' = [pc |-> "send", to |-> first.to, first |-> first.mid,
                         mids |-> {q.mid : q \in {r \in Kept : r.to = first.to}}]
  /\ UNCHANGED <<choiceVars, chatVars, seeing, mdnRate, flying, counted, told, risky, wrongly,
                 acts>>

SentMdn ==
  /\ CountMdn
  /\ told' = [m \in ShownMsgs |-> IF mdnLoop.to = "contact" /\ m \in mdnLoop.mids
                             THEN told[m] + 1 ELSE told[m]]
  /\ flying' = [m \in ShownMsgs |-> IF mdnLoop.to = "contact" /\ m \in mdnLoop.mids
                               THEN flying[m] + 1 ELSE flying[m]]

SendMdn ==
  /\ mdnLoop.pc = "send" /\ ~(contactBlocked /\ mdnLoop.to = "contact")
  /\ SentMdn /\ mdnLoop' = [mdnLoop EXCEPT !.pc = "sent"]
  /\ UNCHANGED <<choiceVars, chatVars, seeing, queue, counted, risky, wrongly, acts>>

\* Taken by the server, but its answer was lost: tried again later.
MdnAnswerLost ==
  /\ mdnLoop.pc = "send" /\ ~(contactBlocked /\ mdnLoop.to = "contact")
  /\ SentMdn /\ mdnLoop' = MdnIdle /\ risky' = risky \cup mdnLoop.mids
  /\ UNCHANGED <<choiceVars, chatVars, seeing, queue, counted, wrongly, acts>>

MdnRetry ==
  /\ mdnLoop.pc = "send" /\ ~(contactBlocked /\ mdnLoop.to = "contact")
  /\ CountMdn /\ mdnLoop' = MdnIdle
  /\ UNCHANGED <<choiceVars, chatVars, seeing, queue, flying, counted, told, risky, wrongly,
                 acts>>

\* A blocked contact or a permanent error: this one receipt is removed.
MdnError ==
  /\ mdnLoop.pc = "send"
  /\ Drop({mdnLoop.first}) /\ mdnLoop' = MdnIdle
  /\ UNCHANGED <<choiceVars, chatVars, seeing, mdnRate, flying, counted, told, risky, wrongly,
                 acts>>

DropMdns ==
  /\ mdnLoop.pc = "sent" /\ mdnLoop' = MdnIdle
  /\ Drop(mdnLoop.mids)
  /\ UNCHANGED <<choiceVars, chatVars, seeing, mdnRate, flying, counted, told, risky, wrongly,
                 acts>>

\* Ratelimit::current_value_at: the window moves on.
Decay ==
  /\ mdnRate > 0 /\ mdnRate' = mdnRate - 1
  /\ UNCHANGED <<choiceVars, chatVars, seeing, queue, mdnLoop, flying, counted, told, risky,
                 wrongly, acts>>

\* The process dies; markseen_msgs is forgotten in the middle.
MdnCrash ==
  /\ Act /\ seeing' = NotSeeing /\ mdnLoop' = MdnIdle /\ mdnRate' = 0
  /\ risky' = IF mdnLoop.pc = "sent" THEN risky \cup mdnLoop.mids ELSE risky
  /\ UNCHANGED <<choiceVars, chatVars, queue, flying, counted, told, wrongly>>

-----------------------------------------------------------------------------
\* handle_mdn at the other end: a contact is listed once per message.
HandleMdn(m) ==
  /\ flying[m] > 0 /\ flying' = [flying EXCEPT ![m] = @ - 1]
  /\ counted' = [counted EXCEPT ![m] = IF @ = 0 THEN 1 ELSE @]
  /\ UNCHANGED <<choiceVars, chatVars, seeing, queue, mdnLoop, mdnRate, told, risky, wrongly,
                 acts>>

MdnLoopStep == PickMdn \/ SendMdn \/ MdnAnswerLost \/ MdnRetry \/ MdnError \/ DropMdns

ReceiptNext ==
  \/ (\E p \in {Never, VerifiedOnly, Always} : SetEnabled(p)) \/ WritePolicy
  \/ ToggleEnabled \/ (\E e \in {"none", "on", "off"} : SetException(e)) \/ Verify
  \/ Accept \/ Block \/ Notice \/ MarkFresh
  \/ (\E s \in {SetToSeq(ShownMsgs)} \cup {<<m>> : m \in ShownMsgs} : MarkSeen(s))
  \/ SeeState \/ Decide \/ Enqueue
  \/ MdnLoopStep \/ Decay \/ MdnCrash
  \/ (\E m \in ShownMsgs : HandleMdn(m))

ReceiptSpec == /\ ReceiptInit /\ [][ReceiptNext]_receiptVars
               /\ WF_receiptVars(MdnLoopStep) /\ WF_receiptVars(Decay)

-----------------------------------------------------------------------------

ReceiptTypeOK ==
  /\ \A q \in queue : q.mid \in ShownMsgs /\ q.to \in {"contact", "self"}
                             /\ q.retries \in 0 .. MdnRetries + 1
  /\ mdnRate \in 0 .. MdnQuota /\ wants \subseteq Asking
  /\ policy \in {Never, VerifiedOnly, Always}

\* A message is answered with one receipt however often it is marked unread and
\* seen again, unless the server's answer or the process was lost between the
\* mail and the removal of its row.
ReceiptOnce == \A m \in ShownMsgs : told[m] > 1 => m \in risky

\* However often a receipt arrives, the sender counts one reader.
CountedOnce == \A m \in ShownMsgs : counted[m] <= 1

\* Only messages that asked are answered, and only under a policy somebody chose,
\* also while MdnPolicy::set is between its two writes.
OnlyAllowed == ~wrongly /\ \A m \in ShownMsgs : told[m] > 0 => m \in Asking

\* Every queued receipt has been sent or given up.  It happens again and again,
\* whatever the server says and however few mails the rate limit lets through.
ReceiptsDrained == queue = {}

\* The comment in markseen_msgs: "We also don't send read receipts for contact
\* requests. Read receipts will not be sent even after accepting the chat."
NoneForRequests == \A m \in asRequest : told[m] = 0

\* Receipts are sent once, counted once, and only where they are allowed.
ReceiptsSafe == ReceiptTypeOK /\ ReceiptOnce /\ CountedOnce /\ OnlyAllowed
==============================================================================
