----------------------------- MODULE MCDelivery -----------------------------
(***************************************************************************)
(* What carries mail out of and into the device: the outgoing queue, the   *)
(* queue of read receipts, the fetch loop, the reception of what was       *)
(* fetched, and the storing of its blobs while they are being encrypted    *)
(* or the database is rewritten.  They meet in the tables only as their    *)
(* modules say; each behaviour runs one of them, the others rest in a      *)
(* first state.                                                            *)
(***************************************************************************)
EXTENDS AtRest, Outbox, ReadReceipts, ImapFetch, Reception

VARIABLE part    \* the one that runs

MCMembers == <<"a">>
MCMails == {[msg |-> 2, part |-> "large"], [msg |-> 3, part |-> "pre"], [msg |-> 3, part |-> "post"]}

\* A message in two halves, one in a single mail, an edit and a deletion request.
Of(k, o, f, n) == [kind |-> k, own |-> o, of |-> f, parts |-> n]
PreM == Of("pre", 2, 1, 1)
PostM == Of("post", 1, 1, 1)
EditM == Of("edit", 3, 1, 1)
DeleteM == Of("delete", 4, 1, 1)
PlainM == Of("plain", 5, 5, 2)
MCReceptionMails == {PreM, PostM, EditM, DeleteM, PlainM}

\* What comes over which of two relays.
Over(r, s) == {[relay |-> r, mail |-> m] : m \in s}
MCDeliveries ==
    {{}, Over("r1", {PreM, PostM, EditM}) \cup Over("r2", {PostM}),
     Over("r1", {PreM, PostM, DeleteM}) \cup Over("r2", {PreM}),
     Over("r1", {PlainM, PostM}) \cup Over("r2", {PlainM, PostM})}

deliveryVars == <<part, vars, outboxVars, receiptVars, fetchVars, receptionVars>>

DeliveryInit ==
    /\ part \in {"outbox", "receipts", "fetch", "reception", "blobs"}
    /\ OutboxInit /\ ReceiptInit /\ FetchInit
    /\ ReceptionInit /\ (part = "reception" \/ pending = {})
    /\ Init /\ (part = "blobs" \/ ~is_encrypted)

OutboxRuns == part = "outbox" /\ OutboxNext /\ UNCHANGED <<part, vars, receiptVars, fetchVars, receptionVars>>
ReceiptsRun == part = "receipts" /\ ReceiptNext /\ UNCHANGED <<part, vars, outboxVars, fetchVars, receptionVars>>
FetchRuns == part = "fetch" /\ FetchNext /\ UNCHANGED <<part, vars, outboxVars, receiptVars, receptionVars>>
ReceptionRuns == part = "reception" /\ ReceptionNext /\ UNCHANGED <<part, vars, outboxVars, receiptVars, fetchVars>>
BlobsRun == part = "blobs" /\ Next /\ UNCHANGED <<part, outboxVars, receiptVars, fetchVars, receptionVars>>

DeliveryNext == OutboxRuns \/ ReceiptsRun \/ FetchRuns \/ ReceptionRuns \/ BlobsRun

\* The fairness of the modules, for the one that runs.
DeliveryFairness ==
    /\ WF_outboxVars(part = "outbox" /\ Poll) /\ SF_outboxVars(part = "outbox" /\ LoadJob)
    /\ WF_outboxVars(part = "outbox" /\ EndPass)
    /\ WF_outboxVars(part = "outbox" /\ (GiveUp \/ DropRefused \/ SaveProgress \/ DropSent \/ CheckSent))
    /\ WF_outboxVars(part = "outbox" /\ (SendChunk \/ AnswerLost \/ SendRetry \/ SendRefused))
    /\ WF_receiptVars(part = "receipts" /\ MdnLoopStep) /\ WF_receiptVars(part = "receipts" /\ Decay)
    /\ WF_fetchVars(part = "fetch" /\ FetchStep)
    /\ WF_fetchVars(part = "fetch" /\ \E m \in MailMsgs : QueueDownload(m))
    /\ WF_receptionVars(part = "reception" /\ \E d \in pending : Receive(d))
    /\ WF_receptionVars(part = "reception" /\ StoreMail)

DeliverySpec == DeliveryInit /\ [][DeliveryNext]_deliveryVars /\ DeliveryFairness

\* The queues drain, what is in the inbox is fetched and what was fetched is received, again
\* and again, although servers refuse, connections break and the process dies.
MailFlows == []<>(OutboxDrained /\ ReceiptsDrained /\ EveryMailFetched /\ AllReceived)
=============================================================================
