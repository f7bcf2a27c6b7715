--------------------------- MODULE MCTrashClaims ---------------------------
(***************************************************************************)
(* What the comment on restore in core/src/email/ephemeral.rs says and the *)
(* code does not keep, with the history variable that it takes.            *)
(***************************************************************************)
EXTENDS Trash

VARIABLE
    kept     \* messages that expired, were restored, and got no new timer since

claimVars == <<vars, kept>>

ClaimInit ==
    /\ Init
    /\ kept = {}

ClaimNext ==
    /\ Next
    /\ kept' = (kept \cup (IF RestoreRow
                            THEN {m \in ids[User] : reason[m] = "expired"} ELSE {}))
                 \ (labelled' \cup {m \in Msgs : \E d \in Durations : SetMessageTimer(m, d)})

ClaimSpec == ClaimInit /\ [][ClaimNext]_claimVars

\* restore: "its own countdown is not restarted: restoring a message the user
\* asked to keep and then expiring it again an hour later would be a bug".  A
\* message that expired and was restored has no countdown running.
RestoredStaysOut ==
    \A m \in kept : timestamp[m] = 0
=============================================================================
