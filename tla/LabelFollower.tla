---------------------------- MODULE LabelFollower ----------------------------
(***************************************************************************)
(* What label sync promises while the user works on one device only: the   *)
(* other device shows the labels of the first as they were at some moment, *)
(* and goes from each of the first one's states to the very next, skipping *)
(* none, inventing none and never going back.                              *)
(***************************************************************************)
EXTENDS Sequences

CONSTANTS
    States,   \* what a device can show
    Initial   \* what a new account shows

VARIABLES
    leader,   \* what the device in use shows
    shown,    \* what the other device shows
    ahead     \* the leader's states that the other device has still to show

vars == <<leader, shown, ahead>>

Init ==
    /\ leader = Initial
    /\ shown = Initial
    /\ ahead = <<>>

Lead ==
    /\ leader' \in States
    /\ ahead' = Append(ahead, leader')
    /\ UNCHANGED shown

Follow ==
    /\ ahead # <<>>
    /\ shown' = Head(ahead)
    /\ ahead' = Tail(ahead)
    /\ UNCHANGED leader

Next == Lead \/ Follow

Spec == Init /\ [][Next]_vars

=============================================================================
