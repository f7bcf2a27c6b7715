----------------------------- MODULE MCThreading -----------------------------
(***************************************************************************)
(* Threading on a few messages that may name each other in any way; those  *)
(* that do not arrive stand for the ones that never do.                    *)
(***************************************************************************)
EXTENDS Threading, TLC

CONSTANTS a, b, c

MCOwn == [m \in Msgs |-> m]
MCSubject == [m \in Msgs |-> IF m = a THEN Blank ELSE "hello"]
MCTimestamp == [m \in Msgs |-> IF m = a THEN 1 ELSE 2]

\* Messages that differ in their Message-ID only, which is their own name.
MsgSymmetry == Permutations({b, c})
=============================================================================
