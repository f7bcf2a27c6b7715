----------------------------- MODULE ThreadTree -----------------------------
(***************************************************************************)
(* The shape of a conversation: core/src/email/threading.rs, tree and      *)
(* build_node.                                                             *)
(*                                                                         *)
(* The rows of a thread are numbered by (timestamp, id).  Each gives its   *)
(* Message-ID and the IDs that References and In-Reply-To name, in that    *)
(* order.  tree resolves each row to a parent; build_node assembles each   *)
(* root's subtree with an explicit stack.                                  *)
(***************************************************************************)
EXTENDS Naturals, SequencesExt

CONSTANTS
    N,         \* rows of the thread
    Missing,   \* an ID that no row has
    MaxNamed   \* IDs a row may name

ASSUME SizeAssumption == N \in Nat /\ MaxNamed \in Nat

VARIABLES
    mid,         \* the Message-ID of each row
    candidates,  \* the IDs it names
    roots,       \* roots whose subtree is still to be built
    stack,       \* build_node's steps, the next one last
    done,        \* its finished nodes
    forest       \* what tree has collected

vars == <<mid, candidates, roots, stack, done, forest>>

Rows == 1..N
Mids == Rows \cup {Missing}
NoRow == 0

Named == UNION {[1..k -> Mids] : k \in 0..MaxNamed}

----------------------------------------------------------------------------
(***************************************************************************)
(* tree: parents, children and roots.                                      *)
(***************************************************************************)

\* by_mid: of rows with one ID, the oldest.
RowOf(i) ==
    LET rows == {r \in Rows : mid[r] = i}
    IN  IF rows = {} THEN NoRow ELSE CHOOSE r \in rows : \A q \in rows : r <= q

\* Positions whose row is there, and older: that rules out r itself as well.
Eligible(r) == {k \in DOMAIN candidates[r] : RowOf(candidates[r][k]) \in 1..(r - 1)}

BugParent(r) ==
    IF Eligible(r) = {} THEN NoRow
    ELSE RowOf(candidates[r][CHOOSE k \in Eligible(r) : \A l \in Eligible(r) : k <= l])

Parent(r) ==
    IF Eligible(r) = {} THEN NoRow
    ELSE RowOf(candidates[r][CHOOSE k \in Eligible(r) : \A l \in Eligible(r) : l <= k])

\* The roots are the children of NoRow.
Children(r) == SetToSortSeq({q \in Rows : Parent(q) = r}, <)

\* A row with the ID of an earlier one has that one's number as its ID.
OwnIds == {f \in [Rows -> Rows] : \A r \in Rows : f[r] <= r /\ f[f[r]] = f[r]}

Start(own, naming) ==
    /\ mid \in own
    /\ candidates \in naming
    /\ roots = Children(NoRow)
    /\ stack = <<>>
    /\ done = <<>>
    /\ forest = <<>>

Init == Start(OwnIds, [Rows -> Named])

----------------------------------------------------------------------------
(***************************************************************************)
(* build_node, for one root after the other.                               *)
(***************************************************************************)

Enters(s) == [k \in DOMAIN s |-> [step |-> "enter", row |-> s[k], count |-> 0]]

NextRoot ==
    /\ stack = <<>>
    /\ done = <<>>
    /\ roots # <<>>
    /\ stack' = Enters(<<Head(roots)>>)
    /\ roots' = Tail(roots)
    /\ UNCHANGED <<mid, candidates, done, forest>>

Enter ==
    /\ stack # <<>>
    /\ Last(stack).step = "enter"
    /\ stack' = LET kids == Children(Last(stack).row)
                IN  Front(stack) \o
                    <<[step |-> "exit", row |-> Last(stack).row, count |-> Len(kids)]>>
                    \o Enters(Reverse(kids))
    /\ UNCHANGED <<mid, candidates, roots, done, forest>>

Exit ==
    /\ stack # <<>>
    /\ Last(stack).step = "exit"
    /\ LET count == Last(stack).count
           at == IF count <= Len(done) THEN Len(done) - count ELSE 0
       IN  done' = SubSeq(done, 1, at) \o
                   <<[row |-> Last(stack).row,
                      children |-> SubSeq(done, at + 1, Len(done))]>>
    /\ stack' = Front(stack)
    /\ UNCHANGED <<mid, candidates, roots, forest>>

Collect ==
    /\ stack = <<>>
    /\ done # <<>>
    /\ forest' = Append(forest, Last(done))
    /\ done' = <<>>
    /\ UNCHANGED <<mid, candidates, roots, stack>>

Next == NextRoot \/ Enter \/ Exit \/ Collect

Spec == Init /\ [][Next]_vars

----------------------------------------------------------------------------
(***************************************************************************)
(* Properties.                                                             *)
(***************************************************************************)

Finished == roots = <<>> /\ stack = <<>> /\ done = <<>>

RECURSIVE NodesOf(_)
\* The nodes of a subtree, each with its parent's row, in reading order.
NodesOf(node) ==
    LET RECURSIVE Below(_)
        Below(k) == IF k > Len(node.children) THEN <<>>
                    ELSE LET below == NodesOf(node.children[k])
                         IN  [below EXCEPT ![1].parent = node.row] \o Below(k + 1)
    IN  <<[row |-> node.row, parent |-> NoRow]>> \o Below(1)

RECURSIVE Reading(_)
\* The nodes of the forest in reading order.
Reading(s) == IF s = <<>> THEN <<>> ELSE NodesOf(Head(s)) \o Reading(Tail(s))

\* Every message of the thread is shown exactly once, whatever IDs are missing,
\* shared or named in a circle.
EachOnce ==
    Finished => LET shown == Reading(forest)
                IN  /\ Len(shown) = N
                    /\ {shown[k].row : k \in DOMAIN shown} = Rows

\* Siblings, and roots, are shown oldest first, although the stack reverses them.
OldestFirst ==
    Finished => LET shown == Reading(forest)
                IN  \A k, l \in DOMAIN shown :
                       k < l /\ shown[k].parent = shown[l].parent
                          => shown[k].row < shown[l].row

\* A message is shown under the last message it names that the thread holds from
\* before it, and is a root only if there is none.
NearestAncestor ==
    Finished => LET shown == Reading(forest)
                IN  \A k \in DOMAIN shown : \A a \in DOMAIN candidates[shown[k].row] :
                       LET r == shown[k].row
                           p == RowOf(candidates[r][a])
                       IN  p # NoRow /\ p < r =>
                              \E b \in a..Len(candidates[r]) :
                                  RowOf(candidates[r][b]) = shown[k].parent

\* The tree shows each message once, under its nearest shown ancestor, the oldest first.
TreeRight == EachOnce /\ OldestFirst /\ NearestAncestor
=============================================================================
