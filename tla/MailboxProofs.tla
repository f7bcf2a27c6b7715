--------------------------- MODULE MailboxProofs ---------------------------
(***************************************************************************)
(* Proofs about what becomes of a mail: the trash, for any messages, timer *)
(* lengths, windows and bounds; the chat a mail is assigned to, for any    *)
(* mails; and the inbox loop that fetches it, for any folder, prefetch     *)
(* window, failures and requests.                                          *)
(***************************************************************************)
EXTENDS Trash, Assignment, ImapFetch, SequenceTheorems, TLAPS

(***************************************************************************)
(* The inductive invariant.                                                *)
(***************************************************************************)

\* A deadline given after reconcile is not yet due, unless the window is zero; one
\* given before is of a message that was in the trash when reconcile ran.
PurgeInv ==
    /\ labelled \subseteq witnessed
    /\ pc[Housekeeping] = "select_due" =>
          \A m \in Rows : purge_at[m] <= now => m \in witnessed
    /\ pc[Housekeeping] = "destroy" => ids[Housekeeping] \subseteq witnessed

\* While divert is at work no other message may expire, and once it is done
\* nothing is left for core's sweep.
DivertInv ==
    /\ pc[Loop] \in {"divert_label", "divert_row", "divert_clear"} =>
          Expired \subseteq ids[Loop]
    /\ pc[Loop] = "core_select" /\ ~skipped => Expired = {}
    /\ pc[Loop] = "core_delete" => skipped

\* The inductive invariant of the trash.
IInv == TypeOK /\ PurgeInv /\ DivertInv

----------------------------------------------------------------------------
(***************************************************************************)
(* Type correctness.                                                       *)
(***************************************************************************)

USE DEF Tasks, Housekeeping, Loop, User, Idle, Labels

\* An ephemeral timer is a number of days, 0 for none.
LEMMA TimerIsNat == TypeOK => \A m \in Msgs : timer[m] \in Nat
<1> SUFFICES ASSUME TypeOK, NEW m \in Msgs PROVE timer[m] \in Nat
    OBVIOUS
<1>1. timer[m] \in Durations \cup {0}
    BY DEF TypeOK
<1> QED
    <2>1. \A d \in Durations : d \in Nat
        BY DurationsAssumption
    <2> QED
        BY <1>1, <2>1

\* A new database is well typed.
LEMMA TypeInit == Init => TypeOK
<1> SUFFICES ASSUME Init PROVE TypeOK
    OBVIOUS
<1>1. purge_days \in Nat
    BY WindowsAssumption DEF Init, AtLeastZero
<1>2. skipped \in BOOLEAN
    BY DEF Init
<1>3. /\ pc \in [Tasks -> Labels]
      /\ ids \in [Tasks -> SUBSET Msgs]
      /\ left \in [Tasks -> SUBSET Msgs]
    BY DEF Init
<1> QED
    BY <1>1, <1>2, <1>3 DEF Init, TypeOK, NoRow, Reasons

\* Every step keeps every variable in its type.
LEMMA TypeNext == TypeOK /\ [Next]_vars => TypeOK'
<1> SUFFICES ASSUME TypeOK, [Next]_vars PROVE TypeOK'
    OBVIOUS
<1> USE DurationsAssumption, WindowsAssumption, BoundsAssumption
<1>1. CASE UNCHANGED vars
    BY <1>1 DEF TypeOK, vars, store, control
<1>2. CASE Next
    <2>a. \A m \in Msgs : timer[m] \in Nat
        BY TimerIsNat
    <2>1. CASE Tick
        BY <2>1 DEF TypeOK, Tick, store, control
    <2>2. CASE LabelsPrune
        BY <2>2 DEF TypeOK, LabelsPrune, Goto, Live
    <2>3. CASE PurgeReconcile
        BY <2>3
        DEF TypeOK, PurgeReconcile, Reconcile, Goto, NoRow, Reasons
    <2>4. CASE PurgeSelect
        BY <2>4 DEF TypeOK, PurgeSelect, Take, Goto, Rows, store
    <2>5. CASE PurgePrune
        BY <2>5
        DEF TypeOK, PurgePrune, DeleteRows, Goto, Live, NoRow, Reasons
    <2>6. ASSUME NEW t \in Tasks, NEW m \in Msgs, Destroy(t, m) PROVE TypeOK'
        BY <2>6 DEF TypeOK, Destroy, Tombstone, Live
    <2>7. ASSUME NEW t \in Tasks, DestroyRows(t) PROVE TypeOK'
        BY <2>7
        DEF TypeOK, DestroyRows, DeleteRows, Goto, Take, Done, NoRow,
            Reasons
    <2>8. CASE StartEphemeralTimers
        BY <2>a, <2>8
        DEF TypeOK, StartEphemeralTimers, Done, Goto, Take
    <2>9. CASE DivertSelect
        BY <2>9
        DEF TypeOK, DivertSelect, Goto, Take, Expired, Live, store
    <2>10. CASE DivertLabel
        BY <2>10 DEF TypeOK, DivertLabel, Goto
    <2>11. CASE DivertRow
        BY <2>11
        DEF TypeOK, DivertRow, InsertRows, AtOnce, Goto, NoRow, Reasons
    <2>12. CASE DivertClear
        BY <2>12 DEF TypeOK, DivertClear, Take, Goto
    <2>13. CASE CoreSelect
        BY <2>13
        DEF TypeOK, CoreSelect, Take, Goto, Expired, Live, store
    <2>14. CASE CoreDelete
        BY <2>14
        DEF TypeOK, CoreDelete, Tombstone, Done, Goto, Take, Live
    <2>15. CASE TrashRow
        BY <2>15
        DEF TypeOK, TrashRow, InsertRows, AtOnce, Done, Goto, Take, NoRow,
            Reasons
    <2>16. CASE RestoreRow
        BY <2>16
        DEF TypeOK, RestoreRow, DeleteRows, Done, Goto, Take, NoRow,
            Reasons
    <2>17. CASE DestroyFilter
        BY <2>17 DEF TypeOK, DestroyFilter, Take, Goto, Rows, store
    <2>18. CASE EmptySelect
        BY <2>18 DEF TypeOK, EmptySelect, Take, Goto, Live, store
    <2>19. ASSUME NEW S \in SUBSET Live, TrashLabel(S) PROVE TypeOK'
        BY <2>19 DEF TypeOK, TrashLabel, Take, Goto, Live
    <2>20. ASSUME NEW S \in SUBSET Live, RestoreLabel(S) PROVE TypeOK'
        BY <2>20 DEF TypeOK, RestoreLabel, Take, Goto, Live
    <2>21. ASSUME NEW S \in SUBSET Live, DestroyNow(S) PROVE TypeOK'
        BY <2>21
        DEF TypeOK, DestroyNow, Reconcile, Take, Goto, Live, NoRow,
            Reasons
    <2>22. CASE Empty
        BY <2>22 DEF TypeOK, Empty, Reconcile, Goto, NoRow, Reasons
    <2>23. ASSUME NEW m \in Msgs, MarkSeen(m) PROVE TypeOK'
        BY <2>a, <2>23 DEF TypeOK, MarkSeen, StartTimers, control
    <2>24. CASE NoticeChat
        BY <2>a, <2>24 DEF TypeOK, NoticeChat, StartTimers, control
    <2>25. ASSUME NEW m \in Msgs, NEW d \in Durations \cup {0}, SetMessageTimer(m, d)
          PROVE  TypeOK'
        BY <2>25 DEF TypeOK, SetMessageTimer, control
    <2>26. ASSUME NEW w \in Windows, SetPurgeDays(w) PROVE TypeOK'
        BY <2>26
        DEF TypeOK, SetPurgeDays, AtLeastZero, store, control
    <2>27. ASSUME NEW m \in Msgs, NEW d \in Durations \cup {0}, NEW isSeen \in BOOLEAN,
              NEW parked \in BOOLEAN, Receive(m, d, isSeen, parked)
          PROVE  TypeOK'
        BY <2>27 DEF TypeOK, Receive, control
    <2>28. ASSUME NEW m \in Msgs, NEW apply \in BOOLEAN, SyncLabel(m, apply) PROVE TypeOK'
        BY <2>28 DEF TypeOK, SyncLabel, control
    <2>29. CASE HousekeepingFails
        BY <2>29
        DEF TypeOK, HousekeepingFails, Failing, Goto, Take, store
    <2>30. CASE DivertFails
        BY <2>30 DEF TypeOK, DivertFails, Failing, Goto, Take, store
    <2>31. CASE CoreSweepFails
        <3>1. skipped' \in BOOLEAN
            BY <2>31 DEF CoreSweepFails
        <3> QED
            BY <2>31, <3>1
            DEF TypeOK, CoreSweepFails, Failing, Done, Goto, Take, store
    <2>32. CASE CallFails
        BY <2>32
        DEF TypeOK, CallFails, Failing, Done, Goto, Take, store
    <2>33. CASE Crash
        <3>1. skipped' \in BOOLEAN
            BY <2>33 DEF Crash
        <3>2. /\ pc' \in [Tasks -> Labels]
              /\ ids' \in [Tasks -> SUBSET Msgs]
              /\ left' \in [Tasks -> SUBSET Msgs]
            BY <2>33 DEF Crash
        <3> QED
            BY <2>33, <3>1, <3>2 DEF TypeOK, Crash, Failing, store
    <2> QED
        BY <1>2, <2>1, <2>2, <2>3, <2>4, <2>5, <2>6, <2>7, <2>8, <2>9, <2>10,
           <2>11, <2>12, <2>13, <2>14, <2>15, <2>16, <2>17, <2>18, <2>19, <2>20,
           <2>21, <2>22, <2>23, <2>24, <2>25, <2>26, <2>27, <2>28, <2>29, <2>30,
           <2>31, <2>32, <2>33
        DEF Next, HousekeepingStep, LoopStep, UserStep, UserCall, Network, Fault
<1> QED
    BY <1>1, <1>2

\* Every reachable state is well typed: in particular no window is negative,
\* no deadline lies before the clock's start and no handler works on a message
\* that does not exist.
THEOREM TypeCorrect == Spec => []TypeOK
    BY TypeInit, TypeNext, PTL DEF Spec

----------------------------------------------------------------------------
(***************************************************************************)
(* The two halves of the inductive invariant, action by action.            *)
(***************************************************************************)

\* Every step keeps what divert promises core's sweep: nothing expires that it has
\* not taken in hand, and once it is done nothing is expired.
LEMMA DivertNext == TypeOK /\ DivertInv /\ [Next]_vars => DivertInv'
<1> SUFFICES ASSUME TypeOK, DivertInv, [Next]_vars PROVE DivertInv'
    OBVIOUS
<1> USE DurationsAssumption, WindowsAssumption
<1>1. CASE UNCHANGED vars
    BY <1>1 DEF DivertInv, vars, store, control, Expired, Live, Rows
<1>2. CASE Next
    <2>a. \A m \in Msgs : timer[m] \in Nat
        BY TimerIsNat
    <2>1. CASE Tick
        BY <2>a, <2>1
        DEF TypeOK, DivertInv, Tick, Quiet, Expired, Live, store, control
    <2>2. CASE LabelsPrune
        BY <2>a, <2>2
        DEF TypeOK, DivertInv, LabelsPrune, Goto, Live, Expired, store, control
    <2>3. CASE PurgeReconcile
        BY <2>a, <2>3
        DEF TypeOK, DivertInv, PurgeReconcile, Reconcile, Goto, Expired, Live,
            store, control
    <2>4. CASE PurgeSelect
        BY <2>a, <2>4
        DEF TypeOK, DivertInv, PurgeSelect, Take, Goto, Rows, store, Expired,
            Live, control
    <2>5. CASE PurgePrune
        BY <2>a, <2>5
        DEF TypeOK, DivertInv, PurgePrune, DeleteRows, Goto, Live, Expired,
            store, control
    <2>6. ASSUME NEW t \in Tasks, NEW m \in Msgs, Destroy(t, m) PROVE DivertInv'
        BY <2>a, <2>6
        DEF TypeOK, DivertInv, Destroy, Tombstone, Live, Expired, store, control
    <2>7. ASSUME NEW t \in Tasks, DestroyRows(t) PROVE DivertInv'
        BY <2>a, <2>7
        DEF TypeOK, DivertInv, DestroyRows, DeleteRows, Goto, Take, Done,
            Expired, Live, store, control
    <2>8. CASE StartEphemeralTimers
        BY <2>a, <2>8
        DEF TypeOK, DivertInv, StartEphemeralTimers, Done, Goto, Take, Expired,
            Live, store, control
    <2>9. CASE DivertSelect
        BY <2>a, <2>9
        DEF TypeOK, DivertInv, DivertSelect, Goto, Take, Expired, Live, store,
            control
    <2>10. CASE DivertLabel
        BY <2>a, <2>10
        DEF TypeOK, DivertInv, DivertLabel, Goto, Expired, Live, store, control
    <2>11. CASE DivertRow
        BY <2>a, <2>11
        DEF TypeOK, DivertInv, DivertRow, InsertRows, AtOnce, Goto, Expired, Live,
            store, control
    <2>12. CASE DivertClear
        BY <2>a, <2>12
        DEF TypeOK, DivertInv, DivertClear, Take, Goto, Expired, Live, store,
            control
    <2>13. CASE CoreSelect
        BY <2>a, <2>13
        DEF TypeOK, DivertInv, CoreSelect, Take, Goto, Expired, Live, store, control
    <2>14. CASE CoreDelete
        BY <2>a, <2>14
        DEF TypeOK, DivertInv, CoreDelete, Tombstone, Done, Goto, Take, Live,
            Expired, store, control
    <2>15. CASE TrashRow
        BY <2>a, <2>15
        DEF TypeOK, DivertInv, TrashRow, InsertRows, AtOnce, Done, Goto, Take, Expired,
            Live, store, control
    <2>16. CASE RestoreRow
        BY <2>a, <2>16
        DEF TypeOK, DivertInv, RestoreRow, DeleteRows, Done, Goto, Take,
            Expired, Live, store, control
    <2>17. CASE DestroyFilter
        BY <2>a, <2>17
        DEF TypeOK, DivertInv, DestroyFilter, Take, Goto, Rows, store, Expired,
            Live, control
    <2>18. CASE EmptySelect
        BY <2>a, <2>18
        DEF TypeOK, DivertInv, EmptySelect, Take, Goto, Live, store, Expired,
            control
    <2>19. ASSUME NEW S \in SUBSET Live, TrashLabel(S) PROVE DivertInv'
        BY <2>a, <2>19
        DEF TypeOK, DivertInv, TrashLabel, Take, Goto, Live, Expired, store, control
    <2>20. ASSUME NEW S \in SUBSET Live, RestoreLabel(S) PROVE DivertInv'
        BY <2>a, <2>20
        DEF TypeOK, DivertInv, RestoreLabel, Take, Goto, Live, Expired, store,
            control
    <2>21. ASSUME NEW S \in SUBSET Live, DestroyNow(S) PROVE DivertInv'
        BY <2>a, <2>21
        DEF TypeOK, DivertInv, DestroyNow, Reconcile, Take, Goto, Live, Expired,
            store, control
    <2>22. CASE Empty
        BY <2>a, <2>22
        DEF TypeOK, DivertInv, Empty, Reconcile, Goto, Expired, Live, store, control
    <2>23. ASSUME NEW m \in Msgs, MarkSeen(m) PROVE DivertInv'
        BY <2>a, <2>23
        DEF TypeOK, DivertInv, MarkSeen, StartTimers, control, Expired, Live, store
    <2>24. CASE NoticeChat
        BY <2>a, <2>24
        DEF TypeOK, DivertInv, NoticeChat, StartTimers, control, Expired, Live,
            store
    <2>25. ASSUME NEW m \in Msgs, NEW d \in Durations \cup {0}, SetMessageTimer(m, d)
          PROVE  DivertInv'
        BY <2>a, <2>25
        DEF TypeOK, DivertInv, SetMessageTimer, control, Expired, Live, store
    <2>26. ASSUME NEW w \in Windows, SetPurgeDays(w) PROVE DivertInv'
        BY <2>a, <2>26
        DEF TypeOK, DivertInv, SetPurgeDays, AtLeastZero, store, control,
            Expired, Live
    <2>27. ASSUME NEW m \in Msgs, NEW d \in Durations \cup {0}, NEW isSeen \in BOOLEAN,
              NEW parked \in BOOLEAN, Receive(m, d, isSeen, parked)
          PROVE  DivertInv'
        BY <2>a, <2>27
        DEF TypeOK, DivertInv, Receive, control, Expired, Live, store
    <2>28. ASSUME NEW m \in Msgs, NEW apply \in BOOLEAN, SyncLabel(m, apply) PROVE DivertInv'
        BY <2>a, <2>28
        DEF TypeOK, DivertInv, SyncLabel, control, Expired, Live, store
    <2>29. CASE HousekeepingFails
        BY <2>a, <2>29
        DEF TypeOK, DivertInv, HousekeepingFails, Failing, Goto, Take, store,
            Expired, Live, control
    <2>30. CASE DivertFails
        BY <2>a, <2>30
        DEF TypeOK, DivertInv, DivertFails, Failing, Goto, Take, store, Expired,
            Live, control
    <2>31. CASE CoreSweepFails
        BY <2>a, <2>31
        DEF TypeOK, DivertInv, CoreSweepFails, Failing, Done, Goto, Take, store,
            Expired, Live, control
    <2>32. CASE CallFails
        BY <2>a, <2>32
        DEF TypeOK, DivertInv, CallFails, Failing, Done, Goto, Take, store,
            Expired, Live, control
    <2>33. CASE Crash
        BY <2>a, <2>33
        DEF TypeOK, DivertInv, Crash, Failing, store, Expired, Live, control
    <2> QED
        BY <1>2, <2>1, <2>2, <2>3, <2>4, <2>5, <2>6, <2>7, <2>8, <2>9, <2>10,
           <2>11, <2>12, <2>13, <2>14, <2>15, <2>16, <2>17, <2>18, <2>19, <2>20,
           <2>21, <2>22, <2>23, <2>24, <2>25, <2>26, <2>27, <2>28, <2>29, <2>30,
           <2>31, <2>32, <2>33
        DEF Next, HousekeepingStep, LoopStep, UserStep, UserCall, Network, Fault
<1> QED
    BY <1>1, <1>2

\* Every step keeps what reconcile has promised the purge: a row that it can select,
\* or has selected, is of a message that this pass has seen in the trash.
LEMMA PurgeNext == TypeOK /\ PurgeInv /\ [Next]_vars => PurgeInv'
<1> SUFFICES ASSUME TypeOK, PurgeInv, [Next]_vars PROVE PurgeInv'
    OBVIOUS
<1> USE DurationsAssumption, WindowsAssumption
<1>1. CASE UNCHANGED vars
    BY <1>1 DEF PurgeInv, vars, store, control, Expired, Live, Rows
<1>2. CASE Next
    <2>a. \A m \in Msgs : timer[m] \in Nat
        BY TimerIsNat
    <2>1. CASE Tick
        BY <2>a, <2>1
        DEF TypeOK, PurgeInv, Tick, Quiet, Rows, NoRow,
            store, control
    <2>2. CASE LabelsPrune
        BY <2>a, <2>2
        DEF TypeOK, PurgeInv, LabelsPrune, Goto, Live, Rows, NoRow,
            store, control
    <2>3. CASE PurgeReconcile
        BY <2>a, <2>3
        DEF TypeOK, PurgeInv, PurgeReconcile, Reconcile, Goto, Rows,
            NoRow, store, control
    <2>4. CASE PurgeSelect
        BY <2>a, <2>4
        DEF TypeOK, PurgeInv, PurgeSelect, Take, Goto, Rows, store,
            NoRow, control
    <2>5. CASE PurgePrune
        BY <2>a, <2>5
        DEF TypeOK, PurgeInv, PurgePrune, DeleteRows, Goto, Live, Rows,
            NoRow, store, control
    <2>6. ASSUME NEW t \in Tasks, NEW m \in Msgs, Destroy(t, m) PROVE PurgeInv'
        BY <2>a, <2>6
        DEF TypeOK, PurgeInv, Destroy, Tombstone, Live, Rows, NoRow,
            store, control
    <2>7. ASSUME NEW t \in Tasks, DestroyRows(t) PROVE PurgeInv'
        BY <2>a, <2>7
        DEF TypeOK, PurgeInv, DestroyRows, DeleteRows, Goto, Take, Done, Rows,
            NoRow, store, control
    <2>8. CASE StartEphemeralTimers
        BY <2>a, <2>8
        DEF TypeOK, PurgeInv, StartEphemeralTimers, Done, Goto, Take, Rows,
            NoRow, store, control
    <2>9. CASE DivertSelect
        BY <2>a, <2>9
        DEF TypeOK, PurgeInv, DivertSelect, Goto, Take, Expired, Live, store,
            Rows, NoRow, control
    <2>10. CASE DivertLabel
        BY <2>a, <2>10
        DEF TypeOK, PurgeInv, DivertLabel, Goto, Rows, NoRow,
            store, control
    <2>11. CASE DivertRow
        BY <2>a, <2>11
        DEF TypeOK, PurgeInv, DivertRow, InsertRows, AtOnce, Goto, Rows, NoRow,
            store, control
    <2>12. CASE DivertClear
        BY <2>a, <2>12
        DEF TypeOK, PurgeInv, DivertClear, Take, Goto, Rows, NoRow,
            store, control
    <2>13. CASE CoreSelect
        BY <2>a, <2>13
        DEF TypeOK, PurgeInv, CoreSelect, Take, Goto, Expired, Live, store,
            Rows, NoRow, control
    <2>14. CASE CoreDelete
        BY <2>a, <2>14
        DEF TypeOK, PurgeInv, CoreDelete, Tombstone, Done, Goto, Take, Live,
            Rows, NoRow, store, control
    <2>15. CASE TrashRow
        BY <2>a, <2>15
        DEF TypeOK, PurgeInv, TrashRow, InsertRows, AtOnce, Done, Goto, Take, Rows,
            NoRow, store, control
    <2>16. CASE RestoreRow
        BY <2>a, <2>16
        DEF TypeOK, PurgeInv, RestoreRow, DeleteRows, Done, Goto, Take, Rows,
            NoRow, store, control
    <2>17. CASE DestroyFilter
        BY <2>a, <2>17
        DEF TypeOK, PurgeInv, DestroyFilter, Take, Goto, Rows, store,
            NoRow, control
    <2>18. CASE EmptySelect
        BY <2>a, <2>18
        DEF TypeOK, PurgeInv, EmptySelect, Take, Goto, Live, store, Rows,
            NoRow, control
    <2>19. ASSUME NEW S \in SUBSET Live, TrashLabel(S) PROVE PurgeInv'
        BY <2>a, <2>19
        DEF TypeOK, PurgeInv, TrashLabel, Take, Goto, Live, Rows,
            NoRow, store, control
    <2>20. ASSUME NEW S \in SUBSET Live, RestoreLabel(S) PROVE PurgeInv'
        BY <2>a, <2>20
        DEF TypeOK, PurgeInv, RestoreLabel, Take, Goto, Live, Rows,
            NoRow, store, control
    <2>21. ASSUME NEW S \in SUBSET Live, DestroyNow(S) PROVE PurgeInv'
        BY <2>a, <2>21
        DEF TypeOK, PurgeInv, DestroyNow, Reconcile, Take, Goto, Live, Rows,
            NoRow, store, control
    <2>22. CASE Empty
        BY <2>a, <2>22
        DEF TypeOK, PurgeInv, Empty, Reconcile, Goto, Rows, NoRow,
            store, control
    <2>23. ASSUME NEW m \in Msgs, MarkSeen(m) PROVE PurgeInv'
        BY <2>a, <2>23
        DEF TypeOK, PurgeInv, MarkSeen, StartTimers, control, Rows,
            NoRow, store
    <2>24. CASE NoticeChat
        BY <2>a, <2>24
        DEF TypeOK, PurgeInv, NoticeChat, StartTimers, control, Rows,
            NoRow, store
    <2>25. ASSUME NEW m \in Msgs, NEW d \in Durations \cup {0}, SetMessageTimer(m, d)
          PROVE  PurgeInv'
        BY <2>a, <2>25
        DEF TypeOK, PurgeInv, SetMessageTimer, control, Rows, NoRow,
            store
    <2>26. ASSUME NEW w \in Windows, SetPurgeDays(w) PROVE PurgeInv'
        BY <2>a, <2>26
        DEF TypeOK, PurgeInv, SetPurgeDays, AtLeastZero, store, control, Rows,
            NoRow
    <2>27. ASSUME NEW m \in Msgs, NEW d \in Durations \cup {0}, NEW isSeen \in BOOLEAN,
              NEW parked \in BOOLEAN, Receive(m, d, isSeen, parked)
          PROVE  PurgeInv'
        BY <2>a, <2>27
        DEF TypeOK, PurgeInv, Receive, control, Rows, NoRow,
            store
    <2>28. ASSUME NEW m \in Msgs, NEW apply \in BOOLEAN, SyncLabel(m, apply) PROVE PurgeInv'
        BY <2>a, <2>28
        DEF TypeOK, PurgeInv, SyncLabel, control, Rows, NoRow,
            store
    <2>29. CASE HousekeepingFails
        BY <2>a, <2>29
        DEF TypeOK, PurgeInv, HousekeepingFails, Failing, Goto, Take, store,
            Rows, NoRow, control
    <2>30. CASE DivertFails
        BY <2>a, <2>30
        DEF TypeOK, PurgeInv, DivertFails, Failing, Goto, Take, store, Rows,
            NoRow, control
    <2>31. CASE CoreSweepFails
        BY <2>a, <2>31
        DEF TypeOK, PurgeInv, CoreSweepFails, Failing, Done, Goto, Take, store,
            Rows, NoRow, control
    <2>32. CASE CallFails
        BY <2>a, <2>32
        DEF TypeOK, PurgeInv, CallFails, Failing, Done, Goto, Take, store, Rows,
            NoRow, control
    <2>33. CASE Crash
        BY <2>a, <2>33
        DEF TypeOK, PurgeInv, Crash, Failing, store, Rows, NoRow,
            control
    <2> QED
        BY <1>2, <2>1, <2>2, <2>3, <2>4, <2>5, <2>6, <2>7, <2>8, <2>9, <2>10,
           <2>11, <2>12, <2>13, <2>14, <2>15, <2>16, <2>17, <2>18, <2>19, <2>20,
           <2>21, <2>22, <2>23, <2>24, <2>25, <2>26, <2>27, <2>28, <2>29, <2>30,
           <2>31, <2>32, <2>33
        DEF Next, HousekeepingStep, LoopStep, UserStep, UserCall, Network, Fault
<1> QED
    BY <1>1, <1>2

----------------------------------------------------------------------------
(***************************************************************************)
(* What the trash promises.                                                *)
(***************************************************************************)

\* The inductive invariant holds in every reachable state.
LEMMA Invariance == Spec => []IInv
<1>1. Init => IInv
    <2> SUFFICES ASSUME Init PROVE IInv
        OBVIOUS
    <2>1. TypeOK
        BY TypeInit
    <2>2. PurgeInv
        BY WindowsAssumption DEF Init, PurgeInv, AtLeastZero
    <2>3. DivertInv
        BY DEF Init, DivertInv
    <2> QED
        BY <2>1, <2>2, <2>3 DEF IInv
<1>2. IInv /\ [Next]_vars => IInv'
    BY TypeNext, PurgeNext, DivertNext DEF IInv
<1> QED
    BY <1>1, <1>2, PTL DEF Spec

\* Housekeeping destroys nothing that was not in the trash at some moment of
\* its own pass, however the user, sync and the ephemeral loop interleave with
\* it and whichever of its statements fail.
THEOREM PurgeOnlyFromTrashHolds == Spec => []PurgeOnlyFromTrash
<1>1. IInv => PurgeOnlyFromTrash
    BY DEF IInv, PurgeInv, PurgeOnlyFromTrash
<1> QED
    BY <1>1, Invariance, PTL

\* A fired timer is recoverable: divert leaves core's sweep nothing to delete,
\* unless the window is zero or divert failed.
THEOREM ExpiryIsRecoverableHolds == Spec => []ExpiryIsRecoverable
<1>1. IInv => ExpiryIsRecoverable
    BY DEF IInv, DivertInv, ExpiryIsRecoverable
<1> QED
    BY <1>1, Invariance, PTL

\* A deadline and its reason never change while the row is there: the three
\* ways to insert a row keep an existing one, and everything else deletes rows
\* or leaves them alone.
THEOREM CountdownNeverMovesHolds == Spec => CountdownNeverMoves
<1>1. ASSUME TypeOK, Next PROVE RowsKept
    <2>1. CASE UNCHANGED <<purge_at, reason>>
        BY <2>1 DEF RowsKept, Rows
    <2>2. CASE PurgeReconcile
        BY <1>1, <2>2 DEF TypeOK, RowsKept, Rows, PurgeReconcile, Reconcile
    <2>3. CASE PurgePrune
        BY <1>1, <2>3 DEF TypeOK, RowsKept, Rows, PurgePrune, DeleteRows
    <2>4. ASSUME NEW t \in Tasks, DestroyRows(t) PROVE RowsKept
        BY <1>1, <2>4 DEF TypeOK, RowsKept, Rows, DestroyRows, DeleteRows
    <2>5. CASE DivertRow
        BY <1>1, <2>5 DEF TypeOK, RowsKept, Rows, DivertRow, InsertRows
    <2>6. CASE TrashRow
        BY <1>1, <2>6 DEF TypeOK, RowsKept, Rows, TrashRow, InsertRows
    <2>7. CASE RestoreRow
        BY <1>1, <2>7 DEF TypeOK, RowsKept, Rows, RestoreRow, DeleteRows
    <2>8. ASSUME NEW S \in SUBSET Live, DestroyNow(S) PROVE RowsKept
        BY <1>1, <2>8 DEF TypeOK, RowsKept, Rows, DestroyNow, Reconcile
    <2>9. CASE Empty
        BY <1>1, <2>9 DEF TypeOK, RowsKept, Rows, Empty, Reconcile
    <2> QED
        BY <1>1, <2>1, <2>2, <2>3, <2>4, <2>5, <2>6, <2>7, <2>8, <2>9
        DEF Next, HousekeepingStep, LoopStep, UserStep, UserCall, Network, Fault,
            store, Tick, LabelsPrune, PurgeSelect, Destroy, StartEphemeralTimers,
            DivertSelect, DivertLabel, DivertClear, CoreSelect, CoreDelete,
            DestroyFilter, EmptySelect, TrashLabel, RestoreLabel, MarkSeen,
            NoticeChat, SetMessageTimer, SetPurgeDays, Receive, SyncLabel,
            HousekeepingFails, DivertFails, CoreSweepFails, CallFails, Crash
<1>2. TypeOK /\ [Next]_vars => [RowsKept]_vars
    BY <1>1
<1> QED
    BY <1>2, TypeCorrect, PTL DEF Spec, CountdownNeverMoves


----------------------------------------------------------------------------
(***************************************************************************)
(* Assignment: what each decision may do to the chats.                     *)
(***************************************************************************)

\* The states of a chat, and the kinds of chat a mail may be meant for.
BlockStates == {Absent, "not", "request", "yes"}
Kinds == {"Trash", "MailingListOrBroadcast", "GroupChat", "Existing", "AdHocGroup", "SingleChat"}

\* The types, as an invariant of their own.
AssignTypes ==
    /\ blocked \in [Chats -> BlockStates] /\ shut \in SUBSET Peers
    /\ \A h \in holds : h.chat \in Chats /\ h.enc \in BOOLEAN /\ Exists(h.chat)
    /\ holds \in SUBSET [chat : Chats, enc : BOOLEAN]
    /\ last.from \in Peers \cup {"self", "user"}
\* The inductive invariant: the types say that a chat with mail exists, which a reply
\* needs to find its parent.
AssignInv == AssignTypes /\ NoPlainInEncrypted

\* A result names a chat, the trash or nothing; it deletes no chat, and what it names exists.
Outcome(r) ==
    /\ r \in [chat : Chats \cup {Absent, Trash}, state : BlockStates, all : [Chats -> BlockStates]]
    /\ \A c \in Chats : blocked[c] # Absent => r.all[c] # Absent
    /\ r.chat \in Chats => r.all[r.chat] # Absent

\* A mail in clear comes to no encrypted chat.
InClear(m, r) == r.chat \in Chats /\ IsEncrypted(r.chat) => m.enc

\* What a mail of somebody else does to the chats: only one whose single chat is open opens
\* any; one who is blocked makes none appear; a blocked list is raised by a reply around it.
Incoming(m, r) ==
    /\ \A c \in Chats \ {"channel"} :
          ~Bot /\ blocked[c] # "not" /\ r.all[c] = "not" => blocked[Single(m)] = "not"
    /\ \A c \in Chats \ {"channel"} :
          Single(m) \in shut /\ blocked[Single(m)] = "yes" => r.all[c] \in {blocked[c], "yes"}
    /\ \A c \in {"list", "channel"} :
          blocked[c] = "yes" /\ r.all[c] \notin {"yes", Absent} => ~m.list /\ (m.many \/ m.grpid)

\* What the user's own mail does: it opens the chat it is in and no other.
Outgoing(r) == \A c \in Chats : r.all[c] = blocked[c] \/ (c = r.chat /\ r.all[c] # "yes")

\* What is decided about a mail that answers one in the chat p.
Assigned(m, p, a) ==
    /\ a.kind \in Kinds
    /\ a.kind = "MailingListOrBroadcast" <=> m.list /\ ~m.service
    /\ a.kind = "GroupChat" => m.enc
    /\ a.kind = "Existing" => /\ a.chat = p /\ p # Absent /\ (IsEncrypted(p) => m.enc) /\ ~m.list
                              /\ p \in {"list", "channel"} => m.many \/ m.grpid

----------------------------------------------------------------------------

\* The fields of a mail are truth values.
LEMMA MailTyped ==
    ASSUME NEW m \in AssignMails
    PROVE  /\ m.out \in BOOLEAN /\ m.enc \in BOOLEAN /\ m.list \in BOOLEAN /\ m.grpid \in BOOLEAN
           /\ m.many \in BOOLEAN /\ m.creatable \in BOOLEAN /\ m.service \in BOOLEAN
           /\ m.quits \in BOOLEAN /\ m.unmapped \in BOOLEAN /\ m.chatMail \in BOOLEAN
           /\ m.named \in BOOLEAN /\ m.pair \in BOOLEAN
BY AssignAssumption

\* The decision keeps to Assigned, also when a single chat turns out to lack a contact.
LEMMA Decided ==
    ASSUME NEW m \in AssignMails, NEW p \in Chats \cup {Absent}
    PROVE  Assigned(m, p, GetToAndPastContactIds(m, DecideChatAssignment(m, p)))
<1> DEFINE d == DecideChatAssignment(m, p)
<1>1. Assigned(m, p, d) /\ d \in [kind : Kinds, chat : Chats \cup {Absent}]
  BY MailTyped DEF Assigned, Kinds, DecideChatAssignment, LookupChatByReply, IsProbablyPrivateReply,
                   CanBeSingleChat, IsEncrypted, Peers, Absent, Chats
<1> SUFFICES Assigned(m, p, GetToAndPastContactIds(m, d)) OBVIOUS
<1> HIDE DEF d
<1>2. CASE m.unmapped /\ d.kind = "SingleChat"
  <2>1. GetToAndPastContactIds(m, d) = [d EXCEPT !.kind = "AdHocGroup"]
    BY <1>2 DEF GetToAndPastContactIds
  <2>2. [d EXCEPT !.kind = "AdHocGroup"].kind = "AdHocGroup"
    BY <1>1
  <2> QED BY <1>1, <1>2, <2>1, <2>2 DEF Assigned, Kinds
<1>3. CASE ~(m.unmapped /\ d.kind = "SingleChat")
  BY <1>1, <1>3 DEF GetToAndPastContactIds
<1> QED BY <1>2, <1>3

\* The shapes of results.
LEMMA Shapes ==
    ASSUME AssignTypes
    PROVE  /\ Nowhere.chat = Absent /\ Nowhere.all = blocked
           /\ Thrown.chat = Trash /\ Thrown.all = blocked
           /\ \A c : Found(c).chat = c /\ Found(c).state = blocked[c] /\ Found(c).all = blocked
           /\ \A c, t : /\ Created(c, t).chat = c /\ Created(c, t).state = t
                        /\ Created(c, t).all = [blocked EXCEPT ![c] = t]
BY Zenon DEF Nowhere, Thrown, Found, Created

\* The chats after a result, one by one.
Leaves(r) == \A c \in Chats : r.all[c] = blocked[c]
Sets(r, x, t) == \A c \in Chats : r.all[c] = IF c = x THEN t ELSE blocked[c]

\* A chat that is found is left as it is.
LEMMA FoundShape ==
    ASSUME AssignTypes, NEW c \in Chats, Exists(c)
    PROVE  Outcome(Found(c)) /\ Leaves(Found(c)) /\ Found(c).chat = c /\ Found(c).state = blocked[c]
<1>1. blocked \in [Chats -> BlockStates] /\ blocked[c] \in BlockStates BY DEF AssignTypes
<1>2. Found(c) \in [chat : Chats \cup {Absent, Trash}, state : BlockStates, all : [Chats -> BlockStates]]
  BY <1>1 DEF Found
<1> QED BY <1>2, Shapes DEF Outcome, Leaves, Exists

\* A chat that is made is the only one that changes.
LEMMA CreatedShape ==
    ASSUME AssignTypes, NEW c \in Chats, NEW t \in BlockStates \ {Absent}
    PROVE  /\ Outcome(Created(c, t)) /\ Sets(Created(c, t), c, t) /\ Created(c, t).chat = c
           /\ Created(c, t).state = t
<1>1. /\ Created(c, t).chat = c /\ Created(c, t).state = t
      /\ Created(c, t).all = [blocked EXCEPT ![c] = t]
  BY Shapes
<1>2. [blocked EXCEPT ![c] = t] \in [Chats -> BlockStates] /\ Sets(Created(c, t), c, t)
  BY <1>1 DEF AssignTypes, Sets
<1>3. Created(c, t) \in [chat : Chats \cup {Absent, Trash}, state : BlockStates,
                         all : [Chats -> BlockStates]]
  BY <1>2 DEF Created
<1> QED BY <1>1, <1>2, <1>3 DEF Outcome, Sets

\* Without a chat, and with the trash, nothing changes.
LEMMA NoChatShape ==
    ASSUME AssignTypes
    PROVE  /\ Outcome(Nowhere) /\ Leaves(Nowhere) /\ Nowhere.chat = Absent
           /\ Outcome(Thrown) /\ Leaves(Thrown) /\ Thrown.chat = Trash
<1>1. blocked \in [Chats -> BlockStates] /\ "not" \in BlockStates BY DEF AssignTypes, BlockStates
<1>2. /\ Nowhere \in [chat : Chats \cup {Absent, Trash}, state : BlockStates, all : [Chats -> BlockStates]]
      /\ Thrown \in [chat : Chats \cup {Absent, Trash}, state : BlockStates, all : [Chats -> BlockStates]]
  BY <1>1 DEF Nowhere, Thrown
<1>3. Absent \notin Chats /\ Trash \notin Chats BY DEF Chats, Peers, Absent, Trash
<1> QED BY <1>2, <1>3, Shapes DEF Outcome, Leaves

\* A new chat is open only if the single chat is, and blocked if its contact and single
\* chat are.
LEMMA CreateBlockedTyped ==
    ASSUME AssignTypes, NEW m \in AssignMails
    PROVE  /\ CreateBlocked(m) \in {"not", "request", "yes"} /\ Single(m) \in Peers
           /\ ~Bot /\ CreateBlocked(m) = "not" => blocked[Single(m)] = "not"
           /\ Single(m) \in shut /\ blocked[Single(m)] = "yes" => CreateBlocked(m) = "yes"
<1>1. Single(m) \in Peers /\ Single(m) \in Chats
  BY MailTyped DEF Single, Peers, Chats
<1> HIDE DEF Single
<1>2. blocked[Single(m)] \in BlockStates
  BY <1>1 DEF AssignTypes
<1>3. CASE blocked[Single(m)] = "not"
  <2>1. CreateBlocked(m) = "not" BY <1>3 DEF CreateBlocked
  <2> QED BY <1>1, <1>3, <2>1
<1>4. CASE blocked[Single(m)] = "yes" /\ Single(m) \in shut
  <2>1. CreateBlocked(m) = "yes" BY <1>4 DEF CreateBlocked
  <2> QED BY <1>1, <1>4, <2>1
<1>5. CASE blocked[Single(m)] # "not" /\ ~(blocked[Single(m)] = "yes" /\ Single(m) \in shut)
  <2>1. CreateBlocked(m) = IF Bot THEN "not" ELSE "request" BY <1>5 DEF CreateBlocked
  <2> QED BY <1>1, <1>5, <2>1
<1> QED BY <1>3, <1>4, <1>5

\* A result that found a chat, made one as a new chat is, or made a channel.
FoundOne(r) == Leaves(r) /\ (r.chat \in Chats => r.state = blocked[r.chat])
MadeOne(r, t) ==
    r.chat \in Chats /\ ~Exists(r.chat) /\ Sets(r, r.chat, t) /\ r.state = t /\ r.chat # "channel"
MadeChannel(r) == r.chat = "channel" /\ ~Exists("channel") /\ Sets(r, "channel", "not")
\* No mail in clear comes to an encrypted chat, apart from channels.
ClearOf(m, r) == r.chat \in Chats \ {"channel"} /\ IsEncrypted(r.chat) => m.enc

\* A mailing list or channel is found, or made; only a channel is made open.
LEMMA ListShape ==
    ASSUME AssignTypes, NEW m \in AssignMails, NEW t \in {"not", "request", "yes"}
    PROVE  LET r == CreateOrLookupMailinglist(m, t)
           IN  Outcome(r) /\ ClearOf(m, r) /\ (FoundOne(r) \/ MadeOne(r, t) \/ MadeChannel(r))
<1> DEFINE r == CreateOrLookupMailinglist(m, t)
<1>0. "list" \in Chats /\ "channel" \in Chats /\ t \in BlockStates \ {Absent} /\ "not" \in BlockStates \ {Absent}
      /\ Absent \notin Chats
  BY DEF Chats, Peers, BlockStates, Absent
<1>1. CASE Exists("list")
  <2>1. r = Found("list") BY <1>1 DEF CreateOrLookupMailinglist
  <2> HIDE DEF r
  <2> QED BY <1>0, <1>1, <2>1, FoundShape DEF FoundOne, ClearOf, IsEncrypted, r
<1>2. CASE ~Exists("list") /\ Exists("channel")
  <2>1. r = Found("channel") BY <1>2 DEF CreateOrLookupMailinglist
  <2> QED BY <1>0, <1>2, <2>1, FoundShape DEF FoundOne, ClearOf
<1>3. CASE ~Exists("list") /\ ~Exists("channel") /\ m.creatable /\ m.enc
  <2>1. r = [Created("channel", "not") EXCEPT !.state = t] BY <1>3 DEF CreateOrLookupMailinglist
  <2>2. Outcome(Created("channel", "not")) /\ Sets(Created("channel", "not"), "channel", "not")
        /\ Created("channel", "not").chat = "channel"
    BY <1>0, CreatedShape
  <2>3. r.chat = "channel" /\ r.all = Created("channel", "not").all
        /\ r \in [chat : Chats \cup {Absent, Trash}, state : BlockStates, all : [Chats -> BlockStates]]
    BY <1>0, <2>1, <2>2 DEF Outcome
  <2> QED BY <1>3, <2>2, <2>3 DEF Outcome, Sets, MadeChannel, ClearOf
<1>4. CASE ~Exists("list") /\ ~Exists("channel") /\ m.creatable /\ ~m.enc
  <2>1. r = Created("list", t) BY <1>4 DEF CreateOrLookupMailinglist
  <2> QED BY <1>0, <1>4, <2>1, CreatedShape DEF MadeOne, ClearOf, IsEncrypted
<1>5. CASE ~Exists("list") /\ ~Exists("channel") /\ ~m.creatable
  <2>1. r = Nowhere BY <1>5 DEF CreateOrLookupMailinglist
  <2> QED BY <1>0, <2>1, NoChatShape DEF FoundOne, ClearOf
<1> QED BY <1>1, <1>2, <1>3, <1>4, <1>5

\* A group without an id is found, made, or thrown away with a mail that leaves it.
LEMMA AdhocShape ==
    ASSUME AssignTypes, NEW m \in AssignMails, NEW t \in {"not", "request", "yes"}, NEW may
    PROVE  LET r == LookupOrCreateAdhocGroup(m, may, t)
           IN  /\ Outcome(r) /\ ClearOf(m, r) /\ r.chat # "channel" /\ (FoundOne(r) \/ MadeOne(r, t))
               /\ r.chat \in {"adhoc", Trash, Absent}
<1> DEFINE r == LookupOrCreateAdhocGroup(m, may, t)
<1>0. /\ "adhoc" \in Chats /\ t \in BlockStates \ {Absent} /\ Absent \notin Chats /\ Trash \notin Chats
      /\ Absent # "channel" /\ Trash # "channel"
  BY DEF Chats, Peers, BlockStates, Absent, Trash
<1>1. CASE Exists("adhoc")
  <2>1. r = Found("adhoc") BY <1>1 DEF LookupOrCreateAdhocGroup
  <2> QED BY <1>0, <1>1, <2>1, FoundShape DEF FoundOne, ClearOf, IsEncrypted
<1>2. CASE ~Exists("adhoc") /\ may /\ ~m.quits
  <2>1. r = Created("adhoc", t) BY <1>2 DEF LookupOrCreateAdhocGroup
  <2>2. Outcome(r) /\ Sets(r, "adhoc", t) /\ r.chat = "adhoc" /\ r.state = t
    BY <1>0, <2>1, CreatedShape
  <2>3. MadeOne(r, t) BY <1>0, <1>2, <2>2 DEF MadeOne
  <2> QED BY <2>2, <2>3 DEF ClearOf, IsEncrypted
<1>3. CASE ~Exists("adhoc") /\ may /\ m.quits
  <2>1. r = Thrown BY <1>3 DEF LookupOrCreateAdhocGroup
  <2> QED BY <1>0, <2>1, NoChatShape DEF FoundOne, ClearOf
<1>4. CASE ~Exists("adhoc") /\ ~may
  <2>1. r = Nowhere BY <1>4 DEF LookupOrCreateAdhocGroup
  <2> QED BY <1>0, <2>1, NoChatShape DEF FoundOne, ClearOf
<1> QED BY <1>1, <1>2, <1>3, <1>4

\* A group is found or made by encrypted mail alone.
LEMMA GroupShape ==
    ASSUME AssignTypes, NEW m \in AssignMails, m.enc, NEW t \in {"not", "request", "yes"}, NEW may
    PROVE  LET r == IF Exists("group") THEN Found("group")
                    ELSE IF may THEN CreateGroup(m, t) ELSE Nowhere
           IN  /\ Outcome(r) /\ ClearOf(m, r) /\ r.chat # "channel" /\ (FoundOne(r) \/ MadeOne(r, t))
               /\ r.chat \in {"group", Trash, Absent}
<1> DEFINE r == IF Exists("group") THEN Found("group")
                ELSE IF may THEN CreateGroup(m, t) ELSE Nowhere
<1>0. /\ "group" \in Chats /\ t \in BlockStates \ {Absent} /\ Absent \notin Chats /\ Trash \notin Chats
      /\ Absent # "channel" /\ Trash # "channel"
  BY DEF Chats, Peers, BlockStates, Absent, Trash
<1>1. CASE Exists("group")
  <2>1. r = Found("group") BY <1>1
  <2> QED BY <1>0, <1>1, <2>1, FoundShape DEF FoundOne, ClearOf
<1>2. CASE ~Exists("group") /\ may /\ ~m.quits
  <2>1. r = Created("group", t) BY <1>2 DEF CreateGroup
  <2> QED BY <1>0, <1>2, <2>1, CreatedShape DEF MadeOne, ClearOf
<1>3. CASE ~Exists("group") /\ (~may \/ m.quits)
  <2>1. r = Nowhere \/ r = Thrown BY <1>3 DEF CreateGroup
  <2> QED BY <1>0, <2>1, NoChatShape DEF FoundOne, ClearOf
<1> QED BY <1>1, <1>2, <1>3

----------------------------------------------------------------------------
(* A mail of somebody else. *)

\* What the first decision about a mail of somebody else does.
LEMMA IncomingShape ==
    ASSUME AssignTypes, NEW m \in AssignMails, NEW p \in Chats \cup {Absent}, NEW a, Assigned(m, p, a),
           p # Absent => Exists(p)
    PROVE  LET r == ByKindIncoming(m, a)
           IN  /\ Outcome(r) /\ ClearOf(m, r)
               /\ FoundOne(r) \/ MadeOne(r, CreateBlocked(m)) \/ MadeChannel(r)
               /\ a.kind = "Existing" /\ r.chat \in {"list", "channel"} => ~m.list /\ (m.many \/ m.grpid)
               /\ r.chat \in {"list", "channel"} => a.kind \in {"Existing", "MailingListOrBroadcast"}
<1> DEFINE r == ByKindIncoming(m, a)
           t == CreateBlocked(m)
           may == m.creatable \/ Exists(Single(m))
<1>0. /\ t \in {"not", "request", "yes"} /\ a.kind \in Kinds
      /\ Absent \notin Chats /\ Trash \notin Chats
      /\ Absent \notin {"list", "channel"} /\ Trash \notin {"list", "channel"}
  BY CreateBlockedTyped DEF Assigned, Chats, Peers, Absent, Trash
<1> HIDE DEF t, may
<1>1. CASE a.kind = "Trash"
  <2>1. r = Thrown BY <1>1 DEF ByKindIncoming
  <2> QED BY <1>0, <1>1, <2>1, NoChatShape DEF FoundOne, ClearOf
<1>2. CASE a.kind = "GroupChat"
  <2>1. r = IF Exists("group") THEN Found("group") ELSE IF may THEN CreateGroup(m, t) ELSE Nowhere
    BY <1>2 DEF ByKindIncoming, may, t
  <2>2. m.enc BY <1>2 DEF Assigned
  <2>3. /\ Outcome(r) /\ ClearOf(m, r) /\ (FoundOne(r) \/ MadeOne(r, t))
        /\ r.chat \in {"group", Trash, Absent}
    BY <1>0, <2>1, <2>2, GroupShape
  <2> QED BY <1>0, <1>2, <2>3 DEF t
<1>3. CASE a.kind = "MailingListOrBroadcast"
  <2>1. r = CreateOrLookupMailinglist(m, t) BY <1>3 DEF ByKindIncoming, t
  <2> QED BY <1>0, <1>3, <2>1, ListShape DEF t
<1>4. CASE a.kind = "Existing"
  <2>1. r = Found(a.chat) BY <1>4 DEF ByKindIncoming
  <2>2. a.chat = p /\ p \in Chats /\ Exists(p) BY <1>4 DEF Assigned
  <2>3. Outcome(r) /\ Leaves(r) /\ r.chat = p /\ r.state = blocked[p]
    BY <2>1, <2>2, FoundShape
  <2> QED BY <1>4, <2>2, <2>3 DEF FoundOne, ClearOf, Assigned
<1>5. CASE a.kind = "AdHocGroup"
  <2>1. r = LookupOrCreateAdhocGroup(m, may, t) BY <1>5 DEF ByKindIncoming, may, t
  <2>2. /\ Outcome(r) /\ ClearOf(m, r) /\ r.chat # "channel" /\ (FoundOne(r) \/ MadeOne(r, t))
        /\ r.chat \in {"adhoc", Trash, Absent}
    BY <1>0, <2>1, AdhocShape
  <2> QED BY <1>0, <1>5, <2>2 DEF t
<1>6. CASE a.kind = "SingleChat"
  <2>1. r = Nowhere BY <1>6 DEF ByKindIncoming
  <2> QED BY <1>0, <1>6, <2>1, NoChatShape DEF FoundOne, ClearOf
<1> QED BY <1>0, <1>1, <1>2, <1>3, <1>4, <1>5, <1>6 DEF Kinds

\* Setting the state of the chat of a result changes that chat and no other.
LEMMA RaisedShape ==
    ASSUME NEW r, Outcome(r), r.chat \in Chats, NEW t \in {"not", "request", "yes"}
    PROVE  LET s == [r EXCEPT !.state = t, !.all[r.chat] = t]
           IN  /\ Outcome(s) /\ s.chat = r.chat
               /\ \A c \in Chats : s.all[c] = IF c = r.chat THEN t ELSE r.all[c]
<1> DEFINE s == [r EXCEPT !.state = t, !.all[r.chat] = t]
<1>1. /\ r \in [chat : Chats \cup {Absent, Trash}, state : BlockStates, all : [Chats -> BlockStates]]
      /\ t \in BlockStates /\ t # Absent
  BY DEF Outcome, BlockStates, Absent
<1>x. ASSUME NEW x
      PROVE  [r EXCEPT !.state = t, !.all[x] = t]
             = [chat |-> r.chat, state |-> t, all |-> [r.all EXCEPT ![x] = t]]
  <2> DEFINE u == [r EXCEPT !.state = t]
  <2>1. u = [chat |-> r.chat, state |-> t, all |-> r.all] BY <1>1
  <2>2. u.chat = r.chat /\ u.state = t /\ u.all = r.all BY <2>1
  <2>3. [r EXCEPT !.state = t, !.all[x] = t] = [u EXCEPT !.all = [u.all EXCEPT ![x] = t]] BY <1>1
  <2> HIDE DEF u
  <2> QED BY <2>1, <2>2, <2>3
<1>2. s = [chat |-> r.chat, state |-> t, all |-> [r.all EXCEPT ![r.chat] = t]]
  BY <1>x, Zenon
<1> HIDE DEF s
<1>3. s.chat = r.chat /\ s.all = [r.all EXCEPT ![r.chat] = t]
      /\ s \in [chat : Chats \cup {Absent, Trash}, state : BlockStates, all : [Chats -> BlockStates]]
  BY <1>1, <1>2
<1>4. \A c \in Chats : s.all[c] = IF c = r.chat THEN t ELSE r.all[c]
  BY <1>1, <1>3
<1>5. Outcome(s)
  BY <1>1, <1>3, <1>4 DEF Outcome
<1> QED BY <1>3, <1>4, <1>5 DEF s

\* Raising a blocked chat keeps to what a mail of somebody else may do.
LEMMA UnblockedShape ==
    ASSUME AssignTypes, NEW m \in AssignMails, NEW p \in Chats \cup {Absent}, NEW a, Assigned(m, p, a),
           p # Absent => Exists(p)
    PROVE  LET r == UnblockFound(m, a, ByKindIncoming(m, a))
           IN  Outcome(r) /\ ClearOf(m, r) /\ Incoming(m, r)
<1> DEFINE q == ByKindIncoming(m, a)
           r == UnblockFound(m, a, q)
           t == CreateBlocked(m)
<1>1. /\ Outcome(q) /\ ClearOf(m, q) /\ (FoundOne(q) \/ MadeOne(q, t) \/ MadeChannel(q))
      /\ a.kind = "Existing" /\ q.chat \in {"list", "channel"} => ~m.list /\ (m.many \/ m.grpid)
      /\ q.chat \in {"list", "channel"} => a.kind \in {"Existing", "MailingListOrBroadcast"}
  BY IncomingShape
<1>2. /\ t \in {"not", "request", "yes"} /\ Single(m) \in Peers
      /\ ~Bot /\ t = "not" => blocked[Single(m)] = "not"
      /\ Single(m) \in shut /\ blocked[Single(m)] = "yes" => t = "yes"
  BY CreateBlockedTyped
<1>t. "yes" # Absent /\ "not" # Absent BY DEF Absent
<1> HIDE DEF q
<1>3. Incoming(m, q)
  <2> HIDE DEF t
  <2>1. CASE FoundOne(q) BY <2>1 DEF FoundOne, Leaves, Incoming, Chats
  <2>2. CASE MadeOne(q, t)
    <3>1. \A c \in Chats : q.all[c] = blocked[c] \/ (c # "channel" /\ q.all[c] = t /\ blocked[c] = Absent)
      BY <2>2 DEF MadeOne, Sets, Exists
    <3> QED BY <1>2, <1>t, <3>1 DEF Incoming, Chats
  <2>3. CASE MadeChannel(q)
    <3>1. \A c \in Chats : q.all[c] = blocked[c] \/ (c = "channel" /\ blocked[c] = Absent)
      BY <2>3 DEF MadeChannel, Sets, Exists
    <3> QED BY <1>t, <3>1 DEF Incoming, Chats
  <2> QED BY <1>1, <2>1, <2>2, <2>3
<1>4. CASE q.chat \in Chats /\ q.state # "not" /\ t # "yes" /\ a.kind # "MailingListOrBroadcast"
  <2>1. r = [q EXCEPT !.state = t, !.all[q.chat] = t]
    BY <1>4 DEF UnblockFound
  <2> HIDE DEF t, r
  <2>2. /\ Outcome(r) /\ r.chat = q.chat
        /\ \A c \in Chats : r.all[c] = IF c = q.chat THEN t ELSE q.all[c]
    <3>1. Outcome(q) /\ q.chat \in Chats /\ t \in {"not", "request", "yes"} BY <1>1, <1>2, <1>4
    <3> QED BY <2>1, <3>1, RaisedShape
  <2>3. Incoming(m, r)
    BY <1>1, <1>2, <1>3, <1>4, <2>2 DEF Incoming, Chats
  <2>4. ClearOf(m, r)
    BY <1>1, <2>2 DEF ClearOf
  <2> QED BY <2>2, <2>3, <2>4 DEF r, q
<1>5. CASE ~(q.chat \in Chats /\ q.state # "not" /\ t # "yes" /\ a.kind # "MailingListOrBroadcast")
  <2>1. r = q BY <1>5 DEF UnblockFound
  <2> QED BY <1>1, <1>3, <2>1 DEF q
<1> QED BY <1>4, <1>5

\* So does falling back to the single chat.
LEMMA SingleShape ==
    ASSUME AssignTypes, NEW m \in AssignMails
    PROVE  LET r == ToSingleChat(m)
           IN  Outcome(r) /\ ClearOf(m, r) /\ Incoming(m, r) /\ r.chat # Absent
<1> DEFINE r == ToSingleChat(m)
           t == IF Single(m) \in shut THEN "yes" ELSE IF Bot THEN "not" ELSE "request"
<1>1. /\ Single(m) \in Peers /\ Single(m) \in Chats /\ Single(m) \notin {"list", "channel"}
      /\ Single(m) = "key" => m.enc
      /\ t \in BlockStates \ {Absent} /\ Single(m) # Absent /\ Trash # Absent /\ Trash \notin Chats
  BY MailTyped DEF Single, Peers, Chats, BlockStates, Absent, Trash
<1>2. /\ ~Bot => t # "not"
      /\ Single(m) \in shut => t = "yes"
  OBVIOUS
<1>3. IsEncrypted(Single(m)) => m.enc BY <1>1 DEF IsEncrypted, Peers
<1>4. CASE blocked[Single(m)] = "not"
  <2>1. r = Found(Single(m)) BY <1>4 DEF ToSingleChat
  <2>2. Outcome(r) /\ Leaves(r) /\ r.chat = Single(m)
    BY <1>1, <1>4, <2>1, FoundShape DEF Exists, Absent
  <2> HIDE DEF r, t, Single
  <2> QED BY <1>1, <1>3, <2>2 DEF Incoming, ClearOf, Leaves, Chats, r
<1>5. CASE blocked[Single(m)] # "not" /\ (Exists(Single(m)) \/ m.creatable)
  <2>1. r = Created(Single(m), t) BY <1>5 DEF ToSingleChat
  <2> HIDE DEF r, t, Single
  <2>2. Outcome(r) /\ Sets(r, Single(m), t) /\ r.chat = Single(m) BY <1>1, <2>1, CreatedShape
  <2>3. Incoming(m, r)
    BY <1>1, <1>2, <2>2 DEF Incoming, Sets, Chats
  <2>4. ClearOf(m, r) /\ r.chat # Absent
    BY <1>1, <1>3, <2>2 DEF ClearOf
  <2> QED BY <2>2, <2>3, <2>4 DEF r
<1>6. CASE blocked[Single(m)] # "not" /\ ~(Exists(Single(m)) \/ m.creatable)
  <2>1. r = Thrown BY <1>6 DEF ToSingleChat
  <2>2. Outcome(r) /\ Leaves(r) /\ r.chat = Trash BY <2>1, NoChatShape
  <2> HIDE DEF r, t, Single
  <2> QED BY <1>1, <2>2 DEF Incoming, ClearOf, Leaves, Chats, r
<1> QED BY <1>4, <1>5, <1>6

\* The chat of a mail of somebody else, to the end of add_parts.
LEMMA IncomingDone ==
    ASSUME AssignTypes, NEW m \in AssignMails, ~m.out, NEW p \in Chats \cup {Absent}, NEW a,
           Assigned(m, p, a), p # Absent => Exists(p)
    PROVE  LET r == AddParts(m, AssignIncoming(m, a))
           IN  Outcome(r) /\ InClear(m, r) /\ Incoming(m, r) /\ r.chat # Absent
<1> DEFINE q == AssignIncoming(m, a)
           u == UnblockFound(m, a, ByKindIncoming(m, a))
           r == AddParts(m, q)
<1>1. Outcome(q) /\ ClearOf(m, q) /\ Incoming(m, q) /\ q.chat # Absent
  <2>1. Outcome(u) /\ ClearOf(m, u) /\ Incoming(m, u) BY UnblockedShape
  <2>2. q = IF u.chat = Absent THEN ToSingleChat(m) ELSE u BY DEF AssignIncoming
  <2> HIDE DEF u, q
  <2>3. CASE u.chat = Absent BY <2>2, <2>3, SingleShape
  <2>4. CASE u.chat # Absent BY <2>1, <2>2, <2>4
  <2> QED BY <2>3, <2>4
<1> HIDE DEF q
<1>2. /\ "addr" \in Chats /\ ~IsEncrypted("addr") /\ "addr" # Absent /\ "channel" \in Chats
      /\ "request" \in BlockStates /\ "request" # Absent
  BY DEF Chats, Peers, IsEncrypted, Absent, BlockStates
<1>3. CASE q.chat = "channel" /\ ~m.enc /\ q.all["addr"] # Absent
  <2>1. r = [q EXCEPT !.chat = "addr"] BY <1>3 DEF AddParts
  <2>2. r = [chat |-> "addr", state |-> q.state, all |-> q.all] BY <1>1, <2>1 DEF Outcome
  <2> HIDE DEF r
  <2>3. r.chat = "addr" /\ r.all = q.all
        /\ r \in [chat : Chats \cup {Absent, Trash}, state : BlockStates, all : [Chats -> BlockStates]]
    BY <1>1, <1>2, <2>2 DEF Outcome
  <2>4. Outcome(r) BY <1>1, <1>3, <2>3 DEF Outcome
  <2>5. Incoming(m, r) BY <1>1, <2>3 DEF Incoming
  <2> QED BY <1>2, <2>3, <2>4, <2>5 DEF InClear, r, q
<1>4. CASE q.chat = "channel" /\ ~m.enc /\ q.all["addr"] = Absent
  <2>1. r = [q EXCEPT !.chat = "addr", !.all["addr"] = "request"] BY <1>4 DEF AddParts
  <2>2. r = [chat |-> "addr", state |-> q.state, all |-> [q.all EXCEPT !["addr"] = "request"]]
    BY <1>1, <2>1 DEF Outcome
  <2> HIDE DEF r
  <2>3. r.chat = "addr" /\ r.all = [q.all EXCEPT !["addr"] = "request"]
        /\ r \in [chat : Chats \cup {Absent, Trash}, state : BlockStates, all : [Chats -> BlockStates]]
    BY <1>1, <1>2, <2>2 DEF Outcome
  <2>4. \A c \in Chats : r.all[c] = IF c = "addr" THEN "request" ELSE q.all[c]
    BY <1>1, <2>3 DEF Outcome
  <2>5. Outcome(r) BY <1>1, <1>2, <2>3, <2>4 DEF Outcome
  <2>6. Single(m) = "addr" /\ blocked["addr"] = Absent
    BY <1>1, <1>2, <1>4 DEF Single, Outcome
  <2>7. Incoming(m, r) BY <1>1, <2>4, <2>6 DEF Incoming, Absent, Chats
  <2> QED BY <1>2, <2>3, <2>5, <2>7 DEF InClear, r, q
<1>5. CASE ~(q.chat = "channel" /\ ~m.enc)
  <2>1. r = q BY <1>5 DEF AddParts
  <2> QED BY <1>1, <1>5, <2>1, MailTyped DEF InClear, ClearOf, q
<1> QED BY <1>3, <1>4, <1>5

----------------------------------------------------------------------------
(* The user's own mail. *)

\* What the first decision about the user's own mail does.
LEMMA OutgoingShape ==
    ASSUME AssignTypes, NEW m \in AssignMails, NEW p \in Chats \cup {Absent}, NEW a, Assigned(m, p, a),
           p # Absent => Exists(p)
    PROVE  LET r == ByKindOutgoing(m, a) IN Outcome(r) /\ InClear(m, r) /\ Outgoing(r)
<1> DEFINE r == ByKindOutgoing(m, a)
<1>0. /\ "not" \in {"not", "request", "yes"} /\ a.kind \in Kinds /\ "list" \in Chats /\ ~IsEncrypted("list")
      /\ Absent \notin Chats /\ Trash \notin Chats /\ "not" # "yes" /\ "not" \in BlockStates
  BY DEF Assigned, Chats, Peers, Absent, Trash, BlockStates, IsEncrypted
<1>1. CASE a.kind = "Trash"
  <2>1. r = Thrown BY <1>1 DEF ByKindOutgoing
  <2> QED BY <1>0, <2>1, NoChatShape DEF Leaves, InClear, Outgoing
<1>2. CASE a.kind = "GroupChat"
  <2>1. r = IF Exists("group") THEN Found("group") ELSE IF m.creatable THEN CreateGroup(m, "not") ELSE Nowhere
    BY <1>2 DEF ByKindOutgoing
  <2>2. m.enc BY <1>2 DEF Assigned
  <2>3. Outcome(r) /\ (FoundOne(r) \/ MadeOne(r, "not"))
    BY <1>0, <2>1, <2>2, GroupShape
  <2> HIDE DEF r
  <2> QED BY <1>0, <2>2, <2>3 DEF InClear, Outgoing, FoundOne, MadeOne, Leaves, Sets, r
<1>3. CASE a.kind = "MailingListOrBroadcast" /\ Exists("list")
  <2>1. r = [Found("list") EXCEPT !.state = "not"] BY <1>3 DEF ByKindOutgoing
  <2>2. r = [chat |-> "list", state |-> "not", all |-> blocked] BY <2>1 DEF Found
  <2> HIDE DEF r
  <2>3. r.chat = "list" /\ r.all = blocked
        /\ r \in [chat : Chats \cup {Absent, Trash}, state : BlockStates, all : [Chats -> BlockStates]]
    BY <1>0, <2>2 DEF AssignTypes
  <2> QED BY <1>0, <1>3, <2>3 DEF Outcome, InClear, Outgoing, Exists, r
<1>4. CASE a.kind = "MailingListOrBroadcast" /\ ~Exists("list")
  <2>1. r = Nowhere BY <1>4 DEF ByKindOutgoing
  <2> QED BY <1>0, <2>1, NoChatShape DEF Leaves, InClear, Outgoing
<1>5. CASE a.kind = "Existing"
  <2>1. r = Found(a.chat) BY <1>5 DEF ByKindOutgoing
  <2>2. a.chat = p /\ p \in Chats /\ Exists(p) /\ (IsEncrypted(p) => m.enc) BY <1>5 DEF Assigned
  <2>3. Outcome(r) /\ Leaves(r) /\ r.chat = p
    BY <2>1, <2>2, FoundShape
  <2> QED BY <2>2, <2>3 DEF Leaves, InClear, Outgoing
<1>6. CASE a.kind = "AdHocGroup"
  <2>1. r = LookupOrCreateAdhocGroup(m, m.creatable, "not") BY <1>6 DEF ByKindOutgoing
  <2>2. /\ Outcome(r) /\ ClearOf(m, r) /\ r.chat # "channel" /\ (FoundOne(r) \/ MadeOne(r, "not"))
    BY <1>0, <2>1, AdhocShape
  <2> HIDE DEF r
  <2> QED BY <1>0, <2>2 DEF InClear, ClearOf, Outgoing, FoundOne, MadeOne, Leaves, Sets, r
<1>7. CASE a.kind = "SingleChat"
  <2>1. r = Nowhere BY <1>7 DEF ByKindOutgoing
  <2> QED BY <1>0, <2>1, NoChatShape DEF Leaves, InClear, Outgoing
<1> QED BY <1>0, <1>1, <1>2, <1>3, <1>4, <1>5, <1>6, <1>7 DEF Kinds

\* The chat of the user's own mail, to the end of add_parts.
LEMMA OutgoingDone ==
    ASSUME AssignTypes, NEW m \in AssignMails, m.out, NEW p \in Chats \cup {Absent}, NEW a,
           Assigned(m, p, a), p # Absent => Exists(p)
    PROVE  LET r == AddParts(m, AssignOutgoing(m, a))
           IN  Outcome(r) /\ InClear(m, r) /\ Outgoing(r) /\ r.chat # Absent
<1> DEFINE q == ByKindOutgoing(m, a)
           s == IF q.chat # Absent THEN q
                ELSE IF Exists(Single(m)) /\ (m.creatable \/ m.chatMail) THEN Found(Single(m))
                ELSE IF m.creatable THEN Created(Single(m), "not") ELSE Thrown
           r == AddParts(m, AssignOutgoing(m, a))
<1>1. Outcome(q) /\ InClear(m, q) /\ Outgoing(q) BY OutgoingShape
<1>2. r = IF s.chat \in Chats /\ s.state # "not"
          THEN [s EXCEPT !.state = "not", !.all[s.chat] = "not"] ELSE s
  BY DEF AddParts, AssignOutgoing
<1> HIDE DEF q
<1>3. Outcome(s) /\ InClear(m, s) /\ Outgoing(s) /\ s.chat # Absent
  <2>0. /\ Single(m) \in Chats /\ Single(m) # Absent /\ Trash # Absent /\ Trash \notin Chats
        /\ "not" \in BlockStates \ {Absent} /\ "not" # "yes"
        /\ IsEncrypted(Single(m)) => m.enc
    BY MailTyped DEF Single, Peers, Chats, Absent, Trash, BlockStates, IsEncrypted
  <2> HIDE DEF Single
  <2>1. CASE q.chat # Absent BY <1>1, <2>1
  <2>2. CASE q.chat = Absent /\ Exists(Single(m)) /\ (m.creatable \/ m.chatMail)
    <3>1. s = Found(Single(m)) BY <2>2
    <3> HIDE DEF s
    <3> QED BY <2>0, <2>2, <3>1, FoundShape DEF Leaves, InClear, Outgoing
  <2>3. CASE q.chat = Absent /\ ~(Exists(Single(m)) /\ (m.creatable \/ m.chatMail)) /\ m.creatable
    <3>1. s = Created(Single(m), "not") BY <2>3
    <3> HIDE DEF s
    <3> QED BY <2>0, <3>1, CreatedShape DEF Sets, InClear, Outgoing
  <2>4. CASE q.chat = Absent /\ ~(Exists(Single(m)) /\ (m.creatable \/ m.chatMail)) /\ ~m.creatable
    <3>1. s = Thrown BY <2>4
    <3> HIDE DEF s
    <3> QED BY <2>0, <3>1, NoChatShape DEF Leaves, InClear, Outgoing
  <2> QED BY <2>1, <2>2, <2>3, <2>4
<1> HIDE DEF s
<1>4. CASE s.chat \in Chats /\ s.state # "not"
  <2>1. r = [s EXCEPT !.state = "not", !.all[s.chat] = "not"] BY <1>2, <1>4
  <2> HIDE DEF r
  <2>2. /\ Outcome(r) /\ r.chat = s.chat
        /\ \A c \in Chats : r.all[c] = IF c = s.chat THEN "not" ELSE s.all[c]
    BY <1>3, <1>4, <2>1, RaisedShape
  <2> QED BY <1>3, <2>2 DEF InClear, Outgoing, r
<1>5. CASE ~(s.chat \in Chats /\ s.state # "not")
  BY <1>2, <1>3, <1>5
<1> QED BY <1>4, <1>5

----------------------------------------------------------------------------
(* Steps. *)

\* The first state.
LEMMA AssignStarts == AssignInit => AssignInv
<1> SUFFICES ASSUME AssignInit PROVE AssignInv OBVIOUS
<1>1. Absent \in BlockStates BY DEF BlockStates
<1>2. blocked \in [Chats -> BlockStates] /\ shut \in SUBSET Peers BY <1>1 DEF AssignInit
<1> QED BY <1>2 DEF AssignInit, AssignInv, AssignTypes, NoPlainInEncrypted

\* What a step may do to the chats, as the three action properties say it.
AssignStep ==
    /\ Bot \/ \A c \in Chats \ {"channel"} : (blocked[c] # "not" /\ blocked'[c] = "not")
          => \/ last'.from \in {"user", "self"} /\ last'.chat = c
             \/ last'.from \in Peers /\ blocked[last'.from] = "not"
    /\ \A c \in Chats \ {"channel"} :
         (last'.from \in shut /\ blocked[last'.from] = "yes") => blocked'[c] \in {blocked[c], "yes"}
    /\ \A c \in {"list", "channel"} : (blocked[c] = "yes" /\ blocked'[c] \notin {"yes", Absent})
         => (last'.from \in {"user", "self"} \/ (~last'.list /\ last'.wide))

\* Receiving: the chats are those of the result, and the mail is in the chat it names.
Received(m, r) ==
    /\ blocked' = r.all /\ UNCHANGED shut
    /\ holds' = IF r.chat = Trash THEN holds ELSE holds \cup {[chat |-> r.chat, enc |-> m.enc]}
    /\ last' = [from |-> IF m.out THEN "self" ELSE Single(m), list |-> m.list,
                wide |-> m.many \/ m.grpid, chat |-> r.chat]

\* A mail in the chat of its result keeps the invariant.
LEMMA ReceivedInv ==
    ASSUME AssignInv, NEW m \in AssignMails, NEW r, Received(m, r),
           Outcome(r), InClear(m, r), r.chat # Absent
    PROVE  AssignInv'
<1>1. /\ blocked' \in [Chats -> BlockStates] /\ shut' \in SUBSET Peers
      /\ \A c \in Chats : blocked[c] # Absent => blocked'[c] # Absent
      /\ r.chat \in Chats => blocked'[r.chat] # Absent
  BY DEF AssignInv, AssignTypes, Received, Outcome
<1>2. last'.from \in Peers \cup {"self", "user"}
  <2>1. Single(m) \in Peers BY DEF Single, Peers
  <2> QED BY <2>1 DEF Received
<1>3. m.enc \in BOOLEAN BY MailTyped
<1>4. r.chat \in Chats \/ r.chat = Trash
  BY DEF Outcome
<1>5. CASE r.chat = Trash
  <2>1. holds' = holds BY <1>5 DEF Received
  <2> QED BY <1>1, <1>2, <2>1 DEF AssignInv, AssignTypes, NoPlainInEncrypted, Exists, IsEncrypted
<1>6. CASE r.chat # Trash
  <2> DEFINE h == [chat |-> r.chat, enc |-> m.enc]
  <2>1. holds' = holds \cup {h} BY <1>6 DEF Received
  <2>2. h.chat = r.chat /\ h.enc = m.enc /\ h \in [chat : Chats, enc : BOOLEAN]
    BY <1>3, <1>4, <1>6
  <2> HIDE DEF h
  <2>3. \A x \in holds' : x.chat \in Chats /\ x.enc \in BOOLEAN /\ blocked'[x.chat] # Absent
    BY <1>1, <1>3, <1>4, <1>6, <2>1, <2>2 DEF AssignInv, AssignTypes, Exists
  <2>4. holds' \in SUBSET [chat : Chats, enc : BOOLEAN]
    BY <2>1, <2>2 DEF AssignInv, AssignTypes
  <2>5. \A x \in holds' : IsEncrypted(x.chat) => x.enc
    BY <1>4, <1>6, <2>1, <2>2 DEF AssignInv, NoPlainInEncrypted, InClear
  <2>6. AssignTypes' BY <1>1, <1>2, <2>3, <2>4 DEF AssignTypes, Exists
  <2>7. NoPlainInEncrypted' BY <2>5 DEF NoPlainInEncrypted, IsEncrypted
  <2> QED BY <2>6, <2>7 DEF AssignInv
<1> QED BY <1>5, <1>6

\* A mail does to the chats what the action properties allow.
LEMMA ReceivedStep ==
    ASSUME AssignInv, NEW m \in AssignMails, NEW r, Received(m, r),
           m.out => Outgoing(r), ~m.out => Incoming(m, r)
    PROVE  AssignStep
<1>1. CASE m.out
  <2>1. last'.from = "self" /\ last'.chat = r.chat /\ "self" \notin Peers
    BY <1>1 DEF Received, Peers
  <2>2. \A c \in Chats : blocked'[c] = blocked[c] \/ c = r.chat
    BY <1>1 DEF Received, Outgoing
  <2>3. "self" \notin shut BY <2>1 DEF AssignInv, AssignTypes
  <2> QED BY <2>1, <2>2, <2>3 DEF AssignStep
<1>2. CASE ~m.out
  <2>1. last'.from = Single(m) /\ last'.list = m.list /\ last'.wide = (m.many \/ m.grpid)
    BY <1>2 DEF Received
  <2>2. blocked' = r.all BY DEF Received
  <2>3. Single(m) \in Peers BY DEF Single, Peers
  <2> HIDE DEF Single
  <2> QED BY <1>2, <2>1, <2>2, <2>3 DEF Incoming, AssignStep
<1> QED BY <1>1, <1>2, MailTyped

\* Both hold of ReceiveMail.
LEMMA ReceiveMailStep ==
    ASSUME AssignInv, NEW m \in AssignMails, NEW p \in Parents, ReceiveMail(m, p)
    PROVE  AssignInv' /\ AssignStep
<1> DEFINE a == GetToAndPastContactIds(m, DecideChatAssignment(m, p))
           r == AddParts(m, IF m.out THEN AssignOutgoing(m, a) ELSE AssignIncoming(m, a))
<1>1. Received(m, r) BY DEF ReceiveMail, Received
<1>2. p \in Chats \cup {Absent} /\ (p # Absent => Exists(p))
  BY DEF Parents, AssignInv, AssignTypes
<1>3. Assigned(m, p, a) BY <1>2, Decided
<1>4. AssignTypes BY DEF AssignInv
<1> HIDE DEF a
<1>5. CASE m.out
  <2>1. r = AddParts(m, AssignOutgoing(m, a)) BY <1>5
  <2> HIDE DEF r
  <2>2. Outcome(r) /\ InClear(m, r) /\ Outgoing(r) /\ r.chat # Absent
    BY <1>2, <1>3, <1>4, <1>5, <2>1, OutgoingDone
  <2> QED BY <1>1, <1>5, <2>2, ReceivedInv, ReceivedStep
<1>6. CASE ~m.out
  <2>1. r = AddParts(m, AssignIncoming(m, a)) BY <1>6
  <2> HIDE DEF r
  <2>2. Outcome(r) /\ InClear(m, r) /\ Incoming(m, r) /\ r.chat # Absent
    BY <1>2, <1>3, <1>4, <1>6, <2>1, IncomingDone
  <2> QED BY <1>1, <1>6, <2>2, ReceivedInv, ReceivedStep
<1> QED BY <1>5, <1>6

\* The user changes one chat, deletes it with its mail or leaves it, and blocks contacts.
Changed(x, t) ==
    /\ last'.from = "user" /\ last'.chat = x /\ shut' \in SUBSET Peers
    /\ \A c \in Chats : blocked'[c] = IF c = x THEN t ELSE blocked[c]
    /\ blocked' \in [Chats -> BlockStates]
    /\ holds' \in SUBSET holds
    /\ t = Absent => \A h \in holds' : h.chat # x

\* A change of one chat by the user keeps the invariant and the action properties.
LEMMA ChangedStep ==
    ASSUME AssignInv, NEW x \in Chats, NEW t \in BlockStates, Changed(x, t)
    PROVE  AssignInv' /\ AssignStep
<1>1. "user" \notin shut BY DEF AssignInv, AssignTypes, Peers
<1>2. \A h \in holds' : h \in holds BY DEF Changed
<1>3. \A h \in holds' : h.chat \in Chats /\ h.enc \in BOOLEAN /\ blocked'[h.chat] # Absent
  BY <1>2 DEF Changed, AssignInv, AssignTypes, Exists
<1>4. AssignTypes' BY <1>2, <1>3 DEF Changed, AssignInv, AssignTypes, Exists
<1>5. NoPlainInEncrypted' BY <1>2 DEF AssignInv, NoPlainInEncrypted, IsEncrypted
<1>6. AssignStep BY <1>1 DEF Changed, AssignStep
<1> QED BY <1>4, <1>5, <1>6 DEF AssignInv

\* Each act of the user is such a change.
LEMMA UserKeeps ==
    ASSUME AssignInv, NEW x \in Chats,
           \/ x \in Peers /\ (SetContactBlocked(x, FALSE) \/ CreateForContact(x))
           \/ AcceptChat(x) \/ BlockChat(x) \/ DeleteChat(x)
           \/ x = "key" /\ ScanInvite
    PROVE  AssignInv' /\ AssignStep
<1>1. /\ blocked \in [Chats -> BlockStates] /\ shut \in SUBSET Peers /\ blocked[x] \in BlockStates
      /\ Absent \in BlockStates /\ "not" \in BlockStates /\ "yes" \in BlockStates
      /\ "not" # Absent /\ "yes" # Absent
  BY DEF AssignInv, AssignTypes, BlockStates, Absent
<1>u. ASSUME UserAct(x) PROVE last'.from = "user" /\ last'.chat = x
  BY <1>u DEF UserAct
<1>s. \A t \in BlockStates : /\ [blocked EXCEPT ![x] = t] \in [Chats -> BlockStates]
                             /\ \A c \in Chats : [blocked EXCEPT ![x] = t][c] = IF c = x THEN t ELSE blocked[c]
  BY <1>1
<1>b. ASSUME x \in Peers, NEW new \in BOOLEAN, SetContactBlocked(x, new)
      PROVE  \E t \in BlockStates : Changed(x, t)
  <2>1. CASE Exists(x)
    <3> DEFINE t == IF new THEN "yes" ELSE "not"
    <3>1. t \in BlockStates /\ t # Absent BY <1>1
    <3>2. blocked' = [blocked EXCEPT ![x] = t] BY <1>b, <2>1 DEF SetContactBlocked
    <3>3. shut' \in SUBSET Peers /\ holds' = holds BY <1>1, <1>b DEF SetContactBlocked
    <3>4. last'.from = "user" /\ last'.chat = x BY <1>u, <1>b DEF SetContactBlocked
    <3> HIDE DEF t
    <3> QED BY <1>s, <3>1, <3>2, <3>3, <3>4 DEF Changed
  <2>2. CASE ~Exists(x)
    <3>1. blocked' = blocked BY <1>b, <2>2 DEF SetContactBlocked
    <3>2. shut' \in SUBSET Peers /\ holds' = holds BY <1>1, <1>b DEF SetContactBlocked
    <3>3. last'.from = "user" /\ last'.chat = x BY <1>u, <1>b DEF SetContactBlocked
    <3>4. \A h \in holds : h.chat # x BY <2>2 DEF AssignInv, AssignTypes
    <3>5. blocked[x] = Absent BY <2>2 DEF Exists
    <3>6. Changed(x, Absent) BY <1>1, <3>1, <3>2, <3>3, <3>4, <3>5 DEF Changed
    <3> QED BY <1>1, <3>6
  <2> QED BY <2>1, <2>2
<1>d. ASSUME DeleteChat(x) PROVE \E t \in BlockStates : Changed(x, t)
  <2>1. last'.from = "user" /\ last'.chat = x BY <1>u, <1>d DEF DeleteChat
  <2>2. Changed(x, Absent) BY <1>1, <1>s, <1>d, <2>1 DEF DeleteChat, Changed
  <2> QED BY <1>1, <2>2
<1>c. ASSUME UserAct(x), UNCHANGED <<shut, holds>>, NEW t \in BlockStates \ {Absent},
             blocked' = [blocked EXCEPT ![x] = t]
      PROVE  \E s \in BlockStates : Changed(x, s)
  <2>1. last'.from = "user" /\ last'.chat = x BY <1>u, <1>c
  <2>2. Changed(x, t) BY <1>1, <1>s, <1>c, <2>1 DEF Changed
  <2> QED BY <2>2
<1>2. CASE x \in Peers /\ SetContactBlocked(x, FALSE) BY <1>2, <1>b, ChangedStep
<1>3. CASE CreateForContact(x) BY <1>1, <1>3, <1>c, ChangedStep DEF CreateForContact
<1>4. CASE AcceptChat(x) BY <1>1, <1>4, <1>c, ChangedStep DEF AcceptChat
<1>5. CASE DeleteChat(x) BY <1>5, <1>d, ChangedStep
<1>6. CASE BlockChat(x)
  <2>1. CASE x \in Peers
    <3>1. SetContactBlocked(x, TRUE) BY <1>6, <2>1 DEF BlockChat, Peers
    <3> QED BY <2>1, <3>1, <1>b, ChangedStep
  <2>2. CASE x \in {"group", "adhoc"}
    <3>1. DeleteChat(x) BY <1>6, <2>2 DEF BlockChat, Peers
    <3> QED BY <3>1, <1>d, ChangedStep
  <2>3. CASE x \notin Peers /\ x \notin {"group", "adhoc"}
    <3>1. /\ UserAct(x) /\ UNCHANGED <<shut, holds>> /\ blocked' = [blocked EXCEPT ![x] = "yes"]
      BY <1>6, <2>3 DEF BlockChat
    <3> QED BY <1>1, <1>c, <3>1, ChangedStep
  <2> QED BY <2>1, <2>2, <2>3
<1>7. CASE x = "key" /\ ScanInvite BY <1>1, <1>7, <1>c, ChangedStep DEF ScanInvite
<1> QED BY <1>2, <1>3, <1>4, <1>5, <1>6, <1>7

\* Every step keeps the invariant and does what the action properties allow.
LEMMA AssignKept == AssignInv /\ AssignNext => AssignInv' /\ AssignStep
<1> SUFFICES ASSUME AssignInv, AssignNext PROVE AssignInv' /\ AssignStep OBVIOUS
<1>1. CASE \E m \in AssignMails, p \in Parents : ReceiveMail(m, p)
  BY <1>1, ReceiveMailStep
<1>2. CASE \E c \in Peers : SetContactBlocked(c, FALSE) \/ CreateForContact(c)
  BY <1>2, UserKeeps DEF Chats
<1>3. CASE \E c \in Chats : AcceptChat(c) \/ BlockChat(c) \/ DeleteChat(c)
  BY <1>3, UserKeeps
<1>4. CASE ScanInvite
  BY <1>4, UserKeeps DEF Chats, Peers
<1> QED BY <1>1, <1>2, <1>3, <1>4 DEF AssignNext

\* For any mails in any order and whatever the user does in between: no mail in clear
\* comes to an encrypted chat, no chat but a channel opens without the user, mail of a
\* blocked contact makes no chat appear, and a blocked list stays blocked
\* (do_chat_assignment).
THEOREM AssignSound == AssignSpec => AssignSafe
<1>1. AssignInv /\ [AssignNext]_assignVars => AssignInv'
  <2>1. ASSUME AssignInv, UNCHANGED assignVars PROVE AssignInv'
    BY <2>1 DEF assignVars, AssignInv, AssignTypes, NoPlainInEncrypted, Exists, IsEncrypted
  <2> QED BY <2>1, AssignKept
<1>2. AssignInv => AssignTypeOK /\ NoPlainInEncrypted
  BY DEF AssignInv, AssignTypes, AssignTypeOK, BlockStates
<1>3. AssignInv /\ [AssignNext]_assignVars => [AssignStep]_assignVars
  BY AssignKept
<1>4. AssignSpec => []AssignInv
  BY AssignStarts, <1>1, PTL DEF AssignSpec
<1>5. AssignSpec => [][AssignStep]_assignVars
  BY <1>3, <1>4, PTL DEF AssignSpec
<1>6. [AssignStep]_assignVars
        => [Bot \/ \A c \in Chats \ {"channel"} : (blocked[c] # "not" /\ blocked'[c] = "not")
              => \/ last'.from \in {"user", "self"} /\ last'.chat = c
                 \/ last'.from \in Peers /\ blocked[last'.from] = "not"]_assignVars
  BY DEF AssignStep
<1>7. [AssignStep]_assignVars
        => [\A c \in Chats \ {"channel"} : (last'.from \in shut /\ blocked[last'.from] = "yes")
              => blocked'[c] \in {blocked[c], "yes"}]_assignVars
  BY DEF AssignStep
<1>8. [AssignStep]_assignVars
        => [\A c \in {"list", "channel"} : (blocked[c] = "yes" /\ blocked'[c] \notin {"yes", Absent})
              => (last'.from \in {"user", "self"} \/ (~last'.list /\ last'.wide))]_assignVars
  BY DEF AssignStep
<1>9. AssignSpec => OnlyByUser BY <1>5, <1>6, PTL DEF OnlyByUser
<1>10. AssignSpec => ShutOut BY <1>5, <1>7, PTL DEF ShutOut
<1>11. AssignSpec => ListsStayBlocked BY <1>5, <1>8, PTL DEF ListsStayBlocked
<1> QED BY <1>2, <1>4, <1>9, <1>10, <1>11, PTL DEF AssignSafe

----------------------------------------------------------------------------
(* The inbox loop (ImapFetch). *)

\* The messages that have a post-message.
PostMsgs == {m.msg : m \in {n \in Mails : n.part \in {"post", "bigpost"}}}
\* The messages that have a pre-message.
PreMsgs == {m.msg : m \in {n \in Mails : n.part = "pre"}}

\* The types, with what the provers need of sequences, functions and records.
FetchTypes ==
    /\ box \in Seq(Mails) /\ (\A i, j \in DOMAIN box : box[i] = box[j] => i = j)
    /\ gone \in SUBSET DOMAIN box /\ ownDeleted \in SUBSET DOMAIN box
    /\ rows \in [DOMAIN rows -> {"", "inbox"}] /\ DOMAIN rows \in SUBSET DOMAIN box
    /\ uidNext \in 1 .. Len(box) + 1
    /\ stored \in [MailMsgs -> DownloadStates]
    /\ preStored \in SUBSET PreMsgs /\ download \in SUBSET MailMsgs /\ available \in SUBSET PostMsgs
    /\ asking \in SUBSET MailMsgs /\ work \in SUBSET MailMsgs /\ failing \in SUBSET PostMsgs
    /\ session \in [selected : BOOLEAN, next : 0 .. Len(box) + 1, newMail : BOOLEAN]
    /\ at \in {"select", "prefetch", "fetch", "record", "expire", "known", "download", "unqueue"}

\* What a batch holds, and while it is fetched, where it is in its window.
BatchTypes ==
    /\ batch \in [old : Nat, todo : SUBSET DOMAIN box, later : SUBSET MailMsgs, posts : SUBSET PostMsgs,
                  skipped : 0 .. Len(box), got : 0 .. Len(box), ok : BOOLEAN]
    /\ at = "fetch" =>
         /\ batch.old = uidNext
         /\ \A u \in batch.todo : box[u].part \in {"small", "pre"} /\ batch.got < u
                                  /\ batch.old <= u /\ u < batch.old + Window
         /\ batch.got < batch.old + Window /\ batch.skipped < batch.old + Window
         /\ batch.todo # {} => batch.ok
    /\ at # "fetch" => batch.todo = {}

\* The mail is stored, or a table leads to it.
Led(u) ==
    \/ stored[box[u].msg] = "deleted" \/ Downloaded(box[u])
    \/ box[u].part = "large" /\ box[u].msg \in download
    \/ /\ box[u].part \in {"post", "bigpost"} /\ u \in DOMAIN rows
       /\ stored[box[u].msg] # "absent" \/ box[u].msg \in available
    \/ box[u].part = "pre" /\ stored[box[u].msg] = "done"
\* The batch will put it in one.
Noted(u) ==
    \/ box[u].part = "large" /\ box[u].msg \in batch.later
    \/ box[u].part \in {"post", "bigpost"} /\ box[u].msg \in batch.posts /\ u \in DOMAIN rows
\* What the batch is about to pass.
Passing(u) ==
    /\ batch.old <= u /\ u < batch.old + Window
    /\ \/ u <= batch.got
       \/ batch.ok /\ (u < session.next \/ u <= batch.skipped \/ \E v \in batch.todo : u <= v)

\* Every mail on the server that uid_next has passed, or that the batch is about to pass, is followed.
Followed ==
    \A u \in Present \ lost :
       /\ at # "record" /\ u < uidNext => Led(u)
       /\ at = "record" /\ u < uidNext => Led(u) \/ Noted(u)
       /\ at = "fetch" /\ Passing(u) => u \in batch.todo \/ Led(u) \/ Noted(u)

\* What is marked for deletion is deleted here.
Marked == \A u \in DOMAIN rows : rows[u] = "" => stored[box[u].msg] = "deleted"
\* What is stored in half has its pre-message.
Halved == \A m \in MailMsgs : stored[m] \in {"available", "inprogress", "failure"} => m \in preStored
\* Of the known post-messages that were gone through, none is stored; of the deleted ones no row is left.
GoneThrough ==
    at \in {"known", "download", "unqueue"} =>
      \A m \in available :
         \/ at = "known" /\ m \in work
         \/ stored[m] # "done" /\ (stored[m] = "deleted" => RowsOf(m) = {})
\* A message whose download failed is stored.
Failed == \A m \in failing : stored[m] # "absent"

\* The inductive invariant of the loop.
FetchInv ==
    /\ FetchTypes /\ BatchTypes /\ Followed /\ Marked /\ Halved /\ GoneThrough /\ Failed
    /\ ServerCopyKept /\ RequestQueued

----------------------------------------------------------------------------

\* The message of a mail in one piece has no other mail.
LEMMA OnePiece ==
    ASSUME NEW m \in Mails, m.part \in {"small", "large"}
    PROVE  /\ m.msg \notin PostMsgs /\ m.msg \notin PreMsgs
           /\ \A n \in Mails : n.msg = m.msg => n = m
<1>1. \A n \in Mails : n.msg = m.msg => n = m
  <2> SUFFICES ASSUME NEW n \in Mails, n.msg = m.msg, n # m PROVE FALSE OBVIOUS
  <2>1. {m.part, n.part} \cap {"small", "large"} = {} BY FetchAssumption
  <2> QED BY <2>1
<1> QED BY <1>1 DEF PostMsgs, PreMsgs

\* What a mail is made of.
LEMMA MailIs ==
    ASSUME NEW m \in Mails
    PROVE  /\ m.msg \in MailMsgs /\ m.part \in MailParts
           /\ m.part \in {"post", "bigpost"} => m.msg \in PostMsgs
           /\ m.part = "pre" => m.msg \in PreMsgs
BY FetchAssumption DEF PostMsgs, PreMsgs, MailMsgs

\* What the folder holds.
LEMMA BoxIs ==
    ASSUME FetchTypes
    PROVE  /\ Len(box) \in Nat /\ DOMAIN box = 1 .. Len(box)
           /\ \A u \in DOMAIN box :
                /\ u \in Nat \ {0} /\ box[u] \in Mails /\ box[u].msg \in MailMsgs /\ box[u].part \in MailParts
                /\ box[u].part \in {"post", "bigpost"} => box[u].msg \in PostMsgs
                /\ box[u].part = "pre" => box[u].msg \in PreMsgs
           /\ PostMsgs \in SUBSET MailMsgs /\ PreMsgs \in SUBSET MailMsgs
<1>1. box \in Seq(Mails) BY DEF FetchTypes
<1>2. Len(box) \in Nat /\ DOMAIN box = 1 .. Len(box) /\ \A u \in DOMAIN box : box[u] \in Mails
  BY <1>1
<1>3. \A u \in DOMAIN box : u \in Nat \ {0} BY <1>2
<1>4. PostMsgs \in SUBSET MailMsgs /\ PreMsgs \in SUBSET MailMsgs
  BY DEF PostMsgs, PreMsgs, MailMsgs
<1> QED BY <1>2, <1>3, <1>4, MailIs

\* The numbers among the types.
Numbers ==
    /\ Len(box) \in Nat /\ uidNext \in Nat /\ 1 <= uidNext /\ uidNext <= Len(box) + 1
    /\ session.next \in Nat /\ session.next <= Len(box) + 1
    /\ batch.old \in Nat /\ batch.skipped \in Nat /\ batch.skipped <= Len(box)
    /\ batch.got \in Nat /\ batch.got <= Len(box) /\ Window \in Nat /\ Window > 0
    /\ \A u \in batch.todo : u \in Nat /\ 1 <= u /\ u <= Len(box)
\* They follow from the types.
LEMMA NumbersAre ==
    ASSUME FetchTypes, BatchTypes
    PROVE  Numbers
<1>1. Len(box) \in Nat /\ DOMAIN box = 1 .. Len(box) BY BoxIs
<1>2. uidNext \in 1 .. Len(box) + 1 BY DEF FetchTypes
<1>3. session \in [selected : BOOLEAN, next : 0 .. Len(box) + 1, newMail : BOOLEAN] BY DEF FetchTypes
<1>4. batch \in [old : Nat, todo : SUBSET DOMAIN box, later : SUBSET MailMsgs, posts : SUBSET PostMsgs,
                 skipped : 0 .. Len(box), got : 0 .. Len(box), ok : BOOLEAN] BY DEF BatchTypes
<1>5. session.next \in 0 .. Len(box) + 1 BY <1>3
<1>6. batch.old \in Nat /\ batch.skipped \in 0 .. Len(box) /\ batch.got \in 0 .. Len(box)
      /\ batch.todo \in SUBSET DOMAIN box
  BY <1>4
<1>7. \A u \in batch.todo : u \in Nat /\ 1 <= u /\ u <= Len(box) BY <1>1, <1>6
<1> QED BY <1>1, <1>2, <1>5, <1>6, <1>7, FetchAssumption DEF Numbers

\* What steps may do to the tables for the mails they led to.
Grows(m) ==
    /\ stored[m] = "deleted" => stored'[m] = "deleted"
    /\ stored[m] = "done" => stored'[m] \in {"done", "deleted"}
    /\ stored[m] # "absent" => stored'[m] # "absent"
    /\ m \in preStored => m \in preStored'
\* A mail on the server stays where it is, and the tables still lead to it.
StillLed(u) ==
    /\ box'[u] = box[u] /\ Grows(box[u].msg)
    /\ u \in DOMAIN rows => u \in DOMAIN rows'
    /\ box[u].part = "large" /\ box[u].msg \in download
         => box[u].msg \in download' \/ stored'[box[u].msg] \in {"done", "deleted"}
    /\ box[u].part \in {"post", "bigpost"} /\ u \in DOMAIN rows /\ box[u].msg \in available
         => box[u].msg \in available' \/ stored'[box[u].msg] # "absent"

\* So a mail that was led to still is.
LEMMA LedStays ==
    ASSUME NEW u, Led(u), StillLed(u)
    PROVE  Led(u)'
<1> DEFINE m == box[u].msg
<1>1. box'[u] = box[u] BY DEF StillLed
<1>2. CASE stored[m] = "deleted" BY <1>1, <1>2 DEF StillLed, Grows, Led
<1>3. CASE Downloaded(box[u])
  <2>1. CASE box[u].part = "pre" BY <1>1, <1>3, <2>1 DEF StillLed, Grows, Led, Downloaded
  <2>2. CASE box[u].part # "pre" BY <1>1, <1>3, <2>2 DEF StillLed, Grows, Led, Downloaded
  <2> QED BY <2>1, <2>2
<1>4. CASE box[u].part = "large" /\ m \in download
  BY <1>1, <1>4 DEF StillLed, Led, Downloaded
<1>5. CASE /\ box[u].part \in {"post", "bigpost"} /\ u \in DOMAIN rows
           /\ stored[m] # "absent" \/ m \in available
  BY <1>1, <1>5 DEF StillLed, Grows, Led
<1>6. CASE box[u].part = "pre" /\ stored[m] = "done"
  BY <1>1, <1>6 DEF StillLed, Grows, Led
<1> QED BY <1>2, <1>3, <1>4, <1>5, <1>6 DEF Led

\* A step within the fetch, or elsewhere, that goes on from where the loop is.
LEMMA FollowedStays ==
    ASSUME Followed, Present' \subseteq Present, lost \subseteq lost', at' = at, batch' = batch,
           uidNext' = uidNext, session' = session,
           \A u \in Present' \ lost' : StillLed(u)
    PROVE  Followed'
<1> SUFFICES ASSUME NEW u \in Present' \ lost'
             PROVE  /\ at' # "record" /\ u < uidNext' => Led(u)'
                    /\ at' = "record" /\ u < uidNext' => Led(u)' \/ Noted(u)'
                    /\ at' = "fetch" /\ Passing(u)' => u \in batch'.todo \/ Led(u)' \/ Noted(u)'
  BY DEF Followed
<1>1. u \in Present \ lost /\ StillLed(u) OBVIOUS
<1>2. Led(u) => Led(u)' BY <1>1, LedStays
<1>3. Noted(u) => Noted(u)' BY <1>1 DEF Noted, StillLed
<1>4. Passing(u)' => Passing(u) BY DEF Passing
<1> QED BY <1>1, <1>2, <1>3, <1>4 DEF Followed

\* A step that neither begins nor ends in the midst of a batch.
LEMMA FollowedOutside ==
    ASSUME Followed, at \notin {"fetch", "record"}, at' \notin {"fetch", "record"},
           Present' \subseteq Present, lost \subseteq lost', uidNext' = uidNext,
           \A u \in Present' \ lost' : StillLed(u)
    PROVE  Followed'
<1> SUFFICES ASSUME NEW u \in Present' \ lost', u < uidNext' PROVE Led(u)'
  BY DEF Followed
<1>1. u \in Present \ lost /\ StillLed(u) /\ Led(u) BY DEF Followed
<1> QED BY <1>1, LedStays

----------------------------------------------------------------------------
(* The server and the other devices. *)

\* A mail that arrives is beyond uid_next and beyond everything the batch may pass.
LEMMA ArriveKeeps ==
    ASSUME FetchInv, NEW m \in Mails, Arrive(m)
    PROVE  FetchInv'
<1>0. FetchTypes /\ BatchTypes /\ Followed /\ Marked /\ Halved /\ GoneThrough /\ Failed
      /\ ServerCopyKept /\ RequestQueued
  BY DEF FetchInv
<1>1. /\ gone' = gone /\ uidNext' = uidNext /\ rows' = rows /\ stored' = stored /\ preStored' = preStored
      /\ download' = download /\ available' = available /\ session' = session /\ at' = at /\ batch' = batch
      /\ work' = work /\ failing' = failing /\ asking' = asking /\ ownDeleted' = ownDeleted
      /\ lost' = lost /\ stuck' = stuck
  BY DEF Arrive, syncVars, storeVars, loopVars, fetchHistory
<1>2. /\ Len(box) \in Nat /\ DOMAIN box = 1 .. Len(box) BY <1>0, BoxIs
<1>3. /\ box' \in Seq(Mails) /\ Len(box') = Len(box) + 1 /\ DOMAIN box' = 1 .. Len(box) + 1
      /\ box'[Len(box) + 1] = m /\ \A u \in DOMAIN box : box'[u] = box[u]
  <2>1. box \in Seq(Mails) /\ box' = Append(box, m) BY <1>0 DEF FetchTypes, Arrive
  <2> QED BY <1>2, <2>1
<1>n. Numbers BY <1>0, NumbersAre
<1>4. \A u \in DOMAIN box : box[u] # m
  BY <1>2 DEF Arrive, ToSet
<1>5. \A i, j \in DOMAIN box' : box'[i] = box'[j] => i = j
  <2>1. \A i, j \in DOMAIN box : box[i] = box[j] => i = j BY <1>0 DEF FetchTypes
  <2> QED BY <1>2, <1>3, <1>4, <2>1
<1>d. DOMAIN box \in SUBSET DOMAIN box' BY <1>2, <1>3
<1>6. FetchTypes'
  <2>1. gone' \in SUBSET DOMAIN box' /\ ownDeleted' \in SUBSET DOMAIN box' /\ DOMAIN rows' \in SUBSET DOMAIN box'
    BY <1>0, <1>1, <1>d DEF FetchTypes
  <2>2. uidNext' \in 1 .. Len(box') + 1 BY <1>1, <1>3, <1>n DEF Numbers
  <2>3. session' \in [selected : BOOLEAN, next : 0 .. Len(box') + 1, newMail : BOOLEAN]
    <3>1. session \in [selected : BOOLEAN, next : 0 .. Len(box) + 1, newMail : BOOLEAN] BY <1>0 DEF FetchTypes
    <3>2. \A k \in 0 .. Len(box) + 1 : k \in 0 .. Len(box') + 1 BY <1>2, <1>3
    <3> QED BY <1>1, <3>1, <3>2
  <2>4. PostMsgs' = PostMsgs /\ PreMsgs' = PreMsgs BY DEF PostMsgs, PreMsgs
  <2> QED BY <1>0, <1>1, <1>3, <1>5, <2>1, <2>2, <2>3, <2>4 DEF FetchTypes
<1>7. BatchTypes'
  <2>1. batch' \in [old : Nat, todo : SUBSET DOMAIN box', later : SUBSET MailMsgs, posts : SUBSET PostMsgs,
                    skipped : 0 .. Len(box'), got : 0 .. Len(box'), ok : BOOLEAN]
    BY <1>0, <1>1, <1>2, <1>3, <1>d DEF BatchTypes
  <2>2. \A u \in batch.todo : box'[u] = box[u] BY <1>0, <1>3 DEF BatchTypes
  <2> QED BY <1>0, <1>1, <2>1, <2>2 DEF BatchTypes
<1>8. Followed'
  <2> SUFFICES ASSUME NEW u \in Present' \ lost'
               PROVE  /\ at' # "record" /\ u < uidNext' => Led(u)'
                      /\ at' = "record" /\ u < uidNext' => Led(u)' \/ Noted(u)'
                      /\ at' = "fetch" /\ Passing(u)' => u \in batch'.todo \/ Led(u)' \/ Noted(u)'
    BY DEF Followed
  <2>1. CASE u = Len(box) + 1
    <3>1. ~(u < uidNext') BY <1>1, <1>n, <2>1 DEF Numbers
    <3>2. ~Passing(u)'
      <4>1. session.next <= u /\ batch.skipped < u /\ batch.got < u /\ \A v \in batch.todo : v < u
        BY <1>n, <2>1 DEF Numbers
      <4> QED BY <1>1, <1>n, <2>1, <4>1 DEF Passing, Numbers
    <3> QED BY <3>1, <3>2
  <2>2. CASE u # Len(box) + 1
    <3>1. u \in Present \ lost /\ u \in DOMAIN box
      BY <1>1, <1>2, <1>3, <2>2 DEF Present
    <3>2. StillLed(u) BY <1>1, <1>3, <3>1 DEF StillLed, Grows
    <3>3. Led(u) => Led(u)' BY <3>2, LedStays
    <3>4. Noted(u) => Noted(u)' BY <1>1, <3>2 DEF Noted, StillLed
    <3>5. Passing(u)' => Passing(u) BY <1>1 DEF Passing
    <3> QED BY <1>0, <1>1, <3>1, <3>3, <3>4, <3>5 DEF Followed
  <2> QED BY <2>1, <2>2
<1>9. Marked' /\ ServerCopyKept'
  BY <1>0, <1>1, <1>3 DEF Marked, ServerCopyKept, FetchTypes
<1>10. GoneThrough'
  <2>1. \A x : RowsOf(x)' = RowsOf(x) BY <1>0, <1>1, <1>3 DEF RowsOf, FetchTypes
  <2> QED BY <1>0, <1>1, <2>1 DEF GoneThrough
<1>11. Halved' /\ Failed' /\ RequestQueued'
  BY <1>0, <1>1 DEF Halved, Failed, RequestQueued
<1> QED BY <1>6, <1>7, <1>8, <1>9, <1>10, <1>11 DEF FetchInv

\* A step that leaves alone the mails, how far the loop is and what it works on.
Rest ==
    /\ box' = box /\ uidNext' = uidNext /\ session' = session /\ at' = at /\ batch' = batch
    /\ failing' = failing /\ work' = work

\* A step that leaves the batch where it is keeps its types.
LEMMA BatchStays ==
    ASSUME BatchTypes, box' = box, uidNext' = uidNext, at' = at, batch' = batch
    PROVE  BatchTypes'
<1>1. PostMsgs' = PostMsgs BY DEF PostMsgs
<1> QED BY <1>1 DEF BatchTypes

\* The types, when the loop stands still.
LEMMA TypesStay ==
    ASSUME FetchTypes, Rest, gone' \in SUBSET DOMAIN box, ownDeleted' = ownDeleted,
           rows' \in [DOMAIN rows' -> {"", "inbox"}], DOMAIN rows' \in SUBSET DOMAIN box,
           stored' \in [MailMsgs -> DownloadStates], preStored' \in SUBSET PreMsgs,
           download' \in SUBSET MailMsgs, available' = available, asking' \in SUBSET MailMsgs
    PROVE  FetchTypes'
<1>1. PostMsgs' = PostMsgs /\ PreMsgs' = PreMsgs BY DEF PostMsgs, PreMsgs
<1> QED BY <1>1 DEF FetchTypes, Rest

\* What another device expunges need not be followed any more.
LEMMA ExpungeElsewhereKeeps ==
    ASSUME FetchInv, NEW u \in Present, ExpungeElsewhere(u)
    PROVE  FetchInv'
<1>0. FetchTypes /\ BatchTypes /\ Followed /\ Marked /\ Halved /\ GoneThrough /\ Failed
      /\ ServerCopyKept /\ RequestQueued
  BY DEF FetchInv
<1>1. /\ Rest /\ gone' = gone \cup {u} /\ rows' = rows /\ stored' = stored /\ preStored' = preStored
      /\ download' = download /\ available' = available /\ asking' = asking /\ ownDeleted' = ownDeleted
      /\ lost' = lost /\ stuck' = stuck
  BY DEF ExpungeElsewhere, syncVars, storeVars, loopVars, fetchHistory, Rest
<1>2. FetchTypes'
  BY <1>0, <1>1, TypesStay DEF FetchTypes, Present
<1>3. BatchTypes' BY <1>0, <1>1, BatchStays DEF Rest
<1>4. Followed'
  <2>1. Present' \subseteq Present BY <1>1 DEF Present, Rest
  <2>2. \A v : StillLed(v) BY <1>1 DEF StillLed, Grows, Rest
  <2> QED BY <1>0, <1>1, <2>1, <2>2, FollowedStays DEF Rest
<1>5. Marked' /\ ServerCopyKept' /\ Halved' /\ Failed' /\ RequestQueued'
  BY <1>0, <1>1 DEF Marked, ServerCopyKept, Halved, Failed, RequestQueued, Rest
<1>6. GoneThrough' BY <1>0, <1>1 DEF GoneThrough, RowsOf, Rest
<1> QED BY <1>2, <1>3, <1>4, <1>5, <1>6 DEF FetchInv

\* Nothing that the invariant is about changes.
LEMMA NothingKeeps ==
    ASSUME FetchInv, Rest, gone' = gone, rows' = rows, stored' = stored, preStored' = preStored,
           download' = download, available' = available, asking' = asking, ownDeleted' = ownDeleted,
           lost' = lost, stuck' = stuck
    PROVE  FetchInv'
<1>0. FetchTypes /\ BatchTypes /\ Followed /\ Marked /\ Halved /\ GoneThrough /\ Failed
      /\ ServerCopyKept /\ RequestQueued
  BY DEF FetchInv
<1>2. FetchTypes' BY <1>0, TypesStay DEF FetchTypes
<1>3. BatchTypes' BY <1>0, BatchStays DEF Rest
<1>4. Followed'
  <2>1. Present' \subseteq Present BY DEF Present, Rest
  <2>2. \A v : StillLed(v) BY DEF StillLed, Grows, Rest
  <2> QED BY <1>0, <2>1, <2>2, FollowedStays DEF Rest
<1>5. Marked' /\ ServerCopyKept' /\ Halved' /\ Failed' /\ RequestQueued'
  BY <1>0 DEF Marked, ServerCopyKept, Halved, Failed, RequestQueued, Rest
<1>6. GoneThrough' BY <1>0 DEF GoneThrough, RowsOf, Rest
<1> QED BY <1>2, <1>3, <1>4, <1>5, <1>6 DEF FetchInv

\* A new UIDVALIDITY is only noticed at the next SELECT.
LEMMA NewValidityKeeps ==
    ASSUME FetchInv, NewValidity
    PROVE  FetchInv'
BY NothingKeeps DEF NewValidity, syncVars, storeVars, loopVars, fetchHistory, Rest

\* The state of one message changes in the tables, and the rows keep their uids.
Restated(m, t) ==
    /\ Rest /\ gone' = gone /\ lost' = lost /\ available' = available /\ ownDeleted' = ownDeleted
    /\ m \in MailMsgs /\ t \in DownloadStates
    /\ stored' = [stored EXCEPT ![m] = t]
    /\ preStored \subseteq preStored' /\ preStored' \in SUBSET PreMsgs
    /\ download \subseteq download' /\ download' \in SUBSET MailMsgs /\ asking' \in SUBSET MailMsgs
    /\ rows' \in [DOMAIN rows' -> {"", "inbox"}] /\ DOMAIN rows' = DOMAIN rows

\* If the state only goes forward, the rest of the invariant is kept.
LEMMA RestatedKeeps ==
    ASSUME FetchInv, NEW m, NEW t, Restated(m, t), Grows(m),
           Marked', Halved', RequestQueued', GoneThrough'
    PROVE  FetchInv'
<1>0. FetchTypes /\ BatchTypes /\ Followed /\ Failed /\ ServerCopyKept
  BY DEF FetchInv
<1>1. stored \in [MailMsgs -> DownloadStates] /\ stored' \in [MailMsgs -> DownloadStates]
  BY <1>0 DEF FetchTypes, Restated
<1>2. \A x \in MailMsgs : Grows(x)
  BY <1>1 DEF Grows, Restated
<1>3. FetchTypes'
  BY <1>0, <1>1, TypesStay DEF FetchTypes, Restated
<1>4. BatchTypes' BY <1>0, BatchStays DEF Rest, Restated
<1>5. Followed'
  <2>1. Present' \subseteq Present BY DEF Present, Rest, Restated
  <2>2. \A v \in DOMAIN box : StillLed(v)
    <3>1. \A v \in DOMAIN box : Grows(box[v].msg) BY <1>0, <1>2, BoxIs
    <3> QED BY <3>1 DEF StillLed, Rest, Restated
  <2>3. \A v \in Present' \ lost' : StillLed(v) BY <2>2 DEF Present, Restated, Rest
  <2> QED BY <1>0, <2>1, <2>3, FollowedStays DEF Rest, Restated
<1>6. ServerCopyKept'
  <2> SUFFICES ASSUME NEW u \in ownDeleted
               PROVE  \/ stored'[box[u].msg] \in {"done", "deleted"}
                      \/ box[u].part = "pre" /\ box[u].msg \in preStored'
    BY DEF ServerCopyKept, Rest, Restated
  <2>1. u \in DOMAIN box /\ box[u].msg \in MailMsgs BY <1>0, BoxIs DEF FetchTypes
  <2>2. Grows(box[u].msg) BY <1>2, <2>1
  <2> QED BY <1>0, <2>2 DEF Grows, ServerCopyKept, Restated
<1>7. Failed'
  <2>1. \A x \in failing : x \in MailMsgs BY <1>0, BoxIs DEF FetchTypes
  <2> QED BY <1>0, <1>2, <2>1 DEF Failed, Grows, Rest, Restated
<1> QED BY <1>3, <1>4, <1>5, <1>6, <1>7 DEF FetchInv

\* Another transport stores a pre-message.
LEMMA ReceiveElsewhereKeeps ==
    ASSUME FetchInv, NEW m \in Mails, ReceiveElsewhere(m)
    PROVE  FetchInv'
<1>0. FetchTypes /\ Marked /\ Halved /\ GoneThrough /\ RequestQueued BY DEF FetchInv
<1>m. m.msg \in MailMsgs /\ m.part = "pre" /\ m.msg \in PreMsgs /\ m.msg \notin preStored
  BY MailIs DEF ReceiveElsewhere, FetchTried
<1> DEFINE t == IF stored[m.msg] = "absent" THEN "available" ELSE stored[m.msg]
<1>1. /\ stored' = [stored EXCEPT ![m.msg] = t] /\ preStored' = preStored \cup {m.msg}
  BY <1>m DEF ReceiveElsewhere, ReceiveImf
<1>2. /\ Rest /\ gone' = gone /\ lost' = lost /\ available' = available /\ ownDeleted' = ownDeleted
      /\ download' = download /\ asking' = asking /\ rows' = rows /\ stuck' = stuck
  BY DEF ReceiveElsewhere, serverVars, syncVars, loopVars, fetchHistory, Rest
<1>3. stored \in [MailMsgs -> DownloadStates] /\ stored[m.msg] \in DownloadStates
  BY <1>0, <1>m DEF FetchTypes
<1>4. t \in DownloadStates /\ (stored[m.msg] # "absent" => t = stored[m.msg])
      /\ (stored[m.msg] = "absent" => t = "available")
  BY <1>3 DEF DownloadStates
<1> HIDE DEF t
<1>5. Restated(m.msg, t)
  BY <1>0, <1>m, <1>1, <1>2, <1>4 DEF Restated, FetchTypes
<1>6. \A x \in MailMsgs : stored'[x] = IF x = m.msg THEN t ELSE stored[x] BY <1>1, <1>3
<1>7. Grows(m.msg) BY <1>m, <1>1, <1>4, <1>6 DEF Grows
<1>8. Marked'
  BY <1>0, <1>2, <1>4, <1>6, BoxIs DEF Marked, Rest, FetchTypes
<1>9. Halved' BY <1>0, <1>1, <1>4, <1>6 DEF Halved
<1>10. RequestQueued' BY <1>0, <1>2, <1>4, <1>6 DEF RequestQueued
<1>11. GoneThrough'
  <2>1. \A x : RowsOf(x)' = RowsOf(x) BY <1>2 DEF RowsOf, Rest
  <2>2. available \in SUBSET MailMsgs BY <1>0, BoxIs DEF FetchTypes
  <2> QED BY <1>0, <1>2, <1>4, <1>6, <2>1, <2>2 DEF GoneThrough, Rest
<1> QED BY <1>5, <1>7, <1>8, <1>9, <1>10, <1>11, RestatedKeeps

----------------------------------------------------------------------------
(* The user. *)

\* download_full, its first statement: the message is in `asking` until the second.
LEMMA AskDownloadKeeps ==
    ASSUME FetchInv, NEW m \in MailMsgs, AskDownload(m)
    PROVE  FetchInv'
<1>0. FetchTypes /\ Marked /\ Halved /\ GoneThrough /\ RequestQueued BY DEF FetchInv
<1>1. /\ stored' = [stored EXCEPT ![m] = "inprogress"] /\ asking' = asking \cup {m}
      /\ stored[m] \in {"available", "failure"}
  BY DEF AskDownload
<1>2. /\ Rest /\ gone' = gone /\ lost' = lost /\ available' = available /\ ownDeleted' = ownDeleted
      /\ download' = download /\ rows' = rows /\ stuck' = stuck /\ preStored' = preStored
  BY DEF AskDownload, serverVars, syncVars, loopVars, fetchHistory, Rest
<1>3. stored \in [MailMsgs -> DownloadStates] BY <1>0 DEF FetchTypes
<1>5. Restated(m, "inprogress")
  BY <1>0, <1>1, <1>2 DEF Restated, FetchTypes, DownloadStates
<1>6. \A x \in MailMsgs : stored'[x] = IF x = m THEN "inprogress" ELSE stored[x] BY <1>1, <1>3
<1>7. Grows(m) BY <1>1, <1>2, <1>6 DEF Grows
<1>8. Marked'
  BY <1>0, <1>1, <1>2, <1>6, BoxIs DEF Marked, Rest, FetchTypes
<1>9. Halved' BY <1>0, <1>1, <1>2, <1>6 DEF Halved
<1>10. RequestQueued' BY <1>0, <1>1, <1>2, <1>6 DEF RequestQueued
<1>11. GoneThrough'
  <2>1. \A x : RowsOf(x)' = RowsOf(x) BY <1>2 DEF RowsOf, Rest
  <2>2. available \in SUBSET MailMsgs BY <1>0, BoxIs DEF FetchTypes
  <2> QED BY <1>0, <1>2, <1>6, <2>1, <2>2 DEF GoneThrough, Rest
<1> QED BY <1>5, <1>7, <1>8, <1>9, <1>10, <1>11, RestatedKeeps

\* download_full, its second statement.
LEMMA QueueDownloadKeeps ==
    ASSUME FetchInv, NEW m \in MailMsgs, QueueDownload(m)
    PROVE  FetchInv'
<1>0. FetchTypes /\ Marked /\ Halved /\ GoneThrough /\ RequestQueued BY DEF FetchInv
<1>1. asking' = asking \ {m} /\ download' = download \cup {m} /\ m \in asking
  BY DEF QueueDownload
<1>2. /\ Rest /\ gone' = gone /\ lost' = lost /\ available' = available /\ ownDeleted' = ownDeleted
      /\ stored' = stored /\ rows' = rows /\ stuck' = stuck /\ preStored' = preStored
  BY DEF QueueDownload, serverVars, syncVars, loopVars, fetchHistory, Rest
<1>3. stored \in [MailMsgs -> DownloadStates] BY <1>0 DEF FetchTypes
<1>4. stored[m] \in DownloadStates /\ stored' = [stored EXCEPT ![m] = stored[m]] BY <1>2, <1>3
<1>5. Restated(m, stored[m])
  BY <1>0, <1>1, <1>2, <1>4 DEF Restated, FetchTypes
<1>7. Grows(m) BY <1>2 DEF Grows
<1>8. Marked' /\ Halved' /\ RequestQueued'
  BY <1>0, <1>1, <1>2 DEF Marked, Halved, RequestQueued, Rest
<1>11. GoneThrough' BY <1>0, <1>2 DEF RowsOf, GoneThrough, Rest
<1> QED BY <1>5, <1>7, <1>8, <1>11, RestatedKeeps

\* Deleting a message marks all its rows.
LEMMA DeleteMsgKeeps ==
    ASSUME FetchInv, NEW m \in MailMsgs, DeleteMsg(m)
    PROVE  FetchInv'
<1>0. FetchTypes /\ Marked /\ Halved /\ GoneThrough /\ RequestQueued BY DEF FetchInv
<1>1. /\ stored' = [stored EXCEPT ![m] = "deleted"]
      /\ rows' = [u \in DOMAIN rows |-> IF box[u].msg = m THEN "" ELSE rows[u]]
  BY DEF DeleteMsg
<1>2. /\ Rest /\ gone' = gone /\ lost' = lost /\ available' = available /\ ownDeleted' = ownDeleted
      /\ download' = download /\ stuck' = stuck /\ preStored' = preStored /\ asking' = asking
  BY DEF DeleteMsg, serverVars, syncVars, loopVars, fetchHistory, Rest
<1>3. stored \in [MailMsgs -> DownloadStates] BY <1>0 DEF FetchTypes
<1>4. /\ DOMAIN rows' = DOMAIN rows /\ rows' \in [DOMAIN rows' -> {"", "inbox"}]
      /\ \A u \in DOMAIN rows : rows'[u] = IF box[u].msg = m THEN "" ELSE rows[u]
  BY <1>0, <1>1 DEF FetchTypes
<1>5. Restated(m, "deleted")
  BY <1>0, <1>1, <1>2, <1>4 DEF Restated, FetchTypes, DownloadStates
<1>6. \A x \in MailMsgs : stored'[x] = IF x = m THEN "deleted" ELSE stored[x] BY <1>1, <1>3
<1>7. Grows(m)
  <2>1. stored'[m] = "deleted" BY <1>6
  <2> QED BY <1>2, <2>1 DEF Grows
<1>8. Marked'
  <2>1. \A u \in DOMAIN rows : box[u].msg \in MailMsgs BY <1>0, BoxIs DEF FetchTypes
  <2> QED BY <1>0, <1>2, <1>4, <1>6, <2>1 DEF Marked, Rest
<1>9. Halved' BY <1>0, <1>2, <1>6 DEF Halved
<1>10. RequestQueued' BY <1>0, <1>2, <1>6 DEF RequestQueued
<1>11. GoneThrough'
  <2>1. \A x : RowsOf(x)' \subseteq RowsOf(x) BY <1>2, <1>4 DEF RowsOf, Rest
  <2>2. RowsOf(m)' = {} BY <1>2, <1>4 DEF RowsOf, Rest
  <2>3. available \in SUBSET MailMsgs BY <1>0, BoxIs DEF FetchTypes
  <2> QED BY <1>0, <1>2, <1>6, <2>1, <2>2, <2>3 DEF GoneThrough, Rest
<1> QED BY <1>5, <1>7, <1>8, <1>9, <1>10, <1>11, RestatedKeeps

----------------------------------------------------------------------------
(* The loop outside its batches. *)

\* The types, when the loop moves.
LEMMA TypesMove ==
    ASSUME FetchTypes, box' = box, gone' \in SUBSET DOMAIN box, ownDeleted' \in SUBSET DOMAIN box,
           rows' \in [DOMAIN rows' -> {"", "inbox"}], DOMAIN rows' \in SUBSET DOMAIN box,
           uidNext' \in 1 .. Len(box) + 1, stored' \in [MailMsgs -> DownloadStates],
           preStored' \in SUBSET PreMsgs, download' \in SUBSET MailMsgs, available' \in SUBSET PostMsgs,
           asking' \in SUBSET MailMsgs, work' \in SUBSET MailMsgs, failing' \in SUBSET PostMsgs,
           session' \in [selected : BOOLEAN, next : 0 .. Len(box) + 1, newMail : BOOLEAN],
           at' \in {"select", "prefetch", "fetch", "record", "expire", "known", "download", "unqueue"}
    PROVE  FetchTypes'
<1>1. PostMsgs' = PostMsgs /\ PreMsgs' = PreMsgs BY DEF PostMsgs, PreMsgs
<1> QED BY <1>1 DEF FetchTypes

\* No mail is in the batch before and after a step outside the batches.
LEMMA BatchOutside ==
    ASSUME BatchTypes, box' = box, batch' = batch, at # "fetch", at' # "fetch"
    PROVE  BatchTypes'
<1>1. PostMsgs' = PostMsgs BY DEF PostMsgs
<1> QED BY <1>1 DEF BatchTypes

\* The types one by one.
LEMMA TypesAre ==
    ASSUME FetchTypes
    PROVE  /\ gone \in SUBSET DOMAIN box /\ ownDeleted \in SUBSET DOMAIN box
           /\ rows \in [DOMAIN rows -> {"", "inbox"}] /\ DOMAIN rows \in SUBSET DOMAIN box
           /\ uidNext \in 1 .. Len(box) + 1 /\ stored \in [MailMsgs -> DownloadStates]
           /\ preStored \in SUBSET PreMsgs /\ download \in SUBSET MailMsgs /\ available \in SUBSET PostMsgs
           /\ asking \in SUBSET MailMsgs /\ work \in SUBSET MailMsgs /\ failing \in SUBSET PostMsgs
           /\ session \in [selected : BOOLEAN, next : 0 .. Len(box) + 1, newMail : BOOLEAN]
           /\ at \in {"select", "prefetch", "fetch", "record", "expire", "known", "download", "unqueue"}
           /\ available \in SUBSET MailMsgs /\ failing \in SUBSET MailMsgs
BY BoxIs DEF FetchTypes

\* All known post-messages were gone through.
LEMMA KnownDoneKeeps ==
    ASSUME FetchInv, KnownDone
    PROVE  FetchInv'
<1>0. FetchTypes /\ BatchTypes /\ Followed /\ Marked /\ Halved /\ GoneThrough /\ Failed
      /\ ServerCopyKept /\ RequestQueued
  BY DEF FetchInv
<1>1. at = "known" /\ work = {} /\ at' = "download" /\ work' = download BY DEF KnownDone, At, Go
<1>2. /\ box' = box /\ gone' = gone /\ uidNext' = uidNext /\ rows' = rows /\ session' = session
      /\ stored' = stored /\ preStored' = preStored /\ download' = download /\ available' = available
      /\ batch' = batch /\ failing' = failing /\ asking' = asking /\ ownDeleted' = ownDeleted
      /\ lost' = lost /\ stuck' = stuck
  BY DEF KnownDone, serverVars, syncVars, storeVars, fetchHistory
<1>3. FetchTypes' BY <1>0, <1>1, <1>2, TypesAre, TypesMove
<1>4. BatchTypes' BY <1>0, <1>1, <1>2, BatchOutside
<1>5. Followed'
  <2>1. Present' \subseteq Present BY <1>2 DEF Present
  <2>2. \A v : StillLed(v) BY <1>2 DEF StillLed, Grows
  <2> QED BY <1>0, <1>1, <1>2, <2>1, <2>2, FollowedOutside
<1>6. Marked' /\ ServerCopyKept' /\ Halved' /\ Failed' /\ RequestQueued'
  BY <1>0, <1>2 DEF Marked, ServerCopyKept, Halved, Failed, RequestQueued
<1>7. GoneThrough' BY <1>0, <1>1, <1>2 DEF GoneThrough, RowsOf
<1> QED BY <1>3, <1>4, <1>5, <1>6, <1>7 DEF FetchInv

\* The failed download leaves both tables: its message is stored, so its row leads to it.
LEMMA UnqueueKeeps ==
    ASSUME FetchInv, Unqueue
    PROVE  FetchInv'
<1>0. FetchTypes /\ BatchTypes /\ Followed /\ Marked /\ Halved /\ GoneThrough /\ Failed
      /\ ServerCopyKept /\ RequestQueued
  BY DEF FetchInv
<1>1. /\ at = "unqueue" /\ at' = "download" /\ failing' = {} /\ download' = download \ failing
      /\ available' = available \ failing
      /\ stuck' = stuck \cup {m \in failing : stored[m] = "inprogress"}
  BY DEF Unqueue, At, Go
<1>2. /\ box' = box /\ gone' = gone /\ uidNext' = uidNext /\ rows' = rows /\ session' = session
      /\ stored' = stored /\ preStored' = preStored /\ batch' = batch /\ work' = work
      /\ asking' = asking /\ ownDeleted' = ownDeleted /\ lost' = lost
  BY DEF Unqueue, serverVars, syncVars
<1>3. FetchTypes' BY <1>0, <1>1, <1>2, TypesAre, TypesMove
<1>4. BatchTypes' BY <1>0, <1>1, <1>2, BatchOutside
<1>5. Followed'
  <2>1. Present' \subseteq Present BY <1>2 DEF Present
  <2>2. \A v \in DOMAIN box : StillLed(v)
    <3> SUFFICES ASSUME NEW v \in DOMAIN box PROVE StillLed(v) OBVIOUS
    <3>1. Grows(box[v].msg) BY <1>2 DEF Grows
    <3>2. box[v].part = "large" => box[v].msg \notin failing
      BY <1>0, BoxIs, OnePiece, TypesAre
    <3>3. box[v].msg \in failing => stored'[box[v].msg] # "absent" BY <1>0, <1>2 DEF Failed
    <3> QED BY <1>1, <1>2, <3>1, <3>2, <3>3 DEF StillLed
  <2>3. \A v \in Present' \ lost' : StillLed(v) BY <1>2, <2>2 DEF Present
  <2> QED BY <1>0, <1>1, <1>2, <2>1, <2>3, FollowedOutside
<1>6. Marked' /\ ServerCopyKept' /\ Halved' /\ Failed'
  BY <1>0, <1>1, <1>2 DEF Marked, ServerCopyKept, Halved, Failed
<1>7. RequestQueued' BY <1>0, <1>1, <1>2 DEF RequestQueued
<1>8. GoneThrough' BY <1>0, <1>1, <1>2 DEF GoneThrough, RowsOf
<1> QED BY <1>3, <1>4, <1>5, <1>6, <1>7, <1>8 DEF FetchInv

\* One of the messages that were put off is stored: everything leads to it.
LEMMA StoredKeeps ==
    ASSUME FetchInv, NEW m \in MailMsgs, NEW t \in {"done", "deleted"},
           at \in {"known", "download"}, at' = at,
           stored[m] = "deleted" => t = "deleted",
           stored' = [stored EXCEPT ![m] = t],
           download' \in {download, download \ {m}}, available' = available \ {m},
           work' = work \ {m},
           box' = box, gone' = gone, uidNext' = uidNext, rows' = rows, session' = session,
           preStored' = preStored, batch' = batch, failing' = failing, asking' = asking,
           ownDeleted' = ownDeleted, lost' = lost, stuck' = stuck
    PROVE  FetchInv'
<1>0. FetchTypes /\ BatchTypes /\ Followed /\ Marked /\ Halved /\ GoneThrough /\ Failed
      /\ ServerCopyKept /\ RequestQueued
  BY DEF FetchInv
<1>1. stored \in [MailMsgs -> DownloadStates] /\ t \in DownloadStates
  BY <1>0 DEF FetchTypes, DownloadStates
<1>2. stored' \in [MailMsgs -> DownloadStates] /\ \A x \in MailMsgs : stored'[x] = IF x = m THEN t ELSE stored[x]
  BY <1>1
<1>3. FetchTypes' BY <1>0, <1>2, TypesAre, TypesMove
<1>4. BatchTypes' BY <1>0, BatchOutside
<1>g. \A x \in MailMsgs : Grows(x) BY <1>2 DEF Grows
<1>5. Followed'
  <2>1. Present' \subseteq Present BY DEF Present
  <2>2. \A v \in DOMAIN box : StillLed(v)
    <3> SUFFICES ASSUME NEW v \in DOMAIN box PROVE StillLed(v) OBVIOUS
    <3>1. box[v].msg \in MailMsgs BY <1>0, BoxIs
    <3>2. Grows(box[v].msg) BY <1>g, <3>1
    <3>3. box[v].msg = m => stored'[box[v].msg] \in {"done", "deleted"} BY <1>2, <3>1
    <3> QED BY <3>2, <3>3 DEF StillLed
  <2>3. \A v \in Present' \ lost' : StillLed(v) BY <2>2 DEF Present
  <2> QED BY <1>0, <2>1, <2>3, FollowedOutside
<1>6. Marked'
  <2>1. \A v \in DOMAIN rows : box[v].msg \in MailMsgs BY <1>0, BoxIs, TypesAre
  <2> QED BY <1>0, <1>2, <2>1 DEF Marked
<1>7. ServerCopyKept'
  <2>1. \A v \in ownDeleted : Grows(box[v].msg) BY <1>0, <1>g, BoxIs, TypesAre
  <2> QED BY <1>0, <2>1 DEF ServerCopyKept, Grows
<1>8. Halved' BY <1>0, <1>2 DEF Halved
<1>9. Failed'
  <2>1. \A x \in failing : x \in MailMsgs BY <1>0, TypesAre
  <2> QED BY <1>0, <1>g, <2>1 DEF Failed, Grows
<1>10. RequestQueued' BY <1>0, <1>2 DEF RequestQueued
<1>11. GoneThrough'
  <2>1. \A x : RowsOf(x)' = RowsOf(x) BY DEF RowsOf
  <2>2. available \in SUBSET MailMsgs BY <1>0, TypesAre
  <2> QED BY <1>0, <1>2, <2>1, <2>2 DEF GoneThrough
<1> QED BY <1>3, <1>4, <1>5, <1>6, <1>7, <1>8, <1>9, <1>10, <1>11 DEF FetchInv

\* A message leaves the work of the loop, and the list of known post-messages if it is stored or
\* no row leads to it.
LEMMA LeftOutKeeps ==
    ASSUME FetchInv, NEW m \in MailMsgs, at \in {"known", "download"}, at' = at,
           \/ available' = available /\ (at = "known" => stored[m] = "absent")
           \/ available' = available \ {m} /\ (stored[m] # "absent" \/ RowsOf(m) = {}),
           work' = work \ {m}, stored' = stored, download' = download,
           box' = box, gone' = gone, uidNext' = uidNext, rows' = rows, session' = session,
           preStored' = preStored, batch' = batch, failing' = failing, asking' = asking,
           ownDeleted' = ownDeleted, lost' = lost, stuck' = stuck
    PROVE  FetchInv'
<1>0. FetchTypes /\ BatchTypes /\ Followed /\ Marked /\ Halved /\ GoneThrough /\ Failed
      /\ ServerCopyKept /\ RequestQueued
  BY DEF FetchInv
<1>3. FetchTypes'
  <2>1. available' \in SUBSET PostMsgs /\ work' \in SUBSET MailMsgs BY <1>0, TypesAre
  <2> QED BY <1>0, <2>1, TypesAre, TypesMove
<1>4. BatchTypes' BY <1>0, BatchOutside
<1>5. Followed'
  <2>1. Present' \subseteq Present BY DEF Present
  <2>2. \A v \in DOMAIN box : StillLed(v)
    <3> SUFFICES ASSUME NEW v \in DOMAIN box PROVE StillLed(v) OBVIOUS
    <3>1. Grows(box[v].msg) BY DEF Grows
    <3>2. ASSUME box[v].part \in {"post", "bigpost"}, v \in DOMAIN rows, box[v].msg = m, RowsOf(m) = {}
          PROVE  stored[m] # "absent"
      <4>1. v \notin RowsOf(m) /\ box[v].part # "pre" BY <3>2
      <4>2. rows[v] = "" BY <3>2, <4>1 DEF RowsOf
      <4> QED BY <1>0, <3>2, <4>2 DEF Marked
    <3> QED BY <3>1, <3>2 DEF StillLed
  <2>3. \A v \in Present' \ lost' : StillLed(v) BY <2>2 DEF Present
  <2> QED BY <1>0, <2>1, <2>3, FollowedOutside
<1>6. Marked' /\ ServerCopyKept' /\ Halved' /\ Failed' /\ RequestQueued'
  BY <1>0 DEF Marked, ServerCopyKept, Halved, Failed, RequestQueued
<1>7. GoneThrough'
  <2>1. \A x : RowsOf(x)' = RowsOf(x) BY DEF RowsOf
  <2>2. CASE available' = available /\ (at = "known" => stored[m] = "absent")
    BY <1>0, <2>1, <2>2 DEF GoneThrough
  <2>3. CASE available' = available \ {m}
    BY <1>0, <2>1, <2>3 DEF GoneThrough
  <2> QED BY <2>2, <2>3
<1> QED BY <1>3, <1>4, <1>5, <1>6, <1>7 DEF FetchInv

\* A known post-message is stored, or its pre-message is.
LEMMA KnownPostKeeps ==
    ASSUME FetchInv, NEW m \in MailMsgs, KnownPost(m)
    PROVE  FetchInv'
<1>1. at = "known" /\ at' = at /\ work' = work \ {m} BY DEF KnownPost, At
<1>2. /\ box' = box /\ gone' = gone /\ uidNext' = uidNext /\ rows' = rows /\ session' = session
      /\ preStored' = preStored /\ download' = download /\ batch' = batch /\ failing' = failing
      /\ asking' = asking /\ ownDeleted' = ownDeleted /\ lost' = lost /\ stuck' = stuck
  BY DEF KnownPost, serverVars, syncVars, fetchHistory
<1>3. CASE stored' = [stored EXCEPT ![m] = "done"] /\ available' = available \ {m} /\ stored[m] = "absent"
  BY <1>1, <1>2, <1>3, StoredKeeps
<1>4. CASE stored' = stored /\ available' = available \ {m} /\ (stored[m] # "absent" \/ RowsOf(m) = {})
  BY <1>1, <1>2, <1>4, LeftOutKeeps
<1>5. CASE stored' = stored /\ available' = available /\ stored[m] = "absent"
  BY <1>1, <1>2, <1>5, LeftOutKeeps
<1> QED BY <1>3, <1>4, <1>5 DEF KnownPost

\* A download that succeeds, or has no row here.
LEMMA DownloadOneKeeps ==
    ASSUME FetchInv, NEW m \in MailMsgs, DownloadOne(m)
    PROVE  FetchInv'
<1>1. at = "download" /\ at' = at /\ work' = work \ {m} BY DEF DownloadOne, At
<1>2. /\ box' = box /\ gone' = gone /\ uidNext' = uidNext /\ rows' = rows /\ session' = session
      /\ preStored' = preStored /\ batch' = batch /\ failing' = failing
      /\ asking' = asking /\ ownDeleted' = ownDeleted /\ lost' = lost /\ stuck' = stuck
  BY DEF DownloadOne, serverVars, syncVars, fetchHistory
<1>3. CASE RowsOf(m) = {}
  <2>1. available' = available \ {m} /\ stored' = stored /\ download' = download
    BY <1>3 DEF DownloadOne
  <2> QED BY <1>1, <1>2, <1>3, <2>1, LeftOutKeeps
<1>4. CASE RowsOf(m) # {}
  <2> DEFINE t == IF stored[m] = "deleted" THEN "deleted" ELSE "done"
  <2>1. /\ stored' = [stored EXCEPT ![m] = t] /\ download' = download \ {m} /\ available' = available \ {m}
    <3>1. stored' = [stored EXCEPT ![m] = IF stored[m] = "deleted" THEN stored[m] ELSE "done"]
          /\ download' = download \ {m} /\ available' = available \ {m}
      BY <1>4 DEF DownloadOne
    <3>2. (IF stored[m] = "deleted" THEN stored[m] ELSE "done") = t OBVIOUS
    <3> QED BY <3>1, <3>2
  <2>2. t \in {"done", "deleted"} /\ (stored[m] = "deleted" => t = "deleted") OBVIOUS
  <2> HIDE DEF t
  <2> QED BY <1>1, <1>2, <2>1, <2>2, StoredKeeps
<1> QED BY <1>3, <1>4

\* How far the folder goes.
LEMMA NextIs ==
    ASSUME FetchTypes
    PROVE  /\ Len(box) \in Nat /\ Len(box) + 1 \in 1 .. Len(box) + 1 /\ Len(box) + 1 \in 0 .. Len(box) + 1
           /\ session.next \in 0 .. Len(box) + 1 /\ session.newMail \in BOOLEAN
           /\ Closed \in [selected : BOOLEAN, next : 0 .. Len(box) + 1, newMail : BOOLEAN]
<1>1. Len(box) \in Nat BY BoxIs
<1>2. Len(box) + 1 \in 1 .. Len(box) + 1 /\ Len(box) + 1 \in 0 .. Len(box) + 1 /\ 0 \in 0 .. Len(box) + 1 BY <1>1
<1>3. session \in [selected : BOOLEAN, next : 0 .. Len(box) + 1, newMail : BOOLEAN] BY DEF FetchTypes
<1>4. session.next \in 0 .. Len(box) + 1 /\ session.newMail \in BOOLEAN BY <1>3
<1>5. Closed \in [selected : BOOLEAN, next : 0 .. Len(box) + 1, newMail : BOOLEAN] BY <1>2 DEF Closed
<1> QED BY <1>1, <1>2, <1>4, <1>5

\* A download that fails: a mail in one piece has no other row, so all of the message is in `lost`.
LEMMA DownloadFailsKeeps ==
    ASSUME FetchInv, NEW m \in MailMsgs, DownloadFails(m)
    PROVE  FetchInv'
<1>0. FetchTypes /\ BatchTypes /\ Followed /\ Marked /\ Halved /\ GoneThrough /\ Failed
      /\ ServerCopyKept /\ RequestQueued
  BY DEF FetchInv
<1>1. at = "download" /\ work' = work \ {m} /\ RowsOf(m) # {} BY DEF DownloadFails, At
<1>2. /\ box' = box /\ gone' = gone /\ uidNext' = uidNext /\ rows' = rows /\ session' = session
      /\ preStored' = preStored /\ available' = available /\ batch' = batch
      /\ asking' = asking /\ ownDeleted' = ownDeleted /\ stuck' = stuck
  BY DEF DownloadFails, serverVars, syncVars
<1>p. Present' \subseteq Present BY <1>2 DEF Present
<1>3. CASE /\ stored[m] = "absent" /\ download' = download \ {m} /\ lost' = lost \cup RowsOf(m)
           /\ stored' = stored /\ at' = at /\ failing' = failing
  <2>1. FetchTypes' BY <1>0, <1>1, <1>2, <1>3, TypesAre, TypesMove
  <2>2. BatchTypes' BY <1>0, <1>1, <1>2, <1>3, BatchOutside
  <2>3. Followed'
    <3>1. \A v \in Present' \ lost' : StillLed(v)
      <4> SUFFICES ASSUME NEW v \in Present' \ lost' PROVE StillLed(v) OBVIOUS
      <4>1. v \in DOMAIN box /\ v \notin RowsOf(m) BY <1>2, <1>3 DEF Present
      <4>2. Grows(box[v].msg) BY <1>2, <1>3 DEF Grows
      <4>3. ASSUME box[v].part = "large", box[v].msg = m PROVE FALSE
        <5>1. PICK w : w \in RowsOf(m) BY <1>1
        <5>2. w \in DOMAIN box /\ box[w].msg = m BY <1>0, <5>1, TypesAre DEF RowsOf
        <5>3. box[v] \in Mails /\ box[w] \in Mails BY <1>0, <4>1, <5>2, BoxIs
        <5>4. box[w] = box[v] BY <4>3, <5>2, <5>3, OnePiece
        <5>5. w = v BY <1>0, <4>1, <5>2, <5>4 DEF FetchTypes
        <5> QED BY <4>1, <5>1, <5>5
      <4> QED BY <1>2, <1>3, <4>2, <4>3 DEF StillLed
    <3> QED BY <1>0, <1>1, <1>2, <1>3, <1>p, <3>1, FollowedOutside
  <2>4. Marked' /\ ServerCopyKept' /\ Halved' /\ Failed'
    BY <1>0, <1>2, <1>3 DEF Marked, ServerCopyKept, Halved, Failed
  <2>5. RequestQueued' BY <1>0, <1>2, <1>3 DEF RequestQueued
  <2>6. GoneThrough' BY <1>0, <1>1, <1>2, <1>3 DEF GoneThrough, RowsOf
  <2> QED BY <2>1, <2>2, <2>3, <2>4, <2>5, <2>6 DEF FetchInv
<1>4. CASE /\ stored[m] # "absent" /\ m \in available /\ stored' = [stored EXCEPT ![m] = "failure"]
           /\ at' = "unqueue" /\ failing' = {m} /\ download' = download /\ lost' = lost
  <2>1. stored \in [MailMsgs -> DownloadStates] /\ "failure" \in DownloadStates
    BY <1>0 DEF FetchTypes, DownloadStates
  <2>2. stored' \in [MailMsgs -> DownloadStates]
        /\ \A x \in MailMsgs : stored'[x] = IF x = m THEN "failure" ELSE stored[x]
    BY <1>4, <2>1
  <2>3. stored[m] # "done" /\ stored[m] # "deleted"
    BY <1>0, <1>1, <1>4 DEF GoneThrough
  <2>4. stored[m] \in {"available", "inprogress", "failure"}
    BY <1>4, <2>1, <2>3 DEF DownloadStates
  <2>5. \A x \in MailMsgs : Grows(x) BY <1>2, <1>4, <2>2, <2>3 DEF Grows
  <2>6. FetchTypes'
    <3>1. available \in SUBSET PostMsgs BY <1>0, TypesAre
    <3>2. failing' \in SUBSET PostMsgs BY <1>4, <3>1
    <3> QED BY <1>0, <1>1, <1>2, <1>4, <2>2, <3>2, TypesAre, TypesMove
  <2>7. BatchTypes' BY <1>0, <1>1, <1>2, <1>4, BatchOutside
  <2>8. Followed'
    <3>1. \A v \in DOMAIN box : StillLed(v)
      <4> SUFFICES ASSUME NEW v \in DOMAIN box PROVE StillLed(v) OBVIOUS
      <4>1. Grows(box[v].msg) BY <1>0, <2>5, BoxIs
      <4> QED BY <1>2, <1>4, <4>1 DEF StillLed
    <3>2. \A v \in Present' \ lost' : StillLed(v) BY <1>2, <3>1 DEF Present
    <3> QED BY <1>0, <1>1, <1>2, <1>4, <1>p, <3>2, FollowedOutside
  <2>9. Marked'
    <3>1. \A v \in DOMAIN rows : box[v].msg \in MailMsgs BY <1>0, BoxIs, TypesAre
    <3> QED BY <1>0, <1>2, <2>2, <2>3, <3>1 DEF Marked
  <2>10. ServerCopyKept'
    <3>1. \A v \in ownDeleted : Grows(box[v].msg) BY <1>0, <2>5, BoxIs, TypesAre
    <3> QED BY <1>0, <1>2, <3>1 DEF ServerCopyKept, Grows
  <2>11. Halved' BY <1>0, <1>2, <2>2, <2>4 DEF Halved
  <2>12. Failed' BY <1>4, <2>2 DEF Failed
  <2>13. RequestQueued' BY <1>0, <1>2, <1>4, <2>2 DEF RequestQueued
  <2>14. GoneThrough'
    <3>1. \A x : RowsOf(x)' = RowsOf(x) BY <1>2 DEF RowsOf
    <3>2. available \in SUBSET MailMsgs BY <1>0, TypesAre
    <3> QED BY <1>0, <1>1, <1>2, <1>4, <2>2, <3>1, <3>2 DEF GoneThrough
  <2> QED BY <2>6, <2>7, <2>8, <2>9, <2>10, <2>11, <2>12, <2>13, <2>14 DEF FetchInv
<1>5. CASE stored' = stored /\ download' = download /\ lost' = lost /\ at' = at /\ failing' = failing
  BY <1>1, <1>2, <1>5, LeftOutKeeps
<1> QED BY <1>3, <1>4, <1>5 DEF DownloadFails, Go

\* The folder is selected: under a new UIDVALIDITY everything in it counts as lost, otherwise the
\* rows still lead to what is on the server.
LEMMA SelectedKeeps ==
    ASSUME FetchInv, at \in {"select", "download"}, at' \in {"select", "prefetch", "expire"},
           \/ DOMAIN box \subseteq lost'
           \/ /\ uidNext' = uidNext /\ lost' = lost
              /\ \A u \in Present : u \in DOMAIN rows => u \in DOMAIN rows',
           uidNext' \in 1 .. Len(box) + 1,
           session' \in [selected : BOOLEAN, next : 0 .. Len(box) + 1, newMail : BOOLEAN],
           rows' \in [DOMAIN rows' -> {"", "inbox"}], DOMAIN rows' \in SUBSET DOMAIN box,
           \A u \in DOMAIN rows' : rows'[u] = "" => u \in DOMAIN rows /\ rows[u] = "",
           box' = box, gone' = gone, stored' = stored, preStored' = preStored, download' = download,
           available' = available, batch' = batch, work' = work, failing' = failing, asking' = asking,
           ownDeleted' = ownDeleted, stuck' = stuck
    PROVE  FetchInv'
<1>0. FetchTypes /\ BatchTypes /\ Followed /\ Marked /\ Halved /\ GoneThrough /\ Failed
      /\ ServerCopyKept /\ RequestQueued
  BY DEF FetchInv
<1>1. FetchTypes' BY <1>0, TypesAre, TypesMove
<1>2. BatchTypes' BY <1>0, BatchOutside
<1>3. Followed'
  <2>1. CASE DOMAIN box \subseteq lost'
    BY <2>1 DEF Followed, Present
  <2>2. CASE /\ uidNext' = uidNext /\ lost' = lost
             /\ \A u \in Present : u \in DOMAIN rows => u \in DOMAIN rows'
    <3>1. Present' \subseteq Present BY DEF Present
    <3>2. \A v \in Present' \ lost' : StillLed(v) BY <2>2, <3>1 DEF StillLed, Grows
    <3> QED BY <1>0, <2>2, <3>1, <3>2, FollowedOutside
  <2> QED BY <2>1, <2>2
<1>4. Marked' BY <1>0 DEF Marked
<1>5. ServerCopyKept' /\ Halved' /\ Failed' /\ RequestQueued'
  BY <1>0 DEF ServerCopyKept, Halved, Failed, RequestQueued
<1>6. GoneThrough' BY DEF GoneThrough
<1> QED BY <1>1, <1>2, <1>3, <1>4, <1>5, <1>6 DEF FetchInv

\* The first step of a round.
LEMMA SelectInboxKeeps ==
    ASSUME FetchInv, SelectInbox
    PROVE  FetchInv'
<1>0. FetchTypes BY DEF FetchInv
<1>1. at = "select" /\ at' \in {"prefetch", "expire"} BY DEF SelectInbox, At, Go
<1>2. /\ box' = box /\ gone' = gone /\ stored' = stored /\ preStored' = preStored
      /\ download' = download /\ available' = available /\ batch' = batch /\ work' = work
      /\ failing' = failing /\ asking' = asking /\ ownDeleted' = ownDeleted /\ stuck' = stuck
  BY DEF SelectInbox, serverVars, storeVars
<1>3. /\ rows \in [DOMAIN rows -> {"", "inbox"}] /\ DOMAIN rows \in SUBSET DOMAIN box
      /\ uidNext \in 1 .. Len(box) + 1
      /\ session \in [selected : BOOLEAN, next : 0 .. Len(box) + 1, newMail : BOOLEAN]
  BY <1>0, TypesAre
<1>4. /\ rows' \in [DOMAIN rows' -> {"", "inbox"}] /\ DOMAIN rows' \in SUBSET DOMAIN box
      /\ \A u \in DOMAIN rows' : rows'[u] = "" => u \in DOMAIN rows /\ rows[u] = ""
      /\ ~Reselects => \A u \in Present : u \in DOMAIN rows => u \in DOMAIN rows'
  <2>1. CASE resync
    <3>1. rows' = [u \in Present |-> "inbox"] BY <2>1 DEF SelectInbox
    <3> QED BY <3>1 DEF Present
  <2>2. CASE ~resync /\ Reselects
    <3>1. rows' = <<>> BY <2>2 DEF SelectInbox, SelectedRows
    <3> QED BY <2>2, <3>1
  <2>3. CASE ~resync /\ ~Reselects
    <3>1. rows' = rows BY <2>3 DEF SelectInbox, SelectedRows
    <3> QED BY <1>3, <3>1
  <2> QED BY <2>1, <2>2, <2>3
<1>5. CASE session.selected
  <2>1. session' = session /\ uidNext' = uidNext /\ lost' = lost /\ ~Reselects
    BY <1>5 DEF SelectInbox, SelectFolder, Reselects
  <2> QED BY <1>1, <1>2, <1>3, <1>4, <2>1, SelectedKeeps
<1>6. CASE ~session.selected
  <2>1. /\ session' = [selected |-> TRUE, next |-> Len(box) + 1,
                       newMail |-> session.newMail \/ Reselects \/ Len(box) + 1 # uidNext]
        /\ uidNext' = IF Reselects THEN Len(box) + 1 ELSE uidNext
        /\ lost' = IF Reselects THEN lost \cup DOMAIN box ELSE lost
    BY <1>6 DEF SelectInbox, SelectFolder
  <2>2. session' \in [selected : BOOLEAN, next : 0 .. Len(box) + 1, newMail : BOOLEAN]
    <3>1. Len(box) + 1 \in 0 .. Len(box) + 1 BY <1>0, NextIs
    <3> DEFINE b == session.newMail \/ Reselects \/ Len(box) + 1 # uidNext
    <3>2. b \in BOOLEAN OBVIOUS
    <3>3. session' = [selected |-> TRUE, next |-> Len(box) + 1, newMail |-> b] BY <2>1
    <3> HIDE DEF b
    <3> QED BY <3>1, <3>2, <3>3
  <2>3. uidNext' \in 1 .. Len(box) + 1 BY <1>0, <1>3, <2>1, NextIs
  <2>4. CASE Reselects
    <3>1. DOMAIN box \subseteq lost' BY <2>1, <2>4
    <3> QED BY <1>1, <1>2, <1>4, <2>2, <2>3, <3>1, SelectedKeeps
  <2>5. CASE ~Reselects
    <3>1. uidNext' = uidNext /\ lost' = lost BY <2>1, <2>5
    <3> QED BY <1>1, <1>2, <1>4, <2>2, <2>3, <2>5, <3>1, SelectedKeeps
  <2> QED BY <2>4, <2>5
<1> QED BY <1>5, <1>6

\* The last step of a round.
LEMMA IdlingKeeps ==
    ASSUME FetchInv, Idling
    PROVE  FetchInv'
<1>0. FetchTypes BY DEF FetchInv
<1>1. at = "download" /\ at' = "select" BY DEF Idling, At, Go
<1>2. /\ box' = box /\ gone' = gone /\ stored' = stored /\ preStored' = preStored
      /\ download' = download /\ available' = available /\ batch' = batch /\ work' = work
      /\ failing' = failing /\ asking' = asking /\ ownDeleted' = ownDeleted /\ stuck' = stuck
  BY DEF Idling, serverVars, storeVars
<1>3. /\ rows \in [DOMAIN rows -> {"", "inbox"}] /\ DOMAIN rows \in SUBSET DOMAIN box
      /\ uidNext \in 1 .. Len(box) + 1
      /\ session \in [selected : BOOLEAN, next : 0 .. Len(box) + 1, newMail : BOOLEAN]
  BY <1>0, TypesAre
<1>4. CASE rows' = SelectedRows /\ uidNext' = (IF Reselects THEN Len(box) + 1 ELSE uidNext)
           /\ lost' = (IF Reselects THEN lost \cup DOMAIN box ELSE lost)
           /\ session' = [selected |-> TRUE, newMail |-> TRUE,
                          next |-> IF session.selected THEN session.next ELSE Len(box) + 1]
  <2>1. session' \in [selected : BOOLEAN, next : 0 .. Len(box) + 1, newMail : BOOLEAN]
    <3>1. (IF session.selected THEN session.next ELSE Len(box) + 1) \in 0 .. Len(box) + 1 BY <1>0, NextIs
    <3> QED BY <1>4, <3>1
  <2>2. uidNext' \in 1 .. Len(box) + 1 BY <1>0, <1>3, <1>4, NextIs
  <2>3. CASE Reselects
    <3>1. rows' = <<>> /\ DOMAIN box \subseteq lost' BY <1>4, <2>3 DEF SelectedRows
    <3>2. /\ rows' \in [DOMAIN rows' -> {"", "inbox"}] /\ DOMAIN rows' \in SUBSET DOMAIN box
          /\ \A u \in DOMAIN rows' : rows'[u] = "" => u \in DOMAIN rows /\ rows[u] = ""
      BY <3>1
    <3> QED BY <1>1, <1>2, <2>1, <2>2, <3>1, <3>2, SelectedKeeps
  <2>4. CASE ~Reselects
    <3>1. rows' = rows /\ uidNext' = uidNext /\ lost' = lost BY <1>4, <2>4 DEF SelectedRows
    <3> QED BY <1>1, <1>2, <1>3, <2>1, <2>2, <3>1, SelectedKeeps
  <2> QED BY <2>3, <2>4
<1>5. CASE session' = session /\ uidNext' = uidNext /\ rows' = rows /\ lost' = lost
  BY <1>1, <1>2, <1>3, <1>5, SelectedKeeps
<1> QED BY <1>4, <1>5 DEF Idling, syncVars

\* Only what is stored or deleted here is marked.
LEMMA DeleteOnServerKeeps ==
    ASSUME FetchInv, DeleteOnServer
    PROVE  FetchInv'
<1> DEFINE marked == {u \in DOMAIN rows : rows[u] = "" \/ (DeleteDownloaded /\ Downloaded(box[u]))}
<1>0. FetchTypes /\ BatchTypes /\ Followed /\ Marked /\ Halved /\ GoneThrough /\ Failed
      /\ ServerCopyKept /\ RequestQueued
  BY DEF FetchInv
<1>1. at = "expire" /\ at' = "known" /\ work' = available BY DEF DeleteOnServer, At, Go
<1>2. /\ box' = box /\ uidNext' = uidNext /\ stored' = stored /\ preStored' = preStored
      /\ download' = download /\ available' = available /\ batch' = batch
      /\ failing' = failing /\ asking' = asking /\ lost' = lost /\ stuck' = stuck
  BY DEF DeleteOnServer, storeVars
<1>3. /\ rows \in [DOMAIN rows -> {"", "inbox"}] /\ DOMAIN rows \in SUBSET DOMAIN box
      /\ gone \in SUBSET DOMAIN box /\ ownDeleted \in SUBSET DOMAIN box
      /\ session \in [selected : BOOLEAN, next : 0 .. Len(box) + 1, newMail : BOOLEAN]
  BY <1>0, TypesAre
<1>4. /\ rows' \in [DOMAIN rows' -> {"", "inbox"}] /\ DOMAIN rows' = DOMAIN rows \ marked
      /\ \A u \in DOMAIN rows' : rows'[u] = rows[u]
      /\ gone' = gone \cup marked /\ ownDeleted' = ownDeleted \cup (marked \ gone)
      /\ session' \in [selected : BOOLEAN, next : 0 .. Len(box) + 1, newMail : BOOLEAN]
  <2>1. CASE marked = {}
    <3>1. rows' = rows /\ gone' = gone /\ ownDeleted' = ownDeleted /\ session' = session
      BY <2>1 DEF DeleteOnServer
    <3> QED BY <1>3, <2>1, <3>1
  <2>2. CASE marked # {}
    <3>1. /\ rows' = Restrict(rows, DOMAIN rows \ marked) /\ gone' = gone \cup marked
          /\ ownDeleted' = ownDeleted \cup (marked \ gone) /\ session' = Closed
      BY <2>2 DEF DeleteOnServer
    <3>2. rows' = [u \in DOMAIN rows \ marked |-> rows[u]] BY <3>1 DEF Restrict
    <3>3. session' \in [selected : BOOLEAN, next : 0 .. Len(box) + 1, newMail : BOOLEAN]
      BY <1>0, <3>1, NextIs
    <3> HIDE DEF marked
    <3> QED BY <1>3, <3>1, <3>2, <3>3
  <2> QED BY <2>1, <2>2
<1>5. marked \subseteq DOMAIN rows OBVIOUS
<1>6. \A u \in marked : \/ stored[box[u].msg] \in {"done", "deleted"}
                        \/ box[u].part = "pre" /\ box[u].msg \in preStored
  BY <1>0 DEF Marked, Downloaded
<1> HIDE DEF marked
<1>7. FetchTypes'
  <2>1. /\ gone' \in SUBSET DOMAIN box /\ ownDeleted' \in SUBSET DOMAIN box
        /\ DOMAIN rows' \in SUBSET DOMAIN box
    BY <1>3, <1>4, <1>5
  <2> QED BY <1>0, <1>1, <1>2, <1>4, <2>1, TypesAre, TypesMove
<1>8. BatchTypes' BY <1>0, <1>1, <1>2, BatchOutside
<1>9. Followed'
  <2>1. Present' \subseteq Present BY <1>2, <1>4 DEF Present
  <2>2. \A v \in Present' : v \notin marked BY <1>4 DEF Present
  <2>3. \A v \in Present' \ lost' : StillLed(v) BY <1>2, <1>4, <2>2 DEF StillLed, Grows
  <2> QED BY <1>0, <1>1, <1>2, <2>1, <2>3, FollowedOutside
<1>10. Marked' BY <1>0, <1>2, <1>4 DEF Marked
<1>11. ServerCopyKept' BY <1>0, <1>2, <1>4, <1>6 DEF ServerCopyKept
<1>12. Halved' /\ Failed' /\ RequestQueued' BY <1>0, <1>2 DEF Halved, Failed, RequestQueued
<1>13. GoneThrough' BY <1>1, <1>2 DEF GoneThrough
<1> QED BY <1>7, <1>8, <1>9, <1>10, <1>11, <1>12, <1>13 DEF FetchInv

\* The batch is given up: what it put off and has passed is lost.
LEMMA GivenUpKeeps ==
    ASSUME FetchInv, at' = "select", batch' = NoBatch, session' = Closed,
           uidNext' \in 1 .. Len(box) + 1, lost \subseteq lost',
           \A u \in Present \ lost' : u < uidNext' => Led(u),
           work' \in SUBSET MailMsgs, failing' \in SUBSET failing, asking' \in SUBSET asking,
           asking \subseteq asking' \cup stuck', stuck \subseteq stuck',
           box' = box, gone' = gone, rows' = rows, stored' = stored, preStored' = preStored,
           download' = download, available' = available, ownDeleted' = ownDeleted
    PROVE  FetchInv'
<1>0. FetchTypes /\ Marked /\ Halved /\ Failed /\ ServerCopyKept /\ RequestQueued
  BY DEF FetchInv
<1>1. Len(box) \in Nat BY <1>0, BoxIs
<1>2. FetchTypes'
  <2>1. session' \in [selected : BOOLEAN, next : 0 .. Len(box) + 1, newMail : BOOLEAN]
    BY <1>0, NextIs
  <2>2. asking' \in SUBSET MailMsgs /\ failing' \in SUBSET PostMsgs BY <1>0, TypesAre
  <2> QED BY <1>0, <2>1, <2>2, TypesAre, TypesMove
<1>3. BatchTypes'
  <2>1. NoBatch \in [old : Nat, todo : SUBSET DOMAIN box, later : SUBSET MailMsgs, posts : SUBSET PostMsgs,
                     skipped : 0 .. Len(box), got : 0 .. Len(box), ok : BOOLEAN]
    BY <1>1 DEF NoBatch
  <2>2. NoBatch.todo = {} /\ PostMsgs' = PostMsgs BY DEF NoBatch, PostMsgs
  <2> HIDE DEF NoBatch
  <2> QED BY <2>1, <2>2 DEF BatchTypes
<1>4. Followed'
  <2> SUFFICES ASSUME NEW u \in Present' \ lost', u < uidNext' PROVE Led(u)'
    BY DEF Followed
  <2>1. u \in Present \ lost' /\ Led(u) BY DEF Present
  <2>2. StillLed(u) BY DEF StillLed, Grows
  <2> QED BY <2>1, <2>2, LedStays
<1>5. Marked' /\ ServerCopyKept' /\ Halved' /\ Failed'
  BY <1>0 DEF Marked, ServerCopyKept, Halved, Failed
<1>6. RequestQueued' BY <1>0 DEF RequestQueued
<1>7. GoneThrough' BY DEF GoneThrough
<1> QED BY <1>2, <1>3, <1>4, <1>5, <1>6, <1>7 DEF FetchInv

\* A death between Advance and Record loses what the batch had noted.
LEMMA FetchDiesKeeps ==
    ASSUME FetchInv, NEW dies \in BOOLEAN, FetchDies(dies)
    PROVE  FetchInv'
<1>0. FetchTypes /\ Followed BY DEF FetchInv
<1>1. /\ at' = "select" /\ batch' = NoBatch /\ session' = Closed /\ work' = {} /\ failing' = {}
      /\ lost' = IF at = "record" THEN lost \cup {u \in DOMAIN box : u < uidNext
                                          /\ box[u].msg \in batch.later \cup batch.posts} ELSE lost
  BY DEF FetchDies, At
<1>2. /\ box' = box /\ gone' = gone /\ rows' = rows /\ stored' = stored /\ preStored' = preStored
      /\ uidNext' = uidNext /\ download' = download /\ available' = available /\ ownDeleted' = ownDeleted
  BY DEF FetchDies, serverVars, syncVars, storeVars
<1>3. asking' \in SUBSET asking /\ asking \subseteq asking' \cup stuck' /\ stuck \subseteq stuck'
  BY DEF FetchDies
<1>4. lost \subseteq lost' BY <1>1
<1>5. \A u \in Present \ lost' : u < uidNext' => Led(u)
  <2> SUFFICES ASSUME NEW u \in Present \ lost', u < uidNext PROVE Led(u) BY <1>2
  <2>1. u \in Present \ lost /\ u \in DOMAIN box BY <1>4 DEF Present
  <2>2. CASE at = "record"
    <3>1. ~Noted(u) BY <1>1, <2>1, <2>2 DEF Noted
    <3> QED BY <1>0, <2>1, <2>2, <3>1 DEF Followed
  <2>3. CASE at # "record" BY <1>0, <2>1, <2>3 DEF Followed
  <2> QED BY <2>2, <2>3
<1>6. uidNext' \in 1 .. Len(box) + 1 BY <1>0, <1>2, TypesAre
<1> QED BY <1>1, <1>2, <1>3, <1>4, <1>5, <1>6, GivenUpKeeps

----------------------------------------------------------------------------
(* The batches. *)

\* The fields of a batch one by one.
LEMMA BatchIs ==
    ASSUME BatchTypes
    PROVE  /\ batch.old \in Nat /\ batch.todo \in SUBSET DOMAIN box /\ batch.later \in SUBSET MailMsgs
           /\ batch.posts \in SUBSET PostMsgs /\ batch.skipped \in 0 .. Len(box)
           /\ batch.got \in 0 .. Len(box) /\ batch.ok \in BOOLEAN
BY DEF BatchTypes

\* The batch goes on: some of its mails are dealt with.
LEMMA BatchGoesOn ==
    ASSUME FetchInv, at = "fetch", at' = at,
           batch' \in [old : Nat, todo : SUBSET DOMAIN box, later : SUBSET MailMsgs, posts : SUBSET PostMsgs,
                       skipped : 0 .. Len(box), got : 0 .. Len(box), ok : BOOLEAN],
           batch'.old = batch.old, batch'.later = batch.later, batch'.posts = batch.posts,
           batch'.skipped = batch.skipped, batch'.todo \subseteq batch.todo,
           batch'.ok => batch.ok, batch'.todo # {} => batch'.ok,
           batch'.got \in batch.todo \cup {batch.got}, \A v \in batch'.todo : batch'.got < v,
           \A w \in batch.todo \ batch'.todo : w \in gone \/ w \in lost' \/ Led(w)' \/ (~batch'.ok /\ batch'.got < w),
           lost \subseteq lost', stored' \in [MailMsgs -> DownloadStates], preStored' \in SUBSET PreMsgs,
           \A x \in MailMsgs : Grows(x), Marked', Halved', RequestQueued',
           box' = box, gone' = gone, uidNext' = uidNext, rows' = rows, session' = session,
           download' = download, available' = available, work' = work, failing' = failing,
           asking' = asking, ownDeleted' = ownDeleted
    PROVE  FetchInv'
<1>0. FetchTypes /\ BatchTypes /\ Followed /\ Failed /\ ServerCopyKept BY DEF FetchInv
<1>1. FetchTypes' BY <1>0, TypesAre, TypesMove
<1>n. Numbers BY <1>0, NumbersAre
<1>2. BatchTypes'
  <2>1. /\ batch.old = uidNext /\ batch.got < batch.old + Window /\ batch.skipped < batch.old + Window
        /\ \A u \in batch.todo : box[u].part \in {"small", "pre"} /\ batch.old <= u /\ u < batch.old + Window
    BY <1>0 DEF BatchTypes
  <2>2. batch'.got < batch'.old + Window BY <2>1
  <2>3. PostMsgs' = PostMsgs BY DEF PostMsgs
  <2> QED BY <2>1, <2>2, <2>3 DEF BatchTypes
<1>3. Followed'
  <2> SUFFICES ASSUME NEW u \in Present' \ lost'
               PROVE  /\ u < uidNext' => Led(u)'
                      /\ Passing(u)' => u \in batch'.todo \/ Led(u)' \/ Noted(u)'
    BY DEF Followed
  <2>1. u \in Present \ lost /\ u \in DOMAIN box /\ u \notin gone BY DEF Present
  <2>2. StillLed(u)
    <3>1. Grows(box[u].msg) BY <1>0, <2>1, BoxIs
    <3> QED BY <3>1 DEF StillLed
  <2>3. Led(u) => Led(u)' BY <2>2, LedStays
  <2>4. Noted(u) => Noted(u)' BY DEF Noted
  <2>5. u < uidNext' => Led(u)' BY <1>0, <2>1, <2>3 DEF Followed
  <2>6. ASSUME Passing(u)' PROVE Passing(u)
    <3>1. batch.old <= u /\ u < batch.old + Window BY <2>6 DEF Passing
    <3>2. CASE u <= batch'.got
      <4>1. CASE batch'.got = batch.got BY <3>1, <3>2, <4>1 DEF Passing
      <4>2. CASE batch'.got \in batch.todo
        <5>1. batch.ok BY <1>0, <4>2 DEF BatchTypes
        <5> QED BY <3>1, <3>2, <4>2, <5>1 DEF Passing
      <4> QED BY <4>1, <4>2
    <3>3. CASE batch'.ok /\ (u < session.next \/ u <= batch.skipped \/ \E v \in batch'.todo : u <= v)
      BY <3>1, <3>3 DEF Passing
    <3> QED BY <2>6, <3>2, <3>3 DEF Passing
  <2>7. ASSUME Passing(u)', u \in batch.todo, u \notin batch'.todo PROVE Led(u)'
    <3>1. ~(~batch'.ok /\ batch'.got < u)
      <4>1. SUFFICES ASSUME ~batch'.ok, batch'.got < u PROVE FALSE OBVIOUS
      <4>2. u <= batch'.got BY <2>7, <4>1 DEF Passing
      <4>3. u \in Nat /\ batch'.got \in Nat BY <1>n, <2>7 DEF Numbers
      <4> QED BY <4>1, <4>2, <4>3
    <3> QED BY <2>1, <2>7, <3>1
  <2>8. ASSUME Passing(u)' PROVE u \in batch'.todo \/ Led(u)' \/ Noted(u)'
    <3>1. u \in batch.todo \/ Led(u) \/ Noted(u) BY <1>0, <2>1, <2>6, <2>8 DEF Followed
    <3> QED BY <2>3, <2>4, <2>7, <2>8, <3>1
  <2> QED BY <2>5, <2>8
<1>4. ServerCopyKept'
  <2>1. \A v \in ownDeleted : Grows(box[v].msg) BY <1>0, BoxIs, TypesAre
  <2> QED BY <1>0, <2>1 DEF ServerCopyKept, Grows
<1>5. Failed'
  <2>1. \A x \in failing : x \in MailMsgs BY <1>0, TypesAre
  <2> QED BY <1>0, <2>1 DEF Failed, Grows
<1>6. GoneThrough' BY DEF GoneThrough
<1> QED BY <1>1, <1>2, <1>3, <1>4, <1>5, <1>6 DEF FetchInv

\* After a failure the batch passes no more than it got.
LEMMA FetchBreaksKeeps ==
    ASSUME FetchInv, FetchBreaks
    PROVE  FetchInv'
<1>0. FetchTypes /\ BatchTypes /\ Marked /\ Halved /\ RequestQueued BY DEF FetchInv
<1>1. at = "fetch" /\ batch' = [batch EXCEPT !.ok = FALSE, !.todo = {}] BY DEF FetchBreaks, At
<1>2. /\ box' = box /\ gone' = gone /\ uidNext' = uidNext /\ rows' = rows /\ session' = session /\ at' = at
      /\ stored' = stored /\ preStored' = preStored /\ download' = download /\ available' = available
      /\ work' = work /\ failing' = failing /\ asking' = asking /\ ownDeleted' = ownDeleted
      /\ lost' = lost /\ stuck' = stuck
  BY DEF FetchBreaks, serverVars, syncVars, storeVars, fetchHistory
<1>3. batch \in [old : Nat, todo : SUBSET DOMAIN box, later : SUBSET MailMsgs, posts : SUBSET PostMsgs,
                 skipped : 0 .. Len(box), got : 0 .. Len(box), ok : BOOLEAN]
  BY <1>0 DEF BatchTypes
<1>4. /\ batch' \in [old : Nat, todo : SUBSET DOMAIN box, later : SUBSET MailMsgs, posts : SUBSET PostMsgs,
                     skipped : 0 .. Len(box), got : 0 .. Len(box), ok : BOOLEAN]
      /\ batch'.old = batch.old /\ batch'.later = batch.later /\ batch'.posts = batch.posts
      /\ batch'.skipped = batch.skipped /\ batch'.todo = {} /\ batch'.ok = FALSE /\ batch'.got = batch.got
  BY <1>1, <1>3
<1>5. \A w \in batch.todo : batch.got < w BY <1>0, <1>1 DEF BatchTypes
<1>6. stored' \in [MailMsgs -> DownloadStates] /\ preStored' \in SUBSET PreMsgs BY <1>0, <1>2, TypesAre
<1>7. \A x \in MailMsgs : Grows(x) BY <1>2 DEF Grows
<1>8. Marked' /\ Halved' /\ RequestQueued' BY <1>0, <1>2 DEF Marked, Halved, RequestQueued
<1> QED BY <1>1, <1>2, <1>4, <1>5, <1>6, <1>7, <1>8, BatchGoesOn

\* The next mail is dealt with, whether it was fetched or is gone.
LEMMA NextGoes ==
    ASSUME FetchInv, NEW u \in batch.todo, IsNext(u),
           \/ batch' = [batch EXCEPT !.todo = @ \ {u}]
           \/ batch' = [batch EXCEPT !.todo = @ \ {u}, !.got = u]
    PROVE  /\ at = "fetch"
           /\ batch' \in [old : Nat, todo : SUBSET DOMAIN box, later : SUBSET MailMsgs, posts : SUBSET PostMsgs,
                          skipped : 0 .. Len(box), got : 0 .. Len(box), ok : BOOLEAN]
           /\ batch'.old = batch.old /\ batch'.later = batch.later /\ batch'.posts = batch.posts
           /\ batch'.skipped = batch.skipped /\ batch'.todo = batch.todo \ {u}
           /\ batch'.ok = batch.ok /\ batch.ok
           /\ batch'.got \in {batch.got, u} /\ \A v \in batch'.todo : batch'.got < v
           /\ u \in DOMAIN box /\ box[u] \in Mails /\ box[u].msg \in MailMsgs /\ box[u].part \in {"small", "pre"}
<1>0. FetchTypes /\ BatchTypes BY DEF FetchInv
<1>1. at = "fetch" /\ \A v \in batch.todo : u <= v BY DEF IsNext, At
<1>2. batch \in [old : Nat, todo : SUBSET DOMAIN box, later : SUBSET MailMsgs, posts : SUBSET PostMsgs,
                 skipped : 0 .. Len(box), got : 0 .. Len(box), ok : BOOLEAN]
  BY <1>0 DEF BatchTypes
<1>3. Len(box) \in Nat /\ DOMAIN box = 1 .. Len(box) BY <1>0, BoxIs
<1>4. u \in DOMAIN box /\ u \in 0 .. Len(box) /\ \A v \in batch.todo : v \in Nat
  BY <1>2, <1>3
<1>5. /\ batch' \in [old : Nat, todo : SUBSET DOMAIN box, later : SUBSET MailMsgs, posts : SUBSET PostMsgs,
                     skipped : 0 .. Len(box), got : 0 .. Len(box), ok : BOOLEAN]
      /\ batch'.old = batch.old /\ batch'.later = batch.later /\ batch'.posts = batch.posts
      /\ batch'.skipped = batch.skipped /\ batch'.todo = batch.todo \ {u}
      /\ batch'.ok = batch.ok /\ batch'.got \in {batch.got, u}
  <2>1. CASE batch' = [batch EXCEPT !.todo = @ \ {u}] BY <1>2, <2>1
  <2>2. CASE batch' = [batch EXCEPT !.todo = @ \ {u}, !.got = u] BY <1>2, <1>4, <2>2
  <2> QED BY <2>1, <2>2
<1>6. /\ batch.ok /\ box[u].part \in {"small", "pre"} /\ \A v \in batch.todo : batch.got < v
  BY <1>0, <1>1 DEF BatchTypes
<1>7. \A v \in batch.todo \ {u} : u < v BY <1>1, <1>4
<1>8. \A v \in batch'.todo : batch'.got < v BY <1>5, <1>6, <1>7
<1>9. box[u] \in Mails /\ box[u].msg \in MailMsgs BY <1>0, <1>4, BoxIs
<1> QED BY <1>1, <1>4, <1>5, <1>6, <1>8, <1>9

\* A mail that cannot be stored is lost.
LEMMA FetchUnreadableKeeps ==
    ASSUME FetchInv, NEW u \in batch.todo, FetchUnreadable(u)
    PROVE  FetchInv'
<1>0. FetchTypes /\ Marked /\ Halved /\ RequestQueued BY DEF FetchInv
<1>1. IsNext(u) /\ batch' = [batch EXCEPT !.todo = @ \ {u}, !.got = u] /\ lost' = lost \cup {u}
  BY DEF FetchUnreadable
<1>2. /\ box' = box /\ gone' = gone /\ uidNext' = uidNext /\ rows' = rows /\ session' = session /\ at' = at
      /\ stored' = stored /\ preStored' = preStored /\ download' = download /\ available' = available
      /\ work' = work /\ failing' = failing /\ asking' = asking /\ ownDeleted' = ownDeleted /\ stuck' = stuck
  BY DEF FetchUnreadable, serverVars, syncVars, storeVars
<1>6. stored' \in [MailMsgs -> DownloadStates] /\ preStored' \in SUBSET PreMsgs BY <1>0, <1>2, TypesAre
<1>7. \A x \in MailMsgs : Grows(x) BY <1>2 DEF Grows
<1>8. Marked' /\ Halved' /\ RequestQueued' BY <1>0, <1>2 DEF Marked, Halved, RequestQueued
<1> QED BY <1>1, <1>2, <1>6, <1>7, <1>8, NextGoes, BatchGoesOn

\* A mail that was received is stored, and nothing that was stored is taken back.
LEMMA ReceivedIsLed ==
    ASSUME FetchInv, NEW u \in DOMAIN box, box[u].part \in {"small", "pre"}, ReceiveImf(box[u]),
           box' = box, rows' = rows, download' = download, asking' = asking, stuck' = stuck
    PROVE  /\ Led(u)' /\ Marked' /\ Halved' /\ RequestQueued' /\ \A x \in MailMsgs : Grows(x)
           /\ stored' \in [MailMsgs -> DownloadStates] /\ preStored' \in SUBSET PreMsgs
<1> DEFINE m == box[u].msg
<1>0. FetchTypes /\ Marked /\ Halved /\ RequestQueued BY DEF FetchInv
<1>1. m \in MailMsgs /\ (box[u].part = "pre" => m \in PreMsgs) BY <1>0, BoxIs
<1>2. stored \in [MailMsgs -> DownloadStates] /\ preStored \in SUBSET PreMsgs BY <1>0, TypesAre
<1>3. \E t \in DownloadStates :
         /\ stored' = [stored EXCEPT ![m] = t]
         /\ stored[m] = "deleted" => t = "deleted"
         /\ t # stored[m] => t = "done" \/ (t = "available" /\ stored[m] = "absent" /\ m \in preStored')
         /\ box[u].part = "small" => t \in {"done", "deleted"}
  <2>1. stored[m] \in DownloadStates /\ "done" \in DownloadStates /\ "available" \in DownloadStates
    BY <1>1, <1>2 DEF DownloadStates
  <2>2. CASE box[u].part = "small"
    <3>1. stored' = [stored EXCEPT ![m] = IF stored[m] # "deleted" THEN "done" ELSE stored[m]]
      BY <2>2 DEF ReceiveImf
    <3>2. CASE stored[m] = "deleted" BY <2>1, <3>1, <3>2
    <3>3. CASE stored[m] # "deleted" BY <2>1, <3>1, <3>3
    <3> QED BY <3>2, <3>3
  <2>3. CASE box[u].part = "pre" /\ m \notin preStored
    <3>1. /\ stored' = [stored EXCEPT ![m] = IF stored[m] = "absent" THEN "available" ELSE stored[m]]
          /\ preStored' = preStored \cup {m}
      BY <2>3 DEF ReceiveImf
    <3>2. CASE stored[m] = "absent" BY <2>1, <2>3, <3>1, <3>2
    <3>3. CASE stored[m] # "absent" BY <2>1, <2>3, <3>1, <3>3
    <3> QED BY <3>2, <3>3
  <2>4. CASE box[u].part = "pre" /\ m \in preStored
    <3>1. stored' = [stored EXCEPT ![m] = stored[m]] BY <2>4 DEF ReceiveImf
    <3> QED BY <2>1, <2>4, <3>1
  <2> QED BY <2>2, <2>3, <2>4
<1>4. /\ preStored \subseteq preStored' /\ preStored' \in SUBSET PreMsgs
      /\ box[u].part = "pre" => m \in preStored'
  <2>1. CASE box[u].part = "pre" /\ m \notin preStored
    <3>1. preStored' = preStored \cup {m} BY <2>1 DEF ReceiveImf
    <3> QED BY <1>1, <1>2, <2>1, <3>1
  <2>2. CASE ~(box[u].part = "pre" /\ m \notin preStored)
    <3>1. preStored' = preStored BY <2>2 DEF ReceiveImf
    <3> QED BY <1>2, <2>2, <3>1
  <2> QED BY <2>1, <2>2
<1>5. PICK t \in DownloadStates :
         /\ stored' = [stored EXCEPT ![m] = t]
         /\ stored[m] = "deleted" => t = "deleted"
         /\ t # stored[m] => t = "done" \/ (t = "available" /\ stored[m] = "absent" /\ m \in preStored')
         /\ box[u].part = "small" => t \in {"done", "deleted"}
  BY <1>3
<1>6. stored' \in [MailMsgs -> DownloadStates] /\ \A x \in MailMsgs : stored'[x] = IF x = m THEN t ELSE stored[x]
  BY <1>2, <1>5
<1>7. Led(u)'
  <2>1. CASE box[u].part = "small" BY <1>1, <1>5, <1>6, <2>1 DEF Led, Downloaded
  <2>2. CASE box[u].part = "pre" BY <1>4, <2>2 DEF Led, Downloaded
  <2> QED BY <2>1, <2>2
<1>8. Marked'
  <2>1. \A v \in DOMAIN rows : box[v].msg \in MailMsgs BY <1>0, BoxIs, TypesAre
  <2> QED BY <1>0, <1>5, <1>6, <2>1 DEF Marked
<1>9. Halved' BY <1>0, <1>4, <1>5, <1>6 DEF Halved
<1>10. RequestQueued' BY <1>0, <1>5, <1>6 DEF RequestQueued
<1>11. \A x \in MailMsgs : Grows(x) BY <1>4, <1>5, <1>6 DEF Grows
<1> QED BY <1>4, <1>6, <1>7, <1>8, <1>9, <1>10, <1>11

\* A mail that is fetched is stored before the batch goes on.
LEMMA FetchOneKeeps ==
    ASSUME FetchInv, NEW u \in batch.todo, FetchOne(u)
    PROVE  FetchInv'
<1>0. FetchTypes /\ Marked /\ Halved /\ RequestQueued BY DEF FetchInv
<1>1. IsNext(u) BY DEF FetchOne
<1>2. /\ box' = box /\ gone' = gone /\ uidNext' = uidNext /\ rows' = rows /\ session' = session /\ at' = at
      /\ download' = download /\ available' = available /\ work' = work /\ failing' = failing
      /\ asking' = asking /\ ownDeleted' = ownDeleted /\ lost' = lost /\ stuck' = stuck
  BY DEF FetchOne, serverVars, syncVars, fetchHistory
<1>3. CASE u \in gone
  <2>1. batch' = [batch EXCEPT !.todo = @ \ {u}] /\ stored' = stored /\ preStored' = preStored
    BY <1>3 DEF FetchOne
  <2>2. stored' \in [MailMsgs -> DownloadStates] /\ preStored' \in SUBSET PreMsgs BY <1>0, <2>1, TypesAre
  <2>3. \A x \in MailMsgs : Grows(x) BY <2>1 DEF Grows
  <2>4. Marked' /\ Halved' /\ RequestQueued' BY <1>0, <1>2, <2>1 DEF Marked, Halved, RequestQueued
  <2> QED BY <1>1, <1>2, <1>3, <2>1, <2>2, <2>3, <2>4, NextGoes, BatchGoesOn
<1>4. CASE u \notin gone
  <2>1. batch' = [batch EXCEPT !.todo = @ \ {u}, !.got = u] /\ ReceiveImf(box[u])
    BY <1>4 DEF FetchOne
  <2>2. u \in DOMAIN box /\ box[u].part \in {"small", "pre"} BY <1>1, <2>1, NextGoes
  <2>3. /\ Led(u)' /\ Marked' /\ Halved' /\ RequestQueued' /\ \A x \in MailMsgs : Grows(x)
        /\ stored' \in [MailMsgs -> DownloadStates] /\ preStored' \in SUBSET PreMsgs
    BY <1>2, <2>1, <2>2, ReceivedIsLed
  <2> QED BY <1>1, <1>2, <2>1, <2>3, NextGoes, BatchGoesOn
<1> QED BY <1>3, <1>4

\* What is not fetched now was tried before, is deleted, or is noted for later.
LEMMA PrefetchKeeps ==
    ASSUME FetchInv, Prefetch
    PROVE  FetchInv'
<1>0. FetchTypes /\ BatchTypes /\ Followed /\ Marked /\ Halved /\ Failed /\ ServerCopyKept /\ RequestQueued
  BY DEF FetchInv
<1>1. at = "prefetch" /\ at' = "fetch" BY DEF Prefetch, At, Go
<1>2. /\ box' = box /\ gone' = gone /\ uidNext' = uidNext /\ stored' = stored /\ preStored' = preStored
      /\ download' = download /\ available' = available /\ work' = work /\ failing' = failing
      /\ asking' = asking /\ ownDeleted' = ownDeleted /\ lost' = lost /\ stuck' = stuck
  BY DEF Prefetch, serverVars, storeVars, fetchHistory
<1>n. Numbers BY <1>0, NumbersAre
<1>3. \A u \in Prefetched : u \in Present /\ u \in DOMAIN box /\ uidNext <= u /\ u < uidNext + Window
  BY DEF Prefetched, Present
<1>4. session' \in [selected : BOOLEAN, next : 0 .. Len(box) + 1, newMail : BOOLEAN]
  <2>1. session \in [selected : BOOLEAN, next : 0 .. Len(box) + 1, newMail : BOOLEAN] BY <1>0, TypesAre
  <2> QED BY <2>1 DEF Prefetch
<1>5. /\ DOMAIN rows' = Prefetched \cup DOMAIN rows /\ rows' \in [DOMAIN rows' -> {"", "inbox"}]
      /\ \A u \in DOMAIN rows' : rows'[u] = "" => IF u \in Prefetched THEN stored[box[u].msg] = "deleted"
                                                  ELSE u \in DOMAIN rows /\ rows[u] = ""
  <2>1. rows \in [DOMAIN rows -> {"", "inbox"}] BY <1>0, TypesAre
  <2>2. rows' = [u \in Prefetched \cup DOMAIN rows |->
                   IF u \notin Prefetched THEN rows[u]
                   ELSE IF stored[box[u].msg] = "deleted" THEN "" ELSE "inbox"]
    BY DEF Prefetch
  <2> QED BY <2>1, <2>2
<1>6. PICK k \in Prefetched \cup {0} :
         batch' = [old |-> uidNext, todo |-> {u \in Prefetched : FetchNow(u)},
                   later |-> {box[u].msg : u \in {v \in Prefetched : FetchLater(v)}},
                   posts |-> {box[u].msg : u \in {v \in Prefetched : IsPost(v)}},
                   skipped |-> k, got |-> 0, ok |-> TRUE]
  BY DEF Prefetch
<1>7. /\ batch'.old = uidNext /\ batch'.todo = {u \in Prefetched : FetchNow(u)}
      /\ batch'.later = {box[u].msg : u \in {v \in Prefetched : FetchLater(v)}}
      /\ batch'.posts = {box[u].msg : u \in {v \in Prefetched : IsPost(v)}}
      /\ batch'.skipped = k /\ batch'.got = 0 /\ batch'.ok = TRUE
  BY <1>6
<1>8. k \in 0 .. Len(box) /\ k < uidNext + Window
  <2>1. CASE k = 0 BY <1>n, <2>1 DEF Numbers
  <2>2. CASE k \in Prefetched BY <1>0, <1>3, <1>n, <2>2, BoxIs DEF Numbers
  <2> QED BY <2>1, <2>2
<1>9. FetchTypes'
  <2>1. DOMAIN rows' \in SUBSET DOMAIN box BY <1>0, <1>3, <1>5, TypesAre
  <2> QED BY <1>0, <1>1, <1>2, <1>4, <1>5, <2>1, TypesAre, TypesMove
<1>10. BatchTypes'
  <2>1. batch'.todo \in SUBSET DOMAIN box BY <1>3, <1>7
  <2>2. batch'.later \in SUBSET MailMsgs BY <1>0, <1>3, <1>7, BoxIs
  <2>3. batch'.posts \in SUBSET PostMsgs BY <1>0, <1>3, <1>7, BoxIs DEF IsPost
  <2>4. batch'.old \in Nat /\ batch'.got \in 0 .. Len(box) /\ batch'.skipped \in 0 .. Len(box)
    BY <1>7, <1>8, <1>n DEF Numbers
  <2>5. batch' \in [old : Nat, todo : SUBSET DOMAIN box, later : SUBSET MailMsgs, posts : SUBSET PostMsgs,
                    skipped : 0 .. Len(box), got : 0 .. Len(box), ok : BOOLEAN]
    <3>1. batch' = [old |-> batch'.old, todo |-> batch'.todo, later |-> batch'.later, posts |-> batch'.posts,
                    skipped |-> batch'.skipped, got |-> batch'.got, ok |-> batch'.ok]
      BY <1>6
    <3> QED BY <1>7, <2>1, <2>2, <2>3, <2>4, <3>1
  <2>6. \A u \in batch'.todo : /\ box[u].part \in {"small", "pre"} /\ u \in Prefetched
    BY <1>7 DEF FetchNow
  <2>7. \A u \in batch'.todo : batch'.got < u /\ batch'.old <= u /\ u < batch'.old + Window
    <3> SUFFICES ASSUME NEW u \in batch'.todo PROVE 0 < u /\ uidNext <= u /\ u < uidNext + Window BY <1>7
    <3>1. u \in Nat /\ 0 < u BY <1>0, <2>1, BoxIs
    <3> QED BY <1>3, <2>6, <3>1
  <2>8. batch'.got < batch'.old + Window /\ batch'.skipped < batch'.old + Window
    BY <1>7, <1>8, <1>n DEF Numbers
  <2>9. PostMsgs' = PostMsgs BY DEF PostMsgs
  <2> QED BY <1>1, <1>2, <1>7, <2>5, <2>6, <2>7, <2>8, <2>9 DEF BatchTypes
<1>11. Followed'
  <2> SUFFICES ASSUME NEW u \in Present' \ lost'
               PROVE  /\ u < uidNext' => Led(u)'
                      /\ Passing(u)' => u \in batch'.todo \/ Led(u)' \/ Noted(u)'
    BY <1>1 DEF Followed
  <2>1. u \in Present \ lost /\ u \in DOMAIN box BY <1>2 DEF Present
  <2>2. StillLed(u) BY <1>2, <1>5 DEF StillLed, Grows
  <2>3. Led(u) => Led(u)' BY <2>2, LedStays
  <2>4. u < uidNext' => Led(u)' BY <1>0, <1>1, <1>2, <2>1, <2>3 DEF Followed
  <2>5. ASSUME Passing(u)', u \notin batch'.todo PROVE Led(u)' \/ Noted(u)'
    <3>1. u \in Prefetched BY <1>7, <2>1, <2>5 DEF Passing, Prefetched
    <3>2. ~FetchNow(u) /\ u \in DOMAIN rows' BY <1>5, <1>7, <2>5, <3>1
    <3>3. /\ box[u] \in Mails /\ box[u].msg \in MailMsgs
          /\ box[u].part \in {"small", "large", "pre", "post", "bigpost"}
      BY <1>0, <2>1, BoxIs DEF MailParts
    <3>4. CASE stored[box[u].msg] = "deleted" BY <2>3, <3>4 DEF Led
    <3>5. CASE FetchTried(box[u])
      <4>1. CASE box[u].part = "pre" BY <2>3, <3>5, <4>1 DEF FetchTried, Led, Downloaded
      <4>2. CASE box[u].part # "pre"
        <5>1. stored[box[u].msg] \notin {"absent", "available"} BY <3>5, <4>2 DEF FetchTried
        <5>2. stored[box[u].msg] \in DownloadStates BY <1>0, <3>3, TypesAre
        <5>3. CASE stored[box[u].msg] = "done" BY <2>3, <4>2, <5>3 DEF Led, Downloaded
        <5>4. CASE stored[box[u].msg] \in {"inprogress", "failure"}
          <6>1. box[u].msg \in preStored BY <1>0, <3>3, <5>4 DEF Halved
          <6>2. box[u].msg \in PreMsgs BY <1>0, <6>1, TypesAre
          <6>3. box[u].part \in {"post", "bigpost"} BY <3>3, <4>2, <6>2, OnePiece
          <6> QED BY <1>2, <3>2, <5>1, <6>3 DEF Led
        <5>5. CASE stored[box[u].msg] = "deleted" BY <2>3, <5>5 DEF Led
        <5> QED BY <5>1, <5>2, <5>3, <5>4, <5>5 DEF DownloadStates
      <4> QED BY <4>1, <4>2
    <3>6. CASE Wanted(u)
      <4>1. box[u].part \in {"large", "post", "bigpost"} BY <3>2, <3>3, <3>6 DEF FetchNow
      <4>2. CASE box[u].part = "large"
        <5>1. FetchLater(u) BY <3>6, <4>2 DEF FetchLater
        <5>2. box[u].msg \in batch'.later BY <1>7, <3>1, <5>1
        <5> QED BY <1>2, <4>2, <5>2 DEF Noted
      <4>3. CASE box[u].part \in {"post", "bigpost"}
        <5>1. IsPost(u) BY <3>6, <4>3 DEF IsPost
        <5>2. box[u].msg \in batch'.posts BY <1>7, <3>1, <5>1
        <5> QED BY <1>2, <3>2, <4>3, <5>2 DEF Noted
      <4> QED BY <4>1, <4>2, <4>3
    <3> QED BY <3>4, <3>5, <3>6 DEF Wanted
  <2> QED BY <2>4, <2>5
<1>12. Marked' BY <1>0, <1>2, <1>5 DEF Marked
<1>13. ServerCopyKept' /\ Halved' /\ Failed' /\ RequestQueued'
  BY <1>0, <1>2 DEF ServerCopyKept, Halved, Failed, RequestQueued
<1>14. GoneThrough' BY <1>1 DEF GoneThrough
<1> QED BY <1>9, <1>10, <1>11, <1>12, <1>13, <1>14 DEF FetchInv

\* The largest of two numbers.
LEMMA LargestOfTwo ==
    ASSUME NEW a \in Nat, NEW b \in Nat
    PROVE  Max({a, b}) \in {a, b} /\ a <= Max({a, b}) /\ b <= Max({a, b})
<1>1. \E x \in {a, b} : \A y \in {a, b} : x >= y
  <2>1. CASE a >= b BY <2>1
  <2>2. CASE b >= a BY <2>2
  <2> QED BY <2>1, <2>2
<1>2. Max({a, b}) \in {a, b} /\ \A y \in {a, b} : Max({a, b}) >= y BY <1>1 DEF Max
<1> QED BY <1>2

\* Likewise the smallest.
LEMMA SmallestOfTwo ==
    ASSUME NEW a \in Nat, NEW b \in Nat
    PROVE  Min({a, b}) \in {a, b} /\ Min({a, b}) <= a /\ Min({a, b}) <= b
<1>1. \E x \in {a, b} : \A y \in {a, b} : x =< y
  <2>1. CASE a <= b BY <2>1
  <2>2. CASE b <= a BY <2>2
  <2> QED BY <2>1, <2>2
<1>2. Min({a, b}) \in {a, b} /\ \A y \in {a, b} : Min({a, b}) =< y BY <1>1 DEF Min
<1> QED BY <1>2

\* The largest of three is one of them.
LEMMA LargestOfThree ==
    ASSUME NEW a \in Nat, NEW b \in Nat, NEW c \in Nat
    PROVE  Max({a, b, c}) \in {a, b, c}
<1>1. \E x \in {a, b, c} : \A y \in {a, b, c} : x >= y
  <2>1. CASE a >= b /\ a >= c BY <2>1
  <2>2. CASE b >= a /\ b >= c BY <2>2
  <2>3. CASE c >= a /\ c >= b BY <2>3
  <2> QED BY <2>1, <2>2, <2>3
<1> QED BY <1>1 DEF Max

\* uid_next passes only what the batch has dealt with, or what is lost with it.
LEMMA AdvanceKeeps ==
    ASSUME FetchInv, Advance
    PROVE  FetchInv'
<1>0. FetchTypes /\ BatchTypes /\ Followed /\ Marked /\ Halved /\ Failed /\ ServerCopyKept /\ RequestQueued
  BY DEF FetchInv
<1>1. at = "fetch" /\ batch.todo = {} /\ uidNext' = Max({NewUidNext, uidNext}) BY DEF Advance, At
<1>2. /\ box' = box /\ gone' = gone /\ rows' = rows /\ stored' = stored /\ preStored' = preStored
      /\ download' = download /\ available' = available /\ work' = work /\ failing' = failing
      /\ asking' = asking /\ ownDeleted' = ownDeleted /\ stuck' = stuck
  BY DEF Advance, serverVars, storeVars
<1>n. Numbers BY <1>0, NumbersAre
<1>3. /\ batch.old = uidNext /\ batch.got < batch.old + Window /\ batch.skipped < batch.old + Window
  BY <1>0, <1>1 DEF BatchTypes
<1>4. CASE batch.ok
  <2> DEFINE least == Min({batch.old + Window, session.next})
             new == Max({batch.got + 1, least, batch.skipped + 1})
  <2>1. NewUidNext = new BY <1>4 DEF NewUidNext
  <2>2. least \in Nat /\ least <= batch.old + Window /\ least <= session.next
    <3>1. batch.old + Window \in Nat /\ session.next \in Nat BY <1>n DEF Numbers
    <3> QED BY <3>1, SmallestOfTwo
  <2> HIDE DEF least
  <2>3. new \in {batch.got + 1, least, batch.skipped + 1}
    <3>1. batch.got + 1 \in Nat /\ batch.skipped + 1 \in Nat BY <1>n DEF Numbers
    <3> QED BY <2>2, <3>1, LargestOfThree
  <2> HIDE DEF new
  <2>4. new \in Nat /\ new <= Len(box) + 1 BY <1>n, <2>2, <2>3 DEF Numbers
  <2>5. uidNext' \in {new, uidNext} /\ uidNext <= uidNext'
    <3>1. uidNext \in Nat BY <1>n DEF Numbers
    <3> QED BY <1>1, <2>1, <2>4, <3>1, LargestOfTwo
  <2>6. uidNext' \in 1 .. Len(box) + 1 BY <1>n, <2>4, <2>5 DEF Numbers
  <2>7. at' = "record" /\ batch' = batch /\ session' = session /\ lost' = lost
    BY <1>4 DEF Advance, Go
  <2>8. FetchTypes' BY <1>0, <1>2, <2>6, <2>7, TypesAre, TypesMove
  <2>9. BatchTypes'
    <3>1. PostMsgs' = PostMsgs BY DEF PostMsgs
    <3> QED BY <1>0, <1>1, <1>2, <2>7, <3>1 DEF BatchTypes
  <2>10. Followed'
    <3> SUFFICES ASSUME NEW u \in Present' \ lost', u < uidNext' PROVE Led(u)' \/ Noted(u)'
      BY <2>7 DEF Followed
    <3>1. u \in Present \ lost /\ u \in DOMAIN box BY <1>2, <2>7 DEF Present
    <3>2. u \in Nat BY <1>0, <3>1, BoxIs
    <3>3. Led(u) => Led(u)'
      <4>1. StillLed(u) BY <1>2 DEF StillLed, Grows
      <4> QED BY <4>1, LedStays
    <3>4. Noted(u) => Noted(u)' BY <1>2, <2>7 DEF Noted
    <3>5. CASE u < uidNext BY <1>0, <1>1, <3>1, <3>3, <3>5 DEF Followed
    <3>6. CASE uidNext <= u
      <4>1. u < new BY <2>5, <3>2, <3>6, <1>n DEF Numbers
      <4>2. u < batch.old + Window /\ (u <= batch.got \/ u < session.next \/ u <= batch.skipped)
        BY <1>3, <1>n, <2>2, <2>3, <3>2, <4>1 DEF Numbers
      <4>3. Passing(u) BY <1>3, <1>4, <3>6, <4>2 DEF Passing
      <4>4. Led(u) \/ Noted(u) BY <1>0, <1>1, <3>1, <4>3 DEF Followed
      <4> QED BY <3>3, <3>4, <4>4
    <3> QED BY <1>n, <3>2, <3>5, <3>6 DEF Numbers
  <2>11. Marked' /\ ServerCopyKept' /\ Halved' /\ Failed' /\ RequestQueued'
    BY <1>0, <1>2 DEF Marked, ServerCopyKept, Halved, Failed, RequestQueued
  <2>12. GoneThrough' BY <2>7 DEF GoneThrough
  <2> QED BY <2>8, <2>9, <2>10, <2>11, <2>12 DEF FetchInv
<1>5. CASE ~batch.ok
  <2>1. NewUidNext = batch.got + 1 BY <1>5 DEF NewUidNext
  <2>2. uidNext' \in {batch.got + 1, uidNext} /\ uidNext <= uidNext'
    <3>1. uidNext \in Nat /\ batch.got + 1 \in Nat BY <1>n DEF Numbers
    <3> QED BY <1>1, <2>1, <3>1, LargestOfTwo
  <2>3. uidNext' \in 1 .. Len(box) + 1 BY <1>n, <2>2 DEF Numbers
  <2>4. at' = "select" /\ batch' = NoBatch /\ session' = Closed /\ lost' = lost \cup PutOff
    BY <1>5 DEF Advance, Go
  <2>5. \A u \in Present \ lost' : u < uidNext' => Led(u)
    <3> SUFFICES ASSUME NEW u \in Present \ lost', u < uidNext' PROVE Led(u) OBVIOUS
    <3>1. u \in Present \ lost /\ u \in DOMAIN box /\ u \notin PutOff BY <2>4 DEF Present
    <3>2. u \in Nat BY <1>0, <3>1, BoxIs
    <3>3. CASE u < uidNext BY <1>0, <1>1, <3>1, <3>3 DEF Followed
    <3>4. CASE uidNext <= u
      <4>1. u < batch.got + 1 BY <2>2, <3>2, <3>4, <1>n DEF Numbers
      <4>2. u <= batch.got /\ u < batch.old + Window BY <1>3, <1>n, <3>2, <4>1 DEF Numbers
      <4>3. Passing(u) BY <1>3, <3>4, <4>2 DEF Passing
      <4>4. Led(u) \/ Noted(u) BY <1>0, <1>1, <3>1, <4>3 DEF Followed
      <4>5. ~Noted(u)
        <5>1. box[u].msg \notin batch.later \cup batch.posts BY <1>3, <3>1, <3>4, <4>1 DEF PutOff
        <5> QED BY <5>1 DEF Noted
      <4> QED BY <4>4, <4>5
    <3> QED BY <1>n, <3>2, <3>3, <3>4 DEF Numbers
  <2>6. work' \in SUBSET MailMsgs BY <1>0, <1>2, TypesAre
  <2> QED BY <1>2, <2>3, <2>4, <2>5, <2>6, GivenUpKeeps
<1>6. batch.ok \in BOOLEAN BY <1>0, BatchIs
<1> QED BY <1>4, <1>5

\* A batch that is over leaves nothing behind.
LEMMA NoBatchIs ==
    ASSUME FetchTypes, box' = box, batch' = NoBatch, at' # "fetch"
    PROVE  BatchTypes'
<1>1. Len(box) \in Nat BY BoxIs
<1>2. NoBatch \in [old : Nat, todo : SUBSET DOMAIN box, later : SUBSET MailMsgs, posts : SUBSET PostMsgs,
                   skipped : 0 .. Len(box), got : 0 .. Len(box), ok : BOOLEAN]
  BY <1>1 DEF NoBatch
<1>3. NoBatch.todo = {} /\ PostMsgs' = PostMsgs BY DEF NoBatch, PostMsgs
<1> HIDE DEF NoBatch
<1> QED BY <1>2, <1>3 DEF BatchTypes

\* What the batch noted is in a table when it ends.
LEMMA RecordKeeps ==
    ASSUME FetchInv, Record
    PROVE  FetchInv'
<1>0. FetchTypes /\ BatchTypes /\ Followed /\ Marked /\ Halved /\ Failed /\ ServerCopyKept /\ RequestQueued
  BY DEF FetchInv
<1>1. /\ at = "record" /\ available' = available \cup batch.posts /\ download' = download \cup batch.later
      /\ at' \in {"prefetch", "expire"} /\ batch' = NoBatch
  BY DEF Record, At, Go
<1>2. /\ box' = box /\ gone' = gone /\ uidNext' = uidNext /\ rows' = rows /\ session' = session
      /\ stored' = stored /\ preStored' = preStored /\ work' = work /\ failing' = failing
      /\ asking' = asking /\ ownDeleted' = ownDeleted /\ lost' = lost /\ stuck' = stuck
  BY DEF Record, serverVars, syncVars, fetchHistory
<1>3. FetchTypes'
  <2>1. available' \in SUBSET PostMsgs BY <1>0, <1>1, TypesAre, BatchIs
  <2>2. download' \in SUBSET MailMsgs BY <1>0, <1>1, TypesAre, BatchIs
  <2> QED BY <1>0, <1>1, <1>2, <2>1, <2>2, TypesAre, TypesMove
<1>4. BatchTypes' BY <1>0, <1>1, <1>2, NoBatchIs
<1>5. Followed'
  <2> SUFFICES ASSUME NEW u \in Present' \ lost', u < uidNext' PROVE Led(u)'
    BY <1>1 DEF Followed
  <2>1. u \in Present \ lost BY <1>2 DEF Present
  <2>2. Led(u) \/ Noted(u) BY <1>0, <1>1, <1>2, <2>1 DEF Followed
  <2>3. CASE Led(u)
    <3>1. StillLed(u) BY <1>1, <1>2 DEF StillLed, Grows
    <3> QED BY <2>3, <3>1, LedStays
  <2>4. CASE Noted(u) BY <1>1, <1>2, <2>4 DEF Noted, Led
  <2> QED BY <2>2, <2>3, <2>4
<1>6. Marked' /\ ServerCopyKept' /\ Halved' /\ Failed'
  BY <1>0, <1>2 DEF Marked, ServerCopyKept, Halved, Failed
<1>7. RequestQueued' BY <1>0, <1>1, <1>2 DEF RequestQueued
<1>8. GoneThrough' BY <1>1 DEF GoneThrough
<1> QED BY <1>3, <1>4, <1>5, <1>6, <1>7, <1>8 DEF FetchInv

----------------------------------------------------------------------------

\* The empty folder.
LEMMA FetchInitially ==
    ASSUME FetchInit
    PROVE  FetchInv
<1>1. /\ box = <<>> /\ gone = {} /\ uidNext = 1 /\ rows = <<>> /\ preStored = {} /\ download = {}
      /\ available = {} /\ session = Closed /\ at = "select" /\ batch = NoBatch /\ work = {} /\ failing = {}
      /\ asking = {} /\ ownDeleted = {} /\ stored = [m \in MailMsgs |-> "absent"]
  BY DEF FetchInit
<1>2. /\ box \in Seq(Mails) /\ Len(box) = 0 /\ DOMAIN box = {} /\ DOMAIN rows = {} BY <1>1
<1>3. /\ stored \in [MailMsgs -> DownloadStates] /\ \A m \in MailMsgs : stored[m] = "absent"
  BY <1>1 DEF DownloadStates
<1>4. FetchTypes
  <2>1. session \in [selected : BOOLEAN, next : 0 .. Len(box) + 1, newMail : BOOLEAN] BY <1>1, <1>2 DEF Closed
  <2>2. rows \in [DOMAIN rows -> {"", "inbox"}] BY <1>1
  <2> QED BY <1>1, <1>2, <1>3, <2>1, <2>2 DEF FetchTypes
<1>5. BatchTypes
  <2>1. NoBatch \in [old : Nat, todo : SUBSET DOMAIN box, later : SUBSET MailMsgs, posts : SUBSET PostMsgs,
                     skipped : 0 .. Len(box), got : 0 .. Len(box), ok : BOOLEAN] /\ NoBatch.todo = {}
    BY <1>2 DEF NoBatch
  <2> QED BY <1>1, <2>1 DEF BatchTypes
<1>6. Followed /\ Marked /\ GoneThrough /\ Failed /\ ServerCopyKept
  BY <1>1, <1>2 DEF Followed, Marked, GoneThrough, Failed, ServerCopyKept, Present
<1>7. Halved /\ RequestQueued BY <1>3 DEF Halved, RequestQueued
<1> QED BY <1>4, <1>5, <1>6, <1>7 DEF FetchInv

\* One step of anyone.
LEMMA FetchNextKeeps ==
    ASSUME FetchInv, [FetchNext]_fetchVars
    PROVE  FetchInv'
<1>1. CASE FetchNext
  BY <1>1, SelectInboxKeeps, PrefetchKeeps, FetchOneKeeps, AdvanceKeeps, RecordKeeps, DeleteOnServerKeeps,
     KnownDoneKeeps, IdlingKeeps, UnqueueKeeps, KnownPostKeeps, DownloadOneKeeps, DownloadFailsKeeps,
     FetchUnreadableKeeps, FetchBreaksKeeps, NewValidityKeeps, ArriveKeeps, ReceiveElsewhereKeeps,
     ExpungeElsewhereKeeps, AskDownloadKeeps, QueueDownloadKeeps, DeleteMsgKeeps, FetchDiesKeeps
  DEF FetchNext, FetchStep
<1>2. CASE UNCHANGED fetchVars
  BY <1>2, NothingKeeps DEF fetchVars, serverVars, syncVars, storeVars, loopVars, fetchHistory, Rest
<1> QED BY <1>1, <1>2

\* The invariant says what the run checks.
LEMMA FetchInvSafe ==
    ASSUME FetchInv
    PROVE  FetchSafe
<1>0. FetchTypes /\ BatchTypes /\ Followed /\ ServerCopyKept /\ RequestQueued BY DEF FetchInv
<1>1. FetchTypeOK
  <2>1. box \in Seq(Mails) BY <1>0 DEF FetchTypes
  <2>2. preStored \in SUBSET MailMsgs BY <1>0, TypesAre, BoxIs
  <2> QED BY <1>0, <2>1, <2>2, TypesAre DEF FetchTypeOK
<1>2. NoMailForgotten
  <2> SUFFICES ASSUME NEW u \in Present \ lost, u < uidNext PROVE Reachable(u) BY DEF NoMailForgotten
  <2>1. CASE Led(u) BY <2>1 DEF Led, Reachable
  <2>2. CASE at = "record" /\ Noted(u) BY <2>2 DEF Noted, Reachable
  <2> QED BY <1>0, <2>1, <2>2 DEF Followed
<1> QED BY <1>0, <1>1, <1>2 DEF FetchSafe

\* No mail the folder's uid_next has passed is forgotten, none is deleted on the server before it is
\* here, no request for a download is lost: for any mails, window, limits and number of failures.
THEOREM FetchSound == FetchSpec => []FetchSafe
<1>1. FetchInit => FetchInv BY FetchInitially
<1>2. FetchInv /\ [FetchNext]_fetchVars => FetchInv' BY FetchNextKeeps
<1>3. FetchInv => FetchSafe BY FetchInvSafe
<1> QED BY <1>1, <1>2, <1>3, PTL DEF FetchSpec
=============================================================================
