------------------------- MODULE HeadServiceProofs -------------------------
(***************************************************************************)
(* Theorems about HeadService, for every set of source blocks, every       *)
(* number of crashes and abandoned heads, and with planned resumes.        *)
(***************************************************************************)
EXTENDS HeadService, TLAPS

\* The steps at which a process holds the runtime lock.
Holding(p) ==
  \/ pc[p] \in HeadSteps \cup {"boot", "mark", "complete", "finish"}
  \/ p = "primary" /\ pc[p] = "online"

LockHeld == \A p \in Procs : Holding(p) => lock = p

\* Only the holder of the lock moves the cursor, so the block it works towards
\* does not fall behind.
GoalAhead ==
  \A p \in Procs : pc[p] \in HeadSteps \cup {"mark", "finish"}
    => goal[p] >= 0 /\ goal[p] >= cursor

\* No process works on a head before the first watermark.
Watermarked ==
  /\ (origin = NoBlock) <=> (cursor = NoBlock)
  /\ origin <= cursor
  /\ cursor = NoBlock => \A s \in Sources : unknown[s] = 0
  /\ \A p \in Procs :
       pc[p] \in HeadSteps \cup {"finish", "checked", "online", "complete"}
         => cursor # NoBlock

\* What the cursor is about to pass has a receipt.
GoalRecorded ==
  \A p \in Procs : (\/ pc[p] \in {"execute", "post"}
                    \/ pc[p] = "mark" /\ cursor # NoBlock)
    => \A s \in Sources : cursor < s /\ s <= goal[p] => status[s] # "NONE"

\* The batch of a head lies above the first watermark.
BatchAbove ==
  \A p \in Procs : pc[p] \in {"execute", "post"} => \A s \in todo[p] : s > origin

\* An order of unknown outcome can be seen in the latest transition.
UnknownShows ==
  \A s \in Sources : unknown[s] > 0 =>
    status[s] \in {"SUBMIT_STARTED", "SUBMITTED", "CANCELLED"}

\* The inductive invariant.
Guarded ==
  /\ TypeOK
  /\ LockHeld
  /\ GoalAhead
  /\ Watermarked
  /\ GoalRecorded
  /\ BatchAbove
  /\ UnknownShows
  /\ NothingPassedUnseen
  /\ NoBlindResubmission

-----------------------------------------------------------------------------

USE DEF Procs, NoBlock, Heights, Statuses, HeadSteps, Steps

\* The provers are told once that -1 is in the range of the cursor.
LEMMA NoBlockIsHeight == NoBlock \in Heights
BY ServiceAssumption

\* A profile that was never installed has a free lock and nothing to guard.
LEMMA Initially == Init => Guarded
<1> SUFFICES ASSUME Init PROVE Guarded
  OBVIOUS
<1> USE ServiceAssumption DEF Init
<1>1. TypeOK
  <2>1. 0 \in 0..MaxBlock /\ 0 \in 0..MaxCrashes /\ 0 \in 0..MaxFaults
    OBVIOUS
  <2>2. goal \in [Procs -> Heights]
    BY NoBlockIsHeight
  <2>3. pc \in [Procs -> Steps] /\ todo \in [Procs -> SUBSET Sources]
    OBVIOUS
  <2> QED
    BY <2>1, <2>2, <2>3, NoBlockIsHeight DEF TypeOK
<1>2. LockHeld /\ GoalAhead /\ GoalRecorded /\ BatchAbove
  BY DEF LockHeld, Holding, GoalAhead, GoalRecorded, BatchAbove
<1>3. Watermarked
  BY DEF Watermarked
<1>4. UnknownShows /\ NothingPassedUnseen /\ NoBlindResubmission
  BY DEF UnknownShows, NothingPassedUnseen, NoBlindResubmission
<1> QED
  BY <1>1, <1>2, <1>3, <1>4 DEF Guarded

\* Every step of either process, of the operator and of the chain keeps it.
LEMMA Preserved ==
  ASSUME Guarded, [Next]_vars
  PROVE  Guarded'
<1> USE ServiceAssumption
    DEF Guarded, TypeOK, LockHeld, Holding, GoalAhead, Watermarked, GoalRecorded,
        BatchAbove, UnknownShows, NothingPassedUnseen, NoBlindResubmission
<1>1. ASSUME NEW p \in Procs, Launch(p) PROVE Guarded'
  BY <1>1 DEF Launch, To, ledger
<1>2. AcquireRuntimeLock => Guarded'
  BY DEF AcquireRuntimeLock, To, ledger
<1>3. ASSUME NEW p \in Procs, Crash(p) PROVE Guarded'
  BY <1>3 DEF Crash, To, Released, Exit, ledger
<1>4. RefuseResume => Guarded'
  BY DEF RefuseResume, To, Released, Exit, ledger
<1>5. ASSUME NEW h \in 0..chain, EstablishWatermark(h) PROVE Guarded'
  BY <1>5 DEF EstablishWatermark, To, Booting, Unreceived
<1>6. ASSUME NEW h \in 0..chain, RequireLosslessHandoff(h) PROVE Guarded'
  BY <1>6 DEF RequireLosslessHandoff, To, Released, Exit, Booting, Unreceived
<1>7. ASSUME MarkCursor PROVE Guarded'
  <2>1. TypeOK' /\ LockHeld' /\ Watermarked' /\ BatchAbove' /\ UnknownShows'
    BY <1>7 DEF MarkCursor, To
  <2>2. NothingPassedUnseen' /\ NoBlindResubmission'
    BY <1>7 DEF MarkCursor, To
  <2>3. GoalAhead' /\ GoalRecorded'
    <3>1. pc'["primary"] \in {"online", "complete"} /\ pc'["standby"] = pc["standby"]
      BY <1>7 DEF MarkCursor, To
    <3>2. ~Holding("standby")
      BY <1>7 DEF MarkCursor
    <3> QED
      BY <3>1, <3>2
  <2> QED
    BY <2>1, <2>2, <2>3
<1>8. DisarmRecovery => Guarded'
  BY DEF DisarmRecovery, machine
<1>9. ASSUME NEW p \in Procs, CompletePlannedResume(p) PROVE Guarded'
  <2>1. TypeOK'
    BY <1>9, NoBlockIsHeight DEF CompletePlannedResume, To
  <2>2. LockHeld' /\ GoalAhead' /\ Watermarked' /\ GoalRecorded' /\ BatchAbove'
    BY <1>9 DEF CompletePlannedResume, To
  <2> QED
    BY <1>9, <2>1, <2>2 DEF CompletePlannedResume
<1>10. ASSUME NEW repair \in BOOLEAN, ArmPlannedResume(repair) PROVE Guarded'
  BY <1>10 DEF ArmPlannedResume, machine
<1>11. CheckResume => Guarded'
  BY DEF CheckResume, To, ledger
<1>12. SkipHead => Guarded'
  BY DEF SkipHead, To, ledger
<1>13. ASSUME RepeatHead PROVE Guarded'
  <2>1. TypeOK'
    BY <1>13, NoBlockIsHeight DEF RepeatHead, To
  <2>2. LockHeld' /\ GoalAhead' /\ Watermarked' /\ GoalRecorded' /\ BatchAbove'
    BY <1>13 DEF RepeatHead, MayProcess, To
  <2> QED
    BY <1>13, <2>1, <2>2 DEF RepeatHead
<1>14. ASSUME NEW p \in Procs, NEW g \in 0..MaxBlock, TakeHead(p, g) PROVE Guarded'
  BY <1>14 DEF TakeHead, To, MayProcess, NewBlock, Processable, ledger
<1>15. ASSUME NEW p \in Procs, CancelDueOrders(p) PROVE Guarded'
  BY <1>15 DEF CancelDueOrders, To, Released, Exit
<1>16. ASSUME NEW p \in Procs, ObserveBatch(p) PROVE Guarded'
  BY <1>16 DEF ObserveBatch, To, Batch
<1>17. ASSUME NEW p \in Procs, NEW s \in Sources, ReturnRecorded(p, s) PROVE Guarded'
  BY <1>17 DEF ReturnRecorded, Executing, NextToExecute, Submittable, Executed
<1>18. ASSUME NEW p \in Procs, NEW s \in Sources, RefuseCancelled(p, s) PROVE Guarded'
  BY <1>18 DEF RefuseCancelled, To, Released, Exit, Executing, NextToExecute,
     ledger
<1>19. ASSUME NEW p \in Procs, NEW s \in Sources, ExecuteWithoutOrder(p, s) PROVE Guarded'
  BY <1>19 DEF ExecuteWithoutOrder, Executing, NextToExecute, Submittable,
     Executed
<1>20. ASSUME NEW p \in Procs, NEW s \in Sources, StartSubmission(p, s) PROVE Guarded'
  BY <1>20 DEF StartSubmission, To, Executing, NextToExecute, Submittable
<1>21. ASSUME NEW p \in Procs, NEW s \in Sources, FinishSubmission(p, s) PROVE Guarded'
  <2>1. TypeOK'
    <3>1. status' \in [Sources -> Statuses]
      BY <1>21 DEF FinishSubmission
    <3>2. bare' = bare \/ bare' = bare \cup {s}
      BY <1>21 DEF FinishSubmission
    <3>3. unknown' \in [Sources -> Nat]
      BY <1>21 DEF FinishSubmission
    <3>4. pc' \in [Procs -> Steps] /\ todo' \in [Procs -> SUBSET Sources]
      BY <1>21 DEF FinishSubmission, To, Executed
    <3> QED
      BY <1>21, <3>1, <3>2, <3>3, <3>4, ZenonT(60) DEF FinishSubmission
  <2>2. LockHeld' /\ GoalAhead' /\ Watermarked' /\ GoalRecorded' /\ BatchAbove'
    BY <1>21 DEF FinishSubmission, To, NextToExecute, Executed
  <2>3. UnknownShows' /\ NothingPassedUnseen' /\ NoBlindResubmission'
    BY <1>21 DEF FinishSubmission, To, NextToExecute, Executed
  <2> QED
    BY <2>1, <2>2, <2>3
<1>22. ASSUME NEW p \in Procs, AdvanceCursor(p) PROVE Guarded'
  <2>1. TypeOK' /\ LockHeld' /\ Watermarked' /\ GoalRecorded' /\ BatchAbove'
    BY <1>22 DEF AdvanceCursor, BatchExecuted, To
  <2>2. UnknownShows' /\ NothingPassedUnseen' /\ NoBlindResubmission'
    BY <1>22 DEF AdvanceCursor, BatchExecuted, To
  <2>3. GoalAhead'
    <3>1. \A q \in Procs \ {p} : ~Holding(q) /\ pc'[q] = pc[q]
      BY <1>22 DEF AdvanceCursor, BatchExecuted, To
    <3>2. goal' = goal /\ cursor' = goal[p] /\ goal[p] >= 0 /\ goal[p] \in Heights
      BY <1>22 DEF AdvanceCursor, BatchExecuted
    <3> QED
      BY <3>1, <3>2
  <2> QED
    BY <2>1, <2>2, <2>3
<1>23. ASSUME NEW p \in Procs, NEW s \in Sources, ReconcileSubmission(p, s) PROVE Guarded'
  BY <1>23 DEF ReconcileSubmission, Unreconciled, Outcomes, machine
<1>24. ASSUME NEW p \in Procs, CloseRemainders(p) PROVE Guarded'
  BY <1>24 DEF CloseRemainders, To, Released, HeadDone
<1>25. ASSUME NEW p \in Procs, AbandonHead(p) PROVE Guarded'
  BY <1>25 DEF AbandonHead, To, Released, HeadDone, ledger
<1>26. ExtendChain => Guarded'
  BY DEF ExtendChain, ledger, machine
<1>27. CASE UNCHANGED vars
  BY <1>27 DEF vars, ledger, machine
<1> QED
  BY <1>1, <1>2, <1>3, <1>4, <1>5, <1>6, <1>7, <1>8, <1>9, <1>10, <1>11, <1>12,
     <1>13, <1>14, <1>15, <1>16, <1>17, <1>18, <1>19, <1>20, <1>21, <1>22, <1>23,
     <1>24, <1>25, <1>26, <1>27
     DEF Next, Boot, BootAt, ProcessHead, Execute

\* The cursor is written by two steps only, and both write a goal.
LEMMA CursorNeverFallsBack ==
  ASSUME Guarded, [Next]_vars
  PROVE  cursor' >= cursor
<1> USE ServiceAssumption DEF Guarded, TypeOK, GoalAhead
<1>1. MarkCursor => cursor' >= cursor
  BY DEF MarkCursor
<1>2. \A p \in Procs : AdvanceCursor(p) => cursor' >= cursor
  BY DEF AdvanceCursor, BatchExecuted
<1>3. CASE /\ ~MarkCursor
           /\ \A p \in Procs : ~AdvanceCursor(p)
  BY <1>3 DEF Next, Boot, BootAt, ProcessHead, Execute, vars, ledger, machine,
     Launch, AcquireRuntimeLock, Crash, RefuseResume, EstablishWatermark,
     RequireLosslessHandoff, DisarmRecovery, CompletePlannedResume,
     ArmPlannedResume, CheckResume, SkipHead, RepeatHead, TakeHead,
     CancelDueOrders, ObserveBatch, ReturnRecorded, RefuseCancelled,
     ExecuteWithoutOrder, StartSubmission, FinishSubmission,
     ReconcileSubmission, CloseRemainders, AbandonHead, ExtendChain
<1> QED
  BY <1>1, <1>2, <1>3

\* What a process has executed of its batch has an outcome or a word to wait for.
BatchSettled ==
  \A p \in Procs : pc[p] \in {"execute", "post"} =>
    \A s \in Sources : cursor < s /\ s <= goal[p] /\ s \notin todo[p]
      => status[s] \notin {"NONE", "OBSERVED", "SUBMIT_STARTED"}

\* Only the holder of the lock is within a batch, and it strikes an action off
\* when it has given it another status.
LEMMA SettledPreserved ==
  ASSUME Guarded, BatchSettled, [Next]_vars
  PROVE  BatchSettled'
<1> USE ServiceAssumption
    DEF Guarded, TypeOK, LockHeld, Holding, GoalAhead, BatchSettled, To, Released, Exit
<1>1. ASSUME NEW p \in Procs, Launch(p) \/ Crash(p) \/ AbandonHead(p) \/ CancelDueOrders(p)
      PROVE  BatchSettled'
  BY <1>1 DEF Launch, Crash, AbandonHead, CancelDueOrders, HeadDone, ledger
<1>2. AcquireRuntimeLock \/ RefuseResume \/ DisarmRecovery \/ CheckResume \/ SkipHead
        \/ RepeatHead \/ ExtendChain => BatchSettled'
  BY DEF AcquireRuntimeLock, RefuseResume, DisarmRecovery, CheckResume, SkipHead, RepeatHead,
     ExtendChain, MayProcess, ledger, machine
<1>3. ASSUME NEW h \in 0..chain, BootAt(h) PROVE BatchSettled'
  BY <1>3 DEF BootAt, EstablishWatermark, RequireLosslessHandoff, Booting
<1>4. MarkCursor => BatchSettled'
  BY DEF MarkCursor
<1>5. ASSUME NEW p \in Procs, CompletePlannedResume(p) PROVE BatchSettled'
  BY <1>5 DEF CompletePlannedResume
<1>6. ASSUME NEW repair \in BOOLEAN, ArmPlannedResume(repair) PROVE BatchSettled'
  BY <1>6 DEF ArmPlannedResume, machine
<1>7. ASSUME NEW p \in Procs, NEW g \in 0..MaxBlock, TakeHead(p, g) PROVE BatchSettled'
  BY <1>7 DEF TakeHead, MayProcess, ledger
<1>8. ASSUME NEW p \in Procs, ObserveBatch(p) PROVE BatchSettled'
  BY <1>8 DEF ObserveBatch, Batch
<1>9. ASSUME NEW p \in Procs, NEW s \in Sources,
             ReturnRecorded(p, s) \/ RefuseCancelled(p, s) \/ ExecuteWithoutOrder(p, s)
      PROVE  BatchSettled'
  BY <1>9 DEF ReturnRecorded, RefuseCancelled, ExecuteWithoutOrder, Executing, NextToExecute,
     Submittable, Executed, ledger
<1>10. ASSUME NEW p \in Procs, NEW s \in Sources, StartSubmission(p, s) PROVE BatchSettled'
  BY <1>10 DEF StartSubmission, Executing, NextToExecute
<1>11. ASSUME NEW p \in Procs, NEW s \in Sources, FinishSubmission(p, s) PROVE BatchSettled'
  BY <1>11 DEF FinishSubmission, NextToExecute, Executed
<1>12. ASSUME NEW p \in Procs, AdvanceCursor(p) PROVE BatchSettled'
  BY <1>12 DEF AdvanceCursor, BatchExecuted
<1>13. ASSUME NEW p \in Procs, NEW s \in Sources, ReconcileSubmission(p, s)
       PROVE  BatchSettled'
  BY <1>13 DEF ReconcileSubmission, Outcomes, machine
<1>14. ASSUME NEW p \in Procs, CloseRemainders(p) PROVE BatchSettled'
  BY <1>14 DEF CloseRemainders, HeadDone
<1>15. CASE UNCHANGED vars
  BY <1>15 DEF vars, ledger, machine
<1> QED
  BY <1>1, <1>2, <1>3, <1>4, <1>5, <1>6, <1>7, <1>8, <1>9, <1>10, <1>11, <1>12, <1>13, <1>14,
     <1>15 DEF Next, Boot, ProcessHead, Execute

\* Only the end of a batch moves the cursor from within one.
LEMMA CursorWaitsForBatch ==
  ASSUME Guarded, BatchSettled, [Next]_vars, NEW p \in Procs, NEW s \in Sources,
         pc[p] = "execute", cursor < s, s <= cursor'
  PROVE  status[s] \notin {"NONE", "OBSERVED", "SUBMIT_STARTED"}
<1> USE ServiceAssumption DEF Guarded, TypeOK, LockHeld, Holding, BatchSettled
<1>1. ~MarkCursor
  BY DEF MarkCursor
<1>2. \A q \in Procs : AdvanceCursor(q) => q = p /\ todo[p] = {} /\ cursor' = goal[p]
  BY DEF AdvanceCursor, BatchExecuted
<1>3. CASE \A q \in Procs : ~AdvanceCursor(q)
  <2>1. cursor' = cursor
    BY <1>1, <1>3 DEF Next, Boot, BootAt, ProcessHead, Execute, vars, ledger, machine,
       Launch, AcquireRuntimeLock, Crash, RefuseResume, EstablishWatermark,
       RequireLosslessHandoff, DisarmRecovery, CompletePlannedResume,
       ArmPlannedResume, CheckResume, SkipHead, RepeatHead, TakeHead,
       CancelDueOrders, ObserveBatch, ReturnRecorded, RefuseCancelled,
       ExecuteWithoutOrder, StartSubmission, FinishSubmission,
       ReconcileSubmission, CloseRemainders, AbandonHead, ExtendChain
  <2> QED
    BY <2>1
<1> QED
  BY <1>2, <1>3

-----------------------------------------------------------------------------

\* The inductive invariant of the service.
THEOREM GuardedAlways == Spec => []Guarded
<1>1. Init => Guarded
  BY Initially
<1>2. Guarded /\ [Next]_vars => Guarded'
  BY Preserved
<1> QED
  BY <1>1, <1>2, PTL DEF Spec

\* No action of the followed wallet is passed over without a record, through
\* any number of crashes, abandoned heads, restarts, takeovers and releases
\* (establish_forward_watermark, run_cycle_to_head).
THEOREM NothingIsPassedUnseen == Spec => []NothingPassedUnseen
<1>1. Guarded => NothingPassedUnseen
  BY DEF Guarded
<1> QED
  BY <1>1, GuardedAlways, PTL

\* However often and by whichever process an action is taken up again, it never
\* has two orders of unknown outcome, and one of before the first watermark
\* none (_process_hot_standby_ws_head, _process_source_action).
THEOREM NothingIsResubmittedBlindly == Spec => []NoBlindResubmission
<1>1. Guarded => NoBlindResubmission
  BY DEF Guarded
<1> QED
  BY <1>1, GuardedAlways, PTL

\* Primary and standby share one cursor, and neither ever moves it back
\* (the runtime lock, run_cycle_to_head).
THEOREM CursorOnlyAdvances == Spec => CursorMovesForward
<1>1. Guarded /\ [Next]_vars => [cursor' >= cursor]_vars
  BY CursorNeverFallsBack
<1> QED
  BY <1>1, GuardedAlways, PTL DEF Spec, CursorMovesForward

\* Rows, locks and steps of both processes keep their types through every crash
\* (run_live_service, run_cycle_to_head).
THEOREM ServiceTypes == Spec => []TypeOK
<1>1. Guarded => TypeOK
  BY DEF Guarded
<1> QED
  BY <1>1, GuardedAlways, PTL

\* The cursor never passes an action of a head before it is executed, with both
\* processes restarted at will (run_cycle_to_head).
THEOREM NothingIsPassedUnexecuted == Spec => PassedIsExecuted
<1>1. Init => BatchSettled
  BY DEF Init, BatchSettled
<1>2. Guarded /\ BatchSettled /\ [Next]_vars => BatchSettled'
  BY SettledPreserved
<1>3. Guarded /\ BatchSettled /\ [Next]_vars =>
        [\A p \in Procs, s \in Sources :
           pc[p] = "execute" /\ cursor < s /\ s <= cursor'
             => status[s] \notin {"NONE", "OBSERVED", "SUBMIT_STARTED"}]_vars
  BY CursorWaitsForBatch
<1> QED
  BY <1>1, <1>2, <1>3, GuardedAlways, PTL DEF Spec, PassedIsExecuted
=============================================================================
