---------------------------- MODULE HeadService ----------------------------
(***************************************************************************)
(* The two processes that follow the chain for one profile: the primary,   *)
(* which holds the runtime lock for its lifetime and establishes a forward *)
(* watermark when it starts, and the hot standby, which takes the lock for *)
(* one announced head at a time while the primary is gone.                 *)
(*                                                                         *)
(* A source action is named by its block.  Blocks above MaxBlock carry no  *)
(* action and are all identified with MaxBlock, so that heads never stop   *)
(* coming.  What one execution does to an action is reduced to the status  *)
(* it leaves; OrderLedger models it in full.                               *)
(***************************************************************************)
EXTENDS Integers

CONSTANTS
  Sources,      \* blocks that hold an action of the followed wallet
  MaxBlock,     \* bound: the last block that may hold one
  Restarts,     \* the processes the service manager starts again
  MaxCrashes,   \* bound: process deaths
  MaxFaults,    \* bound: heads abandoned for an external failure
  BareAnswers,  \* TRUE: the transport of a BUY's POST may fail
  Releases      \* TRUE: the operator may arm a planned resume

Procs == {"primary", "standby"}
NoBlock == -1
Heights == NoBlock..MaxBlock

ASSUME ServiceAssumption ==
  /\ MaxBlock \in Nat \ {0}
  /\ Sources \subseteq 1..(MaxBlock - 1)
  /\ Restarts \subseteq Procs
  /\ MaxCrashes \in Nat
  /\ MaxFaults \in Nat
  /\ BareAnswers \in BOOLEAN
  /\ Releases \in BOOLEAN

\* Latest transition of an action.  PENDING stands for the PENDING_ statuses
\* the executor writes, SUBMITTED for the unresolved ones after a POST,
\* CANCELLED for ACTIVE_CANCEL_COMPLETED, REMAINDER for a proven liquidity
\* remainder, TERMINAL for every terminal one.
Statuses == {"NONE", "OBSERVED", "PENDING", "PENDING_LOSSLESS_HANDOFF",
             "SUBMIT_STARTED", "SUBMITTED", "CANCELLED", "REMAINDER", "TERMINAL"}

\* Steps of a process: not running, waiting for the lock, establishing the
\* watermark, connected, and the steps of one head.
HeadSteps == {"cancel", "intake", "execute", "post", "settle"}
Steps == {"down", "waiting", "boot", "mark", "complete", "online", "checked", "finish"}
           \cup HeadSteps

VARIABLES
  chain,   \* highest block announced by the chain
  cursor,  \* runtime_state last_processed_block
  origin,  \* history: the first watermark
  status,  \* latest transition of an action
  bare,    \* actions whose BUY attempt holds a response without a deadline
  unknown, \* history: orders of an action whose outcome is not recorded
  latched, \* runtime_gap_receipts of an unowned gap: <<previous, head>>
  resume,  \* operator_planned_resume_from_block, NoBlock when empty
  armed,   \* operator_pre_repair_forward_recovery_armed
  lock,    \* holder of the runtime lock
  pc,      \* step of a process
  goal,    \* block a process works towards
  todo,    \* actions of its batch not yet executed
  known,   \* processes started at least once
  crashes, \* process deaths so far
  faults   \* abandoned heads so far

ledger == <<cursor, origin, status, bare, unknown, latched, resume, armed>>
machine == <<lock, pc, goal, todo, known>>
vars == <<chain, ledger, machine, crashes, faults>>

-----------------------------------------------------------------------------
\* Starting, stopping, and the lock.

To(p, s) == pc' = [pc EXCEPT ![p] = s]

Released(p) == IF lock = p THEN "free" ELSE lock

\* The primary keeps the lock between heads, the standby does not.
HeadDone(p) ==
  /\ To(p, "online")
  /\ lock' = IF p = "standby" THEN Released(p) ELSE lock
  /\ todo' = [todo EXCEPT ![p] = {}]

Exit(p) ==
  /\ To(p, "down")
  /\ lock' = Released(p)
  /\ todo' = [todo EXCEPT ![p] = {}]

\* run_live_service: a standby joins at the existing cursor and fails without
\* one; a primary waits for the lock.  Until the first watermark
\* the installation is repeated.
Launch(p) ==
  /\ pc[p] = "down"
  /\ p \in known /\ cursor # NoBlock => p \in Restarts
  /\ p = "standby" => cursor # NoBlock
  /\ To(p, IF p = "standby" THEN "online" ELSE "waiting")
  /\ known' = known \cup {p}
  /\ UNCHANGED <<chain, ledger, lock, goal, todo, crashes, faults>>

AcquireRuntimeLock ==
  /\ pc["primary"] = "waiting"
  /\ lock = "free"
  /\ lock' = "primary"
  /\ To("primary", "boot")
  /\ UNCHANGED <<chain, ledger, goal, todo, known, crashes, faults>>

\* The process dies, is stopped, or ends with an exception that is not retryable.
Crash(p) ==
  /\ pc[p] # "down"
  /\ crashes < MaxCrashes
  /\ crashes' = crashes + 1
  /\ Exit(p)
  /\ UNCHANGED <<chain, ledger, goal, known, faults>>

-----------------------------------------------------------------------------
\* _bootstrap_ws_connection and establish_forward_watermark.

Unreceived(h) == {s \in Sources : cursor < s /\ s <= h /\ status[s] = "NONE"}

Recovering == resume # NoBlock /\ armed

\* The planned resume names another cursor.
RefuseResume ==
  /\ pc["primary"] = "boot"
  /\ resume \notin {NoBlock, cursor}
  /\ Exit("primary")
  /\ UNCHANGED <<chain, ledger, goal, known, crashes, faults>>

\* Mutant of GapOwned: a latched gap holds the primary back for good.
GapOwnedOnce(h) ==
  cursor = NoBlock \/ Recovering \/ (Unreceived(h) = {} /\ latched = {})

\* record_unpriced_runtime_gap counts the receipts it inserts, or returns the
\* count of the same gap recorded before.  A later head than MaxBlock is
\* another gap.
GapOwned(h) ==
  \/ cursor = NoBlock
  \/ Recovering
  \/ /\ Unreceived(h) = {}
     /\ <<cursor, h>> \notin latched \/ h = MaxBlock

\* A head behind the cursor is an external error, and the session retries.
Booting(h) ==
  /\ pc["primary"] = "boot"
  /\ resume \in {NoBlock, cursor}
  /\ h >= cursor

\* Every missed action gets its receipt and a status that submits nothing.
\* A first start has no gap.
EstablishWatermark(h) ==
  /\ Booting(h)
  /\ GapOwned(h)
  /\ status' = [s \in Sources |->
       IF cursor # NoBlock /\ s \in Unreceived(h) THEN "TERMINAL" ELSE status[s]]
  /\ goal' = [goal EXCEPT !["primary"] = h]
  /\ To("primary", "mark")
  /\ UNCHANGED <<chain, cursor, origin, bare, unknown, latched, resume, armed,
                 lock, todo, known, crashes, faults>>

RequireLosslessHandoff(h) ==
  /\ Booting(h)
  /\ ~GapOwned(h)
  /\ status' = [s \in Sources |->
       IF s \in Unreceived(h) THEN "PENDING_LOSSLESS_HANDOFF" ELSE status[s]]
  /\ latched' = latched \cup {<<cursor, h>>}
  /\ Exit("primary")
  /\ UNCHANGED <<chain, cursor, origin, bare, unknown, resume, armed, goal, known,
                 crashes, faults>>

MarkCursor ==
  /\ pc["primary"] = "mark"
  /\ cursor' = goal["primary"]
  /\ origin' = IF cursor = NoBlock THEN goal["primary"] ELSE origin
  /\ To("primary", IF resume = NoBlock THEN "online" ELSE "complete")
  /\ UNCHANGED <<chain, status, bare, unknown, latched, resume, armed, lock, goal,
                 todo, known, crashes, faults>>

DisarmRecovery ==
  /\ pc["primary"] = "complete"
  /\ armed
  /\ armed' = FALSE
  /\ UNCHANGED <<chain, cursor, origin, status, bare, unknown, latched, resume, machine,
                 crashes, faults>>

\* _complete_planned_operator_resume, after the watermark, or after the head of
\* a standby that was behind the arming.
CompletePlannedResume(p) ==
  /\ pc[p] \in {"complete", "finish"}
  /\ pc[p] = "complete" => ~armed
  /\ resume' = NoBlock
  /\ armed' = FALSE
  /\ To(p, IF pc[p] = "complete" THEN "online" ELSE "settle")
  /\ UNCHANGED <<chain, cursor, origin, status, bare, unknown, latched, lock, goal,
                 todo, known, crashes, faults>>

\* arm_planned_operator_resume, and arm_pre_repair_forward_recovery when the
\* missed actions are to be given up.  Observations behind the cursor are
\* closed, other unfinished actions refuse it.
ArmPlannedResume(repair) ==
  /\ Releases
  /\ lock = "free"
  /\ cursor # NoBlock
  /\ resume \in {NoBlock, cursor}
  /\ \A s \in Sources : status[s] \in {"NONE", "OBSERVED", "PENDING", "REMAINDER", "TERMINAL"}
  /\ status' = [s \in Sources |->
       IF s <= cursor /\ status[s] = "OBSERVED" THEN "TERMINAL" ELSE status[s]]
  /\ resume' = cursor
  /\ armed' = (armed \/ repair)
  /\ UNCHANGED <<chain, cursor, origin, bare, unknown, latched, machine, crashes, faults>>

-----------------------------------------------------------------------------
\* One announced head.

\* processable_head is the block before the announced one.
Processable == 0..(chain - 1) \cup {g \in {MaxBlock} : chain = MaxBlock}
NewBlock(g) == g > cursor \/ g = MaxBlock

\* Mutant of MayProcess: the standby does not take the lock.
MayProcessUnlocked(p) == pc[p] = IF p = "primary" THEN "online" ELSE "checked"

\* The standby asks for the lock, and does not wait for it.
MayProcess(p) ==
  \/ p = "primary" /\ pc[p] = "online"
  \/ p = "standby" /\ pc[p] = "checked" /\ lock = "free"

\* _process_hot_standby_ws_head looks for a planned resume before it asks for
\* the lock, so that one may be armed in between.
CheckResume ==
  /\ pc["standby"] = "online"
  /\ resume = NoBlock
  /\ To("standby", "checked")
  /\ UNCHANGED <<chain, ledger, lock, goal, todo, known, crashes, faults>>

\* The lock is taken: the head is only observed.
SkipHead ==
  /\ pc["standby"] = "checked"
  /\ lock # "free"
  /\ To("standby", "online")
  /\ UNCHANGED <<chain, ledger, lock, goal, todo, known, crashes, faults>>

\* A head at the cursor brings nothing, but completes a planned resume.
RepeatHead ==
  /\ MayProcess("standby")
  /\ cursor \in Processable
  /\ resume # NoBlock
  /\ resume' = NoBlock
  /\ armed' = FALSE
  /\ To("standby", "online")
  /\ UNCHANGED <<chain, cursor, origin, status, bare, unknown, latched, lock, goal,
                 todo, known, crashes, faults>>

\* Any other head at or behind the cursor changes nothing and is no step.
TakeHead(p, g) ==
  /\ MayProcess(p)
  /\ g \in Processable
  /\ NewBlock(g)
  /\ lock' = p
  /\ goal' = [goal EXCEPT ![p] = g]
  /\ To(p, "cancel")
  /\ UNCHANGED <<chain, ledger, todo, known, crashes, faults>>

\* cancel_due_active_gtd_orders raises on a response without a deadline, and
\* cancels the BUY orders whose deadline has passed.
CancelDueOrders(p) ==
  /\ pc[p] = "cancel"
  /\ IF bare # {} THEN Exit(p) /\ UNCHANGED status
     ELSE /\ \E C \in SUBSET {s \in Sources : status[s] = "SUBMITTED"} :
               status' = [s \in Sources |-> IF s \in C THEN "CANCELLED" ELSE status[s]]
          /\ To(p, "intake")
          /\ UNCHANGED <<lock, todo>>
  /\ UNCHANGED <<chain, cursor, origin, bare, unknown, latched, resume, armed, goal,
                 known, crashes, faults>>

\* Mutant of Batch: the scan starts one block too late.
BatchOffByOne(g) == {s \in Sources : cursor + 1 < s /\ s <= g}

Batch(g) == {s \in Sources : cursor < s /\ s <= g}

\* _new_source_actions and persist_source_action_batch.
ObserveBatch(p) ==
  /\ pc[p] = "intake"
  /\ todo' = [todo EXCEPT ![p] = Batch(goal[p])]
  /\ status' = [s \in Sources |->
       IF s \in Batch(goal[p]) /\ status[s] = "NONE" THEN "OBSERVED" ELSE status[s]]
  /\ To(p, "execute")
  /\ UNCHANGED <<chain, cursor, origin, bare, unknown, latched, resume, armed, lock,
                 goal, known, crashes, faults>>

\* Actions are executed in the order of their blocks.
NextToExecute(p, s) == s \in todo[p] /\ \A t \in todo[p] : s <= t

Executing(p, s) == pc[p] = "execute" /\ NextToExecute(p, s)

\* Mutant of Submittable: a POST without a recorded outcome is made again.
SubmittableAgain(s) == status[s] \notin {"SUBMITTED", "CANCELLED", "TERMINAL"}

Submittable(s) ==
  status[s] \notin {"SUBMITTED", "CANCELLED", "TERMINAL", "SUBMIT_STARTED"}

Executed(p, s) == todo' = [todo EXCEPT ![p] = @ \ {s}]

\* The recorded result is returned, or a POST of unknown outcome is.
ReturnRecorded(p, s) ==
  /\ Executing(p, s)
  /\ ~Submittable(s)
  /\ status[s] # "CANCELLED"
  /\ status' = [status EXCEPT ![s] = IF @ = "SUBMIT_STARTED" THEN "SUBMITTED" ELSE @]
  /\ Executed(p, s)
  /\ UNCHANGED <<chain, cursor, origin, bare, unknown, latched, resume, armed, lock,
                 pc, goal, known, crashes, faults>>

\* The executor raises on an unresolved attempt under another transition.
RefuseCancelled(p, s) ==
  /\ Executing(p, s)
  /\ status[s] = "CANCELLED"
  /\ Exit(p)
  /\ UNCHANGED <<chain, ledger, goal, known, crashes, faults>>

\* The action ends or stays pending without an order.
ExecuteWithoutOrder(p, s) ==
  /\ Executing(p, s)
  /\ Submittable(s)
  /\ \E t \in {"PENDING", "TERMINAL"} : status' = [status EXCEPT ![s] = t]
  /\ Executed(p, s)
  /\ UNCHANGED <<chain, cursor, origin, bare, unknown, latched, resume, armed, lock,
                 pc, goal, known, crashes, faults>>

StartSubmission(p, s) ==
  /\ Executing(p, s)
  /\ Submittable(s)
  /\ status' = [status EXCEPT ![s] = "SUBMIT_STARTED"]
  /\ unknown' = [unknown EXCEPT ![s] = @ + 1]
  /\ To(p, "post")
  /\ UNCHANGED <<chain, cursor, origin, bare, latched, resume, armed, lock, goal,
                 todo, known, crashes, faults>>

\* The POST is answered, rejected, or its transport fails.
FinishSubmission(p, s) ==
  /\ pc[p] = "post"
  /\ NextToExecute(p, s)
  /\ \/ /\ status' = [status EXCEPT ![s] = "SUBMITTED"]
        /\ UNCHANGED <<bare, unknown>>
     \/ /\ status' = [status EXCEPT ![s] = "TERMINAL"]
        /\ unknown' = [unknown EXCEPT ![s] = 0]
        /\ UNCHANGED bare
     \/ /\ BareAnswers
        /\ status' = [status EXCEPT ![s] = "SUBMITTED"]
        /\ bare' = bare \cup {s}
        /\ UNCHANGED unknown
  /\ To(p, "execute")
  /\ Executed(p, s)
  /\ UNCHANGED <<chain, cursor, origin, latched, resume, armed, lock, goal,
                 known, crashes, faults>>

\* Mutant of BatchExecuted: the cursor moves before the batch is executed.
BatchExecutedEarly(p) == pc[p] = "execute"

BatchExecuted(p) == pc[p] = "execute" /\ todo[p] = {}

AdvanceCursor(p) ==
  /\ BatchExecuted(p)
  /\ cursor' = goal[p]
  /\ To(p, IF resume = NoBlock THEN "settle" ELSE "finish")
  /\ UNCHANGED <<chain, origin, status, bare, unknown, latched, resume, armed, lock,
                 goal, todo, known, crashes, faults>>

\* Mutant of Unreconciled: an order without a recorded answer is not asked about.
UnreconciledWhenAnswered(s) == status[s] \in {"SUBMITTED", "CANCELLED"}

Unreconciled(s) == status[s] \in {"SUBMIT_STARTED", "SUBMITTED", "CANCELLED"}

\* Mutant of Outcomes: the attempt's word is written as the action's.
OutcomesOfAttempt == {"PARTIAL_FILLED", "TERMINAL"}

Outcomes == {"REMAINDER", "TERMINAL"}

\* reconcile_submitted_actions gets the authority's word on one order, wherever
\* the cursor is.
ReconcileSubmission(p, s) ==
  /\ pc[p] = "settle"
  /\ Unreconciled(s)
  /\ \E t \in Outcomes : status' = [status EXCEPT ![s] = t]
  /\ bare' = bare \ {s}
  /\ unknown' = [unknown EXCEPT ![s] = 0]
  /\ UNCHANGED <<chain, cursor, origin, latched, resume, armed, machine,
                 crashes, faults>>

\* retry_pending_actions closes the proven remainders behind the cursor and
\* leaves every other pending action alone; the head ends.
CloseRemainders(p) ==
  /\ pc[p] = "settle"
  /\ status' = [s \in Sources |->
       IF s <= cursor /\ status[s] = "REMAINDER" THEN "TERMINAL" ELSE status[s]]
  /\ HeadDone(p)
  /\ UNCHANGED <<chain, cursor, origin, bare, unknown, latched, resume, armed, goal,
                 known, crashes, faults>>

\* A retryable external failure ends the head and leaves the session alive.
AbandonHead(p) ==
  /\ pc[p] \in HeadSteps \ {"post"}
  /\ faults < MaxFaults
  /\ faults' = faults + 1
  /\ HeadDone(p)
  /\ UNCHANGED <<chain, ledger, goal, known, crashes>>

ExtendChain ==
  /\ chain < MaxBlock
  /\ chain' = chain + 1
  /\ UNCHANGED <<ledger, machine, crashes, faults>>

-----------------------------------------------------------------------------

Init ==
  /\ chain = 0
  /\ cursor = NoBlock
  /\ origin = NoBlock
  /\ status = [s \in Sources |-> "NONE"]
  /\ bare = {}
  /\ unknown = [s \in Sources |-> 0]
  /\ latched = {}
  /\ resume = NoBlock
  /\ armed = FALSE
  /\ lock = "free"
  /\ pc = [p \in Procs |-> "down"]
  /\ goal = [p \in Procs |-> NoBlock]
  /\ todo = [p \in Procs |-> {}]
  /\ known = {}
  /\ crashes = 0
  /\ faults = 0

BootAt(h) == EstablishWatermark(h) \/ RequireLosslessHandoff(h)

Boot ==
  \/ AcquireRuntimeLock
  \/ RefuseResume
  \/ \E h \in 0..chain : BootAt(h)
  \/ MarkCursor
  \/ DisarmRecovery
  \/ CompletePlannedResume("primary")

Execute(p) ==
  \E s \in Sources : \/ ReturnRecorded(p, s) \/ RefuseCancelled(p, s)
                     \/ ExecuteWithoutOrder(p, s)
                     \/ StartSubmission(p, s) \/ FinishSubmission(p, s)

ProcessHead(p) ==
  CancelDueOrders(p) \/ ObserveBatch(p) \/ Execute(p) \/ AdvanceCursor(p)
    \/ CompletePlannedResume(p) \/ CloseRemainders(p)

Next ==
  \/ ExtendChain
  \/ Boot
  \/ \E repair \in BOOLEAN : ArmPlannedResume(repair)
  \/ CheckResume \/ SkipHead \/ RepeatHead
  \/ \E p \in Procs :
       \/ Launch(p) \/ ProcessHead(p) \/ AbandonHead(p) \/ Crash(p)
       \/ \E g \in 0..MaxBlock : TakeHead(p, g)
       \/ \E s \in Sources : ReconcileSubmission(p, s)

Spec == Init /\ [][Next]_vars

\* The service manager starts the processes, the chain grows and announces its
\* newest head, and a process that runs goes on.  A primary that waits in flock
\* gets the lock at last, and reads the newest head at last when it starts over
\* and over; an authority asked over and over answers at last.
Fairness ==
  /\ WF_vars(ExtendChain)
  /\ WF_vars(Boot)
  /\ SF_vars(AcquireRuntimeLock)
  /\ SF_vars(BootAt(MaxBlock) /\ chain = MaxBlock)
  /\ WF_vars(CheckResume)
  /\ WF_vars(SkipHead)
  /\ \A p \in Procs :
       /\ WF_vars(Launch(p))
       /\ WF_vars(TakeHead(p, MaxBlock))
       /\ WF_vars(ProcessHead(p))
  /\ \A s \in Sources : SF_vars(\E p \in Procs : ReconcileSubmission(p, s))

FairSpec == Spec /\ Fairness

-----------------------------------------------------------------------------

TypeOK ==
  /\ chain \in 0..MaxBlock
  /\ cursor \in Heights
  /\ origin \in Heights
  /\ status \in [Sources -> Statuses]
  /\ bare \subseteq Sources
  /\ unknown \in [Sources -> Nat]
  /\ latched \subseteq Heights \X Heights
  /\ resume \in Heights
  /\ armed \in BOOLEAN
  /\ lock \in Procs \cup {"free"}
  /\ pc \in [Procs -> Steps]
  /\ goal \in [Procs -> Heights]
  /\ todo \in [Procs -> SUBSET Sources]
  /\ known \subseteq Procs
  /\ crashes \in 0..MaxCrashes
  /\ faults \in 0..MaxFaults

\* No action of the followed wallet is passed over without a record: above the
\* first watermark the cursor only moves over blocks whose actions have a
\* receipt, through crashes, abandoned heads, restarts and takeovers.
NothingPassedUnseen ==
  \A s \in Sources : origin < s /\ s <= cursor => status[s] # "NONE"

\* The cursor of a profile only moves forward, whichever process moves it.
CursorMovesForward == [][cursor' >= cursor]_vars

\* Whichever process takes an action up again, and however often, it never has
\* two orders of unknown outcome; an action of before the first watermark has
\* none.
NoBlindResubmission ==
  \A s \in Sources : unknown[s] <= 1 /\ (unknown[s] > 0 => s > origin)

\* A head never moves the cursor over an action it has not executed, whoever
\* began the range, whichever process continues it and whatever interrupts it.
PassedIsExecuted ==
  [][\A p \in Procs, s \in Sources :
       pc[p] = "execute" /\ cursor < s /\ s <= cursor'
         => status[s] \notin {"NONE", "OBSERVED", "SUBMIT_STARTED"}]_vars

\* Every block is processed in the end.
CatchesUp == <>(cursor = MaxBlock)

\* An order that may have been posted gets its word in the end, even when the
\* process that posted it died before it recorded the answer.
SubmissionsSettle ==
  \A s \in Sources : unknown[s] > 0 ~> unknown[s] = 0
=============================================================================
