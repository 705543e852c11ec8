---------------------- MODULE OrderLedgerCausalProofs ----------------------
(***************************************************************************)
(* The causal order of the actions of one token, for every set of actions, *)
(* every market and every bound: one of them at a time is in flight, the   *)
(* rows around an unresolved attempt always let it be reconciled, and what *)
(* was recorded as an outcome stays.                                       *)
(***************************************************************************)
EXTENDS OrderLedgerProofs, FiniteSums

\* Receipts are complete: what precedes an observed action was observed.
ObservedInOrder ==
  \A a, b \in Actions : latest[b] # "NONE" /\ Rank[a] < Rank[b] => latest[a] # "NONE"

\* The executor has found an action first in line and frozen its quantity.
Sized(a) == planned[a] \/ Busy("planned", a)

SizedRows == \A a \in Actions : Sized(a) => scoped[a] /\ HasTarget(a)

\* What is behind a sized action of the same token is over.
Over(b) == ~Nonterminal(b)

Precedes(b, a) == TokenOf[b] = TokenOf[a] /\ Rank[b] < Rank[a]

SizedInOrder ==
  \A a, b \in Actions : Sized(a) /\ Precedes(b, a) => Over(b)

\* A sized SELL is too small to order, or what remains of it is still held.
SizedIsHeld ==
  \A a \in OfSide("SELL") :
    Sized(a) /\ Nonterminal(a) => Remaining(a) < MinSize \/ Remaining(a) <= pos[TokenOf[a]]

\* The last transition of an action in flight: a cancelled BUY may be handed
\* to the executor again, which defers it.
InFlightStates(a) ==
  UnresolvedStates
    \cup {s \in {"ACTIVE_CANCEL_COMPLETED", "PENDING_CAUSAL_ORDER"} : SideOf[a] = "BUY"}

InFlightRow(a) ==
  Unresolved(a) =>
    /\ planned[a]
    /\ target[a].state \in UnresolvedStates
    /\ latest[a] \in InFlightStates(a)
    /\ \A n \in Attempts :
         attempt[<<a, n>>].state \in UnresolvedStates => attempt[<<a, n>>].req = Remaining(a)

InFlightRows == \A a \in Actions : InFlightRow(a)

\* A handler works on a live action, and on one in flight it writes nothing
\* that would end it.
Handling ==
  ~At("idle") =>
    /\ latest[exec.act] \notin TerminalStates \cup {"NONE"}
    /\ exec.pc = "entry" => latest[exec.act] \notin HandledStates
    /\ exec.pc = "late" => ~planned[exec.act]
    /\ exec.pc = "cancelled" => SideOf[exec.act] = "BUY"
    /\ exec.pc \in {"prepare", "post"} => planned[exec.act]
    /\ exec.pc \in {"planned", "prepare"} => ~Unresolved(exec.act)
    /\ exec.pc = "append" => exec.st # "NONE"
    /\ exec.pc = "set" /\ Unresolved(exec.act) => exec.st \in UnresolvedStates
    /\ exec.pc = "append" /\ Unresolved(exec.act) => exec.st \in InFlightStates(exec.act)
    /\ exec.pc = "prepare" \/ (exec.pc = "planned" /\ exec.st = "READY")
         => exec.q = Remaining(exec.act)

Causal ==
  /\ Backed
  /\ ObservedInOrder
  /\ SizedRows
  /\ SizedInOrder
  /\ SizedIsHeld
  /\ InFlightRows
  /\ Handling

USE DEF OfSide, Attempts, Orders

-----------------------------------------------------------------------------
\* What one step leaves alone.

Same(b) ==
  /\ latest'[b] = latest[b]
  /\ scoped'[b] = scoped[b]
  /\ planned'[b] = planned[b]
  /\ target'[b] = target[b]
  /\ \A n \in Attempts : attempt'[<<b, n>>] = attempt[<<b, n>>]

\* The steps of the executor and of the two handlers of maintenance.
HandlerStep(a) == Plan(a) \/ Submit(a) \/ RecordCancellation(a) \/ CloseRetry(a)

LEMMA EnsureSame ==
  ASSUME Typed, NEW a \in Actions, NEW b \in Actions, a # b, NEW s, NEW q,
         EnsureTarget(a, s, q)
  PROVE  target'[b] = target[b]
BY DEF EnsureTarget, Typed

LEMMA OthersSame ==
  ASSUME Typed, NEW a \in Actions, HandlerStep(a), ~SupersedeEarlierOpposites(a),
         NEW b \in Actions, b # a
  PROVE  Same(b)
<1> USE DEF Typed, TypeOK, rows
<1>1. \A n, m \in Attempts : <<a, n>> \in Orders /\ <<b, m>> \in Orders /\ <<a, n>> # <<b, m>>
  OBVIOUS
<1>2. CASE Plan(a)
  <2>1. UNCHANGED attempt
    BY <1>2 DEF Plan, ProcessSourceAction, ScopeRefuses, ScopeAccepts, LateUnfillable,
         RecoverSubmitStarted, DeferToEarlierAction, SupersedeEarlierOpposites,
         CloseUnsellable, Refuse, FailStaleTarget, PlanFails, PlanFirst, PlanRemainder,
         RecordPlan, PreparationFails
  <2>2. latest'[b] = latest[b]
    BY <1>2 DEF Plan, ProcessSourceAction, ScopeRefuses, ScopeAccepts, LateUnfillable,
         RecoverSubmitStarted, DeferToEarlierAction,
         CloseUnsellable, Refuse, FailStaleTarget, PlanFails, PlanFirst, PlanRemainder,
         RecordPlan, PreparationFails, Append, Release
  <2>3. scoped'[b] = scoped[b] /\ planned'[b] = planned[b]
    BY <1>2 DEF Plan, ProcessSourceAction, ScopeRefuses, ScopeAccepts, LateUnfillable,
         RecoverSubmitStarted, DeferToEarlierAction, SupersedeEarlierOpposites,
         CloseUnsellable, Refuse, FailStaleTarget, PlanFails, PlanFirst, PlanRemainder,
         RecordPlan, PreparationFails
  <2>4. target'[b] = target[b]
    BY <1>2, EnsureSame
       DEF Plan, ProcessSourceAction, ScopeRefuses, ScopeAccepts, LateUnfillable,
         RecoverSubmitStarted, DeferToEarlierAction,
         CloseUnsellable, Refuse, FailStaleTarget, PlanFails, PlanFirst, PlanRemainder,
         RecordPlan, PreparationFails, SetTarget, Release
  <2> QED
    BY <2>1, <2>2, <2>3, <2>4 DEF Same
<1>3. CASE Submit(a)
  <2>1. \A n \in Attempts : attempt'[<<b, n>>] = attempt[<<b, n>>]
    <3>1. CASE \E m \in Attempts : BeginSubmissionAttempt(a, m)
      BY <1>1, <3>1 DEF BeginSubmissionAttempt
    <3>2. CASE PostRejected(a) \/ RecordAttempt(a)
      <4>1. exec.n \in Attempts
        BY <3>2, InStep, Narrower DEF PostRejected, RecordAttempt, PCs, Handlers
      <4> QED
        BY <1>1, <3>2, <4>1 DEF PostRejected, RecordAttempt, SetAttempt
    <3> QED
      BY <1>3, <3>1, <3>2 DEF Submit, PostAnswered, PostUnanswered, RecordTarget,
           RecordTransition
  <2>2. latest'[b] = latest[b] /\ target'[b] = target[b]
    BY <1>3 DEF Submit, BeginSubmissionAttempt, PostAnswered, PostUnanswered,
         PostRejected, RecordAttempt, RecordTarget, RecordTransition, Append, SetTarget,
         Release
  <2>3. UNCHANGED <<scoped, planned>>
    BY <1>3 DEF Submit, BeginSubmissionAttempt, PostAnswered, PostUnanswered,
         PostRejected, RecordAttempt, RecordTarget, RecordTransition
  <2> QED
    BY <2>1, <2>2, <2>3 DEF Same
<1>4. CASE RecordCancellation(a)
  <2>1. exec.n \in Attempts
    BY <1>4, InStep, Narrower DEF RecordCancellation, PCs, Handlers
  <2> QED
    BY <1>1, <1>4, <2>1 DEF RecordCancellation, Same
<1>5. CASE CloseRetry(a)
  BY <1>5 DEF CloseRetry, SetTarget, Same
<1> QED
  BY <1>2, <1>3, <1>4, <1>5 DEF HandlerStep

LEMMA ReconcileSame ==
  ASSUME Typed, NEW o \in Orders, Reconcile(o), NEW b \in Actions, b # o[1]
  PROVE  Same(b)
<1> USE DEF Typed, TypeOK
<1>1. \A n \in Attempts : <<b, n>> \in Orders /\ <<b, n>> # o
  OBVIOUS
<1>2. o[1] \in Actions
  OBVIOUS
<1>3. \A n \in Attempts : attempt'[<<b, n>>] = attempt[<<b, n>>]
  BY <1>1 DEF Reconcile, ReconcileFill, ReconcileFinalizedNoFill, ReconcileCanceled,
              ReconcileAbsent, SetAttempt
<1>4. latest'[b] = latest[b] /\ target'[b] = target[b]
  BY <1>2 DEF Reconcile, ReconcileFill, ReconcileFinalizedNoFill, ReconcileCanceled,
              ReconcileAbsent, SetTarget, Append, Release
<1>5. UNCHANGED <<scoped, planned>>
  BY DEF Reconcile, ReconcileFill, ReconcileFinalizedNoFill, ReconcileCanceled,
         ReconcileAbsent
<1> QED
  BY <1>3, <1>4, <1>5 DEF Same

-----------------------------------------------------------------------------
\* What is over stays over, and what was observed stays observed.

LEMMA Disjoint ==
  /\ UnresolvedStates \cap (TerminalStates \cup {"NONE", "ABSENT"}) = {}
  /\ RetryableStates \cap (TerminalStates \cup {"NONE", "ABSENT"}) = {}
  /\ TerminalStates \cap {"NONE", "ABSENT"} = {}
  /\ TerminalStates \subseteq HandledStates
  /\ LiquidityStates \subseteq RetryableStates
  /\ LatestStates \cap {"ABSENT"} = {}
BY DEF UnresolvedStates, TerminalStates, RetryableStates, LiquidityStates, HandledStates,
       LatestStates

LEMMA InFlightLive ==
  ASSUME Causal, NEW a \in Actions, Unresolved(a)
  PROVE  /\ latest[a] \notin TerminalStates \cup {"NONE"}
         /\ target[a].state \notin TerminalStates \cup RetryableStates \cup {"ABSENT"}
         /\ planned[a]
<1>1. InFlightStates(a) \cap (TerminalStates \cup {"NONE"}) = {}
  BY Disjoint DEF InFlightStates, TerminalStates
<1>2. UnresolvedStates \cap RetryableStates = {}
  BY DEF UnresolvedStates, RetryableStates, LiquidityStates
<1> QED
  BY <1>1, <1>2, Disjoint DEF Causal, InFlightRows, InFlightRow

LEMMA ReconciledIsInFlight ==
  ASSUME Causal, NEW o \in Orders, Reconcile(o)
  PROVE  /\ At("idle") /\ UNCHANGED exec /\ o[1] \in Actions
         /\ attempt[o].state \in UnresolvedStates
         /\ Unresolved(o[1])
<1>1. At("idle") /\ UNCHANGED exec /\ attempt[o].state \in UnresolvedStates
  BY DEF Reconcile, ReconcileFill, ReconcileFinalizedNoFill, ReconcileCanceled,
         ReconcileAbsent, Reconcilable, Listed
<1>2. o[1] \in Actions /\ o[2] \in Attempts /\ o = <<o[1], o[2]>>
  OBVIOUS
<1> QED
  BY <1>1, <1>2 DEF Unresolved

LEMMA HandledAction ==
  ASSUME Causal, NEW a \in Actions, HandlerStep(a),
         ~ProcessSourceAction(a), ~CloseRetry(a)
  PROVE  ~At("idle") /\ exec \in Steps /\ exec \in Handlers /\ exec.act = a /\ exec.pc \in PCs
<1>1. \E pc \in PCs : Busy(pc, a)
  BY DEF HandlerStep, Plan, Submit, ScopeRefuses, ScopeAccepts, LateUnfillable,
         RecoverSubmitStarted, DeferToEarlierAction, SupersedeEarlierOpposites,
         CloseUnsellable, Refuse, FailStaleTarget, PlanFails, PlanFirst, PlanRemainder,
         RecordPlan, PreparationFails, BeginSubmissionAttempt, PostAnswered,
         PostUnanswered, PostRejected, RecordAttempt, RecordTarget, RecordTransition,
         RecordCancellation, Plannable, Sizable, InOrder, Executing, PCs
<1>2. PICK pc \in PCs : Busy(pc, a)
  BY <1>1
<1>3. exec \in Steps /\ exec.pc = pc /\ exec.act = a
  BY <1>2, InStep DEF Causal, Backed
<1> QED
  BY <1>3, Narrower DEF PCs, At

LEMMA HandledIsLive ==
  ASSUME Causal, NEW a \in Actions, HandlerStep(a)
  PROVE  latest[a] \notin TerminalStates \cup {"NONE"}
<1>1. CASE ProcessSourceAction(a)
  BY <1>1, Disjoint DEF ProcessSourceAction
<1>2. CASE CloseRetry(a)
  BY <1>2, Disjoint DEF CloseRetry, LiquidityEvidence
<1>3. CASE ~ProcessSourceAction(a) /\ ~CloseRetry(a)
  BY <1>3, HandledAction DEF Causal, Handling
<1> QED
  BY <1>1, <1>2, <1>3

\* The steps, seen from the rows.
LEMMA RowSteps ==
  ASSUME [Next]_vars
  PROVE  \/ Intake
         \/ \E a \in Actions : HandlerStep(a)
         \/ \E o \in Orders : Reconcile(o)
         \/ UNCHANGED rows
<1>1. Venue \/ Crash \/ (\E o \in Orders : CancelDue(o)) \/ UNCHANGED vars => UNCHANGED rows
  BY DEF Venue, Match, Withdraw, Arrive, Finalize, Crash, CancelDue, vars
<1> QED
  BY <1>1 DEF Next, Maintain, HandlerStep

LEMMA StaysSettled ==
  ASSUME Causal, [Next]_vars, NEW b \in Actions, Over(b)
  PROVE  Over(b)'
<1> USE DEF Over, Nonterminal
<1>1. Typed /\ latest[b] \in TerminalStates
           /\ target[b].state \in TerminalStates \cup {"ABSENT"}
  BY DEF Causal, Backed
<1>2. CASE Intake
  <2>1. latest'[b] = latest[b] /\ target' = target
    BY <1>1, <1>2, Disjoint DEF Intake, Observe, RecordGap, Typed, TypeOK
  <2> QED
    BY <1>1, <2>1
<1>3. ASSUME NEW a \in Actions, HandlerStep(a) PROVE Over(b)'
  <2>1. a # b
    BY <1>1, <1>3, HandledIsLive
  <2>2. CASE SupersedeEarlierOpposites(a)
    <3>1. b \notin EarlierOpposites(a)
      BY <1>1, Disjoint DEF EarlierOpposites
    <3>2. latest'[b] = latest[b] /\ target'[b] = target[b]
      BY <2>2, <3>1 DEF SupersedeEarlierOpposites
    <3> QED
      BY <1>1, <3>2
  <2>3. CASE ~SupersedeEarlierOpposites(a)
    <3>1. Same(b)
      BY <1>1, <1>3, <2>1, <2>3, OthersSame
    <3> QED
      BY <1>1, <3>1 DEF Same
  <2> QED
    BY <2>2, <2>3
<1>4. ASSUME NEW o \in Orders, Reconcile(o) PROVE Over(b)'
  <2>1. o[1] # b
    BY <1>1, <1>4, ReconciledIsInFlight, InFlightLive
  <2>2. Same(b)
    BY <1>1, <1>4, <2>1, ReconcileSame
  <2> QED
    BY <1>1, <2>2 DEF Same
<1>5. CASE UNCHANGED rows
  BY <1>1, <1>5 DEF rows
<1> QED
  BY <1>2, <1>3, <1>4, <1>5, RowSteps

LEMMA HandlerObserves ==
  ASSUME Typed, NEW a \in Actions, HandlerStep(a), latest[a] # "NONE",
         At("append") => exec.st # "NONE"
  PROVE  latest'[a] # "NONE"
<1> USE DEF Typed, TypeOK
<1>1. latest[a] # "NONE"
  OBVIOUS
<1>2. CASE RecordTransition(a)
  <2>1. Busy("append", a) /\ exec.st # "NONE"
    BY <1>2 DEF RecordTransition, Busy, At
  <2> QED
    BY <1>2, <2>1 DEF RecordTransition, Append
<1>3. CASE ScopeRefuses(a)
  <2>1. PICK s \in {"PENDING_METADATA", "ERROR_INTERNAL", "SKIPPED"} : Append(a, s)
    BY <1>3 DEF ScopeRefuses
  <2> QED
    BY <2>1 DEF Append
<1>4. CASE ScopeAccepts(a)
  BY <1>4 DEF ScopeAccepts, Append
<1>5. CASE RecoverSubmitStarted(a) \/ DeferToEarlierAction(a) \/ FailStaleTarget(a)
  BY <1>5 DEF RecoverSubmitStarted, DeferToEarlierAction, FailStaleTarget, Append, Release
<1>6. CASE PlanFails(a)
  <2>1. "NONE" \notin PlanFailures(a)
    BY DEF PlanFailures
  <2> QED
    BY <1>1, <1>6, <2>1 DEF PlanFails, Append
<1>7. CASE RecordPlan(a) \/ (\E n \in Attempts : BeginSubmissionAttempt(a, n)) \/ PostRejected(a)
  BY <1>7 DEF RecordPlan, BeginSubmissionAttempt, PostRejected, Append, Release
<1>8. CASE SupersedeEarlierOpposites(a)
  <2>1. a \notin EarlierOpposites(a)
    BY ActionsAssumption DEF EarlierOpposites, Earlier
  <2> QED
    BY <1>1, <1>8, <2>1 DEF SupersedeEarlierOpposites
<1>9. CASE \/ ProcessSourceAction(a) \/ LateUnfillable(a) \/ CloseUnsellable(a) \/ Refuse(a)
           \/ PlanFirst(a) \/ PlanRemainder(a) \/ PreparationFails(a) \/ PostAnswered(a)
           \/ PostUnanswered(a) \/ RecordAttempt(a) \/ RecordTarget(a)
           \/ RecordCancellation(a) \/ CloseRetry(a)
  <2>1. UNCHANGED latest
    BY <1>9 DEF ProcessSourceAction, LateUnfillable, CloseUnsellable, Refuse, PlanFirst,
         PlanRemainder, PreparationFails, PostAnswered, PostUnanswered, RecordAttempt,
         RecordTarget, RecordCancellation, CloseRetry, rows
  <2> QED
    BY <1>1, <2>1
<1> QED
  BY <1>2, <1>3, <1>4, <1>5, <1>6, <1>7, <1>8, <1>9 DEF HandlerStep, Plan, Submit

LEMMA ReconcileObserves ==
  ASSUME Typed, NEW o \in Orders, Reconcile(o)
  PROVE  latest'[o[1]] # "NONE"
<1>1. o[1] \in Actions
  OBVIOUS
<1>2. PICK s : s # "NONE" /\ Append(o[1], s)
  <2>1. \A q : FillState(o[1], q) # "NONE"
    BY DEF FillState
  <2>2. CASE ReconcileFill(o)
    BY <2>1, <2>2 DEF ReconcileFill
  <2>3. CASE ~ReconcileFill(o)
    BY <2>3 DEF Reconcile, ReconcileFinalizedNoFill, ReconcileCanceled, ReconcileAbsent,
                Release
  <2> QED
    BY <2>2, <2>3
<1> QED
  BY <1>1, <1>2 DEF Append, Typed, TypeOK

LEMMA SameObserved ==
  ASSUME Causal, [Next]_vars, ~Intake, NEW b \in Actions
  PROVE  latest'[b] = "NONE" <=> latest[b] = "NONE"
<1> USE DEF Causal, Backed, Typed, TypeOK
<1>1. ASSUME NEW a \in Actions, HandlerStep(a)
      PROVE  latest'[b] = "NONE" <=> latest[b] = "NONE"
  <2>1. CASE a = b
    <3>1. latest[a] # "NONE" /\ (At("append") => exec.st # "NONE")
      BY <1>1, HandledIsLive DEF Handling, At
    <3> QED
      BY <1>1, <2>1, <3>1, HandlerObserves
  <2>2. CASE SupersedeEarlierOpposites(a)
    <3>1. Closed(b) # "NONE"
      BY DEF Closed
    <3>2. b \in EarlierOpposites(a) => latest[b] # "NONE"
      BY DEF EarlierOpposites, Earlier
    <3> QED
      BY <2>2, <3>1, <3>2 DEF SupersedeEarlierOpposites
  <2>3. CASE a # b /\ ~SupersedeEarlierOpposites(a)
    BY <1>1, <2>3, OthersSame DEF Same
  <2> QED
    BY <2>1, <2>2, <2>3
<1>2. ASSUME NEW o \in Orders, Reconcile(o)
      PROVE  latest'[b] = "NONE" <=> latest[b] = "NONE"
  <2>1. CASE o[1] = b
    BY <1>2, <2>1, ReconciledIsInFlight, InFlightLive, ReconcileObserves
  <2>2. CASE o[1] # b
    BY <1>2, <2>2, ReconcileSame DEF Same
  <2> QED
    BY <2>1, <2>2
<1> QED
  BY <1>1, <1>2, RowSteps DEF rows

LEMMA StepObservedInOrder == ASSUME Causal, [Next]_vars PROVE ObservedInOrder'
<1> SUFFICES ASSUME NEW a \in Actions, NEW b \in Actions,
                    latest'[b] # "NONE", Rank[a] < Rank[b]
             PROVE  latest'[a] # "NONE"
  BY DEF ObservedInOrder
<1>1. CASE ~Intake
  BY <1>1, SameObserved DEF Causal, ObservedInOrder
<1>2. CASE Intake
  <2>1. PICK B \in SUBSET Actions :
          /\ \A c \in B, d \in Actions : Rank[d] < Rank[c] => latest[d] # "NONE" \/ d \in B
          /\ \E s \in {"OBSERVED", "ERROR_INTERNAL", "PENDING_LOSSLESS_HANDOFF"} :
               latest' = [c \in Actions |-> IF c \in B THEN s ELSE latest[c]]
    BY <1>2 DEF Intake, Observe, RecordGap
  <2>2. PICK s \in {"OBSERVED", "ERROR_INTERNAL", "PENDING_LOSSLESS_HANDOFF"} :
          latest' = [c \in Actions |-> IF c \in B THEN s ELSE latest[c]]
    BY <2>1
  <2>3. b \in B \/ latest[b] # "NONE"
    BY <2>2
  <2>4. a \in B \/ latest[a] # "NONE"
    BY <2>1, <2>3 DEF Causal, ObservedInOrder
  <2> QED
    BY <2>2, <2>4
<1> QED
  BY <1>1, <1>2

-----------------------------------------------------------------------------
\* Who is first in line.

\* Rows that only grow.
LEMMA TargetsStay ==
  ASSUME Causal, [Next]_vars, NEW b \in Actions
  PROVE  /\ HasTarget(b) => HasTarget(b)'
         /\ scoped[b] => scoped'[b]
         /\ planned[b] => planned'[b]
<1> USE DEF Causal, Backed, Typed, TypeOK, HasTarget
<1>1. ASSUME NEW a \in Actions, HandlerStep(a)
      PROVE  /\ HasTarget(b) => HasTarget(b)'
             /\ scoped[b] => scoped'[b]
             /\ planned[b] => planned'[b]
  <2>1. CASE SupersedeEarlierOpposites(a)
    <3>1. Closed(b) # "ABSENT"
      BY DEF Closed
    <3>2. target[b].state # "ABSENT" => target'[b].state # "ABSENT"
      BY <2>1, <3>1 DEF SupersedeEarlierOpposites, WithinTarget, TargetRows
    <3> QED
      BY <2>1, <3>2 DEF SupersedeEarlierOpposites
  <2>2. CASE a # b /\ ~SupersedeEarlierOpposites(a)
    BY <1>1, <2>2, OthersSame DEF Same
  <2>3. CASE a = b /\ ~SupersedeEarlierOpposites(a)
    <3>1. scoped[b] => scoped'[b]
      BY <1>1, <2>3
         DEF HandlerStep, Plan, Submit, ProcessSourceAction, ScopeRefuses, ScopeAccepts,
         LateUnfillable, RecoverSubmitStarted, DeferToEarlierAction,
         CloseUnsellable, Refuse, FailStaleTarget, PlanFails, PlanFirst, PlanRemainder,
         RecordPlan, PreparationFails, BeginSubmissionAttempt, PostAnswered,
         PostUnanswered, PostRejected, RecordAttempt, RecordTarget, RecordTransition,
         RecordCancellation, CloseRetry, rows
    <3>2. planned[b] => planned'[b]
      BY <1>1, <2>3
         DEF HandlerStep, Plan, Submit, ProcessSourceAction, ScopeRefuses, ScopeAccepts,
         LateUnfillable, RecoverSubmitStarted, DeferToEarlierAction,
         CloseUnsellable, Refuse, FailStaleTarget, PlanFails, PlanFirst, PlanRemainder,
         RecordPlan, PreparationFails, BeginSubmissionAttempt, PostAnswered,
         PostUnanswered, PostRejected, RecordAttempt, RecordTarget, RecordTransition,
         RecordCancellation, CloseRetry, rows
    <3>3. ASSUME target[a].state # "ABSENT" PROVE target'[a].state # "ABSENT"
      <4>1. CASE \E s, q : EnsureTarget(a, s, q)
        BY <3>3, <4>1 DEF EnsureTarget
      <4>2. CASE \E s \in TargetStates \ {"ABSENT"} : SetTarget(a, s)
        BY <4>2 DEF SetTarget, WithinTarget, TargetRows
      <4>3. CASE UNCHANGED target
        BY <3>3, <4>3
      <4>4. CASE RecordTarget(a)
        <5>1. exec.st \in TargetStates \cap LatestStates
          BY <4>4, InStep DEF RecordTarget, PCs, Pending
        <5> QED
          BY <4>2, <4>4, <5>1, Disjoint DEF RecordTarget
      <4>5. CASE FailStaleTarget(a) \/ PostRejected(a) \/ CloseRetry(a)
        <5>1. PICK s \in {"ERROR_INTERNAL", "EXTERNAL_UNFILLABLE", "PARTIAL"} :
                SetTarget(a, s)
          BY <4>5 DEF FailStaleTarget, PostRejected, CloseRetry, Release, Unfillable
        <5>2. s \in TargetStates \ {"ABSENT"}
          BY DEF TargetStates, TerminalStates
        <5> QED
          BY <4>2, <5>1, <5>2
      <4>6. CASE \E n \in Attempts : BeginSubmissionAttempt(a, n)
        <5>1. SetTarget(a, "SUBMIT_STARTED")
          BY <4>6 DEF BeginSubmissionAttempt
        <5>2. "SUBMIT_STARTED" \in TargetStates \ {"ABSENT"}
          BY DEF TargetStates, UnresolvedStates
        <5> QED
          BY <4>2, <5>1, <5>2
      <4>7. CASE LateUnfillable(a) \/ CloseUnsellable(a) \/ PlanFirst(a)
        BY <4>1, <4>7 DEF LateUnfillable, CloseUnsellable, PlanFirst
      <4>8. CASE \/ ProcessSourceAction(a) \/ ScopeRefuses(a) \/ ScopeAccepts(a)
                 \/ RecoverSubmitStarted(a) \/ DeferToEarlierAction(a) \/ Refuse(a)
                 \/ PlanFails(a) \/ PlanRemainder(a) \/ RecordPlan(a) \/ PreparationFails(a)
                 \/ PostAnswered(a) \/ PostUnanswered(a) \/ RecordAttempt(a)
                 \/ RecordTransition(a) \/ RecordCancellation(a)
        BY <4>3, <4>8 DEF ProcessSourceAction, ScopeRefuses, ScopeAccepts,
             RecoverSubmitStarted, DeferToEarlierAction, Refuse, PlanFails, PlanRemainder,
             RecordPlan, PreparationFails, PostAnswered, PostUnanswered, RecordAttempt,
             RecordTransition, RecordCancellation, rows
      <4> QED
        BY <1>1, <2>3, <4>4, <4>5, <4>6, <4>7, <4>8 DEF HandlerStep, Plan, Submit
    <3> QED
      BY <2>3, <3>1, <3>2, <3>3
  <2> QED
    BY <2>1, <2>2, <2>3
<1>2. ASSUME NEW o \in Orders, Reconcile(o)
      PROVE  /\ HasTarget(b) => HasTarget(b)'
             /\ scoped[b] => scoped'[b]
             /\ planned[b] => planned'[b]
  <2>1. UNCHANGED <<scoped, planned>>
    BY <1>2 DEF Reconcile, ReconcileFill, ReconcileFinalizedNoFill, ReconcileCanceled,
                ReconcileAbsent
  <2>2. CASE o[1] # b
    BY <1>2, <2>2, ReconcileSame DEF Same
  <2>3. CASE o[1] = b
    <3>1. CASE ReconcileFill(o)
      <4>1. PICK q : target' = [target EXCEPT ![o[1]].filled = @ + q,
                                              ![o[1]].state = FillState(o[1], q)]
        BY <3>1 DEF ReconcileFill
      <4>2. FillState(o[1], q) # "ABSENT"
        BY DEF FillState
      <4>3. target'[b].state = FillState(o[1], q)
        BY <2>3, <4>1 DEF WithinTarget, TargetRows
      <4> QED
        BY <2>1, <4>2, <4>3
    <3>2. CASE ~ReconcileFill(o)
      <4>1. PICK s \in {"EXTERNAL_UNFILLABLE", "PENDING_CONFIRMED_ZERO_FILL",
                        "UNKNOWN_SUBMISSION"} : SetTarget(o[1], s)
        BY <1>2, <3>2 DEF Reconcile, ReconcileFinalizedNoFill, ReconcileCanceled,
                          ReconcileAbsent, Release
      <4>2. target'[b].state = s
        BY <2>3, <4>1 DEF SetTarget, WithinTarget, TargetRows
      <4> QED
        BY <2>1, <4>2
    <3> QED
      BY <3>1, <3>2
  <2> QED
    BY <2>2, <2>3
<1>3. CASE Intake
  BY <1>3 DEF Intake, Observe, RecordGap
<1> QED
  BY <1>1, <1>2, <1>3, RowSteps DEF rows

LEMMA StepKinds ==
  ASSUME [Next]_vars
  PROVE  \/ Intake
         \/ \E a \in Actions : HandlerStep(a)
         \/ \E o \in Orders : Reconcile(o)
         \/ \E o \in Orders : CancelDue(o)
         \/ Venue \/ Crash \/ UNCHANGED vars
BY DEF Next, Maintain, HandlerStep

\* The steps of a handler that leave the plan of every action alone.
LEMMA OtherSteps ==
  ASSUME Causal, NEW a \in Actions, HandlerStep(a),
         ~PlanFirst(a), ~PlanRemainder(a), ~RecordPlan(a)
  PROVE  UNCHANGED planned /\ (exec'.pc # "planned" \/ UNCHANGED exec)
<1>1. UNCHANGED planned
  BY DEF HandlerStep, Plan, Submit, ProcessSourceAction, ScopeRefuses, ScopeAccepts,
         LateUnfillable, RecoverSubmitStarted, DeferToEarlierAction,
         SupersedeEarlierOpposites, CloseUnsellable, Refuse, FailStaleTarget, PlanFails,
         PreparationFails, BeginSubmissionAttempt, PostAnswered,
         PostUnanswered, PostRejected, RecordAttempt, RecordTarget, RecordTransition,
         RecordCancellation, CloseRetry, rows
<1>2. CASE \/ ScopeRefuses(a) \/ RecoverSubmitStarted(a) \/ DeferToEarlierAction(a)
           \/ Refuse(a) \/ FailStaleTarget(a) \/ PostRejected(a) \/ RecordTransition(a)
           \/ SupersedeEarlierOpposites(a)
  BY <1>1, <1>2 DEF ScopeRefuses, RecoverSubmitStarted, DeferToEarlierAction, Refuse,
              FailStaleTarget, PostRejected, RecordTransition, SupersedeEarlierOpposites,
              Done, Idle
<1>3. CASE ProcessSourceAction(a) \/ CloseRetry(a)
  BY <1>1, <1>3 DEF ProcessSourceAction, CloseRetry, Begun, Handler
<1>4. CASE \/ ScopeAccepts(a) \/ LateUnfillable(a) \/ CloseUnsellable(a) \/ PlanFails(a)
           \/ PreparationFails(a) \/ (\E n \in Attempts : BeginSubmissionAttempt(a, n))
           \/ PostAnswered(a) \/ PostUnanswered(a) \/ RecordAttempt(a) \/ RecordTarget(a)
           \/ RecordCancellation(a)
  <2>1. exec \in Handlers
    BY <1>4, HandledAction DEF HandlerStep, Plan, Submit, ProcessSourceAction, CloseRetry,
         ScopeAccepts, LateUnfillable, CloseUnsellable, PlanFails, PreparationFails,
         BeginSubmissionAttempt, PostAnswered, PostUnanswered, RecordAttempt, RecordTarget,
         RecordCancellation, Plannable, Sizable, InOrder, Executing, Busy, At
  <2>2. CASE ScopeAccepts(a)
    <3>1. PICK pc \in {"entry", "late"} : Then(pc, "NONE")
      BY <2>2 DEF ScopeAccepts
    <3> QED
      BY <1>1, <2>1, <3>1 DEF Then, Handlers
  <2>3. CASE PlanFails(a)
    <3>1. CASE Done
      BY <1>1, <3>1 DEF Done, Idle
    <3>2. CASE Then("append", target[a].state)
      BY <1>1, <2>1, <3>2 DEF Then, Handlers
    <3> QED
      BY <2>3, <3>1, <3>2 DEF PlanFails
  <2>4. CASE PreparationFails(a)
    <3>1. PICK s : Then("set", s)
      BY <2>4 DEF PreparationFails
    <3> QED
      BY <1>1, <2>1, <3>1 DEF Then, Handlers
  <2>5. CASE PostAnswered(a)
    <3>1. PICK s, r : exec' = [exec EXCEPT !.pc = "attempt", !.st = s, !.resp = r]
      BY <2>5 DEF PostAnswered
    <3> QED
      BY <1>1, <2>1, <3>1 DEF Handlers
  <2>6. CASE \/ LateUnfillable(a) \/ CloseUnsellable(a)
             \/ (\E n \in Attempts : BeginSubmissionAttempt(a, n))
             \/ PostUnanswered(a) \/ RecordAttempt(a) \/ RecordTarget(a)
             \/ RecordCancellation(a)
    BY <1>1, <2>1, <2>6 DEF LateUnfillable, CloseUnsellable, BeginSubmissionAttempt,
         PostUnanswered, RecordAttempt, RecordTarget, RecordCancellation, Then, Handlers
  <2> QED
    BY <1>4, <2>2, <2>3, <2>4, <2>5, <2>6
<1> QED
  BY <1>1, <1>2, <1>3, <1>4 DEF HandlerStep, Plan, Submit

LEMMA NewlySized ==
  ASSUME Causal, [Next]_vars, NEW a \in Actions, Sized(a)', ~Sized(a)
  PROVE  PlanFirst(a) \/ PlanRemainder(a)
<1> USE DEF Sized, Busy, At
<1>1. CASE Intake \/ (\E o \in Orders : Reconcile(o)) \/ Venue \/ UNCHANGED vars
  <2>1. UNCHANGED <<planned, exec>>
    BY <1>1, ReconciledIsInFlight
       DEF Intake, Observe, RecordGap, Venue, Match, Withdraw, Arrive, Finalize, vars, rows,
           Reconcile, ReconcileFill, ReconcileFinalizedNoFill, ReconcileCanceled,
           ReconcileAbsent
  <2> QED
    BY <2>1
<1>2. CASE Crash \/ (\E o \in Orders : CancelDue(o))
  BY <1>2 DEF Crash, CancelDue, Done, Idle, Handler, rows
<1>3. ASSUME NEW b \in Actions, HandlerStep(b) PROVE PlanFirst(a) \/ PlanRemainder(a)
  <2>1. CASE PlanFirst(b) \/ PlanRemainder(b)
    <3>1. exec \in Handlers /\ exec.act = b
      BY <2>1, HandledAction DEF HandlerStep, Plan, ProcessSourceAction, CloseRetry,
           PlanFirst, PlanRemainder, Plannable, Sizable, InOrder, Executing
    <3>2. planned'[a] = planned[a] /\ exec'.act = exec.act
      BY <2>1, <3>1 DEF PlanFirst, PlanRemainder, Handlers, rows
    <3> QED
      BY <2>1, <3>1, <3>2
  <2>2. CASE RecordPlan(b)
    <3>1. exec \in Handlers /\ exec.act = b /\ exec.pc = "planned"
      BY <2>2, HandledAction DEF HandlerStep, Plan, ProcessSourceAction, CloseRetry,
           RecordPlan
    <3>2. exec'.pc # "planned"
      BY <2>2, <3>1 DEF RecordPlan, Handlers
    <3>3. planned'[a] = planned[a] \/ a = b
      BY <2>2 DEF RecordPlan, Causal, Backed, Typed, TypeOK
    <3> QED
      BY <3>1, <3>2, <3>3
  <2>3. CASE ~PlanFirst(b) /\ ~PlanRemainder(b) /\ ~RecordPlan(b)
    BY <1>3, <2>3, OtherSteps
  <2> QED
    BY <2>1, <2>2, <2>3
<1> QED
  BY <1>1, <1>2, <1>3, StepKinds

LEMMA StepSizedRows == ASSUME Causal, [Next]_vars PROVE SizedRows'
<1> SUFFICES ASSUME NEW a \in Actions, Sized(a)'
             PROVE  scoped'[a] /\ HasTarget(a)'
  BY DEF SizedRows
<1>1. CASE Sized(a)
  BY <1>1, TargetsStay DEF Causal, SizedRows
<1>2. CASE ~Sized(a)
  <2>1. CASE PlanFirst(a)
    <3>1. PICK p \in FirstPlans(a) : EnsureTarget(a, p[1], p[2])
      BY <2>1 DEF PlanFirst
    <3>2. p[1] # "ABSENT"
      BY DEF FirstPlans
    <3>3. target' = [target EXCEPT ![a] = [state |-> p[1], qty |-> p[2], filled |-> 0]]
      BY <2>1, <3>1 DEF PlanFirst, EnsureTarget
    <3> QED
      BY <2>1, <3>2, <3>3 DEF PlanFirst, Plannable, Sizable, InOrder, Executing, HasTarget,
           Causal, Backed, Typed, TypeOK
  <2>2. CASE PlanRemainder(a)
    BY <2>2 DEF PlanRemainder, Plannable, Sizable, InOrder, Executing, HasTarget, rows
  <2> QED
    BY <1>2, <2>1, <2>2, NewlySized
<1> QED
  BY <1>1, <1>2

LEMMA StepSizedInOrder == ASSUME Causal, [Next]_vars PROVE SizedInOrder'
<1> SUFFICES ASSUME NEW a \in Actions, NEW b \in Actions, Sized(a)', Precedes(b, a)
             PROVE  Over(b)'
  BY DEF SizedInOrder, Precedes
<1>1. CASE Sized(a)
  BY <1>1, StaysSettled DEF Causal, SizedInOrder
<1>2. CASE ~Sized(a)
  <2>1. InOrder(a) /\ HandlerStep(a)
    BY <1>2, NewlySized DEF PlanFirst, PlanRemainder, Plannable, Sizable, HandlerStep, Plan
  <2>2. latest[b] # "NONE"
    BY <2>1, HandledIsLive DEF Causal, ObservedInOrder, Precedes
  <2>3. Over(b)
    BY <2>1, <2>2 DEF InOrder, PriorNonterminal, Earlier, Precedes, Over
  <2> QED
    BY <2>3, StaysSettled
<1> QED
  BY <1>1, <1>2

-----------------------------------------------------------------------------
\* Frozen quantities.

\* A frozen quantity stays, and only a booked fill adds to its progress.
LEMMA FrozenStays ==
  ASSUME Causal, [Next]_vars, NEW b \in Actions, HasTarget(b)
  PROVE  /\ target'[b].qty = target[b].qty
         /\ (\A n \in Attempts : ~ReconcileFill(<<b, n>>)) => target'[b].filled = target[b].filled
<1> USE DEF Causal, Backed, Typed, TypeOK
<1>1. target[b] \in TargetRows
  BY DEF WithinTarget
<1>2. \A s : [target[b] EXCEPT !.state = s].qty = target[b].qty
             /\ [target[b] EXCEPT !.state = s].filled = target[b].filled
  BY <1>1 DEF TargetRows
<1>3. ASSUME NEW a \in Actions, HandlerStep(a)
      PROVE  target'[b].qty = target[b].qty /\ target'[b].filled = target[b].filled
  <2>1. CASE SupersedeEarlierOpposites(a)
    BY <1>2, <2>1 DEF SupersedeEarlierOpposites
  <2>2. CASE a # b /\ ~SupersedeEarlierOpposites(a)
    BY <1>3, <2>2, OthersSame DEF Same
  <2>3. CASE a = b /\ ~SupersedeEarlierOpposites(a)
    <3>1. UNCHANGED target \/ \E s : SetTarget(a, s)
      <4>1. CASE LateUnfillable(a) \/ CloseUnsellable(a) \/ PlanFirst(a)
        BY <2>3, <4>1 DEF LateUnfillable, CloseUnsellable, PlanFirst, EnsureTarget
      <4>2. CASE \/ FailStaleTarget(a) \/ PostRejected(a) \/ CloseRetry(a) \/ RecordTarget(a)
                 \/ \E n \in Attempts : BeginSubmissionAttempt(a, n)
        BY <4>2 DEF FailStaleTarget, PostRejected, CloseRetry, Release, RecordTarget,
                    BeginSubmissionAttempt
      <4>3. CASE \/ ProcessSourceAction(a) \/ ScopeRefuses(a) \/ ScopeAccepts(a)
                 \/ RecoverSubmitStarted(a) \/ DeferToEarlierAction(a) \/ Refuse(a)
                 \/ PlanFails(a) \/ PlanRemainder(a) \/ RecordPlan(a) \/ PreparationFails(a)
                 \/ PostAnswered(a) \/ PostUnanswered(a) \/ RecordAttempt(a)
                 \/ RecordTransition(a) \/ RecordCancellation(a)
        BY <4>3 DEF ProcessSourceAction, ScopeRefuses, ScopeAccepts,
             RecoverSubmitStarted, DeferToEarlierAction, Refuse, PlanFails, PlanRemainder,
             RecordPlan, PreparationFails, PostAnswered, PostUnanswered, RecordAttempt,
             RecordTransition, RecordCancellation, rows
      <4> QED
        BY <1>3, <2>3, <4>1, <4>2, <4>3 DEF HandlerStep, Plan, Submit
    <3>2. ASSUME NEW s, SetTarget(a, s)
          PROVE  target'[b].qty = target[b].qty /\ target'[b].filled = target[b].filled
      <4>1. target'[b] = [target[b] EXCEPT !.state = s]
        BY <2>3, <3>2 DEF SetTarget
      <4> QED
        BY <1>2, <4>1
    <3> QED
      BY <3>1, <3>2
  <2> QED
    BY <2>1, <2>2, <2>3
<1>4. ASSUME NEW o \in Orders, Reconcile(o)
      PROVE  /\ target'[b].qty = target[b].qty
             /\ ~ReconcileFill(o) => target'[b].filled = target[b].filled
  <2>1. CASE o[1] # b
    BY <1>4, <2>1, ReconcileSame DEF Same
  <2>2. CASE o[1] = b /\ ReconcileFill(o)
    <3>1. PICK q : target' = [target EXCEPT ![o[1]].filled = @ + q,
                                            ![o[1]].state = FillState(o[1], q)]
      BY <2>2 DEF ReconcileFill
    <3> QED
      BY <1>1, <2>2, <3>1 DEF TargetRows
  <2>3. CASE o[1] = b /\ ~ReconcileFill(o)
    <3>1. \E s : SetTarget(b, s)
      BY <1>4, <2>3 DEF Reconcile, ReconcileFinalizedNoFill, ReconcileCanceled,
                        ReconcileAbsent, Release
    <3> QED
      BY <1>2, <3>1 DEF SetTarget
  <2> QED
    BY <2>1, <2>2, <2>3
<1>5. ASSUME NEW o \in Orders, Reconcile(o), \A n \in Attempts : ~ReconcileFill(<<b, n>>)
      PROVE  target'[b].filled = target[b].filled
  <2>1. CASE o[1] = b
    <3>1. o[2] \in Attempts /\ o = <<b, o[2]>>
      BY <2>1
    <3>2. ~ReconcileFill(o)
      BY <1>5, <3>1
    <3> QED
      BY <1>4, <1>5, <3>2
  <2>2. CASE o[1] # b
    BY <1>5, <2>2, ReconcileSame DEF Same
  <2> QED
    BY <2>1, <2>2
<1>6. CASE Intake
  BY <1>6 DEF Intake, Observe, RecordGap
<1> QED
  BY <1>3, <1>4, <1>5, <1>6, RowSteps DEF rows

LEMMA PositionStays ==
  ASSUME Causal, [Next]_vars, \A o \in Orders : ~ReconcileFill(o)
  PROVE  UNCHANGED pos
<1>1. ASSUME NEW a \in Actions, HandlerStep(a) PROVE UNCHANGED pos
  BY <1>1 DEF HandlerStep, Plan, Submit, ProcessSourceAction, ScopeRefuses, ScopeAccepts,
         LateUnfillable, RecoverSubmitStarted, DeferToEarlierAction,
         SupersedeEarlierOpposites, CloseUnsellable, Refuse, FailStaleTarget, PlanFails,
         PlanFirst, PlanRemainder, RecordPlan,
         PreparationFails, BeginSubmissionAttempt, PostAnswered,
         PostUnanswered, PostRejected, RecordAttempt, RecordTarget, RecordTransition,
         RecordCancellation, CloseRetry, rows
<1>2. ASSUME NEW o \in Orders, Reconcile(o) PROVE UNCHANGED pos
  BY <1>2 DEF Reconcile, ReconcileFinalizedNoFill, ReconcileCanceled, ReconcileAbsent
<1>3. CASE Intake
  BY <1>3 DEF Intake, Observe, RecordGap
<1> QED
  BY <1>1, <1>2, <1>3, RowSteps DEF rows

LEMMA ReservationsAreNat ==
  ASSUME Typed, NEW S \in SUBSET Actions
  PROVE  SumFunctionOnSet(reserved, S) \in Nat
<1>1. IsFiniteSet(S)
  BY ActionsAssumption, FS_Subset
<1>2. Nats(reserved, S)
  BY DEF Typed, TypeOK, Nats
<1> QED
  BY <1>1, <1>2, SumNat

\* A first plan of a SELL is for no more than is held, unless it is too small.
LEMMA PlannedIsHeld ==
  ASSUME Typed, NEW a \in Actions, SideOf[a] = "SELL", NEW p \in FirstPlans(a)
  PROVE  p[2] \in Nat /\ (p[2] < MinSize \/ p[2] <= pos[TokenOf[a]])
<1> DEFINE t == TokenOf[a]
<1>1. /\ pos[t] \in Nat /\ Want[a] \in Nat /\ MinSize \in Nat
      /\ AvailablePosition(t) \in Int /\ AvailablePosition(t) <= pos[t]
  <2>1. {b \in OfSide("SELL") : TokenOf[b] = t} \in SUBSET Actions
    OBVIOUS
  <2>2. SumFunctionOnSet(reserved, {b \in OfSide("SELL") : TokenOf[b] = t}) \in Nat
    BY <2>1, ReservationsAreNat
  <2>3. pos[t] \in Nat /\ Want[a] \in Nat /\ MinSize \in Nat
    BY ActionsAssumption, BoundsAssumption DEF Typed, TypeOK
  <2> QED
    BY <2>2, <2>3 DEF AvailablePosition
<1>2. p[2] \in Undersized({Want[a]}) \cup Sellable(a, Want[a])
  BY DEF FirstPlans, Undersized, Orderable
<1>3. CASE p[2] \in Undersized({Want[a]})
  BY <1>1, <1>3 DEF Undersized, Orderable
<1>4. CASE p[2] \in Sellable(a, Want[a])
  BY <1>1, <1>4 DEF Sellable, Least
<1> QED
  BY <1>2, <1>3, <1>4

LEMMA StepSizedIsHeld == ASSUME Causal, [Next]_vars PROVE SizedIsHeld'
<1> SUFFICES ASSUME NEW a \in Actions, SideOf[a] = "SELL", Sized(a)', Nonterminal(a)'
             PROVE  \/ Remaining(a)' < MinSize
                    \/ Remaining(a)' <= pos'[TokenOf[a]]
  BY DEF SizedIsHeld
<1> DEFINE t == TokenOf[a]
<1>1. /\ Typed /\ Typed' /\ ReservationBacksAttempt /\ t \in Tokens
      /\ target[a] \in TargetRows /\ pos[t] \in Nat /\ MinSize \in Nat
      /\ Nonterminal(a)
  <2>1. Typed /\ Typed' /\ ReservationBacksAttempt
    BY StepBacked DEF Causal, Backed
  <2>2. Nonterminal(a)
    BY StaysSettled DEF Over
  <2> QED
    BY <2>1, <2>2, ActionsAssumption, BoundsAssumption DEF Typed, TypeOK
<1>2. CASE Sized(a)
  <2>1. HasTarget(a) /\ (Remaining(a) < MinSize \/ Remaining(a) <= pos[t])
    BY <1>1, <1>2 DEF Causal, SizedRows, SizedIsHeld
  <2>2. CASE \A o \in Orders : ~ReconcileFill(o)
    <3>1. UNCHANGED pos
      BY <2>2, PositionStays
    <3>2. Remaining(a)' = Remaining(a)
      <4>1. \A n \in Attempts : <<a, n>> \in Orders
        OBVIOUS
      <4> QED
        BY <2>1, <2>2, <4>1, FrozenStays DEF Remaining
    <3> QED
      BY <2>1, <3>1, <3>2
  <2>3. ASSUME NEW o \in Orders, ReconcileFill(o)
        PROVE  Remaining(a)' < MinSize \/ Remaining(a)' <= pos'[t]
    <3> DEFINE b == o[1]
    <3>1. PICK q \in Readings(o) \ {0} :
            /\ q <= Remaining(b)
            /\ target' = [target EXCEPT ![b].filled = @ + q, ![b].state = FillState(b, q)]
            /\ pos' = [pos EXCEPT ![TokenOf[b]] = IF SideOf[b] = "BUY" THEN @ + q ELSE @ - q]
      BY <2>3 DEF ReconcileFill
    <3>2. q \in Nat /\ b \in Actions /\ TokenOf[b] \in Tokens /\ pos[TokenOf[b]] \in Nat
      BY <1>1, ActionsAssumption DEF Readings, Typed, TypeOK, VenueOrders
    <3>3. Unresolved(b) /\ planned[b] /\ Nonterminal(b)
      BY <2>3, ReconciledIsInFlight, InFlightLive DEF Reconcile, Nonterminal
    <3>4. CASE b = a
      <4>1. Remaining(a)' = Remaining(a) - q
        BY <1>1, <3>1, <3>2, <3>4 DEF Remaining, Typed, TypeOK, TargetRows
      <4>2. pos'[t] = pos[t] - q
        BY <1>1, <3>1, <3>2, <3>4 DEF Typed, TypeOK
      <4>3. Remaining(a) \in Int
        BY <1>1 DEF Remaining, TargetRows
      <4> QED
        BY <1>1, <2>1, <3>2, <4>1, <4>2, <4>3
    <3>5. CASE b # a
      <4>1. Remaining(a)' = Remaining(a) /\ Remaining(a) \in Int
        BY <1>1, <3>1, <3>2, <3>5 DEF Remaining, Typed, TypeOK, TargetRows
      <4>2. ~(SideOf[b] = "SELL" /\ TokenOf[b] = t)
        <5>1. SUFFICES ASSUME TokenOf[b] = t PROVE FALSE
          OBVIOUS
        <5>2. Rank[a] < Rank[b] \/ Rank[b] < Rank[a]
          BY <3>2, <3>5, ActionsAssumption
        <5>3. Sized(b)
          BY <3>3 DEF Sized
        <5> QED
          BY <1>1, <1>2, <3>2, <3>3, <5>1, <5>2, <5>3
             DEF Causal, SizedInOrder, Over, Precedes
      <4>3. pos'[t] >= pos[t]
        <5>1. CASE TokenOf[b] # t
          BY <1>1, <3>1, <3>2, <5>1 DEF Typed, TypeOK
        <5>2. CASE TokenOf[b] = t
          <6>1. SideOf[b] = "BUY"
            BY <3>2, <4>2, <5>2, ActionsAssumption DEF Sides
          <6>2. pos'[t] = pos[t] + q
            BY <1>1, <3>1, <3>2, <5>2, <6>1 DEF Typed, TypeOK
          <6> QED
            BY <1>1, <3>2, <6>2
        <5> QED
          BY <5>1, <5>2
      <4>4. pos'[t] \in Nat
        BY <1>1 DEF Typed, TypeOK
      <4> QED
        BY <1>1, <2>1, <4>1, <4>3, <4>4
    <3> QED
      BY <3>4, <3>5
  <2> QED
    BY <2>2, <2>3
<1>3. CASE ~Sized(a)
  <2>1. CASE PlanFirst(a)
    <3>1. PICK p \in FirstPlans(a) : EnsureTarget(a, p[1], p[2])
      BY <2>1 DEF PlanFirst
    <3>2. target'[a] = [state |-> p[1], qty |-> p[2], filled |-> 0] /\ UNCHANGED pos
      BY <1>1, <2>1, <3>1 DEF PlanFirst, EnsureTarget, Typed, TypeOK
    <3>3. p[2] \in Nat /\ (p[2] < MinSize \/ p[2] <= pos[t])
      BY <1>1, PlannedIsHeld
    <3>4. Remaining(a)' = p[2]
      BY <3>2, <3>3 DEF Remaining
    <3> QED
      BY <3>2, <3>3, <3>4
  <2>2. CASE PlanRemainder(a)
    BY <1>3, <2>2 DEF PlanRemainder, Plannable, Sized
  <2> QED
    BY <1>3, <2>1, <2>2, NewlySized
<1> QED
  BY <1>2, <1>3

-----------------------------------------------------------------------------
\* What is in flight.

LEMMA SameInFlight ==
  ASSUME NEW a \in Actions, InFlightRow(a), Same(a)
  PROVE  InFlightRow(a)'
BY DEF InFlightRow, Same, Unresolved, Remaining

LEMMA WorksInFlight ==
  ASSUME Causal, exec \in Handlers, exec.pc \in {"post", "attempt", "cancelled"}
  PROVE  /\ exec.act \in Actions /\ exec.n \in Attempts
         /\ attempt[<<exec.act, exec.n>>].state \in UnresolvedStates
         /\ Unresolved(exec.act)
BY DEF Causal, Backed, Working, Unresolved, Handlers

\* What a handler finds when it works on an action in flight.
LEMMA InFlightHandled ==
  ASSUME Causal, NEW a \in Actions, HandlerStep(a), Unresolved(a)
  PROVE  /\ ~ScopeRefuses(a) /\ ~ScopeAccepts(a) /\ ~LateUnfillable(a) /\ ~CloseUnsellable(a)
         /\ ~FailStaleTarget(a) /\ ~PlanFails(a) /\ ~PlanFirst(a) /\ ~PlanRemainder(a)
         /\ ~RecordPlan(a) /\ ~PreparationFails(a) /\ ~CloseRetry(a)
         /\ \A n \in Attempts : ~BeginSubmissionAttempt(a, n)
         /\ DeferToEarlierAction(a) => SideOf[a] = "BUY"
<1>1. SideEffect(a) /\ planned[a] /\ scoped[a] /\ HasTarget(a) /\ latest[a] \in InFlightStates(a)
  BY InFlightLive DEF Causal, SideEffect, SizedRows, Sized, InFlightRows, InFlightRow
<1>2. ~ScopeRefuses(a) /\ ~ScopeAccepts(a)
  BY <1>1 DEF ScopeRefuses, ScopeAccepts
<1>3. ~FailStaleTarget(a) /\ ~PlanFails(a) /\ ~PlanFirst(a) /\ ~PlanRemainder(a) /\ ~CloseRetry(a)
      /\ \A n \in Attempts : ~BeginSubmissionAttempt(a, n)
  BY <1>1 DEF FailStaleTarget, PlanFails, PlanFirst, PlanRemainder, Plannable, Sizable,
              CloseRetry, LiquidityEvidence, BeginSubmissionAttempt
<1>4. ~LateUnfillable(a) /\ ~RecordPlan(a) /\ ~PreparationFails(a)
  <2>1. SUFFICES ASSUME LateUnfillable(a) \/ RecordPlan(a) \/ PreparationFails(a) PROVE FALSE
    OBVIOUS
  <2>2. exec.act = a /\ ~At("idle") /\ exec.pc \in {"late", "planned", "prepare"}
    BY <2>1, HandledAction DEF HandlerStep, Plan, LateUnfillable, RecordPlan, PreparationFails,
         ProcessSourceAction, CloseRetry, Busy, At
  <2> QED
    BY <1>1, <2>2 DEF Causal, Handling
<1>5. ASSUME Executing(a) PROVE SideOf[a] = "BUY"
  <2>1. Busy("entry", a) /\ ~At("idle") /\ latest[a] # "SUBMIT_STARTED"
    BY <1>5 DEF Executing, Busy, At
  <2>2. latest[a] \notin HandledStates
    BY <2>1 DEF Causal, Handling, Busy, At
  <2>3. latest[a] \notin UnresolvedStates
    BY <2>1, <2>2 DEF HandledStates, UnresolvedStates
  <2> QED
    BY <1>1, <2>3 DEF InFlightStates
<1>6. ~CloseUnsellable(a) /\ (DeferToEarlierAction(a) => SideOf[a] = "BUY")
  BY <1>5 DEF CloseUnsellable, InOrder, NothingToSell, DeferToEarlierAction
<1> QED
  BY <1>2, <1>3, <1>4, <1>6

LEMMA HandledInFlight ==
  ASSUME Causal, NEW a \in Actions, HandlerStep(a), Unresolved(a)'
  PROVE  /\ planned'[a]
         /\ target'[a].state \in UnresolvedStates
         /\ latest'[a] \in InFlightStates(a)
         /\ \A n \in Attempts :
              attempt'[<<a, n>>].state \in UnresolvedStates
                => attempt'[<<a, n>>].req = Remaining(a)'
<1> USE DEF Causal, Backed, Typed, TypeOK
<1>1. target[a] \in TargetRows /\ \A s : /\ [target[a] EXCEPT !.state = s].state = s
                                        /\ [target[a] EXCEPT !.state = s].qty = target[a].qty
                                        /\ [target[a] EXCEPT !.state = s].filled = target[a].filled
  BY DEF TargetRows
<1>2. CASE \E n \in Attempts : BeginSubmissionAttempt(a, n)
  <2>1. PICK n \in Attempts : BeginSubmissionAttempt(a, n)
    BY <1>2
  <2>2. exec.act = a /\ ~At("idle") /\ exec.pc = "prepare"
    BY <2>1, HandledAction DEF HandlerStep, Submit, BeginSubmissionAttempt,
         ProcessSourceAction, CloseRetry, Busy, At
  <2>3. planned[a] /\ exec.q = Remaining(a)
    BY <2>2 DEF Handling
  <2>4. /\ target'[a] = [target[a] EXCEPT !.state = "SUBMIT_STARTED"]
        /\ latest'[a] = "SUBMIT_STARTED" /\ UNCHANGED planned
    BY <2>1 DEF BeginSubmissionAttempt, SetTarget, Append
  <2>5. /\ attempt'[<<a, n>>].req = exec.q
        /\ \A m \in Attempts : m # n => attempt'[<<a, m>>] = attempt[<<a, m>>]
    BY <2>1 DEF BeginSubmissionAttempt
  <2>6. \A m \in Attempts : attempt[<<a, m>>].state \notin UnresolvedStates
    BY <2>1 DEF BeginSubmissionAttempt, SideEffect, Unresolved
  <2>7. Remaining(a)' = Remaining(a)
    BY <1>1, <2>4 DEF Remaining
  <2>8. "SUBMIT_STARTED" \in UnresolvedStates /\ UnresolvedStates \subseteq InFlightStates(a)
    BY DEF UnresolvedStates, InFlightStates
  <2> QED
    BY <1>1, <2>3, <2>4, <2>5, <2>6, <2>7, <2>8
<1>3. CASE ~(\E n \in Attempts : BeginSubmissionAttempt(a, n))
  <2>1. Unresolved(a)
    <3>1. CASE PostRejected(a) \/ RecordAttempt(a) \/ RecordCancellation(a)
      <4>1. exec \in Handlers /\ exec.act = a /\ exec.pc \in {"post", "attempt", "cancelled"}
        BY <3>1, HandledAction DEF HandlerStep, Submit, PostRejected, RecordAttempt,
             RecordCancellation, ProcessSourceAction, CloseRetry, Busy, At
      <4> QED
        BY <4>1, WorksInFlight
    <3>2. CASE ~PostRejected(a) /\ ~RecordAttempt(a) /\ ~RecordCancellation(a)
      <4>1. UNCHANGED attempt
        BY <1>3, <3>2
           DEF HandlerStep, Plan, Submit, ProcessSourceAction, ScopeRefuses, ScopeAccepts,
           LateUnfillable, RecoverSubmitStarted, DeferToEarlierAction,
           SupersedeEarlierOpposites, CloseUnsellable, Refuse, FailStaleTarget, PlanFails,
           PlanFirst, PlanRemainder, RecordPlan, PreparationFails, PostAnswered,
           PostUnanswered, RecordTarget, RecordTransition, CloseRetry, rows
      <4> QED
        BY <4>1 DEF Unresolved
    <3> QED
      BY <3>1, <3>2
  <2>2. /\ planned[a]
        /\ target[a].state \in UnresolvedStates
        /\ latest[a] \in InFlightStates(a)
        /\ \A n \in Attempts :
             attempt[<<a, n>>].state \in UnresolvedStates
               => attempt[<<a, n>>].req = Remaining(a)
    BY <2>1 DEF InFlightRows, InFlightRow
  <2>3. UNCHANGED planned
    BY <2>1, InFlightHandled
       DEF HandlerStep, Plan, Submit, ProcessSourceAction,
       RecoverSubmitStarted, DeferToEarlierAction,
       SupersedeEarlierOpposites, Refuse, PostAnswered, PostRejected, RecordAttempt,
       PostUnanswered, RecordTarget, RecordTransition, RecordCancellation, rows
  <2>4. CASE ProcessSourceAction(a) \/ Refuse(a) \/ PostAnswered(a) \/ PostUnanswered(a)
    BY <2>2, <2>4 DEF ProcessSourceAction, Refuse, PostAnswered, PostUnanswered, rows, Remaining
  <2>5. CASE RecoverSubmitStarted(a) \/ DeferToEarlierAction(a)
    <3>1. UNCHANGED <<planned, target, attempt>>
      BY <2>5 DEF RecoverSubmitStarted, DeferToEarlierAction
    <3>2. latest'[a] \in InFlightStates(a)
      BY <2>1, <2>5, InFlightHandled
         DEF RecoverSubmitStarted, DeferToEarlierAction, Append, InFlightStates,
             UnresolvedStates
    <3> QED
      BY <2>2, <3>1, <3>2 DEF Remaining
  <2>6. CASE SupersedeEarlierOpposites(a)
    <3>1. a \notin EarlierOpposites(a)
      BY ActionsAssumption DEF EarlierOpposites, Earlier
    <3> QED
      BY <2>2, <2>6, <3>1 DEF SupersedeEarlierOpposites, Remaining
  <2>7. CASE PostRejected(a)
    <3>1. exec \in Handlers /\ exec.act = a /\ exec.pc = "post"
      BY <2>7, HandledAction DEF HandlerStep, Submit, PostRejected, ProcessSourceAction,
           CloseRetry, Busy, At
    <3>2. exec.n \in Attempts /\ attempt[<<a, exec.n>>].state \in UnresolvedStates
      BY <3>1, WorksInFlight
    <3>3. PICK s \in {"NO_FILL", "REJECTED_INTERNAL"} : SetAttempt(<<a, exec.n>>, s)
      BY <2>7 DEF PostRejected
    <3>4. attempt'[<<a, exec.n>>].state = s /\ s \notin UnresolvedStates
      BY <3>2, <3>3 DEF SetAttempt, AttemptRows, UnresolvedStates
    <3>5. \A n \in Attempts : n # exec.n => attempt'[<<a, n>>] = attempt[<<a, n>>]
      BY <3>2, <3>3 DEF SetAttempt
    <3>6. \A n \in Attempts : attempt'[<<a, n>>].state \notin UnresolvedStates
      BY <3>2, <3>4, <3>5 DEF ReservationBacksAttempt
    <3> QED
      BY <3>6 DEF Unresolved
  <2>8. CASE RecordAttempt(a) \/ RecordCancellation(a)
    <3>1. exec \in Handlers /\ exec.act = a /\ exec.pc \in {"attempt", "cancelled"}
      BY <2>8, HandledAction DEF HandlerStep, Submit, RecordAttempt, RecordCancellation,
           ProcessSourceAction, CloseRetry, Busy, At
    <3>2. exec.n \in Attempts /\ attempt[<<a, exec.n>>].state \in UnresolvedStates
      BY <3>1, WorksInFlight
    <3>3. UNCHANGED <<target, latest>>
      BY <2>8 DEF RecordAttempt, RecordCancellation
    <3>4. \A n \in Attempts : /\ attempt'[<<a, n>>].req = attempt[<<a, n>>].req
                              /\ n # exec.n => attempt'[<<a, n>>] = attempt[<<a, n>>]
      <4>1. attempt' = [attempt EXCEPT ![<<a, exec.n>>].state = exec.st,
                                       ![<<a, exec.n>>].resp = exec.resp]
        BY <2>8 DEF RecordAttempt, RecordCancellation
      <4>2. /\ attempt[<<a, exec.n>>] \in AttemptRows
            /\ <<a, exec.n>> \in Orders
        BY <3>2
      <4>3. attempt'[<<a, exec.n>>].req = attempt[<<a, exec.n>>].req
        BY <4>1, <4>2 DEF AttemptRows
      <4>4. \A n \in Attempts : n # exec.n => attempt'[<<a, n>>] = attempt[<<a, n>>]
        BY <4>1, <4>2
      <4> QED
        BY <4>3, <4>4
    <3> QED
      BY <2>2, <2>3, <3>2, <3>3, <3>4 DEF Remaining
  <2>9. CASE RecordTarget(a)
    <3>1. exec.act = a /\ exec.pc = "set" /\ ~At("idle")
      BY <2>9, HandledAction DEF HandlerStep, Submit, RecordTarget, ProcessSourceAction,
           CloseRetry, Busy, At
    <3>2. exec.st \in UnresolvedStates
      BY <2>1, <3>1 DEF Handling
    <3>3. target'[a] = [target[a] EXCEPT !.state = exec.st] /\ UNCHANGED <<latest, attempt>>
      BY <2>9 DEF RecordTarget, SetTarget
    <3> QED
      BY <1>1, <2>2, <2>3, <3>2, <3>3 DEF Remaining
  <2>10. CASE RecordTransition(a)
    <3>1. exec.act = a /\ exec.pc = "append" /\ ~At("idle")
      BY <2>10, HandledAction DEF HandlerStep, Submit, RecordTransition, ProcessSourceAction,
           CloseRetry, Busy, At
    <3>2. exec.st \in InFlightStates(a)
      BY <2>1, <3>1 DEF Handling
    <3> QED
      BY <2>2, <2>10, <3>2 DEF RecordTransition, Append, Remaining
  <2> QED
    BY <1>3, <2>1, <2>4, <2>5, <2>6, <2>7, <2>8, <2>9, <2>10, InFlightHandled
       DEF HandlerStep, Plan, Submit
<1> QED
  BY <1>2, <1>3

LEMMA ReconciledInFlight ==
  ASSUME Causal, NEW o \in Orders, Reconcile(o), Unresolved(o[1])'
  PROVE  /\ planned'[o[1]]
         /\ target'[o[1]].state \in UnresolvedStates
         /\ latest'[o[1]] \in InFlightStates(o[1])
         /\ \A n \in Attempts :
              attempt'[<<o[1], n>>].state \in UnresolvedStates
                => attempt'[<<o[1], n>>].req = Remaining(o[1])'
<1> DEFINE a == o[1]
<1> USE DEF Causal, Backed, Typed, TypeOK
<1>1. /\ a \in Actions /\ o[2] \in Attempts /\ o = <<a, o[2]>> /\ Unresolved(a)
      /\ attempt[o].state \in UnresolvedStates /\ attempt[o] \in AttemptRows
      /\ target[a] \in TargetRows
  BY ReconciledIsInFlight
<1>2. \A n \in Attempts : n # o[2] => attempt[<<a, n>>].state \notin UnresolvedStates
  BY <1>1 DEF ReservationBacksAttempt
<1>3. CASE ReconcileAbsent(o)
  <2>1. /\ planned[a]
        /\ \A n \in Attempts :
             attempt[<<a, n>>].state \in UnresolvedStates
               => attempt[<<a, n>>].req = Remaining(a)
    BY <1>1 DEF InFlightRows, InFlightRow
  <2>2. /\ target'[a] = [target[a] EXCEPT !.state = "UNKNOWN_SUBMISSION"]
        /\ latest'[a] = "UNKNOWN_SUBMISSION" /\ UNCHANGED planned
        /\ attempt'[o] = [attempt[o] EXCEPT !.state = "UNKNOWN_SUBMISSION"]
        /\ \A n \in Attempts : n # o[2] => attempt'[<<a, n>>] = attempt[<<a, n>>]
    BY <1>1, <1>3 DEF ReconcileAbsent, SetTarget, SetAttempt, Append
  <2>3. attempt'[o].req = attempt[o].req
    BY <1>1, <2>2 DEF AttemptRows
  <2>4. target'[a].state = "UNKNOWN_SUBMISSION" /\ Remaining(a)' = Remaining(a)
    BY <1>1, <2>2 DEF TargetRows, Remaining
  <2>5. \A n \in Attempts : attempt'[<<a, n>>].state \in UnresolvedStates
                              => attempt'[<<a, n>>].req = Remaining(a)
    <3>1. attempt[<<a, o[2]>>] = attempt[o] /\ attempt'[<<a, o[2]>>] = attempt'[o]
      BY <1>1
    <3>2. attempt[o].req = Remaining(a)
      BY <1>1, <2>1, <3>1
    <3>3. \A n \in Attempts : n # o[2] => attempt'[<<a, n>>].state \notin UnresolvedStates
      BY <1>2, <2>2
    <3>4. attempt'[<<a, o[2]>>].req = Remaining(a)
      BY <2>3, <3>1, <3>2
    <3> QED
      BY <3>3, <3>4
  <2>6. "UNKNOWN_SUBMISSION" \in UnresolvedStates /\ UnresolvedStates \subseteq InFlightStates(a)
    BY DEF UnresolvedStates, InFlightStates
  <2> QED
    BY <2>1, <2>2, <2>4, <2>5, <2>6
<1>4. CASE ~ReconcileAbsent(o)
  <2>1. attempt'[o].state \notin UnresolvedStates
        /\ \A n \in Attempts : n # o[2] => attempt'[<<a, n>>] = attempt[<<a, n>>]
    <3>1. CASE ReconcileFill(o)
      <4>1. PICK s \in {"FILLED", "PARTIAL_FILLED"}, q \in Readings(o) :
              attempt' = [attempt EXCEPT ![o].state = s, ![o].booked = q]
        BY <3>1 DEF ReconcileFill
      <4>2. attempt'[o].state = s
        BY <1>1, <4>1 DEF AttemptRows
      <4> QED
        BY <1>1, <4>1, <4>2 DEF UnresolvedStates
    <3>2. CASE ~ReconcileFill(o)
      <4>1. SetAttempt(o, "NO_FILL")
        BY <1>4, <3>2 DEF Reconcile, ReconcileFinalizedNoFill, ReconcileCanceled
      <4> QED
        BY <1>1, <4>1 DEF SetAttempt, AttemptRows, UnresolvedStates
    <3> QED
      BY <3>1, <3>2
  <2>2. \A n \in Attempts : attempt'[<<a, n>>].state \notin UnresolvedStates
    BY <1>1, <1>2, <2>1
  <2> QED
    BY <2>2 DEF Unresolved
<1> QED
  BY <1>3, <1>4

LEMMA StepInFlightRows == ASSUME Causal, [Next]_vars PROVE InFlightRows'
<1> SUFFICES ASSUME NEW a \in Actions PROVE InFlightRow(a)'
  BY DEF InFlightRows
<1>1. Typed /\ InFlightRow(a)
  BY DEF Causal, Backed, InFlightRows
<1>2. ASSUME NEW b \in Actions, HandlerStep(b) PROVE InFlightRow(a)'
  <2>1. CASE a = b
    BY <1>2, <2>1, HandledInFlight DEF InFlightRow
  <2>2. CASE a # b /\ ~SupersedeEarlierOpposites(b)
    BY <1>1, <1>2, <2>2, OthersSame, SameInFlight
  <2>3. CASE a # b /\ SupersedeEarlierOpposites(b)
    <3>1. CASE Unresolved(a)
      <4>1. a \notin EarlierOpposites(b)
        BY <3>1, InFlightLive DEF EarlierOpposites
      <4>2. Same(a)
        BY <1>1, <2>3, <4>1 DEF SupersedeEarlierOpposites, Same
      <4> QED
        BY <1>1, <4>2, SameInFlight
    <3>2. CASE ~Unresolved(a)
      BY <2>3, <3>2 DEF SupersedeEarlierOpposites, Unresolved, InFlightRow
    <3> QED
      BY <3>1, <3>2
  <2> QED
    BY <2>1, <2>2, <2>3
<1>3. ASSUME NEW o \in Orders, Reconcile(o) PROVE InFlightRow(a)'
  <2>1. CASE a = o[1]
    BY <1>3, <2>1, ReconciledInFlight DEF InFlightRow
  <2>2. CASE a # o[1]
    BY <1>1, <1>3, <2>2, ReconcileSame, SameInFlight
  <2> QED
    BY <2>1, <2>2
<1>4. CASE Intake
  <2>1. UNCHANGED <<scoped, planned, target, attempt>>
    BY <1>4 DEF Intake, Observe, RecordGap
  <2>2. ASSUME Unresolved(a) PROVE latest'[a] = latest[a]
    BY <1>4, <2>2, InFlightLive DEF Intake, Observe, RecordGap
  <2>3. CASE Unresolved(a)
    BY <1>1, <2>1, <2>2, <2>3, SameInFlight DEF Same
  <2>4. CASE ~Unresolved(a)
    BY <2>1, <2>4 DEF InFlightRow, Unresolved
  <2> QED
    BY <2>3, <2>4
<1>5. CASE UNCHANGED rows
  BY <1>1, <1>5, SameInFlight DEF rows, Same
<1> QED
  BY <1>2, <1>3, <1>4, <1>5, RowSteps

-----------------------------------------------------------------------------
\* What the handler in progress may rely on.

LEMMA Moves ==
  ASSUME exec \in Handlers, NEW pc, NEW s, Then(pc, s)
  PROVE  /\ exec'.pc = pc /\ exec'.st = s /\ exec'.act = exec.act
         /\ exec'.n = exec.n /\ exec'.q = exec.q
BY DEF Then, Handlers

\* While the first action in line is sized, nothing of its token is reserved.
LEMMA NothingReserved ==
  ASSUME Causal, NEW a \in Actions, InOrder(a), ~SideEffect(a), Sized(a),
         latest[a] \notin TerminalStates,
         NEW b \in Actions, TokenOf[b] = TokenOf[a]
  PROVE  ~SideEffect(b)
<1>1. SUFFICES ASSUME SideEffect(b) PROVE FALSE
  OBVIOUS
<1>2. Unresolved(b)
  BY <1>1 DEF SideEffect, Causal, Backed, ReservationBacksAttempt
<1>3. /\ latest[b] # "NONE" /\ Sized(b) /\ latest[b] \notin TerminalStates
  BY <1>2, InFlightLive DEF Sized
<1>4. Rank[a] < Rank[b] \/ Rank[b] < Rank[a]
  BY <1>1, ActionsAssumption
<1>5. ~(Rank[b] < Rank[a])
  BY <1>1, <1>3 DEF InOrder, PriorUnresolved, Earlier
<1>6. Over(a)
  BY <1>3, <1>4, <1>5 DEF Causal, SizedInOrder, Precedes
<1> QED
  BY <1>6 DEF Over, Nonterminal

\* What remains of a frozen SELL is ordered in full: what was held when it was
\* frozen still is.
LEMMA RemainderIsWhole ==
  ASSUME Causal, NEW a \in Actions, HandlerStep(a), InOrder(a), ~SideEffect(a), planned[a],
         NEW p \in RemainderPlans(a), p[1] = "READY"
  PROVE  p[2] = Remaining(a)
<1> DEFINE r == Remaining(a)
           t == TokenOf[a]
           S == {b \in OfSide("SELL") : TokenOf[b] = t}
<1>1. CASE SideOf[a] = "BUY"
  BY <1>1 DEF RemainderPlans, Affordable
<1>2. CASE SideOf[a] # "BUY"
  <2>1. SideOf[a] = "SELL" /\ latest[a] \notin TerminalStates /\ Sized(a) /\ t \in Tokens
    BY <1>2, HandledIsLive, ActionsAssumption DEF Sides, Sized
  <2>2. ~(r < MinSize) /\ p[2] \in Sellable(a, r)
    BY <1>2 DEF RemainderPlans, Orderable, Undersized
  <2>3. r <= pos[t]
    BY <2>1, <2>2 DEF Causal, SizedIsHeld, Nonterminal
  <2>4. SumFunctionOnSet(reserved, S) = 0
    <3>1. IsFiniteSet(S)
      BY ActionsAssumption, FS_Subset
    <3>2. \A b \in S : reserved[b] = 0
      BY <2>1, NothingReserved DEF SideEffect, Causal, Backed, Typed, TypeOK
    <3> QED
      BY <3>1, <3>2, SumZero
  <2>5. pos[t] \in Nat /\ AvailablePosition(t) = pos[t]
    BY <2>1, <2>4 DEF AvailablePosition, Causal, Backed, Typed, TypeOK
  <2> QED
    BY <2>2, <2>3, <2>5 DEF Sellable, Least
<1> QED
  BY <1>1, <1>2

\* The steps that end a handler, and the ones that begin one.
LEMMA EndedHandling ==
  ASSUME exec' = Idle
  PROVE  Handling'
BY DEF Handling, At, Idle

LEMMA PlanHandling ==
  ASSUME Causal, NEW a \in Actions, Plan(a)
  PROVE  Handling'
<1> DEFINE Alive(x) == x \notin TerminalStates \cup {"NONE"}
<1> USE DEF Causal, Backed, Typed, TypeOK
<1>1. HandlerStep(a) /\ Alive(latest[a])
  BY HandledIsLive DEF HandlerStep
<1>2. \/ ProcessSourceAction(a)
      \/ /\ ~ProcessSourceAction(a) /\ ~CloseRetry(a)
         /\ exec \in Handlers /\ exec.act = a /\ ~At("idle") /\ exec \in Steps
  <2>1. CASE ~ProcessSourceAction(a) /\ ~CloseRetry(a)
    BY <1>1, <2>1, HandledAction
  <2>2. CASE CloseRetry(a) /\ ~ProcessSourceAction(a)
    BY <2>2 DEF CloseRetry, Plan, ScopeRefuses, ScopeAccepts, LateUnfillable,
         RecoverSubmitStarted, DeferToEarlierAction, SupersedeEarlierOpposites,
         CloseUnsellable, Refuse, FailStaleTarget, PlanFails, PlanFirst, PlanRemainder,
         RecordPlan, PreparationFails, Plannable, Sizable, InOrder, Executing, Busy, At
  <2> QED
    BY <2>1, <2>2
<1>3. CASE ProcessSourceAction(a)
  <2>1. exec'.pc = "entry" /\ exec'.act = a /\ latest'[a] \notin HandledStates \cup {"NONE"}
    BY <1>3 DEF ProcessSourceAction, Begun, Handler, rows
  <2> QED
    BY <2>1, Disjoint DEF Handling, At
<1>4. CASE \/ ScopeRefuses(a) \/ RecoverSubmitStarted(a) \/ DeferToEarlierAction(a)
           \/ Refuse(a) \/ FailStaleTarget(a)
  BY <1>4, EndedHandling DEF ScopeRefuses, RecoverSubmitStarted, DeferToEarlierAction,
       Refuse, FailStaleTarget, Done
<1>5. CASE ScopeAccepts(a) /\ ~ProcessSourceAction(a)
  <2>1. PICK pc \in {"entry", "late"} : Then(pc, "NONE")
    BY <1>5 DEF ScopeAccepts
  <2>2. exec'.pc = pc /\ exec'.act = a
    BY <1>2, <1>5, <2>1, Moves
  <2>3. latest'[a] = "SCOPE_ELIGIBLE" /\ ~planned'[a]
    BY <1>5 DEF ScopeAccepts, Append, SizedRows, Sized
  <2>4. "SCOPE_ELIGIBLE" \notin HandledStates \cup {"NONE"}
    BY DEF HandledStates, TerminalStates
  <2> QED
    BY <2>2, <2>3, <2>4, Disjoint DEF Handling, At
<1>6. CASE LateUnfillable(a) /\ ~ProcessSourceAction(a)
  <2>1. exec'.pc = "append" /\ exec'.act = a /\ exec'.st = "EXTERNAL_UNFILLABLE"
    BY <1>2, <1>6, Moves DEF LateUnfillable
  <2>2. latest'[a] = latest[a] /\ ~Unresolved(a)'
    BY <1>1, <1>6, InFlightHandled DEF LateUnfillable, Unresolved
  <2> QED
    BY <1>1, <2>1, <2>2 DEF Handling, At
<1>7. CASE SupersedeEarlierOpposites(a) /\ ~ProcessSourceAction(a)
  <2>1. exec'.pc = "entry" /\ exec'.act = a /\ exec.pc = "entry"
    BY <1>2, <1>7 DEF SupersedeEarlierOpposites, Executing, Busy, At
  <2>2. a \notin EarlierOpposites(a)
    BY ActionsAssumption DEF EarlierOpposites, Earlier
  <2>3. latest'[a] = latest[a]
    BY <1>7, <2>2 DEF SupersedeEarlierOpposites
  <2> QED
    BY <1>1, <1>2, <1>7, <2>1, <2>3 DEF Handling, At
<1>8. CASE CloseUnsellable(a) /\ ~ProcessSourceAction(a)
  <2>1. exec'.pc = "set" /\ exec'.act = a
    BY <1>2, <1>8, Moves DEF CloseUnsellable
  <2>2. latest'[a] = latest[a] /\ ~Unresolved(a)'
    BY <1>1, <1>8, InFlightHandled DEF CloseUnsellable, Unresolved
  <2> QED
    BY <1>1, <2>1, <2>2 DEF Handling, At
<1>9. CASE PlanFails(a) /\ ~ProcessSourceAction(a)
  <2>1. CASE Done
    BY <2>1, EndedHandling DEF Done
  <2>2. CASE ~Done
    <3>1. /\ LiquidityEvidence(a)
          /\ Then("append", target[a].state)
          /\ latest'[a] = latest[a] /\ UNCHANGED attempt
      BY <1>9, <2>2 DEF PlanFails
    <3>2. exec'.pc = "append" /\ exec'.act = a /\ exec'.st = target[a].state
      BY <1>2, <1>9, <3>1, Moves
    <3>3. ~Unresolved(a)' /\ exec'.st # "NONE"
      BY <3>1, <3>2, Disjoint DEF LiquidityEvidence, SideEffect, Unresolved
    <3> QED
      BY <1>1, <3>1, <3>2, <3>3 DEF Handling, At
  <2> QED
    BY <2>1, <2>2
<1>10. CASE PlanFirst(a) /\ ~ProcessSourceAction(a)
  <2>1. PICK p \in FirstPlans(a) :
          /\ EnsureTarget(a, p[1], p[2])
          /\ exec' = [exec EXCEPT !.pc = "planned", !.st = p[1], !.q = p[2]]
    BY <1>10 DEF PlanFirst
  <2>2. exec'.pc = "planned" /\ exec'.act = a /\ exec'.st = p[1] /\ exec'.q = p[2]
    BY <1>2, <1>10, <2>1 DEF Handlers
  <2>3. latest'[a] = latest[a] /\ ~Unresolved(a)'
    BY <1>1, <1>10, InFlightHandled DEF PlanFirst, Unresolved
  <2>4. target'[a] = [state |-> p[1], qty |-> p[2], filled |-> 0]
    BY <1>10, <2>1 DEF PlanFirst, EnsureTarget
  <2>5. p[2] \in Int
    BY ActionsAssumption DEF FirstPlans, Affordable, Undersized, Orderable, Sellable
  <2>6. Remaining(a)' = p[2]
    BY <2>4, <2>5 DEF Remaining
  <2> QED
    BY <1>1, <2>2, <2>3, <2>6 DEF Handling, At
<1>11. CASE PlanRemainder(a) /\ ~ProcessSourceAction(a)
  <2>1. PICK p \in RemainderPlans(a) :
          exec' = [exec EXCEPT !.pc = "planned", !.st = p[1], !.q = p[2]]
    BY <1>11 DEF PlanRemainder
  <2>2. exec'.pc = "planned" /\ exec'.act = a /\ exec'.st = p[1] /\ exec'.q = p[2]
    BY <1>2, <1>11, <2>1 DEF Handlers
  <2>3. latest'[a] = latest[a] /\ ~Unresolved(a)' /\ Remaining(a)' = Remaining(a)
    BY <1>1, <1>11, InFlightHandled DEF PlanRemainder, Unresolved, Remaining, rows
  <2>4. InOrder(a) /\ ~SideEffect(a) /\ planned[a]
    BY <1>11 DEF PlanRemainder, Plannable, Sizable
  <2>5. p[1] = "READY" => p[2] = Remaining(a)
    BY <1>1, <2>4, RemainderIsWhole
  <2> QED
    BY <1>1, <2>2, <2>3, <2>5 DEF Handling, At
<1>12. CASE RecordPlan(a) /\ ~ProcessSourceAction(a)
  <2>1. exec.pc = "planned" /\ ~Unresolved(a) /\ (exec.st = "READY" => exec.q = Remaining(a))
    BY <1>2, <1>12 DEF RecordPlan, Busy, At, Handling
  <2>2. /\ exec'.pc = IF exec.st = "READY" THEN "prepare" ELSE "set"
        /\ exec'.act = a /\ exec'.q = exec.q
    BY <1>2, <1>12 DEF RecordPlan, Handlers
  <2>3. latest'[a] = "PLANNED" /\ planned'[a] /\ ~Unresolved(a)' /\ Remaining(a)' = Remaining(a)
    BY <1>12, <2>1 DEF RecordPlan, Append, Unresolved, Remaining
  <2>4. Alive("PLANNED")
    BY DEF TerminalStates
  <2> QED
    BY <2>1, <2>2, <2>3, <2>4 DEF Handling, At
<1>13. CASE PreparationFails(a) /\ ~ProcessSourceAction(a)
  <2>1. PICK s : Then("set", s)
    BY <1>13 DEF PreparationFails
  <2>2. exec'.pc = "set" /\ exec'.act = a
    BY <1>2, <1>13, <2>1, Moves
  <2>3. latest'[a] = latest[a] /\ ~Unresolved(a)'
    BY <1>1, <1>13, InFlightHandled DEF PreparationFails, Unresolved, rows
  <2> QED
    BY <1>1, <2>2, <2>3 DEF Handling, At
<1> QED
  BY <1>2, <1>3, <1>4, <1>5, <1>6, <1>7, <1>8, <1>9, <1>10, <1>11, <1>12, <1>13 DEF Plan

LEMMA SubmitHandling ==
  ASSUME Causal, NEW a \in Actions, Submit(a) \/ RecordCancellation(a)
  PROVE  Handling'
<1> DEFINE Alive(x) == x \notin TerminalStates \cup {"NONE"}
<1> USE DEF Causal, Backed, Typed, TypeOK
<1>1. HandlerStep(a) /\ Alive(latest[a])
  BY HandledIsLive DEF HandlerStep
<1>2. exec \in Handlers /\ exec.act = a /\ ~At("idle") /\ exec \in Steps
  <2>1. ~ProcessSourceAction(a) /\ ~CloseRetry(a)
    BY DEF Submit, RecordCancellation, ProcessSourceAction, CloseRetry,
         BeginSubmissionAttempt, PostAnswered, PostUnanswered, PostRejected,
         RecordAttempt, RecordTarget, RecordTransition, Busy, At
  <2> QED
    BY <1>1, <2>1, HandledAction
<1>3. ASSUME NEW n \in Attempts, BeginSubmissionAttempt(a, n) PROVE Handling'
  <2>1. exec'.pc = "post" /\ exec'.act = a
    BY <1>2, <1>3 DEF BeginSubmissionAttempt, Handlers
  <2>2. latest'[a] = "SUBMIT_STARTED" /\ planned'[a]
    BY <1>2, <1>3 DEF BeginSubmissionAttempt, Append, Handling, Busy, At
  <2>3. Alive("SUBMIT_STARTED")
    BY DEF TerminalStates
  <2> QED
    BY <2>1, <2>2, <2>3 DEF Handling, At
<1>4. CASE PostAnswered(a) \/ PostUnanswered(a)
  <2>1. PICK s, r : exec' = [exec EXCEPT !.pc = "attempt", !.st = s, !.resp = r]
    BY <1>4 DEF PostAnswered, PostUnanswered
  <2>2. exec'.pc = "attempt" /\ exec'.act = a /\ latest'[a] = latest[a]
    BY <1>2, <1>4, <2>1 DEF Handlers, PostAnswered, PostUnanswered, rows
  <2> QED
    BY <1>1, <2>2 DEF Handling, At
<1>5. CASE PostRejected(a) \/ RecordTransition(a)
  BY <1>5, EndedHandling DEF PostRejected, RecordTransition, Done
<1>6. CASE RecordAttempt(a)
  <2>1. exec.st \in UnresolvedStates
    BY <1>6, InStep DEF RecordAttempt, PCs, Pending
  <2>2. exec'.pc = "set" /\ exec'.act = a /\ exec'.st = exec.st /\ latest'[a] = latest[a]
    BY <1>2, <1>6, Moves DEF RecordAttempt
  <2> QED
    BY <1>1, <2>1, <2>2 DEF Handling, At
<1>7. CASE RecordTarget(a)
  <2>1. exec.st \in TargetStates /\ exec.pc = "set"
    BY <1>7, InStep DEF RecordTarget, PCs, Pending
  <2>2. /\ exec'.pc = "append" /\ exec'.act = a /\ exec'.st = exec.st /\ latest'[a] = latest[a]
        /\ UNCHANGED attempt
    BY <1>2, <1>7, Moves DEF RecordTarget
  <2>3. exec.st # "NONE"
    BY <2>1 DEF TargetStates, UnresolvedStates, TerminalStates, RetryableStates, LiquidityStates
  <2>4. Unresolved(a)' => exec.st \in InFlightStates(a)
    BY <1>2, <2>1, <2>2 DEF Handling, Unresolved, InFlightStates
  <2> QED
    BY <1>1, <2>2, <2>3, <2>4 DEF Handling, At, InFlightStates
<1>8. CASE RecordCancellation(a)
  <2>1. SideOf[a] = "BUY"
    BY <1>2, <1>8 DEF RecordCancellation, Busy, At, Handling
  <2>2. /\ exec'.pc = "append" /\ exec'.act = a /\ exec'.st = "ACTIVE_CANCEL_COMPLETED"
        /\ latest'[a] = latest[a]
    BY <1>2, <1>8, Moves DEF RecordCancellation
  <2>3. exec'.st \in InFlightStates(a)
    BY <2>1, <2>2 DEF InFlightStates
  <2> QED
    BY <1>1, <2>2, <2>3 DEF Handling, At, InFlightStates
<1> QED
  BY <1>3, <1>4, <1>5, <1>6, <1>7, <1>8 DEF Submit

LEMMA StepHandling == ASSUME Causal, [Next]_vars PROVE Handling'
<1>1. CASE \E a \in Actions : HandlerStep(a) /\ ~CloseRetry(a)
  BY <1>1, PlanHandling, SubmitHandling DEF HandlerStep
<1>2. ASSUME NEW a \in Actions, CloseRetry(a) PROVE Handling'
  <2>1. latest[a] \notin TerminalStates \cup {"NONE"}
    BY <1>2, HandledIsLive DEF HandlerStep
  <2>2. exec'.pc = "append" /\ exec'.act = a /\ exec'.st # "NONE"
    BY <1>2 DEF CloseRetry, Handler, Unfillable
  <2>3. latest'[a] = latest[a] /\ ~Unresolved(a)'
    BY <1>2 DEF CloseRetry, LiquidityEvidence, SideEffect, Unresolved
  <2> QED
    BY <2>1, <2>2, <2>3 DEF Handling, At
<1>3. ASSUME NEW o \in Orders, CancelDue(o) PROVE Handling'
  <2>1. o[1] \in Actions /\ o[2] \in Attempts /\ o = <<o[1], o[2]>> /\ attempt[o].state \in UnresolvedStates
    BY <1>3 DEF CancelDue, Listed
  <2>2. latest[o[1]] \notin TerminalStates \cup {"NONE"}
    BY <2>1, InFlightLive DEF Unresolved
  <2>3. /\ exec'.pc = "cancelled" /\ exec'.act = o[1] /\ SideOf[o[1]] = "BUY"
        /\ UNCHANGED latest
    BY <1>3 DEF CancelDue, Handler, rows
  <2> QED
    BY <2>2, <2>3 DEF Handling, At
<1>4. CASE Intake \/ \E o \in Orders : Reconcile(o)
  <2>1. At("idle") /\ UNCHANGED exec
    BY <1>4, ReconciledIsInFlight DEF Intake, Observe, RecordGap
  <2> QED
    BY <2>1 DEF Handling, At
<1>5. CASE Crash
  BY <1>5, EndedHandling DEF Crash, Done
<1>6. CASE Venue \/ UNCHANGED vars
  <2>1. UNCHANGED rows /\ UNCHANGED exec
    BY <1>6 DEF Venue, Match, Withdraw, Arrive, Finalize, vars
  <2> QED
    BY <2>1 DEF Causal, Handling, At, rows, Unresolved, Remaining
<1> QED
  BY <1>1, <1>2, <1>3, <1>4, <1>5, <1>6, StepKinds

LEMMA InitCausal == Init => Causal
<1> SUFFICES ASSUME Init PROVE Causal
  OBVIOUS
<1>1. Backed
  BY InitBacked
<1>2. \A a \in Actions : ~Sized(a) /\ ~Unresolved(a) /\ latest[a] = "NONE"
  BY DEF Init, Sized, Busy, At, Idle, Unresolved, UnresolvedStates
<1>3. ObservedInOrder
  BY <1>2 DEF ObservedInOrder
<1>4. SizedRows /\ SizedInOrder /\ SizedIsHeld /\ InFlightRows
  BY <1>2 DEF SizedRows, SizedInOrder, SizedIsHeld, InFlightRows, InFlightRow
<1>5. Handling
  BY DEF Init, Handling, At, Idle
<1> QED
  BY <1>1, <1>3, <1>4, <1>5 DEF Causal

LEMMA StepCausal == ASSUME Causal, [Next]_vars PROVE Causal'
<1>1. Backed'
  BY StepBacked DEF Causal
<1> QED
  BY <1>1, StepObservedInOrder, StepSizedRows, StepSizedInOrder, StepSizedIsHeld,
     StepInFlightRows, StepHandling DEF Causal

-----------------------------------------------------------------------------
\* Theorems.

LEMMA AlwaysCausal == Spec => []Causal
<1>1. Init => Causal
  BY InitCausal
<1>2. Causal /\ [Next]_vars => Causal'
  BY StepCausal
<1> QED
  BY <1>1, <1>2, PTL DEF Spec

LEMMA CausalIsOneInFlight == ASSUME Causal PROVE OneInFlightPerToken
<1>1. SUFFICES ASSUME NEW a \in Actions, NEW b \in Actions, TokenOf[a] = TokenOf[b],
                      SideEffect(a), SideEffect(b), Rank[a] < Rank[b]
               PROVE  FALSE
  <2>1. \A a, b \in Actions : Rank[a] < Rank[b] \/ Rank[b] < Rank[a] \/ a = b
    BY ActionsAssumption
  <2> QED
    BY <2>1 DEF OneInFlightPerToken
<1>2. Unresolved(a) /\ Unresolved(b)
  BY <1>1 DEF SideEffect, Causal, Backed, ReservationBacksAttempt
<1>3. Sized(b) /\ Nonterminal(a)
  BY <1>2, InFlightLive DEF Sized, Nonterminal
<1> QED
  BY <1>1, <1>3 DEF Causal, SizedInOrder, Over, Precedes

\* Two actions of one token are never in flight together: a reservation has an
\* unresolved attempt behind it, what is unresolved was planned, and what is
\* behind a planned action is over.
THEOREM OneTokenOneOrder == Spec => []OneInFlightPerToken
BY CausalIsOneInFlight, AlwaysCausal, PTL

\* Rows that unreconciled_submissions withholds as an anomaly never arise: what
\* is in flight has live rows, one unresolved attempt, and asks for exactly what
\* its target lacks.
THEOREM EveryAttemptIsListed == Spec => []NoReconciliationAnomaly
<1>1. ASSUME Causal PROVE NoReconciliationAnomaly
  <2>1. SUFFICES ASSUME NEW o \in Orders, attempt[o].state \in UnresolvedStates
                 PROVE  ~Withheld(o)
    BY DEF NoReconciliationAnomaly, Listed
  <2>2. o[1] \in Actions /\ o[2] \in Attempts /\ o = <<o[1], o[2]>>
    OBVIOUS
  <2>3. Unresolved(o[1])
    BY <2>1, <2>2 DEF Unresolved
  <2>4. latest[o[1]] \notin TerminalStates /\ target[o[1]].state \notin TerminalStates \cup {"ABSENT"}
    BY <1>1, <2>2, <2>3, InFlightLive
  <2>5. attempt[o].req = Remaining(o[1])
    BY <1>1, <2>1, <2>2, <2>3 DEF Causal, InFlightRows, InFlightRow
  <2>6. \A n \in Attempts : n # o[2] => attempt[<<o[1], n>>].state \notin UnresolvedStates
    BY <1>1, <2>1, <2>2 DEF Causal, Backed, ReservationBacksAttempt
  <2> QED
    BY <2>4, <2>5, <2>6 DEF Withheld
<1> QED
  BY <1>1, AlwaysCausal, PTL

\* What a step leaves of a resolved attempt, of a terminal action and of a
\* frozen target.
LEMMA StepKeepsAttempts ==
  ASSUME Causal, [Next]_vars, NEW o \in Orders,
         attempt[o].state \notin UnresolvedStates \cup {"NONE"}
  PROVE  attempt'[o] = attempt[o]
<1>1. o[1] \in Actions /\ o[2] \in Attempts /\ o = <<o[1], o[2]>>
  OBVIOUS
<1>2. ASSUME NEW a \in Actions, HandlerStep(a) PROVE attempt'[o] = attempt[o]
  <2>1. CASE \E n \in Attempts : BeginSubmissionAttempt(a, n)
    <3>1. PICK n \in Attempts : BeginSubmissionAttempt(a, n)
      BY <2>1
    <3>2. o # <<a, n>>
      BY <3>1 DEF BeginSubmissionAttempt, NextAttempt
    <3> QED
      BY <3>1, <3>2 DEF BeginSubmissionAttempt, Causal, Backed, Typed, TypeOK
  <2>2. CASE PostRejected(a) \/ RecordAttempt(a) \/ RecordCancellation(a)
    <3>1. exec \in Handlers /\ exec.act = a /\ exec.pc \in {"post", "attempt", "cancelled"}
      BY <2>2, HandledAction DEF HandlerStep, Submit, PostRejected, RecordAttempt,
           RecordCancellation, ProcessSourceAction, CloseRetry, Busy, At
    <3>2. o # <<a, exec.n>>
      BY <3>1, WorksInFlight
    <3> QED
      BY <2>2, <3>2 DEF PostRejected, RecordAttempt, RecordCancellation, SetAttempt,
           Causal, Backed, Typed, TypeOK
  <2>3. CASE /\ ~(\E n \in Attempts : BeginSubmissionAttempt(a, n))
             /\ ~PostRejected(a) /\ ~RecordAttempt(a) /\ ~RecordCancellation(a)
    BY <1>2, <2>3
       DEF HandlerStep, Plan, Submit, ProcessSourceAction, ScopeRefuses, ScopeAccepts,
       LateUnfillable, RecoverSubmitStarted, DeferToEarlierAction,
       SupersedeEarlierOpposites, CloseUnsellable, Refuse, FailStaleTarget, PlanFails,
       PlanFirst, PlanRemainder, RecordPlan, PreparationFails, PostAnswered,
       PostUnanswered, RecordTarget, RecordTransition, CloseRetry, rows
  <2> QED
    BY <2>1, <2>2, <2>3
<1>3. ASSUME NEW p \in Orders, Reconcile(p) PROVE attempt'[o] = attempt[o]
  <2>1. p # o
    BY <1>3, ReconciledIsInFlight
  <2> QED
    BY <1>3, <2>1 DEF Reconcile, ReconcileFill, ReconcileFinalizedNoFill, ReconcileCanceled,
         ReconcileAbsent, SetAttempt, Causal, Backed, Typed, TypeOK
<1>4. CASE Intake \/ UNCHANGED rows
  BY <1>4 DEF Intake, Observe, RecordGap, rows
<1> QED
  BY <1>2, <1>3, <1>4, RowSteps

LEMMA StepKeepsTerminal ==
  ASSUME Causal, [Next]_vars, NEW a \in Actions, latest[a] \in TerminalStates
  PROVE  /\ latest'[a] \in TerminalStates
         /\ \A n \in Attempts : attempt'[<<a, n>>] = attempt[<<a, n>>]
<1>1. Typed
  BY DEF Causal, Backed
<1>2. ASSUME NEW b \in Actions, HandlerStep(b)
      PROVE  /\ latest'[a] \in TerminalStates
             /\ \A n \in Attempts : attempt'[<<a, n>>] = attempt[<<a, n>>]
  <2>1. b # a
    BY <1>2, HandledIsLive
  <2>2. CASE SupersedeEarlierOpposites(b)
    <3>1. Closed(a) \in TerminalStates
      BY DEF Closed, TerminalStates
    <3> QED
      BY <2>2, <3>1 DEF SupersedeEarlierOpposites
  <2>3. CASE ~SupersedeEarlierOpposites(b)
    BY <1>1, <1>2, <2>1, <2>3, OthersSame DEF Same
  <2> QED
    BY <2>2, <2>3
<1>3. ASSUME NEW o \in Orders, Reconcile(o)
      PROVE  /\ latest'[a] \in TerminalStates
             /\ \A n \in Attempts : attempt'[<<a, n>>] = attempt[<<a, n>>]
  <2>1. o[1] # a
    BY <1>3, ReconciledIsInFlight, InFlightLive
  <2> QED
    BY <1>1, <1>3, <2>1, ReconcileSame DEF Same
<1>4. CASE Intake
  <2>1. latest'[a] = latest[a] /\ UNCHANGED attempt
    BY <1>1, <1>4, Disjoint DEF Intake, Observe, RecordGap, Typed, TypeOK
  <2> QED
    BY <2>1
<1>5. CASE UNCHANGED rows
  BY <1>5 DEF rows
<1> QED
  BY <1>2, <1>3, <1>4, <1>5, RowSteps

LEMMA StepKeepsProgress ==
  ASSUME Causal, [Next]_vars, NEW a \in Actions, HasTarget(a)
  PROVE  target'[a].filled >= target[a].filled
<1>1. target[a] \in TargetRows
  BY DEF Causal, Backed, Typed, TypeOK
<1>2. ASSUME NEW n \in Attempts, ReconcileFill(<<a, n>>)
      PROVE  target'[a].filled >= target[a].filled
  <2> DEFINE o == <<a, n>>
  <2>1. PICK q \in Readings(o) :
          target' = [target EXCEPT ![a].filled = @ + q, ![a].state = FillState(a, q)]
    BY <1>2 DEF ReconcileFill
  <2>2. q \in Nat
    BY DEF Readings, Causal, Backed, Typed, TypeOK, VenueOrders
  <2>3. target'[a].filled = target[a].filled + q
    BY <1>1, <2>1 DEF Causal, Backed, Typed, TypeOK, TargetRows
  <2> QED
    BY <1>1, <2>2, <2>3 DEF TargetRows
<1>3. CASE \A n \in Attempts : ~ReconcileFill(<<a, n>>)
  BY <1>1, <1>3, FrozenStays DEF TargetRows
<1> QED
  BY <1>2, <1>3

\* A recorded outcome is final: no handler, replay or reconciliation reopens a
\* resolved attempt or a terminal action, or takes progress from a frozen target.
THEOREM RecordedOutcomesAreFinal == Spec => OutcomesAreFinal
<1> DEFINE Keeps ==
      /\ \A o \in Orders :
           attempt[o].state \notin UnresolvedStates \cup {"NONE"} => attempt'[o] = attempt[o]
      /\ \A a \in Actions : latest[a] \in TerminalStates =>
           /\ latest'[a] \in TerminalStates
           /\ \A n \in Attempts : attempt'[<<a, n>>] = attempt[<<a, n>>]
      /\ \A a \in Actions : HasTarget(a) =>
           /\ target'[a].qty = target[a].qty
           /\ target'[a].filled >= target[a].filled
<1>1. Causal /\ [Next]_vars => Keeps
  BY StepKeepsAttempts, StepKeepsTerminal, StepKeepsProgress, FrozenStays
<1>2. Causal /\ [Next]_vars => [Keeps]_vars
  BY <1>1
<1> HIDE DEF Keeps
<1>3. Spec => [][Keeps]_vars
  BY <1>2, AlwaysCausal, PTL DEF Spec
<1> QED
  BY <1>3 DEF OutcomesAreFinal, Keeps
=============================================================================
