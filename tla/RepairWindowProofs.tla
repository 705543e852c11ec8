------------------------- MODULE RepairWindowProofs -------------------------
(***************************************************************************)
(* Theorems about RepairWindow, for every set of actions, every gap and    *)
(* every market: what the recovery records of a claimed action is what the *)
(* ledger says of it, a completed manifest has nothing in flight, and      *)
(* claimed actions are executed in line, each behind those before it.      *)
(***************************************************************************)
EXTENDS RepairWindow, OrderLedgerCausalProofs

-----------------------------------------------------------------------------
\* The row a loop has come to.

Below(S, b) == {c \in S : Rank[c] <= Rank[b]}

LEMMA FirstIs ==
  ASSUME NEW S \in SUBSET Actions, S # {}
  PROVE  First(S) \in S /\ \A b \in S : Rank[First(S)] <= Rank[b]
<1>1. IsFiniteSet(S)
  BY ActionsAssumption, FS_Subset
<1> DEFINE T == {Below(S, b) : b \in S}
<1>2. T \subseteq SUBSET S /\ T # {}
  BY DEF Below
<1>3. PICK s \in T : \A u \in T : u \subseteq s => u = s
  <2> HIDE DEF T
  <2> QED
    BY <1>1, <1>2, Minimal
<1>4. PICK m \in S : s = Below(S, m)
  OBVIOUS
<1>5. \A b \in S : Rank[b] \in Nat
  BY ActionsAssumption
<1>6. \A b \in S : Rank[m] <= Rank[b]
  <2> SUFFICES ASSUME NEW b \in S, ~(Rank[m] <= Rank[b]) PROVE FALSE
    OBVIOUS
  <2>1. Rank[b] < Rank[m]
    BY <1>5
  <2>2. Below(S, b) \subseteq Below(S, m)
    BY <1>5, <2>1 DEF Below
  <2>3. m \in Below(S, m) /\ m \notin Below(S, b)
    BY <1>5, <2>1 DEF Below
  <2> QED
    BY <1>3, <1>4, <2>2, <2>3
<1> QED
  BY <1>6 DEF First

\* Likewise the last of a set of actions.
Above(S, b) == {c \in S : Rank[c] >= Rank[b]}

LEMMA LastIs ==
  ASSUME NEW S \in SUBSET Actions, S # {}
  PROVE  Last(S) \in S
<1>1. IsFiniteSet(S)
  BY ActionsAssumption, FS_Subset
<1> DEFINE T == {Above(S, b) : b \in S}
<1>2. T \subseteq SUBSET S /\ T # {}
  BY DEF Above
<1>3. PICK s \in T : \A u \in T : u \subseteq s => u = s
  <2> HIDE DEF T
  <2> QED
    BY <1>1, <1>2, Minimal
<1>4. PICK m \in S : s = Above(S, m)
  OBVIOUS
<1>5. \A b \in S : Rank[b] \in Nat
  BY ActionsAssumption
<1>6. \A b \in S : Rank[m] >= Rank[b]
  <2> SUFFICES ASSUME NEW b \in S, ~(Rank[m] >= Rank[b]) PROVE FALSE
    OBVIOUS
  <2>1. Rank[b] > Rank[m]
    BY <1>5
  <2>2. Above(S, b) \subseteq Above(S, m)
    BY <1>5, <2>1 DEF Above
  <2>3. m \in Above(S, m) /\ m \notin Above(S, b)
    BY <1>5, <2>1 DEF Above
  <2> QED
    BY <1>3, <1>4, <2>2, <2>3
<1> QED
  BY <1>6 DEF Last

LEMMA BlockerIs ==
  ASSUME NEW a \in Actions, PriorUnresolved(a) \/ PriorNonterminal(a)
  PROVE  Blocker(a).why \in Why /\ Blocker(a).act \in Actions
<1>1. CASE PriorUnresolved(a)
  <2>1. {b \in Actions : Earlier(b, a) /\ SideEffect(b)} # {}
    BY <1>1 DEF PriorUnresolved
  <2>2. Last({b \in Actions : Earlier(b, a) /\ SideEffect(b)}) \in Actions
    BY <2>1, LastIs
  <2> QED
    BY <1>1, <2>2 DEF Blocker, Why
<1>2. CASE ~PriorUnresolved(a)
  <2>1. {b \in Actions : Earlier(b, a) /\ Nonterminal(b)} # {}
    BY <1>2 DEF PriorNonterminal
  <2>2. Last({b \in Actions : Earlier(b, a) /\ Nonterminal(b)}) \in Actions
    BY <2>1, LastIs
  <2> QED
    BY <1>2, <2>2 DEF Blocker, Why
<1> QED
  BY <1>1, <1>2

-----------------------------------------------------------------------------
\* Steps of the recovery on the rows that the store alone does not take.

RecoveryStep ==
  \/ \E B \in SUBSET Actions : BeginHead(B)
  \/ FailStaleRow
  \/ CloseBelowMinimum
  \/ ExecuteFrozen
  \/ \E a \in Actions : ExecuteNothing(a) \/ CloseOfficially(a)

LEMMA RowTyped ==
  ASSUME RepairTypeOK, cycle.todo # {}
  PROVE  /\ Row \in cycle.todo /\ Row \in Actions
         /\ \A b \in cycle.todo : Rank[Row] <= Rank[b]
<1>1. cycle.todo \in SUBSET Actions
  BY DEF RepairTypeOK, Cycles
<1> QED
  BY <1>1, FirstIs DEF Row

\* Those the store does take: all but an intake outside a head.
StoreStep ==
  \/ \E a \in Actions : Plan(a) \/ Submit(a)
  \/ Maintain
  \/ Venue
  \/ Crash
  \/ UNCHANGED vars

LEMMA StoreSteps == StoreStep => [Next]_vars
BY DEF StoreStep, Next

LEMMA StepOfRows ==
  ASSUME RepairTypeOK, [RepairNext]_allVars
  PROVE  StoreStep \/ RecoveryStep
<1>1. CASE Activate \/ LoseHead \/ Claims
  BY <1>1 DEF StoreStep, Activate, LoseHead, Claims, ClaimDependents, EndClaims, BeginCycle
<1>2. CASE Intakes
  <2>1. CASE IntakeNext
    <3>1. Row \in Actions /\ (UNCHANGED vars \/ ProcessSourceAction(Row))
      BY <2>1, RowTyped DEF IntakeNext
    <3> QED
      BY <3>1 DEF StoreStep, Plan
  <2> QED
    BY <1>2, <2>1 DEF StoreStep, Intakes, EndIntake, RecoveryStep
<1>3. CASE Executor
  <2>1. PICK a \in Actions :
          Execute(a) \/ Defer(a) \/ IntakeFindsStale(a) \/ Refuses(a)
    BY <1>3 DEF Executor
  <2>2. Plan(a) \/ Submit(a) \/ RecordCancellation(a)
    BY <2>1 DEF Execute, Defer, IntakeFindsStale, Refuses, Plan
  <2> QED
    BY <2>2 DEF StoreStep, Maintain
<1>4. CASE Rows
  BY <1>4 DEF Rows, SkipRow, WaitRow, SyncRow, BlockStaleRow, RowRaises, MarkClosed,
       LeaveSmall, MarkBelowMinimum, AwaitPrice, FreezeBook, RecordResult, ResultRaised,
       EndCycle, RecoveryStep, StoreStep
<1>5. CASE Retries
  BY <1>5 DEF Retries, RetryPending, EndRetry, EndHead, StoreStep, Maintain
<1>6. CASE Reconciliation
  BY <1>6 DEF Reconciliation, ReconcileAll, ReconcileSent, CancelBeforeHead, StoreStep, Maintain
<1>7. CASE Die
  BY <1>7 DEF Die, StoreStep
<1>8. CASE \E o \in Orders : Trade(o)
  BY <1>8 DEF Trade, StoreStep, Venue
<1>9. CASE UNCHANGED allVars
  BY <1>9 DEF StoreStep, allVars
<1> QED
  BY <1>1, <1>2, <1>3, <1>4, <1>5, <1>6, <1>7, <1>8, <1>9 DEF RepairNext

-----------------------------------------------------------------------------
\* Types.

\* Stages at a row.
AtRows == {"judge", "closed", "minimum", "small", "frozen", "run", "covered"}
RowsToDo == cycle.stage \in AtRows => cycle.todo # {}

Shape == Typed /\ RepairTypeOK /\ RowsToDo

LEMMA RowAt ==
  ASSUME Shape, cycle.stage \in AtRows
  PROVE  Row \in cycle.todo /\ Row \in Actions
BY RowTyped DEF Shape, RowsToDo

LEMMA ReopenTyped ==
  ASSUME Typed, NEW a \in Actions, NEW s, Reopen(a, s)
  PROVE  Typed'
<1> USE Narrower DEF Typed, TypeOK
<1>1. Begun(a) \in Steps
  <2>1. 1 \in Attempts /\ "entry" \in PCs /\ "none" \in Responses
    BY BoundsAssumption DEF PCs, Responses, Attempts
  <2>2. "NONE" \in Pending("entry")
    BY DEF Pending, LatestStates
  <2> QED
    BY <2>1, <2>2, Started DEF Begun
<1>2. latest' \in [Actions -> LatestStates]
  <2>1. "OBSERVED" \in LatestStates
    BY DEF LatestStates
  <2> QED
    BY <2>1, AppendTyped DEF Reopen
<1> QED
  BY <1>1, <1>2 DEF Reopen, venue

\* The rows of an action that is closed without an order.
Closes(a, s) ==
  /\ \E r \in WithinTarget : target' = [target EXCEPT ![a] = r]
  /\ exec' = Handler("append", a, 1, s, 0, "none")
  /\ UNCHANGED <<latest, scoped, planned, attempt, reserved, pos, venue, crashes>>

LEMMA ClosesTyped ==
  ASSUME Typed, NEW a \in Actions, NEW s \in LatestStates, Closes(a, s)
  PROVE  Typed'
<1> USE Narrower DEF Typed, TypeOK
<1>1. 1 \in Attempts /\ "append" \in PCs /\ "none" \in Responses /\ s \in Pending("append")
  BY BoundsAssumption DEF PCs, Responses, Attempts, Pending
<1>2. exec' \in Steps
  BY <1>1, Started DEF Closes
<1>3. target' \in [Actions -> WithinTarget]
  BY DEF Closes
<1> QED
  BY <1>2, <1>3 DEF Closes, venue

LEMMA ClosedRow ==
  ASSUME Typed, NEW a \in Actions, NEW s \in TargetStates
  PROVE  /\ [target[a] EXCEPT !.state = s] \in WithinTarget
         /\ [state |-> s, qty |-> Want[a], filled |-> 0] \in WithinTarget
<1>1. target[a] \in WithinTarget /\ Want[a] \in Nat
  BY ActionsAssumption DEF Typed
<1> QED
  BY <1>1 DEF WithinTarget, TargetRows

LEMMA ClosingCloses ==
  ASSUME Shape
  PROVE  /\ \A a \in Actions : CloseOfficially(a) => Closes(a, "EXTERNAL_UNFILLABLE")
         /\ CloseBelowMinimum => Row \in Actions /\ Closes(Row, Unfillable(Row))
<1>1. "EXTERNAL_UNFILLABLE" \in TargetStates
  BY States DEF TerminalStates
<1>2. ASSUME NEW a \in Actions, CloseOfficially(a) PROVE Closes(a, "EXTERNAL_UNFILLABLE")
  <2>1. CASE HasTarget(a)
    <3>1. target' = [target EXCEPT ![a] = [target[a] EXCEPT !.state = "EXTERNAL_UNFILLABLE"]]
      BY <1>2, <2>1 DEF CloseOfficially
    <3> QED
      BY <1>1, <1>2, <3>1, ClosedRow DEF CloseOfficially, Closes, Shape
  <2>2. CASE ~HasTarget(a)
    <3>1. target' = [target EXCEPT ![a] =
                       [state |-> "EXTERNAL_UNFILLABLE", qty |-> Want[a], filled |-> 0]]
      BY <1>2, <2>2 DEF CloseOfficially
    <3> QED
      BY <1>1, <1>2, <3>1, ClosedRow DEF CloseOfficially, Closes, Shape
  <2> QED
    BY <2>1, <2>2
<1>3. ASSUME CloseBelowMinimum PROVE Row \in Actions /\ Closes(Row, Unfillable(Row))
  <2>1. Row \in Actions
    BY <1>3, RowAt DEF CloseBelowMinimum, Stage, AtRows
  <2>2. Unfillable(Row) \in TargetStates
    BY States DEF Unfillable, TerminalStates
  <2>3. CASE HasTarget(Row)
    <3>1. target' = [target EXCEPT ![Row] = [target[Row] EXCEPT !.state = Unfillable(Row)]]
      BY <1>3, <2>3 DEF CloseBelowMinimum
    <3> QED
      BY <1>3, <2>1, <2>2, <3>1, ClosedRow DEF CloseBelowMinimum, Closes, Shape
  <2>4. CASE ~HasTarget(Row)
    <3>1. target' = [target EXCEPT ![Row] =
                       [state |-> "EXTERNAL_UNFILLABLE", qty |-> Want[Row], filled |-> 0]]
      BY <1>3, <2>4 DEF CloseBelowMinimum
    <3> QED
      BY <1>1, <1>3, <2>1, <3>1, ClosedRow DEF CloseBelowMinimum, Closes, Shape
  <2> QED
    BY <2>1, <2>3, <2>4
<1> QED
  BY <1>2, <1>3

LEMMA RecoveryStepTyped == ASSUME Shape, RecoveryStep PROVE Typed'
<1>1. ASSUME NEW B \in SUBSET Actions, BeginHead(B) PROVE Typed'
  <2>1. latest' \in [Actions -> LatestStates]
    <3>1. "OBSERVED" \in LatestStates
      BY DEF LatestStates
    <3> QED
      BY <1>1, <3>1 DEF BeginHead, Shape, Typed, TypeOK
  <2> QED
    BY <1>1, <2>1 DEF BeginHead, Shape, Typed, TypeOK, venue
<1>2. ASSUME FailStaleRow PROVE Typed'
  <2>1. Row \in Actions /\ "ERROR_INTERNAL" \in TargetStates \cap LatestStates
    BY <1>2, RowAt, States DEF FailStaleRow, Stage, AtRows, TerminalStates
  <2>2. /\ latest' \in [Actions -> LatestStates]
        /\ target' \in [Actions -> WithinTarget]
        /\ reserved' \in [Actions -> Nat]
    BY <1>2, <2>1, ReleaseTyped DEF FailStaleRow, Shape
  <2> QED
    BY <1>2, <2>2, Narrower DEF FailStaleRow, Shape, Typed, TypeOK, venue
<1>3. ASSUME CloseBelowMinimum PROVE Typed'
  <2>1. Unfillable(Row) \in LatestStates
    BY States DEF Unfillable, TerminalStates
  <2> QED
    BY <1>3, <2>1, ClosingCloses, ClosesTyped DEF Shape
<1>4. ASSUME ExecuteFrozen PROVE Typed'
  <2>1. Row \in Actions
    BY <1>4, RowAt DEF ExecuteFrozen, Stage, AtRows
  <2> QED
    BY <1>4, <2>1, ReopenTyped DEF ExecuteFrozen, Shape
<1>5. ASSUME NEW a \in Actions, ExecuteNothing(a) PROVE Typed'
  BY <1>5, ReopenTyped DEF ExecuteNothing, Shape
<1>6. ASSUME NEW a \in Actions, CloseOfficially(a) PROVE Typed'
  <2>1. "EXTERNAL_UNFILLABLE" \in LatestStates
    BY States DEF TerminalStates
  <2> QED
    BY <1>6, <2>1, ClosingCloses, ClosesTyped DEF Shape
<1> QED
  BY <1>1, <1>2, <1>3, <1>4, <1>5, <1>6 DEF RecoveryStep

-----------------------------------------------------------------------------
\* The recovery's own tables, and the head in progress.

LEMMA EnterTyped ==
  ASSUME RepairTypeOK, NEW s \in Stages, Enter(s)
  PROVE  /\ cycle' \in Cycles
         /\ cycle'.stage = s
         /\ cycle'.todo = cycle.todo
         /\ cycle'.intake = cycle.intake
         /\ cycle'.sent = cycle.sent
BY DEF Enter, RepairTypeOK, Cycles

LEMMA NextRowTyped ==
  ASSUME Shape, NEW T \in SUBSET Tokens, NextRow(T)
  PROVE  /\ cycle' \in Cycles
         /\ cycle'.stage = "rows"
         /\ cycle'.intake = cycle.intake
         /\ cycle'.sent = cycle.sent
BY DEF NextRow, Shape, RepairTypeOK, Cycles, Stages

LEMMA OffTyped == Off \in Cycles /\ Off.stage = "off" /\ Off.todo = {} /\ Off.intake = {}
BY DEF Off, Head, Cycles, Stages

LEMMA HoldTyped ==
  ASSUME Shape, Hold, Row \in Actions
  PROVE  cycle' \in Cycles /\ cycle'.stage = "rows" /\ cycle'.intake = cycle.intake
BY NextRowTyped, ActionsAssumption DEF Hold

LEMMA SyncedTyped ==
  ASSUME Typed, NEW a \in Actions
  PROVE  Synced(a) \in RecoveryStates \cup {"none"}
BY DEF Synced, RecoveryStates

LEMMA ResultTyped ==
  ASSUME Typed, NEW a \in Actions
  PROVE  Result(a) \in RecoveryStates
<1>1. latest[a] \in LatestStates
  BY DEF Typed, TypeOK
<1>2. SyncedStatus["PENDING_LIQUIDITY"] = "PENDING_EXTERNAL_LIQUIDITY"
  BY DEF SyncedStatus
<1>3. "PENDING_LIQUIDITY" \in DOMAIN SyncedStatus
  BY DEF SyncedStatus
<1>4. "PENDING_EXTERNAL_LIQUIDITY" \in {SyncedStatus[s] : s \in DOMAIN SyncedStatus}
  BY <1>2, <1>3
<1>5. {"NO_ORDER_COVERED_BY_CUMULATIVE_SURPLUS", "PENDING_EXTERNAL_LIQUIDITY"}
        \cup LatestStates \subseteq RecoveryStates
  BY <1>4 DEF RecoveryStates, Settled
<1> QED
  BY <1>1, <1>5 DEF Result

LEMMA MarkTyped ==
  ASSUME RepairTypeOK, NEW a \in Actions, NEW s \in RecoveryStates, Mark(a, s)
  PROVE  recovery' \in [Actions -> RecoveryStates]
BY DEF Mark, RepairTypeOK

\* Values the recovery writes by name.
LEMMA Named ==
  /\ {"UNCLAIMED", "AUTHORIZED", "PENDING_PRICE", "CURRENT_EFFECT_RECONSTRUCTED",
      "EXTERNAL_UNFILLABLE"} \subseteq RecoveryStates
  /\ Stale \in RecoveryStates /\ Uncertain \in RecoveryStates
  /\ Settled \subseteq RecoveryStates
BY DEF RecoveryStates, Settled

RecoveryShape == RepairTypeOK /\ RowsToDo

LEMMA SayTyped ==
  ASSUME RepairTypeOK, NEW a \in Actions, NEW why \in Why, NEW b \in Actions, Say(a, why, b)
  PROVE  reason' \in [Actions -> [why : Why, act : Actions]]
BY DEF Say, RepairTypeOK

LEMMA IntakesShape == ASSUME Shape, Intakes PROVE RecoveryShape'
<1> USE DEF Shape, RepairTypeOK, tables, RecoveryShape
<1>1. ASSUME NEW B \in SUBSET Actions, BeginHead(B) PROVE RecoveryShape'
  <2>1. cycle' \in Cycles /\ cycle'.stage = "intake"
    BY <1>1 DEF BeginHead, Head, Cycles, Stages
  <2> QED
    BY <1>1, <2>1 DEF BeginHead, RowsToDo, AtRows
<1>2. ASSUME IntakeNext PROVE RecoveryShape'
  <2>1. cycle' \in Cycles /\ cycle'.stage = "intake"
    BY <1>2 DEF IntakeNext, Stage, Cycles
  <2> QED
    BY <1>2, <2>1 DEF IntakeNext, RowsToDo, AtRows
<1>3. ASSUME EndIntake PROVE RecoveryShape'
  <2>1. cycle' \in Cycles /\ cycle'.stage = "claim"
    BY <1>3, EnterTyped DEF EndIntake, Stages
  <2>2. passed' \in SUBSET Actions
    BY <1>3 DEF EndIntake, Cycles
  <2> QED
    BY <1>3, <2>1, <2>2 DEF EndIntake, RowsToDo, AtRows
<1> QED
  BY <1>1, <1>2, <1>3 DEF Intakes

LEMMA ExecutorShape == ASSUME Shape, Executor PROVE RecoveryShape'
<1> USE DEF Shape, RecoveryShape, tables
<1>1. PICK a \in Actions :
        Execute(a) \/ Defer(a) \/ IntakeFindsStale(a) \/ Refuses(a)
  BY DEF Executor
<1>2. CASE Execute(a)
  BY <1>2 DEF Execute, RepairTypeOK, RowsToDo
<1>3. CASE Defer(a)
  <2>1. PriorUnresolved(a) \/ PriorNonterminal(a)
    BY <1>3 DEF Defer, DeferToEarlierAction
  <2>2. reason' \in [Actions -> [why : Why, act : Actions]]
    BY <1>3, <2>1, BlockerIs, SayTyped DEF Defer
  <2> QED
    BY <1>3, <2>2 DEF Defer, RepairTypeOK, RowsToDo
<1>4. CASE IntakeFindsStale(a)
  <2>1. reason' \in [Actions -> [why : Why, act : Actions]]
    BY <1>4, SayTyped DEF IntakeFindsStale, Why
  <2> QED
    BY <1>4, <2>1 DEF IntakeFindsStale, RepairTypeOK, RowsToDo
<1>5. CASE Refuses(a)
  <2>1. cycle' \in Cycles /\ cycle'.stage \in {"off", "retry"}
    BY <1>5, OffTyped DEF Refuses, RepairTypeOK, Cycles, Stages
  <2> QED
    BY <1>5, <2>1 DEF Refuses, RepairTypeOK, RowsToDo, AtRows
<1> QED
  BY <1>1, <1>2, <1>3, <1>4, <1>5

LEMMA ClaimsShape == ASSUME Shape, Activate \/ Claims PROVE RecoveryShape'
<1> USE DEF Shape, RecoveryShape, tables
<1>1. CASE Activate
  <2>1. recovery' \in [Actions -> RecoveryStates]
    BY <1>1, Named DEF Activate, RepairTypeOK
  <2> QED
    BY <1>1, <2>1 DEF Activate, RepairTypeOK, RowsToDo
<1>2. CASE ClaimDependents
  <2>1. recovery' \in [Actions -> RecoveryStates]
    BY <1>2, Named DEF ClaimDependents, RepairTypeOK
  <2> QED
    BY <1>2, <2>1 DEF ClaimDependents, RepairTypeOK, RowsToDo
<1>3. CASE EndClaims
  <2>1. cycle' \in Cycles /\ cycle'.stage = "reconcile"
    BY <1>3, EnterTyped DEF EndClaims, Stages
  <2> QED
    BY <1>3, <2>1 DEF EndClaims, RepairTypeOK, RowsToDo, AtRows
<1>4. CASE BeginCycle
  <2>1. TokensOf(cycle.intake) \in SUBSET Tokens /\ Claimed \in SUBSET Actions
    BY ActionsAssumption DEF TokensOf, Claimed, RepairTypeOK, Cycles
  <2>2. cycle' \in Cycles /\ cycle'.stage \in {"rows", "retry"}
    BY <1>4, <2>1 DEF BeginCycle, RepairTypeOK, Cycles, Stages
  <2> QED
    BY <1>4, <2>2 DEF BeginCycle, RepairTypeOK, RowsToDo, AtRows
<1> QED
  BY <1>1, <1>2, <1>3, <1>4 DEF Claims

\* Where a row's step leaves the head.
LEMMA RowsGo ==
  ASSUME Shape, Rows
  PROVE  /\ cycle' \in Cycles
         /\ cycle'.intake = cycle.intake
         /\ RowsToDo'
<1> USE DEF Shape
<1>1. CASE SkipRow \/ WaitRow
  <2>1. Row \in Actions
    BY <1>1, RowTyped DEF SkipRow, WaitRow, AtRow
  <2>2. PICK T \in SUBSET Tokens : NextRow(T)
    BY <1>1, <2>1, ActionsAssumption DEF SkipRow, WaitRow, Hold
  <2> QED
    BY <2>2, NextRowTyped DEF RowsToDo, AtRows
<1>2. CASE SyncRow
  <2>1. Row \in Actions /\ cycle.todo # {}
    BY <1>2, RowTyped DEF SyncRow, AtRow
  <2>2. Hold \/ NextRow({}) \/ Enter("judge")
    BY <1>2 DEF SyncRow
  <2>3. CASE Hold \/ NextRow({})
    BY <2>1, <2>3, HoldTyped, NextRowTyped DEF RowsToDo, AtRows
  <2>4. CASE Enter("judge")
    BY <2>1, <2>4, EnterTyped DEF RowsToDo, Stages
  <2> QED
    BY <2>2, <2>3, <2>4
<1>3. CASE FailStaleRow
  BY <1>3 DEF FailStaleRow, RepairTypeOK, RowsToDo
<1>4. CASE BlockStaleRow \/ MarkClosed \/ LeaveSmall \/ \E a \in Actions : AwaitPrice(a)
  <2>1. Hold /\ Row \in Actions
    BY <1>4, RowAt DEF BlockStaleRow, MarkClosed, LeaveSmall, AwaitPrice, Priced, Resolvable,
         Effective, Judged, Stage, AtRows
  <2> QED
    BY <2>1, HoldTyped DEF RowsToDo, AtRows
<1>5. CASE RowRaises \/ EndCycle \/ \E a \in Actions : ResultRaised(a)
  <2>1. Enter("retry")
    BY <1>5 DEF RowRaises, EndCycle, ResultRaised
  <2> QED
    BY <2>1, EnterTyped DEF RowsToDo, AtRows, Stages
<1>6. CASE \/ CloseBelowMinimum \/ ExecuteFrozen
           \/ \E a \in Actions : \/ ExecuteNothing(a) \/ CloseOfficially(a)
                                 \/ MarkBelowMinimum(a) \/ FreezeBook(a)
  <2>1. \E s \in AtRows : Enter(s)
    BY <1>6 DEF CloseBelowMinimum, ExecuteFrozen, ExecuteNothing, CloseOfficially, Reopen,
         MarkBelowMinimum, FreezeBook, AtRows
  <2>2. cycle.todo # {}
    BY <1>6, RowAt DEF CloseBelowMinimum, ExecuteFrozen, ExecuteNothing, CloseOfficially,
         MarkBelowMinimum, FreezeBook, Priced, Resolvable, Effective, Judged, Stage, AtRows
  <2> QED
    BY <2>1, <2>2, EnterTyped DEF RowsToDo, Stages, AtRows
<1>7. ASSUME NEW a \in Actions, RecordResult(a)
      PROVE  cycle' \in Cycles /\ cycle'.intake = cycle.intake /\ RowsToDo'
  <2>1. TokenOf[a] \in Tokens
    BY ActionsAssumption
  <2>2. cycle' \in Cycles /\ cycle'.intake = cycle.intake /\ cycle'.stage = "rows"
    BY <1>7, <2>1 DEF RecordResult, RepairTypeOK, Cycles, Stages
  <2> QED
    BY <2>2 DEF RowsToDo, AtRows
<1> QED
  BY <1>1, <1>2, <1>3, <1>4, <1>5, <1>6, <1>7 DEF Rows

LEMMA RowsShape == ASSUME Shape, Rows PROVE RecoveryShape'
<1> USE DEF Shape, tables
<1>1. recovery' \in [Actions -> RecoveryStates]
  <2>1. CASE SyncRow
    <3>1. Row \in Actions
      BY <2>1, RowTyped DEF SyncRow, AtRow
    <3> QED
      BY <2>1, <3>1, SyncedTyped, MarkTyped DEF SyncRow, RepairTypeOK
  <2>2. CASE BlockStaleRow \/ MarkClosed
    <3>1. Row \in Actions
      BY <2>2, RowAt DEF BlockStaleRow, MarkClosed, Stage, AtRows
    <3> QED
      BY <2>2, <3>1, Named, MarkTyped DEF BlockStaleRow, MarkClosed
  <2>3. CASE \E a \in Actions : MarkBelowMinimum(a) \/ AwaitPrice(a) \/ FreezeBook(a)
    BY <2>3, Named, MarkTyped DEF MarkBelowMinimum, AwaitPrice, FreezeBook
  <2>4. CASE \E a \in Actions : RecordResult(a)
    BY <2>4, ResultTyped, MarkTyped DEF RecordResult
  <2>5. CASE EndCycle
    BY <2>5, Named DEF EndCycle, RepairTypeOK
  <2>6. CASE UNCHANGED recovery
    BY <2>6 DEF RepairTypeOK
  <2> QED
    BY <2>1, <2>2, <2>3, <2>4, <2>5, <2>6
       DEF Rows, SkipRow, WaitRow, FailStaleRow, RowRaises, CloseBelowMinimum, LeaveSmall,
           ExecuteFrozen, ExecuteNothing, CloseOfficially, Reopen, ResultRaised
<1>2. reason' \in [Actions -> [why : Why, act : Actions]]
  <2>1. CASE FailStaleRow
    <3>1. Row \in Actions
      BY <2>1, RowAt DEF FailStaleRow, Stage, AtRows
    <3> QED
      BY <2>1, <3>1, SayTyped DEF FailStaleRow, Why
  <2>2. CASE UNCHANGED reason
    BY <2>2 DEF RepairTypeOK
  <2> QED
    BY <2>1, <2>2
       DEF Rows, SkipRow, WaitRow, SyncRow, BlockStaleRow, RowRaises, MarkClosed,
           CloseBelowMinimum, LeaveSmall, ExecuteFrozen, ExecuteNothing, CloseOfficially,
           MarkBelowMinimum, AwaitPrice, FreezeBook, Reopen, RecordResult, ResultRaised, EndCycle
<1>3. manifest' \in {"NONE", "ACTIVE", "COMPLETED"} /\ UNCHANGED passed
  BY DEF Rows, SkipRow, WaitRow, SyncRow, FailStaleRow, BlockStaleRow, RowRaises, MarkClosed,
         CloseBelowMinimum, LeaveSmall, ExecuteFrozen, ExecuteNothing, CloseOfficially,
         MarkBelowMinimum, AwaitPrice, FreezeBook, Reopen, RecordResult, ResultRaised, EndCycle,
         RepairTypeOK
<1> QED
  BY <1>1, <1>2, <1>3, RowsGo DEF RecoveryShape, RepairTypeOK

LEMMA OtherShape ==
  ASSUME Shape,
         \/ Retries \/ Reconciliation \/ LoseHead \/ Die
         \/ (\E o \in Orders : Trade(o)) \/ UNCHANGED allVars
  PROVE  RecoveryShape'
<1> USE DEF Shape, RecoveryShape, tables
<1>1. CASE \E a \in Actions : RetryPending(a)
  BY <1>1 DEF RetryPending, RepairTypeOK, RowsToDo
<1>2. CASE EndRetry
  <2>1. cycle' \in Cycles /\ cycle'.stage = "settle"
    BY <1>2, EnterTyped DEF EndRetry, Stages
  <2> QED
    BY <1>2, <2>1 DEF EndRetry, RepairTypeOK, RowsToDo, AtRows
<1>3. CASE EndHead \/ LoseHead \/ Die
  <2>1. cycle' \in Cycles /\ cycle'.stage = "off"
    BY <1>3, OffTyped DEF EndHead, LoseHead, Die
  <2>2. UNCHANGED <<tables, reason, passed>>
    BY <1>3 DEF EndHead, LoseHead, Die
  <2> QED
    BY <2>1, <2>2 DEF RepairTypeOK, RowsToDo, AtRows
<1>4. CASE Reconciliation \/ (\E o \in Orders : Trade(o)) \/ UNCHANGED allVars
  BY <1>4 DEF Reconciliation, ReconcileAll, ReconcileSent, CancelBeforeHead, Trade, allVars,
       RepairTypeOK, RowsToDo
<1> QED
  BY <1>1, <1>2, <1>3, <1>4 DEF Retries

LEMMA InitShape == RepairInit => Shape
<1> SUFFICES ASSUME RepairInit PROVE Shape
  OBVIOUS
<1>1. Typed
  BY ActionsAssumption, BoundsAssumption, EnvironmentAssumption
     DEF RepairInit, Typed, TypeOK, LatestStates, TargetStates, TargetRows, WithinTarget,
         AttemptStates, AttemptRows, Responses, Places, VenueOrders, TerminalStates
<1>2. RepairTypeOK
  BY OffTyped, Named DEF RepairInit, RepairTypeOK, Why
<1>3. RowsToDo
  BY OffTyped DEF RepairInit, RowsToDo, AtRows
<1> QED
  BY <1>1, <1>2, <1>3 DEF Shape

LEMMA StepShape == ASSUME Shape, [RepairNext]_allVars PROVE Shape'
<1>1. Typed'
  BY StepOfRows, StoreSteps, StepTyped, RecoveryStepTyped DEF Shape
<1>2. RecoveryShape'
  BY IntakesShape, ExecutorShape, ClaimsShape, RowsShape, OtherShape DEF RepairNext
<1> QED
  BY <1>1, <1>2 DEF Shape, RecoveryShape

\* The recovery's tables keep to their schema, and a head is never at a row
\* when it has none left, whatever the executor wrote before.
THEOREM RecoveryTypeCorrect == RepairSpec => []RepairTypeOK
<1>1. RepairInit => Shape
  BY InitShape
<1>2. Shape /\ [RepairNext]_allVars => Shape'
  BY StepShape
<1>3. Shape => RepairTypeOK
  BY DEF Shape
<1> QED
  BY <1>1, <1>2, <1>3, PTL DEF RepairSpec

-----------------------------------------------------------------------------
\* The recovery's own steps on the rows leave submissions and reservations be.

LEMMA RecoveryStepQuiet ==
  ASSUME Shape, RecoveryStep
  PROVE  /\ UNCHANGED <<attempt, reserved>>
         /\ \/ UNCHANGED exec
            \/ exec.pc = "idle" /\ exec'.pc \in {"entry", "append"}
<1>1. ASSUME NEW B \in SUBSET Actions, BeginHead(B)
      PROVE  UNCHANGED <<attempt, reserved, exec>>
  BY <1>1 DEF BeginHead
<1>2. ASSUME FailStaleRow PROVE UNCHANGED <<attempt, reserved, exec>>
  <2>1. Row \in Actions
    BY <1>2, RowAt DEF FailStaleRow, Stage, AtRows
  <2>2. reserved \in [Actions -> Nat]
    BY DEF Shape, Typed, TypeOK
  <2>3. reserved[Row] = 0
    BY <1>2, <2>1, <2>2 DEF FailStaleRow, SideEffect
  <2>4. reserved' = [reserved EXCEPT ![Row] = 0]
    BY <1>2 DEF FailStaleRow, Release
  <2> QED
    BY <1>2, <2>1, <2>2, <2>3, <2>4 DEF FailStaleRow
<1>3. ASSUME CloseBelowMinimum \/ (\E a \in Actions : CloseOfficially(a))
      PROVE  UNCHANGED <<attempt, reserved>> /\ exec.pc = "idle" /\ exec'.pc = "append"
  BY <1>3 DEF CloseBelowMinimum, CloseOfficially, Handler, Resolvable, Effective, Judged,
       Stage, At
<1>4. ASSUME ExecuteFrozen \/ (\E a \in Actions : ExecuteNothing(a))
      PROVE  UNCHANGED <<attempt, reserved>> /\ exec.pc = "idle" /\ exec'.pc = "entry"
  BY <1>4 DEF ExecuteFrozen, ExecuteNothing, Reopen, Begun, Handler, Judged, Stage, At
<1> QED
  BY <1>1, <1>2, <1>3, <1>4 DEF RecoveryStep

Sound == Shape /\ ReservationBacksAttempt /\ Working

LEMMA InitSound == RepairInit => Sound
<1> SUFFICES ASSUME RepairInit PROVE Sound
  OBVIOUS
<1>1. ReservationBacksAttempt
  <2>1. \A o \in Orders : attempt[o].state \notin UnresolvedStates
    BY DEF RepairInit, UnresolvedStates
  <2>2. \A a \in Actions : reserved[a] = 0
    BY DEF RepairInit
  <2> QED
    BY <2>1, <2>2 DEF ReservationBacksAttempt, Orders
<1>2. Working
  BY DEF RepairInit, Working, Idle
<1> QED
  BY <1>1, <1>2, InitShape DEF Sound

LEMMA StepSound == ASSUME Sound, [RepairNext]_allVars PROVE Sound'
<1>1. Shape'
  BY StepShape DEF Sound
<1>2. CASE [Next]_vars
  BY <1>1, <1>2, StepBacked DEF Sound, Shape, Backed
<1>3. CASE RecoveryStep
  <2>1. UNCHANGED <<attempt, reserved>>
    BY <1>3, RecoveryStepQuiet DEF Sound
  <2>2. Working'
    BY <1>3, RecoveryStepQuiet DEF Sound, Working
  <2> QED
    BY <1>1, <2>1, <2>2, NothingSeen DEF Sound
<1> QED
  BY <1>2, <1>3, StepOfRows, StoreSteps DEF Sound, Shape

-----------------------------------------------------------------------------
\* What the recovery reports as settled stays what the ledger says.

\* The outcomes of the executor that the recovery copies into its own table.
Ended == {"FILLED", "PARTIAL", "SKIPPED", "SUPERSEDED_UNFILLED"}

\* Steps of the executor behind the scope.
Behind == {"planned", "prepare", "post", "attempt", "set"}

\* What could be executed again, and what is in flight, has passed the scope.
InScope ==
  /\ \A a \in Actions : target[a].state \in RetryableStates \/ Unresolved(a) => scoped[a]
  /\ exec.pc \in Behind => scoped[exec.act]

\* An outcome has no retryable target, nor has one that is about to be appended.
EndedRows ==
  /\ \A a \in Actions : latest[a] \in Ended => target[a].state \notin RetryableStates
  /\ exec.pc = "append" /\ exec.st \in Ended
       => target[exec.act].state \notin RetryableStates

HandlesOpen == ~At("idle") => latest[exec.act] \notin Ended

\* Nothing runs while a row is judged, and the row is open.
JudgedOpen ==
  cycle.stage \in {"judge", "minimum", "frozen"} => At("idle") /\ latest[Row] \notin Ended

Kept == Sound /\ InScope /\ EndedRows /\ HandlesOpen

LEMMA EndedStates ==
  /\ Ended \subseteq HandledStates /\ Ended \subseteq TerminalStates
  /\ Ended \cap RetryableStates = {} /\ Ended \cap UnresolvedStates = {}
  /\ RetryableStates \cap TerminalStates = {}
  /\ RetryableStates \cap UnresolvedStates = {}
BY DEF Ended, HandledStates, TerminalStates, RetryableStates, LiquidityStates,
       UnresolvedStates

\* The rows of an action after a step of a handler on it.
Wrote(a) ==
  /\ scoped[a] => scoped'[a]
  /\ target'[a].state \in RetryableStates \/ Unresolved(a)' => scoped'[a]
  /\ latest'[a] \in Ended => target'[a].state \notin RetryableStates

\* The handler after its step.
Leaves(a) ==
  exec'.pc # "idle" =>
    /\ exec'.act = a
    /\ latest'[a] \notin Ended
    /\ exec'.pc \in Behind => scoped'[a]
    /\ exec'.pc = "append" /\ exec'.st \in Ended => target'[a].state \notin RetryableStates

LEMMA Acting ==
  ASSUME Typed, NEW a \in Actions, HandlerStep(a), ~ProcessSourceAction(a), ~CloseRetry(a)
  PROVE  exec.pc # "idle" /\ exec \in Handlers /\ exec.act = a
<1>1. \E pc \in PCs : Busy(pc, a)
  BY DEF HandlerStep, Plan, Submit, ScopeRefuses, ScopeAccepts, LateUnfillable,
         RecoverSubmitStarted, DeferToEarlierAction, SupersedeEarlierOpposites,
         CloseUnsellable, Refuse, FailStaleTarget, PlanFails, PlanFirst, PlanRemainder,
         RecordPlan, PreparationFails, BeginSubmissionAttempt, PostAnswered,
         PostUnanswered, PostRejected, RecordAttempt, RecordTarget, RecordTransition,
         RecordCancellation, Plannable, Sizable, InOrder, Executing, PCs
<1>2. PICK pc \in PCs : Busy(pc, a)
  BY <1>1
<1> QED
  BY <1>2, InStep, Narrower DEF PCs

LEMMA ActingOnOpen ==
  ASSUME Kept, NEW a \in Actions, HandlerStep(a)
  PROVE  latest[a] \notin Ended
<1>1. CASE ProcessSourceAction(a)
  BY <1>1, EndedStates DEF ProcessSourceAction
<1>2. CASE CloseRetry(a)
  BY <1>2, EndedStates DEF CloseRetry, LiquidityEvidence, RetryableStates
<1>3. CASE ~ProcessSourceAction(a) /\ ~CloseRetry(a)
  BY <1>3, Acting DEF Kept, Sound, Shape, HandlesOpen, At
<1> QED
  BY <1>1, <1>2, <1>3

\* A handler that leaves the target and the attempts alone, and goes nowhere.
LEMMA StopsWrote ==
  ASSUME Kept, NEW a \in Actions, NEW s \in LatestStates \ Ended, HandlerStep(a),
         latest' = [latest EXCEPT ![a] = s], exec' = Idle,
         UNCHANGED <<scoped, target, attempt>>
  PROVE  Wrote(a) /\ Leaves(a)
<1>1. latest'[a] = s
  BY DEF Kept, Sound, Shape, Typed, TypeOK
<1> QED
  BY <1>1 DEF Wrote, Leaves, Kept, InScope, Unresolved, Idle

\* The row of an action and the handler on it, as the store types them.
LEMMA RowFacts ==
  ASSUME Kept, NEW a \in Actions
  PROVE  /\ latest \in [Actions -> LatestStates] /\ scoped \in [Actions -> BOOLEAN]
         /\ target \in [Actions -> TargetRows] /\ target[a] \in TargetRows
         /\ target[a].state \in RetryableStates \/ Unresolved(a) => scoped[a]
         /\ latest[a] \in Ended => target[a].state \notin RetryableStates
BY DEF Kept, Sound, Shape, Typed, TypeOK, InScope, EndedRows

LEMMA PlanWrote ==
  ASSUME Kept, NEW a \in Actions, Plan(a)
  PROVE  Wrote(a) /\ Leaves(a)
<1>0. HandlerStep(a) /\ latest[a] \notin Ended
  BY ActingOnOpen DEF HandlerStep
<1>1. CASE ProcessSourceAction(a)
  <2>1. exec'.act = a /\ exec'.pc = "entry"
    BY <1>1 DEF ProcessSourceAction, Begun, Handler
  <2> QED
    BY <1>0, <1>1, <2>1, RowFacts
       DEF ProcessSourceAction, rows, Wrote, Leaves, Unresolved, Behind
<1>2. CASE ~ProcessSourceAction(a)
  <2>0. exec \in Handlers /\ exec.act = a /\ exec.pc # "idle"
    BY <1>0, <1>2, Acting DEF Kept, Sound, Shape, HandlerStep, Plan, CloseRetry, At,
           ProcessSourceAction, ScopeRefuses, ScopeAccepts, LateUnfillable,
           RecoverSubmitStarted, DeferToEarlierAction, SupersedeEarlierOpposites,
           CloseUnsellable, Refuse, FailStaleTarget, PlanFails, PlanFirst, PlanRemainder,
           RecordPlan, PreparationFails, Plannable, Sizable, InOrder, Executing, Busy
  <2>1. CASE ScopeRefuses(a)
    <3>1. /\ latest'[a] \in {"PENDING_METADATA", "ERROR_INTERNAL", "SKIPPED"} /\ exec' = Idle
          /\ UNCHANGED <<scoped, target, attempt>>
      BY <2>1, RowFacts DEF ScopeRefuses, Append, Done
    <3>2. ~scoped[a]
      BY <2>1 DEF ScopeRefuses
    <3> QED
      BY <3>1, <3>2, RowFacts DEF Wrote, Leaves, Idle, Unresolved
  <2>2. CASE ScopeAccepts(a)
    <3>1. /\ latest'[a] = "SCOPE_ELIGIBLE" /\ scoped'[a] /\ UNCHANGED <<target, attempt>>
          /\ exec'.act = a /\ exec'.pc \in {"entry", "late"}
      BY <2>2, <2>0, RowFacts DEF ScopeAccepts, Append, Then, Handlers
    <3> QED
      BY <3>1 DEF Wrote, Leaves, Ended
  <2>3. CASE LateUnfillable(a)
    <3>1. /\ UNCHANGED <<latest, scoped, attempt>>
          /\ exec'.act = a /\ exec'.pc = "append" /\ exec'.st = "EXTERNAL_UNFILLABLE"
      BY <2>3, <2>0 DEF LateUnfillable, Then, Handlers
    <3>2. target'[a].state \in {target[a].state, "EXTERNAL_UNFILLABLE"}
      BY <2>3, RowFacts DEF LateUnfillable, EnsureTarget
    <3>3. "EXTERNAL_UNFILLABLE" \notin RetryableStates \cup Ended
      BY DEF RetryableStates, LiquidityStates, Ended
    <3> QED
      BY <1>0, <3>1, <3>2, <3>3, RowFacts DEF Wrote, Leaves, Unresolved, Behind
  <2>4. CASE RecoverSubmitStarted(a)
    <3>1. "UNKNOWN_SUBMISSION" \in LatestStates \ Ended
      BY DEF LatestStates, UnresolvedStates, Ended
    <3> QED
      BY <1>0, <2>4, <3>1, StopsWrote DEF RecoverSubmitStarted, Append, Done
  <2>5. CASE DeferToEarlierAction(a)
    <3>1. "PENDING_CAUSAL_ORDER" \in LatestStates \ Ended
      BY DEF LatestStates, Ended
    <3> QED
      BY <1>0, <2>5, <3>1, StopsWrote DEF DeferToEarlierAction, Append, Done
  <2>6. CASE SupersedeEarlierOpposites(a)
    <3>1. a \notin EarlierOpposites(a)
      BY DEF EarlierOpposites
    <3>2. /\ latest'[a] = latest[a] /\ target'[a] = target[a]
          /\ UNCHANGED <<scoped, attempt, exec>>
      BY <2>6, <3>1 DEF SupersedeEarlierOpposites
    <3>3. exec.pc = "entry"
      BY <2>6 DEF SupersedeEarlierOpposites, Executing, Busy, At
    <3> QED
      BY <1>0, <2>0, <3>2, <3>3, RowFacts DEF Wrote, Leaves, Unresolved, Behind
  <2>7. CASE CloseUnsellable(a)
    <3>1. /\ UNCHANGED <<latest, scoped, attempt>> /\ scoped[a]
          /\ exec'.act = a /\ exec'.pc = "set"
      BY <2>7, <2>0 DEF CloseUnsellable, Then, Handlers, InOrder, Executing
    <3> QED
      BY <1>0, <3>1 DEF Wrote, Leaves
  <2>8. CASE Refuse(a)
    <3>1. exec' = Idle /\ UNCHANGED <<latest, scoped, target, attempt>>
      BY <2>8 DEF Refuse, Done, rows
    <3> QED
      BY <1>0, <3>1, RowFacts DEF Wrote, Leaves, Idle, Unresolved
  <2>9. CASE FailStaleTarget(a)
    <3>1. /\ latest'[a] = "ERROR_INTERNAL" /\ target'[a].state = "ERROR_INTERNAL"
          /\ UNCHANGED <<scoped, attempt>> /\ scoped[a] /\ exec' = Idle
      BY <2>9, RowFacts DEF FailStaleTarget, Release, Append, SetTarget, Done, TargetRows,
           Sizable, InOrder, Executing
    <3> QED
      BY <3>1 DEF Wrote, Leaves, Idle, Ended
  <2>10. CASE PlanFails(a)
    <3>1. scoped[a] /\ UNCHANGED <<scoped, attempt, target>>
      BY <2>10 DEF PlanFails, Plannable, Sizable, InOrder, Executing
    <3>2. CASE \E s \in PlanFailures(a) : Append(a, s) /\ Done
      <4>1. latest'[a] \notin Ended /\ exec' = Idle
        BY <3>2, RowFacts DEF PlanFailures, Append, Done, Ended
      <4> QED
        BY <3>1, <4>1 DEF Wrote, Leaves, Idle
    <3>3. CASE LiquidityEvidence(a) /\ Then("append", target[a].state) /\ UNCHANGED latest
      <4>1. exec'.act = a /\ exec'.pc = "append" /\ exec'.st = target[a].state
        BY <2>0, <3>3 DEF Then, Handlers
      <4>2. target[a].state \notin Ended
        BY <3>3, EndedStates DEF LiquidityEvidence, RetryableStates
      <4> QED
        BY <1>0, <3>1, <3>3, <4>1, <4>2 DEF Wrote, Leaves
    <3> QED
      BY <2>10, <3>2, <3>3 DEF PlanFails
  <2>11. CASE PlanFirst(a) \/ PlanRemainder(a)
    <3>1. scoped[a] /\ UNCHANGED <<latest, scoped, attempt>>
      BY <2>11 DEF PlanFirst, PlanRemainder, Plannable, Sizable, InOrder, Executing, rows
    <3>2. exec'.act = a /\ exec'.pc = "planned"
      BY <2>11, <2>0 DEF PlanFirst, PlanRemainder, Handlers
    <3> QED
      BY <1>0, <3>1, <3>2 DEF Wrote, Leaves
  <2>12. CASE RecordPlan(a)
    <3>1. /\ latest'[a] = "PLANNED" /\ UNCHANGED <<scoped, target, attempt>>
          /\ exec'.act = a /\ exec'.pc \in {"prepare", "set"}
      BY <2>12, <2>0, RowFacts DEF RecordPlan, Append, Handlers
    <3>2. scoped[a]
      BY <2>12, <2>0 DEF RecordPlan, Busy, At, Behind, Kept, InScope
    <3> QED
      BY <3>1, <3>2 DEF Wrote, Leaves, Ended
  <2>13. CASE PreparationFails(a)
    <3>1. UNCHANGED <<latest, scoped, target, attempt>> /\ exec'.act = a /\ exec'.pc = "set"
      BY <2>13, <2>0 DEF PreparationFails, Then, Handlers, rows
    <3>2. scoped[a]
      BY <2>13, <2>0 DEF PreparationFails, Busy, At, Behind, Kept, InScope
    <3> QED
      BY <1>0, <3>1, <3>2 DEF Wrote, Leaves
  <2> QED
    BY <1>2, <2>1, <2>2, <2>3, <2>4, <2>5, <2>6, <2>7, <2>8, <2>9, <2>10, <2>11, <2>12,
       <2>13 DEF Plan
<1> QED
  BY <1>1, <1>2

LEMMA SubmitWrote ==
  ASSUME Kept, NEW a \in Actions, Submit(a) \/ RecordCancellation(a) \/ CloseRetry(a)
  PROVE  Wrote(a) /\ Leaves(a)
<1>0. HandlerStep(a) /\ latest[a] \notin Ended
  BY ActingOnOpen DEF HandlerStep
<1>1. CASE CloseRetry(a)
  <2>1. /\ exec'.act = a /\ exec'.pc = "append" /\ UNCHANGED <<latest, scoped, attempt>>
        /\ target'[a].state = Unfillable(a)
    BY <1>1, RowFacts DEF CloseRetry, Handler, SetTarget, TargetRows
  <2>2. target'[a].state \notin RetryableStates
    BY <2>1 DEF Unfillable, RetryableStates, LiquidityStates
  <2> QED
    BY <1>0, <2>1, <2>2, RowFacts DEF Wrote, Leaves, Unresolved, Behind
<1>2. CASE ~CloseRetry(a)
  <2>0. exec \in Handlers /\ exec.act = a /\ exec.pc # "idle"
    <3>1. exec.pc # "idle"
      BY <1>2 DEF Submit, BeginSubmissionAttempt, PostAnswered, PostUnanswered, PostRejected,
           RecordAttempt, RecordTarget, RecordTransition, RecordCancellation, Busy, At
    <3>2. ~ProcessSourceAction(a)
      BY <3>1 DEF ProcessSourceAction, At
    <3> QED
      BY <1>0, <1>2, <3>1, <3>2, Acting DEF Kept, Sound, Shape
  <2>1. exec.pc \in Behind => scoped[a]
    BY <2>0 DEF Kept, InScope
  <2>2. ASSUME NEW n \in Attempts, BeginSubmissionAttempt(a, n)
        PROVE  Wrote(a) /\ Leaves(a)
    <3>1. /\ latest'[a] = "SUBMIT_STARTED" /\ UNCHANGED scoped /\ scoped[a]
          /\ exec'.act = a /\ exec'.pc = "post"
      BY <2>0, <2>1, <2>2, RowFacts
         DEF BeginSubmissionAttempt, Append, Handlers, Busy, At, Behind
    <3> QED
      BY <3>1 DEF Wrote, Leaves, Ended
  <2>3. CASE PostAnswered(a) \/ PostUnanswered(a)
    <3>1. /\ UNCHANGED <<latest, scoped>> /\ scoped[a]
          /\ exec'.act = a /\ exec'.pc = "attempt"
      BY <2>0, <2>1, <2>3 DEF PostAnswered, PostUnanswered, Handlers, Busy, At, Behind, rows
    <3> QED
      BY <1>0, <3>1 DEF Wrote, Leaves
  <2>4. CASE PostRejected(a)
    <3>1. /\ latest'[a] \in {"EXTERNAL_UNFILLABLE", "ERROR_INTERNAL"}
          /\ UNCHANGED scoped /\ scoped[a] /\ exec' = Idle
      BY <2>1, <2>4, RowFacts DEF PostRejected, Release, Append, Done, Busy, At, Behind
    <3> QED
      BY <3>1 DEF Wrote, Leaves, Idle, Ended
  <2>5. CASE RecordAttempt(a)
    <3>1. /\ UNCHANGED <<latest, scoped>> /\ scoped[a]
          /\ exec'.act = a /\ exec'.pc = "set"
      BY <2>0, <2>1, <2>5 DEF RecordAttempt, Then, Handlers, Busy, At, Behind
    <3> QED
      BY <1>0, <3>1 DEF Wrote, Leaves
  <2>6. CASE RecordTarget(a)
    <3>1. /\ UNCHANGED <<latest, scoped>> /\ scoped[a] /\ target'[a].state = exec.st
          /\ exec'.act = a /\ exec'.pc = "append" /\ exec'.st = exec.st
      BY <2>0, <2>1, <2>6, RowFacts
         DEF RecordTarget, SetTarget, Then, Handlers, TargetRows, Busy, At, Behind
    <3> QED
      BY <1>0, <3>1, EndedStates DEF Wrote, Leaves
  <2>7. CASE RecordTransition(a)
    <3>1. /\ latest'[a] = exec.st /\ UNCHANGED <<scoped, target, attempt>> /\ exec' = Idle
      BY <2>7, RowFacts DEF RecordTransition, Append, Done
    <3>2. exec.st \in Ended => target[a].state \notin RetryableStates
      BY <2>0, <2>7 DEF RecordTransition, Busy, At, Kept, EndedRows
    <3> QED
      BY <3>1, <3>2, RowFacts DEF Wrote, Leaves, Idle, Unresolved
  <2>8. CASE RecordCancellation(a)
    <3>1. /\ UNCHANGED <<latest, scoped, target>>
          /\ exec'.act = a /\ exec'.pc = "append" /\ exec'.st = "ACTIVE_CANCEL_COMPLETED"
      BY <2>0, <2>8 DEF RecordCancellation, Then, Handlers
    <3>2. scoped[a]
      <4>1. exec.pc = "cancelled" /\ exec.n \in Attempts
        BY <2>0, <2>8 DEF RecordCancellation, Busy, At, Handlers
      <4>2. Unresolved(a)
        BY <2>0, <4>1 DEF Kept, Sound, Working, Unresolved
      <4> QED
        BY <4>2, RowFacts
    <3> QED
      BY <1>0, <3>1, <3>2 DEF Wrote, Leaves, Ended
  <2> QED
    BY <1>2, <2>2, <2>3, <2>4, <2>5, <2>6, <2>7, <2>8 DEF Submit
<1> QED
  BY <1>1, <1>2

\* An outcome in the ledger is never rewritten.
EndedStay == \A a \in Actions : latest[a] \in Ended => latest'[a] = latest[a]

KeptRows == InScope /\ EndedRows /\ HandlesOpen

LEMMA SameWrote ==
  ASSUME Kept, NEW b \in Actions,
         latest'[b] = latest[b] \/ latest'[b] \notin Ended,
         target'[b] = target[b], scoped'[b] = scoped[b],
         \A n \in Attempts : attempt'[<<b, n>>] = attempt[<<b, n>>]
  PROVE  Wrote(b)
BY RowFacts DEF Wrote, Unresolved

LEMMA OtherWrote ==
  ASSUME Kept, NEW a \in Actions, HandlerStep(a), NEW b \in Actions, b # a
  PROVE  Wrote(b) /\ (latest[b] \in Ended => latest'[b] = latest[b])
<1>1. CASE SupersedeEarlierOpposites(a)
  <2>1. UNCHANGED <<scoped, attempt>>
    BY <1>1 DEF SupersedeEarlierOpposites
  <2>2. CASE b \in EarlierOpposites(a)
    <3>1. latest[b] \notin Ended /\ scoped[b]
      BY <2>2, RowFacts DEF EarlierOpposites
    <3>2. target'[b].state \in {"PARTIAL", "SUPERSEDED_UNFILLED"}
      BY <1>1, <2>2, RowFacts DEF SupersedeEarlierOpposites, TargetRows, Closed
    <3>3. target'[b].state \notin RetryableStates
      BY <3>2 DEF RetryableStates, LiquidityStates
    <3> QED
      BY <2>1, <3>1, <3>3 DEF Wrote
  <2>3. CASE b \notin EarlierOpposites(a)
    <3>1. latest'[b] = latest[b] /\ target'[b] = target[b]
      BY <1>1, <2>3 DEF SupersedeEarlierOpposites
    <3> QED
      BY <2>1, <3>1, SameWrote
  <2> QED
    BY <2>2, <2>3
<1>2. CASE ~SupersedeEarlierOpposites(a)
  <2>1. Same(b)
    BY <1>2, OthersSame DEF Kept, Sound, Shape
  <2> QED
    BY <2>1, SameWrote DEF Same
<1> QED
  BY <1>1, <1>2

LEMMA HandlerKeeps ==
  ASSUME Kept, NEW a \in Actions, HandlerStep(a)
  PROVE  KeptRows' /\ EndedStay
<1>1. Wrote(a) /\ Leaves(a)
  BY PlanWrote, SubmitWrote DEF HandlerStep
<1>2. \A b \in Actions : Wrote(b) /\ (latest[b] \in Ended => latest'[b] = latest[b])
  BY <1>1, ActingOnOpen, OtherWrote
<1>3. InScope'
  <2>1. exec'.pc \in Behind => exec'.pc # "idle"
    BY DEF Behind
  <2> QED
    BY <1>1, <1>2, <2>1 DEF InScope, Wrote, Leaves
<1>4. EndedRows' /\ HandlesOpen'
  BY <1>1, <1>2 DEF EndedRows, HandlesOpen, At, Wrote, Leaves
<1> QED
  BY <1>2, <1>3, <1>4 DEF KeptRows, EndedStay

LEMMA ReconcileKeeps ==
  ASSUME Kept, NEW o \in Orders, Reconcile(o)
  PROVE  KeptRows' /\ EndedStay
<1> DEFINE a == o[1]
<1>0. a \in Actions /\ o[2] \in Attempts /\ o = <<a, o[2]>>
  BY DEF Orders
<1>1. /\ attempt[o].state \in UnresolvedStates /\ latest[a] \notin Ended
      /\ exec.pc = "idle" /\ UNCHANGED <<scoped, exec>>
  BY EndedStates DEF Reconcile, ReconcileFill, ReconcileFinalizedNoFill, ReconcileCanceled,
     ReconcileAbsent, Reconcilable, Listed, Withheld, At
<1>2. scoped[a]
  BY <1>0, <1>1, RowFacts DEF Unresolved
<1>3. latest'[a] \in Ended => target'[a].state \notin RetryableStates
  <2>1. target[a] \in TargetRows /\ latest \in [Actions -> LatestStates]
        /\ target \in [Actions -> TargetRows]
    BY <1>0, RowFacts
  <2>2. CASE ReconcileFill(o)
    <3>1. PICK q \in Readings(o) : target' = [target EXCEPT ![a].filled = @ + q,
                                                            ![a].state = FillState(a, q)]
                                   /\ Append(a, FillState(a, q))
      BY <2>2 DEF ReconcileFill
    <3>2. target'[a].state = FillState(a, q) /\ latest'[a] = FillState(a, q)
      BY <1>0, <2>1, <3>1 DEF Append, TargetRows
    <3> QED
      BY <3>2, EndedStates
  <2>3. CASE ReconcileFinalizedNoFill(o) \/ ReconcileCanceled(o)
    <3>1. latest'[a] \notin Ended
      BY <1>0, <2>1, <2>3
         DEF ReconcileFinalizedNoFill, ReconcileCanceled, Release, Append, Ended
    <3> QED
      BY <3>1
  <2>4. CASE ReconcileAbsent(o)
    <3>1. latest'[a] = "UNKNOWN_SUBMISSION"
      BY <1>0, <2>1, <2>4 DEF ReconcileAbsent, Append
    <3> QED
      BY <3>1 DEF Ended
  <2> QED
    BY <2>2, <2>3, <2>4 DEF Reconcile
<1>4. \A b \in Actions : b # a => Wrote(b) /\ latest'[b] = latest[b]
  <2> SUFFICES ASSUME NEW b \in Actions, b # a PROVE Wrote(b) /\ latest'[b] = latest[b]
    OBVIOUS
  <2>1. Same(b)
    BY ReconcileSame DEF Kept, Sound, Shape
  <2> QED
    BY <2>1, SameWrote DEF Same
<1>5. Wrote(a)
  BY <1>1, <1>2, <1>3 DEF Wrote
<1>6. InScope' /\ EndedRows' /\ HandlesOpen'
  <2>1. exec'.pc = "idle"
    BY <1>1
  <2> QED
    BY <1>0, <1>4, <1>5, <2>1 DEF InScope, EndedRows, HandlesOpen, At, Wrote, Behind
<1> QED
  BY <1>1, <1>4, <1>6 DEF KeptRows, EndedStay

LEMMA NextKeeps ==
  ASSUME Kept, [Next]_vars
  PROVE  KeptRows' /\ EndedStay
<1> USE DEF Kept, InScope, EndedRows, HandlesOpen, KeptRows, EndedStay
<1>1. CASE Intake
  <2>1. UNCHANGED <<scoped, target, attempt, exec>> /\ exec.pc = "idle"
    BY <1>1 DEF Intake, Observe, RecordGap, At
  <2>2. \A a \in Actions : latest'[a] = latest[a] \/ (latest[a] = "NONE" /\ latest'[a] \notin Ended)
    <3>1. latest \in [Actions -> LatestStates]
      BY DEF Sound, Shape, Typed, TypeOK
    <3> QED
      BY <1>1, <3>1 DEF Intake, Observe, RecordGap, Ended
  <2>3. \A a \in Actions : Unresolved(a)' <=> Unresolved(a)
    BY <2>1 DEF Unresolved
  <2>4. "NONE" \notin Ended
    BY DEF Ended
  <2> QED
    BY <2>1, <2>2, <2>3, <2>4 DEF At
<1>2. CASE \E a \in Actions : HandlerStep(a)
  BY <1>2, HandlerKeeps
<1>3. CASE \E o \in Orders : Reconcile(o)
  BY <1>3, ReconcileKeeps
<1>4. ASSUME NEW o \in Orders, CancelDue(o) PROVE KeptRows' /\ EndedStay
  <2>1. UNCHANGED <<latest, scoped, target, attempt>>
    BY <1>4 DEF CancelDue, rows
  <2>2. exec'.pc = "cancelled" /\ exec'.act = o[1] /\ latest[o[1]] \notin Ended
    BY <1>4, EndedStates DEF CancelDue, Handler, Listed, Withheld
  <2> QED
    BY <2>1, <2>2 DEF Unresolved, Behind, At
<1>5. CASE Crash
  <2>1. UNCHANGED <<latest, scoped, target, attempt>> /\ exec'.pc = "idle"
    BY <1>5 DEF Crash, Done, Idle, rows
  <2> QED
    BY <2>1 DEF Unresolved, Behind, At
<1>6. CASE Venue \/ UNCHANGED vars
  <2>1. UNCHANGED <<latest, scoped, target, attempt, exec>>
    BY <1>6 DEF Venue, Match, Withdraw, Arrive, Finalize, vars, rows
  <2> QED
    BY <2>1 DEF Unresolved, At
<1> QED
  BY <1>1, <1>2, <1>3, <1>4, <1>5, <1>6 DEF Next, Maintain, HandlerStep

\* A step on one open row by the recovery.
LEMMA RowKeeps ==
  ASSUME Kept, NEW a \in Actions, latest[a] \notin Ended, Wrote(a), exec.pc = "idle",
         Leaves(a),
         \A b \in Actions : b # a => Same(b)
  PROVE  KeptRows' /\ EndedStay
<1>1. \A b \in Actions : Wrote(b) /\ (latest[b] \in Ended => latest'[b] = latest[b])
  BY SameWrote DEF Same
<1>2. InScope'
  <2>1. exec'.pc \in Behind => exec'.pc # "idle"
    BY DEF Behind
  <2> QED
    BY <1>1, <2>1 DEF InScope, Wrote, Leaves
<1>3. EndedRows' /\ HandlesOpen'
  BY <1>1 DEF EndedRows, HandlesOpen, At, Wrote, Leaves
<1> QED
  BY <1>1, <1>2, <1>3 DEF KeptRows, EndedStay

LEMMA ReopenKeeps ==
  ASSUME Kept, NEW a \in Actions, NEW s, Reopen(a, s), latest[a] \notin Ended,
         exec.pc = "idle"
  PROVE  KeptRows' /\ EndedStay
<1>1. /\ latest'[a] = "OBSERVED" /\ \A b \in Actions : b # a => latest'[b] = latest[b]
      /\ UNCHANGED <<scoped, planned, target, attempt>>
      /\ exec'.pc = "entry" /\ exec'.act = a
  BY RowFacts DEF Reopen, Append, Begun, Handler
<1>2. latest'[a] \notin Ended
  BY <1>1 DEF Ended
<1>3. \A b \in Actions : b # a => Same(b)
  BY <1>1 DEF Same
<1>4. Wrote(a)
  BY <1>1, <1>2, SameWrote
<1>5. Leaves(a)
  BY <1>1, <1>2 DEF Leaves, Behind
<1> QED
  BY <1>3, <1>4, <1>5, RowKeeps

LEMMA ClosesKeeps ==
  ASSUME Kept, NEW a \in Actions, NEW s, Closes(a, s), latest[a] \notin Ended,
         exec.pc = "idle", target'[a].state \notin RetryableStates
  PROVE  KeptRows' /\ EndedStay
<1>1. /\ UNCHANGED <<latest, scoped, planned, attempt>>
      /\ \A b \in Actions : b # a => target'[b] = target[b]
      /\ exec'.pc = "append" /\ exec'.act = a
  BY RowFacts DEF Closes, Handler
<1>2. \A b \in Actions : b # a => Same(b)
  BY <1>1 DEF Same
<1>3. Wrote(a)
  BY <1>1, RowFacts DEF Wrote, Unresolved
<1>4. Leaves(a)
  BY <1>1 DEF Leaves, Behind
<1> QED
  BY <1>2, <1>3, <1>4, RowKeeps

LEMMA RecoveryStepKeeps ==
  ASSUME Kept, JudgedOpen, RecoveryStep
  PROVE  KeptRows' /\ EndedStay
<1>1. ASSUME NEW B \in SUBSET Actions, BeginHead(B) PROVE KeptRows' /\ EndedStay
  <2>1. UNCHANGED <<scoped, target, attempt, exec>> /\ exec.pc = "idle"
    BY <1>1 DEF BeginHead, Stage, At
  <2>2. \A a \in Actions : latest'[a] = latest[a] \/ (latest[a] = "NONE" /\ latest'[a] = "OBSERVED")
    BY <1>1, RowFacts DEF BeginHead
  <2>3. \A a \in Actions : Unresolved(a)' <=> Unresolved(a)
    BY <2>1 DEF Unresolved
  <2>4. "NONE" \notin Ended /\ "OBSERVED" \notin Ended
    BY DEF Ended
  <2> QED
    BY <2>1, <2>2, <2>3, <2>4
       DEF At, Kept, InScope, EndedRows, HandlesOpen, KeptRows, EndedStay
<1>2. ASSUME FailStaleRow PROVE KeptRows' /\ EndedStay
  <2>1. PICK a \in Actions : a = Row /\ exec.pc = "idle" /\ latest[a] \notin Ended
    BY <1>2, RowAt DEF FailStaleRow, Stage, AtRows, JudgedOpen, At, Kept, Sound
  <2>2. /\ latest'[a] = "ERROR_INTERNAL" /\ target'[a].state = "ERROR_INTERNAL"
        /\ \A b \in Actions : b # a => latest'[b] = latest[b] /\ target'[b] = target[b]
        /\ UNCHANGED <<scoped, planned, attempt, exec>>
    BY <1>2, <2>1, RowFacts DEF FailStaleRow, Release, Append, SetTarget, TargetRows
  <2>3. \A b \in Actions : b # a => Same(b)
    BY <2>2 DEF Same
  <2>4. Wrote(a) /\ Leaves(a)
    <3>1. "ERROR_INTERNAL" \notin RetryableStates \cup Ended
      BY DEF RetryableStates, LiquidityStates, Ended
    <3> QED
      BY <2>1, <2>2, <3>1, RowFacts DEF Wrote, Leaves, Unresolved
  <2> QED
    BY <2>1, <2>3, <2>4, RowKeeps
<1>3. ASSUME CloseBelowMinimum PROVE KeptRows' /\ EndedStay
  <2>1. /\ Row \in Actions /\ exec.pc = "idle" /\ latest[Row] \notin Ended
        /\ Closes(Row, Unfillable(Row))
    BY <1>3, ClosingCloses DEF CloseBelowMinimum, Stage, JudgedOpen, At, Kept, Sound
  <2>2. target'[Row].state \in {"PARTIAL", "EXTERNAL_UNFILLABLE"}
    BY <1>3, <2>1, RowFacts DEF CloseBelowMinimum, Unfillable, TargetRows
  <2>3. target'[Row].state \notin RetryableStates
    BY <2>2 DEF RetryableStates, LiquidityStates
  <2> QED
    BY <2>1, <2>3, ClosesKeeps
<1>4. ASSUME NEW a \in Actions, CloseOfficially(a) PROVE KeptRows' /\ EndedStay
  <2>1. /\ exec.pc = "idle" /\ latest[a] \notin Ended /\ Closes(a, "EXTERNAL_UNFILLABLE")
    BY <1>4, ClosingCloses DEF CloseOfficially, Resolvable, Effective, Judged, Stage,
         JudgedOpen, At, Kept, Sound
  <2>2. target'[a].state = "EXTERNAL_UNFILLABLE"
    BY <1>4, RowFacts DEF CloseOfficially, TargetRows
  <2>3. target'[a].state \notin RetryableStates
    BY <2>2 DEF RetryableStates, LiquidityStates
  <2> QED
    BY <2>1, <2>3, ClosesKeeps
<1>5. ASSUME ExecuteFrozen PROVE KeptRows' /\ EndedStay
  <2>1. /\ Row \in Actions /\ exec.pc = "idle" /\ latest[Row] \notin Ended
    BY <1>5, RowAt DEF ExecuteFrozen, Stage, AtRows, JudgedOpen, At, Kept, Sound
  <2> QED
    BY <1>5, <2>1, ReopenKeeps DEF ExecuteFrozen
<1>6. ASSUME NEW a \in Actions, ExecuteNothing(a) PROVE KeptRows' /\ EndedStay
  <2>1. exec.pc = "idle" /\ latest[a] \notin Ended
    BY <1>6 DEF ExecuteNothing, Judged, Stage, JudgedOpen, At
  <2> QED
    BY <1>6, <2>1, ReopenKeeps DEF ExecuteNothing
<1> QED
  BY <1>1, <1>2, <1>3, <1>4, <1>5, <1>6 DEF RecoveryStep

LEMMA StepKeeps ==
  ASSUME Kept, JudgedOpen, [RepairNext]_allVars
  PROVE  Kept' /\ EndedStay
<1>1. Sound'
  BY StepSound DEF Kept
<1>2. KeptRows' /\ EndedStay
  BY StepOfRows, StoreSteps, NextKeeps, RecoveryStepKeeps DEF Kept, Sound, Shape
<1> QED
  BY <1>1, <1>2 DEF Kept, KeptRows

JudgedStages == {"judge", "minimum", "frozen"}

\* The steps that keep or bring a head to a judged row.
LEMMA JudgedAfter ==
  ASSUME Kept, JudgedOpen, [RepairNext]_allVars, cycle'.stage \in JudgedStages
  PROVE  \/ SyncRow /\ cycle'.todo = cycle.todo /\ UNCHANGED vars
         \/ FailStaleRow
         \/ /\ cycle.stage \in JudgedStages
            /\ cycle'.todo = cycle.todo
            /\ UNCHANGED <<latest, exec>>
<1> USE DEF Kept, Sound, Shape
<1>1. CASE Activate \/ (\E o \in Orders : Trade(o)) \/ UNCHANGED allVars
  BY <1>1 DEF Activate, Trade, Match, Withdraw, Arrive, Finalize, vars, rows, allVars
<1>2. CASE Executor
  <2>1. PICK a \in Actions :
          Execute(a) \/ Defer(a) \/ IntakeFindsStale(a) \/ Refuses(a)
    BY <1>2 DEF Executor
  <2>2. exec.pc # "idle"
    <3>1. \E pc \in PCs : Busy(pc, a)
      BY <2>1 DEF Execute, Defer, IntakeFindsStale, Refuses, Submit, ScopeRefuses,
         ScopeAccepts, LateUnfillable, RecoverSubmitStarted, DeferToEarlierAction,
         SupersedeEarlierOpposites, CloseUnsellable, Refuse, FailStaleTarget, PlanFails,
         PlanFirst, PlanRemainder, RecordPlan, PreparationFails, BeginSubmissionAttempt,
         PostAnswered, PostUnanswered, PostRejected, RecordAttempt, RecordTarget,
         RecordTransition, RecordCancellation, Plannable, Sizable, InOrder, Executing, PCs
    <3> QED
      BY <3>1 DEF Busy, At, PCs
  <2>3. cycle' = cycle \/ cycle'.stage \in {"off", "retry"}
    BY <2>1, OffTyped DEF Execute, Defer, IntakeFindsStale, Refuses, RepairTypeOK, Cycles
  <2> QED
    BY <2>2, <2>3 DEF JudgedOpen, JudgedStages, At
<1>3. CASE Intakes \/ Claims \/ Retries \/ Reconciliation
  <2>1. cycle'.stage \notin JudgedStages
    <3>1. CASE \E B \in SUBSET Actions : BeginHead(B)
      BY <3>1 DEF BeginHead, Head, JudgedStages
    <3>2. CASE IntakeNext
      BY <3>2 DEF IntakeNext, Stage, JudgedStages, RepairTypeOK, Cycles
    <3>3. CASE EndIntake \/ EndClaims \/ EndRetry
      BY <3>3, EnterTyped DEF EndIntake, EndClaims, EndRetry, JudgedStages, Stages
    <3>4. CASE BeginCycle
      BY <3>4 DEF BeginCycle, JudgedStages, RepairTypeOK, Cycles
    <3>5. CASE ClaimDependents \/ (\E a \in Actions : RetryPending(a)) \/ Reconciliation
      BY <3>5 DEF ClaimDependents, RetryPending, Reconciliation, ReconcileAll, ReconcileSent,
           CancelBeforeHead, Stage, JudgedStages
    <3>6. CASE EndHead
      BY <3>6, OffTyped DEF EndHead, JudgedStages
    <3> QED
      BY <1>3, <3>1, <3>2, <3>3, <3>4, <3>5, <3>6 DEF Intakes, Claims, Retries
  <2> QED
    BY <2>1
<1>4. CASE Rows
  <2>1. CASE SkipRow \/ WaitRow \/ BlockStaleRow \/ MarkClosed \/ LeaveSmall
             \/ \E a \in Actions : AwaitPrice(a)
    <3>1. \E T : NextRow(T)
      BY <2>1 DEF SkipRow, WaitRow, BlockStaleRow, MarkClosed, LeaveSmall, AwaitPrice, Hold
    <3> QED
      BY <3>1 DEF NextRow, JudgedStages, RepairTypeOK, Cycles
  <2>2. CASE SyncRow
    <3>1. (\E T : NextRow(T)) \/ Enter("judge")
      BY <2>2 DEF SyncRow, Hold
    <3>2. ASSUME NEW T, NextRow(T) PROVE FALSE
      BY <3>2 DEF NextRow, JudgedStages, RepairTypeOK, Cycles
    <3>3. cycle'.todo = cycle.todo
      BY <3>1, <3>2, EnterTyped DEF Stages
    <3> QED
      BY <2>2, <3>3 DEF SyncRow
  <2>3. CASE RowRaises \/ EndCycle \/ \E a \in Actions : ResultRaised(a)
    BY <2>3, EnterTyped DEF RowRaises, EndCycle, ResultRaised, JudgedStages, Stages
  <2>4. CASE CloseBelowMinimum \/ ExecuteFrozen
             \/ \E a \in Actions : ExecuteNothing(a) \/ CloseOfficially(a)
    <3>1. Enter("small") \/ Enter("run") \/ Enter("covered") \/ Enter("closed")
      BY <2>4 DEF CloseBelowMinimum, ExecuteFrozen, ExecuteNothing, CloseOfficially, Reopen
    <3> QED
      BY <3>1, EnterTyped DEF JudgedStages, Stages
  <2>5. CASE \E a \in Actions : MarkBelowMinimum(a) \/ FreezeBook(a)
    <3>1. Enter("minimum") \/ Enter("frozen")
      BY <2>5 DEF MarkBelowMinimum, FreezeBook
    <3>2. cycle'.todo = cycle.todo
      BY <3>1, EnterTyped DEF Stages
    <3> QED
      BY <2>5, <3>2 DEF MarkBelowMinimum, FreezeBook, Priced, Resolvable, Effective, Judged,
           Stage, JudgedStages, vars, rows
  <2>6. CASE \E a \in Actions : RecordResult(a)
    BY <2>6 DEF RecordResult, JudgedStages, RepairTypeOK, Cycles
  <2> QED
    BY <1>4, <2>1, <2>2, <2>3, <2>4, <2>5, <2>6 DEF Rows
<1>5. CASE LoseHead \/ Die
  BY <1>5, OffTyped DEF LoseHead, Die, JudgedStages
<1> QED
  BY <1>1, <1>2, <1>3, <1>4, <1>5 DEF RepairNext

\* What the executor's outcomes are called in the recovery's table.
LEMMA Words ==
  /\ DOMAIN SyncedStatus =
       {"FILLED", "PARTIAL", "SKIPPED", "SUPERSEDED_UNFILLED", "EXTERNAL_UNFILLABLE",
        "SUBMITTED_UNRECONCILED", "UNKNOWN_SUBMISSION", "PARTIAL_PENDING",
        "PENDING_LIQUIDITY", "PENDING_EXTERNAL_RETRY"}
  /\ \A l \in DOMAIN SyncedStatus :
       /\ SyncedStatus[l] = "FILLED" => l = "FILLED"
       /\ SyncedStatus[l] = "PARTIAL_TERMINAL_PREFIX_PRESERVED" => l = "PARTIAL"
       /\ SyncedStatus[l] = "NO_ORDER_COVERED_BY_CUMULATIVE_SURPLUS" => l = "SKIPPED"
       /\ SyncedStatus[l] = "SUPERSEDED_BY_LATER_SOURCE_ACTION" => l = "SUPERSEDED_UNFILLED"
       /\ l \in Ended => SyncedStatus[l] \in Settled
       /\ SyncedStatus[l] \in Settled => l \in TerminalStates
       /\ SyncedStatus[l] # "PARTIAL"
<1>1. DOMAIN SyncedStatus =
       {"FILLED", "PARTIAL", "SKIPPED", "SUPERSEDED_UNFILLED", "EXTERNAL_UNFILLABLE",
        "SUBMITTED_UNRECONCILED", "UNKNOWN_SUBMISSION", "PARTIAL_PENDING",
        "PENDING_LIQUIDITY", "PENDING_EXTERNAL_RETRY"}
  BY DEF SyncedStatus
<1>2. /\ SyncedStatus["FILLED"] = "FILLED"
      /\ SyncedStatus["PARTIAL"] = "PARTIAL_TERMINAL_PREFIX_PRESERVED"
      /\ SyncedStatus["SKIPPED"] = "NO_ORDER_COVERED_BY_CUMULATIVE_SURPLUS"
      /\ SyncedStatus["SUPERSEDED_UNFILLED"] = "SUPERSEDED_BY_LATER_SOURCE_ACTION"
      /\ SyncedStatus["EXTERNAL_UNFILLABLE"] = "EXTERNAL_UNFILLABLE"
      /\ SyncedStatus["SUBMITTED_UNRECONCILED"] = "SUBMITTED_UNRECONCILED"
      /\ SyncedStatus["UNKNOWN_SUBMISSION"] = "UNKNOWN_SUBMISSION"
      /\ SyncedStatus["PARTIAL_PENDING"] = "PARTIAL_PENDING"
      /\ SyncedStatus["PENDING_LIQUIDITY"] = "PENDING_EXTERNAL_LIQUIDITY"
      /\ SyncedStatus["PENDING_EXTERNAL_RETRY"] = "PENDING_EXTERNAL_LIQUIDITY"
  BY DEF SyncedStatus
<1> QED
  BY <1>1, <1>2 DEF Ended, Settled, TerminalStates

LEMMA StepJudgedOpen ==
  ASSUME Kept, JudgedOpen, [RepairNext]_allVars
  PROVE  JudgedOpen'
<1> SUFFICES ASSUME cycle'.stage \in JudgedStages
             PROVE  At("idle")' /\ latest'[Row'] \notin Ended
  BY DEF JudgedOpen, JudgedStages
<1>1. CASE SyncRow /\ cycle'.todo = cycle.todo /\ UNCHANGED vars
  <2>1. Row' = Row /\ Row \in Actions
    BY <1>1, RowTyped DEF Row, SyncRow, AtRow, Kept, Sound, Shape
  <2>2. At("idle")' /\ latest' = latest
    BY <1>1 DEF SyncRow, AtRow, Stage, At, vars, rows
  <2>3. latest[Row] \notin Ended
    <3>1. Synced(Row) \notin Settled \cup {Uncertain}
      <4>1. CASE cycle'.stage = "rows"
        BY <4>1 DEF JudgedStages
      <4>2. CASE cycle'.stage # "rows"
        <5>1. ASSUME NEW T, NextRow(T) PROVE FALSE
          BY <4>2, <5>1 DEF NextRow, Kept, Sound, Shape, RepairTypeOK, Cycles
        <5> QED
          BY <1>1, <5>1 DEF SyncRow, Hold
      <4> QED
        BY <4>1, <4>2
    <3> SUFFICES ASSUME latest[Row] \in Ended PROVE FALSE
      OBVIOUS
    <3>2. latest[Row] \in DOMAIN SyncedStatus
      BY Words DEF Ended
    <3>3. SyncedStatus[latest[Row]] \in Settled
      BY <3>2, Words
    <3> QED
      BY <3>1, <3>2, <3>3 DEF Synced
  <2> QED
    BY <2>1, <2>2, <2>3
<1>2. CASE FailStaleRow
  <2>1. Row \in Actions /\ exec.pc = "idle" /\ cycle' = cycle /\ exec' = exec
    BY <1>2, RowAt DEF FailStaleRow, Stage, AtRows, At, Kept, Sound
  <2>2. Row' = Row
    BY <2>1 DEF Row
  <2>3. latest'[Row] = "ERROR_INTERNAL"
    BY <1>2, <2>1, RowFacts DEF FailStaleRow, Release, Append
  <2> QED
    BY <2>1, <2>2, <2>3 DEF Ended, At
<1>3. CASE /\ cycle.stage \in JudgedStages
           /\ cycle'.todo = cycle.todo
           /\ UNCHANGED <<latest, exec>>
  <2>1. Row' = Row
    BY <1>3 DEF Row
  <2> QED
    BY <1>3, <2>1 DEF JudgedOpen, JudgedStages, At
<1> QED
  BY <1>1, <1>2, <1>3, JudgedAfter

\* A recovery state does not contradict a ledger status.
Agrees(r, l) ==
  /\ r = "FILLED" => l = "FILLED"
  /\ r = "PARTIAL_TERMINAL_PREFIX_PRESERVED" => l = "PARTIAL"
  /\ r = "NO_ORDER_COVERED_BY_CUMULATIVE_SURPLUS" => l = "SKIPPED"
  /\ r = "SUPERSEDED_BY_LATER_SOURCE_ACTION" => l = "SUPERSEDED_UNFILLED"
  /\ r = "PARTIAL" => l = "PARTIAL"

AllAgree == \A a \in Actions : Agrees(recovery[a], latest[a])

LEMMA SyncedAgrees ==
  ASSUME Typed, NEW a \in Actions
  PROVE  Agrees(Synced(a), latest[a])
<1>1. CASE latest[a] \in DOMAIN SyncedStatus
  <2>1. Agrees(SyncedStatus[latest[a]], latest[a])
    BY <1>1, Words DEF Agrees
  <2>2. Agrees(Uncertain, latest[a])
    BY DEF Agrees, Uncertain
  <2> QED
    BY <1>1, <2>1, <2>2 DEF Synced
<1>2. CASE latest[a] \notin DOMAIN SyncedStatus
  BY <1>2 DEF Synced, Agrees, Uncertain
<1> QED
  BY <1>1, <1>2

LEMMA ResultAgrees ==
  ASSUME Typed, NEW a \in Actions
  PROVE  Agrees(Result(a), latest[a])
<1>1. latest[a] \in LatestStates
  BY DEF Typed, TypeOK
<1>2. \A l \in LatestStates : Agrees(l, l)
  BY DEF LatestStates, UnresolvedStates, TerminalStates, RetryableStates, LiquidityStates,
         Agrees
<1> QED
  BY <1>1, <1>2 DEF Result, Agrees

\* A step on the recovery's table writes what the ledger says at that moment.
LEMMA Rewrites ==
  ASSUME Shape, [RepairNext]_allVars, NEW a \in Actions
  PROVE  recovery'[a] = recovery[a] \/ Agrees(recovery'[a], latest'[a])
<1> USE DEF Shape, tables
<1>1. recovery \in [Actions -> RecoveryStates]
  BY DEF RepairTypeOK
<1>2. CASE Activate \/ ClaimDependents
  BY <1>1, <1>2 DEF Activate, ClaimDependents, Agrees
<1>3. CASE SyncRow
  <2>1. Row \in Actions
    BY <1>3, RowTyped DEF SyncRow, AtRow
  <2>2. UNCHANGED recovery \/ Mark(Row, Synced(Row))
    BY <1>3 DEF SyncRow
  <2>3. UNCHANGED latest
    BY <1>3 DEF SyncRow, vars, rows
  <2> QED
    BY <1>1, <2>1, <2>2, <2>3, SyncedAgrees DEF Mark
<1>4. CASE BlockStaleRow \/ MarkClosed
           \/ \E b \in Actions : MarkBelowMinimum(b) \/ AwaitPrice(b) \/ FreezeBook(b)
  <2>1. \E b \in Actions, s \in {Stale, "EXTERNAL_UNFILLABLE", "PENDING_PRICE",
                                 "CURRENT_EFFECT_RECONSTRUCTED"} : Mark(b, s)
    BY <1>4, RowAt DEF BlockStaleRow, MarkClosed, MarkBelowMinimum, AwaitPrice, FreezeBook,
         Stage, AtRows
  <2> QED
    BY <1>1, <2>1 DEF Mark, Agrees, Stale
<1>5. CASE \E b \in Actions : RecordResult(b)
  <2>1. PICK b \in Actions : Mark(b, Result(b)) /\ UNCHANGED latest
    BY <1>5 DEF RecordResult, vars, rows
  <2> QED
    BY <1>1, <2>1, ResultAgrees DEF Mark
<1>6. CASE EndCycle
  BY <1>1, <1>6 DEF EndCycle, Agrees, Uncertain
<1>7. CASE UNCHANGED recovery
  BY <1>7
<1> QED
  <2>1. CASE Intakes \/ Retries \/ Reconciliation \/ LoseHead \/ Die
             \/ (\E o \in Orders : Trade(o)) \/ UNCHANGED allVars
    BY <1>7, <2>1 DEF Intakes, BeginHead, IntakeNext, EndIntake, Retries, RetryPending,
         EndRetry, EndHead, Reconciliation, ReconcileAll, ReconcileSent, CancelBeforeHead,
         LoseHead, Die, Trade, allVars
  <2>2. CASE Executor
    BY <1>7, <2>2 DEF Executor, Execute, Defer, IntakeFindsStale, Refuses
  <2>3. CASE Claims
    BY <1>2, <1>7, <2>3 DEF Claims, EndClaims, BeginCycle
  <2>4. CASE Rows
    BY <1>3, <1>4, <1>5, <1>6, <1>7, <2>4
       DEF Rows, SkipRow, WaitRow, FailStaleRow, RowRaises, CloseBelowMinimum, LeaveSmall,
           ExecuteFrozen, ExecuteNothing, CloseOfficially, Reopen, ResultRaised
  <2> QED
    BY <1>2, <2>1, <2>2, <2>3, <2>4 DEF RepairNext

Agreeing == Kept /\ JudgedOpen /\ AllAgree

LEMMA InitAgreeing == RepairInit => Agreeing
<1> SUFFICES ASSUME RepairInit PROVE Agreeing
  OBVIOUS
<1>1. /\ exec.pc = "idle" /\ cycle.stage = "off"
      /\ \A a \in Actions :
           /\ latest[a] \notin Ended /\ target[a].state = "ABSENT"
           /\ ~Unresolved(a) /\ recovery[a] = "UNCLAIMED"
  BY OffTyped DEF RepairInit, Idle, Unresolved, UnresolvedStates, Orders, Ended
<1>2. "ABSENT" \notin RetryableStates
  BY DEF RetryableStates, LiquidityStates
<1> QED
  BY <1>1, <1>2, InitSound
     DEF Agreeing, Kept, InScope, EndedRows, HandlesOpen, JudgedOpen, AllAgree, Agrees,
         Behind, At

LEMMA StepAgreeing == ASSUME Agreeing, [RepairNext]_allVars PROVE Agreeing'
<1>1. Kept' /\ EndedStay /\ JudgedOpen'
  BY StepKeeps, StepJudgedOpen DEF Agreeing
<1>2. ASSUME NEW a \in Actions PROVE Agrees(recovery'[a], latest'[a])
  <2>1. recovery'[a] = recovery[a] \/ Agrees(recovery'[a], latest'[a])
    BY Rewrites DEF Agreeing, Kept, Sound
  <2>2. Agrees(recovery[a], latest[a])
    BY DEF Agreeing, AllAgree
  <2>3. latest[a] \in Ended => latest'[a] = latest[a]
    BY <1>1 DEF EndedStay
  <2> QED
    BY <2>1, <2>2, <2>3 DEF Agrees, Ended
<1> QED
  BY <1>1, <1>2 DEF Agreeing, AllAgree

\* What the recovery has copied from the ledger stays true of the ledger:
\* between the two transactions, and ever after, no handler, no retry, no
\* superseding action and no restart rewrites an outcome that was copied.
THEOREM RecoveryAgreesWithLedger == RepairSpec => []RecordsAgree
<1>1. RepairInit => Agreeing
  BY InitAgreeing
<1>2. Agreeing /\ [RepairNext]_allVars => Agreeing'
  BY StepAgreeing
<1>3. Agreeing => RecordsAgree
  BY DEF Agreeing, AllAgree, Agrees, RecordsAgree, Claimed
<1> QED
  BY <1>1, <1>2, <1>3, PTL DEF RepairSpec

-----------------------------------------------------------------------------
\* What is handled has been observed.

Observed == {a \in Actions : latest[a] # "NONE"}

Seen ==
  /\ \A a \in Actions : scoped[a] => a \in Observed
  /\ exec.pc # "idle" => exec.act \in Observed
  /\ exec.pc = "append" => exec.st # "NONE"

LEMMA UnresolvedIsSeen ==
  ASSUME Kept, Seen, NEW a \in Actions, Unresolved(a)
  PROVE  a \in Observed
BY DEF Seen, Kept, InScope

\* The action of a handler's step, and the state the step is about to append.
LEMMA HandledIsSeen ==
  ASSUME Kept, Seen, NEW a \in Actions, HandlerStep(a)
  PROVE  /\ latest[a] # "NONE" /\ latest'[a] # "NONE"
         /\ exec'.pc = "append" => exec'.st # "NONE"
<1>1. CASE ProcessSourceAction(a)
  <2>1. latest[a] # "NONE" /\ exec'.pc = "entry" /\ UNCHANGED latest
    BY <1>1 DEF ProcessSourceAction, Begun, Handler, rows
  <2> QED
    BY <2>1
<1>2. CASE CloseRetry(a)
  <2>1. latest[a] # "NONE" /\ exec'.st = Unfillable(a) /\ UNCHANGED latest
    BY <1>2 DEF CloseRetry, LiquidityEvidence, LiquidityStates, Handler
  <2> QED
    BY <2>1 DEF Unfillable
<1>3. CASE ~ProcessSourceAction(a) /\ ~CloseRetry(a)
  <2>1. exec.pc # "idle" /\ exec.act = a /\ exec \in Handlers
    BY <1>3, Acting DEF Kept, Sound, Shape
  <2>2. latest[a] # "NONE" /\ (At("append") => exec.st # "NONE")
    BY <2>1 DEF Seen, At, Observed
  <2>3. latest'[a] # "NONE"
    BY <2>2, HandlerObserves DEF Kept, Sound, Shape
  <2>4. ASSUME exec'.pc = "append" PROVE exec'.st # "NONE"
    <3>1. CASE LateUnfillable(a) \/ RecordTarget(a) \/ RecordCancellation(a)
      <4>1. CASE RecordTarget(a)
        <5>1. exec.st # "NONE"
          <6>1. exec.st \in Pending("set")
            BY <4>1, InStep DEF RecordTarget, Kept, Sound, Shape, PCs
          <6> QED
            BY <6>1 DEF Pending, TargetStates, UnresolvedStates, TerminalStates,
                 RetryableStates, LiquidityStates
        <5> QED
          BY <2>1, <4>1, <5>1 DEF RecordTarget, Then, Handlers
      <4>2. CASE LateUnfillable(a) \/ RecordCancellation(a)
        BY <2>1, <4>2 DEF LateUnfillable, RecordCancellation, Then, Handlers
      <4> QED
        BY <3>1, <4>1, <4>2
    <3>2. CASE PlanFails(a)
      <4>1. CASE LiquidityEvidence(a) /\ Then("append", target[a].state)
        BY <2>1, <4>1 DEF LiquidityEvidence, LiquidityStates, Then, Handlers
      <4>2. CASE Done
        BY <2>4, <4>2 DEF Done, Idle
      <4> QED
        BY <3>2, <4>1, <4>2 DEF PlanFails
    <3>3. CASE SupersedeEarlierOpposites(a)
      BY <2>1, <2>4, <3>3 DEF SupersedeEarlierOpposites, Executing, Busy, At
    <3>4. CASE \/ ScopeRefuses(a) \/ RecoverSubmitStarted(a) \/ DeferToEarlierAction(a)
               \/ Refuse(a) \/ FailStaleTarget(a) \/ PostRejected(a) \/ RecordTransition(a)
      BY <2>4, <3>4 DEF ScopeRefuses, RecoverSubmitStarted, DeferToEarlierAction, Refuse,
           FailStaleTarget, PostRejected, RecordTransition, Done, Idle
    <3>5. CASE \/ ScopeAccepts(a) \/ CloseUnsellable(a) \/ PlanFirst(a) \/ PlanRemainder(a)
               \/ RecordPlan(a) \/ PreparationFails(a)
               \/ (\E n \in Attempts : BeginSubmissionAttempt(a, n))
               \/ PostAnswered(a) \/ PostUnanswered(a) \/ RecordAttempt(a)
      <4>1. exec'.pc # "append"
        BY <2>1, <3>5 DEF ScopeAccepts, CloseUnsellable, PlanFirst, PlanRemainder, RecordPlan,
           PreparationFails, BeginSubmissionAttempt, PostAnswered, PostUnanswered,
           RecordAttempt, Then, Handlers
      <4> QED
        BY <2>4, <4>1
    <3> QED
      BY <1>3, <3>1, <3>2, <3>3, <3>4, <3>5 DEF HandlerStep, Plan, Submit
  <2> QED
    BY <2>2, <2>3, <2>4
<1> QED
  BY <1>1, <1>2, <1>3

\* Only the intake of a head observes; nothing is forgotten.
LEMMA HandlerKeepsSeen ==
  ASSUME Kept, Seen, NEW a \in Actions, HandlerStep(a)
  PROVE  Seen' /\ Observed' = Observed
<1>1. latest[a] # "NONE" /\ latest'[a] # "NONE" /\ Wrote(a) /\ Leaves(a)
      /\ (exec'.pc = "append" => exec'.st # "NONE")
  BY HandledIsSeen, PlanWrote, SubmitWrote DEF HandlerStep
<1>2. \A b \in Actions : b # a =>
        /\ latest'[b] # "NONE" <=> latest[b] # "NONE"
        /\ scoped'[b] = scoped[b]
  <2>1. CASE SupersedeEarlierOpposites(a)
    <3>1. \A b \in Actions : Closed(b) # "NONE"
      BY DEF Closed
    <3>2. \A b \in EarlierOpposites(a) : latest[b] # "NONE"
      BY DEF EarlierOpposites, Earlier
    <3> QED
      BY <2>1, <3>1, <3>2 DEF SupersedeEarlierOpposites
  <2>2. CASE ~SupersedeEarlierOpposites(a)
    BY <2>2, OthersSame DEF Same, Kept, Sound, Shape
  <2> QED
    BY <2>1, <2>2
<1>3. Observed' = Observed
  BY <1>1, <1>2 DEF Observed
<1>4. \A b \in Actions : scoped'[b] => b \in Observed
  BY <1>1, <1>2 DEF Seen, Observed
<1> QED
  BY <1>1, <1>3, <1>4 DEF Seen, Leaves, Observed

LEMMA ReconcileKeepsSeen ==
  ASSUME Kept, Seen, NEW o \in Orders, Reconcile(o)
  PROVE  Seen' /\ Observed' = Observed
<1>1. /\ attempt[o].state \in UnresolvedStates /\ exec.pc = "idle"
      /\ UNCHANGED <<scoped, exec>>
  BY DEF Reconcile, ReconcileFill, ReconcileFinalizedNoFill, ReconcileCanceled,
     ReconcileAbsent, Reconcilable, Listed, At
<1>2. o[1] \in Actions /\ o[2] \in Attempts /\ o = <<o[1], o[2]>>
  BY DEF Orders
<1>3. o[1] \in Observed
  BY <1>1, <1>2, UnresolvedIsSeen DEF Unresolved
<1>4. latest'[o[1]] # "NONE"
  BY ReconcileObserves DEF Kept, Sound, Shape
<1>5. \A b \in Actions : b # o[1] => latest'[b] = latest[b]
  BY ReconcileSame DEF Same, Kept, Sound, Shape
<1>6. Observed' = Observed
  BY <1>2, <1>3, <1>4, <1>5 DEF Observed
<1> QED
  BY <1>1, <1>6 DEF Seen

LEMMA OtherKeepsSeen ==
  ASSUME Kept, Seen, UNCHANGED <<latest, scoped>>,
         \/ UNCHANGED exec
         \/ exec' = Idle
         \/ exec'.pc # "append" /\ exec'.act \in Observed
         \/ exec'.act \in Observed /\ exec'.st # "NONE"
  PROVE  Seen' /\ Observed' = Observed
BY DEF Seen, Observed, Idle

RowStages == AtRows \cup {"rows"}

LEMMA StoreStepSees ==
  ASSUME Kept, Seen, StoreStep
  PROVE  Seen' /\ Observed' = Observed
<1>1. CASE \E a \in Actions : HandlerStep(a)
  BY <1>1, HandlerKeepsSeen
<1>2. CASE \E o \in Orders : Reconcile(o)
  BY <1>2, ReconcileKeepsSeen
<1>3. ASSUME NEW o \in Orders, CancelDue(o) PROVE Seen' /\ Observed' = Observed
  <2>1. UNCHANGED <<latest, scoped>> /\ exec'.pc = "cancelled" /\ exec'.act = o[1]
    BY <1>3 DEF CancelDue, Handler, rows
  <2>2. o[1] \in Actions /\ Unresolved(o[1])
    BY <1>3 DEF CancelDue, Listed, Unresolved, Orders
  <2> QED
    BY <2>1, <2>2, UnresolvedIsSeen, OtherKeepsSeen
<1>4. CASE Venue \/ Crash \/ UNCHANGED vars
  <2>1. UNCHANGED <<latest, scoped>> /\ (UNCHANGED exec \/ exec' = Idle)
    BY <1>4 DEF Venue, Match, Withdraw, Arrive, Finalize, Crash, Done, vars, rows
  <2> QED
    BY <2>1, OtherKeepsSeen
<1> QED
  BY <1>1, <1>2, <1>3, <1>4 DEF StoreStep, Maintain, HandlerStep

LEMMA RecoveryStepSees ==
  ASSUME Kept, Seen, RecoveryStep, cycle.stage \in RowStages => cycle.todo \subseteq Observed
  PROVE  /\ Seen'
         /\ \/ Observed' = Observed
            \/ \E B \in SUBSET Actions : BeginHead(B) /\ Observed' = Observed \cup B
<1> USE DEF Kept, Sound
<1>1. ASSUME NEW B \in SUBSET Actions, BeginHead(B)
      PROVE  Seen' /\ Observed' = Observed \cup B
  <2>1. Observed' = Observed \cup B
    BY <1>1 DEF BeginHead, Observed
  <2> QED
    BY <1>1, <2>1 DEF BeginHead, Seen
<1>2. ASSUME FailStaleRow PROVE Seen' /\ Observed' = Observed
  <2>1. PICK a \in Actions : a = Row /\ a \in Observed
    BY <1>2, RowAt DEF FailStaleRow, Stage, AtRows, RowStages
  <2>2. /\ latest' = [latest EXCEPT ![a] = "ERROR_INTERNAL"]
        /\ UNCHANGED <<scoped, exec>>
    BY <1>2, <2>1 DEF FailStaleRow, Release, Append
  <2>3. Observed' = Observed
    BY <2>1, <2>2, RowFacts DEF Observed
  <2> QED
    BY <2>2, <2>3 DEF Seen
<1>3. ASSUME CloseBelowMinimum PROVE Seen' /\ Observed' = Observed
  <2>1. Row \in Observed /\ exec'.act = Row /\ exec'.st = Unfillable(Row)
        /\ UNCHANGED <<latest, scoped>>
    BY <1>3, RowAt DEF CloseBelowMinimum, Handler, Stage, AtRows, RowStages
  <2>2. Unfillable(Row) # "NONE"
    BY DEF Unfillable
  <2> QED
    BY <2>1, <2>2, OtherKeepsSeen
<1>4. ASSUME NEW a \in Actions, CloseOfficially(a) PROVE Seen' /\ Observed' = Observed
  <2>1. a \in Observed /\ exec'.act = a /\ exec'.st = "EXTERNAL_UNFILLABLE"
        /\ UNCHANGED <<latest, scoped>>
    BY <1>4, RowAt DEF CloseOfficially, Handler, Resolvable, Effective, Judged, Stage, AtRows,
       RowStages
  <2> QED
    BY <2>1, OtherKeepsSeen
<1>5. ASSUME NEW a \in Actions, NEW s, Reopen(a, s), a \in Observed
      PROVE  Seen' /\ Observed' = Observed
  <2>1. /\ latest' = [latest EXCEPT ![a] = "OBSERVED"] /\ UNCHANGED scoped
        /\ exec'.act = a /\ exec'.pc = "entry"
    BY <1>5 DEF Reopen, Append, Begun, Handler
  <2>2. Observed' = Observed
    BY <1>5, <2>1, RowFacts DEF Observed
  <2> QED
    BY <1>5, <2>1, <2>2 DEF Seen
<1>6. ASSUME ExecuteFrozen PROVE Seen' /\ Observed' = Observed
  <2>1. Row \in Actions /\ Row \in Observed
    BY <1>6, RowAt DEF ExecuteFrozen, Stage, AtRows, RowStages
  <2> QED
    BY <1>5, <1>6, <2>1 DEF ExecuteFrozen
<1>7. ASSUME NEW a \in Actions, ExecuteNothing(a) PROVE Seen' /\ Observed' = Observed
  <2>1. a \in Observed
    BY <1>7, RowAt DEF ExecuteNothing, Judged, Stage, AtRows, RowStages
  <2> QED
    BY <1>5, <1>7, <2>1 DEF ExecuteNothing
<1> QED
  BY <1>1, <1>2, <1>3, <1>4, <1>6, <1>7 DEF RecoveryStep

-----------------------------------------------------------------------------
\* Which steps lead to a submission.

\* Steps of a handler that may still submit.
Early == {"entry", "late", "planned", "prepare"}

LEMMA StaysEarly ==
  ASSUME Kept, NEW a \in Actions, HandlerStep(a), ~ProcessSourceAction(a),
         exec'.pc \in Early
  PROVE  exec.pc \in Early /\ exec.act = a /\ exec'.act = a
<1>1. ~CloseRetry(a)
  BY DEF CloseRetry, Handler, Early
<1>2. exec.pc # "idle" /\ exec \in Handlers /\ exec.act = a
  BY <1>1, Acting DEF Kept, Sound, Shape
<1>3. Leaves(a)
  BY PlanWrote, SubmitWrote DEF HandlerStep
<1>4. exec'.act = a
  BY <1>3 DEF Leaves, Early
<1>5. exec.pc \in Early
  <2>1. CASE Plan(a)
    BY <2>1 DEF Plan, ScopeRefuses, ScopeAccepts, LateUnfillable, RecoverSubmitStarted,
       DeferToEarlierAction, SupersedeEarlierOpposites, CloseUnsellable, Refuse,
       FailStaleTarget, PlanFails, PlanFirst, PlanRemainder, RecordPlan, PreparationFails,
       Plannable, Sizable, InOrder, Executing, Busy, At, Early
  <2>2. CASE \E n \in Attempts : BeginSubmissionAttempt(a, n)
    BY <2>2 DEF BeginSubmissionAttempt, Busy, At, Early
  <2>3. CASE PostAnswered(a) \/ PostUnanswered(a) \/ RecordAttempt(a) \/ RecordTarget(a)
             \/ RecordCancellation(a)
    BY <1>2, <2>3 DEF PostAnswered, PostUnanswered, RecordAttempt, RecordTarget,
       RecordCancellation, Then, Handlers, Early
  <2>4. CASE PostRejected(a) \/ RecordTransition(a)
    BY <2>4 DEF PostRejected, RecordTransition, Done, Idle, Early
  <2> QED
    BY <1>1, <2>1, <2>2, <2>3, <2>4 DEF HandlerStep, Submit
<1> QED
  BY <1>2, <1>4, <1>5

LEMMA NewlyUnresolved ==
  ASSUME Kept, StoreStep \/ RecoveryStep, NEW b \in Actions, Unresolved(b)'
  PROVE  Unresolved(b) \/ (exec.pc = "prepare" /\ exec.act = b)
<1> USE DEF Kept, Sound
<1>1. CASE RecoveryStep
  BY <1>1, RecoveryStepQuiet DEF Unresolved
<1>2. CASE Venue \/ Crash \/ UNCHANGED vars \/ (\E o \in Orders : CancelDue(o))
  <2>1. UNCHANGED attempt
    BY <1>2 DEF Venue, Match, Withdraw, Arrive, Finalize, Crash, CancelDue, vars, rows
  <2> QED
    BY <2>1 DEF Unresolved
<1>3. ASSUME NEW o \in Orders, Reconcile(o)
      PROVE  Unresolved(b)
  <2>1. attempt[o].state \in UnresolvedStates /\ o[2] \in Attempts /\ o = <<o[1], o[2]>>
    BY <1>3 DEF Reconcile, ReconcileFill, ReconcileFinalizedNoFill, ReconcileCanceled,
       ReconcileAbsent, Reconcilable, Listed, Orders
  <2>2. CASE o[1] = b
    BY <2>1, <2>2 DEF Unresolved
  <2>3. CASE o[1] # b
    <3>1. o[1] \in Actions
      BY DEF Orders
    <3>2. Same(b)
      BY <1>3, <2>3, <3>1, ReconcileSame DEF Shape
    <3> QED
      BY <3>2 DEF Same, Unresolved
  <2> QED
    BY <2>2, <2>3
<1>4. ASSUME NEW a \in Actions, HandlerStep(a), a # b
      PROVE  Unresolved(b)
  <2>1. CASE SupersedeEarlierOpposites(a)
    BY <2>1 DEF SupersedeEarlierOpposites, Unresolved
  <2>2. CASE ~SupersedeEarlierOpposites(a)
    <3>1. Same(b)
      BY <1>4, <2>2, OthersSame DEF Shape
    <3> QED
      BY <3>1 DEF Same, Unresolved
  <2> QED
    BY <2>1, <2>2
<1>5. ASSUME HandlerStep(b)
      PROVE  Unresolved(b) \/ (exec.pc = "prepare" /\ exec.act = b)
  <2>1. CASE Plan(b) \/ CloseRetry(b) \/ PostAnswered(b) \/ PostUnanswered(b)
             \/ RecordTarget(b) \/ RecordTransition(b)
    <3>1. UNCHANGED attempt
      BY <2>1 DEF Plan, ProcessSourceAction, ScopeRefuses, ScopeAccepts, LateUnfillable,
         RecoverSubmitStarted, DeferToEarlierAction, SupersedeEarlierOpposites,
         CloseUnsellable, Refuse, FailStaleTarget, PlanFails, PlanFirst, PlanRemainder,
         RecordPlan, PreparationFails, CloseRetry, PostAnswered, PostUnanswered,
         RecordTarget, RecordTransition, rows
    <3> QED
      BY <3>1 DEF Unresolved
  <2>2. CASE \E n \in Attempts : BeginSubmissionAttempt(b, n)
    BY <2>2 DEF BeginSubmissionAttempt, Busy, At
  <2>3. CASE PostRejected(b) \/ RecordAttempt(b) \/ RecordCancellation(b)
    <3>1. exec.pc \in {"post", "attempt", "cancelled"} /\ exec.act = b
      BY <2>3 DEF PostRejected, RecordAttempt, RecordCancellation, Busy, At
    <3>2. exec.n \in Attempts
      BY <2>3, <3>1, Acting DEF HandlerStep, Submit, Shape, Handlers, CloseRetry,
         ProcessSourceAction, At
    <3> QED
      BY <3>1, <3>2 DEF Working, Unresolved
  <2> QED
    BY <1>5, <2>1, <2>2, <2>3 DEF HandlerStep, Submit
<1> QED
  BY <1>1, <1>2, <1>3, <1>4, <1>5 DEF StoreStep, Maintain, HandlerStep

-----------------------------------------------------------------------------
\* Claims, and who is executed in a head.

\* Rows are executed under an active manifest; the intake of a head brings only
\* what no head has passed and nobody has claimed; what may still submit is of
\* that intake, or a row.
HeadPlan ==
  /\ cycle.stage \in RowStages => manifest = "ACTIVE" /\ cycle.todo \subseteq Claimed
  /\ Claimed \cup Gap \subseteq passed \cap Observed
  /\ cycle.stage = "intake" =>
       /\ cycle.intake \cap passed = {}
       /\ cycle.todo \subseteq cycle.intake
       /\ Observed \subseteq passed \cup cycle.intake
  /\ cycle.stage \notin {"off", "intake"} => Observed \subseteq passed
  /\ exec.pc \in Early =>
       \/ cycle.stage = "intake" /\ exec.act \in cycle.intake
       \/ cycle.stage \in {"run", "covered"}

Planned == Kept /\ JudgedOpen /\ Seen /\ HeadPlan

LEMMA StaysClaimed ==
  ASSUME Shape, NEW a \in Claimed, NEW s, s # "UNCLAIMED", Mark(a, s)
  PROVE  Claimed' = Claimed
<1>1. recovery \in [Actions -> RecoveryStates] /\ a \in Actions
  BY DEF Shape, RepairTypeOK, Claimed
<1> QED
  BY <1>1 DEF Mark, Claimed

LEMMA NeverUnclaimed ==
  ASSUME Typed, NEW a \in Actions
  PROVE  Synced(a) # "UNCLAIMED" /\ Result(a) # "UNCLAIMED"
<1>1. \A l \in DOMAIN SyncedStatus : SyncedStatus[l] # "UNCLAIMED"
  BY DEF SyncedStatus
<1>2. latest[a] \in LatestStates /\ "UNCLAIMED" \notin LatestStates
  BY DEF Typed, TypeOK, LatestStates, UnresolvedStates, TerminalStates, RetryableStates,
     LiquidityStates
<1> QED
  BY <1>1, <1>2 DEF Synced, Result, Uncertain

LEMMA RowClaimed ==
  ASSUME Planned, cycle.stage \in AtRows
  PROVE  Row \in Claimed
BY RowAt DEF Planned, Kept, Sound, HeadPlan, RowStages

LEMMA ClaimsStay ==
  ASSUME Planned, [RepairNext]_allVars, ~Activate, ~ClaimDependents
  PROVE  Claimed' = Claimed
<1> USE DEF Planned, Kept, Sound
<1>1. CASE SyncRow
  <2>1. Row \in Claimed /\ Row \in Actions
    BY <1>1, RowTyped DEF SyncRow, AtRow, Stage, HeadPlan, RowStages, Shape
  <2>2. UNCHANGED recovery \/ Mark(Row, Synced(Row))
    BY <1>1 DEF SyncRow
  <2> QED
    BY <2>1, <2>2, NeverUnclaimed, StaysClaimed DEF Claimed, Shape
<1>2. CASE BlockStaleRow \/ MarkClosed
           \/ \E b \in Actions : MarkBelowMinimum(b) \/ AwaitPrice(b) \/ FreezeBook(b)
  <2>1. \E s \in {Stale, "EXTERNAL_UNFILLABLE", "PENDING_PRICE",
                  "CURRENT_EFFECT_RECONSTRUCTED"} : Mark(Row, s)
    BY <1>2 DEF BlockStaleRow, MarkClosed, MarkBelowMinimum, AwaitPrice, FreezeBook,
       Priced, Resolvable, Effective, Judged
  <2>2. Row \in Claimed
    BY <1>2, RowClaimed DEF BlockStaleRow, MarkClosed, MarkBelowMinimum, AwaitPrice,
       FreezeBook, Priced, Resolvable, Effective, Judged, Stage, AtRows
  <2> QED
    BY <2>1, <2>2, StaysClaimed DEF Stale
<1>3. CASE \E b \in Actions : RecordResult(b)
  <2>1. PICK b \in Actions : Mark(b, Result(b)) /\ b = Row /\ cycle.stage \in AtRows
    BY <1>3 DEF RecordResult, Returned, Stage, AtRows
  <2> QED
    BY <2>1, RowClaimed, NeverUnclaimed, StaysClaimed DEF Shape
<1>4. CASE EndCycle
  <2>1. recovery \in [Actions -> RecoveryStates]
    BY DEF Shape, RepairTypeOK
  <2>2. "UNCLAIMED" \notin Settled /\ Uncertain # "UNCLAIMED"
    BY DEF Settled, Uncertain
  <2> QED
    BY <1>4, <2>1, <2>2 DEF EndCycle, Claimed
<1>5. CASE UNCHANGED recovery
  BY <1>5 DEF Claimed
<1> QED
  <2> USE DEF tables
  <2>1. CASE Intakes \/ Retries \/ Reconciliation \/ LoseHead \/ Die
             \/ (\E o \in Orders : Trade(o)) \/ UNCHANGED allVars
    BY <1>5, <2>1 DEF Intakes, BeginHead, IntakeNext, EndIntake, Retries, RetryPending,
         EndRetry, EndHead, Reconciliation, ReconcileAll, ReconcileSent, CancelBeforeHead,
         LoseHead, Die, Trade, allVars
  <2>2. CASE Executor
    BY <1>5, <2>2 DEF Executor, Execute, Defer, IntakeFindsStale, Refuses
  <2>3. CASE Claims
    BY <1>5, <2>3 DEF Claims, EndClaims, BeginCycle
  <2>4. CASE Rows
    BY <1>1, <1>2, <1>3, <1>4, <1>5, <2>4
       DEF Rows, SkipRow, WaitRow, FailStaleRow, RowRaises, CloseBelowMinimum, LeaveSmall,
           ExecuteFrozen, ExecuteNothing, CloseOfficially, Reopen, ResultRaised
  <2> QED
    BY <2>1, <2>2, <2>3, <2>4 DEF RepairNext

\* Three ways a step can leave the plan of a head.
LEMMA SameHead ==
  ASSUME HeadPlan, UNCHANGED <<cycle, passed>>, Observed' = Observed,
         Claimed \subseteq Claimed', Claimed' \subseteq passed \cap Observed,
         manifest' \in {manifest, "ACTIVE"},
         exec'.pc \in Early => exec.pc \in Early /\ exec'.act = exec.act
  PROVE  HeadPlan'
BY DEF HeadPlan

LEMMA HeadOver ==
  ASSUME HeadPlan, cycle' = Off, UNCHANGED passed, Observed' = Observed,
         Claimed' = Claimed, exec'.pc \notin Early
  PROVE  HeadPlan'
BY OffTyped DEF HeadPlan, RowStages, AtRows

LEMMA HeadGoesOn ==
  ASSUME HeadPlan, cycle.stage \notin {"off", "intake"},
         cycle'.stage \notin {"off", "intake"},
         cycle'.stage \in RowStages => manifest' = "ACTIVE" /\ cycle'.todo \subseteq Claimed,
         UNCHANGED passed, Observed' = Observed, Claimed' = Claimed,
         exec'.pc \in Early => cycle'.stage \in {"run", "covered"}
  PROVE  HeadPlan'
BY DEF HeadPlan

LEMMA ObservedStays ==
  ASSUME Planned, [RepairNext]_allVars,
         \A B \in SUBSET Actions : ~BeginHead(B)
  PROVE  Seen' /\ Observed' = Observed
<1>1. cycle.stage \in RowStages => cycle.todo \subseteq Observed
  BY DEF Planned, HeadPlan
<1> QED
  BY <1>1, StepOfRows, StoreStepSees, RecoveryStepSees DEF Planned, Kept, Sound, Shape

LEMMA BeginPlan ==
  ASSUME Planned, NEW B \in SUBSET Actions, BeginHead(B)
  PROVE  Seen' /\ HeadPlan'
<1>1. UNCHANGED <<passed, manifest, recovery, exec>> /\ exec.pc = "idle"
  BY DEF BeginHead, tables, Stage, At
<1>2. Claimed' = Claimed /\ exec'.pc \notin Early
  BY <1>1 DEF Claimed, Early
<1>3. Observed' = Observed \cup B
  BY DEF BeginHead, Observed
<1>4. /\ cycle'.stage = "intake" /\ cycle'.intake = B /\ cycle'.todo = B
      /\ B \cap passed = {} /\ Observed \subseteq passed \cup B
  BY DEF BeginHead, Head, Observed
<1>5. HeadPlan'
  BY <1>1, <1>2, <1>3, <1>4 DEF Planned, HeadPlan, RowStages, AtRows
<1>6. Seen'
  BY <1>1, <1>3 DEF BeginHead, Planned, Seen
<1> QED
  BY <1>5, <1>6

LEMMA IntakesPlan ==
  ASSUME Planned, IntakeNext \/ EndIntake, Observed' = Observed, Claimed' = Claimed
  PROVE  HeadPlan'
<1> USE DEF Planned, Kept, Sound, Shape
<1>1. CASE IntakeNext
  <2>1. /\ cycle.stage = "intake" /\ cycle'.stage = "intake" /\ cycle'.intake = cycle.intake
        /\ cycle'.todo \subseteq cycle.todo /\ UNCHANGED <<passed, manifest>>
    BY <1>1 DEF IntakeNext, Stage, tables, RepairTypeOK, Cycles
  <2>2. Row \in cycle.todo
    BY <1>1, RowTyped DEF IntakeNext
  <2>3. exec'.pc \in Early => exec'.act \in cycle.intake
    <3>1. CASE UNCHANGED vars
      BY <1>1, <3>1 DEF IntakeNext, Stage, At, vars, Early
    <3>2. CASE ProcessSourceAction(Row)
      BY <2>1, <2>2, <3>2 DEF ProcessSourceAction, Begun, Handler, HeadPlan
    <3> QED
      BY <1>1, <3>1, <3>2 DEF IntakeNext
  <2> QED
    BY <2>1, <2>3 DEF HeadPlan, RowStages, AtRows
<1>2. CASE EndIntake
  <2>1. /\ cycle'.stage = "claim" /\ passed' = passed \cup cycle.intake
        /\ UNCHANGED <<manifest, exec>> /\ exec.pc = "idle" /\ cycle.stage = "intake"
    BY <1>2, EnterTyped DEF EndIntake, Stage, At, tables, vars, Stages
  <2> QED
    BY <2>1 DEF HeadPlan, RowStages, AtRows, Early
<1> QED
  BY <1>1, <1>2

LEMMA ExecutorPlan ==
  ASSUME Planned, Executor, Observed' = Observed, Claimed' = Claimed
  PROVE  HeadPlan'
<1>1. PICK a \in Actions :
        Execute(a) \/ Defer(a) \/ IntakeFindsStale(a) \/ Refuses(a)
  BY DEF Executor
<1>2. HandlerStep(a) /\ ~ProcessSourceAction(a)
  <2>1. HandlerStep(a)
    BY <1>1 DEF Execute, Defer, IntakeFindsStale, Refuses, HandlerStep, Plan
  <2>2. exec.pc # "idle"
    <3>1. \E pc \in PCs : Busy(pc, a)
      BY <1>1 DEF Execute, Defer, IntakeFindsStale, Refuses, Submit, ScopeRefuses,
         ScopeAccepts, LateUnfillable, RecoverSubmitStarted, DeferToEarlierAction,
         SupersedeEarlierOpposites, CloseUnsellable, Refuse, FailStaleTarget, PlanFails,
         PlanFirst, PlanRemainder, RecordPlan, PreparationFails, BeginSubmissionAttempt,
         PostAnswered, PostUnanswered, PostRejected, RecordAttempt, RecordTarget,
         RecordTransition, RecordCancellation, Plannable, Sizable, InOrder, Executing, PCs
    <3> QED
      BY <3>1 DEF Busy, At, PCs
  <2> QED
    BY <2>1, <2>2 DEF ProcessSourceAction, At
<1>3. exec'.pc \in Early => exec.pc \in Early /\ exec'.act = exec.act
  BY <1>2, StaysEarly DEF Planned
<1>4. UNCHANGED <<passed, manifest>>
  BY <1>1 DEF Execute, Defer, IntakeFindsStale, Refuses, tables
<1>5. CASE UNCHANGED cycle
  BY <1>3, <1>4, <1>5, SameHead DEF Planned, HeadPlan
<1>6. CASE Refuses(a)
  <2>1. exec'.pc = "idle" /\ exec.pc = "entry"
    BY <1>6 DEF Refuses, Refuse, InOrder, Executing, Busy, At, Done, Idle
  <2>2. CASE cycle.stage = "intake"
    BY <1>4, <1>6, <2>1, <2>2, HeadOver DEF Planned, Refuses, Early
  <2>3. CASE cycle.stage # "intake"
    <3>1. cycle.stage \in {"run", "covered"}
      BY <2>1, <2>3 DEF Planned, HeadPlan, Early
    <3>2. cycle'.stage = "retry"
      BY <1>6, <2>3 DEF Refuses, Planned, Kept, Sound, Shape, RepairTypeOK, Cycles
    <3> QED
      BY <1>4, <2>1, <3>1, <3>2, HeadGoesOn DEF Planned, RowStages, AtRows, Early
  <2> QED
    BY <2>2, <2>3
<1> QED
  BY <1>1, <1>5, <1>6 DEF Execute, Defer, IntakeFindsStale

LEMMA ClaimsPlan ==
  ASSUME Planned, Activate \/ Claims, Observed' = Observed
  PROVE  HeadPlan'
<1> USE DEF Planned, Kept, Sound, Shape
<1>1. CASE Activate
  <2>1. UNCHANGED <<cycle, passed, exec>> /\ manifest' = "ACTIVE"
    BY <1>1 DEF Activate, vars
  <2>2. Claimed' = Claimed \cup Gap
    BY <1>1, GapAssumption DEF Activate, Claimed
  <2> QED
    BY <2>1, <2>2, SameHead DEF HeadPlan
<1>2. CASE ClaimDependents
  <2>1. UNCHANGED <<cycle, passed, exec, manifest>> /\ cycle.stage = "claim"
    BY <1>2 DEF ClaimDependents, vars, Stage
  <2>2. Claimed' = Claimed \cup Dependents
    BY <1>2 DEF ClaimDependents, Claimed, Dependents
  <2>3. Dependents \subseteq Observed
    BY DEF Dependents, Observed
  <2>4. Observed \subseteq passed
    BY <2>1 DEF HeadPlan
  <2> QED
    BY <2>1, <2>2, <2>3, <2>4, SameHead DEF HeadPlan
<1>3. CASE EndClaims
  <2>1. /\ cycle.stage = "claim" /\ cycle'.stage = "reconcile" /\ exec'.pc = "idle"
        /\ UNCHANGED <<passed, recovery>>
    BY <1>3, EnterTyped DEF EndClaims, Stage, At, vars, tables, Stages
  <2>2. Claimed' = Claimed
    BY <2>1 DEF Claimed
  <2> QED
    BY <2>1, <2>2, HeadGoesOn DEF RowStages, AtRows, Early
<1>4. CASE BeginCycle
  <2>1. /\ cycle.stage = "reconcile" /\ exec'.pc = "idle"
        /\ UNCHANGED <<passed, recovery, manifest>>
    BY <1>4 DEF BeginCycle, Stage, At, vars, tables
  <2>2. Claimed' = Claimed
    BY <2>1 DEF Claimed
  <2>3. \/ manifest = "ACTIVE" /\ cycle'.stage = "rows" /\ cycle'.todo \subseteq Claimed
        \/ cycle'.stage = "retry"
    BY <1>4 DEF BeginCycle, RepairTypeOK, Cycles
  <2> QED
    BY <2>1, <2>2, <2>3, HeadGoesOn DEF RowStages, AtRows, Early
<1> QED
  BY <1>1, <1>2, <1>3, <1>4 DEF Claims

\* What a row's step does to the head, the manifest and the handler.
LEMMA RowsMove ==
  ASSUME Planned, Rows
  PROVE  /\ cycle.stage \in RowStages
         /\ cycle'.stage \in RowStages \cup {"retry"}
         /\ cycle'.todo \subseteq cycle.todo
         /\ UNCHANGED passed
         /\ UNCHANGED manifest \/ EndCycle
         /\ exec'.pc \in Early => cycle'.stage \in {"run", "covered"}
<1> USE DEF Planned, Kept, Sound, Shape, tables
<1>1. CASE SkipRow \/ WaitRow
  <2>1. cycle.stage = "rows" /\ exec'.pc = "idle" /\ UNCHANGED <<passed, manifest>>
    BY <1>1 DEF SkipRow, WaitRow, AtRow, Stage, At, vars
  <2>2. \E T : NextRow(T)
    BY <1>1 DEF SkipRow, WaitRow, Hold
  <2> QED
    BY <2>1, <2>2 DEF NextRow, RepairTypeOK, Cycles, RowStages, Early
<1>2. CASE SyncRow
  <2>1. cycle.stage = "rows" /\ exec'.pc = "idle" /\ UNCHANGED <<passed, manifest>>
    BY <1>2 DEF SyncRow, AtRow, Stage, At, vars
  <2>2. (\E T : NextRow(T)) \/ Enter("judge")
    BY <1>2 DEF SyncRow, Hold
  <2>3. cycle'.stage \in {"rows", "judge"} /\ cycle'.todo \subseteq cycle.todo
    BY <2>2 DEF NextRow, Enter, RepairTypeOK, Cycles
  <2> QED
    BY <2>1, <2>3 DEF RowStages, AtRows, Early
<1>3. CASE FailStaleRow
  BY <1>3 DEF FailStaleRow, Stage, At, RowStages, AtRows, Early
<1>4. CASE BlockStaleRow \/ MarkClosed \/ LeaveSmall \/ \E a \in Actions : AwaitPrice(a)
  <2>1. /\ cycle.stage \in AtRows /\ exec'.pc = "idle" /\ UNCHANGED <<passed, manifest>>
        /\ \E T : NextRow(T)
    BY <1>4 DEF BlockStaleRow, MarkClosed, LeaveSmall, AwaitPrice, Hold, Priced, Resolvable,
       Effective, Judged, Stage, At, AtRows, vars
  <2> QED
    BY <2>1 DEF NextRow, RepairTypeOK, Cycles, RowStages, Early
<1>5. CASE RowRaises \/ EndCycle \/ \E a \in Actions : ResultRaised(a)
  <2>1. /\ cycle.stage \in RowStages /\ exec'.pc = "idle" /\ UNCHANGED passed
        /\ Enter("retry") /\ (UNCHANGED manifest \/ EndCycle)
    BY <1>5 DEF RowRaises, EndCycle, ResultRaised, Returned, Effective, Judged, Stage, At,
       AtRows, RowStages, vars
  <2> QED
    BY <2>1, EnterTyped DEF Stages, Early
<1>6. CASE CloseBelowMinimum \/ \E a \in Actions : CloseOfficially(a)
  <2>1. /\ cycle.stage \in AtRows /\ exec'.pc = "append" /\ UNCHANGED <<passed, manifest>>
        /\ Enter("small") \/ Enter("closed")
    BY <1>6 DEF CloseBelowMinimum, CloseOfficially, Resolvable, Effective, Judged, Handler,
       Stage, AtRows
  <2> QED
    BY <2>1, EnterTyped DEF Stages, AtRows, RowStages, Early
<1>7. CASE ExecuteFrozen \/ \E a \in Actions : ExecuteNothing(a)
  <2>1. /\ cycle.stage \in AtRows /\ UNCHANGED <<passed, manifest>>
        /\ Enter("run") \/ Enter("covered")
    BY <1>7 DEF ExecuteFrozen, ExecuteNothing, Reopen, Judged, Stage, AtRows
  <2> QED
    BY <2>1, EnterTyped DEF Stages, AtRows, RowStages
<1>8. CASE \E a \in Actions : MarkBelowMinimum(a) \/ FreezeBook(a)
  <2>1. /\ cycle.stage \in AtRows /\ exec'.pc = "idle" /\ UNCHANGED <<passed, manifest>>
        /\ Enter("minimum") \/ Enter("frozen")
    BY <1>8 DEF MarkBelowMinimum, FreezeBook, Priced, Resolvable, Effective, Judged, Stage,
       At, AtRows, vars
  <2> QED
    BY <2>1, EnterTyped DEF Stages, AtRows, RowStages, Early
<1>9. ASSUME NEW a \in Actions, RecordResult(a)
      PROVE  /\ cycle.stage \in AtRows /\ cycle'.stage = "rows"
             /\ cycle'.todo \subseteq cycle.todo
             /\ exec'.pc = "idle" /\ UNCHANGED <<passed, manifest>>
  BY <1>9 DEF RecordResult, Returned, Stage, At, AtRows, vars, RepairTypeOK, Cycles
<1> QED
  BY <1>1, <1>2, <1>3, <1>4, <1>5, <1>6, <1>7, <1>8, <1>9 DEF Rows, RowStages, Early

LEMMA RowsPlan ==
  ASSUME Planned, Rows, Observed' = Observed, Claimed' = Claimed
  PROVE  HeadPlan'
<1>1. /\ cycle.stage \in RowStages
      /\ cycle'.stage \in RowStages \cup {"retry"}
      /\ cycle'.todo \subseteq cycle.todo
      /\ UNCHANGED passed
      /\ UNCHANGED manifest \/ EndCycle
      /\ exec'.pc \in Early => cycle'.stage \in {"run", "covered"}
  BY RowsMove
<1>2. EndCycle => cycle'.stage = "retry"
  BY EnterTyped DEF EndCycle, Stages, Planned, Kept, Sound, Shape
<1>3. cycle'.stage \in RowStages => manifest' = "ACTIVE"
  BY <1>1, <1>2 DEF Planned, HeadPlan, RowStages, AtRows
<1>4. {"off", "intake"} \cap (RowStages \cup {"retry"}) = {}
  BY DEF RowStages, AtRows
<1> QED
  BY <1>1, <1>3, <1>4, HeadGoesOn DEF Planned, HeadPlan

LEMMA OtherPlan ==
  ASSUME Planned,
         \/ Retries \/ Reconciliation \/ LoseHead \/ Die
         \/ (\E o \in Orders : Trade(o)) \/ UNCHANGED allVars,
         Observed' = Observed, Claimed' = Claimed
  PROVE  HeadPlan'
<1> USE DEF Planned, tables
<1>1. CASE \E a \in Actions : RetryPending(a)
  <2>1. UNCHANGED <<cycle, passed, manifest>> /\ exec'.pc = "append"
    BY <1>1 DEF RetryPending, CloseRetry, Handler
  <2> QED
    BY <2>1, SameHead DEF HeadPlan, Early
<1>2. CASE EndRetry
  <2>1. cycle.stage = "retry" /\ cycle'.stage = "settle" /\ exec'.pc = "idle"
        /\ UNCHANGED passed
    BY <1>2, EnterTyped DEF EndRetry, Stage, At, vars, Stages, Kept, Sound, Shape
  <2> QED
    BY <2>1, HeadGoesOn DEF RowStages, AtRows, Early
<1>3. CASE EndHead \/ LoseHead \/ Die
  <2>1. cycle' = Off /\ UNCHANGED passed /\ exec'.pc = "idle"
    BY <1>3 DEF EndHead, LoseHead, Die, Crash, Done, Idle, Stage, At, vars
  <2> QED
    BY <2>1, HeadOver DEF Early
<1>4. CASE Reconciliation
  <2>1. UNCHANGED <<cycle, passed, manifest>>
    BY <1>4 DEF Reconciliation, ReconcileAll, ReconcileSent, CancelBeforeHead
  <2>2. exec'.pc \notin Early
    <3>1. PICK o \in Orders : Reconcile(o) \/ CancelDue(o)
      BY <1>4 DEF Reconciliation, ReconcileAll, ReconcileSent, CancelBeforeHead
    <3>2. CASE Reconcile(o)
      <4>1. exec.pc = "idle" /\ UNCHANGED exec
        BY <3>2 DEF Reconcile, ReconcileFill, ReconcileFinalizedNoFill, ReconcileCanceled,
           ReconcileAbsent, Reconcilable, At
      <4> QED
        BY <4>1 DEF Early
    <3>3. CASE CancelDue(o)
      BY <3>3 DEF CancelDue, Handler, Early
    <3> QED
      BY <3>1, <3>2, <3>3
  <2> QED
    BY <2>1, <2>2, SameHead DEF HeadPlan
<1>5. CASE (\E o \in Orders : Trade(o)) \/ UNCHANGED allVars
  <2>1. UNCHANGED <<cycle, passed, manifest, exec>>
    BY <1>5 DEF Trade, Match, Withdraw, Arrive, Finalize, allVars, vars
  <2> QED
    BY <2>1, SameHead DEF HeadPlan
<1> QED
  BY <1>1, <1>2, <1>3, <1>4, <1>5 DEF Retries

LEMMA StepPlanned == ASSUME Planned, [RepairNext]_allVars PROVE Planned'
<1>1. Kept' /\ JudgedOpen'
  BY StepKeeps, StepJudgedOpen DEF Planned
<1>2. CASE \E B \in SUBSET Actions : BeginHead(B)
  BY <1>1, <1>2, BeginPlan DEF Planned
<1>3. CASE ~\E B \in SUBSET Actions : BeginHead(B)
  <2>1. Seen' /\ Observed' = Observed
    BY <1>3, ObservedStays
  <2>2. CASE Activate \/ Claims
    BY <1>1, <2>1, <2>2, ClaimsPlan DEF Planned
  <2>3. CASE ~Activate /\ ~Claims
    <3>1. Claimed' = Claimed
      BY <2>3, ClaimsStay DEF Claims
    <3>2. HeadPlan'
      BY <1>3, <2>1, <2>3, <3>1, IntakesPlan, ExecutorPlan, RowsPlan, OtherPlan
         DEF RepairNext, Intakes
    <3> QED
      BY <1>1, <2>1, <3>2 DEF Planned
  <2> QED
    BY <2>2, <2>3
<1> QED
  BY <1>2, <1>3

-----------------------------------------------------------------------------
\* A completed manifest.

LEMMA InFlightIsUnresolved ==
  ASSUME Sound, NEW a \in Actions
  PROVE  SideEffect(a) <=> Unresolved(a)
BY DEF Sound, ReservationBacksAttempt, SideEffect

\* Nothing of a completed manifest moves again.
LEMMA CompletedStays ==
  ASSUME Planned, CompletedIsSettled, [RepairNext]_allVars, manifest = "COMPLETED"
  PROVE  recovery' = recovery /\ \A a \in Claimed : ~SideEffect(a)'
<1>1. cycle.stage \notin RowStages
  BY DEF Planned, HeadPlan
<1>2. ~Rows
  BY <1>1, RowsMove
<1>3. ~Activate /\ ~ClaimDependents
  BY DEF Activate, ClaimDependents, Dependents, ActiveClaims
<1>4. recovery' = recovery
  BY <1>2, <1>3 DEF RepairNext, Claims, EndClaims, BeginCycle, Intakes, BeginHead, IntakeNext,
     EndIntake, Executor, Execute, Defer, IntakeFindsStale, Refuses, Retries,
     RetryPending, EndRetry, EndHead, Reconciliation, ReconcileAll, ReconcileSent,
     CancelBeforeHead, LoseHead, Die, Trade, allVars, tables
<1>5. ASSUME NEW a \in Claimed, SideEffect(a)' PROVE FALSE
  <2>1. a \in Actions /\ ~Unresolved(a)
    BY <1>5, InFlightIsUnresolved DEF CompletedIsSettled, Claimed, Planned, Kept
  <2>2. Sound'
    BY StepSound DEF Planned, Kept
  <2>3. Unresolved(a)'
    <3>1. reserved'[a] > 0 => Unresolved(a)'
      BY <2>1, <2>2 DEF Sound, ReservationBacksAttempt
    <3> QED
      BY <1>5, <3>1 DEF SideEffect
  <2>4. exec.pc = "prepare" /\ exec.act = a
    BY <2>1, <2>3, StepOfRows, NewlyUnresolved DEF Planned, Kept, Sound, Shape
  <2>5. cycle.stage = "intake" /\ a \in cycle.intake
    BY <1>1, <2>4 DEF Planned, HeadPlan, Early, RowStages, AtRows
  <2>6. a \in passed
    BY DEF Planned, HeadPlan
  <2> QED
    BY <2>5, <2>6 DEF Planned, HeadPlan
<1> QED
  BY <1>4, <1>5

LEMMA CompletedByEndCycle ==
  ASSUME Planned, [RepairNext]_allVars, manifest # "COMPLETED", manifest' = "COMPLETED"
  PROVE  EndCycle
<1>1. CASE Rows
  BY <1>1, RowsMove
<1>2. CASE ~Rows
  <2>1. UNCHANGED manifest \/ manifest' = "ACTIVE"
    BY <1>2 DEF RepairNext, Activate, Claims, ClaimDependents, EndClaims, BeginCycle, Intakes,
       BeginHead, IntakeNext, EndIntake, Executor, Execute, Defer, IntakeFindsStale,
       Refuses, Retries, RetryPending, EndRetry, EndHead, Reconciliation, ReconcileAll,
       ReconcileSent, CancelBeforeHead, LoseHead, Die, Trade, allVars, tables
  <2> QED
    BY <2>1
<1> QED
  BY <1>1, <1>2

LEMMA EndCycleSettles ==
  ASSUME Planned, EndCycle, manifest # "COMPLETED", manifest' = "COMPLETED"
  PROVE  CompletedIsSettled'
<1>1. recovery \in [Actions -> RecoveryStates]
  BY DEF Planned, Kept, Sound, Shape, RepairTypeOK
<1>2. \A a \in Claimed : recovery'[a] \in Settled
  BY DEF EndCycle
<1>3. Uncertain \notin Settled /\ "UNCLAIMED" \notin Settled /\ Uncertain # "UNCLAIMED"
  BY DEF Uncertain, Settled
<1>4. \A a \in Claimed : recovery[a] \in Settled /\ ~SideEffect(a)
  BY <1>1, <1>2, <1>3 DEF EndCycle, Claimed
<1>5. Claimed' = Claimed
  BY <1>1, <1>3 DEF EndCycle, Claimed
<1>6. \A a \in Actions : SideEffect(a)' <=> SideEffect(a)
  BY DEF EndCycle, vars, rows, SideEffect, Unresolved
<1>7. Claimed \subseteq Actions
  BY DEF Claimed
<1> QED
  BY <1>2, <1>4, <1>5, <1>6, <1>7 DEF CompletedIsSettled

Completing == Planned /\ CompletedIsSettled

LEMMA InitCompleting == RepairInit => Completing
<1> SUFFICES ASSUME RepairInit PROVE Completing
  OBVIOUS
<1>1. Kept /\ JudgedOpen
  BY InitAgreeing DEF Agreeing
<1>2. Observed = Gap
  BY GapAssumption DEF RepairInit, Observed
<1>3. Claimed = {} /\ Gap \subseteq passed
  BY GapAssumption, ActionsAssumption DEF RepairInit, Claimed
<1>4. exec.pc = "idle" /\ cycle.stage = "off" /\ manifest = "NONE"
  BY OffTyped DEF RepairInit, Idle
<1>5. Seen
  BY <1>2, <1>4 DEF RepairInit, Seen
<1>6. HeadPlan
  BY <1>2, <1>3, <1>4 DEF HeadPlan, RowStages, AtRows, Early
<1> QED
  BY <1>1, <1>4, <1>5, <1>6 DEF Completing, Planned, CompletedIsSettled

LEMMA StepCompleting == ASSUME Completing, [RepairNext]_allVars PROVE Completing'
<1>1. Planned'
  BY StepPlanned DEF Completing
<1>2. CompletedIsSettled'
  <2>1. CASE manifest = "COMPLETED"
    <3>1. recovery' = recovery /\ \A a \in Claimed : ~SideEffect(a)'
      BY <2>1, CompletedStays DEF Completing
    <3>2. Claimed' = Claimed
      BY <3>1 DEF Claimed
    <3> QED
      BY <2>1, <3>1, <3>2 DEF Completing, CompletedIsSettled
  <2>2. CASE manifest # "COMPLETED" /\ manifest' = "COMPLETED"
    BY <2>2, CompletedByEndCycle, EndCycleSettles DEF Completing
  <2>3. CASE manifest' # "COMPLETED"
    BY <2>3 DEF CompletedIsSettled
  <2> QED
    BY <2>1, <2>2, <2>3
<1> QED
  BY <1>1, <1>2 DEF Completing

\* A completed manifest stays settled: no later head, retry or restart submits
\* an order for what it had claimed, and nothing of it is left at the exchange.
THEOREM CompletionIsFinal == RepairSpec => []CompletedIsSettled
<1>1. RepairInit => Completing
  BY InitCompleting
<1>2. Completing /\ [RepairNext]_allVars => Completing'
  BY StepCompleting
<1>3. Completing => CompletedIsSettled
  BY DEF Completing
<1> QED
  BY <1>1, <1>2, <1>3, PTL DEF RepairSpec

-----------------------------------------------------------------------------
\* Actions in flight, and what stands before them in line.

\* The last transition of an action in flight.
FlightStates(a) ==
  UnresolvedStates \cup {s \in {"ACTIVE_CANCEL_COMPLETED"} : SideOf[a] = "BUY"}

FlightRow(a) ==
  Unresolved(a) => target[a].state \in UnresolvedStates /\ latest[a] \in FlightStates(a)

FlightRows == \A a \in Actions : FlightRow(a)

\* A handler writes nothing on an action in flight that would end it.
FlightHandled ==
  ~At("idle") =>
    /\ exec.pc = "entry" => latest[exec.act] \notin HandledStates
    /\ exec.pc = "entry" /\ Unresolved(exec.act) => exec.act \notin passed
    /\ exec.pc = "cancelled" => SideOf[exec.act] = "BUY"
    /\ exec.pc \in {"late", "planned", "prepare"} => ~Unresolved(exec.act)
    /\ exec.pc = "set" /\ Unresolved(exec.act) => exec.st \in UnresolvedStates
    /\ exec.pc = "append" /\ Unresolved(exec.act) => exec.st \in FlightStates(exec.act)
    /\ exec.pc = "append" => exec.st # "PENDING_CAUSAL_ORDER"

\* The cursor and the receipts leave no gap.
PassedFirst ==
  /\ \A a, c \in Actions :
       a \in passed \cup Observed /\ Rank[c] < Rank[a] => c \in passed \cup Observed
  /\ cycle.stage = "intake" => cycle.intake \subseteq Observed

\* An action nobody works on, and that the executor finds over.
Still(b) == (At("idle") \/ exec.act # b) /\ (latest[b] = "NONE" \/ ~Nonterminal(b))

Submitting(a) == Unresolved(a) \/ (exec.pc \in {"planned", "prepare"} /\ exec.act = a)

\* Until the cursor has passed an action in flight, all before it is over.
InFront ==
  \A a \in Actions \ passed, b \in Actions :
    Submitting(a) /\ Precedes(b, a) => Still(b)

\* The scope was asked about what was claimed or deferred.
ClaimsInScope ==
  \A a \in Actions :
    a \in Claimed \cup Gap \/ latest[a] = "PENDING_CAUSAL_ORDER" => scoped[a]

\* The executor inside a row works on the row; what is judged is not in flight.
RowHandled ==
  /\ cycle.stage \in AtRows =>
       /\ ~At("idle") => exec.act = Row
       /\ cycle.stage \in {"minimum", "frozen", "covered"} => ~Unresolved(Row)
  /\ cycle.stage = "rows" => At("idle")

\* What is covered by what is held ends without an order.
CoveredEnds == {"SKIPPED", "PARTIAL", "EXTERNAL_UNFILLABLE"}

Covering ==
  cycle.stage = "covered" =>
    /\ latest[Row] \in TerminalStates => latest[Row] \in CoveredEnds
    /\ exec.pc \in {"idle", "entry", "planned", "set", "append"}
    /\ exec.pc \in {"planned", "set", "append"} => exec.st \in CoveredEnds

Fronted ==
  /\ Planned
  /\ FlightRows
  /\ FlightHandled
  /\ PassedFirst
  /\ InFront
  /\ ClaimsInScope
  /\ RowHandled
  /\ Covering

LEMMA FlightFacts ==
  ASSUME Fronted, NEW a \in Actions
  PROVE  /\ Unresolved(a) =>
              /\ target[a].state \in UnresolvedStates /\ latest[a] \in FlightStates(a)
              /\ target[a].state \notin RetryableStates \cup TerminalStates \cup {"ABSENT"}
              /\ latest[a] \notin TerminalStates \cup {"NONE", "PENDING_CAUSAL_ORDER"}
              /\ scoped[a] /\ HasTarget(a) /\ a \in Observed
         /\ SideEffect(a) <=> Unresolved(a)
         /\ latest \in [Actions -> LatestStates] /\ target \in [Actions -> TargetRows]
         /\ target[a] \in TargetRows
         /\ Kept /\ Typed /\ Sound
<1>1. Kept /\ Typed /\ Sound
  BY DEF Fronted, Planned, Kept, Sound, Shape
<1>2. /\ latest \in [Actions -> LatestStates] /\ target \in [Actions -> TargetRows]
      /\ target[a] \in TargetRows
      /\ Unresolved(a) => scoped[a]
  BY <1>1, RowFacts
<1>3. SideEffect(a) <=> Unresolved(a)
  BY <1>1, InFlightIsUnresolved
<1>4. UnresolvedStates \cap RetryableStates = {}
  BY EndedStates
<1>5. FlightStates(a) \cap (TerminalStates \cup {"NONE", "PENDING_CAUSAL_ORDER"}) = {}
  BY DEF FlightStates, UnresolvedStates, TerminalStates
<1>6. Unresolved(a) => target[a].state \in UnresolvedStates /\ latest[a] \in FlightStates(a)
  BY DEF Fronted, FlightRows, FlightRow
<1>7. Unresolved(a) => HasTarget(a) /\ a \in Observed
  BY <1>1, <1>6, Disjoint, UnresolvedIsSeen DEF HasTarget, Fronted, Planned
<1> QED
  BY <1>1, <1>2, <1>3, <1>4, <1>5, <1>6, <1>7, Disjoint

LEMMA StillFacts ==
  ASSUME Fronted, NEW b \in Actions, Still(b)
  PROVE  /\ ~Unresolved(b) /\ ~SideEffect(b)
         /\ latest[b] \in TerminalStates \cup {"NONE"}
         /\ latest[b] # "NONE" =>
              latest[b] \in TerminalStates /\ target[b].state \in TerminalStates \cup {"ABSENT"}
         /\ latest[b] # "PENDING_CAUSAL_ORDER"
<1>1. "PENDING_CAUSAL_ORDER" \notin TerminalStates
  BY DEF TerminalStates
<1> QED
  BY <1>1, FlightFacts DEF Still, Nonterminal

\* Behind an action that is first in line all is over.
LEMMA FrontIsOver ==
  ASSUME NEW a \in Actions, InOrder(a), exec.act = a, NEW b \in Actions, Precedes(b, a)
  PROVE  Still(b)
<1>1. b # a
  BY ActionsAssumption DEF Precedes
<1> QED
  BY <1>1 DEF InOrder, PriorNonterminal, Earlier, Still, Precedes

\* Nothing behind an action still waits when all behind it is over.
LEMMA OverIsInFront ==
  ASSUME Fronted, NEW a \in Actions,
         \A b \in Actions : Precedes(b, a) => Still(b)
  PROVE  ~PriorUnresolved(a) /\ ~PriorNonterminal(a) /\ EarlierOpposites(a) = {}
<1>1. ASSUME NEW b \in Actions, Earlier(b, a)
      PROVE  ~SideEffect(b) /\ ~Nonterminal(b) /\ target[b].state \notin RetryableStates
  <2>1. Still(b) /\ latest[b] # "NONE"
    BY <1>1 DEF Earlier, Precedes
  <2> QED
    BY <2>1, StillFacts, Disjoint DEF Still, Nonterminal
<1> QED
  BY <1>1 DEF PriorUnresolved, PriorNonterminal, EarlierOpposites

LEMMA StillStays ==
  ASSUME Fronted, [RepairNext]_allVars, NEW b \in Actions, Still(b),
         latest[b] = "NONE" => b \in passed,
         cycle.stage \in AtRows => b # Row
  PROVE  Still(b)'
<1>1. /\ Kept /\ Typed /\ ~Unresolved(b) /\ Shape /\ Sound
      /\ latest[b] \in TerminalStates \cup {"NONE"}
      /\ latest \in [Actions -> LatestStates] /\ target \in [Actions -> TargetRows]
  BY FlightFacts, StillFacts DEF Sound
<1>2. ASSUME latest'[b] = latest[b], target'[b] = target[b], exec'.pc = "idle" \/ exec'.act # b
      PROVE  Still(b)'
  BY <1>2 DEF Still, Nonterminal, At
<1>3. exec.pc = "idle" \/ exec.act # b
  BY DEF Still, At
<1>4. ASSUME NEW a \in Actions, HandlerStep(a) PROVE Still(b)'
  <2>1. a # b
    <3>1. CASE ProcessSourceAction(a)
      BY <1>1, <3>1, Disjoint DEF ProcessSourceAction
    <3>2. CASE CloseRetry(a)
      BY <1>1, <3>2, Disjoint DEF CloseRetry, LiquidityEvidence
    <3>3. CASE ~ProcessSourceAction(a) /\ ~CloseRetry(a)
      BY <1>1, <1>3, <1>4, <3>3, Acting
    <3> QED
      BY <3>1, <3>2, <3>3
  <2>2. latest'[b] = latest[b] /\ target'[b] = target[b]
    <3>1. CASE SupersedeEarlierOpposites(a)
      <4>1. b \notin EarlierOpposites(a)
        BY StillFacts, Disjoint DEF EarlierOpposites, Earlier
      <4> QED
        BY <3>1, <4>1 DEF SupersedeEarlierOpposites
    <3>2. CASE ~SupersedeEarlierOpposites(a)
      BY <1>1, <1>4, <2>1, <3>2, OthersSame DEF Same
    <3> QED
      BY <3>1, <3>2
  <2>3. exec'.pc = "idle" \/ exec'.act = a
    BY <1>1, <1>4, PlanWrote, SubmitWrote DEF HandlerStep, Leaves
  <2> QED
    BY <1>2, <2>1, <2>2, <2>3
<1>5. ASSUME NEW o \in Orders, Reconcile(o) \/ CancelDue(o) PROVE Still(b)'
  <2>1. Listed(o) /\ exec.pc = "idle" /\ o[1] \in Actions /\ o[2] \in Attempts
        /\ o = <<o[1], o[2]>>
    BY <1>5 DEF Reconcile, ReconcileFill, ReconcileFinalizedNoFill, ReconcileCanceled,
       ReconcileAbsent, Reconcilable, CancelDue, At, Orders
  <2>2. o[1] # b
    BY <1>1, <2>1 DEF Listed, Unresolved
  <2>3. CASE Reconcile(o)
    <3>1. Same(b)
      BY <1>1, <2>2, <2>3, ReconcileSame
    <3>2. UNCHANGED exec
      BY <2>3 DEF Reconcile, ReconcileFill, ReconcileFinalizedNoFill, ReconcileCanceled,
         ReconcileAbsent
    <3> QED
      BY <1>2, <1>3, <3>1, <3>2 DEF Same
  <2>4. CASE CancelDue(o)
    BY <1>2, <2>2, <2>4 DEF CancelDue, Handler, rows
  <2> QED
    BY <1>5, <2>3, <2>4
<1>6. CASE Venue \/ Crash \/ UNCHANGED vars
  <2>1. UNCHANGED rows /\ (UNCHANGED exec \/ exec' = Idle)
    BY <1>6 DEF Venue, Match, Withdraw, Arrive, Finalize, Crash, Done, vars
  <2> QED
    BY <1>2, <1>3, <2>1 DEF rows, Idle
<1>7. CASE RecoveryStep
  <2>1. ASSUME NEW B \in SUBSET Actions, BeginHead(B) PROVE Still(b)'
    <3>1. latest'[b] = latest[b]
      BY <2>1 DEF BeginHead
    <3> QED
      BY <1>2, <1>3, <2>1, <3>1 DEF BeginHead
  <2>2. CASE FailStaleRow
    <3>1. Row \in Actions /\ Row # b
      BY <1>1, <2>2, RowAt DEF FailStaleRow, Stage, AtRows
    <3>2. latest'[b] = latest[b] /\ target'[b] = target[b] /\ UNCHANGED exec
      BY <2>2, <3>1 DEF FailStaleRow, Release, Append, SetTarget
    <3> QED
      BY <1>2, <1>3, <3>2
  <2>3. ASSUME NEW a \in Actions, NEW s, a # b, Closes(a, s) PROVE Still(b)'
    <3>1. latest'[b] = latest[b] /\ target'[b] = target[b] /\ exec'.act = a
      BY <2>3 DEF Closes, Handler
    <3> QED
      BY <1>2, <2>3, <3>1
  <2>4. ASSUME NEW a \in Actions, NEW s, a # b, Reopen(a, s) PROVE Still(b)'
    <3>1. latest'[b] = latest[b] /\ target'[b] = target[b] /\ exec'.act = a
      BY <2>4 DEF Reopen, Append, Begun, Handler
    <3> QED
      BY <1>2, <2>4, <3>1
  <2>5. CASE CloseBelowMinimum
    <3>1. Row # b
      BY <2>5 DEF CloseBelowMinimum, Stage, AtRows
    <3> QED
      BY <1>1, <2>3, <2>5, <3>1, ClosingCloses
  <2>6. CASE ExecuteFrozen
    <3>1. Row # b /\ Row \in Actions
      BY <1>1, <2>6, RowAt DEF ExecuteFrozen, Stage, AtRows
    <3> QED
      BY <2>4, <2>6, <3>1 DEF ExecuteFrozen
  <2>7. ASSUME NEW a \in Actions, ExecuteNothing(a) \/ CloseOfficially(a) PROVE Still(b)'
    <3>1. a # b
      BY <2>7 DEF ExecuteNothing, CloseOfficially, Resolvable, Effective, Judged, Stage, AtRows
    <3> QED
      BY <1>1, <2>3, <2>4, <2>7, <3>1, ClosingCloses DEF ExecuteNothing
  <2> QED
    BY <1>7, <2>1, <2>2, <2>5, <2>6, <2>7 DEF RecoveryStep
<1> QED
  BY <1>1, <1>4, <1>5, <1>6, <1>7, StepOfRows DEF StoreStep, Maintain, HandlerStep, Shape

\* What a handler may do to an action in flight.
LEMMA FlightSteps ==
  ASSUME Fronted, NEW a \in Actions, HandlerStep(a), Unresolved(a)
  PROVE  /\ ~ScopeRefuses(a) /\ ~ScopeAccepts(a) /\ ~LateUnfillable(a)
         /\ ~DeferToEarlierAction(a) /\ ~CloseUnsellable(a) /\ ~FailStaleTarget(a)
         /\ ~PlanFails(a) /\ ~PlanFirst(a) /\ ~PlanRemainder(a)
         /\ ~RecordPlan(a) /\ ~PreparationFails(a) /\ ~CloseRetry(a)
         /\ \A n \in Attempts : ~BeginSubmissionAttempt(a, n)
<1>1. /\ SideEffect(a) /\ scoped[a] /\ HasTarget(a) /\ latest[a] \in FlightStates(a)
      /\ Kept /\ Typed
  BY FlightFacts
<1>2. ~ScopeRefuses(a) /\ ~ScopeAccepts(a)
  BY <1>1 DEF ScopeRefuses, ScopeAccepts
<1>3. ~FailStaleTarget(a) /\ ~PlanFails(a) /\ ~PlanFirst(a) /\ ~PlanRemainder(a) /\ ~CloseRetry(a)
      /\ \A n \in Attempts : ~BeginSubmissionAttempt(a, n)
  BY <1>1 DEF FailStaleTarget, PlanFails, PlanFirst, PlanRemainder, Plannable, Sizable,
              CloseRetry, LiquidityEvidence, BeginSubmissionAttempt
<1>4. ~LateUnfillable(a) /\ ~RecordPlan(a) /\ ~PreparationFails(a)
  BY DEF Fronted, FlightHandled, LateUnfillable, RecordPlan, PreparationFails, Busy, At
<1>5. ~DeferToEarlierAction(a)
  <2> SUFFICES ASSUME DeferToEarlierAction(a) PROVE FALSE
    OBVIOUS
  <2>1. exec.pc = "entry" /\ exec.act = a
    BY DEF DeferToEarlierAction, Executing, Busy, At
  <2>2. a \notin passed
    BY <2>1 DEF Fronted, FlightHandled, At
  <2>3. \A b \in Actions : Precedes(b, a) => Still(b)
    BY <2>2 DEF Fronted, InFront, Submitting
  <2>4. ~PriorUnresolved(a) /\ ~PriorNonterminal(a)
    BY <2>3, OverIsInFront
  <2> QED
    BY <2>4 DEF DeferToEarlierAction
<1>6. ~CloseUnsellable(a)
  <2> SUFFICES ASSUME CloseUnsellable(a) PROVE FALSE
    OBVIOUS
  <2>1. exec.pc = "entry" /\ exec.act = a /\ latest[a] # "SUBMIT_STARTED"
    BY DEF CloseUnsellable, InOrder, Executing, Busy, At
  <2>2. latest[a] \notin HandledStates
    BY <2>1 DEF Fronted, FlightHandled, At
  <2>3. latest[a] \in UnresolvedStates
    BY <1>1 DEF FlightStates, CloseUnsellable, NothingToSell
  <2> QED
    BY <2>1, <2>2, <2>3 DEF HandledStates, UnresolvedStates
<1> QED
  BY <1>2, <1>3, <1>4, <1>5, <1>6

LEMMA FlightOf ==
  ASSUME Fronted, NEW a \in Actions, HandlerStep(a), Unresolved(a)'
  PROVE  target'[a].state \in UnresolvedStates /\ latest'[a] \in FlightStates(a)
<1>0. /\ latest \in [Actions -> LatestStates] /\ target \in [Actions -> TargetRows]
      /\ Kept /\ Typed /\ Sound
  BY FlightFacts
<1>1. UnresolvedStates \subseteq FlightStates(a)
  BY DEF FlightStates
<1>2. CASE \E n \in Attempts : BeginSubmissionAttempt(a, n)
  <2>1. target'[a].state = "SUBMIT_STARTED" /\ latest'[a] = "SUBMIT_STARTED"
    BY <1>0, <1>2 DEF BeginSubmissionAttempt, SetTarget, Append, TargetRows
  <2> QED
    BY <1>1, <2>1 DEF UnresolvedStates
<1>3. CASE ~(\E n \in Attempts : BeginSubmissionAttempt(a, n))
  <2>1. Unresolved(a)
    <3>1. CASE exec.pc = "prepare" /\ exec.act = a
      <4>1. ~ProcessSourceAction(a) /\ ~CloseRetry(a)
        BY <3>1 DEF ProcessSourceAction, CloseRetry, At
      <4>2. UNCHANGED attempt
        BY <1>3, <3>1, <4>1
           DEF HandlerStep, Plan, Submit, ScopeRefuses, ScopeAccepts, LateUnfillable,
           RecoverSubmitStarted, DeferToEarlierAction, SupersedeEarlierOpposites,
           CloseUnsellable, Refuse, FailStaleTarget, PlanFails, PlanFirst, PlanRemainder,
           RecordPlan, PreparationFails, PostAnswered, PostUnanswered, PostRejected,
           RecordAttempt, RecordTarget, RecordTransition, RecordCancellation, Busy, At, rows
      <4> QED
        BY <4>2 DEF Unresolved
    <3>2. CASE ~(exec.pc = "prepare" /\ exec.act = a)
      <4>1. StoreStep
        BY DEF StoreStep, Maintain, HandlerStep
      <4> QED
        BY <1>0, <3>2, <4>1, NewlyUnresolved
    <3> QED
      BY <3>1, <3>2
  <2>2. target[a].state \in UnresolvedStates /\ latest[a] \in FlightStates(a)
    BY <2>1, FlightFacts
  <2>3. CASE ProcessSourceAction(a) \/ Refuse(a) \/ PostAnswered(a) \/ PostUnanswered(a)
             \/ RecordAttempt(a) \/ RecordCancellation(a)
    BY <2>2, <2>3 DEF ProcessSourceAction, Refuse, PostAnswered, PostUnanswered,
       RecordAttempt, RecordCancellation, rows
  <2>4. CASE RecoverSubmitStarted(a)
    <3>1. target'[a] = target[a] /\ latest'[a] = "UNKNOWN_SUBMISSION"
      BY <1>0, <2>4 DEF RecoverSubmitStarted, Append
    <3> QED
      BY <1>1, <2>2, <3>1 DEF UnresolvedStates
  <2>5. CASE SupersedeEarlierOpposites(a)
    <3>1. a \notin EarlierOpposites(a)
      BY DEF EarlierOpposites
    <3> QED
      BY <2>2, <2>5, <3>1 DEF SupersedeEarlierOpposites
  <2>6. CASE PostRejected(a)
    <3>1. exec \in Handlers /\ exec.act = a /\ exec.pc = "post"
      BY <1>0, <2>6, Acting DEF HandlerStep, Submit, PostRejected, ProcessSourceAction,
         CloseRetry, Busy, At
    <3>2. exec.n \in Attempts /\ attempt[<<a, exec.n>>].state \in UnresolvedStates
      BY <1>0, <3>1 DEF Sound, Working, Handlers
    <3>3. PICK s \in {"NO_FILL", "REJECTED_INTERNAL"} : SetAttempt(<<a, exec.n>>, s)
      BY <2>6 DEF PostRejected
    <3>4. attempt'[<<a, exec.n>>].state = s /\ s \notin UnresolvedStates
      BY <1>0, <3>2, <3>3 DEF SetAttempt, AttemptRows, UnresolvedStates, Typed, TypeOK, Orders
    <3>5. \A n \in Attempts : n # exec.n => attempt'[<<a, n>>] = attempt[<<a, n>>]
      BY <1>0, <3>2, <3>3 DEF SetAttempt, Typed, TypeOK, Orders
    <3>6. \A n \in Attempts : attempt'[<<a, n>>].state \notin UnresolvedStates
      BY <1>0, <3>2, <3>4, <3>5 DEF Sound, ReservationBacksAttempt
    <3> QED
      BY <3>6 DEF Unresolved
  <2>7. CASE RecordTarget(a)
    <3>1. exec.act = a /\ exec.pc = "set"
      BY <2>7 DEF RecordTarget, Busy, At
    <3>2. exec.st \in UnresolvedStates
      BY <2>1, <3>1 DEF Fronted, FlightHandled, At
    <3>3. target'[a].state = exec.st /\ latest'[a] = latest[a]
      BY <1>0, <2>7 DEF RecordTarget, SetTarget, TargetRows
    <3> QED
      BY <2>2, <3>2, <3>3
  <2>8. CASE RecordTransition(a)
    <3>1. exec.act = a /\ exec.pc = "append"
      BY <2>8 DEF RecordTransition, Busy, At
    <3>2. exec.st \in FlightStates(a)
      BY <2>1, <3>1 DEF Fronted, FlightHandled, At
    <3>3. latest'[a] = exec.st /\ target'[a] = target[a]
      BY <1>0, <2>8 DEF RecordTransition, Append
    <3> QED
      BY <2>2, <3>2, <3>3
  <2> QED
    BY <1>3, <2>1, <2>3, <2>4, <2>5, <2>6, <2>7, <2>8, FlightSteps DEF HandlerStep, Plan, Submit
<1> QED
  BY <1>2, <1>3

LEMMA ReconciledFlight ==
  ASSUME Fronted, NEW o \in Orders, Reconcile(o), Unresolved(o[1])'
  PROVE  target'[o[1]].state \in UnresolvedStates /\ latest'[o[1]] \in FlightStates(o[1])
<1> DEFINE a == o[1]
<1>1. /\ a \in Actions /\ o[2] \in Attempts /\ o = <<a, o[2]>>
      /\ attempt[o].state \in UnresolvedStates /\ attempt[o] \in AttemptRows
      /\ Typed /\ Sound
      /\ latest \in [Actions -> LatestStates] /\ target \in [Actions -> TargetRows]
  <2>1. /\ a \in Actions /\ o[2] \in Attempts /\ o = <<a, o[2]>>
        /\ attempt[o].state \in UnresolvedStates
    BY DEF Reconcile, ReconcileFill, ReconcileFinalizedNoFill, ReconcileCanceled,
       ReconcileAbsent, Reconcilable, Listed, Orders
  <2> QED
    BY <2>1, FlightFacts DEF Typed, TypeOK
<1>2. \A n \in Attempts : n # o[2] => attempt[<<a, n>>].state \notin UnresolvedStates
  BY <1>1 DEF Sound, ReservationBacksAttempt
<1>3. CASE ReconcileAbsent(o)
  <2>1. target'[a].state = "UNKNOWN_SUBMISSION" /\ latest'[a] = "UNKNOWN_SUBMISSION"
    BY <1>1, <1>3 DEF ReconcileAbsent, SetTarget, Append, TargetRows
  <2> QED
    BY <2>1 DEF UnresolvedStates, FlightStates
<1>4. CASE ~ReconcileAbsent(o)
  <2>1. attempt'[o].state \notin UnresolvedStates
        /\ \A n \in Attempts : n # o[2] => attempt'[<<a, n>>] = attempt[<<a, n>>]
    <3>0. attempt \in [Orders -> AttemptRows]
      BY <1>1 DEF Typed, TypeOK
    <3>1. CASE ReconcileFill(o)
      <4>1. PICK s \in {"FILLED", "PARTIAL_FILLED"}, q \in Readings(o) :
              attempt' = [attempt EXCEPT ![o].state = s, ![o].booked = q]
        BY <3>1 DEF ReconcileFill
      <4>2. attempt'[o].state = s
        BY <1>1, <3>0, <4>1 DEF AttemptRows
      <4>3. \A n \in Attempts : n # o[2] => attempt'[<<a, n>>] = attempt[<<a, n>>]
        BY <1>1, <3>0, <4>1 DEF Orders
      <4> QED
        BY <4>2, <4>3 DEF UnresolvedStates
    <3>2. CASE ~ReconcileFill(o)
      <4>1. SetAttempt(o, "NO_FILL")
        BY <1>4, <3>2 DEF Reconcile, ReconcileFinalizedNoFill, ReconcileCanceled
      <4> QED
        BY <1>1, <3>0, <4>1 DEF SetAttempt, AttemptRows, UnresolvedStates
    <3> QED
      BY <3>1, <3>2
  <2>2. \A n \in Attempts : attempt'[<<a, n>>].state \notin UnresolvedStates
    BY <1>1, <1>2, <2>1
  <2> QED
    BY <2>2 DEF Unresolved
<1> QED
  BY <1>3, <1>4

\* What a handler on an action may come to.
FlightTo(a) ==
  /\ exec'.act = a
  /\ exec'.pc = "entry" =>
       latest'[a] \notin HandledStates /\ (Unresolved(a)' => a \notin passed)
  /\ exec'.pc = "cancelled" => SideOf[a] = "BUY"
  /\ exec'.pc \in {"late", "planned", "prepare"} => ~Unresolved(a)'
  /\ exec'.pc = "set" /\ Unresolved(a)' => exec'.st \in UnresolvedStates
  /\ exec'.pc = "append" /\ Unresolved(a)' => exec'.st \in FlightStates(a)
  /\ exec'.pc = "append" => exec'.st # "PENDING_CAUSAL_ORDER"

LEMMA FlightGoes ==
  ASSUME UNCHANGED passed, NEW a \in Actions, exec'.pc = "idle" \/ FlightTo(a)
  PROVE  FlightHandled'
BY DEF FlightHandled, FlightTo, At

LEMMA NotDeferred ==
  "PENDING_CAUSAL_ORDER" \notin TargetStates \cup LiquidityStates
                                \cup {"EXTERNAL_UNFILLABLE", "PARTIAL", "ACTIVE_CANCEL_COMPLETED"}
BY DEF TargetStates, UnresolvedStates, TerminalStates, RetryableStates, LiquidityStates

LEMMA PlanFlight ==
  ASSUME Fronted, NEW a \in Actions, Plan(a), ~ProcessSourceAction(a)
  PROVE  exec'.pc = "idle" \/ FlightTo(a)
<1>0. /\ latest \in [Actions -> LatestStates] /\ target \in [Actions -> TargetRows]
      /\ Kept /\ Typed /\ Sound /\ HandlerStep(a)
  BY FlightFacts DEF HandlerStep
<1>1. exec \in Handlers /\ exec.act = a /\ exec.pc # "idle"
  <2>1. ~CloseRetry(a)
    BY DEF Plan, CloseRetry, At, ProcessSourceAction, ScopeRefuses, ScopeAccepts,
       LateUnfillable, RecoverSubmitStarted, DeferToEarlierAction, SupersedeEarlierOpposites,
       CloseUnsellable, Refuse, FailStaleTarget, PlanFails, PlanFirst, PlanRemainder,
       RecordPlan, PreparationFails, Plannable, Sizable, InOrder, Executing, Busy
  <2> QED
    BY <1>0, <2>1, Acting
<1>2. CASE \/ ScopeRefuses(a) \/ RecoverSubmitStarted(a) \/ DeferToEarlierAction(a)
           \/ Refuse(a) \/ FailStaleTarget(a)
  BY <1>2 DEF ScopeRefuses, RecoverSubmitStarted, DeferToEarlierAction, Refuse,
     FailStaleTarget, Done, Idle
<1>3. CASE ScopeAccepts(a)
  <2>1. PICK pc \in {"entry", "late"} : Then(pc, "NONE")
    BY <1>3 DEF ScopeAccepts
  <2>2. exec'.pc = pc /\ exec'.act = a
    BY <1>1, <2>1, Moves
  <2>3. latest'[a] = "SCOPE_ELIGIBLE" /\ ~Unresolved(a)'
    BY <1>0, <1>3, FlightSteps DEF ScopeAccepts, Append, Unresolved
  <2>4. "SCOPE_ELIGIBLE" \notin HandledStates
    BY DEF HandledStates, TerminalStates
  <2> QED
    BY <2>2, <2>3, <2>4 DEF FlightTo
<1>4. CASE LateUnfillable(a)
  <2>1. exec'.pc = "append" /\ exec'.act = a /\ exec'.st = "EXTERNAL_UNFILLABLE"
    BY <1>1, <1>4, Moves DEF LateUnfillable
  <2>2. ~Unresolved(a)'
    BY <1>0, <1>4, FlightSteps DEF LateUnfillable, Unresolved
  <2> QED
    BY <2>1, <2>2 DEF FlightTo
<1>5. CASE SupersedeEarlierOpposites(a)
  <2>1. exec' = exec /\ exec.pc = "entry" /\ UNCHANGED attempt
    BY <1>5 DEF SupersedeEarlierOpposites, Executing, Busy, At
  <2>2. a \notin EarlierOpposites(a)
    BY DEF EarlierOpposites
  <2>3. latest'[a] = latest[a]
    BY <1>5, <2>2 DEF SupersedeEarlierOpposites
  <2> QED
    BY <1>1, <2>1, <2>3 DEF FlightTo, Fronted, FlightHandled, Unresolved, At
<1>6. CASE CloseUnsellable(a)
  <2>1. exec'.pc = "set" /\ exec'.act = a
    BY <1>1, <1>6, Moves DEF CloseUnsellable
  <2>2. ~Unresolved(a)'
    BY <1>0, <1>6, FlightSteps DEF CloseUnsellable, Unresolved
  <2> QED
    BY <2>1, <2>2 DEF FlightTo
<1>7. CASE PlanFails(a)
  <2>1. CASE Done
    BY <2>1 DEF Done, Idle
  <2>2. CASE ~Done
    <3>1. LiquidityEvidence(a) /\ Then("append", target[a].state)
      BY <1>7, <2>2 DEF PlanFails
    <3>2. exec'.pc = "append" /\ exec'.act = a /\ exec'.st \in LiquidityStates
      BY <1>1, <3>1, Moves DEF LiquidityEvidence
    <3>3. ~Unresolved(a)'
      BY <1>0, <1>7, FlightSteps DEF PlanFails, Unresolved
    <3> QED
      BY <3>2, <3>3, NotDeferred DEF FlightTo
  <2> QED
    BY <2>1, <2>2
<1>8. CASE PlanFirst(a) \/ PlanRemainder(a)
  <2>1. PICK s, q : exec' = [exec EXCEPT !.pc = "planned", !.st = s, !.q = q]
    BY <1>8 DEF PlanFirst, PlanRemainder
  <2>2. exec'.pc = "planned" /\ exec'.act = a
    BY <1>1, <2>1 DEF Handlers
  <2>3. ~Unresolved(a)'
    BY <1>0, <1>8, FlightSteps DEF PlanFirst, PlanRemainder, Unresolved, rows
  <2> QED
    BY <2>2, <2>3 DEF FlightTo
<1>9. CASE RecordPlan(a) \/ PreparationFails(a)
  <2>1. exec'.pc \in {"prepare", "set"} /\ exec'.act = a
    BY <1>1, <1>9 DEF RecordPlan, PreparationFails, Then, Handlers
  <2>2. ~Unresolved(a)'
    BY <1>0, <1>9, FlightSteps DEF RecordPlan, PreparationFails, Unresolved, rows
  <2> QED
    BY <2>1, <2>2 DEF FlightTo
<1> QED
  BY <1>2, <1>3, <1>4, <1>5, <1>6, <1>7, <1>8, <1>9 DEF Plan

LEMMA SubmitFlight ==
  ASSUME Fronted, NEW a \in Actions, Submit(a) \/ RecordCancellation(a) \/ CloseRetry(a)
  PROVE  exec'.pc = "idle" \/ FlightTo(a)
<1>0. /\ latest \in [Actions -> LatestStates] /\ target \in [Actions -> TargetRows]
      /\ Kept /\ Typed /\ Sound /\ HandlerStep(a)
  BY FlightFacts DEF HandlerStep
<1>1. CASE CloseRetry(a)
  <2>1. exec'.pc = "append" /\ exec'.act = a /\ exec'.st \in {"PARTIAL", "EXTERNAL_UNFILLABLE"}
    BY <1>1 DEF CloseRetry, Handler, Unfillable
  <2>2. ~Unresolved(a)'
    BY <1>0, <1>1, FlightSteps DEF CloseRetry, Unresolved
  <2> QED
    BY <2>1, <2>2 DEF FlightTo
<1>2. CASE ~CloseRetry(a)
  <2>0. exec \in Handlers /\ exec.act = a /\ exec.pc # "idle"
    <3>1. exec.pc # "idle"
      BY <1>2 DEF Submit, BeginSubmissionAttempt, PostAnswered, PostUnanswered, PostRejected,
         RecordAttempt, RecordTarget, RecordTransition, RecordCancellation, Busy, At
    <3> QED
      BY <1>0, <1>2, <3>1, Acting DEF ProcessSourceAction, At
  <2>1. ASSUME NEW n \in Attempts, BeginSubmissionAttempt(a, n) PROVE FlightTo(a)
    BY <2>0, <2>1 DEF BeginSubmissionAttempt, Handlers, FlightTo
  <2>2. CASE PostAnswered(a) \/ PostUnanswered(a)
    <3>1. PICK s, r : exec' = [exec EXCEPT !.pc = "attempt", !.st = s, !.resp = r]
      BY <2>2 DEF PostAnswered, PostUnanswered
    <3>2. exec'.pc = "attempt" /\ exec'.act = a
      BY <2>0, <3>1 DEF Handlers
    <3> QED
      BY <3>2 DEF FlightTo
  <2>3. CASE PostRejected(a) \/ RecordTransition(a)
    BY <2>3 DEF PostRejected, RecordTransition, Done, Idle
  <2>4. CASE RecordAttempt(a)
    <3>1. exec.st \in UnresolvedStates
      BY <1>0, <2>4, InStep DEF RecordAttempt, PCs, Pending
    <3>2. exec'.pc = "set" /\ exec'.act = a /\ exec'.st = exec.st
      BY <2>0, <2>4, Moves DEF RecordAttempt
    <3> QED
      BY <3>1, <3>2 DEF FlightTo
  <2>5. CASE RecordTarget(a)
    <3>1. exec.st \in TargetStates /\ exec.pc = "set"
      BY <1>0, <2>5, InStep DEF RecordTarget, PCs, Pending
    <3>2. exec'.pc = "append" /\ exec'.act = a /\ exec'.st = exec.st /\ UNCHANGED attempt
      BY <2>0, <2>5, Moves DEF RecordTarget
    <3>3. Unresolved(a)' => exec.st \in UnresolvedStates
      BY <2>0, <3>1, <3>2 DEF Fronted, FlightHandled, Unresolved, At
    <3> QED
      BY <3>1, <3>2, <3>3, NotDeferred DEF FlightTo, FlightStates
  <2>6. CASE RecordCancellation(a)
    <3>1. SideOf[a] = "BUY"
      BY <2>0, <2>6 DEF RecordCancellation, Busy, At, Fronted, FlightHandled
    <3>2. exec'.pc = "append" /\ exec'.act = a /\ exec'.st = "ACTIVE_CANCEL_COMPLETED"
      BY <2>0, <2>6, Moves DEF RecordCancellation
    <3> QED
      BY <3>1, <3>2 DEF FlightTo, FlightStates
  <2> QED
    BY <1>2, <2>1, <2>2, <2>3, <2>4, <2>5, <2>6 DEF Submit
<1> QED
  BY <1>1, <1>2

\* What a step of the recovery does to the rows: it works on the row it has
\* come to, which is not in flight, or it records what was not yet observed.
LEMMA RecoveryActs ==
  ASSUME Fronted, RecoveryStep
  PROVE  \/ \E B \in SUBSET Actions : BeginHead(B)
         \/ /\ cycle.stage \in AtRows /\ exec.pc = "idle"
            /\ Row \in Actions /\ ~Unresolved(Row)
            /\ UNCHANGED <<attempt, scoped>>
            /\ \A b \in Actions : b # Row => latest'[b] = latest[b] /\ target'[b] = target[b]
            /\ latest'[Row] \in {latest[Row], "OBSERVED", "ERROR_INTERNAL"}
            /\ \/ UNCHANGED exec
               \/ exec'.act = Row /\ exec'.pc = "entry" /\ latest'[Row] = "OBSERVED"
               \/ /\ exec'.act = Row /\ exec'.pc = "append"
                  /\ exec'.st \in {"EXTERNAL_UNFILLABLE", "PARTIAL"}
<1>0. /\ Shape /\ latest \in [Actions -> LatestStates] /\ target \in [Actions -> TargetRows]
      /\ \A a \in Actions : Unresolved(a) => SideEffect(a) /\ HasTarget(a)
  <2>1. Shape
    BY DEF Fronted, Planned, Kept, Sound
  <2>2. latest \in [Actions -> LatestStates] /\ target \in [Actions -> TargetRows]
    BY <2>1 DEF Shape, Typed, TypeOK
  <2>3. \A a \in Actions : Unresolved(a) => SideEffect(a) /\ HasTarget(a)
    BY FlightFacts
  <2> QED
    BY <2>1, <2>2, <2>3
<1>1. CASE FailStaleRow
  <2>1. cycle.stage \in AtRows /\ Row \in Actions /\ ~SideEffect(Row) /\ exec.pc = "idle"
    BY <1>0, <1>1, RowAt DEF FailStaleRow, Stage, AtRows, At
  <2> QED
    BY <1>0, <1>1, <2>1 DEF FailStaleRow, Release, Append, SetTarget
<1>2. ASSUME NEW a \in Actions, a = Row, NEW s \in {"EXTERNAL_UNFILLABLE", "PARTIAL"},
             Closes(a, s)
      PROVE  /\ UNCHANGED <<attempt, scoped>>
             /\ \A b \in Actions : b # a => latest'[b] = latest[b] /\ target'[b] = target[b]
             /\ latest' = latest
             /\ exec'.act = a /\ exec'.pc = "append" /\ exec'.st = s
  BY <1>0, <1>2 DEF Closes, Handler
<1>3. ASSUME NEW a \in Actions, NEW s, Reopen(a, s)
      PROVE  /\ UNCHANGED <<attempt, scoped>>
             /\ \A b \in Actions : b # a => latest'[b] = latest[b] /\ target'[b] = target[b]
             /\ exec'.act = a /\ exec'.pc = "entry" /\ latest'[a] = "OBSERVED"
  BY <1>0, <1>3 DEF Reopen, Append, Begun, Handler
<1>4. CASE CloseBelowMinimum
  <2>1. /\ cycle.stage \in AtRows /\ Row \in Actions /\ exec.pc = "idle"
        /\ cycle.stage = "minimum" /\ Closes(Row, Unfillable(Row))
    BY <1>0, <1>4, RowAt, ClosingCloses DEF CloseBelowMinimum, Stage, AtRows, At
  <2>2. ~Unresolved(Row)
    BY <2>1 DEF Fronted, RowHandled
  <2> QED
    BY <1>2, <2>1, <2>2 DEF Unfillable
<1>5. CASE ExecuteFrozen
  <2>1. /\ cycle.stage \in AtRows /\ Row \in Actions /\ exec.pc = "idle"
        /\ cycle.stage = "frozen" /\ Reopen(Row, "run")
    BY <1>0, <1>5, RowAt DEF ExecuteFrozen, Stage, AtRows, At
  <2>2. ~Unresolved(Row)
    BY <2>1 DEF Fronted, RowHandled
  <2> QED
    BY <1>3, <2>1, <2>2
<1>6. ASSUME NEW a \in Actions, Judged(a)
      PROVE  /\ a = Row /\ ~Unresolved(a) /\ cycle.stage \in AtRows /\ exec.pc = "idle"
  BY <1>0, <1>6 DEF Judged, Stage, AtRows, At
<1>7. ASSUME NEW a \in Actions, ExecuteNothing(a)
      PROVE  Judged(a) /\ Reopen(a, "covered")
  BY <1>7 DEF ExecuteNothing
<1>8. ASSUME NEW a \in Actions, CloseOfficially(a)
      PROVE  Judged(a) /\ Closes(a, "EXTERNAL_UNFILLABLE")
  BY <1>0, <1>8, ClosingCloses DEF CloseOfficially, Resolvable, Effective
<1> QED
  BY <1>1, <1>2, <1>3, <1>4, <1>5, <1>6, <1>7, <1>8 DEF RecoveryStep

LEMMA BeginActs ==
  ASSUME Fronted, NEW B \in SUBSET Actions, BeginHead(B), NEW b \in Actions
  PROVE  /\ UNCHANGED <<attempt, scoped, target, exec>> /\ exec.pc = "idle"
         /\ latest'[b] = latest[b] \/ (latest[b] = "NONE" /\ latest'[b] = "OBSERVED")
BY FlightFacts DEF BeginHead, Stage, At

LEMMA SameFlight ==
  ASSUME FlightRows, NEW b \in Actions, latest'[b] = latest[b], target'[b] = target[b],
         Unresolved(b)' => Unresolved(b)
  PROVE  FlightRow(b)'
BY DEF FlightRows, FlightRow

LEMMA StepFlightRows == ASSUME Fronted, [RepairNext]_allVars PROVE FlightRows'
<1> SUFFICES ASSUME NEW b \in Actions PROVE FlightRow(b)'
  BY DEF FlightRows
<1>0. /\ Kept /\ Typed /\ Shape /\ FlightRows
      /\ latest \in [Actions -> LatestStates] /\ target \in [Actions -> TargetRows]
  BY FlightFacts DEF Fronted, Sound, Kept
<1>1. ASSUME NEW a \in Actions, HandlerStep(a) PROVE FlightRow(b)'
  <2>1. CASE a = b
    BY <1>1, <2>1, FlightOf DEF FlightRow
  <2>2. CASE a # b /\ SupersedeEarlierOpposites(a)
    <3>1. Unresolved(b)' <=> Unresolved(b)
      BY <2>2 DEF SupersedeEarlierOpposites, Unresolved
    <3>2. CASE b \in EarlierOpposites(a)
      <4>1. ~Unresolved(b)
        BY <3>2, FlightFacts DEF EarlierOpposites
      <4> QED
        BY <3>1, <4>1 DEF FlightRow
    <3>3. CASE b \notin EarlierOpposites(a)
      <4>1. latest'[b] = latest[b] /\ target'[b] = target[b]
        BY <2>2, <3>3 DEF SupersedeEarlierOpposites
      <4> QED
        BY <1>0, <3>1, <4>1, SameFlight
    <3> QED
      BY <3>2, <3>3
  <2>3. CASE a # b /\ ~SupersedeEarlierOpposites(a)
    <3>1. Same(b)
      BY <1>0, <1>1, <2>3, OthersSame
    <3> QED
      BY <1>0, <3>1, SameFlight DEF Same, Unresolved
  <2> QED
    BY <2>1, <2>2, <2>3
<1>2. ASSUME NEW o \in Orders, Reconcile(o) PROVE FlightRow(b)'
  <2>1. CASE o[1] = b
    BY <1>2, <2>1, ReconciledFlight DEF FlightRow
  <2>2. CASE o[1] # b
    <3>1. Same(b)
      BY <1>0, <1>2, <2>2, ReconcileSame
    <3> QED
      BY <1>0, <3>1, SameFlight DEF Same, Unresolved
  <2> QED
    BY <2>1, <2>2
<1>3. CASE (\E o \in Orders : CancelDue(o)) \/ Venue \/ Crash \/ UNCHANGED vars
  <2>1. UNCHANGED rows
    BY <1>3 DEF CancelDue, Venue, Match, Withdraw, Arrive, Finalize, Crash, vars
  <2>2. UNCHANGED <<latest, target, attempt>>
    BY <2>1 DEF rows
  <2>3. Unresolved(b)' <=> Unresolved(b)
    BY <2>2 DEF Unresolved
  <2> QED
    BY <1>0, <2>2, <2>3, SameFlight
<1>4. CASE RecoveryStep
  <2>1. UNCHANGED attempt
    BY <1>0, <1>4, RecoveryStepQuiet
  <2>2. Unresolved(b)' <=> Unresolved(b)
    BY <2>1 DEF Unresolved
  <2>3. CASE Unresolved(b)
    <3>1. latest[b] # "NONE"
      BY <2>3, FlightFacts
    <3>2. latest'[b] = latest[b] /\ target'[b] = target[b]
      BY <1>4, <2>3, <3>1, RecoveryActs, BeginActs
    <3> QED
      BY <1>0, <2>2, <3>2, SameFlight
  <2> QED
    BY <2>2, <2>3 DEF FlightRow
<1> QED
  BY <1>0, <1>1, <1>2, <1>3, <1>4, StepOfRows DEF StoreStep, Maintain, HandlerStep, Shape

\* The steps of a head by who takes them.
HeadSteps ==
  \/ IntakeNext
  \/ \E a \in Actions : HandlerStep(a) /\ ~ProcessSourceAction(a)
  \/ \E o \in Orders : Reconcile(o) \/ CancelDue(o)
  \/ Venue \/ Crash \/ UNCHANGED vars
  \/ RecoveryStep

LEMMA StepOfHead == ASSUME RepairTypeOK, [RepairNext]_allVars PROVE HeadSteps
<1>1. CASE Executor
  <2>1. PICK a \in Actions :
          Execute(a) \/ Defer(a) \/ IntakeFindsStale(a) \/ Refuses(a)
    BY <1>1 DEF Executor
  <2>2. HandlerStep(a)
    BY <2>1 DEF Execute, Defer, IntakeFindsStale, Refuses, HandlerStep, Plan
  <2>3. exec.pc # "idle"
    <3>1. \E pc \in PCs : Busy(pc, a)
      BY <2>1 DEF Execute, Defer, IntakeFindsStale, Refuses, Submit, ScopeRefuses,
         ScopeAccepts, LateUnfillable, RecoverSubmitStarted, DeferToEarlierAction,
         SupersedeEarlierOpposites, CloseUnsellable, Refuse, FailStaleTarget, PlanFails,
         PlanFirst, PlanRemainder, RecordPlan, PreparationFails, BeginSubmissionAttempt,
         PostAnswered, PostUnanswered, PostRejected, RecordAttempt, RecordTarget,
         RecordTransition, RecordCancellation, Plannable, Sizable, InOrder, Executing, PCs
    <3> QED
      BY <3>1 DEF Busy, At, PCs
  <2> QED
    BY <2>2, <2>3 DEF ProcessSourceAction, At, HeadSteps
<1>2. CASE Retries
  <2>1. CASE \E a \in Actions : RetryPending(a)
    <3>1. PICK a \in Actions : CloseRetry(a)
      BY <2>1 DEF RetryPending
    <3>2. exec'.pc = "append"
      BY <3>1 DEF CloseRetry, Handler
    <3> QED
      BY <3>1, <3>2 DEF HandlerStep, ProcessSourceAction, Begun, Handler, HeadSteps
  <2> QED
    BY <1>2, <2>1 DEF Retries, EndRetry, EndHead, HeadSteps
<1>3. CASE Activate \/ LoseHead \/ Claims
  BY <1>3 DEF Activate, LoseHead, Claims, ClaimDependents, EndClaims, BeginCycle,
       HeadSteps
<1>4. CASE Intakes
  BY <1>4 DEF Intakes, EndIntake, RecoveryStep, HeadSteps
<1>5. CASE Rows
  BY <1>5 DEF Rows, SkipRow, WaitRow, SyncRow, BlockStaleRow, RowRaises, MarkClosed,
       LeaveSmall, MarkBelowMinimum, AwaitPrice, FreezeBook, RecordResult, ResultRaised,
       EndCycle, RecoveryStep, HeadSteps
<1>6. CASE Reconciliation
  BY <1>6 DEF Reconciliation, ReconcileAll, ReconcileSent, CancelBeforeHead, HeadSteps
<1>7. CASE Die \/ (\E o \in Orders : Trade(o)) \/ UNCHANGED allVars
  BY <1>7 DEF Die, Trade, Venue, allVars, HeadSteps
<1>8. HeadSteps
  BY <1>1, <1>2, <1>3, <1>4, <1>5, <1>6, <1>7 DEF RepairNext
<1> QED
  BY <1>8

\* Only the end of an intake moves the cursor.
LEMMA PassedStays ==
  ASSUME [RepairNext]_allVars, ~EndIntake
  PROVE  UNCHANGED passed
BY DEF RepairNext, Activate, Intakes, BeginHead, IntakeNext, Executor, Execute, Defer,
   IntakeFindsStale, Refuses, Claims, ClaimDependents, EndClaims, BeginCycle, Rows, SkipRow,
   WaitRow, SyncRow, FailStaleRow, BlockStaleRow, RowRaises, MarkClosed, CloseBelowMinimum,
   LeaveSmall, ExecuteFrozen, ExecuteNothing, CloseOfficially, MarkBelowMinimum, AwaitPrice,
   FreezeBook, Reopen, RecordResult, ResultRaised, EndCycle, Retries, RetryPending, EndRetry,
   EndHead, Reconciliation, ReconcileAll, ReconcileSent, CancelBeforeHead, LoseHead, Die,
   Trade, allVars

\* The intake of a head hands over an action that no head has passed.
LEMMA IntakeHands ==
  ASSUME Fronted, IntakeNext
  PROVE  \/ UNCHANGED vars /\ exec.pc = "idle"
         \/ \E a \in Actions \ passed : a = Row /\ ProcessSourceAction(a) /\ a \in cycle.intake
<1>1. cycle.stage = "intake" /\ exec.pc = "idle" /\ cycle.todo # {}
  BY DEF IntakeNext, Stage, At
<1>2. Row \in cycle.todo /\ Row \in Actions
  BY <1>1, RowTyped DEF Fronted, Planned, Kept, Sound, Shape
<1>3. Row \in cycle.intake /\ Row \notin passed
  BY <1>1, <1>2 DEF Fronted, Planned, HeadPlan
<1> QED
  BY <1>1, <1>2, <1>3 DEF IntakeNext

LEMMA StepFlightHandled == ASSUME Fronted, [RepairNext]_allVars PROVE FlightHandled'
<1>0. RepairTypeOK /\ Typed /\ FlightHandled
  BY DEF Fronted, Planned, Kept, Sound, Shape
<1>1. CASE EndIntake
  BY <1>1 DEF EndIntake, Stage, At, vars, FlightHandled
<1>2. CASE ~EndIntake
  <2>0. UNCHANGED passed
    BY <1>2, PassedStays
  <2>1. CASE IntakeNext
    <3>1. CASE UNCHANGED vars /\ exec.pc = "idle"
      BY <3>1 DEF vars, FlightHandled, At
    <3>2. ASSUME NEW a \in Actions \ passed, ProcessSourceAction(a) PROVE FlightTo(a)
      <4>1. latest[a] \notin HandledStates /\ UNCHANGED latest
            /\ exec'.act = a /\ exec'.pc = "entry"
        BY <3>2 DEF ProcessSourceAction, Begun, Handler, rows
      <4> QED
        BY <4>1 DEF FlightTo
    <3> QED
      BY <2>0, <2>1, <3>1, <3>2, IntakeHands, FlightGoes
  <2>2. ASSUME NEW a \in Actions, HandlerStep(a), ~ProcessSourceAction(a) PROVE FlightHandled'
    BY <2>0, <2>2, PlanFlight, SubmitFlight, FlightGoes DEF HandlerStep
  <2>3. ASSUME NEW o \in Orders, Reconcile(o) PROVE FlightHandled'
    BY <2>3 DEF Reconcile, ReconcileFill, ReconcileFinalizedNoFill, ReconcileCanceled,
       ReconcileAbsent, Reconcilable, At, FlightHandled
  <2>4. ASSUME NEW o \in Orders, CancelDue(o) PROVE FlightHandled'
    <3>1. exec'.pc = "cancelled" /\ exec'.act = o[1] /\ SideOf[o[1]] = "BUY"
      BY <2>4 DEF CancelDue, Handler
    <3> QED
      BY <3>1 DEF FlightHandled, At
  <2>5. CASE Crash
    BY <2>5 DEF Crash, Done, Idle, FlightHandled, At
  <2>6. CASE Venue \/ UNCHANGED vars
    <3>1. UNCHANGED <<rows, exec>>
      BY <2>6 DEF Venue, Match, Withdraw, Arrive, Finalize, vars
    <3>2. UNCHANGED <<latest, attempt, exec>>
      BY <3>1 DEF rows
    <3> QED
      BY <1>0, <2>0, <3>2 DEF FlightHandled, At, Unresolved
  <2>7. CASE \E B \in SUBSET Actions : BeginHead(B)
    BY <2>7 DEF BeginHead, Stage, At, FlightHandled
  <2>8. CASE RecoveryStep /\ ~\E B \in SUBSET Actions : BeginHead(B)
    <3>1. PICK a \in Actions : a = Row
      BY <2>8, RecoveryActs
    <3>2. /\ exec.pc = "idle" /\ ~Unresolved(a) /\ UNCHANGED attempt
          /\ \/ UNCHANGED exec
             \/ exec'.act = a /\ exec'.pc = "entry" /\ latest'[a] = "OBSERVED"
             \/ /\ exec'.act = a /\ exec'.pc = "append"
                /\ exec'.st \in {"EXTERNAL_UNFILLABLE", "PARTIAL"}
      BY <2>8, <3>1, RecoveryActs
    <3>3. ~Unresolved(a)'
      BY <3>2 DEF Unresolved
    <3>4. "OBSERVED" \notin HandledStates
      BY DEF HandledStates, TerminalStates
    <3> QED
      BY <2>0, <3>2, <3>3, <3>4, FlightGoes DEF FlightTo
  <2> QED
    BY <1>0, <2>1, <2>2, <2>3, <2>4, <2>5, <2>6, <2>7, <2>8, StepOfHead DEF HeadSteps
<1> QED
  BY <1>1, <1>2

\* Only the beginning of a head begins an intake.
LEMMA IntakeStays ==
  ASSUME Planned, [RepairNext]_allVars, \A B \in SUBSET Actions : ~BeginHead(B),
         cycle'.stage = "intake"
  PROVE  cycle.stage = "intake" /\ cycle'.intake = cycle.intake
<1> USE DEF Planned, Kept, Sound, Shape
<1>1. CASE IntakeNext
  BY <1>1 DEF IntakeNext, Stage, RepairTypeOK, Cycles
<1>2. CASE UNCHANGED cycle
  BY <1>2
<1>3. CASE EndIntake \/ EndClaims \/ EndRetry
  BY <1>3, EnterTyped DEF EndIntake, EndClaims, EndRetry, Stages
<1>4. CASE BeginCycle
  BY <1>4 DEF BeginCycle, RepairTypeOK, Cycles
<1>5. CASE EndHead \/ LoseHead \/ Die
  BY <1>5, OffTyped DEF EndHead, LoseHead, Die
<1>6. CASE Executor
  BY <1>2, <1>6, OffTyped DEF Executor, Execute, Defer, IntakeFindsStale, Refuses, RepairTypeOK,
     Cycles
<1>7. CASE Rows
  BY <1>7, RowsMove DEF RowStages, AtRows
<1> QED
  BY <1>1, <1>2, <1>3, <1>4, <1>5, <1>6, <1>7
     DEF RepairNext, Activate, Intakes, Claims, ClaimDependents, Retries, RetryPending,
         Reconciliation, ReconcileAll, ReconcileSent, CancelBeforeHead, Trade, allVars

LEMMA StepPassedFirst == ASSUME Fronted, [RepairNext]_allVars PROVE PassedFirst'
<1>0. Planned /\ PassedFirst /\ Shape
  BY DEF Fronted, Planned, Kept, Sound
<1>1. ASSUME NEW B \in SUBSET Actions, BeginHead(B) PROVE PassedFirst'
  <2>1. Observed' = Observed \cup B
    BY <1>1 DEF BeginHead, Observed
  <2>2. UNCHANGED passed /\ cycle'.intake = B
    BY <1>1 DEF BeginHead, Head
  <2>3. \A b \in B, c \in Actions : Rank[c] < Rank[b] => c \in passed \cup B
    BY <1>1 DEF BeginHead
  <2> QED
    BY <1>0, <2>1, <2>2, <2>3 DEF PassedFirst
<1>2. CASE \A B \in SUBSET Actions : ~BeginHead(B)
  <2>1. Observed' = Observed
    BY <1>0, <1>2, ObservedStays
  <2>2. CASE EndIntake
    <3>1. cycle.stage = "intake" /\ cycle'.stage = "claim" /\ passed' = passed \cup cycle.intake
      BY <1>0, <2>2, EnterTyped DEF EndIntake, Stage, Shape, Stages
    <3> QED
      BY <1>0, <2>1, <3>1 DEF PassedFirst
  <2>3. CASE ~EndIntake
    <3>1. UNCHANGED passed
      BY <2>3, PassedStays
    <3> QED
      BY <1>0, <1>2, <2>1, <3>1, IntakeStays DEF PassedFirst
  <2> QED
    BY <2>2, <2>3
<1> QED
  BY <1>1, <1>2

LEMMA Submits ==
  ASSUME Fronted, [RepairNext]_allVars, NEW a \in Actions, Submitting(a)'
  PROVE  Submitting(a) \/ (InOrder(a) /\ exec.act = a)
<1>0. Kept /\ Typed /\ Shape /\ RepairTypeOK
  BY FlightFacts DEF Fronted, Planned, Kept, Sound, Shape
<1>1. CASE Unresolved(a)'
  BY <1>0, <1>1, StepOfRows, NewlyUnresolved DEF Submitting
<1>2. CASE exec'.pc \in {"planned", "prepare"} /\ exec'.act = a
  <2>1. CASE UNCHANGED exec
    BY <1>2, <2>1 DEF Submitting
  <2>2. CASE IntakeNext
    <3>1. UNCHANGED exec \/ exec'.pc = "entry"
      BY <2>2 DEF IntakeNext, vars, ProcessSourceAction, Begun, Handler
    <3> QED
      BY <1>2, <2>1, <3>1
  <2>3. ASSUME NEW c \in Actions, HandlerStep(c), ~ProcessSourceAction(c)
        PROVE  Submitting(a) \/ (InOrder(a) /\ exec.act = a)
    <3>1. exec'.act = c
      BY <1>0, <1>2, <2>3, PlanWrote, SubmitWrote DEF HandlerStep, Leaves
    <3>2. c = a
      BY <1>2, <3>1
    <3>3. exec \in Handlers /\ exec.act = a
      <4>1. ~CloseRetry(a)
        BY <1>2 DEF CloseRetry, Handler
      <4> QED
        BY <1>0, <2>3, <3>2, <4>1, Acting
    <3>4. CASE PlanFirst(a) \/ PlanRemainder(a)
      BY <3>3, <3>4 DEF PlanFirst, PlanRemainder, Plannable, Sizable
    <3>5. CASE RecordPlan(a)
      BY <3>5 DEF RecordPlan, Busy, At, Submitting
    <3>6. CASE SupersedeEarlierOpposites(a)
      BY <2>1, <3>6 DEF SupersedeEarlierOpposites
    <3>7. CASE \/ ScopeRefuses(a) \/ RecoverSubmitStarted(a) \/ DeferToEarlierAction(a)
               \/ Refuse(a) \/ FailStaleTarget(a) \/ PostRejected(a) \/ RecordTransition(a)
      BY <1>2, <3>7 DEF ScopeRefuses, RecoverSubmitStarted, DeferToEarlierAction, Refuse,
         FailStaleTarget, PostRejected, RecordTransition, Done, Idle
    <3>8. CASE PlanFails(a)
      BY <1>2, <3>3, <3>8, Moves DEF PlanFails, Done, Idle
    <3>9. CASE \/ ScopeAccepts(a) \/ LateUnfillable(a) \/ CloseUnsellable(a)
               \/ PreparationFails(a) \/ RecordAttempt(a) \/ RecordTarget(a)
               \/ RecordCancellation(a)
      <4>1. \E s : \E pc \in {"entry", "late", "set", "append"} : Then(pc, s)
        BY <3>9 DEF ScopeAccepts, LateUnfillable, CloseUnsellable, PreparationFails,
           RecordAttempt, RecordTarget, RecordCancellation
      <4> QED
        BY <1>2, <3>3, <4>1, Moves
    <3>10. CASE \/ (\E n \in Attempts : BeginSubmissionAttempt(a, n))
                \/ PostAnswered(a) \/ PostUnanswered(a) \/ CloseRetry(a)
      <4>1. ASSUME NEW n \in Attempts, BeginSubmissionAttempt(a, n) PROVE exec'.pc = "post"
        BY <3>3, <4>1 DEF BeginSubmissionAttempt, Handlers
      <4>2. ASSUME PostAnswered(a) \/ PostUnanswered(a) PROVE exec'.pc = "attempt"
        <5>1. PICK s, r : exec' = [exec EXCEPT !.pc = "attempt", !.st = s, !.resp = r]
          BY <4>2 DEF PostAnswered, PostUnanswered
        <5> QED
          BY <3>3, <5>1 DEF Handlers
      <4>3. ASSUME CloseRetry(a) PROVE exec'.pc = "append"
        BY <4>3 DEF CloseRetry, Handler
      <4> QED
        BY <1>2, <3>10, <4>1, <4>2, <4>3
    <3> QED
      BY <2>3, <3>2, <3>4, <3>5, <3>6, <3>7, <3>8, <3>9, <3>10 DEF HandlerStep, Plan, Submit
  <2>4. ASSUME NEW o \in Orders, Reconcile(o) \/ CancelDue(o)
        PROVE  Submitting(a)
    <3>1. UNCHANGED exec \/ exec'.pc = "cancelled"
      BY <2>4 DEF Reconcile, ReconcileFill, ReconcileFinalizedNoFill, ReconcileCanceled,
         ReconcileAbsent, CancelDue, Handler
    <3> QED
      BY <1>2, <2>1, <3>1 DEF Submitting
  <2>5. CASE Venue \/ Crash \/ UNCHANGED vars
    <3>1. UNCHANGED exec \/ exec' = Idle
      BY <2>5 DEF Venue, Match, Withdraw, Arrive, Finalize, Crash, Done, vars
    <3> QED
      BY <1>2, <2>1, <3>1 DEF Idle
  <2>6. CASE RecoveryStep
    BY <1>0, <1>2, <2>1, <2>6, RecoveryStepQuiet
  <2> QED
    BY <1>0, <2>2, <2>3, <2>4, <2>5, <2>6, StepOfHead DEF HeadSteps
<1> QED
  BY <1>1, <1>2 DEF Submitting

LEMMA StepInFront == ASSUME Fronted, [RepairNext]_allVars PROVE InFront'
<1> SUFFICES ASSUME NEW a \in Actions, a \notin passed', NEW b \in Actions,
                    Submitting(a)', Precedes(b, a)
             PROVE  Still(b)'
  BY DEF InFront, Precedes
<1>1. a \notin passed
  BY PassedStays DEF EndIntake
<1>2. Submitting(a) \/ (InOrder(a) /\ exec.act = a)
  BY Submits
<1>3. a \in Observed
  <2>1. CASE Unresolved(a)
    BY <2>1, FlightFacts
  <2>2. CASE exec.pc # "idle" /\ exec.act = a
    BY <2>2 DEF Fronted, Planned, Seen
  <2> QED
    BY <1>2, <2>1, <2>2 DEF Submitting, InOrder, Executing, Busy, At
<1>4. latest[b] = "NONE" => b \in passed
  BY <1>3 DEF Fronted, PassedFirst, Precedes, Observed
<1>5. cycle.stage \notin AtRows
  BY <1>1, <1>3 DEF Fronted, Planned, HeadPlan, AtRows
<1>6. Still(b)
  BY <1>1, <1>2, FrontIsOver DEF Fronted, InFront
<1> QED
  BY <1>4, <1>5, <1>6, StillStays

\* What was asked about the scope stays answered.
LEMMA ScopeGrows ==
  ASSUME Fronted, [RepairNext]_allVars, NEW b \in Actions, scoped[b]
  PROVE  scoped'[b]
<1>0. Kept /\ Typed /\ Shape /\ RepairTypeOK
  BY FlightFacts DEF Fronted, Planned, Kept, Sound, Shape
<1>1. ASSUME NEW a \in Actions, HandlerStep(a) PROVE scoped'[b]
  <2>1. Wrote(b)
    BY <1>0, <1>1, PlanWrote, SubmitWrote, OtherWrote DEF HandlerStep
  <2> QED
    BY <2>1 DEF Wrote
<1>2. CASE \E o \in Orders : Reconcile(o) \/ CancelDue(o)
  BY <1>2 DEF Reconcile, ReconcileFill, ReconcileFinalizedNoFill, ReconcileCanceled,
     ReconcileAbsent, CancelDue, rows
<1>3. CASE Venue \/ Crash \/ UNCHANGED vars
  BY <1>3 DEF Venue, Match, Withdraw, Arrive, Finalize, Crash, vars, rows
<1>4. CASE RecoveryStep
  BY <1>4, RecoveryActs, BeginActs
<1>5. CASE IntakeNext
  BY <1>5 DEF IntakeNext, ProcessSourceAction, vars, rows
<1> QED
  BY <1>0, <1>1, <1>2, <1>3, <1>4, <1>5, StepOfHead DEF HeadSteps

\* Only the executor's deferral leaves an action deferred.
LEMMA NewlyDeferred ==
  ASSUME Fronted, [RepairNext]_allVars, NEW b \in Actions,
         latest'[b] = "PENDING_CAUSAL_ORDER", latest[b] # "PENDING_CAUSAL_ORDER"
  PROVE  DeferToEarlierAction(b)
<1>0. /\ Kept /\ Typed /\ Shape /\ RepairTypeOK
      /\ latest \in [Actions -> LatestStates] /\ target \in [Actions -> TargetRows]
  BY FlightFacts DEF Fronted, Planned, Kept, Sound, Shape
<1>1. ASSUME NEW a \in Actions, HandlerStep(a), ~ProcessSourceAction(a)
      PROVE  DeferToEarlierAction(b)
  <2>1. CASE a # b /\ SupersedeEarlierOpposites(a)
    <3>1. latest'[b] \in {latest[b], Closed(b)}
      BY <2>1 DEF SupersedeEarlierOpposites
    <3> QED
      BY <3>1 DEF Closed
  <2>2. CASE a # b /\ ~SupersedeEarlierOpposites(a)
    BY <1>0, <1>1, <2>2, OthersSame DEF Same
  <2>3. CASE a = b
    <3>1. CASE \/ LateUnfillable(b) \/ CloseUnsellable(b) \/ Refuse(b) \/ PlanFirst(b)
               \/ PlanRemainder(b) \/ PreparationFails(b) \/ PostAnswered(b)
               \/ PostUnanswered(b) \/ RecordAttempt(b) \/ RecordTarget(b)
               \/ RecordCancellation(b) \/ CloseRetry(b)
      <4>1. UNCHANGED latest
        BY <3>1 DEF LateUnfillable, CloseUnsellable, Refuse, PlanFirst, PlanRemainder,
           PreparationFails, PostAnswered, PostUnanswered, RecordAttempt, RecordTarget,
           RecordCancellation, CloseRetry, rows
      <4> QED
        BY <4>1
    <3>2. CASE SupersedeEarlierOpposites(b)
      <4>1. b \notin EarlierOpposites(b)
        BY DEF EarlierOpposites
      <4> QED
        BY <3>2, <4>1 DEF SupersedeEarlierOpposites
    <3>3. CASE ScopeRefuses(b) \/ ScopeAccepts(b) \/ RecoverSubmitStarted(b) \/ RecordPlan(b)
               \/ FailStaleTarget(b) \/ PostRejected(b)
               \/ (\E n \in Attempts : BeginSubmissionAttempt(b, n))
      <4>1. \E s \in {"PENDING_METADATA", "ERROR_INTERNAL", "SKIPPED", "SCOPE_ELIGIBLE",
                      "UNKNOWN_SUBMISSION", "PLANNED", "EXTERNAL_UNFILLABLE",
                      "SUBMIT_STARTED"} : Append(b, s)
        BY <3>3 DEF ScopeRefuses, ScopeAccepts, RecoverSubmitStarted, RecordPlan,
           FailStaleTarget, PostRejected, BeginSubmissionAttempt, Release
      <4> QED
        BY <1>0, <4>1 DEF Append
    <3>4. CASE PlanFails(b)
      <4>1. UNCHANGED latest \/ \E s \in PlanFailures(b) : Append(b, s)
        BY <3>4 DEF PlanFails
      <4> QED
        BY <1>0, <4>1 DEF PlanFailures, Append
    <3>5. CASE RecordTransition(b)
      <4>1. exec.st # "PENDING_CAUSAL_ORDER"
        BY <3>5 DEF RecordTransition, Busy, At, Fronted, FlightHandled
      <4> QED
        BY <1>0, <3>5, <4>1 DEF RecordTransition, Append
    <3> QED
      BY <1>1, <2>3, <3>1, <3>2, <3>3, <3>4, <3>5 DEF HandlerStep, Plan, Submit
  <2> QED
    BY <2>1, <2>2, <2>3
<1>2. ASSUME NEW o \in Orders, Reconcile(o) PROVE FALSE
  <2>1. CASE o[1] = b
    <3>1. \E s \in {"FILLED", "EXTERNAL_UNFILLABLE", "PARTIAL_PENDING",
                    "PENDING_CONFIRMED_ZERO_FILL", "UNKNOWN_SUBMISSION"} : Append(b, s)
      BY <1>2, <2>1 DEF Reconcile, ReconcileFill, ReconcileFinalizedNoFill, ReconcileCanceled,
         ReconcileAbsent, Release, FillState
    <3> QED
      BY <1>0, <3>1 DEF Append
  <2>2. CASE o[1] # b
    BY <1>0, <1>2, <2>2, ReconcileSame DEF Same
  <2> QED
    BY <2>1, <2>2
<1>3. CASE (\E o \in Orders : CancelDue(o)) \/ IntakeNext \/ Venue \/ Crash \/ UNCHANGED vars
  BY <1>3 DEF CancelDue, IntakeNext, ProcessSourceAction, Venue, Match, Withdraw, Arrive,
     Finalize, Crash, vars, rows
<1>4. CASE RecoveryStep
  BY <1>4, RecoveryActs, BeginActs
<1> QED
  BY <1>0, <1>1, <1>2, <1>3, <1>4, StepOfHead DEF HeadSteps

LEMMA StepClaimsInScope == ASSUME Fronted, [RepairNext]_allVars PROVE ClaimsInScope'
<1> SUFFICES ASSUME NEW b \in Actions,
                    b \in Claimed' \cup Gap \/ latest'[b] = "PENDING_CAUSAL_ORDER"
             PROVE  scoped[b]
  BY ScopeGrows DEF ClaimsInScope
<1>1. Fronted => ClaimsInScope
  BY DEF Fronted
<1>2. CASE b \in Claimed'
  <2>1. CASE Activate
    <3>1. b \in Claimed \cup Gap
      BY <1>2, <2>1 DEF Activate, Claimed
    <3> QED
      BY <1>1, <3>1 DEF ClaimsInScope
  <2>2. CASE ClaimDependents
    <3>1. b \in Claimed \/ latest[b] = "PENDING_CAUSAL_ORDER"
      BY <1>2, <2>2 DEF ClaimDependents, Claimed, Dependents
    <3> QED
      BY <1>1, <3>1 DEF ClaimsInScope
  <2>3. CASE ~Activate /\ ~ClaimDependents
    BY <1>1, <1>2, <2>3, ClaimsStay DEF ClaimsInScope, Fronted
  <2> QED
    BY <2>1, <2>2, <2>3
<1>3. CASE b \in Gap
  BY <1>1, <1>3 DEF ClaimsInScope
<1>4. CASE latest'[b] = "PENDING_CAUSAL_ORDER"
  BY <1>1, <1>4, NewlyDeferred DEF ClaimsInScope, DeferToEarlierAction, Executing
<1> QED
  BY <1>2, <1>3, <1>4

\* Where a step of the recovery at a row leaves the head and the executor.
RowStep ==
  \/ cycle'.stage = "retry" /\ UNCHANGED vars
  \/ cycle'.stage = "rows" /\ UNCHANGED vars /\ exec.pc = "idle"
  \/ SyncRow /\ cycle'.stage = "judge" /\ cycle'.todo = cycle.todo /\ UNCHANGED vars
  \/ /\ cycle.stage \in AtRows /\ cycle'.stage \in AtRows /\ exec.pc = "idle"
     /\ cycle'.todo = cycle.todo
     /\ \/ FailStaleRow
        \/ cycle'.stage \in {"minimum", "frozen"} /\ UNCHANGED vars /\ ~Unresolved(Row)
        \/ cycle'.stage \in {"closed", "small"} /\ exec'.act = Row /\ exec'.pc = "append"
        \/ /\ \E s \in {"run", "covered"} : cycle'.stage = s /\ Reopen(Row, s)
           /\ ~Unresolved(Row)

LEMMA RowsStep == ASSUME Fronted, Rows PROVE RowStep
<1>0. /\ Shape /\ RepairTypeOK
      /\ \A a \in Actions : Unresolved(a) => SideEffect(a) /\ HasTarget(a)
  BY FlightFacts DEF Fronted, Planned, Kept, Sound, Shape
<1>1. ASSUME NEW a \in Actions, Judged(a)
      PROVE  /\ a = Row /\ ~Unresolved(a) /\ cycle.stage = "judge" /\ exec.pc = "idle"
  BY <1>0, <1>1 DEF Judged, Stage, At
<1>2. CASE SkipRow \/ WaitRow
  <2>1. cycle'.stage = "rows"
    BY <1>0, <1>2 DEF SkipRow, WaitRow, Hold, NextRow, RepairTypeOK, Cycles
  <2> QED
    BY <1>2, <2>1 DEF SkipRow, WaitRow, AtRow, Stage, At, RowStep
<1>3. CASE SyncRow
  <2>1. UNCHANGED vars /\ exec.pc = "idle"
    BY <1>3 DEF SyncRow, AtRow, Stage, At
  <2>2. CASE Enter("judge")
    BY <1>0, <1>3, <2>1, <2>2, EnterTyped DEF RowStep, Stages
  <2>3. CASE ~Enter("judge")
    <3>1. cycle'.stage = "rows"
      BY <1>0, <1>3, <2>3 DEF SyncRow, Hold, NextRow, RepairTypeOK, Cycles
    <3> QED
      BY <2>1, <3>1 DEF RowStep
  <2> QED
    BY <2>2, <2>3
<1>4. CASE FailStaleRow
  BY <1>4 DEF FailStaleRow, Stage, At, AtRows, RowStep
<1>5. CASE BlockStaleRow \/ MarkClosed \/ LeaveSmall
  <2>1. cycle'.stage = "rows"
    BY <1>0, <1>5 DEF BlockStaleRow, MarkClosed, LeaveSmall, Hold, NextRow, RepairTypeOK, Cycles
  <2> QED
    BY <1>5, <2>1 DEF BlockStaleRow, MarkClosed, LeaveSmall, Stage, At, RowStep
<1>6. CASE RowRaises \/ EndCycle
  <2>1. Enter("retry") /\ UNCHANGED vars
    BY <1>6 DEF RowRaises, EndCycle
  <2> QED
    BY <1>0, <2>1, EnterTyped DEF RowStep, Stages
<1>7. CASE CloseBelowMinimum
  <2>1. cycle.stage = "minimum" /\ exec.pc = "idle" /\ Enter("small")
        /\ exec'.act = Row /\ exec'.pc = "append"
    BY <1>7 DEF CloseBelowMinimum, Stage, At, Handler
  <2> QED
    BY <1>0, <2>1, EnterTyped DEF RowStep, AtRows, Stages
<1>8. CASE ExecuteFrozen
  <2>1. cycle.stage = "frozen" /\ exec.pc = "idle" /\ Reopen(Row, "run") /\ Enter("run")
    BY <1>8 DEF ExecuteFrozen, Stage, At, Reopen
  <2>2. ~Unresolved(Row)
    BY <2>1 DEF Fronted, RowHandled, AtRows
  <2> QED
    BY <1>0, <2>1, <2>2, EnterTyped DEF RowStep, AtRows, Stages
<1>9. ASSUME NEW a \in Actions, ExecuteNothing(a) PROVE RowStep
  <2>1. Judged(a) /\ Reopen(a, "covered") /\ Enter("covered")
    BY <1>9 DEF ExecuteNothing, Reopen
  <2> QED
    BY <1>0, <1>1, <2>1, EnterTyped DEF RowStep, AtRows, Stages
<1>10. ASSUME NEW a \in Actions, CloseOfficially(a) PROVE RowStep
  <2>1. Judged(a) /\ Enter("closed") /\ exec'.act = a /\ exec'.pc = "append"
    BY <1>10 DEF CloseOfficially, Resolvable, Effective, Handler
  <2> QED
    BY <1>0, <1>1, <2>1, EnterTyped DEF RowStep, AtRows, Stages
<1>11. ASSUME NEW a \in Actions, MarkBelowMinimum(a) \/ FreezeBook(a) PROVE RowStep
  <2>1. Judged(a) /\ (Enter("minimum") \/ Enter("frozen")) /\ UNCHANGED vars
    BY <1>11 DEF MarkBelowMinimum, FreezeBook, Priced, Resolvable, Effective
  <2> QED
    BY <1>0, <1>1, <2>1, EnterTyped DEF RowStep, AtRows, Stages
<1>12. ASSUME NEW a \in Actions, AwaitPrice(a) PROVE RowStep
  <2>1. Judged(a) /\ cycle'.stage = "rows" /\ UNCHANGED vars
    BY <1>0, <1>12 DEF AwaitPrice, Priced, Resolvable, Effective, Hold, NextRow,
       RepairTypeOK, Cycles
  <2> QED
    BY <1>1, <2>1 DEF RowStep
<1>13. ASSUME NEW a \in Actions, RecordResult(a) PROVE RowStep
  <2>1. cycle'.stage = "rows"
    BY <1>0, <1>13 DEF RecordResult, RepairTypeOK, Cycles
  <2> QED
    BY <1>13, <2>1 DEF RecordResult, Returned, Stage, At, RowStep
<1>14. ASSUME NEW a \in Actions, ResultRaised(a) PROVE RowStep
  <2>1. Enter("retry") /\ UNCHANGED vars
    BY <1>14 DEF ResultRaised
  <2> QED
    BY <1>0, <2>1, EnterTyped DEF RowStep, Stages
<1> QED
  BY <1>2, <1>3, <1>4, <1>5, <1>6, <1>7, <1>8, <1>9, <1>10, <1>11, <1>12, <1>13, <1>14 DEF Rows

\* A handler's step leaves it idle, or at the same action.
LEMMA HandlerGoes ==
  ASSUME Fronted, NEW a \in Actions, HandlerStep(a), ~ProcessSourceAction(a)
  PROVE  exec'.pc = "idle" \/ exec'.act = a
BY FlightFacts, PlanWrote, SubmitWrote DEF HandlerStep, Leaves

LEMMA ExecutorSteps ==
  ASSUME Fronted, Executor
  PROVE  /\ exec.pc # "idle"
         /\ \/ UNCHANGED cycle \/ cycle' = Off
            \/ cycle'.stage = "retry" /\ exec'.pc = "idle"
         /\ exec'.pc = "idle" \/ exec'.act = exec.act
<1>0. Typed /\ RepairTypeOK
  BY DEF Fronted, Planned, Kept, Sound, Shape
<1>1. PICK a \in Actions : Execute(a) \/ Defer(a) \/ IntakeFindsStale(a) \/ Refuses(a)
  BY DEF Executor
<1>2. HandlerStep(a)
  BY <1>1 DEF Execute, Defer, IntakeFindsStale, Refuses, HandlerStep, Plan
<1>3. exec.pc # "idle" /\ exec.act = a
  <2>1. \E pc \in PCs : Busy(pc, a)
    BY <1>1 DEF Execute, Defer, IntakeFindsStale, Refuses, Submit, ScopeRefuses,
       ScopeAccepts, LateUnfillable, RecoverSubmitStarted, DeferToEarlierAction,
       SupersedeEarlierOpposites, CloseUnsellable, Refuse, FailStaleTarget, PlanFails,
       PlanFirst, PlanRemainder, RecordPlan, PreparationFails, BeginSubmissionAttempt,
       PostAnswered, PostUnanswered, PostRejected, RecordAttempt, RecordTarget,
       RecordTransition, RecordCancellation, Plannable, Sizable, InOrder, Executing, PCs
  <2> QED
    BY <2>1 DEF Busy, At, PCs
<1>4. exec'.pc = "idle" \/ exec'.act = a
  BY <1>2, <1>3, HandlerGoes DEF ProcessSourceAction, At
<1>5. \/ UNCHANGED cycle \/ cycle' = Off
      \/ cycle'.stage = "retry" /\ exec'.pc = "idle"
  BY <1>0, <1>1 DEF Execute, Defer, IntakeFindsStale, Refuses, Refuse, Done, Idle,
     RepairTypeOK, Cycles
<1> QED
  BY <1>3, <1>4, <1>5

\* Steps that neither are of a row nor begin the rows.
LEMMA Elsewhere ==
  ASSUME Fronted, [RepairNext]_allVars
  PROVE  \/ Executor
         \/ Rows
         \/ UNCHANGED cycle /\ UNCHANGED <<rows, exec>>
         \/ BeginCycle
         \/ cycle'.stage \notin RowStages /\ (UNCHANGED cycle => cycle.stage \notin RowStages)
<1>0. RepairTypeOK /\ Off.stage = "off"
  BY OffTyped DEF Fronted, Planned, Kept, Sound, Shape
<1>1. CASE Activate \/ ClaimDependents \/ (\E o \in Orders : Trade(o)) \/ UNCHANGED allVars
  BY <1>1 DEF Activate, ClaimDependents, Trade, Match, Withdraw, Arrive, Finalize, vars, allVars
<1>2. CASE Intakes
  <2>1. cycle'.stage \in {"intake", "claim"}
    <3>1. CASE EndIntake
      BY <1>0, <3>1, EnterTyped DEF EndIntake, Stages
    <3>2. CASE ~EndIntake
      BY <1>0, <1>2, <3>2 DEF Intakes, BeginHead, IntakeNext, Head, Stage, RepairTypeOK, Cycles
    <3> QED
      BY <3>1, <3>2
  <2> QED
    BY <2>1 DEF RowStages, AtRows
<1>3. CASE EndClaims \/ EndRetry
  BY <1>0, <1>3, EnterTyped DEF EndClaims, EndRetry, Stages, RowStages, AtRows
<1>4. CASE \E a \in Actions : RetryPending(a)
  BY <1>4 DEF RetryPending, Stage, RowStages, AtRows
<1>5. CASE Reconciliation
  BY <1>5 DEF Reconciliation, ReconcileAll, ReconcileSent, CancelBeforeHead, Stage, RowStages,
     AtRows
<1>6. CASE EndHead \/ LoseHead \/ Die
  BY <1>0, <1>6 DEF EndHead, LoseHead, Die, RowStages, AtRows
<1> QED
  BY <1>1, <1>2, <1>3, <1>4, <1>5, <1>6 DEF RepairNext, Claims, Retries

LEMMA BeginCycleGoes ==
  ASSUME RepairTypeOK, BeginCycle
  PROVE  cycle'.stage \in {"rows", "retry"} /\ UNCHANGED vars /\ exec.pc = "idle"
BY DEF BeginCycle, Stage, At, RepairTypeOK, Cycles

LEMMA SameRow == UNCHANGED cycle \/ cycle'.todo = cycle.todo => Row' = Row
BY DEF Row

LEMMA StepRowHandled == ASSUME Fronted, [RepairNext]_allVars PROVE RowHandled'
<1>0. /\ Kept /\ Typed /\ Shape /\ RepairTypeOK /\ JudgedOpen /\ Covering /\ RowHandled
      /\ Off.stage = "off"
  BY FlightFacts, OffTyped DEF Fronted, Planned, Kept, Sound, Shape
<1>1. ASSUME cycle'.stage \notin RowStages PROVE RowHandled'
  BY <1>1 DEF RowHandled, RowStages
<1>2. CASE Executor
  <2>1. CASE UNCHANGED cycle /\ cycle.stage \in AtRows
    <3>1. exec.pc # "idle" /\ (exec'.pc = "idle" \/ exec'.act = exec.act)
      BY <1>2, ExecutorSteps
    <3>2. exec.act = Row /\ Row' = Row /\ Row \in Actions
      BY <1>0, <2>1, <3>1, RowAt, SameRow DEF RowHandled, At
    <3>3. ASSUME cycle.stage \in {"minimum", "frozen", "covered"} PROVE ~Unresolved(Row)'
      <4>1. cycle.stage = "covered"
        BY <1>0, <3>1, <3>3 DEF JudgedOpen, At
      <4>2. exec.pc # "prepare" /\ ~Unresolved(Row)
        BY <1>0, <2>1, <4>1 DEF Covering, RowHandled
      <4>3. PICK a \in Actions : a = Row
        BY <3>2
      <4>4. ~Unresolved(a)'
        BY <1>0, <4>2, <4>3, NewlyUnresolved, StepOfRows
      <4> QED
        BY <3>2, <4>3, <4>4
    <3>4. ~At("idle")' => exec'.act = Row'
      BY <3>1, <3>2 DEF At
    <3>5. ~Unresolved(Row)' \/ cycle.stage \notin {"minimum", "frozen", "covered"}
      BY <3>3
    <3> QED
      BY <2>1, <3>4, <3>5 DEF RowHandled, AtRows
  <2>2. CASE ~(UNCHANGED cycle /\ cycle.stage \in AtRows)
    <3>1. cycle'.stage \notin RowStages
      BY <1>0, <1>2, <2>2, ExecutorSteps DEF RowHandled, RowStages, AtRows, At
    <3> QED
      BY <1>1, <3>1
  <2> QED
    BY <2>1, <2>2
<1>3. CASE Rows
  <2>1. CASE cycle'.stage = "retry"
    BY <1>1, <2>1 DEF RowStages, AtRows
  <2>2. CASE cycle'.stage = "rows" /\ UNCHANGED vars /\ exec.pc = "idle"
    BY <2>2 DEF RowHandled, AtRows, vars, At
  <2>3. CASE SyncRow /\ cycle'.stage = "judge" /\ UNCHANGED vars
    BY <2>3 DEF RowHandled, AtRows, vars, At, SyncRow, AtRow, Stage
  <2>4. CASE FailStaleRow /\ cycle'.stage \in AtRows
    BY <2>4 DEF FailStaleRow, RowHandled, Stage, At
  <2>5. CASE /\ cycle'.stage \in {"minimum", "frozen"} /\ UNCHANGED vars /\ ~Unresolved(Row)
             /\ exec.pc = "idle" /\ cycle'.todo = cycle.todo
    <3>1. Row' = Row /\ UNCHANGED <<exec, attempt>>
      BY <2>5, SameRow DEF vars, rows
    <3>2. ~Unresolved(Row)'
      BY <2>5, <3>1 DEF Unresolved
    <3> QED
      BY <2>5, <3>1, <3>2 DEF RowHandled, At
  <2>6. CASE /\ cycle'.stage \in {"closed", "small"} /\ exec'.act = Row
             /\ cycle'.todo = cycle.todo
    BY <2>6, SameRow DEF RowHandled
  <2>7. CASE /\ cycle'.stage \in {"run", "covered"} /\ ~Unresolved(Row)
             /\ \E s \in {"run", "covered"} : Reopen(Row, s)
             /\ cycle'.todo = cycle.todo
    <3>1. Row' = Row /\ UNCHANGED attempt /\ exec'.act = Row
      BY <2>7, SameRow DEF Reopen, Begun, Handler
    <3>2. ~Unresolved(Row)'
      BY <2>7, <3>1 DEF Unresolved
    <3> QED
      BY <2>7, <3>1, <3>2 DEF RowHandled
  <2> QED
    BY <1>3, <2>1, <2>2, <2>3, <2>4, <2>5, <2>6, <2>7, RowsStep DEF RowStep
<1>4. CASE UNCHANGED cycle /\ UNCHANGED <<rows, exec>>
  <2>1. UNCHANGED <<cycle, attempt, exec>> /\ Row' = Row
    BY <1>4, SameRow DEF rows
  <2>2. Unresolved(Row)' <=> Unresolved(Row)
    BY <2>1 DEF Unresolved
  <2> QED
    BY <1>0, <2>1, <2>2 DEF RowHandled, At
<1>5. CASE BeginCycle
  BY <1>0, <1>5, BeginCycleGoes DEF RowHandled, AtRows, vars, At
<1> QED
  BY <1>1, <1>2, <1>3, <1>4, <1>5, Elsewhere

LEMMA CoveredStates ==
  /\ CoveredEnds \subseteq TerminalStates
  /\ {"UNKNOWN_SUBMISSION", "PLANNED", "PENDING_CAUSAL_ORDER", "OBSERVED"} \cap TerminalStates = {}
BY DEF CoveredEnds, TerminalStates

\* The executor on a row that needs no order.
LEMMA CoveredExecutes ==
  ASSUME Fronted, cycle.stage = "covered", NEW a \in Actions, a = Row, exec.act = a,
         exec.pc # "idle", Execute(a) \/ Defer(a)
  PROVE  /\ latest'[a] \in TerminalStates => latest'[a] \in CoveredEnds
         /\ exec'.pc \in {"idle", "entry", "planned", "set", "append"}
         /\ exec'.pc \in {"planned", "set", "append"} => exec'.st \in CoveredEnds
<1>0. /\ Kept /\ Typed /\ Shape /\ RepairTypeOK /\ Covering
      /\ latest \in [Actions -> LatestStates]
  BY FlightFacts DEF Fronted, Planned, Kept, Sound, Shape
<1>1. exec.pc \in {"entry", "planned", "set", "append"}
  BY <1>0 DEF Covering
<1>2. scoped[a]
  BY RowClaimed DEF Fronted, ClaimsInScope, AtRows
<1>3. exec.pc \in {"planned", "set", "append"} => exec.st \in CoveredEnds
  BY <1>0 DEF Covering
<1>4. latest[a] \in TerminalStates => latest[a] \in CoveredEnds
  BY <1>0 DEF Covering
<1>5. exec \in Handlers
  BY <1>0, <1>1 DEF Typed, TypeOK, Idle
<1>6. CASE Defer(a) \/ RecoverSubmitStarted(a)
  BY <1>0, <1>6, CoveredStates DEF Defer, DeferToEarlierAction, RecoverSubmitStarted, Append,
     Done, Idle
<1>7. CASE SupersedeEarlierOpposites(a)
  <2>1. a \notin EarlierOpposites(a)
    BY DEF EarlierOpposites
  <2>2. latest'[a] = latest[a] /\ exec' = exec
    BY <1>7, <2>1 DEF SupersedeEarlierOpposites
  <2> QED
    BY <1>1, <1>3, <1>4, <2>2
<1>8. CASE CloseUnsellable(a)
  <2>1. exec'.pc = "set" /\ exec'.st = Unfillable(a) /\ latest' = latest
    BY <1>5, <1>8, Moves DEF CloseUnsellable
  <2> QED
    BY <1>4, <2>1 DEF Unfillable, CoveredEnds
<1>9. CASE Execute(a) /\ (PlanFails(a) \/ PlanFirst(a) \/ PlanRemainder(a))
  <2>1. Plannable(a)
    BY <1>9 DEF PlanFails, PlanFirst, PlanRemainder
  <2>2. exec' = Handler("planned", a, 1, "SKIPPED", Want[a], "none")
    BY <1>9, <2>1 DEF Execute
  <2>3. exec'.pc = "planned" /\ exec'.st = "SKIPPED"
    BY <2>2 DEF Handler
  <2>4. UNCHANGED latest
    <3>1. CASE PlanFails(a)
      <4>1. ~Done
        BY <2>3 DEF Done, Idle
      <4> QED
        BY <3>1, <4>1 DEF PlanFails
    <3>2. CASE PlanFirst(a) \/ PlanRemainder(a)
      BY <3>2 DEF PlanFirst, PlanRemainder, rows
    <3> QED
      BY <1>9, <3>1, <3>2
  <2> QED
    BY <1>4, <2>3, <2>4 DEF CoveredEnds
<1>10. CASE RecordPlan(a)
  <2>1. latest'[a] = "PLANNED"
    BY <1>0, <1>10 DEF RecordPlan, Append
  <2>2. exec.st # "READY" /\ exec.st \in CoveredEnds
    BY <1>3, <1>10 DEF RecordPlan, Busy, At, CoveredEnds
  <2>3. exec'.pc = "set" /\ exec'.st = exec.st
    BY <1>5, <1>10, <2>2 DEF RecordPlan, Handlers
  <2> QED
    BY <2>1, <2>2, <2>3, CoveredStates
<1>11. CASE RecordTarget(a)
  <2>1. latest' = latest /\ exec'.pc = "append" /\ exec'.st = exec.st /\ exec.pc = "set"
    BY <1>5, <1>11, Moves DEF RecordTarget, Busy, At
  <2> QED
    BY <1>3, <1>4, <2>1
<1>12. CASE RecordTransition(a)
  <2>1. latest'[a] = exec.st /\ exec' = Idle /\ exec.pc = "append"
    BY <1>0, <1>12 DEF RecordTransition, Append, Done, Busy, At
  <2> QED
    BY <1>3, <2>1 DEF Idle
<1>13. ~ScopeRefuses(a) /\ ~ScopeAccepts(a)
  BY <1>2 DEF ScopeRefuses, ScopeAccepts
<1>14. /\ ~LateUnfillable(a) /\ ~PreparationFails(a) /\ ~RecordCancellation(a)
       /\ ~PostAnswered(a) /\ ~PostUnanswered(a) /\ ~PostRejected(a) /\ ~RecordAttempt(a)
       /\ \A n \in Attempts : ~BeginSubmissionAttempt(a, n)
  BY <1>1 DEF LateUnfillable, PreparationFails, RecordCancellation, PostAnswered,
     PostUnanswered, PostRejected, RecordAttempt, BeginSubmissionAttempt, Busy, At
<1> QED
  BY <1>6, <1>7, <1>8, <1>9, <1>10, <1>11, <1>12, <1>13, <1>14 DEF Execute, Submit

LEMMA StepCovering == ASSUME Fronted, [RepairNext]_allVars PROVE Covering'
<1> SUFFICES ASSUME cycle'.stage = "covered" PROVE Covering'
  BY DEF Covering
<1>0. /\ Kept /\ Typed /\ Shape /\ RepairTypeOK /\ Covering /\ RowHandled
      /\ Off.stage = "off" /\ latest \in [Actions -> LatestStates]
  BY OffTyped DEF Fronted, Planned, Kept, Sound, Shape, Typed, TypeOK
<1>1. CASE Executor
  <2>1. UNCHANGED cycle /\ cycle.stage = "covered" /\ exec.pc # "idle"
    BY <1>0, <1>1, ExecutorSteps
  <2>2. exec.act = Row /\ Row' = Row /\ Row \in Actions
    BY <1>0, <2>1, RowAt, SameRow DEF RowHandled, AtRows, At
  <2>3. PICK a \in Actions :
          Execute(a) \/ Defer(a) \/ IntakeFindsStale(a) \/ Refuses(a)
    BY <1>1 DEF Executor
  <2>4. Execute(a) \/ Defer(a)
    BY <1>0, <2>1, <2>3 DEF IntakeFindsStale, Refuses, RepairTypeOK, Cycles
  <2>5. exec.act = a
    <3>1. HandlerStep(a)
      BY <2>4 DEF Execute, Defer, HandlerStep, Plan
    <3>2. ~ProcessSourceAction(a) /\ ~CloseRetry(a)
      BY <2>1 DEF ProcessSourceAction, CloseRetry, At
    <3> QED
      BY <1>0, <3>1, <3>2, Acting
  <2>6. /\ latest'[a] \in TerminalStates => latest'[a] \in CoveredEnds
        /\ exec'.pc \in {"idle", "entry", "planned", "set", "append"}
        /\ exec'.pc \in {"planned", "set", "append"} => exec'.st \in CoveredEnds
    BY <2>1, <2>2, <2>4, <2>5, CoveredExecutes
  <2> QED
    BY <2>2, <2>5, <2>6 DEF Covering
<1>2. CASE Rows
  <2>1. PICK s \in {"run", "covered"} : Reopen(Row, s) /\ cycle'.todo = cycle.todo
    BY <1>2, RowsStep DEF RowStep, FailStaleRow, Stage
  <2>2. Row' = Row /\ Row \in Actions
    BY <1>0, <1>2, <2>1, RowsStep, RowAt, SameRow DEF RowStep, FailStaleRow, Stage
  <2>3. latest'[Row] = "OBSERVED" /\ exec'.pc = "entry"
    BY <1>0, <2>1, <2>2 DEF Reopen, Append, Begun, Handler
  <2> QED
    BY <2>2, <2>3, CoveredStates DEF Covering
<1>3. CASE UNCHANGED cycle /\ UNCHANGED <<rows, exec>>
  <2>1. UNCHANGED <<cycle, latest, exec>> /\ Row' = Row
    BY <1>3, SameRow DEF rows
  <2> QED
    BY <1>0, <2>1 DEF Covering
<1>4. ~BeginCycle
  BY <1>0, BeginCycleGoes
<1> QED
  BY <1>1, <1>2, <1>3, <1>4, Elsewhere DEF RowStages, AtRows

LEMMA InitFronted == RepairInit => Fronted
<1> SUFFICES ASSUME RepairInit PROVE Fronted
  OBVIOUS
<1>1. Planned
  BY InitCompleting DEF Completing
<1>2. /\ exec.pc = "idle" /\ cycle.stage = "off"
      /\ \A a \in Actions : ~Unresolved(a)
      /\ Observed = Gap /\ Gap \subseteq Actions
      /\ passed = {a \in Actions : \E g \in Gap : Rank[a] <= Rank[g]}
      /\ \A a \in Actions : latest[a] # "PENDING_CAUSAL_ORDER"
      /\ Claimed = {} /\ \A a \in Gap : scoped[a]
  BY GapAssumption DEF RepairInit, Idle, Off, Head, Observed, Claimed, Unresolved,
     UnresolvedStates, Orders
<1>3. FlightRows /\ FlightHandled /\ RowHandled /\ Covering /\ ClaimsInScope
  BY <1>2 DEF FlightRows, FlightRow, FlightHandled, RowHandled, Covering, ClaimsInScope,
     AtRows, At
<1>4. PassedFirst
  <2>1. \A a, c \in Actions : Rank[a] \in Nat /\ Rank[c] \in Nat
    BY ActionsAssumption
  <2>2. ASSUME NEW a \in Actions, NEW c \in Actions, a \in passed \cup Observed, Rank[c] < Rank[a]
        PROVE  c \in passed
    <3>1. PICK g \in Gap : Rank[a] <= Rank[g]
      BY <1>2, <2>1, <2>2
    <3>2. Rank[c] <= Rank[g]
      BY <1>2, <2>1, <2>2, <3>1
    <3> QED
      BY <1>2, <3>2
  <2> QED
    BY <1>2, <2>2 DEF PassedFirst
<1>5. InFront
  BY <1>2 DEF InFront, Submitting
<1> QED
  BY <1>1, <1>3, <1>4, <1>5 DEF Fronted

LEMMA StepFronted == ASSUME Fronted, [RepairNext]_allVars PROVE Fronted'
<1>1. Planned'
  BY StepPlanned DEF Fronted
<1> QED
  BY <1>1, StepFlightRows, StepFlightHandled, StepPassedFirst, StepInFront,
     StepClaimsInScope, StepRowHandled, StepCovering DEF Fronted

-----------------------------------------------------------------------------
\* The line of claims.

\* What the recovery has done with an action when a later one may follow.
Finished(b) == recovery[b] \in Settled \cup {Stale, "PARTIAL"}

\* All before an action is over, and what was claimed of it is finished.
Ahead(a) ==
  \A b \in Actions : Precedes(b, a) => Still(b) /\ (b \in Claimed => Finished(b))

NoClaimsYet == manifest = "NONE" => Claimed = {} /\ \A a \in Gap : ~Unresolved(a)

\* The row that may be executed is the first of its token that may.
RowInLine ==
  cycle.stage \in AtRows =>
    /\ Ahead(Row)
    /\ \A a \in Claimed : Precedes(Row, a) => ~Unresolved(a)

\* What the cycle has left behind is finished, or holds up its token.
RowsBehind ==
  cycle.stage \in RowStages =>
    \A b \in Claimed \ cycle.todo :
      \/ TokenOf[b] \in cycle.held
      \/ cycle.sent # {}
      \/ Finished(b)
      \/ latest[b] \notin TerminalStates

InLine == \A a \in Claimed : Unresolved(a) => Ahead(a)

Lined ==
  /\ Fronted
  /\ AllAgree
  /\ NoClaimsYet
  /\ RowInLine
  /\ RowsBehind
  /\ InLine

LEMMA LinedFacts ==
  ASSUME Lined
  PROVE  /\ Fronted /\ Planned /\ Kept /\ Shape /\ Typed /\ RepairTypeOK /\ HeadPlan
         /\ AllAgree /\ NoClaimsYet /\ RowInLine /\ RowsBehind /\ InLine
         /\ RowHandled /\ PassedFirst
         /\ recovery \in [Actions -> RecoveryStates]
         /\ Claimed \subseteq Actions
BY DEF Lined, Fronted, Planned, Kept, Sound, Shape, RepairTypeOK, Claimed

\* Who writes a recovery state.
LEMMA RecoveryMoves ==
  ASSUME Shape, [RepairNext]_allVars, NEW b \in Actions, recovery'[b] # recovery[b]
  PROVE  \/ Activate /\ b \in Gap
         \/ ClaimDependents /\ b \in Dependents
         \/ SyncRow /\ b = Row /\ recovery'[b] = Synced(b)
         \/ EndCycle /\ recovery[b] \in Settled /\ SideEffect(b)
         \/ cycle.stage \in AtRows /\ b = Row
<1>0. recovery \in [Actions -> RecoveryStates]
  BY DEF Shape, RepairTypeOK
<1>1. CASE Activate
  BY <1>0, <1>1 DEF Activate
<1>2. CASE ClaimDependents
  BY <1>0, <1>2 DEF ClaimDependents
<1>3. CASE SyncRow
  <2>1. Mark(Row, Synced(Row))
    BY <1>3 DEF SyncRow
  <2> QED
    BY <1>0, <1>3, <2>1 DEF Mark
<1>4. CASE EndCycle
  BY <1>0, <1>4 DEF EndCycle
<1>5. CASE BlockStaleRow \/ MarkClosed
  BY <1>0, <1>5 DEF BlockStaleRow, MarkClosed, Stage, Mark, AtRows
<1>6. CASE \E a \in Actions : MarkBelowMinimum(a) \/ AwaitPrice(a) \/ FreezeBook(a)
  <2>1. PICK a \in Actions : Judged(a) /\ \E s : Mark(a, s)
    BY <1>6 DEF MarkBelowMinimum, AwaitPrice, FreezeBook, Priced, Resolvable, Effective
  <2> QED
    BY <1>0, <2>1 DEF Judged, Stage, Mark, AtRows
<1>7. CASE \E a \in Actions : RecordResult(a)
  <2>1. PICK a \in Actions : Returned(a) /\ Mark(a, Result(a))
    BY <1>7 DEF RecordResult
  <2> QED
    BY <1>0, <2>1 DEF Returned, Stage, Mark, AtRows
<1>8. CASE UNCHANGED recovery
  BY <1>8
<1>9. CASE Intakes \/ Executor \/ Retries \/ Reconciliation \/ LoseHead \/ Die
           \/ (\E o \in Orders : Trade(o)) \/ UNCHANGED allVars \/ EndClaims \/ BeginCycle
  BY <1>8, <1>9 DEF Intakes, BeginHead, IntakeNext, EndIntake, Executor, Execute, Defer,
     IntakeFindsStale, Refuses, Retries, RetryPending, EndRetry, EndHead, Reconciliation,
     ReconcileAll, ReconcileSent, CancelBeforeHead, LoseHead, Die, Trade, EndClaims,
     BeginCycle, tables, allVars
<1>10. CASE SkipRow \/ WaitRow \/ FailStaleRow \/ RowRaises \/ CloseBelowMinimum \/ LeaveSmall
            \/ ExecuteFrozen
            \/ \E a \in Actions : ExecuteNothing(a) \/ CloseOfficially(a) \/ ResultRaised(a)
  BY <1>8, <1>10 DEF SkipRow, WaitRow, FailStaleRow, RowRaises, CloseBelowMinimum, LeaveSmall,
     ExecuteFrozen, ExecuteNothing, CloseOfficially, ResultRaised, tables
<1> QED
  BY <1>1, <1>2, <1>3, <1>4, <1>5, <1>6, <1>7, <1>9, <1>10 DEF RepairNext, Claims, Rows

\* Nothing is claimed before the manifest is active.
LEMMA Unclaimed ==
  ASSUME NoClaimsYet, NEW a \in Claimed
  PROVE  ~Activate
BY DEF NoClaimsYet, Activate

LEMMA StepNoClaimsYet == ASSUME Lined, [RepairNext]_allVars PROVE NoClaimsYet'
<1> SUFFICES ASSUME manifest' = "NONE" PROVE NoClaimsYet'
  BY DEF NoClaimsYet
<1>0. Planned /\ Kept /\ Shape /\ RepairTypeOK /\ HeadPlan /\ NoClaimsYet /\ Gap \subseteq Actions
  BY LinedFacts, GapAssumption
<1>1. manifest = "NONE" /\ ~Activate
  <2>1. CASE Rows
    <3>1. UNCHANGED manifest \/ EndCycle
      BY <1>0, <2>1, RowsMove
    <3> QED
      BY <3>1 DEF EndCycle, Activate
  <2>2. CASE Activate
    BY <2>2 DEF Activate
  <2>3. CASE ~Rows /\ ~Activate
    BY <2>3 DEF RepairNext, Intakes, BeginHead, IntakeNext, EndIntake, Executor, Execute, Defer,
       IntakeFindsStale, Refuses, Claims, ClaimDependents, EndClaims, BeginCycle, Retries,
       RetryPending, EndRetry, EndHead, Reconciliation, ReconcileAll, ReconcileSent,
       CancelBeforeHead, LoseHead, Die, Trade, tables, allVars
  <2> QED
    BY <2>1, <2>2, <2>3 DEF Activate
<1>2. ~ClaimDependents
  BY <1>1 DEF ClaimDependents, Dependents, ActiveClaims
<1>3. Claimed' = {}
  BY <1>0, <1>1, <1>2, ClaimsStay DEF NoClaimsYet
<1>4. ASSUME NEW a \in Gap PROVE ~Unresolved(a)'
  <2>1. a \in passed /\ a \in Actions
    BY <1>0 DEF HeadPlan
  <2>2. ~(exec.pc = "prepare" /\ exec.act = a)
    BY <1>0, <1>1, <2>1 DEF HeadPlan, Early, RowStages, AtRows
  <2>3. ~Unresolved(a)
    BY <1>0, <1>1 DEF NoClaimsYet
  <2> QED
    BY <1>0, <2>1, <2>2, <2>3, NewlyUnresolved, StepOfRows
<1> QED
  BY <1>3, <1>4 DEF NoClaimsYet

\* What is finished stays finished.
LEMMA FinishedStays ==
  ASSUME Lined, [RepairNext]_allVars, NEW b \in Claimed, Still(b), Finished(b),
         cycle.stage \in AtRows => b # Row
  PROVE  Finished(b)'
<1>0. Fronted /\ Shape /\ NoClaimsYet /\ AllAgree /\ b \in Actions
  BY LinedFacts DEF Claimed
<1>1. ~SideEffect(b) /\ ~Activate /\ b \notin Dependents
  BY <1>0, StillFacts, Unclaimed DEF Dependents
<1>2. ASSUME SyncRow, b = Row, recovery'[b] = Synced(b) PROVE Finished(b)'
  <2>1. ~RowDone(b)
    BY <1>2 DEF SyncRow
  <2>2. recovery[b] = "PARTIAL"
    BY <1>1, <2>1 DEF RowDone, Finished
  <2>3. latest[b] = "PARTIAL"
    BY <1>0, <2>2 DEF AllAgree, Agrees
  <2>4. Synced(b) \in Settled
    BY <1>1, <2>3, Words DEF Synced, Ended
  <2> QED
    BY <1>2, <2>4 DEF Finished
<1> QED
  BY <1>0, <1>1, <1>2, RecoveryMoves DEF Finished

LEMMA AheadStays ==
  ASSUME Lined, [RepairNext]_allVars, NEW a \in Claimed, Ahead(a),
         cycle.stage \in AtRows => ~Precedes(Row, a)
  PROVE  Ahead(a)'
<1>0. Fronted /\ Planned /\ Shape /\ NoClaimsYet /\ HeadPlan /\ PassedFirst /\ a \in Actions
      /\ a \in passed
  BY LinedFacts DEF Claimed, HeadPlan
<1> SUFFICES ASSUME NEW b \in Actions, Precedes(b, a)
             PROVE  Still(b)' /\ (b \in Claimed' => Finished(b)')
  BY DEF Ahead, Precedes
<1>1. Still(b) /\ (b \in Claimed => Finished(b)) /\ (cycle.stage \in AtRows => b # Row)
  BY DEF Ahead
<1>2. latest[b] = "NONE" => b \in passed
  BY <1>0 DEF PassedFirst, Precedes, Observed
<1>3. Still(b)'
  BY <1>0, <1>1, <1>2, StillStays
<1>4. ASSUME b \in Claimed', b \notin Claimed PROVE FALSE
  <2>1. ~Activate
    BY <1>0, Unclaimed
  <2>2. b \notin Dependents
    BY <1>0, <1>1, StillFacts DEF Dependents
  <2>3. ~ClaimDependents
    BY <1>4, <2>2 DEF ClaimDependents, Claimed
  <2> QED
    BY <1>0, <1>4, <2>1, <2>3, ClaimsStay
<1> QED
  BY <1>1, <1>3, <1>4, FinishedStays

\* A row is judged only when it is its turn.
LEMMA JudgedInLine ==
  ASSUME Lined, [RepairNext]_allVars, SyncRow, cycle'.stage = "judge", UNCHANGED vars
  PROVE  /\ \A b \in Actions : Precedes(b, Row) => Still(b) /\ (b \in Claimed => Finished(b))
         /\ \A a \in Claimed : Precedes(Row, a) => ~Unresolved(a)
<1>0. /\ Fronted /\ Planned /\ Shape /\ RepairTypeOK /\ HeadPlan /\ RowsBehind /\ InLine
      /\ AllAgree /\ Claimed \subseteq Actions
  BY LinedFacts
<1>1. /\ cycle.stage = "rows" /\ cycle.todo # {} /\ exec.pc = "idle"
      /\ ~RowDone(Row) /\ ~RowWaits(Row)
  BY DEF SyncRow, AtRow, Stage, At
<1>2. Row \in cycle.todo /\ Row \in Actions /\ \A b \in cycle.todo : Rank[Row] <= Rank[b]
  BY <1>0, <1>1, RowTyped
<1>3. /\ Synced(Row) \notin Settled \cup {Uncertain} /\ cycle.sent = {}
  BY <1>0 DEF SyncRow, Hold, NextRow, RepairTypeOK, Cycles
<1>4. recovery[Row] \notin Settled
  BY <1>1, <1>3 DEF RowDone, Synced
<1>5. ~PriorNonterminal(Row) /\ TokenOf[Row] \notin cycle.held
  BY <1>1, <1>4 DEF RowWaits
<1>6. ASSUME NEW b \in Actions, Precedes(b, Row)
      PROVE  Still(b) /\ (b \in Claimed => Finished(b))
  <2>1. Still(b)
    BY <1>1, <1>5, <1>6 DEF PriorNonterminal, Earlier, Precedes, Still, At
  <2>2. ASSUME b \in Claimed PROVE Finished(b)
    <3>1. b \notin cycle.todo
      BY <1>2, <1>6, ActionsAssumption DEF Precedes
    <3>2. latest[b] # "NONE"
      BY <1>0, <2>2 DEF HeadPlan, Observed
    <3>3. latest[b] \in TerminalStates
      BY <2>1, <3>2 DEF Still, Nonterminal
    <3> QED
      BY <1>0, <1>1, <1>3, <1>5, <1>6, <2>2, <3>1, <3>3 DEF RowsBehind, RowStages, Precedes
  <2> QED
    BY <2>1, <2>2
<1>7. ASSUME NEW a \in Claimed, Precedes(Row, a), Unresolved(a) PROVE FALSE
  <2>1. Row \in Claimed
    BY <1>0, <1>1, <1>2 DEF HeadPlan, RowStages
  <2>2. Still(Row) /\ Finished(Row)
    BY <1>0, <1>2, <1>7, <2>1 DEF InLine, Ahead
  <2>3. PICK r \in Actions : r = Row
    BY <1>2
  <2>4. ~SideEffect(r)
    BY <1>0, <2>2, <2>3, StillFacts
  <2>5. recovery[r] = "PARTIAL"
    BY <1>1, <1>4, <2>2, <2>3, <2>4 DEF RowDone, Finished
  <2>6. latest[r] = "PARTIAL"
    BY <1>0, <2>5 DEF AllAgree, Agrees
  <2>7. Synced(r) \in Settled
    BY <2>4, <2>6, Words DEF Synced, Ended
  <2> QED
    BY <1>3, <2>3, <2>7
<1> QED
  BY <1>6, <1>7

\* Only an action that executes is newly in flight.
LEMMA NewInFlight ==
  ASSUME Lined, [RepairNext]_allVars, NEW a \in Claimed, Unresolved(a)', ~Unresolved(a)
  PROVE  cycle.stage \in AtRows /\ a = Row
<1>0. /\ Planned /\ Kept /\ Shape /\ RepairTypeOK /\ HeadPlan /\ RowHandled
      /\ a \in Actions /\ a \in passed
  BY LinedFacts DEF Claimed, HeadPlan
<1>1. exec.pc = "prepare" /\ exec.act = a
  BY <1>0, NewlyUnresolved, StepOfRows
<1>2. cycle.stage \in {"run", "covered"}
  BY <1>0, <1>1 DEF HeadPlan, Early
<1> QED
  BY <1>0, <1>1, <1>2 DEF RowHandled, AtRows, At

LEMMA StepRowInLine == ASSUME Lined, [RepairNext]_allVars PROVE RowInLine'
<1> SUFFICES ASSUME cycle'.stage \in AtRows PROVE RowInLine'
  BY DEF RowInLine
<1>0. /\ Fronted /\ Planned /\ Shape /\ RepairTypeOK /\ HeadPlan /\ RowInLine /\ RowHandled
      /\ Claimed \subseteq Actions /\ Off.stage = "off"
  BY LinedFacts, OffTyped
<1>1. CASE SyncRow /\ cycle'.stage = "judge" /\ cycle'.todo = cycle.todo /\ UNCHANGED vars
  <2>1. Row' = Row /\ Row \in Actions /\ cycle.stage = "rows"
    BY <1>0, <1>1, RowTyped, SameRow DEF SyncRow, AtRow, Stage
  <2>2. Claimed' = Claimed
    BY <1>0, <1>1, <2>1, ClaimsStay DEF Activate, ClaimDependents, Stage, HeadPlan, RowStages
  <2>3. ASSUME NEW b \in Actions, Precedes(b, Row)
        PROVE  Still(b)' /\ (b \in Claimed => Finished(b)')
    <3>1. Still(b) /\ (b \in Claimed => Finished(b))
      BY <1>1, <2>3, JudgedInLine
    <3>2. UNCHANGED <<latest, target, exec>>
      BY <1>1 DEF vars, rows
    <3>3. Still(b)'
      BY <3>1, <3>2 DEF Still, Nonterminal, At
    <3>4. b # Row
      BY <1>0, <2>1, <2>3, ActionsAssumption DEF Precedes
    <3>5. recovery'[b] = recovery[b]
      BY <1>0, <1>1, <2>1, <3>4 DEF SyncRow, Mark, RepairTypeOK
    <3> QED
      BY <3>1, <3>3, <3>5 DEF Finished
  <2>4. ASSUME NEW a \in Claimed, Precedes(Row, a) PROVE ~Unresolved(a)'
    <3>1. ~Unresolved(a)
      BY <1>1, <2>4, JudgedInLine
    <3> QED
      BY <1>1, <3>1 DEF Unresolved, vars, rows
  <2>5. PICK r \in Actions : r = Row /\ r = Row'
    BY <2>1
  <2>6. Ahead(r)' /\ \A a \in Claimed : Precedes(r, a) => ~Unresolved(a)'
    BY <2>2, <2>3, <2>4, <2>5 DEF Ahead, Precedes
  <2> QED
    BY <2>2, <2>5, <2>6 DEF RowInLine, Ahead, Precedes
<1>2. CASE cycle.stage \in AtRows /\ Row' = Row
  <2>1. Row \in Claimed /\ Row \in Actions
    BY <1>0, <1>2, RowClaimed, RowAt
  <2>2. Claimed' = Claimed
    BY <1>0, <1>2, ClaimsStay DEF Activate, ClaimDependents, Stage, HeadPlan, RowStages, AtRows
  <2>3. PICK r \in Claimed : r = Row /\ r \in Actions
    BY <2>1
  <2>4. Ahead(r)'
    <3>1. Ahead(r) /\ ~Precedes(r, r)
      BY <1>0, <1>2, <2>3, ActionsAssumption DEF RowInLine, Precedes
    <3> QED
      BY <2>3, <3>1, AheadStays
  <2>5. ASSUME NEW a \in Claimed, Precedes(r, a) PROVE ~Unresolved(a)'
    <3>1. ~Unresolved(a)
      BY <1>0, <1>2, <2>3, <2>5 DEF RowInLine
    <3>2. a # r
      BY <1>0, <2>3, <2>5, ActionsAssumption DEF Precedes
    <3> QED
      BY <2>3, <3>1, <3>2, NewInFlight
  <2>6. r = Row'
    BY <1>2, <2>3
  <2> QED
    BY <2>2, <2>4, <2>5, <2>6 DEF RowInLine, Ahead, Precedes
<1>3. CASE Executor
  BY <1>0, <1>2, <1>3, ExecutorSteps, SameRow DEF AtRows
<1>4. CASE Rows
  BY <1>0, <1>1, <1>2, <1>4, RowsStep, SameRow DEF RowStep, AtRows
<1>5. CASE UNCHANGED cycle
  BY <1>2, <1>5, SameRow
<1>6. ~BeginCycle
  BY <1>0, BeginCycleGoes DEF AtRows
<1> QED
  BY <1>0, <1>3, <1>4, <1>5, <1>6, Elsewhere DEF RowStages

LEMMA StepInLine == ASSUME Lined, [RepairNext]_allVars PROVE InLine'
<1> SUFFICES ASSUME NEW a \in Claimed', Unresolved(a)' PROVE Ahead(a)'
  BY DEF InLine
<1>0. /\ Fronted /\ Planned /\ Kept /\ Shape /\ NoClaimsYet /\ RowInLine /\ InLine
      /\ a \in Actions
  BY LinedFacts DEF Claimed
<1>1. CASE a \in Claimed
  <2>1. CASE Unresolved(a)
    BY <1>0, <1>1, <2>1, AheadStays DEF InLine, RowInLine
  <2>2. CASE ~Unresolved(a)
    <3>1. cycle.stage \in AtRows /\ a = Row
      BY <1>1, <2>2, NewInFlight
    <3>2. Ahead(a) /\ ~Precedes(a, a)
      BY <1>0, <3>1, ActionsAssumption DEF RowInLine, Precedes
    <3> QED
      BY <1>1, <3>1, <3>2, AheadStays
  <2> QED
    BY <2>1, <2>2
<1>2. CASE a \notin Claimed
  <2>1. CASE Activate
    <3>1. a \in Gap /\ UNCHANGED attempt /\ manifest = "NONE"
      BY <1>2, <2>1 DEF Activate, Claimed, vars, rows
    <3> QED
      BY <1>0, <3>1 DEF NoClaimsYet, Unresolved
  <2>2. CASE ClaimDependents
    <3>1. latest[a] = "PENDING_CAUSAL_ORDER" /\ UNCHANGED attempt
      BY <1>2, <2>2 DEF ClaimDependents, Dependents, Claimed, vars, rows
    <3>2. Unresolved(a)
      BY <3>1 DEF Unresolved
    <3> QED
      BY <1>0, <3>1, <3>2, FlightFacts
  <2> QED
    BY <1>0, <1>2, <2>1, <2>2, ClaimsStay
<1> QED
  BY <1>1, <1>2

\* A claimed action behind the cycle, as RowsBehind says.
LeftBehind(b) ==
  \/ TokenOf[b] \in cycle.held
  \/ cycle.sent # {}
  \/ Finished(b)
  \/ latest[b] \notin TerminalStates

\* A step at a row leaves the other rows, what is held, and what was sent.
LEMMA RowsLeave ==
  ASSUME Lined, [RepairNext]_allVars, Rows, cycle'.stage \in RowStages
  PROVE  /\ cycle.held \subseteq cycle'.held
         /\ cycle.sent # {} => cycle'.sent # {}
         /\ cycle'.todo = cycle.todo \/ cycle'.todo = cycle.todo \ {Row}
         /\ \A b \in Claimed : b # Row => latest'[b] = latest[b] /\ recovery'[b] = recovery[b]
<1>0. /\ Fronted /\ Planned /\ Shape /\ RepairTypeOK /\ Claimed \subseteq Actions
      /\ cycle \in Cycles /\ ~EndCycle
  <2>1. ~EndCycle
    <3>1. ASSUME EndCycle PROVE cycle'.stage = "retry"
      BY <3>1, LinedFacts, EnterTyped DEF EndCycle, Stages
    <3> QED
      BY <3>1 DEF RowStages, AtRows
  <2> QED
    BY <2>1, LinedFacts DEF RepairTypeOK
<1>1. \/ cycle' = cycle
      \/ \E s \in Stages : Enter(s)
      \/ Hold \/ NextRow({})
      \/ \E a \in Actions : RecordResult(a)
  BY <1>0 DEF Rows, SkipRow, WaitRow, SyncRow, FailStaleRow, BlockStaleRow, RowRaises, MarkClosed,
     CloseBelowMinimum, LeaveSmall, ExecuteFrozen, Reopen, ExecuteNothing, CloseOfficially,
     MarkBelowMinimum, AwaitPrice, FreezeBook, ResultRaised, Stages
<1>2. /\ cycle.held \subseteq cycle'.held
      /\ cycle.sent # {} => cycle'.sent # {}
      /\ cycle'.todo = cycle.todo \/ cycle'.todo = cycle.todo \ {Row}
  <2>1. CASE \E s \in Stages : Enter(s)
    BY <1>0, <2>1 DEF Enter, Cycles
  <2>2. CASE Hold \/ NextRow({})
    <3>1. PICK T : NextRow(T)
      BY <2>2 DEF Hold
    <3> QED
      BY <1>0, <3>1 DEF NextRow, Cycles
  <2>3. ASSUME NEW a \in Actions, RecordResult(a)
        PROVE  /\ cycle.held \subseteq cycle'.held
               /\ cycle.sent # {} => cycle'.sent # {}
               /\ cycle'.todo = cycle.todo \ {Row}
    <3>1. PICK h, s : /\ cycle' = [cycle EXCEPT !.stage = "rows", !.todo = @ \ {a},
                                                !.held = h, !.sent = s]
                      /\ h = cycle.held \/ h = cycle.held \cup {TokenOf[a]}
                      /\ s = cycle.sent \/ s = {a}
      BY <2>3 DEF RecordResult
    <3>2. a = Row
      BY <2>3 DEF RecordResult, Returned
    <3>3. cycle'.held = h /\ cycle'.sent = s /\ cycle'.todo = cycle.todo \ {a}
      BY <1>0, <3>1 DEF Cycles
    <3> QED
      BY <3>1, <3>2, <3>3
  <2> QED
    BY <1>1, <2>1, <2>2, <2>3
<1>3. ASSUME NEW b \in Claimed, b # Row
      PROVE  latest'[b] = latest[b] /\ recovery'[b] = recovery[b]
  <2>0. b \in Actions /\ cycle.stage \in RowStages
    BY <1>0, RowsMove
  <2>1. recovery'[b] = recovery[b]
    <3>1. ~Activate /\ ~ClaimDependents
      BY <1>0, <2>0 DEF Activate, ClaimDependents, Stage, Planned, HeadPlan, RowStages, AtRows
    <3> QED
      BY <1>0, <1>3, <2>0, <3>1, RecoveryMoves
  <2>2. UNCHANGED vars \/ RecoveryStep
    BY DEF Rows, SkipRow, WaitRow, SyncRow, BlockStaleRow, RowRaises, MarkClosed,
       LeaveSmall, MarkBelowMinimum, AwaitPrice, FreezeBook, RecordResult, ResultRaised,
       EndCycle, RecoveryStep
  <2>3. latest'[b] = latest[b]
    <3>1. CASE UNCHANGED vars
      BY <3>1 DEF vars, rows
    <3>2. CASE RecoveryStep
      <4>1. \A B \in SUBSET Actions : ~BeginHead(B)
        BY <2>0 DEF BeginHead, Stage, RowStages, AtRows
      <4> QED
        BY <1>0, <1>3, <2>0, <3>2, <4>1, RecoveryActs
    <3> QED
      BY <2>2, <3>1, <3>2
  <2> QED
    BY <2>1, <2>3
<1> QED
  BY <1>2, <1>3

\* A result of what is covered is finished when the executor has ended it.
LEMMA CoveredResult ==
  ASSUME Lined, cycle.stage = "covered", latest[Row] \in TerminalStates
  PROVE  Result(Row) \in Settled \cup {"PARTIAL"}
<1>1. latest[Row] \in CoveredEnds
  BY DEF Lined, Fronted, Covering
<1> QED
  BY <1>1 DEF Result, CoveredEnds, Settled

\* A row that the cycle leaves is finished, or holds up its token.
LEMMA RowLeft ==
  ASSUME Lined, [RepairNext]_allVars, Rows, cycle'.stage \in RowStages, NEW r \in Actions,
         r = Row, r \in Claimed, r \notin cycle'.todo, r \in cycle.todo
  PROVE  LeftBehind(r)'
<1>0. /\ Shape /\ RepairTypeOK /\ cycle \in Cycles /\ recovery \in [Actions -> RecoveryStates]
  BY LinedFacts DEF RepairTypeOK
<1>1. ASSUME Hold PROVE LeftBehind(r)'
  <2>1. TokenOf[r] \in cycle'.held
    BY <1>0, <1>1 DEF Hold, NextRow, Cycles
  <2> QED
    BY <2>1 DEF LeftBehind
<1>2. ASSUME Enter("judge") \/ Enter("closed") \/ Enter("minimum") \/ Enter("small")
             \/ Enter("frozen") \/ Enter("run") \/ Enter("covered") \/ UNCHANGED cycle
      PROVE  FALSE
  BY <1>0, <1>2 DEF Enter, Cycles
<1>3. CASE SkipRow
  <2>1. recovery[r] \in Settled \cup {Stale} /\ UNCHANGED recovery
    BY <1>3 DEF SkipRow, RowDone, tables
  <2> QED
    BY <2>1 DEF LeftBehind, Finished
<1>4. CASE SyncRow
  <2>1. CASE Hold
    BY <1>1, <2>1
  <2>2. CASE ~Hold
    <3>1. NextRow({}) /\ (Synced(r) \in Settled \/ cycle.sent # {})
      BY <1>2, <1>4, <2>2 DEF SyncRow
    <3>2. cycle'.sent = cycle.sent
      BY <1>0, <3>1 DEF NextRow, Cycles
    <3>3. ASSUME Synced(r) \in Settled PROVE recovery'[r] \in Settled
      <4>1. Synced(r) # "none"
        BY <3>3 DEF Settled
      <4>2. Mark(r, Synced(r))
        BY <1>4, <4>1 DEF SyncRow
      <4> QED
        BY <1>0, <3>3, <4>2 DEF Mark
    <3> QED
      BY <3>1, <3>2, <3>3 DEF LeftBehind, Finished
  <2> QED
    BY <2>1, <2>2
<1>5. CASE WaitRow \/ BlockStaleRow \/ MarkClosed \/ LeaveSmall
           \/ \E a \in Actions : AwaitPrice(a)
  BY <1>1, <1>5 DEF WaitRow, BlockStaleRow, MarkClosed, LeaveSmall, AwaitPrice
<1>6. ASSUME NEW a \in Actions, RecordResult(a) PROVE LeftBehind(r)'
  <2>1. a = r /\ recovery'[r] = Result(r) /\ latest' = latest
        /\ cycle.stage \in {"run", "covered"}
    BY <1>0, <1>6 DEF RecordResult, Returned, Stage, Mark, vars, rows
  <2>2. CASE cycle.stage = "run"
    <3>1. PICK s : cycle' = [cycle EXCEPT !.stage = "rows", !.todo = @ \ {r},
                                          !.held = @ \cup {TokenOf[r]}, !.sent = s]
      BY <1>6, <2>1, <2>2 DEF RecordResult
    <3>2. TokenOf[r] \in cycle'.held
      BY <1>0, <3>1 DEF Cycles
    <3> QED
      BY <3>2 DEF LeftBehind
  <2>3. CASE cycle.stage = "covered"
    BY <2>1, <2>3, CoveredResult DEF LeftBehind, Finished
  <2> QED
    BY <2>1, <2>2, <2>3
<1>7. ~EndCycle
  <2>1. ASSUME EndCycle PROVE cycle'.stage = "retry"
    BY <1>0, <2>1, EnterTyped DEF EndCycle, Stages
  <2> QED
    BY <2>1 DEF RowStages, AtRows
<1>8. CASE \/ FailStaleRow \/ CloseBelowMinimum \/ ExecuteFrozen
           \/ \E a \in Actions : \/ ExecuteNothing(a) \/ CloseOfficially(a)
                                 \/ MarkBelowMinimum(a) \/ FreezeBook(a)
  BY <1>2, <1>8 DEF FailStaleRow, CloseBelowMinimum, ExecuteFrozen, ExecuteNothing, Reopen,
     CloseOfficially, MarkBelowMinimum, FreezeBook
<1>9. ASSUME RowRaises \/ \E a \in Actions : ResultRaised(a) PROVE FALSE
  <2>1. Enter("retry")
    BY <1>9 DEF RowRaises, ResultRaised
  <2>2. cycle'.stage = "retry"
    BY <1>0, <2>1, EnterTyped DEF Stages
  <2> QED
    BY <2>2 DEF RowStages, AtRows
<1> QED
  BY <1>3, <1>4, <1>5, <1>6, <1>7, <1>8, <1>9 DEF Rows

\* The executor at a row writes no other claimed row.
LEMMA ExecutorLeaves ==
  ASSUME Lined, Executor, cycle.stage \in AtRows, NEW b \in Claimed, b # Row
  PROVE  latest'[b] = latest[b]
<1>0. /\ Fronted /\ Planned /\ Kept /\ Shape /\ Typed /\ RowHandled /\ RowInLine
      /\ b \in Actions /\ Row \in Actions
  BY LinedFacts, RowAt DEF Claimed
<1>1. PICK a \in Actions : Execute(a) \/ Defer(a) \/ IntakeFindsStale(a) \/ Refuses(a)
  BY DEF Executor
<1>2. HandlerStep(a)
  BY <1>1 DEF Execute, Defer, IntakeFindsStale, Refuses, HandlerStep, Plan
<1>3. exec.pc # "idle"
  BY <1>0, ExecutorSteps
<1>4. exec.act = a
  BY <1>0, <1>2, <1>3, Acting DEF ProcessSourceAction, CloseRetry, At
<1>5. a = Row /\ a # b
  BY <1>0, <1>3, <1>4 DEF RowHandled, At
<1>6. CASE SupersedeEarlierOpposites(a)
  <2>1. b \notin EarlierOpposites(a)
    <3> SUFFICES ASSUME b \in EarlierOpposites(a) PROVE FALSE
      OBVIOUS
    <3>1. Precedes(b, a) /\ latest[b] # "NONE" /\ target[b].state \in RetryableStates
      BY DEF EarlierOpposites, Earlier, Precedes
    <3>2. Still(b)
      BY <1>0, <1>5, <3>1 DEF RowInLine, Ahead
    <3> QED
      BY <1>0, <3>1, <3>2, StillFacts, Disjoint
  <2> QED
    BY <1>0, <1>6, <2>1 DEF SupersedeEarlierOpposites
<1>7. CASE ~SupersedeEarlierOpposites(a)
  BY <1>0, <1>2, <1>5, <1>7, OthersSame DEF Same
<1> QED
  BY <1>6, <1>7

\* Every step at a row has a row, but the end of the cycle.
LEMMA RowsHaveRow ==
  ASSUME Shape, Rows, cycle'.stage \in RowStages
  PROVE  cycle.todo # {}
<1>1. ~EndCycle
  <2>1. ASSUME EndCycle PROVE cycle'.stage = "retry"
    BY <2>1, EnterTyped DEF EndCycle, Stages, Shape
  <2> QED
    BY <2>1 DEF RowStages, AtRows
<1>2. cycle.stage \in AtRows \/ AtRow
  BY <1>1 DEF Rows, SkipRow, WaitRow, SyncRow, FailStaleRow, BlockStaleRow, RowRaises, MarkClosed,
     CloseBelowMinimum, LeaveSmall, ExecuteFrozen, ExecuteNothing, CloseOfficially,
     MarkBelowMinimum, AwaitPrice, FreezeBook, RecordResult, ResultRaised, Returned, Priced,
     Resolvable, Effective, Judged, Stage, AtRows
<1> QED
  BY <1>2 DEF AtRow, Shape, RowsToDo

LEMMA StepRowsBehind == ASSUME Lined, [RepairNext]_allVars PROVE RowsBehind'
<1> SUFFICES ASSUME cycle'.stage \in RowStages,
                    NEW b \in Claimed', b \notin cycle'.todo
             PROVE  LeftBehind(b)'
  BY DEF RowsBehind, LeftBehind
<1>0. /\ Fronted /\ Planned /\ Shape /\ RepairTypeOK /\ HeadPlan /\ RowsBehind /\ RowHandled
      /\ Claimed \subseteq Actions /\ Off.stage = "off" /\ cycle \in Cycles
  BY LinedFacts, OffTyped DEF RepairTypeOK
<1>1. ASSUME ~Activate, ~ClaimDependents PROVE b \in Claimed /\ b \in Actions
  BY <1>0, <1>1, ClaimsStay
<1>2. ASSUME cycle.stage \in RowStages PROVE ~Activate /\ ~ClaimDependents
  BY <1>0, <1>2 DEF Activate, ClaimDependents, Stage, HeadPlan, RowStages, AtRows
<1>3. ASSUME UNCHANGED cycle, cycle.stage \in AtRows => latest'[b] = latest[b],
             cycle.stage = "rows" => latest'[b] = latest[b], ~Rows
      PROVE  LeftBehind(b)'
  <2>1. b \in Claimed /\ b \in Actions /\ ~Activate /\ ~ClaimDependents
    BY <1>1, <1>2, <1>3
  <2>2. recovery'[b] = recovery[b]
    <3>1. ~SyncRow /\ ~EndCycle
      BY <1>3 DEF Rows
    <3>2. cycle.stage \in AtRows => b # Row
      BY <1>0, <1>3, RowAt
    <3> QED
      BY <1>0, <2>1, <3>1, <3>2, RecoveryMoves
  <2>3. LeftBehind(b)
    BY <1>0, <1>3, <2>1 DEF RowsBehind, LeftBehind
  <2> QED
    BY <1>3, <2>2, <2>3 DEF LeftBehind, Finished, RowStages
<1>4. CASE Executor /\ ~Rows
  <2>1. UNCHANGED cycle /\ cycle.stage \in AtRows
    BY <1>0, <1>4, ExecutorSteps DEF RowHandled, RowStages, AtRows, At
  <2>2. b \in Claimed /\ b # Row
    BY <1>0, <1>1, <1>2, <2>1, RowAt DEF RowStages
  <2>3. latest'[b] = latest[b] /\ cycle.stage # "rows"
    BY <1>4, <2>1, <2>2, ExecutorLeaves DEF AtRows
  <2> QED
    BY <1>3, <1>4, <2>1, <2>3
<1>5. CASE Rows
  <2>1. cycle.stage \in RowStages
    BY <1>0, <1>5, RowsMove
  <2>2. b \in Claimed /\ b \in Actions
    BY <1>1, <1>2, <2>1
  <2>3. CASE b = Row /\ b \in cycle.todo
    BY <1>5, <2>2, <2>3, RowLeft
  <2>4. CASE b \notin cycle.todo
    <3>1. b # Row
      <4>1. cycle.todo # {} => Row \in cycle.todo
        BY <1>0, RowTyped
      <4>2. cycle.todo # {}
        BY <1>0, <1>5, RowsHaveRow
      <4> QED
        BY <2>4, <4>1, <4>2
    <3>2. LeftBehind(b)
      BY <1>0, <2>1, <2>2, <2>4 DEF RowsBehind, LeftBehind
    <3>3. /\ cycle.held \subseteq cycle'.held
          /\ cycle.sent # {} => cycle'.sent # {}
          /\ latest'[b] = latest[b] /\ recovery'[b] = recovery[b]
      BY <1>5, <2>2, <3>1, RowsLeave
    <3> QED
      BY <3>2, <3>3 DEF LeftBehind, Finished
  <2>5. CASE b # Row /\ b \in cycle.todo
    BY <1>5, <2>5, RowsLeave
  <2> QED
    BY <2>3, <2>4, <2>5
<1>6. CASE UNCHANGED cycle /\ UNCHANGED <<rows, exec>> /\ ~Rows
  BY <1>3, <1>6 DEF rows
<1>7. CASE BeginCycle
  <2>1. cycle.stage = "reconcile" /\ UNCHANGED <<tables, vars>>
    BY <1>7 DEF BeginCycle, Stage
  <2>2. b \in Claimed
    BY <1>1, <2>1 DEF Activate, ClaimDependents, Stage, BeginCycle, tables, Claimed
  <2>3. cycle'.todo = Claimed \ cycle.intake /\ cycle'.held = TokensOf(cycle.intake)
    BY <1>0, <1>7 DEF BeginCycle, RowStages, AtRows, Cycles
  <2>4. TokenOf[b] \in cycle'.held
    BY <2>2, <2>3 DEF TokensOf
  <2> QED
    BY <2>4 DEF LeftBehind
<1> QED
  BY <1>0, <1>4, <1>5, <1>6, <1>7, Elsewhere

LEMMA InitLined == RepairInit => Lined
<1> SUFFICES ASSUME RepairInit PROVE Lined
  OBVIOUS
<1>1. Fronted /\ AllAgree
  BY InitFronted, InitAgreeing DEF Agreeing
<1>2. cycle.stage = "off" /\ Claimed = {} /\ \A a \in Actions : ~Unresolved(a)
  BY OffTyped DEF RepairInit, Claimed, Unresolved, UnresolvedStates, Orders
<1> QED
  BY <1>1, <1>2, GapAssumption
     DEF Lined, NoClaimsYet, RowInLine, RowsBehind, InLine, AtRows, RowStages

LEMMA StepLined == ASSUME Lined, [RepairNext]_allVars PROVE Lined'
<1>1. Fronted' /\ AllAgree'
  BY StepFronted, StepAgreeing DEF Lined, Fronted, Planned, Agreeing
<1> QED
  BY <1>1, StepNoClaimsYet, StepRowInLine, StepRowsBehind, StepInLine DEF Lined

\* The recovery executes a claimed action only behind what came before it on
\* its token, and nothing before it comes back to life while it is in flight:
\* not a deferred action that is claimed late, not a reopened one, not one of
\* the head's own intake.
THEOREM RecoveryKeepsOrder == RepairSpec => []RecoveredInOrder
<1>1. Lined => RecoveredInOrder
  <2> SUFFICES ASSUME Lined, NEW a \in Claimed, NEW b \in Claimed,
                      TokenOf[a] = TokenOf[b], Rank[b] < Rank[a], SideEffect(a)
               PROVE  recovery[b] \in Settled \cup {Stale, "PARTIAL"} /\ ~SideEffect(b)
    BY DEF RecoveredInOrder
  <2>1. Fronted /\ InLine /\ a \in Actions /\ b \in Actions
    BY LinedFacts DEF Claimed
  <2>2. Unresolved(a)
    BY <2>1, FlightFacts
  <2>3. Still(b) /\ Finished(b)
    BY <2>1, <2>2 DEF InLine, Ahead, Precedes
  <2> QED
    BY <2>1, <2>3, StillFacts DEF Finished
<1> QED
  BY <1>1, InitLined, StepLined, PTL DEF RepairSpec
=============================================================================
