---------------------------- MODULE RepairWindow ----------------------------
(***************************************************************************)
(* The heads of a service whose ledger carries a repair manifest: intake   *)
(* of new source actions, the claim of what is blocked behind the          *)
(* manifest, reconciliation, the recovery cycle, and the ordinary retry    *)
(* queue (_process_live_ws_head and RepairWindowRecoveryManager).          *)
(*                                                                         *)
(* Rows, executor and exchange are those of OrderLedger.  The recovery     *)
(* tables stand in the same database but are written by transactions of    *)
(* their own, so that the process may stop between a step of the executor  *)
(* and the recovery state that tells of it.                                *)
(***************************************************************************)
EXTENDS OrderLedger

CONSTANTS
  Gap,     \* actions a restart closed as an internal gap, which the manifest names
  Outages  \* TRUE: an external failure may end a head

ASSUME GapAssumption == Gap \subseteq Actions /\ Gap # {}
ASSUME OutageAssumption == Outages \in BOOLEAN

VARIABLES
  manifest,  \* repair_recovery_manifests.state
  recovery,  \* repair_recovery_actions.state
  reason,    \* what the last deferral or stale target of an action names
  passed,    \* actions at or behind last_processed_block
  cycle      \* volatile: the head in progress

tables == <<manifest, recovery>>
allVars == <<vars, tables, reason, passed, cycle>>

Settled == {"NO_ORDER_COVERED_BY_CUMULATIVE_SURPLUS", "FILLED",
            "PARTIAL_TERMINAL_PREFIX_PRESERVED",
            "SUPERSEDED_BY_LATER_SOURCE_ACTION", "EXTERNAL_UNFILLABLE"}
InFlight == {"SUBMITTED_UNRECONCILED", "UNKNOWN_SUBMISSION"}
Stale == "BLOCKED_INTERNAL_STALE_CAUSAL_TARGET"
Uncertain == "BLOCKED_UNRESOLVED_SUBMISSION_SIDE_EFFECT"

\* The recovery state a status of the executor stands for.
SyncedStatus ==
  [FILLED |-> "FILLED",
   PARTIAL |-> "PARTIAL_TERMINAL_PREFIX_PRESERVED",
   SKIPPED |-> "NO_ORDER_COVERED_BY_CUMULATIVE_SURPLUS",
   SUPERSEDED_UNFILLED |-> "SUPERSEDED_BY_LATER_SOURCE_ACTION",
   EXTERNAL_UNFILLABLE |-> "EXTERNAL_UNFILLABLE",
   SUBMITTED_UNRECONCILED |-> "SUBMITTED_UNRECONCILED",
   UNKNOWN_SUBMISSION |-> "UNKNOWN_SUBMISSION",
   PARTIAL_PENDING |-> "PARTIAL_PENDING",
   PENDING_LIQUIDITY |-> "PENDING_EXTERNAL_LIQUIDITY",
   PENDING_EXTERNAL_RETRY |-> "PENDING_EXTERNAL_LIQUIDITY"]

RecoveryStates == {"UNCLAIMED", "AUTHORIZED", "PENDING_PRICE", Stale, Uncertain,
                   "CURRENT_EFFECT_RECONSTRUCTED"}
  \cup Settled \cup LatestStates \cup {SyncedStatus[s] : s \in DOMAIN SyncedStatus}

\* Why an action waits: for an order, for an action, or its sizing is stale.
Why == {"none", "order", "action", "stale"}

\* Steps of a head, from intake to the second reconciliation.  "judge" to
\* "covered" are those of one row of the recovery cycle.
Stages == {"off", "intake", "claim", "reconcile", "rows", "judge", "closed",
           "minimum", "small", "frozen", "run", "covered", "retry", "settle"}

Head(s, todo, intake, tokens, sent) ==
  [stage |-> s, todo |-> todo, intake |-> intake, held |-> tokens, sent |-> sent]
Off == Head("off", {}, {}, {}, {})
Stage(s) == cycle.stage = s /\ At("idle")
Enter(s) == cycle' = [cycle EXCEPT !.stage = s]

-----------------------------------------------------------------------------
\* Queries.

Claimed == {a \in Actions : recovery[a] # "UNCLAIMED"}
ActiveClaims == IF manifest = "ACTIVE" THEN Claimed ELSE {}

First(S) == CHOOSE a \in S : \A b \in S : Rank[a] <= Rank[b]
Last(S) == CHOOSE a \in S : \A b \in S : Rank[a] >= Rank[b]

\* The action a loop over source actions or claims has come to.
Row == First(cycle.todo)

TokensOf(S) == {TokenOf[a] : a \in S}

\* Mutant of Blocker: the row of the earlier action is kept instead of why.
BlockerStatus(a) ==
  LET b == Last({c \in Actions : Earlier(c, a) /\ (SideEffect(c) \/ Nonterminal(c))})
  IN [why |-> latest[b], act |-> b]

\* The earlier action a deferral names.
Blocker(a) ==
  IF PriorUnresolved(a)
  THEN [why |-> "order", act |-> Last({b \in Actions : Earlier(b, a) /\ SideEffect(b)})]
  ELSE [why |-> "action", act |-> Last({b \in Actions : Earlier(b, a) /\ Nonterminal(b)})]

AlreadyStale(a) == latest[a] = "ERROR_INTERNAL" /\ reason[a].why = "stale"

\* _sync_from_execution_state
Synced(a) ==
  LET s == IF latest[a] \in DOMAIN SyncedStatus THEN SyncedStatus[latest[a]] ELSE "none"
  IN IF SideEffect(a) /\ {recovery[a], s} \cap Settled # {} THEN Uncertain ELSE s

\* _required_quantity: what is left of a frozen target.  Without one the
\* surplus over the causal prefix, which is at most the position, is taken
\* off a BUY and added to a SELL, if the profile's policy says so.
Required(a) ==
  LET w == Want[a]
      p == AvailablePosition(TokenOf[a])
  IN IF HasTarget(a) THEN {Remaining(a)}
     ELSE IF SideOf[a] = "BUY" THEN {w - s : s \in 0..Least(w, p)}
     ELSE {w} \cup {Least(p, w + s) : s \in 0..p}

Say(a, why, b) == reason' = [reason EXCEPT ![a] = [why |-> why, act |-> b]]
Mark(a, s) == recovery' = [recovery EXCEPT ![a] = s]

\* The loop goes on with the next claimed action; later ones of a held token
\* wait for the next head.
NextRow(tokens) ==
  cycle' = [cycle EXCEPT !.stage = "rows", !.todo = @ \ {Row}, !.held = @ \cup tokens]
Hold == NextRow({TokenOf[Row]})

-----------------------------------------------------------------------------
\* The manifest, and the intake of a head.

\* activate_manifest, by the operator's tool.
Activate ==
  /\ manifest = "NONE"
  /\ manifest' = "ACTIVE"
  /\ recovery' = [a \in Actions |-> IF a \in Gap THEN "AUTHORIZED" ELSE recovery[a]]
  /\ UNCHANGED <<vars, reason, passed, cycle>>

\* The source actions between the cursor and the head are recorded.
BeginHead(B) ==
  /\ Stage("off")
  /\ B \cap passed = {}
  /\ {a \in Actions \ passed : latest[a] # "NONE"} \subseteq B
  /\ \A b \in B, c \in Actions : Rank[c] < Rank[b] => c \in passed \cup B
  /\ latest' = [a \in Actions |-> IF a \in B /\ latest[a] = "NONE" THEN "OBSERVED"
                                                                   ELSE latest[a]]
  /\ cycle' = Head("intake", B, B, {}, {})
  /\ UNCHANGED <<scoped, planned, target, attempt, reserved, pos, venue, exec, crashes,
                 tables, reason, passed>>

IntakeNext ==
  /\ Stage("intake")
  /\ cycle.todo # {}
  /\ IF latest[Row] \in HandledStates THEN UNCHANGED vars ELSE ProcessSourceAction(Row)
  /\ cycle' = [cycle EXCEPT !.todo = @ \ {Row}]
  /\ UNCHANGED <<tables, reason, passed>>

\* The cursor moves; what comes after it is not repeated for these blocks.
EndIntake ==
  /\ Stage("intake")
  /\ cycle.todo = {}
  /\ passed' = passed \cup cycle.intake
  /\ Enter("claim")
  /\ UNCHANGED <<vars, tables, reason>>

-----------------------------------------------------------------------------
\* The executor inside a head.

\* A surplus that covers a BUY leaves the plan no choice.
Execute(a) ==
  /\ \/ ScopeRefuses(a) \/ ScopeAccepts(a) \/ LateUnfillable(a)
     \/ RecoverSubmitStarted(a) \/ SupersedeEarlierOpposites(a) \/ CloseUnsellable(a)
     \/ PlanFails(a) \/ PlanFirst(a) \/ PlanRemainder(a)
     \/ RecordPlan(a) \/ PreparationFails(a) \/ RecordCancellation(a) \/ Submit(a)
  /\ cycle.stage = "covered" /\ Plannable(a)
       => exec' = Handler("planned", a, 1, "SKIPPED", Want[a], "none")
  /\ UNCHANGED <<tables, reason, passed, cycle>>

Defer(a) ==
  /\ DeferToEarlierAction(a)
  /\ Say(a, Blocker(a).why, Blocker(a).act)
  /\ UNCHANGED <<tables, passed, cycle>>

\* run_cycle has made this check itself before it calls the executor.
IntakeFindsStale(a) ==
  /\ cycle.stage = "intake"
  /\ FailStaleTarget(a)
  /\ Say(a, "stale", a)
  /\ UNCHANGED <<tables, passed, cycle>>

\* The exception ends the head before the cursor moves, or run_cycle only.
Refuses(a) ==
  /\ Refuse(a)
  /\ cycle' = IF cycle.stage = "intake" THEN Off ELSE [cycle EXCEPT !.stage = "retry"]
  /\ UNCHANGED <<tables, reason, passed>>

-----------------------------------------------------------------------------
\* Claims and the first reconciliation.

\* Pending actions whose deferral names a claimed action.  One that had been
\* submitted would be refused; a submitted action is not deferred.
Dependents ==
  {a \in Actions \ Claimed :
     /\ latest[a] = "PENDING_CAUSAL_ORDER"
     /\ reason[a].why = "action"
     /\ reason[a].act \in ActiveClaims}

\* One round of claim_new_causal_dependents.
ClaimDependents ==
  /\ Stage("claim")
  /\ Dependents # {}
  /\ recovery' = [a \in Actions |-> IF a \in Dependents THEN "AUTHORIZED" ELSE recovery[a]]
  /\ UNCHANGED <<vars, manifest, reason, passed, cycle>>

EndClaims ==
  /\ Stage("claim")
  /\ Dependents = {}
  /\ Enter("reconcile")
  /\ UNCHANGED <<vars, tables, reason, passed>>

ReconcileAll(o) ==
  /\ cycle.stage = "reconcile"
  /\ Reconcile(o)
  /\ UNCHANGED <<tables, reason, passed, cycle>>

\* run_cycle begins.  Actions of this head, and their tokens, are left alone.
BeginCycle ==
  /\ Stage("reconcile")
  /\ cycle' = IF manifest = "ACTIVE"
              THEN [cycle EXCEPT !.stage = "rows", !.todo = Claimed \ cycle.intake,
                                 !.held = TokensOf(cycle.intake)]
              ELSE [cycle EXCEPT !.stage = "retry"]
  /\ UNCHANGED <<vars, tables, reason, passed>>

-----------------------------------------------------------------------------
\* The rows of run_cycle, in causal order.

RowDone(a) == recovery[a] = Stale \/ (recovery[a] \in Settled /\ ~SideEffect(a))

\* Mutant of RowWaits: only what the ledger calls unfinished is waited for.
RowWaitsForLedger(a) == recovery[a] \notin Settled /\ PriorNonterminal(a)

RowWaits(a) ==
  /\ recovery[a] \notin Settled
  /\ PriorNonterminal(a) \/ TokenOf[a] \in cycle.held

AtRow == Stage("rows") /\ cycle.todo # {}

SkipRow ==
  /\ AtRow
  /\ RowDone(Row)
  /\ NextRow({})
  /\ UNCHANGED <<vars, tables, reason, passed>>

WaitRow ==
  /\ AtRow
  /\ ~RowDone(Row)
  /\ RowWaits(Row)
  /\ Hold
  /\ UNCHANGED <<vars, tables, reason, passed>>

SyncRow ==
  LET s == Synced(Row) IN
  /\ AtRow
  /\ ~RowDone(Row)
  /\ ~RowWaits(Row)
  /\ IF s = "none" THEN UNCHANGED recovery ELSE Mark(Row, s)
  /\ IF s \in InFlight \cup {Uncertain} THEN Hold
     ELSE IF s \in Settled \/ cycle.sent # {} THEN NextRow({})
     ELSE Enter("judge")
  /\ UNCHANGED <<vars, manifest, reason, passed>>

-----------------------------------------------------------------------------
\* One row that may be executed again.

\* _fail_closed_stale_causal_target, and the row that finds it done.
FailStaleRow ==
  LET a == Row IN
  /\ Stage("judge")
  /\ HasTarget(a)
  /\ ~AlreadyStale(a)
  /\ ~SideEffect(a)
  /\ Release(a, "ERROR_INTERNAL")
  /\ Say(a, "stale", a)
  /\ UNCHANGED <<scoped, planned, attempt, pos, venue, exec, crashes, tables, passed, cycle>>

BlockStaleRow ==
  /\ Stage("judge")
  /\ HasTarget(Row)
  /\ AlreadyStale(Row)
  /\ Mark(Row, Stale)
  /\ Hold
  /\ UNCHANGED <<vars, manifest, reason, passed>>

Judged(a) ==
  /\ Stage("judge")
  /\ a = Row
  /\ HasTarget(a) => planned[a] /\ ~AlreadyStale(a) /\ ~SideEffect(a)

EffectIsNothing(a) == 0 \in Required(a) \/ NothingToSell(a)

\* The executor is called on an action it has seen before.
Reopen(a, s) ==
  /\ Append(a, "OBSERVED")
  /\ exec' = Begun(a)
  /\ Enter(s)
  /\ UNCHANGED <<scoped, planned, target, attempt, reserved, pos, venue, crashes,
                 reason, passed>>

ExecuteNothing(a) ==
  /\ Judged(a)
  /\ EffectIsNothing(a)
  /\ Reopen(a, "covered")
  /\ UNCHANGED tables

Effective(a) == Judged(a) /\ Required(a) # {0} /\ ~NothingToSell(a)

\* An internal error ends run_cycle, not the head: an unresolved submission
\* where a stale target is looked for, a market whose metadata was never
\* frozen, or a book that cannot be read.
RowRaises ==
  /\ Effective(Row) \/ (Stage("judge") /\ HasTarget(Row) /\ SideEffect(Row))
  /\ Enter("retry")
  /\ UNCHANGED <<vars, tables, reason, passed>>

\* The scope resolves a market's lifecycle from the metadata it froze when it
\* accepted the action.  An action that a gap closed was never accepted.
Resolvable(a) == Effective(a) /\ a \notin Gap

\* _finalize_officially_closed_without_order; the recovery state comes last.
CloseOfficially(a) ==
  /\ Resolvable(a)
  /\ target' = [target EXCEPT ![a] =
       IF HasTarget(a) THEN [@ EXCEPT !.state = "EXTERNAL_UNFILLABLE"]
       ELSE [state |-> "EXTERNAL_UNFILLABLE", qty |-> Want[a], filled |-> 0]]
  /\ exec' = Handler("append", a, 1, "EXTERNAL_UNFILLABLE", 0, "none")
  /\ Enter("closed")
  /\ UNCHANGED <<latest, scoped, planned, attempt, reserved, pos, venue, crashes,
                 tables, reason, passed>>

MarkClosed ==
  /\ Stage("closed")
  /\ Mark(Row, "EXTERNAL_UNFILLABLE")
  /\ Hold
  /\ UNCHANGED <<vars, manifest, reason, passed>>

\* Below the minimum of the market the recovery state comes first.
MarkBelowMinimum(a) ==
  /\ Resolvable(a)
  /\ \E r \in Required(a) \ {0} : r < MinSize
  /\ Mark(a, "EXTERNAL_UNFILLABLE")
  /\ Enter("minimum")
  /\ UNCHANGED <<vars, manifest, reason, passed>>

\* _finalize_below_minimum_without_order
CloseBelowMinimum ==
  LET a == Row IN
  /\ Stage("minimum")
  /\ target' = [target EXCEPT ![a] =
       IF HasTarget(a) THEN [@ EXCEPT !.state = Unfillable(a)]
       ELSE [state |-> "EXTERNAL_UNFILLABLE", qty |-> Want[a], filled |-> 0]]
  /\ exec' = Handler("append", a, 1, Unfillable(a), 0, "none")
  /\ Enter("small")
  /\ UNCHANGED <<latest, scoped, planned, attempt, reserved, pos, venue, crashes,
                 tables, reason, passed>>

LeaveSmall ==
  /\ Stage("small")
  /\ Hold
  /\ UNCHANGED <<vars, tables, reason, passed>>

\* The book offers a price without an additional loss, or it does not.
Priced(a) == Resolvable(a) /\ \E r \in Required(a) : r >= MinSize

AwaitPrice(a) ==
  /\ Priced(a)
  /\ Mark(a, "PENDING_PRICE")
  /\ Hold
  /\ UNCHANGED <<vars, manifest, reason, passed>>

FreezeBook(a) ==
  /\ Priced(a)
  /\ Mark(a, "CURRENT_EFFECT_RECONSTRUCTED")
  /\ Enter("frozen")
  /\ UNCHANGED <<vars, manifest, reason, passed>>

ExecuteFrozen ==
  /\ Stage("frozen")
  /\ Reopen(Row, "run")
  /\ UNCHANGED tables

-----------------------------------------------------------------------------
\* What the executor returned, and the end of the cycle.

\* Mutant of Result: an order that was sent counts as filled.
ResultHopeful(a) ==
  IF latest[a] = "SUBMITTED_UNRECONCILED" THEN "FILLED" ELSE latest[a]

Result(a) ==
  IF cycle.stage = "covered" /\ latest[a] = "SKIPPED"
  THEN "NO_ORDER_COVERED_BY_CUMULATIVE_SURPLUS"
  ELSE IF cycle.stage = "run" /\ latest[a] = "PENDING_LIQUIDITY"
  THEN "PENDING_EXTERNAL_LIQUIDITY"
  ELSE latest[a]

Returned(a) == (Stage("run") \/ Stage("covered")) /\ a = Row

\* Statuses the executor only leaves behind an exception.
AlwaysRaised == {"PENDING_METADATA", "PENDING_INTERNAL_INVARIANT"}

Submitted(a) == Result(a) \in InFlight \cup {"SUBMIT_STARTED"}

RecordResult(a) ==
  /\ Returned(a)
  /\ latest[a] \notin AlwaysRaised
  /\ Mark(a, Result(a))
  /\ cycle' = [cycle EXCEPT
       !.stage = "rows",
       !.todo = @ \ {a},
       !.held = IF cycle.stage = "run" THEN @ \cup {TokenOf[a]} ELSE @,
       !.sent = IF cycle.stage = "run" /\ Submitted(a) THEN {a} ELSE @]
  /\ UNCHANGED <<vars, manifest, reason, passed>>

\* An internal error ends run_cycle; an external one, the head (LoseHead).
ResultRaised(a) ==
  /\ Returned(a)
  /\ latest[a] \in {"PENDING_INTERNAL_INVARIANT", "ERROR_INTERNAL"}
  /\ Enter("retry")
  /\ UNCHANGED <<vars, tables, reason, passed>>

\* Mutant of EndCycle: a manifest is complete when every row was passed.
EndCycleEarly ==
  /\ Stage("rows")
  /\ cycle.todo = {}
  /\ manifest' = IF Claimed # {} THEN "COMPLETED" ELSE manifest
  /\ Enter("retry")
  /\ UNCHANGED <<vars, recovery, reason, passed>>

\* One transaction looks for side effects of settled actions and completes
\* the manifest when nothing is left.
EndCycle ==
  /\ Stage("rows")
  /\ cycle.todo = {}
  /\ recovery' = [a \in Actions |-> IF recovery[a] \in Settled /\ SideEffect(a)
                                    THEN Uncertain ELSE recovery[a]]
  /\ manifest' = IF \A a \in Claimed : recovery'[a] \in Settled THEN "COMPLETED"
                                                                ELSE manifest
  /\ Enter("retry")
  /\ UNCHANGED <<vars, reason, passed>>

-----------------------------------------------------------------------------
\* The ordinary retry queue, and the end of the head.

Retryable(a) ==
  /\ LiquidityEvidence(a)
  /\ a \in passed \ (cycle.intake \cup ActiveClaims)
  /\ TokenOf[a] \notin TokensOf(cycle.intake)

RetryPending(a) ==
  /\ Stage("retry")
  /\ Retryable(a)
  /\ CloseRetry(a)
  /\ UNCHANGED <<tables, reason, passed, cycle>>

EndRetry ==
  /\ Stage("retry")
  /\ \A a \in Actions : ~Retryable(a)
  /\ Enter("settle")
  /\ UNCHANGED <<vars, tables, reason, passed>>

\* Only what the recovery has sent is reconciled once more.
ReconcileSent(o) ==
  /\ cycle.stage = "settle"
  /\ o[1] \in cycle.sent
  /\ Reconcile(o)
  /\ UNCHANGED <<tables, reason, passed, cycle>>

\* Orders past their deadline are cancelled before the next head's intake.
CancelBeforeHead(o) ==
  /\ Stage("off")
  /\ CancelDue(o)
  /\ UNCHANGED <<tables, reason, passed, cycle>>

EndHead ==
  /\ Stage("settle")
  /\ cycle' = Off
  /\ UNCHANGED <<vars, tables, reason, passed>>

\* An external failure, an error of the database or of the coordinator, or the
\* death of the process, between two calls of the executor and inside one.
LoseHead ==
  /\ Outages
  /\ At("idle")
  /\ cycle # Off
  /\ cycle' = Off
  /\ UNCHANGED <<vars, tables, reason, passed>>

Die ==
  /\ Crash
  /\ cycle' = Off
  /\ UNCHANGED <<tables, reason, passed>>

Trade(o) ==
  /\ Match(o) \/ Withdraw(o) \/ Arrive(o) \/ Finalize(o)
  /\ UNCHANGED <<tables, reason, passed, cycle>>

-----------------------------------------------------------------------------

\* The service starts again after a gap: its actions are closed, unpriced.
\* Their scope was never asked; the recovery enters the executor behind it.
RepairInit ==
  /\ latest = [a \in Actions |-> IF a \in Gap THEN "ERROR_INTERNAL" ELSE "NONE"]
  /\ scoped = [a \in Actions |-> a \in Gap]
  /\ planned = [a \in Actions |-> FALSE]
  /\ target = [a \in Actions |-> [state |-> "ABSENT", qty |-> 0, filled |-> 0]]
  /\ attempt = [o \in Orders |->
                  [state |-> "NONE", req |-> 0, resp |-> "none", booked |-> 0]]
  /\ reserved = [a \in Actions |-> 0]
  /\ pos = Inventory0
  /\ order = [o \in Orders |->
                [venue |-> "none", matched |-> 0, final |-> 0, told |-> 0]]
  /\ held = Inventory0
  /\ wallet = Wallet0
  /\ exec = Idle
  /\ crashes = 0
  /\ manifest = "NONE"
  /\ recovery = [a \in Actions |-> "UNCLAIMED"]
  /\ reason = [a \in Actions |-> [why |-> "none", act |-> a]]
  /\ passed = {a \in Actions : \E g \in Gap : Rank[a] <= Rank[g]}
  /\ cycle = Off

Intakes ==
  \/ \E B \in SUBSET Actions : BeginHead(B)
  \/ IntakeNext
  \/ EndIntake

Executor ==
  \E a \in Actions : Execute(a) \/ Defer(a) \/ IntakeFindsStale(a) \/ Refuses(a)

Claims ==
  \/ ClaimDependents
  \/ EndClaims
  \/ BeginCycle

Rows ==
  \/ SkipRow \/ WaitRow \/ SyncRow
  \/ FailStaleRow \/ BlockStaleRow \/ RowRaises
  \/ MarkClosed \/ CloseBelowMinimum \/ LeaveSmall \/ ExecuteFrozen
  \/ \E a \in Actions :
       \/ ExecuteNothing(a) \/ CloseOfficially(a) \/ MarkBelowMinimum(a)
       \/ AwaitPrice(a) \/ FreezeBook(a)
       \/ RecordResult(a) \/ ResultRaised(a)
  \/ EndCycle

Retries ==
  \/ \E a \in Actions : RetryPending(a)
  \/ EndRetry
  \/ EndHead

Reconciliation == \E o \in Orders : ReconcileAll(o) \/ ReconcileSent(o) \/ CancelBeforeHead(o)

RepairNext ==
  \/ Activate
  \/ Intakes
  \/ Executor
  \/ Claims
  \/ Rows
  \/ Retries
  \/ Reconciliation
  \/ LoseHead
  \/ Die
  \/ \E o \in Orders : Trade(o)

RepairSpec == RepairInit /\ [][RepairNext]_allVars

-----------------------------------------------------------------------------

Cycles == [stage : Stages, todo : SUBSET Actions, intake : SUBSET Actions,
           held : SUBSET Tokens, sent : SUBSET Actions]

RepairTypeOK ==
  /\ manifest \in {"NONE", "ACTIVE", "COMPLETED"}
  /\ recovery \in [Actions -> RecoveryStates]
  /\ reason \in [Actions -> [why : Why, act : Actions]]
  /\ passed \in SUBSET Actions
  /\ cycle \in Cycles

\* The recovery acts on a claimed action only when what came before it on its
\* token is over: an action that it has submitted, or executes, has no earlier
\* claimed action that may still trade.  PARTIAL, which a sale without inventory
\* left, is over and called settled in the next cycle.
RecoveredInOrder ==
  \A a, b \in Claimed :
    (/\ TokenOf[a] = TokenOf[b]
     /\ Rank[b] < Rank[a]
     /\ SideEffect(a))
    => recovery[b] \in Settled \cup {Stale, "PARTIAL"} /\ ~SideEffect(b)

\* A manifest is completed only when every action it has claimed, however
\* late, is settled and nothing is left at the exchange.
CompletedIsSettled ==
  manifest = "COMPLETED" =>
    \A a \in Claimed : recovery[a] \in Settled /\ ~SideEffect(a)

\* What the recovery reports as settled is what the ledger says: the two are
\* written by different transactions with crashes in between.
RecordsAgree ==
  \A a \in Claimed :
    /\ recovery[a] = "FILLED" => latest[a] = "FILLED"
    /\ recovery[a] = "PARTIAL_TERMINAL_PREFIX_PRESERVED" => latest[a] = "PARTIAL"
    /\ recovery[a] = "NO_ORDER_COVERED_BY_CUMULATIVE_SURPLUS" => latest[a] = "SKIPPED"
    /\ recovery[a] = "SUPERSEDED_BY_LATER_SOURCE_ACTION"
         => latest[a] = "SUPERSEDED_UNFILLED"
=============================================================================
