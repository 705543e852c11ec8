# polymarket-live-copy: TLA+ models, checks and proofs

The program copies the trades of followed Polymarket wallets. It reads the
followed wallet's trades from the Polygon chain, sizes a proportional order,
posts it to the exchange (CLOB), reconciles what became of it from the chain and
the exchange's account, and redeems what resolved markets pay out. Its promise is
in `src/README.md` (lines 17, 19, 26 and 36-40): no duplicate order, no lost
outcome, only actions after the forward watermark, an uncertain submission is
kept and checked rather than repeated. These modules state that promise, and what
it rests on, about the code as it is.

Source lines are of `src/app/cd90_live_copy.py` unless another file is named.
The line ranges of every definition are in `PROJECT.json`, `map`.

## The system

| component | state it keeps | operations | interacts with |
|---|---|---|---|
| order ledger and executor (`LiveStore`, `_execute_source_action_locked`, `reconcile_submitted_actions`, `retry_pending_actions`) | SQLite rows per source action: receipt, transitions (append only), target, submission attempts, reservation; positions | intake, gap recording, planning, attempt, POST, recording the outcome, cancellation, reconciliation, closing a remainder | exchange (POST, cancel, order and trade queries), chain (receipts, finalized logs), coordinator (cash) |
| head service (`SourceFollower`, `run_live_service`, `_run_live_ws_service`) | `runtime_state`: cursor, planned resume, armed recovery; gap receipts; an flock | watermark, head, standby takeover, planned resume | ledger; systemd; chain websocket |
| shared wallet coordinator (`src/app/live_wallet_coordinator.py`) | its own database: registered profiles, cash observations, frozen redemptions and their allocations | cash snapshot, freezing a condition, allocation, distribution, quarantine release, collision check | the ledgers of all profiles of a wallet |
| redemption and quarantine (3633-5626, 14922-16792, 17827-18045) | redemption receipts and reservations in each profile's ledger | local and shared redemption cycles, settlement without payout | relayer, chain, coordinator, ledger |
| repair-window recovery (`src/app/repair_window_recovery.py`) | manifest, claimed actions and their states | activation, claim of causal dependents, cycle | ledger, executor, head service |
| release transaction (`src/tools/live_release_transaction.py`) | phase receipts on disk, snapshots, candidate release | quiesce, snapshot, stage, switch, accept or roll back | locks, systemd units, databases |
| health heartbeat (`src/app/server_health_heartbeat.py`), dead-man alerter (`src/ops/polymarket-deadman-alerter.py`), daily safe gc | state files | sampling, alarm, collection | status files of the services |
| sizing (`src/app/cd90_live_sizing.py`), profiles and scope (`src/app/live_copy_profiles.py`, `live_action_fidelity.py`), chain client (`src/app/live_chain_client.py`), deployment helpers | none | pure functions, RPC | executor |

What is hard in it:

* **Crashes between transactions.** One logical step is several SQLite
  transactions and a network call: `begin_submission_attempt`, POST, attempt,
  target, transition; batch, executions, cursor; cursor, completion of a resume.
* **A POST is not an atomic act.** It may be lost, land, land later, land and
  lose its answer; its fills become final some blocks later; a resting order
  matches and is cancelled while it is being asked about.
* **Replay.** A head is processed again after a crash, and whatever it already
  did to an action must be found in the rows.
* **Two processes** alternate on one lock and one cursor, with a check made
  before the lock is taken.
* **Causal order.** A later action of a token is sized against what earlier ones
  did to the position.
* **Several databases** and no common transaction: coordinator and ledgers,
  recovery tables and rows, the databases a release replaces one by one.
* **Recovery that is itself interrupted**: a rollback, a distribution or a repair
  cycle is begun again on what the last one left.

What makes each component correct:

* ledger: reservations and attempts correspond; every order is reconciled with
  the authority; books add up and are the account's; outcomes are final; an
  action never orders more than its target.
* head service: no action passed without a record; the cursor never moves back;
  no blind resubmission across processes; the range a dead primary left is
  executed; heads and submissions make progress.
* coordinator and redemption: one submission per condition; every profile's share
  of a payout booked exactly once; ledger cash never beyond what the wallet has.
* recovery: claimed actions are executed in causal order, and what the recovery
  says of them is what the ledger says.
* release: a running fleet finds the databases it knows, nothing recorded before
  the start boundary is forgotten, databases are rewritten under every lock.

## Modules

| module | models |
|---|---|
| `OrderLedger` | the ledger, the executor, reconciliation, and the exchange and chain they rest on |
| `HeadService` | the two processes, the lock, the watermark, one head, planned resumes |
| `RepairWindow` | extends `OrderLedger`: the heads of a service with a repair manifest, claims, the recovery cycle, ordinary retries |
| `SharedRedemption` | the redemption cycles of several profiles over one condition, coordinator, relayer, platform and collateral |
| `PayoutOnce` | the abstract specification `SharedRedemption` implements |
| `ReleaseTransaction` | the release controller, its receipts and recovery, fleet and host |
| `MC...` | their instances for TLC |
| `FiniteSums` | lemmas about the sum of a function over a finite set, for the books |
| `...Proofs` | their theorems: `OrderLedgerProofs`, `OrderLedgerCausalProofs`, `OrderLedgerAccountProofs`, `RepairWindowProofs`, `HeadServiceProofs`, `SharedRedemptionProofs`, `ReleaseTransactionProofs` |

Definitions whose comment begins with "Mutant of" are the plausible bugs every
property is checked against (`PROJECT.json`, `mutants`): with one in place of the
definition it names, TLC finds the property violated.

### OrderLedger

A variable is a column or a table: `latest` the last transition of an action,
`scoped` and `planned` whether a SCOPE_ELIGIBLE or PLANNED transition exists,
`target`, `attempt`, `reserved` and `pos` the tables of these names. `order`,
`held` and `wallet` are the truth outside: where the exchange has an order, how
much of it matched, how much of that is final, and what the account owns. `exec`
is the handler in progress, lost by a crash.

One step is one transaction, one network call or one act of the exchange. A
handler that writes several transactions is a chain of steps: `exec.pc` names the
next durable write, `exec.st` the status it will write. So `Crash` can fall
between any two transactions, and replay, cancellation and reconciliation start
from the rows that were left.

* Intake: `Observe` (a block range), `RecordGap` (a restart's gap).
* `Plan(a)`: scope, causal order (`DeferToEarlierAction`,
  `SupersedeEarlierOpposites`), stale-target checks, and the plan. What the
  sizing arithmetic distinguishes is a set of (status, quantity) pairs
  (`FirstPlans`, `RemainderPlans`), with position and cash as bounds.
* `Submit(a)`: the attempt, the POST with its three kinds of outcome, and the
  writes of its result.
* `Maintain`: cancellation of due orders, reconciliation (fill, proven no-fill,
  canceled, absent), closing a remainder.
* `Venue`: later matches, withdrawal, late arrival, finality.

A share costs one dollar, so that one number is the quantity and the reserved
cash. `Readings` is the one place where an authority's answer enters: the
receipts the POST named, the finalized logs, or the trades of the order.

Three properties speak of quantities and differ in what they ask of the exchange.
`LedgerAddsUp`, for every exchange: no more is booked than matched, each share once
in progress and position, and FILLED means that all the order ever matches is
booked. It sets no lower bound on a PARTIAL_FILLED attempt: what settles after it was
read is missing from the books, as what settles after a no-fill is in `lost_fill`. `OrdersFitTarget`, for every exchange: what
the attempts booked and what an *unresolved* order trades, however late, fit the
frozen quantity, so that no second order is made while an outcome is unknown. `NoDuplicateOrder`, for a prompt exchange
only: *all* orders made for an action, remainders included and resolved or not, fit
it. A fill that lands after its order was called over is outside the last two.

Not in it: `RepairAlignment` and action execution constraints (recovery),
PENDING_CAPITAL and PENDING_MINIMUM_REMAINDER (written only without coordinator
or liquidity policy), fees and price improvement of a BUY, the recovery of
ERROR_INTERNAL targets by a legacy causal prefix, and two branches no run of the
code reaches (13126-13137, a remainder of zero; 13473-13492, a refused attempt).

### HeadService

An action is its block. `status` is what an execution leaves, reduced to what the
service tells apart; `unknown` counts the orders of an action whose outcome is
not recorded. `cursor`, `resume`, `armed` and `latched` are durable, `lock` is
held by a process, the rest is per process.

* `Launch`, `AcquireRuntimeLock`, `Crash`: service manager and flock.
* Boot: `EstablishWatermark` / `RequireLosslessHandoff` (gap scan and its
  refusal), `MarkCursor`, `DisarmRecovery`, `CompletePlannedResume`, `RefuseResume`.
* Operator: `ArmPlannedResume`.
* One head: `TakeHead`, `CancelDueOrders`, `ObserveBatch`, the executions,
  `AdvanceCursor`, `ReconcileSubmission`, `CloseRemainders`; `AbandonHead` is a
  retryable external failure; `CheckResume`, `SkipHead`, `RepeatHead` are the
  standby's.

Not in it: pages of the public wallet API and actions that arrive late through
them, the redemption task (`SharedRedemption`), the repair-window manager
(`RepairWindow`), the coalescing of heads
(`TakeHead` of any processable block covers it), the first crash window inside
the two transactions of arming, network retries of a boot (they change nothing).
`ArmPlannedResume` accepts all PENDING actions, a few of which the code refuses.

### RepairWindow

Rows, executor, exchange and chain are `OrderLedger`'s; its operations are called
where `_process_live_ws_head` and `run_cycle` call them. `manifest` and `recovery`
are the recovery tables, written by transactions of their own; `reason` is what
the details of a deferral name; `passed` is the cursor, as the set of actions at
or behind it. `cycle` is volatile: the stage of the head, the claims or source
actions still to come, this head's intake, the tokens already held
(`blocked_token_causes`) and what the recovery has sent.

* A head: `CancelBeforeHead`, `BeginHead`, `IntakeNext`, `EndIntake`,
  `ClaimDependents`, `ReconcileAll`, `BeginCycle`, the rows, `RetryPending`,
  `ReconcileSent`, `EndHead`. `Refuses`, `LoseHead` and `Die` end it, or its recovery
  cycle, early.
* A row: `SkipRow`, `WaitRow`, `SyncRow`, then `FailStaleRow`/`BlockStaleRow`,
  `ExecuteNothing`, `CloseOfficially`, `MarkBelowMinimum`/`CloseBelowMinimum`,
  `AwaitPrice`, or `FreezeBook`/`ExecuteFrozen`; then `RecordResult` or
  `ResultRaised`. Every recovery write is a step, so that a head may end between
  it and the row it tells of. `EndCycle` is the one transaction at the end.

`RepairInit` is the state a restart leaves that closed the gap's actions unpriced
(8660). A book offers a price without additional loss or it does not; the plan of
the executor is not narrowed to the frozen book. `Resolvable` says why an action
of the gap is never priced: its scope never froze metadata (see below). Not in it:
actions a manifest imports as completed by hand, dependents named at its
activation, and `repair_retryable_targets_with_terminal_latest_transition`, which
has nothing to do on the modelled paths.

### SharedRedemption and PayoutOnce

One resolved condition, the sleeves (profiles) of one wallet. Of the world:
`winner`, `chain` (outcome tokens), `collateral`, `inflight` (a payout not yet in
the collateral), `job`, `payout` and `accepted` (what relayer and platform did).
Of each ledger: `pos`, `order`, `cash`, `held` (quarantined), `local` (its own
receipt), `booked`. Of the coordinator: `shared` (receipt and frozen allocations)
and `applied`. `cycle` is the cycle in progress; all cycles run under the wallet
lock, so there is one at most, and a crash loses it before any durable write.

A cycle follows `_run_redemption_cycle_locked`: `BeginCycle` (the sample of the
collateral), the coordinator's condition (`Freeze...`, `MarkLoss`,
`FreezePlatform`/`MarkPlatform`, the receipt steps, `StartSubmission`,
`Revalidate`, `Submit`, `RecordAnswer`), its distribution (`BookAllocation` in a
ledger, then `MarkApplied` in the coordinator, one owner after the other,
`CompleteDistribution`), and the sleeve's own condition (official activities,
reconciliation, platform settlement, losing condition, submission). Any outside
read may fail; an answer may be lost, whether or not it was accepted.

`PayoutOnce` is the promise: the condition pays, and each sleeve books once, never
together more than was paid. `PromiseKept` is the refinement, with the sum of
what was paid and the ledgers' credits as mapping.

Not in it: correction of payouts booked by earlier versions, permanent blocks of
old credits, frozen cash adjustments, registration of sleeves, `buy_collision`
(it runs under the same lock and changes nothing).

### ReleaseTransaction

`receipts`, `snapshot` and `exact` are what the controller leaves on disk, `held`
its locks, `pc` its step; `live` and `traded` what a database holds and what the
wallet really carries; `link`, `autostart` and `fleet` the installed units. Checks
and commands may fail (`MaxFaults`), the controller may die alone or with the host
(`MaxCrashes`), in which case enabled units start (`Reboot`), and the operator may
run it again on the same change id. Actions of the running fleet are `Trade`.

Forward: one step per receipt and per irreversible act. Backward: `RollBack`
chooses by the durable receipts whether databases are restored; `Quiesce`,
`DisableCandidate`, `RestoreDatabase`, `RestoreOldArtifacts`, `WriteOldStartIntent`,
`ReleaseOldLocks`, `StartOldFleet`, `EnableOldFleet`, `AcceptOldFleet`. Starting the
old fleet and enabling it are two steps (8552-8558, 8620-8629), as they are for the
candidate: a host that restarts between them finds a fleet that does not come up by
itself, and only a rerun of the controller brings it back. A start, an enablement or
an acceptance that fails stops the fleet again, if it can (`OldFleetFails`); the
start may have happened and the enablement may be partial. Not in it: what the
checks look at, malformed receipts, paused accounts.

## Runs

`tlc -workers 2 -config X.cfg M` runs one. The configurations say
CHECK_DEADLOCK FALSE because a bounded history ends: every action has its
outcome, every attempt, order and crash is used up. `release_recovery` and
`repair_window` do without: a controller can always be run again, and heads go on
when nothing is left to copy.

| run | instance | shows |
|---|---|---|
| `ledger` | a SELL overtaken by a BUY of the same token, 2 attempts each, 1 crash; delayed exchange, partial receipts, late finality | reservations back attempts, books add up, booked and unresolved quantities fit the target, no reconciliation anomaly, one order in flight per token, outcomes are final |
| `partial_fills` | the same with quantities 3 and 2, prompt exchange | types; books add up and unresolved quantities fit the target, when orders fill in parts; never more ordered than the target |
| `account` | 3 actions, 2 tokens, 1 dollar, 2 attempts, 1 crash, prompt exchange | books are the account's; open orders are covered |
| `lost_fill` (violation) | late finality | a proven no-fill that is none |
| `head_restart` | both processes, 2 actions, 2 crashes, wedged cancellations, planned resumes | nothing passed unseen or unexecuted, no blind resubmission, cursor only forward |
| `head_liveness` | both restarted, 1 action, 2 crashes, 1 abandoned head, fairness | every block processed, every order gets its word |
| `head_wedge` (violation) | 1 action, a POST that fails in transport | the order is never reconciled |
| `repair_window` | a BUY of a gap, a SELL and a BUY behind it, external failures anywhere, 1 crash | claims in causal order, recovery records agree with the ledger, a manifest completes only over settled actions |
| `shared_redemption` | 2 sleeves, 1 order that matches late, 1 unrelated deposit, 1 crash, a platform that settles by itself | one redemption, no local takeover, finished is booked, table followed |
| `shared_distribution` | 2 sleeves that each hold both outcomes, 1 order that matches before the resolution, 3 unrelated dollars, 1 crash, fairness | what was frozen is held until it is booked; cash is backed; a distribution that started ends; `PayoutOnce` refined |
| `shared_stuck` (violation) | 2 sleeves with opposite outcomes | a distribution that never ends |
| `release_recovery` | 2 databases, 2 actions, 3 failing steps, 2 deaths | a fleet fits its databases, nothing forgotten before the start, commit final, never left stopped, the fleet returns |

### Bounds

* Quantities: 1 where the crossing of actions is the question; 3 and 2 in
  `partial_fills`, where a remainder is ordered again and partly filled again;
  `MinSize` 2 with wants of 2 in `repair_window`, so that a partial fill leaves a
  remainder below the minimum. One dollar in `account` is too little for both BUYs. Two in
  `ledger` let a second order be placed while the first one is still out, if nothing
  else forbids it. Delays are checked with quantities of one and partial fills with a
  prompt exchange; their product is out of TLC's reach and left to the theorems
  `TheLedgerAddsUp` and `OrdersKeepToTarget`, which assume neither.
* `MaxAttempts` 2: one attempt and the one a proven zero fill or a partial fill
  reopens. `repair_window` has 1: it asks about crossings of claims, intake and
  rows; an action without a further attempt waits and is judged again at every head.
* `MaxCrashes` 1 in the ledger: it falls between any two transactions, and the
  replay that follows runs against the rows it left. In `repair_window` the one
  crash inside the executor leaves the gap's action unfinished, without which
  nothing depends on it; `LoseHead` may end a head between any two calls, as often
  as it likes.
* `MaxBlock` 3 or 4, actions in inner blocks: an empty block before, so that a
  watermark can precede every action, and one after, so that all can be passed.
  The last block stands for every later one: heads at it keep coming.
* 2 crashes in `head_restart`: a takeover needs one, and a restart during the
  takeover's consequences another.
* Two sleeves are the least that share; `Mixed` starts with a condition one holds
  and lets an order make it shared. One crash in the cycle, one order and one
  deposit are enough for each to fall into every window of the other.
* `LateTrading` is on in `shared_redemption`, whose properties hold whatever trades
  behind the resolution, and off in `shared_distribution`, whose safety properties do
  not (see below). There the least payout is three dollars, so that three deposits
  can look like one.
* Two databases are the least a release can be interrupted between; three faults
  allow a failing release, a failing rollback and a failing repetition of it, and
  two deaths a recovery that dies, too. The proofs have no bounds.
* `SettlementLag`, `DelayedVenue`, `PartialReceipts` say how the exchange
  behaves. The store's own properties are checked with all three on (`ledger`);
  those about the account hold with a prompt exchange only: `lost_fill` shows what
  late finality does, and with `PartialReceipts` a POST response that names only
  what had matched (10745) leaves later fills of that order out of the books.
  `DelayedVenue` lets an order land behind its recorded outcome; whether
  Polymarket does so is outside the code.

### Fairness

`HeadService` (`FairSpec`): the chain grows and announces its newest block (the
websocket subscription); a running process goes on with its head; the service
manager starts a dead process again (`src/systemd/*.service`, `Restart=on-failure`;
its start limit is not modelled, crashes are bounded instead); a primary waiting
in a blocking flock gets the lock eventually although the standby takes it for
single heads (strong fairness: the lock is free again and again); a primary that
starts over and over reads the newest head at some start; an authority asked
again and again answers at last. Nothing is assumed of the operator, of answers
to a POST, or of crashes. That `SubmissionsSettle` holds in `head_liveness` and not
in `head_wedge` is no contradiction: in the first no transport of a POST fails,
and a primary's restart jumps over a block whose replay would raise. `CatchesUp` is
checked with both processes restarted and without planned releases: it says nothing
of a standby left alone or of a stale planned resume, both of which stop the service
for good (see "Behaviour met while modelling").

`SharedRedemption` (`FairSpec`): the worker starts cycle after cycle and a cycle
goes on (`_start_redemption_cycle` at every head); nothing is assumed of relayer,
platform, chain or any read, which may fail for ever while nothing is being
distributed.

`ReleaseTransaction` (`FairSpec`): a controller that has begun goes on, forward or
backward, and the operator runs it again while no fleet runs. Its failures are
bounded, as deaths are.

## Proofs

`OrderLedgerProofs`, for all constants that satisfy `ActionsAssumption`,
`BoundsAssumption` and `EnvironmentAssumption`: any number of actions, tokens,
attempts and crashes, any sizes, any behaviour of the exchange.

* `TypeCorrect`: `Spec => []TypeOK`. `TypeOK` is not inductive: a write takes its
  status from `exec.st`, and the position stays natural only because a fill is
  bounded. `Typed` adds what each step of a handler may be about to write
  (`Pending`) and that a target is never exceeded.
* `ReservationsAreBacked`: `Spec => []ReservationBacksAttempt`. `Backed` adds
  `Working`: a handler between its POST and the record of it still has the
  unresolved attempt it began, so that the write it owes cannot revive an attempt
  reconciliation has resolved. Maintenance never interleaves with a handler in
  one process, a crash drops the handler: that is why `Working` holds.

`OrderLedgerCausalProofs`, under the same assumptions. `Causal` extends `Backed`;
its parts are inductive only together.

* Receipts are complete towards the past (`ObservedInOrder`). An action that has
  a plan, or whose handler is about to write one, has a target (`SizedRows`), and all
  that precedes it on its token is over (`SizedInOrder`); a sized SELL is still held
  (`SizedIsHeld`). The row of an action in flight says so, and its one unresolved
  attempt asks for what remains of the target (`InFlightRows`). `Handling` says what
  a handler may still write to an action in flight: nothing that ends it.
* Theorems: `OneTokenOneOrder` (`OneInFlightPerToken`), `EveryAttemptIsListed`
  (`NoReconciliationAnomaly`), `RecordedOutcomesAreFinal` (`OutcomesAreFinal`).

`OrderLedgerAccountProofs` adds what the books say of the exchange.

* `TheLedgerAddsUp` (`LedgerAddsUp`) and `OrdersKeepToTarget` (`OrdersFitTarget`),
  again without a hypothesis on the exchange. `Ledger`: an attempt without an order is
  fresh (`FreshOrders`), nothing is reported that was not matched (`VenueTruth`), a
  fill is booked once (`BookedOnce`), a target's fill is the sum of its attempts'
  (`FilledIsBooked`), and a position the sum of the fills of its token
  (`PositionAddsUp`). `Requests` adds that an order never matches more than its attempt
  asked for (`WithinRequest`) and that an attempt is called by what it booked
  (`NamedAsBooked`): FILLED is written when the reading equals the remainder, and
  `Causal` has an unresolved attempt ask for just that. The second theorem then sums
  over the attempts of an action, of which at most one is unresolved.
* `NoOrderIsDuplicated` (`NoDuplicateOrder`), `PositionsAreReal` (`PositionIsReal`) and
  `OrdersCanBeSettled` (`OrdersAreCovered`) under `Prompt`: no settlement lag, no
  delayed order, no partial receipt. The first bounds the sum over all orders of an
  action, not their number, and says nothing of fills that land or settle late. `Account` adds that a resolved attempt is off the
  exchange with all of it booked (`PromptVenue`, `BookedInFull`, `Cancellations`) and
  that the account's positions are the sum of what the exchange matched
  (`HeldAddsUp`); `Covered` adds that the cash of the account covers the reservations
  of open BUYs (`CashCovers`). The hypothesis is not one of convenience: `lost_fill`
  is the trace without it. An exchange that answers promptly is what `account`
  checks, with crashes and lost answers still in it.

`FiniteSums` proves what these need of `SumFunctionOnSet` over any finite set: the
sum of one element more, of two functions, of a larger function, of a function
changed at one place. The community operator folds over a set in an order chosen by
CHOOSE; the laws follow from a smallest subset without them, so no induction rule
that takes an operator is cited.

`HeadServiceProofs`, for all constants that satisfy `ServiceAssumption`: any
blocks, any number of crashes and abandoned heads, with or without planned
resumes, releases and failing transports.

* `NothingIsPassedUnseen`, `NothingIsResubmittedBlindly` and `CursorOnlyAdvances`
  rest on one inductive invariant, `Guarded`: who holds the lock at which step
  (`LockHeld`), a goal is not behind the cursor (`GoalAhead`; the cursor is moved
  by the holder only), what a goal would pass has a record (`GoalRecorded`), a
  batch lies above the first watermark (`BatchAbove`, `Watermarked`), and an order
  of unknown outcome shows in the latest transition (`UnknownShows`), so that no
  executor takes its action for one without an order. The three properties alone
  are not inductive: none of them says what a process in the middle of a head is
  about to write.

* `ServiceTypes` proves the types, and `NothingIsPassedUnexecuted` the action
  property `PassedIsExecuted`: an advance is the lock holder's, whose batch is
  empty and above its own cursor.

`ReleaseTransactionProofs`, for any non-empty set of databases and any bounds.
`Recoverable` is inductive: receipts in their order (`InSequence`), which fleet may
run at which step (`FleetAsLeft`), which locks are held there (`LocksHeld`), which
form each database has by receipts and step (`FormsFit`), and that live or copied
databases carry every recorded action before START_INTENT (`NothingLost`).
`RunningFleetFits`, `NothingIsForgotten`, `CommitStays`, `FleetIsLeftRunning` and
`RewritesAreOffline` follow; none is inductive alone, because a rollback acts on
what an earlier controller, possibly an earlier rollback, left.

`SharedRedemptionProofs`, for any set of sleeves, any openings and budgets. The
many steps of a cycle are first mapped to what they do to coordinator, ledgers and
chain (`Quiet`, `Frozen`, `Moved`, `Allocated`, `MarkApplied`, `OwnMoved`,
`Posted`), and the invariant is proved over those effects. `Guarded` says which
receipt a step of a cycle can find (`ReceiptAtStep`), that a submission the relayer
took shows in a receipt that is not resubmitted (`SubmissionShows`), and what is
marked applied is booked (`MarkedIsBooked`). Theorems: `TypeCorrect`,
`RedeemedOnce`, `FrozenStaysShared`, `DistributionIsBooked`, `TableFollowed`.

`FrozenInventoryIsHeld`, `LedgerCashIsBacked` and `ThePromiseIsKept` (the refinement of
`PayoutOnce`) assume `LateTrading = FALSE` and rest on `Sound`:

* `Accounts`: the dollars of the ledgers and of the sales they have not booked, less
  what quarantine holds, are those of the wallet and on their way (`Balanced`); tokens
  add up against the chain (`TokensAddUp`) and can be sold (`Sellable`); what a settled
  receipt says was booked was, as frozen (`BookedWhenSettled`, `BookedAsFrozen`), and
  nothing is booked earlier (`NotYetBooked`).
* `Undisturbed`: between freezing and booking, a sleeve has the inventory that was
  frozen and no order.
* `PaidFirst`: what a distribution distributes was paid before it, in the frozen
  size, and the tokens are gone. `NeverMore`: the bookings together are within what was paid.

`PaidFirst` is where the hypothesis enters. The code proves a submission of unknown
outcome by an excess of the wallet's cash over the ledgers, and a sale that matched
after the resolution and is not reconciled yet makes such an excess.

`RepairWindowProofs`, for any actions, any gap and any market, with the assumptions of
`OrderLedger` only. Every step of a head is mapped to what it does to the ledger (a
step of a handler, maintenance, or a release), so that `Typed` and `Backed` carry
over from the proofs of `OrderLedger`; `Causal` does not, because an action the
ledger calls over is executed again.

* `RecoveryTypeCorrect` (`RepairTypeOK`) from `Shape`, which adds that a head at a
  row has rows left (`RowsToDo`).
* `RecoveryAgreesWithLedger` (`RecordsAgree`) from `Agreeing`. An outcome the recovery
  copied must never be rewritten by the executor, which it calls on actions it has
  seen before. What could be executed again has passed the scope (`InScope`), so no
  copied outcome is replaced by a refusal; an outcome has no target a retry or a
  later opposite action would take up (`EndedRows`); a handler is only ever at work on
  an action without an outcome (`HandlesOpen`), also when a row that was judged is
  executed in a later step (`JudgedOpen`).
* `CompletionIsFinal` (`CompletedIsSettled`) from `Completing`. After the manifest is
  complete nothing may submit an order for what it claimed. `Seen`: whatever is
  handled has been observed. `HeadPlan`: rows are executed under an active manifest
  only, claims were passed by an earlier head and the intake brings only what none
  has passed, so that a handler that may still submit is of the intake or a row.

* `RecoveryKeepsOrder` (`RecoveredInOrder`) from `Lined`. The order of `OrderLedger` cannot
  be used: `OneInFlightPerToken` is false in `RepairWindow`, where the recovery executes
  what the ledger calls over. The argument goes row by row instead.
  * `Fronted` is about single actions. What is in flight has an unresolved target and
    transition, and no handler at work on it will write another (`FlightRows`,
    `FlightHandled`); cursor and receipts leave no gap (`PassedFirst`); until the cursor
    has passed an action in flight, all before it on its token is over and nobody works
    on it (`InFront`, from the executor's own checks); what is claimed or deferred has
    its scope answered (`ClaimsInScope`); at a row the executor works on the row
    (`RowHandled`), and on a row that needs no order ends without one (`Covering`).
  * `Lined` adds the line of claims. An action is `Ahead` when all before it on its
    token is over, and finished if claimed. The row at work is ahead and no later claim
    is in flight (`RowInLine`); what the cycle has left behind is finished, holds up its
    token, or is open in the ledger (`RowsBehind`); every claim in flight is ahead
    (`InLine`); before the manifest nothing of the gap is in flight (`NoClaimsYet`).

  `Ahead` is kept by every step that is not of a row before it: an action that is over
  is not reopened by retries, by a later opposite action or by the intake, a finished
  claim is only synchronised again to a settled state, and a claim that comes late
  was deferred, which no action before one in flight is.

Only model-checked: the liveness properties `CatchesUp`, `SubmissionsSettle`,
`DistributionEnds` and `FleetReturns`, which are outside TLAPS. Every invariant and every
action property of the passing runs is the statement of a theorem.

## Findings

1. `lost_fill`: the finalized-block scan concludes a no-fill as soon as the
   finalized block is not below the source's block, whatever the block of the
   order (10864). A fill matched and not yet final is lost, its reservation freed.
2. `head_wedge`: one BUY response without a deadline makes every later head raise
   (12070) before intake and reconciliation. No restart helps.
3. `shared_stuck`: a sleeve whose frozen allocation pays nothing refuses it (5463),
   so that a condition whose outcomes are held by opposed sleeves is redeemed and
   never distributed; the cycle of every profile raises there from then on.

### Behaviour met while modelling

No run refutes these; each follows from the model or from a trace of it.

Heads and restarts

* A second start at another head moves the cursor over actions the first one
  latched for a lossless handoff: `record_unpriced_runtime_gap` (8698) counts only
  the receipts it inserts. An action observed but not executed when the process
  died is, in the same way, not new to the restart.
* An action left pending without liquidity evidence is in no retry queue once
  the cursor has passed (13747).
* With the standby alone (`Restarts = {"standby"}`) a crash between a POST and the
  cursor can stop it for good: the due cancellation appends
  ACTIVE_CANCEL_COMPLETED (12091), and the replay raises
  UNRESOLVED_SUBMISSION_BLOCKS_STALE_CAUSAL_TARGET_CHECK. A primary's restart jumps
  over that block.
* With `Releases`, a crash between the cursor and the completion of a planned
  resume leaves a resume that names another cursor: every primary start refuses
  (18666), and the standby only observes.

Repair window

* Metadata is frozen when the scope accepts an action, which the closing of a gap
  precedes; the lifecycle resolver of a head raises for an action without it
  (17122). A claimed action of the gap that still has an effect therefore ends
  `run_cycle` at every head (`RowRaises`), and rows behind it are not reached; one
  whose effect is nothing is settled.
* Only a gap action that a crash left OBSERVED makes later actions wait for it.
  Those deferred for an order, not for the action, are not claimed.
* ERROR_INTERNAL ends an action for the ledger and not for the recovery, which
  executes it again at later heads, also while a later action of the token that
  went through intake has an order in flight: `OneInFlightPerToken` is a property of
  the executor alone and does not hold of `RepairWindow`. `RecoveredInOrder` is what
  the recovery keeps: among claimed actions.
* A claimed SELL that was partly filled and whose position later sales have emptied
  is closed as PARTIAL by the executor, and `run_cycle` records that word as it is
  (1344), which is none of its settled states. The cycle goes on with later actions
  of the token and only the next one calls the claim
  PARTIAL_TERMINAL_PREFIX_PRESERVED; `RecoveredInOrder` allows for it.
* A row whose frozen target is not the whole copy and whose position is gone raises
  FROZEN_ACTION_TARGET_CONFLICT (7056) and ends `run_cycle` (17151), at every head.
* A head lost between `MarkBelowMinimum` and `CloseBelowMinimum` leaves a settled
  claim over an unfinished row, which is why `RecordsAgree` does not name
  EXTERNAL_UNFILLABLE; the manifest may complete over it.

Redemption

* A cycle lost between `FreezePlatform` and `MarkPlatform` leaves a READY receipt
  whose tokens are gone; READY is never frozen again. Lost before `MarkLoss`, the
  next cycle submits a redemption of the losing side.
* UNKNOWN_SUBMISSION without a transaction is left only when the account's cash
  grew by exactly the payout; an unrelated deposit, or a second condition settled by
  the platform at the same time, hides it.
* A market that still trades behind its resolution breaks that proof: the answer to
  a submission that was never taken is lost, one sleeve sells what is frozen, the
  platform pays the other, and the two together are the payout that was expected
  (16465). The distribution credits both, although one was paid. With
  `LateTrading` and `MaxTrades = 2` TLC finds `CashIsBacked` and `PromiseKept` violated
  so; with one order there is no such trace. The code relies on a resolved market
  being closed, which is the exchange's affair.
* A redemption of a sleeve that confirms after the condition became shared is kept
  in quarantine and never allocated (15774).

Release

* Past START_INTENT a repeated rollback restores the exact copies again and forgets
  what the candidate recorded, as it is meant to; `NothingForgottenBeforeStart`
  draws the line where the code does.
* `disable_candidate` may fail and the restore goes on (8078): a restart of the host
  then starts a candidate over old databases (`loose`).
* A death between the snapshot directory and STOP_INTENT burns the change id: a
  directory without receipts is refused.

## Not modelled

* Health heartbeat, dead-man alerter and daily collection: samples and files on a
  timer. Planned (alarms are edge-triggered: latching and repetition can be wrong).
* Decimal arithmetic of sizing: `OrderLedger` takes every status and quantity
  `plan_action` can answer. Planned as pure operators.
* Profiles and scope: pure classification; `ScopeRefuses` and `ScopeAccepts` are its
  answers. Chain client, deployment helpers, status files, argument parsing: I/O.
* What each section above lists under "Not in it".

## Plan

Done: `OrderLedger`, `HeadService`, `SharedRedemption` with `PayoutOnce`,
`ReleaseTransaction`, `RepairWindow`, and the theorems above. Next, in this order:

1. `CashGuard`: cash snapshots, quarantines, permanent blocks and buy collisions.
2. `Health` and `Sizing`; `CopyOnce`, the promise of one action's copy that
   `OrderLedger` implements.
