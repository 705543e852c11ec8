---------------------------- MODULE OrderLedger ----------------------------
(***************************************************************************)
(* The durable rows one LiveStore keeps for every source action, the       *)
(* executor that moves them, and the exchange the orders rest on.          *)
(*                                                                         *)
(* One step is one SQLite transaction, one call to the exchange, or one    *)
(* step of the exchange itself.  A handler that commits several            *)
(* transactions is several steps linked by the volatile variable exec, so  *)
(* that the process may stop between any two of them (Crash).  One share   *)
(* costs one dollar: a quantity is also its worst cash cost.               *)
(***************************************************************************)
EXTENDS Integers, FiniteSets, FiniteSetsExt

CONSTANTS
  Actions,        \* source actions (action_receipts.action_id)
  Tokens,         \* outcome tokens
  TokenOf,        \* the token of an action
  SideOf,         \* "BUY" or "SELL"
  Rank,           \* causal key (block_number, source_log_index, ...) as a number
  Want,           \* proportional quantity of an action
  MinSize,        \* minimum order size of the market
  Wallet0,        \* collateral of the account at the start
  Inventory0,     \* copied shares held at the start
  MaxAttempts,    \* bound: submission attempts per action
  MaxCrashes,     \* bound: process deaths
  SettlementLag,  \* TRUE: a fill is matched some blocks before it is finalized
  DelayedVenue,   \* TRUE: the exchange may act after the POST has returned
  PartialReceipts \* TRUE: a resting order's POST names what it already matched

Sides == {"BUY", "SELL"}
Attempts == 1..MaxAttempts
Orders == Actions \X Attempts

ASSUME ActionsAssumption ==
  /\ IsFiniteSet(Actions)
  /\ TokenOf \in [Actions -> Tokens]
  /\ SideOf \in [Actions -> Sides]
  /\ Rank \in [Actions -> Nat]
  /\ \A a, b \in Actions : Rank[a] = Rank[b] => a = b
  /\ Want \in [Actions -> Nat \ {0}]
ASSUME BoundsAssumption ==
  /\ MaxAttempts \in Nat \ {0}
  /\ MaxCrashes \in Nat
  /\ MinSize \in Nat \ {0}
ASSUME EnvironmentAssumption ==
  /\ Wallet0 \in Nat
  /\ Inventory0 \in [Tokens -> Nat]
  /\ SettlementLag \in BOOLEAN
  /\ DelayedVenue \in BOOLEAN
  /\ PartialReceipts \in BOOLEAN

-----------------------------------------------------------------------------
\* Row states.

UnresolvedStates == {"SUBMIT_STARTED", "SUBMITTED_UNRECONCILED", "UNKNOWN_SUBMISSION"}
AttemptStates == UnresolvedStates
  \cup {"NONE", "FILLED", "PARTIAL_FILLED", "NO_FILL", "REJECTED_INTERNAL"}

TerminalStates == {"SKIPPED", "FILLED", "PARTIAL", "ERROR", "ERROR_INTERNAL",
                   "EXTERNAL_UNFILLABLE", "SUPERSEDED_UNFILLED"}

LiquidityStates == {"PENDING_LIQUIDITY", "PENDING_CONFIRMED_ZERO_FILL",
                    "PENDING_PRICE_PROTECTION", "PARTIAL_PENDING"}

\* PENDING_CAPITAL and PENDING_MINIMUM_REMAINDER, which only a store without a
\* wallet coordinator or a liquidity policy can write, are left out.
RetryableStates == LiquidityStates
  \cup {"PENDING_MINIMUM_UNWIND", "PENDING_EXTERNAL_RETRY"}

\* Mutant of HandledStates: one terminal status is forgotten.
HandledStatesWithoutUnfillable ==
  (TerminalStates \ {"EXTERNAL_UNFILLABLE"})
    \cup {"SUBMITTED_UNRECONCILED", "UNKNOWN_SUBMISSION"}

\* _process_source_action returns the recorded result of these unchanged.
HandledStates == TerminalStates \cup {"SUBMITTED_UNRECONCILED", "UNKNOWN_SUBMISSION"}

TargetStates == UnresolvedStates \cup TerminalStates \cup RetryableStates
  \cup {"ABSENT", "READY"}

LatestStates == UnresolvedStates \cup TerminalStates \cup RetryableStates
  \cup {"NONE", "OBSERVED", "SCOPE_ELIGIBLE", "PENDING_METADATA", "PLANNED",
        "PENDING_CAUSAL_ORDER", "PENDING_INTERNAL_INVARIANT",
        "PENDING_LOSSLESS_HANDOFF", "ACTIVE_CANCEL_COMPLETED"}

\* What response_json of an attempt holds: nothing, a response without a
\* cancellation deadline, one with it, or one whose cancellation is verified.
Responses == {"none", "bare", "due", "cancelled"}

\* Where the exchange has an order: nowhere, on the wire, on the book, gone.
Places == {"none", "flying", "open", "closed"}

VARIABLES
  latest,    \* status of the last action_transitions row of an action
  scoped,    \* a SCOPE_ELIGIBLE transition exists
  planned,   \* a PLANNED transition exists
  target,    \* action_targets row
  attempt,   \* submission_attempts rows
  reserved,  \* quantity of the active order_reservations row, 0 when inactive
  pos,       \* positions.quantity
  order,     \* the exchange's and the chain's truth about an order
  held,      \* copied shares the account really owns
  wallet,    \* collateral the account really owns
  exec,      \* volatile: the handler in progress
  crashes    \* process deaths so far

rows == <<latest, scoped, planned, target, attempt, reserved, pos>>
venue == <<order, held, wallet>>
vars == <<rows, venue, exec, crashes>>

Idle == [pc |-> "idle"]

\* The next durable write of the handler, and what it will write.
PCs == {"entry", "late", "planned", "prepare", "post", "attempt", "cancelled",
        "set", "append"}

-----------------------------------------------------------------------------
\* Queries of the store.

Unresolved(a) == \E n \in Attempts : attempt[<<a, n>>].state \in UnresolvedStates

\* Mutant of SideEffect: only the last transition is asked for an open submission.
SideEffectOfLatest(a) == latest[a] \in UnresolvedStates

SideEffect(a) == reserved[a] > 0 \/ Unresolved(a)

\* Mutant of Earlier: the causal order is compared the wrong way round.
EarlierReversed(b, a) ==
  /\ TokenOf[b] = TokenOf[a]
  /\ Rank[b] > Rank[a]
  /\ latest[b] # "NONE"

Earlier(b, a) ==
  /\ TokenOf[b] = TokenOf[a]
  /\ Rank[b] < Rank[a]
  /\ latest[b] # "NONE"

PriorUnresolved(a) == \E b \in Actions : Earlier(b, a) /\ SideEffect(b)

Nonterminal(b) ==
  \/ latest[b] \notin TerminalStates
  \/ target[b].state \notin TerminalStates \cup {"ABSENT"}

PriorNonterminal(a) == \E b \in Actions : Earlier(b, a) /\ Nonterminal(b)

HasTarget(a) == target[a].state # "ABSENT"

Remaining(a) == target[a].qty - target[a].filled

OfSide(s) == {a \in Actions : SideOf[a] = s}

AvailablePosition(t) ==
  pos[t] - SumFunctionOnSet(reserved, {a \in OfSide("SELL") : TokenOf[a] = t})

\* Mutant of AvailableCash: active reservations are not deducted.
AvailableCashUnreserved == wallet

AvailableCash == wallet - SumFunctionOnSet(reserved, OfSide("BUY"))

\* liquidity_retry_evidence: every attempt is resolved without rejection and
\* one of them proves a zero fill or a partial fill.
LiquidityEvidence(a) ==
  /\ target[a].state \in LiquidityStates
  /\ latest[a] \in LiquidityStates
  /\ Remaining(a) > 0
  /\ ~SideEffect(a)
  /\ \E n \in Attempts : attempt[<<a, n>>].state \in {"NO_FILL", "PARTIAL_FILLED"}
  /\ \A n \in Attempts : attempt[<<a, n>>].state # "REJECTED_INTERNAL"

\* unreconciled_submissions: an unresolved attempt whose rows contradict it is
\* reported as an anomaly and never handed out again.
Withheld(o) ==
  LET a == o[1] IN
  \/ latest[a] \in TerminalStates
  \/ target[a].state \in TerminalStates \cup {"ABSENT"}
  \/ attempt[o].req # Remaining(a)
  \/ \E n \in Attempts : n # o[2] /\ attempt[<<a, n>>].state \in UnresolvedStates

Listed(o) == attempt[o].state \in UnresolvedStates /\ ~Withheld(o)

-----------------------------------------------------------------------------
\* Single transactions, and the steps between them.

Append(a, s) == latest' = [latest EXCEPT ![a] = s]

SetTarget(a, s) == target' = [target EXCEPT ![a].state = s]

SetAttempt(o, s) == attempt' = [attempt EXCEPT ![o].state = s]

\* ensure_action_target: inserts the row once, and never changes it.
EnsureTarget(a, s, q) ==
  target' = IF HasTarget(a)
            THEN target
            ELSE [target EXCEPT ![a] = [state |-> s, qty |-> q, filled |-> 0]]

\* Mutant of Release: the reservation stays active.
ReleaseKeepingReservation(a, s) ==
  /\ UNCHANGED reserved
  /\ SetTarget(a, s)
  /\ Append(a, s)

\* release_reservation_and_finalize
Release(a, s) ==
  /\ reserved' = [reserved EXCEPT ![a] = 0]
  /\ SetTarget(a, s)
  /\ Append(a, s)

At(pc) == exec.pc = pc
Busy(pc, a) == At(pc) /\ exec.act = a

Handler(pc, a, n, s, q, r) ==
  [pc |-> pc, act |-> a, n |-> n, st |-> s, q |-> q, resp |-> r]
Begun(a) == Handler("entry", a, 1, "NONE", 0, "none")
Then(pc, s) == exec' = [exec EXCEPT !.pc = pc, !.st = s]
Done == exec' = Idle

-----------------------------------------------------------------------------
\* Source intake.

\* persist_source_action_batch: the receipts of one block range, with every
\* earlier one already there.
Observe(B) ==
  /\ At("idle")
  /\ B # {}
  /\ \A b \in B : latest[b] = "NONE"
  /\ \A b \in B, c \in Actions : Rank[c] < Rank[b] => latest[c] # "NONE" \/ c \in B
  /\ latest' = [a \in Actions |-> IF a \in B THEN "OBSERVED" ELSE latest[a]]
  /\ UNCHANGED <<scoped, planned, target, attempt, reserved, pos, venue, exec, crashes>>

\* record_unpriced_runtime_gap: a primary start closes what it missed, or only
\* latches it when no planned recovery owns the gap.
RecordGap(B) ==
  /\ At("idle")
  /\ B # {}
  /\ \A b \in B : latest[b] = "NONE"
  /\ \A b \in B, c \in Actions : Rank[c] < Rank[b] => latest[c] # "NONE" \/ c \in B
  /\ \E s \in {"ERROR_INTERNAL", "PENDING_LOSSLESS_HANDOFF"} :
       latest' = [a \in Actions |-> IF a \in B THEN s ELSE latest[a]]
  /\ UNCHANGED <<scoped, planned, target, attempt, reserved, pos, venue, exec, crashes>>

\* A cycle, a replayed range or a recovery hands the action to the executor.
ProcessSourceAction(a) ==
  /\ At("idle")
  /\ latest[a] \notin HandledStates \cup {"NONE"}
  /\ exec' = Begun(a)
  /\ UNCHANGED <<rows, venue, crashes>>

ScopeRefuses(a) ==
  /\ Busy("entry", a)
  /\ ~scoped[a]
  /\ \E s \in {"PENDING_METADATA", "ERROR_INTERNAL", "SKIPPED"} : Append(a, s)
  /\ Done
  /\ UNCHANGED <<scoped, planned, target, attempt, reserved, pos, venue, crashes>>

ScopeAccepts(a) ==
  /\ Busy("entry", a)
  /\ ~scoped[a]
  /\ Append(a, "SCOPE_ELIGIBLE")
  /\ scoped' = [scoped EXCEPT ![a] = TRUE]
  /\ \E pc \in {"entry", "late"} : Then(pc, "NONE")
  /\ UNCHANGED <<planned, target, attempt, reserved, pos, venue, crashes>>

\* _record_late_metadata_unfillable
LateUnfillable(a) ==
  /\ Busy("late", a)
  /\ EnsureTarget(a, "EXTERNAL_UNFILLABLE", Want[a])
  /\ Then("append", "EXTERNAL_UNFILLABLE")
  /\ UNCHANGED <<latest, scoped, planned, attempt, reserved, pos, venue, crashes>>

-----------------------------------------------------------------------------
\* _execute_source_action_locked up to the plan.

Executing(a) == Busy("entry", a) /\ scoped[a] /\ latest[a] # "SUBMIT_STARTED"

\* A replay finds the transition of a POST whose outcome was never recorded.
RecoverSubmitStarted(a) ==
  /\ Busy("entry", a)
  /\ scoped[a]
  /\ latest[a] = "SUBMIT_STARTED"
  /\ Append(a, "UNKNOWN_SUBMISSION")
  /\ Done
  /\ UNCHANGED <<scoped, planned, target, attempt, reserved, pos, venue, crashes>>

\* supersede_earlier_fully_unfilled_opposites selects these rows.
EarlierOpposites(a) ==
  {b \in Actions : /\ Earlier(b, a)
                   /\ SideOf[b] # SideOf[a]
                   /\ target[b].state \in RetryableStates}

Closed(b) == IF target[b].filled > 0 THEN "PARTIAL" ELSE "SUPERSEDED_UNFILLED"

DeferToEarlierAction(a) ==
  /\ Executing(a)
  /\ PriorUnresolved(a) \/ (EarlierOpposites(a) = {} /\ PriorNonterminal(a))
  /\ Append(a, "PENDING_CAUSAL_ORDER")
  /\ Done
  /\ UNCHANGED <<scoped, planned, target, attempt, reserved, pos, venue, crashes>>

SupersedeEarlierOpposites(a) ==
  /\ Executing(a)
  /\ ~PriorUnresolved(a)
  /\ EarlierOpposites(a) # {}
  /\ target' = [b \in Actions |-> IF b \in EarlierOpposites(a)
                                  THEN [target[b] EXCEPT !.state = Closed(b)]
                                  ELSE target[b]]
  /\ latest' = [b \in Actions |-> IF b \in EarlierOpposites(a)
                                  THEN Closed(b)
                                  ELSE latest[b]]
  /\ UNCHANGED <<scoped, planned, attempt, reserved, pos, venue, exec, crashes>>

InOrder(a) ==
  /\ Executing(a)
  /\ ~PriorUnresolved(a)
  /\ EarlierOpposites(a) = {}
  /\ ~PriorNonterminal(a)

NothingToSell(a) == SideOf[a] = "SELL" /\ AvailablePosition(TokenOf[a]) = 0

Unfillable(a) == IF target[a].filled > 0 THEN "PARTIAL" ELSE "EXTERNAL_UNFILLABLE"

CloseUnsellable(a) ==
  /\ InOrder(a)
  /\ NothingToSell(a)
  /\ HasTarget(a) => target[a].qty = Want[a]
  /\ EnsureTarget(a, "EXTERNAL_UNFILLABLE", Want[a])
  /\ Then("set", Unfillable(a))
  /\ UNCHANGED <<latest, scoped, planned, attempt, reserved, pos, venue, crashes>>

\* Raises FROZEN_ACTION_TARGET_CONFLICT or
\* UNRESOLVED_SUBMISSION_BLOCKS_STALE_CAUSAL_TARGET_CHECK.
Refuse(a) ==
  /\ InOrder(a)
  /\ HasTarget(a)
  /\ IF NothingToSell(a) THEN target[a].qty # Want[a] ELSE SideEffect(a)
  /\ Done
  /\ UNCHANGED <<rows, venue, crashes>>

\* Mutant of Sizable: an unresolved submission does not stop the executor.
SizableAnyway(a) == InOrder(a) /\ ~NothingToSell(a)

Sizable(a) ==
  /\ InOrder(a)
  /\ ~NothingToSell(a)
  /\ HasTarget(a) => ~SideEffect(a)

\* _fail_closed_stale_causal_target: the sizing basis frozen by the first
\* PLANNED transition has changed, or none was ever recorded.
FailStaleTarget(a) ==
  /\ Sizable(a)
  /\ HasTarget(a)
  /\ Release(a, "ERROR_INTERNAL")
  /\ Done
  /\ UNCHANGED <<scoped, planned, attempt, pos, venue, crashes>>

-----------------------------------------------------------------------------
\* The plan.

Plannable(a) == Sizable(a) /\ (HasTarget(a) => planned[a])

\* Failures while reading the book, the market, the wallet or the coordinator.
PlanFailures(a) ==
  {"PENDING_EXTERNAL_RETRY", "ERROR", "PENDING_INTERNAL_INVARIANT"}
    \cup (IF SideOf[a] = "BUY" THEN {"PENDING_METADATA", "ERROR_INTERNAL"} ELSE {})

\* Without a book a proven liquidity remainder keeps its state.
PlanFails(a) ==
  /\ Plannable(a)
  /\ \/ /\ \E s \in PlanFailures(a) : Append(a, s)
        /\ Done
        /\ UNCHANGED target
     \/ /\ LiquidityEvidence(a)
        /\ Then("append", target[a].state)
        /\ UNCHANGED <<latest, target>>
  /\ UNCHANGED <<scoped, planned, attempt, reserved, pos, venue, crashes>>

Least(x, y) == IF x <= y THEN x ELSE y
Sellable(a, q) == {r \in 0..q : r = Least(q, AvailablePosition(TokenOf[a]))}
Affordable(q) == {r \in {q} : r <= AvailableCash}
Orderable(S) == {q \in S : q >= MinSize}
Undersized(S) == S \ Orderable(S)

\* plan_action: the statuses and the quantity of a first plan.  A BUY may also
\* fall under a notional minimum, or above the price ceiling.
FirstPlans(a) ==
  LET w == Want[a]
      S == Sellable(a, w)
  IN IF SideOf[a] = "BUY"
     THEN {"SKIPPED", "EXTERNAL_UNFILLABLE"} \X {w} \cup {"READY"} \X Affordable(w)
     ELSE {"SKIPPED"} \X Undersized({w})
            \cup {"PENDING_MINIMUM_UNWIND"} \X Undersized(S)
            \cup {"READY", "PENDING_LIQUIDITY"} \X Orderable(S)

\* Those of a plan for the remainder of a frozen target, which a price worse
\* than the first attempt's keeps pending.
RemainderPlans(a) ==
  LET r == Remaining(a)
      S == Sellable(a, r)
      priced == {s \in {"PENDING_PRICE_PROTECTION"} : LiquidityEvidence(a)}
  IN IF SideOf[a] = "BUY"
     THEN {"EXTERNAL_UNFILLABLE"} \X {r} \cup ({"READY"} \cup priced) \X Affordable(r)
     ELSE IF r < MinSize
     THEN {<<"EXTERNAL_UNFILLABLE", r>>}
     ELSE {"PENDING_MINIMUM_UNWIND"} \X Undersized(S)
            \cup ({"READY", "PENDING_LIQUIDITY"} \cup priced) \X Orderable(S)

PlanFirst(a) ==
  /\ Plannable(a)
  /\ ~HasTarget(a)
  /\ \E p \in FirstPlans(a) :
       /\ EnsureTarget(a, p[1], p[2])
       /\ exec' = [exec EXCEPT !.pc = "planned", !.st = p[1], !.q = p[2]]
  /\ UNCHANGED <<latest, scoped, planned, attempt, reserved, pos, venue, crashes>>

PlanRemainder(a) ==
  /\ Plannable(a)
  /\ HasTarget(a)
  /\ \E p \in RemainderPlans(a) :
       exec' = [exec EXCEPT !.pc = "planned", !.st = p[1], !.q = p[2]]
  /\ UNCHANGED <<rows, venue, crashes>>

RecordPlan(a) ==
  /\ Busy("planned", a)
  /\ Append(a, "PLANNED")
  /\ planned' = [planned EXCEPT ![a] = TRUE]
  /\ exec' = [exec EXCEPT !.pc = IF exec.st = "READY" THEN "prepare" ELSE "set"]
  /\ UNCHANGED <<scoped, target, attempt, reserved, pos, venue, crashes>>

PreparationFails(a) ==
  /\ Busy("prepare", a)
  /\ \E s \in {"PENDING_EXTERNAL_RETRY", "ERROR_INTERNAL"} : Then("set", s)
  /\ UNCHANGED <<rows, venue, crashes>>

-----------------------------------------------------------------------------
\* Submission.

NextAttempt(a, n) ==
  /\ attempt[<<a, n>>].state = "NONE"
  /\ \A m \in 1..(n - 1) : attempt[<<a, m>>].state # "NONE"

BeginSubmissionAttempt(a, n) ==
  /\ Busy("prepare", a)
  /\ exec.q > 0
  /\ ~SideEffect(a)
  /\ NextAttempt(a, n)
  /\ reserved' = [reserved EXCEPT ![a] = exec.q]
  /\ attempt' = [attempt EXCEPT ![<<a, n>>] =
       [state |-> "SUBMIT_STARTED", req |-> exec.q, resp |-> "none", booked |-> 0]]
  /\ SetTarget(a, "SUBMIT_STARTED")
  /\ Append(a, "SUBMIT_STARTED")
  /\ exec' = [exec EXCEPT !.pc = "post", !.n = n]
  /\ UNCHANGED <<scoped, planned, pos, venue, crashes>>

\* The account after k more shares of an order have matched.
Traded(o, k) ==
  LET bought == IF SideOf[o[1]] = "BUY" THEN k ELSE -k
  IN /\ held' = [held EXCEPT ![TokenOf[o[1]]] = @ + bought]
     /\ wallet' = wallet - bought

\* An order reaches the book and k shares match at once.  Only a GTC order
\* rests; a FAK order that matches nothing is rejected, unless the exchange
\* has delayed it.
Lands(o, k, told) ==
  LET rests == /\ k < attempt[o].req
               /\ SideOf[o[1]] = "BUY" \/ k = 0
  IN /\ order' = [order EXCEPT ![o] =
           [venue |-> IF rests THEN "open" ELSE "closed",
            matched |-> k, final |-> IF SettlementLag THEN 0 ELSE k, told |-> told]]
     /\ Traded(o, k)

FirstMatches(o) ==
  {k \in 0..attempt[o].req : SideOf[o[1]] = "BUY" \/ k > 0 \/ DelayedVenue}

\* The quantity whose transactions the POST response may name.
Tellable(o, k) ==
  {0} \cup {j \in {k} : k = attempt[o].req \/ SideOf[o[1]] = "SELL" \/ PartialReceipts}

\* A response arrives; a BUY's is given its deadline.  Its order id may not be
\* the prepared one.
PostAnswered(a) ==
  LET o == <<a, exec.n>> IN
  /\ Busy("post", a)
  /\ \E k \in FirstMatches(o) : \E j \in Tellable(o, k) : Lands(o, k, j)
  /\ \E s \in {"SUBMITTED_UNRECONCILED", "UNKNOWN_SUBMISSION"} :
       exec' = [exec EXCEPT !.pc = "attempt", !.st = s,
                            !.resp = IF SideOf[a] = "BUY" THEN "due" ELSE "bare"]
  /\ UNCHANGED <<rows, crashes>>

\* The transport fails: the order may have landed, may land later, or is lost.
PostUnanswered(a) ==
  LET o == <<a, exec.n>> IN
  /\ Busy("post", a)
  /\ \/ \E k \in FirstMatches(o) : Lands(o, k, 0)
     \/ UNCHANGED venue
     \/ /\ DelayedVenue
        /\ order' = [order EXCEPT ![o].venue = "flying"]
        /\ UNCHANGED <<held, wallet>>
  /\ exec' = [exec EXCEPT !.pc = "attempt", !.st = "UNKNOWN_SUBMISSION",
                          !.resp = "bare"]
  /\ UNCHANGED <<rows, crashes>>

\* A definitive rejection: the order never rested and nothing matched.
PostRejected(a) ==
  LET o == <<a, exec.n>> IN
  /\ Busy("post", a)
  /\ \/ /\ SideOf[a] = "SELL"
        /\ SetAttempt(o, "NO_FILL")
        /\ Release(a, "EXTERNAL_UNFILLABLE")
     \/ /\ SetAttempt(o, "REJECTED_INTERNAL")
        /\ Release(a, "ERROR_INTERNAL")
  /\ Done
  /\ UNCHANGED <<scoped, planned, pos, venue, crashes>>

\* set_attempt_order_id or update_attempt_state
RecordAttempt(a) ==
  /\ Busy("attempt", a)
  /\ attempt' = [attempt EXCEPT ![<<a, exec.n>>].state = exec.st,
                                ![<<a, exec.n>>].resp = exec.resp]
  /\ Then("set", exec.st)
  /\ UNCHANGED <<latest, scoped, planned, target, reserved, pos, venue, crashes>>

RecordTarget(a) ==
  /\ Busy("set", a)
  /\ SetTarget(a, exec.st)
  /\ Then("append", exec.st)
  /\ UNCHANGED <<latest, scoped, planned, attempt, reserved, pos, venue, crashes>>

RecordTransition(a) ==
  /\ Busy("append", a)
  /\ Append(a, exec.st)
  /\ Done
  /\ UNCHANGED <<scoped, planned, target, attempt, reserved, pos, venue, crashes>>

-----------------------------------------------------------------------------
\* Maintenance of submitted orders.

\* cancel_due_active_gtd_orders, once the deadline of a response has passed
\* and the exchange shows the order no longer open.
CancelDue(o) ==
  /\ At("idle")
  /\ SideOf[o[1]] = "BUY"
  /\ Listed(o)
  /\ attempt[o].resp = "due"
  /\ order' = [order EXCEPT ![o].venue = IF @ = "open" THEN "closed" ELSE @]
  /\ exec' = Handler("cancelled", o[1], o[2], "SUBMITTED_UNRECONCILED", 0, "cancelled")
  /\ UNCHANGED <<rows, held, wallet, crashes>>

RecordCancellation(a) ==
  /\ Busy("cancelled", a)
  /\ attempt' = [attempt EXCEPT ![<<a, exec.n>>].state = exec.st,
                                ![<<a, exec.n>>].resp = exec.resp]
  /\ Then("append", "ACTIVE_CANCEL_COMPLETED")
  /\ UNCHANGED <<latest, scoped, planned, target, reserved, pos, venue, crashes>>

\* Mutant of Reconcilable: a resting order is not waited for.
ReconcilableAnytime(o) == At("idle") /\ Listed(o)

\* reconcile_submitted_actions asks whether a GTC order still rests; a FAK
\* order is never asked about.
Reconcilable(o) ==
  /\ At("idle")
  /\ Listed(o)
  /\ order[o].venue = "open" => SideOf[o[1]] = "SELL" \/ attempt[o].resp = "cancelled"

\* Mutant of Readings: the requested quantity is taken for the matched one.
ReadingsOfRequest(o) == {attempt[o].req}

\* Quantities an authority may report: the receipts of the transactions the
\* response names, the finalized logs of the order hash, or, when neither can
\* be read, the trades of the official order.
Readings(o) ==
  {order[o].final, order[o].matched}
    \cup {q \in {order[o].told} : attempt[o].resp # "none"}

\* Mutant of FillState: the attempt's word is written to the target.
FillStateOfAttempt(a, q) == IF q = Remaining(a) THEN "FILLED" ELSE "PARTIAL_FILLED"

FillState(a, q) ==
  IF q = Remaining(a) THEN "FILLED"
  ELSE IF SideOf[a] = "SELL" /\ Remaining(a) - q < MinSize
       THEN "EXTERNAL_UNFILLABLE"
       ELSE "PARTIAL_PENDING"

\* apply_fill_and_finalize
ReconcileFill(o) ==
  LET a == o[1]
      t == TokenOf[a]
  IN /\ Reconcilable(o)
     /\ \E q \in Readings(o) \ {0} :
          /\ q <= Remaining(a)
          /\ SideOf[a] = "SELL" => q <= pos[t]
          /\ target' = [target EXCEPT ![a].filled = @ + q, ![a].state = FillState(a, q)]
          /\ Append(a, FillState(a, q))
          /\ attempt' = [attempt EXCEPT
               ![o].state = IF q = Remaining(a) THEN "FILLED" ELSE "PARTIAL_FILLED",
               ![o].booked = q]
          /\ pos' = [pos EXCEPT ![t] = IF SideOf[a] = "BUY" THEN @ + q ELSE @ - q]
     /\ reserved' = [reserved EXCEPT ![a] = 0]
     /\ UNCHANGED <<scoped, planned, venue, exec, crashes>>

\* Mutant of ReconcileFinalizedNoFill: an unreadable chain counts as no fill.
ReconcileUnprovedNoFill(o) ==
  LET a == o[1] IN
  /\ Reconcilable(o)
  /\ SetAttempt(o, "NO_FILL")
  /\ Release(a, IF SideOf[a] = "BUY" THEN "EXTERNAL_UNFILLABLE"
                                     ELSE "PENDING_CONFIRMED_ZERO_FILL")
  /\ UNCHANGED <<scoped, planned, pos, venue, exec, crashes>>

\* No finalized log of the order hash up to the finalized block.
ReconcileFinalizedNoFill(o) ==
  LET a == o[1] IN
  /\ Reconcilable(o)
  /\ order[o].final = 0
  /\ SetAttempt(o, "NO_FILL")
  /\ Release(a, IF SideOf[a] = "BUY" THEN "EXTERNAL_UNFILLABLE"
                                     ELSE "PENDING_CONFIRMED_ZERO_FILL")
  /\ UNCHANGED <<scoped, planned, pos, venue, exec, crashes>>

\* The chain cannot be read and the official order is canceled, unmatched.
ReconcileCanceled(o) ==
  /\ Reconcilable(o)
  /\ order[o].venue = "closed"
  /\ order[o].matched = 0
  /\ SetAttempt(o, "NO_FILL")
  /\ Release(o[1], "EXTERNAL_UNFILLABLE")
  /\ UNCHANGED <<scoped, planned, pos, venue, exec, crashes>>

\* mark_official_order_absent_as_unknown
ReconcileAbsent(o) ==
  /\ Reconcilable(o)
  /\ order[o].venue # "open"
  /\ SetAttempt(o, "UNKNOWN_SUBMISSION")
  /\ SetTarget(o[1], "UNKNOWN_SUBMISSION")
  /\ Append(o[1], "UNKNOWN_SUBMISSION")
  /\ UNCHANGED <<scoped, planned, reserved, pos, venue, exec, crashes>>

\* retry_pending_actions closes a proven remainder and submits nothing.
CloseRetry(a) ==
  /\ At("idle")
  /\ LiquidityEvidence(a)
  /\ SetTarget(a, Unfillable(a))
  /\ exec' = Handler("append", a, 1, Unfillable(a), 0, "none")
  /\ UNCHANGED <<latest, scoped, planned, attempt, reserved, pos, venue, crashes>>

-----------------------------------------------------------------------------
\* The exchange, the chain and the machine.

Match(o) ==
  /\ order[o].venue = "open"
  /\ order' = [order EXCEPT
       ![o].matched = @ + 1,
       ![o].final = IF SettlementLag THEN @ ELSE @ + 1,
       ![o].venue = IF order[o].matched + 1 = attempt[o].req THEN "closed" ELSE @]
  /\ Traded(o, 1)
  /\ UNCHANGED <<rows, exec, crashes>>

\* The market resolves, or a delayed order is killed.
Withdraw(o) ==
  /\ order[o].venue = "open"
  /\ order' = [order EXCEPT ![o].venue = "closed"]
  /\ UNCHANGED <<rows, held, wallet, exec, crashes>>

Arrive(o) ==
  /\ order[o].venue = "flying"
  /\ \/ \E k \in FirstMatches(o) : Lands(o, k, 0)
     \/ order' = [order EXCEPT ![o].venue = "none"] /\ UNCHANGED <<held, wallet>>
  /\ UNCHANGED <<rows, exec, crashes>>

Finalize(o) ==
  /\ \E k \in (order[o].final + 1)..order[o].matched :
       order' = [order EXCEPT ![o].final = k]
  /\ UNCHANGED <<rows, held, wallet, exec, crashes>>

Crash ==
  /\ ~At("idle")
  /\ crashes < MaxCrashes
  /\ crashes' = crashes + 1
  /\ Done
  /\ UNCHANGED <<rows, venue>>

-----------------------------------------------------------------------------

Init ==
  /\ latest = [a \in Actions |-> "NONE"]
  /\ scoped = [a \in Actions |-> FALSE]
  /\ planned = [a \in Actions |-> FALSE]
  /\ target = [a \in Actions |-> [state |-> "ABSENT", qty |-> 0, filled |-> 0]]
  /\ attempt = [o \in Orders |->
                  [state |-> "NONE", req |-> 0, resp |-> "none", booked |-> 0]]
  /\ reserved = [a \in Actions |-> 0]
  /\ pos = Inventory0
  /\ order = [o \in Orders |->
                [venue |-> "none", matched |-> 0, final |-> 0, told |-> 0]]
  /\ held = Inventory0
  /\ wallet = Wallet0
  /\ exec = Idle
  /\ crashes = 0

Intake == \E B \in SUBSET Actions : Observe(B) \/ RecordGap(B)

Plan(a) ==
  \/ ProcessSourceAction(a)
  \/ ScopeRefuses(a) \/ ScopeAccepts(a) \/ LateUnfillable(a)
  \/ RecoverSubmitStarted(a)
  \/ DeferToEarlierAction(a) \/ SupersedeEarlierOpposites(a)
  \/ CloseUnsellable(a) \/ Refuse(a) \/ FailStaleTarget(a)
  \/ PlanFails(a) \/ PlanFirst(a) \/ PlanRemainder(a)
  \/ RecordPlan(a) \/ PreparationFails(a)

Submit(a) ==
  \/ \E n \in Attempts : BeginSubmissionAttempt(a, n)
  \/ PostAnswered(a) \/ PostUnanswered(a) \/ PostRejected(a)
  \/ RecordAttempt(a) \/ RecordTarget(a) \/ RecordTransition(a)

Reconcile(o) ==
  \/ ReconcileFill(o)
  \/ ReconcileFinalizedNoFill(o)
  \/ ReconcileCanceled(o)
  \/ ReconcileAbsent(o)

Maintain ==
  \/ \E o \in Orders : CancelDue(o) \/ Reconcile(o)
  \/ \E a \in Actions : RecordCancellation(a) \/ CloseRetry(a)

Venue == \E o \in Orders : Match(o) \/ Withdraw(o) \/ Arrive(o) \/ Finalize(o)

Next ==
  \/ Intake
  \/ \E a \in Actions : Plan(a) \/ Submit(a)
  \/ Maintain
  \/ Venue
  \/ Crash

Spec == Init /\ [][Next]_vars

-----------------------------------------------------------------------------
\* Properties of the store, whatever the exchange and the chain do.

TargetRows == [state : TargetStates, qty : Nat, filled : Nat]
AttemptRows == [state : AttemptStates, req : Nat, resp : Responses, booked : Nat]
VenueOrders == [venue : Places, matched : Nat, final : Nat, told : Nat]
Handlers == [pc : PCs, act : Actions, n : Attempts,
             st : LatestStates \cup {"READY"}, q : Nat, resp : Responses]

TypeOK ==
  /\ latest \in [Actions -> LatestStates]
  /\ scoped \in [Actions -> BOOLEAN]
  /\ planned \in [Actions -> BOOLEAN]
  /\ target \in [Actions -> TargetRows]
  /\ attempt \in [Orders -> AttemptRows]
  /\ reserved \in [Actions -> Nat]
  /\ pos \in [Tokens -> Nat]
  /\ order \in [Orders -> VenueOrders]
  /\ held \in [Tokens -> Int]
  /\ wallet \in Int
  /\ exec \in {Idle} \cup Handlers
  /\ crashes \in 0..MaxCrashes

\* An action has at most one unresolved attempt, and its reservation is active
\* exactly while it has one, for exactly the quantity requested: neither a
\* crash between two of the executor's transactions nor a replay leaves cash
\* or inventory reserved without an order, or an order without its reservation.
ReservationBacksAttempt ==
  \A a \in Actions :
    /\ \A m, n \in Attempts :
         (/\ attempt[<<a, m>>].state \in UnresolvedStates
          /\ attempt[<<a, n>>].state \in UnresolvedStates) => m = n
    /\ reserved[a] > 0 => Unresolved(a)
    /\ \A n \in Attempts : attempt[<<a, n>>].state \in UnresolvedStates
         => reserved[a] = attempt[<<a, n>>].req /\ reserved[a] > 0

\* unreconciled_submissions never meets rows it must withhold: an unresolved
\* attempt always has live rows around it and still asks for exactly what its
\* target lacks, so it is never left out of reconciliation for good.
NoReconciliationAnomaly ==
  \A o \in Orders : attempt[o].state \in UnresolvedStates => Listed(o)

\* Two actions of one token are never in flight together: what the earlier one
\* did is known before a later one is sized (prior_unresolved_same_token_submission).
OneInFlightPerToken ==
  \A a, b \in Actions :
    TokenOf[a] = TokenOf[b] /\ SideEffect(a) /\ SideEffect(b) => a = b

BookedOf(a) == SumFunctionOnSet([n \in Attempts |-> attempt[<<a, n>>].booked], Attempts)
FilledOf(s, t) ==
  SumFunctionOnSet([a \in Actions |-> target[a].filled], {a \in OfSide(s) : TokenOf[a] = t})

\* Every booked share is backed by a share the exchange matched, is counted
\* once in the progress of its target, within the frozen quantity, and once in
\* the position.  An attempt has booked something exactly when it is called
\* filled or partly filled, and all its order ever matches when it is called
\* filled.
LedgerAddsUp ==
  /\ \A o \in Orders :
       /\ attempt[o].booked <= order[o].matched
       /\ attempt[o].booked > 0 <=> attempt[o].state \in {"FILLED", "PARTIAL_FILLED"}
       /\ attempt[o].state = "FILLED" => attempt[o].booked = order[o].matched
  /\ \A a \in Actions : target[a].filled = BookedOf(a) /\ target[a].filled <= target[a].qty
  /\ \A t \in Tokens : pos[t] = Inventory0[t] + FilledOf("BUY", t) - FilledOf("SELL", t)

\* A recorded outcome is final: a resolved attempt never changes again, a
\* terminal action stays terminal and submits nothing more, and a frozen
\* target keeps its quantity and never loses progress.
OutcomesAreFinal ==
  [][/\ \A o \in Orders :
          attempt[o].state \notin UnresolvedStates \cup {"NONE"} => attempt'[o] = attempt[o]
     /\ \A a \in Actions : latest[a] \in TerminalStates =>
          /\ latest'[a] \in TerminalStates
          /\ \A n \in Attempts : attempt'[<<a, n>>] = attempt[<<a, n>>]
     /\ \A a \in Actions : HasTarget(a) =>
          /\ target'[a].qty = target[a].qty
          /\ target'[a].filled >= target[a].filled
    ]_vars

\* What an order has traded or, while it is on the wire or on the book, may trade.
Live(o) == order[o].venue \in {"flying", "open"}
Exposure(o) == IF Live(o) THEN attempt[o].req ELSE order[o].matched

Committed(o) ==
  IF attempt[o].state \in UnresolvedStates THEN Exposure(o) ELSE attempt[o].booked
CommittedOf(a) == SumFunctionOnSet([n \in Attempts |-> Committed(<<a, n>>)], Attempts)

\* What the attempts of an action have booked, and what an order that is still
\* unresolved trades, however late it lands or fills, together never exceed the
\* frozen quantity: an order whose outcome is unknown is not doubled by a
\* second one.  What an order trades once its attempt is resolved is outside.
OrdersFitTarget == \A a \in Actions : CommittedOf(a) <= target[a].qty

-----------------------------------------------------------------------------
\* Properties of the account, for a prompt exchange and chain.

ExposureOf(a) == SumFunctionOnSet([n \in Attempts |-> Exposure(<<a, n>>)], Attempts)

ToCome(o) == IF Live(o) THEN attempt[o].req - order[o].matched ELSE 0
ToComeOf(S) == SumFunctionOnSet([o \in Orders |-> ToCome(o)], S)

\* All the orders made for an action, remainders included and resolved or not,
\* never buy or sell more than its frozen quantity, whatever crashes, lost
\* answers and replays there were.
NoDuplicateOrder == \A a \in Actions : ExposureOf(a) <= target[a].qty

\* No fill is lost or invented: when no order of a token is unresolved, the
\* position is what the account got by copying.
PositionIsReal ==
  \A t \in Tokens :
    (\A a \in Actions : TokenOf[a] = t => ~SideEffect(a)) => pos[t] = held[t]

\* What rests on the book can always be paid and delivered: open BUYs within
\* the collateral, open SELLs within the shares obtained by copying.
OrdersAreCovered ==
  /\ ToComeOf({o \in Orders : SideOf[o[1]] = "BUY"}) <= wallet
  /\ \A t \in Tokens :
       ToComeOf({o \in Orders : SideOf[o[1]] = "SELL" /\ TokenOf[o[1]] = t}) <= held[t]
=============================================================================
