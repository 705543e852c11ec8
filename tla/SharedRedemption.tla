-------------------------- MODULE SharedRedemption --------------------------
(***************************************************************************)
(* Redeeming one resolved condition held by the sleeves of one wallet.     *)
(* Every sleeve has its own ledger; the wallet, its outcome tokens and its *)
(* collateral are physical and common.  A condition one sleeve holds is    *)
(* redeemed and booked by that sleeve alone.  A condition more than one    *)
(* sleeve holds is frozen by the wallet coordinator, redeemed once, and    *)
(* the payout is booked sleeve by sleeve, in databases no transaction      *)
(* spans.                                                                  *)
(*                                                                         *)
(* Redemption cycles and trades run under one wallet lock, so one cycle at *)
(* most is in progress; it is split at every durable write and outside     *)
(* call, and a crash loses it anywhere.  The chain, the relayer and the    *)
(* platform act at any time.  An outside read may always fail.             *)
(*                                                                         *)
(* Left out: the coordinator's frozen cash adjustments, permanent blocks   *)
(* of old credits, activity older than the cash baseline, and the          *)
(* correction of payouts booked by earlier versions.                       *)
(***************************************************************************)
EXTENDS Integers, FiniteSets, Functions

CONSTANTS
  Profiles,      \* profile keys; distribution follows their order
  Wallet,        \* the coordinator, as the submitter of a redemption
  Platform,      \* a settlement nobody here submitted
  Nobody,
  Unsampled,     \* collateral could not be read
  Openings,      \* positions the sleeves may start with
  OpeningCash,   \* cash of each sleeve at the start
  LateTrading,   \* TRUE: orders still match after the resolution
  MaxTrades,     \* bound: orders
  MaxDeposits,   \* bound: unrelated dollars that reach the wallet
  MaxCrashes     \* bound: processes lost in the middle of a cycle

Outcomes == {"primary", "secondary"}
Submitters == Profiles \cup {Wallet}
Payers == Submitters \cup {Platform}
Quantities == [Outcomes -> Nat]

ASSUME RedemptionAssumption ==
  /\ IsFiniteSet(Profiles) /\ Profiles \subseteq Nat
  /\ Wallet \notin Profiles
  /\ Platform \notin Submitters
  /\ Nobody \notin Profiles
  /\ Unsampled \notin Nat
  /\ Openings \subseteq [Profiles -> Quantities]
  /\ OpeningCash \in Nat
  /\ LateTrading \in BOOLEAN
  /\ MaxTrades \in Nat /\ MaxDeposits \in Nat /\ MaxCrashes \in Nat

Nothing == [o \in Outcomes |-> 0]

\* Transitions of the coordinator's receipt that the code accepts.
Transitions ==
  [READY |-> {"SUBMIT_STARTED", "LOSS_DISTRIBUTING", "PLATFORM_DISTRIBUTING"},
   NOT_SUBMITTED_RETRYABLE |-> {"SUBMIT_STARTED"},
   SUBMIT_STARTED |->
     {"SUBMITTED_UNRECONCILED", "UNKNOWN_SUBMISSION", "NOT_SUBMITTED_RETRYABLE"},
   SUBMITTED_UNRECONCILED |-> {"PENDING", "UNKNOWN_SUBMISSION", "DISTRIBUTING", "ERROR"},
   PENDING |-> {"PENDING", "UNKNOWN_SUBMISSION", "DISTRIBUTING", "ERROR"},
   UNKNOWN_SUBMISSION |->
     {"UNKNOWN_SUBMISSION", "PENDING", "DISTRIBUTING", "PLATFORM_DISTRIBUTING", "ERROR"},
   DISTRIBUTING |-> {"REDEEMED"},
   PLATFORM_DISTRIBUTING |-> {"REDEEMED_PLATFORM_SETTLEMENT_VERIFIED"},
   LOSS_DISTRIBUTING |-> {"LOSS_RESOLVED_NO_PAYOUT"},
   REDEEMED |-> {},
   REDEEMED_PLATFORM_SETTLEMENT_VERIFIED |-> {},
   LOSS_RESOLVED_NO_PAYOUT |-> {},
   ERROR |-> {}]

Distributing == {"DISTRIBUTING", "PLATFORM_DISTRIBUTING", "LOSS_DISTRIBUTING"}
Distributed == {"REDEEMED", "REDEEMED_PLATFORM_SETTLEMENT_VERIFIED", "LOSS_RESOLVED_NO_PAYOUT"}

\* Where a distribution ends: the coordinator's receipt, and each ledger's.
EndOf ==
  [DISTRIBUTING |-> "REDEEMED",
   PLATFORM_DISTRIBUTING |-> "REDEEMED_PLATFORM_SETTLEMENT_VERIFIED",
   LOSS_DISTRIBUTING |-> "LOSS_RESOLVED_NO_PAYOUT"]
SleeveEnd ==
  [DISTRIBUTING |-> "REDEEMED_SHARED_WALLET",
   PLATFORM_DISTRIBUTING |-> "REDEEMED_SHARED_PLATFORM_SETTLEMENT",
   LOSS_DISTRIBUTING |-> "LOSS_RESOLVED_SHARED_WALLET"]
SharedEnds ==
  {"REDEEMED_SHARED_WALLET", "REDEEMED_SHARED_PLATFORM_SETTLEMENT",
   "LOSS_RESOLVED_SHARED_WALLET"}

\* A sleeve's own receipt: nothing can have been submitted; a submission may
\* exist; settled; refused for good.
Handoff ==
  {"NOT_SUBMITTED_RETRYABLE", "BLOCK_PRE_SUBMISSION_REVALIDATION",
   "BLOCK_AMBIGUOUS_ONCHAIN_INVENTORY"}
Underway ==
  {"SUBMIT_STARTED", "SUBMITTED_UNRECONCILED", "PENDING", "UNKNOWN_SUBMISSION"}
Settled ==
  {"REDEEMED", "REDEEMED_PLATFORM_SETTLEMENT_VERIFIED",
   "REDEEMED_OFFICIAL_ACTIVITY_VERIFIED", "LOSS_RESOLVED_NO_PAYOUT"}
OfficialBlock == "BLOCK_OFFICIAL_REDEEM_ONCHAIN_COLLATERAL_PAYOUT_MISMATCH"
LocalStates == {"none", OfficialBlock, "ERROR"} \cup Handoff \cup Underway \cup Settled
                 \cup SharedEnds

\* Mutant of AnswerState: a lost answer counts as not submitted.
AnswerStateHopeful ==
  [id |-> "SUBMITTED_UNRECONCILED", refused |-> "NOT_SUBMITTED_RETRYABLE",
   lost |-> "NOT_SUBMITTED_RETRYABLE"]

\* What the answer to a submission says, and the receipt it leaves: a
\* transaction id, a proof that nothing was sent, or neither.
AnswerState ==
  [id |-> "SUBMITTED_UNRECONCILED", refused |-> "NOT_SUBMITTED_RETRYABLE",
   lost |-> "UNKNOWN_SUBMISSION"]
Answers == {"id", "refused", "lost"}

NoOrder == [side |-> "none", token |-> "none", matched |-> FALSE]
NoLocal == [state |-> "none", tx |-> FALSE, expected |-> 0]
NoShared ==
  [state |-> "none", winner |-> "none", alloc |-> [p \in Profiles |-> Nothing], tx |-> FALSE]
Idle == [by |-> Nobody, pc |-> "idle", seen |-> Unsampled, answer |-> "none", target |-> Nobody]

VARIABLES
  winner,      \* the official resolution, "none" until there is one
  chain,       \* outcome tokens of the wallet
  collateral,  \* authenticated collateral of the wallet
  inflight,    \* payouts made that the collateral does not show yet
  job,         \* what became of the redemption of each payer
  payout,      \* what it transferred to the wallet
  accepted,    \* history: submissions of each submitter the relayer took
  pos,         \* ledgers: quantity of each outcome
  order,       \* ledgers: the active reservation
  cash,        \* ledgers: cash
  held,        \* ledgers: credited payout still in quarantine
  local,       \* ledgers: the redemption receipt
  booked,      \* history: payout credited to each ledger
  shared,      \* coordinator: the receipt and its frozen allocations
  applied,     \* coordinator: allocations marked as applied
  cycle,       \* the cycle in progress, holding the wallet lock
  trades, deposits, crashes

world == <<winner, chain, collateral, inflight, job, payout, accepted>>
ledgers == <<pos, order, cash, held, local, booked>>
receipt == <<shared, applied>>
counters == <<trades, deposits, crashes>>
vars == <<world, ledgers, receipt, cycle, counters>>

-----------------------------------------------------------------------------
(* Reading the ledgers and the wallet *)

Resolved == winner # "none"
Holds(p) == pos[p] # Nothing
Gone == chain = Nothing
WinnerQuantity(p) == pos[p][winner]

\* What the ledgers together say the wallet owns, against what it owns.
Attributed == [o \in Outcomes |-> SumFunction([p \in Profiles |-> pos[p][o]])]
SharedExact == Attributed = chain
LocalExact(p) == pos[p] = chain

\* A sleeve is exposed by inventory, by an active BUY or by any receipt.
Exposed(p) == Holds(p) \/ order[p].side = "BUY" \/ local[p].state # "none"
SharedCondition == \E p, q \in Profiles : p # q /\ Exposed(p) /\ Exposed(q)
Managed == shared.state # "none" \/ SharedCondition

ActiveOrder == \E p \in Profiles : order[p] # NoOrder
ActiveBuy == \E p \in Profiles : order[p].side = "BUY"
\* Mutant of ActiveLocal: an uncertain submission without an id is not counted.
ActiveLocalKnown == \E p \in Profiles : local[p].tx

ActiveLocal == \E p \in Profiles :
                 local[p].tx \/ local[p].state \notin Handoff \cup {"none"}

\* Mutant of Freezable: orders still at work do not count.
FreezableWithOrders ==
  /\ \E p, q \in Profiles : p # q /\ Holds(p) /\ Holds(q)
  /\ ~ActiveLocal

\* The inventory can be attributed, and may be handed to the coordinator.
Freezable ==
  /\ \E p, q \in Profiles : p # q /\ Holds(p) /\ Holds(q)
  /\ ~ActiveOrder
  /\ ~ActiveLocal
InventoryUnchanged == pos = shared.alloc /\ ~ActiveOrder

Owners == {p \in Profiles : shared.alloc[p] # Nothing}
Share(p) == shared.alloc[p][shared.winner]
SharedPayout == SumFunction([p \in Profiles |-> Share(p)])

\* Cash the ledgers expect in the wallet: a quarantined payout counts once
\* the collateral covers it.  A settlement nobody submitted is proved by the
\* exact excess of the sample over it.
AccountingCash == SumFunction(cash)
ExpectedCash(seen) ==
  IF seen < AccountingCash THEN AccountingCash - SumFunction(held) ELSE AccountingCash
CashProves(amount) ==
  /\ cycle.seen # Unsampled
  /\ amount > 0
  /\ cycle.seen - ExpectedCash(cycle.seen) = amount

\* Official activity rows of the wallet, one per payout with a transaction.
Activities == {s \in Payers : job[s] = "confirmed" /\ payout[s] > 0}

\* Quarantines left after a sample: all of them fall once it covers the cash.
HeldAfter(quarantines, total, seen) ==
  IF seen >= total THEN [p \in Profiles |-> 0] ELSE quarantines

-----------------------------------------------------------------------------
(* The market, the chain, the relayer and the platform *)

TradingOpen == ~Resolved \/ LateTrading
LockFree == cycle = Idle

OpenOrder(p) == \E side \in {"BUY", "SELL"}, o \in Outcomes :
  /\ LockFree
  /\ TradingOpen
  /\ trades < MaxTrades
  /\ order[p] = NoOrder
  /\ IF side = "BUY" THEN cash[p] > 0 ELSE pos[p][o] > 0
  /\ order' = [order EXCEPT ![p] = [side |-> side, token |-> o, matched |-> FALSE]]
  /\ trades' = trades + 1
  /\ UNCHANGED <<world, pos, cash, held, local, booked, receipt, cycle, deposits, crashes>>

MatchOrder(p) ==
  /\ TradingOpen
  /\ order[p] # NoOrder /\ ~order[p].matched
  /\ \/ /\ order[p].side = "BUY" /\ collateral > 0
        /\ chain' = [chain EXCEPT ![order[p].token] = @ + 1]
        /\ collateral' = collateral - 1
     \/ /\ order[p].side = "SELL" /\ chain[order[p].token] > 0
        /\ chain' = [chain EXCEPT ![order[p].token] = @ - 1]
        /\ collateral' = collateral + 1
  /\ order' = [order EXCEPT ![p].matched = TRUE]
  /\ UNCHANGED <<winner, inflight, job, payout, accepted, pos, cash, held, local, booked,
                 receipt, cycle, counters>>

\* Reconciliation of the order: its fill goes to the ledger, or the
\* reservation is released; the collateral is sampled again if it can be.
CloseOrder(p) ==
  /\ LockFree
  /\ order[p] # NoOrder
  /\ \/ /\ ~order[p].matched
        /\ UNCHANGED <<pos, cash, held>>
     \/ /\ order[p].matched /\ order[p].side = "BUY"
        /\ pos' = [pos EXCEPT ![p][order[p].token] = @ + 1]
        /\ cash' = [cash EXCEPT ![p] = @ - 1]
        /\ held' \in {held, HeldAfter(held, AccountingCash - 1, collateral)}
     \/ /\ order[p].matched /\ order[p].side = "SELL"
        /\ pos[p][order[p].token] > 0
        /\ pos' = [pos EXCEPT ![p][order[p].token] = @ - 1]
        /\ cash' = [cash EXCEPT ![p] = @ + 1]
        /\ held' \in {held, HeldAfter(held, AccountingCash + 1, collateral)}
  /\ order' = [order EXCEPT ![p] = NoOrder]
  /\ UNCHANGED <<world, local, booked, receipt, cycle, counters>>

Resolve == \E o \in Outcomes :
  /\ ~Resolved
  /\ winner' = o
  /\ UNCHANGED <<chain, collateral, inflight, job, payout, accepted, ledgers, receipt,
                 cycle, counters>>

\* Redeeming burns both outcome balances and pays the winning one.
PayOut(s, state) ==
  /\ Resolved
  /\ job' = [job EXCEPT ![s] = state]
  /\ payout' = [payout EXCEPT ![s] = chain[winner]]
  /\ inflight' = inflight + chain[winner]
  /\ chain' = Nothing
  /\ UNCHANGED <<winner, collateral, accepted, ledgers, receipt, cycle, counters>>

ConfirmRedemption(s) == job[s] = "queued" /\ PayOut(s, "confirmed")

FailRedemption(s) ==
  /\ job[s] = "queued"
  /\ job' = [job EXCEPT ![s] = "failed"]
  /\ UNCHANGED <<winner, chain, collateral, inflight, payout, accepted, ledgers, receipt,
                 cycle, counters>>

\* The platform settles the wallet by itself, with an activity row or without.
SettlePlatform == \E state \in {"confirmed", "unlisted"} :
  /\ job[Platform] = "none"
  /\ ~Gone
  /\ PayOut(Platform, state)

CreditCollateral ==
  /\ inflight > 0
  /\ collateral' = collateral + inflight
  /\ inflight' = 0
  /\ UNCHANGED <<winner, chain, job, payout, accepted, ledgers, receipt, cycle, counters>>

Deposit ==
  /\ deposits < MaxDeposits
  /\ collateral' = collateral + 1
  /\ deposits' = deposits + 1
  /\ UNCHANGED <<winner, chain, inflight, job, payout, accepted, ledgers, receipt, cycle,
                 trades, crashes>>

-----------------------------------------------------------------------------
(* A redemption cycle: sampling, and freezing a shared condition *)

me == cycle.by
At(pc) == cycle.pc = pc
Go(pc) == cycle' = [cycle EXCEPT !.pc = pc]
MarkShared(state) == shared' = [shared EXCEPT !.state = state]

\* An exception no one catches ends the cycle, and the lock with it.
Abort == cycle' = Idle /\ UNCHANGED <<world, ledgers, receipt, counters>>

BeginCycle(p) == \E seen \in {collateral, Unsampled} :
  /\ LockFree
  /\ cycle' = [by |-> p, pc |-> "freeze", seen |-> seen, answer |-> "none", target |-> Nobody]
  /\ held' = IF seen = Unsampled THEN held ELSE HeldAfter(held, AccountingCash, seen)
  /\ UNCHANGED <<world, pos, order, cash, local, booked, receipt, counters>>

Crash ==
  /\ ~LockFree
  /\ crashes < MaxCrashes
  /\ cycle' = Idle
  /\ crashes' = crashes + 1
  /\ UNCHANGED <<world, ledgers, receipt, trades, deposits>>

\* Nothing to freeze, or its evidence could not be read.
SkipFreeze ==
  /\ At("freeze")
  /\ Go("receipt")
  /\ UNCHANGED <<world, ledgers, receipt, counters>>

\* The receipt and every sleeve's allocation, written in one transaction.
Freeze ==
  /\ shared.state = "none"
  /\ SharedCondition /\ Freezable
  /\ Resolved
  /\ shared' = [state |-> "READY", winner |-> winner, alloc |-> pos, tx |-> FALSE]
  /\ UNCHANGED <<world, ledgers, applied, counters>>

\* The wallet holds exactly what the ledgers say; a losing condition needs
\* no redemption.
FreezeExact ==
  /\ At("freeze")
  /\ SharedExact
  /\ Freeze
  /\ Go(IF Attributed[winner] = 0 THEN "loss" ELSE "receipt")

\* Mutant of MarkLoss: the ledgers' name of the state is written.
MarkLossAsSleeve ==
  /\ At("loss")
  /\ MarkShared("LOSS_RESOLVED_SHARED_WALLET")
  /\ Go("apply")
  /\ UNCHANGED <<world, ledgers, applied, counters>>

MarkLoss ==
  /\ At("loss")
  /\ MarkShared("LOSS_DISTRIBUTING")
  /\ Go("apply")
  /\ UNCHANGED <<world, ledgers, applied, counters>>

\* The tokens are gone, and the collateral grew by exactly their payout.
FreezePlatform ==
  /\ At("freeze")
  /\ ~SharedExact
  /\ Gone
  /\ Freeze
  /\ CashProves(Attributed[winner])
  /\ Go("credited")

MarkPlatform ==
  /\ At("credited")
  /\ MarkShared("PLATFORM_DISTRIBUTING")
  /\ Go("apply")
  /\ UNCHANGED <<world, ledgers, applied, counters>>

-----------------------------------------------------------------------------
(* The coordinator's receipt: submission and its outcome *)

\* Nothing to do here, or nothing that can be verified now.  A receipt in
\* distribution, or one whose submission just started, never comes here.
PassReceipt ==
  /\ At("receipt")
  /\ shared.state \notin Distributing \cup {"SUBMIT_STARTED"}
  /\ Go("official")
  /\ UNCHANGED <<world, ledgers, receipt, counters>>

ResumeDistribution ==
  /\ At("receipt")
  /\ shared.state \in Distributing
  /\ Go("apply")
  /\ UNCHANGED <<world, ledgers, receipt, counters>>

\* A crash left no record of the submission: it is never repeated.
LoseSubmission ==
  /\ At("receipt")
  /\ shared.state = "SUBMIT_STARTED"
  /\ MarkShared("UNKNOWN_SUBMISSION")
  /\ Go("official")
  /\ UNCHANGED <<world, ledgers, applied, counters>>

\* Mutant of ProveUnknown: the cash alone proves the payout.
ProveUnknownByCash ==
  /\ At("receipt")
  /\ shared.state = "UNKNOWN_SUBMISSION" /\ ~shared.tx
  /\ CashProves(SharedPayout)
  /\ MarkShared("PLATFORM_DISTRIBUTING")
  /\ Go("apply quietly")
  /\ UNCHANGED <<world, ledgers, applied, counters>>

\* Mutant of ProveUnknown: a refused submission is resolved the same way.
ProveRefused ==
  /\ At("receipt")
  /\ shared.state \in {"UNKNOWN_SUBMISSION", "NOT_SUBMITTED_RETRYABLE"} /\ ~shared.tx
  /\ Gone
  /\ CashProves(SharedPayout)
  /\ MarkShared("PLATFORM_DISTRIBUTING")
  /\ Go("apply quietly")
  /\ UNCHANGED <<world, ledgers, applied, counters>>

\* Without a transaction id, only the cash can prove what became of it.  An
\* exception of the distribution that follows is swallowed.
ProveUnknown ==
  /\ At("receipt")
  /\ shared.state = "UNKNOWN_SUBMISSION" /\ ~shared.tx
  /\ winner = shared.winner
  /\ Gone
  /\ CashProves(SharedPayout)
  /\ MarkShared("PLATFORM_DISTRIBUTING")
  /\ Go("apply quietly")
  /\ UNCHANGED <<world, ledgers, applied, counters>>

AwaitsRelayer ==
  /\ At("receipt")
  /\ shared.state \in {"SUBMITTED_UNRECONCILED", "PENDING", "UNKNOWN_SUBMISSION"}
  /\ shared.tx

\* Confirmed, with tokens still there: nothing is allocated.
RejectConfirmation ==
  /\ AwaitsRelayer
  /\ job[Wallet] = "confirmed"
  /\ ~Gone
  /\ MarkShared("ERROR")
  /\ Go("official")
  /\ UNCHANGED <<world, ledgers, applied, counters>>

\* Confirmed, and the transfer of the transaction is the frozen payout.
AcceptConfirmation ==
  /\ AwaitsRelayer
  /\ job[Wallet] = "confirmed"
  /\ Gone
  /\ payout[Wallet] = SharedPayout
  /\ MarkShared("DISTRIBUTING")
  /\ Go("apply")
  /\ UNCHANGED <<world, ledgers, applied, counters>>

\* Confirmed, but the transfer is unreadable or another amount.
AwaitProof ==
  /\ AwaitsRelayer
  /\ job[Wallet] = "confirmed"
  /\ Gone
  /\ MarkShared("PENDING")
  /\ Go("official")
  /\ UNCHANGED <<world, ledgers, applied, counters>>

\* The evidence of a confirmation is read outside any handler.
FailEvidence ==
  /\ AwaitsRelayer
  /\ job[Wallet] = "confirmed"
  /\ Abort

RejectRedemption ==
  /\ AwaitsRelayer
  /\ job[Wallet] = "failed"
  /\ MarkShared("ERROR")
  /\ Go("official")
  /\ UNCHANGED <<world, ledgers, applied, counters>>

AwaitRelayer ==
  /\ AwaitsRelayer
  /\ job[Wallet] = "queued"
  /\ MarkShared("PENDING")
  /\ Go("official")
  /\ UNCHANGED <<world, ledgers, applied, counters>>

\* The frozen inventory still is what the ledgers and the wallet hold.
StartSubmission ==
  /\ At("receipt")
  /\ shared.state \in {"READY", "NOT_SUBMITTED_RETRYABLE"}
  /\ InventoryUnchanged
  /\ winner = shared.winner
  /\ SharedExact
  /\ MarkShared("SUBMIT_STARTED")
  /\ Go("revalidate")
  /\ UNCHANGED <<world, ledgers, applied, counters>>

\* The evidence is read once more between the durable start and the call.
Revalidate ==
  /\ At("revalidate")
  /\ InventoryUnchanged
  /\ SharedExact
  /\ Go("submit")
  /\ UNCHANGED <<world, ledgers, receipt, counters>>

FailRevalidation ==
  /\ At("revalidate")
  /\ MarkShared("NOT_SUBMITTED_RETRYABLE")
  /\ Go("official")
  /\ UNCHANGED <<world, ledgers, applied, counters>>

\* The relayer takes the redemption or not; a lost answer says neither.
Post(s) == \E answer \in Answers :
  /\ \/ /\ answer # "refused"
        /\ job' = [job EXCEPT ![s] = "queued"]
        /\ accepted' = [accepted EXCEPT ![s] = @ + 1]
     \/ /\ answer # "id"
        /\ UNCHANGED <<job, accepted>>
  /\ cycle' = [cycle EXCEPT !.pc = IF s = Wallet THEN "record" ELSE "record own",
                            !.answer = answer]
  /\ UNCHANGED <<winner, chain, collateral, inflight, payout, ledgers, receipt, counters>>

Submit == At("submit") /\ Post(Wallet)

RecordAnswer ==
  /\ At("record")
  /\ shared' = [shared EXCEPT !.state = AnswerState[cycle.answer],
                              !.tx = (cycle.answer = "id")]
  /\ cycle' = [cycle EXCEPT !.pc = "official", !.answer = "none"]
  /\ UNCHANGED <<world, ledgers, applied, counters>>

-----------------------------------------------------------------------------
(* Distribution: each sleeve's ledger, then the coordinator's mark *)

Applying == At("apply") \/ At("apply quietly")
NextOwner(q) ==
  /\ q \in Owners \ applied
  /\ \A r \in Owners \ applied : q <= r

\* Mutant of SleeveBooked: a ledger does not recognise what it booked.
SleeveUnaware(q) == FALSE

SleeveBooked(q) == local[q].state = SleeveEnd[shared.state]

\* The checks of a ledger that has not booked its allocation yet.
SleeveReady(q) ==
  /\ ~local[q].tx
  /\ local[q].state \in Handoff \cup {"none"}
  /\ pos[q] = shared.alloc[q]
  /\ order[q] = NoOrder
  /\ (Share(q) > 0) = (shared.state # "LOSS_DISTRIBUTING")

CanApply(q) == IF SleeveBooked(q) THEN ~Holds(q) ELSE SleeveReady(q)

\* Mutant of BookAllocation: an allocation is booked whatever the ledger holds.
BookAgain(q) ==
  /\ Applying
  /\ NextOwner(q)
  /\ pos' = [pos EXCEPT ![q] = Nothing]
  /\ cash' = [cash EXCEPT ![q] = @ + Share(q)]
  /\ booked' = [booked EXCEPT ![q] = @ + Share(q)]
  /\ local' = [local EXCEPT ![q] = [state |-> SleeveEnd[shared.state], tx |-> FALSE,
                                    expected |-> Share(q)]]
  /\ cycle' = [cycle EXCEPT !.pc = IF At("apply") THEN "mark" ELSE "mark quietly",
                            !.target = q]
  /\ UNCHANGED <<world, order, held, receipt, counters>>

BookAllocation(q) ==
  /\ Applying
  /\ NextOwner(q)
  /\ ~SleeveBooked(q)
  /\ SleeveReady(q)
  /\ pos' = [pos EXCEPT ![q] = Nothing]
  /\ cash' = [cash EXCEPT ![q] = @ + Share(q)]
  /\ booked' = [booked EXCEPT ![q] = @ + Share(q)]
  /\ local' = [local EXCEPT ![q] = [state |-> SleeveEnd[shared.state], tx |-> FALSE,
                                    expected |-> Share(q)]]
  /\ cycle' = [cycle EXCEPT !.pc = IF At("apply") THEN "mark" ELSE "mark quietly",
                            !.target = q]
  /\ UNCHANGED <<world, order, held, receipt, counters>>

\* Booked before a crash and never marked: the ledger is left as it is.
SkipBooked(q) ==
  /\ Applying
  /\ NextOwner(q)
  /\ SleeveBooked(q) /\ ~Holds(q)
  /\ cycle' = [cycle EXCEPT !.pc = IF At("apply") THEN "mark" ELSE "mark quietly",
                            !.target = q]
  /\ UNCHANGED <<world, ledgers, receipt, counters>>

MarkApplied ==
  /\ At("mark") \/ At("mark quietly")
  /\ applied' = applied \cup {cycle.target}
  /\ cycle' = [cycle EXCEPT !.pc = IF At("mark") THEN "apply" ELSE "apply quietly",
                            !.target = Nobody]
  /\ UNCHANGED <<world, ledgers, shared, counters>>

\* A ledger refuses its allocation: the cycle ends, for whoever runs it.
FailDistribution(q) ==
  /\ Applying
  /\ NextOwner(q)
  /\ ~CanApply(q)
  /\ cycle' = IF At("apply") THEN Idle ELSE [cycle EXCEPT !.pc = "official"]
  /\ UNCHANGED <<world, ledgers, receipt, counters>>

\* Mutant of CompleteDistribution: pending allocations are not counted.
CompleteEarly ==
  /\ Applying
  /\ MarkShared(EndOf[shared.state])
  /\ Go("official")
  /\ UNCHANGED <<world, ledgers, applied, counters>>

CompleteDistribution ==
  /\ Applying
  /\ Owners \subseteq applied
  /\ MarkShared(EndOf[shared.state])
  /\ Go("official")
  /\ UNCHANGED <<world, ledgers, applied, counters>>

-----------------------------------------------------------------------------
(* The sleeve's own receipt, for a condition no other sleeve shares *)

\* A ledger books a payout: the position goes, the cash comes, in quarantine
\* when the payout was not already seen in the collateral.
SettleLocal(state, amount, quarantined) ==
  /\ pos' = [pos EXCEPT ![me] = Nothing]
  /\ cash' = [cash EXCEPT ![me] = @ + amount]
  /\ held' = [held EXCEPT ![me] = @ + IF quarantined THEN amount ELSE 0]
  /\ booked' = [booked EXCEPT ![me] = @ + amount]
  /\ local' = [local EXCEPT ![me].state = state, ![me].expected = amount]
  /\ UNCHANGED <<world, order, receipt, counters>>

MarkLocal(state, pc) ==
  /\ local' = [local EXCEPT ![me].state = state]
  /\ Go(pc)
  /\ UNCHANGED <<world, pos, order, cash, held, booked, receipt, counters>>

Pass(from, to) ==
  /\ At(from)
  /\ Go(to)
  /\ UNCHANGED <<world, ledgers, receipt, counters>>

\* Exactly one official activity pays what the sleeve holds of the winner.
OfficialMatch(s) ==
  /\ Resolved /\ Holds(me) /\ Gone
  /\ s \in Activities
  /\ payout[s] = WinnerQuantity(me)
  /\ \A t \in Activities : payout[t] = payout[s] => t = s

SettleOfficial == \E s \in Payers :
  /\ At("official")
  /\ ~Managed
  /\ local[me].state \in {"none"} \cup Handoff \cup Underway
  /\ OfficialMatch(s)
  /\ order[me] = NoOrder
  /\ local[me].expected \in {0, payout[s]}
  /\ SettleLocal("REDEEMED_OFFICIAL_ACTIVITY_VERIFIED", payout[s], TRUE)
  /\ Go("refresh")

\* The transfer of the transaction is not what the activity says.
BlockOfficial == \E s \in Payers :
  /\ At("official")
  /\ ~Managed
  /\ local[me].state \notin Settled \cup SharedEnds \cup {OfficialBlock}
  /\ OfficialMatch(s)
  /\ MarkLocal(OfficialBlock, "reconcile")

\* No match, an unreadable one, or a settlement the ledger refuses.
PassOfficial == Pass("official", "reconcile")

Reconciled ==
  /\ At("reconcile")
  /\ local[me].state \in Underway
  /\ local[me].tx

LoseLocalSubmission ==
  /\ At("reconcile")
  /\ local[me].state \in Underway \ {"UNKNOWN_SUBMISSION"}
  /\ ~local[me].tx
  /\ MarkLocal("UNKNOWN_SUBMISSION", "platform")

\* Confirmed, while another sleeve shares the condition: whose payout it is
\* cannot be told here.
QuarantineOverlap ==
  /\ Reconciled
  /\ job[me] = "confirmed"
  /\ Managed
  /\ MarkLocal("ERROR", "platform")

\* Confirmed and proved: the official payout is booked, and may be zero.
SettleConfirmed ==
  /\ Reconciled
  /\ job[me] = "confirmed"
  /\ ~Managed
  /\ Holds(me) /\ Resolved /\ Gone
  /\ SettleLocal(IF payout[me] > 0 THEN "REDEEMED" ELSE "LOSS_RESOLVED_NO_PAYOUT",
                 payout[me], TRUE)
  /\ Go(IF payout[me] > 0 THEN "refresh" ELSE "platform")

RejectLocalConfirmation ==
  /\ Reconciled
  /\ job[me] = "confirmed"
  /\ ~Managed
  /\ ~Holds(me) \/ ~Gone
  /\ MarkLocal("ERROR", "platform")

AwaitLocalProof ==
  /\ Reconciled
  /\ job[me] = "confirmed"
  /\ ~Managed
  /\ MarkLocal("PENDING", "platform")

RejectLocalRedemption ==
  /\ Reconciled
  /\ job[me] = "failed"
  /\ MarkLocal("ERROR", "platform")

AwaitLocalRelayer ==
  /\ Reconciled
  /\ job[me] = "queued"
  /\ MarkLocal("PENDING", "platform")

\* No receipt awaits the relayer, or its status could not be read.
PassReconcile ==
  /\ Pass("reconcile", "platform")
  /\ local[me].state \in Underway \ {"UNKNOWN_SUBMISSION"} => local[me].tx

\* Cash was booked: the collateral is sampled again, or the cycle fails.
Refresh ==
  /\ At("refresh")
  /\ held' = HeldAfter(held, AccountingCash, collateral)
  /\ Go("platform")
  /\ UNCHANGED <<world, pos, order, cash, local, booked, receipt, counters>>

FailRefresh == At("refresh") /\ Abort

\* The sleeve's winners are gone and the sample taken at the start of the
\* cycle shows exactly their payout.
PlatformWinner ==
  /\ At("platform")
  /\ ~Managed
  /\ local[me].state \in {"none", "UNKNOWN_SUBMISSION"} \cup Handoff
  /\ ~local[me].tx
  /\ Resolved /\ Holds(me) /\ Gone
  /\ ~ActiveBuy
  /\ CashProves(WinnerQuantity(me))

PlatformBookable ==
  /\ order[me] = NoOrder
  /\ local[me].expected \in {0, WinnerQuantity(me)}

SettlePlatformWinner ==
  /\ PlatformWinner
  /\ PlatformBookable
  /\ SettleLocal("REDEEMED_PLATFORM_SETTLEMENT_VERIFIED", WinnerQuantity(me), FALSE)
  /\ Go("redeem")

FailPlatformWinner == PlatformWinner /\ ~PlatformBookable /\ Abort

PassPlatform == Pass("platform", "redeem")

\* What the sleeve may redeem by itself.
Redeemable ==
  /\ At("redeem")
  /\ ~Managed
  /\ Resolved /\ Holds(me)
  /\ local[me].state \in {"none", "NOT_SUBMITTED_RETRYABLE"}

EndCycle ==
  /\ At("redeem")
  /\ cycle' = Idle
  /\ UNCHANGED <<world, ledgers, receipt, counters>>

\* The wallet holds something this ledger does not explain.
BlockAmbiguous ==
  /\ Redeemable
  /\ ~LocalExact(me)
  /\ local[me].state = "none"
  /\ local' = [local EXCEPT ![me].state = "BLOCK_AMBIGUOUS_ONCHAIN_INVENTORY"]
  /\ cycle' = Idle
  /\ UNCHANGED <<world, pos, order, cash, held, booked, receipt, counters>>

SettleLosing ==
  /\ Redeemable
  /\ LocalExact(me)
  /\ WinnerQuantity(me) = 0
  /\ local[me].state = "none"
  /\ SettleLocal("LOSS_RESOLVED_NO_PAYOUT", 0, FALSE)
  /\ cycle' = Idle

StartLocal ==
  /\ Redeemable
  /\ LocalExact(me)
  /\ WinnerQuantity(me) > 0
  /\ local[me].state = "none" \/ local[me].expected = WinnerQuantity(me)
  /\ local' = [local EXCEPT ![me].state = "SUBMIT_STARTED",
                            ![me].expected = WinnerQuantity(me)]
  /\ Go("revalidate own")
  /\ UNCHANGED <<world, pos, order, cash, held, booked, receipt, counters>>

\* A retry whose payout changed raises.
FailStart ==
  /\ Redeemable
  /\ LocalExact(me)
  /\ WinnerQuantity(me) > 0
  /\ local[me].state # "none" /\ local[me].expected # WinnerQuantity(me)
  /\ Abort

RevalidateLocal ==
  /\ Pass("revalidate own", "submit own")
  /\ LocalExact(me)

FailLocalRevalidation ==
  /\ At("revalidate own")
  /\ local' = [local EXCEPT ![me].state = "BLOCK_PRE_SUBMISSION_REVALIDATION"]
  /\ cycle' = Idle
  /\ UNCHANGED <<world, pos, order, cash, held, booked, receipt, counters>>

SubmitLocal == At("submit own") /\ Post(me)

RecordLocalAnswer ==
  /\ At("record own")
  /\ local' = [local EXCEPT ![me].state = AnswerState[cycle.answer],
                            ![me].tx = (cycle.answer = "id")]
  /\ cycle' = Idle
  /\ UNCHANGED <<world, pos, order, cash, held, booked, receipt, counters>>

-----------------------------------------------------------------------------

FreezeSteps == SkipFreeze \/ FreezeExact \/ MarkLoss \/ FreezePlatform \/ MarkPlatform

ReceiptSteps ==
  \/ PassReceipt \/ ResumeDistribution \/ LoseSubmission \/ ProveUnknown
  \/ RejectConfirmation \/ AcceptConfirmation \/ AwaitProof \/ FailEvidence
  \/ RejectRedemption \/ AwaitRelayer
  \/ StartSubmission \/ Revalidate \/ FailRevalidation \/ Submit \/ RecordAnswer

DistributionSteps ==
  \/ \E q \in Profiles : BookAllocation(q) \/ SkipBooked(q) \/ FailDistribution(q)
  \/ MarkApplied \/ CompleteDistribution

LocalSteps ==
  \/ SettleOfficial \/ BlockOfficial \/ PassOfficial
  \/ LoseLocalSubmission \/ QuarantineOverlap \/ SettleConfirmed
  \/ RejectLocalConfirmation \/ AwaitLocalProof \/ RejectLocalRedemption
  \/ AwaitLocalRelayer \/ PassReconcile \/ Refresh \/ FailRefresh
  \/ SettlePlatformWinner \/ FailPlatformWinner \/ PassPlatform
  \/ EndCycle \/ BlockAmbiguous \/ SettleLosing \/ StartLocal \/ FailStart
  \/ RevalidateLocal \/ FailLocalRevalidation \/ SubmitLocal \/ RecordLocalAnswer

CycleSteps ==
  \/ \E p \in Profiles : BeginCycle(p)
  \/ FreezeSteps \/ ReceiptSteps \/ DistributionSteps \/ LocalSteps

Market == \E p \in Profiles : OpenOrder(p) \/ MatchOrder(p) \/ CloseOrder(p)

Outside ==
  \/ Resolve \/ SettlePlatform \/ CreditCollateral \/ Deposit
  \/ \E s \in Submitters : ConfirmRedemption(s) \/ FailRedemption(s)

Init ==
  /\ winner = "none"
  /\ pos \in Openings
  /\ chain = Attributed
  /\ collateral = SumFunction([p \in Profiles |-> OpeningCash])
  /\ inflight = 0
  /\ job = [s \in Payers |-> "none"]
  /\ payout = [s \in Payers |-> 0]
  /\ accepted = [s \in Submitters |-> 0]
  /\ order = [p \in Profiles |-> NoOrder]
  /\ cash = [p \in Profiles |-> OpeningCash]
  /\ held = [p \in Profiles |-> 0]
  /\ local = [p \in Profiles |-> NoLocal]
  /\ booked = [p \in Profiles |-> 0]
  /\ shared = NoShared
  /\ applied = {}
  /\ cycle = Idle
  /\ trades = 0 /\ deposits = 0 /\ crashes = 0

Next == CycleSteps \/ Crash \/ Market \/ Outside

Spec == Init /\ [][Next]_vars

\* The worker loops over its cycles, and a cycle keeps going.
FairSpec == Spec /\ WF_vars(CycleSteps)

-----------------------------------------------------------------------------
(* Properties *)

PCs == {"idle", "freeze", "loss", "credited", "platform", "receipt", "revalidate", "submit", "record",
        "apply", "apply quietly", "mark", "mark quietly", "official", "reconcile", "refresh",
        "redeem", "revalidate own", "submit own", "record own"}

\* Types of everything the ledgers, the coordinator and the cycle keep.
TypeOK ==
  /\ winner \in Outcomes \cup {"none"}
  /\ chain \in Quantities
  /\ collateral \in Nat /\ inflight \in Nat
  /\ job \in [Payers -> {"none", "queued", "confirmed", "failed", "unlisted"}]
  /\ payout \in [Payers -> Nat]
  /\ accepted \in [Submitters -> Nat]
  /\ pos \in [Profiles -> Quantities]
  /\ order \in [Profiles -> [side : {"none", "BUY", "SELL"}, token : Outcomes \cup {"none"},
                              matched : BOOLEAN]]
  /\ cash \in [Profiles -> Int]
  /\ held \in [Profiles -> Nat]
  /\ local \in [Profiles -> [state : LocalStates, tx : BOOLEAN, expected : Nat]]
  /\ booked \in [Profiles -> Nat]
  /\ shared \in [state : DOMAIN Transitions \cup {"none"}, winner : Outcomes \cup {"none"},
                  alloc : [Profiles -> Quantities], tx : BOOLEAN]
  /\ applied \subseteq Profiles
  /\ cycle \in [by : Profiles \cup {Nobody}, pc : PCs, seen : Nat \cup {Unsampled},
                 answer : Answers \cup {"none"}, target : Profiles \cup {Nobody}]
  /\ trades \in Nat /\ deposits \in Nat /\ crashes \in Nat

\* One condition is never redeemed twice: whichever sleeve's cycle runs,
\* whatever answer is lost and wherever a process dies, the relayer takes one
\* submission at most, of one sleeve or of the coordinator.
OneRedemption ==
  \A s, t \in Submitters :
    accepted[s] > 0 /\ accepted[t] > 0 => s = t /\ accepted[s] = 1

\* Once the coordinator froze a condition no sleeve redeems or settles it by
\* itself: a ledger's receipt can only have been handed over or carry the end
\* of the distribution.
NoLocalTakeover ==
  shared.state # "none" =>
    \A p \in Profiles :
      /\ local[p].state \in {"none"} \cup Handoff \cup SharedEnds
      /\ ~local[p].tx

\* The coordinator reports a distribution as finished only when the ledger of
\* every owner carries it, although the two databases are written apart.
FinishedIsBooked ==
  /\ shared.state \in Distributed =>
       \A p \in Owners : \E d \in Distributing :
         EndOf[d] = shared.state /\ local[p].state = SleeveEnd[d]
  /\ \A p \in applied : local[p].state \in SharedEnds

\* Until an owner's ledger books its allocation, it holds what was frozen.
FrozenIsHeld ==
  shared.state # "none" =>
    \A p \in Owners : pos[p] = shared.alloc[p] \/ local[p].state \in SharedEnds

\* What the ledgers call cash is in the wallet, on its way to it, or was paid
\* for a fill that is not reconciled yet.
CashIsBacked ==
  AccountingCash
    <= collateral + inflight
       + SumFunction([p \in Profiles |-> IF order[p].matched /\ order[p].side = "BUY"
                                          THEN 1 ELSE 0])

\* The receipt only ever takes a transition of the table, so recovery and
\* distribution never raise INVALID_SHARED_REDEMPTION_STATE_TRANSITION.
FollowsTable ==
  [][shared.state' # shared.state =>
       IF shared.state = "none" THEN shared.state' = "READY"
       ELSE shared.state' \in Transitions[shared.state]]_vars

\* The sleeves together never book more than the condition paid, each once.
Promise == INSTANCE PayoutOnce WITH paid <- SumFunction(payout), booked <- booked
PromiseKept == Promise!Spec

\* A distribution that has started reaches every ledger.
DistributionEnds == shared.state \in Distributing ~> shared.state \in Distributed
=============================================================================
