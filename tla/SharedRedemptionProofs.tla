----------------------- MODULE SharedRedemptionProofs -----------------------
(***************************************************************************)
(* Theorems about SharedRedemption, for any sleeves, positions, trades,    *)
(* deposits and crashes.                                                   *)
(***************************************************************************)
EXTENDS SharedRedemption, FiniteSums, TLAPS

\* Steps that distribute, and steps of a sleeve's own submission.
ApplySteps == {"apply", "apply quietly", "mark", "mark quietly"}
OwnSteps == {"revalidate own", "submit own", "record own"}
PlainSteps ==
  {"idle", "freeze", "receipt", "official", "reconcile", "refresh", "platform", "redeem"}

\* What the receipts are at each step of the cycle.
ReceiptAtStep ==
  /\ cycle.pc # "idle" => cycle.by \in Profiles
  /\ cycle.pc \in {"loss", "credited"} => shared.state = "READY"
  /\ cycle.pc \in {"revalidate", "submit", "record"} => shared.state = "SUBMIT_STARTED"
  /\ cycle.pc \in ApplySteps => shared.state \in Distributing
  /\ cycle.pc \in OwnSteps => shared.state = "none" /\ local[me].state = "SUBMIT_STARTED"
  /\ cycle.pc \in {"record", "record own"} => cycle.answer \in Answers

\* A submission the relayer may have taken shows in the receipt of its
\* submitter, which is never one that submits again.
SubmissionShows ==
  /\ \A p \in Profiles : accepted[p] > 0 =>
       local[p].state \notin {"none"} \cup Handoff \cup SharedEnds
  /\ accepted[Wallet] > 0 => shared.state \notin {"none", "READY", "NOT_SUBMITTED_RETRYABLE"}
  /\ cycle.pc \in {"revalidate", "submit"} => accepted[Wallet] = 0
  /\ cycle.pc = "record" /\ cycle.answer = "refused" => accepted[Wallet] = 0
  /\ cycle.pc \in {"revalidate own", "submit own"} => \A s \in Submitters : accepted[s] = 0
  /\ cycle.pc = "record own" /\ cycle.answer = "refused" => accepted[me] = 0

\* An allocation is marked after its ledger carries the end of the distribution.
MarkedIsBooked ==
  /\ applied # {} => shared.state \in Distributing \cup Distributed
  /\ \A p \in applied : local[p].state \in SharedEnds
  /\ shared.state \in Distributing =>
       \A p \in applied : local[p].state = SleeveEnd[shared.state]
  /\ cycle.pc \in {"mark", "mark quietly"} =>
       cycle.target \in Profiles /\ local[cycle.target].state = SleeveEnd[shared.state]

\* The inductive invariant.
Guarded ==
  /\ TypeOK
  /\ ReceiptAtStep
  /\ SubmissionShows
  /\ OneRedemption
  /\ NoLocalTakeover
  /\ MarkedIsBooked
  /\ FinishedIsBooked

-----------------------------------------------------------------------------
(* What a step does to the receipts, the submissions and the cycle *)

\* The cycle goes on, or ends, without a step that promises anything.
Onward == cycle'.pc \in PlainSteps /\ (cycle'.pc # "idle" => cycle'.by \in Profiles)

\* Receipts and submissions stay.
Quiet ==
  /\ UNCHANGED <<accepted, local, shared, applied>>
  /\ \/ cycle' = cycle
     \/ Onward
     \/ /\ shared.state \in Distributing /\ cycle.by \in Profiles
        /\ cycle' = [cycle EXCEPT !.pc = "apply"]
     \/ At("revalidate") /\ cycle' = [cycle EXCEPT !.pc = "submit"]
     \/ At("revalidate own") /\ cycle' = [cycle EXCEPT !.pc = "submit own"]
     \/ \E q \in Profiles, pc \in {"mark", "mark quietly"} :
          /\ Applying
          /\ SleeveBooked(q)
          /\ cycle' = [cycle EXCEPT !.pc = pc, !.target = q]

\* The coordinator takes the condition over.
Frozen ==
  /\ shared.state = "none"
  /\ ~ActiveLocal
  /\ shared' = [state |-> "READY", winner |-> winner, alloc |-> pos, tx |-> FALSE]
  /\ UNCHANGED <<accepted, local, applied>>
  /\ cycle.by \in Profiles
  /\ \E pc \in {"loss", "credited", "receipt"} : cycle' = [cycle EXCEPT !.pc = pc]

\* The coordinator's receipt moves.
Moved(state) ==
  /\ shared.state # "none"
  /\ state \in Transitions[shared.state]
  /\ shared'.state = state /\ shared'.alloc = shared.alloc
  /\ state = "NOT_SUBMITTED_RETRYABLE" =>
       At("revalidate") \/ (At("record") /\ cycle.answer = "refused")
  /\ state \in Distributed => Owners \subseteq applied /\ state = EndOf[shared.state]
  /\ UNCHANGED <<accepted, local, applied>>
  /\ \/ Onward
     \/ /\ state \in Distributing /\ cycle.by \in Profiles
        /\ \E pc \in {"apply", "apply quietly"} : cycle' = [cycle EXCEPT !.pc = pc]
     \/ /\ state = "SUBMIT_STARTED" /\ cycle.by \in Profiles
        /\ shared.state \in {"READY", "NOT_SUBMITTED_RETRYABLE"}
        /\ cycle' = [cycle EXCEPT !.pc = "revalidate"]

\* A ledger books its allocation.
Allocated(q) ==
  /\ Applying
  /\ local[q].state \in Handoff \cup {"none"}
  /\ local' = [local EXCEPT ![q] = [state |-> SleeveEnd[shared.state], tx |-> FALSE,
                                    expected |-> Share(q)]]
  /\ UNCHANGED <<accepted, shared, applied>>
  /\ \E pc \in {"mark", "mark quietly"} : cycle' = [cycle EXCEPT !.pc = pc, !.target = q]

\* A sleeve's own receipt moves, of a condition the coordinator does not know.
OwnMoved ==
  /\ shared.state = "none"
  /\ UNCHANGED <<accepted, shared, applied>>
  /\ \A p \in Profiles :
       \/ local'[p].state = local[p].state
       \/ local'[p].state \notin {"none"} \cup Handoff \cup SharedEnds
       \/ local'[p].state \notin SharedEnds /\ accepted[p] = 0
  /\ \/ Onward
     \/ /\ cycle.by \in Profiles
        /\ cycle' = [cycle EXCEPT !.pc = "revalidate own"]
        /\ local'[me].state = "SUBMIT_STARTED"
        /\ \A s \in Submitters : accepted[s] = 0

\* A redemption goes to the relayer.
Posted(s) == \E answer \in Answers :
  /\ \/ accepted' = accepted
     \/ answer # "refused" /\ accepted' = [accepted EXCEPT ![s] = @ + 1]
  /\ UNCHANGED <<local, shared, applied>>
  /\ \/ /\ s = Wallet /\ At("submit")
        /\ cycle' = [cycle EXCEPT !.pc = "record", !.answer = answer]
     \/ /\ s = me /\ At("submit own")
        /\ cycle' = [cycle EXCEPT !.pc = "record own", !.answer = answer]

Effects ==
  \/ Quiet
  \/ Frozen
  \/ \E state \in DOMAIN Transitions : Moved(state)
  \/ \E q \in Profiles : Allocated(q)
  \/ MarkApplied
  \/ OwnMoved
  \/ \E s \in Submitters : Posted(s)

LEMMA Positive == \A n \in Nat : n > 0 <=> n # 0
OBVIOUS

USE RedemptionAssumption
USE DEF Distributing, Distributed, SharedEnds, Handoff, Underway, Settled, OfficialBlock

LEMMA OutsideIsQuiet ==
  Market \/ Outside \/ Crash \/ (\E p \in Profiles : BeginCycle(p)) \/ UNCHANGED vars => Quiet
<1> USE DEF Quiet, world, ledgers, receipt, counters
<1>1. ASSUME NEW p \in Profiles, OpenOrder(p) \/ MatchOrder(p) \/ CloseOrder(p) PROVE Quiet
  BY <1>1 DEF OpenOrder, MatchOrder, CloseOrder
<1>2. ASSUME NEW s \in Submitters, ConfirmRedemption(s) \/ FailRedemption(s) PROVE Quiet
  BY <1>2 DEF ConfirmRedemption, FailRedemption, PayOut
<1>3. CASE Resolve \/ SettlePlatform \/ CreditCollateral \/ Deposit
  BY <1>3 DEF Resolve, SettlePlatform, CreditCollateral, Deposit, PayOut
<1>4. CASE Crash
  <2>1. cycle'.pc = "idle"
    BY <1>4 DEF Crash, Idle
  <2> QED
    BY <1>4, <2>1 DEF Crash, Onward, PlainSteps
<1>5. ASSUME NEW p \in Profiles, BeginCycle(p) PROVE Quiet
  <2>1. cycle'.pc = "freeze" /\ cycle'.by = p
    BY <1>5 DEF BeginCycle
  <2> QED
    BY <1>5, <2>1 DEF BeginCycle, Onward, PlainSteps
<1>6. CASE UNCHANGED vars
  BY <1>6 DEF vars
<1> QED
  BY <1>1, <1>2, <1>3, <1>4, <1>5, <1>6 DEF Market, Outside

\* Rows of the table the proofs use.
LEMMA Table ==
  /\ DOMAIN Transitions =
       {"READY", "NOT_SUBMITTED_RETRYABLE", "SUBMIT_STARTED", "SUBMITTED_UNRECONCILED",
        "PENDING", "UNKNOWN_SUBMISSION", "DISTRIBUTING", "PLATFORM_DISTRIBUTING",
        "LOSS_DISTRIBUTING", "REDEEMED", "REDEEMED_PLATFORM_SETTLEMENT_VERIFIED",
        "LOSS_RESOLVED_NO_PAYOUT", "ERROR"}
  /\ Transitions["READY"] = {"SUBMIT_STARTED", "LOSS_DISTRIBUTING", "PLATFORM_DISTRIBUTING"}
  /\ Transitions["NOT_SUBMITTED_RETRYABLE"] = {"SUBMIT_STARTED"}
  /\ Transitions["SUBMIT_STARTED"] =
       {"SUBMITTED_UNRECONCILED", "UNKNOWN_SUBMISSION", "NOT_SUBMITTED_RETRYABLE"}
  /\ \A state \in {"SUBMITTED_UNRECONCILED", "PENDING", "UNKNOWN_SUBMISSION"} :
       /\ {"PENDING", "DISTRIBUTING", "ERROR"} \subseteq Transitions[state]
       /\ Transitions[state] \cap {"NOT_SUBMITTED_RETRYABLE", "SUBMIT_STARTED", "READY"} = {}
       /\ Transitions[state] \cap Distributed = {}
  /\ "PLATFORM_DISTRIBUTING" \in Transitions["UNKNOWN_SUBMISSION"]
  /\ \A state \in Distributing : Transitions[state] = {EndOf[state]}
  /\ \A state \in Distributed : Transitions[state] = {}
  /\ Transitions["ERROR"] = {}
BY DEF Transitions, EndOf

LEMMA AnswerMoves ==
  ASSUME NEW answer \in Answers
  PROVE  /\ AnswerState[answer] \in Transitions["SUBMIT_STARTED"]
         /\ AnswerState[answer] \in DOMAIN Transitions \ Distributed
         /\ AnswerState[answer] = "NOT_SUBMITTED_RETRYABLE" => answer = "refused"
BY Table DEF Answers, AnswerState

LEMMA EndMoves ==
  ASSUME NEW state \in Distributing
  PROVE  /\ EndOf[state] \in Transitions[state]
         /\ EndOf[state] \in Distributed
         /\ EndOf[state] \in DOMAIN Transitions
BY Table DEF EndOf

LEMMA FreezeEffects == TypeOK /\ ReceiptAtStep /\ FreezeSteps => Effects
<1> SUFFICES ASSUME TypeOK, ReceiptAtStep, FreezeSteps PROVE Effects
  OBVIOUS
<1> USE DEF TypeOK, ReceiptAtStep, Effects, At, Go, MarkShared, world, ledgers, receipt
<1>1. CASE SkipFreeze
  BY <1>1 DEF SkipFreeze, Quiet, Onward, PlainSteps
<1>2. CASE FreezeExact
  BY <1>2 DEF FreezeExact, Freeze, Freezable, Frozen
<1>3. CASE FreezePlatform
  BY <1>3 DEF FreezePlatform, Freeze, Freezable, Frozen
<1>4. CASE MarkLoss
  <2>1. shared.state = "READY"
    BY <1>4 DEF MarkLoss
  <2>2. shared'.state = "LOSS_DISTRIBUTING" /\ shared'.alloc = shared.alloc
    BY <1>4 DEF MarkLoss
  <2>3. Moved("LOSS_DISTRIBUTING")
    BY <1>4, <2>1, <2>2, Table DEF MarkLoss, Moved
  <2> QED
    BY <2>3, Table
<1>5. CASE MarkPlatform
  <2>1. shared.state = "READY"
    BY <1>5 DEF MarkPlatform
  <2>2. shared'.state = "PLATFORM_DISTRIBUTING" /\ shared'.alloc = shared.alloc
    BY <1>5 DEF MarkPlatform
  <2>3. Moved("PLATFORM_DISTRIBUTING")
    BY <1>5, <2>1, <2>2, Table DEF MarkPlatform, Moved
  <2> QED
    BY <2>3, Table
<1> QED
  BY <1>1, <1>2, <1>3, <1>4, <1>5 DEF FreezeSteps

LEMMA ReceiptEffects == TypeOK /\ ReceiptAtStep /\ ReceiptSteps => Effects
<1> SUFFICES ASSUME TypeOK, ReceiptAtStep, ReceiptSteps PROVE Effects
  OBVIOUS
<1> USE DEF TypeOK, ReceiptAtStep, Effects, At, Go, MarkShared, world, ledgers, receipt
<1>1. CASE PassReceipt
  BY <1>1 DEF PassReceipt, Quiet, Onward, PlainSteps
<1>2. CASE ResumeDistribution
  BY <1>2 DEF ResumeDistribution, Quiet
<1>3. CASE LoseSubmission
  <2>1. shared.state = "SUBMIT_STARTED"
    BY <1>3 DEF LoseSubmission
  <2>2. shared'.state = "UNKNOWN_SUBMISSION" /\ shared'.alloc = shared.alloc
    BY <1>3 DEF LoseSubmission
  <2>3. Moved("UNKNOWN_SUBMISSION")
    BY <1>3, <2>1, <2>2, Table DEF LoseSubmission, Moved, Onward, PlainSteps
  <2> QED
    BY <2>3, Table
<1>4. CASE ProveUnknown
  <2>1. shared.state = "UNKNOWN_SUBMISSION"
    BY <1>4 DEF ProveUnknown
  <2>2. shared'.state = "PLATFORM_DISTRIBUTING" /\ shared'.alloc = shared.alloc
    BY <1>4 DEF ProveUnknown
  <2>3. Moved("PLATFORM_DISTRIBUTING")
    BY <1>4, <2>1, <2>2, Table DEF ProveUnknown, Moved
  <2> QED
    BY <2>3, Table
<1>5. CASE RejectConfirmation
  <2>1. shared.state \in {"SUBMITTED_UNRECONCILED", "PENDING", "UNKNOWN_SUBMISSION"}
    BY <1>5 DEF RejectConfirmation, AwaitsRelayer
  <2>2. shared'.state = "ERROR" /\ shared'.alloc = shared.alloc
    BY <1>5 DEF RejectConfirmation
  <2>3. Moved("ERROR")
    BY <1>5, <2>1, <2>2, Table DEF RejectConfirmation, AwaitsRelayer, Moved, Onward, PlainSteps
  <2> QED
    BY <2>3, Table
<1>6. CASE AcceptConfirmation
  <2>1. shared.state \in {"SUBMITTED_UNRECONCILED", "PENDING", "UNKNOWN_SUBMISSION"}
    BY <1>6 DEF AcceptConfirmation, AwaitsRelayer
  <2>2. shared'.state = "DISTRIBUTING" /\ shared'.alloc = shared.alloc
    BY <1>6 DEF AcceptConfirmation
  <2>3. Moved("DISTRIBUTING")
    BY <1>6, <2>1, <2>2, Table DEF AcceptConfirmation, AwaitsRelayer, Moved
  <2> QED
    BY <2>3, Table
<1>7. CASE AwaitProof
  <2>1. shared.state \in {"SUBMITTED_UNRECONCILED", "PENDING", "UNKNOWN_SUBMISSION"}
    BY <1>7 DEF AwaitProof, AwaitsRelayer
  <2>2. shared'.state = "PENDING" /\ shared'.alloc = shared.alloc
    BY <1>7 DEF AwaitProof
  <2>3. Moved("PENDING")
    BY <1>7, <2>1, <2>2, Table DEF AwaitProof, AwaitsRelayer, Moved, Onward, PlainSteps
  <2> QED
    BY <2>3, Table
<1>8. CASE FailEvidence
  BY <1>8 DEF FailEvidence, Abort, Idle, Quiet, Onward, PlainSteps
<1>9. CASE RejectRedemption
  <2>1. shared.state \in {"SUBMITTED_UNRECONCILED", "PENDING", "UNKNOWN_SUBMISSION"}
    BY <1>9 DEF RejectRedemption, AwaitsRelayer
  <2>2. shared'.state = "ERROR" /\ shared'.alloc = shared.alloc
    BY <1>9 DEF RejectRedemption
  <2>3. Moved("ERROR")
    BY <1>9, <2>1, <2>2, Table DEF RejectRedemption, AwaitsRelayer, Moved, Onward, PlainSteps
  <2> QED
    BY <2>3, Table
<1>10. CASE AwaitRelayer
  <2>1. shared.state \in {"SUBMITTED_UNRECONCILED", "PENDING", "UNKNOWN_SUBMISSION"}
    BY <1>10 DEF AwaitRelayer, AwaitsRelayer
  <2>2. shared'.state = "PENDING" /\ shared'.alloc = shared.alloc
    BY <1>10 DEF AwaitRelayer
  <2>3. Moved("PENDING")
    BY <1>10, <2>1, <2>2, Table DEF AwaitRelayer, AwaitsRelayer, Moved, Onward, PlainSteps
  <2> QED
    BY <2>3, Table
<1>11. CASE StartSubmission
  <2>1. shared.state \in {"READY", "NOT_SUBMITTED_RETRYABLE"}
    BY <1>11 DEF StartSubmission
  <2>2. shared'.state = "SUBMIT_STARTED" /\ shared'.alloc = shared.alloc
    BY <1>11 DEF StartSubmission
  <2>3. Moved("SUBMIT_STARTED")
    BY <1>11, <2>1, <2>2, Table DEF StartSubmission, Moved
  <2> QED
    BY <2>3, Table
<1>12. CASE Revalidate
  BY <1>12 DEF Revalidate, Quiet
<1>13. CASE FailRevalidation
  <2>1. shared.state = "SUBMIT_STARTED" /\ cycle.pc = "revalidate"
    BY <1>13 DEF FailRevalidation
  <2>2. shared'.state = "NOT_SUBMITTED_RETRYABLE" /\ shared'.alloc = shared.alloc
    BY <1>13 DEF FailRevalidation
  <2>3. Onward
    BY <1>13, <2>1 DEF FailRevalidation, Onward, PlainSteps
  <2>4. Moved("NOT_SUBMITTED_RETRYABLE")
    <3> HIDE DEF TypeOK, ReceiptAtStep
    <3> QED
      BY <1>13, <2>1, <2>2, <2>3, Table DEF FailRevalidation, Moved
  <2> QED
    BY <2>4, Table
<1>14. CASE Submit
  BY <1>14 DEF Submit, Post, Posted, Submitters
<1>15. CASE RecordAnswer
  <2>1. cycle.answer \in {"id", "refused", "lost"} /\ shared.state = "SUBMIT_STARTED"
    BY <1>15 DEF RecordAnswer, Answers
  <2>2. /\ shared'.state = AnswerState[cycle.answer]
        /\ shared'.alloc = shared.alloc
    BY <1>15 DEF RecordAnswer
  <2>3. cycle'.pc = "official" /\ cycle'.by = cycle.by /\ cycle.by \in Profiles
    BY <1>15 DEF RecordAnswer
  <2>4. Onward
    BY <2>3 DEF Onward, PlainSteps
  <2>5. Moved(AnswerState[cycle.answer])
    <3> HIDE DEF TypeOK, ReceiptAtStep
    <3> QED
      BY <1>15, <2>1, <2>2, <2>4, AnswerMoves DEF RecordAnswer, Moved, Answers
  <2> QED
    BY <2>1, <2>5, AnswerMoves DEF Answers
<1> QED
  BY <1>1, <1>2, <1>3, <1>4, <1>5, <1>6, <1>7, <1>8, <1>9, <1>10, <1>11, <1>12, <1>13,
     <1>14, <1>15 DEF ReceiptSteps

LEMMA DistributionEffects == TypeOK /\ ReceiptAtStep /\ DistributionSteps => Effects
<1> SUFFICES ASSUME TypeOK, ReceiptAtStep, DistributionSteps PROVE Effects
  OBVIOUS
<1> USE DEF TypeOK, ReceiptAtStep, Effects, At, Go, MarkShared, world, ledgers, receipt,
            ApplySteps
<1>1. ASSUME NEW q \in Profiles, BookAllocation(q) PROVE Allocated(q)
  BY <1>1 DEF BookAllocation, SleeveReady, Allocated
<1>2. ASSUME NEW q \in Profiles, SkipBooked(q) PROVE Quiet
  BY <1>2 DEF SkipBooked, Quiet
<1>3. ASSUME NEW q \in Profiles, FailDistribution(q) PROVE Quiet
  BY <1>3 DEF FailDistribution, Applying, Idle, Quiet, Onward, PlainSteps
<1>4. CASE CompleteDistribution
  <2>1. shared.state \in Distributing
    BY <1>4 DEF CompleteDistribution, Applying
  <2>2. shared'.state = EndOf[shared.state] /\ shared'.alloc = shared.alloc
    BY <1>4 DEF CompleteDistribution
  <2>3. cycle'.pc = "official" /\ cycle'.by = cycle.by /\ cycle.by \in Profiles
    BY <1>4 DEF CompleteDistribution, Applying
  <2>4. Onward
    BY <2>3 DEF Onward, PlainSteps
  <2>5. Moved(EndOf[shared.state])
    <3> HIDE DEF TypeOK, ReceiptAtStep
    <3> QED
      BY <1>4, <2>1, <2>2, <2>4, EndMoves DEF CompleteDistribution, Moved
  <2> QED
    BY <2>1, <2>5, EndMoves
<1> QED
  BY <1>1, <1>2, <1>3, <1>4 DEF DistributionSteps

\* What a condition the coordinator does not know is to the sleeves.
LEMMA Unmanaged ==
  ASSUME TypeOK, ~Managed
  PROVE  /\ shared.state = "none"
         /\ \A p, q \in Profiles :
              p # q /\ Holds(p) => local[q].state = "none"
BY DEF Managed, SharedCondition, Exposed

LEMMA OwnEffects ==
  TypeOK /\ ReceiptAtStep /\ SubmissionShows /\ NoLocalTakeover /\ LocalSteps => Effects
<1> SUFFICES ASSUME TypeOK, ReceiptAtStep, SubmissionShows, NoLocalTakeover, LocalSteps
             PROVE  Effects
  OBVIOUS
<1>a. cycle.pc # "idle" => me \in Profiles
  BY DEF ReceiptAtStep, me
<1>b. ~Managed => shared.state = "none"
  BY DEF Managed
<1>c. me \in Profiles /\ local[me].state \in Underway => shared.state = "none"
  BY DEF NoLocalTakeover
<1>d. me \in Profiles /\ local[me].tx => shared.state = "none"
  BY DEF NoLocalTakeover
<1>e. cycle \in [by : Profiles \cup {Nobody}, pc : PCs, seen : Nat \cup {Unsampled},
                 answer : Answers \cup {"none"}, target : Profiles \cup {Nobody}]
  BY DEF TypeOK
<1>f. local \in [Profiles -> [state : LocalStates, tx : BOOLEAN, expected : Nat]]
  BY DEF TypeOK
<1>k. cycle.pc \in OwnSteps => shared.state = "none" /\ local[me].state = "SUBMIT_STARTED"
  BY DEF ReceiptAtStep
<1>l. cycle.pc \in {"record", "record own"} => cycle.answer \in Answers
  BY DEF ReceiptAtStep
<1>o. accepted \in [Submitters -> Nat]
  BY DEF TypeOK
<1>q. accepted[Wallet] > 0 => shared.state # "none"
  BY DEF SubmissionShows
<1>r. ASSUME NEW p \in Profiles, accepted[p] > 0 PROVE local[p].state \notin {"none"} \cup Handoff
  BY <1>r DEF SubmissionShows
<1>m. ASSUME me \in Profiles, local[me].state \in {"none"} \cup Handoff PROVE accepted[me] = 0
  <2>1. me \in Submitters /\ accepted[me] \in Nat
    BY <1>m, <1>o DEF Submitters
  <2>2. accepted[me] > 0 => local[me].state \notin {"none"} \cup Handoff
    BY <1>m DEF SubmissionShows
  <2> QED
    BY <1>m, <2>1, <2>2
<1>n. Redeemable /\ me \in Profiles => \A s \in Submitters : accepted[s] = 0
  <2> SUFFICES ASSUME Redeemable, me \in Profiles, NEW s \in Submitters PROVE accepted[s] = 0
    OBVIOUS
  <2>1. accepted[s] \in Nat
    BY <1>o
  <2>2. CASE s = Wallet
    BY <2>1, <2>2, <1>b, <1>q DEF Redeemable
  <2>3. CASE s = me
    BY <2>3, <1>m DEF Redeemable
  <2>4. CASE s \in Profiles /\ s # me
    <3>1. local[s].state = "none"
      BY <2>4, Unmanaged DEF Redeemable
    <3>2. accepted[s] > 0 => local[s].state # "none"
      BY <2>4, <1>r
    <3> QED
      BY <2>1, <3>1, <3>2
  <2> QED
    BY <2>2, <2>3, <2>4 DEF Submitters
<1>p. cycle.pc \in {"revalidate own", "submit own", "record own"} => shared.state = "none"
  BY <1>k DEF OwnSteps
<1> USE DEF Effects, At, Go, me, world, ledgers, receipt
<1>1. ASSUME NEW from, NEW to, Pass(from, to), from # "idle", to \in PlainSteps PROVE Quiet
  BY <1>1, <1>a, <1>e DEF Pass, Quiet, Onward
<1>2. ASSUME Abort PROVE Quiet
  BY <1>2 DEF Abort, Idle, Quiet, Onward, PlainSteps
<1>3. ASSUME NEW state, NEW amount, NEW quarantined, SettleLocal(state, amount, quarantined),
             me \in Profiles, shared.state = "none", state \in Settled, Onward
      PROVE  OwnMoved
  <2>1. \A p \in Profiles : local'[p].state = local[p].state \/ local'[p].state = state
    BY <1>3, <1>f DEF SettleLocal
  <2>2. state \notin {"none"} \cup Handoff \cup SharedEnds
    BY <1>3
  <2> QED
    BY <1>3, <2>1, <2>2 DEF SettleLocal, OwnMoved
<1>4. ASSUME NEW state, NEW pc, MarkLocal(state, pc), me \in Profiles, shared.state = "none",
             state \in {OfficialBlock, "ERROR"} \cup Underway, pc \in PlainSteps
      PROVE  OwnMoved
  <2>1. \A p \in Profiles : local'[p].state = local[p].state \/ local'[p].state = state
    BY <1>4, <1>f DEF MarkLocal
  <2>2. state \notin {"none"} \cup Handoff \cup SharedEnds
    BY <1>4
  <2>3. Onward
    BY <1>4, <1>e DEF MarkLocal, Onward
  <2> QED
    BY <1>4, <2>1, <2>2, <2>3 DEF MarkLocal, OwnMoved
<1>g. ASSUME NEW pc \in PlainSteps, NEW from, At(from), from # "idle", Go(pc) PROVE Onward
  BY <1>g, <1>a, <1>e DEF Onward
<1>h. Idle.pc = "idle"
  BY DEF Idle
<1>i. cycle' = Idle => Onward
  BY <1>h DEF Onward, PlainSteps
<1>j. {"refresh", "platform", "reconcile", "redeem"} \subseteq PlainSteps
  BY DEF PlainSteps
<1>5. CASE SettleOfficial
  <2>1. PICK s \in Payers : SettleLocal("REDEEMED_OFFICIAL_ACTIVITY_VERIFIED", payout[s], TRUE)
    BY <1>5 DEF SettleOfficial
  <2>2. me \in Profiles /\ shared.state = "none"
    BY <1>5, <1>a, <1>b DEF SettleOfficial
  <2>3. Onward
    BY <1>5, <1>g, <1>j DEF SettleOfficial
  <2> QED
    BY <1>3, <2>1, <2>2, <2>3
<1>6. CASE BlockOfficial
  <2>1. MarkLocal(OfficialBlock, "reconcile")
    BY <1>6 DEF BlockOfficial
  <2>2. me \in Profiles /\ shared.state = "none"
    BY <1>6, <1>a, <1>b DEF BlockOfficial
  <2> QED
    BY <1>4, <1>j, <2>1, <2>2
<1>7. CASE PassOfficial
  BY <1>1, <1>7, <1>j DEF PassOfficial
<1>8. CASE LoseLocalSubmission
  <2>1. me \in Profiles /\ shared.state = "none"
    BY <1>8, <1>a, <1>c DEF LoseLocalSubmission
  <2> QED
    BY <1>4, <1>8, <1>j, <2>1 DEF LoseLocalSubmission
<1>9. Reconciled => me \in Profiles /\ shared.state = "none"
  BY <1>a, <1>c DEF Reconciled
<1>10. CASE QuarantineOverlap \/ RejectLocalConfirmation \/ RejectLocalRedemption
  <2>1. Reconciled /\ MarkLocal("ERROR", "platform")
    BY <1>10 DEF QuarantineOverlap, RejectLocalConfirmation, RejectLocalRedemption
  <2> QED
    BY <1>4, <1>9, <1>j, <2>1
<1>11. CASE AwaitLocalProof \/ AwaitLocalRelayer
  <2>1. Reconciled /\ MarkLocal("PENDING", "platform")
    BY <1>11 DEF AwaitLocalProof, AwaitLocalRelayer
  <2> QED
    BY <1>4, <1>9, <1>j, <2>1
<1>12. CASE SettleConfirmed
  <2>1. PICK state \in {"REDEEMED", "LOSS_RESOLVED_NO_PAYOUT"} :
          SettleLocal(state, payout[me], TRUE)
    BY <1>12 DEF SettleConfirmed
  <2>2. Reconciled
    BY <1>12 DEF SettleConfirmed
  <2>3. PICK pc \in {"refresh", "platform"} : Go(pc)
    BY <1>12 DEF SettleConfirmed
  <2>4. Onward
    BY <1>g, <1>j, <2>2, <2>3 DEF Reconciled
  <2> QED
    BY <1>3, <1>9, <2>1, <2>2, <2>4
<1>13. CASE PassReconcile
  BY <1>1, <1>13, <1>j DEF PassReconcile
<1>14. CASE Refresh
  <2>1. Onward
    BY <1>14, <1>g, <1>j DEF Refresh
  <2> QED
    BY <1>14, <2>1 DEF Refresh, Quiet
<1>15. CASE FailRefresh
  BY <1>15, <1>2 DEF FailRefresh
<1>16. CASE SettlePlatformWinner
  <2>1. me \in Profiles /\ shared.state = "none"
    BY <1>16, <1>a, <1>b DEF SettlePlatformWinner, PlatformWinner
  <2>2. SettleLocal("REDEEMED_PLATFORM_SETTLEMENT_VERIFIED", WinnerQuantity(me), FALSE)
    BY <1>16 DEF SettlePlatformWinner
  <2>3. Onward
    BY <1>16, <1>g, <1>j DEF SettlePlatformWinner, PlatformWinner
  <2> QED
    BY <1>3, <2>1, <2>2, <2>3
<1>17. CASE FailPlatformWinner
  BY <1>17, <1>2 DEF FailPlatformWinner
<1>18. CASE PassPlatform
  BY <1>1, <1>18, <1>j DEF PassPlatform
<1>19. CASE EndCycle
  BY <1>19, <1>i DEF EndCycle, Quiet
<1>20. Redeemable => me \in Profiles /\ shared.state = "none"
  BY <1>a, <1>b DEF Redeemable
<1>21. CASE BlockAmbiguous
  <2>1. \A p \in Profiles : \/ local'[p].state = local[p].state
                            \/ p = me /\ local'[p].state = "BLOCK_AMBIGUOUS_ONCHAIN_INVENTORY"
    BY <1>21, <1>f DEF BlockAmbiguous
  <2>2. accepted[me] = 0
    BY <1>21, <1>20, <1>m DEF BlockAmbiguous
  <2> QED
    BY <1>21, <1>20, <1>i, <2>1, <2>2 DEF BlockAmbiguous, OwnMoved
<1>22. CASE SettleLosing
  BY <1>22, <1>3, <1>20, <1>i DEF SettleLosing
<1>23. CASE StartLocal
  <2>1. \A p \in Profiles : local'[p].state = local[p].state \/ local'[p].state = "SUBMIT_STARTED"
    BY <1>23, <1>f DEF StartLocal
  <2>2. local'[me].state = "SUBMIT_STARTED"
    BY <1>23, <1>20, <1>f DEF StartLocal
  <2>3. \A s \in Submitters : accepted[s] = 0
    BY <1>23, <1>20, <1>n DEF StartLocal
  <2> QED
    BY <1>23, <1>20, <1>a, <2>1, <2>2, <2>3 DEF StartLocal, OwnMoved
<1>24. CASE FailStart
  BY <1>24, <1>2 DEF FailStart
<1>25. CASE RevalidateLocal
  BY <1>25 DEF RevalidateLocal, Pass, Quiet
<1>26. CASE FailLocalRevalidation
  <2>1. \A p \in Profiles : \/ local'[p].state = local[p].state
                            \/ p = me /\ local'[p].state = "BLOCK_PRE_SUBMISSION_REVALIDATION"
    BY <1>26, <1>f DEF FailLocalRevalidation
  <2>2. me \in Profiles /\ shared.state = "none"
    BY <1>26, <1>a, <1>p DEF FailLocalRevalidation
  <2>3. accepted[me] = 0
    BY <1>26, <2>2 DEF FailLocalRevalidation, SubmissionShows, Submitters
  <2> QED
    BY <1>26, <1>i, <2>1, <2>2, <2>3 DEF FailLocalRevalidation, OwnMoved
<1>27. CASE SubmitLocal
  <2>1. me \in Profiles /\ me \in Submitters /\ me # Wallet
    BY <1>27, <1>a DEF SubmitLocal, Submitters
  <2>2. Posted(me)
    BY <1>27, <2>1 DEF SubmitLocal, Post, Posted
  <2> QED
    BY <2>1, <2>2
<1>28. CASE RecordLocalAnswer
  <2>1. me \in Profiles /\ shared.state = "none" /\ cycle.answer \in Answers
    BY <1>28, <1>a, <1>l, <1>p DEF RecordLocalAnswer
  <2>2. \A p \in Profiles : \/ local'[p].state = local[p].state
                            \/ p = me /\ local'[p].state = AnswerState[cycle.answer]
    BY <1>28, <1>f DEF RecordLocalAnswer
  <2>3. \/ AnswerState[cycle.answer] \in Underway
        \/ AnswerState[cycle.answer] \in Handoff /\ accepted[me] = 0
    <3>1. cycle.answer = "refused" => accepted[me] = 0
      BY <1>28 DEF RecordLocalAnswer, SubmissionShows
    <3>2. AnswerState["id"] = "SUBMITTED_UNRECONCILED" /\ AnswerState["lost"] = "UNKNOWN_SUBMISSION"
          /\ AnswerState["refused"] = "NOT_SUBMITTED_RETRYABLE"
      BY DEF AnswerState
    <3> QED
      BY <2>1, <3>1, <3>2 DEF Answers
  <2> QED
    BY <1>28, <1>i, <2>1, <2>2, <2>3 DEF RecordLocalAnswer, OwnMoved
<1> QED
  BY <1>5, <1>6, <1>7, <1>8, <1>10, <1>11, <1>12, <1>13, <1>14, <1>15, <1>16, <1>17, <1>18,
     <1>19, <1>21, <1>22, <1>23, <1>24, <1>25, <1>26, <1>27, <1>28 DEF LocalSteps

LEMMA StepEffects ==
  TypeOK /\ ReceiptAtStep /\ SubmissionShows /\ NoLocalTakeover /\ [Next]_vars => Effects
<1> SUFFICES ASSUME TypeOK, ReceiptAtStep, SubmissionShows, NoLocalTakeover, [Next]_vars
             PROVE  Effects
  OBVIOUS
<1>1. CASE Market \/ Outside \/ Crash \/ (\E p \in Profiles : BeginCycle(p)) \/ UNCHANGED vars
  BY <1>1, OutsideIsQuiet DEF Effects
<1>2. CASE FreezeSteps
  BY <1>2, FreezeEffects
<1>3. CASE ReceiptSteps
  BY <1>3, ReceiptEffects
<1>4. CASE DistributionSteps
  BY <1>4, DistributionEffects
<1>5. CASE LocalSteps
  BY <1>5, OwnEffects
<1> QED
  BY <1>1, <1>2, <1>3, <1>4, <1>5 DEF Next, CycleSteps

-----------------------------------------------------------------------------
(* What the effects keep *)

\* The parts of the types these proofs use.
LEMMA Typed ==
  ASSUME TypeOK
  PROVE  /\ accepted \in [Submitters -> Nat]
         /\ local \in [Profiles -> [state : LocalStates, tx : BOOLEAN, expected : Nat]]
         /\ shared \in [state : DOMAIN Transitions \cup {"none"}, winner : Outcomes \cup {"none"},
                         alloc : [Profiles -> Quantities], tx : BOOLEAN]
         /\ applied \subseteq Profiles
         /\ cycle \in [by : Profiles \cup {Nobody}, pc : PCs, seen : Nat \cup {Unsampled},
                        answer : Answers \cup {"none"}, target : Profiles \cup {Nobody}]
BY DEF TypeOK

LEMMA NotSubmitted ==
  ASSUME TypeOK, SubmissionShows
  PROVE  /\ \A p \in Profiles :
              local[p].state \in {"none"} \cup Handoff \cup SharedEnds => accepted[p] = 0
         /\ shared.state \in {"none", "READY", "NOT_SUBMITTED_RETRYABLE"} => accepted[Wallet] = 0
<1>1. accepted[Wallet] \in Nat
  BY Typed DEF Submitters
<1>2. ASSUME shared.state \in {"none", "READY", "NOT_SUBMITTED_RETRYABLE"}
      PROVE  accepted[Wallet] = 0
  <2>1. ~(accepted[Wallet] > 0)
    BY <1>2 DEF SubmissionShows
  <2> QED
    BY <1>1, <2>1
<1>3. ASSUME NEW p \in Profiles, local[p].state \in {"none"} \cup Handoff \cup SharedEnds
      PROVE  accepted[p] = 0
  <2>1. accepted[p] \in Nat
    BY Typed DEF Submitters
  <2>2. ~(accepted[p] > 0)
    BY <1>3 DEF SubmissionShows
  <2> QED
    BY <2>1, <2>2
<1> QED
  BY <1>2, <1>3

LEMMA NoWayBack ==
  \A state \in DOMAIN Transitions : Transitions[state] \cap {"none", "READY"} = {}
BY DEF Transitions

LEMMA SleeveEnds == \A d \in Distributing : SleeveEnd[d] \in SharedEnds
BY DEF SleeveEnd

LEMMA KeepsReceiptAtStep == TypeOK /\ ReceiptAtStep /\ Effects => ReceiptAtStep'
<1> SUFFICES ASSUME TypeOK, ReceiptAtStep, Effects PROVE ReceiptAtStep'
  OBVIOUS
<1> USE Typed DEF At, me, ApplySteps, OwnSteps, PlainSteps, ReceiptAtStep
<1>1. ASSUME UNCHANGED <<shared, local>>, Onward PROVE ReceiptAtStep'
  BY <1>1 DEF Onward
<1>2. ASSUME Onward PROVE ReceiptAtStep'
  BY <1>2 DEF Onward
<1>3. CASE Quiet
  BY <1>1, <1>3, ZenonT(60) DEF Quiet, Applying
<1>4. CASE Frozen
  BY <1>4 DEF Frozen
<1>5. ASSUME NEW state \in DOMAIN Transitions, Moved(state) PROVE ReceiptAtStep'
  BY <1>2, <1>5 DEF Moved
<1>6. ASSUME NEW q \in Profiles, Allocated(q) PROVE ReceiptAtStep'
  BY <1>6 DEF Allocated, Applying
<1>7. CASE MarkApplied
  BY <1>7 DEF MarkApplied, ledgers, world
<1>8. CASE OwnMoved
  BY <1>2, <1>8 DEF OwnMoved
<1>9. ASSUME NEW s \in Submitters, Posted(s) PROVE ReceiptAtStep'
  BY <1>9 DEF Posted
<1> QED
  BY <1>3, <1>4, <1>5, <1>6, <1>7, <1>8, <1>9 DEF Effects

LEMMA KeepsSubmissionShows ==
  TypeOK /\ ReceiptAtStep /\ SubmissionShows /\ Effects => SubmissionShows'
<1> SUFFICES ASSUME TypeOK, ReceiptAtStep, SubmissionShows, Effects PROVE SubmissionShows'
  OBVIOUS
<1> USE Typed DEF At, me, SubmissionShows
<1>1. ASSUME UNCHANGED <<accepted, shared, local>>, Onward PROVE SubmissionShows'
  BY <1>1 DEF Onward, PlainSteps
<1>2. CASE Quiet
  BY <1>1, <1>2, ZenonT(60) DEF Quiet
<1>3. CASE Frozen
  BY <1>3 DEF Frozen
<1>4. ASSUME NEW state \in DOMAIN Transitions, Moved(state) PROVE SubmissionShows'
  <2>1. accepted[Wallet] > 0 => state \notin {"none", "READY", "NOT_SUBMITTED_RETRYABLE"}
    <3>1. shared.state \in DOMAIN Transitions
      BY <1>4 DEF Moved
    <3>2. state \notin {"none", "READY"}
      BY <1>4, <3>1, NoWayBack DEF Moved
    <3>3. state = "NOT_SUBMITTED_RETRYABLE" => accepted[Wallet] = 0
      BY <1>4 DEF Moved
    <3>4. accepted[Wallet] \in Nat
      BY DEF Submitters
    <3>5. accepted[Wallet] > 0 => accepted[Wallet] # 0
      BY <3>4, Positive, Zenon
    <3> QED
      BY <3>2, <3>3, <3>5
  <2>2. CASE Onward
    BY <1>4, <2>1, <2>2 DEF Moved, Onward, PlainSteps
  <2>3. CASE cycle'.pc \in {"apply", "apply quietly"}
    BY <1>4, <2>1, <2>3 DEF Moved
  <2>4. CASE cycle'.pc = "revalidate" /\ shared.state \in {"READY", "NOT_SUBMITTED_RETRYABLE"}
    BY <1>4, <2>1, <2>4, NotSubmitted DEF Moved
  <2> QED
    BY <1>4, <2>2, <2>3, <2>4 DEF Moved
<1>5. ASSUME NEW q \in Profiles, Allocated(q) PROVE SubmissionShows'
  <2>1. \A p \in Profiles : local'[p] = local[p] \/ accepted[p] = 0
    BY <1>5, NotSubmitted DEF Allocated
  <2> QED
    BY <1>5, <2>1 DEF Allocated
<1>6. CASE MarkApplied
  BY <1>6 DEF MarkApplied, ledgers, world
<1>7. CASE OwnMoved
  <2>1. \A p \in Profiles : accepted'[p] > 0 =>
          local'[p].state \notin {"none"} \cup Handoff \cup SharedEnds
    <3> SUFFICES ASSUME NEW p \in Profiles, accepted[p] > 0
                 PROVE  local'[p].state \notin {"none"} \cup Handoff \cup SharedEnds
      BY <1>7 DEF OwnMoved
    <3>1. accepted[p] \in Nat
      BY DEF Submitters
    <3>2. accepted[p] # 0
      BY <3>1, Positive, Zenon
    <3>3. \/ local'[p].state = local[p].state
          \/ local'[p].state \notin {"none"} \cup Handoff \cup SharedEnds
      BY <1>7, <3>2 DEF OwnMoved
    <3> QED
      BY <3>3
  <2>2. accepted'[Wallet] > 0 => shared'.state \notin {"none", "READY", "NOT_SUBMITTED_RETRYABLE"}
    BY <1>7 DEF OwnMoved
  <2>3. CASE Onward
    BY <2>1, <2>2, <2>3 DEF Onward, PlainSteps
  <2>4. CASE cycle'.pc = "revalidate own" /\ \A s \in Submitters : accepted[s] = 0
    BY <1>7, <2>1, <2>2, <2>4 DEF OwnMoved
  <2> QED
    BY <1>7, <2>3, <2>4 DEF OwnMoved
<1>8. ASSUME NEW s \in Submitters, Posted(s) PROVE SubmissionShows'
  <2>1. CASE s = Wallet /\ At("submit")
    <3>1. shared.state = "SUBMIT_STARTED" /\ accepted[Wallet] = 0
      BY <2>1 DEF ReceiptAtStep
    <3>2. \A p \in Profiles : accepted'[p] = accepted[p]
      BY <1>8, <2>1 DEF Posted, Submitters
    <3>3. cycle'.pc = "record"
      BY <1>8, <2>1 DEF Posted
    <3>4. cycle'.answer = "refused" => accepted'[Wallet] = 0
      BY <1>8, <2>1, <3>1 DEF Posted
    <3> QED
      BY <1>8, <3>1, <3>2, <3>3, <3>4 DEF Posted
  <2>2. CASE s = me /\ At("submit own")
    <3>1. me \in Profiles /\ local[me].state = "SUBMIT_STARTED" /\ accepted[me] = 0
      BY <2>2 DEF ReceiptAtStep, OwnSteps, Submitters
    <3>2. \A r \in Submitters : r # me => accepted'[r] = accepted[r]
      BY <1>8, <2>2, ZenonT(60) DEF Posted
    <3>3. cycle'.pc = "record own" /\ cycle'.by = cycle.by
      BY <1>8, <2>2 DEF Posted
    <3>4. cycle'.answer = "refused" => accepted'[me] = 0
      BY <1>8, <2>2, <3>1 DEF Posted
    <3>5. accepted'[Wallet] = accepted[Wallet] /\ UNCHANGED <<local, shared>>
      BY <1>8, <3>1, <3>2 DEF Posted, Submitters
    <3>6. \A p \in Profiles : accepted'[p] > 0 =>
            local'[p].state \notin {"none"} \cup Handoff \cup SharedEnds
      BY <3>1, <3>2, <3>5 DEF Submitters
    <3> QED
      BY <3>3, <3>4, <3>5, <3>6
  <2> QED
    BY <1>8, <2>1, <2>2 DEF Posted
<1> QED
  BY <1>2, <1>3, <1>4, <1>5, <1>6, <1>7, <1>8 DEF Effects

LEMMA KeepsOneRedemption ==
  TypeOK /\ ReceiptAtStep /\ SubmissionShows /\ NoLocalTakeover /\ OneRedemption /\ Effects
    => OneRedemption'
<1> SUFFICES ASSUME TypeOK, ReceiptAtStep, SubmissionShows, NoLocalTakeover, OneRedemption, Effects
             PROVE  OneRedemption'
  OBVIOUS
<1>1. ASSUME UNCHANGED accepted PROVE OneRedemption'
  BY <1>1 DEF OneRedemption
<1>2. ASSUME NEW s \in Submitters, Posted(s) PROVE OneRedemption'
  <2>1. \A r \in Submitters : accepted[r] = 0
    <3>1. CASE At("submit own")
      BY <3>1 DEF At, SubmissionShows
    <3>2. CASE At("submit")
      <4>1. shared.state = "SUBMIT_STARTED" /\ accepted[Wallet] = 0
        BY <3>2 DEF At, SubmissionShows, ReceiptAtStep
      <4>2. \A p \in Profiles : local[p].state \in {"none"} \cup Handoff \cup SharedEnds
        BY <4>1 DEF NoLocalTakeover
      <4> QED
        BY <4>1, <4>2, NotSubmitted DEF Submitters
    <3> QED
      BY <1>2, <3>1, <3>2 DEF Posted
  <2>2. accepted' = accepted \/ accepted' = [accepted EXCEPT ![s] = @ + 1]
    BY <1>2 DEF Posted
  <2>3. CASE accepted' = accepted
    BY <1>1, <2>3
  <2>4. CASE accepted' = [accepted EXCEPT ![s] = @ + 1]
    <3>1. \A r \in Submitters : accepted'[r] = IF r = s THEN 1 ELSE 0
      BY <2>1, <2>4, Typed
    <3> QED
      BY <3>1 DEF OneRedemption
  <2> QED
    BY <2>2, <2>3, <2>4
<1> QED
  BY <1>1, <1>2 DEF Effects, Quiet, Frozen, Moved, Allocated, MarkApplied, OwnMoved, world

LEMMA KeepsNoLocalTakeover ==
  TypeOK /\ ReceiptAtStep /\ NoLocalTakeover /\ Effects => NoLocalTakeover'
<1> SUFFICES ASSUME TypeOK, ReceiptAtStep, NoLocalTakeover, Effects PROVE NoLocalTakeover'
  OBVIOUS
<1> USE Typed DEF NoLocalTakeover
<1>1. CASE Quiet \/ MarkApplied \/ (\E s \in Submitters : Posted(s))
  BY <1>1 DEF Quiet, MarkApplied, Posted, ledgers
<1>2. CASE Frozen
  BY <1>2 DEF Frozen, ActiveLocal
<1>3. ASSUME NEW state \in DOMAIN Transitions, Moved(state) PROVE NoLocalTakeover'
  BY <1>3 DEF Moved
<1>4. ASSUME NEW q \in Profiles, Allocated(q) PROVE NoLocalTakeover'
  <2>1. shared.state \in Distributing
    BY <1>4 DEF Allocated, Applying, At, ReceiptAtStep, ApplySteps
  <2>2. SleeveEnd[shared.state] \in SharedEnds
    BY <2>1, SleeveEnds
  <2> QED
    BY <1>4, <2>1, <2>2 DEF Allocated
<1>5. CASE OwnMoved
  BY <1>5 DEF OwnMoved
<1> QED
  BY <1>1, <1>2, <1>3, <1>4, <1>5 DEF Effects

\* While nothing distributes, nothing was marked.
LEMMA MarkedWhen ==
  ASSUME MarkedIsBooked, shared.state \notin Distributing \cup Distributed PROVE applied = {}
BY DEF MarkedIsBooked

LEMMA KeepsMarkedIsBooked ==
  TypeOK /\ ReceiptAtStep /\ MarkedIsBooked /\ Effects => MarkedIsBooked'
<1> SUFFICES ASSUME TypeOK, ReceiptAtStep, MarkedIsBooked, Effects PROVE MarkedIsBooked'
  OBVIOUS
<1>1. ASSUME UNCHANGED <<local, shared, applied>>,
             cycle'.pc \notin {"mark", "mark quietly"} \/ UNCHANGED cycle
      PROVE  MarkedIsBooked'
  BY <1>1 DEF MarkedIsBooked
<1>2. CASE Quiet
  <2>1. CASE cycle' = cycle \/ Onward
    BY <1>1, <1>2, <2>1 DEF Quiet, Onward, PlainSteps
  <2>2. CASE \E pc \in {"apply", "submit", "submit own"} : cycle' = [cycle EXCEPT !.pc = pc]
    BY <1>1, <1>2, <2>2, Typed DEF Quiet
  <2>3. ASSUME NEW q \in Profiles, NEW pc \in {"mark", "mark quietly"}, SleeveBooked(q),
               cycle' = [cycle EXCEPT !.pc = pc, !.target = q]
        PROVE  MarkedIsBooked'
    <3>1. cycle'.target = q
      BY <2>3, Typed
    <3>2. local[q].state = SleeveEnd[shared.state]
      BY <2>3 DEF SleeveBooked
    <3> QED
      BY <1>2, <3>1, <3>2 DEF Quiet, MarkedIsBooked
  <2> QED
    BY <1>2, <2>1, <2>2, <2>3 DEF Quiet
<1>3. CASE Frozen
  <2>1. applied = {} /\ applied' = {}
    BY <1>3, MarkedWhen DEF Frozen
  <2>2. cycle'.pc \notin {"mark", "mark quietly"}
    BY <1>3, Typed DEF Frozen
  <2> QED
    BY <2>1, <2>2 DEF MarkedIsBooked
<1>4. ASSUME NEW state \in DOMAIN Transitions, Moved(state) PROVE MarkedIsBooked'
  <2>1. cycle'.pc \notin {"mark", "mark quietly"}
    BY <1>4, Typed DEF Moved, Onward, PlainSteps
  <2>2. shared.state \in DOMAIN Transitions /\ state \in Transitions[shared.state]
    BY <1>4, Typed DEF Moved
  <2>3. CASE applied = {}
    BY <1>4, <2>1, <2>3 DEF Moved, MarkedIsBooked
  <2>4. CASE applied # {}
    <3>1. shared.state \in Distributing \cup Distributed
      BY <2>4, MarkedWhen
    <3>2. state \in Distributed
      BY <2>2, <3>1, Table, EndMoves
    <3> QED
      BY <1>4, <2>1, <3>2 DEF Moved, MarkedIsBooked
  <2> QED
    BY <2>3, <2>4
<1>5. ASSUME NEW q \in Profiles, Allocated(q) PROVE MarkedIsBooked'
  <2>1. shared.state \in Distributing /\ SleeveEnd[shared.state] \in SharedEnds
    BY <1>5, SleeveEnds DEF Allocated, Applying, At, ReceiptAtStep, ApplySteps
  <2>2. \A p \in Profiles : local'[p].state =
          IF p = q THEN SleeveEnd[shared.state] ELSE local[p].state
    BY <1>5, Typed DEF Allocated
  <2>3. cycle'.target = q
    BY <1>5, Typed DEF Allocated
  <2> QED
    BY <1>5, <2>1, <2>2, <2>3, Typed, ZenonT(60) DEF Allocated, MarkedIsBooked
<1>6. CASE MarkApplied
  <2>1. cycle.target \in Profiles /\ local[cycle.target].state = SleeveEnd[shared.state]
    BY <1>6 DEF MarkApplied, At, MarkedIsBooked
  <2>2. shared.state \in Distributing /\ SleeveEnd[shared.state] \in SharedEnds
    BY <1>6, SleeveEnds DEF MarkApplied, At, ReceiptAtStep, ApplySteps
  <2>3. cycle'.pc \notin {"mark", "mark quietly"}
    BY <1>6, Typed DEF MarkApplied
  <2>4. UNCHANGED <<local, shared>> /\ applied' = applied \cup {cycle.target}
    BY <1>6 DEF MarkApplied, ledgers
  <2> QED
    BY <2>1, <2>2, <2>3, <2>4 DEF MarkedIsBooked
<1>7. CASE OwnMoved
  <2>1. applied = {} /\ applied' = {}
    BY <1>7, MarkedWhen DEF OwnMoved
  <2>2. cycle'.pc \notin {"mark", "mark quietly"}
    BY <1>7, Typed DEF OwnMoved, Onward, PlainSteps
  <2> QED
    BY <2>1, <2>2 DEF MarkedIsBooked
<1>8. ASSUME NEW s \in Submitters, Posted(s) PROVE MarkedIsBooked'
  BY <1>1, <1>8, Typed DEF Posted
<1> QED
  BY <1>2, <1>3, <1>4, <1>5, <1>6, <1>7, <1>8 DEF Effects

LEMMA KeepsFinishedIsBooked ==
  TypeOK /\ ReceiptAtStep /\ MarkedIsBooked /\ FinishedIsBooked /\ Effects /\ MarkedIsBooked'
    => FinishedIsBooked'
<1> SUFFICES ASSUME TypeOK, ReceiptAtStep, MarkedIsBooked, FinishedIsBooked, Effects,
                    MarkedIsBooked'
             PROVE  FinishedIsBooked'
  OBVIOUS
<1>1. \A p \in applied' : local'[p].state \in SharedEnds
  BY DEF MarkedIsBooked
<1>2. ASSUME shared'.state \notin Distributed PROVE FinishedIsBooked'
  BY <1>1, <1>2 DEF FinishedIsBooked
<1>3. ASSUME UNCHANGED <<local, shared>> PROVE FinishedIsBooked'
  BY <1>1, <1>3 DEF FinishedIsBooked, Owners
<1>4. CASE Quiet \/ MarkApplied \/ \E s \in Submitters : Posted(s)
  BY <1>3, <1>4 DEF Quiet, MarkApplied, Posted, ledgers
<1>5. CASE Frozen
  BY <1>2, <1>5 DEF Frozen
<1>6. ASSUME NEW state \in DOMAIN Transitions, Moved(state) PROVE FinishedIsBooked'
  <2>1. CASE state \in Distributed
    <3>1. shared.state \in DOMAIN Transitions /\ state = EndOf[shared.state]
          /\ state \in Transitions[shared.state] /\ Owners \subseteq applied
      BY <1>6, <2>1, Typed DEF Moved
    <3>2. shared.state \in Distributing
      BY <2>1, <3>1, Table
    <3>3. \A p \in applied : local[p].state = SleeveEnd[shared.state]
      BY <3>2 DEF MarkedIsBooked
    <3>4. Owners' = Owners /\ shared'.state = state /\ local' = local
      BY <1>6 DEF Moved, Owners
    <3> QED
      BY <1>1, <3>1, <3>2, <3>3, <3>4 DEF FinishedIsBooked
  <2>2. CASE state \notin Distributed
    BY <1>2, <1>6, <2>2 DEF Moved
  <2> QED
    BY <2>1, <2>2
<1>7. ASSUME NEW q \in Profiles, Allocated(q) PROVE FinishedIsBooked'
  BY <1>2, <1>7 DEF Allocated, Applying, At, ReceiptAtStep, ApplySteps
<1>8. CASE OwnMoved
  BY <1>2, <1>8 DEF OwnMoved
<1> QED
  BY <1>4, <1>5, <1>6, <1>7, <1>8 DEF Effects

LEMMA TakesTheTable ==
  Effects => (shared'.state # shared.state =>
       IF shared.state = "none" THEN shared'.state = "READY"
       ELSE shared'.state \in Transitions[shared.state])
<1> SUFFICES ASSUME Effects, shared'.state # shared.state
             PROVE  IF shared.state = "none" THEN shared'.state = "READY"
                    ELSE shared'.state \in Transitions[shared.state]
  OBVIOUS
<1>1. CASE Frozen
  BY <1>1 DEF Frozen
<1>2. ASSUME NEW state \in DOMAIN Transitions, Moved(state)
      PROVE  shared.state # "none" /\ shared'.state \in Transitions[shared.state]
  BY <1>2 DEF Moved
<1>3. ~Quiet /\ ~MarkApplied /\ ~OwnMoved
  BY DEF Quiet, MarkApplied, OwnMoved
<1>4. ASSUME NEW q \in Profiles PROVE ~Allocated(q)
  BY DEF Allocated
<1>5. ASSUME NEW s \in Submitters PROVE ~Posted(s)
  BY DEF Posted
<1> QED
  BY <1>1, <1>2, <1>3, <1>4, <1>5 DEF Effects

-----------------------------------------------------------------------------
(* Types *)

WorldTypes ==
  /\ winner \in Outcomes \cup {"none"}
  /\ chain \in Quantities
  /\ collateral \in Nat /\ inflight \in Nat
  /\ job \in [Payers -> {"none", "queued", "confirmed", "failed", "unlisted"}]
  /\ payout \in [Payers -> Nat]
  /\ accepted \in [Submitters -> Nat]

LedgerTypes ==
  /\ pos \in [Profiles -> Quantities]
  /\ order \in [Profiles -> [side : {"none", "BUY", "SELL"}, token : Outcomes \cup {"none"},
                              matched : BOOLEAN]]
  /\ cash \in [Profiles -> Int]
  /\ held \in [Profiles -> Nat]
  /\ local \in [Profiles -> [state : LocalStates, tx : BOOLEAN, expected : Nat]]
  /\ booked \in [Profiles -> Nat]

ReceiptTypes ==
  /\ shared \in [state : DOMAIN Transitions \cup {"none"}, winner : Outcomes \cup {"none"},
                  alloc : [Profiles -> Quantities], tx : BOOLEAN]
  /\ applied \subseteq Profiles

CycleTypes ==
  cycle \in [by : Profiles \cup {Nobody}, pc : PCs, seen : Nat \cup {Unsampled},
             answer : Answers \cup {"none"}, target : Profiles \cup {Nobody}]

CounterTypes == trades \in Nat /\ deposits \in Nat /\ crashes \in Nat

\* A frozen condition has a winner.
WinnerKnown == shared.state # "none" => shared.winner \in Outcomes

LEMMA Groups ==
  TypeOK <=> WorldTypes /\ LedgerTypes /\ ReceiptTypes /\ CycleTypes /\ CounterTypes
BY DEF TypeOK, WorldTypes, LedgerTypes, ReceiptTypes, CycleTypes, CounterTypes

\* Which steps leave a group of variables alone.
LEMMA LocalKeeps == LocalSteps => UNCHANGED <<receipt, counters>> /\ (UNCHANGED world \/ SubmitLocal)
<1> USE DEF SettleLocal, MarkLocal, Pass, Abort, ledgers
<1>1. SettleOfficial \/ BlockOfficial \/ PassOfficial => UNCHANGED <<receipt, counters, world>>
  BY DEF SettleOfficial, BlockOfficial, PassOfficial
<1>2. LoseLocalSubmission \/ QuarantineOverlap \/ SettleConfirmed
        => UNCHANGED <<receipt, counters, world>>
  BY DEF LoseLocalSubmission, QuarantineOverlap, SettleConfirmed
<1>3. RejectLocalConfirmation \/ AwaitLocalProof \/ RejectLocalRedemption
        => UNCHANGED <<receipt, counters, world>>
  BY DEF RejectLocalConfirmation, AwaitLocalProof, RejectLocalRedemption
<1>4. AwaitLocalRelayer \/ PassReconcile \/ Refresh \/ FailRefresh
        => UNCHANGED <<receipt, counters, world>>
  BY DEF AwaitLocalRelayer, PassReconcile, Refresh, FailRefresh
<1>5. SettlePlatformWinner \/ FailPlatformWinner \/ PassPlatform
        => UNCHANGED <<receipt, counters, world>>
  BY DEF SettlePlatformWinner, FailPlatformWinner, PassPlatform
<1>6. EndCycle \/ BlockAmbiguous \/ SettleLosing \/ StartLocal \/ FailStart
        => UNCHANGED <<receipt, counters, world>>
  BY DEF EndCycle, BlockAmbiguous, SettleLosing, StartLocal, FailStart
<1>7. RevalidateLocal \/ FailLocalRevalidation \/ RecordLocalAnswer
        => UNCHANGED <<receipt, counters, world>>
  BY DEF RevalidateLocal, FailLocalRevalidation, RecordLocalAnswer
<1>8. SubmitLocal => UNCHANGED <<receipt, counters>>
  BY DEF SubmitLocal, Post
<1> QED
  BY <1>1, <1>2, <1>3, <1>4, <1>5, <1>6, <1>7, <1>8 DEF LocalSteps

LEMMA ReceiptKeeps ==
  ReceiptSteps => UNCHANGED <<ledgers, counters>> /\ (UNCHANGED world \/ Submit)
<1> USE DEF Abort
<1>1. PassReceipt \/ ResumeDistribution \/ LoseSubmission \/ ProveUnknown
        => UNCHANGED <<ledgers, counters, world>>
  BY DEF PassReceipt, ResumeDistribution, LoseSubmission, ProveUnknown
<1>2. RejectConfirmation \/ AcceptConfirmation \/ AwaitProof \/ FailEvidence
        => UNCHANGED <<ledgers, counters, world>>
  BY DEF RejectConfirmation, AcceptConfirmation, AwaitProof, FailEvidence
<1>3. RejectRedemption \/ AwaitRelayer \/ StartSubmission \/ Revalidate
        => UNCHANGED <<ledgers, counters, world>>
  BY DEF RejectRedemption, AwaitRelayer, StartSubmission, Revalidate
<1>4. FailRevalidation \/ RecordAnswer => UNCHANGED <<ledgers, counters, world>>
  BY DEF FailRevalidation, RecordAnswer
<1>5. Submit => UNCHANGED <<ledgers, counters>>
  BY DEF Submit, Post
<1> QED
  BY <1>1, <1>2, <1>3, <1>4, <1>5 DEF ReceiptSteps

LEMMA FreezeKeeps == FreezeSteps => UNCHANGED <<world, ledgers, counters>>
<1>1. SkipFreeze \/ FreezeExact \/ FreezePlatform => UNCHANGED <<world, ledgers, counters>>
  BY DEF SkipFreeze, FreezeExact, FreezePlatform, Freeze
<1>2. MarkLoss \/ MarkPlatform => UNCHANGED <<world, ledgers, counters>>
  BY DEF MarkLoss, MarkPlatform
<1> QED
  BY <1>1, <1>2 DEF FreezeSteps

LEMMA DistributionKeeps == DistributionSteps => UNCHANGED <<world, counters>>
<1>1. ASSUME NEW q \in Profiles, BookAllocation(q) \/ SkipBooked(q) \/ FailDistribution(q)
      PROVE  UNCHANGED <<world, counters>>
  BY <1>1 DEF BookAllocation, SkipBooked, FailDistribution
<1>2. MarkApplied \/ CompleteDistribution => UNCHANGED <<world, counters>>
  BY DEF MarkApplied, CompleteDistribution
<1> QED
  BY <1>1, <1>2 DEF DistributionSteps

LEMMA NothingTyped == Nothing \in Quantities /\ \A o \in Outcomes : Nothing[o] = 0
BY DEF Nothing, Quantities

LEMMA KeepsWorldTypes == TypeOK /\ ReceiptAtStep /\ [Next]_vars => WorldTypes'
<1> SUFFICES ASSUME WorldTypes, TypeOK, ReceiptAtStep, [Next]_vars PROVE WorldTypes'
  BY Groups
<1>1. ASSUME UNCHANGED world PROVE WorldTypes'
  BY <1>1 DEF WorldTypes, world
<1>2. ASSUME NEW s \in Payers, NEW state \in {"confirmed", "unlisted"}, PayOut(s, state)
      PROVE  WorldTypes'
  <2>1. winner \in Outcomes
    BY <1>2 DEF WorldTypes, PayOut, Resolved
  <2>2. chain[winner] \in Nat
    BY <2>1 DEF WorldTypes, Quantities
  <2> QED
    BY <1>2, <2>2, NothingTyped DEF WorldTypes, PayOut
<1>3. ASSUME NEW p \in Profiles, MatchOrder(p) PROVE WorldTypes'
  BY <1>3 DEF WorldTypes, MatchOrder, Quantities, Outcomes
<1>4. ASSUME NEW p \in Profiles, OpenOrder(p) \/ CloseOrder(p) PROVE UNCHANGED world
  BY <1>4 DEF OpenOrder, CloseOrder
<1>5. ASSUME NEW s \in Submitters, Post(s) PROVE WorldTypes'
  BY <1>5 DEF WorldTypes, Post, Payers
<1>6. ASSUME NEW s \in Submitters, ConfirmRedemption(s) \/ FailRedemption(s) PROVE WorldTypes'
  <2>1. CASE ConfirmRedemption(s)
    BY <1>2, <2>1 DEF ConfirmRedemption, Payers
  <2>2. CASE FailRedemption(s)
    BY <2>2 DEF FailRedemption, WorldTypes
  <2> QED
    BY <1>6, <2>1, <2>2
<1>7. CASE SettlePlatform
  BY <1>2, <1>7 DEF SettlePlatform, Payers
<1>8. CASE Resolve \/ CreditCollateral \/ Deposit
  BY <1>8 DEF Resolve, CreditCollateral, Deposit, WorldTypes
<1>9. ASSUME NEW p \in Profiles, BeginCycle(p) PROVE UNCHANGED world
  BY <1>9 DEF BeginCycle
<1>10. Crash \/ UNCHANGED vars => UNCHANGED world
  BY DEF Crash, vars, world
<1>11. CASE Submit
  BY <1>5, <1>11 DEF Submit, Submitters
<1>12. CASE SubmitLocal
  <2>1. me \in Submitters
    BY <1>12 DEF SubmitLocal, At, ReceiptAtStep, me, Submitters
  <2> QED
    BY <1>5, <1>12, <2>1 DEF SubmitLocal
<1> QED
  BY <1>1, <1>3, <1>4, <1>6, <1>7, <1>8, <1>9, <1>10, <1>11, <1>12, FreezeKeeps, ReceiptKeeps,
     DistributionKeeps, LocalKeeps DEF Next, CycleSteps, Market, Outside

LEMMA KeepsCounterTypes == TypeOK /\ [Next]_vars => CounterTypes'
<1> SUFFICES ASSUME CounterTypes, [Next]_vars PROVE CounterTypes'
  BY Groups
<1>1. ASSUME UNCHANGED counters PROVE CounterTypes'
  BY <1>1 DEF CounterTypes, counters
<1>2. ASSUME NEW p \in Profiles, OpenOrder(p) PROVE CounterTypes'
  BY <1>2 DEF OpenOrder, CounterTypes
<1>3. CASE Deposit \/ Crash
  BY <1>3 DEF Deposit, Crash, CounterTypes
<1>4. ASSUME NEW p \in Profiles, MatchOrder(p) \/ CloseOrder(p) \/ BeginCycle(p)
      PROVE  UNCHANGED counters
  BY <1>4 DEF MatchOrder, CloseOrder, BeginCycle
<1>5. ASSUME NEW s \in Submitters, ConfirmRedemption(s) \/ FailRedemption(s)
      PROVE  UNCHANGED counters
  BY <1>5 DEF ConfirmRedemption, FailRedemption, PayOut
<1>6. Resolve \/ SettlePlatform \/ CreditCollateral \/ UNCHANGED vars => UNCHANGED counters
  BY DEF Resolve, SettlePlatform, CreditCollateral, PayOut, vars
<1> QED
  BY <1>1, <1>2, <1>3, <1>4, <1>5, <1>6, FreezeKeeps, ReceiptKeeps, DistributionKeeps,
     LocalKeeps DEF Next, CycleSteps, Market, Outside

LEMMA KeepsReceiptTypes ==
  TypeOK /\ ReceiptAtStep /\ WinnerKnown /\ MarkedIsBooked /\ [Next]_vars
    => ReceiptTypes' /\ WinnerKnown'
<1> SUFFICES ASSUME TypeOK, ReceiptTypes, WorldTypes, LedgerTypes, CycleTypes, ReceiptAtStep,
                    WinnerKnown, MarkedIsBooked, [Next]_vars
             PROVE  ReceiptTypes' /\ WinnerKnown'
  BY Groups
<1> DEFINE Goal == ReceiptTypes' /\ WinnerKnown'
<1>1. ASSUME UNCHANGED receipt PROVE Goal
  BY <1>1 DEF ReceiptTypes, WinnerKnown, receipt
<1>2. ASSUME NEW state \in DOMAIN Transitions, MarkShared(state), UNCHANGED applied,
             shared.state # "none"
      PROVE  Goal
  BY <1>2 DEF ReceiptTypes, WinnerKnown, MarkShared
<1>3. CASE FreezeExact \/ FreezePlatform
  <2>1. shared' = [state |-> "READY", winner |-> winner, alloc |-> pos, tx |-> FALSE]
        /\ applied' = applied /\ winner # "none"
    BY <1>3 DEF FreezeExact, FreezePlatform, Freeze, Resolved
  <2>2. winner \in Outcomes /\ pos \in [Profiles -> Quantities]
    BY <2>1 DEF WorldTypes, LedgerTypes
  <2> QED
    BY <2>1, <2>2, Table DEF ReceiptTypes, WinnerKnown
<1>4. CASE FreezeSteps
  <2>1. CASE SkipFreeze
    BY <1>1, <2>1 DEF SkipFreeze
  <2>2. CASE MarkLoss \/ MarkPlatform
    <3>1. shared.state = "READY"
      BY <2>2 DEF MarkLoss, MarkPlatform, At, ReceiptAtStep
    <3> QED
      BY <1>2, <2>2, <3>1, Table DEF MarkLoss, MarkPlatform
  <2> QED
    BY <1>3, <1>4, <2>1, <2>2 DEF FreezeSteps
<1>5. CASE RecordAnswer
  <2>1. cycle.answer \in Answers /\ shared.state = "SUBMIT_STARTED"
    BY <1>5 DEF RecordAnswer, At, ReceiptAtStep
  <2>2. AnswerState[cycle.answer] \in DOMAIN Transitions
    BY <2>1, AnswerMoves
  <2> QED
    BY <1>5, <2>1, <2>2 DEF RecordAnswer, ReceiptTypes, WinnerKnown
<1>6. CASE ReceiptSteps
  <2>1. CASE PassReceipt \/ ResumeDistribution \/ FailEvidence \/ Revalidate \/ Submit
    BY <1>1, <2>1 DEF PassReceipt, ResumeDistribution, FailEvidence, Revalidate, Submit, Post,
                      Abort
  <2>2. CASE LoseSubmission \/ ProveUnknown \/ StartSubmission
    BY <1>2, <2>2, Table DEF LoseSubmission, ProveUnknown, StartSubmission
  <2>3. CASE RejectConfirmation \/ AcceptConfirmation \/ AwaitProof
    BY <1>2, <2>3, Table DEF RejectConfirmation, AcceptConfirmation, AwaitProof, AwaitsRelayer
  <2>4. CASE RejectRedemption \/ AwaitRelayer
    BY <1>2, <2>4, Table DEF RejectRedemption, AwaitRelayer, AwaitsRelayer
  <2>5. CASE FailRevalidation
    <3>1. shared.state = "SUBMIT_STARTED"
      BY <2>5 DEF FailRevalidation, At, ReceiptAtStep
    <3> QED
      BY <1>2, <2>5, <3>1, Table DEF FailRevalidation
  <2> QED
    BY <1>5, <1>6, <2>1, <2>2, <2>3, <2>4, <2>5 DEF ReceiptSteps
<1>7. CASE DistributionSteps
  <2>1. ASSUME NEW q \in Profiles, BookAllocation(q) \/ SkipBooked(q) \/ FailDistribution(q)
        PROVE  UNCHANGED receipt
    BY <2>1 DEF BookAllocation, SkipBooked, FailDistribution
  <2>2. CASE MarkApplied
    <3>1. cycle.target \in Profiles
      BY <2>2 DEF MarkApplied, At, MarkedIsBooked
    <3> QED
      BY <2>2, <3>1 DEF MarkApplied, ReceiptTypes, WinnerKnown
  <2>3. CASE CompleteDistribution
    <3>1. shared.state \in Distributing
      BY <2>3 DEF CompleteDistribution, Applying, At, ReceiptAtStep, ApplySteps
    <3>2. EndOf[shared.state] \in DOMAIN Transitions
      BY <3>1, EndMoves
    <3> QED
      BY <1>2, <2>3, <3>1, <3>2 DEF CompleteDistribution
  <2> QED
    BY <1>1, <1>7, <2>1, <2>2, <2>3 DEF DistributionSteps
<1>8. ASSUME NEW p \in Profiles, OpenOrder(p) \/ MatchOrder(p) \/ CloseOrder(p) \/ BeginCycle(p)
      PROVE  UNCHANGED receipt
  BY <1>8 DEF OpenOrder, MatchOrder, CloseOrder, BeginCycle
<1>9. ASSUME NEW s \in Submitters, ConfirmRedemption(s) \/ FailRedemption(s)
      PROVE  UNCHANGED receipt
  BY <1>9 DEF ConfirmRedemption, FailRedemption, PayOut
<1>10. Resolve \/ SettlePlatform \/ CreditCollateral \/ Deposit \/ Crash \/ UNCHANGED vars
         => UNCHANGED receipt
  BY DEF Resolve, SettlePlatform, CreditCollateral, Deposit, Crash, PayOut, vars
<1> QED
  BY <1>1, <1>4, <1>6, <1>7, <1>8, <1>9, <1>10, LocalKeeps DEF Next, CycleSteps, Market, Outside

LEMMA HeldTyped ==
  ASSUME NEW quarantines \in [Profiles -> Nat], NEW total, NEW seen
  PROVE  HeldAfter(quarantines, total, seen) \in [Profiles -> Nat]
BY DEF HeldAfter

LEMMA FieldsTyped ==
  ASSUME NEW State, NEW f \in [Profiles -> [state : State, tx : BOOLEAN, expected : Nat]],
         NEW p \in Profiles, NEW state \in State, NEW tx \in BOOLEAN, NEW n \in Nat
  PROVE  /\ [f EXCEPT ![p].state = state, ![p].expected = n]
              \in [Profiles -> [state : State, tx : BOOLEAN, expected : Nat]]
         /\ [f EXCEPT ![p].state = state, ![p].tx = tx]
              \in [Profiles -> [state : State, tx : BOOLEAN, expected : Nat]]
<1> DEFINE R == [state : State, tx : BOOLEAN, expected : Nat]
           g == [f EXCEPT ![p].state = state]
<1>1. g \in [Profiles -> R]
  OBVIOUS
<1> HIDE DEF g
<1>2. [g EXCEPT ![p].expected = n] \in [Profiles -> R]
  BY <1>1
<1>3. [g EXCEPT ![p].tx = tx] \in [Profiles -> R]
  BY <1>1
<1> QED
  BY <1>2, <1>3 DEF g

LEMMA KeepsLedgerTypes ==
  TypeOK /\ ReceiptAtStep /\ WinnerKnown /\ [Next]_vars => LedgerTypes'
<1> SUFFICES ASSUME TypeOK, ReceiptTypes, WorldTypes, LedgerTypes, CycleTypes, ReceiptAtStep,
                    WinnerKnown, [Next]_vars
             PROVE  LedgerTypes'
  BY Groups
<1>1. ASSUME UNCHANGED ledgers PROVE LedgerTypes'
  BY <1>1 DEF LedgerTypes, ledgers
<1>2. cycle.pc # "idle" => me \in Profiles
  BY DEF ReceiptAtStep, me
<1>3. ASSUME NEW state \in LocalStates, NEW amount \in Nat, NEW quarantined \in BOOLEAN,
             SettleLocal(state, amount, quarantined), me \in Profiles
      PROVE  LedgerTypes'
  <2>1. pos' \in [Profiles -> Quantities]
    BY <1>3, NothingTyped DEF LedgerTypes, SettleLocal
  <2>2. cash' \in [Profiles -> Int]
    BY <1>3 DEF LedgerTypes, SettleLocal
  <2>3. held' \in [Profiles -> Nat]
    BY <1>3 DEF LedgerTypes, SettleLocal
  <2>4. booked' \in [Profiles -> Nat]
    BY <1>3 DEF LedgerTypes, SettleLocal
  <2>5. local' \in [Profiles -> [state : LocalStates, tx : BOOLEAN, expected : Nat]]
    <3>1. local \in [Profiles -> [state : LocalStates, tx : BOOLEAN, expected : Nat]]
      BY DEF LedgerTypes
    <3>2. local' = [local EXCEPT ![me].state = state, ![me].expected = amount]
      BY <1>3 DEF SettleLocal
    <3> QED
      BY <1>3, <3>1, <3>2, FieldsTyped
  <2>6. order' = order
    BY <1>3 DEF SettleLocal
  <2> QED
    BY <2>1, <2>2, <2>3, <2>4, <2>5, <2>6 DEF LedgerTypes
<1>4. ASSUME NEW state \in LocalStates, local' = [local EXCEPT ![me].state = state],
             UNCHANGED <<pos, order, cash, held, booked>>
      PROVE  LedgerTypes'
  BY <1>4, ZenonT(60) DEF LedgerTypes
<1>5. Settled \cup Underway \cup Handoff \cup SharedEnds \cup {"ERROR", OfficialBlock}
        \subseteq LocalStates
  BY DEF LocalStates
<1>6. ASSUME winner # "none", me \in Profiles PROVE WinnerQuantity(me) \in Nat
  BY <1>6 DEF WinnerQuantity, WorldTypes, LedgerTypes, Quantities
<1>7. \A s \in Payers : payout[s] \in Nat
  BY DEF WorldTypes
<1>8. ASSUME NEW q \in Profiles, BookAllocation(q) PROVE LedgerTypes'
  <2>1. shared.state \in Distributing
    BY <1>8 DEF BookAllocation, Applying, At, ReceiptAtStep, ApplySteps
  <2>2. Share(q) \in Nat
    BY <2>1 DEF Share, ReceiptTypes, WinnerKnown, Quantities
  <2>3. SleeveEnd[shared.state] \in LocalStates
    BY <1>5, <2>1, SleeveEnds
  <2>4. pos' \in [Profiles -> Quantities]
    BY <1>8, NothingTyped DEF LedgerTypes, BookAllocation
  <2>5. cash' \in [Profiles -> Int] /\ booked' \in [Profiles -> Nat]
    BY <1>8, <2>2 DEF LedgerTypes, BookAllocation
  <2>6. local' \in [Profiles -> [state : LocalStates, tx : BOOLEAN, expected : Nat]]
    BY <1>8, <2>2, <2>3 DEF LedgerTypes, BookAllocation
  <2>7. UNCHANGED <<order, held>>
    BY <1>8 DEF BookAllocation
  <2> QED
    BY <2>4, <2>5, <2>6, <2>7 DEF LedgerTypes
<1>9. CASE DistributionSteps
  <2>1. ASSUME NEW q \in Profiles, SkipBooked(q) \/ FailDistribution(q) PROVE UNCHANGED ledgers
    BY <2>1 DEF SkipBooked, FailDistribution
  <2>2. MarkApplied \/ CompleteDistribution => UNCHANGED ledgers
    BY DEF MarkApplied, CompleteDistribution
  <2> QED
    BY <1>1, <1>8, <1>9, <2>1, <2>2 DEF DistributionSteps
<1>10. CASE LocalSteps
  <2> USE <1>5
  <2>1. CASE SettleOfficial
    BY <1>2, <1>3, <1>7, <2>1 DEF SettleOfficial, At
  <2>2. CASE BlockOfficial \/ QuarantineOverlap \/ RejectLocalConfirmation
    BY <1>4, <2>2 DEF BlockOfficial, QuarantineOverlap, RejectLocalConfirmation, MarkLocal
  <2>3. CASE LoseLocalSubmission \/ AwaitLocalProof \/ RejectLocalRedemption
    BY <1>4, <2>3 DEF LoseLocalSubmission, AwaitLocalProof, RejectLocalRedemption, MarkLocal
  <2>4. CASE AwaitLocalRelayer
    BY <1>4, <2>4 DEF AwaitLocalRelayer, MarkLocal
  <2>5. CASE SettleConfirmed
    <3>1. me \in Profiles /\ me \in Payers
      BY <1>2, <2>5 DEF SettleConfirmed, Reconciled, At, Payers, Submitters
    <3>2. payout[me] \in Nat
      BY <1>7, <3>1
    <3>3. PICK state \in LocalStates : SettleLocal(state, payout[me], TRUE)
      BY <2>5 DEF SettleConfirmed
    <3> QED
      BY <1>3, <3>1, <3>2, <3>3
  <2>6. CASE PassOfficial \/ PassReconcile \/ FailRefresh \/ FailPlatformWinner \/ PassPlatform
    BY <1>1, <2>6 DEF PassOfficial, PassReconcile, FailRefresh, FailPlatformWinner, PassPlatform,
                      Pass, Abort
  <2>7. CASE Refresh
    <3>1. held' \in [Profiles -> Nat]
      BY <2>7, HeldTyped DEF LedgerTypes, Refresh
    <3> QED
      BY <2>7, <3>1 DEF LedgerTypes, Refresh
  <2>8. CASE SettlePlatformWinner
    <3>1. me \in Profiles /\ winner # "none"
      BY <1>2, <2>8 DEF SettlePlatformWinner, PlatformWinner, At, Resolved
    <3>2. WinnerQuantity(me) \in Nat
      BY <1>6, <3>1
    <3> QED
      BY <1>3, <2>8, <3>1, <3>2 DEF SettlePlatformWinner
  <2>9. CASE EndCycle \/ FailStart \/ RevalidateLocal \/ SubmitLocal
    BY <1>1, <2>9 DEF EndCycle, FailStart, RevalidateLocal, SubmitLocal, Pass, Abort, Post
  <2>10. CASE BlockAmbiguous
    BY <1>4, <2>10 DEF BlockAmbiguous
  <2>11. CASE FailLocalRevalidation
    BY <1>4, <2>11 DEF FailLocalRevalidation
  <2>12. CASE SettleLosing
    <3>1. me \in Profiles
      BY <1>2, <2>12 DEF SettleLosing, Redeemable, At
    <3>2. SettleLocal("LOSS_RESOLVED_NO_PAYOUT", 0, FALSE)
      BY <2>12 DEF SettleLosing
    <3> QED
      BY <1>3, <3>1, <3>2
  <2>13. CASE StartLocal
    <3>1. WinnerQuantity(me) \in Nat
      BY <1>2, <1>6, <2>13 DEF StartLocal, Redeemable, At, Resolved
    <3>3. local \in [Profiles -> [state : LocalStates, tx : BOOLEAN, expected : Nat]] /\ me \in Profiles
      BY <1>2, <2>13 DEF LedgerTypes, StartLocal, Redeemable, At
    <3>4. local' = [local EXCEPT ![me].state = "SUBMIT_STARTED", ![me].expected = WinnerQuantity(me)]
      BY <2>13 DEF StartLocal
    <3>5. "SUBMIT_STARTED" \in LocalStates
      OBVIOUS
    <3>2. local' \in [Profiles -> [state : LocalStates, tx : BOOLEAN, expected : Nat]]
      BY <3>1, <3>3, <3>4, <3>5, FieldsTyped
    <3> QED
      BY <2>13, <3>2 DEF LedgerTypes, StartLocal
  <2>14. CASE RecordLocalAnswer
    <3>1. cycle.answer \in Answers
      BY <2>14 DEF RecordLocalAnswer, At, ReceiptAtStep
    <3>2. AnswerState[cycle.answer] \in LocalStates
      BY <3>1 DEF AnswerState, Answers
    <3>4. local \in [Profiles -> [state : LocalStates, tx : BOOLEAN, expected : Nat]] /\ me \in Profiles
      BY <1>2, <2>14 DEF LedgerTypes, RecordLocalAnswer, At
    <3>5. local' = [local EXCEPT ![me].state = AnswerState[cycle.answer],
                                 ![me].tx = (cycle.answer = "id")]
      BY <2>14 DEF RecordLocalAnswer
    <3>3. local' \in [Profiles -> [state : LocalStates, tx : BOOLEAN, expected : Nat]]
      BY <3>2, <3>4, <3>5, FieldsTyped
    <3> QED
      BY <2>14, <3>3 DEF LedgerTypes, RecordLocalAnswer
  <2> QED
    BY <1>10, <2>1, <2>2, <2>3, <2>4, <2>5, <2>6, <2>7, <2>8, <2>9, <2>10, <2>11, <2>12, <2>13,
       <2>14 DEF LocalSteps
<1>11. ASSUME NEW p \in Profiles, OpenOrder(p) \/ MatchOrder(p) PROVE LedgerTypes'
  <2>1. order' \in [Profiles -> [side : {"none", "BUY", "SELL"}, token : Outcomes \cup {"none"},
                                 matched : BOOLEAN]]
    <3>1. CASE OpenOrder(p)
      BY <3>1 DEF LedgerTypes, OpenOrder
    <3>2. CASE MatchOrder(p)
      <4>1. order' = [order EXCEPT ![p].matched = TRUE]
        BY <3>2 DEF MatchOrder
      <4>2. order \in [Profiles -> [side : {"none", "BUY", "SELL"}, token : Outcomes \cup {"none"},
                                     matched : BOOLEAN]]
        BY DEF LedgerTypes
      <4> QED
        BY <4>1, <4>2
    <3> QED
      BY <1>11, <3>1, <3>2
  <2> QED
    BY <1>11, <2>1 DEF LedgerTypes, OpenOrder, MatchOrder
<1>12. ASSUME NEW p \in Profiles, CloseOrder(p) PROVE LedgerTypes'
  <2>1. order' \in [Profiles -> [side : {"none", "BUY", "SELL"}, token : Outcomes \cup {"none"},
                                 matched : BOOLEAN]]
    BY <1>12 DEF LedgerTypes, CloseOrder, NoOrder
  <2>2. held' \in [Profiles -> Nat]
    BY <1>12, HeldTyped DEF LedgerTypes, CloseOrder
  <2>3. cash' \in [Profiles -> Int]
    BY <1>12 DEF LedgerTypes, CloseOrder
  <2>4. pos' \in [Profiles -> Quantities]
    BY <1>12 DEF LedgerTypes, CloseOrder, Quantities
  <2> QED
    BY <1>12, <2>1, <2>2, <2>3, <2>4 DEF LedgerTypes, CloseOrder
<1>13. ASSUME NEW p \in Profiles, BeginCycle(p) PROVE LedgerTypes'
  <2>1. held' \in [Profiles -> Nat]
    BY <1>13, HeldTyped DEF LedgerTypes, BeginCycle
  <2> QED
    BY <1>13, <2>1 DEF LedgerTypes, BeginCycle
<1>14. ASSUME NEW s \in Submitters, ConfirmRedemption(s) \/ FailRedemption(s)
      PROVE  UNCHANGED ledgers
  BY <1>14 DEF ConfirmRedemption, FailRedemption, PayOut
<1>15. Resolve \/ SettlePlatform \/ CreditCollateral \/ Deposit \/ Crash \/ UNCHANGED vars
         => UNCHANGED ledgers
  BY DEF Resolve, SettlePlatform, CreditCollateral, Deposit, Crash, PayOut, vars
<1> QED
  BY <1>1, <1>9, <1>10, <1>11, <1>12, <1>13, <1>14, <1>15, FreezeKeeps, ReceiptKeeps
     DEF Next, CycleSteps, Market, Outside

LEMMA KeepsCycleTypes == TypeOK /\ ReceiptAtStep /\ [Next]_vars => CycleTypes'
<1> SUFFICES ASSUME WorldTypes, CycleTypes, ReceiptAtStep, [Next]_vars PROVE CycleTypes'
  BY Groups
<1>1. ASSUME UNCHANGED cycle PROVE CycleTypes'
  BY <1>1 DEF CycleTypes
<1>2. ASSUME NEW pc \in PCs, Go(pc) PROVE CycleTypes'
  BY <1>2 DEF CycleTypes, Go
<1>3. CASE cycle' = Idle
  BY <1>3 DEF CycleTypes, Idle, PCs
<1>4. ASSUME NEW pc \in PCs, NEW q \in Profiles \cup {Nobody},
             cycle' = [cycle EXCEPT !.pc = pc, !.target = q]
      PROVE  CycleTypes'
  BY <1>4 DEF CycleTypes
<1>5. ASSUME NEW s, Post(s) PROVE CycleTypes'
  <2>1. PICK answer \in Answers, pc \in {"record", "record own"} :
          cycle' = [cycle EXCEPT !.pc = pc, !.answer = answer]
    BY <1>5 DEF Post
  <2>2. pc \in PCs
    BY DEF PCs
  <2> QED
    BY <2>1, <2>2 DEF CycleTypes
<1>6. CASE FreezeSteps
  BY <1>2, <1>6 DEF FreezeSteps, SkipFreeze, FreezeExact, FreezePlatform, MarkLoss, MarkPlatform, PCs
<1>7. CASE ReceiptSteps
  <2>1. CASE PassReceipt \/ ResumeDistribution \/ LoseSubmission \/ ProveUnknown
    BY <1>2, <2>1 DEF PassReceipt, ResumeDistribution, LoseSubmission, ProveUnknown, PCs
  <2>2. CASE RejectConfirmation \/ AcceptConfirmation \/ AwaitProof
    BY <1>2, <2>2 DEF RejectConfirmation, AcceptConfirmation, AwaitProof, PCs
  <2>3. CASE RejectRedemption \/ AwaitRelayer \/ StartSubmission \/ Revalidate
    BY <1>2, <2>3 DEF RejectRedemption, AwaitRelayer, StartSubmission, Revalidate, PCs
  <2>4. CASE FailRevalidation
    BY <1>2, <2>4 DEF FailRevalidation, PCs
  <2>5. CASE FailEvidence
    BY <1>3, <2>5 DEF FailEvidence, Abort
  <2>6. CASE Submit
    BY <1>5, <2>6 DEF Submit
  <2>7. CASE RecordAnswer
    BY <2>7 DEF RecordAnswer, CycleTypes, PCs
  <2> QED
    BY <1>7, <2>1, <2>2, <2>3, <2>4, <2>5, <2>6, <2>7 DEF ReceiptSteps
<1>8. CASE DistributionSteps
  <2>1. {"mark", "mark quietly", "apply", "apply quietly", "official"} \subseteq PCs
    BY DEF PCs
  <2>2. ASSUME NEW q \in Profiles, BookAllocation(q) \/ SkipBooked(q) PROVE CycleTypes'
    <3>1. PICK pc \in {"mark", "mark quietly"} : cycle' = [cycle EXCEPT !.pc = pc, !.target = q]
      BY <2>2 DEF BookAllocation, SkipBooked
    <3> QED
      BY <1>4, <2>1, <3>1
  <2>3. ASSUME NEW q \in Profiles, FailDistribution(q) PROVE CycleTypes'
    BY <1>2, <1>3, <2>1, <2>3 DEF FailDistribution, Go
  <2>4. CASE MarkApplied
    <3>1. PICK pc \in {"apply", "apply quietly"} :
            cycle' = [cycle EXCEPT !.pc = pc, !.target = Nobody]
      BY <2>4 DEF MarkApplied
    <3> QED
      BY <1>4, <2>1, <3>1
  <2>5. CASE CompleteDistribution
    BY <1>2, <2>1, <2>5 DEF CompleteDistribution
  <2> QED
    BY <1>8, <2>2, <2>3, <2>4, <2>5 DEF DistributionSteps
<1>9. CASE LocalSteps
  <2>1. {"refresh", "reconcile", "platform", "redeem", "revalidate own", "submit own"} \subseteq PCs
    BY DEF PCs
  <2>2. CASE SettleOfficial \/ BlockOfficial \/ PassOfficial \/ LoseLocalSubmission
    BY <1>2, <2>1, <2>2 DEF SettleOfficial, BlockOfficial, PassOfficial, LoseLocalSubmission,
                            Pass, MarkLocal
  <2>3. CASE QuarantineOverlap \/ SettleConfirmed \/ RejectLocalConfirmation \/ AwaitLocalProof
    BY <1>2, <2>1, <2>3 DEF QuarantineOverlap, SettleConfirmed, RejectLocalConfirmation,
                            AwaitLocalProof, MarkLocal
  <2>4. CASE RejectLocalRedemption \/ AwaitLocalRelayer \/ PassReconcile \/ Refresh
    BY <1>2, <2>1, <2>4 DEF RejectLocalRedemption, AwaitLocalRelayer, PassReconcile, Refresh,
                            MarkLocal, Pass
  <2>5. CASE SettlePlatformWinner \/ PassPlatform \/ StartLocal \/ RevalidateLocal
    BY <1>2, <2>1, <2>5 DEF SettlePlatformWinner, PassPlatform, StartLocal, RevalidateLocal, Pass
  <2>6. CASE FailRefresh \/ FailPlatformWinner \/ FailStart
    BY <1>3, <2>6 DEF FailRefresh, FailPlatformWinner, FailStart, Abort
  <2>7. CASE EndCycle \/ BlockAmbiguous \/ SettleLosing \/ FailLocalRevalidation
    BY <1>3, <2>7 DEF EndCycle, BlockAmbiguous, SettleLosing, FailLocalRevalidation
  <2>8. CASE RecordLocalAnswer
    BY <1>3, <2>8 DEF RecordLocalAnswer
  <2>9. CASE SubmitLocal
    BY <1>5, <2>9 DEF SubmitLocal
  <2> QED
    BY <1>9, <2>2, <2>3, <2>4, <2>5, <2>6, <2>7, <2>8, <2>9 DEF LocalSteps
<1>10. ASSUME NEW p \in Profiles, OpenOrder(p) \/ MatchOrder(p) \/ CloseOrder(p)
       PROVE  UNCHANGED cycle
  BY <1>10 DEF OpenOrder, MatchOrder, CloseOrder
<1>11. ASSUME NEW p \in Profiles, BeginCycle(p) PROVE CycleTypes'
  <2>1. PICK seen \in {collateral, Unsampled} :
          cycle' = [by |-> p, pc |-> "freeze", seen |-> seen, answer |-> "none", target |-> Nobody]
    BY <1>11 DEF BeginCycle
  <2>2. seen \in Nat \cup {Unsampled}
    BY DEF WorldTypes
  <2> QED
    BY <2>1, <2>2 DEF CycleTypes, PCs
<1>12. ASSUME NEW s \in Submitters, ConfirmRedemption(s) \/ FailRedemption(s)
       PROVE  UNCHANGED cycle
  BY <1>12 DEF ConfirmRedemption, FailRedemption, PayOut
<1>13. Resolve \/ SettlePlatform \/ CreditCollateral \/ Deposit \/ UNCHANGED vars
         => UNCHANGED cycle
  BY DEF Resolve, SettlePlatform, CreditCollateral, Deposit, PayOut, vars
<1>14. CASE Crash
  BY <1>3, <1>14 DEF Crash
<1> QED
  BY <1>1, <1>6, <1>7, <1>8, <1>9, <1>10, <1>11, <1>12, <1>13, <1>14
     DEF Next, CycleSteps, Market, Outside

-----------------------------------------------------------------------------
(* Theorems *)

\* Everything the induction carries.
Invariant == Guarded /\ WinnerKnown

\* The sleeves are finitely many: what they have together is a number.
LEMMA TotalNat ==
  ASSUME NEW f \in [Profiles -> Nat] PROVE SumFunction(f) \in Nat
BY SumNat DEF SumFunction, Nats

LEMMA Opens == Init => Invariant
<1> SUFFICES ASSUME Init PROVE Invariant
  OBVIOUS
<1>1. WorldTypes
  <2>1. pos \in Openings
    BY DEF Init
  <2>2. chain = [o \in Outcomes |-> SumFunction([p \in Profiles |-> pos[p][o]])]
    BY DEF Init, Attributed
  <2>3. chain \in Quantities
    <3>1. ASSUME NEW o \in Outcomes
          PROVE  SumFunction([p \in Profiles |-> pos[p][o]]) \in Nat
      BY <2>1, TotalNat DEF Quantities
    <3> QED
      BY <2>2, <3>1 DEF Quantities
  <2>4. collateral \in Nat
    BY TotalNat DEF Init
  <2> QED
    BY <2>3, <2>4 DEF Init, WorldTypes
<1>2. LedgerTypes
  <2>1. pos \in [Profiles -> Quantities]
    BY DEF Init
  <2>2. local \in [Profiles -> [state : LocalStates, tx : BOOLEAN, expected : Nat]]
    BY DEF Init, NoLocal, LocalStates
  <2>3. cash \in [Profiles -> Int]
    BY DEF Init
  <2> QED
    BY <2>1, <2>2, <2>3 DEF Init, LedgerTypes, NoOrder
<1>3. ReceiptTypes
  BY NothingTyped DEF Init, ReceiptTypes, NoShared
<1>4. CycleTypes
  BY DEF Init, CycleTypes, Idle, PCs
<1>5. CounterTypes
  BY DEF Init, CounterTypes
<1>6. cycle.pc = "idle" /\ shared.state = "none" /\ applied = {}
  BY DEF Init, Idle, NoShared
<1>7. \A s \in Submitters : accepted[s] = 0
  BY DEF Init
<1>8. Wallet \in Submitters /\ Profiles \subseteq Submitters
  BY DEF Submitters
<1>9. ReceiptAtStep
  BY <1>6 DEF ReceiptAtStep, ApplySteps, OwnSteps
<1>10. SubmissionShows
  BY <1>6, <1>7, <1>8 DEF SubmissionShows
<1>11. OneRedemption
  BY <1>7 DEF OneRedemption
<1>12. NoLocalTakeover /\ MarkedIsBooked /\ FinishedIsBooked /\ WinnerKnown
  BY <1>6 DEF NoLocalTakeover, MarkedIsBooked, FinishedIsBooked, WinnerKnown
<1> QED
  BY <1>1, <1>2, <1>3, <1>4, <1>5, <1>9, <1>10, <1>11, <1>12, Groups DEF Invariant, Guarded

LEMMA Stays == Invariant /\ [Next]_vars => Invariant'
<1> SUFFICES ASSUME TypeOK, ReceiptAtStep, SubmissionShows, OneRedemption, NoLocalTakeover,
                    MarkedIsBooked, FinishedIsBooked, WinnerKnown, [Next]_vars
             PROVE  Invariant'
  BY DEF Invariant, Guarded
<1>1. Effects
  BY StepEffects
<1>2. TypeOK' /\ WinnerKnown'
  <2>1. WorldTypes' /\ LedgerTypes' /\ ReceiptTypes' /\ WinnerKnown' /\ CycleTypes' /\ CounterTypes'
    BY KeepsWorldTypes, KeepsLedgerTypes, KeepsReceiptTypes, KeepsCycleTypes, KeepsCounterTypes
  <2> QED
    BY <2>1 DEF TypeOK, WorldTypes, LedgerTypes, ReceiptTypes, CycleTypes, CounterTypes
<1>3. ReceiptAtStep' /\ SubmissionShows'
  BY <1>1, KeepsReceiptAtStep, KeepsSubmissionShows
<1>4. OneRedemption' /\ NoLocalTakeover'
  BY <1>1, KeepsOneRedemption, KeepsNoLocalTakeover
<1>5. MarkedIsBooked' /\ FinishedIsBooked'
  BY <1>1, KeepsMarkedIsBooked, KeepsFinishedIsBooked
<1> QED
  BY <1>2, <1>3, <1>4, <1>5 DEF Invariant, Guarded

\* The inductive invariant holds of every behaviour: receipts, submissions and
\* the cycle stay in step, whatever crashes and whatever answer is lost.
THEOREM InvariantHolds == Spec => []Invariant
BY Opens, Stays, PTL DEF Spec

\* Every ledger, receipt and cycle keeps its type.
THEOREM TypeCorrect == Spec => []TypeOK
<1>1. Invariant => TypeOK
  BY DEF Invariant, Guarded
<1> QED
  BY <1>1, InvariantHolds, PTL

\* A condition is never redeemed twice, for any number of sleeves, crashes and
\* lost answers.
THEOREM RedeemedOnce == Spec => []OneRedemption
<1>1. Invariant => OneRedemption
  BY DEF Invariant, Guarded
<1> QED
  BY <1>1, InvariantHolds, PTL

\* After the freeze no sleeve acts on the condition by itself.
THEOREM FrozenStaysShared == Spec => []NoLocalTakeover
<1>1. Invariant => NoLocalTakeover
  BY DEF Invariant, Guarded
<1> QED
  BY <1>1, InvariantHolds, PTL

\* A finished distribution is in the ledger of every owner.
THEOREM DistributionIsBooked == Spec => []FinishedIsBooked
<1>1. Invariant => FinishedIsBooked
  BY DEF Invariant, Guarded
<1> QED
  BY <1>1, InvariantHolds, PTL

\* The coordinator's receipt only takes transitions of the table.
THEOREM TableFollowed == Spec => FollowsTable
<1>1. Invariant /\ [Next]_vars =>
        [shared.state' # shared.state =>
           IF shared.state = "none" THEN shared.state' = "READY"
           ELSE shared.state' \in Transitions[shared.state]]_vars
  BY StepEffects, TakesTheTable DEF Invariant, Guarded
<1> QED
  BY <1>1, InvariantHolds, PTL DEF Spec, FollowsTable

-----------------------------------------------------------------------------
(* The money: what a step moves *)

money == <<winner, chain, collateral, inflight, payout, pos, order, cash, booked, deposits>>

\* A step that leaves the money where it is and, at most, queues or refuses a
\* redemption.
Idles == UNCHANGED money

\* Something is paid out, the first time for this payer.
Pays == \E s \in Payers, state \in {"confirmed", "unlisted"} :
  /\ job[s] = "queued" \/ (job[s] = "none" /\ s = Platform)
  /\ PayOut(s, state)

\* A sleeve settles its own receipt.
SettlesAlone == SettleOfficial \/ SettleConfirmed \/ SettlePlatformWinner \/ SettleLosing

\* A ledger books an amount and gives up its position.
Books(p, amount) ==
  /\ pos' = [pos EXCEPT ![p] = Nothing]
  /\ cash' = [cash EXCEPT ![p] = @ + amount]
  /\ booked' = [booked EXCEPT ![p] = @ + amount]
  /\ UNCHANGED <<world, order, receipt, counters>>

MoneyMoves ==
  \/ Idles
  \/ Market
  \/ Resolve \/ CreditCollateral \/ Deposit
  \/ Pays
  \/ SettlesAlone
  \/ \E q \in Profiles : BookAllocation(q)

LEMMA PostIdles == \A s : Post(s) => Idles
BY DEF Post, Idles, money, ledgers, counters

LEMMA LocalIdles == LocalSteps => Idles \/ SettlesAlone
<1> USE DEF Idles, money, world, ledgers, counters, MarkLocal, Pass, Abort, SettlesAlone
<1>1. BlockOfficial \/ PassOfficial \/ LoseLocalSubmission \/ QuarantineOverlap => Idles
  BY DEF BlockOfficial, PassOfficial, LoseLocalSubmission, QuarantineOverlap
<1>2. RejectLocalConfirmation \/ AwaitLocalProof \/ RejectLocalRedemption => Idles
  BY DEF RejectLocalConfirmation, AwaitLocalProof, RejectLocalRedemption
<1>3. AwaitLocalRelayer \/ PassReconcile \/ Refresh \/ FailRefresh => Idles
  BY DEF AwaitLocalRelayer, PassReconcile, Refresh, FailRefresh
<1>4. FailPlatformWinner \/ PassPlatform \/ EndCycle \/ BlockAmbiguous => Idles
  BY DEF FailPlatformWinner, PassPlatform, EndCycle, BlockAmbiguous
<1>5. StartLocal \/ FailStart \/ RevalidateLocal \/ FailLocalRevalidation \/ RecordLocalAnswer => Idles
  BY DEF StartLocal, FailStart, RevalidateLocal, FailLocalRevalidation, RecordLocalAnswer
<1>6. SubmitLocal => Idles
  BY PostIdles DEF SubmitLocal
<1> QED
  BY <1>1, <1>2, <1>3, <1>4, <1>5, <1>6 DEF LocalSteps

LEMMA StepMoney == [Next]_vars => MoneyMoves
<1> SUFFICES ASSUME [Next]_vars PROVE MoneyMoves
  OBVIOUS
<1> USE DEF MoneyMoves
<1>1. CASE FreezeSteps
  BY <1>1, FreezeKeeps DEF Idles, money, world, ledgers, counters
<1>2. CASE ReceiptSteps
  <2>1. Submit => Idles
    BY PostIdles DEF Submit
  <2> QED
    BY <1>2, <2>1, ReceiptKeeps DEF Idles, money, world, ledgers, counters
<1>3. CASE DistributionSteps
  <2>1. ASSUME NEW q \in Profiles, SkipBooked(q) \/ FailDistribution(q) PROVE Idles
    BY <2>1 DEF SkipBooked, FailDistribution, Idles, money, world, ledgers, counters
  <2>2. MarkApplied \/ CompleteDistribution => Idles
    BY DEF MarkApplied, CompleteDistribution, Idles, money, world, ledgers, counters
  <2> QED
    BY <1>3, <2>1, <2>2 DEF DistributionSteps
<1>4. CASE LocalSteps
  BY <1>4, LocalIdles
<1>5. ASSUME NEW p \in Profiles, BeginCycle(p) PROVE Idles
  BY <1>5 DEF BeginCycle, Idles, money, world, counters
<1>6. Crash \/ UNCHANGED vars => Idles
  BY DEF Crash, vars, Idles, money, world, ledgers, counters
<1>7. ASSUME NEW s \in Submitters, ConfirmRedemption(s) \/ FailRedemption(s) PROVE Idles \/ Pays
  BY <1>7 DEF ConfirmRedemption, FailRedemption, Pays, Payers, Idles, money, ledgers, counters
<1>8. SettlePlatform => Pays
  BY DEF SettlePlatform, Pays, Payers
<1> QED
  BY <1>1, <1>2, <1>3, <1>4, <1>5, <1>6, <1>7, <1>8 DEF Next, CycleSteps, Outside

\* What each settlement of a sleeve's own receipt books: a payout, nothing, or
\* the winners nobody has.
Alone(amount) ==
  /\ me \in Profiles
  /\ Books(me, amount)
  /\ ~Managed /\ Holds(me)
  /\ local[me].state \in {"none"} \cup Handoff \cup Underway
  /\ local'[me].state \in Settled
  /\ \A p \in Profiles \ {me} : local'[p] = local[p]
  /\ \/ \E s \in Payers : amount = payout[s]
     \/ amount = 0
     \/ amount = WinnerQuantity(me) /\ Resolved /\ Gone /\ order[me] = NoOrder

LEMMA SettledAs ==
  ASSUME TypeOK, NEW state \in Settled, NEW amount, NEW quarantined, me \in Profiles,
         SettleLocal(state, amount, quarantined)
  PROVE  /\ Books(me, amount)
         /\ local'[me].state \in Settled
         /\ \A p \in Profiles \ {me} : local'[p] = local[p]
<1>1. Books(me, amount)
  BY DEF SettleLocal, Books
<1>2. local' = [local EXCEPT ![me].state = state, ![me].expected = amount]
  BY DEF SettleLocal
<1> QED
  BY <1>1, <1>2, Typed

LEMMA AloneBooks ==
  ASSUME TypeOK, ReceiptAtStep, SettlesAlone PROVE \E amount : Alone(amount)
<1>1. me \in Profiles
  BY DEF SettlesAlone, SettleOfficial, SettleConfirmed, Reconciled, SettlePlatformWinner,
         PlatformWinner, SettleLosing, Redeemable, At, ReceiptAtStep, me
<1>2. CASE SettleOfficial
  <2>1. PICK s \in Payers : SettleLocal("REDEEMED_OFFICIAL_ACTIVITY_VERIFIED", payout[s], TRUE)
    BY <1>2 DEF SettleOfficial
  <2>2. /\ ~Managed /\ Holds(me)
        /\ local[me].state \in {"none"} \cup Handoff \cup Underway
    BY <1>2 DEF SettleOfficial, OfficialMatch
  <2>3. Alone(payout[s])
    BY <1>1, <2>1, <2>2, SettledAs DEF Alone
  <2> QED
    BY <2>3
<1>3. CASE SettleConfirmed
  <2>1. /\ ~Managed /\ Holds(me)
        /\ local[me].state \in Underway
    BY <1>3 DEF SettleConfirmed, Reconciled
  <2>2. PICK state \in Settled : SettleLocal(state, payout[me], TRUE)
    BY <1>3 DEF SettleConfirmed
  <2>3. me \in Payers
    BY <1>1 DEF Payers, Submitters
  <2>4. Alone(payout[me])
    BY <1>1, <2>1, <2>2, <2>3, SettledAs DEF Alone
  <2> QED
    BY <2>4
<1>4. CASE SettlePlatformWinner
  <2>1. /\ ~Managed /\ Holds(me) /\ Resolved /\ Gone /\ order[me] = NoOrder
        /\ local[me].state \in {"none"} \cup Handoff \cup Underway
    BY <1>4 DEF SettlePlatformWinner, PlatformWinner, PlatformBookable
  <2>2. SettleLocal("REDEEMED_PLATFORM_SETTLEMENT_VERIFIED", WinnerQuantity(me), FALSE)
    BY <1>4 DEF SettlePlatformWinner
  <2>3. Alone(WinnerQuantity(me))
    BY <1>1, <2>1, <2>2, SettledAs DEF Alone
  <2> QED
    BY <2>3
<1>5. CASE SettleLosing
  <2>1. /\ ~Managed /\ Holds(me)
        /\ local[me].state \in {"none"} \cup Handoff \cup Underway
    BY <1>5 DEF SettleLosing, Redeemable
  <2>2. SettleLocal("LOSS_RESOLVED_NO_PAYOUT", 0, FALSE)
    BY <1>5 DEF SettleLosing
  <2>3. Alone(0)
    BY <1>1, <2>1, <2>2, SettledAs DEF Alone
  <2> QED
    BY <2>3
<1> QED
  BY <1>2, <1>3, <1>4, <1>5 DEF SettlesAlone

\* What a redemption has paid: nothing before the resolution, nothing before it
\* confirms, and nobody's job is older than its submission.
Jobs ==
  /\ ~Resolved => \A s \in Payers : payout[s] = 0
  /\ \A s \in Submitters : accepted[s] = 0 => job[s] = "none"
  /\ \A s \in Payers : job[s] \in {"none", "queued", "failed"} => payout[s] = 0

LEMMA JobMoves ==
  [Next]_vars =>
    \/ UNCHANGED <<job, payout, accepted>> /\ (UNCHANGED winner \/ Resolve)
    \/ Pays
    \/ \E s \in Submitters : FailRedemption(s)
    \/ Submit \/ SubmitLocal
<1> SUFFICES ASSUME [Next]_vars
             PROVE  \/ UNCHANGED <<job, payout, accepted>> /\ (UNCHANGED winner \/ Resolve)
                    \/ Pays
                    \/ \E s \in Submitters : FailRedemption(s)
                    \/ Submit \/ SubmitLocal
  OBVIOUS
<1> USE DEF world
<1>1. CASE FreezeSteps \/ ReceiptSteps \/ DistributionSteps \/ LocalSteps
  BY <1>1, FreezeKeeps, ReceiptKeeps, DistributionKeeps, LocalKeeps
<1>2. ASSUME NEW p \in Profiles, OpenOrder(p) \/ MatchOrder(p) \/ CloseOrder(p) \/ BeginCycle(p)
      PROVE  UNCHANGED <<job, payout, accepted, winner>>
  BY <1>2 DEF OpenOrder, MatchOrder, CloseOrder, BeginCycle
<1>3. Crash \/ CreditCollateral \/ Deposit \/ UNCHANGED vars
        => UNCHANGED <<job, payout, accepted, winner>>
  BY DEF Crash, CreditCollateral, Deposit, vars
<1>4. ASSUME NEW s \in Submitters, ConfirmRedemption(s) PROVE Pays
  BY <1>4 DEF ConfirmRedemption, Pays, Payers
<1>5. SettlePlatform => Pays
  BY DEF SettlePlatform, Pays, Payers
<1>6. Resolve => UNCHANGED <<job, payout, accepted>>
  BY DEF Resolve
<1> QED
  BY <1>1, <1>2, <1>3, <1>4, <1>5, <1>6 DEF Next, CycleSteps, Market, Outside

LEMMA KeepsJobs ==
  TypeOK /\ ReceiptAtStep /\ SubmissionShows /\ Jobs /\ [Next]_vars => Jobs'
<1> SUFFICES ASSUME TypeOK, WorldTypes, ReceiptAtStep, SubmissionShows, Jobs, [Next]_vars
             PROVE  Jobs'
  BY Groups
<1> USE DEF Jobs
<1>1. CASE UNCHANGED <<job, payout, accepted>> /\ (UNCHANGED winner \/ Resolve)
  BY <1>1 DEF Resolve, Resolved
<1>2. CASE Pays
  <2>1. PICK s \in Payers, state \in {"confirmed", "unlisted"} :
          (job[s] = "queued" \/ (job[s] = "none" /\ s = Platform)) /\ PayOut(s, state)
    BY <1>2 DEF Pays
  <2>2. /\ job' = [job EXCEPT ![s] = state] /\ payout' = [payout EXCEPT ![s] = chain[winner]]
        /\ Resolved /\ winner' = winner /\ accepted' = accepted
    BY <2>1 DEF PayOut
  <2> QED
    BY <2>1, <2>2 DEF Resolved, WorldTypes, Payers
<1>3. ASSUME NEW s \in Submitters, FailRedemption(s) PROVE Jobs'
  BY <1>3 DEF FailRedemption, WorldTypes, Payers, Resolved
<1>4. ASSUME NEW s \in Submitters, Post(s), accepted[s] = 0 PROVE Jobs'
  <2>1. job[s] = "none" /\ payout[s] = 0 /\ s \in Payers
    BY <1>4 DEF Payers
  <2>2. CASE job' = [job EXCEPT ![s] = "queued"] /\ accepted' = [accepted EXCEPT ![s] = @ + 1]
    <3>1. payout' = payout /\ winner' = winner
      BY <1>4 DEF Post
    <3>2. accepted'[s] = 1 /\ \A r \in Submitters \ {s} : accepted'[r] = accepted[r]
      BY <1>4, <2>2 DEF WorldTypes
    <3>3. job'[s] = "queued" /\ \A r \in Payers \ {s} : job'[r] = job[r]
      BY <2>1, <2>2 DEF WorldTypes
    <3> QED
      BY <2>1, <3>1, <3>2, <3>3 DEF Resolved, Payers
  <2>3. CASE UNCHANGED <<job, accepted>>
    BY <1>4, <2>3 DEF Post, Resolved
  <2> QED
    BY <1>4, <2>2, <2>3 DEF Post
<1>5. CASE Submit
  BY <1>4, <1>5 DEF Submit, At, SubmissionShows, Submitters
<1>6. CASE SubmitLocal
  <2>1. me \in Submitters
    BY <1>6 DEF SubmitLocal, At, ReceiptAtStep, Submitters, me
  <2> QED
    BY <1>4, <1>6, <2>1 DEF SubmitLocal, At, SubmissionShows
<1> QED
  BY <1>1, <1>2, <1>3, <1>5, <1>6, JobMoves

-----------------------------------------------------------------------------
(* Collateral: what the ledgers have without the payouts they booked *)

Bought(p) == order[p].matched /\ order[p].side = "BUY"
Sold(p) == order[p].matched /\ order[p].side = "SELL"
Proceeds(p) == IF Bought(p) THEN -1 ELSE IF Sold(p) THEN 1 ELSE 0

\* Cash of a sleeve once its order is reconciled, were nothing redeemed.
Own == [p \in Profiles |-> cash[p] - booked[p] + Proceeds(p)]
OwnTotal == SumFunctionOnSet(Own, Profiles)
Paid == SumFunctionOnSet(payout, Payers)

\* It is in the wallet, once payouts and deposits are taken out.
Balanced == OwnTotal = collateral + inflight - Paid - deposits

LEMMA PayersFinite == IsFiniteSet(Payers)
<1>1. IsFiniteSet(Profiles \cup {Wallet})
  BY FS_AddElement
<1> QED
  BY <1>1, FS_AddElement DEF Payers, Submitters

LEMMA OwnTyped == TypeOK => Ints(Own, Profiles) /\ OwnTotal \in Int
<1> SUFFICES ASSUME TypeOK, LedgerTypes PROVE Ints(Own, Profiles) /\ OwnTotal \in Int
  BY Groups
<1>1. \A p \in Profiles : Proceeds(p) \in Int
  BY DEF Proceeds
<1>2. Ints(Own, Profiles)
  BY <1>1 DEF Ints, Own, LedgerTypes
<1> QED
  BY <1>2, SumType DEF OwnTotal

LEMMA PaidTyped == TypeOK => Nats(payout, Payers) /\ Ints(payout, Payers) /\ Paid \in Nat
<1> SUFFICES ASSUME TypeOK, WorldTypes PROVE Nats(payout, Payers) /\ Ints(payout, Payers) /\ Paid \in Nat
  BY Groups
<1>1. Nats(payout, Payers) /\ Ints(payout, Payers)
  BY DEF Nats, Ints, WorldTypes
<1> QED
  BY <1>1, PayersFinite, SumNat DEF Paid

\* One sleeve's cash changes by n.
LEMMA OwnChanges ==
  ASSUME TypeOK, TypeOK', NEW p \in Profiles, NEW n \in Int, Own'[p] = Own[p] + n,
         \A q \in Profiles \ {p} : Own'[q] = Own[q]
  PROVE  OwnTotal' = OwnTotal + n
<1>1. Ints(Own, Profiles)
  BY OwnTyped
<1>2. (TypeOK => Ints(Own, Profiles))'
  BY OwnTyped, PTL
<1>3. PICK f, g : f = Own /\ g = Own'
  OBVIOUS
<1>4. Ints(f, Profiles) /\ Ints(g, Profiles)
  BY <1>1, <1>2, <1>3 DEF Ints
<1>5. g[p] = f[p] + n /\ \A q \in Profiles \ {p} : g[q] = f[q]
  BY <1>3
<1>6. SumFunctionOnSet(g, Profiles) = SumFunctionOnSet(f, Profiles) + n
  <2>1. ASSUME NEW S, IsFiniteSet(S), Ints(f, S), Ints(g, S), NEW x \in S,
               g[x] = f[x] + n, \A y \in S \ {x} : g[y] = f[y]
        PROVE  SumFunctionOnSet(g, S) = SumFunctionOnSet(f, S) + n
    BY <2>1, SumGrows
  <2> QED
    BY <1>4, <1>5, <2>1
<1> QED
  BY <1>3, <1>6 DEF OwnTotal

LEMMA OwnStays ==
  ASSUME \A q \in Profiles : Own'[q] = Own[q]
  PROVE  OwnTotal' = OwnTotal
<1>1. PICK f, g : f = Own /\ g = Own'
  OBVIOUS
<1>3. \A q \in Profiles : f[q] = g[q]
  BY <1>1
<1>2. SumFunctionOnSet(f, Profiles) = SumFunctionOnSet(g, Profiles)
  BY <1>3, SumSame
<1> QED
  BY <1>1, <1>2 DEF OwnTotal

\* A payout adds what the chain transfers.
LEMMA PaysMore ==
  ASSUME TypeOK, TypeOK', Jobs, Pays
  PROVE  /\ Resolved /\ chain[winner] \in Nat
         /\ Paid' = Paid + chain[winner]
         /\ inflight' = inflight + chain[winner]
         /\ chain' = Nothing
         /\ UNCHANGED <<winner, collateral, ledgers, receipt, cycle, counters>>
<1>1. PICK s \in Payers, state \in {"confirmed", "unlisted"} :
        (job[s] = "queued" \/ (job[s] = "none" /\ s = Platform)) /\ PayOut(s, state)
  BY DEF Pays
<1>2. WorldTypes
  BY Groups
<1>3. Resolved /\ winner \in Outcomes
  BY <1>1, <1>2 DEF PayOut, Resolved, WorldTypes
<1>4. PICK n \in Nat : n = chain[winner]
  BY <1>2, <1>3 DEF WorldTypes, Quantities
<1>5. payout[s] = 0
  BY <1>1 DEF Jobs
<1>6. PICK f, g : f = payout /\ g = payout'
  OBVIOUS
<1>7. g = [f EXCEPT ![s] = n] /\ f \in [Payers -> Nat]
  BY <1>1, <1>2, <1>4, <1>6 DEF PayOut, WorldTypes
<1>8. /\ Ints(f, Payers) /\ Ints(g, Payers)
      /\ g[s] = n /\ f[s] = 0 /\ \A r \in Payers \ {s} : g[r] = f[r]
  BY <1>5, <1>6, <1>7 DEF Ints
<1>9. SumFunctionOnSet(g, Payers) = SumFunctionOnSet(f, Payers) - f[s] + g[s]
  BY <1>8, PayersFinite, SumChanged
<1>10. PICK k \in Int : k = SumFunctionOnSet(f, Payers)
  BY <1>8, PayersFinite, SumType
<1>11. SumFunctionOnSet(g, Payers) = k + n
  BY <1>8, <1>9, <1>10
<1>12. Paid' = Paid + chain[winner]
  BY <1>4, <1>6, <1>10, <1>11 DEF Paid
<1> QED
  BY <1>1, <1>3, <1>4, <1>12 DEF PayOut, ledgers, receipt, counters

\* An order is for an outcome.
OrdersNamed ==
  \A p \in Profiles : order[p] # NoOrder => order[p].token \in Outcomes /\ order[p].side # "none"

LEMMA KeepsOrdersNamed == TypeOK /\ OrdersNamed /\ MoneyMoves => OrdersNamed'
<1> SUFFICES ASSUME LedgerTypes, OrdersNamed, MoneyMoves PROVE OrdersNamed'
  BY Groups
<1>1. ASSUME UNCHANGED order PROVE OrdersNamed'
  BY <1>1 DEF OrdersNamed
<1>2. ASSUME NEW p \in Profiles, NEW o \in Outcomes, NEW side \in {"BUY", "SELL"},
             order' = [order EXCEPT ![p] = [side |-> side, token |-> o, matched |-> FALSE]]
      PROVE  OrdersNamed'
  <2>1. order'[p].token = o /\ order'[p].side = side /\ \A q \in Profiles \ {p} : order'[q] = order[q]
    BY <1>2 DEF LedgerTypes
  <2> QED
    BY <2>1 DEF OrdersNamed
<1>3. ASSUME NEW p \in Profiles, OpenOrder(p) PROVE OrdersNamed'
  BY <1>2, <1>3 DEF OpenOrder
<1>4. ASSUME NEW p \in Profiles, CloseOrder(p) PROVE OrdersNamed'
  <2>1. order'[p] = NoOrder /\ \A q \in Profiles \ {p} : order'[q] = order[q]
    BY <1>4 DEF CloseOrder, LedgerTypes
  <2> QED
    BY <2>1 DEF OrdersNamed, NoOrder
<1>5. ASSUME NEW p \in Profiles, MatchOrder(p) PROVE OrdersNamed'
  <2>1. order' = [order EXCEPT ![p].matched = TRUE] /\ order[p] # NoOrder
    BY <1>5 DEF MatchOrder
  <2>2. order'[p].token = order[p].token /\ order'[p].side = order[p].side
    BY <2>1 DEF LedgerTypes
  <2>3. \A q \in Profiles \ {p} : order'[q] = order[q]
    BY <2>1 DEF LedgerTypes
  <2> QED
    BY <2>1, <2>2, <2>3 DEF OrdersNamed
<1>6. Idles \/ Resolve \/ CreditCollateral \/ Deposit \/ Pays => UNCHANGED order
  BY DEF Idles, money, Resolve, CreditCollateral, Deposit, Pays, PayOut, ledgers
<1>7. SettlesAlone => UNCHANGED order
  BY DEF SettlesAlone, SettleOfficial, SettleConfirmed, SettlePlatformWinner, SettleLosing,
         SettleLocal
<1>8. ASSUME NEW q \in Profiles, BookAllocation(q) PROVE UNCHANGED order
  BY <1>8 DEF BookAllocation
<1> QED
  BY <1>1, <1>3, <1>4, <1>5, <1>6, <1>7, <1>8 DEF MoneyMoves, Market

\* The ledger entries of the other sleeves stay.
LEMMA OthersStay ==
  ASSUME LedgerTypes, NEW p \in Profiles, OpenOrder(p) \/ MatchOrder(p) \/ CloseOrder(p)
  PROVE  /\ \A q \in Profiles \ {p} : UNCHANGED <<pos[q], order[q], cash[q]>>
         /\ UNCHANGED <<winner, inflight, job, payout, accepted, local, booked, receipt, cycle,
                        deposits>>
<1>1. CASE OpenOrder(p)
  BY <1>1 DEF OpenOrder, LedgerTypes, world
<1>2. CASE MatchOrder(p)
  BY <1>2 DEF MatchOrder, LedgerTypes, counters
<1>3. CASE CloseOrder(p)
  BY <1>3 DEF CloseOrder, LedgerTypes, counters, world
<1> QED
  BY <1>1, <1>2, <1>3

\* What a match moves: the chain, and the collateral the other way.
LEMMA Matches ==
  ASSUME LedgerTypes, WorldTypes, OrdersNamed, NEW p \in Profiles, MatchOrder(p)
  PROVE  /\ ~order[p].matched /\ order[p].side \in {"BUY", "SELL"} /\ order[p].token \in Outcomes
         /\ order'[p].matched /\ order'[p].side = order[p].side /\ order'[p].token = order[p].token
         /\ LET n == IF order[p].side = "BUY" THEN 1 ELSE -1 IN
              /\ chain' = [chain EXCEPT ![order[p].token] = @ + n]
              /\ collateral' = collateral - n
         /\ UNCHANGED <<pos, cash>>
<1>1. order' = [order EXCEPT ![p].matched = TRUE] /\ UNCHANGED <<pos, cash>>
  BY DEF MatchOrder
<1>2. /\ order'[p].matched /\ order'[p].side = order[p].side
      /\ order'[p].token = order[p].token
  BY <1>1 DEF LedgerTypes
<1>3. ~order[p].matched /\ order[p].side \in {"BUY", "SELL"} /\ order[p].token \in Outcomes
  BY DEF MatchOrder, OrdersNamed
<1>4. CASE order[p].side = "BUY"
  BY <1>1, <1>2, <1>3, <1>4 DEF MatchOrder
<1>5. CASE order[p].side = "SELL"
  <2>1. /\ chain' = [chain EXCEPT ![order[p].token] = @ - 1]
        /\ collateral' = collateral + 1
    BY <1>5 DEF MatchOrder
  <2>2. chain[order[p].token] - 1 = chain[order[p].token] + (-1) /\ collateral + 1 = collateral - (-1)
    <3>1. collateral \in Int
      BY DEF WorldTypes
    <3>2. order[p].token \in Outcomes
      BY DEF OrdersNamed, MatchOrder
    <3> QED
      BY <3>1, <3>2 DEF WorldTypes, Quantities
  <2> QED
    BY <1>1, <1>2, <1>3, <1>5, <2>1, <2>2
<1> QED
  BY <1>3, <1>4, <1>5

\* What closing an order books.
LEMMA Closes ==
  ASSUME LedgerTypes, NEW p \in Profiles, CloseOrder(p)
  PROVE  /\ order'[p] = NoOrder
         /\ ~order[p].matched => UNCHANGED <<pos[p], cash[p]>>
         /\ Bought(p) => /\ pos'[p] = [pos[p] EXCEPT ![order[p].token] = @ + 1]
                         /\ cash'[p] = cash[p] - 1
         /\ Sold(p) => /\ pos[p][order[p].token] > 0
                       /\ pos'[p] = [pos[p] EXCEPT ![order[p].token] = @ - 1]
                       /\ cash'[p] = cash[p] + 1
         /\ order[p].matched => Bought(p) \/ Sold(p)
         /\ UNCHANGED <<chain, collateral>>
BY DEF CloseOrder, LedgerTypes, Bought, Sold, world

LEMMA OwnIs == \A p \in Profiles : Own[p] = cash[p] - booked[p] + Proceeds(p)
BY DEF Own

LEMMA OwnWillBe == \A p \in Profiles : Own'[p] = cash'[p] - booked'[p] + Proceeds(p)'
BY DEF Own

LEMMA TradesBalance ==
  ASSUME TypeOK, TypeOK', OrdersNamed, Balanced, NEW p \in Profiles,
         OpenOrder(p) \/ MatchOrder(p) \/ CloseOrder(p)
  PROVE  Balanced'
<1>1. LedgerTypes /\ WorldTypes /\ LedgerTypes' /\ deposits \in Nat
  BY Groups DEF TypeOK, LedgerTypes
<1>2. /\ \A q \in Profiles \ {p} : UNCHANGED <<order[q], cash[q]>>
      /\ UNCHANGED <<inflight, payout, booked, deposits>>
  BY <1>1, OthersStay
<1>3. \A q \in Profiles \ {p} : Own'[q] = Own[q]
  BY <1>2, OwnIs, OwnWillBe DEF Proceeds, Bought, Sold
<1>4. Paid' = Paid
  BY <1>2 DEF Paid
<1>5. \A q \in Profiles : cash[q] \in Int /\ booked[q] \in Int
  BY <1>1 DEF LedgerTypes
<1>6. CASE OpenOrder(p)
  <2>1. order[p] = NoOrder /\ ~order'[p].matched /\ UNCHANGED <<cash, collateral>>
    BY <1>1, <1>6 DEF OpenOrder, world, LedgerTypes
  <2>2. Own'[p] = Own[p]
    <3>1. Proceeds(p) = 0
      BY <2>1 DEF Proceeds, Bought, Sold, NoOrder
    <3>2. Proceeds(p)' = 0
      BY <2>1 DEF Proceeds, Bought, Sold
    <3> QED
      BY <1>2, <2>1, <3>1, <3>2, OwnIs, OwnWillBe
  <2>3. OwnTotal' = OwnTotal
    BY <1>3, <2>2, OwnStays
  <2> QED
    BY <1>2, <1>4, <2>1, <2>3 DEF Balanced
<1>7. CASE CloseOrder(p)
  <2>1. Own'[p] = Own[p]
    <3>1. Proceeds(p)' = 0
      <4>1. order'[p] = NoOrder
        BY <1>1, <1>7, Closes
      <4>2. ~order'[p].matched
        BY <4>1 DEF NoOrder
      <4> QED
        BY <4>2 DEF Proceeds, Bought, Sold
    <3>2. cash'[p] = cash[p] + Proceeds(p)
      <4>1. CASE Bought(p)
        BY <1>1, <1>5, <1>7, <4>1, Closes DEF Proceeds
      <4>2. CASE Sold(p)
        <5>1. ~Bought(p)
          BY <4>2 DEF Bought, Sold
        <5> QED
          BY <1>1, <1>5, <1>7, <4>2, <5>1, Closes DEF Proceeds
      <4>3. CASE ~order[p].matched
        <5>1. cash'[p] = cash[p]
          BY <1>1, <1>7, <4>3, Closes
        <5>2. Proceeds(p) = 0
          BY <4>3 DEF Proceeds, Bought, Sold
        <5> QED
          BY <1>5, <5>1, <5>2
      <4> QED
        BY <1>1, <1>7, <4>1, <4>2, <4>3, Closes
    <3>3. Proceeds(p) \in Int /\ booked'[p] = booked[p]
      BY <1>2 DEF Proceeds
    <3>4. /\ Own[p] = cash[p] - booked[p] + Proceeds(p)
          /\ Own'[p] = cash'[p] - booked[p] + 0
      BY <3>1, <3>3, OwnIs, OwnWillBe
    <3> QED
      BY <1>5, <3>2, <3>3, <3>4
  <2>2. OwnTotal' = OwnTotal
    BY <1>3, <2>1, OwnStays
  <2> QED
    BY <1>1, <1>2, <1>4, <1>7, <2>2, Closes DEF Balanced
<1>8. CASE MatchOrder(p)
  <2> DEFINE n == IF order[p].side = "BUY" THEN 1 ELSE -1
  <2>1. collateral' = collateral - n /\ cash' = cash
    BY <1>1, <1>8, Matches
  <2>2. Proceeds(p) = 0 /\ Proceeds(p)' = -n
    BY <1>1, <1>8, Matches DEF Proceeds, Bought, Sold
  <2>3. Own'[p] = Own[p] + (-n)
    <3>1. n \in Int /\ booked'[p] = booked[p]
      BY <1>2
    <3> HIDE DEF n
    <3>2. /\ Own[p] = cash[p] - booked[p] + 0
          /\ Own'[p] = cash[p] - booked[p] + (-n)
      BY <2>1, <2>2, <3>1, OwnIs, OwnWillBe
    <3> QED
      BY <1>5, <3>1, <3>2
  <2>4. OwnTotal' = OwnTotal + (-n)
    <3>1. -n \in Int
      OBVIOUS
    <3> HIDE DEF n
    <3> QED
      BY <1>3, <2>3, <3>1, OwnChanges
  <2>5. n \in Int /\ collateral \in Int /\ inflight \in Int /\ Paid \in Int /\ OwnTotal \in Int
    BY <1>1, OwnTyped, PaidTyped DEF WorldTypes
  <2> HIDE DEF n
  <2>6. OwnTotal' = collateral - n + inflight - Paid - deposits
    BY <1>1, <2>4, <2>5 DEF Balanced
  <2> QED
    BY <1>2, <1>4, <2>1, <2>6 DEF Balanced
<1> QED
  BY <1>6, <1>7, <1>8

LEMMA ShareTyped ==
  ASSUME TypeOK, WinnerKnown, shared.state # "none", NEW q \in Profiles PROVE Share(q) \in Nat
<1>1. shared.alloc \in [Profiles -> Quantities] /\ shared.winner \in Outcomes
  BY Typed DEF WinnerKnown
<1> QED
  BY <1>1 DEF Share, Quantities

LEMMA KeepsBalanced ==
  TypeOK /\ TypeOK' /\ ReceiptAtStep /\ WinnerKnown /\ OrdersNamed /\ Jobs /\ Balanced
    /\ MoneyMoves => Balanced'
<1> SUFFICES ASSUME TypeOK, TypeOK', ReceiptAtStep, WinnerKnown, OrdersNamed, Jobs, Balanced,
                    MoneyMoves
             PROVE Balanced'
  OBVIOUS
<1>1. LedgerTypes /\ WorldTypes /\ LedgerTypes' /\ WorldTypes' /\ deposits \in Nat
  BY Groups DEF TypeOK, LedgerTypes, WorldTypes
<1>2. OwnTotal \in Int /\ Paid \in Int
  BY OwnTyped, PaidTyped
<1>3. ASSUME UNCHANGED <<cash, booked, order>> PROVE OwnTotal' = OwnTotal
  BY <1>3, OwnIs, OwnWillBe, OwnStays DEF Proceeds, Bought, Sold
<1>4. CASE Idles
  BY <1>3, <1>4 DEF Idles, money, Balanced, Paid
<1>5. CASE Market
  BY <1>5, TradesBalance DEF Market
<1>6. CASE Resolve
  BY <1>3, <1>6 DEF Resolve, Balanced, Paid, ledgers, counters
<1>7. CASE CreditCollateral
  <2>1. collateral' = collateral + inflight /\ inflight' = 0 /\ deposits' = deposits
    BY <1>7 DEF CreditCollateral, counters
  <2>2. OwnTotal' = OwnTotal /\ Paid' = Paid
    BY <1>3, <1>7 DEF CreditCollateral, ledgers, Paid
  <2> QED
    BY <1>1, <1>2, <2>1, <2>2 DEF Balanced, WorldTypes
<1>8. CASE Deposit
  <2>1. collateral' = collateral + 1 /\ inflight' = inflight /\ deposits' = deposits + 1
    BY <1>8 DEF Deposit
  <2>2. OwnTotal' = OwnTotal /\ Paid' = Paid
    BY <1>3, <1>8 DEF Deposit, ledgers, Paid
  <2> QED
    BY <1>1, <1>2, <2>1, <2>2 DEF Balanced, WorldTypes
<1>9. CASE Pays
  <2>1. PICK n \in Nat : n = chain[winner]
    BY <1>9, PaysMore
  <2>2. /\ Paid' = Paid + n /\ inflight' = inflight + n
        /\ UNCHANGED <<collateral, deposits, cash, booked, order>>
    BY <1>9, <2>1, PaysMore DEF ledgers, counters
  <2>3. OwnTotal' = OwnTotal
    BY <1>3, <2>2
  <2> QED
    BY <1>1, <1>2, <2>2, <2>3 DEF Balanced, WorldTypes
<1>10. ASSUME NEW p \in Profiles, NEW amount \in Int, Books(p, amount) PROVE Balanced'
  <2>1. \A q \in Profiles : Own'[q] = Own[q]
    <3>1. \A q \in Profiles : cash[q] \in Int /\ booked[q] \in Int
      BY <1>1 DEF LedgerTypes
    <3>2. \A q \in Profiles \ {p} : cash'[q] = cash[q] /\ booked'[q] = booked[q]
      BY <1>1, <1>10 DEF Books, LedgerTypes
    <3>3. cash'[p] = cash[p] + amount /\ booked'[p] = booked[p] + amount
      BY <1>1, <1>10 DEF Books, LedgerTypes
    <3>4. \A q \in Profiles : Proceeds(q)' = Proceeds(q) /\ Proceeds(q) \in Int
      BY <1>10 DEF Books, Proceeds, Bought, Sold
    <3> QED
      BY <3>1, <3>2, <3>3, <3>4, OwnIs, OwnWillBe
  <2>2. OwnTotal' = OwnTotal
    BY <2>1, OwnStays
  <2> QED
    BY <1>10, <2>2 DEF Books, Balanced, Paid, world, counters
<1>11. CASE SettlesAlone
  <2>1. PICK amount : Alone(amount)
    BY <1>11, AloneBooks
  <2>2. amount \in Int
    BY <1>1, <2>1, Typed DEF Alone, WorldTypes, LedgerTypes, WinnerQuantity, Quantities, Resolved
  <2> QED
    BY <1>10, <2>1, <2>2 DEF Alone
<1>12. ASSUME NEW q \in Profiles, BookAllocation(q) PROVE Balanced'
  <2>1. Books(q, Share(q))
    BY <1>12 DEF BookAllocation, Books
  <2>2. Share(q) \in Int
    <3>1. shared.state # "none"
      BY <1>12 DEF BookAllocation, Applying, At, ReceiptAtStep, ApplySteps
    <3> QED
      BY <3>1, ShareTyped
  <2> QED
    BY <1>10, <2>1, <2>2
<1> QED
  BY <1>4, <1>5, <1>6, <1>7, <1>8, <1>9, <1>11, <1>12 DEF MoneyMoves

-----------------------------------------------------------------------------
(* Tokens: what the ledgers are entitled to, as long as nothing was settled *)

Untouched == \A p \in Profiles : local[p].state \notin Settled \cup SharedEnds

\* A settled ledger stays settled, and nothing else in it moves.
LEMMA LocalSettledStays ==
  ASSUME TypeOK, ReceiptAtStep, LocalSteps, NEW p \in Profiles,
         local[p].state \in Settled \cup SharedEnds
  PROVE  local'[p] = local[p]
<1>1. local \in [Profiles -> [state : LocalStates, tx : BOOLEAN, expected : Nat]]
  BY Typed
<1>2. ASSUME local[me].state \notin Settled \cup SharedEnds,
             \A q \in Profiles \ {me} : local'[q] = local[q]
      PROVE  local'[p] = local[p]
  <2>1. p # me
    BY <1>2
  <2> QED
    BY <1>2, <2>1
<1>3. ASSUME NEW state, NEW pc, MarkLocal(state, pc) PROVE \A q \in Profiles \ {me} : local'[q] = local[q]
  BY <1>1, <1>3 DEF MarkLocal
<1>4. CASE SettlesAlone
  <2>1. PICK amount : Alone(amount)
    BY <1>4, AloneBooks
  <2> QED
    BY <1>2, <2>1 DEF Alone
<1>5. CASE BlockOfficial \/ QuarantineOverlap \/ RejectLocalConfirmation \/ AwaitLocalProof
  BY <1>2, <1>3, <1>5 DEF BlockOfficial, QuarantineOverlap, RejectLocalConfirmation, AwaitLocalProof,
                          Reconciled
<1>6. CASE RejectLocalRedemption \/ AwaitLocalRelayer \/ LoseLocalSubmission
  BY <1>2, <1>3, <1>6 DEF RejectLocalRedemption, AwaitLocalRelayer, LoseLocalSubmission, Reconciled
<1>7. CASE StartLocal \/ BlockAmbiguous
  BY <1>1, <1>2, <1>7 DEF StartLocal, BlockAmbiguous, Redeemable
<1>8. CASE FailLocalRevalidation \/ RecordLocalAnswer
  <2>1. local[me].state = "SUBMIT_STARTED"
    BY <1>8 DEF FailLocalRevalidation, RecordLocalAnswer, At, ReceiptAtStep, OwnSteps
  <2>2. \A q \in Profiles \ {me} : local'[q] = local[q]
    BY <1>1, <1>8 DEF FailLocalRevalidation, RecordLocalAnswer
  <2> QED
    BY <1>2, <2>1, <2>2
<1>9. PassOfficial \/ PassReconcile \/ Refresh \/ FailRefresh \/ FailPlatformWinner => local' = local
  BY DEF PassOfficial, PassReconcile, Refresh, FailRefresh, FailPlatformWinner, Pass, Abort, ledgers
<1>10. PassPlatform \/ EndCycle \/ FailStart \/ RevalidateLocal \/ SubmitLocal => local' = local
  BY DEF PassPlatform, EndCycle, FailStart, RevalidateLocal, SubmitLocal, Post, Pass, Abort, ledgers
<1> QED
  BY <1>4, <1>5, <1>6, <1>7, <1>8, <1>9, <1>10 DEF LocalSteps, SettlesAlone

LEMMA SettledStays ==
  ASSUME TypeOK, ReceiptAtStep, SubmissionShows, NoLocalTakeover, [Next]_vars,
         NEW p \in Profiles, local[p].state \in Settled \cup SharedEnds
  PROVE  local'[p] = local[p]
<1>1. CASE LocalSteps
  BY <1>1, LocalSettledStays
<1>2. CASE FreezeSteps \/ ReceiptSteps
  BY <1>2, FreezeKeeps, ReceiptKeeps DEF ledgers
<1>3. CASE DistributionSteps
  <2>1. ASSUME NEW q \in Profiles, BookAllocation(q) PROVE local'[p] = local[p]
    <3>1. /\ local[q].state \in Handoff \cup {"none"}
          /\ \A r \in Profiles \ {q} : local'[r] = local[r]
      BY <2>1, Typed DEF BookAllocation, SleeveReady
    <3> QED
      BY <3>1
  <2>2. ASSUME NEW q \in Profiles, SkipBooked(q) \/ FailDistribution(q) PROVE local' = local
    BY <2>2 DEF SkipBooked, FailDistribution, ledgers
  <2>3. MarkApplied \/ CompleteDistribution => local' = local
    BY DEF MarkApplied, CompleteDistribution, ledgers
  <2> QED
    BY <1>3, <2>1, <2>2, <2>3 DEF DistributionSteps
<1>4. ASSUME NEW q \in Profiles,
             OpenOrder(q) \/ MatchOrder(q) \/ CloseOrder(q) \/ BeginCycle(q)
      PROVE  local' = local
  BY <1>4 DEF OpenOrder, MatchOrder, CloseOrder, BeginCycle
<1>5. ASSUME NEW s \in Submitters, ConfirmRedemption(s) \/ FailRedemption(s) PROVE local' = local
  BY <1>5 DEF ConfirmRedemption, FailRedemption, PayOut, ledgers
<1>6. Resolve \/ SettlePlatform \/ CreditCollateral \/ Deposit => local' = local
  BY DEF Resolve, SettlePlatform, CreditCollateral, Deposit, PayOut, ledgers
<1>7. Crash \/ UNCHANGED vars => local' = local
  BY DEF Crash, ledgers, vars
<1> QED
  BY <1>1, <1>2, <1>3, <1>4, <1>5, <1>6, <1>7 DEF Next, CycleSteps, Market, Outside

\* What the order of a sleeve does to its position once it is reconciled.
Fill(p, o) ==
  IF order[p].token # o THEN 0 ELSE IF Bought(p) THEN 1 ELSE IF Sold(p) THEN -1 ELSE 0

Entitled(o) == [p \in Profiles |-> pos[p][o] + Fill(p, o)]
EntitledTo(o) == SumFunctionOnSet(Entitled(o), Profiles)

\* What is sold is held.
Sellable ==
  Untouched => \A p \in Profiles : order[p].side = "SELL" => pos[p][order[p].token] > 0

\* The wallet holds what the sleeves are entitled to, or was paid for it.
TokensAddUp ==
  Untouched =>
    \A o \in Outcomes : (~Resolved \/ o = winner) => EntitledTo(o) = chain[o] + Paid

LEMMA EntitledTyped ==
  TypeOK => \A o \in Outcomes : Ints(Entitled(o), Profiles) /\ EntitledTo(o) \in Int
<1> SUFFICES ASSUME TypeOK, LedgerTypes, NEW o \in Outcomes
             PROVE  Ints(Entitled(o), Profiles) /\ EntitledTo(o) \in Int
  BY Groups
<1>1. \A p \in Profiles : Fill(p, o) \in Int
  BY DEF Fill
<1>2. Ints(Entitled(o), Profiles)
  BY <1>1 DEF Ints, Entitled, LedgerTypes, Quantities
<1> QED
  BY <1>2, SumType DEF EntitledTo

LEMMA EntitledTypedNext ==
  (TypeOK => \A o \in Outcomes : Ints(Entitled(o), Profiles) /\ EntitledTo(o) \in Int)'
BY EntitledTyped, PTL

\* One sleeve is entitled to n more.
LEMMA EntitledChanges ==
  ASSUME TypeOK, TypeOK', NEW o \in Outcomes, NEW p \in Profiles, NEW n \in Int,
         Entitled(o)'[p] = Entitled(o)[p] + n,
         \A q \in Profiles \ {p} : Entitled(o)'[q] = Entitled(o)[q]
  PROVE  EntitledTo(o)' = EntitledTo(o) + n
<1>1. Ints(Entitled(o), Profiles)
  BY EntitledTyped
<1>2. Ints(Entitled(o), Profiles)'
  BY EntitledTypedNext
<1>3. PICK f, g : f = Entitled(o) /\ g = Entitled(o)'
  OBVIOUS
<1>4. Ints(f, Profiles) /\ Ints(g, Profiles)
  BY <1>1, <1>2, <1>3 DEF Ints
<1>5. g[p] = f[p] + n /\ \A q \in Profiles \ {p} : g[q] = f[q]
  BY <1>3
<1>6. SumFunctionOnSet(g, Profiles) = SumFunctionOnSet(f, Profiles) + n
  <2>1. ASSUME NEW S, IsFiniteSet(S), Ints(f, S), Ints(g, S), NEW x \in S,
               g[x] = f[x] + n, \A y \in S \ {x} : g[y] = f[y]
        PROVE  SumFunctionOnSet(g, S) = SumFunctionOnSet(f, S) + n
    BY <2>1, SumGrows
  <2> QED
    BY <1>4, <1>5, <2>1
<1> QED
  BY <1>3, <1>6 DEF EntitledTo

LEMMA EntitledStays ==
  ASSUME NEW o \in Outcomes, \A q \in Profiles : Entitled(o)'[q] = Entitled(o)[q]
  PROVE  EntitledTo(o)' = EntitledTo(o)
<1>1. PICK f, g : f = Entitled(o) /\ g = Entitled(o)'
  OBVIOUS
<1>2. \A q \in Profiles : f[q] = g[q]
  BY <1>1
<1>3. SumFunctionOnSet(f, Profiles) = SumFunctionOnSet(g, Profiles)
  BY <1>2, SumSame
<1> QED
  BY <1>1, <1>3 DEF EntitledTo

LEMMA EntitledIs ==
  \A o : \A p \in Profiles : Entitled(o)[p] = pos[p][o] + Fill(p, o)
BY DEF Entitled

LEMMA EntitledWillBe ==
  \A o : \A p \in Profiles : Entitled(o)'[p] = pos'[p][o] + Fill(p, o)'
BY DEF Entitled

\* An allocation is booked by a ledger that was not settled, and ends it.
LEMMA AllocationEnds ==
  ASSUME TypeOK, ReceiptAtStep, NEW q \in Profiles, BookAllocation(q)
  PROVE  /\ local[q].state \in Handoff \cup {"none"}
         /\ local'[q].state \in SharedEnds
         /\ \A p \in Profiles \ {q} : local'[p] = local[p]
<1> DEFINE r == [state |-> SleeveEnd[shared.state], tx |-> FALSE, expected |-> Share(q)]
<1>1. local' = [local EXCEPT ![q] = r] /\ local[q].state \in Handoff \cup {"none"}
  BY DEF BookAllocation, SleeveReady
<1>2. DOMAIN local = Profiles
  BY Typed
<1>3. shared.state \in Distributing
  BY DEF BookAllocation, Applying, At, ReceiptAtStep, ApplySteps
<1>4. r.state \in SharedEnds
  BY <1>3, SleeveEnds
<1> HIDE DEF r
<1>5. local'[q] = r /\ \A p \in Profiles \ {q} : local'[p] = local[p]
  BY <1>1, <1>2
<1> QED
  BY <1>1, <1>4, <1>5

\* A settlement leaves a ledger that was settled.
LEMMA BookedIsTouched ==
  ASSUME TypeOK, ReceiptAtStep,
         SettlesAlone \/ \E q \in Profiles : BookAllocation(q)
  PROVE  ~Untouched'
<1>1. CASE SettlesAlone
  <2>1. PICK amount : Alone(amount)
    BY <1>1, AloneBooks
  <2> QED
    BY <2>1 DEF Alone, Untouched
<1>2. ASSUME NEW q \in Profiles, BookAllocation(q) PROVE ~Untouched'
  BY <1>2, AllocationEnds DEF Untouched
<1> QED
  BY <1>1, <1>2

LEMMA UntouchedBefore ==
  ASSUME TypeOK, ReceiptAtStep, SubmissionShows, NoLocalTakeover, [Next]_vars, Untouched'
  PROVE  Untouched
BY SettledStays DEF Untouched

LEMMA KeepsSellable ==
  ASSUME TypeOK, ReceiptAtStep, OrdersNamed, Sellable, MoneyMoves, Untouched' => Untouched
  PROVE  Sellable'
<1> SUFFICES ASSUME Untouched, Untouched', NEW p \in Profiles, order'[p].side = "SELL"
             PROVE  pos'[p][order'[p].token] > 0
  BY DEF Sellable
<1>1. LedgerTypes
  BY Groups
<1>2. order[p].side = "SELL" => pos[p][order[p].token] > 0
  BY DEF Sellable
<1>3. ASSUME UNCHANGED <<pos[p], order[p]>> PROVE pos'[p][order'[p].token] > 0
  BY <1>2, <1>3
<1>4. CASE Idles \/ Resolve \/ CreditCollateral \/ Deposit \/ Pays
  BY <1>3, <1>4 DEF Idles, money, Resolve, CreditCollateral, Deposit, Pays, PayOut, ledgers
<1>5. ASSUME NEW q \in Profiles, OpenOrder(q) \/ MatchOrder(q) \/ CloseOrder(q)
      PROVE  pos'[p][order'[p].token] > 0
  <2>1. CASE p # q
    BY <1>1, <1>3, <1>5, <2>1, OthersStay
  <2>2. CASE p = q /\ OpenOrder(p)
    <3>1. PICK side \in {"BUY", "SELL"}, o \in Outcomes :
            /\ IF side = "BUY" THEN cash[p] > 0 ELSE pos[p][o] > 0
            /\ order' = [order EXCEPT ![p] = [side |-> side, token |-> o, matched |-> FALSE]]
      BY <2>2 DEF OpenOrder
    <3>2. order'[p].side = side /\ order'[p].token = o
      BY <1>1, <3>1 DEF LedgerTypes
    <3> QED
      BY <2>2, <3>1, <3>2 DEF OpenOrder
  <2>3. CASE p = q /\ MatchOrder(p)
    <3>1. /\ order' = [order EXCEPT ![p].matched = TRUE] /\ pos' = pos
      BY <2>3 DEF MatchOrder
    <3>2. order'[p].side = order[p].side /\ order'[p].token = order[p].token
      BY <1>1, <3>1 DEF LedgerTypes
    <3> QED
      BY <1>2, <3>1, <3>2
  <2>4. CASE p = q /\ CloseOrder(p)
    <3>1. order'[p] = NoOrder
      BY <1>1, <2>4, Closes
    <3> QED
      BY <3>1 DEF NoOrder
  <2> QED
    BY <1>5, <2>1, <2>2, <2>3, <2>4
<1>6. ~SettlesAlone /\ ~\E q \in Profiles : BookAllocation(q)
  BY BookedIsTouched
<1> QED
  BY <1>4, <1>5, <1>6 DEF MoneyMoves, Market

LEMMA TradesAddUp ==
  ASSUME TypeOK, TypeOK', OrdersNamed, NEW p \in Profiles,
         OpenOrder(p) \/ MatchOrder(p) \/ CloseOrder(p), NEW o \in Outcomes,
         EntitledTo(o) = chain[o] + Paid
  PROVE  EntitledTo(o)' = chain'[o] + Paid'
<1>1. LedgerTypes /\ WorldTypes /\ LedgerTypes' /\ WorldTypes'
  BY Groups DEF TypeOK, LedgerTypes, WorldTypes
<1>2. /\ \A q \in Profiles \ {p} : UNCHANGED <<order[q], pos[q]>>
      /\ UNCHANGED payout
  BY <1>1, OthersStay
<1>3. \A q \in Profiles \ {p} : Entitled(o)'[q] = Entitled(o)[q]
  BY <1>2, EntitledIs, EntitledWillBe DEF Fill, Bought, Sold
<1>4. Paid' = Paid
  BY <1>2 DEF Paid
<1>5. \A q \in Profiles : pos[q][o] \in Nat
  BY <1>1 DEF LedgerTypes, Quantities
<1>6. ASSUME Entitled(o)'[p] = Entitled(o)[p], chain' = chain
      PROVE  EntitledTo(o)' = chain'[o] + Paid'
  BY <1>3, <1>4, <1>6, EntitledStays
<1>7. CASE OpenOrder(p)
  <2>1. ~order[p].matched /\ ~order'[p].matched /\ UNCHANGED <<pos, chain>>
    BY <1>1, <1>7 DEF OpenOrder, world, LedgerTypes, NoOrder
  <2>2. Fill(p, o) = 0 /\ Fill(p, o)' = 0
    BY <2>1 DEF Fill, Bought, Sold
  <2> QED
    BY <1>6, <2>1, <2>2, EntitledIs, EntitledWillBe
<1>8. CASE CloseOrder(p)
  <2>1. /\ order'[p] = NoOrder /\ chain' = chain
        /\ ~order[p].matched => pos'[p] = pos[p]
        /\ Bought(p) => pos'[p] = [pos[p] EXCEPT ![order[p].token] = @ + 1]
        /\ Sold(p) => pos'[p] = [pos[p] EXCEPT ![order[p].token] = @ - 1]
        /\ order[p].matched => Bought(p) \/ Sold(p)
    BY <1>1, <1>8, Closes
  <2>2. ~order'[p].matched
    BY <2>1 DEF NoOrder
  <2>3. Fill(p, o)' = 0
    BY <2>2 DEF Fill, Bought, Sold
  <2>4. order[p].token \in Outcomes /\ pos[p] \in Quantities
    BY <1>1, <1>8 DEF OrdersNamed, CloseOrder, LedgerTypes
  <2>5. pos'[p][o] = pos[p][o] + Fill(p, o)
    <3>1. CASE Bought(p)
      BY <1>5, <2>1, <2>4, <3>1 DEF Fill, Quantities
    <3>2. CASE Sold(p)
      <4>1. ~Bought(p)
        BY <3>2 DEF Bought, Sold
      <4> QED
        BY <1>5, <2>1, <2>4, <3>2, <4>1 DEF Fill, Quantities
    <3>3. CASE ~order[p].matched
      <4>1. Fill(p, o) = 0
        BY <3>3 DEF Fill, Bought, Sold
      <4> QED
        BY <1>5, <2>1, <3>3, <4>1
    <3> QED
      BY <2>1, <3>1, <3>2, <3>3
  <2>6. pos'[p][o] \in Int
    BY <1>1 DEF LedgerTypes, Quantities
  <2> QED
    <3>1. Entitled(o)'[p] = pos'[p][o] + 0 /\ Entitled(o)[p] = pos[p][o] + Fill(p, o)
      BY <2>3, EntitledIs, EntitledWillBe
    <3>2. Entitled(o)'[p] = Entitled(o)[p]
      BY <2>5, <2>6, <3>1
    <3> QED
      BY <1>6, <2>1, <3>2
<1>9. CASE MatchOrder(p)
  <2> DEFINE n == IF order[p].side = "BUY" THEN 1 ELSE -1
             m == IF order[p].token = o THEN n ELSE 0
  <2>1. /\ order[p].token \in Outcomes
        /\ chain' = [chain EXCEPT ![order[p].token] = @ + n] /\ pos' = pos
    BY <1>1, <1>9, Matches
  <2>2. Fill(p, o) = 0 /\ Fill(p, o)' = m
    BY <1>1, <1>9, Matches DEF Fill, Bought, Sold
  <2>3. n \in Int /\ m \in Int
    OBVIOUS
  <2>4. chain'[o] = chain[o] + m /\ chain[o] \in Nat
    BY <1>1, <2>1, <2>3 DEF WorldTypes, Quantities
  <2> HIDE DEF n, m
  <2>5. Entitled(o)'[p] = Entitled(o)[p] + m
    <3>1. Entitled(o)'[p] = pos[p][o] + m /\ Entitled(o)[p] = pos[p][o] + 0
      BY <2>1, <2>2, EntitledIs, EntitledWillBe
    <3> QED
      BY <1>5, <2>3, <3>1
  <2>6. EntitledTo(o)' = EntitledTo(o) + m
    BY <1>3, <2>3, <2>5, EntitledChanges
  <2>7. Paid \in Int
    BY PaidTyped
  <2> QED
    BY <1>4, <2>3, <2>4, <2>6, <2>7
<1> QED
  BY <1>7, <1>8, <1>9

LEMMA KeepsTokens ==
  ASSUME TypeOK, TypeOK', ReceiptAtStep, OrdersNamed, Jobs, TokensAddUp, MoneyMoves,
         Untouched' => Untouched
  PROVE  TokensAddUp'
<1> SUFFICES ASSUME Untouched, Untouched', NEW o \in Outcomes, (~Resolved \/ o = winner)'
             PROVE  EntitledTo(o)' = chain'[o] + Paid'
  BY DEF TokensAddUp
<1>1. ASSUME UNCHANGED <<winner, chain, pos, order, payout>>
      PROVE  EntitledTo(o)' = chain'[o] + Paid'
  <2>1. EntitledTo(o) = chain[o] + Paid
    BY <1>1 DEF TokensAddUp, Resolved
  <2>2. \A q \in Profiles : Entitled(o)'[q] = Entitled(o)[q]
    BY <1>1, EntitledIs, EntitledWillBe DEF Fill, Bought, Sold
  <2> QED
    BY <1>1, <2>1, <2>2, EntitledStays DEF Paid
<1>2. CASE Idles \/ CreditCollateral \/ Deposit
  BY <1>1, <1>2 DEF Idles, money, CreditCollateral, Deposit, ledgers
<1>3. CASE Resolve
  <2>1. ~Resolved /\ UNCHANGED <<chain, pos, order, payout>>
    BY <1>3 DEF Resolve, ledgers
  <2>2. EntitledTo(o) = chain[o] + Paid
    BY <2>1 DEF TokensAddUp
  <2>3. \A q \in Profiles : Entitled(o)'[q] = Entitled(o)[q]
    BY <2>1, EntitledIs, EntitledWillBe DEF Fill, Bought, Sold
  <2> QED
    BY <2>1, <2>2, <2>3, EntitledStays DEF Paid
<1>4. CASE Market
  <2>1. PICK p \in Profiles : OpenOrder(p) \/ MatchOrder(p) \/ CloseOrder(p)
    BY <1>4 DEF Market
  <2>2. winner' = winner
    BY <2>1, Groups, OthersStay
  <2>3. EntitledTo(o) = chain[o] + Paid
    BY <2>2 DEF TokensAddUp, Resolved
  <2> QED
    BY <2>1, <2>3, TradesAddUp
<1>5. CASE Pays
  <2>1. /\ Resolved /\ winner' = winner /\ UNCHANGED <<pos, order>>
        /\ Paid' = Paid + chain[winner] /\ chain' = Nothing
    BY <1>5, PaysMore DEF ledgers
  <2>2. o = winner
    BY <2>1 DEF Resolved
  <2>3. EntitledTo(o) = chain[o] + Paid
    BY <2>2 DEF TokensAddUp
  <2>4. \A q \in Profiles : Entitled(o)'[q] = Entitled(o)[q]
    BY <2>1, EntitledIs, EntitledWillBe DEF Fill, Bought, Sold
  <2>5. EntitledTo(o)' = EntitledTo(o)
    BY <2>4, EntitledStays
  <2>6. Paid \in Nat /\ chain[o] \in Nat /\ chain'[o] = 0
    BY <2>1, PaidTyped, Groups, NothingTyped DEF WorldTypes, Quantities
  <2>7. PICK a \in Nat, b \in Nat : a = Paid /\ b = chain[o]
    BY <2>6
  <2>8. Paid' = a + b /\ EntitledTo(o)' = b + a
    BY <2>1, <2>2, <2>3, <2>5, <2>7
  <2> QED
    BY <2>6, <2>7, <2>8
<1>6. ~SettlesAlone /\ ~\E q \in Profiles : BookAllocation(q)
  BY BookedIsTouched
<1> QED
  BY <1>2, <1>3, <1>4, <1>5, <1>6 DEF MoneyMoves

-----------------------------------------------------------------------------
(* A frozen condition, and what was booked for it *)

\* No order works on a frozen condition, and only its distribution books it.
\* It needs a market that closes with the resolution.
Undisturbed ==
  shared.state # "none" =>
    /\ Resolved /\ ~ActiveOrder
    /\ \A p \in Profiles : pos[p] = shared.alloc[p] \/ local[p].state \in SharedEnds

\* Nothing is booked without a settlement, and of a frozen condition an owner
\* books its share.
BookedWhenSettled ==
  \A p \in Profiles : booked[p] # 0 => local[p].state \in Settled \cup SharedEnds
BookedAsFrozen ==
  shared.state # "none" =>
    \A p \in Profiles : booked[p] = IF local[p].state \in SharedEnds THEN Share(p) ELSE 0
NotYetBooked ==
  shared.state \notin Distributing \cup Distributed =>
    \A p \in Profiles : local[p].state \notin SharedEnds

\* A distribution starts once what it distributes was paid.
Shares == [p \in Profiles |-> Share(p)]
PaidFirst ==
  shared.state \in Distributing \cup Distributed \/ cycle.pc \in {"loss", "credited"} =>
    SumFunctionOnSet(Shares, Profiles) <= Paid

LEMMA SharesAre == SharedPayout = SumFunctionOnSet(Shares, Profiles)
BY DEF SharedPayout, Shares, SumFunction

LEMMA LocalStepsDoNotApply == LocalSteps => ~Applying
<1> USE DEF At, Applying
<1>1. SettleOfficial \/ BlockOfficial \/ PassOfficial \/ LoseLocalSubmission => ~Applying
  BY DEF SettleOfficial, BlockOfficial, PassOfficial, LoseLocalSubmission, Pass
<1>2. QuarantineOverlap \/ SettleConfirmed \/ RejectLocalConfirmation \/ AwaitLocalProof => ~Applying
  BY DEF QuarantineOverlap, SettleConfirmed, RejectLocalConfirmation, AwaitLocalProof, Reconciled
<1>3. RejectLocalRedemption \/ AwaitLocalRelayer \/ PassReconcile \/ Refresh \/ FailRefresh => ~Applying
  BY DEF RejectLocalRedemption, AwaitLocalRelayer, PassReconcile, Refresh, FailRefresh, Reconciled, Pass
<1>4. SettlePlatformWinner \/ FailPlatformWinner \/ PassPlatform \/ EndCycle => ~Applying
  BY DEF SettlePlatformWinner, FailPlatformWinner, PassPlatform, EndCycle, PlatformWinner, Pass
<1>5. BlockAmbiguous \/ SettleLosing \/ StartLocal \/ FailStart => ~Applying
  BY DEF BlockAmbiguous, SettleLosing, StartLocal, FailStart, Redeemable
<1>6. RevalidateLocal \/ FailLocalRevalidation \/ SubmitLocal \/ RecordLocalAnswer => ~Applying
  BY DEF RevalidateLocal, FailLocalRevalidation, SubmitLocal, RecordLocalAnswer, Pass
<1> QED
  BY <1>1, <1>2, <1>3, <1>4, <1>5, <1>6 DEF LocalSteps

\* What can still happen to the ledgers of a frozen condition.
LEMMA AfterFreeze ==
  ASSUME TypeOK, ReceiptAtStep, SubmissionShows, NoLocalTakeover, shared.state # "none",
         [Next]_vars
  PROVE  \/ \E q \in Profiles : BookAllocation(q)
         \/ Market /\ UNCHANGED <<local, booked, payout>>
         \/ UNCHANGED <<pos, order, local, booked>> /\ (winner' = winner \/ Resolve)
<1>1. CASE LocalSteps
  <2>1. local' = local
    <3>1. Effects
      BY StepEffects
    <3>2. ~Applying
      BY <1>1, LocalStepsDoNotApply
    <3>3. ~MarkApplied \/ local' = local
      BY DEF MarkApplied, ledgers
    <3> QED
      BY <3>1, <3>2, <3>3 DEF Effects, Quiet, Frozen, Moved, Allocated, OwnMoved, Posted
  <2>2. ~SettlesAlone
    BY AloneBooks DEF Alone, Managed
  <2> QED
    BY <1>1, <2>1, <2>2, LocalIdles DEF Idles, money
<1>2. CASE FreezeSteps
  BY <1>2, FreezeKeeps DEF world, ledgers
<1>3. CASE ReceiptSteps
  BY <1>3, ReceiptKeeps DEF world, ledgers, Submit, Post
<1>4. CASE DistributionSteps
  <2>1. ASSUME NEW q \in Profiles, SkipBooked(q) \/ FailDistribution(q)
        PROVE  UNCHANGED <<pos, order, local, booked, winner>>
    BY <2>1 DEF SkipBooked, FailDistribution, world, ledgers
  <2>2. MarkApplied \/ CompleteDistribution => UNCHANGED <<pos, order, local, booked, winner>>
    BY DEF MarkApplied, CompleteDistribution, world, ledgers
  <2> QED
    BY <1>4, <2>1, <2>2 DEF DistributionSteps
<1>5. ASSUME NEW q \in Profiles, OpenOrder(q) \/ MatchOrder(q) \/ CloseOrder(q)
      PROVE  UNCHANGED <<local, booked, payout>>
  BY <1>5 DEF OpenOrder, MatchOrder, CloseOrder, world
<1>6. ASSUME NEW q \in Profiles, BeginCycle(q) PROVE UNCHANGED <<pos, order, local, booked, winner>>
  BY <1>6 DEF BeginCycle, world
<1>7. ASSUME NEW s \in Submitters, ConfirmRedemption(s) \/ FailRedemption(s)
      PROVE  UNCHANGED <<pos, order, local, booked, winner>>
  BY <1>7 DEF ConfirmRedemption, FailRedemption, PayOut, ledgers
<1>8. SettlePlatform \/ CreditCollateral \/ Deposit => UNCHANGED <<pos, order, local, booked, winner>>
  BY DEF SettlePlatform, CreditCollateral, Deposit, PayOut, ledgers
<1>9. Crash \/ UNCHANGED vars => UNCHANGED <<pos, order, local, booked, winner>>
  BY DEF Crash, world, ledgers, vars
<1>10. Resolve => UNCHANGED <<pos, order, local, booked>>
  BY DEF Resolve, ledgers
<1> QED
  BY <1>1, <1>2, <1>3, <1>4, <1>5, <1>6, <1>7, <1>8, <1>9, <1>10
     DEF Next, CycleSteps, Outside, Market

\* The receipt comes from a freeze, and what it froze stays.
LEMMA SharedMoves ==
  ASSUME TypeOK, ReceiptAtStep, [Next]_vars
  PROVE  \/ FreezeExact \/ FreezePlatform
         \/ shared' = shared
         \/ shared.state # "none" /\ shared'.winner = shared.winner
<1>1. shared \in [state : DOMAIN Transitions \cup {"none"}, winner : Outcomes \cup {"none"},
                  alloc : [Profiles -> Quantities], tx : BOOLEAN]
  BY Typed
<1>2. ASSUME NEW state, MarkShared(state) PROVE shared'.winner = shared.winner
  BY <1>1, <1>2 DEF MarkShared
<1>3. CASE SkipFreeze
  BY <1>3 DEF SkipFreeze, receipt
<1>4. CASE MarkLoss \/ MarkPlatform
  BY <1>2, <1>4 DEF MarkLoss, MarkPlatform, At, ReceiptAtStep
<1>5. CASE ReceiptSteps
  <2>1. PassReceipt \/ ResumeDistribution \/ Revalidate \/ FailEvidence => shared' = shared
    BY DEF PassReceipt, ResumeDistribution, Revalidate, FailEvidence, Abort, receipt
  <2>2. CASE LoseSubmission \/ ProveUnknown \/ StartSubmission
    BY <1>2, <2>2 DEF LoseSubmission, ProveUnknown, StartSubmission
  <2>3. CASE RejectConfirmation \/ AcceptConfirmation \/ AwaitProof
    BY <1>2, <2>3 DEF RejectConfirmation, AcceptConfirmation, AwaitProof, AwaitsRelayer
  <2>4. CASE RejectRedemption \/ AwaitRelayer
    BY <1>2, <2>4 DEF RejectRedemption, AwaitRelayer, AwaitsRelayer
  <2>5. CASE FailRevalidation
    BY <1>2, <2>5 DEF FailRevalidation, At, ReceiptAtStep
  <2>6. CASE RecordAnswer
    BY <1>1, <2>6 DEF RecordAnswer, At, ReceiptAtStep
  <2>7. CASE Submit
    BY <2>7 DEF Submit, Post, receipt
  <2> QED
    BY <1>5, <2>1, <2>2, <2>3, <2>4, <2>5, <2>6, <2>7 DEF ReceiptSteps
<1>6. CASE DistributionSteps
  <2>1. ASSUME NEW q \in Profiles, BookAllocation(q) \/ SkipBooked(q) \/ FailDistribution(q)
        PROVE  shared' = shared
    BY <2>1 DEF BookAllocation, SkipBooked, FailDistribution, receipt
  <2>2. MarkApplied => shared' = shared
    BY DEF MarkApplied
  <2>3. CASE CompleteDistribution
    BY <1>2, <2>3 DEF CompleteDistribution, Applying, At, ReceiptAtStep, ApplySteps
  <2> QED
    BY <1>6, <2>1, <2>2, <2>3 DEF DistributionSteps
<1>7. CASE LocalSteps
  BY <1>7, LocalKeeps DEF receipt
<1>8. ASSUME NEW q \in Profiles,
             OpenOrder(q) \/ MatchOrder(q) \/ CloseOrder(q) \/ BeginCycle(q)
      PROVE  shared' = shared
  BY <1>8 DEF OpenOrder, MatchOrder, CloseOrder, BeginCycle, receipt
<1>9. ASSUME NEW s \in Submitters, ConfirmRedemption(s) \/ FailRedemption(s) PROVE shared' = shared
  BY <1>9 DEF ConfirmRedemption, FailRedemption, PayOut, receipt
<1>10. Resolve \/ SettlePlatform \/ CreditCollateral \/ Deposit => shared' = shared
  BY DEF Resolve, SettlePlatform, CreditCollateral, Deposit, PayOut, receipt
<1>11. Crash \/ UNCHANGED vars => shared' = shared
  BY DEF Crash, receipt, vars
<1> QED
  BY <1>3, <1>4, <1>5, <1>6, <1>7, <1>8, <1>9, <1>10, <1>11
     DEF Next, CycleSteps, FreezeSteps, Market, Outside

LEMMA FreezesOnce ==
  ASSUME TypeOK, ReceiptAtStep, SubmissionShows, NoLocalTakeover, [Next]_vars
  PROVE  /\ shared.state = "none" => shared'.state = "none" \/ FreezeExact \/ FreezePlatform
         /\ shared.state # "none" =>
              shared'.state # "none" /\ shared'.alloc = shared.alloc /\ shared'.winner = shared.winner
         /\ cycle'.pc \in {"loss", "credited"} => cycle' = cycle \/ FreezeExact \/ FreezePlatform
<1>1. Effects
  BY StepEffects
<1>2. FreezeExact \/ FreezePlatform => shared.state = "none"
  BY DEF FreezeExact, FreezePlatform, Freeze
<1>3. shared.state # "none" => shared'.winner = shared.winner
  BY <1>2, SharedMoves
<1>4. shared.state = "none" => shared'.state = "none" \/ FreezeExact \/ FreezePlatform
  BY SharedMoves
<1>5. Frozen => FreezeExact \/ FreezePlatform
  <2>1. Frozen => shared.state = "none" /\ shared'.state = "READY"
    BY DEF Frozen
  <2> QED
    BY <1>4, <2>1
<1>6. ~Frozen => (shared.state # "none" => shared'.state # "none" /\ shared'.alloc = shared.alloc)
  <2>1. \A state \in DOMAIN Transitions : state # "none"
    BY Table
  <2>2. MarkApplied => shared' = shared
    BY DEF MarkApplied
  <2> QED
    BY <1>1, <2>1, <2>2 DEF Effects, Quiet, Moved, Allocated, OwnMoved, Posted
<1>7. ~Frozen => (cycle'.pc \in {"loss", "credited"} => cycle' = cycle)
  <2> USE Typed DEF Onward, PlainSteps
  <2>1. Quiet \/ OwnMoved => (cycle'.pc \in {"loss", "credited"} => cycle' = cycle)
    BY DEF Quiet, OwnMoved
  <2>2. ASSUME NEW state, Moved(state) PROVE cycle'.pc \notin {"loss", "credited"}
    BY <2>2 DEF Moved
  <2>3. ASSUME NEW q, Allocated(q) PROVE cycle'.pc \notin {"loss", "credited"}
    BY <2>3 DEF Allocated
  <2>4. ASSUME NEW s, Posted(s) PROVE cycle'.pc \notin {"loss", "credited"}
    BY <2>4 DEF Posted
  <2>5. MarkApplied => cycle'.pc \notin {"loss", "credited"}
    BY DEF MarkApplied
  <2> QED
    BY <1>1, <2>1, <2>2, <2>3, <2>4, <2>5 DEF Effects
<1> QED
  BY <1>2, <1>3, <1>4, <1>5, <1>6, <1>7

BookedTotal == SumFunctionOnSet(booked, Profiles)
NeverMore == BookedTotal <= Paid

\* The part of the invariant that holds however long the market trades.
Accounts ==
  /\ Invariant
  /\ OrdersNamed
  /\ Jobs
  /\ Balanced
  /\ Sellable
  /\ TokensAddUp
  /\ BookedWhenSettled
  /\ BookedAsFrozen
  /\ NotYetBooked

LEMMA InvariantParts ==
  Invariant => /\ TypeOK /\ ReceiptAtStep /\ SubmissionShows /\ OneRedemption /\ NoLocalTakeover
               /\ MarkedIsBooked /\ FinishedIsBooked /\ WinnerKnown
BY DEF Invariant, Guarded

\* A freeze finds no receipt a sleeve acts on, and no order.
LEMMA FreezeFinds ==
  ASSUME TypeOK, FreezeExact \/ FreezePlatform
  PROVE  /\ shared.state = "none" /\ Resolved /\ ~ActiveOrder
         /\ \A p \in Profiles : local[p].state \in Handoff \cup {"none"}
         /\ shared' = [state |-> "READY", winner |-> winner, alloc |-> pos, tx |-> FALSE]
         /\ UNCHANGED <<world, ledgers, counters>>
BY DEF FreezeExact, FreezePlatform, Freeze, Freezable, ActiveLocal

LEMMA KeepsNotYetBooked ==
  ASSUME Invariant, NotYetBooked, [Next]_vars PROVE NotYetBooked'
<1> USE InvariantParts
<1>1. Effects
  BY StepEffects
<1>2. ASSUME shared'.state \in Distributing \cup Distributed PROVE NotYetBooked'
  BY <1>2 DEF NotYetBooked
<1>3. ASSUME local' = local, shared'.state = shared.state PROVE NotYetBooked'
  BY <1>3 DEF NotYetBooked
<1>4. CASE Quiet \/ MarkApplied \/ \E s \in Submitters : Posted(s)
  BY <1>3, <1>4 DEF Quiet, MarkApplied, Posted, ledgers
<1>5. CASE Frozen
  BY <1>5 DEF Frozen, NotYetBooked
<1>6. ASSUME NEW state \in DOMAIN Transitions, Moved(state) PROVE NotYetBooked'
  <2>1. shared'.state = state /\ state \in Transitions[shared.state] /\ local' = local
        /\ shared.state # "none"
    BY <1>6 DEF Moved
  <2>2. shared.state \in Distributing \cup Distributed => state \in Distributed
    BY <2>1, Table, EndMoves
  <2> QED
    BY <2>1, <2>2 DEF NotYetBooked
<1>7. ASSUME NEW q \in Profiles, Allocated(q) PROVE NotYetBooked'
  <2>1. shared'.state \in Distributing
    BY <1>7 DEF Allocated, Applying, At, ReceiptAtStep, ApplySteps
  <2> QED
    BY <1>2, <2>1
<1>8. CASE OwnMoved
  BY <1>8 DEF OwnMoved, NotYetBooked
<1> QED
  BY <1>1, <1>4, <1>5, <1>6, <1>7, <1>8 DEF Effects

LEMMA KeepsBookedWhenSettled ==
  ASSUME Invariant, BookedWhenSettled, [Next]_vars PROVE BookedWhenSettled'
<1> USE InvariantParts
<1>1. LedgerTypes
  BY Groups
<1>2. MoneyMoves
  BY StepMoney
<1> SUFFICES ASSUME NEW p \in Profiles, booked'[p] # 0
             PROVE  local'[p].state \in Settled \cup SharedEnds
  BY DEF BookedWhenSettled
<1>3. ASSUME booked'[p] = booked[p] PROVE local'[p].state \in Settled \cup SharedEnds
  <2>1. local[p].state \in Settled \cup SharedEnds
    BY <1>3 DEF BookedWhenSettled
  <2> QED
    BY <2>1, SettledStays
<1>4. CASE Idles \/ Resolve \/ CreditCollateral \/ Deposit \/ Pays
  BY <1>3, <1>4 DEF Idles, money, Resolve, CreditCollateral, Deposit, Pays, PayOut, ledgers
<1>5. CASE Market
  BY <1>1, <1>3, <1>5, OthersStay DEF Market
<1>6. CASE SettlesAlone
  <2>1. PICK amount : Alone(amount)
    BY <1>6, AloneBooks
  <2>2. p # me => booked'[p] = booked[p]
    BY <1>1, <2>1 DEF Alone, Books, LedgerTypes
  <2> QED
    BY <1>3, <2>1, <2>2 DEF Alone
<1>7. ASSUME NEW q \in Profiles, BookAllocation(q) PROVE local'[p].state \in Settled \cup SharedEnds
  <2>1. p # q => booked'[p] = booked[p]
    BY <1>1, <1>7 DEF BookAllocation, LedgerTypes
  <2>2. local'[q].state \in SharedEnds
    BY <1>7, AllocationEnds
  <2> QED
    BY <1>3, <2>1, <2>2
<1> QED
  BY <1>2, <1>4, <1>5, <1>6, <1>7 DEF MoneyMoves

LEMMA KeepsBookedAsFrozen ==
  ASSUME Invariant, BookedWhenSettled, BookedAsFrozen, [Next]_vars PROVE BookedAsFrozen'
<1> USE InvariantParts
<1>1. LedgerTypes
  BY Groups
<1>2. CASE shared'.state = "none"
  BY <1>2 DEF BookedAsFrozen
<1>3. CASE shared.state = "none" /\ shared'.state # "none"
  <2>1. FreezeExact \/ FreezePlatform
    BY <1>3, FreezesOnce
  <2>2. \A p \in Profiles : local[p].state \notin Settled \cup SharedEnds
    BY <2>1, FreezeFinds
  <2>3. UNCHANGED <<local, booked>>
    BY <2>1, FreezeFinds DEF ledgers
  <2> QED
    BY <2>2, <2>3 DEF BookedAsFrozen, BookedWhenSettled
<1>4. CASE shared.state # "none"
  <2>1. \A p \in Profiles : Share(p)' = Share(p)
    BY <1>4, FreezesOnce DEF Share
  <2>2. CASE UNCHANGED <<local, booked>>
    BY <1>4, <2>1, <2>2 DEF BookedAsFrozen
  <2>3. ASSUME NEW q \in Profiles, BookAllocation(q) PROVE BookedAsFrozen'
    <3>1. local[q].state \notin SharedEnds /\ local'[q].state \in SharedEnds
          /\ \A p \in Profiles \ {q} : local'[p] = local[p]
      BY <2>3, AllocationEnds
    <3>2. booked[q] = 0
      BY <1>4, <3>1 DEF BookedAsFrozen
    <3>3. booked'[q] = booked[q] + Share(q) /\ \A p \in Profiles \ {q} : booked'[p] = booked[p]
      BY <1>1, <2>3 DEF BookAllocation, LedgerTypes
    <3>4. booked'[q] = Share(q)
      BY <1>4, <3>2, <3>3, ShareTyped
    <3> QED
      BY <1>4, <2>1, <3>1, <3>3, <3>4 DEF BookedAsFrozen
  <2> QED
    BY <1>4, <2>2, <2>3, AfterFreeze
<1> QED
  BY <1>2, <1>3, <1>4

\* Without orders and settlements, the sleeves hold what the wallet holds and
\* what it was paid.
LEMMA HeldOrPaid ==
  ASSUME TypeOK, TokensAddUp, Untouched, ~ActiveOrder, Resolved
  PROVE  SumFunctionOnSet([p \in Profiles |-> pos[p][winner]], Profiles) = chain[winner] + Paid
<1>1. winner \in Outcomes /\ LedgerTypes
  BY Groups DEF Resolved, TypeOK
<1>2. EntitledTo(winner) = chain[winner] + Paid
  BY <1>1 DEF TokensAddUp
<1>3. ASSUME NEW p \in Profiles PROVE Entitled(winner)[p] = pos[p][winner]
  <2>1. ~order[p].matched
    BY DEF ActiveOrder, NoOrder
  <2>2. Fill(p, winner) = 0
    BY <2>1 DEF Fill, Bought, Sold
  <2>3. pos[p][winner] \in Nat
    BY <1>1 DEF LedgerTypes, Quantities
  <2>4. Entitled(winner)[p] = pos[p][winner] + Fill(p, winner)
    BY EntitledIs
  <2> QED
    BY <2>2, <2>3, <2>4
<1>4. PICK f, g : f = Entitled(winner) /\ g = [p \in Profiles |-> pos[p][winner]]
  OBVIOUS
<1>5. \A p \in Profiles : f[p] = g[p]
  BY <1>3, <1>4
<1>6. SumFunctionOnSet(f, Profiles) = SumFunctionOnSet(g, Profiles)
  BY <1>5, SumSame
<1> QED
  BY <1>2, <1>4, <1>6 DEF EntitledTo

\* What was paid is never taken back.
LEMMA PaidGrows ==
  ASSUME TypeOK, TypeOK', Jobs, MoneyMoves PROVE Paid' >= Paid
<1>1. Paid \in Nat
  BY PaidTyped
<1>2. ASSUME payout' = payout PROVE Paid' >= Paid
  BY <1>1, <1>2 DEF Paid
<1>3. CASE Pays
  <2>1. PICK n \in Nat : n = chain[winner]
    BY <1>3, PaysMore
  <2> QED
    BY <1>1, <1>3, <2>1, PaysMore
<1>4. Idles \/ Resolve \/ CreditCollateral \/ Deposit => payout' = payout
  BY DEF Idles, money, Resolve, CreditCollateral, Deposit
<1>5. Market => payout' = payout
  BY Groups, OthersStay DEF Market
<1>6. SettlesAlone => payout' = payout
  BY DEF SettlesAlone, SettleOfficial, SettleConfirmed, SettlePlatformWinner, SettleLosing,
         SettleLocal, world
<1>7. ASSUME NEW q \in Profiles, BookAllocation(q) PROVE payout' = payout
  BY <1>7 DEF BookAllocation, world
<1> QED
  BY <1>2, <1>3, <1>4, <1>5, <1>6, <1>7 DEF MoneyMoves

\* How a distribution starts.
LEMMA Starts ==
  ASSUME TypeOK, ReceiptAtStep, SubmissionShows, NoLocalTakeover, [Next]_vars,
         shared.state \notin Distributing \cup Distributed,
         shared'.state \in Distributing \cup Distributed
  PROVE  MarkLoss \/ MarkPlatform \/ AcceptConfirmation \/ ProveUnknown
<1>1. shared' # shared
  OBVIOUS
<1>2. ASSUME NEW state, MarkShared(state) PROVE shared'.state = state
  BY <1>2, Typed DEF MarkShared
<1>3. CASE FreezeSteps
  BY <1>1, <1>3 DEF FreezeSteps, SkipFreeze, FreezeExact, FreezePlatform, Freeze, receipt
<1>4. CASE ReceiptSteps
  <2>1. ~(PassReceipt \/ ResumeDistribution \/ Revalidate \/ FailEvidence)
    BY <1>1 DEF PassReceipt, ResumeDistribution, Revalidate, FailEvidence, Abort, receipt
  <2>2. ~(LoseSubmission \/ StartSubmission \/ RejectConfirmation \/ AwaitProof)
    BY <1>2 DEF LoseSubmission, StartSubmission, RejectConfirmation, AwaitProof
  <2>3. ~(RejectRedemption \/ AwaitRelayer \/ FailRevalidation)
    BY <1>2 DEF RejectRedemption, AwaitRelayer, FailRevalidation
  <2>4. ~Submit
    BY <1>1 DEF Submit, Post, receipt
  <2>5. ~RecordAnswer
    <3>1. AnswerState[cycle.answer] \notin Distributing \cup Distributed \/ ~At("record")
      <4>1. \A answer \in Answers : AnswerState[answer] \notin Distributing \cup Distributed
        BY DEF AnswerState, Answers
      <4> QED
        BY <4>1 DEF At, ReceiptAtStep
    <3> QED
      BY <3>1, Typed DEF RecordAnswer
  <2> QED
    BY <1>4, <2>1, <2>2, <2>3, <2>4, <2>5 DEF ReceiptSteps
<1>5. ~DistributionSteps
  <2>1. ~Applying
    BY DEF Applying, At, ReceiptAtStep, ApplySteps
  <2>2. ~MarkApplied
    BY <1>1 DEF MarkApplied
  <2> QED
    BY <2>1, <2>2 DEF DistributionSteps, BookAllocation, SkipBooked, FailDistribution,
                      CompleteDistribution
<1>6. ~LocalSteps
  BY <1>1, LocalKeeps DEF receipt
<1>7. ASSUME NEW q \in Profiles
      PROVE  ~(OpenOrder(q) \/ MatchOrder(q) \/ CloseOrder(q) \/ BeginCycle(q))
  BY <1>1 DEF OpenOrder, MatchOrder, CloseOrder, BeginCycle, receipt
<1>8. ASSUME NEW s \in Submitters PROVE ~(ConfirmRedemption(s) \/ FailRedemption(s))
  BY <1>1 DEF ConfirmRedemption, FailRedemption, PayOut, receipt
<1>9. ~(Resolve \/ SettlePlatform \/ CreditCollateral \/ Deposit)
  BY <1>1 DEF Resolve, SettlePlatform, CreditCollateral, Deposit, PayOut, receipt
<1>10. ~(Crash \/ UNCHANGED vars)
  BY <1>1 DEF Crash, receipt, vars
<1> QED
  BY <1>3, <1>4, <1>5, <1>6, <1>7, <1>8, <1>9, <1>10 DEF Next, CycleSteps, Market, Outside

LEMMA SharesTyped ==
  ASSUME TypeOK, WinnerKnown, shared.state # "none"
  PROVE  Nats(Shares, Profiles) /\ SumFunctionOnSet(Shares, Profiles) \in Nat
<1>1. Nats(Shares, Profiles)
  BY ShareTyped DEF Nats, Shares
<1> QED
  BY <1>1, SumNat

\* The evidence a freeze starts from.
LEMMA FreezeIsPaid ==
  ASSUME TypeOK, TypeOK', TokensAddUp, FreezeExact \/ FreezePlatform,
         cycle'.pc \in {"loss", "credited"}
  PROVE  SumFunctionOnSet(Shares, Profiles)' <= Paid'
<1>1. /\ Resolved /\ ~ActiveOrder /\ Untouched
      /\ shared'.alloc = pos /\ shared'.winner = winner /\ Paid' = Paid
  BY FreezeFinds DEF Untouched, world, Paid
<1>2. winner \in Outcomes /\ WorldTypes /\ LedgerTypes
  BY <1>1, Groups DEF Resolved, TypeOK
<1>3. PICK f : f = [p \in Profiles |-> pos[p][winner]]
  OBVIOUS
<1>4. Shares' = f
  BY <1>1, <1>3 DEF Shares, Share
<1>5. Attributed[winner] = SumFunctionOnSet(f, Profiles)
  BY <1>2, <1>3 DEF Attributed, SumFunction
<1>6. SumFunctionOnSet(f, Profiles) = chain[winner] + Paid
  BY <1>1, <1>3, HeldOrPaid
<1>7. Paid \in Nat /\ chain[winner] \in Nat
  BY <1>2, PaidTyped DEF WorldTypes, Quantities
<1>8. SumFunctionOnSet(f, Profiles) <= Paid
  <2>1. CASE FreezeExact
    <3>1. Attributed[winner] = 0
      BY <2>1, Typed DEF FreezeExact, Go
    <3> QED
      BY <1>5, <1>7, <3>1
  <2>2. CASE FreezePlatform
    <3>1. chain[winner] = 0
      BY <1>2, <2>2, NothingTyped DEF FreezePlatform, Gone
    <3> QED
      BY <1>6, <1>7, <3>1
  <2> QED
    BY <2>1, <2>2
<1> QED
  BY <1>1, <1>4, <1>8

LEMMA KeepsPaidFirst ==
  ASSUME Accounts, TypeOK', Undisturbed, PaidFirst, [Next]_vars PROVE PaidFirst'
<1> USE InvariantParts DEF Accounts
<1>1. SUFFICES ASSUME \/ shared'.state \in Distributing \cup Distributed
                      \/ cycle'.pc \in {"loss", "credited"}
               PROVE  SumFunctionOnSet(Shares, Profiles)' <= Paid'
  BY DEF PaidFirst
<1>2. Paid' >= Paid /\ Paid \in Nat /\ Paid' \in Nat
  <2>1. (TypeOK => Nats(payout, Payers) /\ Ints(payout, Payers) /\ Paid \in Nat)'
    BY PaidTyped, PTL
  <2> QED
    BY <2>1, StepMoney, PaidGrows, PaidTyped
<1>3. CASE FreezeExact \/ FreezePlatform
  <2>1. shared'.state = "READY"
    BY <1>3, FreezeFinds
  <2> QED
    BY <1>1, <1>3, <2>1, FreezeIsPaid
<1>4. CASE ~(FreezeExact \/ FreezePlatform)
  <2>1. cycle'.pc \in {"loss", "credited"} => cycle' = cycle
    BY <1>4, FreezesOnce
  <2>2. shared.state # "none"
    <3>1. cycle'.pc \in {"loss", "credited"} => shared.state = "READY"
      BY <2>1 DEF ReceiptAtStep
    <3>2. shared'.state \in Distributing \cup Distributed => shared'.state # "none"
      OBVIOUS
    <3> QED
      BY <1>1, <1>4, <3>1, <3>2, FreezesOnce
  <2>3. Shares' = Shares
    BY <2>2, FreezesOnce DEF Shares, Share
  <2>4. PICK n \in Nat : n = SumFunctionOnSet(Shares, Profiles)
    BY <2>2, SharesTyped
  <2>5. n <= Paid
    <3>1. CASE shared.state \in Distributing \cup Distributed \/ cycle.pc \in {"loss", "credited"}
      BY <2>4, <3>1 DEF PaidFirst
    <3>2. CASE /\ shared.state \notin Distributing \cup Distributed
               /\ cycle.pc \notin {"loss", "credited"}
      <4>1. AcceptConfirmation \/ ProveUnknown
        <5>1. ~MarkLoss /\ ~MarkPlatform
          BY <3>2 DEF MarkLoss, MarkPlatform, At
        <5>2. shared'.state \in Distributing \cup Distributed
          BY <1>1, <2>1, <3>2
        <5> QED
          BY <3>2, <5>1, <5>2, Starts
      <4>2. CASE AcceptConfirmation
        <5>1. payout[Wallet] = n
          BY <2>4, <4>2, SharesAre DEF AcceptConfirmation
        <5>2. Wallet \in Payers
          BY DEF Payers, Submitters
        <5>3. payout[Wallet] <= SumFunctionOnSet(payout, Payers)
          BY <5>2, PaidTyped, PayersFinite, SumAtLeast
        <5> QED
          BY <5>1, <5>3 DEF Paid
      <4>3. CASE ProveUnknown
        <5>1. shared.state = "UNKNOWN_SUBMISSION" /\ winner = shared.winner /\ Gone
          BY <4>3 DEF ProveUnknown
        <5>2. \A p \in Profiles : local[p].state \notin SharedEnds
          BY <5>1 DEF NotYetBooked
        <5>3. Untouched
          BY <2>2, <5>2 DEF Untouched, NoLocalTakeover
        <5>4. Resolved /\ ~ActiveOrder /\ \A p \in Profiles : pos[p] = shared.alloc[p]
          BY <2>2, <5>2 DEF Undisturbed
        <5>5. SumFunctionOnSet([p \in Profiles |-> pos[p][winner]], Profiles) = chain[winner] + Paid
          BY <5>3, <5>4, HeldOrPaid
        <5>6. Shares = [p \in Profiles |-> pos[p][winner]]
          BY <5>1, <5>4 DEF Shares, Share
        <5>7. chain[winner] = 0
          <6>1. winner \in Outcomes
            BY <5>4, Groups DEF Resolved, WorldTypes
          <6> QED
            BY <5>1, <6>1, NothingTyped DEF Gone
        <5> QED
          BY <1>2, <2>4, <5>5, <5>6, <5>7
      <4> QED
        BY <4>1, <4>2, <4>3
    <3> QED
      BY <3>1, <3>2
  <2>6. n <= Paid'
    BY <1>2, <2>5
  <2> QED
    BY <2>3, <2>4, <2>6
<1> QED
  BY <1>3, <1>4

LEMMA KeepsUndisturbed ==
  ASSUME LateTrading = FALSE, Invariant, Undisturbed, [Next]_vars PROVE Undisturbed'
<1> USE InvariantParts
<1>1. CASE shared'.state = "none"
  BY <1>1 DEF Undisturbed
<1>2. CASE shared.state = "none" /\ shared'.state # "none"
  <2>1. FreezeExact \/ FreezePlatform
    BY <1>2, FreezesOnce
  <2>2. Resolved /\ ~ActiveOrder /\ shared'.alloc = pos /\ UNCHANGED <<world, ledgers>>
    BY <2>1, FreezeFinds
  <2> QED
    BY <2>2 DEF Undisturbed, Resolved, ActiveOrder, world, ledgers
<1>3. CASE shared.state # "none"
  <2>1. Resolved /\ ~ActiveOrder
        /\ \A p \in Profiles : pos[p] = shared.alloc[p] \/ local[p].state \in SharedEnds
    BY <1>3 DEF Undisturbed
  <2>2. shared'.alloc = shared.alloc
    BY <1>3, FreezesOnce
  <2>3. ~Market
    BY <2>1 DEF Market, OpenOrder, MatchOrder, CloseOrder, TradingOpen, ActiveOrder
  <2>4. CASE UNCHANGED <<pos, order, local>> /\ (winner' = winner \/ Resolve)
    BY <2>1, <2>2, <2>4 DEF Undisturbed, Resolved, ActiveOrder, Resolve
  <2>5. ASSUME NEW q \in Profiles, BookAllocation(q) PROVE Undisturbed'
    <3>1. UNCHANGED <<winner, order>>
      BY <2>5 DEF BookAllocation, world
    <3>2. \A p \in Profiles \ {q} : local'[p] = local[p] /\ pos'[p] = pos[p]
      BY <2>5, AllocationEnds, Typed, Groups DEF BookAllocation, LedgerTypes
    <3>3. local'[q].state \in SharedEnds
      BY <2>5, AllocationEnds
    <3> QED
      BY <2>1, <2>2, <3>1, <3>2, <3>3 DEF Undisturbed, Resolved, ActiveOrder
  <2> QED
    BY <1>3, <2>3, <2>4, <2>5, AfterFreeze
<1> QED
  BY <1>1, <1>2, <1>3

LEMMA BookedTyped ==
  TypeOK => Nats(booked, Profiles) /\ Ints(booked, Profiles) /\ BookedTotal \in Nat
<1> SUFFICES ASSUME TypeOK, LedgerTypes
             PROVE  Nats(booked, Profiles) /\ Ints(booked, Profiles) /\ BookedTotal \in Nat
  BY Groups
<1>1. Nats(booked, Profiles) /\ Ints(booked, Profiles)
  BY DEF LedgerTypes, Nats, Ints
<1> QED
  BY <1>1, SumNat DEF BookedTotal

\* Of a frozen condition no more is booked than its distribution starts with.
LEMMA FrozenNeverMore == Accounts /\ PaidFirst /\ shared.state # "none" => NeverMore
<1> SUFFICES ASSUME Accounts, PaidFirst, shared.state # "none" PROVE NeverMore
  OBVIOUS
<1> USE InvariantParts DEF Accounts
<1>1. Paid \in Nat /\ Ints(booked, Profiles) /\ BookedTotal \in Nat
  BY PaidTyped, BookedTyped
<1>2. CASE shared.state \notin Distributing \cup Distributed
  <2>1. \A p \in Profiles : booked[p] = 0
    BY <1>2 DEF BookedAsFrozen, NotYetBooked
  <2>2. BookedTotal = 0
    BY <2>1, SumZero DEF BookedTotal
  <2> QED
    BY <1>1, <2>2 DEF NeverMore
<1>3. CASE shared.state \in Distributing \cup Distributed
  <2>1. Nats(Shares, Profiles) /\ SumFunctionOnSet(Shares, Profiles) \in Nat
    BY SharesTyped
  <2>2. Ints(Shares, Profiles)
    BY <2>1 DEF Nats, Ints
  <2>3. \A p \in Profiles : booked[p] <= Shares[p]
    <3>1. \A p \in Profiles : Shares[p] = Share(p) /\ Share(p) \in Nat
      BY ShareTyped DEF Shares
    <3> QED
      BY <3>1 DEF BookedAsFrozen
  <2>4. BookedTotal <= SumFunctionOnSet(Shares, Profiles)
    BY <1>1, <2>2, <2>3, SumMonotone DEF BookedTotal
  <2>5. SumFunctionOnSet(Shares, Profiles) <= Paid
    BY <1>3 DEF PaidFirst
  <2> QED
    BY <1>1, <2>1, <2>4, <2>5 DEF NeverMore
<1> QED
  BY <1>2, <1>3

\* What a sleeve settles by itself was paid to the wallet.
LEMMA AloneIsPaid ==
  ASSUME Accounts, NEW amount, Alone(amount)
  PROVE  /\ amount \in Nat /\ amount <= Paid
         /\ \A p \in Profiles : booked[p] = 0
<1> USE InvariantParts DEF Accounts
<1>1. LedgerTypes /\ WorldTypes /\ Nats(payout, Payers) /\ Paid \in Nat
  BY Groups, PaidTyped
<1>2. me \in Profiles /\ ~Managed /\ Holds(me) /\ local[me].state \notin Settled \cup SharedEnds
  BY DEF Alone
<1>3. \A p \in Profiles \ {me} : ~Exposed(p)
  BY <1>2 DEF Managed, SharedCondition, Exposed
<1>4. Untouched
  BY <1>2, <1>3 DEF Untouched, Exposed
<1>5. \A p \in Profiles : booked[p] = 0
  BY <1>4 DEF BookedWhenSettled, Untouched
<1>6. CASE \E s \in Payers : amount = payout[s]
  <2>1. PICK s \in Payers : amount = payout[s]
    BY <1>6
  <2>2. payout[s] <= SumFunctionOnSet(payout, Payers)
    BY <1>1, PayersFinite, SumAtLeast
  <2> QED
    BY <1>1, <1>5, <2>1, <2>2 DEF Paid, Nats
<1>7. CASE amount = 0
  BY <1>1, <1>5, <1>7
<1>8. CASE amount = WinnerQuantity(me) /\ Resolved /\ Gone /\ order[me] = NoOrder
  <2>1. winner \in Outcomes
    BY <1>1, <1>8 DEF Resolved, WorldTypes
  <2>2. EntitledTo(winner) = chain[winner] + Paid
    BY <1>4, <2>1 DEF TokensAddUp
  <2>3. chain[winner] = 0
    BY <1>8, <2>1, NothingTyped DEF Gone
  <2>4. Nats(Entitled(winner), Profiles)
    <3>1. ASSUME NEW p \in Profiles PROVE Entitled(winner)[p] \in Nat
      <4>1. Entitled(winner)[p] = pos[p][winner] + Fill(p, winner)
        BY EntitledIs
      <4>2. PICK n \in Nat : n = pos[p][winner]
        BY <1>1, <2>1 DEF LedgerTypes, Quantities
      <4>3. CASE order[p].token = winner /\ Sold(p)
        <5>1. n > 0
          BY <1>4, <4>2, <4>3 DEF Sellable, Sold
        <5>2. Fill(p, winner) = -1
          BY <4>3 DEF Fill, Bought, Sold
        <5> QED
          BY <4>1, <4>2, <5>1, <5>2
      <4>4. CASE ~(order[p].token = winner /\ Sold(p))
        <5>1. Fill(p, winner) \in {0, 1}
          BY <4>4 DEF Fill
        <5> QED
          BY <4>1, <4>2, <5>1
      <4> QED
        BY <4>3, <4>4
    <3> QED
      BY <3>1 DEF Nats
  <2>5. Entitled(winner)[me] <= EntitledTo(winner)
    BY <1>2, <2>4, SumAtLeast DEF EntitledTo
  <2>6. PICK n \in Nat : n = pos[me][winner]
    BY <1>1, <1>2, <2>1 DEF LedgerTypes, Quantities
  <2>7. Entitled(winner)[me] = n
    <3>1. Entitled(winner)[me] = pos[me][winner] + Fill(me, winner)
      BY <1>2, EntitledIs
    <3>2. Fill(me, winner) = 0
      BY <1>8 DEF Fill, Bought, Sold, NoOrder
    <3> QED
      BY <2>6, <3>1, <3>2
  <2>8. amount = n /\ n <= Paid
    BY <1>1, <1>8, <2>2, <2>3, <2>5, <2>6, <2>7 DEF WinnerQuantity
  <2> QED
    BY <1>5, <2>8
<1> QED
  BY <1>6, <1>7, <1>8 DEF Alone

LEMMA KeepsNeverMore ==
  ASSUME Accounts, Accounts', PaidFirst', NeverMore, [Next]_vars PROVE NeverMore'
<1> USE InvariantParts DEF Accounts
<1>1. CASE shared'.state # "none"
  <2>1. (Accounts /\ PaidFirst /\ shared.state # "none" => NeverMore)'
    BY FrozenNeverMore, PTL
  <2> QED
    BY <1>1, <2>1
<1>2. CASE shared'.state = "none"
  <2>1. shared.state = "none"
    BY <1>2, FreezesOnce
  <2>2. TypeOK'
    BY DEF Invariant, Guarded
  <2>3. MoneyMoves
    BY StepMoney
  <2>4. Paid' >= Paid
    BY <2>2, <2>3, PaidGrows
  <2>5. (TypeOK => Nats(payout, Payers) /\ Ints(payout, Payers) /\ Paid \in Nat)'
    BY PaidTyped, PTL
  <2>6. PICK a \in Nat, b \in Nat, c \in Nat : a = Paid /\ b = Paid' /\ c = BookedTotal
    BY <2>2, <2>5, PaidTyped, BookedTyped
  <2>7. a <= b
    BY <2>4, <2>6
  <2>8. LedgerTypes
    BY Groups
  <2>9. CASE booked' = booked
    <3>1. BookedTotal' = c
      BY <2>6, <2>9 DEF BookedTotal
    <3>2. c <= a
      BY <2>6 DEF NeverMore
    <3> QED
      BY <2>6, <2>7, <3>1, <3>2 DEF NeverMore
  <2>10. CASE SettlesAlone
    <3>1. PICK amount : Alone(amount)
      BY <2>10, AloneBooks
    <3>2. amount \in Nat /\ amount <= a /\ \A p \in Profiles : booked[p] = 0
      BY <2>6, <3>1, AloneIsPaid
    <3>3. me \in Profiles /\ booked' = [booked EXCEPT ![me] = @ + amount]
      BY <3>1 DEF Alone, Books
    <3>4. PICK u, v, w, n : u = booked /\ v = booked' /\ w = me /\ n = amount
      OBVIOUS
    <3>5. /\ Ints(u, Profiles) /\ Ints(v, Profiles) /\ w \in Profiles /\ n \in Int
          /\ v[w] = u[w] + n /\ \A y \in Profiles \ {w} : v[y] = u[y]
      BY <2>8, <3>2, <3>3, <3>4 DEF LedgerTypes, Ints
    <3>6. SumFunctionOnSet(v, Profiles) = SumFunctionOnSet(u, Profiles) + n
      <4>1. ASSUME NEW S, IsFiniteSet(S), Ints(u, S), Ints(v, S), NEW y \in S, NEW k \in Int,
                   v[y] = u[y] + k, \A z \in S \ {y} : v[z] = u[z]
            PROVE  SumFunctionOnSet(v, S) = SumFunctionOnSet(u, S) + k
        BY <4>1, SumGrows
      <4> QED
        BY <3>5, <4>1
    <3>7. SumFunctionOnSet(u, Profiles) = 0
      BY <3>2, <3>4, SumZero
    <3>8. BookedTotal' = amount
      BY <3>2, <3>4, <3>6, <3>7 DEF BookedTotal
    <3> QED
      BY <2>6, <2>7, <3>2, <3>8 DEF NeverMore
  <2>11. ~\E q \in Profiles : BookAllocation(q)
    BY <2>1 DEF BookAllocation, Applying, At, ReceiptAtStep, ApplySteps, Distributing
  <2>12. Market => booked' = booked
    BY <2>8, OthersStay DEF Market
  <2> QED
    BY <2>3, <2>9, <2>10, <2>11, <2>12
       DEF MoneyMoves, Idles, money, Resolve, CreditCollateral, Deposit, Pays, PayOut, ledgers
<1> QED
  BY <1>1, <1>2

LEMMA KeepsAccounts == Accounts /\ [Next]_vars => Accounts'
<1> SUFFICES ASSUME Accounts, [Next]_vars PROVE Accounts'
  OBVIOUS
<1> USE InvariantParts
<1>1. Invariant
  BY DEF Accounts
<1>2. Invariant' /\ MoneyMoves
  BY <1>1, Stays, StepMoney
<1>3. TypeOK'
  BY <1>2 DEF Invariant, Guarded
<1>4. Untouched' => Untouched
  BY <1>1, UntouchedBefore
<1>5. OrdersNamed' /\ Jobs'
  BY <1>1, <1>2, KeepsOrdersNamed, KeepsJobs DEF Accounts
<1>6. Balanced'
  BY <1>1, <1>2, <1>3, KeepsBalanced DEF Accounts
<1>7. Sellable' /\ TokensAddUp'
  BY <1>1, <1>2, <1>3, <1>4, KeepsSellable, KeepsTokens DEF Accounts
<1>8. BookedWhenSettled' /\ BookedAsFrozen' /\ NotYetBooked'
  BY <1>1, KeepsBookedWhenSettled, KeepsBookedAsFrozen, KeepsNotYetBooked DEF Accounts
<1> QED
  BY <1>2, <1>5, <1>6, <1>7, <1>8 DEF Accounts

LEMMA AccountsStart == Init => Accounts /\ Undisturbed /\ PaidFirst /\ NeverMore
<1> SUFFICES ASSUME Init PROVE Accounts /\ Undisturbed /\ PaidFirst /\ NeverMore
  OBVIOUS
<1> USE DEF Init
<1>1. Invariant
  BY Opens
<1>2. TypeOK /\ WorldTypes /\ LedgerTypes
  BY <1>1, InvariantParts, Groups
<1>3. \A p \in Profiles : /\ order[p] = NoOrder /\ cash[p] = OpeningCash /\ booked[p] = 0
                          /\ local[p].state = "none"
  BY DEF NoLocal
<1>4. OrdersNamed /\ Sellable
  BY <1>3 DEF OrdersNamed, Sellable, NoOrder
<1>5. Jobs
  BY DEF Jobs, Payers
<1>6. Paid = 0
  BY PayersFinite, SumZero DEF Paid
<1>7. \A p \in Profiles : Proceeds(p) = 0 /\ \A o \in Outcomes : Fill(p, o) = 0
  <2>1. \A p \in Profiles : ~Bought(p) /\ ~Sold(p)
    BY <1>3 DEF Bought, Sold, NoOrder
  <2> QED
    BY <2>1 DEF Proceeds, Fill
<1>8. Balanced
  <2>1. PICK f : f = [p \in Profiles |-> OpeningCash]
    OBVIOUS
  <2>2. collateral = SumFunctionOnSet(f, Profiles)
    BY <2>1 DEF SumFunction
  <2>3. \A p \in Profiles : Own[p] = f[p]
    <3>1. ASSUME NEW p \in Profiles PROVE Own[p] = f[p]
      <4>1. Own[p] = cash[p] - booked[p] + Proceeds(p)
        BY OwnIs
      <4>2. OpeningCash \in Nat
        BY RedemptionAssumption
      <4> QED
        BY <1>3, <1>7, <2>1, <4>1, <4>2
    <3> QED
      BY <3>1
  <2>4. OwnTotal = collateral
    <3>1. PICK g : g = Own
      OBVIOUS
    <3>2. \A p \in Profiles : g[p] = f[p]
      BY <2>3, <3>1
    <3>3. SumFunctionOnSet(g, Profiles) = SumFunctionOnSet(f, Profiles)
      BY <3>2, SumSame
    <3> QED
      BY <2>2, <3>1, <3>3 DEF OwnTotal
  <2> QED
    BY <1>2, <1>6, <2>4 DEF Balanced, WorldTypes
<1>9. TokensAddUp
  <2>1. SUFFICES ASSUME NEW o \in Outcomes PROVE EntitledTo(o) = chain[o] + Paid
    BY DEF TokensAddUp
  <2>2. PICK f : f = [p \in Profiles |-> pos[p][o]]
    OBVIOUS
  <2>3. chain[o] = SumFunctionOnSet(f, Profiles)
    BY <2>2 DEF Attributed, SumFunction
  <2>4. \A p \in Profiles : Entitled(o)[p] = f[p]
    <3>1. ASSUME NEW p \in Profiles PROVE Entitled(o)[p] = f[p]
      <4>1. Entitled(o)[p] = pos[p][o] + Fill(p, o) /\ Fill(p, o) = 0
        BY <1>7, EntitledIs
      <4>2. pos[p][o] \in Nat
        BY <1>2 DEF LedgerTypes, Quantities
      <4> QED
        BY <2>2, <4>1, <4>2
    <3> QED
      BY <3>1
  <2>5. EntitledTo(o) = chain[o]
    <3>1. PICK g : g = Entitled(o)
      OBVIOUS
    <3>2. \A p \in Profiles : g[p] = f[p]
      BY <2>4, <3>1
    <3>3. SumFunctionOnSet(g, Profiles) = SumFunctionOnSet(f, Profiles)
      BY <3>2, SumSame
    <3> QED
      BY <2>3, <3>1, <3>3 DEF EntitledTo
  <2> QED
    BY <1>2, <1>6, <2>5 DEF WorldTypes, Quantities
<1>10. BookedWhenSettled
  BY <1>3 DEF BookedWhenSettled
<1>11. shared.state = "none" /\ cycle.pc = "idle"
  BY DEF NoShared, Idle
<1>12. BookedAsFrozen /\ NotYetBooked /\ Undisturbed /\ PaidFirst
  BY <1>3, <1>11 DEF BookedAsFrozen, NotYetBooked, Undisturbed, PaidFirst, Distributing, Distributed,
                     SharedEnds
<1>13. NeverMore
  <2>1. BookedTotal = 0
    BY <1>3, SumZero DEF BookedTotal
  <2> QED
    BY <1>6, <2>1 DEF NeverMore
<1> QED
  BY <1>1, <1>4, <1>5, <1>8, <1>9, <1>10, <1>12, <1>13 DEF Accounts

\* With a market that closes at the resolution, all of it holds.
Sound == Accounts /\ Undisturbed /\ PaidFirst /\ NeverMore

LEMMA StaysSound == ASSUME LateTrading = FALSE, Sound, [Next]_vars PROVE Sound'
<1>1. Accounts'
  BY KeepsAccounts DEF Sound
<1>2. TypeOK'
  BY <1>1 DEF Accounts, Invariant, Guarded
<1>3. Undisturbed'
  BY KeepsUndisturbed DEF Sound, Accounts
<1>4. PaidFirst'
  BY <1>2, KeepsPaidFirst DEF Sound
<1>5. NeverMore'
  BY <1>1, <1>4, KeepsNeverMore DEF Sound
<1> QED
  BY <1>1, <1>3, <1>4, <1>5 DEF Sound

LEMMA SoundHolds == ASSUME LateTrading = FALSE PROVE Spec => []Sound
<1>1. Init => Sound
  BY AccountsStart DEF Sound
<1>2. Sound /\ [Next]_vars => Sound'
  BY StaysSound
<1> QED
  BY <1>1, <1>2, PTL DEF Spec

LEMMA SumsAre ==
  TypeOK => /\ SumFunction(payout) = Paid
            /\ SumFunction(booked) = BookedTotal
            /\ AccountingCash = SumFunctionOnSet(cash, Profiles)
<1> SUFFICES ASSUME TypeOK, WorldTypes, LedgerTypes
             PROVE  /\ SumFunction(payout) = Paid
                    /\ SumFunction(booked) = BookedTotal
                    /\ AccountingCash = SumFunctionOnSet(cash, Profiles)
  BY Groups
<1>1. DOMAIN payout = Payers /\ DOMAIN booked = Profiles /\ DOMAIN cash = Profiles
  BY DEF WorldTypes, LedgerTypes
<1> QED
  BY <1>1 DEF SumFunction, Paid, BookedTotal, AccountingCash

\* Fills paid for, and not reconciled yet.
Spent == [p \in Profiles |-> IF order[p].matched /\ order[p].side = "BUY" THEN 1 ELSE 0]

\* The cash of the ledgers is their own, what they booked, and at most what
\* their unreconciled fills took.
LEMMA CashIs ==
  TypeOK => AccountingCash <= OwnTotal + BookedTotal + SumFunction(Spent)
<1> SUFFICES ASSUME TypeOK, LedgerTypes
             PROVE  AccountingCash <= OwnTotal + BookedTotal + SumFunction(Spent)
  BY Groups
<1> DEFINE Both == [p \in Profiles |-> Own[p] + booked[p]]
           All == [p \in Profiles |-> Both[p] + Spent[p]]
<1>1. Ints(Own, Profiles) /\ OwnTotal \in Int /\ Ints(booked, Profiles) /\ BookedTotal \in Nat
  BY OwnTyped, BookedTyped
<1>2. Ints(Spent, Profiles) /\ SumFunction(Spent) = SumFunctionOnSet(Spent, Profiles)
  BY DEF Ints, Spent, SumFunction
<1>3. Ints(Both, Profiles)
  BY <1>1 DEF Ints
<1>4. Ints(All, Profiles) /\ Ints(cash, Profiles)
  BY <1>2, <1>3 DEF Ints, LedgerTypes
<1>5. SumFunctionOnSet(Both, Profiles) = OwnTotal + BookedTotal
  <2>1. \A p \in Profiles : Both[p] = Own[p] + booked[p]
    OBVIOUS
  <2>2. PICK u, v, w : u = Own /\ v = booked /\ w = Both
    OBVIOUS
  <2>3. Ints(u, Profiles) /\ Ints(v, Profiles) /\ \A p \in Profiles : w[p] = u[p] + v[p]
    BY <1>1, <2>1, <2>2 DEF Ints
  <2>4. SumFunctionOnSet(w, Profiles) = SumFunctionOnSet(u, Profiles) + SumFunctionOnSet(v, Profiles)
    <3>1. ASSUME NEW S, IsFiniteSet(S), Ints(u, S), Ints(v, S), \A p \in S : w[p] = u[p] + v[p]
          PROVE  SumFunctionOnSet(w, S) = SumFunctionOnSet(u, S) + SumFunctionOnSet(v, S)
      BY <3>1, SumAdd
    <3> QED
      BY <2>3, <3>1
  <2> QED
    BY <2>2, <2>4 DEF OwnTotal, BookedTotal
<1>6. SumFunctionOnSet(All, Profiles)
        = SumFunctionOnSet(Both, Profiles) + SumFunctionOnSet(Spent, Profiles)
  <2>1. \A p \in Profiles : All[p] = Both[p] + Spent[p]
    OBVIOUS
  <2>2. PICK u, v, w : u = Both /\ v = Spent /\ w = All
    OBVIOUS
  <2>3. Ints(u, Profiles) /\ Ints(v, Profiles) /\ \A p \in Profiles : w[p] = u[p] + v[p]
    BY <1>2, <1>3, <2>1, <2>2 DEF Ints
  <2>4. SumFunctionOnSet(w, Profiles) = SumFunctionOnSet(u, Profiles) + SumFunctionOnSet(v, Profiles)
    <3>1. ASSUME NEW S, IsFiniteSet(S), Ints(u, S), Ints(v, S), \A p \in S : w[p] = u[p] + v[p]
          PROVE  SumFunctionOnSet(w, S) = SumFunctionOnSet(u, S) + SumFunctionOnSet(v, S)
      BY <3>1, SumAdd
    <3> QED
      BY <2>3, <3>1
  <2> QED
    BY <2>2, <2>4
<1>7. ASSUME NEW p \in Profiles PROVE cash[p] <= All[p]
  <2>1. All[p] = Own[p] + booked[p] + Spent[p]
    OBVIOUS
  <2>2. Own[p] = cash[p] - booked[p] + Proceeds(p)
    BY OwnIs
  <2>3. PICK a \in Int, b \in Nat, c \in {0, 1}, d \in {-1, 0, 1} :
          a = cash[p] /\ b = booked[p] /\ c = Spent[p] /\ d = Proceeds(p)
    BY DEF LedgerTypes, Spent, Proceeds
  <2>4. d + c >= 0
    BY <2>3 DEF Proceeds, Spent, Bought, Sold
  <2> HIDE DEF All
  <2>5. All[p] = a - b + d + b + c
    BY <2>1, <2>2, <2>3
  <2>6. a <= a - b + d + b + c
    BY <2>3, <2>4
  <2> QED
    BY <2>3, <2>5, <2>6
<1>8. SumFunctionOnSet(cash, Profiles) <= SumFunctionOnSet(All, Profiles)
  <2> HIDE DEF All
  <2> QED
    BY <1>4, <1>7, SumMonotone
<1> QED
  BY <1>2, <1>5, <1>6, <1>8, SumsAre

\* When the market closes with the resolution, every owner of a frozen
\* condition holds what was frozen until its ledger books it.
THEOREM FrozenInventoryIsHeld ==
  ASSUME LateTrading = FALSE PROVE Spec => []FrozenIsHeld
<1>1. Sound => FrozenIsHeld
  BY DEF Sound, Undisturbed, FrozenIsHeld, Owners
<1> QED
  BY <1>1, SoundHolds, PTL

\* When the market closes with the resolution, what the ledgers call cash is
\* in the wallet, on its way to it, or was paid for a fill.
THEOREM LedgerCashIsBacked ==
  ASSUME LateTrading = FALSE PROVE Spec => []CashIsBacked
<1>1. ASSUME Sound PROVE CashIsBacked
  <2>1. TypeOK /\ WorldTypes /\ Balanced /\ NeverMore
    BY <1>1, InvariantParts, Groups DEF Sound, Accounts
  <2>2. AccountingCash <= OwnTotal + BookedTotal + SumFunction(Spent)
    BY <2>1, CashIs
  <2>3. PICK c \in Int : c = AccountingCash
    BY <2>1, SumsAre, SumType, Groups DEF Ints, LedgerTypes
  <2>4. PICK a \in Int, b \in Nat, d \in Nat, e \in Nat, f \in Nat, h \in Nat :
          /\ a = OwnTotal /\ b = BookedTotal /\ d = Paid
          /\ e = collateral /\ f = inflight /\ h = deposits
    BY <2>1, OwnTyped, PaidTyped, BookedTyped DEF WorldTypes, TypeOK
  <2>5. PICK s \in Int : s = SumFunction(Spent)
    <3>1. Ints(Spent, Profiles) /\ SumFunction(Spent) = SumFunctionOnSet(Spent, Profiles)
      BY DEF Ints, Spent, SumFunction
    <3> QED
      BY <3>1, SumType
  <2>6. a = e + f - d - h /\ b <= d /\ c <= a + b + s
    BY <2>1, <2>2, <2>3, <2>4, <2>5 DEF Balanced, NeverMore
  <2>7. c <= e + f + s
    BY <2>6
  <2> QED
    BY <2>3, <2>4, <2>5, <2>7 DEF CashIsBacked, Spent
<1> QED
  BY <1>1, SoundHolds, PTL

LEMMA PromiseSums == \A f : Promise!SumFunction(f) = SumFunction(f)
BY DEF SumFunction, Promise!SumFunction, SumFunctionOnSet, Promise!SumFunctionOnSet,
       FoldFunctionOnSet, Promise!FoldFunctionOnSet, MapThenFoldSet, Promise!MapThenFoldSet

LEMMA PromiseStarts == Init => Promise!Init
<1> SUFFICES ASSUME Init PROVE Promise!Init
  OBVIOUS
<1>1. Paid = 0
  BY PayersFinite, SumZero DEF Init, Paid
<1>2. SumFunction(payout) = Paid
  BY AccountsStart, InvariantParts, SumsAre DEF Accounts
<1>3. booked = [p \in Profiles |-> 0]
  BY DEF Init
<1> QED
  BY <1>1, <1>2, <1>3, PromiseSums DEF Promise!Init

\* What a step books is positive, for a ledger that has booked nothing, and
\* within what was paid; what is paid is not booked in the same step.
PromiseStep ==
  \/ UNCHANGED <<Paid, booked>>
  \/ Paid' > Paid /\ booked' = booked
  \/ \E p \in Profiles : \E n \in Nat \ {0} :
       booked[p] = 0 /\ booked' = [booked EXCEPT ![p] = n] /\ Paid' = Paid

LEMMA StepsByPromise == Sound /\ [Next]_vars => PromiseStep
<1> SUFFICES ASSUME Sound, [Next]_vars PROVE PromiseStep
  OBVIOUS
<1> USE InvariantParts DEF Sound, Accounts
<1>1. TypeOK' /\ MoneyMoves /\ LedgerTypes
  BY KeepsAccounts, StepMoney, Groups DEF Invariant, Guarded
<1>2. ASSUME NEW p \in Profiles, NEW n \in Nat, booked[p] = 0,
             booked' = [booked EXCEPT ![p] = @ + n], payout' = payout
      PROVE  PromiseStep
  <2>1. booked \in [Profiles -> Nat] /\ Paid' = Paid
    BY <1>1, <1>2 DEF LedgerTypes, Paid
  <2>2. booked' = [booked EXCEPT ![p] = n]
    BY <1>2, <2>1
  <2>3. CASE n = 0
    <3>1. booked' = booked
      BY <1>2, <2>1, <2>2, <2>3
    <3> QED
      BY <2>1, <3>1 DEF PromiseStep
  <2>4. CASE n # 0
    BY <1>2, <2>1, <2>2, <2>4 DEF PromiseStep
  <2> QED
    BY <2>3, <2>4
<1>3. CASE Idles \/ Resolve \/ CreditCollateral \/ Deposit
  BY <1>3 DEF Idles, money, Resolve, CreditCollateral, Deposit, ledgers, PromiseStep, Paid
<1>4. CASE Market
  BY <1>1, <1>4, OthersStay DEF Market, PromiseStep, Paid
<1>5. CASE Pays
  <2>1. booked' = booked /\ Paid' = Paid + chain[winner]
    BY <1>1, <1>5, PaysMore DEF ledgers
  <2>2. PICK a \in Nat, b \in Nat : a = Paid /\ b = chain[winner]
    BY <1>1, <1>5, PaysMore, PaidTyped
  <2>3. b > 0 \/ Paid' = Paid
    BY <2>1, <2>2
  <2>4. b > 0 => Paid' > Paid
    BY <2>1, <2>2
  <2> QED
    BY <2>1, <2>3, <2>4 DEF PromiseStep
<1>6. CASE SettlesAlone
  <2>1. PICK amount : Alone(amount)
    BY <1>6, AloneBooks
  <2>2. amount \in Nat /\ booked[me] = 0 /\ me \in Profiles
    BY <2>1, AloneIsPaid DEF Alone
  <2>3. booked' = [booked EXCEPT ![me] = @ + amount] /\ payout' = payout
    BY <2>1 DEF Alone, Books, world
  <2> QED
    BY <1>2, <2>2, <2>3
<1>7. ASSUME NEW q \in Profiles, BookAllocation(q) PROVE PromiseStep
  <2>1. shared.state # "none"
    BY <1>7 DEF BookAllocation, Applying, At, ReceiptAtStep, ApplySteps, Distributing
  <2>2. Share(q) \in Nat
    BY <2>1, ShareTyped
  <2>3. booked[q] = 0
    BY <1>7, AllocationEnds DEF BookedWhenSettled, Handoff, Settled, SharedEnds
  <2>4. booked' = [booked EXCEPT ![q] = @ + Share(q)] /\ payout' = payout
    BY <1>7 DEF BookAllocation, world
  <2> QED
    BY <1>2, <2>2, <2>3, <2>4
<1> QED
  BY <1>1, <1>3, <1>4, <1>5, <1>6, <1>7 DEF MoneyMoves

LEMMA SumsWillBe ==
  (TypeOK => /\ SumFunction(payout) = Paid
             /\ SumFunction(booked) = BookedTotal
             /\ AccountingCash = SumFunctionOnSet(cash, Profiles))'
BY SumsAre, PTL

LEMMA PromiseSteps ==
  ASSUME LateTrading = FALSE, Sound, [Next]_vars PROVE [Promise!Next]_(Promise!vars)
<1>1. Sound' /\ PromiseStep
  BY StaysSound, StepsByPromise
<1>2. TypeOK /\ TypeOK'
  BY <1>1 DEF Sound, Accounts, Invariant, Guarded
<1>3. /\ SumFunction(payout) = Paid
      /\ SumFunction(payout') = Paid'
      /\ Promise!SumFunction(booked') = BookedTotal'
  BY <1>2, SumsAre, SumsWillBe, PromiseSums
<1>4. (TypeOK => Nats(payout, Payers) /\ Ints(payout, Payers) /\ Paid \in Nat)'
  BY PaidTyped, PTL
<1>5. (TypeOK => Nats(booked, Profiles) /\ Ints(booked, Profiles) /\ BookedTotal \in Nat)'
  BY BookedTyped, PTL
<1>6. BookedTotal' <= Paid'
  BY <1>1 DEF Sound, NeverMore
<1>7. CASE UNCHANGED <<Paid, booked>>
  BY <1>3, <1>7 DEF Promise!vars
<1>8. CASE Paid' > Paid /\ booked' = booked
  BY <1>2, <1>3, <1>4, <1>8 DEF Promise!Next, Promise!Pay
<1>9. ASSUME NEW p \in Profiles, NEW n \in Nat \ {0}, booked[p] = 0,
             booked' = [booked EXCEPT ![p] = n], Paid' = Paid
      PROVE  Promise!Book(p)
  <2>1. booked \in [Profiles -> Nat]
    BY <1>2, Groups DEF LedgerTypes
  <2>2. booked'[p] = n
    BY <1>9, <2>1
  <2>3. PICK g : g = booked'
    OBVIOUS
  <2>4. Nats(g, Profiles) /\ g[p] = n
    BY <1>2, <1>5, <2>2, <2>3 DEF Nats
  <2>5. g[p] <= SumFunctionOnSet(g, Profiles)
    BY <2>4, SumAtLeast
  <2>6. PICK a \in Nat, b \in Nat : a = Paid /\ b = BookedTotal'
    BY <1>2, <1>5, PaidTyped
  <2>7. n <= b /\ b <= a
    BY <1>6, <1>9, <2>3, <2>4, <2>5, <2>6 DEF BookedTotal
  <2>8. n \in 1 .. a
    BY <1>9, <2>6, <2>7
  <2> QED
    BY <1>3, <1>9, <2>6, <2>7, <2>8 DEF Promise!Book
<1>10. CASE \E p \in Profiles : \E n \in Nat \ {0} :
              booked[p] = 0 /\ booked' = [booked EXCEPT ![p] = n] /\ Paid' = Paid
  BY <1>9, <1>10 DEF Promise!Next
<1> QED
  BY <1>1, <1>7, <1>8, <1>10 DEF PromiseStep

\* When the market closes with the resolution, the sleeves implement the
\* promise of PayoutOnce: each books its part once, and together they never
\* book more than the condition paid.
THEOREM ThePromiseIsKept ==
  ASSUME LateTrading = FALSE PROVE Spec => PromiseKept
<1>1. Init => Promise!Init
  BY PromiseStarts
<1>2. Sound /\ [Next]_vars => [Promise!Next]_(Promise!vars)
  BY PromiseSteps
<1> QED
  BY <1>1, <1>2, SoundHolds, PTL DEF Spec, PromiseKept, Promise!Spec
=============================================================================
