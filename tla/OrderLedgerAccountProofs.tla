---------------------- MODULE OrderLedgerAccountProofs ----------------------
(***************************************************************************)
(* The quantities of the ledger and of the account, for every set of       *)
(* actions, every market and every bound: what the attempts booked, what   *)
(* the targets and the positions count, and what the exchange matched.     *)
(***************************************************************************)
EXTENDS OrderLedgerCausalProofs

Posting(o) == At("post") /\ o = <<exec.act, exec.n>>

\* An order the exchange cannot know of yet.
Untouched(o) == attempt[o].state = "NONE" \/ Posting(o)

Fresh(o) ==
  order[o].venue = "none" /\ order[o].matched = 0 /\ order[o].final = 0 /\ order[o].told = 0

FreshOrders == \A o \in Orders : Untouched(o) => Fresh(o)

\* Nothing is reported that was not matched, and what is on the wire was not.
VenueTruth ==
  \A o \in Orders :
    /\ order[o].final <= order[o].matched
    /\ order[o].told <= order[o].matched
    /\ order[o].venue = "flying" => order[o].matched = 0

BookedOnce ==
  \A o \in Orders :
    /\ attempt[o].booked <= order[o].matched
    /\ attempt[o].state \in UnresolvedStates => attempt[o].booked = 0

FilledIsBooked ==
  \A a \in Actions : /\ target[a].filled = BookedOf(a)
                     /\ ~HasTarget(a) => target[a].filled = 0

PositionAddsUp ==
  \A t \in Tokens : pos[t] = Inventory0[t] + FilledOf("BUY", t) - FilledOf("SELL", t)

Ledger ==
  /\ Causal
  /\ FreshOrders
  /\ VenueTruth
  /\ BookedOnce
  /\ FilledIsBooked
  /\ PositionAddsUp

-----------------------------------------------------------------------------
\* What a step does to an attempt.

BookedStates == {"FILLED", "PARTIAL_FILLED"}

AttemptKept(o) ==
  /\ attempt'[o].booked = attempt[o].booked
  /\ attempt'[o].req = attempt[o].req
  /\ attempt'[o].state = "NONE" <=> attempt[o].state = "NONE"
  /\ attempt'[o].state \in UnresolvedStates => attempt[o].state \in UnresolvedStates
  /\ \A s \in BookedStates : attempt'[o].state = s <=> attempt[o].state = s

LEMMA AttemptChange ==
  ASSUME Causal, [Next]_vars, NEW o \in Orders
  PROVE  \/ AttemptKept(o)
         \/ BeginSubmissionAttempt(o[1], o[2])
         \/ ReconcileFill(o)
<1> USE DEF Causal, Backed, Typed, TypeOK
<1>1. o[1] \in Actions /\ o[2] \in Attempts /\ o = <<o[1], o[2]>> /\ attempt[o] \in AttemptRows
  <2>1. o[1] \in Actions /\ o[2] \in Attempts /\ o = <<o[1], o[2]>>
    BY DEF Orders
  <2> QED
    BY <2>1
<1>2. attempt'[o] = attempt[o] => AttemptKept(o)
  BY DEF AttemptKept
<1>3. ASSUME attempt[o].state \in UnresolvedStates, NEW s, s \notin BookedStates \cup {"NONE"},
             \/ attempt'[o] = [attempt[o] EXCEPT !.state = s]
             \/ \E r : attempt'[o] = [attempt[o] EXCEPT !.state = s, !.resp = r]
      PROVE  AttemptKept(o)
  BY <1>1, <1>3, Disjoint DEF AttemptKept, AttemptRows, BookedStates, UnresolvedStates
<1>4. ASSUME NEW a \in Actions, HandlerStep(a)
      PROVE  AttemptKept(o) \/ BeginSubmissionAttempt(o[1], o[2])
  <2>1. CASE \E n \in Attempts : BeginSubmissionAttempt(a, n)
    <3>1. PICK n \in Attempts : BeginSubmissionAttempt(a, n)
      BY <2>1
    <3>2. CASE o = <<a, n>>
      BY <1>1, <3>1, <3>2
    <3>3. CASE o # <<a, n>>
      <4>1. attempt'[o] = attempt[o]
        BY <3>1, <3>3 DEF BeginSubmissionAttempt
      <4> QED
        BY <1>2, <4>1
    <3> QED
      BY <3>2, <3>3
  <2>2. CASE PostRejected(a) \/ RecordAttempt(a) \/ RecordCancellation(a)
    <3>1. /\ exec \in Handlers /\ exec \in Steps /\ exec.act = a
          /\ exec.pc \in {"post", "attempt", "cancelled"}
      BY <2>2, HandledAction DEF HandlerStep, Submit, PostRejected, RecordAttempt,
           RecordCancellation, ProcessSourceAction, CloseRetry, Busy, At
    <3>2. exec.n \in Attempts /\ attempt[<<a, exec.n>>].state \in UnresolvedStates
      BY <3>1, WorksInFlight
    <3>3. CASE o # <<a, exec.n>>
      <4>1. attempt'[o] = attempt[o]
        BY <2>2, <3>3 DEF PostRejected, RecordAttempt, RecordCancellation, SetAttempt
      <4> QED
        BY <1>2, <4>1
    <3>4. CASE o = <<a, exec.n>> /\ PostRejected(a)
      <4>1. PICK s \in {"NO_FILL", "REJECTED_INTERNAL"} : SetAttempt(o, s)
        BY <3>4 DEF PostRejected
      <4>2. attempt'[o] = [attempt[o] EXCEPT !.state = s]
        BY <4>1 DEF SetAttempt
      <4> QED
        BY <1>3, <3>2, <3>4, <4>2 DEF BookedStates
    <3>5. CASE o = <<a, exec.n>> /\ (RecordAttempt(a) \/ RecordCancellation(a))
      <4>1. attempt' = [attempt EXCEPT ![o].state = exec.st, ![o].resp = exec.resp]
        BY <3>5 DEF RecordAttempt, RecordCancellation
      <4>2. attempt'[o] = [attempt[o] EXCEPT !.state = exec.st, !.resp = exec.resp]
        BY <4>1
      <4>3. exec.st \in UnresolvedStates
        BY <3>5, InStep DEF RecordAttempt, RecordCancellation, PCs, Pending
      <4> QED
        BY <1>3, <3>2, <3>5, <4>2, <4>3 DEF BookedStates, UnresolvedStates
    <3> QED
      BY <2>2, <3>3, <3>4, <3>5
  <2>3. CASE /\ ~(\E n \in Attempts : BeginSubmissionAttempt(a, n))
             /\ ~PostRejected(a) /\ ~RecordAttempt(a) /\ ~RecordCancellation(a)
    <3>1. UNCHANGED attempt
      BY <1>4, <2>3
         DEF HandlerStep, Plan, Submit, ProcessSourceAction, ScopeRefuses, ScopeAccepts,
         LateUnfillable, RecoverSubmitStarted, DeferToEarlierAction,
         SupersedeEarlierOpposites, CloseUnsellable, Refuse, FailStaleTarget, PlanFails,
         PlanFirst, PlanRemainder, RecordPlan, PreparationFails, PostAnswered,
         PostUnanswered, RecordTarget, RecordTransition, CloseRetry, rows
    <3> QED
      BY <1>2, <3>1
  <2> QED
    BY <2>1, <2>2, <2>3
<1>5. ASSUME NEW p \in Orders, Reconcile(p) PROVE AttemptKept(o) \/ ReconcileFill(o)
  <2>1. CASE p # o
    <3>1. attempt'[o] = attempt[o]
      BY <1>5, <2>1 DEF Reconcile, ReconcileFill, ReconcileFinalizedNoFill, ReconcileCanceled,
           ReconcileAbsent, SetAttempt
    <3> QED
      BY <1>2, <3>1
  <2>2. CASE p = o /\ ~ReconcileFill(o)
    <3>1. attempt[o].state \in UnresolvedStates
      BY <1>5, <2>2, ReconciledIsInFlight
    <3>2. PICK s \in {"NO_FILL", "UNKNOWN_SUBMISSION"} : SetAttempt(o, s)
      BY <1>5, <2>2 DEF Reconcile, ReconcileFinalizedNoFill, ReconcileCanceled, ReconcileAbsent
    <3>3. attempt'[o] = [attempt[o] EXCEPT !.state = s]
      BY <3>2 DEF SetAttempt
    <3> QED
      BY <1>3, <3>1, <3>3 DEF BookedStates
  <2> QED
    BY <2>1, <2>2
<1>6. CASE Intake \/ UNCHANGED rows
  <2>1. UNCHANGED attempt
    BY <1>6 DEF Intake, Observe, RecordGap, rows
  <2> QED
    BY <1>2, <2>1
<1> QED
  BY <1>4, <1>5, <1>6, RowSteps

-----------------------------------------------------------------------------
\* What a step does to an order.

\* The POST of an order returns in this step.
Posted(o) == Posting(o) /\ exec'.pc = "attempt"

\* A landing order was posted just now, or was on the wire.
Landing(o) == Posted(o) \/ order[o].venue = "flying"

VenueStep(o) ==
  \/ Landing(o) /\ \E k \in FirstMatches(o) : \E j \in Tellable(o, k) : Lands(o, k, j)
  \/ /\ \/ Posted(o) /\ DelayedVenue /\ order' = [order EXCEPT ![o].venue = "flying"]
        \/ order[o].venue = "flying" /\ order' = [order EXCEPT ![o].venue = "none"]
        \/ order[o].venue = "open" /\ order' = [order EXCEPT ![o].venue = "closed"]
     /\ UNCHANGED <<held, wallet>>
  \/ Match(o)
  \/ Finalize(o)

LEMMA VenueSteps ==
  ASSUME Causal, [Next]_vars
  PROVE  UNCHANGED venue \/ (UNCHANGED rows /\ \E o \in Orders : VenueStep(o))
<1>0. \A a \in Actions, n \in Attempts : <<a, n>> \in Orders
  BY DEF Orders
<1> USE DEF Causal, Backed, Typed, TypeOK, venue
<1>1. ASSUME NEW a \in Actions, HandlerStep(a)
      PROVE  UNCHANGED venue \/ (UNCHANGED rows /\ \E o \in Orders : VenueStep(o))
  <2>1. CASE PostAnswered(a) \/ PostUnanswered(a)
    <3>1. exec \in Handlers /\ exec.act = a /\ exec.pc = "post"
      BY <2>1, HandledAction DEF HandlerStep, Submit, PostAnswered, PostUnanswered,
           ProcessSourceAction, CloseRetry, Busy, At
    <3> DEFINE o == <<a, exec.n>>
    <3>2. o \in Orders /\ Posted(o) /\ UNCHANGED rows
      <4>1. exec.n \in Attempts
        BY <3>1, WorksInFlight
      <4>2. UNCHANGED rows
        BY <2>1 DEF PostAnswered, PostUnanswered
      <4>3. Posted(o)
        <5>1. PICK s, r : exec' = [exec EXCEPT !.pc = "attempt", !.st = s, !.resp = r]
          BY <2>1 DEF PostAnswered, PostUnanswered
        <5>2. exec'.pc = "attempt"
          BY <3>1, <5>1 DEF Handlers
        <5> QED
          BY <3>1, <5>2 DEF Posted, Posting, At
      <4>4. o \in Orders
        BY <1>0, <4>1
      <4> QED
        BY <4>2, <4>3, <4>4
    <3>3. \A k : 0 \in Tellable(o, k)
      BY DEF Tellable
    <3>4. CASE PostAnswered(a)
      <4>1. PICK k \in FirstMatches(o) : \E j \in Tellable(o, k) : Lands(o, k, j)
        BY <3>4 DEF PostAnswered
      <4> HIDE DEF o
      <4>2. VenueStep(o)
        BY <3>2, <4>1 DEF VenueStep, Landing
      <4> QED
        BY <3>2, <4>2
    <3>5. CASE PostUnanswered(a)
      <4>1. \/ \E k \in FirstMatches(o) : Lands(o, k, 0)
            \/ UNCHANGED venue
            \/ /\ DelayedVenue
               /\ order' = [order EXCEPT ![o].venue = "flying"]
               /\ UNCHANGED <<held, wallet>>
        BY <3>5 DEF PostUnanswered
      <4> HIDE DEF o
      <4>2. UNCHANGED venue \/ VenueStep(o)
        BY <3>2, <3>3, <4>1 DEF VenueStep, Landing
      <4> QED
        BY <3>2, <4>2
    <3> QED
      BY <2>1, <3>4, <3>5
  <2>2. CASE ~PostAnswered(a) /\ ~PostUnanswered(a)
    BY <1>1, <2>2
       DEF HandlerStep, Plan, Submit, ProcessSourceAction, ScopeRefuses, ScopeAccepts,
       LateUnfillable, RecoverSubmitStarted, DeferToEarlierAction,
       SupersedeEarlierOpposites, CloseUnsellable, Refuse, FailStaleTarget, PlanFails,
       PlanFirst, PlanRemainder, RecordPlan, PreparationFails, BeginSubmissionAttempt,
       PostRejected, RecordAttempt, RecordCancellation, RecordTarget, RecordTransition,
       CloseRetry
  <2> QED
    BY <2>1, <2>2
<1>2. ASSUME NEW o \in Orders, Reconcile(o) PROVE UNCHANGED venue
  BY <1>2 DEF Reconcile, ReconcileFill, ReconcileFinalizedNoFill, ReconcileCanceled,
              ReconcileAbsent
<1>3. ASSUME NEW o \in Orders, CancelDue(o)
      PROVE  UNCHANGED venue \/ (UNCHANGED rows /\ \E p \in Orders : VenueStep(p))
  <2>1. CASE order[o].venue = "open"
    BY <1>3, <2>1 DEF CancelDue, VenueStep
  <2>2. CASE order[o].venue # "open"
    <3>1. order' = [order EXCEPT ![o].venue = order[o].venue]
      BY <1>3, <2>2 DEF CancelDue
    <3>2. order' = order
      BY <3>1 DEF VenueOrders
    <3> QED
      BY <1>3, <3>2 DEF CancelDue
  <2> QED
    BY <2>1, <2>2
<1>4. CASE Venue
  <2>1. PICK o \in Orders : Match(o) \/ Withdraw(o) \/ Arrive(o) \/ Finalize(o)
    BY <1>4 DEF Venue
  <2>2. UNCHANGED rows
    BY <2>1 DEF Match, Withdraw, Arrive, Finalize
  <2>3. VenueStep(o)
    <3>1. \A k : 0 \in Tellable(o, k)
      BY DEF Tellable
    <3> QED
      BY <2>1, <3>1 DEF Withdraw, Arrive, VenueStep, Landing
  <2> QED
    BY <2>2, <2>3
<1>5. CASE Intake \/ Crash \/ UNCHANGED vars
  BY <1>5 DEF Intake, Observe, RecordGap, Crash, vars
<1> QED
  BY <1>1, <1>2, <1>3, <1>4, <1>5, StepKinds

\* What a step of the exchange does to one order.
Landed(o, k) ==
  /\ Landing(o)
  /\ k \in FirstMatches(o) /\ k \in Nat /\ k <= attempt[o].req
  /\ order'[o].matched = k
  /\ order'[o].final = IF SettlementLag THEN 0 ELSE k
  /\ order'[o].told \in Tellable(o, k)
  /\ order'[o].venue \in {"open", "closed"}
  /\ order'[o].venue = "open" => k < attempt[o].req /\ (SideOf[o[1]] = "BUY" \/ k = 0)
  /\ Traded(o, k)

Shifted(o) ==
  /\ order'[o].matched = order[o].matched
  /\ order'[o].final = order[o].final
  /\ order'[o].told = order[o].told
  /\ \/ Posted(o) /\ DelayedVenue /\ order'[o].venue = "flying"
     \/ order[o].venue = "flying" /\ order'[o].venue = "none"
     \/ order[o].venue = "open" /\ order'[o].venue = "closed"
  /\ UNCHANGED <<held, wallet>>

Grown(o) ==
  /\ order[o].venue = "open"
  /\ order'[o].matched = order[o].matched + 1
  /\ order'[o].final = IF SettlementLag THEN order[o].final ELSE order[o].final + 1
  /\ order'[o].told = order[o].told
  /\ order'[o].venue = IF order[o].matched + 1 = attempt[o].req THEN "closed" ELSE "open"
  /\ Traded(o, 1)

Finalizes(o) ==
  /\ order'[o].matched = order[o].matched
  /\ order'[o].final \in Nat /\ order'[o].final <= order[o].matched
  /\ order[o].final < order'[o].final
  /\ order'[o].told = order[o].told
  /\ order'[o].venue = order[o].venue
  /\ UNCHANGED <<held, wallet>>

OrderStep(o) ==
  (\E k \in Nat : Landed(o, k)) \/ Shifted(o) \/ Grown(o) \/ Finalizes(o)

LEMMA VenueStepIs ==
  ASSUME Causal, NEW o \in Orders, VenueStep(o)
  PROVE  OrderStep(o) /\ \A p \in Orders : p # o => order'[p] = order[p]
<1> USE DEF Causal, Backed, Typed, TypeOK
<1>1. order[o] \in VenueOrders /\ attempt[o] \in AttemptRows
  OBVIOUS
<1>2. \A v : \A r \in VenueOrders : /\ [r EXCEPT !.venue = v].venue = v
                               /\ [r EXCEPT !.venue = v].matched = r.matched
                               /\ [r EXCEPT !.venue = v].final = r.final
                               /\ [r EXCEPT !.venue = v].told = r.told
  BY DEF VenueOrders
<1>3. ASSUME Landing(o), NEW k \in FirstMatches(o), NEW j \in Tellable(o, k), Lands(o, k, j)
      PROVE  OrderStep(o) /\ \A p \in Orders : p # o => order'[p] = order[p]
  <2>1. k \in Nat /\ k <= attempt[o].req
    BY <1>1 DEF FirstMatches, AttemptRows
  <2>2. PICK v \in {"open", "closed"} :
          /\ v = "open" => k < attempt[o].req /\ (SideOf[o[1]] = "BUY" \/ k = 0)
          /\ order' = [order EXCEPT ![o] =
               [venue |-> v, matched |-> k, final |-> IF SettlementLag THEN 0 ELSE k, told |-> j]]
    BY <1>3 DEF Lands
  <2>3. order'[o] =
          [venue |-> v, matched |-> k, final |-> IF SettlementLag THEN 0 ELSE k, told |-> j]
    BY <2>2
  <2>4. Landed(o, k)
    BY <1>3, <2>1, <2>2, <2>3 DEF Landed, Lands
  <2> QED
    BY <2>1, <2>2, <2>4 DEF OrderStep
<1>4. ASSUME NEW v,
             \/ Posted(o) /\ DelayedVenue /\ v = "flying"
             \/ order[o].venue = "flying" /\ v = "none"
             \/ order[o].venue = "open" /\ v = "closed",
             order' = [order EXCEPT ![o].venue = v],
             UNCHANGED <<held, wallet>>
      PROVE  OrderStep(o) /\ \A p \in Orders : p # o => order'[p] = order[p]
  <2>1. order'[o] = [order[o] EXCEPT !.venue = v]
    BY <1>4
  <2>2. Shifted(o)
    BY <1>1, <1>2, <1>4, <2>1 DEF Shifted
  <2> QED
    BY <1>4, <2>2 DEF OrderStep
<1>5. CASE Match(o)
  <2> DEFINE f == IF SettlementLag THEN order[o].final ELSE order[o].final + 1
             v == IF order[o].matched + 1 = attempt[o].req THEN "closed" ELSE order[o].venue
  <2>1. order' = [order EXCEPT ![o].matched = @ + 1, ![o].final = f, ![o].venue = v]
    BY <1>5 DEF Match
  <2>2. /\ order'[o].matched = order[o].matched + 1 /\ order'[o].final = f
        /\ order'[o].venue = v /\ order'[o].told = order[o].told
    <3> HIDE DEF f, v
    <3> QED
      BY <1>1, <2>1 DEF VenueOrders
  <2>3. Grown(o)
    BY <1>5, <2>2 DEF Match, Grown
  <2>4. \A p \in Orders : p # o => order'[p] = order[p]
    BY <2>1
  <2> QED
    BY <2>3, <2>4 DEF OrderStep
<1>6. CASE Finalize(o)
  <2>1. PICK k \in (order[o].final + 1)..order[o].matched : order' = [order EXCEPT ![o].final = k]
    BY <1>6 DEF Finalize
  <2>2. k \in Nat /\ order[o].final < k /\ k <= order[o].matched
    BY <1>1 DEF VenueOrders
  <2>3. /\ order'[o].matched = order[o].matched /\ order'[o].final = k
        /\ order'[o].venue = order[o].venue /\ order'[o].told = order[o].told
    BY <1>1, <2>1 DEF VenueOrders
  <2>4. Finalizes(o)
    BY <1>6, <2>2, <2>3 DEF Finalize, Finalizes
  <2> QED
    BY <2>1, <2>4 DEF OrderStep
<1> QED
  BY <1>3, <1>4, <1>5, <1>6 DEF VenueStep

-----------------------------------------------------------------------------
\* Where a step leaves the handler.

Advance(a) ==
  /\ exec'.act = a
  /\ \/ exec'.pc \in {"entry", "late", "set", "append"}
     \/ exec'.pc = "planned" /\ (PlanFirst(a) \/ PlanRemainder(a))
     \/ exec'.pc = "prepare" /\ RecordPlan(a)
     \/ \E n \in Attempts : BeginSubmissionAttempt(a, n) /\ exec'.pc = "post" /\ exec'.n = n
     \/ exec'.pc = "attempt" /\ (PostAnswered(a) \/ PostUnanswered(a))

LEMMA HandlerAdvances ==
  ASSUME Causal, NEW a \in Actions, HandlerStep(a)
  PROVE  exec' = Idle \/ UNCHANGED exec \/ Advance(a)
<1>1. CASE ProcessSourceAction(a) \/ CloseRetry(a)
  BY <1>1 DEF ProcessSourceAction, CloseRetry, Begun, Handler, Advance
<1>2. CASE ~ProcessSourceAction(a) /\ ~CloseRetry(a)
  <2>1. exec \in Handlers /\ exec.act = a
    BY <1>2, HandledAction
  <2>2. \A pc, s : Then(pc, s) => exec'.pc = pc /\ exec'.act = a
    BY <2>1, Moves
  <2>3. CASE \/ ScopeRefuses(a) \/ RecoverSubmitStarted(a) \/ DeferToEarlierAction(a)
             \/ Refuse(a) \/ FailStaleTarget(a) \/ PostRejected(a) \/ RecordTransition(a)
             \/ SupersedeEarlierOpposites(a)
    BY <2>3 DEF ScopeRefuses, RecoverSubmitStarted, DeferToEarlierAction, Refuse,
                FailStaleTarget, PostRejected, RecordTransition, SupersedeEarlierOpposites,
                Done
  <2>4. CASE ScopeAccepts(a)
    <3>1. PICK pc \in {"entry", "late"} : Then(pc, "NONE")
      BY <2>4 DEF ScopeAccepts
    <3> QED
      BY <2>2, <3>1 DEF Advance
  <2>5. CASE PlanFails(a)
    <3>1. CASE Done
      BY <3>1 DEF Done
    <3>2. CASE Then("append", target[a].state)
      BY <2>2, <3>2 DEF Advance
    <3> QED
      BY <2>5, <3>1, <3>2 DEF PlanFails
  <2>6. CASE PreparationFails(a)
    <3>1. PICK s : Then("set", s)
      BY <2>6 DEF PreparationFails
    <3> QED
      BY <2>2, <3>1 DEF Advance
  <2>7. CASE LateUnfillable(a) \/ CloseUnsellable(a) \/ RecordAttempt(a) \/ RecordTarget(a)
             \/ RecordCancellation(a)
    BY <2>2, <2>7 DEF LateUnfillable, CloseUnsellable, RecordAttempt, RecordTarget,
         RecordCancellation, Advance
  <2>8. CASE PlanFirst(a) \/ PlanRemainder(a)
    <3>1. PICK s, q : exec' = [exec EXCEPT !.pc = "planned", !.st = s, !.q = q]
      BY <2>8 DEF PlanFirst, PlanRemainder
    <3> QED
      BY <2>1, <2>8, <3>1 DEF Advance, Handlers
  <2>9. CASE RecordPlan(a)
    <3>1. exec'.act = a /\ exec'.pc \in {"prepare", "set"}
      BY <2>1, <2>9 DEF RecordPlan, Handlers
    <3> QED
      BY <2>9, <3>1 DEF Advance
  <2>10. ASSUME NEW n \in Attempts, BeginSubmissionAttempt(a, n) PROVE Advance(a)
    <3>1. exec'.act = a /\ exec'.pc = "post" /\ exec'.n = n
      BY <2>1, <2>10 DEF BeginSubmissionAttempt, Handlers
    <3> QED
      BY <2>10, <3>1 DEF Advance
  <2>11. CASE PostAnswered(a) \/ PostUnanswered(a)
    <3>1. PICK s, r : exec' = [exec EXCEPT !.pc = "attempt", !.st = s, !.resp = r]
      BY <2>11 DEF PostAnswered, PostUnanswered
    <3>2. exec'.act = a /\ exec'.pc = "attempt"
      BY <2>1, <3>1 DEF Handlers
    <3> QED
      BY <2>11, <3>2 DEF Advance
  <2> QED
    BY <1>2, <2>3, <2>4, <2>5, <2>6, <2>7, <2>8, <2>9, <2>10, <2>11
       DEF HandlerStep, Plan, Submit
<1> QED
  BY <1>1, <1>2

LEMMA Advances ==
  ASSUME Causal, [Next]_vars
  PROVE  \/ exec' = Idle \/ UNCHANGED exec
         \/ \E a \in Actions : HandlerStep(a) /\ Advance(a)
         \/ \E o \in Orders : CancelDue(o) /\ exec'.pc = "cancelled" /\ o = <<exec'.act, exec'.n>>
<1>1. CASE Intake \/ (\E o \in Orders : Reconcile(o)) \/ Venue \/ UNCHANGED vars
  BY <1>1, ReconciledIsInFlight
     DEF Intake, Observe, RecordGap, Venue, Match, Withdraw, Arrive, Finalize, vars
<1>2. CASE Crash
  BY <1>2 DEF Crash, Done
<1>3. ASSUME NEW o \in Orders, CancelDue(o)
      PROVE  exec'.pc = "cancelled" /\ o = <<exec'.act, exec'.n>>
  BY <1>3 DEF CancelDue, Handler, Orders
<1> QED
  BY <1>1, <1>2, <1>3, HandlerAdvances, StepKinds

LEMMA UntouchedBefore ==
  ASSUME Causal, [Next]_vars, NEW o \in Orders, Untouched(o)'
  PROVE  Untouched(o)
<1>1. CASE attempt'[o].state = "NONE"
  <2>1. ~ReconcileFill(o)
    <3>1. SUFFICES ASSUME ReconcileFill(o) PROVE FALSE
      OBVIOUS
    <3>2. PICK s \in {"FILLED", "PARTIAL_FILLED"}, q \in Readings(o) :
            attempt' = [attempt EXCEPT ![o].state = s, ![o].booked = q]
      BY <3>1 DEF ReconcileFill
    <3>3. attempt'[o].state = s
      BY <3>2 DEF Causal, Backed, Typed, TypeOK, AttemptRows
    <3> QED
      BY <1>1, <3>3
  <2>2. BeginSubmissionAttempt(o[1], o[2]) => attempt[o].state = "NONE"
    <3>1. o = <<o[1], o[2]>>
      BY DEF Orders
    <3> QED
      BY <3>1 DEF BeginSubmissionAttempt, NextAttempt
  <2> QED
    BY <1>1, <2>1, <2>2, AttemptChange DEF AttemptKept, Untouched
<1>2. CASE Posting(o)'
  <2>1. exec'.pc = "post" /\ o = <<exec'.act, exec'.n>>
    BY <1>2 DEF Posting, At
  <2>2. CASE UNCHANGED exec
    BY <2>1, <2>2 DEF Untouched, Posting, At
  <2>3. ASSUME NEW a \in Actions, Advance(a) PROVE Untouched(o)
    <3>1. PICK n \in Attempts : BeginSubmissionAttempt(a, n) /\ exec'.n = n /\ exec'.act = a
      BY <2>1, <2>3 DEF Advance
    <3> QED
      BY <2>1, <3>1 DEF BeginSubmissionAttempt, NextAttempt, Untouched
  <2> QED
    BY <2>1, <2>2, <2>3, Advances DEF Idle
<1> QED
  BY <1>1, <1>2 DEF Untouched

USE DEF OfSide, Attempts, Orders

-----------------------------------------------------------------------------
\* Orders and what is booked of them.

LEMMA PostedIsUnresolved ==
  ASSUME Causal, NEW o \in Orders, Posting(o)
  PROVE  attempt[o].state \in UnresolvedStates
BY DEF Posting, At, Causal, Backed, Working

LEMMA NotNone == "NONE" \notin UnresolvedStates
BY DEF UnresolvedStates

\* What is not changed by a step of the exchange.
LEMMA OrderKept ==
  ASSUME Ledger, [Next]_vars, NEW o \in Orders
  PROVE  order'[o] = order[o] \/ (UNCHANGED rows /\ VenueStep(o) /\ OrderStep(o))
<1>1. Causal
  BY DEF Ledger
<1> QED
  BY <1>1, VenueSteps, VenueStepIs DEF venue

LEMMA OrderTyped ==
  ASSUME Ledger, NEW o \in Orders
  PROVE  /\ order[o] \in VenueOrders /\ attempt[o] \in AttemptRows
         /\ order[o].matched \in Nat /\ order[o].final \in Nat /\ order[o].told \in Nat
         /\ attempt[o].booked \in Nat /\ attempt[o].req \in Nat
         /\ attempt[o].state \in AttemptStates
<1>1. order[o] \in VenueOrders /\ attempt[o] \in AttemptRows
  BY DEF Ledger, Causal, Backed, Typed, TypeOK
<1> QED
  BY <1>1 DEF VenueOrders, AttemptRows

LEMMA StepFreshOrders == ASSUME Ledger, [Next]_vars PROVE FreshOrders'
<1> SUFFICES ASSUME NEW o \in Orders, Untouched(o)'
             PROVE  Fresh(o)'
  BY DEF FreshOrders
<1>1. Causal
  BY DEF Ledger
<1>2. Untouched(o) /\ Fresh(o)
  BY <1>1, UntouchedBefore DEF Ledger, FreshOrders
<1>3. CASE order'[o] = order[o]
  BY <1>2, <1>3 DEF Fresh
<1>4. CASE UNCHANGED rows /\ OrderStep(o)
  <2>1. ~Posted(o)
    <3>1. SUFFICES ASSUME Posted(o) PROVE FALSE
      OBVIOUS
    <3>2. attempt'[o].state \in UnresolvedStates
      BY <1>1, <1>4, <3>1, PostedIsUnresolved DEF Posted, rows
    <3> QED
      BY <3>1, <3>2, NotNone DEF Posted, Posting, At, Untouched
  <2>2. ~Landing(o) /\ ~Shifted(o) /\ ~Grown(o)
    BY <1>2, <2>1 DEF Landing, Shifted, Grown, Fresh
  <2>3. ~Finalizes(o)
    BY <1>1, <1>2 DEF Finalizes, Fresh, Causal, Backed, Typed, TypeOK, VenueOrders
  <2> QED
    BY <1>4, <2>2, <2>3 DEF OrderStep, Landed
<1> QED
  BY <1>3, <1>4, OrderKept

LEMMA StepVenueTruth == ASSUME Ledger, [Next]_vars PROVE VenueTruth'
<1> SUFFICES ASSUME NEW o \in Orders
             PROVE  /\ order'[o].final <= order'[o].matched
                    /\ order'[o].told <= order'[o].matched
                    /\ order'[o].venue = "flying" => order'[o].matched = 0
  BY DEF VenueTruth
<1>1. /\ order[o].final <= order[o].matched
      /\ order[o].told <= order[o].matched
      /\ order[o].venue = "flying" => order[o].matched = 0
      /\ Untouched(o) => Fresh(o)
  BY DEF Ledger, VenueTruth, FreshOrders
<1>2. order[o].matched \in Nat /\ order[o].final \in Nat /\ order[o].told \in Nat
  BY OrderTyped
<1>3. CASE order'[o] = order[o]
  BY <1>1, <1>3
<1>4. CASE OrderStep(o)
  <2>1. ASSUME NEW k \in Nat, Landed(o, k)
        PROVE  /\ order'[o].final <= order'[o].matched
               /\ order'[o].told <= order'[o].matched
               /\ order'[o].venue # "flying"
    BY <2>1 DEF Landed, Tellable
  <2>2. CASE Shifted(o)
    BY <1>1, <2>2 DEF Shifted, Posted, Untouched, Fresh
  <2>3. CASE Grown(o)
    BY <1>1, <1>2, <2>3 DEF Grown
  <2>4. CASE Finalizes(o)
    BY <1>1, <1>2, <2>4 DEF Finalizes
  <2> QED
    BY <1>4, <2>1, <2>2, <2>3, <2>4 DEF OrderStep
<1> QED
  BY <1>3, <1>4, OrderKept

\* What an order has matched is never taken back.
LEMMA MatchedGrows ==
  ASSUME Ledger, [Next]_vars, NEW o \in Orders
  PROVE  order[o].matched <= order'[o].matched
<1>1. /\ order[o].venue = "flying" => order[o].matched = 0
      /\ Untouched(o) => Fresh(o)
      /\ order[o].matched \in Nat
  BY OrderTyped DEF Ledger, VenueTruth, FreshOrders
<1>2. CASE order'[o] = order[o]
  BY <1>1, <1>2
<1>3. CASE OrderStep(o)
  <2>1. ASSUME NEW k \in Nat, Landed(o, k) PROVE order[o].matched <= order'[o].matched
    BY <1>1, <2>1 DEF Landed, Landing, Posted, Untouched, Fresh
  <2> QED
    BY <1>1, <1>3, <2>1 DEF OrderStep, Shifted, Grown, Finalizes
<1> QED
  BY <1>2, <1>3, OrderKept

\* A booked fill, and what it says.
Books(o, q) ==
  /\ q \in Nat /\ q > 0 /\ q <= order[o].matched
  /\ q <= Remaining(o[1])
  /\ SideOf[o[1]] = "SELL" => q <= pos[TokenOf[o[1]]]
  /\ attempt[o].state \in UnresolvedStates
  /\ attempt'[o].state \in BookedStates
  /\ attempt'[o].state = "FILLED" => q = Remaining(o[1])
  /\ attempt'[o].booked = q
  /\ attempt'[o].req = attempt[o].req
  /\ \A p \in Orders : p # o => attempt'[p] = attempt[p]
  /\ target'[o[1]].filled = target[o[1]].filled + q
  /\ target'[o[1]].qty = target[o[1]].qty
  /\ \A b \in Actions : b # o[1] => target'[b] = target[b]
  /\ pos' = [pos EXCEPT ![TokenOf[o[1]]] = IF SideOf[o[1]] = "BUY" THEN @ + q ELSE @ - q]
  /\ reserved' = [reserved EXCEPT ![o[1]] = 0]

LEMMA FillBooks ==
  ASSUME Ledger, NEW o \in Orders, ReconcileFill(o)
  PROVE  \E q \in Readings(o) : Books(o, q)
<1>1. o[1] \in Actions /\ target[o[1]] \in TargetRows
  BY DEF Ledger, Causal, Backed, Typed, TypeOK
<1>2. PICK q \in Readings(o) \ {0} :
        /\ q <= Remaining(o[1])
        /\ SideOf[o[1]] = "SELL" => q <= pos[TokenOf[o[1]]]
        /\ target' = [target EXCEPT ![o[1]].filled = @ + q, ![o[1]].state = FillState(o[1], q)]
        /\ attempt' = [attempt EXCEPT
             ![o].state = IF q = Remaining(o[1]) THEN "FILLED" ELSE "PARTIAL_FILLED",
             ![o].booked = q]
        /\ pos' = [pos EXCEPT ![TokenOf[o[1]]] = IF SideOf[o[1]] = "BUY" THEN @ + q ELSE @ - q]
  BY DEF ReconcileFill
<1>3. q \in Nat /\ q <= order[o].matched
  BY OrderTyped DEF Readings, Ledger, VenueTruth
<1>4. /\ target'[o[1]].filled = target[o[1]].filled + q
      /\ target'[o[1]].qty = target[o[1]].qty
      /\ \A b \in Actions : b # o[1] => target'[b] = target[b]
  BY <1>1, <1>2, <1>3 DEF Ledger, Causal, Backed, Typed, TypeOK, TargetRows
<1>5. PICK s \in BookedStates :
        /\ attempt' = [attempt EXCEPT ![o].state = s, ![o].booked = q]
        /\ s = "FILLED" => q = Remaining(o[1])
  BY <1>2 DEF BookedStates
<1>6. /\ attempt'[o].state = s /\ attempt'[o].booked = q /\ attempt'[o].req = attempt[o].req
      /\ \A p \in Orders : p # o => attempt'[p] = attempt[p]
  <2>1. attempt \in [Orders -> AttemptRows] /\ attempt[o] \in AttemptRows
    BY DEF Ledger, Causal, Backed, Typed, TypeOK
  <2> QED
    BY <1>5, <2>1 DEF AttemptRows
<1>7. attempt[o].state \in UnresolvedStates /\ reserved' = [reserved EXCEPT ![o[1]] = 0]
  BY DEF ReconcileFill, Reconcilable, Listed
<1>8. /\ q > 0 /\ attempt'[o].state \in BookedStates
      /\ attempt'[o].state = "FILLED" => q = Remaining(o[1])
  BY <1>2, <1>3, <1>5, <1>6
<1>9. Books(o, q)
  BY <1>2, <1>3, <1>4, <1>6, <1>7, <1>8, Zenon DEF Books
<1> QED
  BY <1>2, <1>9

LEMMA StepBookedOnce == ASSUME Ledger, [Next]_vars PROVE BookedOnce'
<1> SUFFICES ASSUME NEW o \in Orders
             PROVE  /\ attempt'[o].booked <= order'[o].matched
                    /\ attempt'[o].state \in UnresolvedStates => attempt'[o].booked = 0
  BY DEF BookedOnce
<1>1. /\ attempt[o].booked <= order[o].matched
      /\ attempt[o].state \in UnresolvedStates => attempt[o].booked = 0
      /\ order[o].matched <= order'[o].matched
      /\ attempt[o].booked \in Nat /\ order[o].matched \in Nat /\ order'[o].matched \in Nat
  <2>1. order'[o].matched \in Nat
    BY StepBacked DEF Ledger, Causal, Backed, Typed, TypeOK, VenueOrders
  <2> QED
    BY <2>1, MatchedGrows, OrderTyped DEF Ledger, BookedOnce
<1>2. CASE AttemptKept(o)
  BY <1>1, <1>2 DEF AttemptKept
<1>3. CASE BeginSubmissionAttempt(o[1], o[2])
  <2>1. o = <<o[1], o[2]>> /\ attempt \in [Orders -> AttemptRows]
    BY DEF Ledger, Causal, Backed, Typed, TypeOK
  <2>2. attempt'[o].booked = 0
    BY <1>3, <2>1 DEF BeginSubmissionAttempt
  <2> QED
    BY <1>1, <2>2
<1>4. CASE ReconcileFill(o)
  <2>1. PICK q \in Readings(o) : Books(o, q)
    BY <1>4, FillBooks
  <2> QED
    BY <1>1, <2>1 DEF Books, BookedStates, UnresolvedStates
<1> QED
  BY <1>2, <1>3, <1>4, AttemptChange DEF Ledger

-----------------------------------------------------------------------------
\* Progress of the targets, and the positions.

LEMMA BookedStays ==
  ASSUME Ledger, [Next]_vars, NEW o \in Orders, ~ReconcileFill(o)
  PROVE  attempt'[o].booked = attempt[o].booked
<1>1. CASE AttemptKept(o)
  BY <1>1 DEF AttemptKept
<1>2. CASE BeginSubmissionAttempt(o[1], o[2])
  <2>1. o = <<o[1], o[2]>> /\ attempt \in [Orders -> AttemptRows]
    BY DEF Ledger, Causal, Backed, Typed, TypeOK
  <2>2. attempt'[o].booked = 0
    BY <1>2, <2>1 DEF BeginSubmissionAttempt
  <2>3. attempt[o].state = "NONE"
    BY <1>2, <2>1 DEF BeginSubmissionAttempt, NextAttempt
  <2>4. order[o].matched = 0 /\ attempt[o].booked <= order[o].matched
    BY <2>3 DEF Untouched, Fresh, Ledger, FreshOrders, BookedOnce
  <2> QED
    BY <2>2, <2>4, OrderTyped
<1> QED
  BY <1>1, <1>2, AttemptChange DEF Ledger

LEMMA FilledHasTarget ==
  ASSUME Causal, NEW o \in Orders, Reconcile(o)
  PROVE  HasTarget(o[1])
BY ReconciledIsInFlight, InFlightLive DEF HasTarget

LEMMA NewRowsAreEmpty ==
  ASSUME Causal, [Next]_vars, NEW b \in Actions, ~HasTarget(b), target[b].filled = 0
  PROVE  target'[b].filled = 0
<1> USE DEF Causal, Backed, Typed, TypeOK
<1>1. target[b] \in TargetRows /\ target \in [Actions -> WithinTarget]
  OBVIOUS
<1>2. \A s : [target[b] EXCEPT !.state = s].filled = 0
  BY <1>1 DEF TargetRows
<1>3. ASSUME NEW a \in Actions, HandlerStep(a) PROVE target'[b].filled = 0
  <2>1. CASE SupersedeEarlierOpposites(a)
    BY <1>2, <2>1 DEF SupersedeEarlierOpposites
  <2>2. CASE a # b /\ ~SupersedeEarlierOpposites(a)
    BY <1>3, <2>2, OthersSame DEF Same
  <2>3. CASE a = b /\ ~SupersedeEarlierOpposites(a)
    <3>1. CASE LateUnfillable(a) \/ CloseUnsellable(a) \/ PlanFirst(a)
      <4>1. \E s, q : EnsureTarget(a, s, q)
        BY <3>1 DEF LateUnfillable, CloseUnsellable, PlanFirst
      <4>2. PICK s, q : target' = [target EXCEPT ![b] = [state |-> s, qty |-> q, filled |-> 0]]
        BY <2>3, <4>1 DEF EnsureTarget
      <4> QED
        BY <1>1, <4>2
    <3>2. CASE \/ FailStaleTarget(a) \/ PostRejected(a) \/ CloseRetry(a) \/ RecordTarget(a)
               \/ \E n \in Attempts : BeginSubmissionAttempt(a, n)
      <4>1. \E s : SetTarget(b, s)
        BY <2>3, <3>2 DEF FailStaleTarget, PostRejected, CloseRetry, Release, RecordTarget,
                    BeginSubmissionAttempt
      <4>2. PICK s : target'[b] = [target[b] EXCEPT !.state = s]
        BY <1>1, <4>1 DEF SetTarget
      <4> QED
        BY <1>2, <4>2
    <3>3. CASE \/ ProcessSourceAction(a) \/ ScopeRefuses(a) \/ ScopeAccepts(a)
               \/ RecoverSubmitStarted(a) \/ DeferToEarlierAction(a) \/ Refuse(a)
               \/ PlanFails(a) \/ PlanRemainder(a) \/ RecordPlan(a) \/ PreparationFails(a)
               \/ PostAnswered(a) \/ PostUnanswered(a) \/ RecordAttempt(a)
               \/ RecordTransition(a) \/ RecordCancellation(a)
      BY <3>3 DEF ProcessSourceAction, ScopeRefuses, ScopeAccepts,
           RecoverSubmitStarted, DeferToEarlierAction, Refuse, PlanFails, PlanRemainder,
           RecordPlan, PreparationFails, PostAnswered, PostUnanswered, RecordAttempt,
           RecordTransition, RecordCancellation, rows
    <3> QED
      BY <1>3, <2>3, <3>1, <3>2, <3>3 DEF HandlerStep, Plan, Submit
  <2> QED
    BY <2>1, <2>2, <2>3
<1>4. ASSUME NEW o \in Orders, Reconcile(o) PROVE target'[b].filled = 0
  <2>1. o[1] # b
    BY <1>4, FilledHasTarget
  <2> QED
    BY <1>4, <2>1, ReconcileSame DEF Same
<1>5. CASE Intake \/ UNCHANGED rows
  BY <1>5 DEF Intake, Observe, RecordGap, rows
<1> QED
  BY <1>3, <1>4, <1>5, RowSteps

LEMMA FilledStays ==
  ASSUME Ledger, [Next]_vars, NEW a \in Actions,
         \A n \in Attempts : ~ReconcileFill(<<a, n>>)
  PROVE  target'[a].filled = target[a].filled
<1>1. Causal /\ (~HasTarget(a) => target[a].filled = 0)
  BY DEF Ledger, FilledIsBooked
<1>2. CASE HasTarget(a)
  BY <1>1, <1>2, FrozenStays
<1>3. CASE ~HasTarget(a)
  BY <1>1, <1>3, NewRowsAreEmpty
<1> QED
  BY <1>2, <1>3

LEMMA AttemptsAreFinite == IsFiniteSet(Attempts)
BY BoundsAssumption, FS_Interval

BookedOfAction(a) == [n \in Attempts |-> attempt[<<a, n>>].booked]

LEMMA StepFilledIsBooked == ASSUME Ledger, [Next]_vars PROVE FilledIsBooked'
<1> SUFFICES ASSUME NEW a \in Actions
             PROVE  /\ target'[a].filled = BookedOf(a)'
                    /\ ~HasTarget(a)' => target'[a].filled = 0
  BY DEF FilledIsBooked
<1>1. /\ Causal /\ target[a].filled = BookedOf(a)
      /\ ~HasTarget(a) => target[a].filled = 0
  BY DEF Ledger, FilledIsBooked
<1>0. PICK f, g : f = BookedOfAction(a) /\ g = BookedOfAction(a)'
  OBVIOUS
<1>2. /\ BookedOf(a) = SumFunctionOnSet(f, Attempts)
      /\ BookedOf(a)' = SumFunctionOnSet(g, Attempts)
  BY <1>0 DEF BookedOf, BookedOfAction
<1>3. \A n \in Attempts : /\ f[n] = attempt[<<a, n>>].booked /\ f[n] \in Nat
                          /\ g[n] = attempt'[<<a, n>>].booked /\ g[n] \in Nat
  <2>1. Typed /\ Typed'
    BY <1>1, StepBacked DEF Causal, Backed
  <2> QED
    BY <1>0, <2>1 DEF BookedOfAction, Typed, TypeOK, AttemptRows
<1> HIDE DEF Attempts
<1>4. IsFiniteSet(Attempts) /\ Ints(f, Attempts) /\ Ints(g, Attempts)
  <2>1. IsFiniteSet(Attempts)
    BY AttemptsAreFinite
  <2>2. \A n \in Attempts : f[n] \in Nat /\ g[n] \in Nat
    BY <1>3
  <2>3. Ints(f, Attempts) /\ Ints(g, Attempts)
    BY <2>2 DEF Ints
  <2> QED
    BY <2>1, <2>2, <2>3
<1>5. target'[a].filled = BookedOf(a)'
  <2>1. CASE \A n \in Attempts : ~ReconcileFill(<<a, n>>)
    <3>1. \A n \in Attempts : f[n] = g[n]
      <4>1. \A n \in Attempts : <<a, n>> \in Orders
        OBVIOUS
      <4> QED
        BY <1>3, <2>1, <4>1, BookedStays
    <3>2. SumFunctionOnSet(f, Attempts) = SumFunctionOnSet(g, Attempts)
      BY <1>4, <3>1, SumSame
    <3> QED
      BY <1>1, <1>2, <2>1, <3>2, FilledStays
  <2>2. ASSUME NEW n \in Attempts, ReconcileFill(<<a, n>>)
        PROVE  target'[a].filled = BookedOf(a)'
    <3>1. <<a, n>> \in Orders /\ <<a, n>>[1] = a
      OBVIOUS
    <3>2. PICK q \in Readings(<<a, n>>) : Books(<<a, n>>, q)
      BY <2>2, <3>1, FillBooks
    <3>3. /\ q \in Nat /\ attempt[<<a, n>>].state \in UnresolvedStates
          /\ attempt'[<<a, n>>].booked = q
          /\ target'[a].filled = target[a].filled + q
          /\ \A p \in Orders : p # <<a, n>> => attempt'[p] = attempt[p]
      BY <3>1, <3>2, Zenon DEF Books
    <3>7. g[n] = q /\ \A m \in Attempts \ {n} : g[m] = f[m]
      <4>1. \A m \in Attempts \ {n} : attempt'[<<a, m>>] = attempt[<<a, m>>]
        <5>1. \A m \in Attempts \ {n} : <<a, m>> \in Orders /\ <<a, m>> # <<a, n>>
          OBVIOUS
        <5> QED
          BY <3>3, <5>1
      <4> QED
        BY <1>3, <3>3, <4>1
    <3>4. f[n] = 0
      BY <1>3, <3>1, <3>3 DEF Ledger, BookedOnce
    <3>5. SumFunctionOnSet(g, Attempts) = SumFunctionOnSet(f, Attempts) - f[n] + g[n]
      BY <1>4, <3>7, SumChanged
    <3>6. SumFunctionOnSet(f, Attempts) \in Int
      BY <1>4, SumType
    <3> QED
      BY <1>1, <1>2, <3>3, <3>4, <3>5, <3>6, <3>7
  <2> QED
    BY <2>1, <2>2
<1>6. ASSUME ~HasTarget(a)' PROVE target'[a].filled = 0
  <2>1. ~HasTarget(a)
    BY <1>1, <1>6, TargetsStay
  <2> QED
    BY <1>1, <2>1, NewRowsAreEmpty
<1> QED
  BY <1>5, <1>6

FilledQuantities == [a \in Actions |-> target[a].filled]

LEMMA FilledOfBooks ==
  ASSUME Ledger, Typed', NEW o \in Orders, NEW q, Books(o, q), NEW s, NEW t
  PROVE  FilledOf(s, t)' =
           FilledOf(s, t) + (IF s = SideOf[o[1]] /\ t = TokenOf[o[1]] THEN q ELSE 0)
<1> DEFINE f == FilledQuantities
           g == FilledQuantities'
           S == {a \in OfSide(s) : TokenOf[a] = t}
           a == o[1]
<1>1. /\ FilledOf(s, t) = SumFunctionOnSet(f, S)
      /\ FilledOf(s, t)' = SumFunctionOnSet(g, S)
  BY DEF FilledOf, FilledQuantities
<1>2. \A b \in Actions : /\ f[b] = target[b].filled /\ f[b] \in Nat
                         /\ g[b] = target'[b].filled /\ g[b] \in Nat
  BY DEF FilledQuantities, Ledger, Causal, Backed, Typed, TypeOK, TargetRows
<1>3. IsFiniteSet(S) /\ S \subseteq Actions
  BY ActionsAssumption, FS_Subset
<1>4. /\ q \in Nat /\ a \in Actions /\ g[a] = f[a] + q
      /\ \A b \in Actions : b # a => g[b] = f[b]
  BY <1>2 DEF Books
<1>5. a \in S <=> s = SideOf[a] /\ t = TokenOf[a]
  BY <1>4
<1> HIDE DEF f, g, S, a
<1>6. Ints(f, S) /\ Ints(g, S)
  BY <1>2, <1>3 DEF Ints
<1>7. SumFunctionOnSet(f, S) \in Int
  BY <1>3, <1>6, SumType
<1>8. CASE a \in S
  <2>1. SumFunctionOnSet(g, S) = SumFunctionOnSet(f, S) - f[a] + g[a]
    BY <1>3, <1>4, <1>6, <1>8, SumChanged
  <2>2. f[a] \in Nat
    BY <1>2, <1>4
  <2>3. SumFunctionOnSet(g, S) = SumFunctionOnSet(f, S) + q
    BY <1>4, <1>7, <2>1, <2>2
  <2> QED
    BY <1>1, <1>5, <1>8, <2>3 DEF a
<1>9. CASE a \notin S
  <2>1. SumFunctionOnSet(f, S) = SumFunctionOnSet(g, S)
    BY <1>3, <1>4, <1>9, SumSame
  <2> QED
    BY <1>1, <1>5, <1>7, <1>9, <2>1 DEF a
<1> QED
  BY <1>8, <1>9

LEMMA FilledOfStays ==
  ASSUME Ledger, [Next]_vars, \A o \in Orders : ~ReconcileFill(o), NEW s, NEW t
  PROVE  FilledOf(s, t)' = FilledOf(s, t)
<1> DEFINE f == FilledQuantities
           g == FilledQuantities'
           S == {a \in OfSide(s) : TokenOf[a] = t}
<1>1. /\ FilledOf(s, t) = SumFunctionOnSet(f, S)
      /\ FilledOf(s, t)' = SumFunctionOnSet(g, S)
  BY DEF FilledOf, FilledQuantities
<1>2. \A b \in S : f[b] = g[b]
  <2>1. \A b \in Actions, n \in Attempts : <<b, n>> \in Orders
    OBVIOUS
  <2> QED
    BY <2>1, FilledStays DEF FilledQuantities
<1>3. IsFiniteSet(S)
  BY ActionsAssumption, FS_Subset
<1> HIDE DEF f, g, S
<1> QED
  BY <1>1, <1>2, <1>3, SumSame

LEMMA FilledOfIsInt == ASSUME Typed, NEW s, NEW t PROVE FilledOf(s, t) \in Nat
<1> DEFINE f == FilledQuantities
           S == {a \in OfSide(s) : TokenOf[a] = t}
<1>1. FilledOf(s, t) = SumFunctionOnSet(f, S)
  BY DEF FilledOf, FilledQuantities
<1>2. Nats(f, S)
  BY DEF FilledQuantities, Typed, TypeOK, TargetRows, Nats
<1>3. IsFiniteSet(S)
  BY ActionsAssumption, FS_Subset
<1> HIDE DEF f, S
<1> QED
  BY <1>1, <1>2, <1>3, SumNat

LEMMA StepPositionAddsUp == ASSUME Ledger, [Next]_vars PROVE PositionAddsUp'
<1> SUFFICES ASSUME NEW t \in Tokens
             PROVE  pos'[t] = Inventory0[t] + FilledOf("BUY", t)' - FilledOf("SELL", t)'
  BY DEF PositionAddsUp
<1>1. Causal /\ Typed /\ Typed' /\ pos[t] = Inventory0[t] + FilledOf("BUY", t) - FilledOf("SELL", t)
  BY StepBacked DEF Ledger, PositionAddsUp, Causal, Backed
<1>2. CASE \A o \in Orders : ~ReconcileFill(o)
  BY <1>1, <1>2, FilledOfStays, PositionStays
<1>3. ASSUME NEW o \in Orders, ReconcileFill(o)
      PROVE  pos'[t] = Inventory0[t] + FilledOf("BUY", t)' - FilledOf("SELL", t)'
  <2>1. PICK q \in Readings(o) : Books(o, q)
    BY <1>3, FillBooks
  <2>2. /\ FilledOf("BUY", t)' =
             FilledOf("BUY", t) + (IF "BUY" = SideOf[o[1]] /\ t = TokenOf[o[1]] THEN q ELSE 0)
        /\ FilledOf("SELL", t)' =
             FilledOf("SELL", t) + (IF "SELL" = SideOf[o[1]] /\ t = TokenOf[o[1]] THEN q ELSE 0)
    BY <1>1, <2>1, FilledOfBooks
  <2>3. /\ q \in Nat
        /\ pos' = [pos EXCEPT ![TokenOf[o[1]]] = IF SideOf[o[1]] = "BUY" THEN @ + q ELSE @ - q]
    BY <2>1 DEF Books
  <2>4. /\ pos[t] \in Nat /\ Inventory0[t] \in Nat /\ SideOf[o[1]] \in {"BUY", "SELL"}
        /\ FilledOf("BUY", t) \in Nat /\ FilledOf("SELL", t) \in Nat
    BY <1>1, FilledOfIsInt, ActionsAssumption, EnvironmentAssumption DEF Typed, TypeOK, Sides
  <2>5. CASE TokenOf[o[1]] # t
    <3>1. pos'[t] = pos[t]
      BY <1>1, <2>3, <2>5 DEF Typed, TypeOK
    <3> QED
      BY <1>1, <2>2, <2>4, <2>5, <3>1
  <2>6. CASE TokenOf[o[1]] = t
    <3>1. pos'[t] = IF SideOf[o[1]] = "BUY" THEN pos[t] + q ELSE pos[t] - q
      BY <1>1, <2>3, <2>6 DEF Typed, TypeOK
    <3> QED
      BY <1>1, <2>2, <2>3, <2>4, <2>6, <3>1
  <2> QED
    BY <2>5, <2>6
<1> QED
  BY <1>2, <1>3

LEMMA InitLedger == Init => Ledger
<1> SUFFICES ASSUME Init PROVE Ledger
  OBVIOUS
<1>1. Causal
  BY InitCausal
<1>2. FreshOrders /\ VenueTruth /\ BookedOnce
  BY DEF Init, FreshOrders, VenueTruth, BookedOnce, Fresh
<1>3. FilledIsBooked
  <2> SUFFICES ASSUME NEW a \in Actions
               PROVE  target[a].filled = BookedOf(a) /\ target[a].filled = 0
    BY DEF FilledIsBooked
  <2>1. target[a].filled = 0
    BY DEF Init
  <2>2. PICK f : f = [n \in Attempts |-> attempt[<<a, n>>].booked]
    OBVIOUS
  <2>3. \A n \in Attempts : f[n] = 0
    BY <2>2 DEF Init
  <2>4. BookedOf(a) = SumFunctionOnSet(f, Attempts)
    BY <2>2 DEF BookedOf
  <2>5. BookedOf(a) = 0
    BY <2>3, <2>4, AttemptsAreFinite, SumZero
  <2> QED
    BY <2>1, <2>5
<1>4. \A s, t : FilledOf(s, t) = 0
  <2> SUFFICES ASSUME NEW s, NEW t PROVE FilledOf(s, t) = 0
    OBVIOUS
  <2> DEFINE S == {a \in OfSide(s) : TokenOf[a] = t}
  <2>1. PICK f : f = [a \in Actions |-> target[a].filled]
    OBVIOUS
  <2>2. FilledOf(s, t) = SumFunctionOnSet(f, S)
    BY <2>1 DEF FilledOf
  <2>3. \A a \in S : f[a] = 0
    BY <2>1 DEF Init
  <2>4. IsFiniteSet(S)
    BY ActionsAssumption, FS_Subset
  <2> HIDE DEF S
  <2> QED
    BY <2>2, <2>3, <2>4, SumZero
<1>5. PositionAddsUp
  BY <1>4, EnvironmentAssumption DEF Init, PositionAddsUp
<1> QED
  BY <1>1, <1>2, <1>3, <1>5 DEF Ledger

LEMMA StepLedger == ASSUME Ledger, [Next]_vars PROVE Ledger'
<1>1. Causal'
  BY StepCausal DEF Ledger
<1> QED
  BY <1>1, StepFreshOrders, StepVenueTruth, StepBookedOnce, StepFilledIsBooked,
     StepPositionAddsUp DEF Ledger

LEMMA AlwaysLedger == Spec => []Ledger
<1>1. Init => Ledger
  BY InitLedger
<1>2. Ledger /\ [Next]_vars => Ledger'
  BY StepLedger
<1> QED
  BY <1>1, <1>2, PTL DEF Spec

-----------------------------------------------------------------------------
\* What an attempt asked for, what its order matched and what it booked.

\* An order never matches more than was asked for, and rests only for more.
WithinRequest ==
  \A o \in Orders :
    /\ order[o].matched <= attempt[o].req
    /\ order[o].venue = "open" => order[o].matched < attempt[o].req

\* An attempt is called filled, in part or in full, for what it booked.
NamedAsBooked ==
  \A o \in Orders :
    /\ attempt[o].booked > 0 <=> attempt[o].state \in BookedStates
    /\ attempt[o].state = "FILLED" => attempt[o].booked = attempt[o].req

Requests == Ledger /\ WithinRequest /\ NamedAsBooked

LEMMA RequestFacts ==
  ASSUME Requests, NEW o \in Orders
  PROVE  /\ Ledger /\ Causal
         /\ order[o].matched <= attempt[o].req
         /\ order[o].venue = "open" => order[o].matched < attempt[o].req
         /\ attempt[o].booked > 0 <=> attempt[o].state \in BookedStates
         /\ attempt[o].state = "FILLED" => attempt[o].booked = attempt[o].req
         /\ attempt[o].state \in UnresolvedStates => attempt[o].booked = 0
         /\ attempt[o].booked <= order[o].matched
         /\ Untouched(o) => Fresh(o)
         /\ order[o].venue = "flying" => order[o].matched = 0
         /\ order[o].matched \in Nat /\ attempt[o].booked \in Nat /\ attempt[o].req \in Nat
BY OrderTyped
   DEF Requests, WithinRequest, NamedAsBooked, Ledger, BookedOnce, FreshOrders, VenueTruth

\* The request of an order that the exchange may know of.
LEMMA RequestStays ==
  ASSUME Ledger, [Next]_vars, NEW o \in Orders
  PROVE  attempt'[o].req = attempt[o].req \/ (Untouched(o) /\ attempt[o].state = "NONE")
<1>1. Causal
  BY DEF Ledger
<1>2. CASE ReconcileFill(o)
  BY <1>2, FillBooks DEF Books
<1>3. CASE BeginSubmissionAttempt(o[1], o[2])
  BY <1>3 DEF BeginSubmissionAttempt, NextAttempt, Untouched
<1> QED
  BY <1>1, <1>2, <1>3, AttemptChange DEF AttemptKept

LEMMA StepWithinRequest == ASSUME Requests, [Next]_vars PROVE WithinRequest'
<1> SUFFICES ASSUME NEW o \in Orders
             PROVE  /\ order'[o].matched <= attempt'[o].req
                    /\ order'[o].venue = "open" => order'[o].matched < attempt'[o].req
  BY DEF WithinRequest
<1>1. /\ Ledger
      /\ order[o].matched <= attempt[o].req
      /\ order[o].venue = "open" => order[o].matched < attempt[o].req
      /\ order[o].matched \in Nat /\ attempt[o].req \in Nat
      /\ Untouched(o) => Fresh(o)
  BY RequestFacts
<1>2. CASE order'[o] = order[o]
  <2>1. CASE attempt'[o].req = attempt[o].req
    BY <1>1, <1>2, <2>1
  <2>2. CASE Untouched(o)
    <3>1. attempt'[o].req \in Nat
      BY <1>1, StepBacked DEF Ledger, Causal, Backed, Typed, TypeOK, AttemptRows
    <3> QED
      BY <1>1, <1>2, <2>2, <3>1 DEF Fresh
  <2> QED
    BY <1>1, <2>1, <2>2, RequestStays
<1>3. CASE UNCHANGED rows /\ OrderStep(o)
  <2>1. attempt' = attempt
    BY <1>3 DEF rows
  <2>2. ASSUME NEW k \in Nat, Landed(o, k)
        PROVE  /\ order'[o].matched <= attempt[o].req
               /\ order'[o].venue = "open" => order'[o].matched < attempt[o].req
    BY <2>2 DEF Landed
  <2>3. CASE Shifted(o)
    BY <1>1, <2>1, <2>3 DEF Shifted
  <2>4. CASE Grown(o)
    BY <1>1, <2>1, <2>4 DEF Grown
  <2>5. CASE Finalizes(o)
    BY <1>1, <2>1, <2>5 DEF Finalizes
  <2> QED
    BY <1>3, <2>1, <2>2, <2>3, <2>4, <2>5 DEF OrderStep
<1> QED
  BY <1>1, <1>2, <1>3, OrderKept

\* An unresolved attempt asks for what its target still wants.
LEMMA AsksForRemainder ==
  ASSUME Causal, NEW o \in Orders, attempt[o].state \in UnresolvedStates
  PROVE  attempt[o].req = Remaining(o[1])
<1>1. o[1] \in Actions /\ o[2] \in Attempts /\ o = <<o[1], o[2]>>
  OBVIOUS
<1>2. Unresolved(o[1])
  BY <1>1 DEF Unresolved
<1> QED
  BY <1>1, <1>2 DEF Causal, InFlightRows, InFlightRow

LEMMA StepNamedAsBooked == ASSUME Requests, [Next]_vars PROVE NamedAsBooked'
<1> SUFFICES ASSUME NEW o \in Orders
             PROVE  /\ attempt'[o].booked > 0 <=> attempt'[o].state \in BookedStates
                    /\ attempt'[o].state = "FILLED" => attempt'[o].booked = attempt'[o].req
  BY DEF NamedAsBooked
<1>1. /\ Ledger /\ Causal
      /\ attempt[o].booked > 0 <=> attempt[o].state \in BookedStates
      /\ attempt[o].state = "FILLED" => attempt[o].booked = attempt[o].req
  BY RequestFacts
<1>2. CASE AttemptKept(o)
  <2>1. attempt'[o].state \in BookedStates <=> attempt[o].state \in BookedStates
    BY <1>2 DEF AttemptKept, BookedStates
  <2>2. attempt'[o].state = "FILLED" => attempt[o].state = "FILLED"
    BY <1>2 DEF AttemptKept, BookedStates
  <2> QED
    BY <1>1, <1>2, <2>1, <2>2 DEF AttemptKept
<1>3. CASE BeginSubmissionAttempt(o[1], o[2])
  <2>1. o = <<o[1], o[2]>> /\ attempt \in [Orders -> AttemptRows]
    BY <1>1 DEF Causal, Backed, Typed, TypeOK
  <2>2. attempt'[o].booked = 0 /\ attempt'[o].state = "SUBMIT_STARTED"
    BY <1>3, <2>1 DEF BeginSubmissionAttempt
  <2> QED
    BY <2>2 DEF BookedStates
<1>4. CASE ReconcileFill(o)
  <2>1. PICK q \in Readings(o) : Books(o, q)
    BY <1>1, <1>4, FillBooks
  <2>2. attempt[o].req = Remaining(o[1])
    BY <1>1, <2>1, AsksForRemainder DEF Books
  <2> QED
    BY <2>1, <2>2 DEF Books
<1> QED
  BY <1>1, <1>2, <1>3, <1>4, AttemptChange

LEMMA AlwaysRequests == Spec => []Requests
<1>1. Init => Requests
  <2> SUFFICES ASSUME Init PROVE Requests
    OBVIOUS
  <2>1. WithinRequest /\ NamedAsBooked
    BY DEF Init, WithinRequest, NamedAsBooked, BookedStates
  <2> QED
    BY <2>1, InitLedger DEF Requests
<1>2. Requests /\ [Next]_vars => Requests'
  BY StepLedger, StepWithinRequest, StepNamedAsBooked DEF Requests
<1> QED
  BY <1>1, <1>2, PTL DEF Spec

\* Every booked share was matched by the exchange and is counted once, in the
\* progress of its target, never beyond the frozen quantity, and in the
\* position; an attempt is called filled or partly filled exactly when it
\* booked something, and filled only when it booked all its order ever matches.
THEOREM TheLedgerAddsUp == Spec => []LedgerAddsUp
<1>1. ASSUME Requests PROVE LedgerAddsUp
  <2>1. \A a \in Actions : target[a].filled <= target[a].qty
    BY <1>1 DEF Requests, Ledger, Causal, Backed, Typed, WithinTarget
  <2>2. ASSUME NEW o \in Orders
        PROVE  /\ attempt[o].booked <= order[o].matched
               /\ attempt[o].booked > 0 <=> attempt[o].state \in {"FILLED", "PARTIAL_FILLED"}
               /\ attempt[o].state = "FILLED" => attempt[o].booked = order[o].matched
    BY <1>1, RequestFacts DEF BookedStates
  <2>3. /\ \A a \in Actions : target[a].filled = BookedOf(a)
        /\ \A t \in Tokens : pos[t] = Inventory0[t] + FilledOf("BUY", t) - FilledOf("SELL", t)
    BY <1>1 DEF Requests, Ledger, FilledIsBooked, PositionAddsUp
  <2> QED
    BY <2>1, <2>2, <2>3 DEF LedgerAddsUp
<1> QED
  BY <1>1, AlwaysRequests, PTL

-----------------------------------------------------------------------------
\* What the orders of an action have booked or, unresolved, may still trade.

LEMMA CommittedIs ==
  ASSUME Requests, NEW o \in Orders
  PROVE  /\ Committed(o) \in Nat /\ attempt[o].booked \in Nat
         /\ attempt[o].state \notin UnresolvedStates => Committed(o) = attempt[o].booked
         /\ attempt[o].state \in UnresolvedStates
              => attempt[o].booked = 0 /\ Committed(o) <= Remaining(o[1])
<1>1. /\ order[o].matched <= attempt[o].req
      /\ order[o].matched \in Nat /\ attempt[o].booked \in Nat /\ attempt[o].req \in Nat
      /\ attempt[o].state \in UnresolvedStates => attempt[o].booked = 0
  BY RequestFacts
<1>2. attempt[o].state \in UnresolvedStates => attempt[o].req = Remaining(o[1])
  BY RequestFacts, AsksForRemainder
<1>3. Exposure(o) \in Nat /\ Exposure(o) <= attempt[o].req
  BY <1>1 DEF Exposure
<1> QED
  BY <1>1, <1>2, <1>3 DEF Committed

LEMMA CommittedIsBounded ==
  ASSUME Requests, NEW a \in Actions
  PROVE  CommittedOf(a) <= target[a].qty
<1>0. PICK f, g : f = BookedOfAction(a) /\ g = [n \in Attempts |-> Committed(<<a, n>>)]
  OBVIOUS
<1>1. /\ BookedOf(a) = SumFunctionOnSet(f, Attempts)
      /\ CommittedOf(a) = SumFunctionOnSet(g, Attempts)
  BY <1>0 DEF BookedOf, BookedOfAction, CommittedOf
<1>2. /\ Causal /\ target[a].filled = BookedOf(a)
      /\ target[a].filled \in Nat /\ target[a].qty \in Nat /\ target[a].filled <= target[a].qty
  <2>1. Causal /\ target[a].filled = BookedOf(a)
    BY DEF Requests, Ledger, FilledIsBooked
  <2>2. target[a] \in WithinTarget
    BY <2>1 DEF Causal, Backed, Typed
  <2> QED
    BY <2>1, <2>2 DEF WithinTarget, TargetRows
<1>3. \A n \in Attempts :
        /\ f[n] \in Nat /\ g[n] \in Nat
        /\ attempt[<<a, n>>].state \notin UnresolvedStates => g[n] = f[n]
        /\ attempt[<<a, n>>].state \in UnresolvedStates => f[n] = 0 /\ g[n] <= Remaining(a)
  <2> SUFFICES ASSUME NEW n \in Attempts
               PROVE  /\ f[n] \in Nat /\ g[n] \in Nat
                      /\ attempt[<<a, n>>].state \notin UnresolvedStates => g[n] = f[n]
                      /\ attempt[<<a, n>>].state \in UnresolvedStates
                           => f[n] = 0 /\ g[n] <= Remaining(a)
    OBVIOUS
  <2>1. PICK o \in Orders : o = <<a, n>>
    OBVIOUS
  <2>2. f[n] = attempt[o].booked /\ g[n] = Committed(o) /\ o[1] = a
    BY <1>0, <2>1 DEF BookedOfAction
  <2> QED
    BY <2>1, <2>2, CommittedIs
<1> HIDE DEF Attempts
<1>4. IsFiniteSet(Attempts) /\ Ints(f, Attempts) /\ Ints(g, Attempts)
  <2>1. \A n \in Attempts : f[n] \in Nat /\ g[n] \in Nat
    BY <1>3
  <2> QED
    BY <2>1, AttemptsAreFinite DEF Ints
<1>5. CASE ~Unresolved(a)
  <2>1. \A n \in Attempts : g[n] = f[n]
    BY <1>3, <1>5 DEF Unresolved
  <2>2. SumFunctionOnSet(g, Attempts) = SumFunctionOnSet(f, Attempts)
    BY <1>4, <2>1, SumSame
  <2> QED
    BY <1>1, <1>2, <2>2
<1>6. CASE Unresolved(a)
  <2>1. PICK n \in Attempts : attempt[<<a, n>>].state \in UnresolvedStates
    BY <1>6 DEF Unresolved
  <2>2. \A m \in Attempts \ {n} : attempt[<<a, m>>].state \notin UnresolvedStates
    BY <1>2, <2>1 DEF Causal, Backed, ReservationBacksAttempt
  <2>3. \A m \in Attempts \ {n} : g[m] = f[m]
    BY <1>3, <2>2
  <2>4. SumFunctionOnSet(g, Attempts) = SumFunctionOnSet(f, Attempts) - f[n] + g[n]
    BY <1>4, <2>3, SumChanged
  <2>5. f[n] = 0 /\ g[n] \in Nat /\ g[n] <= Remaining(a)
    BY <1>3, <2>1
  <2> QED
    BY <1>1, <1>2, <2>4, <2>5 DEF Remaining
<1> QED
  BY <1>5, <1>6

\* Whatever the exchange delays and wherever the process dies, what the attempts
\* of an action booked and what its unresolved order trades, now or later, fit
\* the frozen quantity: no second order is made while an outcome is unknown.
THEOREM OrdersKeepToTarget == Spec => []OrdersFitTarget
<1>1. Requests => OrdersFitTarget
  BY CommittedIsBounded DEF OrdersFitTarget
<1> QED
  BY <1>1, AlwaysRequests, PTL

-----------------------------------------------------------------------------
\* A prompt exchange: a fill is final when it is matched, nothing acts after
\* the POST returned, and a resting order's POST names none of its fills.

Prompt == ~SettlementLag /\ ~DelayedVenue /\ ~PartialReceipts

Resting(o) == order[o].venue = "open"
Resolved(o) == attempt[o].state \notin UnresolvedStates \cup {"NONE"}

PromptOrder(o) ==
  /\ order[o].venue # "flying"
  /\ order[o].final = order[o].matched
  /\ order[o].told \in {0, order[o].matched}
  /\ order[o].matched <= attempt[o].req

\* What rests is a BUY that has more to match and whose cancellation is not recorded.
RestingOrder(o) ==
  Resting(o) => /\ SideOf[o[1]] = "BUY"
                /\ order[o].matched < attempt[o].req
                /\ order[o].told = 0
                /\ attempt[o].resp # "cancelled"

PromptVenue == \A o \in Orders : PromptOrder(o) /\ RestingOrder(o)

\* Only a handler that closed an order records its cancellation.
Cancellations ==
  /\ \A o \in Orders : Untouched(o) => attempt[o].resp = "none"
  /\ exec.pc = "attempt" => exec.resp # "cancelled"
  /\ exec.pc = "cancelled" => ~Resting(<<exec.act, exec.n>>)

\* A resolved attempt has booked all its order ever matches.
BookedInFull ==
  \A o \in Orders : Resolved(o) => ~Resting(o) /\ attempt[o].booked = order[o].matched

Account == Ledger /\ PromptVenue /\ Cancellations /\ BookedInFull

LEMMA ResponseChange ==
  ASSUME Causal, [Next]_vars, NEW o \in Orders
  PROVE  \/ attempt'[o].resp = attempt[o].resp
         \/ attempt'[o].resp = "none"
         \/ /\ exec.pc \in {"attempt", "cancelled"}
            /\ o = <<exec.act, exec.n>>
            /\ attempt'[o].resp = exec.resp
<1> USE DEF Causal, Backed, Typed, TypeOK
<1> DEFINE Kept == attempt'[o].resp = attempt[o].resp
           Cleared == attempt'[o].resp = "none"
           Recorded == /\ exec.pc \in {"attempt", "cancelled"}
                       /\ o = <<exec.act, exec.n>>
                       /\ attempt'[o].resp = exec.resp
<1>1. attempt[o] \in AttemptRows /\ attempt \in [Orders -> AttemptRows]
  OBVIOUS
<1>2. ASSUME NEW p, NEW s, SetAttempt(p, s) PROVE Kept
  <2>1. attempt'[o] = IF p = o THEN [attempt[o] EXCEPT !.state = s] ELSE attempt[o]
    BY <1>1, <1>2 DEF SetAttempt
  <2> QED
    BY <1>1, <2>1 DEF AttemptRows
<1>3. ASSUME NEW a \in Actions, HandlerStep(a) PROVE Kept \/ Cleared \/ Recorded
  <2>1. ASSUME NEW n \in Attempts, BeginSubmissionAttempt(a, n) PROVE Kept \/ Cleared
    <3>1. attempt' = [attempt EXCEPT ![<<a, n>>] =
            [state |-> "SUBMIT_STARTED", req |-> exec.q, resp |-> "none", booked |-> 0]]
      BY <2>1 DEF BeginSubmissionAttempt
    <3> QED
      BY <1>1, <3>1
  <2>2. CASE PostRejected(a)
    <3>1. PICK s : SetAttempt(<<a, exec.n>>, s)
      BY <2>2 DEF PostRejected
    <3> QED
      BY <1>2, <3>1
  <2>3. CASE RecordAttempt(a) \/ RecordCancellation(a)
    <3>1. exec.pc \in {"attempt", "cancelled"} /\ exec.act = a
      BY <2>3 DEF RecordAttempt, RecordCancellation, Busy, At
    <3>2. attempt' = [attempt EXCEPT ![<<a, exec.n>>].state = exec.st,
                                     ![<<a, exec.n>>].resp = exec.resp]
      BY <2>3 DEF RecordAttempt, RecordCancellation
    <3>3. CASE o = <<a, exec.n>>
      <4>1. attempt'[o] = [attempt[o] EXCEPT !.state = exec.st, !.resp = exec.resp]
        BY <1>1, <3>2, <3>3
      <4>2. attempt'[o].resp = exec.resp
        BY <1>1, <4>1 DEF AttemptRows
      <4> QED
        BY <3>1, <3>3, <4>2
    <3>4. CASE o # <<a, exec.n>>
      BY <3>2, <3>4
    <3> QED
      BY <3>3, <3>4
  <2>4. CASE /\ ~(\E n \in Attempts : BeginSubmissionAttempt(a, n))
             /\ ~PostRejected(a) /\ ~RecordAttempt(a) /\ ~RecordCancellation(a)
    BY <1>3, <2>4
       DEF HandlerStep, Plan, Submit, ProcessSourceAction, ScopeRefuses, ScopeAccepts,
       LateUnfillable, RecoverSubmitStarted, DeferToEarlierAction,
       SupersedeEarlierOpposites, CloseUnsellable, Refuse, FailStaleTarget, PlanFails,
       PlanFirst, PlanRemainder, RecordPlan, PreparationFails, PostAnswered,
       PostUnanswered, RecordTarget, RecordTransition, CloseRetry, rows
  <2> QED
    BY <2>1, <2>2, <2>3, <2>4
<1>4. ASSUME NEW p \in Orders, Reconcile(p) PROVE Kept
  <2>1. CASE ReconcileFill(p)
    <3>1. PICK s, q : attempt' = [attempt EXCEPT ![p].state = s, ![p].booked = q]
      BY <2>1 DEF ReconcileFill
    <3>2. attempt'[o] = IF p = o THEN [attempt[o] EXCEPT !.state = s, !.booked = q] ELSE attempt[o]
      BY <1>1, <3>1
    <3> QED
      BY <1>1, <3>2 DEF AttemptRows
  <2>2. CASE ~ReconcileFill(p)
    <3>1. PICK s : SetAttempt(p, s)
      BY <1>4, <2>2 DEF Reconcile, ReconcileFinalizedNoFill, ReconcileCanceled, ReconcileAbsent
    <3> QED
      BY <1>2, <3>1
  <2> QED
    BY <2>1, <2>2
<1>5. CASE Intake \/ UNCHANGED rows
  BY <1>5 DEF Intake, Observe, RecordGap, rows
<1> QED
  BY <1>3, <1>4, <1>5, RowSteps

LEMMA AccountFacts ==
  ASSUME Account, NEW o \in Orders
  PROVE  /\ Ledger /\ Causal /\ PromptOrder(o) /\ RestingOrder(o)
         /\ Untouched(o) => attempt[o].resp = "none" /\ Fresh(o)
         /\ Resolved(o) => ~Resting(o) /\ attempt[o].booked = order[o].matched
         /\ attempt[o].state \in UnresolvedStates => attempt[o].booked = 0
         /\ order[o].matched \in Nat /\ order[o].final \in Nat /\ order[o].told \in Nat
         /\ attempt[o].booked \in Nat /\ attempt[o].req \in Nat
BY OrderTyped DEF Account, Ledger, PromptVenue, Cancellations, BookedInFull, FreshOrders, BookedOnce

\* What the exchange does to an order while nothing is recorded of it.
LEMMA PromptSteps ==
  ASSUME Prompt, Account, NEW o \in Orders, UNCHANGED rows, OrderStep(o)
  PROVE  PromptOrder(o)' /\ RestingOrder(o)'
<1>1. /\ PromptOrder(o) /\ RestingOrder(o)
      /\ Posting(o) => attempt[o].resp = "none" /\ Fresh(o)
      /\ order[o].matched \in Nat /\ order[o].final \in Nat /\ attempt[o].req \in Nat
  BY AccountFacts DEF Untouched
<1>2. attempt' = attempt
  BY DEF rows
<1>3. ASSUME NEW k \in Nat, Landed(o, k) PROVE PromptOrder(o)' /\ RestingOrder(o)'
  <2>1. Posting(o)
    BY <1>1, <1>3 DEF Landed, Landing, Posted, PromptOrder
  <2>2. PromptOrder(o)'
    BY <1>2, <1>3 DEF Landed, PromptOrder, Prompt, Tellable
  <2>3. ASSUME Resting(o)' PROVE SideOf[o[1]] = "BUY" /\ k < attempt[o].req /\ order'[o].told = 0
    <3>1. k < attempt[o].req /\ SideOf[o[1]] = "BUY"
      BY <1>3, <2>3 DEF Landed, Resting, FirstMatches, Prompt
    <3> QED
      BY <1>3, <3>1 DEF Landed, Tellable, Prompt
  <2> QED
    BY <1>1, <1>2, <1>3, <2>1, <2>2, <2>3 DEF RestingOrder, Landed
<1>4. CASE Shifted(o)
  BY <1>1, <1>2, <1>4 DEF Shifted, PromptOrder, RestingOrder, Resting, Prompt
<1>5. CASE Grown(o)
  <2>1. /\ order[o].matched < attempt[o].req /\ order[o].told = 0
        /\ SideOf[o[1]] = "BUY" /\ attempt[o].resp # "cancelled"
    BY <1>1, <1>5 DEF RestingOrder, Resting, Grown
  <2>2. PromptOrder(o)'
    BY <1>1, <1>2, <1>5, <2>1 DEF Grown, PromptOrder, Prompt
  <2>3. RestingOrder(o)'
    BY <1>1, <1>2, <1>5, <2>1 DEF Grown, RestingOrder, Resting
  <2> QED
    BY <2>2, <2>3
<1>6. ~Finalizes(o)
  BY <1>1 DEF Finalizes, PromptOrder
<1> QED
  BY <1>3, <1>4, <1>5, <1>6 DEF OrderStep

LEMMA StepPromptVenue == ASSUME Prompt, Account, [Next]_vars PROVE PromptVenue'
<1> SUFFICES ASSUME NEW o \in Orders
             PROVE  PromptOrder(o)' /\ RestingOrder(o)'
  BY DEF PromptVenue
<1>1. /\ Ledger /\ Causal /\ PromptOrder(o) /\ RestingOrder(o)
      /\ Untouched(o) => Fresh(o)
      /\ order[o].matched \in Nat /\ attempt[o].req \in Nat
  BY AccountFacts
<1>2. CASE order'[o] = order[o]
  <2>1. PromptOrder(o)'
    <3>1. CASE attempt'[o].req = attempt[o].req
      BY <1>1, <1>2, <3>1 DEF PromptOrder
    <3>2. CASE Untouched(o)
      <4>1. attempt'[o].req \in Nat
        BY <1>1, StepBacked DEF Causal, Backed, Typed, TypeOK, AttemptRows
      <4> QED
        BY <1>1, <1>2, <3>2, <4>1 DEF PromptOrder, Fresh
    <3> QED
      BY <1>1, <3>1, <3>2, RequestStays
  <2>2. RestingOrder(o)'
    <3>1. SUFFICES ASSUME Resting(o) PROVE RestingOrder(o)'
      BY <1>2 DEF RestingOrder, Resting
    <3>2. attempt'[o].req = attempt[o].req
      BY <1>1, <3>1, RequestStays DEF Fresh, Resting
    <3>3. attempt'[o].resp # "cancelled"
      <4>1. exec.pc = "attempt" => exec.resp # "cancelled"
        BY DEF Account, Cancellations
      <4>2. exec.pc = "cancelled" => o # <<exec.act, exec.n>>
        BY <3>1 DEF Account, Cancellations
      <4> QED
        BY <1>1, <3>1, <4>1, <4>2, ResponseChange DEF RestingOrder
    <3> QED
      BY <1>1, <1>2, <3>1, <3>2, <3>3 DEF RestingOrder
  <2> QED
    BY <2>1, <2>2
<1>3. CASE UNCHANGED rows /\ OrderStep(o)
  BY <1>3, PromptSteps
<1> QED
  BY <1>1, <1>2, <1>3, OrderKept

LEMMA StepCancellations == ASSUME Prompt, Account, [Next]_vars PROVE Cancellations'
<1>1. Ledger /\ Causal
  BY DEF Account, Ledger
<1>2. ASSUME NEW o \in Orders, Untouched(o)' PROVE attempt'[o].resp = "none"
  <2>1. Untouched(o) /\ attempt[o].resp = "none"
    BY <1>1, <1>2, UntouchedBefore DEF Account, Cancellations
  <2>2. ~(exec.pc \in {"attempt", "cancelled"} /\ o = <<exec.act, exec.n>>)
    <3>1. SUFFICES ASSUME exec.pc \in {"attempt", "cancelled"}, o = <<exec.act, exec.n>>
                   PROVE  FALSE
      OBVIOUS
    <3>2. attempt[o].state \in UnresolvedStates
      BY <1>1, <3>1 DEF Causal, Backed, Working
    <3> QED
      BY <2>1, <3>1, <3>2, NotNone DEF Untouched, Posting, At
  <2> QED
    BY <1>1, <2>1, <2>2, ResponseChange
<1>3. ASSUME exec'.pc = "attempt" PROVE exec'.resp # "cancelled"
  <2>1. CASE UNCHANGED exec
    BY <1>3, <2>1 DEF Account, Cancellations
  <2>2. ASSUME NEW a \in Actions, PostAnswered(a) \/ PostUnanswered(a)
        PROVE  exec'.resp # "cancelled"
    <3>1. PICK r \in {"due", "bare"} :
            \E s : exec' = [exec EXCEPT !.pc = "attempt", !.st = s, !.resp = r]
      BY <2>2 DEF PostAnswered, PostUnanswered
    <3>2. exec \in Handlers
      BY <1>1, <2>2, HandledAction DEF HandlerStep, Submit, PostAnswered, PostUnanswered,
           ProcessSourceAction, CloseRetry, Busy, At
    <3>3. exec'.resp = r
      BY <3>1, <3>2 DEF Handlers
    <3> QED
      BY <3>1, <3>3
  <2> QED
    BY <1>1, <1>3, <2>1, <2>2, Advances DEF Idle, Advance
<1>4. ASSUME exec'.pc = "cancelled" PROVE order'[<<exec'.act, exec'.n>>].venue # "open"
  <2>1. CASE UNCHANGED exec
    <3>0. PICK o : o = <<exec.act, exec.n>>
      OBVIOUS
    <3>1. exec \in Handlers /\ o \in Orders /\ ~Resting(o)
      <4>1. exec \in Handlers
        BY <1>1, <1>4, <2>1 DEF Causal, Backed, Typed, TypeOK, Idle
      <4>2. ~Resting(o)
        BY <1>4, <2>1, <3>0 DEF Account, Cancellations
      <4> QED
        BY <1>1, <1>4, <2>1, <3>0, <4>1, <4>2, WorksInFlight
    <3>2. order[o].venue # "open" /\ order[o].venue # "flying"
      BY <3>1, AccountFacts DEF Resting, PromptOrder
    <3>3. ~Posted(o)
      BY <1>4 DEF Posted
    <3>4. OrderStep(o) => order'[o].venue # "open"
      BY <3>2, <3>3 DEF OrderStep, Landed, Landing, Shifted, Grown, Finalizes
    <3>5. order'[o].venue # "open"
      BY <1>1, <3>1, <3>2, <3>4, OrderKept
    <3> QED
      BY <2>1, <3>0, <3>5
  <2>2. ASSUME NEW o \in Orders, CancelDue(o), o = <<exec'.act, exec'.n>>
        PROVE  order'[<<exec'.act, exec'.n>>].venue # "open"
    <3>1. order \in [Orders -> VenueOrders]
      BY <1>1 DEF Causal, Backed, Typed, TypeOK
    <3>2. order'[o].venue = IF order[o].venue = "open" THEN "closed" ELSE order[o].venue
      BY <2>2, <3>1 DEF CancelDue, VenueOrders
    <3> QED
      BY <2>2, <3>2
  <2> QED
    BY <1>1, <1>4, <2>1, <2>2, Advances DEF Idle, Advance
<1> QED
  BY <1>2, <1>3, <1>4 DEF Cancellations, Resting

\* What a fill may be booked at, once its order can be reconciled.
LEMMA ReconcilableIsOver ==
  ASSUME Prompt, Account, NEW o \in Orders, Reconcilable(o)
  PROVE  /\ ~Resting(o) /\ attempt[o].booked = 0
         /\ \A q \in Readings(o) \ {0} : q = order[o].matched
<1>1. PromptOrder(o) /\ RestingOrder(o)
  BY AccountFacts
<1>2. ~Resting(o) /\ attempt[o].state \in UnresolvedStates
  BY <1>1 DEF Reconcilable, Listed, Resting, RestingOrder, Sides, ActionsAssumption
<1>3. \A q \in Readings(o) \ {0} : q = order[o].matched
  BY <1>1 DEF Readings, PromptOrder
<1> QED
  BY <1>2, <1>3, AccountFacts

\* An attempt is resolved by the reconciliation of its order, or by a rejection.
LEMMA Resolutions ==
  ASSUME Prompt, Account, [Next]_vars, NEW o \in Orders, Resolved(o)', ~Resolved(o)
  PROVE  ~Resting(o) /\ attempt'[o].booked = order[o].matched /\ order'[o] = order[o]
<1>1. Ledger /\ Causal
  BY DEF Account, Ledger
<1>2. attempt[o].state # "NONE" => attempt[o].state \in UnresolvedStates
  BY DEF Resolved
<1>3. ASSUME NEW p \in Orders, Reconcile(p)
      PROVE  ~Resting(o) /\ attempt'[o].booked = order[o].matched /\ order'[o] = order[o]
  <2>1. p = o
    <3>1. SUFFICES ASSUME p # o PROVE attempt'[o] = attempt[o]
      BY DEF Resolved
    <3> QED
      BY <1>1, <1>3, <3>1 DEF Reconcile, ReconcileFill, ReconcileFinalizedNoFill,
           ReconcileCanceled, ReconcileAbsent, SetAttempt, Causal, Backed, Typed, TypeOK
  <2>2. Reconcilable(o) /\ UNCHANGED venue
    BY <1>3, <2>1 DEF Reconcile, ReconcileFill, ReconcileFinalizedNoFill, ReconcileCanceled,
           ReconcileAbsent
  <2>3. ~Resting(o) /\ attempt[o].booked = 0
    BY <2>2, ReconcilableIsOver
  <2>4. CASE ReconcileFill(o)
    <3>1. PICK q \in Readings(o) : Books(o, q)
      BY <1>1, <2>4, FillBooks
    <3>2. q = order[o].matched
      BY <2>2, <3>1, ReconcilableIsOver DEF Books
    <3> QED
      BY <2>2, <2>3, <3>1, <3>2 DEF Books, venue
  <2>5. CASE ReconcileFinalizedNoFill(o) \/ ReconcileCanceled(o)
    <3>1. order[o].matched = 0
      BY <2>5, AccountFacts DEF ReconcileFinalizedNoFill, ReconcileCanceled, PromptOrder
    <3>2. attempt'[o].booked = attempt[o].booked
      <4>1. ~ReconcileFill(o)
        <5>1. PICK s \in {"NO_FILL"} : SetAttempt(o, s)
          BY <2>5 DEF ReconcileFinalizedNoFill, ReconcileCanceled
        <5>2. attempt'[o] = [attempt[o] EXCEPT !.state = "NO_FILL"]
          BY <1>1, <5>1 DEF SetAttempt, Causal, Backed, Typed, TypeOK
        <5>3. attempt'[o].state = "NO_FILL"
          BY <1>1, <5>2 DEF Causal, Backed, Typed, TypeOK, AttemptRows
        <5>4. ReconcileFill(o) => attempt'[o].state \in BookedStates
          BY <1>1, FillBooks DEF Books
        <5> QED
          BY <5>3, <5>4 DEF BookedStates
      <4> QED
        BY <1>1, <4>1, BookedStays
    <3> QED
      BY <2>2, <2>3, <3>1, <3>2 DEF venue
  <2>6. ~ReconcileAbsent(o)
    <3>1. SUFFICES ASSUME ReconcileAbsent(o) PROVE FALSE
      OBVIOUS
    <3>2. attempt'[o] = [attempt[o] EXCEPT !.state = "UNKNOWN_SUBMISSION"]
      BY <1>1, <3>1 DEF ReconcileAbsent, SetAttempt, Causal, Backed, Typed, TypeOK
    <3>3. attempt'[o].state = "UNKNOWN_SUBMISSION"
      BY <1>1, <3>2 DEF Causal, Backed, Typed, TypeOK, AttemptRows
    <3> QED
      BY <3>3 DEF Resolved, UnresolvedStates
  <2> QED
    BY <1>3, <2>1, <2>4, <2>5, <2>6 DEF Reconcile
<1>4. ASSUME NEW a \in Actions, HandlerStep(a)
      PROVE  ~Resting(o) /\ attempt'[o].booked = order[o].matched /\ order'[o] = order[o]
  <2>1. PostRejected(a) /\ Posting(o)
    <3>1. CASE \E n \in Attempts : BeginSubmissionAttempt(a, n)
      <4>1. PICK n \in Attempts : BeginSubmissionAttempt(a, n)
        BY <3>1
      <4>2. attempt' = [attempt EXCEPT ![<<a, n>>] =
              [state |-> "SUBMIT_STARTED", req |-> exec.q, resp |-> "none", booked |-> 0]]
        BY <4>1 DEF BeginSubmissionAttempt
      <4>3. attempt'[o].state \in {attempt[o].state, "SUBMIT_STARTED"}
        BY <1>1, <4>2 DEF Causal, Backed, Typed, TypeOK
      <4> QED
        BY <4>3 DEF Resolved, UnresolvedStates
    <3>2. CASE RecordAttempt(a) \/ RecordCancellation(a)
      <4>1. exec.st \in UnresolvedStates
        BY <1>1, <3>2, InStep DEF RecordAttempt, RecordCancellation, PCs, Pending, Causal, Backed
      <4>2. attempt' = [attempt EXCEPT ![<<a, exec.n>>].state = exec.st,
                                       ![<<a, exec.n>>].resp = exec.resp]
        BY <3>2 DEF RecordAttempt, RecordCancellation
      <4>3. attempt'[o] = IF o = <<a, exec.n>>
                          THEN [attempt[o] EXCEPT !.state = exec.st, !.resp = exec.resp]
                          ELSE attempt[o]
        BY <1>1, <4>2 DEF Causal, Backed, Typed, TypeOK
      <4>4. attempt'[o].state \in {attempt[o].state, exec.st}
        BY <1>1, <4>3 DEF Causal, Backed, Typed, TypeOK, AttemptRows
      <4> QED
        BY <4>1, <4>4 DEF Resolved
    <3>3. CASE PostRejected(a)
      <4>1. PICK s : SetAttempt(<<a, exec.n>>, s)
        BY <3>3 DEF PostRejected
      <4>2. o = <<a, exec.n>>
        <5>1. o # <<a, exec.n>> => attempt'[o] = attempt[o]
          BY <4>1 DEF SetAttempt
        <5> QED
          BY <5>1 DEF Resolved
      <4> QED
        BY <3>3, <4>2 DEF Posting, PostRejected, Busy, At
    <3>4. CASE /\ ~(\E n \in Attempts : BeginSubmissionAttempt(a, n))
               /\ ~PostRejected(a) /\ ~RecordAttempt(a) /\ ~RecordCancellation(a)
      <4>1. UNCHANGED attempt
        BY <1>4, <3>4
           DEF HandlerStep, Plan, Submit, ProcessSourceAction, ScopeRefuses, ScopeAccepts,
           LateUnfillable, RecoverSubmitStarted, DeferToEarlierAction,
           SupersedeEarlierOpposites, CloseUnsellable, Refuse, FailStaleTarget, PlanFails,
           PlanFirst, PlanRemainder, RecordPlan, PreparationFails, PostAnswered,
           PostUnanswered, RecordTarget, RecordTransition, CloseRetry, rows
      <4> QED
        BY <4>1 DEF Resolved
    <3> QED
      BY <3>1, <3>2, <3>3, <3>4
  <2>2. Fresh(o) /\ attempt[o].booked = 0
    BY <1>1, <2>1, AccountFacts, PostedIsUnresolved DEF Untouched
  <2>3. attempt'[o].booked = attempt[o].booked
    <3>1. ~ReconcileFill(o)
      BY <2>1 DEF ReconcileFill, Reconcilable, Posting, At
    <3> QED
      BY <1>1, <3>1, BookedStays
  <2> QED
    BY <2>1, <2>2, <2>3 DEF PostRejected, venue, Fresh, Resting
<1>5. CASE Intake \/ UNCHANGED rows
  BY <1>5 DEF Intake, Observe, RecordGap, rows, Resolved
<1> QED
  BY <1>3, <1>4, <1>5, RowSteps

LEMMA StepBookedInFull == ASSUME Prompt, Account, [Next]_vars PROVE BookedInFull'
<1> SUFFICES ASSUME NEW o \in Orders, Resolved(o)'
             PROVE  ~Resting(o)' /\ attempt'[o].booked = order'[o].matched
  BY DEF BookedInFull
<1>1. CASE ~Resolved(o)
  BY <1>1, Resolutions DEF Resting
<1>2. CASE Resolved(o)
  <2>1. /\ Ledger /\ Causal /\ ~Resting(o) /\ attempt[o].booked = order[o].matched
        /\ PromptOrder(o)
    BY <1>2, AccountFacts
  <2>2. attempt'[o] = attempt[o]
    BY <1>2, <2>1, StepKeepsAttempts DEF Resolved
  <2>3. ASSUME OrderStep(o) PROVE FALSE
    <3>1. ~Posted(o)
      BY <1>2, <2>1, PostedIsUnresolved DEF Posted, Resolved
    <3>2. order[o].venue # "open" /\ order[o].venue # "flying" /\ ~Finalizes(o)
      BY <2>1, AccountFacts DEF Resting, PromptOrder, Finalizes
    <3> QED
      BY <2>3, <3>1, <3>2 DEF OrderStep, Landed, Landing, Shifted, Grown
  <2> QED
    BY <2>1, <2>2, <2>3, OrderKept DEF Resting
<1> QED
  BY <1>1, <1>2

LEMMA StepAccount == ASSUME Prompt, Account, [Next]_vars PROVE Account'
BY StepLedger, StepPromptVenue, StepCancellations, StepBookedInFull DEF Account

LEMMA InitAccount == ASSUME Init PROVE Account
<1>1. Ledger
  BY InitLedger
<1>2. PromptVenue /\ Cancellations /\ BookedInFull
  BY DEF Init, PromptVenue, PromptOrder, RestingOrder, Resting, Cancellations, BookedInFull,
         Resolved, Idle
<1> QED
  BY <1>1, <1>2 DEF Account

\* What an order may still trade is what was booked of it, unless its attempt
\* is unresolved; then it is no more than the attempt asked for.
LEMMA ExposureIs ==
  ASSUME Account, NEW o \in Orders
  PROVE  /\ Exposure(o) \in Nat
         /\ attempt[o].state \notin UnresolvedStates => Exposure(o) = attempt[o].booked
         /\ attempt[o].state \in UnresolvedStates => Exposure(o) <= attempt[o].req
<1>1. /\ PromptOrder(o) /\ (Untouched(o) => Fresh(o))
      /\ Resolved(o) => ~Resting(o) /\ attempt[o].booked = order[o].matched
      /\ order[o].matched \in Nat /\ attempt[o].req \in Nat /\ attempt[o].booked \in Nat
      /\ attempt[o].booked <= order[o].matched
  BY AccountFacts DEF Account, Ledger, BookedOnce
<1>2. Exposure(o) \in Nat /\ Exposure(o) <= attempt[o].req
  BY <1>1 DEF Exposure, PromptOrder
<1>3. CASE attempt[o].state = "NONE"
  BY <1>1, <1>2, <1>3, NotNone DEF Untouched, Fresh, Exposure, Live
<1>4. CASE Resolved(o)
  BY <1>1, <1>2, <1>4 DEF Resolved, PromptOrder, Resting, Exposure, Live
<1> QED
  BY <1>2, <1>3, <1>4 DEF Resolved

LEMMA ExposureIsBounded ==
  ASSUME Account, NEW a \in Actions
  PROVE  ExposureOf(a) <= target[a].qty
<1>0. PICK f, g : f = BookedOfAction(a) /\ g = [n \in Attempts |-> Exposure(<<a, n>>)]
  OBVIOUS
<1>1. /\ BookedOf(a) = SumFunctionOnSet(f, Attempts)
      /\ ExposureOf(a) = SumFunctionOnSet(g, Attempts)
  BY <1>0 DEF BookedOf, BookedOfAction, ExposureOf
<1>2. /\ Ledger /\ Causal /\ target[a].filled = BookedOf(a)
      /\ target[a].filled \in Nat /\ target[a].qty \in Nat /\ target[a].filled <= target[a].qty
  <2>1. Ledger /\ Causal /\ target[a].filled = BookedOf(a)
    BY DEF Account, Ledger, FilledIsBooked
  <2>2. target[a] \in WithinTarget
    BY <2>1 DEF Causal, Backed, Typed
  <2> QED
    BY <2>1, <2>2 DEF WithinTarget, TargetRows
<1>3. \A n \in Attempts :
        /\ f[n] = attempt[<<a, n>>].booked /\ f[n] \in Nat /\ g[n] \in Nat
        /\ attempt[<<a, n>>].state \notin UnresolvedStates => g[n] = f[n]
        /\ attempt[<<a, n>>].state \in UnresolvedStates => f[n] = 0 /\ g[n] <= attempt[<<a, n>>].req
  <2> SUFFICES ASSUME NEW n \in Attempts
               PROVE  /\ f[n] = attempt[<<a, n>>].booked /\ f[n] \in Nat /\ g[n] \in Nat
                      /\ attempt[<<a, n>>].state \notin UnresolvedStates => g[n] = f[n]
                      /\ attempt[<<a, n>>].state \in UnresolvedStates
                           => f[n] = 0 /\ g[n] <= attempt[<<a, n>>].req
    OBVIOUS
  <2>1. PICK o \in Orders : o = <<a, n>>
    OBVIOUS
  <2>2. f[n] = attempt[o].booked /\ g[n] = Exposure(o)
    BY <1>0, <2>1 DEF BookedOfAction
  <2>3. /\ attempt[o].booked \in Nat
        /\ attempt[o].state \in UnresolvedStates => attempt[o].booked = 0
    BY AccountFacts
  <2> QED
    BY <2>1, <2>2, <2>3, ExposureIs
<1> HIDE DEF Attempts
<1>4. IsFiniteSet(Attempts) /\ Ints(f, Attempts) /\ Ints(g, Attempts)
  <2>1. \A n \in Attempts : f[n] \in Nat /\ g[n] \in Nat
    BY <1>3
  <2> QED
    BY <2>1, AttemptsAreFinite DEF Ints
<1>5. CASE ~Unresolved(a)
  <2>1. \A n \in Attempts : g[n] = f[n]
    BY <1>3, <1>5 DEF Unresolved
  <2>2. SumFunctionOnSet(g, Attempts) = SumFunctionOnSet(f, Attempts)
    BY <1>4, <2>1, SumSame
  <2> QED
    BY <1>1, <1>2, <2>2
<1>6. CASE Unresolved(a)
  <2>1. PICK n \in Attempts : attempt[<<a, n>>].state \in UnresolvedStates
    BY <1>6 DEF Unresolved
  <2>2. \A m \in Attempts \ {n} : attempt[<<a, m>>].state \notin UnresolvedStates
    BY <1>2, <2>1 DEF Causal, Backed, ReservationBacksAttempt
  <2>3. \A m \in Attempts \ {n} : g[m] = f[m]
    BY <1>3, <2>2
  <2>4. SumFunctionOnSet(g, Attempts) = SumFunctionOnSet(f, Attempts) - f[n] + g[n]
    BY <1>4, <2>3, SumChanged
  <2>5. attempt[<<a, n>>].req = Remaining(a)
    BY <1>2, <1>6, <2>1 DEF Causal, InFlightRows, InFlightRow
  <2>6. f[n] = 0 /\ g[n] \in Nat /\ g[n] <= Remaining(a)
    BY <1>3, <2>1, <2>5
  <2> QED
    BY <1>1, <1>2, <2>4, <2>6 DEF Remaining
<1> QED
  BY <1>5, <1>6

LEMMA AlwaysAccount == ASSUME Prompt PROVE Spec => []Account
<1>1. Init => Account
  BY InitAccount
<1>2. Account /\ [Next]_vars => Account'
  BY StepAccount
<1> QED
  BY <1>1, <1>2, PTL DEF Spec

\* On a prompt exchange all the orders made for an action together, remainders
\* included, never trade more than its frozen quantity, whatever crashes, lost
\* answers and replays there were: what is resolved has booked all it ever
\* matches, and what is in flight asks for the remainder.  Fills that land or
\* settle late are outside.
THEOREM NoOrderIsDuplicated == ASSUME Prompt PROVE Spec => []NoDuplicateOrder
<1>1. Account => NoDuplicateOrder
  BY ExposureIsBounded DEF NoDuplicateOrder
<1> QED
  BY <1>1, AlwaysAccount, PTL

-----------------------------------------------------------------------------
\* What the account holds is what it started with and what its orders traded.

MatchedOfAction(a) == [n \in Attempts |-> order[<<a, n>>].matched]
MatchedOf(a) == SumFunctionOnSet(MatchedOfAction(a), Attempts)
TradedQuantities == [a \in Actions |-> MatchedOf(a)]
TradedOf(s, t) == SumFunctionOnSet(TradedQuantities, {a \in OfSide(s) : TokenOf[a] = t})

HeldAddsUp ==
  \A t \in Tokens : held[t] = Inventory0[t] + TradedOf("BUY", t) - TradedOf("SELL", t)

\* d more shares of an order match.
Trades(o, d) ==
  /\ d \in Nat
  /\ order'[o].matched = order[o].matched + d
  /\ \A p \in Orders : p # o => order'[p].matched = order[p].matched
  /\ \A t \in Tokens :
       held'[t] = IF t # TokenOf[o[1]] THEN held[t]
                  ELSE IF SideOf[o[1]] = "BUY" THEN held[t] + d ELSE held[t] - d
  /\ wallet' = IF SideOf[o[1]] = "BUY" THEN wallet - d ELSE wallet + d

LEMMA TradedTrades ==
  ASSUME Typed, NEW o \in Orders, NEW d \in Nat, Traded(o, d)
  PROVE  /\ \A t \in Tokens :
              held'[t] = IF t # TokenOf[o[1]] THEN held[t]
                         ELSE IF SideOf[o[1]] = "BUY" THEN held[t] + d ELSE held[t] - d
         /\ wallet' = IF SideOf[o[1]] = "BUY" THEN wallet - d ELSE wallet + d
<1>1. held \in [Tokens -> Int] /\ wallet \in Int
  BY DEF Typed, TypeOK
<1>2. CASE SideOf[o[1]] = "BUY"
  BY <1>1, <1>2 DEF Traded
<1>3. CASE SideOf[o[1]] # "BUY"
  <2>1. held' = [held EXCEPT ![TokenOf[o[1]]] = @ + (-d)] /\ wallet' = wallet - (-d)
    BY <1>3 DEF Traded
  <2>2. wallet' = wallet + d
    BY <1>1, <2>1
  <2>3. \A t \in Tokens : held'[t] = IF t # TokenOf[o[1]] THEN held[t] ELSE held[t] - d
    BY <1>1, <2>1
  <2> QED
    BY <1>3, <2>2, <2>3
<1> QED
  BY <1>2, <1>3

LEMMA StepTrades ==
  ASSUME Ledger, [Next]_vars
  PROVE  \/ UNCHANGED venue
         \/ UNCHANGED rows /\ \E o \in Orders, d \in Nat : VenueStep(o) /\ Trades(o, d)
<1>1. Causal /\ Typed
  BY DEF Ledger, Causal, Backed
<1> SUFFICES ASSUME NEW o \in Orders, UNCHANGED rows, VenueStep(o)
             PROVE  \E d \in Nat : Trades(o, d)
  BY <1>1, VenueSteps
<1>2. OrderStep(o) /\ \A p \in Orders : p # o => order'[p] = order[p]
  BY <1>1, VenueStepIs
<1>3. order[o].matched \in Nat
  BY OrderTyped
<1>4. ASSUME NEW k \in Nat, Landed(o, k) PROVE Trades(o, k)
  <2>1. order[o].matched = 0
    BY <1>4 DEF Landed, Landing, Posted, Untouched, Fresh, Ledger, FreshOrders, VenueTruth
  <2>2. order'[o].matched = order[o].matched + k /\ Traded(o, k)
    BY <1>3, <1>4, <2>1 DEF Landed
  <2> QED
    BY <1>1, <1>2, <2>2, TradedTrades DEF Trades
<1>5. CASE Shifted(o) \/ Finalizes(o)
  <2>1. order'[o].matched = order[o].matched + 0 /\ held' = held /\ wallet' = wallet
    BY <1>3, <1>5 DEF Shifted, Finalizes
  <2>2. held \in [Tokens -> Int] /\ wallet \in Int
    BY <1>1 DEF Typed, TypeOK
  <2>3. Trades(o, 0)
    BY <1>2, <2>1, <2>2 DEF Trades
  <2> QED
    BY <2>3
<1>6. CASE Grown(o)
  <2>1. order'[o].matched = order[o].matched + 1 /\ Traded(o, 1)
    BY <1>6 DEF Grown
  <2>2. Trades(o, 1)
    BY <1>1, <1>2, <2>1, TradedTrades DEF Trades
  <2> QED
    BY <2>2
<1> QED
  BY <1>2, <1>4, <1>5, <1>6 DEF OrderStep

LEMMA MatchedOfType == ASSUME Typed, NEW a \in Actions PROVE MatchedOf(a) \in Nat
<1>0. PICK f : f = MatchedOfAction(a)
  OBVIOUS
<1>1. \A n \in Attempts : f[n] \in Nat
  <2>1. \A n \in Attempts : <<a, n>> \in Orders
    OBVIOUS
  <2> QED
    BY <1>0, <2>1 DEF MatchedOfAction, Typed, TypeOK, VenueOrders
<1> HIDE DEF Attempts
<1> QED
  BY <1>0, <1>1, AttemptsAreFinite, SumNat DEF MatchedOf, Nats

LEMMA MatchedOfTrades ==
  ASSUME Typed, Typed', NEW o \in Orders, NEW d, Trades(o, d), NEW a \in Actions
  PROVE  MatchedOf(a)' = IF a = o[1] THEN MatchedOf(a) + d ELSE MatchedOf(a)
<1>0. PICK f, g : f = MatchedOfAction(a) /\ g = MatchedOfAction(a)'
  OBVIOUS
<1>1. /\ MatchedOf(a) = SumFunctionOnSet(f, Attempts)
      /\ MatchedOf(a)' = SumFunctionOnSet(g, Attempts)
  BY <1>0 DEF MatchedOf
<1>2. \A n \in Attempts : /\ <<a, n>> \in Orders
                          /\ f[n] = order[<<a, n>>].matched /\ f[n] \in Nat
                          /\ g[n] = order'[<<a, n>>].matched /\ g[n] \in Nat
  <2>1. \A n \in Attempts : <<a, n>> \in Orders
    OBVIOUS
  <2> QED
    BY <1>0, <2>1 DEF MatchedOfAction, Typed, TypeOK, VenueOrders
<1>3. o[2] \in Attempts /\ o = <<o[1], o[2]>>
  OBVIOUS
<1> HIDE DEF Attempts
<1>4. IsFiniteSet(Attempts) /\ Ints(f, Attempts) /\ Ints(g, Attempts)
  <2>1. \A n \in Attempts : f[n] \in Nat /\ g[n] \in Nat
    BY <1>2
  <2> QED
    BY <2>1, AttemptsAreFinite DEF Ints
<1>5. CASE a # o[1]
  <2>1. \A n \in Attempts : <<a, n>> # o
    BY <1>3, <1>5
  <2>2. \A n \in Attempts : g[n] = f[n]
    BY <1>2, <2>1 DEF Trades
  <2>3. SumFunctionOnSet(g, Attempts) = SumFunctionOnSet(f, Attempts)
    BY <1>4, <2>2, SumSame
  <2> QED
    BY <1>1, <1>5, <2>3
<1>6. CASE a = o[1]
  <2>1. PICK m \in Attempts : m = o[2] /\ o = <<a, m>>
    BY <1>3, <1>6
  <2>2. \A n \in Attempts \ {m} : g[n] = f[n]
    <3>1. \A n \in Attempts \ {m} : <<a, n>> # o
      BY <2>1
    <3> QED
      BY <1>2, <3>1 DEF Trades
  <2>3. g[m] = f[m] + d /\ d \in Nat /\ f[m] \in Nat
    BY <1>2, <2>1 DEF Trades
  <2>4. SumFunctionOnSet(g, Attempts) = SumFunctionOnSet(f, Attempts) - f[m] + g[m]
    BY <1>4, <2>2, SumChanged
  <2>5. SumFunctionOnSet(f, Attempts) \in Int
    BY <1>4, SumType
  <2> QED
    BY <1>1, <1>6, <2>3, <2>4, <2>5
<1> QED
  BY <1>5, <1>6

LEMMA TradedOfType == ASSUME Typed, NEW s, NEW t PROVE TradedOf(s, t) \in Nat
<1> DEFINE f == TradedQuantities
           S == {a \in OfSide(s) : TokenOf[a] = t}
<1>1. TradedOf(s, t) = SumFunctionOnSet(f, S)
  BY DEF TradedOf
<1>2. Nats(f, S)
  BY MatchedOfType DEF TradedQuantities, Nats
<1>3. IsFiniteSet(S)
  BY ActionsAssumption, FS_Subset
<1> HIDE DEF f, S
<1> QED
  BY <1>1, <1>2, <1>3, SumNat

LEMMA TradedOfTrades ==
  ASSUME Typed, Typed', NEW o \in Orders, NEW d, Trades(o, d), NEW s, NEW t
  PROVE  TradedOf(s, t)' =
           TradedOf(s, t) + (IF s = SideOf[o[1]] /\ t = TokenOf[o[1]] THEN d ELSE 0)
<1> DEFINE f == TradedQuantities
           g == TradedQuantities'
           S == {a \in OfSide(s) : TokenOf[a] = t}
           a == o[1]
<1>1. /\ TradedOf(s, t) = SumFunctionOnSet(f, S)
      /\ TradedOf(s, t)' = SumFunctionOnSet(g, S)
  BY DEF TradedOf
<1>2. \A b \in Actions : /\ f[b] = MatchedOf(b) /\ f[b] \in Nat
                         /\ g[b] = MatchedOf(b)'
  BY MatchedOfType DEF TradedQuantities
<1>3. IsFiniteSet(S) /\ S \subseteq Actions
  BY ActionsAssumption, FS_Subset
<1>4. /\ d \in Nat /\ a \in Actions /\ g[a] = f[a] + d
      /\ \A b \in Actions : b # a => g[b] = f[b]
  BY <1>2, MatchedOfTrades DEF Trades
<1>5. a \in S <=> s = SideOf[a] /\ t = TokenOf[a]
  BY <1>4
<1> HIDE DEF f, g, S, a
<1>6. Ints(f, S) /\ Ints(g, S)
  <2>1. \A b \in Actions : f[b] \in Int /\ g[b] \in Int
    BY <1>2, <1>4
  <2> QED
    BY <1>3, <2>1 DEF Ints
<1>7. SumFunctionOnSet(f, S) \in Int
  BY <1>3, <1>6, SumType
<1>8. CASE a \in S
  <2>1. SumFunctionOnSet(g, S) = SumFunctionOnSet(f, S) - f[a] + g[a]
    BY <1>3, <1>4, <1>6, <1>8, SumChanged
  <2>2. f[a] \in Nat
    BY <1>2, <1>4
  <2>3. SumFunctionOnSet(g, S) = SumFunctionOnSet(f, S) + d
    BY <1>4, <1>7, <2>1, <2>2
  <2> QED
    BY <1>1, <1>5, <1>8, <2>3 DEF a
<1>9. CASE a \notin S
  <2>1. SumFunctionOnSet(f, S) = SumFunctionOnSet(g, S)
    BY <1>3, <1>4, <1>9, SumSame
  <2> QED
    BY <1>1, <1>5, <1>7, <1>9, <2>1 DEF a
<1> QED
  BY <1>8, <1>9

LEMMA StepHeldAddsUp == ASSUME Ledger, HeldAddsUp, [Next]_vars PROVE HeldAddsUp'
<1> SUFFICES ASSUME NEW t \in Tokens
             PROVE  held'[t] = Inventory0[t] + TradedOf("BUY", t)' - TradedOf("SELL", t)'
  BY DEF HeldAddsUp
<1>1. Typed /\ Typed' /\ held[t] = Inventory0[t] + TradedOf("BUY", t) - TradedOf("SELL", t)
  BY StepBacked DEF Ledger, HeldAddsUp, Causal, Backed
<1>2. CASE UNCHANGED venue
  <2>1. order' = order /\ held' = held
    BY <1>2 DEF venue
  <2>2. \A s, u : TradedOf(s, u)' = TradedOf(s, u)
    BY <2>1 DEF TradedOf, TradedQuantities, MatchedOf, MatchedOfAction
  <2> QED
    BY <1>1, <2>1, <2>2
<1>3. ASSUME NEW o \in Orders, NEW d \in Nat, Trades(o, d)
      PROVE  held'[t] = Inventory0[t] + TradedOf("BUY", t)' - TradedOf("SELL", t)'
  <2>1. /\ TradedOf("BUY", t)' =
             TradedOf("BUY", t) + (IF "BUY" = SideOf[o[1]] /\ t = TokenOf[o[1]] THEN d ELSE 0)
        /\ TradedOf("SELL", t)' =
             TradedOf("SELL", t) + (IF "SELL" = SideOf[o[1]] /\ t = TokenOf[o[1]] THEN d ELSE 0)
    BY <1>1, <1>3, TradedOfTrades
  <2>2. /\ held[t] \in Int /\ Inventory0[t] \in Nat /\ SideOf[o[1]] \in {"BUY", "SELL"}
        /\ TradedOf("BUY", t) \in Nat /\ TradedOf("SELL", t) \in Nat
    BY <1>1, TradedOfType, ActionsAssumption, EnvironmentAssumption DEF Typed, TypeOK, Sides
  <2>3. held'[t] = IF t # TokenOf[o[1]] THEN held[t]
                   ELSE IF SideOf[o[1]] = "BUY" THEN held[t] + d ELSE held[t] - d
    BY <1>3 DEF Trades
  <2>4. CASE TokenOf[o[1]] # t
    BY <1>1, <2>1, <2>2, <2>3, <2>4
  <2>5. CASE TokenOf[o[1]] = t
    BY <1>1, <2>1, <2>2, <2>3, <2>5
  <2> QED
    BY <2>4, <2>5
<1> QED
  BY <1>2, <1>3, StepTrades

LEMMA InitHeldAddsUp == ASSUME Init PROVE HeldAddsUp
<1>1. ASSUME NEW a \in Actions PROVE MatchedOf(a) = 0
  <2>1. PICK f : f = MatchedOfAction(a)
    OBVIOUS
  <2>2. \A n \in Attempts : f[n] = 0
    <3>1. \A n \in Attempts : <<a, n>> \in Orders
      OBVIOUS
    <3> QED
      BY <2>1, <3>1 DEF MatchedOfAction, Init
  <2> QED
    BY <2>1, <2>2, AttemptsAreFinite, SumZero DEF MatchedOf
<1>2. ASSUME NEW s, NEW t PROVE TradedOf(s, t) = 0
  <2>1. PICK f : f = TradedQuantities
    OBVIOUS
  <2>2. PICK S : S = {a \in OfSide(s) : TokenOf[a] = t}
    OBVIOUS
  <2>3. IsFiniteSet(S) /\ S \subseteq Actions
    BY <2>2, ActionsAssumption, FS_Subset
  <2>4. \A a \in S : f[a] = 0
    BY <1>1, <2>1, <2>3 DEF TradedQuantities
  <2> QED
    BY <2>1, <2>2, <2>3, <2>4, SumZero DEF TradedOf
<1> QED
  BY <1>2, EnvironmentAssumption DEF Init, HeldAddsUp

LEMMA AlwaysHeldAddsUp == Spec => []HeldAddsUp
<1>1. Init => Ledger /\ HeldAddsUp
  BY InitLedger, InitHeldAddsUp
<1>2. (Ledger /\ HeldAddsUp) /\ [Next]_vars => (Ledger /\ HeldAddsUp)'
  BY StepLedger, StepHeldAddsUp
<1> QED
  BY <1>1, <1>2, PTL DEF Spec

\* An order that is not in flight is booked for all it matched, and the trades
\* of an action that has none in flight are its progress.
LEMMA ResolvedIsBooked ==
  ASSUME Account, NEW o \in Orders, attempt[o].state \notin UnresolvedStates
  PROVE  attempt[o].booked = order[o].matched
<1>1. CASE attempt[o].state = "NONE"
  <2>1. order[o].matched = 0 /\ attempt[o].booked <= order[o].matched
    BY <1>1, AccountFacts DEF Untouched, Fresh, Account, Ledger, BookedOnce
  <2> QED
    BY <2>1, AccountFacts
<1>2. CASE Resolved(o)
  BY <1>2, AccountFacts
<1> QED
  BY <1>1, <1>2 DEF Resolved

LEMMA MatchedIsFilled ==
  ASSUME Account, NEW a \in Actions, ~Unresolved(a)
  PROVE  MatchedOf(a) = target[a].filled
<1>0. PICK f, g : f = BookedOfAction(a) /\ g = MatchedOfAction(a)
  OBVIOUS
<1>1. target[a].filled = SumFunctionOnSet(f, Attempts)
  BY <1>0 DEF Account, Ledger, FilledIsBooked, BookedOf, BookedOfAction
<1>2. \A n \in Attempts : f[n] = g[n]
  <2>1. \A n \in Attempts : <<a, n>> \in Orders /\ attempt[<<a, n>>].state \notin UnresolvedStates
    BY DEF Unresolved
  <2> QED
    BY <1>0, <2>1, ResolvedIsBooked DEF BookedOfAction, MatchedOfAction
<1> HIDE DEF Attempts
<1> QED
  BY <1>0, <1>1, <1>2, AttemptsAreFinite, SumSame DEF MatchedOf

\* No fill is lost or invented: when no order of a token is in flight, the
\* position the ledger keeps is what the account holds, because what resolved
\* attempts booked is then all that the exchange ever matched.
THEOREM PositionsAreReal == ASSUME Prompt PROVE Spec => []PositionIsReal
<1>1. ASSUME Account, HeldAddsUp PROVE PositionIsReal
  <2> SUFFICES ASSUME NEW t \in Tokens, \A a \in Actions : TokenOf[a] = t => ~SideEffect(a)
               PROVE  pos[t] = held[t]
    BY DEF PositionIsReal
  <2>1. ASSUME NEW s PROVE TradedOf(s, t) = FilledOf(s, t)
    <3>1. PICK f, g, S : /\ f = TradedQuantities
                         /\ g = [a \in Actions |-> target[a].filled]
                         /\ S = {a \in OfSide(s) : TokenOf[a] = t}
      OBVIOUS
    <3>2. IsFiniteSet(S) /\ S \subseteq Actions
      BY <3>1, ActionsAssumption, FS_Subset
    <3>3. \A a \in S : f[a] = g[a]
      BY <1>1, <3>1, <3>2, MatchedIsFilled DEF TradedQuantities, SideEffect
    <3> QED
      BY <3>1, <3>2, <3>3, SumSame DEF TradedOf, FilledOf
  <2> QED
    BY <1>1, <2>1 DEF Account, Ledger, PositionAddsUp, HeldAddsUp
<1> QED
  BY <1>1, AlwaysAccount, AlwaysHeldAddsUp, PTL

-----------------------------------------------------------------------------
\* What is ordered can be paid and delivered.

\* The executor has a quantity it is about to order.
Sizing == exec.pc = "prepare" \/ (exec.pc = "planned" /\ exec.st = "READY")

\* No SELL under the minimum size is planned or ordered.
OrderedSizes ==
  /\ \A o \in Orders : SideOf[o[1]] = "SELL" /\ attempt[o].state # "NONE" => attempt[o].req >= MinSize
  /\ Sizing /\ SideOf[exec.act] = "SELL" => exec.q >= MinSize

\* Collateral an order may still cost, and what is about to be ordered.
Promised(o) == IF Posting(o) THEN attempt[o].req ELSE ToCome(o)
PlannedCash == IF Sizing /\ SideOf[exec.act] = "BUY" THEN exec.q ELSE 0

BuyOrders == {o \in Orders : SideOf[o[1]] = "BUY"}
Promises == [o \in Orders |-> Promised(o)]
PromisedCash == SumFunctionOnSet(Promises, BuyOrders)

CashCovers == PromisedCash + PlannedCash <= wallet

Covered == Account /\ HeldAddsUp /\ OrderedSizes /\ CashCovers

LEMMA ReadyPlans ==
  ASSUME Typed, NEW a \in Actions, NEW p \in FirstPlans(a) \cup RemainderPlans(a), p[1] = "READY"
  PROVE  /\ SideOf[a] = "SELL" => p[2] >= MinSize
         /\ SideOf[a] = "BUY" => p[2] <= AvailableCash
<1>1. CASE SideOf[a] = "SELL"
  <2>1. ASSUME NEW S, p[2] \in Orderable(S) PROVE p[2] >= MinSize
    BY <2>1 DEF Orderable
  <2>2. \E S : p[2] \in Orderable(S)
    <3>1. CASE p \in FirstPlans(a)
      BY <1>1, <3>1 DEF FirstPlans
    <3>2. CASE p \in RemainderPlans(a)
      BY <1>1, <3>2 DEF RemainderPlans
    <3> QED
      BY <3>1, <3>2
  <2> QED
    BY <1>1, <2>1, <2>2
<1>2. CASE SideOf[a] = "BUY"
  <2>1. \E w : p[2] \in Affordable(w)
    <3>1. CASE p \in FirstPlans(a)
      BY <1>2, <3>1 DEF FirstPlans
    <3>2. CASE p \in RemainderPlans(a)
      BY <1>2, <3>2 DEF RemainderPlans
    <3> QED
      BY <3>1, <3>2
  <2> QED
    BY <1>2, <2>1 DEF Affordable
<1> QED
  BY <1>1, <1>2, ActionsAssumption DEF Sides

\* A quantity to order comes from a plan, and stays until it is ordered.
LEMMA SizingBefore ==
  ASSUME Causal, [Next]_vars, Sizing'
  PROVE  \/ Sizing /\ exec'.q = exec.q /\ exec'.act = exec.act
         \/ \E a \in Actions :
              /\ PlanFirst(a) \/ PlanRemainder(a)
              /\ exec'.act = a /\ exec'.pc = "planned"
              /\ \E p \in FirstPlans(a) \cup RemainderPlans(a) : p[1] = "READY" /\ exec'.q = p[2]
<1>1. exec'.pc \in {"planned", "prepare"}
  BY DEF Sizing
<1>2. CASE UNCHANGED exec
  BY <1>2 DEF Sizing
<1>3. ASSUME NEW a \in Actions, HandlerStep(a), exec'.pc = "planned",
             PlanFirst(a) \/ PlanRemainder(a)
      PROVE  exec'.act = a /\ \E p \in FirstPlans(a) \cup RemainderPlans(a) :
                                p[1] = "READY" /\ exec'.q = p[2]
  <2>1. exec \in Handlers /\ exec.act = a
    <3>1. exec.pc = "entry"
      BY <1>3 DEF PlanFirst, PlanRemainder, Plannable, Sizable, InOrder, Executing, Busy, At
    <3>2. ~ProcessSourceAction(a) /\ ~CloseRetry(a)
      BY <3>1 DEF ProcessSourceAction, CloseRetry, At
    <3> QED
      BY <1>3, <3>2, HandledAction
  <2>2. PICK p \in FirstPlans(a) \cup RemainderPlans(a) :
          exec' = [exec EXCEPT !.pc = "planned", !.st = p[1], !.q = p[2]]
    BY <1>3 DEF PlanFirst, PlanRemainder
  <2>3. exec'.st = p[1] /\ exec'.q = p[2] /\ exec'.act = a
    BY <2>1, <2>2 DEF Handlers
  <2>4. p[1] = "READY"
    BY <1>3, <2>3 DEF Sizing
  <2> QED
    BY <2>3, <2>4
<1>4. ASSUME NEW a \in Actions, HandlerStep(a), exec'.pc = "prepare", RecordPlan(a)
      PROVE  Sizing /\ exec'.q = exec.q /\ exec'.act = exec.act
  <2>1. exec \in Handlers /\ exec.pc = "planned"
    BY <1>4, HandledAction DEF RecordPlan, Busy, At, ProcessSourceAction, CloseRetry
  <2>2. /\ exec'.pc = IF exec.st = "READY" THEN "prepare" ELSE "set"
        /\ exec'.q = exec.q /\ exec'.act = exec.act
    BY <1>4, <2>1 DEF RecordPlan, Handlers
  <2> QED
    BY <1>4, <2>1, <2>2 DEF Sizing
<1> QED
  BY <1>1, <1>2, <1>3, <1>4, Advances DEF Advance, Idle

LEMMA StepOrderedSizes == ASSUME Account, OrderedSizes, [Next]_vars PROVE OrderedSizes'
<1>1. Causal /\ Typed
  BY DEF Account, Ledger, Causal, Backed
<1>2. ASSUME NEW o \in Orders, SideOf[o[1]] = "SELL", attempt'[o].state # "NONE"
      PROVE  attempt'[o].req >= MinSize
  <2>1. CASE AttemptKept(o)
    BY <1>2, <2>1 DEF AttemptKept, OrderedSizes
  <2>2. CASE BeginSubmissionAttempt(o[1], o[2])
    <3>1. o = <<o[1], o[2]>> /\ attempt \in [Orders -> AttemptRows]
      BY <1>1 DEF Typed, TypeOK
    <3>2. attempt'[o].req = exec.q
      BY <2>2, <3>1 DEF BeginSubmissionAttempt
    <3>3. Sizing /\ exec.act = o[1]
      BY <2>2 DEF BeginSubmissionAttempt, Busy, At, Sizing
    <3> QED
      BY <1>2, <3>2, <3>3 DEF OrderedSizes
  <2>3. CASE ReconcileFill(o)
    <3>1. PICK q : Books(o, q)
      BY <2>3, FillBooks DEF Account
    <3> QED
      BY <1>2, <3>1, NotNone DEF Books, OrderedSizes
  <2> QED
    BY <1>1, <2>1, <2>2, <2>3, AttemptChange
<1>3. ASSUME Sizing', SideOf[exec'.act] = "SELL" PROVE exec'.q >= MinSize
  <2>1. CASE Sizing /\ exec'.q = exec.q /\ exec'.act = exec.act
    BY <1>3, <2>1 DEF OrderedSizes
  <2>2. ASSUME NEW a \in Actions, exec'.act = a,
               NEW p \in FirstPlans(a) \cup RemainderPlans(a), p[1] = "READY", exec'.q = p[2]
        PROVE  exec'.q >= MinSize
    BY <1>1, <1>3, <2>2, ReadyPlans
  <2> QED
    BY <1>1, <1>3, <2>1, <2>2, SizingBefore
<1> QED
  BY <1>2, <1>3 DEF OrderedSizes

LEMMA PostingBefore ==
  ASSUME Causal, [Next]_vars, NEW o \in Orders, Posting(o)'
  PROVE  Posting(o) \/ BeginSubmissionAttempt(o[1], o[2])
<1>1. exec'.pc = "post" /\ o = <<exec'.act, exec'.n>>
  BY DEF Posting, At
<1>2. CASE UNCHANGED exec
  BY <1>1, <1>2 DEF Posting, At
<1>3. ASSUME NEW a \in Actions, Advance(a)
      PROVE  BeginSubmissionAttempt(o[1], o[2])
  <2>1. PICK n \in Attempts : BeginSubmissionAttempt(a, n) /\ exec'.n = n /\ exec'.act = a
    BY <1>1, <1>3 DEF Advance
  <2>2. o[1] = a /\ o[2] = n
    BY <1>1, <2>1
  <2> QED
    BY <2>1, <2>2
<1> QED
  BY <1>1, <1>2, <1>3, Advances DEF Idle

LEMMA PromisedIs ==
  ASSUME Account, NEW o \in Orders
  PROVE  /\ Promised(o) \in Nat
         /\ Promised(o) # 0 =>
              /\ attempt[o].state \in UnresolvedStates
              /\ Promised(o) <= attempt[o].req
<1>1. /\ Causal /\ PromptOrder(o) /\ (Untouched(o) => Fresh(o)) /\ (Resolved(o) => ~Resting(o))
      /\ order[o].matched \in Nat /\ attempt[o].req \in Nat
  BY AccountFacts
<1>2. CASE Posting(o)
  BY <1>1, <1>2, PostedIsUnresolved DEF Promised
<1>3. CASE ~Posting(o) /\ Live(o)
  <2>1. attempt[o].state \in UnresolvedStates
    BY <1>1, <1>3 DEF Live, PromptOrder, Resting, Resolved, Untouched, Fresh
  <2>2. Promised(o) = attempt[o].req - order[o].matched
    BY <1>3 DEF Promised, ToCome
  <2> QED
    BY <1>1, <2>1, <2>2 DEF PromptOrder
<1>4. CASE ~Posting(o) /\ ~Live(o)
  BY <1>4 DEF Promised, ToCome
<1> QED
  BY <1>2, <1>3, <1>4

\* Nothing new is promised for an order the exchange leaves alone, unless its
\* submission begins.
LEMMA PromisedStays ==
  ASSUME Account, [Next]_vars, NEW o \in Orders, order'[o] = order[o],
         ~BeginSubmissionAttempt(o[1], o[2])
  PROVE  Promised(o)' <= Promised(o)
<1>1. /\ Causal /\ (Untouched(o) => Fresh(o)) /\ Promised(o) \in Nat
      /\ order[o].matched \in Nat /\ attempt[o].req \in Nat
  BY AccountFacts, PromisedIs
<1>2. CASE Posting(o)'
  <2>1. Posting(o) /\ attempt[o].state # "NONE"
    BY <1>1, <1>2, PostingBefore, PostedIsUnresolved, NotNone
  <2>2. attempt'[o].req = attempt[o].req
    BY <2>1, RequestStays DEF Account
  <2> QED
    BY <1>1, <1>2, <2>1, <2>2 DEF Promised
<1>3. CASE ~Posting(o)' /\ Live(o)
  <2>1. ~Untouched(o)
    BY <1>1, <1>3 DEF Live, Fresh
  <2>2. attempt'[o].req = attempt[o].req
    BY <2>1, RequestStays DEF Account
  <2>3. Promised(o)' = attempt'[o].req - order'[o].matched /\ Promised(o) = attempt[o].req - order[o].matched
    BY <1>3, <2>1 DEF Promised, ToCome, Live, Untouched
  <2> QED
    BY <1>1, <2>2, <2>3
<1>4. CASE ~Posting(o)' /\ ~Live(o)
  <2>1. Promised(o)' = 0
    BY <1>4 DEF Promised, ToCome, Live
  <2> QED
    BY <1>1, <2>1
<1> QED
  BY <1>2, <1>3, <1>4

\* Shares that match take as much from what the order promised.
LEMMA PromisedIsTraded ==
  ASSUME Prompt, Account, [Next]_vars, NEW o \in Orders, UNCHANGED rows, VenueStep(o),
         NEW d \in Nat, Trades(o, d)
  PROVE  Promised(o)' + d <= Promised(o)
<1>1. /\ Causal /\ PromptOrder(o) /\ RestingOrder(o) /\ (Untouched(o) => Fresh(o))
      /\ Promised(o) \in Nat
      /\ order[o].matched \in Nat /\ attempt[o].req \in Nat
  BY AccountFacts, PromisedIs
<1>2. OrderStep(o) /\ attempt'[o] = attempt[o] /\ order'[o].matched = order[o].matched + d
  BY <1>1, VenueStepIs DEF rows, Trades
<1>3. Posting(o)' => Posting(o)
  <2>1. ~BeginSubmissionAttempt(o[1], o[2])
    <3>1. SUFFICES ASSUME BeginSubmissionAttempt(o[1], o[2]) PROVE FALSE
      OBVIOUS
    <3>2. o = <<o[1], o[2]>> /\ attempt \in [Orders -> AttemptRows]
      BY <1>1 DEF Causal, Backed, Typed, TypeOK
    <3>3. attempt[o].state = "NONE" /\ attempt'[o].state = "SUBMIT_STARTED"
      BY <3>1, <3>2 DEF BeginSubmissionAttempt, NextAttempt
    <3> QED
      BY <1>2, <3>3
  <2> QED
    BY <1>1, <2>1, PostingBefore
<1>4. ASSUME NEW k \in Nat, Landed(o, k) PROVE Promised(o)' + d <= Promised(o)
  <2>1. Posted(o)
    BY <1>1, <1>4 DEF Landed, Landing, PromptOrder
  <2>2. d = k /\ k <= attempt[o].req /\ order'[o].matched = k
    BY <1>1, <1>2, <1>4, <2>1 DEF Landed, Posted, Untouched, Fresh
  <2>3. Promised(o) = attempt[o].req
    BY <2>1 DEF Posted, Promised
  <2>4. Promised(o)' \in {0, attempt[o].req - k}
    <3>1. ~Posting(o)'
      BY <2>1 DEF Posted, Posting, At
    <3> QED
      BY <1>2, <2>2, <3>1 DEF Promised, ToCome
  <2> QED
    BY <1>1, <2>2, <2>3, <2>4
<1>5. CASE Shifted(o)
  <2>1. Resting(o) /\ order'[o].venue = "closed" /\ d = 0
    BY <1>1, <1>2, <1>5 DEF Shifted, Resting, PromptOrder, Prompt
  <2>2. ~Posting(o)'
    BY <1>1, <1>3, <2>1 DEF Resting, Untouched, Fresh
  <2>3. Promised(o)' = 0
    BY <2>1, <2>2 DEF Promised, ToCome, Live
  <2> QED
    BY <1>1, <2>1, <2>3
<1>6. CASE Grown(o)
  <2>1. Resting(o) /\ d = 1 /\ order[o].matched < attempt[o].req
    BY <1>1, <1>2, <1>6 DEF Grown, Resting, RestingOrder
  <2>2. ~Posting(o) /\ ~Posting(o)'
    BY <1>1, <1>3, <2>1 DEF Resting, Untouched, Fresh
  <2>3. Promised(o) = attempt[o].req - order[o].matched
    BY <2>1, <2>2 DEF Promised, ToCome, Live, Resting
  <2>4. Promised(o)' \in {0, attempt[o].req - (order[o].matched + 1)}
    BY <1>2, <2>1, <2>2 DEF Promised, ToCome
  <2> QED
    BY <1>1, <2>1, <2>3, <2>4
<1>7. ~Finalizes(o)
  BY <1>1 DEF Finalizes, PromptOrder
<1> QED
  BY <1>2, <1>4, <1>5, <1>6, <1>7 DEF OrderStep

LEMMA OrdersAreFinite == IsFiniteSet(Orders)
BY ActionsAssumption, AttemptsAreFinite, FS_Product

\* What the orders may still cost is reserved.
LEMMA PromisesAreReserved ==
  ASSUME Account
  PROVE  /\ PromisedCash \in Nat
         /\ PromisedCash <= SumFunctionOnSet(reserved, OfSide("BUY"))
<1>0. PICK f, g, S, T, p :
        /\ f = Promises /\ S = BuyOrders
        /\ g = reserved /\ T = OfSide("BUY")
        /\ p = [o \in Orders |-> o[1]]
  OBVIOUS
<1>1. Typed /\ ReservationBacksAttempt
  BY DEF Account, Ledger, Causal, Backed
<1>2. IsFiniteSet(S) /\ S \subseteq Orders /\ IsFiniteSet(T) /\ T \subseteq Actions
  <2>1. S \subseteq Orders /\ T \subseteq Actions
    BY <1>0 DEF BuyOrders
  <2> QED
    BY <2>1, OrdersAreFinite, ActionsAssumption, FS_Subset
<1>3. ASSUME NEW o \in S
      PROVE  /\ f[o] \in Nat /\ p[o] = o[1] /\ o[1] \in T /\ o[2] \in Attempts
             /\ o = <<o[1], o[2]>>
             /\ f[o] # 0 => attempt[o].state \in UnresolvedStates /\ f[o] <= reserved[o[1]]
  <2>1. o \in Orders /\ SideOf[o[1]] = "BUY"
    BY <1>0, <1>2 DEF BuyOrders
  <2>2. f[o] = Promised(o) /\ p[o] = o[1] /\ o[1] \in T /\ o[2] \in Attempts /\ o = <<o[1], o[2]>>
    BY <1>0, <2>1 DEF Promises
  <2>3. attempt[o].state \in UnresolvedStates => reserved[o[1]] = attempt[o].req
    <3>1. attempt[<<o[1], o[2]>>].state \in UnresolvedStates
            => reserved[o[1]] = attempt[<<o[1], o[2]>>].req
      BY <1>1, <2>1 DEF ReservationBacksAttempt
    <3> QED
      BY <2>2, <3>1
  <2> QED
    BY <2>1, <2>2, <2>3, PromisedIs
<1>4. Nats(f, S) /\ Nats(g, T)
  BY <1>0, <1>1, <1>2, <1>3 DEF Nats, Typed, TypeOK
<1>5. \A x \in S : f[x] # 0 => p[x] \in T /\ f[x] <= g[p[x]]
  BY <1>0, <1>3
<1>6. \A x, y \in S : f[x] # 0 /\ f[y] # 0 /\ p[x] = p[y] => x = y
  <2> SUFFICES ASSUME NEW x \in S, NEW y \in S, f[x] # 0, f[y] # 0, p[x] = p[y]
               PROVE  x = y
    OBVIOUS
  <2>1. x[1] = y[1] /\ x[1] \in Actions
    BY <1>2, <1>3
  <2>2. /\ attempt[<<x[1], x[2]>>].state \in UnresolvedStates
        /\ attempt[<<x[1], y[2]>>].state \in UnresolvedStates
    BY <1>3, <2>1
  <2>3. x[2] = y[2]
    BY <1>1, <1>3, <2>1, <2>2 DEF ReservationBacksAttempt
  <2> QED
    BY <1>3, <2>1, <2>3
<1>7. SumFunctionOnSet(f, S) \in Nat
  BY <1>2, <1>4, SumNat
<1>8. SumFunctionOnSet(f, S) <= SumFunctionOnSet(g, T)
  BY <1>2, <1>4, <1>5, <1>6, SumInjected
<1> QED
  BY <1>0, <1>7, <1>8 DEF PromisedCash

\* How the promises change: all at once, when one order is about to change.
LEMMA PromisesAreNat == Account => \A o \in Orders : Promised(o) \in Nat
BY PromisedIs

LEMMA PromisedCashBounded ==
  ASSUME Account, Account'
  PROVE  /\ (\A p \in Orders : Promised(p)' <= Promised(p)) => PromisedCash' <= PromisedCash
         /\ \A o \in BuyOrders :
              (\A p \in Orders \ {o} : Promised(p)' <= Promised(p))
                => PromisedCash' <= PromisedCash - Promised(o) + Promised(o)'
         /\ PromisedCash \in Nat /\ PromisedCash' \in Nat
         /\ \A o \in Orders : Promised(o) \in Nat /\ Promised(o)' \in Nat
<1>0. PICK f, g, S : f = Promises /\ g = Promises' /\ S = BuyOrders
  OBVIOUS
<1>1. S \subseteq Orders /\ IsFiniteSet(S)
  BY <1>0, OrdersAreFinite, FS_Subset DEF BuyOrders
<1>2. \A o \in Orders : /\ f[o] = Promised(o) /\ f[o] \in Nat
                        /\ g[o] = Promised(o)' /\ g[o] \in Nat
  <2>1. \A o \in Orders : Promised(o) \in Nat
    BY PromisedIs
  <2>2. (Account => \A o \in Orders : Promised(o) \in Nat)'
    BY PromisesAreNat, PTL
  <2> QED
    BY <1>0, <2>1, <2>2 DEF Promises
<1>3. Nats(f, S) /\ Nats(g, S) /\ Ints(f, S) /\ Ints(g, S)
  BY <1>1, <1>2 DEF Nats, Ints
<1>4. /\ PromisedCash = SumFunctionOnSet(f, S)
      /\ PromisedCash' = SumFunctionOnSet(g, S)
  BY <1>0 DEF PromisedCash, BuyOrders
<1>5. ASSUME \A p \in Orders : Promised(p)' <= Promised(p)
      PROVE  SumFunctionOnSet(g, S) <= SumFunctionOnSet(f, S)
  <2>1. \A p \in S : g[p] <= f[p]
    BY <1>1, <1>2, <1>5
  <2> QED
    BY <1>1, <1>3, <2>1, SumMonotone
<1>6. ASSUME NEW o \in S, \A p \in Orders \ {o} : Promised(p)' <= Promised(p)
      PROVE  SumFunctionOnSet(g, S) <= SumFunctionOnSet(f, S) - Promised(o) + Promised(o)'
  <2>1. \A p \in S \ {o} : g[p] <= f[p]
    BY <1>1, <1>2, <1>6
  <2>2. SumFunctionOnSet(g, S) <= SumFunctionOnSet(f, S) - f[o] + g[o]
    BY <1>1, <1>3, <2>1, SumBounded
  <2> QED
    BY <1>1, <1>2, <2>2
<1>7. SumFunctionOnSet(f, S) \in Nat /\ SumFunctionOnSet(g, S) \in Nat
  BY <1>1, <1>3, SumNat
<1> QED
  BY <1>0, <1>2, <1>4, <1>5, <1>6, <1>7

LEMMA StepCashCovers ==
  ASSUME Prompt, Covered, [Next]_vars
  PROVE  CashCovers'
<1>1. Account /\ Account' /\ Ledger /\ Causal /\ Typed /\ Typed'
  BY StepAccount, StepBacked DEF Covered, Account, Ledger, Causal, Backed
<1>2. \A o \in Orders : Promised(o) \in Nat /\ Promised(o)' \in Nat
  BY <1>1, PromisedCashBounded
<1>3. Sizing => exec.q \in Nat
  BY <1>1 DEF Sizing, Typed, TypeOK, Handlers, Idle
<1>4. Sizing' => exec'.q \in Nat
  BY <1>1 DEF Sizing, Typed, TypeOK, Handlers, Idle
\* The quantities before and after the step.
<1>5. PICK c \in Nat, c1 \in Nat, k \in Nat, k1 \in Nat, w \in Int, w1 \in Int, r \in Nat :
        /\ c = PromisedCash /\ c1 = PromisedCash'
        /\ k = PlannedCash /\ k1 = PlannedCash'
        /\ w = wallet /\ w1 = wallet'
        /\ r = SumFunctionOnSet(reserved, OfSide("BUY"))
  <2>1. PromisedCash \in Nat /\ PromisedCash' \in Nat
    BY <1>1, PromisedCashBounded
  <2>2. PlannedCash \in Nat /\ PlannedCash' \in Nat
    BY <1>3, <1>4 DEF PlannedCash
  <2>3. wallet \in Int /\ wallet' \in Int
    BY <1>1 DEF Typed, TypeOK
  <2>4. SumFunctionOnSet(reserved, OfSide("BUY")) \in Nat
    BY <1>1, ReservationsAreNat
  <2> QED
    BY <2>1, <2>2, <2>3, <2>4
<1>6. c + k <= w /\ c <= r
  <2>1. c <= r
    BY <1>1, <1>5, PromisesAreReserved
  <2> QED
    BY <1>5, <2>1 DEF Covered, CashCovers
<1>7. SUFFICES c1 + k1 <= w1
  BY <1>5 DEF CashCovers
<1>8. (\A o \in Orders : Promised(o)' <= Promised(o)) => c1 <= c
  BY <1>1, <1>5, PromisedCashBounded
<1>9. ASSUME NEW a \in Actions, PlanFirst(a) \/ PlanRemainder(a), exec'.act = a,
             NEW p \in FirstPlans(a) \cup RemainderPlans(a), p[1] = "READY", exec'.q = p[2]
      PROVE  c1 + k1 <= w1
  <2>1. UNCHANGED venue /\ exec.pc = "entry"
    BY <1>9 DEF PlanFirst, PlanRemainder, Plannable, Sizable, InOrder, Executing, Busy, At
  <2>2. \A o \in Orders : Promised(o)' <= Promised(o)
    <3>1. \A o \in Orders : order'[o] = order[o] /\ ~BeginSubmissionAttempt(o[1], o[2])
      BY <2>1 DEF venue, BeginSubmissionAttempt, Busy, At
    <3> QED
      BY <1>1, <3>1, PromisedStays
  <2>3. c1 <= c /\ w1 = w
    BY <1>5, <1>8, <2>1, <2>2 DEF venue
  <2>4. k1 = 0 \/ k1 <= w - r
    <3>1. CASE SideOf[a] = "BUY"
      <4>1. p[2] <= wallet - SumFunctionOnSet(reserved, OfSide("BUY"))
        BY <1>1, <1>9, <3>1, ReadyPlans DEF AvailableCash
      <4>2. k1 = 0 \/ k1 = p[2]
        BY <1>5, <1>9 DEF PlannedCash
      <4> QED
        BY <1>5, <4>1, <4>2
    <3>2. CASE SideOf[a] # "BUY"
      BY <1>5, <1>9, <3>2 DEF PlannedCash
    <3> QED
      BY <3>1, <3>2
  <2> QED
    BY <1>6, <2>3, <2>4
<1>10. ASSUME k1 <= k PROVE c1 + k1 <= w1
  <2>1. ASSUME NEW o \in Orders, BeginSubmissionAttempt(o[1], o[2])
        PROVE  c1 + k1 <= w1
    <3>1. /\ order' = order /\ wallet' = wallet /\ o = <<o[1], o[2]>> /\ attempt'[o].req = exec.q
          /\ exec.pc = "prepare" /\ exec.act = o[1] /\ exec'.pc = "post"
      <4>1. exec \in Handlers /\ attempt \in [Orders -> AttemptRows]
        BY <1>1, <2>1 DEF BeginSubmissionAttempt, Busy, At, Typed, TypeOK, Idle
      <4> QED
        BY <2>1, <4>1 DEF BeginSubmissionAttempt, Busy, At, venue, Handlers
    <3>2. \A p \in Orders \ {o} : Promised(p)' <= Promised(p)
      <4>1. ASSUME NEW p \in Orders, p # o PROVE ~BeginSubmissionAttempt(p[1], p[2])
        <5>1. SUFFICES ASSUME BeginSubmissionAttempt(p[1], p[2]) PROVE FALSE
          OBVIOUS
        <5>2. attempt'[p].state = "SUBMIT_STARTED" /\ attempt[p].state = "NONE"
          <6>1. p = <<p[1], p[2]>> /\ attempt \in [Orders -> AttemptRows]
            BY <1>1 DEF Typed, TypeOK
          <6> QED
            BY <5>1, <6>1 DEF BeginSubmissionAttempt, NextAttempt
        <5>3. attempt'[p] = attempt[p]
          BY <1>1, <2>1, <3>1, <4>1 DEF BeginSubmissionAttempt, Typed, TypeOK
        <5> QED
          BY <5>2, <5>3
      <4> QED
        BY <1>1, <3>1, <4>1, PromisedStays
    <3>3. PICK x \in Nat, y \in Nat : x = Promised(o) /\ y = Promised(o)'
      BY <1>2
    <3>4. k1 = 0 /\ w1 = w /\ (SideOf[o[1]] = "BUY" => y <= k)
      <4>1. k1 = 0 /\ w1 = w /\ (SideOf[o[1]] = "BUY" => k = exec.q)
        BY <1>5, <3>1 DEF PlannedCash, Sizing
      <4>2. ~Live(o)'
        BY <1>1, <2>1, <3>1, AccountFacts
           DEF BeginSubmissionAttempt, NextAttempt, Untouched, Fresh, Live
      <4>3. y = 0 \/ y = exec.q
        BY <3>1, <3>3, <4>2 DEF Promised, ToCome
      <4> QED
        BY <4>1, <4>3
    <3>5. CASE SideOf[o[1]] = "BUY"
      <4>1. c1 <= c - x + y
        BY <1>1, <1>5, <3>2, <3>3, <3>5, PromisedCashBounded DEF BuyOrders
      <4> QED
        BY <1>6, <3>4, <3>5, <4>1
    <3>6. CASE SideOf[o[1]] # "BUY"
      <4>1. c1 <= c
        <5>1. PICK f, g, S : f = Promises /\ g = Promises' /\ S = BuyOrders
          OBVIOUS
        <5>2. S \subseteq Orders /\ o \notin S /\ IsFiniteSet(S)
          BY <3>6, <5>1, OrdersAreFinite, FS_Subset DEF BuyOrders
        <5>3. \A p \in S : f[p] = Promised(p) /\ g[p] = Promised(p)'
          BY <5>1, <5>2 DEF Promises
        <5>4. Ints(f, S) /\ Ints(g, S) /\ \A p \in S : g[p] <= f[p]
          BY <1>2, <3>2, <5>2, <5>3 DEF Ints
        <5>5. SumFunctionOnSet(g, S) <= SumFunctionOnSet(f, S)
          BY <5>2, <5>4, SumMonotone
        <5> QED
          BY <1>5, <5>1, <5>5 DEF PromisedCash, BuyOrders
      <4> QED
        BY <1>6, <3>4, <4>1
    <3> QED
      BY <3>5, <3>6
  <2>2. ASSUME NEW o \in Orders, NEW d \in Nat, VenueStep(o), Trades(o, d), UNCHANGED rows
        PROVE  c1 + k1 <= w1
    <3>1. PICK x \in Nat, y \in Nat : x = Promised(o) /\ y = Promised(o)'
      BY <1>2
    <3>2. y + d <= x /\ w1 = IF SideOf[o[1]] = "BUY" THEN w - d ELSE w + d
      BY <1>1, <1>5, <2>2, <3>1, PromisedIsTraded DEF Trades
    <3>3. \A p \in Orders \ {o} : Promised(p)' <= Promised(p)
      <4>1. \A p \in Orders \ {o} : order'[p] = order[p]
        BY <1>1, <2>2, VenueStepIs
      <4>2. \A p \in Orders : ~BeginSubmissionAttempt(p[1], p[2])
        <5>1. SUFFICES ASSUME NEW p \in Orders, BeginSubmissionAttempt(p[1], p[2]) PROVE FALSE
          OBVIOUS
        <5>2. attempt[p].state = "NONE" /\ attempt'[p].state = "SUBMIT_STARTED"
          <6>1. p = <<p[1], p[2]>> /\ attempt \in [Orders -> AttemptRows]
            BY <1>1 DEF Typed, TypeOK
          <6> QED
            BY <5>1, <6>1 DEF BeginSubmissionAttempt, NextAttempt
        <5> QED
          BY <2>2, <5>2 DEF rows
      <4> QED
        BY <1>1, <4>1, <4>2, PromisedStays
    <3>4. CASE SideOf[o[1]] = "BUY"
      <4>1. c1 <= c - x + y
        BY <1>1, <1>5, <3>1, <3>3, <3>4, PromisedCashBounded DEF BuyOrders
      <4> QED
        BY <1>6, <1>10, <3>2, <3>4, <4>1
    <3>5. CASE SideOf[o[1]] # "BUY"
      <4>1. y <= x
        BY <3>2
      <4>2. \A p \in Orders : Promised(p)' <= Promised(p)
        BY <3>1, <3>3, <4>1
      <4> QED
        BY <1>6, <1>8, <1>10, <3>2, <3>5, <4>2
    <3> QED
      BY <3>4, <3>5
  <2>3. CASE UNCHANGED venue /\ ~(\E o \in Orders : BeginSubmissionAttempt(o[1], o[2]))
    <3>1. \A o \in Orders : Promised(o)' <= Promised(o)
      BY <1>1, <2>3, PromisedStays DEF venue
    <3>2. c1 <= c /\ w1 = w
      BY <1>5, <1>8, <2>3, <3>1 DEF venue
    <3> QED
      BY <1>6, <1>10, <3>2
  <2> QED
    BY <1>1, <2>1, <2>2, <2>3, StepTrades
<1>11. CASE ~Sizing'
  <2>1. k1 = 0
    BY <1>5, <1>11 DEF PlannedCash
  <2> QED
    BY <1>10, <2>1
<1>12. CASE Sizing /\ exec'.q = exec.q /\ exec'.act = exec.act
  <2>1. k1 = k \/ k1 = 0
    BY <1>5, <1>12 DEF PlannedCash
  <2> QED
    BY <1>10, <2>1
<1> QED
  BY <1>1, <1>9, <1>11, <1>12, SizingBefore

LEMMA InitCovered == ASSUME Init PROVE Covered
<1>1. Account /\ HeldAddsUp
  BY InitAccount, InitHeldAddsUp
<1>2. OrderedSizes /\ PlannedCash = 0
  BY DEF Init, OrderedSizes, PlannedCash, Sizing, Idle
<1>3. CashCovers
  <2>1. PICK f, S : f = Promises /\ S = BuyOrders
    OBVIOUS
  <2>2. S \subseteq Orders /\ IsFiniteSet(S)
    BY <2>1, OrdersAreFinite, FS_Subset DEF BuyOrders
  <2>3. \A o \in S : f[o] = 0
    <3>1. ASSUME NEW o \in Orders PROVE Promised(o) = 0
      BY DEF Init, Promised, ToCome, Live, Posting, At, Idle
    <3> QED
      BY <2>1, <2>2, <3>1 DEF Promises
  <2>4. PromisedCash = 0
    BY <2>1, <2>2, <2>3, SumZero DEF PromisedCash
  <2> QED
    BY <1>2, <2>4, EnvironmentAssumption DEF Init, CashCovers
<1> QED
  BY <1>1, <1>2, <1>3 DEF Covered

LEMMA StepCovered == ASSUME Prompt, Covered, [Next]_vars PROVE Covered'
<1>1. Account /\ Ledger /\ HeldAddsUp /\ OrderedSizes
  BY DEF Covered, Account
<1> QED
  BY <1>1, StepAccount, StepHeldAddsUp, StepOrderedSizes, StepCashCovers DEF Covered

LEMMA AlwaysCovered == ASSUME Prompt PROVE Spec => []Covered
<1>1. Init => Covered
  BY InitCovered
<1>2. Covered /\ [Next]_vars => Covered'
  BY StepCovered
<1> QED
  BY <1>1, <1>2, PTL DEF Spec

\* What the trades of an action may exceed its progress by.
LEMMA MatchedIsWithin ==
  ASSUME Account, NEW a \in Actions
  PROVE  /\ MatchedOf(a) \in Nat /\ target[a].filled \in Nat /\ target[a].qty \in Nat
         /\ target[a].filled <= MatchedOf(a) /\ MatchedOf(a) <= target[a].qty
<1>0. PICK f, g, h : /\ f = BookedOfAction(a) /\ g = MatchedOfAction(a)
                     /\ h = [n \in Attempts |-> Exposure(<<a, n>>)]
  OBVIOUS
<1>1. Typed /\ target[a] \in WithinTarget /\ target[a].filled = BookedOf(a)
  BY DEF Account, Ledger, Causal, Backed, Typed, FilledIsBooked
<1>2. \A n \in Attempts : /\ f[n] \in Nat /\ g[n] \in Nat /\ h[n] \in Nat
                          /\ f[n] <= g[n] /\ g[n] <= h[n]
  <2> SUFFICES ASSUME NEW n \in Attempts
               PROVE  /\ f[n] \in Nat /\ g[n] \in Nat /\ h[n] \in Nat
                      /\ f[n] <= g[n] /\ g[n] <= h[n]
    OBVIOUS
  <2>1. PICK o \in Orders : o = <<a, n>>
    OBVIOUS
  <2>2. f[n] = attempt[o].booked /\ g[n] = order[o].matched /\ h[n] = Exposure(o)
    BY <1>0, <2>1 DEF BookedOfAction, MatchedOfAction
  <2>3. /\ PromptOrder(o) /\ attempt[o].booked <= order[o].matched
        /\ order[o].matched \in Nat /\ attempt[o].booked \in Nat /\ attempt[o].req \in Nat
    BY AccountFacts DEF Account, Ledger, BookedOnce
  <2> QED
    BY <2>2, <2>3 DEF PromptOrder, Exposure
<1> HIDE DEF Attempts
<1>3. IsFiniteSet(Attempts) /\ Ints(f, Attempts) /\ Ints(g, Attempts) /\ Ints(h, Attempts)
  <2>1. \A n \in Attempts : f[n] \in Int /\ g[n] \in Int /\ h[n] \in Int
    BY <1>2
  <2> QED
    BY <2>1, AttemptsAreFinite DEF Ints
<1>4. /\ SumFunctionOnSet(f, Attempts) <= SumFunctionOnSet(g, Attempts)
      /\ SumFunctionOnSet(g, Attempts) <= SumFunctionOnSet(h, Attempts)
  <2>1. (\A n \in Attempts : f[n] <= g[n]) /\ (\A n \in Attempts : g[n] <= h[n])
    BY <1>2
  <2> QED
    BY <1>3, <2>1, SumMonotone
<1>5. /\ BookedOf(a) = SumFunctionOnSet(f, Attempts)
      /\ MatchedOf(a) = SumFunctionOnSet(g, Attempts)
      /\ ExposureOf(a) = SumFunctionOnSet(h, Attempts)
  BY <1>0 DEF BookedOf, BookedOfAction, MatchedOf, ExposureOf
<1>6. SumFunctionOnSet(h, Attempts) \in Int /\ SumFunctionOnSet(h, Attempts) <= target[a].qty
  BY <1>3, <1>5, SumType, ExposureIsBounded
<1>7. MatchedOf(a) \in Nat /\ target[a].filled \in Nat /\ target[a].qty \in Nat
  BY <1>1, MatchedOfType DEF WithinTarget, TargetRows
<1> QED
  BY <1>1, <1>4, <1>5, <1>6, <1>7

\* The SELL in flight may trade no more than the position still counts.
LEMMA HeldIsNat ==
  ASSUME Covered, NEW t \in Tokens
  PROVE  held[t] \in Nat
<1>1. /\ Account /\ Ledger /\ Causal /\ Typed
      /\ pos[t] \in Nat /\ held[t] \in Int /\ Inventory0[t] \in Nat
      /\ held[t] = Inventory0[t] + TradedOf("BUY", t) - TradedOf("SELL", t)
      /\ pos[t] = Inventory0[t] + FilledOf("BUY", t) - FilledOf("SELL", t)
  BY EnvironmentAssumption DEF Covered, Account, Ledger, Causal, Backed, Typed, TypeOK,
     HeldAddsUp, PositionAddsUp
<1>2. PICK f, g : f = TradedQuantities /\ g = [a \in Actions |-> target[a].filled]
  OBVIOUS
<1>3. \A a \in Actions : /\ f[a] = MatchedOf(a) /\ f[a] \in Nat
                         /\ g[a] = target[a].filled /\ g[a] \in Nat /\ g[a] <= f[a]
  BY <1>1, <1>2, MatchedIsWithin DEF TradedQuantities
<1>4. ASSUME NEW s, NEW S, S = {a \in OfSide(s) : TokenOf[a] = t}
      PROVE  /\ IsFiniteSet(S) /\ S \subseteq Actions /\ Ints(f, S) /\ Ints(g, S)
             /\ TradedOf(s, t) = SumFunctionOnSet(f, S)
             /\ FilledOf(s, t) = SumFunctionOnSet(g, S)
  <2>1. IsFiniteSet(S) /\ S \subseteq Actions
    BY <1>4, ActionsAssumption, FS_Subset
  <2>2. Ints(f, S) /\ Ints(g, S)
    BY <1>3, <2>1 DEF Ints
  <2> QED
    BY <1>2, <1>4, <2>1, <2>2 DEF TradedOf, FilledOf
<1>5. PICK tb \in Nat, ts \in Nat, fb \in Nat, fs \in Nat :
        /\ tb = TradedOf("BUY", t) /\ ts = TradedOf("SELL", t)
        /\ fb = FilledOf("BUY", t) /\ fs = FilledOf("SELL", t)
  BY <1>1, TradedOfType, FilledOfIsInt
<1>6. fb <= tb
  <2>1. PICK S : S = {a \in OfSide("BUY") : TokenOf[a] = t}
    OBVIOUS
  <2>2. /\ IsFiniteSet(S) /\ S \subseteq Actions /\ Ints(f, S) /\ Ints(g, S)
        /\ tb = SumFunctionOnSet(f, S) /\ fb = SumFunctionOnSet(g, S)
    BY <1>4, <1>5, <2>1
  <2>3. \A a \in S : g[a] <= f[a]
    BY <1>3, <2>2
  <2> QED
    BY <2>2, <2>3, SumMonotone
<1>7. ts <= fs + pos[t]
  <2>1. PICK S : S = {a \in OfSide("SELL") : TokenOf[a] = t}
    OBVIOUS
  <2>2. /\ IsFiniteSet(S) /\ S \subseteq Actions /\ Ints(f, S) /\ Ints(g, S)
        /\ ts = SumFunctionOnSet(f, S) /\ fs = SumFunctionOnSet(g, S)
    BY <1>4, <1>5, <2>1
  <2>3. CASE \A a \in S : ~Unresolved(a)
    <3>1. \A a \in S : f[a] = g[a]
      BY <1>1, <1>3, <2>2, <2>3, MatchedIsFilled
    <3>2. ts = fs
      BY <2>2, <3>1, SumSame
    <3> QED
      BY <1>1, <3>2
  <2>4. ASSUME NEW a \in S, Unresolved(a) PROVE ts <= fs + pos[t]
    <3>1. a \in Actions /\ SideOf[a] = "SELL" /\ TokenOf[a] = t
      BY <2>1
    <3>2. ASSUME NEW b \in S \ {a} PROVE f[b] = g[b]
      <4>1. b \in Actions /\ TokenOf[b] = t
        BY <2>1
      <4>2. ~Unresolved(b)
        BY <1>1, <2>4, <3>1, <4>1, CausalIsOneInFlight DEF SideEffect, OneInFlightPerToken
      <4> QED
        BY <1>1, <1>3, <4>1, <4>2, MatchedIsFilled
    <3>3. ts = fs - g[a] + f[a]
      BY <2>2, <3>2, SumChanged
    <3>4. f[a] <= target[a].qty /\ target[a].qty \in Nat
      BY <1>1, <1>3, <3>1, MatchedIsWithin
    <3>5. Remaining(a) <= pos[t]
      <4>1. PICK n \in Attempts : attempt[<<a, n>>].state \in UnresolvedStates
        BY <2>4 DEF Unresolved
      <4>2. <<a, n>> \in Orders /\ attempt[<<a, n>>].req = Remaining(a) /\ planned[a]
        BY <1>1, <2>4, <3>1, <4>1 DEF Causal, InFlightRows, InFlightRow
      <4>3. Remaining(a) >= MinSize
        BY <3>1, <4>1, <4>2, NotNone DEF Covered, OrderedSizes
      <4>4. Remaining(a) < MinSize \/ Remaining(a) <= pos[t]
        BY <1>1, <2>4, <3>1, <4>2, InFlightLive DEF Causal, SizedIsHeld, Sized, Nonterminal
      <4>5. Remaining(a) \in Int /\ MinSize \in Int
        BY <1>3, <3>1, <3>4, BoundsAssumption DEF Remaining
      <4> QED
        BY <4>3, <4>4, <4>5
    <3>6. f[a] \in Nat /\ g[a] \in Nat /\ Remaining(a) = target[a].qty - g[a]
      BY <1>3, <3>1 DEF Remaining
    <3> QED
      BY <1>1, <3>3, <3>4, <3>5, <3>6
  <2> QED
    BY <2>3, <2>4
<1> QED
  BY <1>1, <1>5, <1>6, <1>7

\* What rests on the book can always be paid and delivered: cash is promised
\* only up to what is not reserved, a SELL never rests, and what one may trade
\* is still held.
THEOREM OrdersCanBeSettled == ASSUME Prompt PROVE Spec => []OrdersAreCovered
<1>1. ASSUME Covered PROVE OrdersAreCovered
  <2>1. Account /\ PromisedCash + PlannedCash <= wallet /\ wallet \in Int /\ PlannedCash \in Nat
    BY <1>1 DEF Covered, CashCovers, Account, Ledger, Causal, Backed, Typed, TypeOK, PlannedCash,
       Sizing, Handlers, Idle
  <2>2. ASSUME NEW o \in Orders
        PROVE  ToCome(o) \in Nat /\ ToCome(o) <= Promised(o) /\ Promised(o) \in Nat
               /\ (SideOf[o[1]] = "SELL" => ToCome(o) = 0)
    <3>1. /\ PromptOrder(o) /\ RestingOrder(o) /\ Promised(o) \in Nat
          /\ order[o].matched \in Nat /\ attempt[o].req \in Nat
      BY <2>1, AccountFacts, PromisedIs
    <3>2. ToCome(o) \in Nat /\ ToCome(o) <= attempt[o].req
      BY <3>1 DEF ToCome, PromptOrder
    <3>3. ToCome(o) <= Promised(o)
      BY <3>1, <3>2 DEF Promised
    <3>4. SideOf[o[1]] = "SELL" => ~Live(o)
      BY <3>1 DEF Live, PromptOrder, RestingOrder, Resting
    <3> QED
      BY <3>1, <3>2, <3>3, <3>4 DEF ToCome
  <2>3. PICK h : h = [o \in Orders |-> ToCome(o)]
    OBVIOUS
  <2>4. ToComeOf({o \in Orders : SideOf[o[1]] = "BUY"}) <= wallet
    <3>1. PICK f, S : f = Promises /\ S = BuyOrders
      OBVIOUS
    <3>2. S \subseteq Orders /\ IsFiniteSet(S)
      BY <3>1, OrdersAreFinite, FS_Subset DEF BuyOrders
    <3>3. Ints(h, S) /\ Ints(f, S) /\ \A o \in S : h[o] <= f[o]
      BY <2>2, <2>3, <3>1, <3>2 DEF Promises, Ints
    <3>4. SumFunctionOnSet(h, S) <= SumFunctionOnSet(f, S)
      BY <3>2, <3>3, SumMonotone
    <3>5. SumFunctionOnSet(h, S) \in Int /\ SumFunctionOnSet(f, S) \in Int
      BY <3>2, <3>3, SumType
    <3>6. /\ PromisedCash = SumFunctionOnSet(f, S)
          /\ ToComeOf({o \in Orders : SideOf[o[1]] = "BUY"}) = SumFunctionOnSet(h, S)
      BY <2>3, <3>1 DEF PromisedCash, BuyOrders, ToComeOf
    <3>7. PICK k \in Nat, w \in Int : k = PlannedCash /\ w = wallet
      BY <2>1
    <3> QED
      BY <2>1, <3>4, <3>5, <3>6, <3>7
  <2>5. ASSUME NEW t \in Tokens
        PROVE  ToComeOf({o \in Orders : SideOf[o[1]] = "SELL" /\ TokenOf[o[1]] = t}) <= held[t]
    <3>1. PICK S : S = {o \in Orders : SideOf[o[1]] = "SELL" /\ TokenOf[o[1]] = t}
      OBVIOUS
    <3>2. S \subseteq Orders /\ IsFiniteSet(S)
      BY <3>1, OrdersAreFinite, FS_Subset
    <3>3. \A o \in S : h[o] = 0
      BY <2>2, <2>3, <3>1, <3>2
    <3>4. ToComeOf(S) = 0
      BY <2>3, <3>2, <3>3, SumZero DEF ToComeOf
    <3> QED
      BY <1>1, <3>1, <3>4, HeldIsNat
  <2> QED
    BY <2>4, <2>5 DEF OrdersAreCovered
<1> QED
  BY <1>1, AlwaysCovered, PTL
=============================================================================
