------------------------- MODULE OrderLedgerProofs -------------------------
(***************************************************************************)
(* Theorems about OrderLedger, for every set of actions, every market and  *)
(* every bound.                                                            *)
(***************************************************************************)
EXTENDS OrderLedger, TLAPS

\* What a handler may be about to write at each of its steps: more than the
\* type invariant says, and what makes the type invariant inductive.
Pending(pc) ==
  CASE pc = "planned" -> (TargetStates \cap LatestStates) \cup {"READY"}
    [] pc \in {"attempt", "cancelled"} -> UnresolvedStates
    [] pc = "set" -> TargetStates \cap LatestStates
    [] pc = "append" -> LatestStates
    [] OTHER -> LatestStates \cup {"READY"}

Steps == {h \in Handlers : h.st \in Pending(h.pc)}

\* A frozen target is never exceeded, so what remains of it is a natural number.
WithinTarget == {r \in TargetRows : r.filled <= r.qty}

Typed ==
  /\ TypeOK
  /\ target \in [Actions -> WithinTarget]
  /\ exec \in {Idle} \cup Steps

USE DEF Attempts, Orders

-----------------------------------------------------------------------------
\* Writes of one row or one step keep their types.

LEMMA States ==
  /\ TerminalStates \subseteq TargetStates \cap LatestStates
  /\ RetryableStates \subseteq TargetStates \cap LatestStates
  /\ UnresolvedStates \subseteq TargetStates \cap LatestStates \cap AttemptStates
BY DEF TerminalStates, RetryableStates, UnresolvedStates, TargetStates,
       LatestStates, AttemptStates, LiquidityStates

LEMMA InStep ==
  ASSUME Typed, NEW a \in Actions, NEW pc \in PCs, Busy(pc, a)
  PROVE  exec \in Steps /\ exec.pc = pc /\ exec.act = a /\ exec.st \in Pending(pc)
BY DEF Typed, Busy, At, Idle, PCs, Steps

LEMMA Narrower ==
  /\ Steps \subseteq Handlers
  /\ \A f : f \in [Actions -> WithinTarget] => f \in [Actions -> TargetRows]
BY DEF Steps, WithinTarget

LEMMA Moved ==
  ASSUME exec \in Steps, NEW pc \in PCs, NEW st \in Pending(pc)
  PROVE  [exec EXCEPT !.pc = pc, !.st = st] \in Steps
<1>1. st \in LatestStates \cup {"READY"}
  BY States DEF Pending
<1> HIDE DEF Pending
<1> QED
  BY <1>1 DEF Steps, Handlers

LEMMA MovedWith ==
  ASSUME exec \in Steps, NEW pc \in PCs, NEW st \in Pending(pc), NEW q \in Nat
  PROVE  [exec EXCEPT !.pc = pc, !.st = st, !.q = q] \in Steps
<1>1. st \in LatestStates \cup {"READY"}
  BY States DEF Pending
<1> HIDE DEF Pending
<1> QED
  BY <1>1 DEF Steps, Handlers

LEMMA MovedAnswer ==
  ASSUME exec \in Steps, NEW pc \in PCs, NEW st \in Pending(pc), NEW r \in Responses
  PROVE  [exec EXCEPT !.pc = pc, !.st = st, !.resp = r] \in Steps
<1>1. st \in LatestStates \cup {"READY"}
  BY States DEF Pending
<1> HIDE DEF Pending
<1> QED
  BY <1>1 DEF Steps, Handlers

LEMMA Started ==
  ASSUME NEW a \in Actions, NEW n \in Attempts, NEW pc \in PCs, NEW st \in Pending(pc),
         NEW r \in Responses
  PROVE  Handler(pc, a, n, st, 0, r) \in Steps
<1>1. st \in LatestStates \cup {"READY"}
  BY States DEF Pending
<1> HIDE DEF Pending
<1> QED
  BY <1>1 DEF Handler, Steps, Handlers

LEMMA FilledTyped ==
  ASSUME NEW r \in TargetRows, NEW q \in Nat, NEW s \in TargetStates, r.filled + q <= r.qty
  PROVE  [r EXCEPT !.filled = @ + q, !.state = s] \in WithinTarget
<1>1. \A x \in TargetRows, m \in Nat : m <= x.qty => [x EXCEPT !.filled = m] \in WithinTarget
  BY DEF WithinTarget, TargetRows
<1>2. \A x \in WithinTarget : [x EXCEPT !.state = s] \in WithinTarget
  BY DEF WithinTarget, TargetRows
<1>3. r.filled + q \in Nat
  BY DEF TargetRows
<1> QED
  BY <1>1, <1>2, <1>3

LEMMA BookedRow ==
  ASSUME NEW r \in AttemptRows, NEW s \in AttemptStates, NEW q \in Nat
  PROVE  [r EXCEPT !.state = s, !.booked = q] \in AttemptRows
<1>1. [r EXCEPT !.state = s] \in AttemptRows
  BY DEF AttemptRows
<1>2. \A x \in AttemptRows : [x EXCEPT !.booked = q] \in AttemptRows
  BY DEF AttemptRows
<1> QED
  BY <1>1, <1>2

LEMMA BookedTyped ==
  ASSUME attempt \in [Orders -> AttemptRows], NEW o \in Orders, NEW s \in AttemptStates,
         NEW q \in Nat,
         attempt' = [attempt EXCEPT ![o].state = s, ![o].booked = q]
  PROVE  attempt' \in [Orders -> AttemptRows]
<1>1. attempt' = [attempt EXCEPT ![o] = [attempt[o] EXCEPT !.state = s, !.booked = q]]
  OBVIOUS
<1>2. [attempt[o] EXCEPT !.state = s, !.booked = q] \in AttemptRows
  BY BookedRow
<1> QED
  BY <1>1, <1>2

LEMMA MatchedOrder ==
  ASSUME NEW r \in VenueOrders, NEW f \in Nat, NEW p \in Places
  PROVE  [r EXCEPT !.matched = @ + 1, !.final = f, !.venue = p] \in VenueOrders
<1>1. \A x \in VenueOrders, m \in Nat : [x EXCEPT !.matched = m] \in VenueOrders
  BY DEF VenueOrders
<1>2. \A x \in VenueOrders : [x EXCEPT !.final = f] \in VenueOrders
  BY DEF VenueOrders
<1>3. \A x \in VenueOrders : [x EXCEPT !.venue = p] \in VenueOrders
  BY DEF VenueOrders
<1>4. r.matched + 1 \in Nat
  BY DEF VenueOrders
<1> QED
  BY <1>1, <1>2, <1>3, <1>4

LEMMA EnsureTyped ==
  ASSUME target \in [Actions -> WithinTarget], NEW a \in Actions,
         NEW s \in TargetStates, NEW q \in Nat, EnsureTarget(a, s, q)
  PROVE  target' \in [Actions -> WithinTarget]
BY DEF EnsureTarget, WithinTarget, TargetRows

LEMMA SetTyped ==
  ASSUME target \in [Actions -> WithinTarget], NEW a \in Actions,
         NEW s \in TargetStates, SetTarget(a, s)
  PROVE  target' \in [Actions -> WithinTarget]
BY DEF SetTarget, WithinTarget, TargetRows

LEMMA AppendTyped ==
  ASSUME latest \in [Actions -> LatestStates], NEW a \in Actions,
         NEW s \in LatestStates, Append(a, s)
  PROVE  latest' \in [Actions -> LatestStates]
BY DEF Append

LEMMA AttemptTyped ==
  ASSUME attempt \in [Orders -> AttemptRows], NEW o \in Orders,
         NEW s \in AttemptStates, SetAttempt(o, s)
  PROVE  attempt' \in [Orders -> AttemptRows]
BY DEF SetAttempt, AttemptRows

LEMMA ReleaseTyped ==
  ASSUME Typed, NEW a \in Actions, NEW s \in TargetStates \cap LatestStates, Release(a, s)
  PROVE  /\ latest' \in [Actions -> LatestStates]
         /\ target' \in [Actions -> WithinTarget]
         /\ reserved' \in [Actions -> Nat]
BY SetTyped, AppendTyped DEF Release, Typed, TypeOK

OrdersTyped ==
  /\ order \in [Orders -> VenueOrders]
  /\ held \in [Tokens -> Int]
  /\ wallet \in Int

LEMMA PlaceTyped ==
  ASSUME order \in [Orders -> VenueOrders], NEW o \in Orders, NEW p \in Places,
         order' = [order EXCEPT ![o].venue = p]
  PROVE  order' \in [Orders -> VenueOrders]
BY DEF VenueOrders

LEMMA LandsTyped ==
  ASSUME Typed, NEW o \in Orders, NEW k \in FirstMatches(o),
         NEW told \in Nat, Lands(o, k, told)
  PROVE  OrdersTyped'
<1>1. k \in Nat /\ TokenOf[o[1]] \in Tokens
  BY ActionsAssumption DEF FirstMatches, Typed, TypeOK, AttemptRows
<1>2. order' \in [Orders -> VenueOrders]
  BY <1>1 DEF Lands, Typed, TypeOK, VenueOrders, Places
<1>3. held' \in [Tokens -> Int] /\ wallet' \in Int
  BY <1>1 DEF Lands, Traded, Typed, TypeOK
<1> QED
  BY <1>2, <1>3 DEF OrdersTyped

-----------------------------------------------------------------------------
\* Type correctness.

LEMMA InitTyped == Init => Typed
BY ActionsAssumption, BoundsAssumption, EnvironmentAssumption
   DEF Init, Typed, TypeOK, LatestStates, TargetStates, TargetRows, WithinTarget,
       AttemptStates, AttemptRows, Responses, Places, VenueOrders

LEMMA IntakeTyped == ASSUME Typed, Intake PROVE Typed'
<1>1. PICK B \in SUBSET Actions : Observe(B) \/ RecordGap(B)
  BY DEF Intake
<1>2. {"OBSERVED", "ERROR_INTERNAL", "PENDING_LOSSLESS_HANDOFF"} \subseteq LatestStates
  BY DEF LatestStates, TerminalStates
<1> QED
  BY <1>1, <1>2 DEF Observe, RecordGap, Typed, TypeOK, rows, venue

LEMMA PlanTyped == ASSUME Typed, NEW a \in Actions, Plan(a) PROVE Typed'
<1> USE Narrower DEF Typed, TypeOK, rows, venue
<1>1. ASSUME ProcessSourceAction(a) PROVE Typed'
  <2>1. Begun(a) \in Steps
    <3>1. 1 \in Attempts /\ "entry" \in PCs /\ "none" \in Responses
      BY BoundsAssumption DEF PCs, Responses
    <3>2. "NONE" \in Pending("entry")
      BY DEF Pending, LatestStates
    <3> QED
      BY <3>1, <3>2, Started DEF Begun
  <2> QED
    BY <1>1, <2>1 DEF ProcessSourceAction
<1>2. ASSUME ScopeRefuses(a) PROVE Typed'
  <2>1. {"PENDING_METADATA", "ERROR_INTERNAL", "SKIPPED"} \subseteq LatestStates
    BY DEF LatestStates, TerminalStates
  <2>2. PICK s \in LatestStates : Append(a, s)
    BY <1>2, <2>1 DEF ScopeRefuses
  <2> QED
    BY <1>2, <2>2, AppendTyped DEF ScopeRefuses, Done
<1>3. ASSUME ScopeAccepts(a) PROVE Typed'
  <2>1. PICK pc \in {"entry", "late"} : Then(pc, "NONE")
    BY <1>3 DEF ScopeAccepts
  <2>2. pc \in PCs /\ "NONE" \in Pending(pc) /\ "SCOPE_ELIGIBLE" \in LatestStates
    BY DEF PCs, Pending, LatestStates
  <2>3. exec' \in Steps
    BY <1>3, <2>1, <2>2, InStep, Moved DEF ScopeAccepts, Then, PCs
  <2> QED
    BY <1>3, <2>2, <2>3, AppendTyped DEF ScopeAccepts
<1>4. ASSUME LateUnfillable(a) PROVE Typed'
  <2>1. /\ "EXTERNAL_UNFILLABLE" \in TargetStates \cap Pending("append")
        /\ {"late", "append"} \subseteq PCs
    BY DEF TargetStates, LatestStates, TerminalStates, Pending, PCs
  <2>2. exec' \in Steps
    BY <1>4, <2>1, InStep, Moved DEF LateUnfillable, Then
  <2>3. target' \in [Actions -> WithinTarget]
    BY <1>4, <2>1, EnsureTyped, ActionsAssumption DEF LateUnfillable
  <2> QED
    BY <1>4, <2>2, <2>3 DEF LateUnfillable
<1>5. ASSUME RecoverSubmitStarted(a) PROVE Typed'
  BY <1>5, AppendTyped, States DEF RecoverSubmitStarted, Done, UnresolvedStates
<1>6. ASSUME DeferToEarlierAction(a) PROVE Typed'
  <2>1. "PENDING_CAUSAL_ORDER" \in LatestStates
    BY DEF LatestStates
  <2> QED
    BY <1>6, <2>1, AppendTyped DEF DeferToEarlierAction, Done
<1>7. ASSUME SupersedeEarlierOpposites(a) PROVE Typed'
  <2>1. \A b \in Actions : Closed(b) \in TargetStates \cap LatestStates
    BY DEF Closed, TargetStates, LatestStates, TerminalStates
  <2>2. target' \in [Actions -> WithinTarget]
    BY <1>7, <2>1 DEF SupersedeEarlierOpposites, WithinTarget, TargetRows
  <2>3. latest' \in [Actions -> LatestStates]
    BY <1>7, <2>1 DEF SupersedeEarlierOpposites
  <2> QED
    BY <1>7, <2>2, <2>3 DEF SupersedeEarlierOpposites
<1>8. ASSUME CloseUnsellable(a) PROVE Typed'
  <2>1. /\ "EXTERNAL_UNFILLABLE" \in TargetStates
        /\ Unfillable(a) \in Pending("set")
        /\ {"entry", "set"} \subseteq PCs
    BY DEF Unfillable, TargetStates, LatestStates, TerminalStates, Pending, PCs
  <2>2. exec' \in Steps
    BY <1>8, <2>1, InStep, Moved DEF CloseUnsellable, InOrder, Executing, Then
  <2>3. target' \in [Actions -> WithinTarget]
    BY <1>8, <2>1, EnsureTyped, ActionsAssumption DEF CloseUnsellable
  <2> QED
    BY <1>8, <2>2, <2>3 DEF CloseUnsellable
<1>9. ASSUME Refuse(a) PROVE Typed'
  BY <1>9 DEF Refuse, Done
<1>10. ASSUME FailStaleTarget(a) PROVE Typed'
  <2>1. "ERROR_INTERNAL" \in TargetStates \cap LatestStates
    BY States DEF TerminalStates
  <2> QED
    BY <1>10, <2>1, ReleaseTyped DEF FailStaleTarget, Done
<1>11. ASSUME PlanFails(a) PROVE Typed'
  <2>1. CASE \E s \in PlanFailures(a) : Append(a, s) /\ Done /\ UNCHANGED target
    <3>1. PlanFailures(a) \subseteq LatestStates
      BY DEF PlanFailures, LatestStates, RetryableStates, TerminalStates
    <3> QED
      BY <1>11, <2>1, <3>1, AppendTyped DEF PlanFails, Done
  <2>2. CASE /\ LiquidityEvidence(a)
             /\ Then("append", target[a].state)
             /\ UNCHANGED <<latest, target>>
    <3>1. target[a].state \in Pending("append") /\ {"entry", "append"} \subseteq PCs
      BY <2>2, States DEF LiquidityEvidence, RetryableStates, Pending, PCs
    <3>2. Busy("entry", a)
      BY <1>11 DEF PlanFails, Plannable, Sizable, InOrder, Executing
    <3>3. exec' \in Steps
      BY <2>2, <3>1, <3>2, InStep, Moved DEF Then
    <3> QED
      BY <1>11, <2>2, <3>3 DEF PlanFails
  <2> QED
    BY <1>11, <2>1, <2>2 DEF PlanFails
<1>12. ASSUME PlanFirst(a) PROVE Typed'
  <2>1. PICK p \in FirstPlans(a) :
          /\ EnsureTarget(a, p[1], p[2])
          /\ exec' = [exec EXCEPT !.pc = "planned", !.st = p[1], !.q = p[2]]
    BY <1>12 DEF PlanFirst
  <2>2. /\ p[1] \in TargetStates \cap Pending("planned")
        /\ p[2] \in Nat
    BY ActionsAssumption
       DEF FirstPlans, Sellable, Affordable, Orderable, Undersized, Pending,
           TargetStates, LatestStates, TerminalStates, RetryableStates, LiquidityStates
  <2>3. Busy("entry", a) /\ {"entry", "planned"} \subseteq PCs
    BY <1>12 DEF PlanFirst, Plannable, Sizable, InOrder, Executing, PCs
  <2>4. exec' \in Steps
    BY <2>1, <2>2, <2>3, InStep, MovedWith
  <2>5. target' \in [Actions -> WithinTarget]
    BY <2>1, <2>2, EnsureTyped
  <2> QED
    BY <1>12, <2>4, <2>5 DEF PlanFirst
<1>13. ASSUME PlanRemainder(a) PROVE Typed'
  <2>1. PICK p \in RemainderPlans(a) :
          exec' = [exec EXCEPT !.pc = "planned", !.st = p[1], !.q = p[2]]
    BY <1>13 DEF PlanRemainder
  <2>2. p[1] \in Pending("planned") /\ p[2] \in Nat
    <3>1. Remaining(a) \in Nat
      BY DEF Remaining, WithinTarget, TargetRows
    <3> QED
      BY <3>1
         DEF RemainderPlans, Sellable, Affordable, Orderable, Undersized, Pending,
             TargetStates, LatestStates, TerminalStates, RetryableStates,
             LiquidityStates
  <2>3. Busy("entry", a) /\ {"entry", "planned"} \subseteq PCs
    BY <1>13 DEF PlanRemainder, Plannable, Sizable, InOrder, Executing, PCs
  <2>4. exec' \in Steps
    BY <2>1, <2>2, <2>3, InStep, MovedWith
  <2> QED
    BY <1>13, <2>4 DEF PlanRemainder
<1>14. ASSUME RecordPlan(a) PROVE Typed'
  <2>1. exec \in Steps /\ exec.st \in Pending("planned") /\ "PLANNED" \in LatestStates
    BY <1>14, InStep DEF RecordPlan, PCs, LatestStates
  <2>2. exec' \in Steps
    <3>1. /\ exec.st = "READY" => exec.st \in Pending("prepare")
          /\ exec.st # "READY" => exec.st \in Pending("set")
          /\ {"prepare", "set"} \subseteq PCs
      BY <2>1 DEF Pending, PCs
    <3> QED
      BY <1>14, <2>1, <3>1 DEF RecordPlan, Steps, Handlers
  <2> QED
    BY <1>14, <2>1, <2>2, AppendTyped DEF RecordPlan
<1>15. ASSUME PreparationFails(a) PROVE Typed'
  <2>1. {"PENDING_EXTERNAL_RETRY", "ERROR_INTERNAL"} \subseteq Pending("set")
    BY DEF Pending, TargetStates, LatestStates, RetryableStates, TerminalStates
  <2>2. exec' \in Steps
    BY <1>15, <2>1, InStep, Moved, ZenonT(60) DEF PreparationFails, Then, PCs
  <2> QED
    BY <1>15, <2>2 DEF PreparationFails
<1> QED
  BY <1>1, <1>2, <1>3, <1>4, <1>5, <1>6, <1>7, <1>8, <1>9, <1>10, <1>11, <1>12,
     <1>13, <1>14, <1>15 DEF Plan

LEMMA SubmitTyped == ASSUME Typed, NEW a \in Actions, Submit(a) PROVE Typed'
<1> USE Narrower DEF Typed, TypeOK, rows, venue
<1>1. ASSUME NEW n \in Attempts, BeginSubmissionAttempt(a, n) PROVE Typed'
  <2>1. exec \in Steps /\ exec.q \in Nat
    BY <1>1, InStep DEF BeginSubmissionAttempt, PCs, Handlers
  <2>2. /\ "SUBMIT_STARTED" \in TargetStates \cap LatestStates \cap AttemptStates
        /\ "none" \in Responses
        /\ exec.st \in LatestStates \cup {"READY"}
    BY <2>1, States DEF UnresolvedStates, Responses, Handlers
  <2>3. exec' \in Steps
    BY <1>1, <2>1, <2>2 DEF BeginSubmissionAttempt, Steps, Handlers, Pending, PCs
  <2>4. attempt' \in [Orders -> AttemptRows]
    BY <1>1, <2>1, <2>2 DEF BeginSubmissionAttempt, AttemptRows
  <2>5. target' \in [Actions -> WithinTarget]
    BY <1>1, <2>2, SetTyped DEF BeginSubmissionAttempt
  <2>6. latest' \in [Actions -> LatestStates]
    BY <1>1, <2>2, AppendTyped DEF BeginSubmissionAttempt
  <2>7. reserved' \in [Actions -> Nat]
    BY <1>1, <2>1 DEF BeginSubmissionAttempt
  <2> QED
    BY <1>1, <2>3, <2>4, <2>5, <2>6, <2>7 DEF BeginSubmissionAttempt
<1>2. ASSUME PostAnswered(a) PROVE Typed'
  <2>1. exec \in Steps /\ exec.n \in Attempts
    BY <1>2, InStep DEF PostAnswered, PCs, Handlers
  <2>2. PICK k \in FirstMatches(<<a, exec.n>>) :
          \E j \in Tellable(<<a, exec.n>>, k) : Lands(<<a, exec.n>>, k, j)
    BY <1>2 DEF PostAnswered
  <2>3. OrdersTyped'
    BY <2>1, <2>2, LandsTyped DEF Tellable, FirstMatches
  <2>4. PICK s \in {"SUBMITTED_UNRECONCILED", "UNKNOWN_SUBMISSION"} :
          exec' = [exec EXCEPT !.pc = "attempt", !.st = s,
                               !.resp = IF SideOf[a] = "BUY" THEN "due" ELSE "bare"]
    BY <1>2 DEF PostAnswered
  <2>5. /\ "attempt" \in PCs /\ s \in Pending("attempt")
        /\ {"due", "bare"} \subseteq Responses
    BY DEF PCs, Pending, UnresolvedStates, Responses
  <2>6. exec' \in Steps
    BY <2>1, <2>4, <2>5, MovedAnswer
  <2> QED
    BY <1>2, <2>3, <2>6 DEF PostAnswered, OrdersTyped
<1>3. ASSUME PostUnanswered(a) PROVE Typed'
  <2>1. exec \in Steps /\ exec.n \in Attempts
    BY <1>3, InStep DEF PostUnanswered, PCs, Handlers
  <2>2. OrdersTyped'
    <3>1. CASE \E k \in FirstMatches(<<a, exec.n>>) : Lands(<<a, exec.n>>, k, 0)
      BY <2>1, <3>1, LandsTyped
    <3>2. CASE UNCHANGED venue
      BY <3>2 DEF OrdersTyped
    <3>3. CASE /\ order' = [order EXCEPT ![<<a, exec.n>>].venue = "flying"]
               /\ UNCHANGED <<held, wallet>>
      <4>1. <<a, exec.n>> \in Orders /\ "flying" \in Places
        BY <2>1 DEF Places
      <4> QED
        BY <3>3, <4>1, PlaceTyped DEF OrdersTyped
    <3> QED
      BY <1>3, <3>1, <3>2, <3>3 DEF PostUnanswered
  <2>3. /\ "attempt" \in PCs /\ "UNKNOWN_SUBMISSION" \in Pending("attempt")
        /\ "bare" \in Responses
    BY DEF PCs, Pending, UnresolvedStates, Responses
  <2>4. exec' \in Steps
    BY <1>3, <2>1, <2>3, MovedAnswer DEF PostUnanswered
  <2> QED
    BY <1>3, <2>2, <2>4 DEF PostUnanswered, OrdersTyped
<1>4. ASSUME PostRejected(a) PROVE Typed'
  <2>1. exec.n \in Attempts
    BY <1>4, InStep DEF PostRejected, PCs, Handlers
  <2>2. /\ {"NO_FILL", "REJECTED_INTERNAL"} \subseteq AttemptStates
        /\ {"EXTERNAL_UNFILLABLE", "ERROR_INTERNAL"} \subseteq TargetStates \cap LatestStates
    BY States DEF AttemptStates, TerminalStates
  <2>3. PICK s \in AttemptStates, t \in TargetStates \cap LatestStates :
          SetAttempt(<<a, exec.n>>, s) /\ Release(a, t)
    BY <1>4, <2>2 DEF PostRejected
  <2>4. attempt' \in [Orders -> AttemptRows]
    BY <2>1, <2>3, AttemptTyped
  <2> QED
    BY <1>4, <2>3, <2>4, ReleaseTyped DEF PostRejected, Done
<1>5. ASSUME RecordAttempt(a) PROVE Typed'
  <2>1. exec \in Steps /\ exec.st \in UnresolvedStates /\ exec \in Handlers
    BY <1>5, InStep DEF RecordAttempt, PCs, Pending
  <2>2. attempt' \in [Orders -> AttemptRows]
    BY <1>5, <2>1, States, SMTT(40) DEF RecordAttempt, AttemptRows, Handlers
  <2>3. "set" \in PCs /\ exec.st \in Pending("set")
    BY <2>1, States DEF PCs, Pending
  <2>4. exec' \in Steps
    BY <1>5, <2>1, <2>3, Moved DEF RecordAttempt, Then
  <2> QED
    BY <1>5, <2>2, <2>4 DEF RecordAttempt
<1>6. ASSUME RecordTarget(a) PROVE Typed'
  <2>1. exec \in Steps /\ exec.st \in TargetStates \cap LatestStates
    BY <1>6, InStep DEF RecordTarget, PCs, Pending
  <2>2. "append" \in PCs /\ exec.st \in Pending("append")
    BY <2>1 DEF PCs, Pending
  <2>3. exec' \in Steps
    BY <1>6, <2>1, <2>2, Moved DEF RecordTarget, Then
  <2> QED
    BY <1>6, <2>1, <2>3, SetTyped DEF RecordTarget
<1>7. ASSUME RecordTransition(a) PROVE Typed'
  <2>1. exec.st \in LatestStates
    BY <1>7, InStep DEF RecordTransition, PCs, Pending
  <2> QED
    BY <1>7, <2>1, AppendTyped DEF RecordTransition, Done
<1> QED
  BY <1>1, <1>2, <1>3, <1>4, <1>5, <1>6, <1>7 DEF Submit

LEMMA MaintainTyped == ASSUME Typed, Maintain PROVE Typed'
<1> USE Narrower DEF Typed, TypeOK, rows, venue
<1>1. ASSUME NEW o \in Orders, CancelDue(o) PROVE Typed'
  <2>1. o[1] \in Actions /\ o[2] \in Attempts
    OBVIOUS
  <2>2. /\ "cancelled" \in PCs \cap Responses
        /\ "SUBMITTED_UNRECONCILED" \in Pending("cancelled")
    BY DEF PCs, Responses, Pending, UnresolvedStates
  <2>3. exec' \in Steps
    BY <1>1, <2>1, <2>2, Started DEF CancelDue
  <2>4. order' \in [Orders -> VenueOrders]
    BY <1>1 DEF CancelDue, VenueOrders, Places
  <2> QED
    BY <1>1, <2>3, <2>4 DEF CancelDue
<1>2. ASSUME NEW o \in Orders, ReconcileFill(o) PROVE Typed'
  <2> DEFINE a == o[1]
             t == TokenOf[o[1]]
  <2>1. a \in Actions /\ t \in Tokens
    BY ActionsAssumption
  <2>2. PICK q \in Readings(o) \ {0} :
          /\ q <= Remaining(a)
          /\ SideOf[a] = "SELL" => q <= pos[t]
          /\ target' = [target EXCEPT ![a].filled = @ + q, ![a].state = FillState(a, q)]
          /\ Append(a, FillState(a, q))
          /\ attempt' = [attempt EXCEPT
               ![o].state = IF q = Remaining(a) THEN "FILLED" ELSE "PARTIAL_FILLED",
               ![o].booked = q]
          /\ pos' = [pos EXCEPT ![t] = IF SideOf[a] = "BUY" THEN @ + q ELSE @ - q]
    BY <1>2 DEF ReconcileFill
  <2>3. q \in Nat
    BY DEF Readings, VenueOrders
  <2>4. FillState(a, q) \in TargetStates \cap LatestStates
    BY States DEF FillState, TerminalStates, RetryableStates, LiquidityStates
  <2>5. target' \in [Actions -> WithinTarget]
    <3>1. target[a].filled + q <= target[a].qty
      BY <2>1, <2>2, <2>3 DEF Remaining, WithinTarget, TargetRows
    <3>2. [target[a] EXCEPT !.filled = @ + q, !.state = FillState(a, q)] \in WithinTarget
      <4>1. target[a] \in TargetRows /\ FillState(a, q) \in TargetStates
        BY <2>1, <2>4 DEF WithinTarget
      <4> QED
        BY <2>3, <3>1, <4>1, FilledTyped
    <3>3. target' = [target EXCEPT
                       ![a] = [target[a] EXCEPT !.filled = @ + q, !.state = FillState(a, q)]]
      BY <2>1, <2>2
    <3> QED
      BY <2>1, <3>2, <3>3
  <2>6. attempt' \in [Orders -> AttemptRows]
    <3>1. PICK s \in AttemptStates :
            attempt' = [attempt EXCEPT ![o].state = s, ![o].booked = q]
      BY <2>2 DEF AttemptStates
    <3> QED
      BY <2>3, <3>1, BookedTyped
  <2>7. pos' \in [Tokens -> Nat]
    <3>1. SideOf[a] = "BUY" \/ SideOf[a] = "SELL"
      BY <2>1, ActionsAssumption DEF Sides
    <3>2. pos[t] + q \in Nat /\ (SideOf[a] = "SELL" => pos[t] - q \in Nat)
      BY <2>1, <2>2, <2>3
    <3> QED
      BY <2>1, <2>2, <3>1, <3>2
  <2>8. latest' \in [Actions -> LatestStates]
    BY <2>1, <2>2, <2>4, AppendTyped
  <2>9. reserved' \in [Actions -> Nat]
    BY <1>2, <2>1 DEF ReconcileFill
  <2> QED
    BY <1>2, <2>5, <2>6, <2>7, <2>8, <2>9 DEF ReconcileFill
<1>3. ASSUME NEW o \in Orders, ReconcileFinalizedNoFill(o) \/ ReconcileCanceled(o)
      PROVE  Typed'
  <2>1. /\ "NO_FILL" \in AttemptStates
        /\ {"EXTERNAL_UNFILLABLE", "PENDING_CONFIRMED_ZERO_FILL"}
             \subseteq TargetStates \cap LatestStates
    BY States DEF AttemptStates, TerminalStates, RetryableStates, LiquidityStates
  <2>2. PICK s \in TargetStates \cap LatestStates :
          SetAttempt(o, "NO_FILL") /\ Release(o[1], s)
    BY <1>3, <2>1 DEF ReconcileFinalizedNoFill, ReconcileCanceled
  <2>3. attempt' \in [Orders -> AttemptRows]
    BY <2>1, <2>2, AttemptTyped
  <2>4. o[1] \in Actions
    OBVIOUS
  <2> QED
    BY <1>3, <2>2, <2>3, <2>4, ReleaseTyped DEF ReconcileFinalizedNoFill, ReconcileCanceled
<1>4. ASSUME NEW o \in Orders, ReconcileAbsent(o) PROVE Typed'
  <2>1. /\ "UNKNOWN_SUBMISSION" \in TargetStates \cap LatestStates \cap AttemptStates
        /\ o[1] \in Actions
    BY States DEF UnresolvedStates
  <2> QED
    BY <1>4, <2>1, SetTyped, AppendTyped, AttemptTyped DEF ReconcileAbsent
<1>5. ASSUME NEW a \in Actions, RecordCancellation(a) PROVE Typed'
  <2>1. exec \in Steps /\ exec.st \in UnresolvedStates /\ exec \in Handlers
    BY <1>5, InStep DEF RecordCancellation, PCs, Pending
  <2>2. attempt' \in [Orders -> AttemptRows]
    BY <1>5, <2>1, States DEF RecordCancellation, AttemptRows, Handlers
  <2>3. "append" \in PCs /\ "ACTIVE_CANCEL_COMPLETED" \in Pending("append")
    BY DEF PCs, Pending, LatestStates
  <2>4. exec' \in Steps
    BY <1>5, <2>1, <2>3, Moved DEF RecordCancellation, Then
  <2> QED
    BY <1>5, <2>2, <2>4 DEF RecordCancellation
<1>6. ASSUME NEW a \in Actions, CloseRetry(a) PROVE Typed'
  <2>1. /\ Unfillable(a) \in TargetStates /\ Unfillable(a) \in Pending("append")
        /\ "append" \in PCs /\ "none" \in Responses /\ 1 \in Attempts
    BY BoundsAssumption, States DEF Unfillable, TerminalStates, Pending, PCs, Responses
  <2>2. exec' \in Steps
    BY <1>6, <2>1, Started DEF CloseRetry
  <2> QED
    BY <1>6, <2>1, <2>2, SetTyped DEF CloseRetry
<1> QED
  BY <1>1, <1>2, <1>3, <1>4, <1>5, <1>6 DEF Maintain, Reconcile

LEMMA VenueTyped == ASSUME Typed, Venue PROVE Typed'
<1> USE Narrower DEF Typed, TypeOK, rows
<1>1. ASSUME NEW o \in Orders, Match(o) PROVE Typed'
  <2>1. order' \in [Orders -> VenueOrders]
    <3>1. PICK p \in Places, f \in Nat :
            order' = [order EXCEPT ![o].matched = @ + 1, ![o].final = f, ![o].venue = p]
      <4>1. {"open", "closed"} \subseteq Places /\ order[o].venue = "open"
        BY <1>1 DEF Match, Places
      <4>2. order[o].final \in Nat /\ order[o].final + 1 \in Nat
        BY DEF VenueOrders
      <4> QED
        BY <1>1, <4>1, <4>2 DEF Match
    <3>2. [order[o] EXCEPT !.matched = @ + 1, !.final = f, !.venue = p] \in VenueOrders
      BY MatchedOrder
    <3>3. order' = [order EXCEPT
                      ![o] = [order[o] EXCEPT !.matched = @ + 1, !.final = f, !.venue = p]]
      BY <3>1
    <3> QED
      BY <3>2, <3>3
  <2>2. held' \in [Tokens -> Int] /\ wallet' \in Int
    BY <1>1, ActionsAssumption DEF Match, Traded
  <2> QED
    BY <1>1, <2>1, <2>2 DEF Match
<1>2. ASSUME NEW o \in Orders, Withdraw(o) PROVE Typed'
  <2>1. order' \in [Orders -> VenueOrders]
    BY <1>2 DEF Withdraw, VenueOrders, Places
  <2> QED
    BY <1>2, <2>1 DEF Withdraw
<1>3. ASSUME NEW o \in Orders, Arrive(o) PROVE Typed'
  <2>1. OrdersTyped'
    <3>1. CASE \E k \in FirstMatches(o) : Lands(o, k, 0)
      BY <3>1, LandsTyped
    <3>2. CASE order' = [order EXCEPT ![o].venue = "none"] /\ UNCHANGED <<held, wallet>>
      BY <3>2, PlaceTyped DEF OrdersTyped, Places
    <3> QED
      BY <1>3, <3>1, <3>2 DEF Arrive
  <2> QED
    BY <1>3, <2>1 DEF Arrive, OrdersTyped
<1>4. ASSUME NEW o \in Orders, Finalize(o) PROVE Typed'
  <2>1. order' \in [Orders -> VenueOrders]
    BY <1>4 DEF Finalize, VenueOrders
  <2> QED
    BY <1>4, <2>1 DEF Finalize
<1> QED
  BY <1>1, <1>2, <1>3, <1>4 DEF Venue

LEMMA StepTyped == ASSUME Typed, [Next]_vars PROVE Typed'
<1>1. CASE Intake
  BY <1>1, IntakeTyped
<1>2. CASE \E a \in Actions : Plan(a) \/ Submit(a)
  BY <1>2, PlanTyped, SubmitTyped
<1>3. CASE Maintain
  BY <1>3, MaintainTyped
<1>4. CASE Venue
  BY <1>4, VenueTyped
<1>5. CASE Crash
  BY <1>5, BoundsAssumption DEF Crash, Done, Typed, TypeOK, rows, venue
<1>6. CASE UNCHANGED vars
  BY <1>6 DEF vars, rows, venue, Typed, TypeOK
<1> QED
  BY <1>1, <1>2, <1>3, <1>4, <1>5, <1>6 DEF Next

\* Every row the store writes, every step a handler may be left at and every
\* quantity keep their type: no status outside the schema is ever written, and
\* a position never goes below zero.
THEOREM TypeCorrect == Spec => []TypeOK
<1>1. Init => Typed
  BY InitTyped
<1>2. Typed /\ [Next]_vars => Typed'
  BY StepTyped
<1>3. Typed => TypeOK
  BY DEF Typed
<1> QED
  BY <1>1, <1>2, <1>3, PTL DEF Spec

-----------------------------------------------------------------------------
\* Reservations.

\* Between a POST and the record of its outcome, and while a cancellation is
\* recorded, the attempt the handler works on is still unresolved.
Working ==
  exec.pc \in {"post", "attempt", "cancelled"}
    => attempt[<<exec.act, exec.n>>].state \in UnresolvedStates

Backed == Typed /\ ReservationBacksAttempt /\ Working

\* The attempt states and the requested quantities decide the invariant.
Sees(o, s) ==
  /\ \A p \in Orders : p # o => attempt'[p].state = attempt[p].state
  /\ attempt'[o].state = s
  /\ \A p \in Orders : attempt'[p].req = attempt[p].req

LEMMA SetAttemptSees ==
  ASSUME Typed, NEW o \in Orders, NEW s \in AttemptStates, SetAttempt(o, s)
  PROVE  Sees(o, s)
BY DEF SetAttempt, Sees, Typed, TypeOK, AttemptRows

LEMMA NothingSeen ==
  ASSUME ReservationBacksAttempt, UNCHANGED <<attempt, reserved>>
  PROVE  ReservationBacksAttempt'
BY DEF ReservationBacksAttempt, Unresolved

\* A resolved attempt frees the reservation it was the reason for.
LEMMA Resolves ==
  ASSUME Typed, ReservationBacksAttempt,
         NEW o \in Orders, NEW s \in AttemptStates \ UnresolvedStates,
         attempt[o].state \in UnresolvedStates,
         Sees(o, s),
         reserved' = [reserved EXCEPT ![o[1]] = 0]
  PROVE  ReservationBacksAttempt'
<1> SUFFICES ASSUME NEW a \in Actions
             PROVE  /\ \A m, n \in Attempts :
                         (/\ attempt'[<<a, m>>].state \in UnresolvedStates
                          /\ attempt'[<<a, n>>].state \in UnresolvedStates) => m = n
                    /\ reserved'[a] > 0 => Unresolved(a)'
                    /\ \A n \in Attempts : attempt'[<<a, n>>].state \in UnresolvedStates
                         => reserved'[a] = attempt'[<<a, n>>].req /\ reserved'[a] > 0
  BY DEF ReservationBacksAttempt
<1>1. \A n \in Attempts : <<a, n>> \in Orders
  OBVIOUS
<1>2. CASE a = o[1]
  <2>1. \A n \in Attempts : attempt'[<<a, n>>].state \notin UnresolvedStates
    <3>1. PICK m \in Attempts : o = <<a, m>>
      BY <1>2
    <3> QED
      BY <3>1 DEF ReservationBacksAttempt, Sees
  <2>2. reserved'[a] = 0
    BY <1>2 DEF Typed, TypeOK
  <2> QED
    BY <2>1, <2>2
<1>3. CASE a # o[1]
  <2>1. reserved'[a] = reserved[a]
    BY <1>3 DEF Typed, TypeOK
  <2>2. \A n \in Attempts : /\ attempt'[<<a, n>>].state = attempt[<<a, n>>].state
                            /\ attempt'[<<a, n>>].req = attempt[<<a, n>>].req
    BY <1>3 DEF Sees
  <2> QED
    BY <2>1, <2>2 DEF ReservationBacksAttempt, Unresolved
<1> QED
  BY <1>2, <1>3

\* An attempt that stays unresolved stays backed.
LEMMA StaysUnresolved ==
  ASSUME ReservationBacksAttempt,
         NEW o \in Orders, NEW s \in UnresolvedStates,
         attempt[o].state \in UnresolvedStates,
         Sees(o, s), UNCHANGED reserved
  PROVE  ReservationBacksAttempt'
<1>1. \A p \in Orders : /\ attempt'[p].state \in UnresolvedStates
                            <=> attempt[p].state \in UnresolvedStates
                       /\ attempt'[p].req = attempt[p].req
  BY DEF Sees
<1> QED
  BY <1>1 DEF ReservationBacksAttempt, Unresolved

LEMMA InitBacked == Init => Backed
<1> SUFFICES ASSUME Init PROVE Backed
  OBVIOUS
<1>1. ReservationBacksAttempt
  BY DEF Init, ReservationBacksAttempt, UnresolvedStates
<1>2. Working
  BY DEF Init, Working, Idle
<1> QED
  BY <1>1, <1>2, InitTyped DEF Backed

\* No step of the plan is one of a submission or a cancellation.
LEMMA PlanSteps ==
  ASSUME Typed, NEW a \in Actions, Plan(a)
  PROVE  exec'.pc \notin {"post", "attempt", "cancelled"}
<1>1. CASE ScopeRefuses(a) \/ RecoverSubmitStarted(a) \/ DeferToEarlierAction(a)
             \/ Refuse(a) \/ FailStaleTarget(a)
  BY <1>1 DEF ScopeRefuses, RecoverSubmitStarted, DeferToEarlierAction, Refuse,
              FailStaleTarget, Done, Idle
<1>2. CASE ProcessSourceAction(a)
  BY <1>2 DEF ProcessSourceAction, Begun, Handler
<1>3. CASE SupersedeEarlierOpposites(a)
  BY <1>3 DEF SupersedeEarlierOpposites, Executing, Busy, At
<1>4. CASE ScopeAccepts(a) \/ LateUnfillable(a) \/ CloseUnsellable(a) \/ PlanFails(a)
             \/ PlanFirst(a) \/ PlanRemainder(a) \/ RecordPlan(a) \/ PreparationFails(a)
  <2>1. exec \in Handlers
    BY <1>4, InStep, Narrower
       DEF ScopeAccepts, LateUnfillable, CloseUnsellable, PlanFails, PlanFirst,
           PlanRemainder, RecordPlan, PreparationFails, Plannable, Sizable, InOrder,
           Executing, PCs
  <2>2. CASE PlanFails(a)
    <3>1. exec' = Idle \/ exec' = [exec EXCEPT !.pc = "append", !.st = target[a].state]
      BY <2>2 DEF PlanFails, Then, Done
    <3>2. CASE exec' = Idle
      BY <3>2 DEF Idle
    <3>3. CASE exec' = [exec EXCEPT !.pc = "append", !.st = target[a].state]
      BY <2>1, <3>3 DEF Handlers
    <3> QED
      BY <3>1, <3>2, <3>3
  <2>3. CASE ScopeAccepts(a) \/ LateUnfillable(a) \/ CloseUnsellable(a)
               \/ PreparationFails(a)
    BY <2>1, <2>3
       DEF ScopeAccepts, LateUnfillable, CloseUnsellable, PreparationFails, Then, Handlers
  <2>4. CASE PlanFirst(a) \/ PlanRemainder(a) \/ RecordPlan(a)
    BY <2>1, <2>4 DEF PlanFirst, PlanRemainder, RecordPlan, Handlers
  <2> QED
    BY <1>4, <2>2, <2>3, <2>4
<1> QED
  BY <1>1, <1>2, <1>3, <1>4 DEF Plan

LEMMA PlanBacked ==
  ASSUME Backed, NEW a \in Actions, Plan(a)
  PROVE  ReservationBacksAttempt' /\ Working'
<1> USE DEF Backed
<1>1. CASE FailStaleTarget(a)
  <2>1. reserved[a] = 0 /\ UNCHANGED attempt /\ reserved' = [reserved EXCEPT ![a] = 0]
    <3>1. ~SideEffect(a)
      BY <1>1 DEF FailStaleTarget, Sizable
    <3>2. reserved[a] \in Nat /\ ~(reserved[a] > 0)
      BY <3>1 DEF SideEffect, Typed, TypeOK
    <3> QED
      BY <1>1, <3>2 DEF FailStaleTarget, Release
  <2>2. UNCHANGED reserved
    BY <2>1 DEF Typed, TypeOK
  <2>3. exec' = Idle
    BY <1>1 DEF FailStaleTarget, Done
  <2> QED
    BY <2>1, <2>2, <2>3, NothingSeen DEF Working, Idle
<1>2. CASE ~FailStaleTarget(a)
  <2>1. UNCHANGED <<attempt, reserved>>
    BY <1>2 DEF Plan, ProcessSourceAction, ScopeRefuses, ScopeAccepts, LateUnfillable,
         RecoverSubmitStarted, DeferToEarlierAction, SupersedeEarlierOpposites,
         CloseUnsellable, Refuse, PlanFails, PlanFirst, PlanRemainder, RecordPlan,
         PreparationFails, rows, venue
  <2>2. exec'.pc \notin {"post", "attempt", "cancelled"}
    BY PlanSteps
  <2> QED
    BY <2>1, <2>2, NothingSeen DEF Working
<1> QED
  BY <1>1, <1>2

LEMMA SubmitBacked ==
  ASSUME Backed, NEW a \in Actions, Submit(a)
  PROVE  ReservationBacksAttempt' /\ Working'
<1> DEFINE o == <<a, exec.n>>
<1>1. Typed /\ ReservationBacksAttempt /\ Working
  BY DEF Backed
<1>2. ASSUME NEW n \in Attempts, BeginSubmissionAttempt(a, n)
      PROVE  ReservationBacksAttempt' /\ Working'
  <2>1. exec \in Handlers /\ exec.act = a /\ exec.q \in Nat /\ exec.q > 0
    BY <1>1, <1>2, InStep, Narrower DEF BeginSubmissionAttempt, PCs, Handlers
  <2>2. \A m \in Attempts : attempt[<<a, m>>].state \notin UnresolvedStates
    BY <1>2 DEF BeginSubmissionAttempt, SideEffect, Unresolved
  <2>3. /\ \A p \in Orders : p # <<a, n>> => attempt'[p] = attempt[p]
        /\ attempt'[<<a, n>>].state = "SUBMIT_STARTED"
        /\ attempt'[<<a, n>>].req = exec.q
    BY <1>1, <1>2 DEF BeginSubmissionAttempt, Typed, TypeOK
  <2>4. /\ reserved'[a] = exec.q
        /\ \A b \in Actions : b # a => reserved'[b] = reserved[b]
    BY <1>1, <1>2 DEF BeginSubmissionAttempt, Typed, TypeOK
  <2>5. ReservationBacksAttempt'
    <3> SUFFICES ASSUME NEW b \in Actions
                 PROVE  /\ \A k, m \in Attempts :
                             (/\ attempt'[<<b, k>>].state \in UnresolvedStates
                              /\ attempt'[<<b, m>>].state \in UnresolvedStates) => k = m
                        /\ reserved'[b] > 0 => Unresolved(b)'
                        /\ \A m \in Attempts :
                             attempt'[<<b, m>>].state \in UnresolvedStates
                               => reserved'[b] = attempt'[<<b, m>>].req /\ reserved'[b] > 0
      BY DEF ReservationBacksAttempt
    <3>1. CASE b = a
      <4>1. \A m \in Attempts : m # n => attempt'[<<a, m>>].state \notin UnresolvedStates
        BY <2>2, <2>3
      <4>2. attempt'[<<a, n>>].state \in UnresolvedStates
        BY <2>3 DEF UnresolvedStates
      <4> QED
        BY <2>1, <2>3, <2>4, <3>1, <4>1, <4>2 DEF Unresolved
    <3>2. CASE b # a
      <4>1. \A m \in Attempts : attempt'[<<b, m>>] = attempt[<<b, m>>]
        BY <2>3, <3>2
      <4> QED
        BY <1>1, <2>4, <3>2, <4>1 DEF ReservationBacksAttempt, Unresolved
    <3> QED
      BY <3>1, <3>2
  <2>6. Working'
    <3>1. exec' = [exec EXCEPT !.pc = "post", !.n = n]
      BY <1>2 DEF BeginSubmissionAttempt
    <3>2. exec'.act = a /\ exec'.n = n
      BY <2>1, <3>1 DEF Handlers
    <3> QED
      BY <2>3, <3>2 DEF Working, UnresolvedStates
  <2> QED
    BY <2>5, <2>6
<1>3. CASE PostAnswered(a) \/ PostUnanswered(a)
  <2>1. UNCHANGED <<attempt, reserved>>
    BY <1>3 DEF PostAnswered, PostUnanswered, rows
  <2>2. exec \in Handlers /\ exec.pc = "post"
    BY <1>1, <1>3, InStep, Narrower DEF PostAnswered, PostUnanswered, PCs
  <2>3. exec'.act = exec.act /\ exec'.n = exec.n
    BY <1>3, <2>2 DEF PostAnswered, PostUnanswered, Handlers
  <2>4. Working'
    BY <1>1, <2>1, <2>2, <2>3 DEF Working
  <2> QED
    BY <1>1, <2>1, <2>4, NothingSeen
<1>4. CASE PostRejected(a)
  <2>1. exec \in Handlers /\ exec.pc = "post" /\ exec.act = a /\ exec.n \in Attempts
    BY <1>1, <1>4, InStep, Narrower DEF PostRejected, PCs, Handlers
  <2>2. o \in Orders /\ attempt[o].state \in UnresolvedStates
    BY <1>1, <2>1 DEF Working
  <2>3. PICK s \in {"NO_FILL", "REJECTED_INTERNAL"} : SetAttempt(o, s)
    BY <1>4 DEF PostRejected
  <2>4. s \in AttemptStates \ UnresolvedStates
    BY DEF AttemptStates, UnresolvedStates
  <2>5. reserved' = [reserved EXCEPT ![o[1]] = 0] /\ exec' = Idle
    BY <1>4 DEF PostRejected, Release, Done
  <2>6. ReservationBacksAttempt'
    BY <1>1, <2>2, <2>3, <2>4, <2>5, SetAttemptSees, Resolves
  <2> QED
    BY <2>5, <2>6 DEF Working, Idle
<1>5. CASE RecordAttempt(a)
  <2>1. /\ exec \in Handlers /\ exec.pc = "attempt" /\ exec.act = a /\ exec.n \in Attempts
        /\ exec.st \in UnresolvedStates
    BY <1>1, <1>5, InStep, Narrower DEF RecordAttempt, PCs, Handlers, Pending
  <2>2. o \in Orders /\ attempt[o].state \in UnresolvedStates
    BY <1>1, <2>1 DEF Working
  <2>3. Sees(o, exec.st)
    BY <1>1, <1>5, <2>2 DEF RecordAttempt, Sees, Typed, TypeOK, AttemptRows
  <2>4. ReservationBacksAttempt'
    BY <1>1, <1>5, <2>1, <2>2, <2>3, StaysUnresolved DEF RecordAttempt
  <2>5. exec'.pc = "set"
    BY <1>5, <2>1 DEF RecordAttempt, Then, Handlers
  <2> QED
    BY <2>4, <2>5 DEF Working
<1>6. CASE RecordTarget(a) \/ RecordTransition(a)
  <2>1. UNCHANGED <<attempt, reserved>>
    BY <1>6 DEF RecordTarget, RecordTransition
  <2>2. exec'.pc \in {"append", "idle"}
    <3>1. CASE RecordTarget(a)
      BY <1>1, <3>1, InStep, Narrower DEF RecordTarget, Then, PCs, Handlers
    <3>2. CASE RecordTransition(a)
      BY <3>2 DEF RecordTransition, Done, Idle
    <3> QED
      BY <1>6, <3>1, <3>2
  <2> QED
    BY <1>1, <2>1, <2>2, NothingSeen DEF Working
<1> QED
  BY <1>2, <1>3, <1>4, <1>5, <1>6 DEF Submit

LEMMA MaintainBacked ==
  ASSUME Backed, Maintain
  PROVE  ReservationBacksAttempt' /\ Working'
<1>1. Typed /\ ReservationBacksAttempt /\ Working
  BY DEF Backed
<1>2. ASSUME NEW o \in Orders, CancelDue(o)
      PROVE  ReservationBacksAttempt' /\ Working'
  <2>1. UNCHANGED <<attempt, reserved>>
    BY <1>2 DEF CancelDue, rows
  <2>2. attempt[o].state \in UnresolvedStates
    BY <1>2 DEF CancelDue, Listed
  <2>3. <<exec'.act, exec'.n>> = o
    BY <1>2 DEF CancelDue, Handler
  <2> QED
    BY <1>1, <2>1, <2>2, <2>3, NothingSeen DEF Working
<1>3. ASSUME NEW o \in Orders, Reconcile(o)
      PROVE  ReservationBacksAttempt' /\ Working'
  <2>1. attempt[o].state \in UnresolvedStates /\ exec.pc = "idle" /\ UNCHANGED exec
    BY <1>3 DEF Reconcile, ReconcileFill, ReconcileFinalizedNoFill, ReconcileCanceled,
                ReconcileAbsent, Reconcilable, Listed, At
  <2>2. Working'
    BY <2>1 DEF Working
  <2>3. CASE ReconcileFill(o)
    <3>1. PICK s \in {"FILLED", "PARTIAL_FILLED"}, q \in Readings(o) :
            attempt' = [attempt EXCEPT ![o].state = s, ![o].booked = q]
      BY <2>3 DEF ReconcileFill
    <3>2. s \in AttemptStates \ UnresolvedStates
      BY DEF AttemptStates, UnresolvedStates
    <3>3. Sees(o, s)
      BY <1>1, <3>1 DEF Sees, Typed, TypeOK, AttemptRows
    <3>4. reserved' = [reserved EXCEPT ![o[1]] = 0]
      BY <2>3 DEF ReconcileFill
    <3> QED
      BY <1>1, <2>1, <2>2, <3>2, <3>3, <3>4, Resolves
  <2>4. CASE ReconcileFinalizedNoFill(o) \/ ReconcileCanceled(o)
    <3>1. SetAttempt(o, "NO_FILL") /\ reserved' = [reserved EXCEPT ![o[1]] = 0]
      BY <2>4 DEF ReconcileFinalizedNoFill, ReconcileCanceled, Release
    <3>2. "NO_FILL" \in AttemptStates \ UnresolvedStates
      BY DEF AttemptStates, UnresolvedStates
    <3> QED
      BY <1>1, <2>1, <2>2, <3>1, <3>2, SetAttemptSees, Resolves
  <2>5. CASE ReconcileAbsent(o)
    <3>1. "UNKNOWN_SUBMISSION" \in UnresolvedStates \cap AttemptStates
      BY DEF AttemptStates, UnresolvedStates
    <3> QED
      BY <1>1, <2>1, <2>2, <2>5, <3>1, SetAttemptSees, StaysUnresolved DEF ReconcileAbsent
  <2> QED
    BY <1>3, <2>3, <2>4, <2>5 DEF Reconcile
<1>4. ASSUME NEW a \in Actions, RecordCancellation(a)
      PROVE  ReservationBacksAttempt' /\ Working'
  <2> DEFINE o == <<a, exec.n>>
  <2>1. /\ exec \in Handlers /\ exec.pc = "cancelled" /\ exec.act = a
        /\ exec.n \in Attempts /\ exec.st \in UnresolvedStates
    BY <1>1, <1>4, InStep, Narrower DEF RecordCancellation, PCs, Handlers, Pending
  <2>2. o \in Orders /\ attempt[o].state \in UnresolvedStates
    BY <1>1, <2>1 DEF Working
  <2>3. Sees(o, exec.st)
    BY <1>1, <1>4, <2>2 DEF RecordCancellation, Sees, Typed, TypeOK, AttemptRows
  <2>4. exec'.pc = "append"
    BY <1>4, <2>1 DEF RecordCancellation, Then, Handlers
  <2> QED
    BY <1>1, <1>4, <2>1, <2>2, <2>3, <2>4, StaysUnresolved DEF RecordCancellation, Working
<1>5. ASSUME NEW a \in Actions, CloseRetry(a)
      PROVE  ReservationBacksAttempt' /\ Working'
  <2>1. UNCHANGED <<attempt, reserved>> /\ exec'.pc = "append"
    BY <1>5 DEF CloseRetry, Handler
  <2> QED
    BY <1>1, <2>1, NothingSeen DEF Working
<1> QED
  BY <1>2, <1>3, <1>4, <1>5 DEF Maintain

LEMMA StepBacked == ASSUME Backed, [Next]_vars PROVE Backed'
<1>1. Typed' /\ Typed /\ ReservationBacksAttempt /\ Working
  BY StepTyped DEF Backed
<1>2. CASE Intake \/ Venue \/ UNCHANGED vars
  <2>1. UNCHANGED <<attempt, reserved, exec>>
    BY <1>2 DEF Intake, Observe, RecordGap, Venue, Match, Withdraw, Arrive, Finalize,
                vars, rows, venue
  <2> QED
    BY <1>1, <2>1, NothingSeen DEF Working, Backed
<1>3. CASE \E a \in Actions : Plan(a) \/ Submit(a)
  BY <1>1, <1>3, PlanBacked, SubmitBacked DEF Backed
<1>4. CASE Maintain
  BY <1>1, <1>4, MaintainBacked DEF Backed
<1>5. CASE Crash
  <2>1. UNCHANGED <<attempt, reserved>> /\ exec' = Idle
    BY <1>5 DEF Crash, Done, rows
  <2> QED
    BY <1>1, <2>1, NothingSeen DEF Working, Backed, Idle
<1> QED
  BY <1>2, <1>3, <1>4, <1>5 DEF Next

\* Cash or inventory is reserved exactly for what is in flight, for any number
\* of actions, attempts and crashes.
THEOREM ReservationsAreBacked == Spec => []ReservationBacksAttempt
<1>1. Init => Backed
  BY InitBacked
<1>2. Backed /\ [Next]_vars => Backed'
  BY StepBacked
<1>3. Backed => ReservationBacksAttempt
  BY DEF Backed
<1> QED
  BY <1>1, <1>2, <1>3, PTL DEF Spec
=============================================================================
