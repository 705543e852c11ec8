--------------------------- MODULE MCOrderLedger ---------------------------
(***************************************************************************)
(* Instances of OrderLedger for TLC.  Every instance is a short causal     *)
(* history over one or two tokens; the configurations choose one, the      *)
(* bounds and how the exchange and the chain behave.                       *)
(***************************************************************************)
EXTENDS OrderLedger, TLC

CONSTANTS b1, s1, b2, T1, T2

TwoTokens == {T1, T2}
Position(t, q) == [u \in TwoTokens |-> IF u = t THEN q ELSE 0]
NoInventory == Position(T1, 0)
OneShare == Position(T1, 1)
ThreeShares == Position(T1, 3)

SideOfActions == (b1 :> "BUY" @@ s1 :> "SELL" @@ b2 :> "BUY")

\* A BUY and a SELL of what it bought.
RoundTrip == {b1, s1}
RoundTripToken == [a \in RoundTrip |-> T1]
RoundTripSide == [a \in RoundTrip |-> SideOfActions[a]]
RoundTripRank == (b1 :> 1 @@ s1 :> 2)
RoundTripWant == [a \in RoundTrip |-> 2]

\* A SELL of shares already held, overtaken by a BUY of the same token, with
\* quantities of one, or ones that can be filled in parts.
Reversal == {s1, b2}
ReversalToken == [a \in Reversal |-> T1]
ReversalSide == [a \in Reversal |-> SideOfActions[a]]
ReversalRank == (s1 :> 1 @@ b2 :> 2)
ReversalWant == [a \in Reversal |-> 1]
ReversalInParts == (s1 :> 3 @@ b2 :> 2)

\* The round trip, and a BUY of another token that wants the same collateral.
Shared == {b1, s1, b2}
SharedToken == (b1 :> T1 @@ s1 :> T1 @@ b2 :> T2)
SharedSide == SideOfActions
SharedRank == (b1 :> 1 @@ s1 :> 3 @@ b2 :> 2)
SharedWant == [a \in Shared |-> 1]
=============================================================================
