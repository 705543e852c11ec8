--------------------------- MODULE MCRepairWindow ---------------------------
(***************************************************************************)
(* Instances of RepairWindow for TLC: a gap that a restart closed, and the *)
(* actions of the same token that follow it.                               *)
(***************************************************************************)
EXTENDS RepairWindow, TLC

CONSTANTS g, s1, b1, T1

OneToken == {T1}

\* A BUY in the gap that what is held may cover, then a SELL and a BUY.
Late == {g, s1, b1}
LateToken == [a \in Late |-> T1]
LateSide == (g :> "BUY" @@ s1 :> "SELL" @@ b1 :> "BUY")
LateRank == (g :> 1 @@ s1 :> 2 @@ b1 :> 3)
LateWant == (g :> 2 @@ s1 :> 2 @@ b1 :> 2)
LateGap == {g}
LateInventory == [t \in OneToken |-> 2]
=============================================================================
