------------------------ MODULE MCSharedRedemption ------------------------
(***************************************************************************)
(* Instances of SharedRedemption for TLC: two sleeves and one condition.   *)
(***************************************************************************)
EXTENDS SharedRedemption

TwoSleeves == {1, 2}

One(o) == [Nothing EXCEPT ![o] = 1]

\* Held by the first sleeve alone, or by the two on the same side.
Mixed == {<<One("primary"), Nothing>>, <<One("primary"), One("primary")>>}

\* Every owner holds both outcomes, and one sale leaves it both, so that each
\* has a part of any payout.
Pair == [o \in Outcomes |-> 2]
Level == {<<Pair, Pair>>}

\* The sleeves bet against each other: one of them is owed nothing.
Opposed == {<<One("primary"), One("secondary")>>}
=============================================================================
