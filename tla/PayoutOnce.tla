---------------------------- MODULE PayoutOnce ----------------------------
(***************************************************************************)
(* What redeeming one resolved condition of the shared wallet promises.    *)
(* The condition pays the wallet some collateral; every sleeve books its   *)
(* own part of it into its ledger at most once, and together the sleeves   *)
(* never book more than was paid.                                          *)
(***************************************************************************)
EXTENDS Naturals, Functions

CONSTANT Profiles

VARIABLES
    paid,    \* collateral the condition has paid the wallet so far
    booked   \* what each sleeve's ledger has credited for it

vars == <<paid, booked>>

Init ==
    /\ paid = 0
    /\ booked = [p \in Profiles |-> 0]

\* The chain pays out: a redemption confirms or the platform settles.
Pay ==
    /\ paid' \in Nat
    /\ paid' > paid
    /\ UNCHANGED booked

\* One sleeve credits its part, from what was paid and nobody has booked.
Book(p) == \E n \in 1 .. paid :
    /\ booked[p] = 0
    /\ booked' = [booked EXCEPT ![p] = n]
    /\ SumFunction(booked') <= paid
    /\ UNCHANGED paid

Next == Pay \/ \E p \in Profiles : Book(p)

Spec == Init /\ [][Next]_vars
===========================================================================
