------------------------ MODULE MCReleaseTransaction ------------------------
(***************************************************************************)
(* An instance of ReleaseTransaction for TLC: a profile's ledger and the   *)
(* coordinator's database, so that a run may stop between the two.         *)
(***************************************************************************)
EXTENDS ReleaseTransaction

CONSTANTS ledger, coordinator

TwoDatabases == {ledger, coordinator}
=============================================================================
