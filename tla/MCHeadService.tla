--------------------------- MODULE MCHeadService ---------------------------
(***************************************************************************)
(* Instances of HeadService for TLC: one or two blocks with an action of   *)
(* the followed wallet, and which processes the service manager restarts.  *)
(***************************************************************************)
EXTENDS HeadService

\* Block 1 stays empty, so that a first watermark may precede every action,
\* and the last block too, so that the actions may all be left behind.
OneAction == {2}
TwoActions == {2, 3}

BothRestart == {"primary", "standby"}
=============================================================================
