----------------------------- MODULE MCHeartbeat -----------------------------
(***************************************************************************)
(* Model of RelinowHeartbeat for TLC: the heartbeat off, on, and on with a *)
(* limit of 0, of 1 and of 2 missed PONGs.                                 *)
(***************************************************************************)
EXTENDS RelinowHeartbeat
=============================================================================
