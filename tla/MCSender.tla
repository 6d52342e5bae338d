------------------------------- MODULE MCSender -------------------------------
(***************************************************************************)
(* Model of RelinowSender for TLC: two slots, four ids, so that ids wrap   *)
(* while packets are pending, and timers a few milliseconds long.          *)
(***************************************************************************)
EXTENDS RelinowSender
===============================================================================
