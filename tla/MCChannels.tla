------------------------------ MODULE MCChannels ------------------------------
(***************************************************************************)
(* Model of RelinowChannels for TLC: three entries of the channel table,   *)
(* the middle one in another mode.                                         *)
(***************************************************************************)
EXTENDS RelinowChannels
===============================================================================
