------------------------------ MODULE MCDatagram ------------------------------
(***************************************************************************)
(* Model of RelinowDatagram for TLC: more frames than there are ids, so    *)
(* that the channel goes round the wrap.                                   *)
(***************************************************************************)
EXTENDS RelinowDatagram
===============================================================================
