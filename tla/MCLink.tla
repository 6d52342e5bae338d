-------------------------------- MODULE MCLink --------------------------------
(***************************************************************************)
(* Model of RelinowLink for TLC: a handful of packets in messages of one   *)
(* or two frames, two pending slots, one retransmission each.              *)
(***************************************************************************)
EXTENDS RelinowLink
===============================================================================
