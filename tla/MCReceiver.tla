------------------------------ MODULE MCReceiver ------------------------------
(***************************************************************************)
(* Model of RelinowReceiver for TLC.  Ten sequence ids put the wrap within *)
(* reach, three reorder slots fill up while the window moves, and every id  *)
(* may arrive at any time.                                                 *)
(***************************************************************************)
EXTENDS RelinowReceiver
===============================================================================
