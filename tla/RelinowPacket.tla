---------------------------- MODULE RelinowPacket ----------------------------
(***************************************************************************)
(* Serial-number arithmetic of relinow_packet.c.  A sequence id is an      *)
(* unsigned integer of fixed width: 16 bits in the code, SeqSpace values   *)
(* here, so that a model can be taken round the wrap in a few steps.  The  *)
(* operators use comparisons rather than % : for ids in range both say     *)
(* the same, and comparisons are what the provers decide.                  *)
(***************************************************************************)
EXTENDS Naturals

CONSTANT SeqSpace            \* number of sequence ids, 65536 in the code

\* Four ids are the fewest for which "newer" is neither empty nor total.
ASSUME SeqSpaceAssumption == SeqSpace \in Nat /\ SeqSpace >= 4

SeqId == 0 .. SeqSpace - 1

\* (uint16_t)(a + n), for a distance n of at most one lap
SeqAdd(a, n) == IF a + n < SeqSpace THEN a + n ELSE a + n - SeqSpace

\* (uint16_t)(a - b)
SeqDiff(a, b) == IF a >= b THEN a - b ELSE a + SeqSpace - b

\* Mutant of SeqNext: the 16-bit cast is forgotten.
SeqNextUnwrapped(a) == a + 1

\* relinow_seq_next
SeqNext(a) == SeqAdd(a, 1)

\* (uint16_t)(expected_rx_seq - 1u), the id every ACK carries
SeqPrev(a) == SeqDiff(a, 1)

\* Mutant of IsSeqNewer: half the id space away counts as newer.
IsSeqNewerUpToHalf(a, b) == LET d == SeqDiff(a, b) IN 0 < d /\ 2 * d <= SeqSpace

\* relinow_is_seq_newer: (int16_t)(a - b) > 0.  The difference of exactly
\* half the id space is the most negative value, hence not newer.
IsSeqNewer(a, b) == LET d == SeqDiff(a, b) IN 0 < d /\ 2 * d < SeqSpace
=============================================================================
