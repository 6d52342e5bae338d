--------------------------- MODULE RelinowDatagram ---------------------------
(***************************************************************************)
(* A channel in one of the two modes without retransmission, from end to   *)
(* end: UNRELIABLE hands over every frame that arrives and counts losses,  *)
(* PRIORITY hands over a frame only when it is newer than all before it.   *)
(*                                                                         *)
(* A frame carries its sequence id and, for the properties only, its       *)
(* number: how many frames were sent before it.  The id wraps, the number  *)
(* does not.  What was sent stays in the air and is received at any time,  *)
(* any number of times, or never.  The one thing assumed of the radio is   *)
(* what serial arithmetic needs: nothing arrives half a lap or more apart  *)
(* from the newest frame so far (InReach).                                 *)
(***************************************************************************)
EXTENDS RelinowPacket, FiniteSetsExt

CONSTANTS
    MaxFrames,             \* bound: frames sent, more than a lap of the ids
    MaxArrivals            \* bound: frames handed over, duplicates included

ASSUME DatagramAssumption == MaxFrames \in Nat /\ MaxArrivals \in Nat

VARIABLES
    mode,                  \* mode of the channel on both nodes
    nextTxSeq,             \* next_tx_seq of the sender's channel
    inflight,              \* <<inflight_seq>>, or <<>> when has_inflight = 0
    air,                   \* frames sent: [seq, num]
    expectedRxSeq,         \* <<expected_rx_seq>>, <<>> when has_rx_seq = 0
    totalRx, totalLost,    \* the receiving channel's statistics
    received,              \* history: numbers of the frames that arrived
    first,                 \* history: number of the first of them
    handed,                \* history: numbers handed to on_message
    calls                  \* history: calls of on_message

senderVars == <<nextTxSeq, inflight, air>>
datagramVars == <<mode, senderVars, expectedRxSeq, totalRx, totalLost,
                  received, first, handed, calls>>

DatagramInit ==
    /\ mode \in {"UNRELIABLE", "PRIORITY"}
    /\ nextTxSeq = 0 /\ inflight = <<>> /\ air = {}
    /\ expectedRxSeq = <<>> /\ totalRx = 0 /\ totalLost = 0
    /\ received = {} /\ first = 0 /\ handed = {} /\ calls = 0

\* relinow_send_unreliable and relinow_send_priority.  The id that the new
\* PRIORITY frame replaces is reported to the caller, which ignores it;
\* nothing is kept of the frame it belonged to.
Send ==
    /\ Cardinality(air) < MaxFrames
    /\ air' = air \cup {[seq |-> nextTxSeq, num |-> Cardinality(air)]}
    /\ nextTxSeq' = SeqNext(nextTxSeq)
    /\ inflight' = IF mode = "PRIORITY" THEN <<nextTxSeq>> ELSE inflight
    /\ UNCHANGED <<mode, expectedRxSeq, totalRx, totalLost, received, first,
                   handed, calls>>

\* The radio's reach: how far a frame may be from the newest one so far.
InReach(f) ==
    received # {} =>
        LET newest == Max(received)
        IN  /\ 2 * f.num < 2 * newest + SeqSpace
            /\ 2 * newest <= 2 * f.num + SeqSpace

\* The frame comes first, or after everything that has been received.
IsNewest(s) == expectedRxSeq = <<>> \/ IsSeqNewer(s, expectedRxSeq[1])

Arrive(f) ==
    /\ f \in air /\ InReach(f)
    /\ calls < MaxArrivals
    /\ received' = received \cup {f.num}
    /\ first' = IF received = {} THEN f.num ELSE first
    /\ UNCHANGED <<mode, senderVars>>

HandOver(f) == handed' = handed \cup {f.num} /\ calls' = calls + 1

\* Losses that a newer frame brings to light: its distance from the newest
\* one so far, the frame itself included.
LossShownBy(s) == IF expectedRxSeq = <<>> THEN 0 ELSE SeqDiff(s, expectedRxSeq[1])

\* Mutant of ReceiveUnreliable: a late frame moves the newest id back.
ReceiveUnreliableAnyOrder(f) ==
    /\ mode = "UNRELIABLE"
    /\ Arrive(f)
    /\ totalRx' = totalRx + 1
    /\ totalLost' = totalLost + (IF IsNewest(f.seq) THEN LossShownBy(f.seq) ELSE 0)
    /\ expectedRxSeq' = <<f.seq>>
    /\ HandOver(f)

\* relinow_on_receive, UNRELIABLE DATA
ReceiveUnreliable(f) ==
    /\ mode = "UNRELIABLE"
    /\ Arrive(f)
    /\ totalRx' = totalRx + 1
    /\ IF IsNewest(f.seq)
       THEN expectedRxSeq' = <<f.seq>> /\ totalLost' = totalLost + LossShownBy(f.seq)
       ELSE UNCHANGED <<expectedRxSeq, totalLost>>
    /\ HandOver(f)

\* relinow_on_receive, PRIORITY DATA
ReceivePriority(f) ==
    /\ mode = "PRIORITY"
    /\ Arrive(f)
    /\ IF IsNewest(f.seq)
       THEN expectedRxSeq' = <<f.seq>> /\ HandOver(f)
       ELSE UNCHANGED <<expectedRxSeq, handed, calls>>
    /\ UNCHANGED <<totalRx, totalLost>>

DatagramNext ==
    \/ Send
    \/ \E f \in air : ReceiveUnreliable(f) \/ ReceivePriority(f)

DatagramSpec == DatagramInit /\ [][DatagramNext]_datagramVars

-----------------------------------------------------------------------------
\* Type correctness of the channel's fields on both nodes.
DatagramTypeOK ==
    /\ nextTxSeq \in SeqId
    /\ inflight = <<>> \/ (mode = "PRIORITY" /\ inflight[1] \in SeqId)
    /\ expectedRxSeq = <<>> \/ expectedRxSeq[1] \in SeqId
    /\ totalRx \in 0 .. MaxArrivals /\ totalLost \in 0 .. MaxFrames
    /\ handed \subseteq received

\* Newest wins: the application on a PRIORITY channel has always seen the
\* newest frame that arrived, and what it is handed is newer than all it was
\* handed before, so nothing comes twice: round the wrap of the ids as well.
NewestWins ==
    [][mode = "PRIORITY" =>
          /\ received' # {} => Max(received') \in handed'
          /\ calls' # calls => \A n \in handed : n < Max(handed')]_datagramVars

\* The statistics never under-report: of the frames from the first one
\* received to the newest, total_lost counts at least those that are missing,
\* and never more than the distance between the two, however often frames
\* come twice or late and wherever the ids wrap.
LossesBounded ==
    mode = "UNRELIABLE" /\ received # {} =>
        /\ totalLost >= Cardinality((first .. Max(received)) \ received)
        /\ totalLost <= Max(received) - first
=============================================================================
