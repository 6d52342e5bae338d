----------------------------- MODULE RelinowRetry -----------------------------
(***************************************************************************)
(* What the sending half of a RELIABLE channel promises, without clock,    *)
(* slots or RTT: a packet that is sent stays pending until it is           *)
(* acknowledged, or until it has been retransmitted max_retries times and  *)
(* is then reported as failed; nobody hears of it afterwards.              *)
(*                                                                         *)
(* RelinowSender, the engine of relinow_reliable.c with its clock and its  *)
(* slots, implements this module.  RelinowLink composes it: there, when a  *)
(* timer expires does not matter, only in which order things happen.       *)
(***************************************************************************)
EXTENDS RelinowPacket, FiniteSets

CONSTANTS
    MaxPending,            \* RELINOW_RELIABLE_MAX_PENDING, 16 in the code
    MaxRetries             \* cfg.max_retries, at least 1 after init

ASSUME RetryAssumption ==
    /\ MaxPending \in Nat \ {0} /\ MaxPending < SeqSpace
    /\ MaxRetries \in Nat \ {0}

VARIABLES
    nextTxSeq,             \* id of the next new packet
    retries,               \* pending ids, each with its retransmissions
    failed                 \* ids reported FAILED since they were last sent

retryVars == <<nextTxSeq, retries, failed>>

Pending == DOMAIN retries

RetryInit ==
    /\ nextTxSeq = 0
    /\ retries = [s \in {} |-> 0]
    /\ failed = {}

\* The ids of the next k packets.
Burst(k) == {SeqAdd(nextTxSeq, i) : i \in 0 .. k - 1}

\* Sending k >= 1 packets: one, or the fragments of one message.  The second
\* conjunct is a premise of the discipline, not a check of the code: packets
\* are told apart by their ids only while the application is less than a lap
\* of ids ahead of a pending one.  RelinowSender keeps the discipline on the
\* steps where it holds; RelinowLink sends fewer packets than there are ids.
SendBurst(k) ==
    /\ Cardinality(Pending) + k <= MaxPending
    /\ Burst(k) \cap Pending = {}
    /\ retries' = [s \in Pending \cup Burst(k) |->
                      IF s \in Burst(k) THEN 0 ELSE retries[s]]
    /\ nextTxSeq' = SeqAdd(nextTxSeq, k)
    /\ failed' = failed \ Burst(k)

Settled(s) == retries' = [r \in Pending \ {s} |-> retries[r]]

\* An acknowledgement settles exactly the packet it names.
Acked(s) ==
    /\ s \in Pending
    /\ Settled(s)
    /\ UNCHANGED <<nextTxSeq, failed>>

\* Mutant of Retransmit: the retry is not counted.
RetransmitUncounted(s) ==
    /\ s \in Pending
    /\ retries[s] < MaxRetries
    /\ UNCHANGED <<nextTxSeq, retries, failed>>

Retransmit(s) ==
    /\ s \in Pending
    /\ retries[s] < MaxRetries
    /\ retries' = [retries EXCEPT ![s] = @ + 1]
    /\ UNCHANGED <<nextTxSeq, failed>>

Fail(s) ==
    /\ s \in Pending
    /\ retries[s] >= MaxRetries
    /\ Settled(s)
    /\ failed' = failed \cup {s}
    /\ UNCHANGED nextTxSeq

\* A new configuration forgets every pending packet, and reports none.
Restart ==
    /\ nextTxSeq' = 0
    /\ retries' = [s \in {} |-> 0]
    /\ failed' = {}

RetryNext ==
    \/ \E k \in 1 .. MaxPending : SendBurst(k)
    \/ \E s \in SeqId : Acked(s) \/ Retransmit(s) \/ Fail(s)
    \/ Restart

RetrySpec == RetryInit /\ [][RetryNext]_retryVars
=============================================================================
