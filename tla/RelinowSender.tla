---------------------------- MODULE RelinowSender ----------------------------
(***************************************************************************)
(* The sending half of one RELIABLE channel: the engine of                 *)
(* relinow_reliable.c (slots, timers, RTT estimate) and the bookkeeping    *)
(* relinow_state.c keeps beside it (tx_queue, inflight).                   *)
(*                                                                         *)
(* A slot holds the time since the packet's last transmission instead of   *)
(* last_send_ms, saturated at the widest timeout: the code only ever uses  *)
(* the difference to now_ms, and compares it with, or clips it to, 16      *)
(* bits.  Acknowledgements name arbitrary ids at arbitrary times, and      *)
(* nothing keeps the application from sending a whole lap of ids while one *)
(* packet is still pending: two slots may then hold the same id.           *)
(***************************************************************************)
EXTENDS RelinowPacket, FiniteSets, Functions

CONSTANTS
    MaxPending,            \* RELINOW_RELIABLE_MAX_PENDING, 16 in the code
    TxQueueSize,           \* RELINOW_TX_QUEUE_SIZE, 16 in the code
    MaxRetries,            \* cfg.max_retries
    InitialRtt,            \* cfg.initial_rtt_ms
    RttAlpha,              \* cfg.rtt_alpha_q8, in 1/256ths
    MaxMs                  \* widest timeout and RTT sample, 65535 in the code

ASSUME SenderAssumption ==
    /\ MaxPending \in Nat \ {0} /\ MaxPending < SeqSpace
    /\ TxQueueSize \in Nat /\ TxQueueSize >= MaxPending
    /\ MaxRetries \in Nat \ {0}
    /\ MaxMs \in Nat \ {0}
    /\ InitialRtt \in 1 .. MaxMs
    /\ RttAlpha \in 1 .. 255

VARIABLES
    pending,               \* slots in use, each with its packet
    nextTxSeq,             \* id of the next new packet
    rtt,                   \* rtt_estimate_ms
    txQueue,               \* used slots of the channel's tx_queue: their ids
    inflight,              \* {inflight_seq} while has_inflight, {} otherwise
    failed,                \* ids reported FAILED since they were last sent
    silence                \* history: time since each slot was filled

txVars == <<pending, nextTxSeq, rtt, txQueue, inflight, failed, silence>>

Packet == [seq : SeqId, elapsed : 0 .. MaxMs, timeout : 1 .. MaxMs,
           retries : 0 .. MaxRetries]

PendingSeqs == {pending[i].seq : i \in DOMAIN pending}

\* Slots in use are the domain of a function: a slot is released, or filled.
Without(f, i) == Restrict(f, DOMAIN f \ {i})

With(f, i, v) == [j \in DOMAIN f \cup {i} |-> IF j = i THEN v ELSE f[j]]

AtMost(a, bound) == IF a > bound THEN bound ELSE a

\* Mutant of Timeout: every retry waits like the first transmission.
TimeoutFlat(r) ==
    LET t == (rtt * 3) \div 2
    IN  IF t = 0 THEN 1 ELSE AtMost(t, MaxMs)

\* The shortest wait before retry r can end: that of the RTT estimate 1.
MinWait(r) ==
    AtMost(CASE r = 0 -> 1 [] r = 1 -> 2 [] OTHER -> 3, MaxMs)

\* The shortest possible time before retry r starts, and before a packet is
\* given up.
SilenceBefore(r) ==
    CASE r = 0 -> 0
      [] r = 1 -> MinWait(0)
      [] OTHER -> MinWait(0) + MinWait(1) + (r - 2) * MinWait(2)

FailSilence == SilenceBefore(MaxRetries + 1)

\* relinow_compute_timeout_ms: 1.5, 2, then 3 times the RTT estimate
Timeout(r) ==
    LET t == CASE r = 0 -> (rtt * 3) \div 2
               [] r = 1 -> rtt * 2
               [] OTHER -> rtt * 3
    IN  IF t = 0 THEN 1 ELSE AtMost(t, MaxMs)

TxInit ==
    /\ pending = [i \in {} |-> 0]
    /\ nextTxSeq = 0
    /\ rtt = InitialRtt
    /\ txQueue = [i \in {} |-> 0]
    /\ inflight = {}
    /\ failed = {}
    /\ silence = [i \in {} |-> 0]

-----------------------------------------------------------------------------
\* A scan of the slots stops at the first one in S.
IsFirst(i, S) == i \in S /\ \A j \in S : i <= j

\* relinow_state_enqueue_tx; the caller ignores a full queue
EnqueueTx(s) ==
    LET free == 1 .. TxQueueSize \ DOMAIN txQueue
    IN  \/ free = {} /\ UNCHANGED txQueue
        \/ \E i \in free : IsFirst(i, free) /\ txQueue' = With(txQueue, i, s)

\* relinow_tx_remove_seq: the first entry with that id
TxRemoveSeq(s) ==
    LET found == {i \in DOMAIN txQueue : txQueue[i] = s}
    IN  \/ found = {} /\ UNCHANGED txQueue
        \/ \E i \in found : IsFirst(i, found) /\ txQueue' = Without(txQueue, i)

\* relinow_state_reliable_send: the next id goes to the first free slot,
\* whether or not a packet with that id is still pending.
Send ==
    \E i \in 1 .. MaxPending :
        /\ IsFirst(i, 1 .. MaxPending \ DOMAIN pending)
        /\ pending' = With(pending, i,
              [seq |-> nextTxSeq, elapsed |-> 0, timeout |-> Timeout(0),
               retries |-> 0])
        /\ nextTxSeq' = SeqNext(nextTxSeq)
        /\ inflight' = {nextTxSeq}
        /\ EnqueueTx(nextTxSeq)
        /\ failed' = failed \ {nextTxSeq}
        /\ silence' = With(silence, i, 0)
        /\ UNCHANGED rtt

\* Mutant of NewRtt: the average may round down to 0.
NewRttUnclamped(sample) ==
    ((256 - RttAlpha) * rtt + RttAlpha * sample) \div 256

\* The moving average, in integer arithmetic, never 0.
NewRtt(sample) ==
    LET average == ((256 - RttAlpha) * rtt + RttAlpha * sample) \div 256
    IN  IF average = 0 THEN 1 ELSE average

\* Mutants of OnAck: the ACK is cumulative; inflight is not cleared.
OnAckCumulative(a) ==
    LET found == {i \in DOMAIN pending : ~IsSeqNewer(pending[i].seq, a)}
    IN  /\ pending' = Restrict(pending, DOMAIN pending \ found)
        /\ txQueue' = Restrict(txQueue, DOMAIN pending \ found)
        /\ inflight' = inflight \ {pending[i].seq : i \in found}
        /\ silence' = Restrict(silence, DOMAIN silence \ found)
        /\ UNCHANGED <<nextTxSeq, rtt, failed>>

OnAckKeepingInflight(a) ==
    LET found == {i \in DOMAIN pending : pending[i].seq = a}
    IN  /\ \/ found = {} /\ UNCHANGED <<pending, rtt, silence>>
           \/ \E i \in found :
                 /\ IsFirst(i, found)
                 /\ pending' = Without(pending, i)
                 /\ silence' = Without(silence, i)
                 /\ rtt' = NewRtt(pending[i].elapsed)
        /\ TxRemoveSeq(a)
        /\ UNCHANGED <<nextTxSeq, inflight, failed>>

\* relinow_state_reliable_on_ack for the id a: only the slot with exactly
\* that id is released; its RTT sample runs from the last transmission.
OnAck(a) ==
    LET found == {i \in DOMAIN pending : pending[i].seq = a}
    IN  /\ \/ found = {} /\ UNCHANGED <<pending, rtt, silence>>
           \/ \E i \in found :
                 /\ IsFirst(i, found)
                 /\ pending' = Without(pending, i)
                 /\ silence' = Without(silence, i)
                 /\ rtt' = NewRtt(pending[i].elapsed)
        /\ inflight' = inflight \ {a}
        /\ TxRemoveSeq(a)
        /\ UNCHANGED <<nextTxSeq, failed>>

\* relinow_state_reliable_poll serves one expired slot per call, the first.
Expired == {i \in DOMAIN pending : pending[i].elapsed >= pending[i].timeout}

\* Mutants of PollRetransmit: the timer keeps running from the first
\* transmission; the retry is not counted.
PollRetransmitFirstTimer ==
    \E i \in DOMAIN pending :
        /\ IsFirst(i, Expired)
        /\ pending[i].retries < MaxRetries
        /\ pending' = [pending EXCEPT ![i].retries = @ + 1,
              ![i].timeout = Timeout(pending[i].retries + 1)]
        /\ inflight' = {pending[i].seq}
        /\ UNCHANGED <<nextTxSeq, rtt, txQueue, failed, silence>>

PollRetransmitUncounted ==
    \E i \in DOMAIN pending :
        /\ IsFirst(i, Expired)
        /\ pending[i].retries < MaxRetries
        /\ pending' = [pending EXCEPT ![i].elapsed = 0,
              ![i].timeout = Timeout(pending[i].retries + 1)]
        /\ inflight' = {pending[i].seq}
        /\ UNCHANGED <<nextTxSeq, rtt, txQueue, failed, silence>>

PollRetransmit ==
    \E i \in DOMAIN pending :
        /\ IsFirst(i, Expired)
        /\ pending[i].retries < MaxRetries
        /\ pending' = [pending EXCEPT ![i].retries = @ + 1, ![i].elapsed = 0,
              ![i].timeout = Timeout(pending[i].retries + 1)]
        /\ inflight' = {pending[i].seq}
        /\ UNCHANGED <<nextTxSeq, rtt, txQueue, failed, silence>>

\* Mutant of PollFailed: the queue entry is left.
PollFailedQueued ==
    \E i \in DOMAIN pending :
        /\ IsFirst(i, Expired)
        /\ pending[i].retries >= MaxRetries
        /\ pending' = Without(pending, i)
        /\ silence' = Without(silence, i)
        /\ inflight' = inflight \ {pending[i].seq}
        /\ failed' = failed \cup {pending[i].seq}
        /\ UNCHANGED <<nextTxSeq, rtt, txQueue>>

PollFailed ==
    \E i \in DOMAIN pending :
        /\ IsFirst(i, Expired)
        /\ pending[i].retries >= MaxRetries
        /\ pending' = Without(pending, i)
        /\ silence' = Without(silence, i)
        /\ inflight' = inflight \ {pending[i].seq}
        /\ TxRemoveSeq(pending[i].seq)
        /\ failed' = failed \cup {pending[i].seq}
        /\ UNCHANGED <<nextTxSeq, rtt>>

Poll == PollRetransmit \/ PollFailed

\* A millisecond passes.
Tick ==
    /\ pending' = [i \in DOMAIN pending |->
                      [pending[i] EXCEPT !.elapsed = AtMost(@ + 1, MaxMs)]]
    /\ silence' = [i \in DOMAIN silence |-> AtMost(silence[i] + 1, FailSilence)]
    /\ UNCHANGED <<nextTxSeq, rtt, txQueue, inflight, failed>>

\* relinow_state_set_reliable_config with the configuration at hand.
SetReliableConfig ==
    /\ pending' = [i \in {} |-> 0]
    /\ nextTxSeq' = 0
    /\ rtt' = InitialRtt
    /\ txQueue' = [i \in {} |-> 0]
    /\ inflight' = {}
    /\ failed' = {}
    /\ silence' = [i \in {} |-> 0]

TxNext ==
    \/ Send
    \/ \E a \in SeqId : OnAck(a)
    \/ Poll
    \/ Tick
    \/ SetReliableConfig

TxSpec == TxInit /\ [][TxNext]_txVars

\* Time passes and the main loop polls (relinow_poll on every turn).
TxFairSpec == TxSpec /\ WF_txVars(Tick) /\ WF_txVars(Poll)

-----------------------------------------------------------------------------
\* Type correctness; the RTT estimate and every timeout stay in 1 .. MaxMs,
\* as the uint16_t fields of the code must.
TxTypeOK ==
    /\ DOMAIN pending \subseteq 1 .. MaxPending
    /\ \A i \in DOMAIN pending : pending[i] \in Packet
    /\ nextTxSeq \in SeqId
    /\ rtt \in 1 .. MaxMs
    /\ DOMAIN txQueue \subseteq 1 .. TxQueueSize
    /\ \A i \in DOMAIN txQueue : txQueue[i] \in SeqId
    /\ inflight = {} \/ \E s \in SeqId : inflight = {s}
    /\ failed \subseteq SeqId
    /\ DOMAIN silence = DOMAIN pending
    /\ \A i \in DOMAIN silence : silence[i] \in 0 .. FailSilence

\* The channel's tx_queue and the engine's slots are two records of the same
\* packets, kept by different functions that each search for the id on their
\* own: they never disagree on how many packets wait with an id.  (Slot by
\* slot they may: of two packets with one id, the poll gives up the expired
\* one, and relinow_tx_remove_seq drops the first.)
TxQueueMirrors ==
    \A s \in SeqId :
        Cardinality({i \in DOMAIN txQueue : txQueue[i] = s})
            = Cardinality({i \in DOMAIN pending : pending[i].seq = s})

\* The packet marked in flight is one that still waits for its ACK.
InflightPending == inflight \subseteq PendingSeqs

\* No packet is given up before it has been silent for the sum of the shortest
\* waits of its first transmission and of all its retries, however the RTT
\* estimate moves meanwhile and however often the loop polls: with the default
\* three retries 9 ms, not 9.5 times the RTT known when it was sent,
\* because each wait is computed from the estimate of its own moment.
FailedAfterSilence ==
    [][PollFailed => \A i \in DOMAIN pending \ DOMAIN pending' :
                        silence[i] >= FailSilence]_txVars

\* A retransmission goes out only after a full timeout of silence on that
\* packet, and the next one waits at least twice the current RTT estimate: a
\* burst of polls cannot flood the link.  The wait may still shrink from one
\* retry to the next, when the estimate has fallen in between.
BackoffGrows ==
    [][\A i \in DOMAIN pending \cap DOMAIN pending' :
          pending'[i].retries > pending[i].retries
             => /\ pending[i].elapsed >= pending[i].timeout
                /\ pending'[i].timeout >= AtMost(2 * rtt, MaxMs)]_txVars

\* Slot j is filled.
Fills(j) == j \notin DOMAIN pending /\ j \in DOMAIN pending'

\* A slot is held for ever only if the application keeps filling lower slots
\* for ever: each poll serves the first expired slot alone, so packets that
\* come and go in a low slot can starve a higher one when their timeouts are
\* shorter than the poll's period.  Slot 1 always settles, and every slot
\* does once the application pauses.
SlotsSettleUnlessStarved ==
    \A i \in 1 .. MaxPending :
        \/ []<>(i \notin DOMAIN pending)
        \/ []<><<\E j \in 1 .. i - 1 : Fills(j)>>_txVars

\* No two slots hold the same id: the application has not sent a lap of ids
\* past a pending packet.
UniqueSeqs ==
    \A i, j \in DOMAIN pending : pending[i].seq = pending[j].seq => i = j

\* The timed engine with its slots implements the retry discipline.
RetriesOf(p) ==
    [s \in {p[i].seq : i \in DOMAIN p} |->
        p[CHOOSE i \in DOMAIN p : p[i].seq = s].retries]

Retry == INSTANCE RelinowRetry WITH retries <- RetriesOf(pending)

\* It does so on every step that starts and ends with distinct ids.
ImplementsRetry ==
    /\ Retry!RetryInit
    /\ [][UniqueSeqs /\ UniqueSeqs' => [Retry!RetryNext]_(Retry!retryVars)]_txVars
=============================================================================
