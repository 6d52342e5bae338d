----------------------------- MODULE RelinowLink -----------------------------
(***************************************************************************)
(* One RELIABLE channel from end to end: relinow_send_reliable and the     *)
(* ACK and retransmission paths of relinow_espnow.c on node A, the DATA    *)
(* path of relinow_on_receive with its receive cache and reassembly buffer *)
(* on node B, and the radio between them.  What was sent stays in the air: *)
(* it is received at any time, any number of times, or never, which is     *)
(* what a radio that delays, reorders, duplicates and loses frames does.   *)
(*                                                                         *)
(* A's retransmission state is RelinowRetry (the timed engine implements   *)
(* it), B's receive window is RelinowReceiver.  This module adds what the  *)
(* nodes keep beside them: the payload caches, the tracking of fragments   *)
(* and the reassembly buffer.                                              *)
(*                                                                         *)
(* A frame's payload is its sequence id: within one lap of the ids, which  *)
(* MaxPackets keeps to, every frame has its own.  A message is the         *)
(* sequence of its frames.                                                 *)
(***************************************************************************)
EXTENDS RelinowRetry, RelinowReceiver, SequencesExt

CONSTANTS
    RxCacheSize,           \* slots of rx_cache, 1 + MAX_REORDER = 9 in the code
    MaxReassembly,         \* frames reassembly_buf holds, 16 in the code
    MaxFragments,          \* bound: frames of the longest message
    MaxPackets,            \* bound: packets sent, within one lap of the ids
    MaxWork,               \* bound: packets and messages sent, taken together
    FragmentTimeouts,      \* a transfer may outlast fragment_timeout_ms
    SendErrors,            \* esp_now_send may return an error
    ColdFragments,         \* a fragmented message may be the first one sent
    LongMessages           \* a message may need more fragments than 8 bits count

ASSUME LinkAssumption ==
    /\ RxCacheSize \in Nat /\ MaxReassembly \in Nat
    /\ MaxFragments \in Nat \ {0}
    /\ MaxPackets \in Nat /\ MaxPackets < SeqSpace /\ MaxWork \in Nat
    /\ FragmentTimeouts \in BOOLEAN /\ SendErrors \in BOOLEAN
    /\ ColdFragments \in BOOLEAN /\ LongMessages \in BOOLEAN

VARIABLES
    txCache,               \* A: ids whose frame is in tx_cache
    fragmentedTx,          \* A: ids in fragmented_tx_seq
    messages,              \* A: what the application submitted
    rxCache,               \* B: ids whose frame is in rx_cache
    reassembly,            \* B: frames in reassembly_buf, <<>> when inactive
    appLog,                \* B: messages handed to on_message
    dataNet,               \* DATA frames sent
    ackNet                 \* ACK frames sent

senderVars == <<nextTxSeq, retries, failed, txCache, fragmentedTx, messages>>
receiverVars == <<rxVars, rxCache, reassembly, appLog>>
linkVars == <<senderVars, receiverVars, dataNet, ackNet>>

Sent == UNION {ToSet(messages[m].frames) : m \in DOMAIN messages}

\* The ids there are packets for.
PacketIds == 0 .. MaxPackets - 1

\* Ids of which A has heard an acknowledgement.
AckedSeqs == Sent \ (Pending \cup failed)

MessageOf(s) == messages[CHOOSE m \in DOMAIN messages : Contains(messages[m].frames, s)]

\* RELINOW_FLAG_FRAGMENT and RELINOW_FLAG_LAST_FRAGMENT of a frame
IsFragment(s) == ~MessageOf(s).whole \/ Len(MessageOf(s).frames) > 1
IsLastFragment(s) == MessageOf(s).whole /\ s = Last(MessageOf(s).frames)

\* Two nodes that have just been initialised.
LinkInit ==
    /\ RetryInit
    /\ RxInit
    /\ txCache = {} /\ fragmentedTx = {} /\ messages = <<>>
    /\ rxCache = {} /\ reassembly = <<>> /\ appLog = <<>>
    /\ dataNet = {} /\ ackNet = {}

-----------------------------------------------------------------------------
(* Node A.                                                                 *)

Frames(k) == [i \in 1 .. k |-> SeqAdd(nextTxSeq, i - 1)]

\* Mutant of Transmit: no look at the message in progress.
TransmitUnguarded(k, onAir, whole, fragment) ==
    /\ nextTxSeq + k <= MaxPackets
    /\ nextTxSeq + k + Len(messages) < MaxWork
    /\ SendBurst(k)
    /\ txCache' = txCache \cup Burst(k)
    /\ fragmentedTx' = IF fragment THEN Burst(k) ELSE {}
    /\ messages' = Append(messages, [frames |-> Frames(k), whole |-> whole])
    /\ dataNet' = dataNet \cup Burst(onAir)
    /\ UNCHANGED <<receiverVars, ackNet>>

\* relinow_send_reliable: k packets enter the engine and the cache, the first
\* onAir of them go out.  While a fragmented message is being tracked the
\* call is refused; too few free slots refuse it as well.
Transmit(k, onAir, whole, fragment) ==
    /\ fragmentedTx = {}
    /\ nextTxSeq + k <= MaxPackets
    /\ nextTxSeq + k + Len(messages) < MaxWork
    /\ SendBurst(k)
    /\ txCache' = txCache \cup Burst(k)
    /\ fragmentedTx' = IF fragment THEN Burst(k) ELSE {}
    /\ messages' = Append(messages, [frames |-> Frames(k), whole |-> whole])
    /\ dataNet' = dataNet \cup Burst(onAir)
    /\ UNCHANGED <<receiverVars, ackNet>>

\* Frames a message may have by now.
Sizes == IF ColdFragments \/ hasRxWindow THEN 1 .. MaxFragments ELSE {1}

\* A message that fits a frame, or as many fragments as it needs.
SendMessage ==
    \E n \in Sizes : Transmit(n, n, TRUE, n > 1)

\* A message whose fragment count passes for a small one after its cast to
\* uint8_t (256 fragments count as none): fragments go out until no slot is
\* left, and the call fails there.
SendTruncated ==
    LET free == MaxPending - Cardinality(Pending)
    IN  LongMessages /\ free > 0 /\ Transmit(free, free, FALSE, TRUE)

\* esp_now_send fails on frame k of n: that frame is kept for retransmission,
\* those after it never become packets, and the caller gets an error.
SendMessageError ==
    /\ SendErrors
    /\ \E n \in Sizes : \E k \in 1 .. n :
          /\ Cardinality(Pending) + n <= MaxPending
          /\ Transmit(k, k - 1, k = n, n > 1)

\* Mutant of ReceiveAck: any ACK ends the tracking of fragments.
ReceiveAckUntracking ==
    \E a \in ackNet :
        /\ IF a \in Pending THEN Acked(a) ELSE UNCHANGED retryVars
        /\ txCache' = txCache \ {a}
        /\ fragmentedTx' = {}
        /\ UNCHANGED <<messages, receiverVars, dataNet, ackNet>>

\* relinow_on_receive, ACK: the packet is settled, if it is pending; its
\* frame leaves the cache, its id the tracking of fragments.
ReceiveAck ==
    \E a \in ackNet :
        /\ IF a \in Pending THEN Acked(a) ELSE UNCHANGED retryVars
        /\ txCache' = txCache \ {a}
        /\ fragmentedTx' = fragmentedTx \ {a}
        /\ UNCHANGED <<messages, receiverVars, dataNet, ackNet>>

\* relinow_poll, an expired packet with retries left: its cached frame, if
\* there is one, goes out again.
PollRetransmit ==
    \E s \in SeqId :
        /\ Retransmit(s)
        /\ dataNet' = IF s \in txCache THEN dataNet \cup {s} ELSE dataNet
        /\ UNCHANGED <<txCache, fragmentedTx, messages, receiverVars, ackNet>>

\* Mutant of PollFailed: the frame stays in the cache.
PollFailedKeeping ==
    \E s \in SeqId :
        /\ Fail(s)
        /\ UNCHANGED <<txCache, fragmentedTx, messages, receiverVars, dataNet, ackNet>>

\* relinow_poll, retries exhausted: the frame is dropped and the application
\* told.  The tracking of fragments is left as it is.
PollFailed ==
    \E s \in SeqId :
        /\ Fail(s)
        /\ txCache' = txCache \ {s}
        /\ UNCHANGED <<fragmentedTx, messages, receiverVars, dataNet, ackNet>>

-----------------------------------------------------------------------------
(* Node B.                                                                 *)

\* Mutant of CacheOnArrival: no look for a free slot.
CacheOnArrivalUnbounded(s) == rxCache \cup {s}

\* rx_cache after looking up, or storing, the frame that arrived.
CacheOnArrival(s) ==
    IF s \in rxCache \/ Cardinality(rxCache) < RxCacheSize
    THEN rxCache \cup {s} ELSE rxCache

\* Mutants of HandOver: a frame that is no fragment leaves the buffer as it is;
\* the last fragment leaves the buffer as it is.
HandOverBeside(acc, s) ==
    IF ~IsFragment(s)
    THEN [acc EXCEPT !.log = Append(@, <<s>>)]
    ELSE IF Len(acc.buf) >= MaxReassembly
    THEN [buf |-> <<>>, log |-> acc.log]
    ELSE IF IsLastFragment(s)
    THEN [buf |-> <<>>, log |-> Append(acc.log, Append(acc.buf, s))]
    ELSE [buf |-> Append(acc.buf, s), log |-> acc.log]

HandOverKeeping(acc, s) ==
    IF ~IsFragment(s)
    THEN [buf |-> <<>>, log |-> Append(acc.log, <<s>>)]
    ELSE IF Len(acc.buf) >= MaxReassembly
    THEN [buf |-> <<>>, log |-> acc.log]
    ELSE [buf |-> Append(acc.buf, s),
          log |-> IF IsLastFragment(s)
                  THEN Append(acc.log, Append(acc.buf, s)) ELSE acc.log]

\* One delivered frame: a fragment is appended to the reassembly buffer (a
\* buffer that cannot take it is reset) and completes the message if it is
\* the last one; any other frame resets the buffer and is a message itself.
HandOver(acc, s) ==
    IF ~IsFragment(s)
    THEN [buf |-> <<>>, log |-> Append(acc.log, <<s>>)]
    ELSE IF Len(acc.buf) >= MaxReassembly
    THEN [buf |-> <<>>, log |-> acc.log]
    ELSE IF IsLastFragment(s)
    THEN [buf |-> <<>>, log |-> Append(acc.log, Append(acc.buf, s))]
    ELSE [buf |-> Append(acc.buf, s), log |-> acc.log]

\* One turn of the delivery loop: a frame that is no longer in the cache is
\* passed over.
Turn(acc, s, cache) == IF s \in cache THEN HandOver(acc, s) ELSE acc

\* Mutant of DeliveryLoop: the loop stops one frame early.
DeliveryLoopShort(s, n, cache) ==
    LET after[k \in 0 .. n + 1] ==
            IF k = 0 THEN [buf |-> reassembly, log |-> appLog]
                     ELSE Turn(after[k - 1], SeqAdd(s, k - 1), cache)
    IN  after[n]

\* Buffer and log after the loop over s and the n ids that follow it.
DeliveryLoop(s, n, cache) ==
    LET after[k \in 0 .. n + 1] ==
            IF k = 0 THEN [buf |-> reassembly, log |-> appLog]
                     ELSE Turn(after[k - 1], SeqAdd(s, k - 1), cache)
    IN  after[n + 1]

\* Mutant of Accept: no look at the status of the wrapper.
AcceptRegardless(s, n) ==
    LET cache == CacheOnArrival(s)
        out   == DeliveryLoop(s, n, cache)
    IN  /\ rxCache' = cache \ ({s} \cup Run(s, n))
        /\ reassembly' = out.buf
        /\ appLog' = out.log
        /\ ackNet' = ackNet \cup {AckId'}

\* What the node does when the engine has delivered s and the n ids after it:
\* acknowledge, hand over and drop from the cache; or, the receive queue being
\* full, none of it.
Accept(s, n) ==
    LET cache == CacheOnArrival(s)
        out   == DeliveryLoop(s, n, cache)
    IN  IF QueueOverflow(n + 1)
        THEN /\ rxCache' = cache
             /\ UNCHANGED <<reassembly, appLog, ackNet>>
        ELSE /\ rxCache' = cache \ ({s} \cup Run(s, n))
             /\ reassembly' = out.buf
             /\ appLog' = out.log
             /\ ackNet' = ackNet \cup {AckId'}

\* What it does for a frame the engine does not deliver: the frame stays in
\* the cache all the same, and the ACK names the id before the expected one.
Refuse(s) ==
    /\ rxCache' = CacheOnArrival(s)
    /\ ackNet' = ackNet \cup {AckId'}
    /\ UNCHANGED <<reassembly, appLog>>

\* A frame arrives, for the first time or once more.
TakeData(s) == s \in dataNet /\ UNCHANGED <<senderVars, dataNet>>

\* Mutants of the last two below: a frame that arrives early, or again, is
\* handed over.
ReceiveAheadEagerly(s) ==
    TakeData(s) /\ (BufferAhead(s) \/ DropAhead(s)) /\ Accept(s, 0)
ReceiveDuplicateAgain(s) == TakeData(s) /\ Duplicate(s) /\ Accept(s, 0)

ReceiveFirst(s) == TakeData(s) /\ OpenWindow(s) /\ Accept(s, 0)

ReceiveExpected(s) ==
    /\ TakeData(s)
    /\ \E n \in 0 .. MaxReorder : DeliverRun(s, n) /\ Accept(s, n)

ReceiveAhead(s) == TakeData(s) /\ (BufferAhead(s) \/ DropAhead(s)) /\ Refuse(s)

ReceiveDuplicate(s) == TakeData(s) /\ Duplicate(s) /\ Refuse(s)

ReceiveData ==
    \E s \in SeqId :
        ReceiveFirst(s) \/ ReceiveExpected(s) \/ ReceiveAhead(s) \/ ReceiveDuplicate(s)

\* relinow_poll on B: the fragment timeout purges the buffer.
ReassemblyTimeout ==
    /\ FragmentTimeouts
    /\ reassembly # <<>>
    /\ reassembly' = <<>>
    /\ UNCHANGED <<senderVars, rxVars, rxCache, appLog, dataNet, ackNet>>

LinkNext ==
    \/ SendMessage
    \/ SendMessageError
    \/ SendTruncated
    \/ ReceiveAck
    \/ PollRetransmit
    \/ PollFailed
    \/ ReceiveData
    \/ ReassemblyTimeout

LinkSpec == LinkInit /\ [][LinkNext]_linkVars

\* A's main loop polls; nothing is assumed of the radio.
PollFairness == WF_linkVars(PollRetransmit \/ PollFailed)

LinkFairSpec == LinkSpec /\ PollFairness

-----------------------------------------------------------------------------
\* Type correctness of what the nodes keep beside the two engines.
LinkTypeOK ==
    /\ txCache \subseteq SeqId /\ fragmentedTx \subseteq SeqId
    /\ rxCache \subseteq SeqId /\ Cardinality(rxCache) <= RxCacheSize
    /\ reassembly \in Seq(SeqId) /\ Len(reassembly) <= MaxReassembly
    /\ dataNet \subseteq SeqId /\ ackNet \subseteq SeqId
    /\ \A m \in DOMAIN messages :
          messages[m].frames \in Seq(SeqId) /\ messages[m].whole \in BOOLEAN
    /\ \A i \in DOMAIN appLog : appLog[i] \in Seq(SeqId)

\* A packet that A counts as acknowledged was delivered by B's engine: the
\* ids before the expected one.  No loss, duplication or reordering makes
\* an ACK settle a packet that B has not got.
AckedWasReceived == \A s \in AckedSeqs : hasRxWindow /\ s < expectedRxSeq

\* The frame of every pending packet is in the cache, so a retransmission
\* event always sends something, and a settled packet holds no cache slot.
TxCacheMirrors == txCache = Pending

\* A fragment that is still pending is tracked, whatever was acknowledged or
\* given up in between: as long as there is one, no other message starts.
PendingFragmentsTracked ==
    \A s \in Pending : IsFragment(s) => s \in fragmentedTx

\* Fragments of two messages are never pending together.
OneFragmentedMessage ==
    \A s, t \in Pending :
        IsFragment(s) /\ IsFragment(t) => MessageOf(s) = MessageOf(t)

\* Every message the receiving application gets is exactly one that the
\* sending application submitted: no head cut off, no two run together.
IntactMessages ==
    \A i \in DOMAIN appLog :
        \E m \in DOMAIN messages :
            messages[m].whole /\ messages[m].frames = appLog[i]

\* Frames B's application has got, or that wait in the reassembly buffer.
Handed == (UNION {ToSet(appLog[i]) : i \in DOMAIN appLog}) \cup ToSet(reassembly)

\* Whatever goes wrong in the nodes or in the air, a message is handed over only
\* when the last frame of a submitted message arrives, and comes out as that
\* message unless the message has several fragments and one of three causes:
\* the send before it was cut short, the last frame of the message before it
\* was lost at B, or a frame of its own was.
SpoiltForCause ==
    \A i \in DOMAIN appLog :
        \E m \in DOMAIN messages :
            /\ messages[m].whole
            /\ appLog[i] # <<>> /\ Last(appLog[i]) = Last(messages[m].frames)
            /\ \/ appLog[i] = messages[m].frames
               \/ /\ Len(messages[m].frames) > 1
                  /\ \/ m > 1 /\ ~messages[m - 1].whole
                     \/ m > 1 /\ Last(messages[m - 1].frames) \notin Handed
                     \/ ~(ToSet(messages[m].frames) \subseteq Handed)

\* A packet that A counts as acknowledged reached B's application, or waits
\* in the reassembly buffer for the rest of its message.
AckedReachesApp == AckedSeqs \subseteq Handed

\* No frame is handed over without a place of its own in the receive queue: as
\* none is ever given back, at most RxQueueSize frames come out of a session.
HandedFitsQueue == Cardinality(Handed) <= rxUsed /\ rxUsed <= RxQueueSize

\* Frames reach the application, or the reassembly buffer, at most once and in
\* the order they were sent in: whatever the radio does, however small the
\* queue and the cache are, and whichever frame opened the window.
FramesInOrder ==
    LET handed == Append(appLog, reassembly)
    IN  \A i, j \in DOMAIN handed :
            \A p \in DOMAIN handed[i], q \in DOMAIN handed[j] :
                i < j \/ (i = j /\ p < q) => handed[i][p] < handed[j][q]

\* A frame that closes a gap is acknowledged, like any frame that is received,
\* even when buffered frames are delivered along with it.
ExpectedAcknowledged ==
    [][\A s \in SeqId :
          ReceiveExpected(s) /\ ~QueueOverflow(1 + Cardinality(reorder \ reorder'))
             => s \in ackNet']_linkVars

\* Every packet is in the end with B's application, or reported as failed.
DeliveredOrFailed ==
    \A s \in PacketIds :
        s \in Sent ~> s \in Handed \cup failed

\* Head-of-line blocking ends: a frame buffered ahead of a gap is delivered, or
\* the packet that is missing has been reported as failed.  No state of the
\* window and no pattern of losses holds frames back behind a packet that the
\* sender has not given up.
GapFillsOrFails ==
    \A s \in PacketIds :
        s \in reorder ~> \/ s \notin reorder
                         \/ expectedRxSeq < s /\ expectedRxSeq \in failed

\* A fragmented message keeps the sender busy only until it is settled.
FragmentedTxEnds == fragmentedTx # {} ~> fragmentedTx = {}

\* The link hands over a gap-free run of the submitted messages.
Delivery == INSTANCE RelinowDelivery
    WITH sent <- [m \in DOMAIN messages |-> messages[m].frames], log <- appLog

ImplementsDelivery == Delivery!Spec
=============================================================================
