--------------------------- MODULE RelinowChannels ---------------------------
(***************************************************************************)
(* Several channels of one node: what they share.  Each RELIABLE channel   *)
(* has its own engine, but relinow_espnow.c keeps one tx_cache and one     *)
(* rx_cache per node, looked up by sequence id alone, and one scheduler    *)
(* (relinow_state_scheduler_next) serves the timers of all channels.       *)
(*                                                                         *)
(* The engines are those of RelinowRetry and RelinowReceiver, one of each  *)
(* per channel; messages are single frames.  A payload is the channel and  *)
(* the id it was submitted under.  What was sent stays in the air, as in   *)
(* RelinowLink.  MaxPackets keeps a channel below the size of its receive  *)
(* queue, whose overflow RelinowLink covers.                               *)
(***************************************************************************)
EXTENDS RelinowPacket, FiniteSets, Functions, SequencesExt

CONSTANTS
    NumChannels,           \* entries of the channel table, 16 in the code
    Reliable,              \* those opened in RELIABLE mode
    MaxPending,            \* RELINOW_RELIABLE_MAX_PENDING, 16 in the code
    MaxRetries,            \* cfg.max_retries
    MaxReorder,            \* RELINOW_RELIABLE_MAX_REORDER, 8 in the code
    TxCacheSize,           \* slots of tx_cache, 16 in the code
    RxCacheSize,           \* slots of rx_cache, 9 in the code
    MaxPackets             \* bound: packets per channel, within one lap

Channels == 0 .. NumChannels - 1

ASSUME ChannelsAssumption ==
    /\ NumChannels \in Nat \ {0} /\ Reliable \subseteq Channels
    /\ MaxPending \in Nat \ {0} /\ MaxRetries \in Nat \ {0}
    /\ MaxReorder \in Nat /\ 2 * (MaxReorder + 1) <= SeqSpace
    /\ TxCacheSize \in Nat /\ RxCacheSize \in Nat
    /\ MaxPackets \in Nat /\ MaxPackets < SeqSpace

VARIABLES
    nextTxSeq,             \* per channel: id of the next packet
    retries,               \* per channel: pending ids, each with its retries
    expired,               \* <<channel, id>> of packets whose timer has run out
    txCache,               \* slots in use: [seq, load]
    lastPolled,            \* last_polled_channel_idx
    expected,              \* per channel with an open window: the expected id
    reorder,               \* per channel: ids buffered ahead
    rxCache,               \* ids in the receive cache, each with its payload
    handed,                \* payloads handed to on_message, with the channel
    dataNet,               \* DATA frames sent: [chan, seq, load]
    ackNet,                \* ACK frames sent: [chan, seq]
    overtaken              \* history: <<c, d>>, d was served while c was ready

senderVars == <<nextTxSeq, retries, expired, txCache, lastPolled, overtaken>>
receiverVars == <<expected, reorder, rxCache, handed>>
channelsVars == <<senderVars, receiverVars, dataNet, ackNet>>

Pending(c) == DOMAIN retries[c]

Load == [chan : Reliable, seq : SeqId]

ChannelsInit ==
    /\ nextTxSeq = [c \in Reliable |-> 0]
    /\ retries = [c \in Reliable |-> [s \in {} |-> 0]]
    /\ expired = {} /\ txCache = [i \in {} |-> 0] /\ lastPolled = 0
    /\ expected = [c \in {} |-> 0]
    /\ reorder = [c \in Reliable |-> {}]
    /\ rxCache = [s \in {} |-> 0] /\ handed = {}
    /\ dataNet = {} /\ ackNet = {} /\ overtaken = {}

\* A table of slots, or of ids, with one more entry.
With(table, slot, entry) ==
    [i \in DOMAIN table \cup {slot} |-> IF i = slot THEN entry ELSE table[i]]

-----------------------------------------------------------------------------
(* The node that sends.                                                    *)

\* relinow_tx_cache_find: the first slot with that id, of whichever channel
Cached(s) == {i \in DOMAIN txCache : txCache[i].seq = s}

\* relinow_tx_cache_remove
RemoveCached(s) ==
    txCache' = IF Cached(s) = {} THEN txCache
               ELSE Restrict(txCache, DOMAIN txCache \ {Min(Cached(s))})

Settle(c, s) ==
    /\ retries' = [retries EXCEPT ![c] = Restrict(@, Pending(c) \ {s})]
    /\ expired' = expired \ {<<c, s>>}
    /\ overtaken' = IF \E t \in SeqId : <<c, t>> \in expired' THEN overtaken
                    ELSE {p \in overtaken : p[1] # c}

\* relinow_send_reliable: the engine takes the packet; without a free slot
\* of the node's cache the call fails there, and nothing goes out.
Send(c) ==
    LET s    == nextTxSeq[c]
        load == [chan |-> c, seq |-> s]
        free == 1 .. TxCacheSize \ DOMAIN txCache
    IN  /\ Cardinality(Pending(c)) < MaxPending
        /\ s < MaxPackets
        /\ nextTxSeq' = [nextTxSeq EXCEPT ![c] = SeqNext(s)]
        /\ retries' = [retries EXCEPT ![c] = With(@, s, 0)]
        /\ IF free = {}
           THEN UNCHANGED <<txCache, dataNet>>
           ELSE /\ txCache' = With(txCache, Min(free), [seq |-> s, load |-> load])
                /\ dataNet' = dataNet \cup {[chan |-> c, seq |-> s, load |-> load]}
        /\ UNCHANGED <<expired, lastPolled, overtaken, receiverVars, ackNet>>

\* relinow_on_receive, ACK
ReceiveAck ==
    \E a \in ackNet :
        /\ Settle(a.chan, a.seq)
        /\ RemoveCached(a.seq)
        /\ UNCHANGED <<nextTxSeq, lastPolled, receiverVars, dataNet, ackNet>>

\* A packet's retransmission timer runs out.
Expire(c, s) ==
    /\ s \in Pending(c)
    /\ expired' = expired \cup {<<c, s>>}
    /\ UNCHANGED <<nextTxSeq, retries, txCache, lastPolled, overtaken,
                   receiverVars, dataNet, ackNet>>

Ready(c) == \E s \in SeqId : <<c, s>> \in expired

\* Place of a channel in the scheduler's scan, from the entry after the one
\* served last.
ScanPlace(c) == (c + NumChannels - 1 - lastPolled) % NumChannels

\* Mutant of Scheduled: the scan always starts at the first entry.
ScheduledFromFirst(c) ==
    /\ c \in Reliable /\ Ready(c)
    /\ \A d \in Reliable : Ready(d) => c <= d

\* relinow_state_scheduler_next: the first RELIABLE channel of the scan that
\* has an expired packet.
Scheduled(c) ==
    /\ c \in Reliable /\ Ready(c)
    /\ \A d \in Reliable : Ready(d) => ScanPlace(c) <= ScanPlace(d)

\* Who waits sees c served; what c itself waited for is over.
Overtake(c) ==
    overtaken' = {p \in overtaken : p[1] # c}
                   \cup {<<d, c>> : d \in {d \in Reliable \ {c} : Ready(d)}}

\* relinow_poll, retransmission: the frame found in the cache under that id
\* goes out on the channel that was scheduled.
PollRetransmit(c, s) ==
    /\ Scheduled(c) /\ <<c, s>> \in expired
    /\ retries[c][s] < MaxRetries
    /\ retries' = [retries EXCEPT ![c][s] = @ + 1]
    /\ expired' = expired \ {<<c, s>>}
    /\ dataNet' = IF Cached(s) = {} THEN dataNet
                  ELSE dataNet \cup {[chan |-> c, seq |-> s,
                                      load |-> txCache[Min(Cached(s))].load]}
    /\ lastPolled' = c /\ Overtake(c)
    /\ UNCHANGED <<nextTxSeq, txCache, receiverVars, ackNet>>

\* Mutant of PollFailed: the frame stays in the cache.
PollFailedKeeping(c, s) ==
    /\ Scheduled(c) /\ <<c, s>> \in expired
    /\ retries[c][s] >= MaxRetries
    /\ retries' = [retries EXCEPT ![c] = Restrict(@, Pending(c) \ {s})]
    /\ expired' = expired \ {<<c, s>>}
    /\ lastPolled' = c /\ Overtake(c)
    /\ UNCHANGED <<nextTxSeq, txCache, receiverVars, dataNet, ackNet>>

\* relinow_poll, retries exhausted
PollFailed(c, s) ==
    /\ Scheduled(c) /\ <<c, s>> \in expired
    /\ retries[c][s] >= MaxRetries
    /\ retries' = [retries EXCEPT ![c] = Restrict(@, Pending(c) \ {s})]
    /\ expired' = expired \ {<<c, s>>}
    /\ RemoveCached(s)
    /\ lastPolled' = c /\ Overtake(c)
    /\ UNCHANGED <<nextTxSeq, receiverVars, dataNet, ackNet>>

-----------------------------------------------------------------------------
(* The node that receives.                                                 *)

\* Mutant of CacheOnArrival: no look for a free slot.
CacheOnArrivalUnbounded(f) ==
    IF f.seq \in DOMAIN rxCache THEN rxCache ELSE With(rxCache, f.seq, f.load)

\* rx_cache after looking up, or storing, the frame that arrived.
CacheOnArrival(f) ==
    IF f.seq \in DOMAIN rxCache \/ Cardinality(DOMAIN rxCache) >= RxCacheSize
    THEN rxCache ELSE With(rxCache, f.seq, f.load)

\* Length of the run of buffered ids behind s that a delivery takes along.
RunLength(c, s) ==
    CHOOSE n \in 0 .. MaxReorder :
        /\ \A i \in 1 .. n : SeqAdd(s, i) \in reorder[c]
        /\ n = MaxReorder \/ SeqAdd(s, n + 1) \notin reorder[c]

\* The engine delivers the ids in S on the channel and expects e next: the
\* ACK names the id before e, each frame found in the cache is handed over.
Deliver(c, S, e, cache) ==
    /\ expected' = [d \in DOMAIN expected \cup {c} |->
                       IF d = c THEN e ELSE expected[d]]
    /\ handed' = handed \cup {<<c, cache[d]>> : d \in S \cap DOMAIN cache}
    /\ rxCache' = Restrict(cache, DOMAIN cache \ S)
    /\ ackNet' = ackNet \cup {[chan |-> c, seq |-> SeqPrev(e)]}

ReceiveFirst(f) ==
    /\ f.chan \notin DOMAIN expected
    /\ Deliver(f.chan, {f.seq}, SeqNext(f.seq), CacheOnArrival(f))
    /\ UNCHANGED reorder

ReceiveExpected(f) ==
    /\ f.chan \in DOMAIN expected /\ f.seq = expected[f.chan]
    /\ LET n   == RunLength(f.chan, f.seq)
           run == {SeqAdd(f.seq, i) : i \in 0 .. n}
       IN  /\ Deliver(f.chan, run, SeqAdd(f.seq, n + 1), CacheOnArrival(f))
           /\ reorder' = [reorder EXCEPT ![f.chan] = @ \ run]

\* Out of order, dropped or duplicate: the frame stays in the cache.
ReceiveOther(f) ==
    /\ f.chan \in DOMAIN expected /\ f.seq # expected[f.chan]
    /\ reorder' = IF /\ IsSeqNewer(f.seq, expected[f.chan])
                     /\ Cardinality(reorder[f.chan]) < MaxReorder
                  THEN [reorder EXCEPT ![f.chan] = @ \cup {f.seq}] ELSE reorder
    /\ Deliver(f.chan, {}, expected[f.chan], CacheOnArrival(f))

\* relinow_on_receive, DATA
ReceiveData ==
    \E f \in dataNet :
        /\ ReceiveFirst(f) \/ ReceiveExpected(f) \/ ReceiveOther(f)
        /\ UNCHANGED <<senderVars, dataNet>>

ChannelsNext ==
    \/ \E c \in Reliable : Send(c)
    \/ ReceiveAck
    \/ \E c \in Reliable, s \in SeqId :
          Expire(c, s) \/ PollRetransmit(c, s) \/ PollFailed(c, s)
    \/ ReceiveData

ChannelsSpec == ChannelsInit /\ [][ChannelsNext]_channelsVars

-----------------------------------------------------------------------------
\* Type correctness of what the channels share, within the slots there are.
ChannelsTypeOK ==
    /\ \A c \in Reliable : /\ nextTxSeq[c] \in SeqId
                           /\ Pending(c) \subseteq SeqId
                           /\ Cardinality(Pending(c)) <= MaxPending
                           /\ reorder[c] \subseteq SeqId
                           /\ Cardinality(reorder[c]) <= MaxReorder
    /\ \A p \in expired : p[1] \in Reliable /\ p[2] \in Pending(p[1])
    /\ DOMAIN txCache \subseteq 1 .. TxCacheSize
    /\ \A i \in DOMAIN txCache : txCache[i] \in [seq : SeqId, load : Load]
    /\ lastPolled \in Channels
    /\ Cardinality(DOMAIN rxCache) <= RxCacheSize
    /\ handed \subseteq Reliable \X Load

\* Channels that share the cache do not leak its slots: of the frames kept
\* under one id there are never more than channels waiting for that id, in
\* spite of ACKs and failures that take away one another's frames.
NoCacheLeak ==
    \A s \in SeqId :
        Cardinality(Cached(s)) <= Cardinality({c \in Reliable : s \in Pending(c)})

\* Round robin: while a channel has an expired packet, no other channel is
\* served twice.
NoDoubleOvertake ==
    [][\A c, d \in Reliable : \A s \in SeqId :
          c # d /\ Ready(c) /\ (PollRetransmit(d, s) \/ PollFailed(d, s))
             => <<c, d>> \notin overtaken]_channelsVars

\* What a channel hands over was submitted on it: the state of a channel is
\* isolated from that of the others.
OwnMessages == \A p \in handed : p[2].chan = p[1]
=============================================================================
