----------------------------- MODULE RelinowNode -----------------------------
(***************************************************************************)
(* One node as an application runs it (examples/esp32_a/main/main.c): the  *)
(* main task sets the node up and then loops, sending on its channels and  *)
(* calling relinow_poll; the Wi-Fi task calls relinow_on_receive and       *)
(* relinow_on_send_status.  A mutex orders their calls once the loop runs, *)
(* but not while the main task still sets the node up, although the radio  *)
(* is on by then.                                                          *)
(*                                                                         *)
(* The loop reads the clock once and waits for the mutex after that; the   *)
(* Wi-Fi task reads it with the mutex held.  A time is kept as its age.    *)
(* Both tasks share the tables, the engine of each channel (here whether   *)
(* its window is open and when its packets were last sent: the rest is     *)
(* RelinowReceiver and RelinowSender), whether a fragmented message is     *)
(* under way (its ids are RelinowLink's) and the reassembly buffer, and    *)
(* all frames go through the codec.                                        *)
(***************************************************************************)
EXTENDS RelinowTables, FiniteSets

CONSTANTS
    PeerMac,               \* cfg.peer_mac
    MainChannel,           \* cfg.channel_id, RELIABLE
    Openings,              \* calls of relinow_open_channel after relinow_init
    MaxPayload,            \* cfg.max_payload, 241 in the code
    Incoming,              \* headers as they are read off frames on the air
    Seqs,                  \* sequence ids that frames of this node may carry
    MaxPending,            \* packets of MainChannel that wait for their ACKs
    MaxReassembly,         \* frames reassembly_buf holds
    BurstCount,            \* RELINOW_UNRELIABLE_BURST_COUNT
    FragmentTimeout,       \* fragment_timeout_ms, in ticks
    RetryTimeout,          \* shortest time to a retransmission, in ticks
    MaxLate                \* bound: ticks from reading the clock to using it

Opening == [id : Byte, mode : Modes, priority : Byte]

ASSUME NodeAssumption ==
    /\ MainChannel \in Byte \ {HeartbeatChannel}
    /\ Openings \in Seq(Opening)
    /\ MaxPayload \in Word \ {0}
    /\ Incoming \subseteq {h \in Header : Decode(Encode(h)) = h}
    /\ Seqs \subseteq Word
    /\ MaxPending \in Nat \ {0} /\ MaxReassembly \in Nat \ {0}
    /\ BurstCount \in Nat \ {0}
    /\ FragmentTimeout \in Nat /\ RetryTimeout \in Nat \ {0} /\ MaxLate \in Nat

VARIABLES
    peers, channels,       \* the tables
    ready,                 \* fields relinow_init has written
    opened,                \* calls of relinow_open_channel that have returned
    pc,                    \* where the main task is
    burst,                 \* frames sent of the burst
    lock,                  \* who holds g_node_lock
    radio,                 \* what the Wi-Fi task has to hand in
    delivering,            \* the channel it delivers packets of
    loopAge,               \* age of the loop's `now`
    pending,               \* ages of last_tx_ms of MainChannel's packets
    fragmentedTxActive,    \* fragmented_tx_active
    buffer, bufferAge,     \* reassembly_buf, as the channels its fragments came
                           \* on, and age of its start
    built, handed          \* headers the last step gave to relinow_send_frame,
                           \* and messages it handed over

tables == <<peers, channels>>
boot == <<ready, opened>>
sending == <<pending, fragmentedTxActive>>
reassembly == <<buffer, bufferAge>>
out == <<built, handed>>
nodeVars == <<tables, boot, pc, burst, lock, radio, delivering, loopAge, sending,
              reassembly, out>>

Fields == {"peer_mac", "max_payload", "on_message"}
LockedCalls == {"reliable", "unreliable", "priority", "poll"}

\* How far ages are told apart: further than any timeout, read late.
MaxAge == FragmentTimeout + RetryTimeout + MaxLate + 1
Older(age) == IF age < MaxAge THEN age + 1 ELSE age

\* now_ms - then_ms > timeout in 32 bits, for the loop's now_ms: a time that
\* is later than now_ms is almost a whole lap before it.
Expired(age, timeout) == age < loopAge \/ age - loopAge > timeout

Quiet == built' = {} /\ handed' = <<>>

NodeInit ==
    /\ peers = EmptyTable /\ channels = EmptyTable
    /\ ready = {} /\ opened = 0 /\ pc = "init" /\ burst = 0
    /\ lock = "free" /\ radio = "idle" /\ delivering = {}
    /\ loopAge = 0 /\ pending = EmptyTable /\ fragmentedTxActive = FALSE
    /\ buffer = <<>> /\ bufferAge = 0
    /\ built = {} /\ handed = <<>>

-----------------------------------------------------------------------------
(* Setting up, without the mutex.                                          *)

\* relinow_init, first half: the peer and its first channel.
InitTables ==
    /\ pc = "init"
    /\ peers' = AddPeer(peers, PeerMac)
    /\ channels' = OpenChannel(channels, MainChannel, RELIABLE, 0)
    /\ pc' = "fields"
    /\ Quiet
    /\ UNCHANGED <<boot, burst, lock, radio, delivering, loopAge, sending, reassembly>>

\* relinow_init, second half.  Nothing orders these writes for the other
\* core.
WriteField ==
    /\ pc = "fields"
    /\ \E f \in Fields \ ready :
          /\ ready' = ready \cup {f}
          /\ pc' = IF ready' = Fields THEN "open" ELSE "fields"
    /\ Quiet
    /\ UNCHANGED <<tables, opened, burst, lock, radio, delivering, loopAge, sending,
                   reassembly>>

\* relinow_open_channel: the entry can be found before its engine is set up,
\* which clears a window that a frame has opened meanwhile.
OpenNext ==
    /\ pc = "open" /\ opened < Len(Openings)
    /\ LET o == Openings[opened + 1]
       IN  /\ channels' = OpenChannel(channels, o.id, o.mode, o.priority)
           /\ IF o.mode = RELIABLE /\ ChannelSlots(channels, o.id) = {}
              THEN pc' = "engine" /\ UNCHANGED opened
              ELSE opened' = opened + 1 /\ UNCHANGED pc
    /\ Quiet
    /\ UNCHANGED <<peers, ready, burst, lock, radio, delivering, loopAge, sending,
                   reassembly>>

\* relinow_reliable_init of the channel just opened
ResetEngine ==
    /\ pc = "engine"
    /\ channels' = [i \in DOMAIN channels |->
                      IF channels[i].id = Openings[opened + 1].id
                      THEN [channels[i] EXCEPT !.started = FALSE]
                      ELSE channels[i]]
    /\ opened' = opened + 1 /\ pc' = "open"
    /\ Quiet
    /\ UNCHANGED <<peers, ready, burst, lock, radio, delivering, loopAge, sending,
                   reassembly>>

EnterLoop ==
    /\ pc = "open" /\ opened = Len(Openings)
    /\ pc' = "top"
    /\ Quiet
    /\ UNCHANGED <<tables, boot, burst, lock, radio, delivering, loopAge, sending,
                   reassembly>>

-----------------------------------------------------------------------------
(* The loop.                                                               *)

\* uint32_t now = now_ms();
ReadClock ==
    /\ pc = "top"
    /\ loopAge' = 0 /\ pc' = "reliable"
    /\ Quiet
    /\ UNCHANGED <<tables, boot, burst, lock, radio, delivering, sending, reassembly>>

\* The call after this one; a burst is several calls.
GoOn ==
    \/ pc = "reliable" /\ pc' = "unreliable" /\ UNCHANGED burst
    \/ pc = "unreliable" /\ burst + 1 < BurstCount
       /\ burst' = burst + 1 /\ UNCHANGED pc
    \/ pc = "unreliable" /\ burst + 1 = BurstCount
       /\ burst' = 0 /\ pc' = "priority"
    \/ pc = "priority" /\ pc' = "poll" /\ UNCHANGED burst
    \/ pc = "poll" /\ pc' = "top" /\ UNCHANGED burst

\* Nothing is due in this mode.
Skip ==
    /\ lock # "main" /\ burst = 0
    /\ \/ pc = "reliable" /\ pc' = "unreliable"
       \/ pc = "unreliable" /\ pc' = "priority"
       \/ pc = "priority" /\ pc' = "poll"
    /\ Quiet
    /\ UNCHANGED <<tables, boot, burst, lock, radio, delivering, loopAge, sending,
                   reassembly>>

\* xSemaphoreTake succeeds ...
Take ==
    /\ pc \in LockedCalls /\ lock = "free"
    /\ lock' = "main"
    /\ Quiet
    /\ UNCHANGED <<tables, boot, pc, burst, radio, delivering, loopAge, sending,
                   reassembly>>

\* ... or gives up after 20 ms (10 ms for the poll): the call is left out.
GiveUp ==
    /\ lock = "radio"
    /\ GoOn
    /\ Quiet
    /\ UNCHANGED <<tables, boot, lock, radio, delivering, loopAge, sending, reassembly>>

\* The header relinow_send_frame builds; it sends the frame if the header
\* passes relinow_encode_header.
Frame(mode, chan, type, flags, seq, ack, len) ==
    [version |-> Version, mode |-> mode, type |-> type, flags |-> flags,
     seq |-> seq, ack |-> ack, chan |-> chan, len |-> len]

\* Lengths of the payloads that are not cut to max_payload
Lens == {1, MaxPayload}

Datagram(mode, chan, seq, len) == Frame(mode, chan, DATA, 0, seq, 0, len)

Whole(seq, len) == Frame(RELIABLE, MainChannel, DATA, 0, seq, 0, len)

\* Mutant of FragmentFlags: the last fragment carries one flag only.
FragmentFlagsEither(last) == IF last THEN LAST_FRAGMENT ELSE FRAGMENT

FragmentFlags(last) == FRAGMENT + (IF last THEN LAST_FRAGMENT ELSE 0)

Fragment(seq, last, len) ==
    Frame(RELIABLE, MainChannel, DATA, FragmentFlags(last), seq, 0, len)

\* next_tx_seq, n packets after the one with id s
IdAfter(s, n) == (s + n) % 65536

\* The first k fragments of a message whose packets begin at id s
Fragments(s, k) == {Fragment(IdAfter(s, n), FALSE, MaxPayload) : n \in 0 .. k - 1}

FreeSlots == 1 .. MaxPending \ DOMAIN pending

\* The slots of `new` are taken by packets whose last_tx_ms is of that age.
Sent(new, age) ==
    pending' = [i \in DOMAIN pending \cup new |-> IF i \in new THEN age ELSE pending[i]]

\* No slot is free, a fragmented message is under way, or this one has too
\* many fragments.
SendRefused ==
    UNCHANGED <<pending, fragmentedTxActive>> /\ built' = {}

\* A message of one frame; without a free slot of tx_cache none is built.
SendWhole(age) ==
    \E i \in FreeSlots, s \in Seqs, len \in Lens :
        /\ ~fragmentedTxActive
        /\ Sent({i}, age)
        /\ built' \in {{}, {Whole(s, len)}}
        /\ UNCHANGED fragmentedTxActive

\* A longer message.  The call may end early, after any fragment: esp_now_send
\* fails, or the slots (the tx_cache) run out because the number of fragments
\* was cut to 8 bits.
SendFragmented ==
    \E new \in (SUBSET FreeSlots) \ {{}}, s \in Seqs, len \in Lens :
        LET k == Cardinality(new)
        IN  /\ ~fragmentedTxActive
            /\ Sent(new, loopAge)
            /\ \/ built' \in {Fragments(s, k - 1), Fragments(s, k)}
               \/ k >= 2 /\ built' = Fragments(s, k - 1)
                             \cup {Fragment(IdAfter(s, k - 1), TRUE, len)}
            /\ fragmentedTxActive' = TRUE

\* Mutant of SendReliable: last_tx_ms is a clock reading of its own.
SendReliableFresh ==
    /\ pc = "reliable"
    /\ SendRefused \/ SendWhole(0)
    /\ UNCHANGED reassembly

\* relinow_send_reliable(..., now): last_tx_ms becomes the loop's now.
SendReliable ==
    /\ pc = "reliable"
    /\ SendRefused \/ SendWhole(loopAge) \/ SendFragmented
    /\ UNCHANGED reassembly

\* relinow_send_unreliable, and relinow_send_priority twice in a row, on a
\* channel that is open in this mode
SendDatagrams(call, mode, n) ==
    /\ pc = call
    /\ LET open == {i \in DOMAIN channels : channels[i].mode = mode}
       IN  \/ open = {} /\ built' = {}
           \/ \E i \in open, s \in Seqs, len \in Lens :
                 built' = {Datagram(mode, channels[i].id, IdAfter(s, k), len) :
                              k \in 0 .. n - 1}
    /\ UNCHANGED <<sending, reassembly>>

\* Mutant of PurgeReassembly: no timeout.
PurgeReassemblyNever == UNCHANGED reassembly

\* Mutant of PurgeReassembly: one tick early.
PurgeReassemblyEarly ==
    IF buffer # <<>> /\ Expired(bufferAge, FragmentTimeout - 1)
    THEN buffer' = <<>> /\ bufferAge' = 0
    ELSE UNCHANGED reassembly

\* The timeout of relinow_poll.
PurgeReassembly ==
    IF buffer # <<>> /\ Expired(bufferAge, FragmentTimeout)
    THEN buffer' = <<>> /\ bufferAge' = 0
    ELSE UNCHANGED reassembly

Ping == Frame(UNRELIABLE, HeartbeatChannel, PING, 0, 0, 0, 0)

\* What tx_cache may hold under an id
Cached(s) ==
    {Whole(s, len) : len \in Lens} \cup Fragments(s, 1)
        \cup {Fragment(s, TRUE, len) : len \in Lens}

\* relinow_poll(&g_node, now): a PING may be due, and one packet that has
\* waited may be sent again, with the frame and the flags that tx_cache holds
\* (none if the frame is no longer there), or given up.  A longer wait than
\* RetryTimeout is up to the engine.
Poll ==
    /\ pc = "poll"
    /\ PurgeReassembly
    /\ \E ping \in {{}, {Ping}} :
          \/ UNCHANGED pending /\ built' = ping
          \/ \E i \in DOMAIN pending, s \in Seqs :
                /\ Expired(pending[i], RetryTimeout - 1)
                /\ pending' = [pending EXCEPT ![i] = loopAge]
                /\ built' \in {ping} \cup {ping \cup {f} : f \in Cached(s)}
          \/ \E i \in DOMAIN pending :
                /\ Expired(pending[i], RetryTimeout - 1)
                /\ pending' = [j \in DOMAIN pending \ {i} |-> pending[j]]
                /\ built' = ping
    /\ UNCHANGED fragmentedTxActive

\* A call with the mutex held, and xSemaphoreGive.
Call ==
    /\ lock = "main"
    /\ \/ SendReliable
       \/ SendDatagrams("unreliable", UNRELIABLE, 1)
       \/ SendDatagrams("priority", PRIORITY, 2)
       \/ Poll
    /\ GoOn
    /\ lock' = "free" /\ handed' = <<>>
    /\ UNCHANGED <<tables, boot, radio, delivering, loopAge>>

-----------------------------------------------------------------------------
(* The Wi-Fi task.                                                         *)

\* The driver calls recv_cb or send_cb.
Arrive ==
    /\ radio = "idle"
    /\ radio' \in {"frame", "status"}
    /\ Quiet
    /\ UNCHANGED <<tables, boot, pc, burst, lock, delivering, loopAge, sending,
                   reassembly>>

RadioTake ==
    /\ radio # "idle" /\ lock = "free"
    /\ lock' = "radio"
    /\ Quiet
    /\ UNCHANGED <<tables, boot, pc, burst, radio, delivering, loopAge, sending,
                   reassembly>>

\* No mutex within 10 ms: the frame, or the status, is dropped.
RadioGiveUp ==
    /\ radio # "idle" /\ lock = "main"
    /\ radio' = "idle"
    /\ Quiet
    /\ UNCHANGED <<tables, boot, pc, burst, lock, delivering, loopAge, sending,
                   reassembly>>

\* xSemaphoreGive in recv_cb and send_cb
RadioGive == lock' = "free" /\ radio' = "idle" /\ UNCHANGED delivering

\* relinow_on_send_status changes nothing.
SendStatus ==
    /\ radio = "status" /\ lock = "radio"
    /\ RadioGive
    /\ Quiet
    /\ UNCHANGED <<tables, boot, pc, burst, loopAge, sending, reassembly>>

\* max_payload, 0 until relinow_init has written it
Limit == IF "max_payload" \in ready THEN MaxPayload ELSE 0

\* A frame the node looks at: from its peer, well formed, and for the
\* heartbeat or for a channel that is open in the frame's mode.
ForUs(h) ==
    /\ "peer_mac" \in ready
    /\ Accepts(Encode(h), HeaderSize + h.len, Limit)
    /\ h.chan = HeartbeatChannel \/ IsOpen(channels, h.chan, h.mode)

Told(messages) == IF "on_message" \in ready THEN messages ELSE <<>>

\* Another peer's frame, one that is refused, a PONG (see RelinowHeartbeat)
\* or a type that the mode does not use.
ReceiveOther(h) ==
    /\ RadioGive
    /\ Quiet
    /\ UNCHANGED <<channels, sending, reassembly>>

\* The PONG takes over the mode of the PING, and its id as ack_id.
ReceivePing(h) ==
    /\ ForUs(h) /\ h.type = PING
    /\ built' = {Frame(h.mode, HeartbeatChannel, PONG, 0, 0, h.seq, 0)}
    /\ handed' = <<>>
    /\ RadioGive
    /\ UNCHANGED <<channels, sending, reassembly>>

\* DATA on an UNRELIABLE or PRIORITY channel; a late frame on the latter is
\* dropped (ReceiveOther).
ReceiveDatagram(h) ==
    /\ ForUs(h) /\ h.type = DATA /\ h.mode # RELIABLE
    /\ built' = {} /\ handed' = Told(<< <<h.chan>> >>)
    /\ RadioGive
    /\ UNCHANGED <<channels, sending, reassembly>>

\* An ACK, of a packet that waits or not.  Whether its id was the last one in
\* fragmented_tx_seq depends on the ids, which RelinowLink keeps: that list is
\* searched for an ACK on any channel.
ReceiveAck(h) ==
    /\ ForUs(h) /\ h.type = ACK /\ h.mode = RELIABLE
    /\ \/ UNCHANGED pending
       \/ h.chan = MainChannel /\ \E i \in DOMAIN pending :
             pending' = [j \in DOMAIN pending \ {i} |-> pending[j]]
    /\ fragmentedTxActive' \in {fragmentedTxActive, FALSE}
    /\ Quiet
    /\ RadioGive
    /\ UNCHANGED <<channels, reassembly>>

\* DATA on a RELIABLE channel: the window is open from now on, the ACK goes
\* out (not if the receive queue is full), and the packets that can be
\* delivered are.
ReceiveReliable(h) ==
    /\ ForUs(h) /\ h.type = DATA /\ h.mode = RELIABLE
    /\ channels' = [i \in DOMAIN channels |->
                      IF channels[i].id = h.chan
                      THEN [channels[i] EXCEPT !.started = TRUE] ELSE channels[i]]
    /\ \/ /\ built' = {}
          /\ RadioGive
       \/ /\ \E s \in Seqs : built' = {Frame(RELIABLE, h.chan, ACK, 0, 0, s, 0)}
          /\ delivering' = {h.chan} /\ UNCHANGED <<lock, radio>>
    /\ handed' = <<>>
    /\ UNCHANGED <<sending, reassembly>>

\* relinow_on_receive, decoded with the limit of the moment.
Receive ==
    /\ radio = "frame" /\ lock = "radio" /\ delivering = {}
    /\ \E h \in Incoming :
          \/ ReceiveOther(h) \/ ReceivePing(h) \/ ReceiveDatagram(h)
          \/ ReceiveAck(h) \/ ReceiveReliable(h)
    /\ UNCHANGED <<peers, boot, pc, burst, loopAge>>

\* Mutant of DeliverFragment: room for one more.
DeliverFragmentBeyond(chan, last) ==
    IF Len(buffer) > MaxReassembly
    THEN buffer' = <<>> /\ bufferAge' = 0 /\ handed' = <<>>
    ELSE /\ buffer' = IF last THEN <<>> ELSE Append(buffer, chan)
         /\ bufferAge' = IF buffer = <<>> \/ last THEN 0 ELSE bufferAge
         /\ handed' = IF last THEN Told(<<Append(buffer, chan)>>) ELSE <<>>

\* A fragment is appended, and the last one hands the message over; a
\* fragment that does not fit resets the buffer and is lost itself.
DeliverFragment(chan, last) ==
    IF Len(buffer) >= MaxReassembly
    THEN buffer' = <<>> /\ bufferAge' = 0 /\ handed' = <<>>
    ELSE /\ buffer' = IF last THEN <<>> ELSE Append(buffer, chan)
         /\ bufferAge' = IF buffer = <<>> \/ last THEN 0 ELSE bufferAge
         /\ handed' = IF last THEN Told(<<Append(buffer, chan)>>) ELSE <<>>

\* A message of one frame
DeliverWhole(chan) ==
    /\ buffer' = <<>> /\ bufferAge' = 0
    /\ handed' = Told(<< <<chan>> >>)

\* One round of the delivery loop of relinow_on_receive
Deliver ==
    /\ \E chan \in delivering :
          \/ DeliverFragment(chan, FALSE)
          \/ DeliverFragment(chan, TRUE)
          \/ DeliverWhole(chan)
    /\ built' = {}
    /\ UNCHANGED <<tables, boot, pc, burst, lock, radio, delivering, loopAge, sending>>

Delivered ==
    /\ delivering # {}
    /\ delivering' = {} /\ lock' = "free" /\ radio' = "idle"
    /\ Quiet
    /\ UNCHANGED <<tables, boot, pc, burst, loopAge, sending, reassembly>>

\* Time passes, but for the handlers, which take no time of their own.
Tick ==
    /\ delivering = {} /\ loopAge < MaxLate
    /\ loopAge' = loopAge + 1
    /\ bufferAge' = IF buffer = <<>> THEN 0 ELSE Older(bufferAge)
    /\ pending' = [i \in DOMAIN pending |-> Older(pending[i])]
    /\ Quiet
    /\ UNCHANGED <<tables, boot, pc, burst, lock, radio, delivering, buffer,
                   fragmentedTxActive>>

-----------------------------------------------------------------------------
MainStep ==
    \/ InitTables \/ WriteField \/ OpenNext \/ ResetEngine \/ EnterLoop
    \/ ReadClock \/ Skip \/ Take \/ GiveUp \/ Call

RadioStep == RadioTake \/ RadioGiveUp \/ SendStatus \/ Receive \/ Delivered

NodeNext == MainStep \/ RadioStep \/ Arrive \/ Deliver \/ Tick

NodeSpec == NodeInit /\ [][NodeNext]_nodeVars

\* Both tasks run, a handler ends, and time passes.
NodeFairSpec ==
    /\ NodeSpec
    /\ WF_nodeVars(MainStep) /\ WF_nodeVars(RadioStep) /\ WF_nodeVars(Tick)

-----------------------------------------------------------------------------
\* Type correctness, with what the two tasks must leave alone: the fields of
\* the slots, the length of the reassembly buffer and the ages.
NodeTypeOK ==
    /\ DOMAIN peers \subseteq 1 .. MaxPeers
    /\ DOMAIN channels \subseteq 1 .. MaxChannels
    /\ \A i \in DOMAIN channels :
          channels[i] \in [id : Byte, mode : Modes, priority : Byte, started : BOOLEAN]
    /\ ready \subseteq Fields /\ opened \in 0 .. Len(Openings)
    /\ pc \in {"init", "fields", "open", "engine", "top"} \cup LockedCalls
    /\ burst \in 0 .. BurstCount - 1
    /\ lock \in {"free", "main", "radio"} /\ radio \in {"idle", "frame", "status"}
    /\ delivering \subseteq Byte
    /\ loopAge \in 0 .. MaxLate /\ bufferAge \in 0 .. MaxAge
    /\ DOMAIN pending \subseteq 1 .. MaxPending
    /\ \A i \in DOMAIN pending : pending[i] \in 0 .. MaxAge
    /\ fragmentedTxActive \in BOOLEAN
    /\ buffer \in Seq(Byte) /\ Len(buffer) <= MaxReassembly

\* The engine's clock never runs backwards: while the loop works with a clock
\* reading, no packet carries a later last_tx_ms, so that now_ms - last_tx_ms
\* cannot wrap and start a retransmission at once.  (The start of a
\* reassembly may be later: see BufferLostForCause.)
TimersNeverAhead ==
    pc \in LockedCalls => \A i \in DOMAIN pending : pending[i] >= loopAge

\* A PONG that takes a PING's id over into ack_id, which a header in UNRELIABLE
\* mode may not have.
AnswersNumberedPing(h) == h.type = PONG /\ h.mode = UNRELIABLE /\ h.ack # 0

\* relinow_send_frame never refuses a header that a handler built, whole
\* message, fragment, retransmission, ACK or heartbeat, and another node with
\* the same max_payload takes it, field by field.  The one exception is the
\* PONG to an UNRELIABLE PING that carries an id: it is not sent at all.
BuiltFramesDecode ==
    \A h \in built :
        /\ Decode(Encode(h)) = h
        /\ Accepts(Encode(h), HeaderSize + h.len, MaxPayload)
              <=> ~AnswersNumberedPing(h)

BeginsWith(s, t) == Len(t) <= Len(s) /\ \A i \in 1 .. Len(t) : s[i] = t[i]

\* A message that is being put together goes on, is handed over, or is lost
\* for one of four causes: it is older than fragment_timeout_ms, it was begun
\* after the loop read the clock, a message of one frame came in between on
\* any channel, or it does not fit.  Losses that only a node which is being
\* set up suffers (on_message not written yet) come on top.
BufferLostForCause ==
    [][ \/ BeginsWith(buffer', buffer)
        \/ handed' # <<>> /\ BeginsWith(handed'[1], buffer)
        \/ bufferAge > FragmentTimeout
        \/ pc = "poll" /\ bufferAge < loopAge
        \/ delivering # {} /\ handed' # <<>> /\ Len(handed'[1]) = 1
        \/ delivering # {} /\ Len(buffer) = MaxReassembly
        \/ delivering # {} /\ pc = "fields"
      ]_nodeVars

\* A channel that is open stays what it is, in its slot, and its receive
\* window stays open, through the opening of others and of itself, frames
\* and timeouts.  The one exception: the engine of a channel that a frame
\* reaches while it is being opened.
ChannelsKept ==
    [][\A i \in DOMAIN channels :
          /\ i \in DOMAIN channels'
          /\ channels'[i].id = channels[i].id /\ channels'[i].mode = channels[i].mode
          /\ channels[i].started =>
                \/ channels'[i].started
                \/ pc = "engine" /\ channels[i].id = Openings[opened + 1].id
      ]_nodeVars

\* A message whose rest never comes is discarded, if relinow_poll is not kept
\* from the mutex for ever.
SilenceClearsBuffer ==
    /\ <>[](radio # "frame")
    /\ []<>(pc = "poll" /\ lock = "main")
    => <>[](buffer = <<>>)
=============================================================================
