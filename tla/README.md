# ReliNow in TLA+

ReliNow is a small transport for ESP-NOW radios: two microcontrollers exchange
datagrams of at most 250 bytes that may get lost, and ReliNow gives them
channels with a delivery mode each. The library is four C files under
`src/core/src` (1864 lines); everything else in the repository is bindings,
examples, benchmarks, tests and documentation.

This directory holds a model of that library: TLA+ modules translated from the
C code, TLC configurations that check them on small instances, and proofs that
TLAPS checks for every value of the constants.

## Inventory

| Part | State | Operations | Modelled by |
| --- | --- | --- | --- |
| Sequence ids (`relinow_packet.c`) | none | `relinow_is_seq_newer`, `relinow_seq_next` | `RelinowPacket` |
| Header codec (`relinow_packet.c`) | none | encode, decode, validate | `RelinowHeader` |
| Receive engine (`relinow_reliable.c`, `relinow_state.c`) | `has_rx_window`, `expected_rx_seq`, `reorder[8]`, the channel's `rx_queue[8]` | `relinow_reliable_on_data`, `relinow_state_reliable_on_data`, `relinow_state_set_reliable_config` | `RelinowReceiver` |
| Transmit engine (same files) | `pending[16]` with retries, time and timeout of each packet, `rtt_ms`, the channel's `tx_queue[16]`, `inflight_seq` | `relinow_state_reliable_send`, `..._on_ack`, `..._poll`, `set_reliable_config` | `RelinowSender`, abstractly `RelinowRetry` |
| RELIABLE path of the adapter (`relinow_espnow.c`) | `tx_cache[16]`, `rx_cache[9]`, `fragmented_tx_seq[16]`, `reassembly_buf` | `relinow_send_reliable`, `relinow_on_receive`, `relinow_poll` | `RelinowLink`, abstractly `RelinowDelivery` |
| Multiplexing and scheduler (`relinow_espnow.c`, `relinow_state.c`) | `last_polled_channel_idx`, the caches above, shared by all channels | `relinow_state_scheduler_next`, `relinow_poll` | `RelinowChannels` |
| UNRELIABLE and PRIORITY modes | `next_tx_seq`, `expected_rx_seq`, `has_inflight`, `stats` | both send functions, both receive branches | `RelinowDatagram` |
| Heartbeat on channel 0xFF | `missed_pongs`, `last_ping_sent_ms` and the configuration | configure, poll, PING, PONG | `RelinowHeartbeat` |
| Peer and channel tables (`relinow_state.c`) | fixed arrays filled at start | `add_peer`, `find_peer`, `open_channel`, `get_channel_mode` | `RelinowTables`, `RelinowNode` |
| A node in an application (`examples/esp32_a`, `esp32_b`) | the two tasks, `g_node_lock`, the loop's `now` | `app_main`, `recv_cb`, `send_cb` | `RelinowNode` |
| Rust bindings, benchmark, tests, tools | none of the library's | | not modelled |

How the parts interact. The application calls `relinow_send_*` and, from its
main loop, `relinow_poll`; the radio's receive callback calls
`relinow_on_receive`, in the Wi-Fi task. The examples put one mutex round each
call of the loop and of the callbacks, so that a call is atomic, and in the
models of the library an action is one such call. What the mutex does not
cover, the set-up and the reading of the clock, is the subject of `RelinowNode`. The adapter calls the channel
layer (`relinow_state.c`), which calls the engine (`relinow_reliable.c`) and
keeps its own record of the same packets beside it. Nodes interact by DATA, ACK,
PING and PONG frames only, and applications hear of events by the callbacks
`on_message`, `on_tx_event` and `on_peer_timeout`.

What is hard about it, and what would make it right:

* three records of the same pending packets (engine slots, `tx_queue`,
  `inflight_seq`) and a fourth in the adapter (`tx_cache`), updated one after the
  other with the results ignored: they must agree;
* ids that wrap, compared by serial arithmetic, with buffered ids that stay
  while the window goes on: nothing stale may ever be taken for new;
* ACKs that name one id, counted cumulatively by the receiver and exactly by the
  sender, lost and delayed like anything else: no packet may be settled that was
  not received, none may be handed over twice or out of order, and each must be
  delivered or reported in the end;
* fixed tables everywhere, with a different error path for each that is full;
* fragments, which are packets of their own to the engine but belong together
  for the adapter: messages must arrive whole or not at all;
* several channels over one pair of caches, one reassembly buffer and one
  scheduler;
* timers read from a polling loop that may be late, with a time it read before
  it waited for the mutex;
* a radio that is on before the node is set up.

`PROJECT.json` lists these hazards one by one, each at the line where it bites
and with the properties that cover it.

## Modules

```
RelinowPacket                 serial arithmetic
  |-- RelinowReceiver         receive window         -> RelinowReceiver_proofs
  |-- RelinowRetry            retry discipline, abstract
  |     ^ implemented by
  |-- RelinowSender           slots, timers, RTT     -> RelinowSender_proofs
  |-- RelinowLink             = Retry + Receiver + caches + fragments + radio
  |     |                                            -> RelinowLink_proofs
  |     implements RelinowDelivery                   -> RelinowDelivery_proofs
  |-- RelinowChannels         several channels, shared caches, scheduler
  |                                                  -> RelinowChannels_proofs
  `-- RelinowDatagram         UNRELIABLE and PRIORITY, end to end
                                                     -> RelinowDatagram_proofs
RelinowHeartbeat              PING, PONG and timeout -> RelinowHeartbeat_proofs
RelinowHeader                 the nine bytes         -> RelinowNode_proofs
  `-- RelinowTables           peers and channels     -> RelinowNode_proofs
        `-- RelinowNode       set-up, two tasks, lock, clock, reassembly
                                                     -> RelinowNode_proofs
```

**RelinowPacket.** Ids are `0 .. SeqSpace - 1`; the code has 65536 of them. The
operators are the casts of the C code written with comparisons. A distance of
exactly half the space counts as older, as `(int16_t)` makes it.

**RelinowReceiver.** `relinow_reliable_on_data` has five outcomes, one action
each: `OpenWindow` (the first frame), `DeliverRun` (the expected id with the run
of buffered ids behind it), `BufferAhead`, `DropAhead` (no reorder slot) and
`Duplicate`. Each is the whole of `relinow_state_reliable_on_data`, the receive
queue included: `Enqueue` fills a slot for each delivered id, up to
`RxQueueSize`, because no code of the library takes one out; what it does when
full is the code's early return. `SetReliableConfig` reinitialises the engine but
not `expected_rx_seq` of the channel. The reorder slots are a set of ids: the
code looks them up by id only.

**RelinowSender.** Slots are a function from `1 .. MaxPending` to a packet or
none, as the first-free and first-match loops make the slot's index matter.
`Send`, `OnAck`, `PollRetransmit`, `PollFailed` and `SetReliableConfig` are the
functions of `relinow_state.c` with all they call. `Send` takes the next id whether or
not a packet with that id still waits, as the code does, so that after a lap two slots
may hold the same id. Time is what has elapsed since
a packet was last sent, counted up to the widest timeout: the code compares nothing
else. `Timeout` and `NewRtt` are the C expressions with their clamps. The history variable
`silence` measures for how long a slot has been filled; no action reads it. The refinement
`ImplementsRetry` maps the slots to `RelinowRetry`'s function from pending ids to
retries, on every step before and after which the ids are distinct (`UniqueSeqs`).

**RelinowRetry.** What a sender's other half may rely on, without clock, slots
or RTT. `RelinowLink` composes this module, not the timed one; the theorem
`TxImplementsRetry` is what entitles it to, and `LinkRefinesRetry` shows that the link
adds nothing to it. That timers expire at any time is
more than any clock allows. That `SendBurst` uses no id that is still pending is a premise,
not a check of the code: the link sends fewer packets than there are ids, so that it holds there.

**RelinowLink.** One RELIABLE channel between nodes A and B. `dataNet` and
`ackNet` hold every frame ever sent, and any of them is received at any time, any
number of times, or never: loss, duplication, delay and reordering need no actions
of their own. Within one lap of the ids an id names a frame, so that a frame is
represented by its id and a message by the sequence of its ids; what a payload
carries is then a question of which ids come out, in which order and grouping.
`Accept` and `Refuse` are the rest of `relinow_on_receive` after the engine's
answer: the cache, the ACK, the hand-over with the reassembly buffer. `DeliveryLoop` is
the `for` over the delivered ids, of which `Turn` is one: what is not in the cache is passed over.
`SendTruncated` is the message of 256 fragments or more, whose 8-bit count lets it
past the checks: fragments go out until the slots are gone.

**RelinowDelivery.** The promise of README.md:31, "Guaranteed & In-Order": a
gap-free run of the submitted messages, each whole, once.

**RelinowChannels.** Engines in abstract form, one per channel, round the state
the node has only once: `txCache` and `rxCache`, looked up by sequence id alone,
and the scheduler. Here payloads are explicit, since two channels use the same
ids. Messages are single frames.

**RelinowDatagram.** Both modes without retransmission; the channel's mode is
chosen in the initial state. A frame carries a number beside its id, for the
properties only, so that they can speak of newer and older across the wrap.

**RelinowHeartbeat.** One node that monitors and a peer that answers while it is
up. PINGs and PONGs have no identity in the code, hence are counted.

**RelinowHeader.** Shifts and masks as quotients and remainders. `Valid` is
`relinow_validate_header`, `Accepts` all that `relinow_decode_header` asks of a frame.
`FragmentCount` is the number of fragments after its cast to `uint8_t`.

**RelinowTables.** A table is a function from the slots in use; `AddPeer` and
`OpenChannel` are the code's two loops, over the known entries and over the free
slots, with the refusals of the second.

**RelinowNode.** The whole node as `esp32_a` and `esp32_b` run it. The main task goes
through `relinow_init` (first the tables, then the fields, in any order, as nothing
orders them for the other core), the openings and the loop; `ReadClock` is the
loop's only reading of the clock, `Take` and `GiveUp` the two outcomes of
`xSemaphoreTake`. The Wi-Fi task has a frame or a send status in hand (`Arrive`),
waits (`RadioTake`, `RadioGiveUp`) and runs the handler; the delivery loop of
`relinow_on_receive` is one step for each packet, with an environment that chooses
what the engine delivers, as the engine is `RelinowReceiver`'s matter. `built` holds the
headers that the last step gave to `relinow_send_frame`, whether or not that accepted them:
whole messages, fragments with their flags, what `relinow_poll` takes out of `tx_cache`, ACKs,
PINGs and PONGs. `SendReliable` has the call's three outcomes, `SendRefused` (also while
`fragmentedTxActive`), `SendWhole` and `SendFragmented`, which may break off after any fragment.
How long a packet waits before `Poll` sends it again is the engine's matter: at least
`RetryTimeout`. Times are
ages: `loopAge` is how old the loop's `now` is, and `Expired` is the C code's
unsigned difference, which wraps when the time it is compared with is later. The
reassembly buffer is the sequence of the channels its fragments came on.

`PROJECT.json` maps every definition to the lines it stands for.

## Runs

| Run | Checks | Shows |
| --- | --- | --- |
| receiver | `RxTypeOK ReorderAhead DeliveryDrains NoGapSkipped BufferedThenDelivered` | the receive window under arbitrary ids in any order, round the wrap |
| sender | `TxTypeOK TxQueueMirrors InflightPending FailedAfterSilence BackoffGrows ImplementsRetry SlotsSettleUnlessStarved` | the records agree, also after a lap of ids; no packet is given up or sent again too early; a slot is held for ever only if lower ones are refilled for ever |
| link | `PendingFragmentsTracked IntactMessages AckedReachesApp ImplementsDelivery DeliveredOrFailed GapFillsOrFails` | the end-to-end promise over an arbitrary radio, from initialisation on, and that a gap ends |
| link_hostile | `LinkTypeOK AckedWasReceived TxCacheMirrors OneFragmentedMessage FramesInOrder SpoiltForCause HandedFitsQueue` | what still holds with full queues and caches, fragment timeouts, send errors, truncated messages and a first frame that is a fragment, together; and what may come out other than it was submitted |
| channels | `ChannelsTypeOK NoCacheLeak NoDoubleOvertake` | sharing the caches leaks no slot; the scheduler is fair |
| datagram | `DatagramTypeOK LossesBounded NewestWins` | newest wins; losses are never under-reported |
| heartbeat | `HeartbeatTypeOK TimeoutAfterSilence DeadPeerReported` | no report before the agreed silence, and none missed |
| node | `NodeTypeOK TimersNeverAhead BuiltFramesDecode BufferLostForCause ChannelsKept SilenceClearsBuffer` | two tasks, a lock and a stale clock leave the engine's times, the channels and the frames right, and lose a message for known causes only |
| link_queue_full | violates `AckedReachesApp` | see below |
| link_expected_ack | violates `ExpectedAcknowledged` | see below |
| link_fragment_failed | violates `FragmentedTxEnds` | see below |
| channels_isolation | violates `OwnMessages` | see below |

### Bounds, and why they are enough

* *Id space.* `SeqSpace` is 4 to 12 where the code has 65536. What matters is its
  ratio to the window: more than twice `MaxReorder`, so that ids ahead, behind
  and half a lap away all exist. The receiver's run feeds every id at any time
  and goes round the wrap without end. `RelinowDatagram` sends one and a half laps.
* *Tables.* Two or three pending slots, one or two reorder slots and one to three
  cache slots: enough for a full table, for two packets that overtake each other
  and for a gap with something behind it. In `channels` the two slots of `tx_cache` serve two
  channels with one packet each, so that a send never finds it full: with three channels the run takes
  minutes, and with a cache of one slot no two packets would share an id. That the branch of the
  full cache leaks nothing is shown by the theorem `ChannelsNoCacheLeak`, which has no such bound. In `link` the queue and
  the cache have room for all packets there are; that is its premise, and the
  runs `link_queue_full` and `link_hostile` drop it.
* *Packets.* `MaxPackets` (4 or 5 in the link) keeps the link within one lap, so that
  ids can stand for frames. Wrap and stale ids are the business of the receiver's
  run and of its theorems, which have no such bound.
* *Radio.* Unbounded: every frame stays available. In `RelinowHeartbeat` at most
  `MaxAir` frames of a kind are in the air; more are lost at once. In
  `RelinowDatagram` a frame is assumed not to arrive half a lap or more apart from
  the newest one (`InReach`): beyond that the serial arithmetic says nothing.
* *Lap over a pending packet.* `sender` has four ids for two slots and sends without end, so that
  both slots come to hold the same id.
* *Fragments.* Up to three per message. `ColdFragments` and `LongMessages` say
  whether fragmented messages may be sent before the window is open and whether
  a count may wrap: both break whole messages (below), so `link` leaves them out and
  `link_hostile` has them. There the buffer has room for three frames, so that a head left behind
  fits in front of a whole message of two, and fills the buffer in front of one of three. `MaxWork`
  bounds packets and messages taken together, so that five packets are sent only if some share a
  message: in `link_hostile` two messages of five packets, enough to overrun its queue of four
  places, or three of four. Each of the three causes that `SpoiltForCause` allows occurs within
  these bounds: without it the run finds a counterexample.
* *Node.* Two slots for the one peer, four for the four channels: those of
  `esp32_a`, and two more openings that it does not make, a second RELIABLE channel
  and the main one once more with another priority, since `relinow_open_channel` allows
  both at any time. Two packets may wait for their ACKs, so that a message of two fragments
  goes out whole or breaks off after either; two fragments fill the reassembly
  buffer, two frames are a burst. The loop's `now` gets at most `MaxLate = 1` tick
  old; with `FragmentTimeout = 1` and `RetryTimeout = 1` a message or a packet can be younger than
  `now`, as old, and older by more than the timeout. Ages stop at `MaxAge`, beyond all of these. The
  node's own id is 515, whose two bytes differ; `Incoming` has each kind of frame, PINGs with and
  without an id, one frame that is too long and one for a channel in the wrong mode.
* *Time.* Elapsed times stop at the largest value anyone compares with. That the
  32-bit clock wraps after 49 days makes no difference to differences shorter than that.

### Fairness

`RelinowSender` assumes that the clock advances and that the main loop polls
(weak fairness of `Tick` and of `Poll`), `RelinowLink` only the latter, since its
timers may expire at any time, and `RelinowHeartbeat` both. The main loops of all
examples call `relinow_poll` unconditionally. Nothing is assumed of the radio: no
fairness on receiving. `DeliveredOrFailed` therefore says delivered *or* reported, and
`GapFillsOrFails` allows the gap to end with a report.

`RelinowNode` has a scheduler's fairness: each task takes steps while it can, and
time passes. That is not enough for the poll: the loop gives up after 10 ms, and
a Wi-Fi task with a frame at every such moment keeps it from the mutex for
ever. `SilenceClearsBuffer` therefore has as its premise that the poll gets the
mutex again and again, and that frames stop coming.

## What is proved

`RelinowReceiver_proofs`, from `SeqSpaceAssumption` and `ReorderAssumption` (the
reorder buffer fits in half the id space): `RxTypeCorrect`, `RxReorderAhead`,
`RxNoWindowNoReorder`, `RxDeliveryDrains`, `RxNoGapSkipped`,
`RxBufferedThenDelivered`. The inductive invariant
`RxInv` is the type, `ReorderAhead` and `NoWindowNoReorder`. That a delivery keeps
what stays buffered ahead of the new expected id needs two facts: the run ends before an
id that is not buffered, or it has used up the whole buffer (`FullRun`, a counting
argument); and moving the base of a distance shortens it by as much, wherever the wrap
falls (`SeqDiffShift`).

`RelinowSender_proofs`, from the same, `RetryAssumption` and `SenderAssumption`:
`TxTypeCorrect`, `TxQueueAgrees`, `TxInflightPending`, `TxFailedAfterSilence`,
`TxBackoffGrows` and the refinement `TxImplementsRetry`, of which `TxRefinesRetry` is the form
without a premise on steps: an execution whose ids stay distinct is one of `RelinowRetry`. The
invariant `TxInv` adds to the type and the two agreements that `tx_queue` has as many entries as
the engine has packets (`SameSize`), so that a send never finds it full, and that what a packet has
waited so far is at least the shortest waits of its retries and the time since the last
(`SilenceAccounts`), from which `FailedAfterSilence` follows at the last one. The agreement of
`tx_queue` is one of numbers of entries for each id, not of slots: after a lap the poll and
`relinow_tx_remove_seq` may pick different ones of two packets with the same id.

`RelinowLink_proofs`, from the assumptions of the composed modules and
`LinkAssumption`: `LinkAckedWasReceived` and `LinkTxCacheMirrors`. An ACK settles a packet
long after it was sent, so the invariant `LinkInv` has to speak of what is in the air:
every ACK names an id that the window has passed, the window never passes the newest id
sent, and everything buffered, pending or in the air was sent. `RunWithinUsed` shows
that a delivered run cannot reach beyond the ids in use. A second invariant,
`FragmentsInv`, gives `LinkFragmentsTracked` and `LinkOneFragmentedMessage`, for messages
of any length and sends that break off anywhere: messages share no ids, so that a packet
belongs to one message, and as long as one fragment is pending no other message begins.
`LinkRefinesRetry` shows that every step of the link is one of `RelinowRetry` for the
sender's packets, or leaves them alone.

`RelinowDelivery_proofs`, from the same assumptions, is about what the receiving
application gets.

* For every execution, with everything that `link_hostile` allows: `LinkRefinesReceiver` (the
  link's window takes `RelinowReceiver`'s steps, so that the theorems about the engine
  apply), `LinkFramesInOrder`, `LinkTypeCorrect`, `LinkSpoiltForCause` and
  `LinkHandedFitsQueue`. The invariant `OrderInv` says that what was
  handed over, followed by what is being reassembled, is increasing and lies below the
  window: the window only goes forward, and each delivered run lies between its old and
  its new place. `MessagesInv` lays the submitted messages, whole or cut short, out over the ids
  without gaps or overlaps. `EndInv` rests on it: a message is handed over only at a last frame,
  and each frame handed over or in the buffer is counted against a place in the receive queue.
  `ClosedInv` adds that the last frame of a whole message never stays in the buffer, nor stands in
  the middle of what is handed over. With the order it follows that a message
  of which nothing was lost, behind one whose last frame was not lost, comes out as it was (`NoneLostExact`).
* Under the premises `Undisturbed` and `CacheRoom`, sends that break off included:
  `LinkSpoilsOnlyNextWhileRoom`: then of the three causes of `SpoiltForCause` the
  cut-short send is the only one left. A broken send leaves a head behind, so the content of the
  buffer is no longer known; but the place of the frame that comes next in the
  list of messages is. `SpoilInv` says that, and that the buffer holds what precedes this frame in
  its message whenever the message and the one before it are whole (`Clean`). It is
  inductive because the last frame of every whole message empties the buffer, whatever was in it.
* Under the same premises, for as long as no message was cut short (`NoneCutShort`):
  `LinkIntactWhileRoom` and the refinement `LinkDeliversWhileRoom`. `DeliveryInv` puts the
  application at a `Cursor` in that list: so many whole messages handed over since the
  first one heard, the beginning of the next one in the buffer, and the frame that comes
  next is the one the window expects, unless the queue is full; then the cursor stays for
  ever while the window goes on. Each turn of the loop moves the cursor by one frame, and
  the step as a whole is a `Deliver` of the messages it passed, or a stutter.
* Under these premises, until the receive queue is full: `LinkAckedWhileRoom`. `AckInv` says that
  every id an ACK in the air may name has been handed over or is in the reassembly buffer.
* `SlotsSuffice`: with `MaxPackets <= RxCacheSize` the cache always has room. So
  `LinkSpoilsOnlyNext` and `LinkIntactMessages` need no premise `[]CacheRoom`, and
  `LinkAckedReachesApp` takes `QueueSuffices` (`MaxPackets <= RxQueueSize`) besides.
* `LinkNoneCutShort`: no message is cut short if counts do not wrap and no send fails, or only
  sends of one frame do. So `LinkImplementsDelivery` needs no premise on states.

`Undisturbed` says: no fragment timeout, no fragments before the window is open, and a buffer for
every message. Counts may wrap and `esp_now_send` may fail anywhere. `CacheRoom`, as `[]CacheRoom`,
says that a frame finds a slot of `rx_cache` whenever it arrives while the queue is not full; the
number of packets is then left open. With the code's 9 slots and 8 places it holds of a session in
which duplicates and dropped frames have not used up the slots by the time of the eighth delivery;
after that nothing is handed over any more. The run `link` satisfies all the premises, and
"Where the code differs" says what happens
without each of them. The proofs need no bound on retries, reordering, message length or the size
of the id space beyond the one lap of the model.

What the loop computes is not found by an induction theorem, which the provers cannot
instantiate, but by the least number of turns after which the claim fails (`CountUp`, from the
well-foundedness of `<`); the same lemma serves every claim about the loop.

`RelinowHeartbeat_proofs`, from `HeartbeatAssumption`: `HeartbeatTypeCorrect` and
`HeartbeatTimeoutAfterSilence`. The invariant measures the silence: with k > 0 PONGs
missed, at least k - 1 whole intervals and the time since the last PING have passed.
The products of it are compared by the lemma `MultiplesGrow`.

`RelinowDatagram_proofs`, from `SeqSpaceAssumption` and `DatagramAssumption`, and within the
reach that `InReach` grants the radio: `DatagramTypeCorrect`, `DatagramLossesBounded`,
`DatagramNewestWins`. `DatagramInv` says that numbers and ids differ by a constant
within a lap (`Numbered`), that `expected_rx_seq` stands for the newest frame received
(`NewestKept`) and where the counters are (`Counted`). The lemma `NewerIsLater` turns the serial
comparison into one of numbers.

`RelinowChannels_proofs`, from `ChannelsAssumption`: `ChannelsTypeCorrect`, `ChannelsNoCacheLeak`
and `ChannelsNoDoubleOvertake`, for any number of channels. A frame is cached when its packet is
taken and one is removed when any channel settles that id, so that cached frames and
waiting channels are counted against each other. For the scheduler the invariant
`WaiterFirst` says that who was overtaken once is ahead in the scan that follows; `ScanShift`
is the arithmetic of the scan's start.

`RelinowNode_proofs` begins with the header, from no assumption: `DecodeEncode` and `SentIsAccepted` (what a node sends, a
node with the same limit takes, field by field), `LargerPayloadRefused`, `CountExact` and
`CountWraps` (the 8-bit count is right up to 255 frames, and 0 for 256).

The rest of `RelinowNode_proofs`, from `TablesAssumption` and `NodeAssumption`: `PeersStayDistinct` and
`OpenChannelKeeps` about the tables; of the node `NodeTypeCorrect`, `NodeTimersNeverAhead`,
`NodeChannelsKept`, `NodeIdsDistinct`, `NodeBufferLostForCause` and `NodeBuiltFramesDecode`. `NodeInv`
adds to the type what the set-up guarantees (`Booted`: nothing is received before
`peer_mac` is written, and only then may `on_message` be missing) and `TimersNeverAhead` itself:
it is inductive because only the loop writes `last_tx_ms`, from the same reading it
compares it with. `NodeBuiltFramesDecode` goes through the handlers one by one: which flags, ids and
lengths each can build, that the codec returns them as they were, and that no check of
`relinow_validate_header` meets them, but for one, that of `ack_id` in a PONG (below). It needs of
the state only that channel ids are ordinary ones (`IdsOrdinary`, part of `TablesOK`). The reassembly buffer has no such invariant, as the Wi-Fi task writes its
start.

Every safety property of the passing runs is a theorem. Model-checked only are the liveness
properties, since the prover has no rule for fairness and `ENABLED`: `SlotsSettleUnlessStarved`,
`DeliveredOrFailed`, `GapFillsOrFails`, `DeadPeerReported` and `SilenceClearsBuffer`.

## Where the code differs from what is written about it

With a run, listed under "findings":

* `link_queue_full`: `rx_queue` is filled on delivery and never emptied. After eight
  deliveries a frame the engine delivered is neither acknowledged nor handed over, and
  its retransmission is acknowledged as a duplicate.
* `link_expected_ack`: a frame that closes a gap is never named by an ACK; the sender,
  which settles exact ids, retransmits it until it fails, although it was delivered.
  The answer to a duplicate has the same weakness: it names the id before the expected
  one, where PROTOCOL.md:140 says "resend ACK".
* `link_fragment_failed`: a fragment that is given up stays in `fragmented_tx_seq`, and
  the node refuses every reliable send from then on.
* `channels_isolation`: the caches are looked up by sequence id alone, so two RELIABLE
  channels that use the same id send or hand over one another's messages.

Met while modelling, without a run of their own:

* each poll serves the first expired slot only (relinow_reliable.c:189), from slot 0 on. With
  timeouts shorter than the period of the polls, packets that fail and are replaced in a low slot
  keep a higher one from ever being retransmitted or reported, where PROTOCOL.md:133-134 has a packet
  retransmitted up to three times and then reported. `SlotsSettleUnlessStarved` fails without its second
  alternative;
* docs/src/modes_reliable.md:25 has the timeout doubled at each retry; the code waits 1.5, 2 and 3
  times the RTT estimate of the moment (PROTOCOL.md:217-220 agrees with it), so that a wait may even be
  shorter than the one before. With the default three retries the shortest time to a FAILED is
  9 ms, not 9.5 times the RTT at the first transmission: `FailedAfterSilence` states what is left;
* an UNRELIABLE PING that carries an id gets no PONG: its id becomes the PONG's `ack_id`
  (relinow_espnow.c:496), which `relinow_validate_header` refuses in UNRELIABLE mode
  (relinow_packet.c:49), while
  PROTOCOL.md:286 has "The receiver MUST respond with PONG". The library's own PINGs carry id 0.
  `BuiltFramesDecode` states it as its exception;
* duplicates and dropped frames keep their slot of `rx_cache` (relinow_espnow.c:548); with
  none left, frames are acknowledged and not handed over. `AckedReachesApp` fails in
  `RelinowLink` with `RxCacheSize` small;
* the first fragment to arrive opens the window, whichever it is (relinow_reliable.c:231), a
  fragment timeout forgets which message it purged (relinow_espnow.c:626), and a
  fragmented send that fails half way (relinow_espnow.c:359) leaves a head that the next
  message is joined to. `IntactMessages` fails with each of these enabled;
  `SpoiltForCause` says how far the damage reaches: to messages that lost a frame
  themselves, and to the fragmented message right behind one that was cut
  short or lost its last frame;
* a message of 256 fragments or more passes the check for free slots
  (relinow_espnow.c:317), goes out as far as the slots reach and ends with an error;
  `CountWraps` is the arithmetic, `LongMessages` its effect;
* `relinow_poll` compares the start of a reassembly with a `now` that may be older
  (relinow_espnow.c:626): a message begun while the loop waited for the mutex is
  discarded at once, where PROTOCOL.md:253 and docs/src/modes_reliable.md:39 have five
  seconds. `BufferLostForCause` fails without the cause `bufferAge < loopAge`;
* the examples switch the radio on before `relinow_init` (main.c:256 and :267), and
  `peer_mac` is written before `on_message` (relinow_espnow.c:251-255): a frame in between is
  acknowledged and handed to nobody. A frame on a channel that is being opened may
  open a window that `relinow_reliable_init` clears again (relinow_state.c:167). `BufferLostForCause` and
  `ChannelsKept` fail without the exceptions that name these;
* the reassembly buffer belongs to the node: a whole frame of another channel discards a
  message in progress, and a fragment of another channel becomes part of it, while
  docs/src/multiplexing.md:11 promises independent channels;
* `esp32_a` and `esp32_b` call `relinow_send_reliable` without the `channel_id` it takes
  (main.c:281), as an earlier signature may have had it; the model passes `cfg.channel_id`;
* nothing ever sends a NACK, which PROTOCOL.md:253 has follow a fragment timeout;
* frames buffered behind a packet that was given up stay for ever (relinow_reliable.c:259),
  where PROTOCOL.md:145 has "until the gap is filled or a timeout expires";
* `total_lost` counts the frame that arrived along with the missing ones
  (relinow_state.c:704), where PROTOCOL.md:170 counts one loss for "1, 2, 4". `LossesBounded`
  states what is left;
* once a peer was reported, no PING is sent any more and every poll reports again
  (relinow_state.c:662); only a late PONG would end that;
* a PRIORITY receiver sends no ACK (PROTOCOL.md:191 does), so `has_inflight` never clears;
* the scheduler has the first of the three passes of multiplexing.md:18-20 only.

## Not modelled

Argument checks against null pointers, log output, Wi-Fi and NVS set-up, and what
`esp_now_send` reports later: `relinow_on_send_status` ignores it. The Rust bindings forward
each call. `benchmark_c` runs the library without a lock and measures it, and
`wokwi_demo` shows its calls; neither adds a promise of its own. The helpers of `relinow_state.c`
(`relinow_state_mark_inflight`, `relinow_state_enqueue_tx` and their like) are part of the actions of
their callers; `relinow_state_next_sequence` and `relinow_state_clear_inflight_any` are called by tests only.

A restart of one node is left out on purpose: nothing is persisted and no
handshake exists, so the code promises nothing across it. A sender that restarts
begins at id 0, its peer takes the new packets for duplicates and answers with the id
before its window; what a receiver makes of any id at any time is in `RelinowReceiver`, whose
ids are arbitrary.

How close the RTT estimate comes to the true round trip is a question about time and
chance that the models do not ask; that it stays within its range is `TxTypeOK`. A
PRIORITY channel that stays in flight for ever has no reader of that flag, and so no property.

## What is left

The parts above are composed in three ways: sender, receiver and caches over a radio
(`RelinowLink`), several channels over shared caches (`RelinowChannels`), and tasks,
tables and reassembly in one node (`RelinowNode`). One module with all of it, two nodes with
several channels that carry fragments, is beyond what TLC explores in minutes; each
hazard met there is in one of the three.
