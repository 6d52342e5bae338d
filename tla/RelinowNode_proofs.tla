-------------------------- MODULE RelinowNode_proofs --------------------------
(***************************************************************************)
(* Theorems about the header codec, the tables and the node with its two   *)
(* tasks: for every header of the C type and every limit on the payload,   *)
(* every size of the tables, every list of channels, every set of frames   *)
(* that the peer may send and every lateness of the loop.                  *)
(***************************************************************************)
EXTENDS RelinowNode, FiniteSetTheorems, WellFoundedInduction, TLAPS

-----------------------------------------------------------------------------
(* The header.                                                             *)

\* Intervals whose bound the provers need not look at.
LEMMA UpTo ==
  ASSUME NEW k \in Nat, NEW w
  PROVE  w \in 0 .. k <=> w \in Nat /\ w <= k
  OBVIOUS

\* A word is a number.
LEMMA WordIsNat ==
  ASSUME NEW w
  PROVE  w \in Word <=> w \in Nat /\ w <= 65535
<1>1. PICK k \in Nat : k = 65535
  OBVIOUS
<1>2. Word = 0 .. k
  BY <1>1 DEF Word
<1>3. w \in 0 .. k <=> w \in Nat /\ w <= k
  BY UpTo
<1>4. w \in Word <=> w \in Nat /\ w <= k
  BY <1>2, <1>3
<1>5. QED
  BY <1>1, <1>4

\* A word is the sum of its bytes.
LEMMA WordSplit ==
  ASSUME NEW w \in Word
  PROVE  /\ w \div 256 \in Byte
         /\ w % 256 \in Byte
         /\ (256 * (w \div 256)) + (w % 256) = w
<1>1. w \in Nat /\ w <= 65535
  BY WordIsNat
<1>2. /\ w \div 256 \in Nat /\ w \div 256 <= 255
      /\ w % 256 \in Nat /\ w % 256 <= 255
      /\ (256 * (w \div 256)) + (w % 256) = w
  BY <1>1
<1>3. w \div 256 \in Byte
  BY <1>1, <1>2, UpTo DEF Byte
<1>4. w % 256 \in Byte
  BY <1>1, <1>2, UpTo DEF Byte
<1>5. QED
  BY <1>2, <1>3, <1>4

\* Two nibbles come back out of their byte.
LEMMA NibbleSplit ==
  ASSUME NEW a \in 0 .. 15, NEW b \in 0 .. 15
  PROVE  /\ Nibbles(a, b) \in Byte
         /\ Nibbles(a, b) \div 16 = a /\ Nibbles(a, b) % 16 = b
  BY DEF Nibbles, Byte

\* The types of a header's fields.
LEMMA HeaderFields ==
  ASSUME NEW h \in Header
  PROVE  /\ h.seq \in Word /\ h.ack \in Word /\ h.len \in Word
         /\ h = [version |-> h.version, mode |-> h.mode, type |-> h.type,
                flags |-> h.flags, seq |-> h.seq, ack |-> h.ack, chan |-> h.chan,
                len |-> h.len]
  BY DEF Header

\* The fields of a valid header fit the nibbles they are packed in, but for
\* the upper half of the flags, which validation does not look at.
LEMMA ValidFits ==
  ASSUME NEW h \in Header, NEW maxPayload \in Word, Valid(h, maxPayload)
  PROVE  h.version \in 0 .. 15 /\ h.mode \in 0 .. 15 /\ h.type \in 0 .. 15
  BY DEF Valid, Version, Modes, Types, RELIABLE, UNRELIABLE, PRIORITY,
         DATA, ACK, NACK, PING, PONG

\* A header survives the air: what relinow_encode_header packs,
\* relinow_decode_header unpacks, for every header, valid or not, whose four
\* packed fields fit their nibbles.
THEOREM DecodeEncode ==
  ASSUME NEW h \in Header,
         h.version \in 0 .. 15, h.mode \in 0 .. 15,
         h.type \in 0 .. 15, h.flags \in 0 .. 15
  PROVE  Decode(Encode(h)) = h
<1>1. h.seq \in Word /\ h.ack \in Word /\ h.len \in Word
  BY HeaderFields
<1>2. /\ Decode(Encode(h)).seq = h.seq
      /\ Decode(Encode(h)).ack = h.ack
      /\ Decode(Encode(h)).len = h.len
  BY <1>1, WordSplit DEF Decode, Encode
<1>3. /\ Decode(Encode(h)).version = h.version
      /\ Decode(Encode(h)).mode = h.mode
  BY NibbleSplit DEF Decode, Encode
<1>4. /\ Decode(Encode(h)).type = h.type
      /\ Decode(Encode(h)).flags = h.flags
  BY NibbleSplit DEF Decode, Encode
<1>5. Decode(Encode(h)).chan = h.chan
  BY DEF Decode, Encode
<1>6. Decode(Encode(h)) =
        [version |-> Decode(Encode(h)).version, mode |-> Decode(Encode(h)).mode,
         type |-> Decode(Encode(h)).type, flags |-> Decode(Encode(h)).flags,
         seq |-> Decode(Encode(h)).seq, ack |-> Decode(Encode(h)).ack,
         chan |-> Decode(Encode(h)).chan, len |-> Decode(Encode(h)).len]
  BY DEF Decode
<1>7. h = [version |-> h.version, mode |-> h.mode, type |-> h.type,
           flags |-> h.flags, seq |-> h.seq, ack |-> h.ack, chan |-> h.chan,
           len |-> h.len]
  BY HeaderFields
<1>8. QED
  BY <1>2, <1>3, <1>4, <1>5, <1>6, <1>7

\* Every frame that a node can send, its peer takes: the encoder's checks are
\* those of the decoder, and the frame's length agrees with its header.
THEOREM SentIsAccepted ==
  ASSUME NEW h \in Header, NEW maxPayload \in Word,
         Valid(h, maxPayload), h.flags \in 0 .. 15
  PROVE  Accepts(Encode(h), HeaderSize + h.len, maxPayload)
<1>1. Decode(Encode(h)) = h
  BY ValidFits, DecodeEncode
<1>2. h.len \in Nat
  <2>1. h.len \in Word
    BY HeaderFields
  <2>2. QED
    BY <2>1, WordIsNat
<1>3. HeaderSize + h.len >= HeaderSize /\ h.len = (HeaderSize + h.len) - HeaderSize
  BY <1>2 DEF HeaderSize
<1>4. QED
  BY <1>1, <1>3 DEF Accepts

\* Two nodes with different limits: what the one with the larger max_payload
\* sends beyond the other's is not accepted there, however often.
THEOREM LargerPayloadRefused ==
  ASSUME NEW b, NEW frameLen \in Nat, NEW limit \in Word,
         frameLen > HeaderSize + limit
  PROVE  ~Accepts(b, frameLen, limit)
<1>1. limit \in Nat
  BY WordIsNat
<1>2. QED
  BY <1>1 DEF Accepts, Valid, HeaderSize

\* The cast to uint8_t in relinow_send_reliable does no harm to messages of
\* up to 255 frames.
THEOREM CountExact ==
  ASSUME NEW len \in Word, NEW maxPayload \in Word \ {0}, len <= 255 * maxPayload
  PROVE  FragmentCount(len, maxPayload) = FramesNeeded(len, maxPayload)
<1>1. FramesNeeded(len, maxPayload) \in Nat /\ FramesNeeded(len, maxPayload) <= 255
  <2>1. /\ len + maxPayload - 1 \in Nat
        /\ len + maxPayload - 1 < 256 * maxPayload
        /\ maxPayload \in Nat \ {0}
    <3>1. len \in Nat /\ maxPayload \in Nat \ {0}
      BY WordIsNat
    <3>2. QED
      BY <3>1
  <2>2. ASSUME NEW n \in Nat, NEW m \in Nat \ {0}, n < 256 * m
        PROVE  n \div m \in Nat /\ n \div m <= 255
    <3>1. PICK q \in Nat, r \in Nat : n = q * m + r /\ r < m /\ q = n \div m
      BY SMT
    <3>2. SUFFICES ASSUME q >= 256 PROVE FALSE
      BY <3>1
    <3>3. q * m >= 256 * m
      BY <3>2
    <3>4. QED
      BY <2>2, <3>1, <3>3
  <2>3. QED
    BY <2>1, <2>2 DEF FramesNeeded
<1>2. QED
  BY <1>1 DEF FragmentCount

\* Beyond that it does: with the 241 bytes of ESP-NOW, the messages of 256
\* frames count as none, and pass every check for free slots.
THEOREM CountWraps ==
  ASSUME NEW len \in 61456 .. 61696
  PROVE  FramesNeeded(len, 241) = 256 /\ FragmentCount(len, 241) = 0
<1>1. FramesNeeded(len, 241) = 256
  BY DEF FramesNeeded
<1>2. QED
  BY <1>1 DEF FragmentCount

-----------------------------------------------------------------------------
(* The tables.                                                             *)

Below == {ss \in Nat \X Nat : ss[1] < ss[2]}

\* Every set of slots has a first one.
LEMMA LeastExists ==
  ASSUME NEW S, S \subseteq Nat, S # {}
  PROVE  \E i \in S : \A j \in S : i <= j
<1>1. IsWellFoundedOn(Below, Nat)
  BY NatLessThanWellFounded DEF OpToRel, Below
<1>2. PICK i \in S : \A j \in S : ~(<<j, i>> \in Below)
  BY <1>1, WFMin
<1>3. ASSUME NEW j \in S PROVE i <= j
  <2>1. ~(j < i)
    BY <1>2 DEF Below
  <2>2. i \in Nat /\ j \in Nat
    OBVIOUS
  <2>3. QED
    BY <2>1, <2>2
<1>4. QED
  BY <1>3

\* The slot that is taken was free.
LEMMA FirstFreeIsFree ==
  ASSUME NEW table, NEW size \in Nat, HasRoom(table, size)
  PROVE  FirstFree(table, size) \in 1 .. size \ DOMAIN table
<1> DEFINE S == 1 .. size \ DOMAIN table
<1>1. S \subseteq Nat /\ S # {}
  BY DEF HasRoom
<1>2. \E i \in S : \A j \in S : i <= j
  BY <1>1, LeastExists
<1>3. QED
  BY <1>2 DEF FirstFree

\* relinow_state_add_peer: no peer is listed twice, none moves or disappears,
\* and the new one is found, unless the table is full.
THEOREM PeersStayDistinct ==
  ASSUME NEW peers0, NEW mac, DOMAIN peers0 \subseteq 1 .. MaxPeers,
         \A i, j \in DOMAIN peers0 : peers0[i] = peers0[j] => i = j
  PROVE  LET after == AddPeer(peers0, mac)
         IN  /\ DOMAIN after \subseteq 1 .. MaxPeers
             /\ \A i, j \in DOMAIN after : after[i] = after[j] => i = j
             /\ \A i \in DOMAIN peers0 : i \in DOMAIN after /\ after[i] = peers0[i]
             /\ HasRoom(peers0, MaxPeers) => PeerSlots(after, mac) # {}
<1> DEFINE slot == FirstFree(peers0, MaxPeers)
           after == AddPeer(peers0, mac)
<1>1. CASE PeerSlots(peers0, mac) # {} \/ ~HasRoom(peers0, MaxPeers)
  BY <1>1 DEF AddPeer
<1>2. CASE PeerSlots(peers0, mac) = {} /\ HasRoom(peers0, MaxPeers)
  <2>1. slot \in 1 .. MaxPeers \ DOMAIN peers0
    BY <1>2, FirstFreeIsFree, TablesAssumption
  <2>2. after = With(peers0, slot, mac)
    BY <1>2 DEF AddPeer
  <2>3. \A i \in DOMAIN peers0 : peers0[i] # mac
    BY <1>2 DEF PeerSlots
  <2> HIDE DEF slot, after
  <2>4. /\ DOMAIN after = DOMAIN peers0 \cup {slot}
        /\ after[slot] = mac
        /\ \A i \in DOMAIN peers0 : i # slot => after[i] = peers0[i]
    BY <2>2 DEF With
  <2>5. PeerSlots(after, mac) # {}
    BY <2>4 DEF PeerSlots
  <2>6. QED
    BY <2>1, <2>3, <2>4, <2>5 DEF after
<1>3. QED
  BY <1>1, <1>2

ChannelType == [id : Byte, mode : Modes, priority : Byte, started : BOOLEAN]

IdsDistinct(chans) == \A i, j \in DOMAIN chans : chans[i].id = chans[j].id => i = j

IdsOrdinary(chans) == \A i \in DOMAIN chans : chans[i].id # HeartbeatChannel

\* relinow_state_open_channel: a channel that is open keeps its slot, its id,
\* its mode and its engine, no two channels ever share an id, and none gets
\* that of the heartbeat.
THEOREM OpenChannelKeeps ==
  ASSUME NEW chans, NEW id \in Byte, NEW mode, NEW priority \in Byte,
         DOMAIN chans \subseteq 1 .. MaxChannels,
         \A i \in DOMAIN chans : chans[i] \in ChannelType
  PROVE  LET after == OpenChannel(chans, id, mode, priority)
         IN  /\ DOMAIN after \subseteq 1 .. MaxChannels
             /\ \A i \in DOMAIN after : after[i] \in ChannelType
             /\ \A i \in DOMAIN chans :
                   /\ i \in DOMAIN after
                   /\ after[i].id = chans[i].id /\ after[i].mode = chans[i].mode
                   /\ after[i].started = chans[i].started
             /\ IdsDistinct(chans) => IdsDistinct(after)
             /\ IdsOrdinary(chans) => IdsOrdinary(after)
<1> DEFINE slot == FirstFree(chans, MaxChannels)
           new == NewChannel(id, mode, priority)
           after == OpenChannel(chans, id, mode, priority)
<1>1. CASE after = chans
  BY <1>1
<1>2. CASE /\ ~Refused(chans, id, mode)
           /\ ChannelSlots(chans, id) # {}
  <2>1. after = [i \in DOMAIN chans |->
                   IF chans[i].id = id THEN [chans[i] EXCEPT !.priority = priority]
                   ELSE chans[i]]
    BY <1>2 DEF OpenChannel
  <2>2. ASSUME NEW i \in DOMAIN chans
        PROVE  /\ after[i] \in ChannelType
               /\ after[i].id = chans[i].id /\ after[i].mode = chans[i].mode
               /\ after[i].started = chans[i].started
    BY <2>1, <2>2 DEF ChannelType
  <2>3. DOMAIN after = DOMAIN chans
    BY <2>1
  <2> HIDE DEF after
  <2>4. QED
    BY <2>2, <2>3 DEF IdsDistinct, IdsOrdinary, after
<1>3. CASE /\ ~Refused(chans, id, mode)
           /\ ChannelSlots(chans, id) = {}
           /\ HasRoom(chans, MaxChannels)
  <2>1. slot \in 1 .. MaxChannels \ DOMAIN chans
    BY <1>3, FirstFreeIsFree, TablesAssumption
  <2>2. after = With(chans, slot, new)
    BY <1>3 DEF OpenChannel
  <2>3. new \in ChannelType /\ new.id = id
    BY <1>3 DEF Refused, NewChannel, ChannelType
  <2>4. \A i \in DOMAIN chans : chans[i].id # id
    BY <1>3 DEF ChannelSlots
  <2> HIDE DEF slot, new, after
  <2>5. /\ DOMAIN after = DOMAIN chans \cup {slot}
        /\ after[slot] = new
        /\ \A i \in DOMAIN chans : i # slot => after[i] = chans[i]
    BY <2>2 DEF With
  <2>6. /\ DOMAIN after \subseteq 1 .. MaxChannels
        /\ \A i \in DOMAIN after : after[i] \in ChannelType
    BY <2>1, <2>3, <2>5
  <2>7. \A i \in DOMAIN chans : i \in DOMAIN after /\ after[i] = chans[i]
    BY <2>1, <2>5
  <2>8. IdsDistinct(chans) => IdsDistinct(after)
    <3>1. SUFFICES ASSUME IdsDistinct(chans),
                          NEW i \in DOMAIN after, NEW j \in DOMAIN after,
                          after[i].id = after[j].id
                   PROVE  i = j
      BY DEF IdsDistinct
    <3>2. CASE i = slot /\ j # slot
      BY <2>3, <2>4, <2>5, <3>1, <3>2
    <3>3. CASE j = slot /\ i # slot
      BY <2>3, <2>4, <2>5, <3>1, <3>3
    <3>4. CASE i # slot /\ j # slot
      BY <2>5, <3>1, <3>4 DEF IdsDistinct
    <3>5. QED
      BY <3>2, <3>3, <3>4
  <2>9. IdsOrdinary(chans) => IdsOrdinary(after)
    <3>1. id # HeartbeatChannel
      BY <1>3 DEF Refused
    <3>2. QED
      BY <2>3, <2>5, <3>1 DEF IdsOrdinary
  <2>10. QED
    BY <2>6, <2>7, <2>8, <2>9 DEF after
<1>4. QED
  BY <1>1, <1>2, <1>3 DEF OpenChannel

-----------------------------------------------------------------------------
(* The type invariant, in four parts, with where the boot stands and that  *)
(* no channel has the heartbeat's id.                                      *)

TablesOK ==
    /\ DOMAIN peers \subseteq 1 .. MaxPeers
    /\ DOMAIN channels \subseteq 1 .. MaxChannels
    /\ \A i \in DOMAIN channels : channels[i] \in ChannelType
    /\ IdsOrdinary(channels)

ControlOK ==
    /\ ready \subseteq Fields /\ opened \in 0 .. Len(Openings)
    /\ pc \in {"init", "fields", "open", "engine", "top"} \cup LockedCalls
    /\ burst \in 0 .. BurstCount - 1
    /\ lock \in {"free", "main", "radio"} /\ radio \in {"idle", "frame", "status"}
    /\ delivering \subseteq Byte
    /\ loopAge \in 0 .. MaxLate

AgesOK ==
    /\ bufferAge \in 0 .. MaxAge
    /\ DOMAIN pending \subseteq 1 .. MaxPending
    /\ \A i \in DOMAIN pending : pending[i] \in 0 .. MaxAge
    /\ fragmentedTxActive \in BOOLEAN

BufferOK == buffer \in Seq(Byte) /\ Len(buffer) <= MaxReassembly

\* Nothing is received before relinow_init has written peer_mac, and only
\* while it still writes may on_message be missing.
Booted ==
    /\ pc = "init" => ready = {}
    /\ pc \notin {"init", "fields"} => ready = Fields
    /\ delivering # {} => pc # "init"
    /\ pc = "engine" => opened < Len(Openings)

NodeInv == TablesOK /\ ControlOK /\ AgesOK /\ BufferOK /\ Booted /\ TimersNeverAhead

\* The four parts are the type invariant, and a little more.
LEMMA TypeParts == TablesOK /\ ControlOK /\ AgesOK /\ BufferOK => NodeTypeOK
  BY DEF NodeTypeOK, TablesOK, ControlOK, AgesOK, BufferOK, ChannelType

\* The constants are numbers.
LEMMA Bounds ==
  /\ MaxAge \in Nat /\ MaxLate \in Nat /\ MaxLate < MaxAge
  /\ FragmentTimeout \in Nat /\ RetryTimeout \in Nat
  /\ BurstCount \in Nat \ {0} /\ MaxReassembly \in Nat \ {0}
  BY NodeAssumption DEF MaxAge

\* What the application opens is well typed.
LEMMA OpeningsTyped ==
  /\ Len(Openings) \in Nat
  /\ \A k \in 1 .. Len(Openings) :
        /\ Openings[k].id \in Byte /\ Openings[k].mode \in Modes
        /\ Openings[k].priority \in Byte
<1>1. Openings \in Seq(Opening)
  BY NodeAssumption
<1>2. Len(Openings) \in Nat /\ \A k \in 1 .. Len(Openings) : Openings[k] \in Opening
  BY <1>1
<1>3. QED
  BY <1>2 DEF Opening

\* It holds at the start.
LEMMA NodeInitInv == NodeInit => NodeInv
<1> SUFFICES ASSUME NodeInit PROVE NodeInv
  OBVIOUS
<1>1. DOMAIN EmptyTable = {}
  BY DEF EmptyTable
<1>2. TablesOK
  BY <1>1 DEF NodeInit, TablesOK, IdsOrdinary
<1>3. ControlOK
  BY Bounds, OpeningsTyped DEF NodeInit, ControlOK
<1>4. AgesOK
  <2>1. fragmentedTxActive \in BOOLEAN
    BY DEF NodeInit
  <2>2. QED
    BY <1>1, <2>1, Bounds DEF NodeInit, AgesOK
<1>5. BufferOK
  BY Bounds DEF NodeInit, BufferOK
<1>6. Booted
  BY DEF NodeInit, Booted
<1>7. TimersNeverAhead
  BY <1>1 DEF NodeInit, TimersNeverAhead
<1>8. QED
  BY <1>2, <1>3, <1>4, <1>5, <1>6, <1>7 DEF NodeInv

\* The tables are changed by relinow_open_channel, and in the engine's part.
LEMMA TablesStep == NodeInv /\ [NodeNext]_nodeVars => TablesOK'
<1> SUFFICES ASSUME TablesOK, ControlOK, Booted, [NodeNext]_nodeVars PROVE TablesOK'
  BY DEF NodeInv
<1>1. CASE UNCHANGED tables
  BY <1>1 DEF tables, TablesOK, IdsOrdinary
<1>2. CASE InitTables
  <2>1. DOMAIN peers' \subseteq 1 .. MaxPeers
    <3>1. CASE PeerSlots(peers, PeerMac) # {} \/ ~HasRoom(peers, MaxPeers)
      BY <1>2, <3>1 DEF InitTables, AddPeer, TablesOK
    <3>2. CASE PeerSlots(peers, PeerMac) = {} /\ HasRoom(peers, MaxPeers)
      <4>1. FirstFree(peers, MaxPeers) \in 1 .. MaxPeers
        BY <3>2, FirstFreeIsFree, TablesAssumption
      <4>2. peers' = With(peers, FirstFree(peers, MaxPeers), PeerMac)
        BY <1>2, <3>2 DEF InitTables, AddPeer
      <4>3. QED
        BY <4>1, <4>2 DEF TablesOK, With
    <3>3. QED
      BY <3>1, <3>2
  <2>2. /\ MainChannel \in Byte /\ 0 \in Byte
        /\ channels' = OpenChannel(channels, MainChannel, RELIABLE, 0)
    BY <1>2, NodeAssumption DEF InitTables, Byte
  <2>3. QED
    BY <2>1, <2>2, OpenChannelKeeps DEF TablesOK
<1>3. CASE OpenNext
  <2>1. opened + 1 \in 1 .. Len(Openings)
    BY <1>3, OpeningsTyped DEF OpenNext, ControlOK
  <2>2. /\ channels' = OpenChannel(channels, Openings[opened + 1].id,
                                   Openings[opened + 1].mode,
                                   Openings[opened + 1].priority)
        /\ UNCHANGED peers
    BY <1>3 DEF OpenNext
  <2>3. QED
    BY <2>1, <2>2, OpeningsTyped, OpenChannelKeeps DEF TablesOK
<1>4. CASE ResetEngine
  BY <1>4 DEF ResetEngine, TablesOK, ChannelType, IdsOrdinary
<1>5. CASE Receive
  <2>1. PICK h \in Incoming : ReceiveReliable(h) \/ UNCHANGED channels
    BY <1>5 DEF Receive, ReceiveOther, ReceivePing, ReceiveDatagram, ReceiveAck
  <2>2. UNCHANGED peers
    BY <1>5 DEF Receive
  <2>3. CASE ReceiveReliable(h)
    BY <2>2, <2>3 DEF ReceiveReliable, TablesOK, ChannelType, IdsOrdinary
  <2>4. CASE UNCHANGED channels
    BY <2>2, <2>4 DEF TablesOK, IdsOrdinary
  <2>5. QED
    BY <2>1, <2>3, <2>4
<1>6. QED
  BY <1>1, <1>2, <1>3, <1>4, <1>5
     DEF NodeNext, MainStep, RadioStep, WriteField, EnterLoop, ReadClock, Skip, Take,
         GiveUp, Call, RadioTake, RadioGiveUp, SendStatus, Delivered, Arrive, Deliver,
         Tick, nodeVars

\* Where both tasks are.
LEMMA ControlStep == NodeInv /\ [NodeNext]_nodeVars => ControlOK'
<1> SUFFICES ASSUME ControlOK, Booted, [NodeNext]_nodeVars PROVE ControlOK'
  BY DEF NodeInv
<1> USE Bounds, OpeningsTyped DEF ControlOK
<1>1. CASE GoOn /\ UNCHANGED <<ready, opened, radio, delivering, loopAge>>
           /\ lock' \in {"free", lock}
  BY <1>1 DEF GoOn, LockedCalls
<1>2. CASE InitTables
  BY <1>2 DEF InitTables, boot
<1>3. CASE WriteField
  BY <1>3 DEF WriteField
<1>4. CASE OpenNext
  BY <1>4 DEF OpenNext
<1>5. CASE ResetEngine
  BY <1>5 DEF ResetEngine, Booted
<1>6. CASE EnterLoop \/ ReadClock \/ Skip \/ Take
  BY <1>6 DEF EnterLoop, ReadClock, Skip, Take, LockedCalls, boot
<1>7. CASE RadioTake \/ RadioGiveUp \/ SendStatus \/ Delivered \/ Arrive \/ Deliver
  BY <1>7 DEF RadioTake, RadioGiveUp, SendStatus, Delivered, Arrive, Deliver,
              RadioGive, boot
<1>8. CASE Receive
  <2>1. PICK h \in Incoming :
           \/ RadioGive
           \/ delivering' = {h.chan} /\ UNCHANGED <<lock, radio>>
    BY <1>8 DEF Receive, ReceiveOther, ReceivePing, ReceiveDatagram, ReceiveAck,
                ReceiveReliable
  <2>2. h.chan \in Byte
    BY NodeAssumption DEF Header
  <2>3. UNCHANGED <<ready, opened, pc, burst, loopAge>>
    BY <1>8 DEF Receive, boot
  <2>4. QED
    BY <2>1, <2>2, <2>3 DEF RadioGive
<1>9. CASE Tick
  BY <1>9 DEF Tick, boot
<1>10. CASE UNCHANGED nodeVars
  BY <1>10 DEF nodeVars, boot
<1>11. QED
  BY <1>1, <1>2, <1>3, <1>4, <1>5, <1>6, <1>7, <1>8, <1>9, <1>10
     DEF NodeNext, MainStep, RadioStep, GiveUp, Call, boot

\* A call of the loop that changes the ages of packets.
LEMMA PendingCalls ==
  ASSUME SendReliable \/ Poll \/ UNCHANGED pending
  PROVE  /\ DOMAIN pending' \subseteq DOMAIN pending \cup 1 .. MaxPending
         /\ \A i \in DOMAIN pending' :
               \/ pending'[i] = loopAge
               \/ i \in DOMAIN pending /\ pending'[i] = pending[i]
<1>1. CASE SendReliable
  <2>1. ASSUME NEW new, new \subseteq FreeSlots, Sent(new, loopAge)
        PROVE  /\ DOMAIN pending' \subseteq DOMAIN pending \cup 1 .. MaxPending
               /\ \A i \in DOMAIN pending' :
                     \/ pending'[i] = loopAge
                     \/ i \in DOMAIN pending /\ pending'[i] = pending[i]
    BY <2>1 DEF Sent, FreeSlots
  <2>2. CASE SendRefused
    BY <2>2 DEF SendRefused
  <2>3. CASE SendWhole(loopAge)
    <3>1. PICK i \in FreeSlots : Sent({i}, loopAge)
      BY <2>3 DEF SendWhole
    <3>2. {i} \subseteq FreeSlots
      OBVIOUS
    <3>3. QED
      BY <2>1, <3>1, <3>2
  <2>4. CASE SendFragmented
    <3>1. PICK new \in SUBSET FreeSlots : Sent(new, loopAge)
      BY <2>4 DEF SendFragmented
    <3>2. QED
      BY <2>1, <3>1
  <2>5. QED
    BY <1>1, <2>2, <2>3, <2>4 DEF SendReliable
<1>2. CASE Poll
  BY <1>2 DEF Poll
<1>3. CASE UNCHANGED pending
  BY <1>3
<1>4. QED
  BY <1>1, <1>2, <1>3

\* What the Wi-Fi task does to them.
LEMMA PendingReceive ==
  ASSUME NEW h \in Incoming,
         \/ ReceiveOther(h) \/ ReceivePing(h) \/ ReceiveDatagram(h)
         \/ ReceiveAck(h) \/ ReceiveReliable(h)
  PROVE  /\ DOMAIN pending' \subseteq DOMAIN pending
         /\ \A i \in DOMAIN pending' : pending'[i] = pending[i]
         /\ fragmentedTxActive' \in {fragmentedTxActive, FALSE}
         /\ UNCHANGED reassembly
  BY DEF ReceiveOther, ReceivePing, ReceiveDatagram, ReceiveAck, ReceiveReliable, sending

\* The ages.
LEMMA AgesStep == NodeInv /\ [NodeNext]_nodeVars => AgesOK'
<1> SUFFICES ASSUME AgesOK, ControlOK, [NodeNext]_nodeVars PROVE AgesOK'
  BY DEF NodeInv
<1> USE Bounds
<1>1. CASE UNCHANGED <<sending, reassembly>>
  BY <1>1 DEF AgesOK, sending, reassembly
<1>2. CASE Call
  <2>1. SendReliable \/ Poll \/ UNCHANGED pending
    BY <1>2 DEF Call, SendDatagrams, sending
  <2>2. bufferAge' \in {0, bufferAge}
    BY <1>2 DEF Call, SendReliable, SendDatagrams, Poll, PurgeReassembly, reassembly
  <2>3. loopAge \in 0 .. MaxAge
    BY DEF ControlOK
  <2>4. fragmentedTxActive' \in BOOLEAN
    <3>1. fragmentedTxActive' = fragmentedTxActive \/ fragmentedTxActive' = TRUE
      <4>1. CASE SendReliable
        <5>1. CASE SendRefused
          BY <5>1 DEF SendRefused
        <5>2. CASE SendWhole(loopAge)
          BY <5>2, Zenon DEF SendWhole
        <5>3. CASE SendFragmented
          BY <5>3 DEF SendFragmented
        <5>4. QED
          BY <4>1, <5>1, <5>2, <5>3 DEF SendReliable
      <4>2. CASE UNCHANGED fragmentedTxActive
        BY <4>2
      <4>3. SendReliable \/ UNCHANGED fragmentedTxActive
        BY <1>2 DEF Call, SendDatagrams, Poll, sending
      <4>4. QED
        BY <4>1, <4>2, <4>3
    <3>2. QED
      BY <3>1 DEF AgesOK
  <2>5. QED
    BY <2>1, <2>2, <2>3, <2>4, PendingCalls DEF AgesOK
<1>3. CASE Receive
  <2>1. PICK h \in Incoming :
           \/ ReceiveOther(h) \/ ReceivePing(h) \/ ReceiveDatagram(h)
           \/ ReceiveAck(h) \/ ReceiveReliable(h)
    BY <1>3 DEF Receive
  <2>2. /\ DOMAIN pending' \subseteq DOMAIN pending
        /\ \A i \in DOMAIN pending' : pending'[i] = pending[i]
        /\ fragmentedTxActive' \in {fragmentedTxActive, FALSE}
        /\ bufferAge' = bufferAge
    BY <2>1, PendingReceive DEF reassembly
  <2>3. QED
    BY <2>2 DEF AgesOK
<1>4. CASE Deliver
  <2>1. bufferAge' \in {0, bufferAge} /\ UNCHANGED sending
    BY <1>4 DEF Deliver, DeliverFragment, DeliverWhole
  <2>2. QED
    BY <2>1 DEF AgesOK, sending
<1>5. CASE Tick
  BY <1>5 DEF Tick, Older, AgesOK
<1>6. QED
  BY <1>1, <1>2, <1>3, <1>4, <1>5
     DEF NodeNext, MainStep, RadioStep, InitTables, WriteField, OpenNext, ResetEngine,
         EnterLoop, ReadClock, Skip, Take, GiveUp, RadioTake, RadioGiveUp, SendStatus,
         Delivered, Arrive, nodeVars, sending, reassembly

\* The reassembly buffer.
LEMMA BufferStep == NodeInv /\ [NodeNext]_nodeVars => BufferOK'
<1> SUFFICES ASSUME BufferOK, ControlOK, [NodeNext]_nodeVars PROVE BufferOK'
  BY DEF NodeInv
<1> USE Bounds
<1>1. CASE UNCHANGED buffer
  BY <1>1 DEF BufferOK
<1>2. CASE buffer' = <<>>
  BY <1>2 DEF BufferOK
<1>3. CASE Deliver
  <2>1. PICK chan \in delivering :
           \/ DeliverFragment(chan, FALSE)
           \/ DeliverFragment(chan, TRUE)
           \/ DeliverWhole(chan)
    BY <1>3 DEF Deliver
  <2>2. CASE DeliverFragment(chan, FALSE) /\ Len(buffer) < MaxReassembly
    <3>1. buffer' = Append(buffer, chan)
      BY <2>2 DEF DeliverFragment, BufferOK
    <3>2. chan \in Byte
      BY DEF ControlOK
    <3>3. QED
      BY <2>2, <3>1, <3>2 DEF BufferOK
  <2>3. QED
    BY <1>2, <2>1, <2>2 DEF DeliverFragment, DeliverWhole, BufferOK
<1>4. CASE Call
  BY <1>1, <1>2, <1>4
     DEF Call, SendReliable, SendDatagrams, Poll, PurgeReassembly, reassembly
<1>5. CASE Receive
  BY <1>1, <1>5, PendingReceive DEF Receive, reassembly
<1>6. QED
  BY <1>1, <1>3, <1>4, <1>5
     DEF NodeNext, MainStep, RadioStep, InitTables, WriteField, OpenNext, ResetEngine,
         EnterLoop, ReadClock, Skip, Take, GiveUp, RadioTake, RadioGiveUp, SendStatus,
         Delivered, Arrive, Tick, nodeVars, reassembly

\* Where the boot stands.
LEMMA BootedStep == NodeInv /\ [NodeNext]_nodeVars => Booted'
<1> SUFFICES ASSUME Booted, ControlOK, [NodeNext]_nodeVars PROVE Booted'
  BY DEF NodeInv
<1> USE OpeningsTyped DEF Booted
<1>1. CASE UNCHANGED <<ready, opened, pc>> /\ delivering' \subseteq delivering
  BY <1>1
<1>2. CASE GoOn /\ UNCHANGED <<ready, opened, delivering>>
  BY <1>2 DEF GoOn
<1>3. CASE InitTables
  BY <1>3 DEF InitTables, boot
<1>4. CASE WriteField
  BY <1>4 DEF WriteField
<1>5. CASE OpenNext
  BY <1>5 DEF OpenNext, ControlOK
<1>6. CASE ResetEngine \/ EnterLoop \/ ReadClock \/ Skip
  BY <1>6 DEF ResetEngine, EnterLoop, ReadClock, Skip, boot
<1>7. CASE Receive
  <2>1. PICK h \in Incoming :
           ReceiveReliable(h) \/ UNCHANGED delivering
    BY <1>7 DEF Receive, ReceiveOther, ReceivePing, ReceiveDatagram, ReceiveAck,
                RadioGive
  <2>2. ReceiveReliable(h) => ready # {}
    BY DEF ReceiveReliable, ForUs
  <2>3. QED
    BY <1>7, <2>1, <2>2 DEF Receive, boot
<1>8. QED
  BY <1>1, <1>2, <1>3, <1>4, <1>5, <1>6, <1>7
     DEF NodeNext, MainStep, RadioStep, GiveUp, Call, Take, RadioTake, RadioGiveUp,
         SendStatus, RadioGive, Delivered, Arrive, Deliver, Tick, nodeVars, boot

\* The timers against the loop's clock.
LEMMA TimersStep == NodeInv /\ [NodeNext]_nodeVars => TimersNeverAhead'
<1> SUFFICES ASSUME AgesOK, ControlOK, TimersNeverAhead, [NodeNext]_nodeVars,
                    pc' \in LockedCalls
             PROVE  \A i \in DOMAIN pending' : pending'[i] >= loopAge'
  BY DEF NodeInv, TimersNeverAhead
<1> USE Bounds
<1>1. CASE pc \in LockedCalls /\ UNCHANGED <<pending, loopAge>>
  BY <1>1 DEF TimersNeverAhead
<1>2. CASE ReadClock
  BY <1>2 DEF ReadClock, AgesOK, sending
<1>3. CASE Call
  <2>1. pc \in LockedCalls /\ UNCHANGED loopAge
    BY <1>3 DEF Call, GoOn, LockedCalls
  <2>2. SendReliable \/ Poll \/ UNCHANGED pending
    BY <1>3 DEF Call, SendDatagrams, sending
  <2>3. loopAge \in Nat
    BY DEF ControlOK
  <2>4. QED
    BY <2>1, <2>2, <2>3, PendingCalls DEF TimersNeverAhead
<1>4. CASE Receive
  BY <1>4, PendingReceive DEF Receive, TimersNeverAhead
<1>5. CASE Tick
  <2>1. /\ loopAge' = loopAge + 1 /\ loopAge < MaxLate /\ pc \in LockedCalls
        /\ pending' = [i \in DOMAIN pending |-> Older(pending[i])]
    BY <1>5 DEF Tick
  <2>2. ASSUME NEW i \in DOMAIN pending PROVE Older(pending[i]) >= loopAge + 1
    BY <2>1, <2>2 DEF Older, AgesOK, ControlOK, TimersNeverAhead
  <2>3. QED
    BY <2>1, <2>2
<1>6. CASE InitTables \/ WriteField \/ OpenNext \/ ResetEngine \/ EnterLoop
  BY <1>6 DEF InitTables, WriteField, OpenNext, ResetEngine, EnterLoop, LockedCalls
<1>7. QED
  BY <1>1, <1>2, <1>3, <1>4, <1>5, <1>6
     DEF NodeNext, MainStep, RadioStep, GiveUp, GoOn, Skip, Take, RadioTake, RadioGiveUp,
         SendStatus, Delivered, Arrive, Deliver, nodeVars, sending, LockedCalls

\* The invariant holds.
LEMMA NodeInvariant == NodeSpec => []NodeInv
<1>1. NodeInv /\ [NodeNext]_nodeVars => NodeInv'
  BY TablesStep, ControlStep, AgesStep, BufferStep, BootedStep, TimersStep DEF NodeInv
<1>2. QED
  BY <1>1, NodeInitInv, PTL DEF NodeSpec

\* The node's state is well typed: no handler and no race of the boot takes
\* the reassembly buffer, a table or a timer out of its bounds.
THEOREM NodeTypeCorrect == NodeSpec => []NodeTypeOK
<1>1. NodeInv => NodeTypeOK
  BY TypeParts DEF NodeInv
<1>2. QED
  BY <1>1, NodeInvariant, PTL

\* No packet's last_tx_ms is ever ahead of the clock reading the loop works
\* with, however late the loop is and whatever the Wi-Fi task does meanwhile.
THEOREM NodeTimersNeverAhead == NodeSpec => []TimersNeverAhead
<1>1. NodeInv => TimersNeverAhead
  BY DEF NodeInv
<1>2. QED
  BY <1>1, NodeInvariant, PTL

-----------------------------------------------------------------------------
(* Channels.                                                               *)

ChannelKept(i) ==
    /\ i \in DOMAIN channels'
    /\ channels'[i].id = channels[i].id /\ channels'[i].mode = channels[i].mode
    /\ channels[i].started =>
          \/ channels'[i].started
          \/ pc = "engine" /\ channels[i].id = Openings[opened + 1].id

\* No step changes an open channel.
LEMMA KeepsChannels ==
  NodeInv /\ [NodeNext]_nodeVars => \A i \in DOMAIN channels : ChannelKept(i)
<1> SUFFICES ASSUME TablesOK, ControlOK, [NodeNext]_nodeVars
             PROVE  \A i \in DOMAIN channels : ChannelKept(i)
  BY DEF NodeInv
<1> USE DEF ChannelKept
<1>1. CASE UNCHANGED channels
  BY <1>1
<1>2. CASE InitTables
  <2>1. /\ MainChannel \in Byte /\ 0 \in Byte
        /\ channels' = OpenChannel(channels, MainChannel, RELIABLE, 0)
    BY <1>2, NodeAssumption DEF InitTables, Byte
  <2>2. QED
    BY <2>1, OpenChannelKeeps DEF TablesOK
<1>3. CASE OpenNext
  <2>1. opened + 1 \in 1 .. Len(Openings)
    BY <1>3, OpeningsTyped DEF OpenNext, ControlOK
  <2>2. channels' = OpenChannel(channels, Openings[opened + 1].id,
                                Openings[opened + 1].mode,
                                Openings[opened + 1].priority)
    BY <1>3 DEF OpenNext
  <2>3. QED
    BY <2>1, <2>2, OpeningsTyped, OpenChannelKeeps DEF TablesOK
<1>4. CASE ResetEngine
  BY <1>4 DEF ResetEngine, TablesOK, ChannelType
<1>5. CASE Receive
  <2>1. PICK h \in Incoming : ReceiveReliable(h) \/ UNCHANGED channels
    BY <1>5 DEF Receive, ReceiveOther, ReceivePing, ReceiveDatagram, ReceiveAck
  <2>2. CASE ReceiveReliable(h)
    BY <2>2 DEF ReceiveReliable, TablesOK, ChannelType
  <2>3. QED
    BY <1>1, <2>1, <2>2
<1>6. QED
  BY <1>1, <1>2, <1>3, <1>4, <1>5
     DEF NodeNext, MainStep, RadioStep, WriteField, EnterLoop, ReadClock, Skip, Take,
         GiveUp, Call, RadioTake, RadioGiveUp, SendStatus, Delivered, Arrive, Deliver,
         Tick, nodeVars, tables

\* A channel that is open keeps its slot, its id, its mode and its receive
\* window, but for a RELIABLE one that a frame reaches while it is opened.
THEOREM NodeChannelsKept == NodeSpec => ChannelsKept
<1>1. NodeInv /\ [NodeNext]_nodeVars =>
        [\A i \in DOMAIN channels :
           /\ i \in DOMAIN channels'
           /\ channels'[i].id = channels[i].id /\ channels'[i].mode = channels[i].mode
           /\ channels[i].started =>
                 \/ channels'[i].started
                 \/ pc = "engine" /\ channels[i].id = Openings[opened + 1].id]_nodeVars
  BY KeepsChannels DEF ChannelKept
<1>2. QED
  BY <1>1, NodeInvariant, PTL DEF NodeSpec, ChannelsKept

\* No two slots ever hold the same channel, so that every lookup by id, of
\* either task and at any moment of the boot, finds the one there is.
THEOREM NodeIdsDistinct == NodeSpec => []IdsDistinct(channels)
<1>1. NodeInit => IdsDistinct(channels)
  BY DEF NodeInit, EmptyTable, IdsDistinct
<1>2. NodeInv /\ NodeInv' /\ IdsDistinct(channels) /\ [NodeNext]_nodeVars
        => IdsDistinct(channels)'
  <2> SUFFICES ASSUME TablesOK, ControlOK, IdsDistinct(channels), [NodeNext]_nodeVars
               PROVE  IdsDistinct(channels')
    BY DEF NodeInv
  <2>1. CASE /\ DOMAIN channels' = DOMAIN channels
             /\ \A i \in DOMAIN channels : channels'[i].id = channels[i].id
    BY <2>1 DEF IdsDistinct
  <2>2. CASE InitTables
    <3>1. /\ MainChannel \in Byte /\ 0 \in Byte
          /\ channels' = OpenChannel(channels, MainChannel, RELIABLE, 0)
      BY <2>2, NodeAssumption DEF InitTables, Byte
    <3>2. QED
      BY <3>1, OpenChannelKeeps DEF TablesOK
  <2>3. CASE OpenNext
    <3>1. opened + 1 \in 1 .. Len(Openings)
      BY <2>3, OpeningsTyped DEF OpenNext, ControlOK
    <3>2. channels' = OpenChannel(channels, Openings[opened + 1].id,
                                  Openings[opened + 1].mode,
                                  Openings[opened + 1].priority)
      BY <2>3 DEF OpenNext
    <3>3. QED
      BY <3>1, <3>2, OpeningsTyped, OpenChannelKeeps DEF TablesOK
  <2>4. CASE ResetEngine
    BY <2>1, <2>4 DEF ResetEngine, TablesOK, ChannelType
  <2>5. CASE Receive
    <3>1. PICK h \in Incoming : ReceiveReliable(h) \/ UNCHANGED channels
      BY <2>5 DEF Receive, ReceiveOther, ReceivePing, ReceiveDatagram, ReceiveAck
    <3>2. CASE ReceiveReliable(h)
      BY <2>1, <3>2 DEF ReceiveReliable, TablesOK, ChannelType
    <3>3. QED
      BY <2>1, <3>1, <3>2
  <2>6. QED
    BY <2>1, <2>2, <2>3, <2>4, <2>5
       DEF NodeNext, MainStep, RadioStep, WriteField, EnterLoop, ReadClock, Skip, Take,
           GiveUp, Call, RadioTake, RadioGiveUp, SendStatus, Delivered, Arrive, Deliver,
           Tick, nodeVars, tables
<1>3. QED
  BY <1>1, <1>2, NodeInvariant, PTL DEF NodeSpec

-----------------------------------------------------------------------------
(* The reassembly buffer.                                                  *)

LossExplained ==
    \/ BeginsWith(buffer', buffer)
    \/ handed' # <<>> /\ BeginsWith(handed'[1], buffer)
    \/ bufferAge > FragmentTimeout
    \/ pc = "poll" /\ bufferAge < loopAge
    \/ delivering # {} /\ handed' # <<>> /\ Len(handed'[1]) = 1
    \/ delivering # {} /\ Len(buffer) = MaxReassembly
    \/ delivering # {} /\ pc = "fields"

\* A message that on_message gets is the first one of the step.
LEMMA ToldFirst ==
  ASSUME NEW message, ready = Fields
  PROVE  Told(<<message>>) # <<>> /\ Told(<<message>>)[1] = message
  BY DEF Told, Fields

\* Every loss has its cause.
LEMMA LossHasCause == NodeInv /\ [NodeNext]_nodeVars => LossExplained
<1> SUFFICES ASSUME AgesOK, ControlOK, BufferOK, Booted, [NodeNext]_nodeVars
             PROVE  LossExplained
  BY DEF NodeInv
<1> USE Bounds
<1>1. CASE UNCHANGED buffer
  BY <1>1 DEF LossExplained, BeginsWith, BufferOK
<1>2. CASE Deliver
  <2>1. delivering # {} /\ (pc = "fields" \/ ready = Fields)
    BY <1>2 DEF Deliver, Booted
  <2>2. PICK chan \in delivering :
           \/ DeliverFragment(chan, FALSE)
           \/ DeliverFragment(chan, TRUE)
           \/ DeliverWhole(chan)
    BY <1>2 DEF Deliver
  <2>3. SUFFICES ASSUME ready = Fields, Len(buffer) < MaxReassembly
                 PROVE  LossExplained
    BY <2>1 DEF LossExplained, BufferOK
  <2>4. BeginsWith(Append(buffer, chan), buffer)
    BY DEF BeginsWith, BufferOK
  <2>5. CASE DeliverFragment(chan, FALSE)
    <3>1. buffer' = Append(buffer, chan)
      BY <2>3, <2>5 DEF DeliverFragment, BufferOK
    <3>2. QED
      BY <2>4, <3>1 DEF LossExplained
  <2>6. CASE DeliverFragment(chan, TRUE)
    <3>1. handed' = Told(<<Append(buffer, chan)>>)
      BY <2>3, <2>6 DEF DeliverFragment, BufferOK
    <3>2. QED
      BY <2>3, <2>4, <3>1, ToldFirst DEF LossExplained
  <2>7. CASE DeliverWhole(chan)
    <3>1. handed' = Told(<< <<chan>> >>)
      BY <2>7 DEF DeliverWhole
    <3>2. handed' # <<>> /\ handed'[1] = <<chan>>
      BY <2>3, <3>1, ToldFirst
    <3>3. QED
      BY <2>1, <3>2 DEF LossExplained
  <2>8. QED
    BY <2>2, <2>5, <2>6, <2>7
<1>3. CASE Call
  <2>1. Poll \/ UNCHANGED buffer
    BY <1>3 DEF Call, SendReliable, SendDatagrams, reassembly
  <2>2. CASE Poll
    <3>1. UNCHANGED buffer \/ (pc = "poll" /\ Expired(bufferAge, FragmentTimeout))
      BY <2>2 DEF Poll, PurgeReassembly, reassembly
    <3>2. CASE pc = "poll" /\ Expired(bufferAge, FragmentTimeout)
      <4>1. bufferAge \in Nat /\ loopAge \in Nat
        BY DEF AgesOK, ControlOK
      <4>2. bufferAge < loopAge \/ bufferAge > FragmentTimeout
        BY <3>2, <4>1 DEF Expired
      <4>3. QED
        BY <3>2, <4>2 DEF LossExplained
    <3>3. QED
      BY <1>1, <3>1, <3>2
  <2>3. QED
    BY <1>1, <2>1, <2>2
<1>4. CASE Receive
  BY <1>1, <1>4, PendingReceive DEF Receive, reassembly
<1>5. QED
  BY <1>1, <1>2, <1>3, <1>4
     DEF NodeNext, MainStep, RadioStep, InitTables, WriteField, OpenNext, ResetEngine,
         EnterLoop, ReadClock, Skip, Take, GiveUp, RadioTake, RadioGiveUp, SendStatus,
         Delivered, Arrive, Tick, nodeVars, reassembly

\* Whatever the two tasks do, a message in the reassembly buffer goes on, is
\* handed over or is lost for one of the named causes.
THEOREM NodeBufferLostForCause == NodeSpec => BufferLostForCause
<1>1. NodeInv /\ [NodeNext]_nodeVars =>
        [ \/ BeginsWith(buffer', buffer)
          \/ handed' # <<>> /\ BeginsWith(handed'[1], buffer)
          \/ bufferAge > FragmentTimeout
          \/ pc = "poll" /\ bufferAge < loopAge
          \/ delivering # {} /\ handed' # <<>> /\ Len(handed'[1]) = 1
          \/ delivering # {} /\ Len(buffer) = MaxReassembly
          \/ delivering # {} /\ pc = "fields" ]_nodeVars
  BY LossHasCause DEF LossExplained
<1>2. QED
  BY <1>1, NodeInvariant, PTL DEF NodeSpec, BufferLostForCause

-----------------------------------------------------------------------------
(* What goes on the air.                                                   *)

\* What BuiltFramesDecode asks of one header
Decodes(h) ==
    /\ Decode(Encode(h)) = h
    /\ Accepts(Encode(h), HeaderSize + h.len, MaxPayload) <=> ~AnswersNumberedPing(h)

\* The numbers in the headers are of their types.
LEMMA NumbersTyped ==
  /\ 0 \in Word
  /\ Modes \subseteq Byte \cap 0 .. 15 /\ Types \subseteq Byte \cap 0 .. 15
  /\ HeartbeatChannel \in Byte
  /\ MaxPayload \in Word /\ 0 <= MaxPayload
  /\ \A len \in Lens : len \in Word /\ len <= MaxPayload
<1>1. MaxPayload \in Word \ {0}
  BY NodeAssumption
<1>2. 0 \in Word /\ 1 \in Word
  BY WordIsNat
<1>3. MaxPayload \in Nat \ {0}
  BY <1>1, <1>2, WordIsNat
<1>4. 0 <= MaxPayload /\ \A len \in Lens : len \in Word /\ len <= MaxPayload
  BY <1>1, <1>2, <1>3 DEF Lens
<1>5. Modes \subseteq Byte \cap 0 .. 15 /\ Types \subseteq Byte \cap 0 .. 15
  BY DEF Modes, Types, Byte, RELIABLE, UNRELIABLE, PRIORITY, DATA, ACK, NACK, PING, PONG
<1>6. HeartbeatChannel \in Byte
  BY DEF Byte, HeartbeatChannel
<1>7. QED
  BY <1>1, <1>2, <1>4, <1>5, <1>6

\* A number cut to 16 bits
LEMMA CutToWord ==
  ASSUME NEW x \in Nat
  PROVE  x % 65536 \in Word
<1>1. x % 65536 \in Nat /\ x % 65536 <= 65535
  OBVIOUS
<1>2. QED
  BY <1>1, WordIsNat

\* The ids are numbers.
LEMMA SeqsAreNat ==
  ASSUME NEW s \in Seqs
  PROVE  s \in Word /\ s \in Nat
<1>1. s \in Word
  BY NodeAssumption
<1>2. QED
  BY <1>1, WordIsNat

\* The ids of successive packets
LEMMA NextIds ==
  ASSUME NEW s \in Seqs, NEW k \in Nat
  PROVE  IdAfter(s, k) \in Word
<1>1. s \in Word
  BY NodeAssumption
<1>2. s + k \in Nat
  BY <1>1, WordIsNat
<1>3. QED
  BY <1>2, CutToWord DEF IdAfter

\* Neither the reserved flag nor LAST_FRAGMENT alone is among these.
LEMMA FlagsInUse ==
  ASSUME NEW flags \in {0, FRAGMENT, FRAGMENT + LAST_FRAGMENT}
  PROVE  /\ flags \in Byte \cap 0 .. 15
         /\ ~Has(flags, RESERVED)
         /\ Has(flags, LAST_FRAGMENT) => Has(flags, FRAGMENT)
         /\ Has(flags, FRAGMENT) => flags # 0
<1>1. flags \in {0, 1, 3}
  BY DEF FRAGMENT, LAST_FRAGMENT
<1>2. flags \in Byte \cap 0 .. 15
  BY <1>1 DEF Byte
<1>3. QED
  BY <1>1, <1>2 DEF Has, RESERVED, FRAGMENT, LAST_FRAGMENT

\* A header of the kind that the handlers build survives the air, and is
\* refused for one thing only: an ack_id in UNRELIABLE mode.
LEMMA FrameDecodes ==
  ASSUME NEW mode \in Modes, NEW chan \in Byte, NEW type \in Types,
         NEW flags \in {0, FRAGMENT, FRAGMENT + LAST_FRAGMENT},
         NEW seq \in Word, NEW ack \in Word, NEW len \in Word,
         len <= MaxPayload,
         chan = HeartbeatChannel <=> type \in {PING, PONG},
         type = ACK => len = 0,
         flags # 0 => mode = RELIABLE,
         ack # 0 => type = PONG \/ mode # UNRELIABLE
  PROVE  Decodes(Frame(mode, chan, type, flags, seq, ack, len))
<1> DEFINE f == Frame(mode, chan, type, flags, seq, ack, len)
<1>1. /\ f.version = Version /\ f.mode = mode /\ f.type = type /\ f.flags = flags
      /\ f.seq = seq /\ f.ack = ack /\ f.chan = chan /\ f.len = len
  BY DEF Frame
<1>2. Version \in Byte \cap 0 .. 15
  BY DEF Version, Byte
<1>3. f \in Header
  BY <1>2, NumbersTyped, FlagsInUse DEF Frame, Header
<1> HIDE DEF f
<1>4. Decode(Encode(f)) = f
  BY <1>1, <1>2, <1>3, NumbersTyped, FlagsInUse, DecodeEncode
<1>5. Valid(f, MaxPayload) <=> ~(mode = UNRELIABLE /\ ack # 0)
  BY <1>1, FlagsInUse DEF Valid
<1>6. Valid(f, MaxPayload) <=> ~AnswersNumberedPing(f)
  BY <1>1, <1>5 DEF AnswersNumberedPing
<1>7. Valid(f, MaxPayload) => Accepts(Encode(f), HeaderSize + f.len, MaxPayload)
  BY <1>1, <1>3, NumbersTyped, FlagsInUse, SentIsAccepted
<1>8. Accepts(Encode(f), HeaderSize + f.len, MaxPayload) => Valid(f, MaxPayload)
  BY <1>4 DEF Accepts
<1>9. QED
  BY <1>4, <1>6, <1>7, <1>8 DEF Decodes, f

\* DATA, whole or in fragments
LEMMA DataDecodes ==
  ASSUME NEW mode \in Modes, NEW chan \in Byte \ {HeartbeatChannel},
         NEW flags \in {0, FRAGMENT, FRAGMENT + LAST_FRAGMENT},
         NEW seq \in Word, NEW len \in Lens, flags # 0 => mode = RELIABLE
  PROVE  Decodes(Frame(mode, chan, DATA, flags, seq, 0, len))
<1>1. DATA \in Types /\ DATA \notin {ACK, PING, PONG}
  BY DEF Types, DATA, ACK, PING, PONG
<1>2. 0 \in Word /\ len \in Word /\ len <= MaxPayload
  BY NumbersTyped
<1>3. QED
  BY <1>1, <1>2, FrameDecodes

\* A message of one frame
LEMMA WholeDecodes ==
  ASSUME NEW seq \in Word, NEW len \in Lens
  PROVE  Decodes(Whole(seq, len))
<1>1. MainChannel \in Byte \ {HeartbeatChannel} /\ RELIABLE \in Modes
  BY NodeAssumption DEF Modes
<1>2. QED
  BY <1>1, DataDecodes DEF Whole

\* A fragment
LEMMA FragmentDecodes ==
  ASSUME NEW seq \in Word, NEW last \in BOOLEAN, NEW len \in Lens
  PROVE  Decodes(Fragment(seq, last, len))
<1>1. MainChannel \in Byte \ {HeartbeatChannel} /\ RELIABLE \in Modes
  BY NodeAssumption DEF Modes
<1>2. FragmentFlags(last) \in {0, FRAGMENT, FRAGMENT + LAST_FRAGMENT}
  BY DEF FragmentFlags, FRAGMENT, LAST_FRAGMENT
<1>3. QED
  BY <1>1, <1>2, DataDecodes DEF Fragment

\* A run of fragments
LEMMA FragmentsDecode ==
  ASSUME NEW s \in Seqs, NEW k \in Int, NEW h \in Fragments(s, k)
  PROVE  Decodes(h)
<1>1. PICK n \in 0 .. k - 1 : h = Fragment(IdAfter(s, n), FALSE, MaxPayload)
  BY DEF Fragments
<1>2. n \in Nat
  OBVIOUS
<1>3. IdAfter(s, n) \in Word /\ MaxPayload \in Lens
  BY <1>2, NextIds DEF Lens
<1>4. QED
  BY <1>1, <1>3, FragmentDecodes

\* A message has as many packets as it takes slots, at least one.
LEMMA SlotsCount ==
  ASSUME NEW new \in (SUBSET FreeSlots) \ {{}}
  PROVE  Cardinality(new) \in Nat \ {0}
<1>1. IsFiniteSet(1 .. MaxPending)
  BY NodeAssumption, FS_Interval
<1>2. new \subseteq 1 .. MaxPending
  BY DEF FreeSlots
<1>3. IsFiniteSet(new) /\ new # {}
  BY <1>1, <1>2, FS_Subset
<1>4. Cardinality(new) \in Nat /\ Cardinality(new) # 0
  BY <1>3, FS_CardinalityType, FS_EmptySet
<1>5. QED
  BY <1>4

\* What relinow_send_reliable builds
LEMMA SendReliableDecodes ==
  ASSUME SendReliable, NEW h \in built'
  PROVE  Decodes(h)
<1>1. CASE SendRefused
  BY <1>1 DEF SendRefused
<1>2. CASE SendWhole(loopAge)
  <2>1. PICK s \in Seqs, len \in Lens : built' \in {{}, {Whole(s, len)}}
    BY <1>2 DEF SendWhole
  <2>2. s \in Word
    BY SeqsAreNat
  <2>3. h = Whole(s, len)
    BY <2>1
  <2>4. QED
    BY <2>2, <2>3, WholeDecodes
<1>3. CASE SendFragmented
  <2>1. PICK new \in (SUBSET FreeSlots) \ {{}}, s \in Seqs, len \in Lens :
           \/ built' = Fragments(s, Cardinality(new) - 1)
           \/ built' = Fragments(s, Cardinality(new))
           \/ built' = Fragments(s, Cardinality(new) - 1)
                         \cup {Fragment(IdAfter(s, Cardinality(new) - 1), TRUE, len)}
    BY <1>3, Zenon DEF SendFragmented
  <2>2. PICK k \in Nat \ {0} : k = Cardinality(new)
    BY SlotsCount
  <2>3. CASE h \in Fragments(s, k - 1) \/ h \in Fragments(s, k)
    BY <2>3, FragmentsDecode
  <2>4. CASE h = Fragment(IdAfter(s, k - 1), TRUE, len)
    <3>1. IdAfter(s, k - 1) \in Word
      BY NextIds
    <3>2. QED
      BY <2>4, <3>1, FragmentDecodes
  <2>5. \/ h \in Fragments(s, k - 1) \/ h \in Fragments(s, k)
        \/ h = Fragment(IdAfter(s, k - 1), TRUE, len)
    BY <2>1, <2>2, Zenon
  <2>6. QED
    BY <2>3, <2>4, <2>5
<1>4. QED
  BY <1>1, <1>2, <1>3 DEF SendReliable

\* What relinow_send_unreliable and relinow_send_priority build
LEMMA SendDatagramsDecodes ==
  ASSUME TablesOK, NEW call, NEW mode \in Modes, NEW n \in Nat,
         SendDatagrams(call, mode, n), NEW h \in built'
  PROVE  Decodes(h)
<1>1. PICK i \in DOMAIN channels, s \in Seqs, len \in Lens, k \in 0 .. n - 1 :
         h = Datagram(mode, channels[i].id, IdAfter(s, k), len)
  BY DEF SendDatagrams
<1>2. channels[i].id \in Byte \ {HeartbeatChannel}
  BY DEF TablesOK, ChannelType, IdsOrdinary
<1>3. IdAfter(s, k) \in Word
  BY NextIds
<1>4. 0 \in {0, FRAGMENT, FRAGMENT + LAST_FRAGMENT}
  OBVIOUS
<1>5. Decodes(Datagram(mode, channels[i].id, IdAfter(s, k), len))
  BY <1>2, <1>3, <1>4, DataDecodes DEF Datagram
<1>6. QED
  BY <1>1, <1>5

\* What relinow_poll builds: the PING, and a frame of tx_cache
LEMMA PollDecodes ==
  ASSUME Poll, NEW h \in built'
  PROVE  Decodes(h)
<1>1. Decodes(Ping)
  <2>1. /\ UNRELIABLE \in Modes /\ PING \in Types /\ PING # ACK /\ PING # PONG
        /\ 0 \in {0, FRAGMENT, FRAGMENT + LAST_FRAGMENT}
    BY DEF Modes, Types, PING, ACK, PONG
  <2>2. QED
    BY <2>1, NumbersTyped, FrameDecodes DEF Ping
<1>2. ASSUME NEW s \in Seqs, h \in Cached(s) PROVE Decodes(h)
  <2>1. s \in Word
    BY SeqsAreNat
  <2>2. CASE h \in Fragments(s, 1)
    BY <2>2, FragmentsDecode
  <2>3. CASE \E len \in Lens : h = Whole(s, len) \/ h = Fragment(s, TRUE, len)
    BY <2>1, <2>3, WholeDecodes, FragmentDecodes
  <2>4. QED
    BY <1>2, <2>2, <2>3 DEF Cached
<1>3. h = Ping \/ \E s \in Seqs : h \in Cached(s)
  BY DEF Poll
<1>4. QED
  BY <1>1, <1>2, <1>3

\* What the main task builds
LEMMA CallDecodes ==
  ASSUME TablesOK, Call, NEW h \in built'
  PROVE  Decodes(h)
<1>1. UNRELIABLE \in Modes /\ PRIORITY \in Modes
  BY DEF Modes
<1>2. \/ SendReliable \/ Poll
      \/ SendDatagrams("unreliable", UNRELIABLE, 1)
      \/ SendDatagrams("priority", PRIORITY, 2)
  BY DEF Call
<1>3. QED
  BY <1>1, <1>2, SendReliableDecodes, SendDatagramsDecodes, PollDecodes

\* A header that the node looks at is valid.
LEMMA TakenIsValid ==
  ASSUME NEW h \in Incoming, ForUs(h)
  PROVE  h \in Header /\ Valid(h, Limit)
<1>1. h \in Header /\ Decode(Encode(h)) = h
  BY NodeAssumption
<1>2. QED
  BY <1>1 DEF ForUs, Accepts

\* What the Wi-Fi task builds: a PONG or an ACK
LEMMA ReceiveDecodes ==
  ASSUME NEW h \in Incoming,
         \/ ReceiveOther(h) \/ ReceivePing(h) \/ ReceiveDatagram(h)
         \/ ReceiveAck(h) \/ ReceiveReliable(h)
  PROVE  \A f \in built' : Decodes(f)
<1>1. 0 \in {0, FRAGMENT, FRAGMENT + LAST_FRAGMENT}
  OBVIOUS
<1>2. CASE ReceivePing(h)
  <2>1. h \in Header /\ h.mode \in Modes
    BY <1>2, TakenIsValid DEF ReceivePing, Valid
  <2>2. h.seq \in Word
    BY <2>1 DEF Header
  <2>3. PONG \in Types /\ PONG # ACK
    BY DEF Types, PONG, ACK
  <2>4. Decodes(Frame(h.mode, HeartbeatChannel, PONG, 0, 0, h.seq, 0))
    BY <1>1, <2>1, <2>2, <2>3, NumbersTyped, FrameDecodes
  <2>5. QED
    BY <1>2, <2>4 DEF ReceivePing
<1>3. CASE ReceiveReliable(h)
  <2>1. h \in Header /\ h.chan # HeartbeatChannel
    <3>1. h \in Header /\ Valid(h, Limit) /\ h.type = DATA
      BY <1>3, TakenIsValid DEF ReceiveReliable
    <3>2. DATA \notin {PING, PONG}
      BY DEF DATA, PING, PONG
    <3>3. QED
      BY <3>1, <3>2 DEF Valid
  <2>2. h.chan \in Byte \ {HeartbeatChannel}
    BY <2>1 DEF Header
  <2>3. /\ RELIABLE \in Modes /\ RELIABLE # UNRELIABLE
        /\ ACK \in Types /\ ACK \notin {PING, PONG}
    BY DEF Modes, RELIABLE, UNRELIABLE, Types, ACK, PING, PONG
  <2>4. ASSUME NEW s \in Seqs
        PROVE  Decodes(Frame(RELIABLE, h.chan, ACK, 0, 0, s, 0))
    <3>1. s \in Word
      BY NodeAssumption
    <3>2. QED
      BY <1>1, <2>2, <2>3, <3>1, NumbersTyped, FrameDecodes
  <2>5. QED
    BY <1>3, <2>4 DEF ReceiveReliable
<1>4. QED
  BY <1>2, <1>3 DEF ReceiveOther, ReceiveDatagram, ReceiveAck, Quiet

\* Every header that any handler gives to relinow_send_frame, whole message,
\* fragment, retransmission, ACK or heartbeat, goes out, and a peer with the
\* same max_payload accepts it and decodes it to the same fields, but for the
\* PONG to an UNRELIABLE PING that carries an id.
THEOREM NodeBuiltFramesDecode == NodeSpec => []BuiltFramesDecode
<1> DEFINE AllDecode == \A h \in built : Decodes(h)
<1>1. NodeInit => AllDecode
  BY DEF NodeInit
<1>2. NodeInv /\ AllDecode /\ [NodeNext]_nodeVars => AllDecode'
  <2> SUFFICES ASSUME TablesOK, AllDecode, [NodeNext]_nodeVars PROVE AllDecode'
    BY DEF NodeInv
  <2>1. CASE built' = {} \/ UNCHANGED built
    BY <2>1 DEF Decodes
  <2>2. CASE Call
    BY <2>2, CallDecodes DEF Decodes
  <2>3. CASE Receive
    BY <2>3, ReceiveDecodes DEF Receive, Decodes
  <2>4. QED
    BY <2>1, <2>2, <2>3
       DEF NodeNext, MainStep, RadioStep, InitTables, WriteField, OpenNext, ResetEngine,
           EnterLoop, ReadClock, Skip, Take, GiveUp, RadioTake, RadioGiveUp, SendStatus,
           Delivered, Arrive, Deliver, Tick, Quiet, nodeVars, out
<1>3. AllDecode => BuiltFramesDecode
  BY DEF BuiltFramesDecode, Decodes
<1>4. QED
  BY <1>1, <1>2, <1>3, NodeInvariant, PTL DEF NodeSpec
=============================================================================
