---------------------------- MODULE RelinowHeader ----------------------------
(***************************************************************************)
(* The nine-byte header of every frame: relinow_validate_header,           *)
(* relinow_encode_header and relinow_decode_header of relinow_packet.c,    *)
(* with their shifts and masks written as quotients and remainders.        *)
(***************************************************************************)
EXTENDS Naturals, Sequences

HeaderSize == 9
Version == 1

RELIABLE == 1
UNRELIABLE == 2
PRIORITY == 3
Modes == {RELIABLE, UNRELIABLE, PRIORITY}

DATA == 1
ACK == 2
NACK == 3
PING == 4
PONG == 5
Types == {DATA, ACK, NACK, PING, PONG}

FRAGMENT == 1
LAST_FRAGMENT == 2
ENCRYPTED == 4
RESERVED == 8

HeartbeatChannel == 255

Byte == 0 .. 255
Word == 0 .. 65535

Header == [version : Byte, mode : Byte, type : Byte, flags : Byte,
           seq : Word, ack : Word, chan : Byte, len : Word]

\* (flags & flag) != 0
Has(flags, flag) == (flags \div flag) % 2 = 1

\* relinow_validate_header
Valid(h, maxPayload) ==
    /\ h.version = Version
    /\ h.mode \in Modes /\ h.type \in Types
    /\ ~Has(h.flags, RESERVED)
    /\ h.len <= maxPayload
    /\ h.chan = HeartbeatChannel <=> h.type \in {PING, PONG}
    /\ h.type = ACK => h.len = 0
    /\ h.mode = UNRELIABLE => h.ack = 0
    /\ Has(h.flags, FRAGMENT) => h.mode = RELIABLE
    /\ Has(h.flags, LAST_FRAGMENT) => Has(h.flags, FRAGMENT)

\* Two four-bit fields in a byte; what does not fit is cut off.
Nibbles(high, low) == (16 * (high % 16)) + (low % 16)

\* relinow_encode_header, for a header that is valid
Encode(h) ==
    << Nibbles(h.version, h.mode), Nibbles(h.type, h.flags),
       h.seq \div 256, h.seq % 256, h.ack \div 256, h.ack % 256,
       h.chan, h.len \div 256, h.len % 256 >>

\* relinow_decode_header: the fields of the first nine bytes of a frame
Decode(b) ==
    [version |-> b[1] \div 16, mode |-> b[1] % 16,
     type |-> b[2] \div 16, flags |-> b[2] % 16,
     seq |-> (256 * b[3]) + b[4], ack |-> (256 * b[5]) + b[6],
     chan |-> b[7], len |-> (256 * b[8]) + b[9]]

\* What relinow_decode_header accepts of a frame of frameLen bytes.
Accepts(b, frameLen, maxPayload) ==
    /\ frameLen >= HeaderSize
    /\ Decode(b).len = frameLen - HeaderSize
    /\ Valid(Decode(b), maxPayload)

\* Frames that a message of len bytes takes, and what is left of the number
\* after the cast to uint8_t in relinow_send_reliable.
FramesNeeded(len, maxPayload) == (len + maxPayload - 1) \div maxPayload
FragmentCount(len, maxPayload) == FramesNeeded(len, maxPayload) % 256
=============================================================================
