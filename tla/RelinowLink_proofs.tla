-------------------------- MODULE RelinowLink_proofs --------------------------
(***************************************************************************)
(* Theorems about a RELIABLE channel from end to end, for every size of    *)
(* its tables, every number of retries and an arbitrary radio.             *)
(*                                                                         *)
(* AckedWasReceived is not inductive: an ACK settles a packet long after   *)
(* it was sent.  The inductive invariant LinkInv says of every ACK in the  *)
(* air that the window has passed the id it names, of the window that it   *)
(* never passes the newest id sent, and of everything A and B hold that it *)
(* was sent.  Within one lap of the ids serial arithmetic is arithmetic.   *)
(*                                                                         *)
(* FragmentsInv, on top of it, says that no two messages share an id and   *)
(* that every pending fragment is tracked; from it follows that fragments  *)
(* of two messages are never pending together.                             *)
(***************************************************************************)
EXTENDS RelinowLink, FiniteSetTheorems, SequenceTheorems, TLAPS

\* Ids that have been used.
Used == 0 .. nextTxSeq - 1

Message == [frames : UNION {[1 .. k -> Nat] : k \in Nat}, whole : BOOLEAN]

SenderInv ==
    /\ nextTxSeq \in 0 .. MaxPackets
    /\ messages \in Seq(Message)
    /\ Sent \subseteq Used /\ Pending \subseteq Used /\ dataNet \subseteq Used
    /\ TxCacheMirrors

ReceiverInv ==
    /\ hasRxWindow => expectedRxSeq \in 1 .. nextTxSeq
    /\ reorder \subseteq Used
    /\ \A a \in ackNet : hasRxWindow /\ a \in Nat /\ a < expectedRxSeq

LinkInv == SenderInv /\ ReceiverInv /\ AckedWasReceived

-----------------------------------------------------------------------------
(* The next ids.                                                           *)

\* A burst within the lap is the run of ids that follows.
LEMMA BurstIds ==
  ASSUME nextTxSeq \in Nat, NEW k \in Nat \ {0}, nextTxSeq + k <= MaxPackets
  PROVE  /\ Burst(k) = nextTxSeq .. nextTxSeq + k - 1
         /\ ToSet(Frames(k)) = nextTxSeq .. nextTxSeq + k - 1
         /\ Frames(k) \in [1 .. k -> Nat]
         /\ SeqAdd(nextTxSeq, k) = nextTxSeq + k
<1>1. MaxPackets \in Nat /\ SeqSpace \in Nat /\ MaxPackets < SeqSpace
  BY LinkAssumption, SeqSpaceAssumption
<1>2. \A i \in 0 .. k : SeqAdd(nextTxSeq, i) = nextTxSeq + i
  BY <1>1 DEF SeqAdd
<1>3. Burst(k) = nextTxSeq .. nextTxSeq + k - 1
  <2>1. ASSUME NEW s \in nextTxSeq .. nextTxSeq + k - 1 PROVE s \in Burst(k)
    <3>1. s - nextTxSeq \in 0 .. k - 1 /\ s = nextTxSeq + (s - nextTxSeq)
      OBVIOUS
    <3>2. s = SeqAdd(nextTxSeq, s - nextTxSeq)
      BY <1>2, <3>1
    <3>3. QED
      BY <3>1, <3>2 DEF Burst
  <2>2. ASSUME NEW s \in Burst(k) PROVE s \in nextTxSeq .. nextTxSeq + k - 1
    <3>1. PICK i \in 0 .. k - 1 : s = SeqAdd(nextTxSeq, i)
      BY DEF Burst
    <3>2. QED
      BY <1>2, <3>1
  <2>3. QED
    BY <2>1, <2>2
<1>4. /\ DOMAIN Frames(k) = 1 .. k
      /\ \A i \in 1 .. k : Frames(k)[i] = nextTxSeq + (i - 1)
  <2>1. \A i \in 1 .. k : SeqAdd(nextTxSeq, i - 1) = nextTxSeq + (i - 1)
    BY <1>2
  <2>2. QED
    BY <2>1 DEF Frames
<1>5. ToSet(Frames(k)) = nextTxSeq .. nextTxSeq + k - 1
  <2>1. ToSet(Frames(k)) = {Frames(k)[i] : i \in 1 .. k}
    BY <1>4 DEF ToSet
  <2>2. ASSUME NEW s \in nextTxSeq .. nextTxSeq + k - 1
        PROVE  s \in ToSet(Frames(k))
    <3>1. s - nextTxSeq + 1 \in 1 .. k
      OBVIOUS
    <3>2. Frames(k)[s - nextTxSeq + 1] = s
      BY <1>4, <3>1
    <3>3. QED
      BY <2>1, <3>1, <3>2
  <2>3. ASSUME NEW s \in ToSet(Frames(k))
        PROVE  s \in nextTxSeq .. nextTxSeq + k - 1
    <3>1. PICK i \in 1 .. k : s = Frames(k)[i]
      BY <2>1
    <3>2. s = nextTxSeq + (i - 1)
      BY <1>4, <3>1
    <3>3. QED
      BY <3>2
  <2>4. QED
    BY <2>2, <2>3
<1>6. Frames(k) \in [1 .. k -> Nat]
  <2>1. Frames(k) = [i \in 1 .. k |-> Frames(k)[i]]
    BY <1>4 DEF Frames
  <2>2. \A i \in 1 .. k : Frames(k)[i] \in Nat
    BY <1>4
  <2>3. QED
    BY <2>1, <2>2
<1>7. QED
  BY <1>2, <1>3, <1>5, <1>6

\* A delivered run of used ids ends before the next new id.
LEMMA RunWithinUsed ==
  ASSUME SenderInv, ReceiverInv, hasRxWindow, expectedRxSeq \in Used,
         NEW n \in 0 .. MaxReorder, IsRun(expectedRxSeq, n)
  PROVE  /\ SeqAdd(expectedRxSeq, n + 1) = expectedRxSeq + n + 1
         /\ expectedRxSeq + n + 1 <= nextTxSeq
<1>1. /\ nextTxSeq \in Nat /\ nextTxSeq < SeqSpace /\ SeqSpace \in Nat
      /\ expectedRxSeq \in Nat /\ expectedRxSeq < nextTxSeq /\ n \in Nat
  BY LinkAssumption, SeqSpaceAssumption, ReorderAssumption DEF SenderInv, Used
<1>2. ASSUME expectedRxSeq + n >= nextTxSeq PROVE FALSE
  <2> DEFINE i == nextTxSeq - expectedRxSeq
  <2>1. i \in 1 .. n
    BY <1>1, <1>2
  <2>2. SeqAdd(expectedRxSeq, i) = nextTxSeq
    BY <1>1 DEF SeqAdd
  <2>3. SeqAdd(expectedRxSeq, i) \in Used
    <3>1. SeqAdd(expectedRxSeq, i) \in reorder
      BY <2>1 DEF IsRun
    <3>2. QED
      BY <3>1 DEF ReceiverInv
  <2>4. QED
    BY <1>1, <2>2, <2>3 DEF Used
<1>3. expectedRxSeq + n + 1 <= nextTxSeq
  BY <1>1, <1>2
<1>4. QED
  BY <1>1, <1>3 DEF SeqAdd

-----------------------------------------------------------------------------
(* The steps of the sender.                                                *)

\* What a new message adds to the ids sent.
LEMMA SentAppend ==
  ASSUME messages \in Seq(Message), NEW r \in Message,
         messages' = Append(messages, r)
  PROVE  messages' \in Seq(Message) /\ Sent' = Sent \cup ToSet(r.frames)
<1>1. /\ messages' \in Seq(Message) /\ Len(messages) \in Nat
      /\ DOMAIN messages = 1 .. Len(messages)
      /\ DOMAIN messages' = 1 .. Len(messages) + 1
      /\ \A m \in 1 .. Len(messages) : messages'[m] = messages[m]
      /\ messages'[Len(messages) + 1] = r
  OBVIOUS
<1>2. DOMAIN messages' = DOMAIN messages \cup {Len(messages) + 1}
  BY <1>1
<1>3. Sent' = UNION {ToSet(messages'[m].frames) : m \in DOMAIN messages'}
  BY DEF Sent, ToSet
<1>4. QED
  BY <1>1, <1>2, <1>3 DEF Sent

LEMMA TransmitInv ==
  ASSUME LinkInv, NEW k \in Nat \ {0}, NEW onAir \in Nat, onAir <= k,
         NEW whole \in BOOLEAN, NEW fragment \in BOOLEAN,
         Transmit(k, onAir, whole, fragment)
  PROVE  LinkInv'
<1>1. nextTxSeq \in Nat /\ nextTxSeq + k <= MaxPackets /\ MaxPackets \in Nat
  BY LinkAssumption DEF LinkInv, SenderInv, Transmit
<1>2. /\ Burst(k) = nextTxSeq .. nextTxSeq + k - 1
      /\ ToSet(Frames(k)) = Burst(k) /\ Frames(k) \in [1 .. k -> Nat]
      /\ nextTxSeq' = nextTxSeq + k
  BY <1>1, BurstIds DEF Transmit, SendBurst
<1>3. Used' = Used \cup Burst(k)
  BY <1>1, <1>2 DEF Used
<1>4. Burst(onAir) \subseteq Burst(k)
  BY DEF Burst
<1>5. messages' \in Seq(Message) /\ Sent' = Sent \cup Burst(k)
  <2> DEFINE r == [frames |-> Frames(k), whole |-> whole]
  <2>1. r \in Message
    BY <1>2 DEF Message
  <2>2. messages \in Seq(Message) /\ messages' = Append(messages, r)
    BY DEF LinkInv, SenderInv, Transmit
  <2>3. r.frames = Frames(k)
    OBVIOUS
  <2> HIDE DEF r
  <2>4. QED
    BY <1>2, <2>1, <2>2, <2>3, SentAppend
<1>6. Pending' = Pending \cup Burst(k)
  BY DEF Transmit, SendBurst, Pending
<1>7. SenderInv'
  <2>1. nextTxSeq' \in 0 .. MaxPackets
    BY <1>1, <1>2
  <2>2. TxCacheMirrors'
    BY <1>6 DEF LinkInv, SenderInv, TxCacheMirrors, Transmit
  <2>3. dataNet' \subseteq Used'
    BY <1>3, <1>4 DEF LinkInv, SenderInv, Transmit
  <2>4. Sent' \subseteq Used' /\ Pending' \subseteq Used'
    BY <1>3, <1>5, <1>6 DEF LinkInv, SenderInv
  <2>5. QED
    BY <1>5, <2>1, <2>2, <2>3, <2>4 DEF SenderInv
<1>8. UNCHANGED <<hasRxWindow, expectedRxSeq, reorder, ackNet>>
  BY DEF Transmit, receiverVars, rxVars
<1>9. ReceiverInv'
  <2>1. hasRxWindow' => expectedRxSeq' \in 1 .. nextTxSeq'
    BY <1>1, <1>2, <1>8 DEF LinkInv, ReceiverInv
  <2>2. reorder' \subseteq Used'
    BY <1>3, <1>8 DEF LinkInv, ReceiverInv
  <2>3. QED
    BY <1>8, <2>1, <2>2 DEF LinkInv, ReceiverInv
<1>10. AckedWasReceived'
  <2>1. AckedSeqs' \subseteq AckedSeqs
    <3>1. failed' = failed \ Burst(k)
      BY DEF Transmit, SendBurst
    <3>2. QED
      BY <1>5, <1>6, <3>1 DEF AckedSeqs
  <2>2. QED
    BY <1>8, <2>1 DEF LinkInv, AckedWasReceived
<1>11. QED
  BY <1>7, <1>9, <1>10 DEF LinkInv

\* A step that leaves the ids sent and B alone and takes packets off A.
LEMMA SettleInv ==
  ASSUME LinkInv, UNCHANGED <<nextTxSeq, messages, receiverVars, ackNet>>,
         Pending' \subseteq Pending, TxCacheMirrors',
         dataNet' \subseteq dataNet \cup Pending,
         \A s \in AckedSeqs' \ AckedSeqs : s \in ackNet
  PROVE  LinkInv'
<1>1. UNCHANGED <<Used, Sent, hasRxWindow, expectedRxSeq, reorder>>
  BY DEF Used, Sent, ToSet, receiverVars, rxVars
<1>2. SenderInv'
  BY <1>1 DEF LinkInv, SenderInv
<1>3. ReceiverInv'
  BY <1>1 DEF LinkInv, ReceiverInv
<1>4. AckedWasReceived'
  BY <1>1 DEF LinkInv, ReceiverInv, AckedWasReceived
<1>5. QED
  BY <1>2, <1>3, <1>4 DEF LinkInv

LEMMA ReceiveAckInv == ASSUME LinkInv, ReceiveAck PROVE LinkInv'
<1>1. PICK a \in ackNet :
        /\ IF a \in Pending THEN Acked(a) ELSE UNCHANGED retryVars
        /\ txCache' = txCache \ {a}
        /\ UNCHANGED <<messages, receiverVars, dataNet, ackNet>>
  BY DEF ReceiveAck
<1>2. /\ UNCHANGED <<nextTxSeq, failed>>
      /\ Pending' = Pending \ {a}
  BY <1>1 DEF Acked, Settled, Pending, retryVars
<1>3. TxCacheMirrors'
  BY <1>1, <1>2 DEF LinkInv, SenderInv, TxCacheMirrors
<1>4. Sent' = Sent
  BY <1>1 DEF Sent, ToSet
<1>5. AckedSeqs' \ AckedSeqs \subseteq {a}
  BY <1>2, <1>4 DEF AckedSeqs
<1>6. QED
  BY <1>1, <1>2, <1>3, <1>5, SettleInv

LEMMA PollRetransmitInv == ASSUME LinkInv, PollRetransmit PROVE LinkInv'
<1>1. PICK s \in SeqId :
        /\ Retransmit(s)
        /\ dataNet' = IF s \in txCache THEN dataNet \cup {s} ELSE dataNet
        /\ UNCHANGED <<txCache, messages, receiverVars, ackNet>>
  BY DEF PollRetransmit
<1>2. UNCHANGED <<nextTxSeq, failed>> /\ Pending' = Pending /\ s \in Pending
  BY <1>1 DEF Retransmit, Pending
<1>3. TxCacheMirrors'
  BY <1>1, <1>2 DEF LinkInv, SenderInv, TxCacheMirrors
<1>4. Sent' = Sent
  BY <1>1 DEF Sent, ToSet
<1>5. AckedSeqs' = AckedSeqs
  BY <1>2, <1>4 DEF AckedSeqs
<1>6. QED
  BY <1>1, <1>2, <1>3, <1>5, SettleInv

LEMMA PollFailedInv == ASSUME LinkInv, PollFailed PROVE LinkInv'
<1>1. PICK s \in SeqId :
        /\ Fail(s)
        /\ txCache' = txCache \ {s}
        /\ UNCHANGED <<messages, receiverVars, dataNet, ackNet>>
  BY DEF PollFailed
<1>2. /\ UNCHANGED nextTxSeq /\ failed' = failed \cup {s}
      /\ Pending' = Pending \ {s}
  BY <1>1 DEF Fail, Settled, Pending
<1>3. TxCacheMirrors'
  BY <1>1, <1>2 DEF LinkInv, SenderInv, TxCacheMirrors
<1>4. Sent' = Sent
  BY <1>1 DEF Sent, ToSet
<1>5. AckedSeqs' = AckedSeqs \ {s}
  BY <1>2, <1>4 DEF AckedSeqs
<1>6. QED
  BY <1>1, <1>2, <1>3, <1>5, SettleInv

-----------------------------------------------------------------------------
(* The steps of the receiver.                                              *)

\* What holds after a frame was received: the window has not moved back and
\* stays within the ids sent, and the ACK names an id that it has passed.
LEMMA ReceiveInv ==
  ASSUME LinkInv, UNCHANGED <<senderVars, dataNet>>,
         hasRxWindow', expectedRxSeq' \in 1 .. nextTxSeq,
         hasRxWindow => expectedRxSeq <= expectedRxSeq',
         reorder' \subseteq Used, ackNet' \subseteq ackNet \cup {AckId'}
  PROVE  LinkInv'
<1>1. UNCHANGED <<nextTxSeq, retries, failed, txCache, messages, dataNet>>
  BY DEF senderVars
<1>2. Used' = Used /\ Sent' = Sent /\ Pending' = Pending
  BY <1>1 DEF Used, Sent, ToSet, Pending
<1>3. SenderInv'
  BY <1>1, <1>2 DEF LinkInv, SenderInv, TxCacheMirrors
<1>4. nextTxSeq \in Nat /\ nextTxSeq < SeqSpace /\ SeqSpace \in Nat
  BY LinkAssumption, SeqSpaceAssumption DEF LinkInv, SenderInv
<1>5. AckId' = expectedRxSeq' - 1
  BY <1>4 DEF AckId, SeqPrev, SeqDiff
<1>6. ReceiverInv'
  <2>1. ASSUME NEW a \in ackNet' PROVE a \in Nat /\ a < expectedRxSeq'
    <3>1. CASE a \in ackNet
      <4>1. a \in Nat /\ hasRxWindow /\ a < expectedRxSeq
        BY <3>1 DEF LinkInv, ReceiverInv
      <4>2. expectedRxSeq \in Nat /\ expectedRxSeq' \in Nat
        BY <4>1 DEF LinkInv, ReceiverInv
      <4>3. QED
        BY <4>1, <4>2
    <3>2. CASE a = AckId'
      <4>1. expectedRxSeq' \in 1 .. nextTxSeq /\ a = expectedRxSeq' - 1
        BY <1>5, <3>2
      <4>2. \A e \in 1 .. nextTxSeq : e - 1 \in Nat /\ e - 1 < e
        BY <1>4
      <4>3. QED
        BY <4>1, <4>2
    <3>3. QED
      BY <3>1, <3>2
  <2>2. QED
    BY <1>1, <1>2, <2>1 DEF ReceiverInv
<1>7. AckedWasReceived'
  <2>1. ASSUME NEW s \in AckedSeqs' PROVE s < expectedRxSeq'
    <3>1. s \in AckedSeqs
      BY <1>1, <1>2 DEF AckedSeqs
    <3>2. hasRxWindow /\ s < expectedRxSeq
      BY <3>1 DEF LinkInv, AckedWasReceived
    <3>3. s \in Nat
      BY <1>4, <3>1 DEF LinkInv, SenderInv, AckedSeqs, Used
    <3>4. expectedRxSeq \in Nat /\ expectedRxSeq' \in Nat
      BY <3>2 DEF LinkInv, ReceiverInv
    <3>5. QED
      BY <3>2, <3>3, <3>4
  <2>2. QED
    BY <2>1 DEF AckedWasReceived
<1>8. QED
  BY <1>3, <1>6, <1>7 DEF LinkInv

LEMMA ReceiveDataInv == ASSUME LinkInv, ReceiveData PROVE LinkInv'
<1>1. PICK s \in SeqId : \/ ReceiveFirst(s) \/ ReceiveExpected(s)
                         \/ ReceiveAhead(s) \/ ReceiveDuplicate(s)
  BY DEF ReceiveData
<1>2. s \in Used /\ UNCHANGED <<senderVars, dataNet>>
  BY <1>1 DEF LinkInv, SenderInv, ReceiveFirst, ReceiveExpected, ReceiveAhead,
              ReceiveDuplicate, TakeData
<1>3. /\ nextTxSeq \in Nat /\ nextTxSeq < SeqSpace /\ SeqSpace \in Nat
      /\ s \in Nat /\ s < nextTxSeq
  BY <1>2, LinkAssumption, SeqSpaceAssumption DEF LinkInv, SenderInv, Used
<1>4. \A q, n : Accept(q, n) => ackNet' \subseteq ackNet \cup {AckId'}
  BY DEF Accept
<1>5. \A q : Refuse(q) => ackNet' \subseteq ackNet \cup {AckId'}
  BY DEF Refuse
<1>6. CASE ReceiveFirst(s)
  <2>1. /\ ~hasRxWindow /\ hasRxWindow' /\ reorder' = reorder
        /\ expectedRxSeq' = SeqNext(s) /\ Accept(s, 0)
    BY <1>6 DEF ReceiveFirst, OpenWindow
  <2>2. expectedRxSeq' \in 1 .. nextTxSeq
    BY <1>3, <2>1 DEF SeqNext, SeqAdd
  <2>3. reorder' \subseteq Used
    BY <2>1 DEF LinkInv, ReceiverInv
  <2>4. QED
    BY <1>2, <1>4, <2>1, <2>2, <2>3, ReceiveInv
<1>7. CASE ReceiveExpected(s)
  <2>1. PICK n \in 0 .. MaxReorder : DeliverRun(s, n) /\ Accept(s, n)
    BY <1>7 DEF ReceiveExpected
  <2>2. /\ hasRxWindow /\ hasRxWindow' /\ s = expectedRxSeq
        /\ IsRun(expectedRxSeq, n) /\ expectedRxSeq' = SeqAdd(expectedRxSeq, n + 1)
        /\ reorder' \subseteq reorder
    BY <2>1 DEF DeliverRun
  <2>3. n \in Nat
    BY ReorderAssumption
  <2>4. /\ expectedRxSeq' = expectedRxSeq + n + 1
        /\ expectedRxSeq + n + 1 <= nextTxSeq
    BY <1>2, <2>2, RunWithinUsed DEF LinkInv
  <2>5. expectedRxSeq' \in 1 .. nextTxSeq /\ expectedRxSeq <= expectedRxSeq'
    BY <1>3, <2>2, <2>3, <2>4
  <2>6. reorder' \subseteq Used
    BY <2>2 DEF LinkInv, ReceiverInv
  <2>7. QED
    BY <1>2, <1>4, <2>1, <2>2, <2>5, <2>6, ReceiveInv
<1>8. CASE ReceiveAhead(s) \/ ReceiveDuplicate(s)
  <2>1. /\ hasRxWindow /\ hasRxWindow' /\ expectedRxSeq' = expectedRxSeq
        /\ reorder' \subseteq reorder \cup {s} /\ Refuse(s)
    BY <1>8 DEF ReceiveAhead, ReceiveDuplicate, BufferAhead, DropAhead, Duplicate
  <2>2. expectedRxSeq' \in 1 .. nextTxSeq /\ expectedRxSeq <= expectedRxSeq'
    BY <1>3, <2>1 DEF LinkInv, ReceiverInv
  <2>3. reorder' \subseteq Used
    BY <1>2, <2>1 DEF LinkInv, ReceiverInv
  <2>4. QED
    BY <1>2, <1>5, <2>1, <2>2, <2>3, ReceiveInv
<1>9. QED
  BY <1>1, <1>6, <1>7, <1>8

-----------------------------------------------------------------------------
(* The theorems.                                                           *)

LEMMA LinkInvInit == LinkInit => LinkInv
<1> SUFFICES ASSUME LinkInit PROVE LinkInv
  OBVIOUS
<1>1. /\ nextTxSeq = 0 /\ Pending = {} /\ messages = <<>> /\ dataNet = {}
      /\ txCache = {} /\ ~hasRxWindow /\ reorder = {} /\ ackNet = {}
  BY DEF LinkInit, RetryInit, RxInit, Pending
<1>2. Sent = {}
  BY <1>1 DEF Sent
<1>3. QED
  BY <1>1, <1>2, LinkAssumption
     DEF LinkInv, SenderInv, ReceiverInv, AckedWasReceived, AckedSeqs, TxCacheMirrors

\* The pending packets can be counted.
LEMMA PendingCount == ASSUME LinkInv PROVE Cardinality(Pending) \in Nat
<1>1. IsFiniteSet(Used)
  BY FS_Interval, LinkAssumption DEF Used, LinkInv, SenderInv
<1>2. IsFiniteSet(Pending)
  BY <1>1, FS_Subset DEF LinkInv, SenderInv
<1>3. QED
  BY <1>2, FS_CardinalityType

LEMMA SizesBounded == Sizes \subseteq 1 .. MaxFragments
  BY LinkAssumption DEF Sizes

LEMMA LinkInvStep == LinkInv /\ [LinkNext]_linkVars => LinkInv'
<1> SUFFICES ASSUME LinkInv, [LinkNext]_linkVars PROVE LinkInv'
  OBVIOUS
<1>1. CASE SendMessage
  <2>1. PICK n \in 1 .. MaxFragments : Transmit(n, n, TRUE, n > 1)
    BY <1>1, SizesBounded DEF SendMessage
  <2>2. n \in Nat \ {0} /\ n <= n /\ (n > 1) \in BOOLEAN
    BY LinkAssumption
  <2>3. QED
    BY <2>1, <2>2, TransmitInv
<1>2. CASE SendMessageError
  <2>1. PICK n \in 1 .. MaxFragments :
          \E k \in 1 .. n : Transmit(k, k - 1, k = n, n > 1)
    BY <1>2, SizesBounded DEF SendMessageError
  <2>2. PICK k \in 1 .. n : Transmit(k, k - 1, k = n, n > 1)
    BY <2>1
  <2>3. /\ k \in Nat \ {0} /\ k - 1 \in Nat /\ k - 1 <= k
        /\ (k = n) \in BOOLEAN /\ (n > 1) \in BOOLEAN
    BY LinkAssumption
  <2>4. QED
    BY <2>2, <2>3, TransmitInv
<1>3. CASE ReassemblyTimeout \/ UNCHANGED linkVars
  <2>1. UNCHANGED <<nextTxSeq, retries, failed, txCache, messages, dataNet,
                    hasRxWindow, expectedRxSeq, reorder, ackNet>>
    BY <1>3 DEF ReassemblyTimeout, linkVars, senderVars, receiverVars, rxVars
  <2>2. Used' = Used /\ Sent' = Sent /\ Pending' = Pending /\ AckedSeqs' = AckedSeqs
    BY <2>1 DEF Used, Sent, ToSet, Pending, AckedSeqs
  <2>3. QED
    BY <2>1, <2>2
       DEF LinkInv, SenderInv, ReceiverInv, AckedWasReceived, TxCacheMirrors
<1>4. CASE SendTruncated
  <2> DEFINE free == MaxPending - Cardinality(Pending)
  <2>1. free > 0 /\ Transmit(free, free, FALSE, TRUE)
    BY <1>4 DEF SendTruncated
  <2>2. free \in Nat \ {0} /\ free \in Nat
    BY <2>1, PendingCount, RetryAssumption
  <2>3. free <= free
    BY <2>2
  <2> HIDE DEF free
  <2>4. TRUE \in BOOLEAN /\ FALSE \in BOOLEAN
    OBVIOUS
  <2>5. QED
    BY <2>1, <2>2, <2>3, <2>4, TransmitInv
<1>5. QED
  BY <1>1, <1>2, <1>3, <1>4, ReceiveAckInv, PollRetransmitInv, PollFailedInv, ReceiveDataInv
     DEF LinkNext

\* Every reachable state satisfies the inductive invariant.
THEOREM LinkInvariant == LinkSpec => []LinkInv
<1>1. QED
  BY LinkInvInit, LinkInvStep, PTL DEF LinkSpec

\* A packet counts as acknowledged only after the peer's engine has delivered
\* it (relinow_reliable_on_ack), whatever the radio does and however full the
\* tables are.
THEOREM LinkAckedWasReceived == LinkSpec => []AckedWasReceived
<1>1. LinkInv => AckedWasReceived
  BY DEF LinkInv
<1>2. QED
  BY <1>1, LinkInvariant, PTL

\* tx_cache holds exactly the frames of the pending packets, through send
\* errors, acknowledgements and failures.
THEOREM LinkTxCacheMirrors == LinkSpec => []TxCacheMirrors
<1>1. LinkInv => TxCacheMirrors
  BY DEF LinkInv, SenderInv
<1>2. QED
  BY <1>1, LinkInvariant, PTL

-----------------------------------------------------------------------------
(* A's half is the sender of RelinowRetry, which the timed engine of       *)
(* RelinowSender implements.                                               *)

LEMMA TransmitIsRetry ==
  ASSUME LinkInv, NEW k \in Nat \ {0}, NEW onAir, NEW whole, NEW fragment,
         Transmit(k, onAir, whole, fragment)
  PROVE  RetryNext
<1>1. SendBurst(k)
  BY DEF Transmit
<1>2. k \in 1 .. MaxPending
  <2>1. Cardinality(Pending) + k <= MaxPending /\ Cardinality(Pending) \in Nat
    BY <1>1, PendingCount DEF SendBurst
  <2>2. QED
    BY <2>1, RetryAssumption
<1>3. QED
  BY <1>1, <1>2 DEF RetryNext

\* Whatever the radio and the receiver do, A's packets live as RelinowRetry
\* says: the link adds caches and fragments, and takes nothing from what is
\* proved about the engine.
THEOREM LinkRefinesRetry == LinkSpec => RetrySpec
<1>1. LinkInit => RetryInit
  BY DEF LinkInit
<1>2. LinkInv /\ [LinkNext]_linkVars => [RetryNext]_retryVars
  <2> SUFFICES ASSUME LinkInv, [LinkNext]_linkVars PROVE [RetryNext]_retryVars
    OBVIOUS
  <2>1. CASE SendMessage
    <3>1. PICK n \in 1 .. MaxFragments : Transmit(n, n, TRUE, n > 1)
      BY <2>1, SizesBounded DEF SendMessage
    <3>2. n \in Nat \ {0}
      BY LinkAssumption
    <3>3. QED
      BY <3>1, <3>2, TransmitIsRetry
  <2>2. CASE SendMessageError
    <3>1. PICK n \in 1 .. MaxFragments :
            \E k \in 1 .. n : Transmit(k, k - 1, k = n, n > 1)
      BY <2>2, SizesBounded DEF SendMessageError
    <3>2. PICK k \in 1 .. n : Transmit(k, k - 1, k = n, n > 1)
      BY <3>1
    <3>3. k \in Nat \ {0}
      BY LinkAssumption
    <3>4. QED
      BY <3>2, <3>3, TransmitIsRetry
  <2>3. CASE SendTruncated
    <3>1. PICK free : /\ free = MaxPending - Cardinality(Pending) /\ free > 0
                      /\ Transmit(free, free, FALSE, TRUE)
      BY <2>3 DEF SendTruncated
    <3>2. free \in Nat \ {0}
      BY <3>1, PendingCount, RetryAssumption
    <3>3. QED
      BY <3>1, <3>2, TransmitIsRetry
  <2>4. CASE ReceiveAck
    <3>1. PICK a \in ackNet : IF a \in Pending THEN Acked(a) ELSE UNCHANGED retryVars
      BY <2>4 DEF ReceiveAck
    <3>2. Pending \subseteq SeqId
      BY LinkAssumption, SeqSpaceAssumption DEF LinkInv, SenderInv, Used, SeqId
    <3>3. QED
      BY <3>1, <3>2 DEF RetryNext
  <2>5. CASE PollRetransmit \/ PollFailed
    BY <2>5 DEF PollRetransmit, PollFailed, RetryNext
  <2>6. CASE ReceiveData \/ ReassemblyTimeout \/ UNCHANGED linkVars
    BY <2>6 DEF ReceiveData, ReceiveFirst, ReceiveExpected, ReceiveAhead, ReceiveDuplicate,
                TakeData, ReassemblyTimeout, linkVars, senderVars, retryVars
  <2>7. QED
    BY <2>1, <2>2, <2>3, <2>4, <2>5, <2>6 DEF LinkNext
<1>3. QED
  BY <1>1, <1>2, LinkInvariant, PTL DEF LinkSpec, RetrySpec

-----------------------------------------------------------------------------
(* The tracking of fragments.  Messages share no ids, so a packet has one  *)
(* message, which later ones do not change; and as long as one fragment is *)
(* pending, relinow_send_reliable lets no other message begin.             *)

FrameIds(m) == ToSet(messages[m].frames)

FragmentsInv ==
    /\ Pending \subseteq Sent
    /\ \A m \in DOMAIN messages : messages[m].frames \in Seq(Nat)
    /\ \A m, n \in DOMAIN messages : m # n => FrameIds(m) \cap FrameIds(n) = {}
    /\ PendingFragmentsTracked
    /\ OneFragmentedMessage

\* A sequence contains what its set of elements contains.
LEMMA ContainsIs ==
  ASSUME NEW f \in Seq(Nat), NEW s
  PROVE  Contains(f, s) <=> s \in ToSet(f)
<1>1. DOMAIN f = 1 .. Len(f)
  BY LenProperties
<1>2. QED
  BY <1>1 DEF Contains, ToSet

\* The message of a packet is the one whose frames it is among.
LEMMA MessageOfIs ==
  ASSUME \A m \in DOMAIN messages : messages[m].frames \in Seq(Nat),
         \A m, n \in DOMAIN messages : m # n => FrameIds(m) \cap FrameIds(n) = {},
         NEW m \in DOMAIN messages, NEW s \in FrameIds(m)
  PROVE  MessageOf(s) = messages[m]
<1>1. \A n \in DOMAIN messages : Contains(messages[n].frames, s) <=> s \in FrameIds(n)
  BY ContainsIs DEF FrameIds
<1>2. \A n \in DOMAIN messages : Contains(messages[n].frames, s) <=> n = m
  BY <1>1
<1>3. (CHOOSE n \in DOMAIN messages : Contains(messages[n].frames, s)) = m
  BY <1>2
<1>4. QED
  BY <1>3 DEF MessageOf

\* Steps that take packets off A and begin no message.
LEMMA FragmentsKept ==
  ASSUME FragmentsInv, messages' = messages, Pending' \subseteq Pending,
         \A s \in Pending' : s \in fragmentedTx => s \in fragmentedTx'
  PROVE  FragmentsInv'
<1>1. /\ Sent' = Sent /\ \A m : FrameIds(m)' = FrameIds(m)
      /\ \A s : MessageOf(s)' = MessageOf(s) /\ IsFragment(s)' = IsFragment(s)
  BY DEF Sent, ToSet, FrameIds, MessageOf, IsFragment
<1>2. PendingFragmentsTracked' /\ OneFragmentedMessage'
  BY <1>1 DEF FragmentsInv, PendingFragmentsTracked, OneFragmentedMessage
<1>3. QED
  BY <1>1, <1>2 DEF FragmentsInv

LEMMA TransmitFragments ==
  ASSUME LinkInv, FragmentsInv, NEW k \in Nat \ {0}, NEW onAir \in Nat,
         NEW whole \in BOOLEAN, NEW fragment \in BOOLEAN,
         ~fragment => whole /\ k = 1,
         Transmit(k, onAir, whole, fragment)
  PROVE  FragmentsInv'
<1> DEFINE r == [frames |-> Frames(k), whole |-> whole]
           last == Len(messages) + 1
<1>1. /\ nextTxSeq \in Nat /\ nextTxSeq + k <= MaxPackets
      /\ fragmentedTx = {} /\ fragmentedTx' = IF fragment THEN Burst(k) ELSE {}
      /\ Pending' = Pending \cup Burst(k)
      /\ messages \in Seq(Message) /\ Sent \subseteq Used
  BY DEF LinkInv, SenderInv, Transmit, SendBurst, Pending
<1>2. /\ Burst(k) = nextTxSeq .. nextTxSeq + k - 1 /\ ToSet(Frames(k)) = Burst(k)
      /\ Frames(k) \in [1 .. k -> Nat]
  BY <1>1, BurstIds
<1>3. Frames(k) \in Seq(Nat) /\ Len(Frames(k)) = k
  <2>1. \A f \in [1 .. k -> Nat] : f \in Seq(Nat) /\ Len(f) = k
    OBVIOUS
  <2>2. QED
    BY <1>2, <2>1
<1>4. PICK new : new = r
  OBVIOUS
<1>5. /\ DOMAIN messages = 1 .. Len(messages) /\ Len(messages) \in Nat
      /\ DOMAIN messages' = 1 .. last
      /\ \A m \in DOMAIN messages : messages'[m] = messages[m]
      /\ messages'[last] = new
  <2>1. new \in Message
    BY <1>2, <1>4 DEF Message
  <2>2. messages' = Append(messages, new)
    BY <1>4 DEF Transmit
  <2> HIDE DEF r
  <2>3. QED
    BY <1>1, <2>1, <2>2
<1>6. new.frames = Frames(k) /\ new.whole = whole
  BY <1>4
<1> HIDE DEF r
<1>7. PICK top : top = last
  OBVIOUS
<1>8. /\ DOMAIN messages' = DOMAIN messages \cup {top} /\ top \notin DOMAIN messages
      /\ \A m \in DOMAIN messages : FrameIds(m)' = FrameIds(m)
      /\ FrameIds(top)' = Burst(k)
  <2>1. DOMAIN messages' = DOMAIN messages \cup {top} /\ top \notin DOMAIN messages
    BY <1>5, <1>7
  <2>2. \A m \in DOMAIN messages : FrameIds(m)' = FrameIds(m)
    BY <1>5 DEF FrameIds, ToSet
  <2>3. FrameIds(top)' = ToSet(Frames(k))
    BY <1>5, <1>6, <1>7 DEF FrameIds, ToSet
  <2>4. QED
    BY <1>2, <2>1, <2>2, <2>3
<1>9. Sent \cap Burst(k) = {} /\ \A m \in DOMAIN messages : FrameIds(m) \subseteq Sent
  <2>1. \A m \in DOMAIN messages : FrameIds(m) \subseteq Sent
    BY DEF FrameIds, Sent
  <2>2. Used \cap Burst(k) = {}
    BY <1>1, <1>2 DEF Used
  <2>3. QED
    BY <1>1, <2>1, <2>2
<1>10. /\ \A m \in DOMAIN messages' : messages'[m].frames \in Seq(Nat)
       /\ \A m, n \in DOMAIN messages' : m # n => FrameIds(m)' \cap FrameIds(n)' = {}
  <2>1. \A m \in DOMAIN messages' : messages'[m].frames \in Seq(Nat)
    BY <1>3, <1>5, <1>6, <1>7, <1>8 DEF FragmentsInv
  <2>2. \A m, n \in DOMAIN messages : m # n => FrameIds(m)' \cap FrameIds(n)' = {}
    BY <1>8 DEF FragmentsInv
  <2>3. \A m \in DOMAIN messages : FrameIds(m)' \cap FrameIds(top)' = {}
    BY <1>8, <1>9
  <2>4. QED
    BY <1>8, <2>1, <2>2, <2>3
<1>11. ASSUME NEW s \in Sent PROVE MessageOf(s)' = MessageOf(s)
  <2>1. PICK m \in DOMAIN messages : s \in FrameIds(m)
    BY DEF Sent, FrameIds
  <2>2. MessageOf(s) = messages[m]
    BY <2>1, MessageOfIs DEF FragmentsInv
  <2>3. s \in FrameIds(m)' /\ m \in DOMAIN messages' /\ messages'[m] = messages[m]
    BY <1>5, <1>8, <2>1
  <2>4. MessageOf(s)' = messages'[m]
    <3>1. \A n \in DOMAIN messages' :
            Contains(messages'[n].frames, s) <=> s \in FrameIds(n)'
      BY <1>10, ContainsIs DEF FrameIds
    <3>2. \A n \in DOMAIN messages' : Contains(messages'[n].frames, s) <=> n = m
      BY <1>10, <2>3, <3>1
    <3>3. QED
      BY <2>3, <3>2 DEF MessageOf
  <2>5. QED
    BY <2>2, <2>3, <2>4
<1>12. ASSUME NEW s \in Burst(k) PROVE MessageOf(s)' = new
  <2>1. s \in FrameIds(top)' /\ top \in DOMAIN messages' /\ messages'[top] = new
    BY <1>5, <1>7, <1>8
  <2>2. \A n \in DOMAIN messages' :
          Contains(messages'[n].frames, s) <=> s \in FrameIds(n)'
    BY <1>10, ContainsIs DEF FrameIds
  <2>3. \A n \in DOMAIN messages' : Contains(messages'[n].frames, s) <=> n = top
    BY <1>10, <2>1, <2>2
  <2>4. QED
    BY <2>1, <2>3 DEF MessageOf
<1>13. \A s \in Pending : ~IsFragment(s)'
  <2>1. \A s \in Pending : ~IsFragment(s)
    BY <1>1 DEF FragmentsInv, PendingFragmentsTracked
  <2>2. \A s \in Pending : MessageOf(s)' = MessageOf(s)
    BY <1>11 DEF FragmentsInv
  <2>3. QED
    BY <2>1, <2>2 DEF IsFragment
<1>14. \A s \in Burst(k) : IsFragment(s)' => fragment
  <2>1. ASSUME ~fragment PROVE new.whole /\ ~(Len(new.frames) > 1)
    <3>1. whole /\ k = 1 /\ Len(new.frames) = k
      BY <1>3, <1>6, <2>1
    <3>2. new.whole
      BY <1>6, <3>1
    <3>3. ~(Len(new.frames) > 1)
      BY <3>1
    <3>4. QED
      BY <3>2, <3>3
  <2>2. QED
    BY <1>12, <2>1 DEF IsFragment
<1>15. PendingFragmentsTracked'
  BY <1>1, <1>13, <1>14 DEF PendingFragmentsTracked
<1>16. OneFragmentedMessage'
  BY <1>1, <1>12, <1>13 DEF OneFragmentedMessage
<1>17. Sent' = Sent \cup Burst(k)
  BY <1>8 DEF Sent, FrameIds
<1>18. Pending' \subseteq Sent'
  BY <1>1, <1>17 DEF FragmentsInv
<1>19. QED
  BY <1>10, <1>15, <1>16, <1>18 DEF FragmentsInv

LEMMA FragmentsStep ==
  LinkInv /\ FragmentsInv /\ [LinkNext]_linkVars => FragmentsInv'
<1> SUFFICES ASSUME LinkInv, FragmentsInv, [LinkNext]_linkVars PROVE FragmentsInv'
  OBVIOUS
<1>1. CASE SendMessage
  <2>1. PICK n \in 1 .. MaxFragments : Transmit(n, n, TRUE, n > 1)
    BY <1>1, SizesBounded DEF SendMessage
  <2>2. /\ n \in Nat \ {0} /\ n \in Nat /\ (n > 1) \in BOOLEAN /\ TRUE \in BOOLEAN
        /\ ~(n > 1) => TRUE /\ n = 1
    BY LinkAssumption
  <2>3. QED
    BY <2>1, <2>2, TransmitFragments
<1>2. CASE SendMessageError
  <2>1. PICK n \in 1 .. MaxFragments :
          \E k \in 1 .. n : Transmit(k, k - 1, k = n, n > 1)
    BY <1>2, SizesBounded DEF SendMessageError
  <2>2. PICK k \in 1 .. n : Transmit(k, k - 1, k = n, n > 1)
    BY <2>1
  <2>3. /\ k \in Nat \ {0} /\ k - 1 \in Nat
        /\ (k = n) \in BOOLEAN /\ (n > 1) \in BOOLEAN
        /\ ~(n > 1) => (k = n) /\ k = 1
    BY LinkAssumption
  <2>4. QED
    BY <2>2, <2>3, TransmitFragments
<1>3. CASE SendTruncated
  <2>1. PICK free : /\ free = MaxPending - Cardinality(Pending) /\ free > 0
                    /\ Transmit(free, free, FALSE, TRUE)
    BY <1>3 DEF SendTruncated
  <2>2. free \in Nat \ {0} /\ free \in Nat /\ TRUE \in BOOLEAN /\ FALSE \in BOOLEAN
    BY <2>1, PendingCount, RetryAssumption
  <2>3. QED
    BY <2>1, <2>2, TransmitFragments
<1>4. CASE ReceiveAck
  <2>1. PICK a \in ackNet :
          /\ IF a \in Pending THEN Acked(a) ELSE UNCHANGED retryVars
          /\ fragmentedTx' = fragmentedTx \ {a} /\ messages' = messages
    BY <1>4 DEF ReceiveAck
  <2>2. Pending' = Pending \ {a}
    BY <2>1 DEF Acked, Settled, Pending, retryVars
  <2>3. QED
    BY <2>1, <2>2, FragmentsKept
<1>5. CASE PollRetransmit \/ PollFailed
  <2>1. /\ Pending' \subseteq Pending
        /\ messages' = messages /\ fragmentedTx' = fragmentedTx
    BY <1>5 DEF PollRetransmit, PollFailed, Retransmit, Fail, Settled, Pending
  <2>2. QED
    BY <2>1, FragmentsKept
<1>6. CASE ReceiveData \/ ReassemblyTimeout \/ UNCHANGED linkVars
  <2>1. UNCHANGED senderVars
    BY <1>6 DEF ReceiveData, ReceiveFirst, ReceiveExpected, ReceiveAhead,
                ReceiveDuplicate, TakeData, ReassemblyTimeout, linkVars
  <2>2. UNCHANGED <<retries, messages, fragmentedTx>>
    BY <2>1 DEF senderVars
  <2>3. Pending' = Pending
    BY <2>2 DEF Pending
  <2>4. QED
    BY <2>2, <2>3, FragmentsKept
<1>7. QED
  BY <1>1, <1>2, <1>3, <1>4, <1>5, <1>6 DEF LinkNext

LEMMA FragmentsInit == LinkInit => FragmentsInv
  BY DEF LinkInit, RetryInit, FragmentsInv, Pending, PendingFragmentsTracked,
         OneFragmentedMessage

\* The invariant of the messages' ids and of fragmented_tx_seq holds of every
\* execution.
THEOREM FragmentsInvariant == LinkSpec => []FragmentsInv
<1>1. QED
  BY FragmentsInit, FragmentsStep, LinkInvariant, PTL DEF LinkSpec

\* A fragment that is pending is in fragmented_tx_seq, through send errors,
\* acknowledgements, failures and messages cut short by the 8-bit count.
THEOREM LinkFragmentsTracked == LinkSpec => []PendingFragmentsTracked
<1>1. FragmentsInv => PendingFragmentsTracked
  BY DEF FragmentsInv
<1>2. QED
  BY <1>1, FragmentsInvariant, PTL

\* Fragments of two messages are never pending together: relinow_send_reliable
\* begins no message while one of the last one's fragments may still be sent
\* again.
THEOREM LinkOneFragmentedMessage == LinkSpec => []OneFragmentedMessage
<1>1. FragmentsInv => OneFragmentedMessage
  BY DEF FragmentsInv
<1>2. QED
  BY <1>1, FragmentsInvariant, PTL
=============================================================================
