------------------------- MODULE RelinowSender_proofs -------------------------
(***************************************************************************)
(* Theorems about the sending half of a RELIABLE channel, for every number *)
(* of slots and retries, every RTT configuration and every width of the    *)
(* ids and timers: its type, the agreement of the engine's slots with the  *)
(* channel's tx_queue and inflight mark, the shortest silence after which  *)
(* a packet is given up, and the implementation of the clock-free retry    *)
(* discipline of RelinowRetry.                                             *)
(*                                                                         *)
(* The inductive invariant TxInv adds to those that tx_queue has as many   *)
(* entries as the engine has packets, so that a send never finds it full,  *)
(* and that the silence of a packet accounts for its retries so far.       *)
(***************************************************************************)
EXTENDS RelinowSender, FiniteSetTheorems, TLAPS

\* tx_queue has as many entries as the engine has packets.
SameSize == Cardinality(DOMAIN txQueue) = Cardinality(DOMAIN pending)

\* No wait is shorter than the shortest one of its retry, and the silence of a
\* packet is at least the sum of those behind it and of the time since the
\* last transmission.
SilenceAccounts ==
    \A i \in DOMAIN pending :
        /\ pending[i].timeout >= MinWait(pending[i].retries)
        /\ \/ silence[i] = FailSilence
           \/ silence[i] >= SilenceBefore(pending[i].retries)
                              + pending[i].elapsed

TxInv ==
    TxTypeOK /\ TxQueueMirrors /\ SameSize /\ InflightPending /\ SilenceAccounts

-----------------------------------------------------------------------------
(* Arithmetic of timeouts and of the RTT estimate.                         *)

\* A timeout fits its 16 bits and is never 0, for any retry.
LEMMA TimeoutRange ==
  ASSUME rtt \in 1 .. MaxMs, NEW r \in Nat
  PROVE  Timeout(r) \in 1 .. MaxMs
<1> DEFINE t == CASE r = 0 -> (rtt * 3) \div 2
                  [] r = 1 -> rtt * 2
                  [] OTHER -> rtt * 3
<1>1. MaxMs \in Nat /\ MaxMs >= 1 /\ rtt \in Nat
  BY SenderAssumption
<1>2. t \in Nat
  BY <1>1
<1>3. QED
  BY <1>1, <1>2 DEF Timeout, AtMost

\* A timeout is at least the shortest one of its retry.
LEMMA TimeoutAtLeast ==
  ASSUME rtt \in 1 .. MaxMs, NEW r \in Nat
  PROVE  Timeout(r) >= MinWait(r)
<1>1. MaxMs \in Nat /\ MaxMs >= 1 /\ rtt \in Nat /\ rtt >= 1
  BY SenderAssumption
<1>2. CASE r = 0
  <2>1. (rtt * 3) \div 2 \in Nat /\ (rtt * 3) \div 2 >= 1
    BY <1>1
  <2>2. QED
    BY <1>1, <1>2, <2>1 DEF Timeout, MinWait, AtMost
<1>3. CASE r = 1
  BY <1>1, <1>3 DEF Timeout, MinWait, AtMost
<1>4. CASE r # 0 /\ r # 1
  BY <1>1, <1>4 DEF Timeout, MinWait, AtMost
<1>5. QED
  BY <1>2, <1>3, <1>4

\* The shortest silences, in natural numbers, and each from the one before.
LEMMA SilenceStep ==
  ASSUME NEW r \in Nat
  PROVE  /\ MinWait(r) \in Nat /\ SilenceBefore(r) \in Nat
         /\ SilenceBefore(r + 1) = SilenceBefore(r) + MinWait(r)
<1>1. MaxMs \in Nat
  BY SenderAssumption
<1>2. \A k \in Nat : MinWait(k) \in Nat
  BY <1>1 DEF MinWait, AtMost
<1>3. PICK a \in Nat : a = MinWait(0)
  BY <1>2
<1>4. PICK b \in Nat : b = MinWait(1)
  BY <1>2
<1>5. PICK c \in Nat : c = MinWait(2)
  BY <1>2
<1>6. CASE r = 0
  BY <1>2, <1>3, <1>6 DEF SilenceBefore
<1>7. CASE r = 1
  BY <1>2, <1>3, <1>4, <1>5, <1>7 DEF SilenceBefore
<1>8. CASE r # 0 /\ r # 1
  <2>1. PICK k \in Nat : r = k + 2
    <3>1. r - 2 \in Nat /\ r = (r - 2) + 2
      BY <1>8
    <3>2. QED
      BY <3>1
  <2>2. SilenceBefore(r) = a + b + k * c /\ SilenceBefore(r + 1) = a + b + (k + 1) * c
    <3>1. r - 2 = k /\ (r + 1) - 2 = k + 1 /\ r + 1 # 0 /\ r + 1 # 1
      BY <2>1
    <3>2. QED
      BY <1>3, <1>4, <1>5, <1>8, <3>1 DEF SilenceBefore
  <2>3. MinWait(r) = c
    BY <1>5, <1>8 DEF MinWait
  <2>4. (k + 1) * c = k * c + c /\ k * c \in Nat
    BY <2>1
  <2>5. QED
    BY <2>2, <2>3, <2>4
<1>9. QED
  BY <1>6, <1>7, <1>8

\* A packet is given up after a positive time.
LEMMA FailSilenceNat == FailSilence \in Nat
<1>1. MaxRetries + 1 \in Nat
  BY SenderAssumption
<1>2. QED
  BY <1>1, SilenceStep DEF FailSilence

\* A weighted sum of two values below a bound is below the weighted bound.
LEMMA WeightedBound ==
  ASSUME NEW a \in Nat, NEW b \in Nat, NEW x \in Nat, NEW y \in Nat,
         NEW m \in Nat, x <= m, y <= m
  PROVE  a * x + b * y <= (a + b) * m
<1>1. a * x <= a * m /\ b * y <= b * m
  OBVIOUS
<1>2. (a + b) * m = a * m + b * m
  OBVIOUS
<1>3. a * x \in Nat /\ b * y \in Nat /\ a * m \in Nat /\ b * m \in Nat
  OBVIOUS
<1>4. QED
  BY <1>1, <1>2, <1>3

\* The moving average of an estimate and a sample of 16 bits fits 16 bits
\* and is never 0.
LEMMA RttRange ==
  ASSUME rtt \in 1 .. MaxMs, NEW sample \in 0 .. MaxMs
  PROVE  NewRtt(sample) \in 1 .. MaxMs
<1> DEFINE w == (256 - RttAlpha) * rtt + RttAlpha * sample
<1>1. /\ MaxMs \in Nat /\ MaxMs >= 1 /\ rtt \in Nat /\ sample \in Nat
      /\ RttAlpha \in Nat /\ 256 - RttAlpha \in Nat
  BY SenderAssumption
<1>2. w <= ((256 - RttAlpha) + RttAlpha) * MaxMs
  BY <1>1, WeightedBound
<1>3. (256 - RttAlpha) + RttAlpha = 256
  BY <1>1
<1>4. w \in Nat
  BY <1>1
<1>5. w <= 256 * MaxMs
  BY <1>2, <1>3
<1> HIDE DEF w
<1>6. w \div 256 \in Nat /\ w \div 256 <= MaxMs
  BY <1>1, <1>4, <1>5
<1>7. QED
  BY <1>1, <1>6 DEF NewRtt, w
-----------------------------------------------------------------------------
(* Slots.                                                                  *)

\* Releasing slot i leaves the others.
LEMMA WithoutFacts ==
  ASSUME NEW f, NEW i
  PROVE  /\ DOMAIN Without(f, i) = DOMAIN f \ {i}
         /\ \A j \in DOMAIN f \ {i} : Without(f, i)[j] = f[j]
BY DEF Without, Restrict

\* The ids of the engine's slots, as tx_queue records them, and how many slots
\* of a record hold an id.
Ids == [i \in DOMAIN pending |-> pending[i].seq]

Count(f, s) == Cardinality({i \in DOMAIN f : f[i] = s})

\* Filling a free slot adds its id once.
LEMMA FillCount ==
  ASSUME NEW f, IsFiniteSet(DOMAIN f), NEW i, i \notin DOMAIN f, NEW v, NEW s
  PROVE  /\ Cardinality(DOMAIN With(f, i, v)) = Cardinality(DOMAIN f) + 1
         /\ Count(With(f, i, v), s) = Count(f, s) + (IF s = v THEN 1 ELSE 0)
<1> DEFINE g == With(f, i, v)
           F == {j \in DOMAIN f : f[j] = s}
           G == {j \in DOMAIN g : g[j] = s}
<1>1. /\ DOMAIN g = DOMAIN f \cup {i} /\ g[i] = v
      /\ \A j \in DOMAIN f : g[j] = f[j]
  BY DEF With
<1>2. Cardinality(DOMAIN g) = Cardinality(DOMAIN f) + 1
  BY <1>1, FS_AddElement
<1>3. F \in SUBSET DOMAIN f
  OBVIOUS
<1>4. IsFiniteSet(F) /\ i \notin F
  BY <1>3, FS_Subset
<1>5. Cardinality(F) \in Nat
  BY <1>4, FS_CardinalityType
<1>6. G = IF s = v THEN F \cup {i} ELSE F
  <2> HIDE DEF g
  <2>1. QED
    BY <1>1
<1>7. Cardinality(F \cup {i}) = Cardinality(F) + 1
  BY <1>4, FS_AddElement
<1>8. Cardinality(G) = Cardinality(F) + (IF s = v THEN 1 ELSE 0)
  BY <1>5, <1>6, <1>7
<1>9. QED
  BY <1>2, <1>8 DEF Count

\* Releasing a slot takes its id away once.
LEMMA DropCount ==
  ASSUME NEW f, IsFiniteSet(DOMAIN f), NEW i \in DOMAIN f, NEW s
  PROVE  /\ Cardinality(DOMAIN Without(f, i)) = Cardinality(DOMAIN f) - 1
         /\ Count(Without(f, i), s) = Count(f, s) - (IF s = f[i] THEN 1 ELSE 0)
<1> DEFINE g == Without(f, i)
           F == {j \in DOMAIN f : f[j] = s}
           G == {j \in DOMAIN g : g[j] = s}
<1>1. DOMAIN g = DOMAIN f \ {i} /\ \A j \in DOMAIN g : g[j] = f[j]
  BY WithoutFacts
<1>2. Cardinality(DOMAIN g) = Cardinality(DOMAIN f) - 1
  BY <1>1, FS_RemoveElement
<1>3. F \in SUBSET DOMAIN f
  OBVIOUS
<1>4. IsFiniteSet(F)
  BY <1>3, FS_Subset
<1>5. Cardinality(F) \in Nat
  BY <1>4, FS_CardinalityType
<1>6. G = F \ {i}
  <2> HIDE DEF g
  <2>1. QED
    BY <1>1
<1>7. Cardinality(G) = IF i \in F THEN Cardinality(F) - 1 ELSE Cardinality(F)
  BY <1>4, <1>6, FS_RemoveElement
<1>8. Cardinality(G) = Cardinality(F) - (IF s = f[i] THEN 1 ELSE 0)
  BY <1>5, <1>7
<1>9. QED
  BY <1>2, <1>8 DEF Count

\* The ids counted on both sides.
LEMMA MirrorsCount ==
  TxQueueMirrors <=> \A s \in SeqId : Count(txQueue, s) = Count(Ids, s)
<1>1. \A s : {i \in DOMAIN Ids : Ids[i] = s}
               = {i \in DOMAIN pending : pending[i].seq = s}
  BY DEF Ids
<1>2. QED
  BY <1>1 DEF TxQueueMirrors, Count

\* And after a step.
LEMMA MirrorsCountNext ==
  ASSUME \A s \in SeqId : Count(txQueue', s) = Count(Ids', s)
  PROVE  TxQueueMirrors'
<1>1. \A s : {i \in DOMAIN Ids' : Ids'[i] = s}
               = {i \in DOMAIN pending' : pending'[i].seq = s}
  BY DEF Ids
<1>2. QED
  BY <1>1 DEF TxQueueMirrors, Count

\* Both records are finite.
LEMMA FiniteRecords ==
  ASSUME TxTypeOK
  PROVE  /\ IsFiniteSet(DOMAIN pending) /\ IsFiniteSet(DOMAIN Ids)
         /\ IsFiniteSet(DOMAIN txQueue)
<1>1. /\ DOMAIN pending \in SUBSET (1 .. MaxPending) /\ DOMAIN Ids = DOMAIN pending
      /\ DOMAIN txQueue \in SUBSET (1 .. TxQueueSize)
  BY DEF TxTypeOK, Ids
<1>2. IsFiniteSet(1 .. MaxPending) /\ IsFiniteSet(1 .. TxQueueSize)
  BY SenderAssumption, FS_Interval
<1>3. QED
  BY <1>1, <1>2, FS_Subset

\* While the engine has a free slot, so has tx_queue: the id is recorded.
LEMMA Enqueued ==
  ASSUME TxTypeOK, SameSize, NEW i \in 1 .. MaxPending, i \notin DOMAIN pending,
         NEW s, EnqueueTx(s)
  PROVE  \E j \in 1 .. TxQueueSize \ DOMAIN txQueue :
            txQueue' = With(txQueue, j, s)
<1> DEFINE free == 1 .. TxQueueSize \ DOMAIN txQueue
<1>1. /\ MaxPending \in Nat /\ TxQueueSize \in Nat /\ MaxPending <= TxQueueSize
      /\ MaxPending >= 1
  BY SenderAssumption
<1>2. /\ IsFiniteSet(1 .. MaxPending) /\ Cardinality(1 .. MaxPending) = MaxPending
      /\ Cardinality(1 .. TxQueueSize) = TxQueueSize
  BY <1>1, FS_Interval
<1>3. /\ IsFiniteSet((1 .. MaxPending) \ {i})
      /\ Cardinality((1 .. MaxPending) \ {i}) = MaxPending - 1
  BY <1>2, FS_RemoveElement
<1>4. DOMAIN pending \in SUBSET ((1 .. MaxPending) \ {i})
  BY DEF TxTypeOK
<1>5. Cardinality(DOMAIN pending) <= MaxPending - 1
  BY <1>3, <1>4, FS_Subset
<1>6. Cardinality(DOMAIN txQueue) \in Nat
  BY FiniteRecords, FS_CardinalityType
<1>7. Cardinality(DOMAIN txQueue) # TxQueueSize
  BY <1>1, <1>5, <1>6 DEF SameSize
<1>8. free # {}
  <2> SUFFICES ASSUME free = {} PROVE FALSE
    OBVIOUS
  <2>1. DOMAIN txQueue = 1 .. TxQueueSize
    BY DEF TxTypeOK
  <2>2. QED
    BY <1>2, <1>7, <2>1
<1>9. QED
  BY <1>8 DEF EnqueueTx

\* Removing an id that is not pending leaves tx_queue as it is.
LEMMA RemoveAbsent ==
  ASSUME TxTypeOK, TxQueueMirrors, NEW s \in SeqId, s \notin PendingSeqs,
         TxRemoveSeq(s)
  PROVE  txQueue' = txQueue
<1> DEFINE Q == {j \in DOMAIN txQueue : txQueue[j] = s}
<1>1. {i \in DOMAIN pending : pending[i].seq = s} = {}
  BY DEF PendingSeqs
<1>2. Cardinality(Q) = 0
  BY <1>1, FS_EmptySet DEF TxQueueMirrors
<1>3. Q \in SUBSET DOMAIN txQueue
  OBVIOUS
<1>4. IsFiniteSet(Q)
  BY <1>3, FiniteRecords, FS_Subset
<1>5. Q = {}
  BY <1>2, <1>4, FS_EmptySet
<1>6. QED
  BY <1>5 DEF TxRemoveSeq

\* Removing a pending packet's id from tx_queue releases a slot with that id.
LEMMA RemovePresent ==
  ASSUME TxTypeOK, TxQueueMirrors, NEW i \in DOMAIN pending,
         TxRemoveSeq(pending[i].seq)
  PROVE  \E j \in DOMAIN txQueue : /\ txQueue[j] = pending[i].seq
                                   /\ txQueue' = Without(txQueue, j)
<1> DEFINE Q == {j \in DOMAIN txQueue : txQueue[j] = pending[i].seq}
           P == {j \in DOMAIN pending : pending[j].seq = pending[i].seq}
<1>1. pending[i].seq \in SeqId
  BY DEF TxTypeOK, Packet
<1>2. Cardinality(Q) = Cardinality(P)
  BY <1>1 DEF TxQueueMirrors
<1>3. P \in SUBSET DOMAIN pending /\ P # {}
  OBVIOUS
<1>4. Cardinality(P) # 0
  BY <1>3, FiniteRecords, FS_Subset, FS_EmptySet
<1>5. Q # {}
  BY <1>2, <1>4, FS_EmptySet
<1>6. QED
  BY <1>5 DEF TxRemoveSeq

\* Releasing a slot on both sides keeps them in agreement.
LEMMA ReleaseSlot ==
  ASSUME TxTypeOK, TxQueueMirrors, SameSize, NEW i \in DOMAIN pending,
         NEW j \in DOMAIN txQueue, txQueue[j] = pending[i].seq,
         pending' = Without(pending, i), txQueue' = Without(txQueue, j)
  PROVE  /\ TxQueueMirrors' /\ SameSize'
         /\ PendingSeqs \ {pending[i].seq} \subseteq PendingSeqs'
<1>1. /\ DOMAIN pending' = DOMAIN pending \ {i}
      /\ \A k \in DOMAIN pending' : pending'[k] = pending[k]
  BY WithoutFacts
<1>2. Ids' = Without(Ids, i) /\ i \in DOMAIN Ids /\ Ids[i] = pending[i].seq
  BY <1>1 DEF Ids, Without, Restrict
<1>3. \A s \in SeqId : Count(txQueue, s) = Count(Ids, s)
  BY MirrorsCount
<1>4. \A s \in SeqId : Count(txQueue', s) = Count(Ids', s)
  <2> SUFFICES ASSUME NEW s \in SeqId PROVE Count(txQueue', s) = Count(Ids', s)
    OBVIOUS
  <2>1. Count(txQueue', s)
          = Count(txQueue, s) - (IF s = txQueue[j] THEN 1 ELSE 0)
    BY FiniteRecords, DropCount
  <2>2. Count(Ids', s) = Count(Ids, s) - (IF s = Ids[i] THEN 1 ELSE 0)
    BY <1>2, FiniteRecords, DropCount
  <2>3. QED
    BY <1>2, <1>3, <2>1, <2>2
<1>5. TxQueueMirrors'
  BY <1>4, MirrorsCountNext
<1>6. SameSize'
  <2>1. Cardinality(DOMAIN txQueue') = Cardinality(DOMAIN txQueue) - 1
    BY FiniteRecords, DropCount
  <2>2. Cardinality(DOMAIN pending') = Cardinality(DOMAIN pending) - 1
    BY FiniteRecords, DropCount
  <2>3. QED
    BY <2>1, <2>2 DEF SameSize
<1>7. PendingSeqs \ {pending[i].seq} \subseteq PendingSeqs'
  BY <1>1 DEF PendingSeqs
<1>8. QED
  BY <1>5, <1>6, <1>7

-----------------------------------------------------------------------------
(* The inductive invariant.                                                *)

\* A channel that has just been configured satisfies it.
LEMMA TxInvInit == TxInit => TxInv
<1> SUFFICES ASSUME TxInit PROVE TxInv
  OBVIOUS
<1>1. /\ DOMAIN pending = {} /\ DOMAIN txQueue = {} /\ DOMAIN silence = {}
      /\ inflight = {} /\ failed = {}
  BY DEF TxInit
<1>2. 0 \in SeqId /\ InitialRtt \in 1 .. MaxMs
  BY SeqSpaceAssumption, SenderAssumption DEF SeqId
<1>3. TxTypeOK
  BY <1>1, <1>2 DEF TxInit, TxTypeOK
<1>4. TxQueueMirrors
  BY <1>1 DEF TxQueueMirrors
<1>5. QED
  BY <1>1, <1>3, <1>4 DEF TxInv, SameSize, InflightPending, SilenceAccounts

\* Sending preserves it.
LEMMA TxInvSend == ASSUME TxInv, Send PROVE TxInv'
<1> DEFINE p == [seq |-> nextTxSeq, elapsed |-> 0, timeout |-> Timeout(0),
                 retries |-> 0]
<1>1. PICK i \in 1 .. MaxPending :
        /\ IsFirst(i, 1 .. MaxPending \ DOMAIN pending)
        /\ pending' = With(pending, i, p)
        /\ nextTxSeq' = SeqNext(nextTxSeq)
        /\ inflight' = {nextTxSeq}
        /\ EnqueueTx(nextTxSeq)
        /\ failed' = failed \ {nextTxSeq}
        /\ silence' = With(silence, i, 0)
        /\ UNCHANGED rtt
  BY DEF Send
<1>2. TxTypeOK /\ TxQueueMirrors /\ SameSize /\ SilenceAccounts
  BY DEF TxInv
<1>3. p \in Packet /\ p.seq = nextTxSeq /\ p.elapsed = 0 /\ p.retries = 0
      /\ p.timeout = Timeout(0)
  <2>1. Timeout(0) \in 1 .. MaxMs
    BY <1>2, TimeoutRange DEF TxTypeOK
  <2>2. 0 \in 0 .. MaxMs /\ 0 \in 0 .. MaxRetries
    BY SenderAssumption
  <2>3. QED
    BY <1>2, <2>1, <2>2 DEF Packet, TxTypeOK
<1>4. i \notin DOMAIN pending
  BY <1>1 DEF IsFirst
<1> HIDE DEF p
<1>5. /\ DOMAIN pending' = DOMAIN pending \cup {i}
      /\ pending'[i] = p
      /\ \A j \in DOMAIN pending : pending'[j] = pending[j]
  BY <1>1, <1>4 DEF With
<1>6. /\ DOMAIN silence' = DOMAIN pending'
      /\ silence'[i] = 0
      /\ \A j \in DOMAIN pending : silence'[j] = silence[j]
  <2>1. DOMAIN silence = DOMAIN pending
    BY <1>2 DEF TxTypeOK
  <2>2. QED
    BY <1>1, <1>4, <1>5, <2>1 DEF With
<1>7. PICK j \in 1 .. TxQueueSize \ DOMAIN txQueue :
        txQueue' = With(txQueue, j, nextTxSeq)
  BY <1>1, <1>2, <1>4, Enqueued
<1>8. nextTxSeq \in SeqId /\ nextTxSeq' \in SeqId
  BY <1>1, <1>2, SeqSpaceAssumption DEF TxTypeOK, SeqNext, SeqAdd, SeqId
<1>9. TxTypeOK'
  <2>1. \A k \in DOMAIN pending' : pending'[k] \in Packet
    BY <1>2, <1>3, <1>5 DEF TxTypeOK
  <2>2. /\ DOMAIN txQueue' \subseteq 1 .. TxQueueSize
        /\ \A k \in DOMAIN txQueue' : txQueue'[k] \in SeqId
    BY <1>2, <1>7, <1>8 DEF TxTypeOK, With
  <2>3. DOMAIN pending' \subseteq 1 .. MaxPending
    BY <1>2, <1>5 DEF TxTypeOK
  <2>4. \A k \in DOMAIN silence' : silence'[k] \in 0 .. FailSilence
    BY <1>2, <1>5, <1>6, FailSilenceNat DEF TxTypeOK
  <2>5. QED
    BY <1>1, <1>2, <1>6, <1>8, <2>1, <2>2, <2>3, <2>4 DEF TxTypeOK
<1>10. TxQueueMirrors'
  <2>1. Ids' = With(Ids, i, nextTxSeq) /\ i \notin DOMAIN Ids
    BY <1>3, <1>4, <1>5 DEF Ids, With
  <2>2. \A s \in SeqId : Count(txQueue', s) = Count(Ids', s)
    <3> SUFFICES ASSUME NEW s \in SeqId PROVE Count(txQueue', s) = Count(Ids', s)
      OBVIOUS
    <3>1. Count(txQueue', s)
            = Count(txQueue, s) + (IF s = nextTxSeq THEN 1 ELSE 0)
      BY <1>2, <1>7, FiniteRecords, FillCount
    <3>2. Count(Ids', s) = Count(Ids, s) + (IF s = nextTxSeq THEN 1 ELSE 0)
      BY <1>2, <2>1, FiniteRecords, FillCount
    <3>3. QED
      BY <1>2, <3>1, <3>2, MirrorsCount
  <2>3. QED
    BY <2>2, MirrorsCountNext
<1>11. SameSize'
  <2>1. Cardinality(DOMAIN txQueue') = Cardinality(DOMAIN txQueue) + 1
    BY <1>2, <1>7, FiniteRecords, FillCount
  <2>2. Cardinality(DOMAIN pending') = Cardinality(DOMAIN pending) + 1
    BY <1>1, <1>2, <1>4, FiniteRecords, FillCount
  <2>3. QED
    BY <1>2, <2>1, <2>2 DEF SameSize
<1>12. InflightPending'
  BY <1>1, <1>3, <1>5 DEF InflightPending, PendingSeqs
<1>13. SilenceAccounts'
  <2>1. Timeout(0) >= MinWait(0) /\ SilenceBefore(0) = 0
    BY <1>2, TimeoutAtLeast DEF TxTypeOK, SilenceBefore
  <2> SUFFICES ASSUME NEW k \in DOMAIN pending'
               PROVE  /\ pending'[k].timeout >= MinWait(pending'[k].retries)
                      /\ \/ silence'[k] = FailSilence
                         \/ silence'[k] >= SilenceBefore(pending'[k].retries)
                                             + pending'[k].elapsed
    BY DEF SilenceAccounts
  <2>2. CASE k = i
    BY <1>3, <1>5, <1>6, <2>1, <2>2
  <2>3. CASE k \in DOMAIN pending
    BY <1>2, <1>5, <1>6, <2>3 DEF SilenceAccounts
  <2>4. QED
    BY <1>5, <2>2, <2>3
<1>14. QED
  BY <1>9, <1>10, <1>11, <1>12, <1>13 DEF TxInv

\* Releasing a slot keeps the type and the silence of what remains.
LEMMA ReleaseType ==
  ASSUME TxTypeOK, SilenceAccounts, NEW i, pending' = Without(pending, i),
         silence' = Without(silence, i), NEW j, txQueue' = Without(txQueue, j)
  PROVE  /\ DOMAIN pending' \subseteq 1 .. MaxPending
         /\ \A k \in DOMAIN pending' : pending'[k] \in Packet
         /\ DOMAIN txQueue' \subseteq 1 .. TxQueueSize
         /\ \A k \in DOMAIN txQueue' : txQueue'[k] \in SeqId
         /\ DOMAIN silence' = DOMAIN pending'
         /\ \A k \in DOMAIN silence' : silence'[k] \in 0 .. FailSilence
         /\ SilenceAccounts'
<1>1. /\ DOMAIN pending' = DOMAIN pending \ {i}
      /\ \A k \in DOMAIN pending' : pending'[k] = pending[k]
  BY WithoutFacts
<1>2. /\ DOMAIN txQueue' \subseteq DOMAIN txQueue
      /\ \A k \in DOMAIN txQueue' : txQueue'[k] = txQueue[k]
  BY WithoutFacts
<1>3. /\ DOMAIN silence' = DOMAIN silence \ {i}
      /\ \A k \in DOMAIN silence' : silence'[k] = silence[k]
  BY WithoutFacts
<1>4. /\ DOMAIN pending' \subseteq 1 .. MaxPending
      /\ \A k \in DOMAIN pending' : pending'[k] \in Packet
  BY <1>1 DEF TxTypeOK
<1>5. /\ DOMAIN txQueue' \subseteq 1 .. TxQueueSize
      /\ \A k \in DOMAIN txQueue' : txQueue'[k] \in SeqId
  BY <1>2 DEF TxTypeOK
<1>6. /\ DOMAIN silence' = DOMAIN pending'
      /\ \A k \in DOMAIN silence' : silence'[k] \in 0 .. FailSilence
  BY <1>1, <1>3 DEF TxTypeOK
<1>7. SilenceAccounts'
  BY <1>1, <1>3, <1>6 DEF SilenceAccounts
<1>8. QED
  BY <1>4, <1>5, <1>6, <1>7

\* An acknowledgement preserves the invariant, whatever id it names.
LEMMA TxInvAck == ASSUME TxInv, NEW a \in SeqId, OnAck(a) PROVE TxInv'
<1> DEFINE found == {i \in DOMAIN pending : pending[i].seq = a}
<1>1. /\ TxTypeOK /\ TxQueueMirrors /\ SameSize /\ InflightPending
      /\ SilenceAccounts
  BY DEF TxInv
<1>2. /\ inflight' = inflight \ {a} /\ TxRemoveSeq(a)
      /\ nextTxSeq' = nextTxSeq /\ failed' = failed
  BY DEF OnAck
<1>3. inflight' = {} \/ \E s \in SeqId : inflight' = {s}
  BY <1>1, <1>2 DEF TxTypeOK
<1>4. CASE found = {}
  <2>1. pending' = pending /\ rtt' = rtt /\ silence' = silence
    BY <1>4 DEF OnAck, IsFirst
  <2>2. a \notin PendingSeqs
    BY <1>4 DEF PendingSeqs
  <2>3. txQueue' = txQueue
    BY <1>1, <1>2, <2>2, RemoveAbsent
  <2>4. TxTypeOK'
    BY <1>1, <1>2, <1>3, <2>1, <2>3 DEF TxTypeOK
  <2>5. TxQueueMirrors' /\ SameSize' /\ SilenceAccounts'
    BY <1>1, <2>1, <2>3 DEF TxQueueMirrors, SameSize, SilenceAccounts
  <2>6. InflightPending'
    BY <1>1, <1>2, <2>1 DEF InflightPending, PendingSeqs
  <2>7. QED
    BY <2>4, <2>5, <2>6 DEF TxInv
<1>5. CASE found # {}
  <2>1. PICK i \in found : /\ pending' = Without(pending, i)
                           /\ silence' = Without(silence, i)
                           /\ rtt' = NewRtt(pending[i].elapsed)
    BY <1>5 DEF OnAck
  <2>2. i \in DOMAIN pending /\ pending[i].seq = a
    OBVIOUS
  <2>3. PICK j \in DOMAIN txQueue : /\ txQueue[j] = pending[i].seq
                                    /\ txQueue' = Without(txQueue, j)
    BY <1>1, <1>2, <2>2, RemovePresent
  <2>4. rtt' \in 1 .. MaxMs
    BY <1>1, <2>1, <2>2, RttRange DEF TxTypeOK, Packet
  <2>5. TxTypeOK' /\ SilenceAccounts'
    BY <1>1, <1>2, <1>3, <2>1, <2>3, <2>4, ReleaseType DEF TxTypeOK
  <2>6. /\ TxQueueMirrors' /\ SameSize'
        /\ PendingSeqs \ {a} \subseteq PendingSeqs'
    BY <1>1, <2>1, <2>2, <2>3, ReleaseSlot
  <2>7. QED
    BY <1>1, <1>2, <2>5, <2>6 DEF TxInv, InflightPending
<1>6. QED
  BY <1>4, <1>5

\* So does a retransmission.
LEMMA TxInvPollRetransmit == ASSUME TxInv, PollRetransmit PROVE TxInv'
<1>1. /\ TxTypeOK /\ TxQueueMirrors /\ SameSize /\ InflightPending
      /\ SilenceAccounts
  BY DEF TxInv
<1>2. PICK i \in DOMAIN pending :
        /\ IsFirst(i, Expired)
        /\ pending[i].retries < MaxRetries
        /\ pending' = [pending EXCEPT ![i].retries = @ + 1, ![i].elapsed = 0,
              ![i].timeout = Timeout(pending[i].retries + 1)]
        /\ inflight' = {pending[i].seq}
        /\ UNCHANGED <<nextTxSeq, rtt, txQueue, failed, silence>>
  BY DEF PollRetransmit
<1> DEFINE p == [pending[i] EXCEPT !.retries = @ + 1, !.elapsed = 0,
                    !.timeout = Timeout(pending[i].retries + 1)]
<1>3. pending[i] \in Packet
  BY <1>1 DEF TxTypeOK
<1>4. PICK r \in 0 .. MaxRetries : r = pending[i].retries /\ r + 1 \in 0 .. MaxRetries
  BY <1>2, <1>3, SenderAssumption DEF Packet
<1>5. /\ p \in Packet /\ p.seq = pending[i].seq /\ p.retries = r + 1
      /\ p.elapsed = 0 /\ p.timeout = Timeout(r + 1)
  <2>1. Timeout(pending[i].retries + 1) \in 1 .. MaxMs
    BY <1>1, <1>4, TimeoutRange DEF TxTypeOK
  <2>2. 0 \in 0 .. MaxMs
    BY SenderAssumption
  <2>3. QED
    BY <1>3, <1>4, <2>1, <2>2 DEF Packet
<1>6. pending' = [pending EXCEPT ![i] = p]
  BY <1>2
<1> HIDE DEF p
<1>7. /\ DOMAIN pending' = DOMAIN pending /\ pending'[i] = p
      /\ \A j \in DOMAIN pending : pending'[j] \in Packet
      /\ \A j \in DOMAIN pending : pending'[j].seq = pending[j].seq
      /\ \A j \in DOMAIN pending : j # i => pending'[j] = pending[j]
  BY <1>1, <1>5, <1>6 DEF TxTypeOK
<1>8. pending[i].seq \in SeqId
  BY <1>3 DEF Packet
<1>9. TxTypeOK'
  BY <1>1, <1>2, <1>7, <1>8 DEF TxTypeOK
<1>10. TxQueueMirrors' /\ SameSize'
  <2>1. \A s : {j \in DOMAIN pending' : pending'[j].seq = s}
                 = {j \in DOMAIN pending : pending[j].seq = s}
    BY <1>7
  <2>2. QED
    BY <1>1, <1>2, <1>7, <2>1 DEF TxQueueMirrors, SameSize
<1>11. InflightPending'
  BY <1>2, <1>7 DEF InflightPending, PendingSeqs
<1>12. SilenceAccounts'
  <2>1. Timeout(r + 1) >= MinWait(r + 1)
    BY <1>1, <1>4, TimeoutAtLeast DEF TxTypeOK
  <2>2. /\ MinWait(r) \in Nat /\ SilenceBefore(r) \in Nat
        /\ SilenceBefore(r + 1) = SilenceBefore(r) + MinWait(r)
    BY <1>4, SilenceStep
  <2>3. /\ pending[i].elapsed \in Nat /\ pending[i].timeout \in Nat
        /\ silence[i] \in Nat
        /\ pending[i].elapsed >= pending[i].timeout
        /\ pending[i].timeout >= MinWait(r)
        /\ \/ silence[i] = FailSilence
           \/ silence[i] >= SilenceBefore(r) + pending[i].elapsed
    BY <1>1, <1>2, <1>3, <1>4, FailSilenceNat, SenderAssumption
       DEF IsFirst, Expired, SilenceAccounts, TxTypeOK, Packet
  <2>4. silence[i] = FailSilence \/ silence[i] >= SilenceBefore(r + 1) + 0
    BY <2>2, <2>3
  <2> SUFFICES ASSUME NEW k \in DOMAIN pending
               PROVE  /\ pending'[k].timeout >= MinWait(pending'[k].retries)
                      /\ \/ silence[k] = FailSilence
                         \/ silence[k] >= SilenceBefore(pending'[k].retries)
                                            + pending'[k].elapsed
    BY <1>2, <1>7 DEF SilenceAccounts
  <2>5. CASE k = i
    BY <1>5, <1>7, <2>1, <2>4, <2>5
  <2>6. CASE k # i
    BY <1>1, <1>7, <2>6 DEF SilenceAccounts
  <2>7. QED
    BY <2>5, <2>6
<1>13. QED
  BY <1>9, <1>10, <1>11, <1>12 DEF TxInv

\* And giving a packet up.
LEMMA TxInvPollFailed == ASSUME TxInv, PollFailed PROVE TxInv'
<1>1. /\ TxTypeOK /\ TxQueueMirrors /\ SameSize /\ InflightPending
      /\ SilenceAccounts
  BY DEF TxInv
<1>2. PICK i \in DOMAIN pending :
        /\ pending' = Without(pending, i)
        /\ silence' = Without(silence, i)
        /\ inflight' = inflight \ {pending[i].seq}
        /\ TxRemoveSeq(pending[i].seq)
        /\ failed' = failed \cup {pending[i].seq}
        /\ UNCHANGED <<nextTxSeq, rtt>>
  BY DEF PollFailed
<1>3. PICK j \in DOMAIN txQueue : /\ txQueue[j] = pending[i].seq
                                  /\ txQueue' = Without(txQueue, j)
  BY <1>1, <1>2, RemovePresent
<1>4. pending[i].seq \in SeqId
  BY <1>1 DEF TxTypeOK, Packet
<1>5. inflight' = {} \/ \E s \in SeqId : inflight' = {s}
  BY <1>1, <1>2 DEF TxTypeOK
<1>6. TxTypeOK' /\ SilenceAccounts'
  BY <1>1, <1>2, <1>3, <1>4, <1>5, ReleaseType DEF TxTypeOK
<1>7. /\ TxQueueMirrors' /\ SameSize'
      /\ PendingSeqs \ {pending[i].seq} \subseteq PendingSeqs'
  BY <1>1, <1>2, <1>3, ReleaseSlot
<1>8. QED
  BY <1>1, <1>2, <1>6, <1>7 DEF TxInv, InflightPending

\* And the passing of time.
LEMMA TxInvTick == ASSUME TxInv, Tick PROVE TxInv'
<1>1. /\ TxTypeOK /\ TxQueueMirrors /\ SameSize /\ InflightPending
      /\ SilenceAccounts
  BY DEF TxInv
<1>2. /\ DOMAIN pending' = DOMAIN pending
      /\ \A j \in DOMAIN pending :
            pending'[j] = [pending[j] EXCEPT !.elapsed = AtMost(@ + 1, MaxMs)]
      /\ DOMAIN silence' = DOMAIN pending
      /\ \A j \in DOMAIN pending : silence'[j] = AtMost(silence[j] + 1, FailSilence)
      /\ UNCHANGED <<nextTxSeq, rtt, txQueue, inflight, failed>>
  BY <1>1 DEF Tick, TxTypeOK
<1>3. \A j \in DOMAIN pending :
        /\ pending'[j] \in Packet /\ pending'[j].seq = pending[j].seq
        /\ pending'[j].retries = pending[j].retries
        /\ pending'[j].timeout = pending[j].timeout
        /\ pending'[j].elapsed \in Nat /\ pending[j].elapsed \in Nat
        /\ pending'[j].elapsed <= pending[j].elapsed + 1
        /\ pending[j].retries \in Nat
  <2> SUFFICES ASSUME NEW j \in DOMAIN pending
               PROVE  /\ pending'[j] \in Packet
                      /\ pending'[j].seq = pending[j].seq
                      /\ pending'[j].retries = pending[j].retries
                      /\ pending'[j].timeout = pending[j].timeout
                      /\ pending'[j].elapsed \in Nat /\ pending[j].elapsed \in Nat
                      /\ pending'[j].elapsed <= pending[j].elapsed + 1
                      /\ pending[j].retries \in Nat
    OBVIOUS
  <2>1. pending[j] \in Packet
    BY <1>1 DEF TxTypeOK
  <2>2. /\ pending[j].elapsed \in Nat /\ pending[j].retries \in Nat
        /\ AtMost(pending[j].elapsed + 1, MaxMs) \in 0 .. MaxMs
        /\ AtMost(pending[j].elapsed + 1, MaxMs) <= pending[j].elapsed + 1
    BY <2>1, SenderAssumption DEF AtMost, Packet
  <2>3. MaxMs \in Nat
    BY SenderAssumption
  <2>4. QED
    BY <1>2, <2>1, <2>2, <2>3 DEF Packet
<1>4. \A j \in DOMAIN pending : /\ silence[j] \in Nat
                                /\ silence'[j] \in 0 .. FailSilence
                                /\ silence'[j] = FailSilence
                                     \/ silence'[j] = silence[j] + 1
  <2>1. \A j \in DOMAIN pending : silence[j] \in 0 .. FailSilence
    BY <1>1 DEF TxTypeOK
  <2>2. QED
    BY <1>2, <2>1, FailSilenceNat DEF AtMost
<1>5. TxTypeOK'
  BY <1>1, <1>2, <1>3, <1>4 DEF TxTypeOK
<1>6. TxQueueMirrors' /\ SameSize'
  <2>1. \A s : {j \in DOMAIN pending' : pending'[j].seq = s}
                 = {j \in DOMAIN pending : pending[j].seq = s}
    BY <1>2, <1>3
  <2>2. QED
    BY <1>1, <1>2, <2>1 DEF TxQueueMirrors, SameSize
<1>7. PendingSeqs' = PendingSeqs
  BY <1>2, <1>3 DEF PendingSeqs
<1>8. SilenceAccounts'
  <2> SUFFICES ASSUME NEW k \in DOMAIN pending
               PROVE  /\ pending'[k].timeout >= MinWait(pending'[k].retries)
                      /\ \/ silence'[k] = FailSilence
                         \/ silence'[k] >= SilenceBefore(pending'[k].retries)
                                             + pending'[k].elapsed
    BY <1>2 DEF SilenceAccounts
  <2>1. SilenceBefore(pending[k].retries) \in Nat
    BY <1>3, SilenceStep
  <2>2. /\ pending[k].timeout >= MinWait(pending[k].retries)
        /\ \/ silence[k] = FailSilence
           \/ silence[k] >= SilenceBefore(pending[k].retries)
                              + pending[k].elapsed
    BY <1>1 DEF SilenceAccounts
  <2>3. silence[k] = FailSilence => silence'[k] = FailSilence
    BY <1>2, FailSilenceNat DEF AtMost
  <2>4. QED
    BY <1>3, <1>4, <2>1, <2>2, <2>3
<1>9. QED
  BY <1>1, <1>2, <1>5, <1>6, <1>7, <1>8 DEF TxInv, InflightPending

\* Reconfiguring the channel starts it afresh.
LEMMA TxInvReset == ASSUME SetReliableConfig PROVE TxInv'
<1>1. /\ DOMAIN pending' = {} /\ DOMAIN txQueue' = {} /\ inflight' = {}
      /\ DOMAIN silence' = {}
  BY DEF SetReliableConfig
<1>2. 0 \in SeqId /\ InitialRtt \in 1 .. MaxMs
  BY SeqSpaceAssumption, SenderAssumption DEF SeqId
<1>3. TxTypeOK'
  BY <1>1, <1>2 DEF SetReliableConfig, TxTypeOK
<1>4. TxQueueMirrors'
  BY <1>1 DEF TxQueueMirrors
<1>5. QED
  BY <1>1, <1>3, <1>4 DEF TxInv, SameSize, InflightPending, SilenceAccounts

\* Every step, or stutter, preserves the invariant.
LEMMA TxInvNext == TxInv /\ [TxNext]_txVars => TxInv'
<1> SUFFICES ASSUME TxInv, [TxNext]_txVars PROVE TxInv'
  OBVIOUS
<1>1. CASE UNCHANGED txVars
  <2>1. UNCHANGED <<pending, nextTxSeq, rtt, txQueue, inflight, failed, silence>>
    BY <1>1 DEF txVars
  <2>2. TxTypeOK' /\ SilenceAccounts'
    BY <2>1 DEF TxInv, TxTypeOK, SilenceAccounts
  <2>3. TxQueueMirrors' /\ SameSize' /\ InflightPending'
    BY <2>1 DEF TxInv, TxQueueMirrors, SameSize, InflightPending, PendingSeqs
  <2>4. QED
    BY <2>2, <2>3 DEF TxInv
<1>2. CASE Send
  BY <1>2, TxInvSend
<1>3. ASSUME NEW a \in SeqId, OnAck(a) PROVE TxInv'
  BY <1>3, TxInvAck
<1>4. CASE PollRetransmit
  BY <1>4, TxInvPollRetransmit
<1>5. CASE PollFailed
  BY <1>5, TxInvPollFailed
<1>6. CASE Tick
  BY <1>6, TxInvTick
<1>7. CASE SetReliableConfig
  BY <1>7, TxInvReset
<1>8. QED
  BY <1>1, <1>2, <1>3, <1>4, <1>5, <1>6, <1>7 DEF TxNext, Poll

\* The invariant of the sending half.
THEOREM TxInvariant == TxSpec => []TxInv
<1>1. QED
  BY TxInvInit, TxInvNext, PTL DEF TxSpec

\* Timeouts and the RTT estimate never leave 1 .. MaxMs, for any RTT
\* configuration and any samples: the uint16_t arithmetic cannot overflow.
THEOREM TxTypeCorrect == TxSpec => []TxTypeOK
<1>1. TxInv => TxTypeOK
  BY DEF TxInv
<1>2. QED
  BY <1>1, TxInvariant, PTL

\* tx_queue and the engine's slots always record the same packets, each id as
\* often as the other, also when two packets hold one id.
THEOREM TxQueueAgrees == TxSpec => []TxQueueMirrors
<1>1. TxInv => TxQueueMirrors
  BY DEF TxInv
<1>2. QED
  BY <1>1, TxInvariant, PTL

\* The packet marked in flight always waits for its ACK.
THEOREM TxInflightPending == TxSpec => []InflightPending
<1>1. TxInv => InflightPending
  BY DEF TxInv
<1>2. QED
  BY <1>1, TxInvariant, PTL

-----------------------------------------------------------------------------
(* What a step may do.                                                     *)

\* No packet is given up before the sum of its shortest waits has passed since
\* it was first sent, whatever the acknowledgements of other packets, and its
\* own late polls, do to the RTT estimate meanwhile.
THEOREM TxFailedAfterSilence == TxSpec => FailedAfterSilence
<1> DEFINE A == PollFailed => \A i \in DOMAIN pending \ DOMAIN pending' :
                                 silence[i] >= FailSilence
<1>1. TxInv => A
  <2> SUFFICES ASSUME TxInv, PollFailed,
                      NEW j \in DOMAIN pending, j \notin DOMAIN pending'
               PROVE  silence[j] >= FailSilence
    OBVIOUS
  <2>1. PICK i \in DOMAIN pending : /\ IsFirst(i, Expired)
                                    /\ pending[i].retries >= MaxRetries
                                    /\ pending' = Without(pending, i)
    BY DEF PollFailed
  <2>2. j = i
    BY <2>1, WithoutFacts
  <2>3. /\ pending[i] \in Packet /\ silence[i] \in 0 .. FailSilence
        /\ pending[i].retries \in 0 .. MaxRetries
    BY DEF TxInv, TxTypeOK, Packet
  <2>4. pending[i].retries = MaxRetries
    BY <2>1, <2>3, SenderAssumption
  <2>5. /\ MinWait(MaxRetries) \in Nat /\ SilenceBefore(MaxRetries) \in Nat
        /\ FailSilence = SilenceBefore(MaxRetries) + MinWait(MaxRetries)
    BY SilenceStep, SenderAssumption DEF FailSilence
  <2>6. /\ pending[i].elapsed >= pending[i].timeout
        /\ pending[i].timeout >= MinWait(MaxRetries)
        /\ \/ silence[i] = FailSilence
           \/ silence[i] >= SilenceBefore(MaxRetries) + pending[i].elapsed
    BY <2>1, <2>4 DEF IsFirst, Expired, TxInv, SilenceAccounts
  <2>7. /\ pending[i].elapsed \in Nat /\ pending[i].timeout \in Nat
        /\ silence[i] \in Nat
    BY <2>3, SenderAssumption, FailSilenceNat DEF Packet
  <2>8. QED
    BY <2>2, <2>5, <2>6, <2>7
<1>2. QED
  BY <1>1, TxInvariant, PTL DEF TxSpec, FailedAfterSilence

\* A retry comes after a full timeout, and waits at least twice the RTT
\* estimate (or the widest timeout) itself.
THEOREM TxBackoffGrows == TxSpec => BackoffGrows
<1> DEFINE A == \A i \in DOMAIN pending \cap DOMAIN pending' :
                   pending'[i].retries > pending[i].retries
                     => /\ pending[i].elapsed >= pending[i].timeout
                        /\ pending'[i].timeout >= AtMost(2 * rtt, MaxMs)
<1>1. TxInv /\ [TxNext]_txVars => A
  <2> SUFFICES ASSUME TxInv, [TxNext]_txVars,
                      NEW j \in DOMAIN pending, j \in DOMAIN pending',
                      pending'[j].retries > pending[j].retries
               PROVE  /\ pending[j].elapsed >= pending[j].timeout
                      /\ pending'[j].timeout >= AtMost(2 * rtt, MaxMs)
    OBVIOUS
  <2>0. /\ pending[j] \in Packet /\ pending[j].retries \in Nat
        /\ rtt \in Nat /\ rtt >= 1 /\ MaxMs \in Nat /\ MaxMs >= 1
    BY SenderAssumption DEF TxInv, TxTypeOK, Packet
  <2>1. CASE PollRetransmit
    <3>1. PICK i \in DOMAIN pending :
            /\ IsFirst(i, Expired)
            /\ pending' = [pending EXCEPT ![i].retries = @ + 1,
                  ![i].elapsed = 0,
                  ![i].timeout = Timeout(pending[i].retries + 1)]
      BY <2>1 DEF PollRetransmit
    <3>2. i = j
      BY <2>0, <3>1
    <3>3. pending'[j].timeout = Timeout(pending[j].retries + 1)
      BY <2>0, <3>1, <3>2 DEF Packet
    <3>4. Timeout(pending[j].retries + 1) >= AtMost(2 * rtt, MaxMs)
      BY <2>0 DEF Timeout, AtMost
    <3>5. QED
      BY <3>1, <3>2, <3>3, <3>4 DEF IsFirst, Expired
  <2>2. ASSUME NEW i, pending' = Without(pending, i) PROVE FALSE
    BY <2>0, <2>2 DEF Without, Restrict
  <2>3. CASE Send
    <3>1. PICK i \in 1 .. MaxPending \ DOMAIN pending :
            pending' = With(pending, i, [seq |-> nextTxSeq, elapsed |-> 0,
                              timeout |-> Timeout(0), retries |-> 0])
      BY <2>3 DEF Send, IsFirst
    <3>2. pending'[j] = pending[j]
      BY <3>1 DEF With
    <3>3. QED
      BY <2>0, <3>2
  <2>4. ASSUME NEW a \in SeqId, OnAck(a) PROVE FALSE
    <3>1. pending' = pending \/ \E i \in DOMAIN pending :
                                  pending' = Without(pending, i)
      BY <2>4 DEF OnAck
    <3>2. QED
      BY <2>0, <2>2, <3>1
  <2>5. CASE PollFailed
    BY <2>2, <2>5 DEF PollFailed
  <2>6. CASE Tick
    <3>1. pending'[j] = [pending[j] EXCEPT !.elapsed = AtMost(@ + 1, MaxMs)]
      BY <2>6 DEF Tick
    <3>2. pending'[j].retries = pending[j].retries
      BY <2>0, <3>1 DEF Packet
    <3>3. QED
      BY <2>0, <3>2
  <2>7. CASE SetReliableConfig
    BY <2>7 DEF SetReliableConfig
  <2>8. CASE UNCHANGED txVars
    BY <2>0, <2>8 DEF txVars
  <2>9. QED
    BY <2>1, <2>3, <2>4, <2>5, <2>6, <2>7, <2>8 DEF TxNext, Poll
<1>2. QED
  BY <1>1, TxInvariant, PTL DEF TxSpec, BackoffGrows

-----------------------------------------------------------------------------
(* The engine implements the retry discipline.                             *)

SeqsOf(p) == {p[i].seq : i \in DOMAIN p}

Distinct(p) == \A i, j \in DOMAIN p : p[i].seq = p[j].seq => i = j

\* The retries of an id are those of the slot that holds it.
LEMMA RetriesOfSlot ==
  ASSUME NEW p, Distinct(p)
  PROVE  /\ DOMAIN RetriesOf(p) = SeqsOf(p)
         /\ \A i \in DOMAIN p : RetriesOf(p)[p[i].seq] = p[i].retries
<1>1. DOMAIN RetriesOf(p) = SeqsOf(p)
  BY DEF RetriesOf, SeqsOf
<1>2. ASSUME NEW i \in DOMAIN p PROVE RetriesOf(p)[p[i].seq] = p[i].retries
  <2> DEFINE c == CHOOSE j \in DOMAIN p : p[j].seq = p[i].seq
  <2>1. c \in DOMAIN p /\ p[c].seq = p[i].seq
    OBVIOUS
  <2>2. c = i
    BY <2>1 DEF Distinct
  <2>3. RetriesOf(p)[p[i].seq] = p[c].retries
    BY DEF RetriesOf
  <2>4. QED
    BY <2>2, <2>3
<1>3. QED
  BY <1>1, <1>2

\* The mapping is determined by its value at every slot.
LEMMA RetriesOfIs ==
  ASSUME NEW p, Distinct(p), NEW S, S = SeqsOf(p), NEW f,
         f = [s \in S |-> f[s]],
         \A i \in DOMAIN p : f[p[i].seq] = p[i].retries
  PROVE  RetriesOf(p) = f
<1>1. RetriesOf(p) = [s \in S |-> RetriesOf(p)[s]]
  BY DEF RetriesOf, SeqsOf
<1>2. ASSUME NEW s \in S PROVE RetriesOf(p)[s] = f[s]
  <2>1. PICK i \in DOMAIN p : s = p[i].seq
    BY DEF SeqsOf
  <2>2. RetriesOf(p)[p[i].seq] = p[i].retries
    BY RetriesOfSlot
  <2>3. QED
    BY <2>1, <2>2
<1>3. [s \in S |-> RetriesOf(p)[s]] = [s \in S |-> f[s]]
  BY <1>2
<1>4. QED
  BY <1>1, <1>3

\* A free slot leaves room for one more pending id.
LEMMA RoomForOne ==
  ASSUME TxInv, NEW i \in 1 .. MaxPending, i \notin DOMAIN pending
  PROVE  Cardinality(PendingSeqs) + 1 <= MaxPending
<1> DEFINE D == DOMAIN pending
           f == [j \in D |-> pending[j].seq]
<1>1. MaxPending \in Nat /\ D \subseteq 1 .. MaxPending
  BY SenderAssumption DEF TxInv, TxTypeOK
<1>2. /\ IsFiniteSet(1 .. MaxPending)
      /\ Cardinality(1 .. MaxPending) = MaxPending
  BY <1>1, FS_Interval
<1>3. /\ IsFiniteSet((1 .. MaxPending) \ {i})
      /\ Cardinality((1 .. MaxPending) \ {i}) = MaxPending - 1
  BY <1>2, FS_RemoveElement
<1>4. D \in SUBSET ((1 .. MaxPending) \ {i})
  BY <1>1
<1>5. IsFiniteSet(D) /\ Cardinality(D) <= MaxPending - 1
  BY <1>3, <1>4, FS_Subset
<1>6. f \in Surjection(D, PendingSeqs)
  BY DEF Surjection, PendingSeqs
<1>7. IsFiniteSet(PendingSeqs) /\ Cardinality(PendingSeqs) <= Cardinality(D)
  BY <1>5, <1>6, FS_Surjection
<1>8. Cardinality(PendingSeqs) \in Nat /\ Cardinality(D) \in Nat
  BY <1>5, <1>7, FS_CardinalityType
<1>9. QED
  BY <1>1, <1>5, <1>7, <1>8

\* The pending ids, on both sides of the mapping.
LEMMA PendingMapped ==
  ASSUME UniqueSeqs
  PROVE  /\ Distinct(pending)
         /\ DOMAIN RetriesOf(pending) = PendingSeqs
         /\ \A i \in DOMAIN pending :
               RetriesOf(pending)[pending[i].seq] = pending[i].retries
<1>1. Distinct(pending)
  BY DEF UniqueSeqs, Distinct
<1>2. QED
  BY <1>1, RetriesOfSlot DEF SeqsOf, PendingSeqs

\* Releasing the slot of s settles s.
LEMMA ReleaseMapped ==
  ASSUME UniqueSeqs, NEW i \in DOMAIN pending, pending' = Without(pending, i)
  PROVE  Retry!Settled(pending[i].seq)
<1> DEFINE S == PendingSeqs \ {pending[i].seq}
           f == [r \in S |-> RetriesOf(pending)[r]]
<1>1. /\ DOMAIN pending' = DOMAIN pending \ {i}
      /\ \A j \in DOMAIN pending' : pending'[j] = pending[j]
  BY DEF Without, Restrict
<1>2. Distinct(pending') /\ S = SeqsOf(pending')
  BY <1>1 DEF UniqueSeqs, Distinct, SeqsOf, PendingSeqs
<1>3. \A j \in DOMAIN pending' : f[pending'[j].seq] = pending'[j].retries
  <2> SUFFICES ASSUME NEW j \in DOMAIN pending'
               PROVE  f[pending'[j].seq] = pending'[j].retries
    OBVIOUS
  <2>1. pending'[j].seq \in S
    BY <1>2 DEF SeqsOf
  <2>2. j \in DOMAIN pending /\ pending'[j] = pending[j]
    BY <1>1
  <2>3. QED
    BY <2>1, <2>2, PendingMapped
<1>4. f = [r \in S |-> f[r]]
  OBVIOUS
<1> HIDE DEF f
<1>5. RetriesOf(pending') = f
  BY <1>2, <1>3, <1>4, RetriesOfIs
<1>6. QED
  BY <1>5, PendingMapped DEF Retry!Settled, Retry!Pending, f

\* Every step of the engine between distinct ids is one of the discipline, or
\* a stutter.
LEMMA RetryStep ==
  TxInv /\ [TxNext]_txVars /\ UniqueSeqs /\ UniqueSeqs'
     => [Retry!RetryNext]_Retry!retryVars
<1> SUFFICES ASSUME TxInv, [TxNext]_txVars, UniqueSeqs, UniqueSeqs'
             PROVE  [Retry!RetryNext]_Retry!retryVars
  OBVIOUS
<1>1. /\ DOMAIN RetriesOf(pending) = PendingSeqs
      /\ \A i \in DOMAIN pending :
            RetriesOf(pending)[pending[i].seq] = pending[i].retries
  BY PendingMapped
<1>2. Distinct(pending')
  BY DEF UniqueSeqs, Distinct
<1>3. \A i \in DOMAIN pending : pending[i] \in Packet /\ pending[i].seq \in SeqId
  BY DEF TxInv, TxTypeOK, Packet
<1>4. MaxPending \in Nat /\ MaxPending >= 1
  BY SenderAssumption
<1>5. CASE Send
  <2>1. PICK i \in 1 .. MaxPending \ DOMAIN pending :
          /\ pending' = With(pending, i, [seq |-> nextTxSeq, elapsed |-> 0,
                                timeout |-> Timeout(0), retries |-> 0])
          /\ nextTxSeq' = SeqNext(nextTxSeq)
          /\ failed' = failed \ {nextTxSeq}
    BY <1>5 DEF Send, IsFirst
  <2> DEFINE S == PendingSeqs \cup {nextTxSeq}
             f == [s \in S |-> IF s \in {nextTxSeq} THEN 0
                                ELSE RetriesOf(pending)[s]]
  <2>2. nextTxSeq \in Nat /\ SeqSpace \in Nat /\ nextTxSeq < SeqSpace
    BY SeqSpaceAssumption DEF TxInv, TxTypeOK, SeqId
  <2>3. Retry!Burst(1) = {nextTxSeq} /\ nextTxSeq' = Retry!SeqAdd(nextTxSeq, 1)
    <3>1. \A k \in 0 .. 1 - 1 : k = 0
      OBVIOUS
    <3>2. Retry!SeqAdd(nextTxSeq, 0) = nextTxSeq
      BY <2>2 DEF Retry!SeqAdd
    <3>3. 0 \in 0 .. 1 - 1
      OBVIOUS
    <3>4. Retry!Burst(1) = {nextTxSeq}
      BY <3>1, <3>2, <3>3 DEF Retry!Burst
    <3>5. QED
      BY <2>1, <3>4 DEF Retry!SeqAdd, SeqNext, SeqAdd
  <2>4. /\ DOMAIN pending' = DOMAIN pending \cup {i}
        /\ pending'[i].seq = nextTxSeq /\ pending'[i].retries = 0
        /\ \A j \in DOMAIN pending : pending'[j] = pending[j]
    BY <2>1 DEF With
  <2>12. nextTxSeq \notin PendingSeqs
    BY <1>2, <2>4 DEF Distinct, PendingSeqs
  <2>5. S = SeqsOf(pending')
    BY <2>4 DEF SeqsOf, PendingSeqs
  <2>6. \A j \in DOMAIN pending' : f[pending'[j].seq] = pending'[j].retries
    <3> SUFFICES ASSUME NEW j \in DOMAIN pending'
                 PROVE  f[pending'[j].seq] = pending'[j].retries
      OBVIOUS
    <3>1. CASE j = i
      BY <2>4, <3>1
    <3>2. CASE j \in DOMAIN pending
      <4>1. pending[j].seq \in PendingSeqs
        BY <3>2 DEF PendingSeqs
      <4>2. QED
        BY <1>1, <2>1, <2>4, <2>12, <3>2, <4>1
    <3>3. QED
      BY <2>4, <3>1, <3>2
  <2>7. f = [s \in S |-> f[s]]
    OBVIOUS
  <2>8. Cardinality(PendingSeqs) + 1 <= MaxPending
    BY <2>1, RoomForOne
  <2> HIDE DEF f
  <2>9. RetriesOf(pending') = f
    BY <1>2, <2>5, <2>6, <2>7, RetriesOfIs
  <2>10. Retry!SendBurst(1)
    <3>1. Retry!Cardinality(PendingSeqs) = Cardinality(PendingSeqs)
      BY DEF Retry!Cardinality, Cardinality
    <3>2. QED
      BY <1>1, <2>1, <2>3, <2>12, <2>8, <2>9, <3>1
         DEF Retry!SendBurst, Retry!Pending, f
  <2>11. QED
    BY <1>4, <2>10 DEF Retry!RetryNext
<1>6. ASSUME NEW a \in SeqId, OnAck(a)
      PROVE  [Retry!RetryNext]_Retry!retryVars
  <2>1. nextTxSeq' = nextTxSeq /\ failed' = failed
    BY <1>6 DEF OnAck
  <2>2. CASE pending' = pending
    BY <2>1, <2>2 DEF Retry!retryVars
  <2>3. ASSUME NEW i \in DOMAIN pending, pending' = Without(pending, i)
        PROVE  Retry!RetryNext
    <3>1. Retry!Settled(pending[i].seq)
      BY <2>3, ReleaseMapped
    <3>2. pending[i].seq \in PendingSeqs
      BY DEF PendingSeqs
    <3>3. Retry!Acked(pending[i].seq)
      BY <1>1, <2>1, <3>1, <3>2 DEF Retry!Acked, Retry!Pending
    <3>4. pending[i].seq \in Retry!SeqId
      BY <1>3 DEF SeqId, Retry!SeqId
    <3>5. QED
      BY <3>3, <3>4 DEF Retry!RetryNext
  <2>4. pending' = pending
          \/ \E i \in DOMAIN pending : pending' = Without(pending, i)
    BY <1>6 DEF OnAck
  <2>5. QED
    BY <2>2, <2>3, <2>4
<1>7. CASE PollRetransmit
  <2>1. PICK i \in DOMAIN pending :
          /\ pending[i].retries < MaxRetries
          /\ pending' = [pending EXCEPT ![i].retries = @ + 1,
                ![i].elapsed = 0,
                ![i].timeout = Timeout(pending[i].retries + 1)]
          /\ nextTxSeq' = nextTxSeq /\ failed' = failed
    BY <1>7 DEF PollRetransmit
  <2> DEFINE s == pending[i].seq
             f == [RetriesOf(pending) EXCEPT ![s] = @ + 1]
  <2>2. /\ DOMAIN pending' = DOMAIN pending
        /\ \A j \in DOMAIN pending : pending'[j].seq = pending[j].seq
        /\ \A j \in DOMAIN pending : j # i => pending'[j] = pending[j]
        /\ pending'[i].retries = pending[i].retries + 1
    BY <1>3, <2>1 DEF Packet
  <2>3. PendingSeqs = SeqsOf(pending')
    BY <2>2 DEF PendingSeqs, SeqsOf
  <2>4. s \in PendingSeqs /\ \A j \in DOMAIN pending :
                               pending[j].seq = s => j = i
    BY DEF UniqueSeqs, PendingSeqs
  <2>5. \A j \in DOMAIN pending' : f[pending'[j].seq] = pending'[j].retries
    <3> SUFFICES ASSUME NEW j \in DOMAIN pending
                 PROVE  f[pending[j].seq] = pending'[j].retries
      BY <2>2
    <3>1. pending[j].seq \in DOMAIN RetriesOf(pending)
      BY <1>1 DEF PendingSeqs
    <3>2. CASE j = i
      BY <1>1, <2>2, <3>1, <3>2
    <3>3. CASE j # i
      BY <1>1, <2>2, <2>4, <3>1, <3>3
    <3>4. QED
      BY <3>2, <3>3
  <2>6. f = [r \in PendingSeqs |-> f[r]]
    BY <1>1
  <2> HIDE DEF f
  <2>7. RetriesOf(pending') = f
    BY <1>2, <2>3, <2>5, <2>6, RetriesOfIs
  <2>8. Retry!Retransmit(s)
    BY <1>1, <2>1, <2>4, <2>7 DEF Retry!Retransmit, Retry!Pending, f
  <2>9. s \in Retry!SeqId
    BY <1>3 DEF SeqId, Retry!SeqId
  <2>10. QED
    BY <2>8, <2>9 DEF Retry!RetryNext
<1>8. CASE PollFailed
  <2>1. PICK i \in DOMAIN pending :
          /\ pending[i].retries >= MaxRetries
          /\ pending' = Without(pending, i)
          /\ failed' = failed \cup {pending[i].seq}
          /\ nextTxSeq' = nextTxSeq
    BY <1>8 DEF PollFailed
  <2>2. Retry!Settled(pending[i].seq)
    BY <2>1, ReleaseMapped
  <2>3. pending[i].seq \in PendingSeqs
    BY DEF PendingSeqs
  <2>4. Retry!Fail(pending[i].seq)
    BY <1>1, <2>1, <2>2, <2>3 DEF Retry!Fail, Retry!Pending
  <2>5. pending[i].seq \in Retry!SeqId
    BY <1>3 DEF SeqId, Retry!SeqId
  <2>6. QED
    BY <2>4, <2>5 DEF Retry!RetryNext
<1>9. CASE Tick
  <2>1. /\ DOMAIN pending' = DOMAIN pending
        /\ \A j \in DOMAIN pending :
              pending'[j] = [pending[j] EXCEPT !.elapsed = AtMost(@ + 1, MaxMs)]
        /\ nextTxSeq' = nextTxSeq /\ failed' = failed
    BY <1>9 DEF Tick
  <2>2. \A j \in DOMAIN pending : /\ pending'[j].seq = pending[j].seq
                                 /\ pending'[j].retries = pending[j].retries
    BY <1>3, <2>1 DEF Packet
  <2>3. PendingSeqs = SeqsOf(pending')
    BY <2>1, <2>2 DEF PendingSeqs, SeqsOf
  <2>4. RetriesOf(pending) = [s \in PendingSeqs |-> RetriesOf(pending)[s]]
    BY DEF RetriesOf, PendingSeqs
  <2>5. RetriesOf(pending') = RetriesOf(pending)
    BY <1>1, <1>2, <2>1, <2>2, <2>3, <2>4, RetriesOfIs
  <2>6. QED
    BY <2>1, <2>5 DEF Retry!retryVars
<1>10. CASE SetReliableConfig
  <2>1. pending' = [i \in {} |-> 0] /\ nextTxSeq' = 0 /\ failed' = {}
    BY <1>10 DEF SetReliableConfig
  <2>2. RetriesOf(pending') = [s \in {} |-> 0]
    BY <2>1 DEF RetriesOf
  <2>3. Retry!Restart
    BY <2>1, <2>2 DEF Retry!Restart
  <2>4. QED
    BY <2>3 DEF Retry!RetryNext
<1>11. CASE UNCHANGED txVars
  BY <1>11 DEF txVars, Retry!retryVars
<1>12. QED
  BY <1>5, <1>6, <1>7, <1>8, <1>9, <1>10, <1>11 DEF TxNext, Poll

\* A configured engine is where the discipline starts.
LEMMA RetryStart == TxInit => Retry!RetryInit
<1> SUFFICES ASSUME TxInit PROVE Retry!RetryInit
  OBVIOUS
<1>1. RetriesOf(pending) = [s \in {} |-> 0]
  BY DEF TxInit, RetriesOf
<1>2. QED
  BY <1>1 DEF TxInit, Retry!RetryInit

\* The engine of relinow_reliable.c, with its clock, its slots and its RTT
\* estimate, implements the retry discipline of RelinowRetry wherever the ids
\* of its packets are distinct.
THEOREM TxImplementsRetry == TxSpec => ImplementsRetry
<1>1. TxInv /\ [TxNext]_txVars =>
        (UniqueSeqs /\ UniqueSeqs' => [Retry!RetryNext]_(Retry!retryVars))
  BY RetryStep
<1>2. QED
  BY <1>1, RetryStart, TxInvariant, PTL DEF TxSpec, ImplementsRetry

\* An application that never sends a lap of ids past a pending packet sees the
\* whole discipline.
THEOREM TxRefinesRetry == TxSpec /\ []UniqueSeqs => Retry!RetrySpec
<1>1. QED
  BY RetryStep, RetryStart, TxInvariant, PTL DEF TxSpec, Retry!RetrySpec
=============================================================================
