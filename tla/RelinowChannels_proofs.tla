------------------------ MODULE RelinowChannels_proofs ------------------------
(***************************************************************************)
(* Theorems about the channels of a node and what they share, for every    *)
(* number of channels and every size of the tables.                        *)
(*                                                                         *)
(* The inductive invariant ChannelsInv has three parts: the types on the   *)
(* two nodes, the bound on the frames kept under one id, and the order of  *)
(* the scheduler's scan: whoever was served while a channel waited now     *)
(* stands behind it (WaiterFirst).  The scan order is a rotation of the    *)
(* channel table; lemma ScanShift says how serving a channel turns it.     *)
(***************************************************************************)
EXTENDS RelinowChannels, FiniteSetTheorems, WellFoundedInduction, TLAPS

Waiting(s) == {c \in Reliable : s \in Pending(c)}

SenderOK ==
    /\ nextTxSeq \in [Reliable -> 0 .. MaxPackets]
    /\ DOMAIN retries = Reliable
    /\ \A c \in Reliable : /\ Pending(c) \subseteq 0 .. nextTxSeq[c] - 1
                           /\ Cardinality(Pending(c)) <= MaxPending
    /\ \A p \in expired : p \in Reliable \X SeqId /\ p[2] \in Pending(p[1])
    /\ DOMAIN txCache \subseteq 1 .. TxCacheSize
    /\ \A i \in DOMAIN txCache : txCache[i] \in [seq : SeqId, load : Load]
    /\ lastPolled \in Channels
    /\ dataNet \subseteq [chan : Reliable, seq : SeqId, load : Load]

ReceiverOK ==
    /\ DOMAIN expected \subseteq Reliable
    /\ \A c \in DOMAIN expected : expected[c] \in SeqId
    /\ DOMAIN reorder = Reliable
    /\ \A c \in Reliable : /\ reorder[c] \subseteq SeqId
                           /\ Cardinality(reorder[c]) <= MaxReorder
    /\ DOMAIN rxCache \subseteq SeqId /\ Cardinality(DOMAIN rxCache) <= RxCacheSize
    /\ \A s \in DOMAIN rxCache : rxCache[s] \in Load
    /\ handed \subseteq Reliable \X Load
    /\ ackNet \subseteq [chan : Reliable, seq : SeqId]

WaiterFirst ==
    \A p \in overtaken :
        /\ p \in Reliable \X Reliable
        /\ Ready(p[1]) /\ ScanPlace(p[1]) < ScanPlace(p[2])

ChannelsInv == SenderOK /\ ReceiverOK /\ NoCacheLeak /\ WaiterFirst

-----------------------------------------------------------------------------
(* Sets of ids and of slots.                                               *)

LEMMA ConstantFacts ==
  /\ SeqSpace \in Nat /\ SeqSpace >= 4 /\ MaxPackets \in Nat /\ MaxPackets < SeqSpace
  /\ MaxReorder \in Nat /\ 2 * (MaxReorder + 1) <= SeqSpace /\ RxCacheSize \in Nat
  /\ NumChannels \in Nat /\ NumChannels > 0 /\ MaxPending \in Nat /\ TxCacheSize \in Nat
  BY SeqSpaceAssumption, ChannelsAssumption

LEMMA SubsetFinite ==
  ASSUME NEW a \in Nat, NEW b \in Int, NEW S, S \subseteq a .. b
  PROVE  IsFiniteSet(S) /\ Cardinality(S) \in Nat
<1>1. IsFiniteSet(a .. b)
  BY FS_Interval
<1>2. IsFiniteSet(S)
  BY <1>1, FS_Subset
<1>3. QED
  BY <1>2, FS_CardinalityType

LEMMA IdsFinite ==
  ASSUME NEW S, S \subseteq SeqId
  PROVE  IsFiniteSet(S) /\ Cardinality(S) \in Nat
<1>1. IsFiniteSet(SeqId)
  BY ConstantFacts, FS_Interval DEF SeqId
<1>2. IsFiniteSet(S)
  BY <1>1, FS_Subset
<1>3. QED
  BY <1>2, FS_CardinalityType

Below == {ss \in Nat \X Nat : ss[1] < ss[2]}

\* Every set of numbers has a least one.
LEMMA LeastExists ==
  ASSUME NEW S, S \subseteq Nat, S # {}
  PROVE  \E i \in S : \A j \in S : i <= j
<1>1. IsWellFoundedOn(Below, Nat)
  BY NatLessThanWellFounded DEF OpToRel, Below
<1>2. PICK i \in S : \A j \in S : ~(<<j, i>> \in Below)
  BY <1>1, WFMin
<1>3. ASSUME NEW j \in S PROVE i <= j
  <2>1. ~(j < i)
    BY <1>2 DEF Below
  <2>2. i \in Nat /\ j \in Nat
    OBVIOUS
  <2>3. QED
    BY <2>1, <2>2
<1>4. QED
  BY <1>3

LEMMA MinType ==
  ASSUME NEW S, S \subseteq Nat, S # {}
  PROVE  Min(S) \in S
  BY LeastExists DEF Min

\* The run of buffered ids behind an id has a length: the first id that is
\* missing ends it, or the size of the buffer does.
LEMMA RunLengthType ==
  ASSUME NEW c, NEW s
  PROVE  RunLength(c, s) \in 0 .. MaxReorder
<1> DEFINE Ends(n) == n = MaxReorder \/ SeqAdd(s, n + 1) \notin reorder[c]
           S == {n \in 0 .. MaxReorder : Ends(n)}
<1>1. MaxReorder \in S /\ S \subseteq Nat
  BY ConstantFacts
<1>2. PICK n \in S : \A j \in S : n <= j
  BY <1>1, LeastExists
<1>3. ASSUME NEW i \in 1 .. n PROVE SeqAdd(s, i) \in reorder[c]
  <2>1. n \in 0 .. MaxReorder
    OBVIOUS
  <2>2. i - 1 \in 0 .. MaxReorder /\ i - 1 < n /\ (i - 1) + 1 = i
    BY <2>1, ConstantFacts
  <2>3. i - 1 \notin S
    BY <1>2, <2>1, <2>2
  <2>4. SeqAdd(s, (i - 1) + 1) \in reorder[c]
    BY <2>2, <2>3
  <2>5. QED
    BY <2>2, <2>4
<1>4. \E m \in 0 .. MaxReorder :
        /\ \A i \in 1 .. m : SeqAdd(s, i) \in reorder[c]
        /\ m = MaxReorder \/ SeqAdd(s, m + 1) \notin reorder[c]
  BY <1>3
<1>5. QED
  BY <1>4 DEF RunLength

-----------------------------------------------------------------------------
(* The scheduler's scan.                                                   *)

LEMMA ScanIs ==
  ASSUME NEW c \in Channels, NEW l \in Channels
  PROVE  (c + NumChannels - 1 - l) % NumChannels =
           IF c > l THEN c - l - 1 ELSE c + NumChannels - 1 - l
<1> DEFINE x == c + NumChannels - 1 - l
           N == NumChannels
<1>1. c \in Nat /\ l \in Nat /\ c < N /\ l < N /\ N \in Nat /\ N > 0
  BY ConstantFacts DEF Channels
<1>2. ASSUME NEW y \in Nat, y < N PROVE y % N = y
  BY <1>1, <1>2
<1>3. ASSUME NEW y \in Nat, N <= y, y < 2 * N PROVE y % N = y - N
  BY <1>1, <1>3
<1>4. CASE c > l
  <2>1. x \in Nat /\ N <= x /\ x < 2 * N /\ x - N = c - l - 1
    BY <1>1, <1>4
  <2> HIDE DEF x, N
  <2>2. x % N = x - N
    BY <1>3, <2>1
  <2>3. QED
    BY <1>4, <2>1, <2>2 DEF x, N
<1>5. CASE ~(c > l)
  <2>1. x \in Nat /\ x < N
    BY <1>1, <1>5
  <2> HIDE DEF x, N
  <2>2. x % N = x
    BY <1>2, <2>1
  <2>3. QED
    BY <1>5, <2>2 DEF x, N
<1>6. QED
  BY <1>4, <1>5

\* Serving the channel c sends it to the end of the scan and keeps the order
\* of those that stood behind it.
LEMMA ScanShift ==
  ASSUME lastPolled \in Channels, NEW c \in Channels, lastPolled' = c,
         NEW d \in Channels, ScanPlace(c) <= ScanPlace(d), d # c
  PROVE  /\ ScanPlace(d)' < ScanPlace(c)'
         /\ \A e \in Channels : ScanPlace(d) < ScanPlace(e)
               => ScanPlace(d)' < ScanPlace(e)'
<1>1. /\ NumChannels \in Nat /\ lastPolled \in Nat /\ lastPolled < NumChannels
      /\ \A x \in Channels : x \in Nat /\ x < NumChannels
  BY ConstantFacts DEF Channels
<1>2. \A x \in Channels :
        ScanPlace(x) = IF x > lastPolled THEN x - lastPolled - 1
                       ELSE x + NumChannels - 1 - lastPolled
  BY ScanIs DEF ScanPlace
<1>3. \A x \in Channels :
        ScanPlace(x)' = IF x > c THEN x - c - 1 ELSE x + NumChannels - 1 - c
  BY ScanIs DEF ScanPlace
<1>4. ScanPlace(d)' < ScanPlace(c)'
  BY <1>1, <1>2, <1>3
<1>5. ASSUME NEW e \in Channels, ScanPlace(d) < ScanPlace(e)
      PROVE  ScanPlace(d)' < ScanPlace(e)'
  BY <1>1, <1>2, <1>3, <1>5
<1>6. QED
  BY <1>4, <1>5

-----------------------------------------------------------------------------
(* The cache that the channels share.                                      *)

LEMMA WaitingFinite ==
  ASSUME NEW s
  PROVE  /\ IsFiniteSet(Waiting(s)) /\ Cardinality(Waiting(s)) \in Nat
         /\ IsFiniteSet(Waiting(s)') /\ Cardinality(Waiting(s)') \in Nat
<1>1. IsFiniteSet(Channels)
  BY ConstantFacts, FS_Interval DEF Channels
<1>2. Waiting(s) \subseteq Channels /\ Waiting(s)' \subseteq Channels
  BY ChannelsAssumption DEF Waiting
<1>3. QED
  BY <1>1, <1>2, FS_Subset, FS_CardinalityType

LEMMA CachedType ==
  ASSUME SenderOK, NEW s
  PROVE  /\ Cached(s) \subseteq Nat /\ IsFiniteSet(Cached(s))
         /\ Cardinality(Cached(s)) \in Nat
         /\ IsFiniteSet(Waiting(s)) /\ Cardinality(Waiting(s)) \in Nat
<1>1. Cached(s) \subseteq 1 .. TxCacheSize
  BY DEF SenderOK, Cached
<1>2. IsFiniteSet(1 .. TxCacheSize)
  BY ConstantFacts, FS_Interval
<1>3. IsFiniteSet(Cached(s))
  BY <1>1, <1>2, FS_Subset
<1>4. QED
  BY <1>1, <1>3, WaitingFinite, FS_CardinalityType

\* relinow_tx_cache_remove takes one frame of that id, if there is one.
LEMMA RemoveCachedFacts ==
  ASSUME SenderOK, NEW s, RemoveCached(s)
  PROVE  /\ DOMAIN txCache' \subseteq DOMAIN txCache
         /\ \A i \in DOMAIN txCache' : txCache'[i] = txCache[i]
         /\ \A t : t # s => Cached(t)' = Cached(t)
         /\ Cached(s) = {} => Cached(s)' = {}
         /\ Cached(s) # {} => \E i \in Cached(s) : Cached(s)' = Cached(s) \ {i}
<1>1. CASE Cached(s) = {}
  <2>1. txCache' = txCache
    BY <1>1 DEF RemoveCached
  <2>2. QED
    BY <1>1, <2>1 DEF Cached
<1>2. CASE Cached(s) # {}
  <2>1. PICK i \in Cached(s) : i = Min(Cached(s))
    BY <1>2, CachedType, MinType
  <2>2. txCache' = [x \in DOMAIN txCache \ {i} |-> txCache[x]]
    BY <1>2, <2>1 DEF RemoveCached, Restrict
  <2>3. txCache[i].seq = s /\ i \in DOMAIN txCache
    BY <2>1 DEF Cached
  <2>4. \A t : t # s => Cached(t)' = Cached(t)
    BY <2>2, <2>3 DEF Cached
  <2>5. Cached(s)' = Cached(s) \ {i}
    BY <2>2 DEF Cached
  <2>6. QED
    BY <1>2, <2>1, <2>2, <2>4, <2>5
<1>3. QED
  BY <1>1, <1>2

\* A channel that stops waiting for an id and takes one frame of it along
\* leaves no more frames than channels that wait.
LEMMA NoLeakOnRemove ==
  ASSUME SenderOK, NoCacheLeak, NEW c \in Reliable, NEW s, RemoveCached(s),
         \A t : Waiting(t)' = IF t = s THEN Waiting(t) \ {c} ELSE Waiting(t)
  PROVE  NoCacheLeak'
<1> SUFFICES ASSUME NEW t \in SeqId
             PROVE  Cardinality(Cached(t)') <= Cardinality(Waiting(t)')
  BY DEF NoCacheLeak, Waiting
<1>1. Cardinality(Cached(t)) <= Cardinality(Waiting(t))
  BY DEF NoCacheLeak, Waiting
<1>2. CASE t # s
  BY <1>1, <1>2, RemoveCachedFacts
<1>3. CASE t = s /\ Cached(s) = {}
  <2>1. Cardinality(Cached(t)') = 0
    BY <1>3, RemoveCachedFacts, FS_EmptySet
  <2>2. IsFiniteSet(Waiting(t)')
    BY <1>3, CachedType, FS_RemoveElement
  <2>3. QED
    BY <2>1, <2>2, FS_CardinalityType
<1>4. CASE t = s /\ Cached(s) # {}
  <2>1. PICK i \in Cached(s) : Cached(s)' = Cached(s) \ {i}
    BY <1>4, RemoveCachedFacts
  <2>2. Cardinality(Cached(s)') = Cardinality(Cached(s)) - 1
    BY <2>1, CachedType, FS_RemoveElement
  <2>3. \/ Cardinality(Waiting(s)') = Cardinality(Waiting(s)) - 1
        \/ Cardinality(Waiting(s)') = Cardinality(Waiting(s))
    BY CachedType, FS_RemoveElement
  <2>4. /\ Cardinality(Cached(s)) \in Nat /\ Cardinality(Waiting(s)) \in Nat
        /\ Cardinality(Cached(s)) <= Cardinality(Waiting(s))
    BY <1>1, <1>4, CachedType
  <2>5. Cardinality(Cached(s)') <= Cardinality(Waiting(s)')
    BY <2>2, <2>3, <2>4
  <2>6. QED
    BY <1>4, <2>5
<1>5. QED
  BY <1>2, <1>3, <1>4

\* Frames and waiting channels that stay what they are leave the bound.
LEMMA NoLeakUnchanged ==
  ASSUME NoCacheLeak, txCache' = txCache, \A c \in Reliable : Pending(c)' = Pending(c)
  PROVE  NoCacheLeak'
  BY DEF NoCacheLeak, Cached

-----------------------------------------------------------------------------
(* The steps of the node that sends.                                       *)

\* What a node does as the sender leaves the receiver's part alone.
LEMMA ReceiverUnchanged ==
  ASSUME ReceiverOK, UNCHANGED <<receiverVars, ackNet>>
  PROVE  ReceiverOK'
<1>1. UNCHANGED <<expected, reorder, rxCache, handed, ackNet>>
  BY DEF receiverVars
<1>2. QED
  BY <1>1 DEF ReceiverOK

LEMMA SendStep ==
  ASSUME ChannelsInv, NEW c \in Reliable, Send(c), NEW s, s = nextTxSeq[c]
  PROVE  ChannelsInv'
<1> DEFINE load == [chan |-> c, seq |-> s]
           free == 1 .. TxCacheSize \ DOMAIN txCache
<1>1. SenderOK /\ ReceiverOK /\ NoCacheLeak /\ WaiterFirst
  BY DEF ChannelsInv
<1>2. /\ s \in Nat /\ s < MaxPackets /\ SeqNext(s) = s + 1 /\ s \in SeqId
      /\ load \in Load
  BY <1>1, ConstantFacts DEF SenderOK, Send, SeqNext, SeqAdd, SeqId, Load
<1>3. /\ nextTxSeq' = [nextTxSeq EXCEPT ![c] = s + 1]
      /\ retries' = [retries EXCEPT ![c] = With(retries[c], s, 0)]
      /\ Cardinality(Pending(c)) < MaxPending
      /\ UNCHANGED <<expired, lastPolled, overtaken>>
      /\ UNCHANGED <<receiverVars, ackNet>>
  BY <1>2 DEF Send
<1>4. /\ \A d \in Reliable : Pending(d)' = IF d = c THEN Pending(d) \cup {s} ELSE Pending(d)
      /\ s \notin Pending(c) /\ IsFiniteSet(Pending(c)) /\ DOMAIN retries' = Reliable
  <2>1. Pending(c) \subseteq 0 .. s - 1
    BY <1>1 DEF SenderOK
  <2>2. s \notin Pending(c)
    BY <1>2, <2>1
  <2>3. IsFiniteSet(0 .. s - 1)
    BY <1>2, FS_Interval
  <2>4. IsFiniteSet(Pending(c))
    BY <2>1, <2>3, FS_Subset
  <2>5. QED
    BY <1>1, <1>3, <2>2, <2>4 DEF SenderOK, Pending, With
<1>5. Cardinality(Pending(c)') <= MaxPending
  <2>1. Cardinality(Pending(c) \cup {s}) = Cardinality(Pending(c)) + 1
    BY <1>4, FS_AddElement
  <2>2. Cardinality(Pending(c)) \in Nat
    BY <1>4, FS_CardinalityType
  <2>3. Cardinality(Pending(c)) + 1 <= MaxPending
    BY <1>3, <2>2, ConstantFacts
  <2>4. Pending(c)' = Pending(c) \cup {s}
    BY <1>4
  <2>5. QED
    BY <2>1, <2>3, <2>4
<1>6. \A d \in Reliable : /\ Pending(d)' \subseteq 0 .. nextTxSeq'[d] - 1
                           /\ Cardinality(Pending(d)') <= MaxPending
  <2>1. \A d \in Reliable : nextTxSeq'[d] = IF d = c THEN s + 1 ELSE nextTxSeq[d]
    BY <1>1, <1>3 DEF SenderOK
  <2>2. ASSUME NEW d \in Reliable, d = c
        PROVE  Pending(d)' \subseteq 0 .. nextTxSeq'[d] - 1
    <3>1. Pending(c) \subseteq 0 .. s - 1
      BY <1>1 DEF SenderOK
    <3>2. Pending(c) \cup {s} \subseteq 0 .. s
      BY <1>2, <3>1
    <3>3. nextTxSeq'[d] - 1 = s
      BY <1>2, <2>1, <2>2
    <3>4. QED
      BY <1>4, <2>2, <3>2, <3>3
  <2>3. QED
    BY <1>1, <1>4, <1>5, <2>1, <2>2 DEF SenderOK
<1>7. nextTxSeq' \in [Reliable -> 0 .. MaxPackets]
  BY <1>1, <1>2, <1>3, ConstantFacts DEF SenderOK
<1>8. \A p \in expired' : p \in Reliable \X SeqId /\ p[2] \in Pending(p[1])'
  BY <1>1, <1>3, <1>4 DEF SenderOK
<1>9. WaiterFirst'
  BY <1>1, <1>3 DEF WaiterFirst, Ready, ScanPlace
<1>10. ReceiverOK'
  BY <1>1, <1>3, ReceiverUnchanged
<1>11. CASE free = {}
  <2>1. UNCHANGED <<txCache, dataNet>>
    BY <1>11 DEF Send
  <2>2. SenderOK'
    BY <1>1, <1>3, <1>4, <1>6, <1>7, <1>8, <2>1 DEF SenderOK
  <2>3. \A t : Waiting(t) \subseteq Waiting(t)'
    BY <1>4 DEF Waiting
  <2>4. ASSUME NEW t \in SeqId PROVE Cardinality(Cached(t)') <= Cardinality(Waiting(t)')
    <3>1. Cardinality(Waiting(t)) <= Cardinality(Waiting(t)')
      <4>1. IsFiniteSet(Waiting(t)')
        BY WaitingFinite
      <4>2. QED
        BY <2>3, <4>1, FS_Subset
    <3>2. Cached(t)' = Cached(t) /\ Cardinality(Cached(t)) <= Cardinality(Waiting(t))
      BY <1>1, <2>1 DEF NoCacheLeak, Cached, Waiting
    <3>3. Cardinality(Waiting(t)') \in Nat
      BY WaitingFinite
    <3>4. QED
      BY <1>1, <3>1, <3>2, <3>3, CachedType
  <2>5. QED
    BY <1>9, <1>10, <2>2, <2>4 DEF ChannelsInv, NoCacheLeak, Waiting
<1>12. CASE free # {}
  <2> DEFINE slot == Min(free)
  <2>1. slot \in free
    BY <1>12, ConstantFacts, MinType
  <2>2. /\ txCache' = With(txCache, slot, [seq |-> s, load |-> load])
        /\ dataNet' = dataNet \cup {[chan |-> c, seq |-> s, load |-> load]}
    BY <1>12 DEF Send
  <2> HIDE DEF slot
  <2>3. /\ DOMAIN txCache' \subseteq 1 .. TxCacheSize
        /\ \A i \in DOMAIN txCache' : txCache'[i] \in [seq : SeqId, load : Load]
    BY <1>1, <1>2, <2>1, <2>2 DEF SenderOK, With
  <2>4. dataNet' \subseteq [chan : Reliable, seq : SeqId, load : Load]
    BY <1>1, <1>2, <2>2 DEF SenderOK
  <2>5. SenderOK'
    BY <1>1, <1>3, <1>4, <1>6, <1>7, <1>8, <2>3, <2>4 DEF SenderOK
  <2>6. /\ \A t : t # s => Cached(t)' = Cached(t) /\ Waiting(t)' = Waiting(t)
        /\ Cached(s)' = Cached(s) \cup {slot}
        /\ Waiting(s)' = Waiting(s) \cup {c} /\ c \notin Waiting(s)
    <3>1. \A t : Cached(t)' = IF t = s THEN Cached(t) \cup {slot} ELSE Cached(t)
      BY <2>1, <2>2 DEF Cached, With
    <3>2. \A t : Waiting(t)' = IF t = s THEN Waiting(t) \cup {c} ELSE Waiting(t)
      BY <1>4 DEF Waiting
    <3>3. c \notin Waiting(s)
      BY <1>4 DEF Waiting
    <3>4. QED
      BY <3>1, <3>2, <3>3
  <2>7. ASSUME NEW t \in SeqId PROVE Cardinality(Cached(t)') <= Cardinality(Waiting(t)')
    <3>1. Cardinality(Cached(t)) <= Cardinality(Waiting(t))
      BY <1>1 DEF NoCacheLeak, Waiting
    <3>2. CASE t # s
      BY <2>6, <3>1, <3>2
    <3>3. CASE t = s
      <4>1. /\ Cardinality(Waiting(s)') = Cardinality(Waiting(s)) + 1
            /\ \/ Cardinality(Cached(s)') = Cardinality(Cached(s)) + 1
               \/ Cardinality(Cached(s)') = Cardinality(Cached(s))
        <5>1. Cardinality(Waiting(s) \cup {c}) = Cardinality(Waiting(s)) + 1
          BY <2>6, WaitingFinite, FS_AddElement
        <5>2. IsFiniteSet(Cached(s))
          BY <1>1, CachedType
        <5>3. \/ Cardinality(Cached(s) \cup {slot}) = Cardinality(Cached(s)) + 1
              \/ Cardinality(Cached(s) \cup {slot}) = Cardinality(Cached(s))
          BY <5>2, FS_AddElement
        <5>4. QED
          BY <2>6, <5>1, <5>3
      <4>2. /\ Cardinality(Waiting(s)) \in Nat /\ Cardinality(Cached(s)) \in Nat
            /\ Cardinality(Cached(s)) <= Cardinality(Waiting(s))
        BY <1>1, <3>1, <3>3, CachedType
      <4>3. Cardinality(Cached(s)') <= Cardinality(Waiting(s)')
        BY <4>1, <4>2
      <4>4. QED
        BY <3>3, <4>3
    <3>4. QED
      BY <3>2, <3>3
  <2>8. QED
    BY <1>9, <1>10, <2>5, <2>7 DEF ChannelsInv, NoCacheLeak, Waiting
<1>13. QED
  BY <1>11, <1>12

\* A packet leaves the window of its channel and takes a frame along.
LEMMA ReleaseStep ==
  ASSUME SenderOK, NoCacheLeak, NEW c \in Reliable, NEW s, RemoveCached(s),
         retries' = [retries EXCEPT ![c] = Restrict(retries[c], Pending(c) \ {s})],
         expired' = expired \ {<<c, s>>}, lastPolled' \in Channels,
         nextTxSeq' = nextTxSeq, dataNet' = dataNet
  PROVE  SenderOK' /\ NoCacheLeak'
<1>1. \A d \in Reliable :
        Pending(d)' = IF d = c THEN Pending(d) \ {s} ELSE Pending(d)
  BY DEF SenderOK, Pending, Restrict
<1>2. ASSUME NEW d \in Reliable
      PROVE  /\ Pending(d)' \subseteq 0 .. nextTxSeq'[d] - 1
             /\ Cardinality(Pending(d)') <= MaxPending
  <2>1. Pending(d)' \subseteq Pending(d) /\ Pending(d) \subseteq 0 .. nextTxSeq[d] - 1
    BY <1>1 DEF SenderOK
  <2>2. IsFiniteSet(Pending(d))
    <3>1. nextTxSeq[d] - 1 \in Int
      BY DEF SenderOK
    <3>2. IsFiniteSet(0 .. nextTxSeq[d] - 1)
      BY <3>1, FS_Interval
    <3>3. QED
      BY <2>1, <3>2, FS_Subset
  <2>3. /\ Cardinality(Pending(d)') <= Cardinality(Pending(d))
        /\ Cardinality(Pending(d)') \in Nat /\ Cardinality(Pending(d)) \in Nat
    BY <2>1, <2>2, FS_Subset, FS_CardinalityType
  <2>4. Cardinality(Pending(d)) <= MaxPending
    BY DEF SenderOK
  <2>5. Cardinality(Pending(d)') <= MaxPending
    BY <2>3, <2>4, ConstantFacts
  <2>6. QED
    BY <2>1, <2>5
<1>3. \A p \in expired' : p \in Reliable \X SeqId /\ p[2] \in Pending(p[1])'
  BY <1>1 DEF SenderOK
<1>4. DOMAIN retries' = Reliable
  BY DEF SenderOK
<1>5. /\ DOMAIN txCache' \subseteq 1 .. TxCacheSize
      /\ \A i \in DOMAIN txCache' : txCache'[i] \in [seq : SeqId, load : Load]
  BY RemoveCachedFacts DEF SenderOK
<1>6. SenderOK'
  BY <1>2, <1>3, <1>4, <1>5 DEF SenderOK
<1>7. \A t : Waiting(t)' = IF t = s THEN Waiting(t) \ {c} ELSE Waiting(t)
  BY <1>1 DEF Waiting
<1>8. QED
  BY <1>6, <1>7, NoLeakOnRemove

LEMMA ReceiveAckStep == ASSUME ChannelsInv, ReceiveAck PROVE ChannelsInv'
<1>1. PICK a \in ackNet :
        /\ Settle(a.chan, a.seq) /\ RemoveCached(a.seq)
        /\ UNCHANGED <<nextTxSeq, lastPolled, receiverVars, dataNet, ackNet>>
  BY DEF ReceiveAck
<1> DEFINE c == a.chan
           s == a.seq
<1>2. c \in Reliable
  BY DEF ChannelsInv, ReceiverOK
<1>3. /\ SenderOK /\ NoCacheLeak /\ ReceiverOK /\ WaiterFirst
      /\ lastPolled' = lastPolled /\ lastPolled \in Channels
  BY <1>1 DEF ChannelsInv, SenderOK
<1>4. /\ retries' = [retries EXCEPT ![c] = Restrict(retries[c], Pending(c) \ {s})]
      /\ expired' = expired \ {<<c, s>>}
      /\ overtaken' = IF \E t \in SeqId : <<c, t>> \in expired' THEN overtaken
                      ELSE {p \in overtaken : p[1] # c}
  BY <1>1 DEF Settle
<1>5. SenderOK' /\ NoCacheLeak'
  BY <1>1, <1>2, <1>3, <1>4, ReleaseStep
<1>6. ReceiverOK'
  BY <1>1, <1>3, ReceiverUnchanged
<1>7. WaiterFirst'
  <2> SUFFICES ASSUME NEW p \in overtaken'
               PROVE  /\ p \in Reliable \X Reliable /\ Ready(p[1])'
                      /\ ScanPlace(p[1])' < ScanPlace(p[2])'
    BY DEF WaiterFirst
  <2>1. /\ p \in overtaken /\ (p[1] = c => Ready(c)')
    BY <1>4 DEF Ready
  <2>2. /\ p \in Reliable \X Reliable /\ Ready(p[1])
        /\ ScanPlace(p[1]) < ScanPlace(p[2])
    BY <1>3, <2>1 DEF WaiterFirst
  <2>3. Ready(p[1])'
    BY <1>4, <2>1, <2>2 DEF Ready
  <2>4. ScanPlace(p[1])' < ScanPlace(p[2])'
    BY <1>3, <2>2 DEF ScanPlace
  <2>5. QED
    BY <2>2, <2>3, <2>4
<1>8. QED
  BY <1>5, <1>6, <1>7 DEF ChannelsInv

LEMMA ExpireStep ==
  ASSUME ChannelsInv, NEW c \in Reliable, NEW s \in SeqId, Expire(c, s)
  PROVE  ChannelsInv'
<1>1. /\ SenderOK /\ NoCacheLeak /\ ReceiverOK /\ WaiterFirst
      /\ expired' = expired \cup {<<c, s>>} /\ s \in Pending(c)
      /\ UNCHANGED <<nextTxSeq, retries, txCache, lastPolled, overtaken,
                     receiverVars, dataNet, ackNet>>
  BY DEF ChannelsInv, Expire
<1>2. \A d \in Reliable : Pending(d)' = Pending(d)
  BY <1>1 DEF Pending
<1>3. \A p \in expired' : p \in Reliable \X SeqId /\ p[2] \in Pending(p[1])'
  BY <1>1, <1>2 DEF SenderOK
<1>4. SenderOK'
  BY <1>1, <1>2, <1>3 DEF SenderOK
<1>5. NoCacheLeak'
  BY <1>1, <1>2, NoLeakUnchanged
<1>6. WaiterFirst'
  BY <1>1 DEF WaiterFirst, Ready, ScanPlace
<1>7. ReceiverOK'
  BY <1>1, ReceiverUnchanged
<1>8. QED
  BY <1>4, <1>5, <1>6, <1>7 DEF ChannelsInv

\* Whoever waits while a channel is served stands before it afterwards.
LEMMA OvertakeStep ==
  ASSUME ChannelsInv, NEW c, NEW s, Scheduled(c), expired' = expired \ {<<c, s>>},
         lastPolled' = c, Overtake(c)
  PROVE  WaiterFirst' /\ c \in Reliable /\ c \in Channels
<1>1. /\ c \in Reliable /\ Reliable \subseteq Channels
      /\ WaiterFirst /\ lastPolled \in Channels
      /\ \A d \in Reliable : Ready(d) => ScanPlace(c) <= ScanPlace(d)
  BY ChannelsAssumption DEF Scheduled, ChannelsInv, SenderOK
<1>2. overtaken' = {p \in overtaken : p[1] # c}
                     \cup {<<d, c>> : d \in {d \in Reliable \ {c} : Ready(d)}}
  BY DEF Overtake
<1>3. \A d \in Reliable : d # c /\ Ready(d) => Ready(d)'
  BY DEF Ready
<1>4. ASSUME NEW p \in overtaken, p[1] # c
      PROVE  /\ p \in Reliable \X Reliable /\ Ready(p[1])'
             /\ ScanPlace(p[1])' < ScanPlace(p[2])'
  <2>1. PICK d \in Reliable, e \in Reliable : p = <<d, e>>
    BY <1>1 DEF WaiterFirst
  <2>2. Ready(d) /\ ScanPlace(d) < ScanPlace(e) /\ d # c
    BY <1>1, <1>4, <2>1 DEF WaiterFirst
  <2>3. ScanPlace(d)' < ScanPlace(e)'
    BY <1>1, <2>2, ScanShift
  <2>4. QED
    BY <1>3, <2>1, <2>2, <2>3
<1>5. ASSUME NEW d \in Reliable \ {c}, Ready(d)
      PROVE  Ready(d)' /\ ScanPlace(d)' < ScanPlace(c)'
  BY <1>1, <1>3, <1>5, ScanShift
<1>6. ASSUME NEW p \in overtaken'
      PROVE  /\ p \in Reliable \X Reliable /\ Ready(p[1])'
             /\ ScanPlace(p[1])' < ScanPlace(p[2])'
  <2>1. CASE p \in overtaken /\ p[1] # c
    BY <1>4, <2>1
  <2>2. CASE \E d \in Reliable \ {c} : Ready(d) /\ p = <<d, c>>
    BY <1>1, <1>5, <2>2
  <2>3. QED
    BY <1>2, <2>1, <2>2
<1>7. QED
  BY <1>1, <1>6 DEF WaiterFirst

LEMMA PollRetransmitStep ==
  ASSUME ChannelsInv, NEW c \in Reliable, NEW s \in SeqId, PollRetransmit(c, s)
  PROVE  ChannelsInv'
<1>1. /\ SenderOK /\ NoCacheLeak /\ ReceiverOK
      /\ retries' = [retries EXCEPT ![c] = [retries[c] EXCEPT ![s] = retries[c][s] + 1]]
      /\ expired' = expired \ {<<c, s>>}
      /\ UNCHANGED <<nextTxSeq, txCache, receiverVars, ackNet>>
  BY DEF ChannelsInv, PollRetransmit
<1>2. WaiterFirst' /\ c \in Channels
  BY OvertakeStep DEF PollRetransmit
<1>3. /\ DOMAIN retries' = Reliable
      /\ \A d \in Reliable : Pending(d)' = Pending(d)
  BY <1>1 DEF SenderOK, Pending
<1>4. dataNet' \subseteq [chan : Reliable, seq : SeqId, load : Load]
  <2>1. CASE Cached(s) = {}
    BY <1>1, <2>1 DEF PollRetransmit, SenderOK
  <2>2. CASE Cached(s) # {}
    <3>1. PICK i \in Cached(s) : i = Min(Cached(s))
      BY <1>1, <2>2, CachedType, MinType
    <3>2. txCache[i].load \in Load
      BY <1>1 DEF SenderOK, Cached
    <3>3. dataNet' = dataNet \cup {[chan |-> c, seq |-> s, load |-> txCache[i].load]}
      BY <2>2, <3>1 DEF PollRetransmit
    <3>4. QED
      BY <1>1, <3>2, <3>3 DEF SenderOK
  <2>3. QED
    BY <2>1, <2>2
<1>5. SenderOK'
  BY <1>1, <1>2, <1>3, <1>4 DEF SenderOK, PollRetransmit
<1>6. NoCacheLeak' /\ ReceiverOK'
  BY <1>1, <1>3, NoLeakUnchanged, ReceiverUnchanged
<1>7. QED
  BY <1>2, <1>5, <1>6 DEF ChannelsInv

LEMMA PollFailedStep ==
  ASSUME ChannelsInv, NEW c \in Reliable, NEW s \in SeqId, PollFailed(c, s)
  PROVE  ChannelsInv'
<1>1. /\ SenderOK /\ NoCacheLeak /\ ReceiverOK
      /\ retries' = [retries EXCEPT ![c] = Restrict(retries[c], Pending(c) \ {s})]
      /\ expired' = expired \ {<<c, s>>}
      /\ RemoveCached(s) /\ lastPolled' = c
      /\ UNCHANGED <<nextTxSeq, receiverVars, dataNet, ackNet>>
  BY DEF ChannelsInv, PollFailed
<1>2. WaiterFirst' /\ c \in Channels
  BY OvertakeStep DEF PollFailed
<1>3. SenderOK' /\ NoCacheLeak'
  BY <1>1, <1>2, ReleaseStep
<1>4. ReceiverOK'
  BY <1>1, ReceiverUnchanged
<1>5. QED
  BY <1>2, <1>3, <1>4 DEF ChannelsInv

-----------------------------------------------------------------------------
(* The steps of the node that receives.                                    *)

CacheOK(cache) ==
    /\ DOMAIN cache \subseteq SeqId /\ Cardinality(DOMAIN cache) <= RxCacheSize
    /\ \A s \in DOMAIN cache : cache[s] \in Load

\* The look for a free slot keeps the receive cache within its size.
LEMMA CacheOnArrivalType ==
  ASSUME ReceiverOK, NEW f \in [chan : Reliable, seq : SeqId, load : Load]
  PROVE  CacheOK(CacheOnArrival(f))
<1>1. f.seq \in SeqId /\ f.load \in Load
  OBVIOUS
<1>2. CASE f.seq \in DOMAIN rxCache \/ Cardinality(DOMAIN rxCache) >= RxCacheSize
  BY <1>2 DEF CacheOnArrival, CacheOK, ReceiverOK
<1>3. CASE ~(f.seq \in DOMAIN rxCache \/ Cardinality(DOMAIN rxCache) >= RxCacheSize)
  <2>1. CacheOnArrival(f) = With(rxCache, f.seq, f.load)
    BY <1>3 DEF CacheOnArrival
  <2>2. DOMAIN With(rxCache, f.seq, f.load) = DOMAIN rxCache \cup {f.seq}
    BY DEF With
  <2>3. IsFiniteSet(DOMAIN rxCache) /\ Cardinality(DOMAIN rxCache) \in Nat
    BY IdsFinite DEF ReceiverOK
  <2>4. Cardinality(DOMAIN rxCache \cup {f.seq}) = Cardinality(DOMAIN rxCache) + 1
    BY <1>3, <2>3, FS_AddElement
  <2>5. Cardinality(DOMAIN rxCache) + 1 <= RxCacheSize
    BY <1>3, <2>3, ConstantFacts
  <2>6. /\ DOMAIN rxCache \cup {f.seq} \subseteq SeqId
        /\ \A s \in DOMAIN rxCache \cup {f.seq} : With(rxCache, f.seq, f.load)[s] \in Load
    BY <1>1 DEF ReceiverOK, With
  <2>7. QED
    BY <2>1, <2>2, <2>4, <2>5, <2>6 DEF CacheOK
<1>4. QED
  BY <1>2, <1>3

\* A delivery keeps to the types, whatever set of ids it takes along.
LEMMA DeliverType ==
  ASSUME ReceiverOK, NEW c \in Reliable, NEW S, NEW e \in SeqId, NEW cache,
         CacheOK(cache), Deliver(c, S, e, cache), DOMAIN reorder' = Reliable,
         \A d \in Reliable : /\ reorder'[d] \subseteq SeqId
                             /\ Cardinality(reorder'[d]) <= MaxReorder
  PROVE  ReceiverOK'
<1>1. DOMAIN expected' \subseteq Reliable /\ \A d \in DOMAIN expected' : expected'[d] \in SeqId
  BY DEF Deliver, ReceiverOK
<1>2. handed' \subseteq Reliable \X Load
  BY DEF Deliver, ReceiverOK, CacheOK
<1>3. SeqPrev(e) \in SeqId
  BY ConstantFacts DEF SeqPrev, SeqDiff, SeqId
<1>4. ackNet' \subseteq [chan : Reliable, seq : SeqId]
  BY <1>3 DEF Deliver, ReceiverOK
<1>5. rxCache' = [x \in DOMAIN cache \ S |-> cache[x]]
  BY DEF Deliver, Restrict
<1>6. CacheOK(rxCache')
  <2>1. DOMAIN rxCache' \subseteq DOMAIN cache
    BY <1>5
  <2>2. IsFiniteSet(DOMAIN cache) /\ Cardinality(DOMAIN cache) \in Nat
    BY IdsFinite DEF CacheOK
  <2>3. /\ Cardinality(DOMAIN rxCache') <= Cardinality(DOMAIN cache)
        /\ Cardinality(DOMAIN rxCache') \in Nat
    BY <2>1, <2>2, FS_Subset, FS_CardinalityType
  <2>4. Cardinality(DOMAIN rxCache') <= RxCacheSize
    <3>1. Cardinality(DOMAIN cache) <= RxCacheSize
      BY DEF CacheOK
    <3>2. QED
      BY <2>2, <2>3, <3>1, ConstantFacts
  <2>5. QED
    BY <1>5, <2>1, <2>4 DEF CacheOK
<1>7. QED
  BY <1>1, <1>2, <1>4, <1>6 DEF ReceiverOK, CacheOK

LEMMA ReceiveDataStep == ASSUME ChannelsInv, ReceiveData PROVE ChannelsInv'
<1>1. PICK f \in dataNet :
        /\ ReceiveFirst(f) \/ ReceiveExpected(f) \/ ReceiveOther(f)
        /\ UNCHANGED <<senderVars, dataNet>>
  BY DEF ReceiveData
<1>2. /\ SenderOK /\ ReceiverOK /\ NoCacheLeak /\ WaiterFirst
      /\ f \in [chan : Reliable, seq : SeqId, load : Load]
  BY DEF ChannelsInv, SenderOK
<1>3. f.chan \in Reliable /\ f.seq \in SeqId /\ CacheOK(CacheOnArrival(f))
  BY <1>2, CacheOnArrivalType
<1>4. UNCHANGED <<nextTxSeq, retries, expired, txCache, lastPolled, overtaken, dataNet>>
  BY <1>1 DEF senderVars
<1>5. \A c \in Reliable : Pending(c)' = Pending(c)
  BY <1>4 DEF Pending
<1>6. SenderOK'
  BY <1>2, <1>4, <1>5 DEF SenderOK
<1>7. NoCacheLeak'
  BY <1>2, <1>4, <1>5, NoLeakUnchanged
<1>8. WaiterFirst'
  BY <1>2, <1>4 DEF WaiterFirst, Ready, ScanPlace
<1>9. \A n \in 0 .. MaxReorder + 1 : SeqAdd(f.seq, n) \in SeqId
  BY <1>3, ConstantFacts DEF SeqAdd, SeqId
<1>10. ASSUME ReceiveFirst(f) PROVE ReceiverOK'
  <2>1. SeqNext(f.seq) \in SeqId
    BY <1>9, ConstantFacts DEF SeqNext
  <2>2. QED
    BY <1>2, <1>3, <1>10, <2>1, DeliverType DEF ReceiveFirst, ReceiverOK
<1>11. ASSUME ReceiveExpected(f) PROVE ReceiverOK'
  <2>1. PICK n \in 0 .. MaxReorder : n = RunLength(f.chan, f.seq)
    BY RunLengthType
  <2>2. PICK run : run = {SeqAdd(f.seq, i) : i \in 0 .. n}
    OBVIOUS
  <2>3. /\ Deliver(f.chan, run, SeqAdd(f.seq, n + 1), CacheOnArrival(f))
        /\ reorder' = [reorder EXCEPT ![f.chan] = reorder[f.chan] \ run]
    BY <1>11, <2>1, <2>2 DEF ReceiveExpected
  <2>4. SeqAdd(f.seq, n + 1) \in SeqId
    BY <1>9, ConstantFacts
  <2>5. DOMAIN reorder' = Reliable
    BY <1>2, <2>3 DEF ReceiverOK
  <2>6. ASSUME NEW d \in Reliable
        PROVE  reorder'[d] \subseteq SeqId /\ Cardinality(reorder'[d]) <= MaxReorder
    <3>1. reorder'[d] \subseteq reorder[d] /\ reorder[d] \subseteq SeqId
      BY <1>2, <2>3 DEF ReceiverOK
    <3>2. /\ Cardinality(reorder'[d]) <= Cardinality(reorder[d])
          /\ Cardinality(reorder'[d]) \in Nat /\ Cardinality(reorder[d]) \in Nat
      BY <3>1, IdsFinite, FS_Subset
    <3>3. Cardinality(reorder[d]) <= MaxReorder
      BY <1>2 DEF ReceiverOK
    <3>4. Cardinality(reorder'[d]) <= MaxReorder
      BY <3>2, <3>3, ConstantFacts
    <3>5. QED
      BY <3>1, <3>4
  <2>7. QED
    BY <1>2, <1>3, <2>3, <2>4, <2>5, <2>6, DeliverType
<1>12. ASSUME ReceiveOther(f) PROVE ReceiverOK'
  <2>1. /\ Deliver(f.chan, {}, expected[f.chan], CacheOnArrival(f))
        /\ expected[f.chan] \in SeqId
    BY <1>2, <1>12 DEF ReceiveOther, ReceiverOK
  <2>2. \/ reorder' = reorder
        \/ /\ Cardinality(reorder[f.chan]) < MaxReorder
           /\ reorder' = [reorder EXCEPT ![f.chan] = reorder[f.chan] \cup {f.seq}]
    BY <1>12 DEF ReceiveOther
  <2>3. DOMAIN reorder' = Reliable
    BY <1>2, <2>2 DEF ReceiverOK
  <2>4. ASSUME NEW d \in Reliable
        PROVE  reorder'[d] \subseteq SeqId /\ Cardinality(reorder'[d]) <= MaxReorder
    <3>1. CASE reorder'[d] = reorder[d]
      BY <1>2, <3>1 DEF ReceiverOK
    <3>2. CASE /\ Cardinality(reorder[d]) < MaxReorder
               /\ reorder'[d] = reorder[d] \cup {f.seq}
      <4>1. reorder[d] \subseteq SeqId
        BY <1>2 DEF ReceiverOK
      <4>2. IsFiniteSet(reorder[d]) /\ Cardinality(reorder[d]) \in Nat
        BY <4>1, IdsFinite
      <4>3. \/ Cardinality(reorder[d] \cup {f.seq}) = Cardinality(reorder[d]) + 1
            \/ Cardinality(reorder[d] \cup {f.seq}) = Cardinality(reorder[d])
        BY <4>2, FS_AddElement
      <4>4. QED
        BY <1>3, <3>2, <4>1, <4>2, <4>3, ConstantFacts
    <3>3. QED
      BY <1>2, <2>2, <3>1, <3>2 DEF ReceiverOK
  <2>5. QED
    BY <1>2, <1>3, <2>1, <2>3, <2>4, DeliverType
<1>13. QED
  BY <1>1, <1>6, <1>7, <1>8, <1>10, <1>11, <1>12 DEF ChannelsInv

-----------------------------------------------------------------------------
(* The inductive invariant and the properties.                             *)

LEMMA ChannelsInvInit == ChannelsInit => ChannelsInv
<1> SUFFICES ASSUME ChannelsInit PROVE ChannelsInv
  OBVIOUS
<1>1. Cardinality({}) = 0 /\ IsFiniteSet({})
  BY FS_EmptySet
<1>2. \A c \in Reliable : Pending(c) = {}
  BY DEF ChannelsInit, Pending
<1>3. 0 \in Channels
  BY ConstantFacts DEF Channels
<1>4. SenderOK
  <2>1. nextTxSeq \in [Reliable -> 0 .. MaxPackets]
    BY ConstantFacts DEF ChannelsInit
  <2>2. \A c \in Reliable : /\ Pending(c) \subseteq 0 .. nextTxSeq[c] - 1
                            /\ Cardinality(Pending(c)) <= MaxPending
    <3>1. 0 <= MaxPending
      BY ConstantFacts
    <3>2. ASSUME NEW c \in Reliable PROVE Cardinality(Pending(c)) <= MaxPending
      <4>1. Cardinality(Pending(c)) = 0
        BY <1>1, <1>2
      <4>2. QED
        BY <3>1, <4>1
    <3>3. QED
      BY <1>2, <3>2
  <2>3. DOMAIN retries = Reliable /\ DOMAIN txCache = {}
    BY DEF ChannelsInit
  <2>4. expired = {} /\ dataNet = {} /\ lastPolled \in Channels
    BY <1>3 DEF ChannelsInit
  <2>5. QED
    BY <2>1, <2>2, <2>3, <2>4 DEF SenderOK
<1>5. ReceiverOK
  BY <1>1, ConstantFacts DEF ChannelsInit, ReceiverOK
<1>6. ASSUME NEW s PROVE Cardinality(Cached(s)) <= Cardinality(Waiting(s))
  <2>1. Cached(s) = {}
    BY DEF ChannelsInit, Cached
  <2>2. QED
    BY <1>1, <2>1, WaitingFinite
<1>7. WaiterFirst
  BY DEF ChannelsInit, WaiterFirst
<1>8. QED
  BY <1>4, <1>5, <1>6, <1>7 DEF ChannelsInv, NoCacheLeak, Waiting

LEMMA ChannelsInvNext == ChannelsInv /\ [ChannelsNext]_channelsVars => ChannelsInv'
<1> SUFFICES ASSUME ChannelsInv, [ChannelsNext]_channelsVars PROVE ChannelsInv'
  OBVIOUS
<1>1. ASSUME NEW c \in Reliable, Send(c) PROVE ChannelsInv'
  BY <1>1, SendStep
<1>2. CASE ReceiveAck
  BY <1>2, ReceiveAckStep
<1>3. ASSUME NEW c \in Reliable, NEW s \in SeqId,
             Expire(c, s) \/ PollRetransmit(c, s) \/ PollFailed(c, s)
      PROVE  ChannelsInv'
  BY <1>3, ExpireStep, PollRetransmitStep, PollFailedStep
<1>4. CASE ReceiveData
  BY <1>4, ReceiveDataStep
<1>5. CASE UNCHANGED channelsVars
  <2>1. /\ UNCHANGED <<nextTxSeq, retries, expired, txCache, lastPolled, overtaken, dataNet>>
        /\ UNCHANGED <<receiverVars, ackNet>>
    BY <1>5 DEF channelsVars, senderVars
  <2>2. \A c \in Reliable : Pending(c)' = Pending(c)
    BY <2>1 DEF Pending
  <2>3. SenderOK' /\ ReceiverOK'
    BY <2>1, <2>2, ReceiverUnchanged DEF ChannelsInv, SenderOK
  <2>4. NoCacheLeak' /\ WaiterFirst'
    BY <2>1, <2>2, NoLeakUnchanged DEF ChannelsInv, WaiterFirst, Ready, ScanPlace
  <2>5. QED
    BY <2>3, <2>4 DEF ChannelsInv
<1>6. QED
  BY <1>1, <1>2, <1>3, <1>4, <1>5 DEF ChannelsNext

\* The inductive invariant holds of every execution.
THEOREM ChannelsInvariant == ChannelsSpec => []ChannelsInv
<1>1. ChannelsInit => ChannelsInv
  BY ChannelsInvInit
<1>2. ChannelsInv /\ [ChannelsNext]_channelsVars => ChannelsInv'
  BY ChannelsInvNext
<1>3. QED
  BY <1>1, <1>2, PTL DEF ChannelsSpec

\* What the channels share stays within its tables, and a running timer
\* always belongs to a pending packet.
THEOREM ChannelsTypeCorrect == ChannelsSpec => []ChannelsTypeOK
<1>1. ChannelsInv => ChannelsTypeOK
  <2> SUFFICES ASSUME ChannelsInv PROVE ChannelsTypeOK
    OBVIOUS
  <2>1. ASSUME NEW c \in Reliable PROVE nextTxSeq[c] \in SeqId /\ Pending(c) \subseteq SeqId
    <3>1. nextTxSeq[c] \in 0 .. MaxPackets /\ Pending(c) \subseteq 0 .. nextTxSeq[c] - 1
      BY DEF ChannelsInv, SenderOK
    <3>2. QED
      BY <3>1, ConstantFacts DEF SeqId
  <2>2. QED
    BY <2>1 DEF ChannelsInv, SenderOK, ReceiverOK, ChannelsTypeOK
<1>2. QED
  BY <1>1, ChannelsInvariant, PTL

\* Of the frames that tx_cache keeps under one id there are never more than
\* channels waiting for that id, although the channels take away one
\* another's frames.
THEOREM ChannelsNoCacheLeak == ChannelsSpec => []NoCacheLeak
<1>1. ChannelsInv => NoCacheLeak
  BY DEF ChannelsInv
<1>2. QED
  BY <1>1, ChannelsInvariant, PTL

\* While a channel has an expired packet, relinow_state_scheduler_next serves
\* no other channel twice.
THEOREM ChannelsNoDoubleOvertake == ChannelsSpec => NoDoubleOvertake
<1> DEFINE Fair == \A c, d \in Reliable : \A s \in SeqId :
                     c # d /\ Ready(c) /\ (PollRetransmit(d, s) \/ PollFailed(d, s))
                       => <<c, d>> \notin overtaken
<1>1. ChannelsInv => Fair
  <2> SUFFICES ASSUME ChannelsInv, NEW c \in Reliable, NEW d \in Reliable, NEW s \in SeqId,
                      Ready(c), PollRetransmit(d, s) \/ PollFailed(d, s),
                      <<c, d>> \in overtaken
               PROVE  FALSE
    OBVIOUS
  <2>1. ScanPlace(d) <= ScanPlace(c)
    BY DEF PollRetransmit, PollFailed, Scheduled
  <2>2. ScanPlace(c) < ScanPlace(d)
    BY DEF ChannelsInv, WaiterFirst
  <2>3. ScanPlace(c) \in Int /\ ScanPlace(d) \in Int
    <3>1. /\ lastPolled \in Channels /\ c \in Channels /\ d \in Channels
          /\ NumChannels \in Nat /\ \A x \in Channels : x \in Nat
      BY ChannelsAssumption DEF ChannelsInv, SenderOK, Channels
    <3>2. QED
      BY <3>1, ScanIs DEF ScanPlace
  <2>4. QED
    BY <2>1, <2>2, <2>3
<1>2. QED
  BY <1>1, ChannelsInvariant, PTL DEF ChannelsSpec, NoDoubleOvertake
=============================================================================
