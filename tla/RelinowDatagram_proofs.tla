------------------------ MODULE RelinowDatagram_proofs ------------------------
(***************************************************************************)
(* Theorems about the UNRELIABLE and PRIORITY modes, for every width of    *)
(* the sequence ids, any number of frames and every order of arrival that  *)
(* stays within the radio's reach.                                         *)
(*                                                                         *)
(* The inductive invariant DatagramInv ties ids to numbers without         *)
(* counting laps: two frames less than a lap apart have ids that differ by *)
(* the difference of their numbers (Numbered).  The newest id that the     *)
(* receiver keeps is that of the frame with the greatest number received   *)
(* (NewestKept), hence, within reach, newer as an id is newer as a number. *)
(***************************************************************************)
EXTENDS RelinowDatagram, FiniteSetTheorems, TLAPS

Numbered ==
    /\ IsFiniteSet(air)
    /\ Cardinality(air) <= MaxFrames
    /\ nextTxSeq \in SeqId
    /\ air \subseteq [seq : SeqId, num : 0 .. Cardinality(air) - 1]
    /\ \A f, g \in air :
          g.num <= f.num /\ f.num - g.num < SeqSpace
            => f.seq = SeqAdd(g.seq, f.num - g.num)
    /\ \A g \in air :
          Cardinality(air) - g.num <= SeqSpace
            => nextTxSeq = SeqAdd(g.seq, Cardinality(air) - g.num)

IsLatest(f) ==
    /\ f \in air /\ f.num \in received
    /\ \A n \in received : n <= f.num
    /\ expectedRxSeq = <<f.seq>>

NewestKept ==
    /\ received = {} => expectedRxSeq = <<>> /\ totalLost = 0 /\ handed = {}
    /\ received # {} => \E f \in air : IsLatest(f)
    /\ received \subseteq 0 .. Cardinality(air) - 1
    /\ IsFiniteSet(received)
    /\ received # {} => first \in received

Counted ==
    /\ mode \in {"UNRELIABLE", "PRIORITY"}
    /\ calls \in 0 .. MaxArrivals
    /\ totalRx \in Nat /\ totalRx <= calls
    /\ totalLost \in Nat
    /\ handed \subseteq received
    /\ inflight = <<>> \/ (mode = "PRIORITY" /\ inflight[1] \in SeqId)
    /\ mode = "PRIORITY" =>
          /\ totalLost = 0
          /\ received # {} => \E f \in air : IsLatest(f) /\ f.num \in handed

DatagramInv == Numbered /\ NewestKept /\ Counted /\ LossesBounded

-----------------------------------------------------------------------------
\* What Max of the community module returns.
LEMMA MaxIs ==
  ASSUME NEW S, NEW m \in S, \A n \in S : n \in Nat /\ n <= m
  PROVE  Max(S) = m
<1>1. \A x \in S : (\A y \in S : x >= y) => x = m
  OBVIOUS
<1>2. \A y \in S : m >= y
  OBVIOUS
<1>3. QED
  BY <1>1, <1>2 DEF Max

\* The latest frame has the greatest number received.
LEMMA LatestIsMax ==
  ASSUME NewestKept, NEW f, IsLatest(f)
  PROVE  Max(received) = f.num
<1>1. \A n \in received : n \in Nat /\ n <= f.num
  BY DEF NewestKept, IsLatest
<1>2. f.num \in received
  BY DEF IsLatest
<1>3. QED
  BY <1>1, <1>2, MaxIs

\* Within reach, serial arithmetic is the arithmetic of the numbers: newer as
\* an id is later in the order of sending, and the ids are as far apart as
\* the numbers.
LEMMA NewerIsLater ==
  ASSUME Numbered, NewestKept, NEW f \in air, InReach(f), received # {}, NEW g, IsLatest(g)
  PROVE  /\ f.num \in Nat /\ g.num \in Nat
         /\ IsNewest(f.seq) <=> f.num > g.num
         /\ f.num > g.num => LossShownBy(f.seq) = f.num - g.num
<1>1. Max(received) = g.num
  BY LatestIsMax
<1>2. /\ g \in air /\ expectedRxSeq = <<g.seq>> /\ expectedRxSeq # <<>>
      /\ expectedRxSeq[1] = g.seq
  BY DEF IsLatest
<1>3. Cardinality(air) \in Nat
  BY FS_CardinalityType DEF Numbered
<1>4. /\ f.num \in Nat /\ g.num \in Nat /\ f.seq \in SeqId /\ g.seq \in SeqId
      /\ SeqSpace \in Nat /\ SeqSpace >= 4
  BY <1>2, <1>3, SeqSpaceAssumption DEF Numbered
<1>5. 2 * f.num < 2 * g.num + SeqSpace /\ 2 * g.num <= 2 * f.num + SeqSpace
  BY <1>1 DEF InReach
<1>6. IsNewest(f.seq) <=> IsSeqNewer(f.seq, g.seq)
  BY <1>2 DEF IsNewest
<1>7. LossShownBy(f.seq) = SeqDiff(f.seq, g.seq)
  BY <1>2 DEF LossShownBy
<1>8. CASE g.num <= f.num
  <2>1. f.num - g.num < SeqSpace
    BY <1>4, <1>5, <1>8
  <2>2. f.seq = SeqAdd(g.seq, f.num - g.num)
    BY <1>2, <1>8, <2>1 DEF Numbered
  <2>3. SeqDiff(f.seq, g.seq) = f.num - g.num
    BY <1>4, <1>8, <2>1, <2>2 DEF SeqDiff, SeqAdd, SeqId
  <2>4. QED
    BY <1>4, <1>5, <1>6, <1>7, <1>8, <2>3 DEF IsSeqNewer
<1>9. CASE f.num < g.num
  <2>1. g.num - f.num < SeqSpace
    BY <1>4, <1>5, <1>9
  <2>2. g.seq = SeqAdd(f.seq, g.num - f.num)
    BY <1>2, <1>4, <1>9, <2>1 DEF Numbered
  <2>3. SeqDiff(f.seq, g.seq) = SeqSpace - (g.num - f.num)
    BY <1>4, <1>9, <2>1, <2>2 DEF SeqDiff, SeqAdd, SeqId
  <2>4. ~IsSeqNewer(f.seq, g.seq)
    BY <1>4, <1>5, <1>9, <2>3 DEF IsSeqNewer
  <2>5. QED
    BY <1>4, <1>6, <1>9, <2>4
<1>10. QED
  BY <1>4, <1>8, <1>9

-----------------------------------------------------------------------------
(* The inductive invariant.                                                *)

LEMMA DatagramInvInit == DatagramInit => DatagramInv
<1> SUFFICES ASSUME DatagramInit PROVE DatagramInv
  OBVIOUS
<1>1. IsFiniteSet({}) /\ Cardinality({}) = 0
  BY FS_EmptySet
<1>2. Numbered
  BY <1>1, SeqSpaceAssumption, DatagramAssumption DEF DatagramInit, Numbered, SeqId
<1>3. NewestKept
  BY <1>1 DEF DatagramInit, NewestKept
<1>4. Counted
  BY DatagramAssumption DEF DatagramInit, Counted
<1>5. LossesBounded
  BY DEF DatagramInit, LossesBounded
<1>6. QED
  BY <1>2, <1>3, <1>4, <1>5 DEF DatagramInv

\* Sending: the next id keeps step with the next number.
LEMMA SendInv == ASSUME DatagramInv, Send PROVE DatagramInv'
<1> DEFINE N == Cardinality(air)
           new == [seq |-> nextTxSeq, num |-> N]
<1>1. Numbered
  BY DEF DatagramInv
<1>2. /\ N \in Nat /\ nextTxSeq \in SeqId /\ SeqSpace \in Nat /\ SeqSpace >= 4
      /\ \A f \in air : f.num \in Nat /\ f.num < N /\ f.seq \in SeqId
  BY <1>1, FS_CardinalityType, SeqSpaceAssumption DEF Numbered
<1>3. new \notin air
  BY <1>2
<1>4. air' = air \cup {new} /\ N < MaxFrames /\ nextTxSeq' = SeqNext(nextTxSeq)
  BY DEF Send
<1>5. IsFiniteSet(air') /\ Cardinality(air') = N + 1
  BY <1>1, <1>3, <1>4, FS_AddElement DEF Numbered
<1>6. nextTxSeq' \in SeqId
  BY <1>2, <1>4 DEF SeqNext, SeqAdd, SeqId
<1>7. air' \subseteq [seq : SeqId, num : 0 .. N]
  BY <1>1, <1>2, <1>4 DEF Numbered
<1>8. ASSUME NEW f \in air', NEW g \in air', g.num <= f.num, f.num - g.num < SeqSpace
      PROVE  f.seq = SeqAdd(g.seq, f.num - g.num)
  <2>1. CASE f \in air /\ g \in air
    BY <1>1, <1>8, <2>1 DEF Numbered
  <2>2. CASE f = new /\ g \in air
    BY <1>1, <1>2, <1>8, <2>2 DEF Numbered
  <2>3. CASE f = new /\ g = new
    BY <1>2, <2>3 DEF SeqAdd, SeqId
  <2>4. CASE f \in air /\ g = new
    BY <1>2, <1>8, <2>4
  <2>5. QED
    BY <1>4, <2>1, <2>2, <2>3, <2>4
<1>9. ASSUME NEW g \in air', N + 1 - g.num <= SeqSpace
      PROVE  nextTxSeq' = SeqAdd(g.seq, N + 1 - g.num)
  <2>1. CASE g \in air
    <3>1. N - g.num < SeqSpace /\ N - g.num \in Nat
      BY <1>2, <1>9, <2>1
    <3>2. nextTxSeq = SeqAdd(g.seq, N - g.num)
      BY <1>1, <2>1, <3>1, <1>2 DEF Numbered
    <3>3. QED
      BY <1>2, <1>4, <2>1, <3>1, <3>2 DEF SeqNext, SeqAdd, SeqId
  <2>2. CASE g = new
    BY <1>2, <1>4, <2>2 DEF SeqNext
  <2>3. QED
    BY <1>4, <2>1, <2>2
<1>10. Numbered'
  BY <1>2, <1>4, <1>5, <1>6, <1>7, <1>8, <1>9, DatagramAssumption DEF Numbered
<1>11. UNCHANGED <<mode, expectedRxSeq, totalRx, totalLost, received, first, handed, calls>>
  BY DEF Send
<1>12. \A f \in air : IsLatest(f) => f \in air' /\ IsLatest(f)'
  BY <1>4, <1>11 DEF IsLatest
<1>13. NewestKept'
  BY <1>2, <1>4, <1>5, <1>11, <1>12 DEF DatagramInv, NewestKept
<1>14. inflight' = <<>> \/ (mode' = "PRIORITY" /\ inflight'[1] \in SeqId)
  BY <1>2, <1>11 DEF DatagramInv, Counted, Send
<1>15. Counted'
  BY <1>11, <1>12, <1>14 DEF DatagramInv, Counted
<1>16. LossesBounded'
  BY <1>11 DEF DatagramInv, LossesBounded
<1>17. QED
  BY <1>10, <1>13, <1>15, <1>16 DEF DatagramInv

\* The newest id kept follows a frame that is newer, and stays with the
\* latest frame when one comes late.
Follows(f) == expectedRxSeq' = IF IsNewest(f.seq) THEN <<f.seq>> ELSE expectedRxSeq

LEMMA ArriveLatest ==
  ASSUME DatagramInv, NEW f, Arrive(f), Follows(f)
  PROVE  /\ Numbered' /\ air' = air /\ f \in air
         /\ IsNewest(f.seq) => IsLatest(f)' /\ \A n \in received : n < f.num
         /\ ~IsNewest(f.seq) =>
               received # {} /\ (\A g \in air : IsLatest(g) => IsLatest(g)')
<1>1. /\ air' = air /\ nextTxSeq' = nextTxSeq /\ f \in air /\ InReach(f)
      /\ received' = received \cup {f.num}
  BY DEF Arrive, senderVars
<1>2. Numbered /\ NewestKept
  BY DEF DatagramInv
<1>3. Numbered'
  BY <1>1, <1>2 DEF Numbered
<1>4. /\ f.num \in Nat /\ \A n \in received : n \in Nat
  <2>1. Cardinality(air) \in Nat
    BY <1>2, FS_CardinalityType DEF Numbered
  <2>2. QED
    BY <1>1, <1>2, <2>1 DEF Numbered, NewestKept
<1>5. CASE received = {}
  <2>1. IsNewest(f.seq)
    BY <1>2, <1>5 DEF NewestKept, IsNewest
  <2>2. expectedRxSeq' = <<f.seq>>
    BY <2>1 DEF Follows
  <2>3. IsLatest(f)'
    BY <1>1, <1>4, <1>5, <2>2 DEF IsLatest
  <2>4. QED
    BY <1>1, <1>3, <1>5, <2>1, <2>3
<1>6. CASE received # {}
  <2>1. PICK g \in air : IsLatest(g)
    BY <1>2, <1>6 DEF NewestKept
  <2>2. /\ f.num \in Nat /\ g.num \in Nat
        /\ IsNewest(f.seq) <=> f.num > g.num
    BY <1>1, <1>2, <1>6, <2>1, NewerIsLater
  <2>3. \A n \in received : n <= g.num
    BY <2>1 DEF IsLatest
  <2>4. ASSUME IsNewest(f.seq) PROVE IsLatest(f)' /\ \A n \in received : n < f.num
    <3>1. \A n \in received : n < f.num
      BY <1>4, <2>2, <2>3, <2>4
    <3>2. expectedRxSeq' = <<f.seq>>
      BY <2>4 DEF Follows
    <3>3. QED
      BY <1>1, <1>4, <3>1, <3>2 DEF IsLatest
  <2>5. ASSUME ~IsNewest(f.seq), NEW h \in air, IsLatest(h) PROVE IsLatest(h)'
    <3>1. expectedRxSeq' = expectedRxSeq
      BY <2>5 DEF Follows
    <3>2. /\ h.num \in Nat /\ ~(f.num > h.num)
      BY <1>1, <1>2, <1>6, <2>5, NewerIsLater
    <3>3. f.num <= h.num
      BY <1>4, <3>2
    <3>4. QED
      BY <1>1, <2>5, <3>1, <3>3 DEF IsLatest
  <2>6. QED
    BY <1>1, <1>3, <1>6, <2>4, <2>5
<1>7. QED
  BY <1>5, <1>6

LEMMA ArriveKept ==
  ASSUME DatagramInv, NEW f, Arrive(f), Follows(f)
  PROVE  NewestKept'
<1>1. /\ Numbered /\ NewestKept /\ air' = air /\ f \in air
      /\ received' = received \cup {f.num}
      /\ first' = IF received = {} THEN f.num ELSE first
  BY ArriveLatest DEF DatagramInv, Arrive
<1>2. f.num \in 0 .. Cardinality(air) - 1
  BY <1>1 DEF Numbered
<1>3. \E g \in air' : IsLatest(g)'
  BY <1>1, ArriveLatest DEF NewestKept
<1>4. IsFiniteSet(received')
  BY <1>1, FS_AddElement DEF NewestKept
<1>5. first' \in received'
  BY <1>1 DEF NewestKept
<1>6. QED
  BY <1>1, <1>2, <1>3, <1>4, <1>5 DEF NewestKept

\* The frames that are missing between two numbers, and how many they are.
Missing(a, b, R) == (a .. b) \ R

LEMMA MissingType ==
  ASSUME NEW a \in Nat, NEW b \in Nat, NEW R
  PROVE  IsFiniteSet(Missing(a, b, R)) /\ Cardinality(Missing(a, b, R)) \in Nat
<1>1. IsFiniteSet(a .. b)
  BY FS_Interval
<1>2. IsFiniteSet(Missing(a, b, R))
  BY <1>1, FS_Difference DEF Missing
<1>3. QED
  BY <1>2, FS_CardinalityType

\* A late frame can only be one of the missing.
LEMMA MissingShrinks ==
  ASSUME NEW a \in Nat, NEW b \in Nat, NEW R, NEW n
  PROVE  Cardinality(Missing(a, b, R \cup {n})) <= Cardinality(Missing(a, b, R))
<1>1. Missing(a, b, R \cup {n}) \in SUBSET Missing(a, b, R)
  BY DEF Missing
<1>2. QED
  BY <1>1, MissingType, FS_Subset

\* A newer frame adds no more to the missing than the distance it skips.
LEMMA MissingGrows ==
  ASSUME NEW a \in Nat, NEW b \in Nat, NEW n \in Nat, NEW R, b < n, a <= b
  PROVE  Cardinality(Missing(a, n, R \cup {n}))
           <= Cardinality(Missing(a, b, R)) + (n - b)
<1> DEFINE old == Missing(a, b, R)
           gap == b + 1 .. n
           new == Missing(a, n, R \cup {n})
<1>1. new \subseteq old \cup gap
  BY DEF Missing
<1>2. IsFiniteSet(gap) /\ Cardinality(gap) = n - b
  BY FS_Interval
<1>3. IsFiniteSet(old) /\ Cardinality(old) \in Nat
  BY MissingType
<1>4. /\ IsFiniteSet(old \cup gap) /\ Cardinality(old \cup gap) <= Cardinality(old) + (n - b)
  <2>1. Cardinality(old \cap gap) \in Nat
    BY <1>3, FS_Intersection, FS_CardinalityType
  <2>2. /\ IsFiniteSet(old \cup gap)
        /\ Cardinality(old \cup gap) = Cardinality(old) + Cardinality(gap) - Cardinality(old \cap gap)
    BY <1>2, <1>3, FS_Union
  <2>3. QED
    BY <1>2, <1>3, <2>1, <2>2
<1>5. Cardinality(new) <= Cardinality(old \cup gap)
  BY <1>1, <1>4, FS_Subset
<1>6. Cardinality(new) \in Nat /\ Cardinality(old \cup gap) \in Nat
  BY <1>4, MissingType, FS_CardinalityType
<1>7. QED
  BY <1>3, <1>4, <1>5, <1>6

LEMMA ReceivePriorityInv ==
  ASSUME DatagramInv, NEW f \in air, ReceivePriority(f)
  PROVE  DatagramInv'
<1>1. /\ Arrive(f) /\ mode = "PRIORITY" /\ mode' = mode /\ inflight' = inflight
      /\ totalRx' = totalRx /\ totalLost' = totalLost /\ calls < MaxArrivals
      /\ received' = received \cup {f.num}
  BY DEF ReceivePriority, Arrive, senderVars
<1>2. Follows(f)
  BY DEF ReceivePriority, Follows
<1>3. Numbered' /\ NewestKept'
  BY <1>1, <1>2, ArriveLatest, ArriveKept
<1>4. \E g \in air' : IsLatest(g)' /\ g.num \in handed'
  <2>1. CASE IsNewest(f.seq)
    <3>1. IsLatest(f)' /\ air' = air
      BY <1>1, <1>2, <2>1, ArriveLatest
    <3>2. f.num \in handed'
      BY <2>1 DEF ReceivePriority, HandOver
    <3>3. QED
      BY <3>1, <3>2
  <2>2. CASE ~IsNewest(f.seq)
    <3>1. /\ received # {} /\ air' = air
          /\ \A g \in air : IsLatest(g) => IsLatest(g)'
      BY <1>1, <1>2, <2>2, ArriveLatest
    <3>2. handed' = handed
      BY <2>2 DEF ReceivePriority
    <3>3. PICK g \in air : IsLatest(g) /\ g.num \in handed
      BY <1>1, <3>1 DEF DatagramInv, Counted
    <3>4. QED
      BY <3>1, <3>2, <3>3
  <2>3. QED
    BY <2>1, <2>2
<1>5. calls' \in 0 .. MaxArrivals /\ totalRx' <= calls' /\ totalRx' \in Nat
  BY <1>1, DatagramAssumption DEF DatagramInv, Counted, ReceivePriority, HandOver
<1>6. handed' \subseteq received'
  BY <1>1 DEF DatagramInv, Counted, ReceivePriority, HandOver
<1>7. Counted'
  BY <1>1, <1>4, <1>5, <1>6 DEF DatagramInv, Counted
<1>8. LossesBounded'
  BY <1>1 DEF LossesBounded
<1>9. QED
  BY <1>3, <1>7, <1>8 DEF DatagramInv

LEMMA ReceiveUnreliableInv ==
  ASSUME DatagramInv, NEW f \in air, ReceiveUnreliable(f)
  PROVE  DatagramInv'
<1>1. /\ Arrive(f) /\ mode = "UNRELIABLE" /\ mode' = mode /\ inflight' = inflight
      /\ totalRx' = totalRx + 1 /\ calls < MaxArrivals /\ calls' = calls + 1
      /\ handed' = handed \cup {f.num}
      /\ received' = received \cup {f.num}
      /\ first' = IF received = {} THEN f.num ELSE first
  BY DEF ReceiveUnreliable, Arrive, HandOver, senderVars
<1>2. Follows(f)
  BY DEF ReceiveUnreliable, Follows
<1>3. Numbered' /\ NewestKept'
  BY <1>1, <1>2, ArriveLatest, ArriveKept
<1>4. /\ f.num \in Nat /\ totalLost \in Nat /\ Numbered /\ NewestKept
      /\ \A n \in received : n \in Nat
  <2>1. Numbered /\ NewestKept /\ totalLost \in Nat
    BY DEF DatagramInv, Counted
  <2>2. Cardinality(air) \in Nat
    BY <2>1, FS_CardinalityType DEF Numbered
  <2>3. QED
    BY <2>1, <2>2 DEF Numbered, NewestKept
<1>5. totalLost' \in Nat /\ LossesBounded'
  <2>1. CASE received = {}
    <3>1. expectedRxSeq = <<>> /\ IsNewest(f.seq) /\ totalLost = 0
      BY <1>4, <2>1 DEF NewestKept, IsNewest
    <3>2. totalLost' = 0
      BY <3>1 DEF ReceiveUnreliable, LossShownBy
    <3>3. received' = {f.num} /\ first' = f.num
      BY <1>1, <2>1
    <3>4. Max(received') = f.num
      BY <1>4, <3>3, MaxIs
    <3>5. (first' .. Max(received')) \ received' = {}
      BY <1>4, <3>3, <3>4
    <3>6. Cardinality((first' .. Max(received')) \ received') = 0
      BY <3>5, FS_EmptySet
    <3>7. totalLost' >= 0 /\ totalLost' <= Max(received') - first'
      BY <1>4, <3>2, <3>3, <3>4
    <3>8. QED
      BY <3>2, <3>6, <3>7 DEF LossesBounded
  <2>2. CASE received # {}
    <3>1. PICK g \in air : IsLatest(g)
      BY <1>4, <2>2 DEF NewestKept
    <3>2. /\ g.num \in Nat
          /\ IsNewest(f.seq) <=> f.num > g.num
          /\ f.num > g.num => LossShownBy(f.seq) = f.num - g.num
      BY <1>1, <1>4, <2>2, <3>1, NewerIsLater DEF Arrive
    <3>3. Max(received) = g.num
      BY <1>4, <3>1, LatestIsMax
    <3>4. /\ first' = first /\ first \in Nat /\ first <= g.num
      BY <1>1, <1>4, <2>2, <3>1 DEF NewestKept, IsLatest
    <3>5. /\ totalLost >= Cardinality(Missing(first, g.num, received))
          /\ totalLost <= g.num - first
      BY <1>1, <2>2, <3>3 DEF DatagramInv, LossesBounded, Missing
    <3>6. Cardinality(Missing(first, g.num, received)) \in Nat
      BY <3>2, <3>4, MissingType
    <3>7. CASE IsNewest(f.seq)
      <4>1. totalLost' = totalLost + (f.num - g.num)
        BY <3>2, <3>7 DEF ReceiveUnreliable
      <4>2. Max(received') = f.num
        <5>1. \A n \in received' : n \in Nat /\ n <= f.num
          BY <1>1, <1>2, <1>4, <3>7, ArriveLatest DEF IsLatest
        <5>2. QED
          BY <1>1, <5>1, MaxIs
      <4>3. Cardinality(Missing(first, f.num, received'))
              <= Cardinality(Missing(first, g.num, received)) + (f.num - g.num)
        BY <1>1, <1>4, <3>2, <3>4, <3>7, MissingGrows
      <4>4. Cardinality(Missing(first, f.num, received')) \in Nat
        BY <1>4, <3>4, MissingType
      <4>5. /\ totalLost' \in Nat
            /\ totalLost' >= Cardinality(Missing(first, f.num, received'))
            /\ totalLost' <= f.num - first
        BY <1>4, <3>2, <3>4, <3>5, <3>6, <3>7, <4>1, <4>3, <4>4
      <4>6. QED
        BY <3>4, <4>2, <4>5 DEF LossesBounded, Missing
    <3>8. CASE ~IsNewest(f.seq)
      <4>1. totalLost' = totalLost
        BY <3>8 DEF ReceiveUnreliable
      <4>2. Max(received') = g.num
        <5>1. IsLatest(g)'
          BY <1>1, <1>2, <3>1, <3>8, ArriveLatest
        <5>2. \A n \in received' : n \in Nat /\ n <= g.num
          BY <1>1, <1>4, <5>1 DEF IsLatest
        <5>3. QED
          BY <5>1, <5>2, MaxIs DEF IsLatest
      <4>3. Cardinality(Missing(first, g.num, received'))
              <= Cardinality(Missing(first, g.num, received))
        BY <1>1, <3>2, <3>4, MissingShrinks
      <4>4. Cardinality(Missing(first, g.num, received')) \in Nat
        BY <3>2, <3>4, MissingType
      <4>5. totalLost' >= Cardinality(Missing(first, g.num, received'))
        BY <1>4, <3>5, <3>6, <4>1, <4>3, <4>4
      <4>6. QED
        BY <1>4, <3>4, <3>5, <4>1, <4>2, <4>5 DEF LossesBounded, Missing
    <3>9. QED
      BY <3>7, <3>8
  <2>3. QED
    BY <2>1, <2>2
<1>6. calls' \in 0 .. MaxArrivals /\ totalRx' <= calls' /\ totalRx' \in Nat
  BY <1>1, DatagramAssumption DEF DatagramInv, Counted
<1>7. handed' \subseteq received'
  BY <1>1 DEF DatagramInv, Counted
<1>8. Counted'
  BY <1>1, <1>5, <1>6, <1>7 DEF DatagramInv, Counted
<1>9. QED
  BY <1>3, <1>5, <1>8 DEF DatagramInv

LEMMA DatagramInvNext == DatagramInv /\ [DatagramNext]_datagramVars => DatagramInv'
<1> SUFFICES ASSUME DatagramInv, [DatagramNext]_datagramVars PROVE DatagramInv'
  OBVIOUS
<1>1. CASE Send
  BY <1>1, SendInv
<1>2. ASSUME NEW f \in air, ReceiveUnreliable(f) PROVE DatagramInv'
  BY <1>2, ReceiveUnreliableInv
<1>3. ASSUME NEW f \in air, ReceivePriority(f) PROVE DatagramInv'
  BY <1>3, ReceivePriorityInv
<1>4. CASE UNCHANGED datagramVars
  <2>1. UNCHANGED <<mode, nextTxSeq, inflight, air, expectedRxSeq, totalRx, totalLost,
                    received, first, handed, calls>>
    BY <1>4 DEF datagramVars, senderVars
  <2>2. Numbered'
    BY <2>1 DEF DatagramInv, Numbered
  <2>3. \A f \in air : IsLatest(f) <=> IsLatest(f)'
    BY <2>1 DEF IsLatest
  <2>4. NewestKept'
    BY <2>1, <2>3 DEF DatagramInv, NewestKept
  <2>5. Counted'
    BY <2>1, <2>3 DEF DatagramInv, Counted
  <2>6. LossesBounded'
    BY <2>1 DEF DatagramInv, LossesBounded
  <2>7. QED
    BY <2>2, <2>4, <2>5, <2>6 DEF DatagramInv
<1>5. QED
  BY <1>1, <1>2, <1>3, <1>4 DEF DatagramNext

\* The inductive invariant holds of every execution.
THEOREM DatagramInvariant == DatagramSpec => []DatagramInv
<1>1. DatagramInit => DatagramInv
  BY DatagramInvInit
<1>2. DatagramInv /\ [DatagramNext]_datagramVars => DatagramInv'
  BY DatagramInvNext
<1>3. QED
  BY <1>1, <1>2, PTL DEF DatagramSpec

-----------------------------------------------------------------------------
(* The properties.                                                         *)

\* The channel's ids and statistics keep to their ranges, and nothing is
\* handed over that did not arrive.
THEOREM DatagramTypeCorrect == DatagramSpec => []DatagramTypeOK
<1>1. DatagramInv => DatagramTypeOK
  <2> SUFFICES ASSUME DatagramInv PROVE DatagramTypeOK
    OBVIOUS
  <2>1. Cardinality(air) \in Nat /\ Cardinality(air) <= MaxFrames /\ MaxFrames \in Nat
    BY FS_CardinalityType, DatagramAssumption DEF DatagramInv, Numbered
  <2>2. expectedRxSeq = <<>> \/ expectedRxSeq[1] \in SeqId
    BY <2>1 DEF DatagramInv, Numbered, NewestKept, IsLatest
  <2>3. totalLost \in 0 .. MaxFrames
    <3>1. CASE received = {} \/ mode = "PRIORITY"
      BY <2>1, <3>1 DEF DatagramInv, NewestKept, Counted
    <3>2. CASE received # {} /\ mode = "UNRELIABLE"
      <4>1. PICK g \in air : IsLatest(g)
        BY <3>2 DEF DatagramInv, NewestKept
      <4>2. Max(received) = g.num
        BY <4>1, LatestIsMax DEF DatagramInv
      <4>3. g.num \in 0 .. Cardinality(air) - 1 /\ first \in 0 .. Cardinality(air) - 1
        BY <3>2, <4>1 DEF DatagramInv, Numbered, NewestKept
      <4>4. totalLost \in Nat /\ totalLost <= g.num - first
        BY <3>2, <4>2 DEF DatagramInv, Counted, LossesBounded
      <4>5. QED
        BY <2>1, <4>3, <4>4
    <3>3. QED
      BY <3>1, <3>2 DEF DatagramInv, Counted
  <2>4. totalRx \in 0 .. MaxArrivals
    BY DatagramAssumption DEF DatagramInv, Counted
  <2>5. QED
    BY <2>2, <2>3, <2>4 DEF DatagramInv, Numbered, Counted, DatagramTypeOK
<1>2. QED
  BY <1>1, DatagramInvariant, PTL

\* total_lost is never less than the frames that are missing between the
\* first one received and the newest, and never more than their distance.
THEOREM DatagramLossesBounded == DatagramSpec => []LossesBounded
<1>1. DatagramInv => LossesBounded
  BY DEF DatagramInv
<1>2. QED
  BY <1>1, DatagramInvariant, PTL

\* A PRIORITY channel has always handed over the newest frame that arrived,
\* and hands over only what is newer than everything before it.
THEOREM DatagramNewestWins == DatagramSpec => NewestWins
<1> DEFINE Wins == mode = "PRIORITY" =>
                      /\ received' # {} => Max(received') \in handed'
                      /\ calls' # calls => \A n \in handed : n < Max(handed')
<1>1. DatagramInv /\ DatagramInv' /\ [DatagramNext]_datagramVars => [Wins]_datagramVars
  <2> SUFFICES ASSUME DatagramInv, DatagramInv', [DatagramNext]_datagramVars,
                      mode = "PRIORITY", ~UNCHANGED datagramVars
               PROVE  Wins
    OBVIOUS
  <2>1. ASSUME received' # {} PROVE Max(received') \in handed'
    <3>1. mode' = "PRIORITY"
      BY DEF DatagramNext, Send, ReceiveUnreliable, ReceivePriority, Arrive
    <3>2. PICK g \in air' : IsLatest(g)' /\ g.num \in handed'
      BY <2>1, <3>1 DEF DatagramInv, Counted
    <3>3. \A n \in received' : n \in Nat /\ n <= g.num
      BY <3>2 DEF DatagramInv, NewestKept, IsLatest
    <3>4. Max(received') = g.num
      BY <3>2, <3>3, MaxIs DEF IsLatest
    <3>5. QED
      BY <3>2, <3>4
  <2>2. ASSUME calls' # calls PROVE \A n \in handed : n < Max(handed')
    <3>1. PICK f \in air : ReceivePriority(f)
      BY <2>2 DEF DatagramNext, Send, ReceiveUnreliable, datagramVars
    <3>2. /\ IsNewest(f.seq) /\ handed' = handed \cup {f.num}
          /\ Follows(f) /\ Arrive(f)
      BY <2>2, <3>1 DEF ReceivePriority, HandOver, Follows
    <3>3. /\ \A n \in received : n < f.num
          /\ f.num \in Nat
      <4>1. f.num \in Nat
        BY <3>1, FS_CardinalityType DEF DatagramInv, Numbered
      <4>2. QED
        BY <3>2, <4>1, ArriveLatest
    <3>4. handed \subseteq received /\ \A n \in received : n \in Nat
      <4>1. Cardinality(air) \in Nat
        BY FS_CardinalityType DEF DatagramInv, Numbered
      <4>2. QED
        BY <4>1 DEF DatagramInv, NewestKept, Counted
    <3>5. f.num \in handed' /\ \A n \in handed' : f.num >= n /\ n \in Nat
      BY <3>2, <3>3, <3>4
    <3>6. Max(handed') = f.num
      BY <3>5, MaxIs
    <3>7. QED
      BY <3>3, <3>4, <3>6
  <2>3. QED
    BY <2>1, <2>2
<1>2. QED
  BY <1>1, DatagramInvariant, PTL DEF DatagramSpec, NewestWins
=============================================================================
