------------------------ MODULE RelinowReceiver_proofs ------------------------
(***************************************************************************)
(* Theorems about the receiving half of a RELIABLE channel, for every      *)
(* width of the sequence ids, every reorder buffer that fits in half the   *)
(* id space and every receive queue.                                       *)
(*                                                                         *)
(* The inductive invariant is RxInv: the type, the buffer strictly ahead   *)
(* of the expected id, and nothing buffered before the window opens.  The  *)
(* step that needs more than arithmetic is a delivery whose run fills the  *)
(* whole buffer: that nothing is left behind is a counting argument        *)
(* (lemma FullRun).                                                        *)
(***************************************************************************)
EXTENDS RelinowReceiver, FiniteSetTheorems, TLAPS

RxInv == RxTypeOK /\ ReorderAhead /\ NoWindowNoReorder

-----------------------------------------------------------------------------
(* Serial-number arithmetic.                                               *)

\* Stepping at most one lap from an id gives an id (uint16_t addition).
LEMMA SeqAddType ==
  ASSUME NEW a \in SeqId, NEW n \in 0 .. SeqSpace
  PROVE  SeqAdd(a, n) \in SeqId
BY SeqSpaceAssumption DEF SeqAdd, SeqId

\* The distance between two ids is less than a lap (uint16_t subtraction).
LEMMA SeqDiffType ==
  ASSUME NEW a \in SeqId, NEW b \in SeqId
  PROVE  SeqDiff(a, b) \in 0 .. SeqSpace - 1
BY SeqSpaceAssumption DEF SeqDiff, SeqId

\* Stepping back the distance just stepped gives that distance.
LEMMA SeqDiffAdd ==
  ASSUME NEW a \in SeqId, NEW n \in 0 .. SeqSpace - 1
  PROVE  SeqDiff(SeqAdd(a, n), a) = n
BY SeqSpaceAssumption DEF SeqAdd, SeqDiff, SeqId

\* An id is its base plus its distance from it.
LEMMA SeqAddDiff ==
  ASSUME NEW r \in SeqId, NEW a \in SeqId
  PROVE  r = SeqAdd(a, SeqDiff(r, a))
BY SeqSpaceAssumption DEF SeqAdd, SeqDiff, SeqId

\* Moving the base n forward brings an id that is at least n ahead n closer.
LEMMA SeqDiffShift ==
  ASSUME NEW r \in SeqId, NEW a \in SeqId, NEW n \in 0 .. SeqSpace - 1,
         n <= SeqDiff(r, a)
  PROVE  SeqDiff(r, SeqAdd(a, n)) = SeqDiff(r, a) - n
BY SeqSpaceAssumption DEF SeqAdd, SeqDiff, SeqId

\* Different distances of less than a lap lead to different ids.
LEMMA SeqAddInjective ==
  ASSUME NEW a \in SeqId, NEW m \in 0 .. SeqSpace - 1, NEW n \in 0 .. SeqSpace - 1,
         SeqAdd(a, m) = SeqAdd(a, n)
  PROVE  m = n
BY SeqSpaceAssumption DEF SeqAdd, SeqId

-----------------------------------------------------------------------------
(* The delivery run.                                                       *)

\* A run as long as the whole buffer empties it (the loop bound
\* 1 + RELINOW_RELIABLE_MAX_REORDER never cuts a run short).
LEMMA FullRun ==
  ASSUME RxTypeOK, IsRun(expectedRxSeq, MaxReorder)
  PROVE  reorder = Run(expectedRxSeq, MaxReorder)
<1> DEFINE M == MaxReorder
           R == Run(expectedRxSeq, M)
           f == [i \in 1 .. M |-> SeqAdd(expectedRxSeq, i)]
<1>1. M \in Nat /\ M < SeqSpace
  BY ReorderAssumption, SeqSpaceAssumption
<1>2. R \subseteq reorder
  BY DEF IsRun, Run
<1>3. f \in Bijection(1 .. M, R)
  <2>1. f \in [1 .. M -> R]
    BY DEF Run
  <2>2. ASSUME NEW i \in 1 .. M, NEW j \in 1 .. M, f[i] = f[j]
        PROVE  i = j
    BY <1>1, <2>2, SeqAddInjective, SeqSpaceAssumption DEF RxTypeOK
  <2>3. ASSUME NEW r \in R PROVE \E i \in 1 .. M : f[i] = r
    BY DEF Run
  <2>4. QED
    BY <2>1, <2>2, <2>3 DEF Bijection, Injection, Surjection, IsInjective
<1>4. IsFiniteSet(1 .. M) /\ Cardinality(1 .. M) = M
  BY <1>1, FS_Interval
<1>5. IsFiniteSet(R) /\ Cardinality(R) = M
  BY <1>3, <1>4, FS_Bijection DEF ExistsBijection
<1>6. Cardinality(R) <= Cardinality(reorder)
      /\ (Cardinality(reorder) = Cardinality(R) => reorder = R)
  BY <1>2, FS_Subset DEF RxTypeOK
<1>7. QED
  BY <1>1, <1>5, <1>6, FS_CardinalityType DEF RxTypeOK

\* What a delivery leaves in the buffer is ahead of the id after the run.
LEMMA LeftAhead ==
  ASSUME RxInv, NEW n \in 0 .. MaxReorder, IsRun(expectedRxSeq, n),
         NEW r \in reorder \ Run(expectedRxSeq, n)
  PROVE  /\ SeqDiff(r, expectedRxSeq) > n + 1
         /\ IsSeqNewer(r, SeqAdd(expectedRxSeq, n + 1))
<1> DEFINE d == SeqDiff(r, expectedRxSeq)
<1>1. /\ expectedRxSeq \in SeqId /\ r \in SeqId
      /\ MaxReorder \in Nat /\ 2 * (MaxReorder + 1) <= SeqSpace
  BY ReorderAssumption DEF RxInv, RxTypeOK
<1>2. d \in 0 .. SeqSpace - 1
  BY <1>1, SeqDiffType
<1>3. 0 < d /\ 2 * d < SeqSpace
  BY DEF RxInv, ReorderAhead, IsSeqNewer
<1>4. r = SeqAdd(expectedRxSeq, d)
  BY <1>1, SeqAddDiff
<1>5. n # MaxReorder
  BY <1>1, FullRun DEF RxInv
<1>6. d \notin 1 .. n
  BY <1>4 DEF Run
<1>7. d # n + 1
  BY <1>4, <1>5 DEF IsRun
<1>8. d > n + 1
  BY <1>1, <1>2, <1>3, <1>6, <1>7
<1>9. SeqDiff(r, SeqAdd(expectedRxSeq, n + 1)) = d - (n + 1)
  <2>1. n + 1 \in 0 .. SeqSpace - 1 /\ n + 1 <= d
    BY <1>1, <1>2, <1>8, SeqSpaceAssumption
  <2>2. QED
    BY <1>1, <2>1, SeqDiffShift
<1>10. QED
  BY <1>1, <1>2, <1>3, <1>8, <1>9, SeqSpaceAssumption DEF IsSeqNewer

-----------------------------------------------------------------------------
(* The inductive invariant.                                                *)

\* The initial state of a channel satisfies the invariant.
LEMMA RxInvInit == RxInit => RxInv
<1> SUFFICES ASSUME RxInit
             PROVE  RxInv
  OBVIOUS
<1>1. reorder = {} /\ IsFiniteSet(reorder) /\ Cardinality(reorder) = 0
  BY FS_EmptySet DEF RxInit
<1>2. 0 \in SeqId /\ 0 \in 0 .. RxQueueSize /\ 0 <= MaxReorder
  BY SeqSpaceAssumption, ReorderAssumption DEF SeqId
<1>3. RxTypeOK
  BY <1>1, <1>2 DEF RxInit, RxTypeOK
<1>4. QED
  BY <1>1, <1>3 DEF RxInv, ReorderAhead, NoWindowNoReorder

\* The queueing done by the state-level wrapper keeps its variables typed.
LEMMA EnqueueType ==
  ASSUME RxTypeOK, expectedRxSeq' \in SeqId, NEW k \in Nat, Enqueue(k)
  PROVE  rxUsed' \in 0 .. RxQueueSize /\ chanExpectedRxSeq' \in SeqId
BY ReorderAssumption DEF RxTypeOK, Enqueue, QueueOverflow

\* Every outcome of a DATA frame and every reconfiguration preserves it.
LEMMA RxInvNext == RxInv /\ [RxNext]_rxVars => RxInv'
<1> SUFFICES ASSUME RxInv, [RxNext]_rxVars
             PROVE  RxInv'
  OBVIOUS
<1>1. RxTypeOK /\ ReorderAhead /\ NoWindowNoReorder
  BY DEF RxInv
<1>2. MaxReorder \in Nat /\ 2 * (MaxReorder + 1) <= SeqSpace /\ SeqSpace \in Nat
  BY ReorderAssumption, SeqSpaceAssumption
<1>3. ASSUME NEW s \in SeqId, OpenWindow(s)
      PROVE  RxInv'
  <2>1. expectedRxSeq' \in SeqId
    BY <1>3, SeqAddType, SeqSpaceAssumption DEF OpenWindow, SeqNext
  <2>2. reorder' = {} /\ hasRxWindow'
    BY <1>1, <1>3 DEF OpenWindow, NoWindowNoReorder
  <2>3. rxUsed' \in 0 .. RxQueueSize /\ chanExpectedRxSeq' \in SeqId
    BY <1>1, <1>3, <2>1, EnqueueType DEF OpenWindow
  <2>4. RxTypeOK'
    BY <1>1, <1>3, <2>1, <2>3 DEF RxTypeOK, OpenWindow
  <2>5. QED
    BY <2>2, <2>4 DEF RxInv, ReorderAhead, NoWindowNoReorder
<1>4. ASSUME NEW s \in SeqId, NEW n \in 0 .. MaxReorder, DeliverRun(s, n)
      PROVE  RxInv'
  <2>1. s = expectedRxSeq /\ IsRun(expectedRxSeq, n) /\ hasRxWindow'
    BY <1>4 DEF DeliverRun
  <2>2. /\ expectedRxSeq' = SeqAdd(expectedRxSeq, n + 1)
        /\ reorder' = reorder \ Run(expectedRxSeq, n)
    BY <1>4, <2>1 DEF DeliverRun
  <2>3. expectedRxSeq' \in SeqId
    BY <1>1, <1>2, <2>2, SeqAddType DEF RxTypeOK
  <2>4. rxUsed' \in 0 .. RxQueueSize /\ chanExpectedRxSeq' \in SeqId
    BY <1>1, <1>2, <1>4, <2>3, EnqueueType DEF DeliverRun
  <2>5. IsFiniteSet(reorder') /\ Cardinality(reorder') <= MaxReorder
    <3>1. reorder' \in SUBSET reorder
      BY <2>2
    <3>2. IsFiniteSet(reorder') /\ Cardinality(reorder') <= Cardinality(reorder)
      BY <1>1, <3>1, FS_Subset DEF RxTypeOK
    <3>3. Cardinality(reorder) \in Nat /\ Cardinality(reorder') \in Nat
      BY <1>1, <3>2, FS_CardinalityType DEF RxTypeOK
    <3>4. QED
      BY <1>1, <1>2, <3>2, <3>3 DEF RxTypeOK
  <2>6. RxTypeOK'
    BY <1>1, <2>1, <2>2, <2>3, <2>4, <2>5 DEF RxTypeOK
  <2>7. ReorderAhead'
    <3> SUFFICES ASSUME NEW r \in reorder'
                 PROVE  IsSeqNewer(r, expectedRxSeq')
      BY DEF ReorderAhead
    <3>1. r \in reorder \ Run(expectedRxSeq, n)
      BY <2>2
    <3>2. QED
      BY <2>1, <2>2, <3>1, LeftAhead
  <2>8. QED
    BY <2>1, <2>6, <2>7 DEF RxInv, NoWindowNoReorder
<1>5. ASSUME NEW s \in SeqId, BufferAhead(s)
      PROVE  RxInv'
  <2>1. /\ hasRxWindow /\ IsSeqNewer(s, expectedRxSeq)
        /\ reorder' = reorder \cup {s}
        /\ UNCHANGED <<hasRxWindow, expectedRxSeq>>
        /\ s \in reorder \/ Cardinality(reorder) < MaxReorder
        /\ Enqueue(0)
    BY <1>5 DEF BufferAhead
  <2>2. rxUsed' \in 0 .. RxQueueSize /\ chanExpectedRxSeq' \in SeqId
    BY <1>1, <2>1, EnqueueType DEF RxTypeOK
  <2>3. /\ IsFiniteSet(reorder')
        /\ Cardinality(reorder') = IF s \in reorder THEN Cardinality(reorder)
                                                    ELSE Cardinality(reorder) + 1
    BY <1>1, <2>1, FS_AddElement DEF RxTypeOK
  <2>4. Cardinality(reorder') <= MaxReorder
    BY <1>1, <1>2, <2>1, <2>3, FS_CardinalityType DEF RxTypeOK
  <2>5. RxTypeOK'
    BY <1>1, <2>1, <2>2, <2>3, <2>4 DEF RxTypeOK
  <2>6. QED
    BY <1>1, <2>1, <2>5 DEF RxInv, ReorderAhead, NoWindowNoReorder
<1>6. ASSUME NEW s \in SeqId, DropAhead(s) \/ Duplicate(s)
      PROVE  RxInv'
  <2>1. /\ UNCHANGED <<hasRxWindow, expectedRxSeq, reorder>>
        /\ Enqueue(0)
    BY <1>6 DEF DropAhead, Duplicate
  <2>2. rxUsed' \in 0 .. RxQueueSize /\ chanExpectedRxSeq' \in SeqId
    BY <1>1, <2>1, EnqueueType DEF RxTypeOK
  <2>3. QED
    BY <1>1, <2>1, <2>2 DEF RxInv, RxTypeOK, ReorderAhead, NoWindowNoReorder
<1>7. ASSUME SetReliableConfig
      PROVE  RxInv'
  <2>1. /\ reorder' = {} /\ IsFiniteSet(reorder') /\ Cardinality(reorder') = 0
    BY <1>7, FS_EmptySet DEF SetReliableConfig
  <2>2. 0 \in SeqId /\ 0 \in 0 .. RxQueueSize /\ 0 <= MaxReorder
    BY SeqSpaceAssumption, ReorderAssumption DEF SeqId
  <2>3. RxTypeOK'
    BY <1>1, <1>7, <2>1, <2>2 DEF SetReliableConfig, RxTypeOK
  <2>4. QED
    BY <2>1, <2>3 DEF RxInv, ReorderAhead, NoWindowNoReorder
<1>8. CASE UNCHANGED rxVars
  BY <1>1, <1>8 DEF rxVars, RxInv, RxTypeOK, ReorderAhead, NoWindowNoReorder
<1>9. QED
  BY <1>3, <1>4, <1>5, <1>6, <1>7, <1>8 DEF RxNext

\* RxInv is an invariant of the receiver.
THEOREM RxInvariant == RxSpec => []RxInv
BY RxInvInit, RxInvNext, PTL DEF RxSpec

-----------------------------------------------------------------------------
(* The invariants and the step properties the model checker also checks.   *)

\* The receive state keeps its type: in particular neither the reorder
\* buffer nor the receive queue is ever overrun.
THEOREM RxTypeCorrect == RxSpec => []RxTypeOK
<1>1. RxInv => RxTypeOK
  BY DEF RxInv
<1>2. QED
  BY <1>1, RxInvariant, PTL

\* What is buffered is always ahead of the expected id: an id already
\* delivered is never buffered, round any number of wraps.
THEOREM RxReorderAhead == RxSpec => []ReorderAhead
<1>1. RxInv => ReorderAhead
  BY DEF RxInv
<1>2. QED
  BY <1>1, RxInvariant, PTL

\* Before the first frame opens the window nothing is buffered, so the reset
\* of the window on the first frame drops nothing.
THEOREM RxNoWindowNoReorder == RxSpec => []NoWindowNoReorder
<1>1. RxInv => NoWindowNoReorder
  BY DEF RxInv
<1>2. QED
  BY <1>1, RxInvariant, PTL

\* A delivery leaves nothing deliverable behind: the id expected next was
\* not in the buffer, so only its arrival can let the channel go on.
THEOREM RxDeliveryDrains == RxSpec => DeliveryDrains
<1>1. RxInv /\ [RxNext]_rxVars
      => [hasRxWindow /\ hasRxWindow' /\ expectedRxSeq' # expectedRxSeq
            => expectedRxSeq' \notin reorder]_rxVars
  <2> SUFFICES ASSUME RxInv, RxNext, hasRxWindow, hasRxWindow',
                      expectedRxSeq' # expectedRxSeq, expectedRxSeq' \in reorder
               PROVE  FALSE
    OBVIOUS
  <2>1. PICK n \in 0 .. MaxReorder : DeliverRun(expectedRxSeq, n)
    BY DEF RxNext, OpenWindow, DeliverRun, BufferAhead, DropAhead, Duplicate,
           SetReliableConfig
  <2>2. IsRun(expectedRxSeq, n) /\ expectedRxSeq' = SeqAdd(expectedRxSeq, n + 1)
    BY <2>1 DEF DeliverRun
  <2>3. n = MaxReorder
    BY <2>2 DEF IsRun
  <2>4. reorder = Run(expectedRxSeq, n)
    BY <2>2, <2>3, FullRun DEF RxInv
  <2>5. PICK i \in 1 .. n : SeqAdd(expectedRxSeq, n + 1) = SeqAdd(expectedRxSeq, i)
    BY <2>2, <2>4 DEF Run
  <2>6. /\ n + 1 \in 0 .. SeqSpace - 1 /\ i \in 0 .. SeqSpace - 1
        /\ n + 1 # i /\ expectedRxSeq \in SeqId
    BY ReorderAssumption, SeqSpaceAssumption DEF RxInv, RxTypeOK
  <2>7. QED
    BY <2>5, <2>6, SeqAddInjective
<1>2. QED
  BY <1>1, RxInvariant, PTL DEF RxSpec, DeliveryDrains

\* The window never passes over an id that had not arrived.
THEOREM RxNoGapSkipped == RxSpec => NoGapSkipped
<1> DEFINE Gapless == \A i \in 1 .. SeqDiff(expectedRxSeq', expectedRxSeq) - 1 :
                         SeqAdd(expectedRxSeq, i) \in reorder
<1>1. RxInv /\ [RxNext]_rxVars
      => [hasRxWindow /\ hasRxWindow' => Gapless]_rxVars
  <2> SUFFICES ASSUME RxInv, RxNext, hasRxWindow, hasRxWindow'
               PROVE  Gapless
    OBVIOUS
  <2>1. expectedRxSeq \in SeqId /\ SeqSpace \in Nat /\ SeqSpace >= 4
        /\ MaxReorder \in Nat /\ 2 * (MaxReorder + 1) <= SeqSpace
    BY SeqSpaceAssumption, ReorderAssumption DEF RxInv, RxTypeOK
  <2>2. CASE expectedRxSeq' = expectedRxSeq
    BY <2>1, <2>2 DEF SeqDiff, SeqId
  <2>3. CASE expectedRxSeq' # expectedRxSeq
    <3>1. PICK n \in 0 .. MaxReorder : DeliverRun(expectedRxSeq, n)
      BY <2>3 DEF RxNext, OpenWindow, DeliverRun, BufferAhead, DropAhead,
                  Duplicate, SetReliableConfig
    <3>2. n + 1 \in 0 .. SeqSpace - 1
      BY <2>1
    <3>3. SeqDiff(expectedRxSeq', expectedRxSeq) = n + 1
      BY <2>1, <3>1, <3>2, SeqDiffAdd DEF DeliverRun
    <3>4. QED
      BY <3>1, <3>3 DEF DeliverRun, IsRun
  <2>4. QED
    BY <2>2, <2>3
<1>2. QED
  BY <1>1, RxInvariant, PTL DEF RxSpec, NoGapSkipped

\* What was buffered leaves the buffer only by being delivered.
THEOREM RxBufferedThenDelivered == RxSpec => BufferedThenDelivered
<1> DEFINE Kept == \A r \in reorder \ reorder' :
                      SeqDiff(r, expectedRxSeq)
                         < SeqDiff(expectedRxSeq', expectedRxSeq)
<1>1. RxInv /\ [RxNext]_rxVars
      => [hasRxWindow /\ hasRxWindow' => Kept]_rxVars
  <2> SUFFICES ASSUME RxInv, RxNext, hasRxWindow, hasRxWindow',
                      NEW r \in reorder \ reorder'
               PROVE  SeqDiff(r, expectedRxSeq)
                         < SeqDiff(expectedRxSeq', expectedRxSeq)
    OBVIOUS
  <2>1. expectedRxSeq \in SeqId /\ SeqSpace \in Nat /\ SeqSpace >= 4
        /\ MaxReorder \in Nat /\ 2 * (MaxReorder + 1) <= SeqSpace
    BY SeqSpaceAssumption, ReorderAssumption DEF RxInv, RxTypeOK
  <2>2. PICK n \in 0 .. MaxReorder : DeliverRun(expectedRxSeq, n)
    BY DEF RxNext, OpenWindow, DeliverRun, BufferAhead, DropAhead, Duplicate,
           SetReliableConfig
  <2>3. PICK i \in 1 .. n : r = SeqAdd(expectedRxSeq, i)
    BY <2>2 DEF DeliverRun, Run
  <2>4. n + 1 \in 0 .. SeqSpace - 1 /\ i \in 0 .. SeqSpace - 1
    BY <2>1
  <2>5. /\ SeqDiff(expectedRxSeq', expectedRxSeq) = n + 1
        /\ SeqDiff(r, expectedRxSeq) = i
    BY <2>1, <2>2, <2>3, <2>4, SeqDiffAdd DEF DeliverRun
  <2>6. QED
    BY <2>5
<1>2. QED
  BY <1>1, RxInvariant, PTL DEF RxSpec, BufferedThenDelivered
=============================================================================
