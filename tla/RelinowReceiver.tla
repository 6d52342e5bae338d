--------------------------- MODULE RelinowReceiver ---------------------------
(***************************************************************************)
(* The receiving half of one RELIABLE channel: relinow_reliable_on_data    *)
(* (relinow_reliable.c) as relinow_state_reliable_on_data calls it         *)
(* (relinow_state.c), with the receive queue that wrapper fills.           *)
(*                                                                         *)
(* One action per outcome of a DATA frame, named for the status the code   *)
(* returns.  The ids that arrive are arbitrary: whatever the radio and the *)
(* peer do, the properties of this module are the engine's own.            *)
(*                                                                         *)
(* The eight reorder slots are a set: the code looks slots up by id only   *)
(* and never stores one id twice.  The receive queue is a count: its       *)
(* entries are written and never read or removed.                          *)
(***************************************************************************)
EXTENDS RelinowPacket, FiniteSets

CONSTANTS
    MaxReorder,            \* RELINOW_RELIABLE_MAX_REORDER, 8 in the code
    RxQueueSize            \* RELINOW_RX_QUEUE_SIZE, 8 in the code

\* A full reorder buffer still lies inside the half of the id space that
\* counts as newer than the expected id (8 against 32767 in the code).
ASSUME ReorderAssumption ==
    /\ MaxReorder \in Nat
    /\ 2 * (MaxReorder + 1) <= SeqSpace
    /\ RxQueueSize \in Nat

VARIABLES
    hasRxWindow,           \* a first frame has arrived
    expectedRxSeq,         \* the next id to deliver
    reorder,               \* ids buffered ahead of expectedRxSeq
    rxUsed,                \* used slots of the channel's rx_queue
    chanExpectedRxSeq      \* the wrapper's copy of expectedRxSeq

rxVars == <<hasRxWindow, expectedRxSeq, reorder, rxUsed, chanExpectedRxSeq>>

RxInit ==
    /\ hasRxWindow = FALSE
    /\ expectedRxSeq = 0
    /\ reorder = {}
    /\ rxUsed = 0
    /\ chanExpectedRxSeq = 0

-----------------------------------------------------------------------------
\* Mutant of IsRun: the delivery loop is bounded one short.
IsRunBoundedShort(s, n) ==
    /\ \A i \in 1 .. n : SeqAdd(s, i) \in reorder
    /\ n + 1 = MaxReorder \/ SeqAdd(s, n + 1) \notin reorder

\* The run of n buffered ids that follows the expected id s, as long as the
\* delivery loop makes it.
IsRun(s, n) ==
    /\ \A i \in 1 .. n : SeqAdd(s, i) \in reorder
    /\ n = MaxReorder \/ SeqAdd(s, n + 1) \notin reorder

Run(s, n) == {SeqAdd(s, i) : i \in 1 .. n}

\* k delivered ids do not all find a free rx_queue slot: the wrapper returns
\* RELINOW_STATE_ERR_QUEUE_FULL.
QueueOverflow(k) == rxUsed + k > RxQueueSize

\* The wrapper's part: queue the k delivered ids one by one, stop at the
\* first that does not fit, copy the expected id only when all did.
Enqueue(k) ==
    IF QueueOverflow(k)
    THEN rxUsed' = RxQueueSize /\ UNCHANGED chanExpectedRxSeq
    ELSE rxUsed' = rxUsed + k /\ chanExpectedRxSeq' = expectedRxSeq'

\* Mutant of AckId: the expected id itself.
AckIdExpected == expectedRxSeq

\* The ack_id of the result, whatever its status.
AckId == SeqPrev(expectedRxSeq)

\* The first frame, whatever its id, opens the window and is delivered.
OpenWindow(s) ==
    /\ ~hasRxWindow
    /\ hasRxWindow' = TRUE
    /\ expectedRxSeq' = SeqNext(s)
    /\ Enqueue(1)
    /\ UNCHANGED reorder

\* Mutant of DeliverRun: the expected id moves one too far.
DeliverRunTooFar(s, n) ==
    /\ hasRxWindow
    /\ s = expectedRxSeq
    /\ IsRun(s, n)
    /\ expectedRxSeq' = SeqAdd(s, n + 2)
    /\ reorder' = reorder \ Run(s, n)
    /\ Enqueue(n + 1)
    /\ UNCHANGED hasRxWindow

\* DELIVERED: the expected id, and the n buffered ids that follow it.
DeliverRun(s, n) ==
    /\ hasRxWindow
    /\ s = expectedRxSeq
    /\ IsRun(s, n)
    /\ expectedRxSeq' = SeqAdd(s, n + 1)
    /\ reorder' = reorder \ Run(s, n)
    /\ Enqueue(n + 1)
    /\ UNCHANGED hasRxWindow

\* Mutant of BufferAhead: no look for a free slot.
BufferAheadUnbounded(s) ==
    /\ hasRxWindow
    /\ IsSeqNewer(s, expectedRxSeq)
    /\ reorder' = reorder \cup {s}
    /\ UNCHANGED <<hasRxWindow, expectedRxSeq>>
    /\ Enqueue(0)

\* OUT_OF_ORDER: buffered, or buffered already.
BufferAhead(s) ==
    /\ hasRxWindow
    /\ IsSeqNewer(s, expectedRxSeq)
    /\ s \in reorder \/ Cardinality(reorder) < MaxReorder
    /\ reorder' = reorder \cup {s}
    /\ UNCHANGED <<hasRxWindow, expectedRxSeq>>
    /\ Enqueue(0)

\* Mutant of DropAhead: the frame takes the place of a buffered one.
DropAheadEvicting(s) ==
    /\ hasRxWindow
    /\ IsSeqNewer(s, expectedRxSeq)
    /\ s \notin reorder
    /\ Cardinality(reorder) >= MaxReorder
    /\ \E r \in reorder : reorder' = (reorder \ {r}) \cup {s}
    /\ UNCHANGED <<hasRxWindow, expectedRxSeq>>
    /\ Enqueue(0)

\* DROPPED: newer, and no reorder slot is free.
DropAhead(s) ==
    /\ hasRxWindow
    /\ IsSeqNewer(s, expectedRxSeq)
    /\ s \notin reorder
    /\ Cardinality(reorder) >= MaxReorder
    /\ UNCHANGED <<hasRxWindow, expectedRxSeq, reorder>>
    /\ Enqueue(0)

\* DUPLICATE: neither expected nor newer.
Duplicate(s) ==
    /\ hasRxWindow
    /\ s # expectedRxSeq
    /\ ~IsSeqNewer(s, expectedRxSeq)
    /\ UNCHANGED <<hasRxWindow, expectedRxSeq, reorder>>
    /\ Enqueue(0)

\* Mutant of SetReliableConfig: the buffer survives.
SetReliableConfigKeeping ==
    /\ hasRxWindow' = FALSE
    /\ expectedRxSeq' = 0
    /\ rxUsed' = 0
    /\ UNCHANGED <<reorder, chanExpectedRxSeq>>

\* relinow_state_set_reliable_config: the engine starts over, the queue is
\* emptied; the wrapper's copy keeps its value.
SetReliableConfig ==
    /\ hasRxWindow' = FALSE
    /\ expectedRxSeq' = 0
    /\ reorder' = {}
    /\ rxUsed' = 0
    /\ UNCHANGED chanExpectedRxSeq

RxNext ==
    \/ \E s \in SeqId :
          \/ OpenWindow(s)
          \/ \E n \in 0 .. MaxReorder : DeliverRun(s, n)
          \/ BufferAhead(s)
          \/ DropAhead(s)
          \/ Duplicate(s)
    \/ SetReliableConfig

RxSpec == RxInit /\ [][RxNext]_rxVars

-----------------------------------------------------------------------------
\* Type correctness of the receive state, including that the code never
\* uses more reorder or queue slots than there are (relinow_reorder_insert,
\* relinow_state_enqueue_rx).
RxTypeOK ==
    /\ hasRxWindow \in BOOLEAN
    /\ expectedRxSeq \in SeqId
    /\ reorder \subseteq SeqId
    /\ IsFiniteSet(reorder)
    /\ Cardinality(reorder) <= MaxReorder
    /\ rxUsed \in 0 .. RxQueueSize
    /\ chanExpectedRxSeq \in SeqId

\* Every buffered id is strictly ahead of the expected one, by less than
\* half the id space, across any number of wraps: no delivered id stays in
\* the buffer, and none can be taken for an id of the next lap.
ReorderAhead == \A r \in reorder : IsSeqNewer(r, expectedRxSeq)

\* Nothing is buffered before the first frame has opened the window.
NoWindowNoReorder == ~hasRxWindow => reorder = {}

\* A delivery drains the run completely: what stays buffered afterwards
\* waits for an id that has not arrived, never for the next call.  Without
\* it an in-order frame could wait for ever behind a loop that stopped early.
DeliveryDrains ==
    [][hasRxWindow /\ hasRxWindow' /\ expectedRxSeq' # expectedRxSeq
         => expectedRxSeq' \notin reorder]_rxVars

\* The expected id passes only over itself and ids held in the buffer: a gap
\* is never skipped, however the frames were reordered.
NoGapSkipped ==
    [][hasRxWindow /\ hasRxWindow'
         => \A i \in 1 .. SeqDiff(expectedRxSeq', expectedRxSeq) - 1 :
               SeqAdd(expectedRxSeq, i) \in reorder]_rxVars

\* A buffered id leaves the buffer only by being delivered: the window that
\* it waited in never moves past it without taking it.
BufferedThenDelivered ==
    [][hasRxWindow /\ hasRxWindow'
         => \A r \in reorder \ reorder' :
               SeqDiff(r, expectedRxSeq)
                  < SeqDiff(expectedRxSeq', expectedRxSeq)]_rxVars
=============================================================================
