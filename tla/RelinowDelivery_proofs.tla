------------------------ MODULE RelinowDelivery_proofs ------------------------
(***************************************************************************)
(* What the receiving application of a RELIABLE channel gets, proved.      *)
(*                                                                         *)
(* For every execution of the link, with failing sends, full queues and    *)
(* caches, fragment timeouts and truncated messages: frames come out in    *)
(* order (LinkFramesInOrder), what comes out is a submitted message, but   *)
(* for three causes (LinkSpoiltForCause), and has its places in the        *)
(* receive queue (LinkHandedFitsQueue), the receive side keeps to its      *)
(* slots and ids (LinkTypeCorrect), and the receive window lives as        *)
(* RelinowReceiver says (LinkRefinesReceiver).  OrderInv is the inductive  *)
(* invariant for the order: all that was handed over or is being           *)
(* reassembled is ordered and lies below the window.  MessagesInv lays the *)
(* submitted messages out over the ids, EndInv counts what was handed      *)
(* over, and ClosedInv says that the last frame of a message ends it.      *)
(*                                                                         *)
(* For a link with room for a message in the buffer, no fragment timeout   *)
(* and no cold start with fragments (Undisturbed), as long as the receive  *)
(* cache does not run out before the receive queue does (CacheRoom): sends *)
(* that break off spoil the next message at most                           *)
(* (LinkSpoilsOnlyNextWhileRoom); and while none has (NoneCutShort),       *)
(* messages come out whole, in a gap-free run, once (LinkIntactWhileRoom,  *)
(* LinkDeliversWhileRoom), and until the queue is full an acknowledged     *)
(* frame has been handed over (LinkAckedWhileRoom).  These say nothing of  *)
(* how many packets are sent; with as many slots as packets there is       *)
(* always room (SlotsSuffice), and the theorems about the properties that  *)
(* the runs check follow.                                                  *)
(*                                                                         *)
(* The invariant DeliveryInv puts the application at a cursor in the list  *)
(* of submitted messages: some whole ones behind it, the beginning of one  *)
(* in the buffer, and the next frame of it is the one the window waits     *)
(* for.  A full queue stops the cursor and lets the window go on.  AckInv  *)
(* bounds the ids that ACKs may name by what the cursor has passed.        *)
(* SpoilInv knows the place of the next frame too, but what the buffer     *)
(* holds only if neither its message nor the one before was cut short.     *)
(*                                                                         *)
(* The delivery loop is a recursive function; what holds after each of its *)
(* turns is shown by the least turn for which it would not (CountUp).      *)
(***************************************************************************)
EXTENDS RelinowLink_proofs, RelinowReceiver_proofs, WellFoundedInduction

-----------------------------------------------------------------------------
(* The delivery loop.                                                      *)

Before == {p \in Nat \X Nat : p[1] < p[2]}

\* Counting up: a set that has 0, and after every number below n the next one,
\* has all numbers up to n.
LEMMA CountUp ==
  ASSUME NEW n \in Nat, NEW S, 0 \in S, \A k \in 0 .. n - 1 : k \in S => k + 1 \in S
  PROVE  \A k \in 0 .. n : k \in S
<1> DEFINE Missing == {k \in 0 .. n : k \notin S}
<1> SUFFICES ASSUME Missing # {} PROVE FALSE
  OBVIOUS
<1>1. IsWellFoundedOn(Before, Nat)
  BY NatLessThanWellFounded DEF OpToRel, Before
<1>2. Missing \subseteq Nat
  OBVIOUS
<1>3. PICK k \in Missing : \A j \in Missing : ~(<<j, k>> \in Before)
  BY <1>1, <1>2, WFMin
<1>4. k \in 0 .. n /\ k \notin S /\ k # 0
  OBVIOUS
<1>5. k - 1 \in 0 .. n - 1 /\ k - 1 \in 0 .. n /\ (k - 1) + 1 = k
  BY <1>4
<1>6. k - 1 \notin S
  BY <1>4, <1>5
<1>7. k - 1 \in Missing /\ <<k - 1, k>> \in Before
  BY <1>5, <1>6 DEF Before
<1>8. QED
  BY <1>3, <1>7

Start == [buf |-> reassembly, log |-> appLog]

\* The loop function of DeliveryLoop.
Loop(s, n, cache) ==
    CHOOSE after : after = [k \in 0 .. n + 1 |->
                              IF k = 0 THEN [buf |-> reassembly, log |-> appLog]
                              ELSE Turn(after[k - 1], SeqAdd(s, k - 1), cache)]

\* The loop goes turn by turn.
LEMMA LoopTurns ==
  ASSUME NEW s, NEW n \in Nat, NEW cache
  PROVE  /\ DeliveryLoop(s, n, cache) = Loop(s, n, cache)[n + 1]
         /\ Loop(s, n, cache)[0] = Start
         /\ \A k \in 0 .. n : Loop(s, n, cache)[k + 1]
               = Turn(Loop(s, n, cache)[k], SeqAdd(s, k), cache)
<1> DEFINE IsLoop(f, m) ==
             f = [k \in 0 .. m |-> IF k = 0 THEN Start
                                   ELSE Turn(f[k - 1], SeqAdd(s, k - 1), cache)]
           S == {m \in 0 .. n + 1 : \E f : IsLoop(f, m)}
<1>1. 0 \in S
  <2> DEFINE f == [k \in 0 .. 0 |-> Start]
  <2>1. f = [k \in 0 .. 0 |-> IF k = 0 THEN Start
                              ELSE Turn(f[k - 1], SeqAdd(s, k - 1), cache)]
    OBVIOUS
  <2>2. IsLoop(f, 0)
    BY <2>1
  <2> HIDE DEF IsLoop, f
  <2>3. 0 \in 0 .. n + 1
    OBVIOUS
  <2>4. QED
    BY <2>2, <2>3
<1>2. ASSUME NEW m \in 0 .. n, m \in S PROVE m + 1 \in S
  <2>1. PICK f : IsLoop(f, m)
    BY <1>2
  <2> DEFINE g == [k \in 0 .. m + 1 |-> IF k = 0 THEN Start
                                        ELSE Turn(f[k - 1], SeqAdd(s, k - 1), cache)]
  <2>2. \A k \in 0 .. m : g[k] = f[k]
    BY <2>1
  <2>3. \A k \in 0 .. m + 1 : k # 0 => k - 1 \in 0 .. m
    OBVIOUS
  <2>4. g = [k \in 0 .. m + 1 |-> IF k = 0 THEN Start
                                  ELSE Turn(g[k - 1], SeqAdd(s, k - 1), cache)]
    BY <2>2, <2>3
  <2>5. IsLoop(g, m + 1)
    BY <2>4
  <2> HIDE DEF IsLoop, g
  <2>6. m + 1 \in 0 .. n + 1
    OBVIOUS
  <2>7. QED
    BY <2>5, <2>6
<1>3. n + 1 \in S
  <2> HIDE DEF S
  <2>1. n + 1 \in Nat /\ (n + 1) - 1 = n /\ n + 1 \in 0 .. n + 1
    OBVIOUS
  <2>2. QED
    BY <1>1, <1>2, <2>1, CountUp
<1>4. PICK f : IsLoop(f, n + 1)
  BY <1>3
<1>5. IsLoop(Loop(s, n, cache), n + 1)
  BY <1>4 DEF Loop, Start
<1>6. DeliveryLoop(s, n, cache) = Loop(s, n, cache)[n + 1]
  BY DEF DeliveryLoop, Loop
<1> HIDE DEF S
<1>7. Loop(s, n, cache)[0] = Start
  BY <1>5
<1>8. ASSUME NEW k \in 0 .. n
      PROVE  Loop(s, n, cache)[k + 1] = Turn(Loop(s, n, cache)[k], SeqAdd(s, k), cache)
  <2>1. k + 1 \in 0 .. n + 1 /\ k + 1 # 0 /\ (k + 1) - 1 = k
    OBVIOUS
  <2>2. QED
    BY <1>5, <2>1
<1>9. QED
  BY <1>6, <1>7, <1>8

-----------------------------------------------------------------------------
(* Order.                                                                  *)

\* Frames of consecutive messages, all before e and in order.
Ordered(h, e) ==
    /\ h \in Seq(Seq(Nat))
    /\ \A i \in DOMAIN h : \A p \in DOMAIN h[i] : h[i][p] < e
    /\ \A i, j \in DOMAIN h : \A p \in DOMAIN h[i], q \in DOMAIN h[j] :
          i < j \/ (i = j /\ p < q) => h[i][p] < h[j][q]

\* The buffer is emptied.
LEMMA OrderedReset ==
  ASSUME NEW log \in Seq(Seq(Nat)), NEW buf \in Seq(Nat), NEW e \in Nat,
         NEW d \in Nat, e <= d, Ordered(Append(log, buf), e)
  PROVE  Ordered(Append(log, <<>>), d)
<1> DEFINE g == Append(log, <<>>)
           h == Append(log, buf)
<1>1. /\ g \in Seq(Seq(Nat)) /\ DOMAIN g = 1 .. Len(log) + 1
      /\ DOMAIN h = 1 .. Len(log) + 1 /\ Len(log) \in Nat
      /\ \A i \in 1 .. Len(log) : g[i] = log[i] /\ h[i] = log[i] /\ log[i] \in Seq(Nat)
      /\ g[Len(log) + 1] = <<>>
  OBVIOUS
<1>0. Ordered(h, e)
  OBVIOUS
<1> HIDE DEF g, h
<1>2. \A i \in DOMAIN g : \A p \in DOMAIN g[i] : i \in 1 .. Len(log)
  BY <1>1
<1>3. \A i \in 1 .. Len(log) : g[i] = h[i] /\ i \in DOMAIN h
  BY <1>1
<1>4. \A i \in DOMAIN g : \A p \in DOMAIN g[i] : g[i][p] < d
  <2> SUFFICES ASSUME NEW i \in DOMAIN g, NEW p \in DOMAIN g[i] PROVE g[i][p] < d
    OBVIOUS
  <2>1. i \in 1 .. Len(log) /\ g[i] = h[i] /\ i \in DOMAIN h /\ h[i] \in Seq(Nat)
    BY <1>1, <1>2, <1>3
  <2>2. h[i][p] \in Nat /\ h[i][p] < e
    BY <1>0, <2>1 DEF Ordered
  <2>3. QED
    BY <2>1, <2>2
<1>5. \A i, j \in DOMAIN g : \A p \in DOMAIN g[i], q \in DOMAIN g[j] :
         i < j \/ (i = j /\ p < q) => g[i][p] < g[j][q]
  BY <1>0, <1>2, <1>3 DEF Ordered
<1>6. QED
  BY <1>1, <1>4, <1>5 DEF Ordered, g

\* A frame from e on joins the last message.
LEMMA OrderedExtend ==
  ASSUME NEW log \in Seq(Seq(Nat)), NEW buf \in Seq(Nat), NEW d \in Nat,
         Ordered(Append(log, buf), d)
  PROVE  Ordered(Append(log, Append(buf, d)), d + 1)
<1> DEFINE g == Append(log, Append(buf, d))
           h == Append(log, buf)
           new == Append(buf, d)
           last == Len(log) + 1
<1>1. /\ g \in Seq(Seq(Nat)) /\ DOMAIN g = 1 .. last
      /\ DOMAIN h = 1 .. last /\ Len(log) \in Nat
      /\ \A i \in 1 .. Len(log) : g[i] = log[i] /\ h[i] = log[i] /\ log[i] \in Seq(Nat)
      /\ g[last] = new /\ h[last] = buf /\ h \in Seq(Seq(Nat))
  OBVIOUS
<1>2. /\ DOMAIN buf = 1 .. Len(buf) /\ Len(buf) \in Nat
      /\ DOMAIN new = 1 .. Len(buf) + 1
      /\ \A p \in 1 .. Len(buf) : new[p] = buf[p]
      /\ new[Len(buf) + 1] = d
  OBVIOUS
<1>0. Ordered(h, d)
  OBVIOUS
<1> HIDE DEF g, h, new
<1>3. \A i \in DOMAIN g : \A p \in DOMAIN g[i] :
         \/ p \in DOMAIN h[i] /\ g[i][p] = h[i][p] /\ h[i][p] \in Nat /\ h[i][p] < d
         \/ i = last /\ p = Len(buf) + 1 /\ g[i][p] = d
  <2> SUFFICES ASSUME NEW i \in DOMAIN g, NEW p \in DOMAIN g[i]
               PROVE  \/ /\ p \in DOMAIN h[i] /\ g[i][p] = h[i][p]
                         /\ h[i][p] \in Nat /\ h[i][p] < d
                      \/ i = last /\ p = Len(buf) + 1 /\ g[i][p] = d
    OBVIOUS
  <2>1. \A q \in DOMAIN h[i] : h[i][q] < d /\ h[i][q] \in Nat
    <3>1. i \in DOMAIN h
      BY <1>1
    <3>2. h[i] \in Seq(Nat)
      BY <1>1, <3>1
    <3>3. QED
      BY <1>0, <3>1, <3>2 DEF Ordered
  <2>2. CASE i # last
    <3>1. i \in 1 .. Len(log)
      BY <1>1, <2>2
    <3>2. g[i] = h[i]
      BY <1>1, <3>1
    <3>3. QED
      BY <2>1, <3>2
  <2>3. CASE i = last /\ p # Len(buf) + 1
    <3>1. p \in 1 .. Len(buf)
      <4>1. p \in DOMAIN new
        BY <1>1, <2>3
      <4>2. QED
        BY <1>2, <2>3, <4>1
    <3>2. p \in DOMAIN h[i] /\ g[i][p] = h[i][p]
      BY <1>1, <1>2, <2>3, <3>1
    <3>3. QED
      BY <2>1, <3>2
  <2>4. CASE i = last /\ p = Len(buf) + 1
    BY <1>1, <1>2, <2>4
  <2>5. QED
    BY <2>2, <2>3, <2>4
<1>4. \A i \in DOMAIN g : \A p \in DOMAIN g[i] : g[i][p] < d + 1
  BY <1>3
<1>5. ASSUME NEW i \in DOMAIN g, NEW j \in DOMAIN g, NEW p \in DOMAIN g[i],
             NEW q \in DOMAIN g[j], i < j \/ (i = j /\ p < q)
      PROVE  g[i][p] < g[j][q]
  <2>1. /\ i \in 1 .. last /\ j \in 1 .. last /\ last \in Nat
        /\ i \in DOMAIN h /\ j \in DOMAIN h
    BY <1>1
  <2>2. j = last => (q \in Nat /\ q <= Len(buf) + 1)
    <3>1. CASE j = last
      <4>1. q \in DOMAIN new
        BY <1>1, <3>1
      <4>2. QED
        BY <1>2, <4>1
    <3>2. QED
      BY <3>1
  <2>3. p \in DOMAIN h[i] /\ g[i][p] = h[i][p] /\ h[i][p] \in Nat /\ h[i][p] < d
    <3>1. ~(i = last /\ p = Len(buf) + 1)
      BY <1>2, <1>5, <2>1, <2>2
    <3>2. QED
      BY <1>3, <3>1
  <2>4. CASE j = last /\ q = Len(buf) + 1 /\ g[j][q] = d
    BY <2>3, <2>4
  <2>5. CASE q \in DOMAIN h[j] /\ g[j][q] = h[j][q]
    <3>1. h[i][p] < h[j][q]
      BY <1>0, <1>5, <2>1, <2>3, <2>5 DEF Ordered
    <3>2. QED
      BY <2>3, <2>5, <3>1
  <2>6. QED
    BY <1>3, <2>4, <2>5
<1>6. QED
  BY <1>1, <1>4, <1>5 DEF Ordered, g, new

\* An empty buffer is opened.
LEMMA OrderedOpen ==
  ASSUME NEW h, NEW e \in Nat, Ordered(h, e)
  PROVE  Ordered(Append(h, <<>>), e)
<1> DEFINE g == Append(h, <<>>)
<1>1. /\ g \in Seq(Seq(Nat)) /\ DOMAIN g = 1 .. Len(h) + 1
      /\ DOMAIN h = 1 .. Len(h) /\ Len(h) \in Nat
      /\ \A i \in 1 .. Len(h) : g[i] = h[i]
      /\ g[Len(h) + 1] = <<>>
  BY DEF Ordered
<1> HIDE DEF g
<1>2. ASSUME NEW i \in DOMAIN g, NEW p \in DOMAIN g[i] PROVE i \in DOMAIN h /\ g[i] = h[i]
  <2>1. i # Len(h) + 1
    <3>1. g[i] # <<>>
      OBVIOUS
    <3>2. QED
      BY <1>1, <3>1
  <2>2. i \in 1 .. Len(h)
    BY <1>1, <2>1
  <2>3. QED
    BY <1>1, <2>2
<1>3. QED
  BY <1>1, <1>2 DEF Ordered, g

\* What the loop keeps of buffer and log.
InOrder(acc, e) ==
    /\ acc.log \in Seq(Seq(Nat)) /\ acc.buf \in Seq(Nat)
    /\ Len(acc.buf) <= MaxReassembly
    /\ Ordered(Append(acc.log, acc.buf), e)

LEMMA InOrderLater ==
  ASSUME NEW acc, NEW e \in Nat, NEW d \in Nat, e <= d, InOrder(acc, e)
  PROVE  InOrder(acc, d)
<1> DEFINE h == Append(acc.log, acc.buf)
<1>1. Ordered(h, e)
  BY DEF InOrder
<1> HIDE DEF h
<1>2. ASSUME NEW i \in DOMAIN h, NEW p \in DOMAIN h[i] PROVE h[i][p] < d
  <2>1. h[i] \in Seq(Nat)
    BY <1>1 DEF Ordered
  <2>2. h[i][p] \in Nat /\ h[i][p] < e
    BY <1>1, <2>1 DEF Ordered
  <2>3. QED
    BY <2>2
<1>3. Ordered(h, d)
  BY <1>1, <1>2 DEF Ordered
<1>4. QED
  BY <1>3 DEF InOrder, h

\* A turn with the frame that is next keeps the order, whether the frame is a
\* message, a fragment, a fragment too many, or not in the cache.
LEMMA TurnInOrder ==
  ASSUME NEW acc, NEW d \in Nat, NEW cache, InOrder(acc, d)
  PROVE  InOrder(Turn(acc, d, cache), d + 1)
<1> DEFINE log == acc.log
           buf == acc.buf
<1>1. /\ log \in Seq(Seq(Nat)) /\ buf \in Seq(Nat) /\ Len(buf) <= MaxReassembly
      /\ Ordered(Append(log, buf), d) /\ MaxReassembly \in Nat
  BY LinkAssumption DEF InOrder
<1>2. /\ d + 1 \in Nat /\ d <= d /\ d <= d + 1 /\ d + 1 <= d + 1
      /\ <<>> \in Seq(Nat) /\ Len(<<>>) = 0 /\ <<d>> \in Seq(Nat)
      /\ Append(<<>>, d) = <<d>>
      /\ Append(buf, d) \in Seq(Nat) /\ Len(Append(buf, d)) = Len(buf) + 1
      /\ Append(log, <<d>>) \in Seq(Seq(Nat))
      /\ Append(log, Append(buf, d)) \in Seq(Seq(Nat))
  BY <1>1
<1> HIDE DEF log, buf
<1>3. CASE d \notin cache
  <2>1. InOrder(acc, d + 1)
    BY <1>2, InOrderLater
  <2>2. QED
    BY <1>3, <2>1 DEF Turn
<1>4. CASE d \in cache /\ ~IsFragment(d)
  <2>1. Ordered(Append(log, <<>>), d)
    BY <1>1, <1>2, OrderedReset
  <2>2. Ordered(Append(log, <<d>>), d + 1)
    BY <1>1, <1>2, <2>1, OrderedExtend
  <2>3. Ordered(Append(Append(log, <<d>>), <<>>), d + 1)
    BY <1>2, <2>2, OrderedOpen
  <2>4. Turn(acc, d, cache) = [buf |-> <<>>, log |-> Append(log, <<d>>)]
    BY <1>4 DEF Turn, HandOver, log
  <2>5. QED
    BY <1>1, <1>2, <2>3, <2>4 DEF InOrder
<1>5. CASE d \in cache /\ IsFragment(d) /\ Len(buf) >= MaxReassembly
  <2>1. Ordered(Append(log, <<>>), d + 1)
    BY <1>1, <1>2, OrderedReset
  <2>2. Turn(acc, d, cache) = [buf |-> <<>>, log |-> log]
    BY <1>5 DEF Turn, HandOver, log, buf
  <2>3. QED
    BY <1>1, <1>2, <2>1, <2>2 DEF InOrder
<1>6. CASE d \in cache /\ IsFragment(d) /\ ~(Len(buf) >= MaxReassembly)
  <2>1. Ordered(Append(log, Append(buf, d)), d + 1)
    BY <1>1, OrderedExtend
  <2>2. CASE IsLastFragment(d)
    <3>1. Ordered(Append(Append(log, Append(buf, d)), <<>>), d + 1)
      BY <1>2, <2>1, OrderedOpen
    <3>2. Turn(acc, d, cache) = [buf |-> <<>>, log |-> Append(log, Append(buf, d))]
      BY <1>6, <2>2 DEF Turn, HandOver, log, buf
    <3>3. QED
      BY <1>1, <1>2, <3>1, <3>2 DEF InOrder
  <2>3. CASE ~IsLastFragment(d)
    <3>1. Turn(acc, d, cache) = [buf |-> Append(buf, d), log |-> log]
      BY <1>6, <2>3 DEF Turn, HandOver, log, buf
    <3>2. Len(Append(buf, d)) <= MaxReassembly
      BY <1>1, <1>2, <1>6, LenProperties
    <3>3. QED
      BY <1>1, <1>2, <2>1, <3>1, <3>2 DEF InOrder
  <2>4. QED
    BY <2>2, <2>3
<1>7. QED
  BY <1>3, <1>4, <1>5, <1>6

\* So does the loop over ids that do not wrap.
LEMMA LoopInOrder ==
  ASSUME NEW s \in Nat, NEW n \in Nat, NEW cache,
         \A k \in 0 .. n : SeqAdd(s, k) = s + k, InOrder(Start, s)
  PROVE  InOrder(DeliveryLoop(s, n, cache), s + n + 1)
<1> DEFINE S == {k \in 0 .. n + 1 : InOrder(Loop(s, n, cache)[k], s + k)}
<1>1. 0 \in S
  BY LoopTurns
<1>2. ASSUME NEW k \in 0 .. n, k \in S PROVE k + 1 \in S
  <2>1. /\ s + k \in Nat /\ k + 1 \in 0 .. n + 1 /\ s + (k + 1) = (s + k) + 1
        /\ SeqAdd(s, k) = s + k
    OBVIOUS
  <2>2. InOrder(Loop(s, n, cache)[k], s + k)
    BY <1>2
  <2>3. Loop(s, n, cache)[k + 1] = Turn(Loop(s, n, cache)[k], s + k, cache)
    BY <2>1, LoopTurns
  <2>4. InOrder(Loop(s, n, cache)[k + 1], (s + k) + 1)
    BY <2>1, <2>2, <2>3, TurnInOrder
  <2>5. QED
    BY <2>1, <2>4
<1>3. n + 1 \in S
  <2> HIDE DEF S
  <2>1. n + 1 \in Nat /\ (n + 1) - 1 = n /\ n + 1 \in 0 .. n + 1
    OBVIOUS
  <2>2. QED
    BY <1>1, <1>2, <2>1, CountUp
<1>4. s + (n + 1) = s + n + 1
  OBVIOUS
<1>5. QED
  BY <1>3, <1>4, LoopTurns

-----------------------------------------------------------------------------
(* B's half is the engine of RelinowReceiver.                              *)

\* A frame that arrives is an event of the engine.
LEMMA ReceiveDataIsRx == ReceiveData => RxNext
  BY DEF ReceiveData, ReceiveFirst, ReceiveExpected, ReceiveAhead,
         ReceiveDuplicate, RxNext

\* Whatever the radio, the retransmissions and the buffers around it do, the
\* receive window of a link is one that RelinowReceiver describes; so what is
\* proved about the engine holds of the link.
THEOREM LinkRefinesReceiver == LinkSpec => RxSpec
<1>1. LinkInit => RxInit
  BY DEF LinkInit
<1>2. [LinkNext]_linkVars => [RxNext]_rxVars
  <2> SUFFICES ASSUME [LinkNext]_linkVars, ~(UNCHANGED rxVars) PROVE RxNext
    OBVIOUS
  <2>1. ~(UNCHANGED receiverVars)
    BY DEF receiverVars
  <2>2. \A k, onAir, whole, fragment : ~Transmit(k, onAir, whole, fragment)
    BY <2>1 DEF Transmit
  <2>3. ReceiveData
    BY <2>1, <2>2 DEF LinkNext, SendMessage, SendMessageError, SendTruncated, ReceiveAck,
           PollRetransmit, PollFailed, ReassemblyTimeout, linkVars
  <2>4. QED
    BY <2>3, ReceiveDataIsRx
<1>3. QED
  BY <1>1, <1>2, PTL DEF LinkSpec, RxSpec

-----------------------------------------------------------------------------
(* Order and type of what the nodes keep beside the engines.               *)

\* Nothing before the window is open, then frames up to the expected one.
Horizon == IF hasRxWindow THEN expectedRxSeq ELSE 0

OrderInv ==
    /\ fragmentedTx \subseteq SeqId
    /\ rxCache \subseteq SeqId /\ Cardinality(rxCache) <= RxCacheSize
    /\ InOrder(Start, Horizon)

LEMMA SeqIdsFinite == ASSUME NEW S \in SUBSET SeqId PROVE IsFiniteSet(S)
<1>1. IsFiniteSet(SeqId)
  BY FS_Interval, SeqSpaceAssumption DEF SeqId
<1>2. QED
  BY <1>1, FS_Subset

\* Looking a frame up, or storing it, keeps to the slots there are.
LEMMA CacheBounded ==
  ASSUME OrderInv, NEW s \in SeqId
  PROVE  /\ CacheOnArrival(s) \subseteq SeqId
         /\ Cardinality(CacheOnArrival(s)) <= RxCacheSize
<1>1. /\ IsFiniteSet(rxCache) /\ Cardinality(rxCache) \in Nat /\ RxCacheSize \in Nat
      /\ Cardinality(rxCache) <= RxCacheSize /\ rxCache \subseteq SeqId
  BY SeqIdsFinite, FS_CardinalityType, LinkAssumption DEF OrderInv
<1>2. CASE s \in rxCache
  <2>1. CacheOnArrival(s) = rxCache
    BY <1>2 DEF CacheOnArrival
  <2>2. QED
    BY <1>1, <2>1
<1>3. CASE s \notin rxCache /\ Cardinality(rxCache) < RxCacheSize
  <2>1. CacheOnArrival(s) = rxCache \cup {s}
    BY <1>3 DEF CacheOnArrival
  <2>2. Cardinality(rxCache \cup {s}) = Cardinality(rxCache) + 1
    BY <1>1, <1>3, FS_AddElement
  <2>3. QED
    BY <1>1, <1>3, <2>1, <2>2
<1>4. CASE s \notin rxCache /\ ~(Cardinality(rxCache) < RxCacheSize)
  <2>1. CacheOnArrival(s) = rxCache
    BY <1>4 DEF CacheOnArrival
  <2>2. QED
    BY <1>1, <2>1
<1>5. QED
  BY <1>2, <1>3, <1>4

LEMMA CacheShrinks ==
  ASSUME NEW cache \in SUBSET SeqId, Cardinality(cache) <= RxCacheSize,
         NEW S \in SUBSET cache
  PROVE  S \subseteq SeqId /\ Cardinality(S) <= RxCacheSize
<1>1. IsFiniteSet(cache)
  BY SeqIdsFinite
<1>2. /\ Cardinality(S) <= Cardinality(cache)
      /\ Cardinality(S) \in Nat /\ Cardinality(cache) \in Nat
  BY <1>1, FS_Subset, FS_CardinalityType
<1>3. QED
  BY <1>2, LinkAssumption

\* Steps that B takes no part in.
LEMMA OrderKept ==
  ASSUME OrderInv, UNCHANGED receiverVars, fragmentedTx' \subseteq SeqId
  PROVE  OrderInv'
<1>1. UNCHANGED <<hasRxWindow, expectedRxSeq, rxCache, reassembly, appLog>>
  BY DEF receiverVars, rxVars
<1>2. Horizon' = Horizon /\ Start' = Start
  BY <1>1 DEF Horizon, Start
<1>3. QED
  BY <1>1, <1>2 DEF OrderInv

\* A delivery: the frames from s on are handed over in their order.
LEMMA AcceptOrder ==
  ASSUME OrderInv, UNCHANGED fragmentedTx, NEW s \in SeqId, NEW n \in Nat,
         Accept(s, n), s + n + 1 < SeqSpace,
         hasRxWindow => expectedRxSeq = s,
         hasRxWindow', expectedRxSeq' = s + n + 1
  PROVE  OrderInv'
<1> DEFINE cache == CacheOnArrival(s)
           out == DeliveryLoop(s, n, cache)
<1>1. s \in Nat /\ s + n + 1 \in Nat /\ s <= s + n + 1 /\ SeqSpace \in Nat
  BY SeqSpaceAssumption DEF SeqId
<1>2. InOrder(Start, s)
  <2>1. Horizon \in Nat /\ Horizon <= s
    BY <1>1 DEF Horizon
  <2>2. QED
    BY <1>1, <2>1, InOrderLater DEF OrderInv
<1>3. \A k \in 0 .. n : SeqAdd(s, k) = s + k
  BY <1>1 DEF SeqAdd
<1>4. InOrder(out, s + n + 1)
  BY <1>1, <1>2, <1>3, LoopInOrder
<1>5. InOrder(Start, s + n + 1)
  BY <1>1, <1>2, InOrderLater
<1>6. cache \subseteq SeqId /\ Cardinality(cache) <= RxCacheSize
  BY CacheBounded
<1> HIDE DEF cache, out
<1>7. rxCache' \subseteq cache
  BY DEF Accept, cache
<1>8. rxCache' \subseteq SeqId /\ Cardinality(rxCache') <= RxCacheSize
  BY <1>6, <1>7, CacheShrinks
<1>9. Horizon' = s + n + 1
  BY DEF Horizon
<1>10. \/ reassembly' = reassembly /\ appLog' = appLog
       \/ reassembly' = out.buf /\ appLog' = out.log
  BY DEF Accept, cache, out
<1>11. InOrder(Start', s + n + 1)
  <2>1. Start'.buf = reassembly' /\ Start'.log = appLog'
    BY DEF Start
  <2>2. Start.buf = reassembly /\ Start.log = appLog
    BY DEF Start
  <2>3. QED
    BY <1>4, <1>5, <1>10, <2>1, <2>2 DEF InOrder
<1>12. QED
  BY <1>8, <1>9, <1>11 DEF OrderInv

\* A frame that is not delivered.
LEMMA RefuseOrder ==
  ASSUME OrderInv, UNCHANGED <<fragmentedTx, hasRxWindow, expectedRxSeq>>,
         NEW s \in SeqId, Refuse(s)
  PROVE  OrderInv'
<1>1. Horizon' = Horizon /\ Start' = Start
  BY DEF Horizon, Start, Refuse
<1>2. rxCache' \subseteq SeqId /\ Cardinality(rxCache') <= RxCacheSize
  BY CacheBounded DEF Refuse
<1>3. QED
  BY <1>1, <1>2 DEF OrderInv

\* Sending: the ids of the new fragments are tracked.
LEMMA TransmitOrder ==
  ASSUME LinkInv, OrderInv, NEW k \in Nat \ {0}, NEW onAir, NEW whole, NEW fragment,
         Transmit(k, onAir, whole, fragment)
  PROVE  OrderInv'
<1>1. nextTxSeq \in Nat /\ nextTxSeq + k <= MaxPackets
  BY LinkAssumption DEF LinkInv, SenderInv, Transmit
<1>2. Burst(k) = nextTxSeq .. nextTxSeq + k - 1
  BY <1>1, BurstIds
<1>3. Burst(k) \subseteq SeqId
  BY <1>1, <1>2, LinkAssumption, SeqSpaceAssumption DEF SeqId
<1>4. fragmentedTx' \subseteq SeqId /\ UNCHANGED receiverVars
  BY <1>3 DEF Transmit
<1>5. QED
  BY <1>4, OrderKept

LEMMA ReceiveDataOrder ==
  ASSUME LinkInv, OrderInv, ReceiveData
  PROVE  OrderInv'
<1>1. PICK s \in SeqId : \/ ReceiveFirst(s) \/ ReceiveExpected(s)
                         \/ ReceiveAhead(s) \/ ReceiveDuplicate(s)
  BY DEF ReceiveData
<1>2. s \in Used /\ UNCHANGED fragmentedTx
  BY <1>1 DEF LinkInv, SenderInv, ReceiveFirst, ReceiveExpected, ReceiveAhead,
              ReceiveDuplicate, TakeData, senderVars
<1>3. /\ nextTxSeq \in Nat /\ nextTxSeq < SeqSpace /\ SeqSpace \in Nat
      /\ s \in Nat /\ s < nextTxSeq
  BY <1>2, LinkAssumption, SeqSpaceAssumption DEF LinkInv, SenderInv, Used
<1>4. CASE ReceiveFirst(s)
  <2>1. ~hasRxWindow /\ hasRxWindow' /\ expectedRxSeq' = SeqNext(s) /\ Accept(s, 0)
    BY <1>4 DEF ReceiveFirst, OpenWindow
  <2>2. 0 \in Nat /\ s + 0 + 1 < SeqSpace /\ expectedRxSeq' = s + 0 + 1
    BY <1>3, <2>1 DEF SeqNext, SeqAdd
  <2>3. QED
    BY <1>2, <2>1, <2>2, AcceptOrder
<1>5. CASE ReceiveExpected(s)
  <2>1. PICK n \in 0 .. MaxReorder : DeliverRun(s, n) /\ Accept(s, n)
    BY <1>5 DEF ReceiveExpected
  <2>2. /\ hasRxWindow /\ hasRxWindow' /\ s = expectedRxSeq
        /\ IsRun(expectedRxSeq, n) /\ expectedRxSeq' = SeqAdd(expectedRxSeq, n + 1)
    BY <2>1 DEF DeliverRun
  <2>3. n \in Nat
    BY ReorderAssumption
  <2>4. expectedRxSeq' = s + n + 1 /\ s + n + 1 <= nextTxSeq
    BY <1>2, <2>2, RunWithinUsed DEF LinkInv
  <2>5. s + n + 1 < SeqSpace
    BY <1>3, <2>3, <2>4
  <2>6. QED
    BY <1>2, <2>1, <2>2, <2>3, <2>4, <2>5, AcceptOrder
<1>6. CASE ReceiveAhead(s) \/ ReceiveDuplicate(s)
  <2>1. UNCHANGED <<hasRxWindow, expectedRxSeq>> /\ Refuse(s)
    BY <1>6 DEF ReceiveAhead, ReceiveDuplicate, BufferAhead, DropAhead, Duplicate
  <2>2. QED
    BY <1>2, <2>1, RefuseOrder
<1>7. QED
  BY <1>1, <1>4, <1>5, <1>6

LEMMA OrderStep == LinkInv /\ OrderInv /\ [LinkNext]_linkVars => OrderInv'
<1> SUFFICES ASSUME LinkInv, OrderInv, [LinkNext]_linkVars PROVE OrderInv'
  OBVIOUS
<1>1. CASE SendMessage
  <2>1. PICK n \in 1 .. MaxFragments : Transmit(n, n, TRUE, n > 1)
    BY <1>1, SizesBounded DEF SendMessage
  <2>2. n \in Nat \ {0}
    BY LinkAssumption
  <2>3. QED
    BY <2>1, <2>2, TransmitOrder
<1>2. CASE SendMessageError
  <2>1. PICK n \in 1 .. MaxFragments :
          \E k \in 1 .. n : Transmit(k, k - 1, k = n, n > 1)
    BY <1>2, SizesBounded DEF SendMessageError
  <2>2. PICK k \in 1 .. n : Transmit(k, k - 1, k = n, n > 1)
    BY <2>1
  <2>3. k \in Nat \ {0}
    BY LinkAssumption
  <2>4. QED
    BY <2>2, <2>3, TransmitOrder
<1>3. CASE SendTruncated
  <2>1. PICK free : /\ free = MaxPending - Cardinality(Pending) /\ free > 0
                    /\ Transmit(free, free, FALSE, TRUE)
    BY <1>3 DEF SendTruncated
  <2>2. free \in Nat \ {0}
    BY <2>1, PendingCount, RetryAssumption
  <2>3. QED
    BY <2>1, <2>2, TransmitOrder
<1>4. CASE ReceiveAck \/ PollRetransmit \/ PollFailed \/ UNCHANGED linkVars
  <2>1. UNCHANGED receiverVars /\ fragmentedTx' \subseteq fragmentedTx
    BY <1>4 DEF ReceiveAck, PollRetransmit, PollFailed, linkVars, senderVars
  <2>2. fragmentedTx' \subseteq SeqId
    BY <2>1 DEF OrderInv
  <2>3. QED
    BY <2>1, <2>2, OrderKept
<1>5. CASE ReassemblyTimeout
  <2>1. /\ UNCHANGED <<fragmentedTx, hasRxWindow, expectedRxSeq, rxCache, appLog>>
        /\ reassembly' = <<>>
    BY <1>5 DEF ReassemblyTimeout, senderVars, rxVars
  <2>2. Horizon' = Horizon /\ Horizon \in Nat
    BY <2>1 DEF Horizon, LinkInv, ReceiverInv
  <2>3. /\ appLog \in Seq(Seq(Nat)) /\ reassembly \in Seq(Nat)
        /\ Ordered(Append(appLog, reassembly), Horizon)
    BY DEF OrderInv, InOrder, Start
  <2>4. Ordered(Append(appLog, <<>>), Horizon)
    BY <2>2, <2>3, OrderedReset
  <2>5. Start'.buf = <<>> /\ Start'.log = appLog
    BY <2>1 DEF Start
  <2>6. <<>> \in Seq(Nat) /\ Len(<<>>) = 0 /\ MaxReassembly \in Nat
    BY LinkAssumption
  <2>7. InOrder(Start', Horizon)
    BY <2>3, <2>4, <2>5, <2>6 DEF InOrder
  <2>8. QED
    BY <2>1, <2>2, <2>7 DEF OrderInv
<1>6. QED
  BY <1>1, <1>2, <1>3, <1>4, <1>5, ReceiveDataOrder DEF LinkNext

LEMMA OrderInit == LinkInit => OrderInv
<1> SUFFICES ASSUME LinkInit PROVE OrderInv
  OBVIOUS
<1>1. /\ fragmentedTx = {} /\ rxCache = {} /\ Horizon = 0
      /\ Start.buf = <<>> /\ Start.log = <<>>
  BY DEF LinkInit, RxInit, Horizon, Start
<1>2. /\ <<>> \in Seq(Nat) /\ <<>> \in Seq(Seq(Nat)) /\ Len(<<>>) = 0
      /\ MaxReassembly \in Nat /\ RxCacheSize \in Nat
  BY LinkAssumption
<1>3. Ordered(<<>>, 0)
  BY <1>2 DEF Ordered
<1>4. Ordered(Append(<<>>, <<>>), 0)
  BY <1>3, OrderedOpen
<1>5. InOrder(Start, Horizon)
  BY <1>1, <1>2, <1>4 DEF InOrder
<1>6. Cardinality({}) = 0
  BY FS_EmptySet
<1>7. QED
  BY <1>1, <1>2, <1>5, <1>6 DEF OrderInv

\* Order and types hold of every execution.
THEOREM OrderInvariant == LinkSpec => []OrderInv
<1>1. QED
  BY OrderInit, OrderStep, LinkInvariant, PTL DEF LinkSpec

\* Frames reach the application, or wait for the rest of their message, once
\* and in the order of sending: the delivery loop of relinow_on_receive never
\* goes back, whatever was lost, repeated, refused or reset around it.
THEOREM LinkFramesInOrder == LinkSpec => []FramesInOrder
<1>1. OrderInv => FramesInOrder
  BY DEF OrderInv, InOrder, Ordered, Start, FramesInOrder
<1>2. QED
  BY <1>1, OrderInvariant, PTL

LEMMA LinkTypes == LinkInv /\ OrderInv => LinkTypeOK
<1> SUFFICES ASSUME LinkInv, OrderInv PROVE LinkTypeOK
  OBVIOUS
<1>1. Used \subseteq SeqId
  BY LinkAssumption, SeqSpaceAssumption DEF Used, SeqId, LinkInv, SenderInv
<1>2. txCache \subseteq SeqId /\ dataNet \subseteq SeqId
  BY <1>1 DEF LinkInv, SenderInv, TxCacheMirrors
<1>3. ackNet \subseteq SeqId
  <2> SUFFICES ASSUME NEW a \in ackNet PROVE a \in SeqId
    OBVIOUS
  <2>1. hasRxWindow /\ a \in Nat /\ a < expectedRxSeq /\ expectedRxSeq \in 1 .. nextTxSeq
    BY DEF LinkInv, ReceiverInv
  <2>2. a \in Used
    BY <2>1, LinkAssumption DEF LinkInv, SenderInv, Used
  <2>3. QED
    BY <1>1, <2>2
<1>4. ASSUME NEW m \in DOMAIN messages
      PROVE  messages[m].frames \in Seq(SeqId) /\ messages[m].whole \in BOOLEAN
  <2>1. messages[m] \in Message
    BY DEF LinkInv, SenderInv
  <2>2. PICK k \in Nat : messages[m].frames \in [1 .. k -> Nat]
    BY <2>1 DEF Message
  <2>3. messages[m].frames \in Seq(Nat) /\ DOMAIN messages[m].frames = 1 .. k
    BY <2>2
  <2>4. \A p \in 1 .. k : messages[m].frames[p] \in SeqId
    <3>1. ToSet(messages[m].frames) \subseteq Used
      BY DEF Sent, LinkInv, SenderInv
    <3>2. QED
      BY <1>1, <2>3, <3>1 DEF ToSet
  <2>5. messages[m].frames \in [1 .. k -> SeqId]
    BY <2>2, <2>4
  <2>6. QED
    BY <2>1, <2>5 DEF Message
<1>5. ASSUME NEW f \in Seq(Nat), \A p \in DOMAIN f : f[p] < Horizon
      PROVE  f \in Seq(SeqId)
  <2>1. \A p \in DOMAIN f : f[p] \in Nat
    OBVIOUS
  <2>2. Horizon \in Nat /\ Horizon <= nextTxSeq /\ nextTxSeq \in Nat
    BY LinkAssumption DEF Horizon, LinkInv, SenderInv, ReceiverInv
  <2>3. \A p \in DOMAIN f : f[p] \in Used
    BY <1>5, <2>1, <2>2 DEF Used
  <2>4. f \in [1 .. Len(f) -> SeqId] /\ Len(f) \in Nat
    BY <1>1, <2>3
  <2>5. QED
    BY <2>4
<1>6. /\ appLog \in Seq(Seq(Nat)) /\ reassembly \in Seq(Nat)
      /\ Len(reassembly) <= MaxReassembly
      /\ Ordered(Append(appLog, reassembly), Horizon)
  BY DEF OrderInv, InOrder, Start
<1> DEFINE h == Append(appLog, reassembly)
<1>7. /\ \A i \in DOMAIN appLog : i \in DOMAIN h /\ h[i] = appLog[i] /\ appLog[i] \in Seq(Nat)
      /\ Len(appLog) + 1 \in DOMAIN h /\ h[Len(appLog) + 1] = reassembly
  BY <1>6
<1>8. Ordered(h, Horizon)
  BY <1>6
<1> HIDE DEF h
<1>9. \A i \in DOMAIN appLog : appLog[i] \in Seq(SeqId)
  <2> SUFFICES ASSUME NEW i \in DOMAIN appLog PROVE appLog[i] \in Seq(SeqId)
    OBVIOUS
  <2>1. appLog[i] \in Seq(Nat) /\ \A p \in DOMAIN appLog[i] : appLog[i][p] < Horizon
    BY <1>7, <1>8 DEF Ordered
  <2>2. QED
    BY <1>5, <2>1
<1>10. reassembly \in Seq(SeqId)
  <2>1. \A p \in DOMAIN reassembly : reassembly[p] < Horizon
    BY <1>7, <1>8 DEF Ordered
  <2>2. QED
    BY <1>5, <1>6, <2>1
<1>11. QED
  BY <1>2, <1>3, <1>4, <1>6, <1>9, <1>10 DEF LinkTypeOK, OrderInv

\* The caches, the tracking of fragments and the reassembly buffer keep to
\* their slots and ids, whatever arrives and whatever is refused.
THEOREM LinkTypeCorrect == LinkSpec => []LinkTypeOK
<1>1. QED
  BY LinkTypes, LinkInvariant, OrderInvariant, PTL

-----------------------------------------------------------------------------
(* The submitted messages.  Whatever is sent, whole or cut short, the      *)
(* messages lie one after the other over the ids, without gap or overlap.  *)

\* The first id of message m, or of the next message to be sent.
FirstId(m) == IF m \in DOMAIN messages THEN messages[m].frames[1] ELSE nextTxSeq

\* The ids of message m begin at FirstId(m) and end where those of the next
\* one begin.  One that was not cut short keeps to the size of a message.
LaidOut(m) ==
    LET f == messages[m].frames
    IN  /\ f \in Seq(Nat) /\ Len(f) \in Nat \ {0}
        /\ messages[m].whole => Len(f) <= MaxFragments
        /\ messages[m].whole /\ ~ColdFragments /\ ~hasRxWindow => Len(f) = 1
        /\ FirstId(m + 1) = FirstId(m) + Len(f)
        /\ \A p \in 1 .. Len(f) : f[p] = FirstId(m) + (p - 1)

MessagesInv ==
    /\ messages \in Seq(Message)
    /\ Used \subseteq Sent
    /\ \A m \in DOMAIN messages : LaidOut(m)

\* A message more.
LEMMA TransmitMessages ==
  ASSUME LinkInv, MessagesInv, NEW k \in Nat \ {0}, NEW onAir,
         NEW whole \in BOOLEAN, NEW fragment,
         whole => k <= MaxFragments,
         whole /\ ~ColdFragments /\ ~hasRxWindow => k = 1,
         Transmit(k, onAir, whole, fragment)
  PROVE  /\ MessagesInv'
         /\ DOMAIN messages \subseteq DOMAIN messages'
         /\ \A m \in DOMAIN messages : messages'[m] = messages[m]
         /\ \A m \in 1 .. Len(messages) + 1 : FirstId(m)' = FirstId(m)
         /\ Len(messages') = Len(messages) + 1
<1>1. /\ nextTxSeq \in Nat /\ nextTxSeq + k <= MaxPackets /\ k \in Nat \ {0}
      /\ nextTxSeq' = SeqAdd(nextTxSeq, k) /\ hasRxWindow' = hasRxWindow
  BY LinkAssumption DEF LinkInv, SenderInv, Transmit, SendBurst, receiverVars, rxVars
<1>2. /\ ToSet(Frames(k)) = nextTxSeq .. nextTxSeq + k - 1
      /\ Frames(k) \in [1 .. k -> Nat] /\ nextTxSeq' = nextTxSeq + k
  BY <1>1, BurstIds
<1>3. /\ Frames(k) \in Seq(Nat) /\ Len(Frames(k)) = k
      /\ \A p \in 1 .. k : Frames(k)[p] = nextTxSeq + (p - 1)
  <2>1. \A p \in 1 .. k : SeqAdd(nextTxSeq, p - 1) = nextTxSeq + (p - 1)
    BY <1>1, LinkAssumption, SeqSpaceAssumption DEF SeqAdd
  <2>2. \A f \in [1 .. k -> Nat] : f \in Seq(Nat) /\ Len(f) = k
    BY <1>1
  <2>3. QED
    BY <1>2, <2>1, <2>2 DEF Frames
<1>4. PICK new : new = [frames |-> Frames(k), whole |-> whole]
  OBVIOUS
<1>5. new.frames = Frames(k) /\ new.whole = whole /\ new \in Message
  BY <1>1, <1>2, <1>4 DEF Message
<1>6. messages' = Append(messages, new) /\ messages \in Seq(Message)
  BY <1>4 DEF Transmit, MessagesInv
<1>0. PICK N : N = Len(messages)
  OBVIOUS
<1>7. /\ N \in Nat /\ DOMAIN messages = 1 .. N /\ DOMAIN messages' = 1 .. N + 1
      /\ Len(messages') = N + 1 /\ messages' \in Seq(Message)
      /\ \A m \in 1 .. N : messages'[m] = messages[m]
      /\ messages'[N + 1] = new
  BY <1>0, <1>5, <1>6
<1>8. Sent' = Sent \cup ToSet(Frames(k))
  BY <1>5, <1>6, SentAppend
<1>9. Used' \subseteq Sent'
  <2>1. Used' = Used \cup (nextTxSeq .. nextTxSeq + k - 1)
    BY <1>1, <1>2 DEF Used
  <2>2. QED
    BY <1>2, <1>8, <2>1 DEF MessagesInv
<1>10. /\ \A m \in 1 .. N + 1 : FirstId(m)' = FirstId(m)
       /\ FirstId(N + 1) = nextTxSeq /\ FirstId(N + 2)' = nextTxSeq + k
  <2>1. \A m \in 1 .. N : FirstId(m)' = FirstId(m)
    BY <1>7 DEF FirstId
  <2>2. N + 1 \notin DOMAIN messages /\ N + 1 \in DOMAIN messages' /\ N + 2 \notin DOMAIN messages'
    BY <1>7
  <2>3. FirstId(N + 1) = nextTxSeq /\ FirstId(N + 2)' = nextTxSeq + k
    BY <1>2, <2>2 DEF FirstId
  <2>4. FirstId(N + 1)' = nextTxSeq
    <3>1. Frames(k)[1] = nextTxSeq
      BY <1>1, <1>3
    <3>2. QED
      BY <1>5, <1>7, <2>2, <3>1 DEF FirstId
  <2>5. \A m \in 1 .. N + 1 : m \in 1 .. N \/ m = N + 1
    BY <1>7
  <2>6. QED
    BY <2>1, <2>3, <2>4, <2>5
<1>11. ASSUME NEW m \in 1 .. N PROVE LaidOut(m)'
  <2>1. LaidOut(m) /\ messages'[m] = messages[m]
    BY <1>7 DEF MessagesInv
  <2>2. FirstId(m)' = FirstId(m) /\ FirstId(m + 1)' = FirstId(m + 1)
    <3>1. m \in 1 .. N + 1 /\ m + 1 \in 1 .. N + 1
      BY <1>7
    <3>2. QED
      BY <1>10, <3>1
  <2>3. QED
    BY <1>1, <2>1, <2>2 DEF LaidOut
<1>12. LaidOut(N + 1)'
  <2>1. FirstId((N + 1) + 1)' = FirstId(N + 1)' + k
    <3>1. (N + 1) + 1 = N + 2 /\ N + 1 \in 1 .. N + 1
      BY <1>7
    <3>2. QED
      BY <1>10, <3>1
  <2>2. FirstId(N + 1)' = nextTxSeq
    BY <1>7, <1>10
  <2>3. QED
    BY <1>1, <1>3, <1>5, <1>7, <2>1, <2>2 DEF LaidOut
<1>13. \A m \in DOMAIN messages' : LaidOut(m)'
  BY <1>7, <1>11, <1>12
<1>14. QED
  BY <1>0, <1>7, <1>9, <1>10, <1>13 DEF MessagesInv

\* Steps that add nothing to what was submitted.
LEMMA MessagesKept ==
  ASSUME MessagesInv, UNCHANGED <<messages, nextTxSeq>>, hasRxWindow => hasRxWindow'
  PROVE  MessagesInv'
<1>1. Used' = Used /\ Sent' = Sent /\ \A m : FirstId(m)' = FirstId(m)
  BY DEF Used, Sent, ToSet, FirstId
<1>2. \A m \in DOMAIN messages' : LaidOut(m)'
  BY <1>1 DEF MessagesInv, LaidOut
<1>3. QED
  BY <1>1, <1>2 DEF MessagesInv

\* A call of relinow_send_reliable, as far as it gets.
LEMMA SendIsTransmit ==
  ASSUME LinkInv, SendMessage \/ SendMessageError \/ SendTruncated
  PROVE  \E k \in Nat \ {0} : \E onAir, whole, fragment :
            /\ Transmit(k, onAir, whole, fragment) /\ whole \in BOOLEAN
            /\ whole => k <= MaxFragments
            /\ whole /\ ~ColdFragments /\ ~hasRxWindow => k = 1
<1>1. Sizes \subseteq 1 .. MaxFragments /\ (~ColdFragments /\ ~hasRxWindow => Sizes = {1})
  BY SizesBounded DEF Sizes
<1>2. MaxFragments \in Nat
  BY LinkAssumption
<1>3. CASE SendMessage
  <2>1. PICK n \in Sizes : Transmit(n, n, TRUE, n > 1)
    BY <1>3 DEF SendMessage
  <2>2. /\ n \in Nat \ {0} /\ n <= MaxFragments
        /\ ~ColdFragments /\ ~hasRxWindow => n = 1
    BY <1>1, <1>2
  <2>3. TRUE \in BOOLEAN
    OBVIOUS
  <2>4. QED
    BY <2>1, <2>2, <2>3, Zenon
<1>4. CASE SendMessageError
  <2>1. PICK n \in Sizes : \E k \in 1 .. n : Transmit(k, k - 1, k = n, n > 1)
    BY <1>4 DEF SendMessageError
  <2>2. PICK k \in 1 .. n : Transmit(k, k - 1, k = n, n > 1)
    BY <2>1
  <2>3. n \in 1 .. MaxFragments /\ (~ColdFragments /\ ~hasRxWindow => n = 1)
    BY <1>1
  <2>4. /\ k \in Nat \ {0} /\ k <= MaxFragments
        /\ ~ColdFragments /\ ~hasRxWindow => k = 1
    BY <1>2, <2>3
  <2>5. (k = n) \in BOOLEAN
    OBVIOUS
  <2>6. QED
    BY <2>2, <2>4, <2>5, Zenon
<1>5. CASE SendTruncated
  <2>1. PICK free : /\ free = MaxPending - Cardinality(Pending) /\ free > 0
                    /\ Transmit(free, free, FALSE, TRUE)
    BY <1>5 DEF SendTruncated
  <2>2. free \in Nat \ {0} /\ FALSE \in BOOLEAN
    BY <2>1, PendingCount, RetryAssumption
  <2>3. QED
    BY <2>1, <2>2, Zenon
<1>6. QED
  BY <1>3, <1>4, <1>5

LEMMA MessagesStep == LinkInv /\ MessagesInv /\ [LinkNext]_linkVars => MessagesInv'
<1> SUFFICES ASSUME LinkInv, MessagesInv, [LinkNext]_linkVars PROVE MessagesInv'
  OBVIOUS
<1>1. CASE SendMessage \/ SendMessageError \/ SendTruncated
  BY <1>1, SendIsTransmit, TransmitMessages
<1>2. CASE ReceiveAck \/ PollRetransmit \/ PollFailed
  <2>1. UNCHANGED <<messages, nextTxSeq, hasRxWindow>>
    BY <1>2 DEF ReceiveAck, PollRetransmit, PollFailed, Acked, Retransmit, Fail, retryVars,
                receiverVars, rxVars
  <2>2. QED
    BY <2>1, MessagesKept
<1>3. CASE ReceiveData
  <2>1. UNCHANGED senderVars /\ (hasRxWindow => hasRxWindow')
    BY <1>3 DEF ReceiveData, ReceiveFirst, ReceiveExpected, ReceiveAhead,
                ReceiveDuplicate, TakeData, OpenWindow, DeliverRun, BufferAhead,
                DropAhead, Duplicate
  <2>2. QED
    BY <2>1, MessagesKept DEF senderVars
<1>4. CASE ReassemblyTimeout \/ UNCHANGED linkVars
  <2>1. UNCHANGED <<messages, nextTxSeq, hasRxWindow>>
    BY <1>4 DEF ReassemblyTimeout, linkVars, senderVars, receiverVars, rxVars
  <2>2. QED
    BY <2>1, MessagesKept
<1>5. QED
  BY <1>1, <1>2, <1>3, <1>4 DEF LinkNext

LEMMA MessagesInit == LinkInit => MessagesInv
<1> SUFFICES ASSUME LinkInit PROVE MessagesInv
  OBVIOUS
<1>1. nextTxSeq = 0 /\ messages = <<>>
  BY DEF LinkInit, RetryInit
<1>2. <<>> \in Seq(Message) /\ DOMAIN messages = {} /\ Used = {}
  BY <1>1 DEF Used
<1>3. QED
  BY <1>1, <1>2 DEF MessagesInv

\* The messages of every execution are laid out so.
THEOREM MessagesInvariant == LinkSpec => []MessagesInv
<1>1. QED
  BY MessagesInit, MessagesStep, LinkInvariant, PTL DEF LinkSpec

\* Where an id lies among the messages: b frames after the first of message c.
Place(c, b, d) ==
    /\ c \in 1 .. Len(messages) + 1 /\ b \in Nat
    /\ d = FirstId(c) + b
    /\ b > 0 => c <= Len(messages) /\ b < Len(messages[c].frames)

\* An id in use is a frame of the message that it lies in.
LEMMA FrameAt ==
  ASSUME LinkInv, MessagesInv, FragmentsInv, NEW c, NEW b, NEW d \in Nat, d < nextTxSeq,
         Place(c, b, d)
  PROVE  LET f == messages[c].frames
         IN  /\ c \in DOMAIN messages /\ f \in Seq(Nat) /\ b < Len(f) /\ f[b + 1] = d
             /\ FirstId(c) \in Nat /\ MessageOf(d) = messages[c]
             /\ IsFragment(d) <=> ~messages[c].whole \/ Len(f) > 1
             /\ IsLastFragment(d) <=> messages[c].whole /\ b + 1 = Len(f)
<1>0. PICK f : f = messages[c].frames
  OBVIOUS
<1>1. /\ messages \in Seq(Message) /\ DOMAIN messages = 1 .. Len(messages)
      /\ Len(messages) \in Nat /\ b \in Nat
      /\ c \in 1 .. Len(messages) + 1
      /\ d = FirstId(c) + b
  BY DEF MessagesInv, Place
<1> nextTxSeq \in Nat
  BY LinkAssumption DEF LinkInv, SenderInv
<1>2. c \in DOMAIN messages
  <2> SUFFICES ASSUME c = Len(messages) + 1 PROVE FALSE
    BY <1>1
  <2>1. b = 0
    BY <1>1 DEF Place
  <2>2. FirstId(c) = nextTxSeq
    BY <1>1 DEF FirstId
  <2>3. QED
    BY <1>1, <2>1, <2>2
<1>3. /\ f \in Seq(Nat) /\ Len(f) \in Nat \ {0}
      /\ \A p \in 1 .. Len(f) : f[p] = FirstId(c) + (p - 1)
  <2>1. LaidOut(c)
    BY <1>2 DEF MessagesInv
  <2>2. QED
    BY <1>0, <2>1 DEF LaidOut
<1>4. b < Len(f)
  BY <1>0, <1>1, <1>3 DEF Place
<1>5. FirstId(c) = f[1] /\ FirstId(c) \in Nat
  <2>1. FirstId(c) = f[1]
    BY <1>0, <1>2 DEF FirstId
  <2>2. 1 \in 1 .. Len(f)
    BY <1>3
  <2>3. f[1] \in Nat
    BY <1>3, <2>2, ElementOfSeq
  <2>4. QED
    BY <2>1, <2>3
<1>6. b + 1 \in 1 .. Len(f) /\ f[b + 1] = d
  BY <1>1, <1>3, <1>4, <1>5
<1>7. d \in FrameIds(c)
  <2>1. DOMAIN f = 1 .. Len(f)
    BY <1>3
  <2>2. d \in ToSet(f)
    BY <1>6, <2>1 DEF ToSet
  <2>3. QED
    BY <1>0, <2>2 DEF FrameIds
<1>8. MessageOf(d) = messages[c]
  BY <1>2, <1>7, MessageOfIs DEF FragmentsInv
<1>9. IsFragment(d) <=> ~messages[c].whole \/ Len(f) > 1
  BY <1>0, <1>8 DEF IsFragment
<1>10. IsLastFragment(d) <=> messages[c].whole /\ b + 1 = Len(f)
  <2>1. Last(f) = f[Len(f)] /\ f[Len(f)] = FirstId(c) + (Len(f) - 1)
    BY <1>3 DEF Last
  <2>2. IsLastFragment(d) <=> messages[c].whole /\ d = Last(f)
    BY <1>0, <1>8 DEF IsLastFragment
  <2>3. d = f[Len(f)] <=> b = Len(f) - 1
    <3>1. /\ d = FirstId(c) + b /\ FirstId(c) \in Nat /\ b \in Nat
          /\ Len(f) \in Nat
      BY <1>1, <1>3, <1>5
    <3>2. QED
      BY <2>1, <3>1
  <2>4. b = Len(f) - 1 <=> b + 1 = Len(f)
    BY <1>1, <1>3
  <2>5. QED
    BY <2>1, <2>2, <2>3, <2>4
<1>11. QED
  BY <1>0, <1>2, <1>3, <1>4, <1>5, <1>6, <1>8, <1>9, <1>10

CachedSent == rxCache \subseteq Used

\* Only frames that were sent are cached, under every disturbance.
LEMMA CachedSentStep ==
  ASSUME LinkInv, CachedSent, [LinkNext]_linkVars
  PROVE  CachedSent'
<1>1. CASE SendMessage \/ SendMessageError \/ SendTruncated
  <2>1. PICK k \in Nat \ {0} : \E onAir, whole, fragment :
               Transmit(k, onAir, whole, fragment)
    BY <1>1, SendIsTransmit
  <2>2. nextTxSeq' = nextTxSeq + k /\ rxCache' = rxCache /\ nextTxSeq \in Nat
    BY <2>1, LinkAssumption, BurstIds
       DEF Transmit, SendBurst, receiverVars, LinkInv, SenderInv
  <2>3. QED
    BY <2>2 DEF Used, CachedSent
<1>2. CASE ReceiveData
  <2>1. PICK s \in SeqId : \/ ReceiveFirst(s) \/ ReceiveExpected(s)
                           \/ ReceiveAhead(s) \/ ReceiveDuplicate(s)
    BY <1>2 DEF ReceiveData
  <2>2. /\ s \in dataNet /\ Used' = Used /\ s \in Used
    BY <2>1 DEF ReceiveFirst, ReceiveExpected, ReceiveAhead, ReceiveDuplicate,
                TakeData, senderVars, Used, LinkInv, SenderInv
  <2>3. rxCache' \subseteq CacheOnArrival(s)
    BY <2>1 DEF ReceiveFirst, ReceiveExpected, ReceiveAhead, ReceiveDuplicate,
                Accept, Refuse
  <2>4. CacheOnArrival(s) \subseteq rxCache \cup {s}
    BY DEF CacheOnArrival
  <2>5. QED
    BY <2>2, <2>3, <2>4 DEF CachedSent
<1>3. CASE \/ ReceiveAck \/ PollRetransmit \/ PollFailed \/ ReassemblyTimeout
           \/ UNCHANGED linkVars
  <2>1. UNCHANGED <<rxCache, nextTxSeq>>
    BY <1>3 DEF ReceiveAck, PollRetransmit, PollFailed, ReassemblyTimeout, linkVars,
                senderVars, receiverVars, Acked, Retransmit, Fail, retryVars
  <2>2. QED
    BY <2>1 DEF Used, CachedSent
<1>4. QED
  BY <1>1, <1>2, <1>3 DEF LinkNext

THEOREM CachedSentInvariant == LinkSpec => []CachedSent
<1>1. LinkInit => CachedSent
  BY DEF LinkInit, CachedSent
<1>2. LinkInv /\ CachedSent /\ [LinkNext]_linkVars => CachedSent'
  BY CachedSentStep
<1>3. QED
  BY <1>1, <1>2, LinkInvariant, PTL DEF LinkSpec

-----------------------------------------------------------------------------
(* What is handed over, in every execution: only messages that end as a    *)
(* submitted one does, and no frame without a place in the receive queue.  *)

HandedIn(acc) == (UNION {ToSet(acc.log[i]) : i \in DOMAIN acc.log}) \cup ToSet(acc.buf)

\* What has been handed over, frame by frame.
LEMMA HandedInIs ==
  ASSUME NEW acc, NEW x
  PROVE  x \in HandedIn(acc) <=> \/ \E i \in DOMAIN acc.log : x \in ToSet(acc.log[i])
                                 \/ x \in ToSet(acc.buf)
<1> DEFINE S == {ToSet(acc.log[i]) : i \in DOMAIN acc.log}
<1>1. x \in UNION S <=> \E T \in S : x \in T
  OBVIOUS
<1>2. ASSUME NEW i \in DOMAIN acc.log, x \in ToSet(acc.log[i]) PROVE x \in UNION S
  BY <1>2
<1>3. ASSUME x \in UNION S PROVE \E i \in DOMAIN acc.log : x \in ToSet(acc.log[i])
  BY <1>1, <1>3
<1>4. HandedIn(acc) = (UNION S) \cup ToSet(acc.buf)
  BY DEF HandedIn
<1> HIDE DEF S
<1>5. x \in HandedIn(acc) <=> x \in UNION S \/ x \in ToSet(acc.buf)
  BY <1>4
<1>6. x \in UNION S <=> \E i \in DOMAIN acc.log : x \in ToSet(acc.log[i])
  BY <1>2, <1>3
<1>7. QED
  BY <1>5, <1>6

LEMMA HandedStart == Handed = HandedIn(Start)
  BY DEF Handed, HandedIn, Start

Ends(f) ==
    \E m \in DOMAIN messages :
        /\ messages[m].whole
        /\ f # <<>> /\ Last(f) = Last(messages[m].frames)

Ended(acc) ==
    /\ acc.log \in Seq(Seq(Nat)) /\ acc.buf \in Seq(Nat)
    /\ \A i \in DOMAIN acc.log : Ends(acc.log[i])

\* The last frame of a message, with whatever precedes it.
LEMMA LastFrameEnds ==
  ASSUME MessagesInv, FragmentsInv, NEW d \in Used, NEW buf \in Seq(Nat),
         IsLastFragment(d) \/ (~IsFragment(d) /\ buf = <<>>)
  PROVE  Append(buf, d) \in Seq(Nat) /\ Ends(Append(buf, d))
<1>1. d \in Nat
  BY DEF Used
<1>2. PICK e : e = Append(buf, d)
  OBVIOUS
<1>3. e \in Seq(Nat) /\ e # <<>> /\ Last(e) = d
  <2>1. e \in Seq(Nat) /\ Len(e) = Len(buf) + 1 /\ e[Len(buf) + 1] = d /\ Len(buf) \in Nat
    BY <1>1, <1>2
  <2>2. e # <<>>
    BY <2>1
  <2>3. QED
    BY <2>1, <2>2 DEF Last
<1>4. PICK m \in DOMAIN messages : d \in FrameIds(m)
  BY DEF MessagesInv, Sent, FrameIds
<1>5. MessageOf(d) = messages[m] /\ messages[m].frames \in Seq(Nat)
  BY <1>4, MessageOfIs DEF FragmentsInv
<1>6. CASE IsLastFragment(d)
  BY <1>2, <1>3, <1>5, <1>6 DEF IsLastFragment, Ends
<1>7. CASE ~IsFragment(d) /\ buf = <<>>
  <2>1. PICK f : f = messages[m].frames
    OBVIOUS
  <2>2. messages[m].whole /\ ~(Len(f) > 1) /\ f \in Seq(Nat) /\ d \in ToSet(f)
    BY <1>4, <1>5, <1>7, <2>1 DEF IsFragment, FrameIds
  <2>3. Len(f) = 1 /\ f[1] = d
    <3>1. Len(f) \in Nat /\ DOMAIN f = 1 .. Len(f) /\ \E p \in DOMAIN f : f[p] = d
      BY <2>2 DEF ToSet
    <3>2. QED
      BY <2>2, <3>1
  <2>4. Last(f) = d
    BY <2>3 DEF Last
  <2>5. QED
    BY <1>2, <1>3, <2>1, <2>2, <2>4 DEF Ends
<1>8. QED
  BY <1>6, <1>7

\* A message more in the log.
LEMMA OneMoreEnded ==
  ASSUME NEW acc, Ended(acc), NEW e \in Seq(Nat), Ends(e), NEW out,
         out.log = Append(acc.log, e), out.buf = <<>>
  PROVE  Ended(out) /\ HandedIn(out) \subseteq HandedIn(acc) \cup ToSet(e)
<1>0. PICK log, L : log = acc.log /\ L = Len(log)
  OBVIOUS
<1>1. log \in Seq(Seq(Nat)) /\ \A i \in DOMAIN log : Ends(log[i])
  BY <1>0 DEF Ended
<1>2. /\ Append(log, e) \in Seq(Seq(Nat)) /\ DOMAIN Append(log, e) = 1 .. L + 1
      /\ DOMAIN log = 1 .. L /\ L \in Nat
      /\ Append(log, e)[L + 1] = e
      /\ \A i \in 1 .. L : Append(log, e)[i] = log[i]
  BY <1>0, <1>1
<1>3. \A i \in DOMAIN out.log :
         out.log[i] = e \/ (i \in DOMAIN acc.log /\ out.log[i] = acc.log[i])
  <2>1. \A i \in 1 .. L + 1 : i \in 1 .. L \/ i = L + 1
    BY <1>2
  <2>2. QED
    BY <1>0, <1>2, <2>1
<1>4. out.log \in Seq(Seq(Nat)) /\ out.buf \in Seq(Nat) /\ ToSet(out.buf) = {}
  BY <1>0, <1>2 DEF ToSet
<1>5. Ended(out)
  BY <1>3, <1>4 DEF Ended
<1>6. ASSUME NEW x \in HandedIn(out) PROVE x \in HandedIn(acc) \cup ToSet(e)
  <2>1. PICK i \in DOMAIN out.log : x \in ToSet(out.log[i])
    BY <1>4, <1>6, HandedInIs
  <2>2. QED
    BY <1>3, <2>1, HandedInIs
<1>7. QED
  BY <1>5, <1>6

\* A turn hands over its own frame at most, and completes a message with the
\* last frame of one only.
LEMMA TurnEnds ==
  ASSUME MessagesInv, FragmentsInv, NEW acc, Ended(acc), NEW d \in Used, NEW cache
  PROVE  LET out == Turn(acc, d, cache)
         IN  Ended(out) /\ HandedIn(out) \subseteq HandedIn(acc) \cup {d}
<1>0. PICK log, buf, out : log = acc.log /\ buf = acc.buf /\ out = Turn(acc, d, cache)
  OBVIOUS
<1>1. d \in Nat /\ log \in Seq(Seq(Nat)) /\ buf \in Seq(Nat)
  BY <1>0 DEF Ended, Used
<1>2. ToSet(<<>>) = {} /\ <<>> \in Seq(Nat)
  BY DEF ToSet
<1>3. ToSet(Append(buf, d)) \subseteq ToSet(buf) \cup {d}
  <2>1. /\ DOMAIN buf = 1 .. Len(buf) /\ Len(buf) \in Nat
        /\ DOMAIN Append(buf, d) = 1 .. Len(buf) + 1
        /\ \A p \in 1 .. Len(buf) : Append(buf, d)[p] = buf[p]
        /\ Append(buf, d)[Len(buf) + 1] = d
    BY <1>1
  <2>2. DOMAIN Append(buf, d) = DOMAIN buf \cup {Len(buf) + 1}
    BY <2>1
  <2>3. QED
    BY <2>1, <2>2 DEF ToSet
<1>4. ToSet(buf) \subseteq HandedIn(acc)
  BY <1>0 DEF HandedIn
<1>5. CASE d \notin cache
  BY <1>0, <1>5 DEF Turn
<1>6. CASE d \in cache /\ ~IsFragment(d)
  <2>1. out = [buf |-> <<>>, log |-> Append(log, <<d>>)]
    BY <1>0, <1>6 DEF Turn, HandOver
  <2>2. out.buf = <<>> /\ out.log = Append(acc.log, <<d>>)
    BY <1>0, <2>1
  <2>3. Append(<<>>, d) = <<d>>
    OBVIOUS
  <2>4. <<d>> \in Seq(Nat) /\ Ends(<<d>>)
    BY <1>2, <1>6, <2>3, LastFrameEnds
  <2>5. ToSet(<<d>>) = {d}
    BY DEF ToSet
  <2>6. QED
    BY <1>0, <2>2, <2>4, <2>5, OneMoreEnded
<1>7. CASE d \in cache /\ IsFragment(d) /\ Len(buf) >= MaxReassembly
  <2>1. out = [buf |-> <<>>, log |-> log]
    BY <1>0, <1>7 DEF Turn, HandOver
  <2>2. out.buf = <<>> /\ out.log = acc.log
    BY <1>0, <2>1
  <2>3. HandedIn(out) \subseteq HandedIn(acc)
    BY <1>2, <2>2 DEF HandedIn
  <2>4. QED
    BY <1>0, <1>2, <2>2, <2>3 DEF Ended
<1>8. CASE d \in cache /\ IsFragment(d) /\ ~(Len(buf) >= MaxReassembly) /\ IsLastFragment(d)
  <2>1. out = [buf |-> <<>>, log |-> Append(log, Append(buf, d))]
    BY <1>0, <1>8 DEF Turn, HandOver
  <2>2. out.buf = <<>> /\ out.log = Append(acc.log, Append(buf, d))
    BY <1>0, <2>1
  <2>3. Append(buf, d) \in Seq(Nat) /\ Ends(Append(buf, d))
    BY <1>1, <1>8, LastFrameEnds
  <2>4. QED
    BY <1>0, <1>3, <1>4, <2>2, <2>3, OneMoreEnded
<1>9. CASE d \in cache /\ IsFragment(d) /\ ~(Len(buf) >= MaxReassembly) /\ ~IsLastFragment(d)
  <2>1. out = [buf |-> Append(buf, d), log |-> log]
    BY <1>0, <1>9 DEF Turn, HandOver
  <2>2. out.buf = Append(buf, d) /\ out.log = acc.log
    BY <1>0, <2>1
  <2>3. HandedIn(out) \subseteq HandedIn(acc) \cup {d}
    BY <1>0, <1>3, <2>2 DEF HandedIn
  <2>4. Append(buf, d) \in Seq(Nat)
    BY <1>1
  <2>5. QED
    BY <1>0, <2>2, <2>3, <2>4 DEF Ended
<1>10. QED
  BY <1>5, <1>6, <1>7, <1>8, <1>9

\* So does the loop, with the frames it turns to.
LEMMA LoopEnds ==
  ASSUME MessagesInv, FragmentsInv, nextTxSeq \in Nat, Ended(Start),
         NEW s \in Nat, NEW n \in Nat, NEW cache, s + n < nextTxSeq,
         \A k \in 0 .. n : SeqAdd(s, k) = s + k
  PROVE  LET out == DeliveryLoop(s, n, cache)
         IN  Ended(out) /\ HandedIn(out) \subseteq HandedIn(Start) \cup (s .. s + n)
<1> DEFINE At(k) == Loop(s, n, cache)[k]
           Good(k) == /\ Ended(At(k))
                      /\ HandedIn(At(k)) \subseteq HandedIn(Start) \cup (s .. s + n)
           S == {k \in 0 .. n + 1 : Good(k)}
<1>1. 0 \in S
  BY LoopTurns
<1>2. ASSUME NEW k \in 0 .. n, k \in S PROVE k + 1 \in S
  <2>1. Good(k)
    BY <1>2
  <2>2. PICK d : d = s + k
    OBVIOUS
  <2>3. /\ d \in Used /\ SeqAdd(s, k) = d /\ d \in s .. s + n /\ k + 1 \in 0 .. n + 1
    BY <2>2 DEF Used
  <2>4. At(k + 1) = Turn(At(k), d, cache)
    BY <2>3, LoopTurns
  <2> HIDE DEF At
  <2>5. Ended(At(k + 1)) /\ HandedIn(At(k + 1)) \subseteq HandedIn(At(k)) \cup {d}
    BY <2>1, <2>3, <2>4, TurnEnds
  <2>6. QED
    BY <2>1, <2>3, <2>5
<1>3. n + 1 \in S
  <2> HIDE DEF S
  <2>1. n + 1 \in Nat /\ (n + 1) - 1 = n /\ n + 1 \in 0 .. n + 1
    OBVIOUS
  <2>2. QED
    BY <1>1, <1>2, <2>1, CountUp
<1>4. Good(n + 1)
  BY <1>3
<1>5. At(n + 1) = DeliveryLoop(s, n, cache)
  BY LoopTurns
<1> HIDE DEF At
<1>6. QED
  BY <1>4, <1>5

EndInv == Ended(Start) /\ IsFiniteSet(Handed) /\ HandedFitsQueue

\* A delivery hands over no more frames than it takes places in the queue.
LEMMA AcceptEnds ==
  ASSUME RxInv, MessagesInv, FragmentsInv, nextTxSeq \in Nat, EndInv, UNCHANGED senderVars,
         NEW s \in Nat, NEW n \in Nat, s + n < nextTxSeq,
         \A k \in 0 .. n : SeqAdd(s, k) = s + k,
         Accept(s, n), Enqueue(n + 1)
  PROVE  EndInv'
<1>1. /\ RxQueueSize \in Nat /\ rxUsed \in Nat /\ rxUsed <= RxQueueSize
      /\ IsFiniteSet(Handed) /\ Cardinality(Handed) \in Nat /\ Cardinality(Handed) <= rxUsed
  BY ReorderAssumption, FS_CardinalityType DEF RxInv, RxTypeOK, EndInv, HandedFitsQueue
<1>2. PICK out : out = DeliveryLoop(s, n, CacheOnArrival(s))
  OBVIOUS
<1>3. Ended(out) /\ HandedIn(out) \subseteq Handed \cup (s .. s + n)
  BY <1>2, LoopEnds, HandedStart DEF EndInv
<1>4. messages' = messages
  BY DEF senderVars
<1>5. Ended(out)' <=> Ended(out)
  BY <1>4 DEF Ended, Ends
<1>6. CASE QueueOverflow(n + 1)
  <2>1. UNCHANGED <<reassembly, appLog>> /\ rxUsed' = RxQueueSize
    BY <1>6 DEF Accept, Enqueue
  <2>2. Handed' = Handed /\ (Ended(Start)' <=> Ended(Start))
    BY <1>4, <2>1 DEF Handed, Start, Ended, Ends
  <2>3. Cardinality(Handed) <= RxQueueSize /\ RxQueueSize <= RxQueueSize
    BY <1>1
  <2>4. QED
    BY <1>1, <2>1, <2>2, <2>3 DEF EndInv, HandedFitsQueue
<1>7. CASE ~QueueOverflow(n + 1)
  <2>1. reassembly' = out.buf /\ appLog' = out.log /\ rxUsed' = rxUsed + (n + 1)
    BY <1>2, <1>7 DEF Accept, Enqueue
  <2>2. Handed' = HandedIn(out) /\ (Ended(Start)' <=> Ended(out))
    BY <1>4, <2>1 DEF Handed, HandedIn, Start, Ended, Ends
  <2>3. IsFiniteSet(s .. s + n) /\ Cardinality(s .. s + n) = n + 1
    <3>1. s + n \in Nat /\ ~(s > s + n) /\ (s + n) - s + 1 = n + 1
      OBVIOUS
    <3>2. QED
      BY <3>1, FS_Interval
  <2>4. PICK all : all = Handed \cup (s .. s + n)
    OBVIOUS
  <2>5. IsFiniteSet(all) /\ Cardinality(all) \in Nat /\ Cardinality(all) <= Cardinality(Handed) + (n + 1)
    <3>1. /\ IsFiniteSet(all)
          /\ Cardinality(all) = Cardinality(Handed) + Cardinality(s .. s + n)
                                   - Cardinality(Handed \cap (s .. s + n))
      BY <1>1, <2>3, <2>4, FS_Union
    <3>2. IsFiniteSet(Handed \cap (s .. s + n))
      BY <1>1, FS_Intersection
    <3>3. Cardinality(Handed \cap (s .. s + n)) \in Nat /\ Cardinality(all) \in Nat
      BY <3>1, <3>2, FS_CardinalityType
    <3>4. QED
      BY <1>1, <2>3, <3>1, <3>3
  <2>6. IsFiniteSet(HandedIn(out)) /\ Cardinality(HandedIn(out)) <= Cardinality(all)
    BY <1>3, <2>4, <2>5, FS_Subset
  <2>7. Cardinality(HandedIn(out)) \in Nat
    BY <2>6, FS_CardinalityType
  <2>8. Cardinality(HandedIn(out)) <= rxUsed + (n + 1)
    BY <1>1, <2>5, <2>6, <2>7
  <2>9. rxUsed + (n + 1) <= RxQueueSize
    BY <1>1, <1>7 DEF QueueOverflow
  <2>10. QED
    BY <1>3, <2>1, <2>2, <2>6, <2>8, <2>9 DEF EndInv, HandedFitsQueue
<1>8. QED
  BY <1>6, <1>7

\* Nothing is handed over, and the messages there are stay as they are.
LEMMA EndsKept ==
  ASSUME EndInv, UNCHANGED <<reassembly, appLog, rxUsed>>,
         DOMAIN messages \subseteq DOMAIN messages',
         \A m \in DOMAIN messages : messages'[m] = messages[m]
  PROVE  EndInv'
<1>1. Handed' = Handed /\ Start' = Start
  BY DEF Handed, Start
<1>2. \A f : Ends(f) => Ends(f)'
  BY DEF Ends
<1>3. Ended(Start)'
  BY <1>1, <1>2 DEF EndInv, Ended
<1>4. QED
  BY <1>1, <1>3 DEF EndInv, HandedFitsQueue

LEMMA EndsStep ==
  ASSUME LinkInv, RxInv, MessagesInv, FragmentsInv, EndInv, [LinkNext]_linkVars
  PROVE  EndInv'
<1>1. CASE SendMessage \/ SendMessageError \/ SendTruncated
  <2>1. PICK k \in Nat \ {0} : \E onAir, whole, fragment :
          /\ Transmit(k, onAir, whole, fragment) /\ whole \in BOOLEAN
          /\ whole => k <= MaxFragments
          /\ whole /\ ~ColdFragments /\ ~hasRxWindow => k = 1
    BY <1>1, SendIsTransmit
  <2>2. /\ DOMAIN messages \subseteq DOMAIN messages'
        /\ \A m \in DOMAIN messages : messages'[m] = messages[m]
    BY <2>1, TransmitMessages
  <2>3. UNCHANGED <<reassembly, appLog, rxUsed>>
    BY <2>1 DEF Transmit, receiverVars, rxVars
  <2>4. QED
    BY <2>2, <2>3, EndsKept
<1>2. CASE ReceiveAck \/ PollRetransmit \/ PollFailed \/ UNCHANGED linkVars
  <2>1. UNCHANGED <<reassembly, appLog, rxUsed, messages>>
    BY <1>2 DEF ReceiveAck, PollRetransmit, PollFailed, linkVars, senderVars,
                receiverVars, rxVars
  <2>2. QED
    BY <2>1, EndsKept
<1>3. CASE ReassemblyTimeout
  <2>1. reassembly' = <<>> /\ UNCHANGED <<appLog, rxUsed, messages>>
    BY <1>3 DEF ReassemblyTimeout, senderVars, rxVars
  <2>2. Ended(Start)'
    <3>1. <<>> \in Seq(Nat)
      OBVIOUS
    <3>2. QED
      BY <2>1, <3>1 DEF EndInv, Ended, Ends, Start
  <2>3. Handed' \subseteq Handed
    BY <2>1 DEF Handed, ToSet
  <2>4. /\ IsFiniteSet(Handed) /\ Cardinality(Handed) <= rxUsed /\ rxUsed <= RxQueueSize
        /\ rxUsed \in Nat
    BY DEF EndInv, HandedFitsQueue, RxInv, RxTypeOK
  <2>5. /\ IsFiniteSet(Handed') /\ Cardinality(Handed') <= Cardinality(Handed)
        /\ Cardinality(Handed') \in Nat /\ Cardinality(Handed) \in Nat
    BY <2>3, <2>4, FS_Subset, FS_CardinalityType
  <2>6. Cardinality(Handed') <= rxUsed
    BY <2>4, <2>5
  <2>7. QED
    BY <2>1, <2>2, <2>4, <2>5, <2>6 DEF EndInv, HandedFitsQueue
<1>4. CASE ReceiveData
  <2>1. PICK s \in SeqId : \/ ReceiveFirst(s) \/ ReceiveExpected(s)
                           \/ ReceiveAhead(s) \/ ReceiveDuplicate(s)
    BY <1>4 DEF ReceiveData
  <2>2. s \in Used /\ UNCHANGED senderVars
    BY <2>1 DEF LinkInv, SenderInv, ReceiveFirst, ReceiveExpected, ReceiveAhead,
                ReceiveDuplicate, TakeData
  <2>3. /\ nextTxSeq \in Nat /\ nextTxSeq < SeqSpace /\ SeqSpace \in Nat
        /\ s \in Nat /\ s < nextTxSeq
    BY <2>2, LinkAssumption, SeqSpaceAssumption DEF LinkInv, SenderInv, Used
  <2>4. ASSUME NEW n \in Nat, s + n < nextTxSeq PROVE \A k \in 0 .. n : SeqAdd(s, k) = s + k
    BY <2>3, <2>4 DEF SeqAdd
  <2>5. CASE ReceiveFirst(s)
    <3>1. Accept(s, 0) /\ Enqueue(0 + 1) /\ 0 \in Nat /\ s + 0 < nextTxSeq
      BY <2>3, <2>5 DEF ReceiveFirst, OpenWindow
    <3>2. QED
      BY <2>2, <2>3, <2>4, <3>1, AcceptEnds
  <2>6. CASE ReceiveExpected(s)
    <3>1. PICK n \in 0 .. MaxReorder : DeliverRun(s, n) /\ Accept(s, n)
      BY <2>6 DEF ReceiveExpected
    <3>2. n \in Nat /\ Enqueue(n + 1) /\ hasRxWindow /\ s = expectedRxSeq /\ IsRun(expectedRxSeq, n)
      BY <3>1, ReorderAssumption DEF DeliverRun
    <3>3. s + n + 1 <= nextTxSeq
      BY <2>2, <3>2, RunWithinUsed DEF LinkInv
    <3>4. s + n < nextTxSeq
      BY <2>3, <3>2, <3>3
    <3>5. QED
      BY <2>2, <2>3, <2>4, <3>1, <3>2, <3>4, AcceptEnds
  <2>7. CASE ReceiveAhead(s) \/ ReceiveDuplicate(s)
    <3>1. Refuse(s) /\ Enqueue(0)
      BY <2>7 DEF ReceiveAhead, ReceiveDuplicate, BufferAhead, DropAhead, Duplicate
    <3>2. rxUsed' = rxUsed
      BY <3>1, ReorderAssumption DEF Enqueue, QueueOverflow, RxInv, RxTypeOK
    <3>3. UNCHANGED <<reassembly, appLog, messages>>
      BY <2>2, <3>1 DEF Refuse, senderVars
    <3>4. QED
      BY <3>2, <3>3, EndsKept
  <2>8. QED
    BY <2>1, <2>5, <2>6, <2>7
<1>5. QED
  BY <1>1, <1>2, <1>3, <1>4 DEF LinkNext

LEMMA EndsInit == LinkInit => EndInv
<1> SUFFICES ASSUME LinkInit PROVE EndInv
  OBVIOUS
<1>1. appLog = <<>> /\ reassembly = <<>> /\ rxUsed = 0
  BY DEF LinkInit, RxInit
<1>2. <<>> \in Seq(Nat) /\ <<>> \in Seq(Seq(Nat)) /\ Handed = {}
  BY <1>1 DEF Handed, ToSet
<1>3. IsFiniteSet({}) /\ Cardinality({}) = 0 /\ RxQueueSize \in Nat
  BY FS_EmptySet, ReorderAssumption
<1>4. Ended(Start)
  BY <1>1, <1>2 DEF Ended, Start
<1>5. QED
  BY <1>1, <1>2, <1>3, <1>4 DEF EndInv, HandedFitsQueue

THEOREM EndInvariant == LinkSpec => []EndInv
<1>1. LinkSpec => []RxInv
  BY LinkRefinesReceiver, RxInvariant, PTL
<1>2. LinkInv /\ RxInv /\ MessagesInv /\ FragmentsInv /\ EndInv /\ [LinkNext]_linkVars => EndInv'
  BY EndsStep
<1>3. QED
  BY EndsInit, <1>1, <1>2, LinkInvariant, MessagesInvariant, FragmentsInvariant, PTL DEF LinkSpec

\* Every frame that relinow_on_receive hands over has a place of its own in the
\* receive queue, which nothing empties: with the queue the stream ends.
THEOREM LinkHandedFitsQueue == LinkSpec => []HandedFitsQueue
<1>1. EndInv => HandedFitsQueue
  BY DEF EndInv
<1>2. QED
  BY <1>1, EndInvariant, PTL

-----------------------------------------------------------------------------
(* What comes out other than it was submitted, in every execution.  The    *)
(* last frame of a message empties the reassembly buffer: nothing that     *)
(* precedes it is joined to what follows.                                  *)

\* Frames with which relinow_on_receive has a message complete, and those of
\* them that are a message by themselves.
Final(x) ==
    \E m \in DOMAIN messages : messages[m].whole /\ x = Last(messages[m].frames)

Lone(x) ==
    \E m \in DOMAIN messages :
        LET f == messages[m].frames
        IN  messages[m].whole /\ Len(f) = 1 /\ x = f[1]

\* A last frame ends what it is handed over with, and a lone one is all of it.
Shut(f) ==
    \A p \in DOMAIN f : /\ f[p] \in Used
                        /\ Final(f[p]) => p = Len(f)
                        /\ Lone(f[p]) => Len(f) = 1

Closed(acc) ==
    /\ acc.log \in Seq(Seq(Nat)) /\ acc.buf \in Seq(Nat)
    /\ \A i \in DOMAIN acc.log : Shut(acc.log[i])
    /\ \A p \in DOMAIN acc.buf : acc.buf[p] \in Used /\ ~Final(acc.buf[p])

LEMMA LoneIsFinal == ASSUME NEW x, Lone(x) PROVE Final(x)
<1>1. PICK m \in DOMAIN messages :
        LET f == messages[m].frames
        IN  messages[m].whole /\ Len(f) = 1 /\ x = f[1]
  BY DEF Lone
<1>2. x = Last(messages[m].frames)
  BY <1>1 DEF Last
<1>3. QED
  BY <1>1, <1>2 DEF Final

\* The flags of a frame say which kind it is.
LEMMA FlagsTell ==
  ASSUME MessagesInv, FragmentsInv, NEW d
  PROVE  /\ Final(d) => IsLastFragment(d)
         /\ Lone(d) => ~IsFragment(d)
<1>1. ASSUME NEW m \in DOMAIN messages, NEW p \in 1 .. Len(messages[m].frames),
             d = messages[m].frames[p]
      PROVE  MessageOf(d) = messages[m]
  <2>1. PICK f : f = messages[m].frames
    OBVIOUS
  <2>2. f \in Seq(Nat) /\ DOMAIN f = 1 .. Len(f)
    BY <2>1 DEF FragmentsInv
  <2>3. d \in FrameIds(m)
    BY <1>1, <2>1, <2>2 DEF FrameIds, ToSet
  <2>4. QED
    BY <2>3, MessageOfIs DEF FragmentsInv
<1>2. ASSUME NEW m \in DOMAIN messages
      PROVE  Len(messages[m].frames) \in Nat \ {0}
  BY DEF MessagesInv, LaidOut
<1>3. ASSUME Final(d) PROVE IsLastFragment(d)
  <2>1. PICK m \in DOMAIN messages : messages[m].whole /\ d = Last(messages[m].frames)
    BY <1>3 DEF Final
  <2>2. PICK f, n : f = messages[m].frames /\ n = Len(f)
    OBVIOUS
  <2>3. d = f[n] /\ n \in 1 .. n
    BY <1>2, <2>1, <2>2 DEF Last
  <2>4. MessageOf(d) = messages[m]
    BY <1>1, <2>2, <2>3
  <2>5. QED
    BY <2>1, <2>4 DEF IsLastFragment
<1>4. ASSUME Lone(d) PROVE ~IsFragment(d)
  <2>1. PICK m \in DOMAIN messages :
          /\ messages[m].whole /\ Len(messages[m].frames) = 1
          /\ d = messages[m].frames[1]
    BY <1>4 DEF Lone
  <2>2. 1 \in 1 .. Len(messages[m].frames)
    BY <2>1
  <2>3. MessageOf(d) = messages[m]
    BY <1>1, <2>1, <2>2
  <2>4. PICK b : b = Len(messages[m].frames)
    OBVIOUS
  <2>5. b = 1 /\ ~(b > 1)
    BY <2>1, <2>4
  <2>6. IsFragment(d) <=> ~messages[m].whole \/ b > 1
    BY <2>3, <2>4 DEF IsFragment
  <2>7. QED
    BY <2>1, <2>5, <2>6
<1>5. QED
  BY <1>3, <1>4

\* A message more in the log, the buffer being empty then.
LEMMA OneMoreShut ==
  ASSUME NEW acc, Closed(acc), NEW e \in Seq(Nat), Shut(e), NEW out,
         out.log = Append(acc.log, e), out.buf = <<>>
  PROVE  Closed(out)
<1>0. PICK log, L : log = acc.log /\ L = Len(log)
  OBVIOUS
<1>1. log \in Seq(Seq(Nat)) /\ \A i \in DOMAIN log : Shut(log[i])
  BY <1>0 DEF Closed
<1>2. /\ Append(log, e) \in Seq(Seq(Nat)) /\ DOMAIN Append(log, e) = 1 .. L + 1
      /\ DOMAIN log = 1 .. L /\ L \in Nat
      /\ Append(log, e)[L + 1] = e
      /\ \A i \in 1 .. L : Append(log, e)[i] = log[i]
  BY <1>0, <1>1
<1>3. \A i \in 1 .. L + 1 : i \in 1 .. L \/ i = L + 1
  BY <1>2
<1>4. \A i \in DOMAIN out.log :
         out.log[i] = e \/ (i \in DOMAIN log /\ out.log[i] = log[i])
  BY <1>0, <1>2, <1>3
<1>5. out.log \in Seq(Seq(Nat)) /\ out.buf \in Seq(Nat) /\ DOMAIN out.buf = {}
  BY <1>0, <1>2
<1>6. \A i \in DOMAIN out.log : Shut(out.log[i])
  BY <1>1, <1>4
<1>7. QED
  BY <1>5, <1>6 DEF Closed

LEMMA TurnCloses ==
  ASSUME MessagesInv, FragmentsInv, NEW acc, Closed(acc), NEW d \in Used, NEW cache
  PROVE  Closed(Turn(acc, d, cache))
<1>0. PICK log, buf, out : log = acc.log /\ buf = acc.buf /\ out = Turn(acc, d, cache)
  OBVIOUS
<1>1. /\ d \in Nat /\ log \in Seq(Seq(Nat)) /\ buf \in Seq(Nat)
      /\ \A p \in DOMAIN buf : buf[p] \in Used /\ ~Final(buf[p])
  BY <1>0 DEF Closed, Used
<1>2. PICK e, L : e = Append(buf, d) /\ L = Len(buf)
  OBVIOUS
<1>3. /\ e \in Seq(Nat) /\ L \in Nat /\ Len(e) = L + 1 /\ DOMAIN e = 1 .. L + 1
      /\ DOMAIN buf = 1 .. L /\ e[L + 1] = d /\ \A p \in 1 .. L : e[p] = buf[p]
  BY <1>1, <1>2
<1>4. \A p \in DOMAIN e : \/ p = Len(e) /\ e[p] = d
                          \/ e[p] \in Used /\ ~Final(e[p])
  <2>1. \A p \in 1 .. L + 1 : p \in 1 .. L \/ p = L + 1
    BY <1>3
  <2>2. QED
    BY <1>1, <1>3, <2>1
<1>5. CASE d \notin cache
  BY <1>0, <1>5 DEF Turn
<1>6. CASE d \in cache /\ ~IsFragment(d)
  <2>1. out = [buf |-> <<>>, log |-> Append(log, <<d>>)]
    BY <1>0, <1>6 DEF Turn, HandOver
  <2>2. out.buf = <<>> /\ out.log = Append(acc.log, <<d>>)
    BY <1>0, <2>1
  <2>3. PICK one : one = <<d>>
    OBVIOUS
  <2>4. one \in Seq(Nat) /\ Len(one) = 1 /\ DOMAIN one = {1} /\ one[1] = d
    BY <1>1, <2>3
  <2>5. Shut(one)
    BY <2>4 DEF Shut
  <2>6. QED
    BY <1>0, <2>2, <2>3, <2>4, <2>5, OneMoreShut
<1>7. CASE d \in cache /\ IsFragment(d) /\ Len(buf) >= MaxReassembly
  <2>1. out = [buf |-> <<>>, log |-> log]
    BY <1>0, <1>7 DEF Turn, HandOver
  <2>2. out.buf = <<>> /\ out.log = acc.log /\ <<>> \in Seq(Nat) /\ DOMAIN <<>> = {}
    BY <1>0, <2>1
  <2>3. QED
    BY <1>0, <2>2 DEF Closed
<1>8. CASE d \in cache /\ IsFragment(d) /\ ~(Len(buf) >= MaxReassembly) /\ IsLastFragment(d)
  <2>1. out = [buf |-> <<>>, log |-> Append(log, e)]
    BY <1>0, <1>2, <1>8 DEF Turn, HandOver
  <2>2. out.buf = <<>> /\ out.log = Append(acc.log, e)
    BY <1>0, <2>1
  <2>3. ~Lone(d)
    BY <1>8, FlagsTell
  <2>4. ASSUME NEW p \in DOMAIN e
        PROVE  /\ e[p] \in Used
               /\ Final(e[p]) => p = Len(e)
               /\ Lone(e[p]) => Len(e) = 1
    <3>1. CASE p = Len(e) /\ e[p] = d
      BY <2>3, <3>1
    <3>2. CASE e[p] \in Used /\ ~Final(e[p])
      <4>1. ~Lone(e[p])
        BY <3>2, LoneIsFinal
      <4>2. QED
        BY <3>2, <4>1
    <3>3. QED
      BY <1>4, <3>1, <3>2
  <2>5. Shut(e)
    BY <2>4 DEF Shut
  <2>6. QED
    BY <1>0, <1>3, <2>2, <2>5, OneMoreShut
<1>9. CASE d \in cache /\ IsFragment(d) /\ ~(Len(buf) >= MaxReassembly) /\ ~IsLastFragment(d)
  <2>1. out = [buf |-> e, log |-> log]
    BY <1>0, <1>2, <1>9 DEF Turn, HandOver
  <2>2. out.buf = e /\ out.log = acc.log
    BY <1>0, <2>1
  <2>3. ~Final(d)
    BY <1>9, FlagsTell
  <2>4. \A p \in DOMAIN e : e[p] \in Used /\ ~Final(e[p])
    BY <1>4, <2>3
  <2>5. QED
    BY <1>0, <1>3, <2>2, <2>4 DEF Closed
<1>10. QED
  BY <1>5, <1>6, <1>7, <1>8, <1>9

LEMMA LoopCloses ==
  ASSUME MessagesInv, FragmentsInv, nextTxSeq \in Nat, Closed(Start),
         NEW s \in Nat, NEW n \in Nat, NEW cache, s + n < nextTxSeq,
         \A k \in 0 .. n : SeqAdd(s, k) = s + k
  PROVE  Closed(DeliveryLoop(s, n, cache))
<1> DEFINE At(k) == Loop(s, n, cache)[k]
           S == {k \in 0 .. n + 1 : Closed(At(k))}
<1>1. 0 \in S
  BY LoopTurns
<1>2. ASSUME NEW k \in 0 .. n, k \in S PROVE k + 1 \in S
  <2>1. Closed(At(k))
    BY <1>2
  <2>2. PICK d : d = s + k
    OBVIOUS
  <2>3. d \in Used /\ SeqAdd(s, k) = d /\ k + 1 \in 0 .. n + 1
    BY <2>2 DEF Used
  <2>4. At(k + 1) = Turn(At(k), d, cache)
    BY <2>3, LoopTurns
  <2> HIDE DEF At
  <2>5. Closed(At(k + 1))
    BY <2>1, <2>3, <2>4, TurnCloses
  <2>6. QED
    BY <2>3, <2>5
<1>3. n + 1 \in S
  <2> HIDE DEF S
  <2>1. n + 1 \in Nat /\ (n + 1) - 1 = n /\ n + 1 \in 0 .. n + 1
    OBVIOUS
  <2>2. QED
    BY <1>1, <1>2, <2>1, CountUp
<1>4. Closed(At(n + 1))
  BY <1>3
<1>5. At(n + 1) = DeliveryLoop(s, n, cache)
  BY LoopTurns
<1> HIDE DEF At
<1>6. QED
  BY <1>4, <1>5

\* So it is with all that was handed over, and ids are counted from 0.
ClosedInv == Closed(Start) /\ FirstId(1) = 0

\* Nothing is handed over, and what a frame was it still is.
LEMMA ClosedKept ==
  ASSUME Closed(Start), reassembly' = reassembly, appLog' = appLog,
         Used \subseteq Used',
         \A x \in Used : (Final(x)' => Final(x)) /\ (Lone(x)' => Lone(x))
  PROVE  Closed(Start)'
<1>1. PICK st : st = Start
  OBVIOUS
<1>2. Start' = st
  BY <1>1 DEF Start
<1>3. ASSUME NEW f, Shut(f) PROVE Shut(f)'
  BY <1>3 DEF Shut
<1>4. Closed(st)
  BY <1>1
<1>5. \A i \in DOMAIN st.log : Shut(st.log[i])'
  BY <1>3, <1>4 DEF Closed
<1>6. \A p \in DOMAIN st.buf : st.buf[p] \in Used' /\ ~Final(st.buf[p])'
  BY <1>4 DEF Closed
<1>7. st.log \in Seq(Seq(Nat)) /\ st.buf \in Seq(Nat)
  BY <1>4 DEF Closed
<1>8. QED
  BY <1>2, <1>5, <1>6, <1>7 DEF Closed

\* A message more: its frames are new.
LEMMA NewFrames ==
  ASSUME LinkInv, MessagesInv, NEW k \in Nat \ {0}, NEW onAir,
         NEW whole \in BOOLEAN, NEW fragment,
         whole => k <= MaxFragments,
         whole /\ ~ColdFragments /\ ~hasRxWindow => k = 1,
         Transmit(k, onAir, whole, fragment)
  PROVE  /\ Used \subseteq Used' /\ FirstId(1)' = FirstId(1)
         /\ \A x \in Used : (Final(x)' => Final(x)) /\ (Lone(x)' => Lone(x))
<1>1. PICK N : N = Len(messages)
  OBVIOUS
<1>2. /\ N \in Nat /\ DOMAIN messages = 1 .. N /\ DOMAIN messages' = 1 .. N + 1
      /\ \A m \in 1 .. N : messages'[m] = messages[m]
      /\ \A m \in 1 .. N + 1 : FirstId(m)' = FirstId(m)
      /\ \A m \in DOMAIN messages' : LaidOut(m)'
  <2>1. /\ MessagesInv' /\ Len(messages') = N + 1
        /\ \A m \in DOMAIN messages : messages'[m] = messages[m]
        /\ \A m \in 1 .. N + 1 : FirstId(m)' = FirstId(m)
    BY <1>1, TransmitMessages
  <2>2. messages \in Seq(Message) /\ messages' \in Seq(Message)
    BY <2>1 DEF MessagesInv
  <2>3. QED
    BY <1>1, <2>1, <2>2 DEF MessagesInv
<1>3. nextTxSeq \in Nat /\ nextTxSeq' = nextTxSeq + k
  <2>1. nextTxSeq \in Nat /\ nextTxSeq + k <= MaxPackets /\ nextTxSeq' = SeqAdd(nextTxSeq, k)
    BY LinkAssumption DEF LinkInv, SenderInv, Transmit, SendBurst
  <2>2. QED
    BY <2>1, BurstIds
<1>4. Used \subseteq Used'
  BY <1>3 DEF Used
<1>5. PICK g : g = messages'[N + 1].frames
  OBVIOUS
<1>6. /\ Len(g) \in Nat \ {0}
      /\ \A p \in 1 .. Len(g) : g[p] = nextTxSeq + (p - 1)
  <2>1. FirstId(N + 1)' = nextTxSeq /\ N + 1 \in DOMAIN messages'
    <3>1. N + 1 \notin DOMAIN messages /\ N + 1 \in 1 .. N + 1
      BY <1>2
    <3>2. QED
      BY <1>2, <3>1 DEF FirstId
  <2>2. LaidOut(N + 1)'
    BY <1>2, <2>1
  <2>3. QED
    BY <1>5, <2>1, <2>2 DEF LaidOut
<1>7. ASSUME NEW x \in Used, NEW m \in DOMAIN messages', NEW p,
             m = N + 1 => p \in 1 .. Len(g), x = messages'[m].frames[p]
      PROVE  m \in DOMAIN messages /\ messages'[m] = messages[m]
  <2>1. CASE m = N + 1
    <3>1. x = nextTxSeq + (p - 1) /\ p \in 1 .. Len(g)
      BY <1>5, <1>6, <1>7, <2>1
    <3>2. x < nextTxSeq /\ x \in Nat
      BY <1>3 DEF Used
    <3>3. QED
      BY <1>3, <1>6, <3>1, <3>2
  <2>2. CASE m # N + 1
    BY <1>2, <2>2
  <2>3. QED
    BY <2>1, <2>2
<1>8. ASSUME NEW x \in Used, Final(x)' PROVE Final(x)
  <2>1. PICK m \in DOMAIN messages' : messages'[m].whole /\ x = Last(messages'[m].frames)
    BY <1>8 DEF Final
  <2>2. PICK p : p = Len(messages'[m].frames)
    OBVIOUS
  <2>3. x = messages'[m].frames[p] /\ (m = N + 1 => p \in 1 .. Len(g))
    BY <1>5, <1>6, <2>1, <2>2 DEF Last
  <2>4. m \in DOMAIN messages /\ messages'[m] = messages[m]
    BY <1>7, <2>3
  <2>5. QED
    BY <2>1, <2>4 DEF Final
<1>9. ASSUME NEW x \in Used, Lone(x)' PROVE Lone(x)
  <2>1. PICK m \in DOMAIN messages' :
          /\ messages'[m].whole /\ Len(messages'[m].frames) = 1
          /\ x = messages'[m].frames[1]
    BY <1>9 DEF Lone
  <2>2. m = N + 1 => 1 \in 1 .. Len(g)
    BY <1>6
  <2>3. m \in DOMAIN messages /\ messages'[m] = messages[m]
    BY <1>7, <2>1, <2>2
  <2>4. QED
    BY <2>1, <2>3 DEF Lone
<1>10. FirstId(1)' = FirstId(1)
  BY <1>2
<1>11. QED
  BY <1>4, <1>8, <1>9, <1>10

\* A delivery.
LEMMA AcceptCloses ==
  ASSUME MessagesInv, FragmentsInv, nextTxSeq \in Nat, Closed(Start),
         messages' = messages, nextTxSeq' = nextTxSeq,
         NEW s \in Nat, NEW n \in Nat, s + n < nextTxSeq,
         \A k \in 0 .. n : SeqAdd(s, k) = s + k, Accept(s, n)
  PROVE  Closed(Start)'
<1>1. PICK out : out = DeliveryLoop(s, n, CacheOnArrival(s))
  OBVIOUS
<1>2. Closed(out)
  BY <1>1, LoopCloses
<1>3. \/ reassembly' = reassembly /\ appLog' = appLog
      \/ reassembly' = out.buf /\ appLog' = out.log
  BY <1>1 DEF Accept
<1>4. \/ Start'.buf = Start.buf /\ Start'.log = Start.log
      \/ Start'.buf = out.buf /\ Start'.log = out.log
  BY <1>3 DEF Start
<1>5. /\ Used' = Used /\ \A x : Final(x)' <=> Final(x)
      /\ \A x : Lone(x)' <=> Lone(x)
  BY DEF Used, Final, Lone
<1>6. \A f : Shut(f)' <=> Shut(f)
  BY <1>5 DEF Shut
<1>7. PICK new : new = Start'
  OBVIOUS
<1>8. /\ new.log \in Seq(Seq(Nat)) /\ new.buf \in Seq(Nat)
      /\ \A i \in DOMAIN new.log : Shut(new.log[i])
      /\ \A p \in DOMAIN new.buf : new.buf[p] \in Used /\ ~Final(new.buf[p])
  BY <1>2, <1>4, <1>7 DEF Closed
<1>9. QED
  BY <1>5, <1>6, <1>7, <1>8 DEF Closed

LEMMA ClosedStep ==
  ASSUME LinkInv, MessagesInv, FragmentsInv, ClosedInv, [LinkNext]_linkVars
  PROVE  ClosedInv'
<1>1. CASE SendMessage \/ SendMessageError \/ SendTruncated
  <2>1. PICK k \in Nat \ {0} : \E onAir, whole, fragment :
          /\ Transmit(k, onAir, whole, fragment) /\ whole \in BOOLEAN
          /\ whole => k <= MaxFragments
          /\ whole /\ ~ColdFragments /\ ~hasRxWindow => k = 1
    BY <1>1, SendIsTransmit
  <2>2. /\ Used \subseteq Used' /\ FirstId(1)' = FirstId(1)
        /\ \A x \in Used : (Final(x)' => Final(x)) /\ (Lone(x)' => Lone(x))
    BY <2>1, NewFrames
  <2>3. reassembly' = reassembly /\ appLog' = appLog
    BY <2>1 DEF Transmit, receiverVars
  <2>4. QED
    BY <2>2, <2>3, ClosedKept DEF ClosedInv
<1>2. ASSUME messages' = messages, nextTxSeq' = nextTxSeq
      PROVE  /\ FirstId(1)' = FirstId(1) /\ Used' = Used
             /\ \A x : Final(x)' = Final(x) /\ Lone(x)' = Lone(x)
  BY <1>2 DEF FirstId, Used, Final, Lone
<1>3. CASE ReceiveAck \/ PollRetransmit \/ PollFailed \/ UNCHANGED linkVars
  <2>1. UNCHANGED <<reassembly, appLog, messages, nextTxSeq>>
    BY <1>3 DEF ReceiveAck, PollRetransmit, PollFailed, Acked, Retransmit, Fail, retryVars,
                linkVars, senderVars, receiverVars
  <2>2. QED
    BY <1>2, <2>1, ClosedKept DEF ClosedInv
<1>4. CASE ReassemblyTimeout
  <2>1. reassembly' = <<>> /\ UNCHANGED <<appLog, messages, nextTxSeq>>
    BY <1>4 DEF ReassemblyTimeout, senderVars
  <2>2. Start'.buf = <<>> /\ Start'.log = Start.log
    BY <2>1 DEF Start
  <2>3. <<>> \in Seq(Nat) /\ DOMAIN <<>> = {}
    OBVIOUS
  <2>4. \A f : Shut(f)' <=> Shut(f)
    BY <1>2, <2>1 DEF Shut
  <2>5. Closed(Start)'
    BY <2>2, <2>3, <2>4 DEF ClosedInv, Closed
  <2>6. QED
    BY <1>2, <2>1, <2>5 DEF ClosedInv
<1>5. CASE ReceiveData
  <2>1. PICK s \in SeqId : \/ ReceiveFirst(s) \/ ReceiveExpected(s)
                           \/ ReceiveAhead(s) \/ ReceiveDuplicate(s)
    BY <1>5 DEF ReceiveData
  <2>2. s \in Used /\ messages' = messages /\ nextTxSeq' = nextTxSeq
    BY <2>1 DEF LinkInv, SenderInv, ReceiveFirst, ReceiveExpected, ReceiveAhead,
                ReceiveDuplicate, TakeData, senderVars
  <2>3. /\ nextTxSeq \in Nat /\ nextTxSeq < SeqSpace /\ SeqSpace \in Nat
        /\ s \in Nat /\ s < nextTxSeq
    BY <2>2, LinkAssumption, SeqSpaceAssumption DEF LinkInv, SenderInv, Used
  <2>4. ASSUME NEW n \in Nat, s + n < nextTxSeq PROVE \A k \in 0 .. n : SeqAdd(s, k) = s + k
    BY <2>3, <2>4 DEF SeqAdd
  <2>5. Closed(Start)'
    <3>1. CASE ReceiveFirst(s)
      <4>1. Accept(s, 0) /\ 0 \in Nat /\ s + 0 < nextTxSeq
        BY <2>3, <3>1 DEF ReceiveFirst
      <4>2. QED
        BY <2>2, <2>3, <2>4, <4>1, AcceptCloses DEF ClosedInv
    <3>2. CASE ReceiveExpected(s)
      <4>1. PICK n \in 0 .. MaxReorder : DeliverRun(s, n) /\ Accept(s, n)
        BY <3>2 DEF ReceiveExpected
      <4>2. n \in Nat /\ hasRxWindow /\ s = expectedRxSeq /\ IsRun(expectedRxSeq, n)
        BY <4>1, ReorderAssumption DEF DeliverRun
      <4>3. s + n + 1 <= nextTxSeq
        BY <2>2, <4>2, RunWithinUsed DEF LinkInv
      <4>4. s + n < nextTxSeq
        BY <2>3, <4>2, <4>3
      <4>5. QED
        BY <2>2, <2>3, <2>4, <4>1, <4>2, <4>4, AcceptCloses DEF ClosedInv
    <3>3. CASE ReceiveAhead(s) \/ ReceiveDuplicate(s)
      <4>1. reassembly' = reassembly /\ appLog' = appLog
        BY <3>3 DEF ReceiveAhead, ReceiveDuplicate, Refuse
      <4>2. QED
        BY <1>2, <2>2, <4>1, ClosedKept DEF ClosedInv
    <3>4. QED
      BY <2>1, <3>1, <3>2, <3>3
  <2>6. QED
    BY <1>2, <2>2, <2>5 DEF ClosedInv
<1>6. QED
  BY <1>1, <1>3, <1>4, <1>5 DEF LinkNext

LEMMA ClosedInit == LinkInit => ClosedInv
<1> SUFFICES ASSUME LinkInit PROVE ClosedInv
  OBVIOUS
<1>1. appLog = <<>> /\ reassembly = <<>> /\ messages = <<>> /\ nextTxSeq = 0
  BY DEF LinkInit, RetryInit
<1>2. /\ <<>> \in Seq(Nat) /\ <<>> \in Seq(Seq(Nat)) /\ DOMAIN <<>> = {}
      /\ Start.log = <<>> /\ Start.buf = <<>>
  BY <1>1 DEF Start
<1>3. Closed(Start)
  BY <1>2 DEF Closed
<1>4. FirstId(1) = 0
  BY <1>1 DEF FirstId
<1>5. QED
  BY <1>3, <1>4 DEF ClosedInv

\* In every execution the last frame of a message ends what it came with.
THEOREM ClosedInvariant == LinkSpec => []ClosedInv
<1>1. QED
  BY ClosedInit, ClosedStep, LinkInvariant, MessagesInvariant, FragmentsInvariant, PTL
     DEF LinkSpec

\* An increasing sequence of the ids from a on, with all of them, is their run.
LEMMA RunOfIds ==
  ASSUME NEW f \in Seq(Nat), NEW g \in Seq(Nat), NEW a \in Nat, NEW n \in Nat \ {0},
         Len(g) = n, \A p \in 1 .. n : g[p] = a + (p - 1), f # <<>>,
         \A p, q \in DOMAIN f : p < q => f[p] < f[q],
         \A p \in DOMAIN f : a <= f[p] /\ f[p] < a + n,
         \A x \in a .. a + n - 1 : \E p \in DOMAIN f : f[p] = x
  PROVE  f = g
<1>1. PICK L : L = Len(f)
  OBVIOUS
<1>2. L \in Nat \ {0} /\ DOMAIN f = 1 .. L /\ \A p \in 1 .. L : f[p] \in Nat
  <2>1. L \in Nat /\ DOMAIN f = 1 .. L /\ L # 0
    BY <1>1
  <2>2. \A p \in 1 .. L : f[p] \in Nat
    BY <2>1
  <2>3. QED
    BY <2>1, <2>2
<1> DEFINE S == {k \in 0 .. L - 1 : f[k + 1] = a + k}
<1>3. 0 \in S
  <2>1. PICK p \in 1 .. L : f[p] = a
    <3>1. a \in a .. a + n - 1
      OBVIOUS
    <3>2. QED
      BY <1>2, <3>1
  <2>2. 1 \in 1 .. L /\ a <= f[1] /\ f[1] \in Nat
    <3>1. 1 \in 1 .. L /\ 1 \in DOMAIN f
      BY <1>2
    <3>2. QED
      BY <1>2, <3>1
  <2>3. p = 1
    <3> SUFFICES ASSUME p # 1 PROVE FALSE
      OBVIOUS
    <3>1. 1 < p
      BY <1>2
    <3>2. f[1] < f[p]
      BY <1>2, <2>2, <3>1
    <3>3. QED
      BY <2>1, <2>2, <3>2
  <2>4. 0 \in 0 .. L - 1 /\ 0 + 1 = 1 /\ a + 0 = a
    BY <1>2
  <2>5. QED
    BY <2>1, <2>3, <2>4
<1>4. ASSUME NEW k \in 0 .. (L - 1) - 1, k \in S PROVE k + 1 \in S
  <2>1. /\ k \in Nat /\ k + 1 \in 1 .. L /\ k + 2 \in 1 .. L /\ k + 1 \in 0 .. L - 1
        /\ (k + 1) + 1 = k + 2
    BY <1>2
  <2>2. f[k + 1] = a + k
    BY <1>4
  <2>3. a + k < f[k + 2] /\ f[k + 2] < a + n /\ f[k + 2] \in Nat
    <3>1. k + 1 < k + 2
      BY <2>1
    <3>2. f[k + 1] < f[k + 2]
      BY <1>2, <2>1, <3>1
    <3>3. QED
      BY <1>2, <2>1, <2>2, <3>2
  <2>4. PICK p \in 1 .. L : f[p] = a + (k + 1)
    <3>1. a + (k + 1) \in a .. a + n - 1
      BY <2>1, <2>3
    <3>2. QED
      BY <1>2, <3>1
  <2>5. ~(p < k + 1)
    <3> SUFFICES ASSUME p < k + 1 PROVE FALSE
      OBVIOUS
    <3>1. f[p] < f[k + 1]
      BY <1>2, <2>1
    <3>2. QED
      BY <2>1, <2>2, <2>4, <3>1
  <2>6. ~(k + 2 < p)
    <3> SUFFICES ASSUME k + 2 < p PROVE FALSE
      OBVIOUS
    <3>1. f[k + 2] < f[p]
      BY <1>2, <2>1
    <3>2. f[k + 2] < a + (k + 1)
      BY <2>4, <3>1
    <3>3. PICK u : u = f[k + 2]
      OBVIOUS
    <3>4. u \in Nat /\ a + k < u /\ u < a + (k + 1)
      BY <2>3, <3>2, <3>3
    <3>5. QED
      BY <2>1, <3>4
  <2>7. p # k + 1
    <3> SUFFICES ASSUME p = k + 1 PROVE FALSE
      OBVIOUS
    <3>1. a + (k + 1) = a + k
      BY <2>2, <2>4
    <3>2. QED
      BY <2>1, <3>1
  <2>8. p = k + 2
    BY <1>2, <2>1, <2>5, <2>6, <2>7
  <2>9. QED
    BY <2>1, <2>4, <2>8
<1>5. \A k \in 0 .. L - 1 : k \in S
  <2> HIDE DEF S
  <2>1. L - 1 \in Nat
    BY <1>2
  <2>2. QED
    BY <1>3, <1>4, <2>1, CountUp
<1>6. \A p \in 1 .. L : f[p] = a + (p - 1)
  <2> SUFFICES ASSUME NEW p \in 1 .. L PROVE f[p] = a + (p - 1)
    OBVIOUS
  <2>1. p - 1 \in 0 .. L - 1 /\ (p - 1) + 1 = p
    BY <1>2
  <2>2. p - 1 \in S
    BY <1>5, <2>1
  <2>3. QED
    BY <2>1, <2>2
<1> HIDE DEF S
<1>7. L = n
  <2>1. L <= n
    <3>1. L \in 1 .. L
      BY <1>2
    <3>2. f[L] = a + (L - 1) /\ f[L] < a + n
      BY <1>2, <1>6, <3>1
    <3>3. QED
      BY <1>2, <3>2
  <2>2. n <= L
    <3>1. a + n - 1 \in a .. a + n - 1
      OBVIOUS
    <3>2. PICK p \in 1 .. L : f[p] = a + n - 1
      BY <1>2, <3>1
    <3>3. f[p] = a + (p - 1)
      BY <1>6
    <3>4. QED
      BY <1>2, <3>2, <3>3
  <2>3. QED
    BY <1>2, <2>1, <2>2
<1>8. \A p \in 1 .. n : f[p] = g[p]
  BY <1>6, <1>7
<1>9. f \in [1 .. n -> Nat] /\ g \in [1 .. n -> Nat]
  <2>1. f \in [1 .. Len(f) -> Nat] /\ g \in [1 .. Len(g) -> Nat]
    BY LenProperties
  <2>2. Len(f) = n /\ Len(g) = n
    BY <1>1, <1>7
  <2>3. QED
    BY <2>1, <2>2
<1>10. QED
  BY <1>8, <1>9

\* Where a frame is that was handed over or waits in the buffer.
LEMMA HandedWhere ==
  ASSUME appLog \in Seq(Seq(Nat)), reassembly \in Seq(Nat), NEW x \in Handed
  PROVE  LET h == Append(appLog, reassembly)
         IN  \E j \in DOMAIN h : \E p \in DOMAIN h[j] : h[j][p] = x
<1>1. PICK h, K : h = Append(appLog, reassembly) /\ K = Len(appLog)
  OBVIOUS
<1>2. /\ K \in Nat /\ DOMAIN h = 1 .. K + 1 /\ DOMAIN appLog = 1 .. K
      /\ h[K + 1] = reassembly /\ \A j \in 1 .. K : h[j] = appLog[j]
  BY <1>1
<1>3. \/ \E j \in DOMAIN appLog : x \in ToSet(appLog[j])
      \/ x \in ToSet(reassembly)
  <2>1. x \in HandedIn(Start) /\ Start.log = appLog /\ Start.buf = reassembly
    BY HandedStart DEF Start
  <2>2. QED
    BY <2>1, HandedInIs
<1>4. CASE \E j \in DOMAIN appLog : x \in ToSet(appLog[j])
  <2>1. PICK j \in 1 .. K : x \in ToSet(h[j])
    BY <1>2, <1>4
  <2>2. j \in DOMAIN h
    BY <1>2
  <2>3. QED
    BY <1>1, <2>1, <2>2 DEF ToSet
<1>5. CASE x \in ToSet(reassembly)
  <2>1. K + 1 \in DOMAIN h /\ x \in ToSet(h[K + 1])
    BY <1>2, <1>5
  <2>2. QED
    BY <1>1, <2>1 DEF ToSet
<1>6. QED
  BY <1>3, <1>4, <1>5

\* With nothing lost, of message m and at the end of the one before, what ends
\* as m does is m.
LEMMA NoneLostExact ==
  ASSUME OrderInv, MessagesInv, FragmentsInv, EndInv, ClosedInv,
         NEW i \in DOMAIN appLog, NEW m \in DOMAIN messages,
         messages[m].whole, appLog[i] # <<>>,
         Last(appLog[i]) = Last(messages[m].frames),
         m > 1 => messages[m - 1].whole /\ Last(messages[m - 1].frames) \in Handed,
         ToSet(messages[m].frames) \subseteq Handed
  PROVE  appLog[i] = messages[m].frames
<1>1. PICK h, K : h = Append(appLog, reassembly) /\ K = Len(appLog)
  OBVIOUS
<1>2. appLog \in Seq(Seq(Nat)) /\ reassembly \in Seq(Nat)
  BY DEF OrderInv, InOrder, Start
<1>3. /\ K \in Nat /\ DOMAIN h = 1 .. K + 1 /\ DOMAIN appLog = 1 .. K
      /\ \A j \in 1 .. K : h[j] = appLog[j]
      /\ \A j \in DOMAIN h : h[j] \in Seq(Nat)
  BY <1>1, <1>2
<1>4. \A j, l \in DOMAIN h : \A p \in DOMAIN h[j], q \in DOMAIN h[l] :
         j < l \/ (j = l /\ p < q) => h[j][p] < h[l][q]
  <2>1. Ordered(h, Horizon)
    BY <1>1 DEF OrderInv, InOrder, Start
  <2>2. QED
    BY <2>1 DEF Ordered
<1>5. PICK f, L : f = appLog[i] /\ L = Len(f)
  OBVIOUS
<1>6. /\ i \in DOMAIN h /\ i \in 1 .. K /\ h[i] = f /\ f \in Seq(Nat)
      /\ L \in Nat \ {0} /\ DOMAIN f = 1 .. L /\ L \in DOMAIN f
  <2>1. i \in 1 .. K /\ i \in DOMAIN h /\ h[i] = f /\ f \in Seq(Nat) /\ f # <<>>
    BY <1>3, <1>5
  <2>2. L \in Nat /\ DOMAIN f = 1 .. L /\ L # 0
    BY <1>5, <2>1
  <2>3. QED
    BY <2>1, <2>2
<1>7. PICK g, n, a : g = messages[m].frames /\ n = Len(g) /\ a = FirstId(m)
  OBVIOUS
<1>8. /\ g \in Seq(Nat) /\ n \in Nat \ {0} /\ DOMAIN g = 1 .. n
      /\ \A p \in 1 .. n : g[p] = a + (p - 1)
  <2>1. LaidOut(m)
    BY DEF MessagesInv
  <2>2. g \in Seq(Nat) /\ n \in Nat \ {0} /\ \A p \in 1 .. n : g[p] = a + (p - 1)
    BY <1>7, <2>1 DEF LaidOut
  <2>3. QED
    BY <1>7, <2>2
<1>9. a \in Nat
  <2>1. a = g[1] /\ 1 \in 1 .. n
    BY <1>7, <1>8 DEF FirstId
  <2>2. QED
    BY <1>8, <2>1, ElementOfSeq
<1>10. PICK z : z = a + (n - 1)
  OBVIOUS
<1>11. z \in Nat /\ f[L] = z /\ z = a + n - 1
  <2>1. f[L] = g[n]
    BY <1>5, <1>7 DEF Last
  <2>2. n \in 1 .. n /\ g[n] = a + (n - 1)
    BY <1>8
  <2>3. QED
    BY <1>8, <1>9, <1>10, <2>1, <2>2
<1>12. \A x \in a .. z : x \in FrameIds(m) /\ x \in Handed
  <2> SUFFICES ASSUME NEW x \in a .. z PROVE x \in FrameIds(m) /\ x \in Handed
    OBVIOUS
  <2>1. PICK p : p = x - a + 1
    OBVIOUS
  <2>2. p \in 1 .. n /\ x = a + (p - 1)
    BY <1>8, <1>9, <1>10, <2>1
  <2>3. p \in DOMAIN g /\ g[p] = x
    BY <1>8, <2>2
  <2>4. x \in ToSet(g)
    BY <2>3 DEF ToSet
  <2>5. QED
    BY <1>7, <2>4 DEF FrameIds
\* Nothing of m is elsewhere,
<1>13. ASSUME NEW x \in a .. z PROVE \E p \in DOMAIN f : f[p] = x
  <2>1. PICK j \in DOMAIN h : \E p \in DOMAIN h[j] : h[j][p] = x
    BY <1>1, <1>2, <1>12, HandedWhere
  <2>2. PICK p \in DOMAIN h[j] : h[j][p] = x
    BY <2>1
  <2>3. x \in Nat /\ a <= x /\ x <= z
    BY <1>9, <1>11
  <2>4. CASE j = i
    BY <1>6, <2>2, <2>4
  <2>5. CASE i < j
    <3>1. h[i][L] < h[j][p]
      BY <1>4, <1>6, <2>5
    <3>2. QED
      BY <1>6, <1>11, <2>2, <2>3, <3>1
  <2>6. CASE j < i
    <3>1. PICK e, E : e = h[j] /\ E = Len(e)
      OBVIOUS
    <3>2. j \in 1 .. K /\ e \in Seq(Nat) /\ e = appLog[j]
      <4>1. j \in 1 .. K
        BY <1>3, <1>6, <2>6
      <4>2. QED
        BY <1>3, <3>1, <4>1
    <3>3. /\ E \in Nat \ {0} /\ DOMAIN e = 1 .. E /\ E \in DOMAIN e
          /\ e[E] \in Nat /\ Last(e) = e[E]
      <4>1. E \in Nat /\ DOMAIN e = 1 .. E /\ p \in DOMAIN e
        BY <2>2, <3>1, <3>2
      <4>2. E \in Nat \ {0} /\ E \in DOMAIN e
        BY <4>1
      <4>3. QED
        BY <3>1, <3>2, <4>1, <4>2, ElementOfSeq DEF Last
    <3>4. PICK c \in DOMAIN messages : Last(e) = Last(messages[c].frames)
      BY <1>3, <3>2 DEF EndInv, Ended, Ends, Start
    <3>5. e[E] \in FrameIds(c)
      <4>1. PICK b, B : b = messages[c].frames /\ B = Len(b)
        OBVIOUS
      <4>2. b \in Seq(Nat) /\ B \in Nat \ {0}
        BY <4>1 DEF MessagesInv, LaidOut
      <4>3. DOMAIN b = 1 .. B /\ B \in DOMAIN b /\ Last(b) = b[B]
        BY <4>1, <4>2 DEF Last
      <4>4. e[E] \in ToSet(b)
        BY <3>3, <3>4, <4>1, <4>3 DEF ToSet
      <4>5. QED
        BY <4>1, <4>4 DEF FrameIds
    <3>6. e[E] < z
      <4>1. h[j][E] < h[i][L]
        BY <1>4, <1>6, <2>6, <3>1, <3>3
      <4>2. QED
        BY <1>6, <1>11, <3>1, <4>1
    <3>7. x <= e[E]
      <4>1. CASE p = E
        BY <2>2, <2>3, <3>1, <4>1
      <4>2. CASE p # E
        <5>1. p < E
          BY <2>2, <3>1, <3>3, <4>2
        <5>2. h[j][p] < h[j][E]
          BY <1>4, <2>2, <3>1, <3>3, <5>1
        <5>3. QED
          BY <2>2, <2>3, <3>1, <3>3, <5>2
      <4>3. QED
        BY <4>1, <4>2
    <3>8. e[E] \in a .. z
      BY <1>9, <1>11, <2>3, <3>3, <3>6, <3>7
    <3>9. c = m
      BY <1>12, <3>5, <3>8 DEF FragmentsInv
    <3>10. e[E] = z
      BY <1>5, <1>6, <1>11, <3>3, <3>4, <3>9 DEF Last
    <3>11. QED
      BY <1>11, <3>3, <3>6, <3>10
  <2>7. QED
    BY <1>3, <1>6, <2>4, <2>5, <2>6
\* nothing else came with it,
<1>14. ASSUME NEW q \in DOMAIN f PROVE a <= f[q] /\ f[q] < a + n /\ f[q] \in Nat
  <2>1. PICK y : y = f[q]
    OBVIOUS
  <2>2. y \in Nat /\ y <= z
    <3>1. y \in Nat
      BY <1>6, <2>1, ElementOfSeq
    <3>2. CASE q = L
      BY <1>11, <2>1, <3>2
    <3>3. CASE q # L
      <4>1. q < L
        BY <1>6, <3>3
      <4>2. h[i][q] < h[i][L]
        BY <1>4, <1>6, <4>1
      <4>3. QED
        BY <1>6, <1>11, <2>1, <3>1, <4>2
    <3>4. QED
      BY <3>1, <3>2, <3>3
  <2>3. a <= y
    <3> SUFFICES ASSUME y < a PROVE FALSE
      BY <1>9, <2>2
    <3>1. messages \in Seq(Message) /\ m \in Nat /\ m >= 1
      BY DEF MessagesInv
    <3>2. m > 1
      <4> SUFFICES ASSUME m = 1 PROVE FALSE
        BY <3>1
      <4>1. a = 0
        BY <1>7 DEF ClosedInv
      <4>2. QED
        BY <2>2, <4>1
    <3>3. PICK v : v = Last(messages[m - 1].frames)
      OBVIOUS
    <3>4. m - 1 \in DOMAIN messages /\ (m - 1) + 1 = m
      <4>1. DOMAIN messages = 1 .. Len(messages) /\ Len(messages) \in Nat
        BY <3>1
      <4>2. QED
        BY <3>1, <3>2, <4>1
    <3>5. v = a - 1 /\ Final(v) /\ v \in Handed
      <4>1. LaidOut(m - 1)
        BY <3>4 DEF MessagesInv
      <4>2. PICK b, B, o : b = messages[m - 1].frames /\ B = Len(b) /\ o = FirstId(m - 1)
        OBVIOUS
      <4>3. /\ b \in Seq(Nat) /\ B \in Nat \ {0} /\ a = o + B
            /\ \A p \in 1 .. B : b[p] = o + (p - 1)
        BY <1>7, <3>4, <4>1, <4>2 DEF LaidOut
      <4>4. o = b[1] /\ 1 \in 1 .. B
        BY <3>4, <4>2, <4>3 DEF FirstId
      <4>5. o \in Nat
        BY <4>2, <4>3, <4>4, ElementOfSeq
      <4>6. v = b[B] /\ B \in 1 .. B
        BY <3>3, <4>2, <4>3 DEF Last
      <4>7. v = a - 1
        BY <4>3, <4>5, <4>6
      <4>8. QED
        BY <3>2, <3>3, <3>4, <4>7 DEF Final
    <3>6. PICK j \in DOMAIN h : \E p \in DOMAIN h[j] : h[j][p] = v
      BY <1>1, <1>2, <3>5, HandedWhere
    <3>7. PICK p \in DOMAIN h[j] : h[j][p] = v
      BY <3>6
    <3>8. v \in Nat /\ y <= v /\ v < z /\ v # z
      BY <1>8, <1>9, <1>10, <2>2, <3>5
    <3>9. CASE j = i
      <4>1. p \in DOMAIN f /\ f[p] = v
        BY <1>6, <3>7, <3>9
      <4>2. Shut(f)
        BY <1>5 DEF ClosedInv, Closed, Start
      <4>3. p = L
        BY <1>5, <3>5, <4>1, <4>2 DEF Shut
      <4>4. QED
        BY <1>11, <3>8, <4>1, <4>3
    <3>10. CASE i < j
      <4>1. h[i][L] < h[j][p]
        BY <1>4, <1>6, <3>10
      <4>2. QED
        BY <1>6, <1>11, <3>7, <3>8, <4>1
    <3>11. CASE j < i
      <4>1. h[j][p] < h[i][q]
        BY <1>4, <1>6, <3>7, <3>11
      <4>2. QED
        BY <1>6, <2>1, <2>2, <3>7, <3>8, <4>1
    <3>12. QED
      BY <1>3, <1>6, <3>9, <3>10, <3>11
  <2>4. QED
    BY <1>8, <1>9, <1>10, <2>1, <2>2, <2>3
\* and it is in order.
<1>15. \A p, q \in DOMAIN f : p < q => f[p] < f[q]
  BY <1>4, <1>6
<1>16. f = g
  <2>1. \A x \in a .. a + n - 1 : \E p \in DOMAIN f : f[p] = x
    BY <1>11, <1>13
  <2>2. f \in Seq(Nat) /\ f # <<>>
    BY <1>5, <1>6
  <2>3. /\ g \in Seq(Nat) /\ n \in Nat \ {0} /\ Len(g) = n
        /\ \A p \in 1 .. n : g[p] = a + (p - 1)
    BY <1>7, <1>8
  <2>4. \A q \in DOMAIN f : a <= f[q] /\ f[q] < a + n
    BY <1>14
  <2>5. QED
    BY <1>9, <1>15, <2>1, <2>2, <2>3, <2>4, RunOfIds
<1>17. QED
  BY <1>5, <1>7, <1>16

\* Whatever fails, is purged, or does not fit: what reaches the application of
\* relinow_on_receive ends with the last frame of a message that was submitted,
\* and is that message, unless a cut-short send before it or a loss of its own
\* frames, or of the frame right before them, accounts for the difference.
THEOREM LinkSpoiltForCause == LinkSpec => []SpoiltForCause
<1>1. ASSUME OrderInv, MessagesInv, FragmentsInv, EndInv, ClosedInv
      PROVE  SpoiltForCause
  <2>1. ASSUME NEW i \in DOMAIN appLog
        PROVE  \E m \in DOMAIN messages :
                  /\ messages[m].whole
                  /\ appLog[i] # <<>> /\ Last(appLog[i]) = Last(messages[m].frames)
                  /\ \/ appLog[i] = messages[m].frames
                     \/ /\ Len(messages[m].frames) > 1
                        /\ \/ m > 1 /\ ~messages[m - 1].whole
                           \/ m > 1 /\ Last(messages[m - 1].frames) \notin Handed
                           \/ ~(ToSet(messages[m].frames) \subseteq Handed)
    <3>1. PICK m \in DOMAIN messages :
            /\ messages[m].whole
            /\ appLog[i] # <<>> /\ Last(appLog[i]) = Last(messages[m].frames)
      BY <1>1 DEF EndInv, Ended, Ends, Start
    <3>2. PICK f, g, n : f = appLog[i] /\ g = messages[m].frames /\ n = Len(g)
      OBVIOUS
    <3>3. f \in Seq(Nat) /\ g \in Seq(Nat) /\ n \in Nat \ {0} /\ Shut(f)
      <4>1. appLog \in Seq(Seq(Nat)) /\ Shut(f)
        BY <1>1, <3>2 DEF ClosedInv, Closed, Start
      <4>2. LaidOut(m)
        BY <1>1 DEF MessagesInv
      <4>3. QED
        BY <3>2, <4>1, <4>2, ElementOfSeq DEF LaidOut
    <3>4. CASE n = 1
      <4>1. PICK L : L = Len(f)
        OBVIOUS
      <4>2. L \in Nat \ {0} /\ DOMAIN f = 1 .. L /\ L \in DOMAIN f
        <5>1. L \in Nat /\ DOMAIN f = 1 .. L /\ L # 0
          BY <3>1, <3>2, <3>3, <4>1
        <5>2. QED
          BY <5>1
      <4>3. f[L] = g[1]
        BY <3>1, <3>2, <3>4, <4>1 DEF Last
      <4>4. Lone(f[L])
        BY <3>1, <3>2, <3>4, <4>3 DEF Lone
      <4>5. L = 1
        BY <3>3, <4>1, <4>2, <4>4 DEF Shut
      <4>6. f = g
        <5>1. f \in [1 .. 1 -> Nat] /\ g \in [1 .. 1 -> Nat]
          <6>1. f \in [1 .. Len(f) -> Nat] /\ g \in [1 .. Len(g) -> Nat]
            BY <3>3, LenProperties
          <6>2. Len(f) = 1 /\ Len(g) = 1
            BY <3>2, <3>4, <4>1, <4>5
          <6>3. QED
            BY <6>1, <6>2
        <5>2. \A p \in 1 .. 1 : f[p] = g[p]
          BY <4>3, <4>5
        <5>3. QED
          BY <5>1, <5>2
      <4>7. QED
        BY <3>1, <3>2, <4>6
    <3>5. CASE n > 1
      BY <1>1, <3>1, <3>2, <3>5, NoneLostExact
    <3>6. QED
      BY <3>3, <3>4, <3>5
  <2>2. QED
    BY <2>1 DEF SpoiltForCause
<1>2. QED
  BY <1>1, OrderInvariant, MessagesInvariant, FragmentsInvariant, EndInvariant,
     ClosedInvariant, PTL

-----------------------------------------------------------------------------
(* The undisturbed link.  What a RELIABLE channel promises end to end it   *)
(* keeps as long as nothing in the nodes gets in the way: no message is    *)
(* purged by the fragment timeout or fragmented before the window is open, *)
(* the buffer has room for a message, and a frame that arrives finds a     *)
(* slot of the cache.  Sends may fail, and counts may wrap, as long as no  *)
(* message has been cut short by it.  What an ACK promises takes room in   *)
(* the receive queue, too.                                                 *)

Undisturbed ==
    ~FragmentTimeouts /\ ~ColdFragments /\ MaxFragments <= MaxReassembly

\* So far, every message that was begun became packets to its end.
NoneCutShort == \A m \in DOMAIN messages : messages[m].whole

\* Every frame that may arrive has a slot of rx_cache or finds a free one.
\* Once the receive queue is full it does not matter any more.
CacheRoom ==
    \/ rxUsed = RxQueueSize
    \/ dataNet \subseteq rxCache
    \/ Cardinality(rxCache) < RxCacheSize

QueueSuffices == MaxPackets <= RxQueueSize

-----------------------------------------------------------------------------
(* The cursor of the receiving application in what was submitted.          *)

\* The messages after the o-th have been handed over up to one, of which the
\* buffer holds the beginning; d is the next frame of it.
Cursor(o, acc, d) ==
    LET L == Len(acc.log)
        b == Len(acc.buf)
    IN  /\ acc.log \in Seq(Seq(Nat)) /\ acc.buf \in Seq(Nat)
        /\ o + L <= Len(messages)
        /\ \A i \in 1 .. L : acc.log[i] = messages[o + i].frames
        /\ d = FirstId(o + L + 1) + b
        /\ b > 0 => /\ o + L + 1 <= Len(messages)
                    /\ b < Len(messages[o + L + 1].frames)
                    /\ \A p \in 1 .. b : acc.buf[p] = messages[o + L + 1].frames[p]

\* The next frame belongs to the message at the cursor, and says rightly
\* whether it is a fragment and whether it is the last.
LEMMA CursorFrame ==
  ASSUME NoneCutShort, LinkInv, MessagesInv, FragmentsInv, NEW o \in Nat, NEW acc,
         NEW d \in Nat, d < nextTxSeq, Cursor(o, acc, d)
  PROVE  LET c == o + Len(acc.log) + 1
             f == messages[c].frames
             b == Len(acc.buf)
         IN  /\ c \in DOMAIN messages /\ b < Len(f) /\ f[b + 1] = d
             /\ IsFragment(d) <=> Len(f) > 1
             /\ IsLastFragment(d) <=> b + 1 = Len(f)
<1>1. PICK c, b : c = o + Len(acc.log) + 1 /\ b = Len(acc.buf)
  OBVIOUS
<1>2. /\ Len(acc.log) \in Nat /\ b \in Nat /\ Len(messages) \in Nat
      /\ o + Len(acc.log) <= Len(messages)
  BY <1>1 DEF Cursor, MessagesInv
<1>3. c \in 1 .. Len(messages) + 1
  BY <1>1, <1>2
<1>4. Place(c, b, d)
  BY <1>1, <1>2, <1>3 DEF Place, Cursor
<1>5. /\ c \in DOMAIN messages /\ b < Len(messages[c].frames)
      /\ messages[c].frames[b + 1] = d
      /\ IsFragment(d) <=> ~messages[c].whole \/ Len(messages[c].frames) > 1
      /\ IsLastFragment(d) <=> messages[c].whole /\ b + 1 = Len(messages[c].frames)
  BY <1>4, FrameAt
<1>6. messages[c].whole
  BY <1>5 DEF NoneCutShort
<1>7. QED
  BY <1>1, <1>5, <1>6

\* A frame that joins the buffer, or completes the message with it, is one more.
LEMMA HandedMore ==
  ASSUME NEW acc, acc.log \in Seq(Seq(Nat)), acc.buf \in Seq(Nat), NEW d \in Nat,
         NEW out,
         \/ out.buf = Append(acc.buf, d) /\ out.log = acc.log
         \/ out.log = Append(acc.log, Append(acc.buf, d))
  PROVE  d \in HandedIn(out) /\ HandedIn(acc) \subseteq HandedIn(out)
<1>0. PICK log, buf : log = acc.log /\ buf = acc.buf
  OBVIOUS
<1>1. log \in Seq(Seq(Nat)) /\ buf \in Seq(Nat)
  BY <1>0
<1>2. d \in ToSet(Append(buf, d)) /\ \A x \in ToSet(buf) : x \in ToSet(Append(buf, d))
  <2>1. /\ DOMAIN buf = 1 .. Len(buf) /\ Len(buf) \in Nat
        /\ DOMAIN Append(buf, d) = 1 .. Len(buf) + 1
        /\ \A p \in 1 .. Len(buf) : Append(buf, d)[p] = buf[p]
        /\ Append(buf, d)[Len(buf) + 1] = d
    BY <1>1
  <2>2. DOMAIN Append(buf, d) = DOMAIN buf \cup {Len(buf) + 1}
    BY <2>1
  <2>3. QED
    BY <2>1, <2>2 DEF ToSet
<1>3. CASE out.buf = Append(acc.buf, d) /\ out.log = acc.log
  BY <1>0, <1>2, <1>3, HandedInIs
<1>4. CASE out.log = Append(acc.log, Append(acc.buf, d))
  <2>1. PICK new, top : new = Append(buf, d) /\ top = Len(log) + 1
    OBVIOUS
  <2>2. /\ top \in DOMAIN out.log /\ out.log[top] = new
        /\ \A i \in DOMAIN log : i \in DOMAIN out.log /\ out.log[i] = log[i]
    <3>1. out.log = Append(log, new)
      BY <1>0, <1>4, <2>1
    <3>2. new \in Seq(Nat) /\ Len(log) \in Nat /\ DOMAIN log = 1 .. Len(log)
      BY <1>1, <2>1
    <3>3. /\ DOMAIN Append(log, new) = 1 .. Len(log) + 1
          /\ Append(log, new)[Len(log) + 1] = new
          /\ \A i \in 1 .. Len(log) : Append(log, new)[i] = log[i]
      BY <1>1, <3>2
    <3>4. QED
      BY <2>1, <3>1, <3>2, <3>3
  <2>3. d \in HandedIn(out)
    BY <1>2, <2>1, <2>2, HandedInIs
  <2>4. ASSUME NEW x \in HandedIn(acc) PROVE x \in HandedIn(out)
    <3>1. CASE x \in ToSet(buf)
      BY <1>2, <2>1, <2>2, <3>1, HandedInIs
    <3>2. CASE \E i \in DOMAIN log : x \in ToSet(log[i])
      BY <2>2, <3>2, HandedInIs
    <3>3. QED
      BY <1>0, <3>1, <3>2, HandedInIs
  <2>5. QED
    BY <2>3, <2>4
<1>5. QED
  BY <1>3, <1>4

\* A turn with the next frame moves the cursor one frame on: into the buffer,
\* or to the next message with this one handed over.
LEMMA TurnCursor ==
  ASSUME Undisturbed, NoneCutShort, LinkInv, MessagesInv, FragmentsInv,
         NEW o \in Nat, NEW acc, NEW d \in Nat, d < nextTxSeq, Cursor(o, acc, d), NEW cache, d \in cache
  PROVE  LET out == Turn(acc, d, cache)
         IN  /\ Cursor(o, out, d + 1)
             /\ Len(acc.log) <= Len(out.log)
             /\ d \in HandedIn(out) /\ HandedIn(acc) \subseteq HandedIn(out)
<1>0. PICK log, buf : log = acc.log /\ buf = acc.buf
  OBVIOUS
<1>1. PICK c, f, L, b : /\ L = Len(log) /\ b = Len(buf) /\ c = o + L + 1
                        /\ f = messages[c].frames
  OBVIOUS
<1>2. /\ log \in Seq(Seq(Nat)) /\ buf \in Seq(Nat) /\ L \in Nat /\ b \in Nat
      /\ o + L <= Len(messages) /\ \A i \in 1 .. L : log[i] = messages[o + i].frames
      /\ d = FirstId(c) + b
      /\ b > 0 => \A p \in 1 .. b : buf[p] = f[p]
  BY <1>0, <1>1 DEF Cursor
<1>3. /\ c \in DOMAIN messages /\ b < Len(f) /\ f[b + 1] = d
      /\ IsFragment(d) <=> Len(f) > 1
      /\ IsLastFragment(d) <=> b + 1 = Len(f)
  BY <1>0, <1>1, CursorFrame
<1>4. /\ f \in Seq(Nat) /\ Len(f) \in 1 .. MaxFragments /\ MaxFragments \in Nat
      /\ FirstId(c + 1) = FirstId(c) + Len(f)
      /\ FirstId(c) = f[1] /\ f[1] \in Nat
  <2>1. LaidOut(c)
    BY <1>3 DEF MessagesInv
  <2>2. f \in Seq(Nat) /\ Len(f) \in 1 .. MaxFragments /\ FirstId(c + 1) = FirstId(c) + Len(f)
    <3>1. messages[c].whole
      BY <1>3 DEF NoneCutShort
    <3>2. Len(f) \in Nat \ {0} /\ Len(f) <= MaxFragments /\ MaxFragments \in Nat
      BY <1>1, <2>1, <3>1, LinkAssumption DEF LaidOut
    <3>3. QED
      BY <1>1, <2>1, <3>2 DEF LaidOut
  <2>3. FirstId(c) = f[1]
    BY <1>1, <1>3 DEF FirstId
  <2>4. QED
    BY <2>2, <2>3, LinkAssumption
<1>b. PICK x, y : x = FirstId(c) /\ y = Len(f)
  OBVIOUS
<1>a. /\ x \in Nat /\ y \in Nat /\ b \in Nat /\ L \in Nat /\ MaxReassembly \in Nat
      /\ 1 <= y /\ y <= MaxReassembly /\ b < y /\ d = x + b /\ FirstId(c + 1) = x + y
  <2>1. x \in Nat /\ d = x + b /\ FirstId(c + 1) = x + y /\ b < y
    BY <1>2, <1>3, <1>4, <1>b
  <2>2. y \in Nat /\ 1 <= y /\ y <= MaxReassembly
    BY <1>4, <1>b, LinkAssumption DEF Undisturbed
  <2>3. QED
    BY <1>2, <2>1, <2>2, LinkAssumption
<1>5. c <= Len(messages) /\ Len(messages) \in Nat /\ c \in Nat
  BY <1>1, <1>2, <1>3 DEF MessagesInv
<1>6. PICK new : new = Append(buf, d)
  OBVIOUS
<1>7. /\ new \in Seq(Nat) /\ Len(new) = b + 1
      /\ \A p \in 1 .. b + 1 : new[p] = f[p]
  <2>1. /\ new \in Seq(Nat) /\ Len(new) = b + 1 /\ new[b + 1] = d
        /\ \A p \in 1 .. b : new[p] = buf[p]
    BY <1>1, <1>2, <1>6
  <2>2. ASSUME NEW p \in 1 .. b + 1 PROVE new[p] = f[p]
    <3>1. p \in 1 .. b \/ p = b + 1
      BY <1>2
    <3>2. p \in 1 .. b => b > 0
      BY <1>2
    <3>3. QED
      BY <1>2, <1>3, <2>1, <3>1, <3>2
  <2>3. QED
    BY <2>1, <2>2
<1>8. ASSUME NEW out, out.buf = <<>>, out.log = Append(log, new), b + 1 = Len(f)
      PROVE  Cursor(o, out, d + 1) /\ L <= Len(out.log)
  <2>1. new = f
    BY <1>4, <1>7, <1>8, SeqEqual
  <2>2. /\ out.log \in Seq(Seq(Nat)) /\ Len(out.log) = L + 1
        /\ out.log[L + 1] = new /\ \A i \in 1 .. L : out.log[i] = log[i]
    BY <1>1, <1>2, <1>7, <1>8
  <2>3. \A i \in 1 .. L + 1 : out.log[i] = messages[o + i].frames
    <3>1. \A i \in 1 .. L + 1 : i \in 1 .. L \/ i = L + 1
      BY <1>2
    <3>2. o + (L + 1) = c
      BY <1>1, <1>2
    <3>3. QED
      BY <1>1, <1>2, <2>1, <2>2, <3>1, <3>2
  <2>4. d + 1 = FirstId(o + (L + 1) + 1) + 0
    <3>1. o + (L + 1) + 1 = c + 1
      BY <1>1, <1>2
    <3>2. d + 1 = (x + y) + 0
      <4>1. b + 1 = y
        BY <1>8, <1>b
      <4>2. QED
        BY <1>a, <4>1
    <3>3. QED
      BY <1>a, <3>1, <3>2
  <2>5. out.buf \in Seq(Nat) /\ Len(out.buf) = 0
    BY <1>8
  <2>6. o + (L + 1) <= Len(messages)
    BY <1>1, <1>2, <1>5
  <2>7. L <= L + 1
    BY <1>2
  <2>8. QED
    BY <2>2, <2>3, <2>4, <2>5, <2>6, <2>7 DEF Cursor
<1>9. ASSUME NEW out, out.buf = new, out.log = log, b + 1 # Len(f)
      PROVE  Cursor(o, out, d + 1) /\ L <= Len(out.log)
  <2>1. b + 1 < Len(f) /\ d + 1 = FirstId(c) + (b + 1) /\ L <= L
    <3>1. b + 1 # y
      BY <1>9, <1>b
    <3>2. b + 1 < y /\ d + 1 = x + (b + 1) /\ L <= L
      BY <1>a, <3>1
    <3>3. QED
      BY <1>b, <3>2
  <2>2. QED
    BY <1>1, <1>2, <1>5, <1>7, <1>9, <2>1 DEF Cursor
<1>10. PICK out : out = Turn(acc, d, cache)
  OBVIOUS
<1>11. CASE Len(f) = 1
  <2>1. b = 0 /\ b + 1 = Len(f) /\ ~IsFragment(d)
    BY <1>2, <1>3, <1>11
  <2>2. out = [buf |-> <<>>, log |-> Append(log, <<d>>)]
    BY <1>0, <1>10, <2>1 DEF Turn, HandOver
  <2>3. new = <<d>>
    <3>1. buf = <<>>
      <4>1. buf \in Seq(Nat) /\ Len(buf) = 0
        BY <1>1, <1>2, <2>1
      <4>2. QED
        BY <4>1, EmptySeq
    <3>2. QED
      BY <1>6, <3>1
  <2>4. out.buf = <<>> /\ out.log = Append(log, new)
    BY <2>2, <2>3
  <2>5. Cursor(o, out, d + 1) /\ L <= Len(out.log)
    BY <1>8, <2>1, <2>4
  <2>6. d \in HandedIn(out) /\ HandedIn(acc) \subseteq HandedIn(out)
    BY <1>0, <1>2, <1>6, <2>4, HandedMore
  <2>7. QED
    BY <1>0, <1>1, <1>10, <2>5, <2>6
<1>12. CASE Len(f) # 1
  <2>1. IsFragment(d) /\ ~(Len(buf) >= MaxReassembly)
    <3>1. y > 1 /\ ~(b >= MaxReassembly)
      BY <1>a, <1>b, <1>12
    <3>2. Len(f) > 1
      BY <1>b, <3>1
    <3>3. QED
      BY <1>1, <1>3, <3>1, <3>2
  <2>2. CASE b + 1 = Len(f)
    <3>1. out = [buf |-> <<>>, log |-> Append(log, new)]
      BY <1>0, <1>3, <1>6, <1>10, <2>1, <2>2 DEF Turn, HandOver
    <3>2. out.buf = <<>> /\ out.log = Append(log, new)
      BY <3>1
    <3>3. Cursor(o, out, d + 1) /\ L <= Len(out.log)
      BY <1>8, <2>2, <3>2
    <3>4. d \in HandedIn(out) /\ HandedIn(acc) \subseteq HandedIn(out)
      BY <1>0, <1>2, <1>6, <3>2, HandedMore
    <3>5. QED
      BY <1>0, <1>1, <1>10, <3>3, <3>4
  <2>3. CASE b + 1 # Len(f)
    <3>1. out = [buf |-> new, log |-> log]
      BY <1>0, <1>3, <1>6, <1>10, <2>1, <2>3 DEF Turn, HandOver
    <3>2. out.buf = new /\ out.log = log
      BY <3>1
    <3>3. Cursor(o, out, d + 1) /\ L <= Len(out.log)
      BY <1>9, <2>3, <3>2
    <3>4. d \in HandedIn(out) /\ HandedIn(acc) \subseteq HandedIn(out)
      BY <1>0, <1>2, <1>6, <3>2, HandedMore
    <3>5. QED
      BY <1>0, <1>1, <1>10, <3>3, <3>4
  <2>4. QED
    BY <2>2, <2>3
<1>13. QED
  BY <1>11, <1>12

\* So does the loop, as long as every frame it turns to is in the cache.
LEMMA LoopCursor ==
  ASSUME Undisturbed, NoneCutShort, LinkInv, MessagesInv, FragmentsInv, NEW o \in Nat,
         NEW s \in Nat, NEW n \in Nat, NEW cache, s + n < nextTxSeq,
         \A k \in 0 .. n : SeqAdd(s, k) = s + k /\ s + k \in cache,
         Cursor(o, Start, s)
  PROVE  LET out == DeliveryLoop(s, n, cache)
         IN  /\ Cursor(o, out, s + n + 1)
             /\ Len(Start.log) <= Len(out.log)
             /\ s + n \in HandedIn(out) /\ HandedIn(Start) \subseteq HandedIn(out)
<1> DEFINE At(k) == Loop(s, n, cache)[k]
           Good(k) == /\ Cursor(o, At(k), s + k)
                      /\ Len(Start.log) <= Len(At(k).log)
                      /\ HandedIn(Start) \subseteq HandedIn(At(k))
                      /\ k > 0 => s + k - 1 \in HandedIn(At(k))
           S == {k \in 0 .. n + 1 : Good(k)}
<1>1. nextTxSeq \in Nat
  BY LinkAssumption DEF LinkInv, SenderInv
<1>2. 0 \in S
  <2>1. At(0) = Start /\ s + 0 = s
    BY LoopTurns
  <2>2. Len(Start.log) <= Len(Start.log)
    BY DEF Cursor
  <2>3. QED
    BY <2>1, <2>2
<1>3. ASSUME NEW k \in 0 .. n, k \in S PROVE k + 1 \in S
  <2>1. Good(k)
    BY <1>3
  <2>2. PICK d : d = s + k
    OBVIOUS
  <2>3. /\ d \in Nat /\ d < nextTxSeq /\ d \in cache /\ SeqAdd(s, k) = d
        /\ k + 1 \in 0 .. n + 1 /\ s + (k + 1) = d + 1 /\ s + (k + 1) - 1 = d
    BY <1>1, <2>2
  <2>4. At(k + 1) = Turn(At(k), d, cache)
    BY <2>3, LoopTurns
  <2>5. Cursor(o, At(k), d)
    BY <2>1, <2>2
  <2> HIDE DEF At
  <2>6. /\ Cursor(o, At(k + 1), d + 1)
        /\ Len(At(k).log) <= Len(At(k + 1).log)
        /\ d \in HandedIn(At(k + 1)) /\ HandedIn(At(k)) \subseteq HandedIn(At(k + 1))
    BY <2>3, <2>4, <2>5, TurnCursor
  <2>7. Len(Start.log) <= Len(At(k + 1).log)
    <3>1. /\ Len(Start.log) \in Nat /\ Len(At(k).log) \in Nat
          /\ Len(At(k + 1).log) \in Nat
      BY <2>5, <2>6, LenProperties DEF Cursor
    <3>2. QED
      BY <2>1, <2>6, <3>1
  <2>8. QED
    BY <2>1, <2>3, <2>6, <2>7
<1>4. n + 1 \in S
  <2> HIDE DEF S
  <2>1. n + 1 \in Nat /\ (n + 1) - 1 = n /\ n + 1 \in 0 .. n + 1
    OBVIOUS
  <2>2. QED
    BY <1>2, <1>3, <2>1, CountUp
<1>5. Good(n + 1) /\ n + 1 > 0 /\ s + (n + 1) = s + n + 1 /\ s + (n + 1) - 1 = s + n
  BY <1>4
<1>6. At(n + 1) = DeliveryLoop(s, n, cache)
  BY LoopTurns
<1> HIDE DEF At
<1>7. QED
  BY <1>5, <1>6

-----------------------------------------------------------------------------
(* What the undisturbed link keeps.                                        *)

\* What is cached was sent, and what is buffered has its frame; once the
\* window is open the application stands at a cursor that ends where the
\* window begins.  Unless the queue is full: then it stays where it is.
DeliveryInv ==
    /\ rxCache \subseteq Used
    /\ reorder \subseteq rxCache \/ rxUsed = RxQueueSize
    /\ hasRxWindow => \E o \in Nat : \E d \in Nat :
                         /\ Cursor(o, Start, d)
                         /\ d = expectedRxSeq \/ rxUsed = RxQueueSize
    /\ ~hasRxWindow => appLog = <<>> /\ reassembly = <<>>

\* Everything an ACK may name has been handed over.
AckInv ==
    /\ hasRxWindow => rxUsed <= expectedRxSeq /\ expectedRxSeq - 1 \in Handed
    /\ ~hasRxWindow => rxUsed = 0
    /\ ackNet \subseteq Handed
    /\ AckedReachesApp

AckedOrFull == AckInv \/ rxUsed = RxQueueSize

\* A frame that arrives finds a slot as long as the queue is not full.
LEMMA CacheHasRoom ==
  ASSUME CacheRoom, NEW s \in dataNet
  PROVE  /\ CacheOnArrival(s) \subseteq rxCache \cup {s}
         /\ rxUsed # RxQueueSize => CacheOnArrival(s) = rxCache \cup {s}
<1>1. CASE s \in rxCache \/ Cardinality(rxCache) < RxCacheSize
  BY <1>1 DEF CacheOnArrival
<1>2. CASE ~(s \in rxCache \/ Cardinality(rxCache) < RxCacheSize)
  BY <1>2 DEF CacheOnArrival, CacheRoom
<1>3. QED
  BY <1>1, <1>2

\* No code of the library takes anything out of the receive queue.
LEMMA QueueStaysFull ==
  ASSUME NEW n \in Nat, Enqueue(n), rxUsed = RxQueueSize
  PROVE  rxUsed' = RxQueueSize
<1>1. RxQueueSize \in Nat
  BY ReorderAssumption
<1>2. QED
  BY <1>1 DEF Enqueue, QueueOverflow

\* A delivery finds every frame in the cache and moves the cursor past them; or
\* the queue overflows, and from then on the cursor stays.
LEMMA AcceptDelivers ==
  ASSUME Undisturbed, CacheRoom, NoneCutShort, LinkInv, RxInv, MessagesInv, FragmentsInv,
         DeliveryInv, UNCHANGED senderVars,
         NEW s \in Used, s \in dataNet, NEW n \in Nat, s + n < nextTxSeq,
         \A k \in 1 .. n : SeqAdd(s, k) \in reorder, s \notin reorder,
         NEW o \in Nat, NEW d \in Nat, Cursor(o, Start, d), d = s \/ rxUsed = RxQueueSize,
         Accept(s, n), Enqueue(n + 1), reorder' = reorder \ Run(s, n),
         hasRxWindow', expectedRxSeq' = s + n + 1
  PROVE  /\ DeliveryInv' /\ \E e \in Nat : Cursor(o, Start, e)'
         /\ Len(appLog) <= Len(appLog')
         /\ AckInv /\ rxUsed <= s => AckInv' \/ (rxUsed' = RxQueueSize /\ ~QueueSuffices)
<1>1. /\ nextTxSeq \in Nat /\ nextTxSeq <= MaxPackets /\ MaxPackets \in Nat
      /\ SeqSpace \in Nat /\ MaxPackets < SeqSpace /\ s \in Nat
      /\ RxQueueSize \in Nat /\ rxUsed \in 0 .. RxQueueSize
  BY LinkAssumption, SeqSpaceAssumption, ReorderAssumption
     DEF LinkInv, SenderInv, Used, Undisturbed, RxInv, RxTypeOK
<1>2. /\ messages' = messages /\ Used' = Used /\ AckedSeqs' = AckedSeqs
      /\ \A m : FirstId(m)' = FirstId(m)
  BY DEF AckedSeqs, Sent, ToSet, Pending, Used, FirstId, senderVars
<1>3. PICK cache : cache = CacheOnArrival(s)
  OBVIOUS
<1>4. /\ cache \subseteq rxCache \cup {s}
      /\ rxUsed # RxQueueSize => cache = rxCache \cup {s}
  BY <1>3, CacheHasRoom
<1>5. CASE QueueOverflow(n + 1)
  <2>1. /\ rxCache' = cache /\ UNCHANGED <<reassembly, appLog, ackNet>>
        /\ rxUsed' = RxQueueSize
    BY <1>3, <1>5 DEF Accept, Enqueue
  <2>2. Cursor(o, Start, d)'
    <3>1. Start'.log = Start.log /\ Start'.buf = Start.buf
      BY <2>1 DEF Start
    <3>2. QED
      BY <1>2, <3>1 DEF Cursor
  <2>3. rxCache' \subseteq Used'
    BY <1>2, <1>4, <2>1 DEF DeliveryInv
  <2>4. DeliveryInv'
    BY <2>1, <2>2, <2>3 DEF DeliveryInv
  <2>5. Len(appLog) <= Len(appLog')
    <3>1. Start.log \in Seq(Seq(Nat))
      BY DEF Cursor
    <3>2. Len(appLog) \in Nat
      BY <3>1 DEF Start
    <3>3. QED
      BY <2>1, <3>2
  <2>6. rxUsed <= s => ~QueueSuffices
    BY <1>1, <1>5 DEF QueueOverflow, QueueSuffices
  <2>7. QED
    BY <2>1, <2>2, <2>4, <2>5, <2>6
<1>6. CASE ~QueueOverflow(n + 1)
  <2>0. rxUsed # RxQueueSize /\ cache = rxCache \cup {s} /\ reorder \subseteq rxCache
    <3>1. rxUsed # RxQueueSize
      BY <1>1, <1>6 DEF QueueOverflow
    <3>2. QED
      BY <1>4, <3>1 DEF DeliveryInv
  <2>1. \A k \in 0 .. n : SeqAdd(s, k) = s + k
    BY <1>1 DEF SeqAdd
  <2>2. \A k \in 0 .. n : SeqAdd(s, k) = s + k /\ s + k \in cache
    <3> SUFFICES ASSUME NEW k \in 0 .. n PROVE s + k \in cache
      BY <2>1
    <3>1. CASE k = 0
      BY <1>1, <2>0, <3>1
    <3>2. CASE k # 0
      <4>1. k \in 1 .. n
        BY <3>2
      <4>2. s + k \in reorder
        BY <2>1, <4>1
      <4>3. QED
        BY <2>0, <4>2
    <3>3. QED
      BY <3>1, <3>2
  <2>3. d = s
    BY <2>0
  <2>4. PICK out : out = DeliveryLoop(s, n, cache)
    OBVIOUS
  <2>5. /\ Cursor(o, out, s + n + 1) /\ Len(Start.log) <= Len(out.log)
        /\ s + n \in HandedIn(out) /\ HandedIn(Start) \subseteq HandedIn(out)
    BY <1>1, <2>2, <2>3, <2>4, LoopCursor
  <2>6. /\ rxCache' = cache \ ({s} \cup Run(s, n))
        /\ reassembly' = out.buf /\ appLog' = out.log
        /\ ackNet' = ackNet \cup {AckId'} /\ rxUsed' = rxUsed + (n + 1)
    BY <1>3, <1>6, <2>4 DEF Accept, Enqueue
  <2>7. Cursor(o, Start, expectedRxSeq)'
    <3>1. Start'.log = out.log /\ Start'.buf = out.buf
      BY <2>6 DEF Start
    <3>2. QED
      BY <1>2, <2>5, <3>1 DEF Cursor
  <2>8. expectedRxSeq' \in Nat /\ expectedRxSeq' >= 1 /\ expectedRxSeq' - 1 = s + n
    BY <1>1
  <2>9. rxCache' \subseteq Used' /\ reorder' \subseteq rxCache'
    BY <1>2, <2>0, <2>6 DEF DeliveryInv
  <2>10. PICK e \in Nat : e = expectedRxSeq' /\ Cursor(o, Start, e)'
    BY <2>7, <2>8
  <2>11. DeliveryInv'
    BY <2>9, <2>10 DEF DeliveryInv
  <2>12. Len(appLog) <= Len(appLog')
    BY <2>5, <2>6 DEF Start
  <2>13. Handed' = HandedIn(out) /\ Handed \subseteq Handed'
    <3>1. Handed' = HandedIn(out)
      BY <2>6 DEF Handed, HandedIn
    <3>2. QED
      BY <2>5, <3>1, HandedStart
  <2>14. ASSUME AckInv, rxUsed <= s PROVE AckInv'
    <3>1. AckId' = s + n
      BY <2>8 DEF AckId, SeqPrev, SeqDiff
    <3>2. ackNet' \subseteq Handed' /\ AckedReachesApp'
      BY <1>2, <2>5, <2>6, <2>13, <2>14, <3>1 DEF AckInv, AckedReachesApp
    <3>3. expectedRxSeq' - 1 \in Handed'
      BY <2>5, <2>8, <2>13
    <3>4. rxUsed' <= expectedRxSeq'
      BY <1>1, <2>6, <2>14
    <3>5. QED
      BY <3>2, <3>3, <3>4 DEF AckInv
  <2>15. QED
    BY <2>10, <2>11, <2>12, <2>14
<1>7. QED
  BY <1>5, <1>6

\* A frame that is not delivered leaves the cursor where it is.
LEMMA RefuseDelivers ==
  ASSUME CacheRoom, LinkInv, RxInv, DeliveryInv, UNCHANGED senderVars,
         hasRxWindow, UNCHANGED <<hasRxWindow, expectedRxSeq>>, Enqueue(0),
         NEW s \in Used, s \in dataNet, reorder' \subseteq reorder \cup {s}, Refuse(s)
  PROVE  /\ DeliveryInv' /\ (AckInv => AckInv') /\ UNCHANGED <<appLog, rxUsed>>
         /\ \E o \in Nat : \E d \in Nat : Cursor(o, Start, d) /\ Cursor(o, Start, d)'
<1>1. /\ rxCache' \subseteq rxCache \cup {s}
      /\ rxUsed # RxQueueSize => rxCache' = rxCache \cup {s}
  BY CacheHasRoom DEF Refuse
<1>2. /\ UNCHANGED <<Used, AckedSeqs, appLog, reassembly, Handed, messages>>
      /\ \A m : FirstId(m)' = FirstId(m)
  BY DEF Refuse, Used, AckedSeqs, Sent, ToSet, Pending, Handed, senderVars, FirstId
<1>3. AckId' = expectedRxSeq - 1
  <2>1. expectedRxSeq \in Nat /\ expectedRxSeq >= 1
    BY LinkAssumption DEF LinkInv, SenderInv, ReceiverInv
  <2>2. QED
    BY <2>1 DEF AckId, SeqPrev, SeqDiff
<1>4. PICK o \in Nat, d \in Nat : /\ Cursor(o, Start, d)
                                  /\ d = expectedRxSeq \/ rxUsed = RxQueueSize
  BY DEF DeliveryInv
<1>5. Cursor(o, Start, d)'
  BY <1>2, <1>4 DEF Cursor, Start
<1>6. rxUsed' = rxUsed
  <2>1. rxUsed \in 0 .. RxQueueSize /\ RxQueueSize \in Nat
    BY ReorderAssumption DEF RxInv, RxTypeOK
  <2>2. rxUsed + 0 = rxUsed /\ ~(rxUsed > RxQueueSize)
    BY <2>1
  <2>3. QED
    BY <2>2 DEF Enqueue, QueueOverflow
<1>7. DeliveryInv'
  BY <1>1, <1>2, <1>4, <1>5, <1>6 DEF DeliveryInv
<1>8. AckInv => AckInv'
  BY <1>2, <1>3, <1>6 DEF AckInv, AckedReachesApp, Refuse
<1>9. QED
  BY <1>2, <1>4, <1>5, <1>6, <1>7, <1>8

\* The frame that opens the window is a message of its own, which the cursor
\* points to.
LEMMA FirstCursor ==
  ASSUME Undisturbed, NoneCutShort, MessagesInv, DeliveryInv, ~hasRxWindow, NEW s \in Used
  PROVE  \E o \in Nat : Cursor(o, Start, s)
<1>0. s \in Nat /\ Start.log = <<>> /\ Start.buf = <<>>
  BY DEF DeliveryInv, Start, Used
<1>1. PICK m \in DOMAIN messages : s \in ToSet(messages[m].frames)
  BY DEF MessagesInv, Sent
<1>2. PICK f : f = messages[m].frames
  OBVIOUS
<1>3. /\ f \in Seq(Nat) /\ Len(f) = 1 /\ f[1] = FirstId(m) + (1 - 1)
  <2>1. LaidOut(m) /\ messages[m].whole /\ ~ColdFragments
    BY DEF MessagesInv, NoneCutShort, Undisturbed
  <2>2. f \in Seq(Nat) /\ Len(f) = 1 /\ \A p \in 1 .. Len(f) : f[p] = FirstId(m) + (p - 1)
    BY <1>2, <2>1 DEF LaidOut
  <2>3. QED
    BY <2>2
<1>4. f[1] = s /\ FirstId(m) = f[1]
  <2>1. DOMAIN f = {1}
    BY <1>3
  <2>2. QED
    BY <1>1, <1>2, <2>1 DEF ToSet, FirstId
<1>5. /\ m \in Nat /\ m >= 1 /\ m <= Len(messages)
  BY DEF MessagesInv
<1>6. PICK o \in Nat : o + 1 = m /\ o <= Len(messages)
  <2>1. m - 1 \in Nat /\ (m - 1) + 1 = m /\ m - 1 <= Len(messages)
    BY <1>5 DEF MessagesInv
  <2>2. QED
    BY <2>1
<1>7. /\ <<>> \in Seq(Seq(Nat)) /\ <<>> \in Seq(Nat) /\ Len(<<>>) = 0
      /\ o + 0 = o /\ o + 0 + 1 = m /\ s + 0 = s
  BY <1>0, <1>6
<1>8. Cursor(o, Start, s)
  BY <1>0, <1>4, <1>6, <1>7 DEF Cursor
<1>9. QED
  BY <1>8

\* A frame that arrives: before and after it, the application stands at the
\* same first message.
LEMMA ReceiveDelivers ==
  ASSUME Undisturbed, CacheRoom, NoneCutShort, LinkInv, RxInv, MessagesInv, FragmentsInv,
         DeliveryInv, ReceiveData
  PROVE  /\ DeliveryInv' /\ (rxUsed = RxQueueSize => rxUsed' = RxQueueSize)
         /\ AckInv => AckInv' \/ (rxUsed' = RxQueueSize /\ ~QueueSuffices)
         /\ Len(appLog) <= Len(appLog')
         /\ \E o, d, e \in Nat : Cursor(o, Start, d) /\ Cursor(o, Start, e)'
<1>1. PICK s \in SeqId : \/ ReceiveFirst(s) \/ ReceiveExpected(s)
                         \/ ReceiveAhead(s) \/ ReceiveDuplicate(s)
  BY DEF ReceiveData
<1>2. s \in Used /\ s \in dataNet /\ UNCHANGED senderVars
  BY <1>1 DEF LinkInv, SenderInv, ReceiveFirst, ReceiveExpected, ReceiveAhead,
              ReceiveDuplicate, TakeData
<1>3. /\ nextTxSeq \in Nat /\ nextTxSeq < SeqSpace /\ SeqSpace \in Nat
      /\ s \in Nat /\ s < nextTxSeq
  BY <1>2, LinkAssumption, SeqSpaceAssumption DEF LinkInv, SenderInv, Used
<1>4. CASE ReceiveFirst(s)
  <2>1. /\ ~hasRxWindow /\ hasRxWindow' /\ expectedRxSeq' = SeqNext(s)
        /\ Accept(s, 0) /\ Enqueue(1) /\ reorder' = reorder
    BY <1>4 DEF ReceiveFirst, OpenWindow
  <2>2. /\ 0 \in Nat /\ s + 0 < nextTxSeq /\ expectedRxSeq' = s + 0 + 1 /\ 0 + 1 = 1
        /\ 1 .. 0 = {}
    BY <1>3, <2>1 DEF SeqNext, SeqAdd
  <2>3. Run(s, 0) = {} /\ reorder = {}
    BY <2>1, <2>2 DEF Run, RxInv, NoWindowNoReorder
  <2>4. PICK o \in Nat : Cursor(o, Start, s)
    BY <1>2, <2>1, FirstCursor
  <2>5. Enqueue(0 + 1) /\ reorder' = reorder \ Run(s, 0)
    BY <2>1, <2>2, <2>3
  <2>6. /\ DeliveryInv' /\ \E e \in Nat : Cursor(o, Start, e)'
        /\ Len(appLog) <= Len(appLog')
        /\ AckInv /\ rxUsed <= s => AckInv' \/ (rxUsed' = RxQueueSize /\ ~QueueSuffices)
    BY <1>2, <1>3, <2>1, <2>2, <2>3, <2>4, <2>5, AcceptDelivers
  <2>7. AckInv => rxUsed <= s
    BY <1>3, <2>1 DEF AckInv
  <2>8. rxUsed = RxQueueSize => rxUsed' = RxQueueSize
    BY <2>2, <2>5, QueueStaysFull
  <2>9. QED
    BY <1>3, <2>4, <2>6, <2>7, <2>8
<1>5. CASE ReceiveExpected(s)
  <2>1. PICK n \in 0 .. MaxReorder : DeliverRun(s, n) /\ Accept(s, n)
    BY <1>5 DEF ReceiveExpected
  <2>2. /\ hasRxWindow /\ hasRxWindow' /\ s = expectedRxSeq
        /\ IsRun(s, n) /\ expectedRxSeq' = SeqAdd(s, n + 1)
        /\ reorder' = reorder \ Run(s, n) /\ Enqueue(n + 1)
    BY <2>1 DEF DeliverRun
  <2>3. n \in Nat
    BY ReorderAssumption
  <2>4. expectedRxSeq' = s + n + 1 /\ s + n < nextTxSeq
    <3>1. expectedRxSeq' = s + n + 1 /\ s + n + 1 <= nextTxSeq
      BY <1>2, <2>2, RunWithinUsed DEF LinkInv
    <3>2. QED
      BY <1>3, <2>3, <3>1
  <2>5. \A k \in 1 .. n : SeqAdd(s, k) \in reorder
    BY <2>2 DEF IsRun
  <2>6. s \notin reorder
    <3>1. ~IsSeqNewer(s, s)
      BY <1>3 DEF IsSeqNewer, SeqDiff
    <3>2. QED
      BY <2>2, <3>1 DEF RxInv, ReorderAhead
  <2>7. PICK o \in Nat, d \in Nat : Cursor(o, Start, d) /\ (d = s \/ rxUsed = RxQueueSize)
    BY <2>2 DEF DeliveryInv
  <2>8. /\ DeliveryInv' /\ \E e \in Nat : Cursor(o, Start, e)'
        /\ Len(appLog) <= Len(appLog')
        /\ AckInv /\ rxUsed <= s => AckInv' \/ (rxUsed' = RxQueueSize /\ ~QueueSuffices)
    BY <1>2, <2>1, <2>2, <2>3, <2>4, <2>5, <2>6, <2>7, AcceptDelivers
  <2>9. AckInv => rxUsed <= s
    BY <2>2 DEF AckInv
  <2>10. rxUsed = RxQueueSize => rxUsed' = RxQueueSize
    <3>1. n + 1 \in Nat
      BY <2>3
    <3>2. QED
      BY <2>2, <3>1, QueueStaysFull
  <2>11. QED
    BY <2>7, <2>8, <2>9, <2>10
<1>6. CASE ReceiveAhead(s) \/ ReceiveDuplicate(s)
  <2>1. /\ hasRxWindow /\ UNCHANGED <<hasRxWindow, expectedRxSeq>> /\ Refuse(s)
        /\ reorder' \subseteq reorder \cup {s} /\ Enqueue(0)
    BY <1>6 DEF ReceiveAhead, ReceiveDuplicate, BufferAhead, DropAhead, Duplicate
  <2>2. /\ DeliveryInv' /\ (AckInv => AckInv') /\ UNCHANGED <<appLog, rxUsed>>
        /\ \E o \in Nat : \E d \in Nat : Cursor(o, Start, d) /\ Cursor(o, Start, d)'
    BY <1>2, <2>1, RefuseDelivers
  <2>3. Len(appLog) <= Len(appLog')
    <3>1. Start.log \in Seq(Seq(Nat))
      BY <2>2 DEF Cursor
    <3>2. Len(appLog) \in Nat
      BY <3>1 DEF Start
    <3>3. QED
      BY <2>2, <3>2
  <2>4. QED
    BY <2>2, <2>3
<1>7. QED
  BY <1>1, <1>4, <1>5, <1>6

\* Steps of A: the cursor points to the same frame, and what A takes to be
\* acknowledged was so before, or is by an ACK in the air.
LEMMA DeliveryKept ==
  ASSUME LinkInv, MessagesInv, DeliveryInv, UNCHANGED <<receiverVars, ackNet>>,
         Used \subseteq Used', Len(messages) <= Len(messages'), Len(messages') \in Nat,
         \A m \in DOMAIN messages : messages'[m] = messages[m],
         \A m \in 1 .. Len(messages) + 1 : FirstId(m)' = FirstId(m),
         AckedSeqs' \subseteq AckedSeqs \cup ackNet
  PROVE  DeliveryInv' /\ (AckInv => AckInv')
<1>1. /\ UNCHANGED <<hasRxWindow, expectedRxSeq, reorder, rxUsed, rxCache, appLog, reassembly>>
      /\ Start' = Start /\ Handed' = Handed
  BY DEF receiverVars, rxVars, Start, Handed
<1>2. PICK N, M : N = Len(messages) /\ M = Len(messages')
  OBVIOUS
<1>3. /\ N \in Nat /\ M \in Nat /\ N <= M /\ DOMAIN messages = 1 .. N
      /\ \A m \in 1 .. N + 1 : FirstId(m)' = FirstId(m)
  BY <1>2 DEF MessagesInv
<1>4. ASSUME NEW o \in Nat, NEW d \in Nat, Cursor(o, Start, d)
      PROVE  Cursor(o, Start, d)'
  <2>1. PICK c, L, b, log, buf :
          /\ log = Start.log /\ buf = Start.buf /\ L = Len(log) /\ b = Len(buf)
          /\ c = o + L + 1
    OBVIOUS
  <2>2. /\ log \in Seq(Seq(Nat)) /\ buf \in Seq(Nat) /\ o + L <= N
        /\ \A i \in 1 .. L : log[i] = messages[o + i].frames
        /\ d = FirstId(c) + b
        /\ b > 0 => /\ c <= N /\ b < Len(messages[c].frames)
                    /\ \A p \in 1 .. b : buf[p] = messages[c].frames[p]
    BY <1>2, <1>4, <2>1 DEF Cursor
  <2>3. L \in Nat /\ c \in 1 .. N + 1 /\ o + L <= M /\ (c <= N => c \in 1 .. N /\ c <= M)
    BY <1>3, <2>1, <2>2
  <2>4. \A i \in 1 .. L : messages'[o + i] = messages[o + i]
    <3>1. \A i \in 1 .. L : o + i \in 1 .. N
      BY <1>3, <2>2, <2>3
    <3>2. QED
      BY <1>3, <3>1
  <2>5. FirstId(c)' = FirstId(c) /\ (c <= N => messages'[c] = messages[c])
    BY <1>3, <2>3
  <2>6. Start'.log = log /\ Start'.buf = buf
    BY <1>1, <2>1
  <2>7. QED
    <3>1. \A i \in 1 .. L : log[i] = messages'[o + i].frames
      BY <2>2, <2>4
    <3>2. b > 0 => /\ c <= M /\ b < Len(messages'[c].frames)
                   /\ \A p \in 1 .. b : buf[p] = messages'[c].frames[p]
      BY <2>2, <2>3, <2>5
    <3>3. d = FirstId(c)' + b
      BY <2>2, <2>5
    <3>4. FirstId(c)' = FirstId(o + L + 1)'
      BY <2>1
    <3>5. o + L <= Len(messages') /\ (c <= M => o + L + 1 <= Len(messages'))
      BY <1>2, <2>1, <2>3
    <3>6. QED
      BY <2>1, <2>2, <2>6, <3>1, <3>2, <3>3, <3>4, <3>5 DEF Cursor
<1>5. DeliveryInv'
  BY <1>1, <1>4 DEF DeliveryInv
<1>6. AckInv => AckInv'
  BY <1>1 DEF AckInv, AckedReachesApp
<1>7. QED
  BY <1>5, <1>6

\* A message submitted: Submit of RelinowDelivery.
LEMMA TransmitDelivers ==
  ASSUME LinkInv, MessagesInv, DeliveryInv, NEW k \in Nat \ {0}, NEW onAir,
         NEW whole \in BOOLEAN, NEW fragment, whole => k <= MaxFragments,
         whole /\ ~ColdFragments /\ ~hasRxWindow => k = 1,
         Transmit(k, onAir, whole, fragment)
  PROVE  /\ MessagesInv' /\ DeliveryInv' /\ (AckInv => AckInv') /\ appLog' = appLog
         /\ Len(messages') = Len(messages) + 1
         /\ \A m \in DOMAIN messages : messages'[m] = messages[m]
<1>1. /\ MessagesInv'
      /\ \A m \in DOMAIN messages : messages'[m] = messages[m]
      /\ \A m \in 1 .. Len(messages) + 1 : FirstId(m)' = FirstId(m)
      /\ Len(messages') = Len(messages) + 1
  BY TransmitMessages
<1>2. UNCHANGED <<receiverVars, ackNet>>
  BY DEF Transmit
<1>3. Len(messages) \in Nat
  BY DEF MessagesInv
<1>4. Len(messages) <= Len(messages') /\ Len(messages') \in Nat
  BY <1>1, <1>3
<1>5. /\ nextTxSeq \in Nat /\ k \in Nat \ {0} /\ nextTxSeq + k <= MaxPackets
  BY LinkAssumption DEF LinkInv, SenderInv, Transmit
<1>6. /\ ToSet(Frames(k)) = Burst(k) /\ Frames(k) \in [1 .. k -> Nat]
      /\ nextTxSeq' = nextTxSeq + k
  BY <1>5, BurstIds DEF Transmit, SendBurst
<1>7. Used \subseteq Used'
  BY <1>5, <1>6 DEF Used
<1>8. Sent' = Sent \cup Burst(k)
  <2>1. PICK new : new = [frames |-> Frames(k), whole |-> whole]
    OBVIOUS
  <2>2. new \in Message /\ new.frames = Frames(k) /\ messages \in Seq(Message)
    BY <1>5, <1>6, <2>1 DEF Message, MessagesInv
  <2>3. messages' = Append(messages, new)
    BY <2>1 DEF Transmit
  <2>4. QED
    BY <1>6, <2>2, <2>3, SentAppend
<1>9. AckedSeqs' \subseteq AckedSeqs
  BY <1>8 DEF AckedSeqs, Transmit, SendBurst, Pending
<1>10. DeliveryInv' /\ (AckInv => AckInv')
  BY <1>1, <1>2, <1>4, <1>7, <1>9, DeliveryKept
<1>11. QED
  BY <1>1, <1>2, <1>10 DEF receiverVars

\* Acknowledgements, retransmissions and failures.
LEMMA SettleDelivers ==
  ASSUME LinkInv, MessagesInv, DeliveryInv, ReceiveAck \/ PollRetransmit \/ PollFailed
  PROVE  /\ MessagesInv' /\ DeliveryInv' /\ (AckInv => AckInv')
         /\ UNCHANGED <<messages, appLog, rxUsed>>
<1>1. UNCHANGED <<messages, nextTxSeq, receiverVars, ackNet>>
  BY DEF ReceiveAck, PollRetransmit, PollFailed, Acked, Retransmit, Fail, retryVars
<1>2. UNCHANGED <<hasRxWindow, appLog, rxUsed>>
  BY <1>1 DEF receiverVars, rxVars
<1>3. MessagesInv'
  BY <1>1, <1>2, MessagesKept
<1>4. AckedSeqs' \subseteq AckedSeqs \cup ackNet
  <2>1. Sent' = Sent
    BY <1>1 DEF Sent, ToSet
  <2>2. CASE ReceiveAck
    <3>1. PICK a \in ackNet : IF a \in Pending THEN Acked(a) ELSE UNCHANGED retryVars
      BY <2>2 DEF ReceiveAck
    <3>2. failed' = failed /\ Pending' = Pending \ {a}
      BY <3>1 DEF Acked, Settled, Pending, retryVars
    <3>3. QED
      BY <2>1, <3>2 DEF AckedSeqs
  <2>3. CASE PollRetransmit
    <3>1. failed' = failed /\ Pending' = Pending
      BY <2>3 DEF PollRetransmit, Retransmit, Pending
    <3>2. QED
      BY <2>1, <3>1 DEF AckedSeqs
  <2>4. CASE PollFailed
    <3>1. PICK s : Fail(s)
      BY <2>4 DEF PollFailed
    <3>2. failed' = failed \cup {s} /\ Pending' = Pending \ {s}
      BY <3>1 DEF Fail, Settled, Pending
    <3>3. QED
      BY <2>1, <3>2 DEF AckedSeqs
  <2>5. QED
    BY <2>2, <2>3, <2>4
<1>5. /\ Used' = Used /\ \A m : FirstId(m)' = FirstId(m)
      /\ Len(messages) \in Nat /\ Len(messages') = Len(messages)
  BY <1>1 DEF Used, FirstId, MessagesInv
<1>6. Len(messages) <= Len(messages') /\ Len(messages') \in Nat
  BY <1>5
<1>7. DeliveryInv' /\ (AckInv => AckInv')
  BY <1>1, <1>4, <1>5, <1>6, DeliveryKept
<1>8. QED
  BY <1>1, <1>2, <1>3, <1>7

LEMMA DeliveryInit == LinkInit => MessagesInv /\ DeliveryInv /\ AckInv
<1> SUFFICES ASSUME LinkInit PROVE MessagesInv /\ DeliveryInv /\ AckInv
  OBVIOUS
<1>1. /\ nextTxSeq = 0 /\ messages = <<>> /\ ~hasRxWindow /\ rxUsed = 0
      /\ rxCache = {} /\ reorder = {} /\ ackNet = {}
      /\ appLog = <<>> /\ reassembly = <<>>
  BY DEF LinkInit, RetryInit, RxInit
<1>2. <<>> \in Seq(Message) /\ DOMAIN messages = {} /\ Used = {} /\ Sent = {}
  BY <1>1 DEF Used, Sent
<1>3. MessagesInv
  BY <1>1, <1>2 DEF MessagesInv
<1>4. DeliveryInv
  BY <1>1, <1>2 DEF DeliveryInv
<1>5. AckInv
  BY <1>1, <1>2 DEF AckInv, AckedReachesApp, AckedSeqs
<1>6. QED
  BY <1>3, <1>4, <1>5

\* What a step of an undisturbed link does for the two applications: it
\* submits a message, or hands messages over, or neither.
LEMMA UndisturbedStep ==
  ASSUME Undisturbed, CacheRoom, NoneCutShort, LinkInv, RxInv, FragmentsInv, MessagesInv,
         DeliveryInv, [LinkNext]_linkVars
  PROVE  /\ MessagesInv' /\ DeliveryInv' /\ (rxUsed = RxQueueSize => rxUsed' = RxQueueSize)
         /\ AckInv => AckInv' \/ (rxUsed' = RxQueueSize /\ ~QueueSuffices)
         /\ \/ /\ appLog' = appLog /\ Len(messages') = Len(messages) + 1
               /\ \A m \in DOMAIN messages : messages'[m] = messages[m]
            \/ ReceiveData /\ UNCHANGED messages
            \/ UNCHANGED <<messages, appLog>>
<1>1. CASE SendMessage \/ SendMessageError \/ SendTruncated
  <2>1. PICK k \in Nat \ {0} : \E onAir, whole, fragment :
          /\ Transmit(k, onAir, whole, fragment) /\ whole \in BOOLEAN
          /\ whole => k <= MaxFragments
          /\ whole /\ ~ColdFragments /\ ~hasRxWindow => k = 1
    BY <1>1, SendIsTransmit
  <2>2. rxUsed' = rxUsed
    BY <2>1 DEF Transmit, receiverVars, rxVars
  <2>3. QED
    BY <2>1, <2>2, TransmitDelivers
<1>6. CASE ReceiveAck \/ PollRetransmit \/ PollFailed
  BY <1>6, SettleDelivers
<1>7. CASE ReceiveData
  <2>1. UNCHANGED senderVars /\ (hasRxWindow => hasRxWindow')
    BY <1>7 DEF ReceiveData, ReceiveFirst, ReceiveExpected, ReceiveAhead,
                ReceiveDuplicate, TakeData, OpenWindow, DeliverRun, BufferAhead,
                DropAhead, Duplicate
  <2>2. UNCHANGED <<messages, nextTxSeq>>
    BY <2>1 DEF senderVars
  <2>3. MessagesInv'
    BY <2>1, <2>2, MessagesKept
  <2>4. /\ DeliveryInv' /\ (rxUsed = RxQueueSize => rxUsed' = RxQueueSize)
        /\ AckInv => AckInv' \/ (rxUsed' = RxQueueSize /\ ~QueueSuffices)
    BY <1>7, ReceiveDelivers
  <2>5. QED
    BY <1>7, <2>2, <2>3, <2>4
<1>8. CASE ReassemblyTimeout
  BY <1>8 DEF ReassemblyTimeout, Undisturbed
<1>9. CASE UNCHANGED linkVars
  <2>1. UNCHANGED <<messages, nextTxSeq, retries, failed, hasRxWindow, expectedRxSeq,
                    reorder, rxUsed, rxCache, reassembly, appLog, ackNet>>
    BY <1>9 DEF linkVars, senderVars, receiverVars, rxVars
  <2>2. /\ UNCHANGED <<Used, AckedSeqs, Handed, Start>>
        /\ \A m : FirstId(m)' = FirstId(m)
    BY <2>1 DEF Used, AckedSeqs, Sent, ToSet, Pending, Handed, Start, FirstId
  <2>3. MessagesInv'
    BY <2>1, MessagesKept
  <2>4. DeliveryInv' /\ (AckInv => AckInv')
    BY <2>1, <2>2 DEF DeliveryInv, AckInv, AckedReachesApp, Cursor
  <2>5. QED
    BY <2>1, <2>3, <2>4
<1>10. QED
  BY <1>1, <1>6, <1>7, <1>8, <1>9 DEF LinkNext

\* A message that was cut short stays in the list of messages.
LEMMA CutStaysCut ==
  ASSUME LinkInv, MessagesInv, [LinkNext]_linkVars, NoneCutShort'
  PROVE  NoneCutShort
<1>1. CASE SendMessage \/ SendMessageError \/ SendTruncated
  <2>1. PICK k \in Nat \ {0} : \E onAir, whole, fragment :
          /\ Transmit(k, onAir, whole, fragment) /\ whole \in BOOLEAN
          /\ whole => k <= MaxFragments
          /\ whole /\ ~ColdFragments /\ ~hasRxWindow => k = 1
    BY <1>1, SendIsTransmit
  <2>2. /\ DOMAIN messages \subseteq DOMAIN messages'
        /\ \A m \in DOMAIN messages : messages'[m] = messages[m]
    BY <2>1, TransmitMessages
  <2>3. QED
    BY <2>2 DEF NoneCutShort
<1>2. CASE UNCHANGED messages
  BY <1>2 DEF NoneCutShort
<1>3. QED
  BY <1>1, <1>2 DEF LinkNext, ReceiveAck, PollRetransmit, PollFailed, ReceiveData, ReceiveFirst,
     ReceiveExpected, ReceiveAhead, ReceiveDuplicate, TakeData, ReassemblyTimeout, linkVars,
     senderVars

\* An undisturbed link keeps its cursor as long as the cache has room and no
\* message has been cut short.
THEOREM DeliveryInvariant ==
  Undisturbed => (LinkSpec /\ []CacheRoom => [](NoneCutShort => DeliveryInv))
<1> SUFFICES ASSUME Undisturbed
             PROVE  LinkSpec /\ []CacheRoom => [](NoneCutShort => DeliveryInv)
  OBVIOUS
<1>1. LinkInit => DeliveryInv
  BY DeliveryInit
<1>2. CacheRoom /\ LinkInv /\ RxInv /\ FragmentsInv /\ MessagesInv
        /\ (NoneCutShort => DeliveryInv) /\ [LinkNext]_linkVars
        => (NoneCutShort' => DeliveryInv')
  BY UndisturbedStep, CutStaysCut
<1>3. LinkSpec => []RxInv
  BY LinkRefinesReceiver, RxInvariant, PTL
<1>4. QED
  BY <1>1, <1>2, <1>3, LinkInvariant, FragmentsInvariant, MessagesInvariant, PTL DEF LinkSpec

LEMMA DeliveryIsIntact == NoneCutShort /\ MessagesInv /\ DeliveryInv => IntactMessages
<1> SUFFICES ASSUME NoneCutShort, MessagesInv, DeliveryInv, NEW i \in DOMAIN appLog
             PROVE  \E m \in DOMAIN messages :
                       messages[m].whole /\ messages[m].frames = appLog[i]
  BY DEF IntactMessages
<1>1. hasRxWindow
  BY DEF DeliveryInv
<1>2. PICK o \in Nat, d \in Nat : Cursor(o, Start, d)
  BY <1>1 DEF DeliveryInv
<1>3. /\ appLog \in Seq(Seq(Nat)) /\ o + Len(appLog) <= Len(messages)
      /\ \A p \in 1 .. Len(appLog) : appLog[p] = messages[o + p].frames
  BY <1>2 DEF Cursor, Start
<1>4. i \in 1 .. Len(appLog) /\ Len(appLog) \in Nat
  BY <1>3
<1>5. o + i \in DOMAIN messages
  <2>1. o + i \in 1 .. Len(messages)
    BY <1>3, <1>4 DEF MessagesInv
  <2>2. QED
    BY <2>1 DEF MessagesInv
<1>6. messages[o + i].whole /\ messages[o + i].frames = appLog[i]
  BY <1>3, <1>4, <1>5 DEF NoneCutShort
<1>7. QED
  BY <1>5, <1>6

\* No head cut off, no two messages run together: what on_message is called
\* with is one submitted message, in sessions of any length, as long as nothing
\* disturbs the link, the cache does not run out before the queue does and no
\* message has been cut short.
THEOREM LinkIntactWhileRoom ==
  Undisturbed => (LinkSpec /\ []CacheRoom => [](NoneCutShort => IntactMessages))
<1>1. QED
  BY DeliveryIsIntact, DeliveryInvariant, MessagesInvariant, PTL

\* Until the receive queue is full, an acknowledged packet is with the
\* application or in its reassembly buffer, in sessions of any length:
\* relinow_on_receive acknowledges no frame that it has not handed over.
THEOREM LinkAckedWhileRoom ==
  Undisturbed =>
    (LinkSpec /\ []CacheRoom
       => [](NoneCutShort /\ rxUsed < RxQueueSize => AckedReachesApp))
<1> SUFFICES ASSUME Undisturbed
             PROVE  LinkSpec /\ []CacheRoom
                      => [](NoneCutShort /\ rxUsed < RxQueueSize => AckedReachesApp)
  OBVIOUS
<1>1. LinkInit => AckedOrFull
  BY DeliveryInit DEF AckedOrFull
<1>2. CacheRoom /\ LinkInv /\ RxInv /\ FragmentsInv /\ MessagesInv
        /\ (NoneCutShort => DeliveryInv)
        /\ (NoneCutShort => AckedOrFull) /\ [LinkNext]_linkVars
        => (NoneCutShort' => AckedOrFull')
  BY UndisturbedStep, CutStaysCut DEF AckedOrFull
<1>3. LinkSpec => []RxInv
  BY LinkRefinesReceiver, RxInvariant, PTL
<1>4. LinkSpec /\ []CacheRoom => [](NoneCutShort => DeliveryInv)
  BY DeliveryInvariant
<1>5. AckedOrFull => (rxUsed < RxQueueSize => AckedReachesApp)
  <2>1. RxQueueSize \in Nat
    BY ReorderAssumption
  <2>2. QED
    BY <2>1 DEF AckedOrFull, AckInv
<1>6. QED
  BY <1>1, <1>2, <1>3, <1>4, <1>5, LinkInvariant, FragmentsInvariant, MessagesInvariant, PTL
     DEF LinkSpec

LEMMA CachedSentRoom ==
  ASSUME LinkInv, CachedSent, MaxPackets <= RxCacheSize
  PROVE  CacheRoom
<1>1. /\ nextTxSeq \in Nat /\ nextTxSeq <= MaxPackets /\ MaxPackets \in Nat
      /\ RxCacheSize \in Nat /\ dataNet \subseteq Used
  BY LinkAssumption DEF LinkInv, SenderInv
<1>2. IsFiniteSet(Used) /\ Cardinality(Used) = nextTxSeq
  <2>1. 0 \in Int /\ nextTxSeq - 1 \in Int
    BY <1>1
  <2>2. /\ IsFiniteSet(0 .. nextTxSeq - 1)
        /\ Cardinality(0 .. nextTxSeq - 1)
             = IF 0 > nextTxSeq - 1 THEN 0 ELSE nextTxSeq - 1 - 0 + 1
    BY <2>1, FS_Interval
  <2>3. QED
    BY <1>1, <2>2 DEF Used
<1>3. CASE rxCache = Used
  BY <1>1, <1>3 DEF CacheRoom
<1>4. CASE rxCache # Used
  <2>1. Cardinality(rxCache) < nextTxSeq /\ Cardinality(rxCache) \in Nat
    BY <1>2, <1>4, FS_Subset, FS_CardinalityType DEF CachedSent
  <2>2. QED
    BY <1>1, <2>1 DEF CacheRoom
<1>5. QED
  BY <1>3, <1>4

\* A cache with a slot for every packet has room whatever happens.
THEOREM SlotsSuffice == MaxPackets <= RxCacheSize => (LinkSpec => []CacheRoom)
<1> SUFFICES ASSUME MaxPackets <= RxCacheSize PROVE LinkSpec => []CacheRoom
  OBVIOUS
<1>1. LinkInv /\ CachedSent => CacheRoom
  BY CachedSentRoom
<1>2. QED
  BY <1>1, LinkInvariant, CachedSentInvariant, PTL

\* So a session of no more packets than slots hands over nothing but submitted
\* messages, each whole, until a send cuts one short.
THEOREM LinkIntactMessages ==
  Undisturbed /\ MaxPackets <= RxCacheSize => (LinkSpec => [](NoneCutShort => IntactMessages))
<1>1. QED
  BY LinkIntactWhileRoom, SlotsSuffice, PTL

\* With a place in the queue for every packet, too, whatever is acknowledged
\* has been handed over.
THEOREM LinkAckedReachesApp ==
  Undisturbed /\ MaxPackets <= RxCacheSize /\ QueueSuffices
    => (LinkSpec => [](NoneCutShort => AckedReachesApp))
<1> SUFFICES ASSUME Undisturbed, MaxPackets <= RxCacheSize, QueueSuffices
             PROVE  LinkSpec => [](NoneCutShort => AckedReachesApp)
  OBVIOUS
<1>1. LinkInit => AckInv
  BY DeliveryInit
<1>2. CacheRoom /\ LinkInv /\ RxInv /\ FragmentsInv /\ MessagesInv
        /\ (NoneCutShort => DeliveryInv) /\ (NoneCutShort => AckInv) /\ [LinkNext]_linkVars
        => (NoneCutShort' => AckInv')
  BY UndisturbedStep, CutStaysCut
<1>3. LinkSpec => []RxInv
  BY LinkRefinesReceiver, RxInvariant, PTL
<1>4. LinkSpec => []CacheRoom
  BY SlotsSuffice
<1>5. LinkSpec /\ []CacheRoom => [](NoneCutShort => DeliveryInv)
  BY DeliveryInvariant
<1>6. AckInv => AckedReachesApp
  BY DEF AckInv
<1>7. QED
  BY <1>1, <1>2, <1>3, <1>4, <1>5, <1>6, LinkInvariant, FragmentsInvariant,
     MessagesInvariant, PTL DEF LinkSpec

\* No message is cut short where counts do not wrap and no send fails, or only
\* sends of a single frame do.
THEOREM LinkNoneCutShort ==
  ~LongMessages /\ (SendErrors => MaxFragments = 1) => (LinkSpec => []NoneCutShort)
<1> SUFFICES ASSUME ~LongMessages, SendErrors => MaxFragments = 1
             PROVE  LinkSpec => []NoneCutShort
  OBVIOUS
<1>1. LinkInit => NoneCutShort
  BY DEF LinkInit, NoneCutShort
<1>2. LinkInv /\ MessagesInv /\ NoneCutShort /\ [LinkNext]_linkVars => NoneCutShort'
  <2> SUFFICES ASSUME LinkInv, MessagesInv, NoneCutShort, [LinkNext]_linkVars
               PROVE  NoneCutShort'
    OBVIOUS
  <2>1. ASSUME NEW frames, messages' = Append(messages, [frames |-> frames, whole |-> TRUE])
        PROVE  NoneCutShort'
    <3>1. PICK new : new = [frames |-> frames, whole |-> TRUE]
      OBVIOUS
    <3>2. new.whole /\ messages' = Append(messages, new) /\ messages \in Seq(Message)
      BY <2>1, <3>1 DEF MessagesInv
    <3>3. \A m \in DOMAIN messages' :
             messages'[m] = new \/ (m \in DOMAIN messages /\ messages'[m] = messages[m])
      BY <3>2
    <3>4. QED
      BY <3>2, <3>3 DEF NoneCutShort
  <2>2. CASE SendMessage
    BY <2>1, <2>2 DEF SendMessage, Transmit
  <2>3. CASE SendMessageError
    <3>1. PICK n \in 1 .. MaxFragments :
            \E k \in 1 .. n : Transmit(k, k - 1, k = n, n > 1)
      BY <2>3, SizesBounded DEF SendMessageError
    <3>2. PICK k \in 1 .. n : Transmit(k, k - 1, k = n, n > 1)
      BY <3>1
    <3>3. (k = n) = TRUE
      BY <2>3 DEF SendMessageError
    <3>4. messages' = Append(messages, [frames |-> Frames(k), whole |-> TRUE])
      BY <3>2, <3>3 DEF Transmit
    <3>5. QED
      BY <2>1, <3>4
  <2>4. CASE SendTruncated
    BY <2>4 DEF SendTruncated
  <2>5. CASE UNCHANGED messages
    BY <2>5 DEF NoneCutShort
  <2>6. QED
    BY <2>2, <2>3, <2>4, <2>5 DEF LinkNext, ReceiveAck, PollRetransmit, PollFailed, ReceiveData,
       ReceiveFirst, ReceiveExpected, ReceiveAhead, ReceiveDuplicate, TakeData,
       ReassemblyTimeout, linkVars, senderVars
<1>3. QED
  BY <1>1, <1>2, LinkInvariant, MessagesInvariant, PTL DEF LinkSpec

-----------------------------------------------------------------------------
(* Sends that break off.  However many do, what one leaves behind in the   *)
(* reassembly buffer reaches into the next message at most: by its last    *)
(* frame at the latest the buffer is empty again.                          *)

\* Message c and the one before it were not cut short.
Clean(c) ==
    /\ c > 1 => messages[c - 1].whole
    /\ c \in DOMAIN messages => messages[c].whole

\* A failing or truncated send spoils at most the message submitted next, and
\* that only if it has several fragments: every other message that is handed
\* over is exactly one that was submitted, however many sends broke off.
SpoilsOnlyNext ==
    \A i \in DOMAIN appLog :
        \E m \in DOMAIN messages :
            /\ messages[m].whole
            /\ Last(appLog[i]) = Last(messages[m].frames)
            /\ \/ appLog[i] = messages[m].frames
               \/ Len(messages[m].frames) > 1 /\ m > 1 /\ ~messages[m - 1].whole

\* What SpoilsOnlyNext allows for a message that was handed over.
Tidy(f) ==
    \E m \in DOMAIN messages :
        /\ messages[m].whole
        /\ Last(f) = Last(messages[m].frames)
        /\ \/ f = messages[m].frames
           \/ Len(messages[m].frames) > 1 /\ m > 1 /\ ~messages[m - 1].whole

\* The buffer begins message c with its first b frames.
Begins(buf, c, b) ==
    Len(buf) = b /\ \A p \in 1 .. b : buf[p] = messages[c].frames[p]

\* All that was handed over is tidy, and the buffer holds what precedes the
\* next frame d in its message, unless there is something to spoil it.
Standing(acc, d) ==
    /\ acc.log \in Seq(Seq(Nat)) /\ acc.buf \in Seq(Nat)
    /\ \A i \in DOMAIN acc.log : Tidy(acc.log[i])
    /\ \E c, b \in Nat : Place(c, b, d) /\ (Clean(c) => Begins(acc.buf, c, b))

\* The place of the id that follows.
LEMMA NextPlace ==
  ASSUME LinkInv, MessagesInv, FragmentsInv, NEW c \in Nat, NEW b \in Nat, NEW d \in Nat,
         d < nextTxSeq, Place(c, b, d)
  PROVE  LET f == messages[c].frames
         IN  /\ b + 1 = Len(f) => Place(c + 1, 0, d + 1)
             /\ b + 1 # Len(f) => Place(c, b + 1, d + 1)
<1>1. PICK f, x, y : f = messages[c].frames /\ x = FirstId(c) /\ y = Len(f)
  OBVIOUS
<1>2. /\ c \in DOMAIN messages /\ f \in Seq(Nat) /\ b < y /\ x \in Nat /\ d = x + b
  BY <1>1, FrameAt DEF Place
<1>3. y \in Nat /\ FirstId(c + 1) = x + y
  BY <1>1, <1>2 DEF MessagesInv, LaidOut
<1>4. /\ Len(messages) \in Nat /\ c \in 1 .. Len(messages)
  BY <1>2 DEF MessagesInv
<1>5. CASE b + 1 = y
  <2>1. d + 1 = FirstId(c + 1) + 0
    BY <1>2, <1>3, <1>5
  <2>2. c + 1 \in 1 .. Len(messages) + 1 /\ 0 \in Nat /\ ~(0 > 0)
    BY <1>4
  <2>3. QED
    BY <1>1, <1>5, <2>1, <2>2 DEF Place
<1>6. CASE b + 1 # y
  <2>1. d + 1 = x + (b + 1) /\ b + 1 < y /\ b + 1 \in Nat
    BY <1>2, <1>3, <1>6
  <2>2. c \in 1 .. Len(messages) + 1 /\ c <= Len(messages)
    BY <1>4
  <2>3. QED
    BY <1>1, <1>6, <2>1, <2>2 DEF Place
<1>7. QED
  BY <1>1, <1>5, <1>6

\* A message more in the log.
LEMMA OneMoreTidy ==
  ASSUME NEW log \in Seq(Seq(Nat)), \A i \in DOMAIN log : Tidy(log[i]),
         NEW e \in Seq(Nat), Tidy(e), NEW new, new = Append(log, e)
  PROVE  new \in Seq(Seq(Nat)) /\ \A i \in DOMAIN new : Tidy(new[i])
<1>0. PICK L : L = Len(log)
  OBVIOUS
<1>1. /\ new \in Seq(Seq(Nat)) /\ DOMAIN new = 1 .. L + 1
      /\ DOMAIN log = 1 .. L /\ L \in Nat
      /\ new[L + 1] = e
      /\ \A i \in 1 .. L : new[i] = log[i]
  BY <1>0
<1>2. \A i \in 1 .. L + 1 : i \in 1 .. L \/ i = L + 1
  BY <1>1
<1>3. QED
  BY <1>1, <1>2

\* A turn with the next frame.
LEMMA TurnStanding ==
  ASSUME MaxFragments <= MaxReassembly, LinkInv, MessagesInv, FragmentsInv,
         NEW acc, NEW d \in Nat, d < nextTxSeq, Standing(acc, d), NEW cache, d \in cache
  PROVE  Standing(Turn(acc, d, cache), d + 1)
<1>0. PICK log, buf, out : log = acc.log /\ buf = acc.buf /\ out = Turn(acc, d, cache)
  OBVIOUS
<1>1. PICK c \in Nat, b \in Nat : Place(c, b, d) /\ (Clean(c) => Begins(buf, c, b))
  BY <1>0 DEF Standing
<1>2. PICK f : f = messages[c].frames
  OBVIOUS
<1>3. /\ c \in DOMAIN messages /\ f \in Seq(Nat) /\ b < Len(f) /\ f[b + 1] = d
      /\ IsFragment(d) <=> ~messages[c].whole \/ Len(f) > 1
      /\ IsLastFragment(d) <=> messages[c].whole /\ b + 1 = Len(f)
  BY <1>1, <1>2, FrameAt
<1>4. /\ log \in Seq(Seq(Nat)) /\ buf \in Seq(Nat) /\ \A i \in DOMAIN log : Tidy(log[i])
      /\ Len(buf) \in Nat /\ Len(f) \in Nat /\ <<>> \in Seq(Nat) /\ Len(<<>>) = 0
      /\ c + 1 \in Nat /\ b + 1 \in Nat /\ 0 \in Nat /\ d + 1 \in Nat /\ 1 .. 0 = {}
  BY <1>0, <1>3 DEF Standing
<1>5. messages[c].whole => Len(f) <= MaxReassembly
  <2>1. messages[c].whole => Len(f) <= MaxFragments
    BY <1>2, <1>3 DEF MessagesInv, LaidOut
  <2>2. QED
    BY <1>4, <2>1, LinkAssumption
<1>6. /\ b + 1 = Len(f) => Place(c + 1, 0, d + 1)
      /\ b + 1 # Len(f) => Place(c, b + 1, d + 1)
  BY <1>1, <1>2, NextPlace
<1>7. PICK new : new = Append(buf, d)
  OBVIOUS
<1>8. /\ new \in Seq(Nat) /\ Len(new) = Len(buf) + 1 /\ new[Len(buf) + 1] = d
      /\ \A p \in 1 .. Len(buf) : new[p] = buf[p]
      /\ new # <<>> /\ Last(new) = d
  <2>1. /\ new \in Seq(Nat) /\ Len(new) = Len(buf) + 1 /\ new[Len(buf) + 1] = d
        /\ \A p \in 1 .. Len(buf) : new[p] = buf[p]
    BY <1>4, <1>7
  <2>2. new # <<>>
    BY <1>4, <2>1
  <2>3. QED
    BY <2>1, <2>2 DEF Last
<1>9. Clean(c) => Begins(new, c, b + 1)
  <2> SUFFICES ASSUME Clean(c) PROVE Begins(new, c, b + 1)
    OBVIOUS
  <2>1. Len(buf) = b /\ \A p \in 1 .. b : buf[p] = f[p]
    BY <1>1, <1>2 DEF Begins
  <2>2. \A p \in 1 .. b + 1 : p \in 1 .. b \/ p = b + 1
    OBVIOUS
  <2>3. \A p \in 1 .. b + 1 : new[p] = f[p]
    BY <1>3, <1>8, <2>1, <2>2
  <2>4. QED
    BY <1>2, <1>8, <2>1, <2>3 DEF Begins
<1>10. ASSUME out.buf = <<>>, out.log \in Seq(Seq(Nat)),
              \A i \in DOMAIN out.log : Tidy(out.log[i]), Clean(c) => b + 1 = Len(f)
       PROVE  Standing(out, d + 1)
  <2>1. CASE b + 1 = Len(f)
    <3>1. Place(c + 1, 0, d + 1) /\ Begins(out.buf, c + 1, 0)
      BY <1>4, <1>6, <1>10, <2>1 DEF Begins
    <3>2. QED
      BY <1>4, <1>10, <3>1 DEF Standing
  <2>2. CASE b + 1 # Len(f)
    BY <1>4, <1>6, <1>10, <2>2 DEF Standing
  <2>3. QED
    BY <2>1, <2>2
<1>11. ASSUME out.buf = new, out.log = log, ~(messages[c].whole /\ b + 1 = Len(f))
       PROVE  Standing(out, d + 1)
  <2>1. CASE b + 1 = Len(f)
    <3>1. c + 1 > 1 /\ (c + 1) - 1 = c
      BY <1>3 DEF MessagesInv
    <3>2. ~Clean(c + 1)
      BY <1>11, <2>1, <3>1 DEF Clean
    <3>3. QED
      BY <1>4, <1>6, <1>8, <1>11, <2>1, <3>2 DEF Standing
  <2>2. CASE b + 1 # Len(f)
    BY <1>4, <1>6, <1>8, <1>9, <1>11, <2>2 DEF Standing
  <2>3. QED
    BY <2>1, <2>2
<1>12. CASE ~IsFragment(d)
  <2>1. messages[c].whole /\ ~(Len(f) > 1)
    BY <1>3, <1>12
  <2>2. b = 0 /\ Len(f) = 1 /\ f[1] = d
    <3>1. PICK y : y = Len(f)
      OBVIOUS
    <3>2. y \in Nat /\ b < y /\ ~(y > 1)
      BY <1>3, <1>4, <2>1, <3>1
    <3>3. b = 0 /\ y = 1 /\ b + 1 = 1
      BY <3>2
    <3>4. QED
      BY <1>3, <3>1, <3>3
  <2>3. out = [buf |-> <<>>, log |-> Append(log, <<d>>)]
    BY <1>0, <1>12 DEF Turn, HandOver
  <2>4. f = <<d>> /\ <<d>> \in Seq(Nat)
    <3>1. f \in Seq(Nat) /\ <<d>> \in Seq(Nat) /\ Len(<<d>>) = 1 /\ <<d>>[1] = d
      BY <1>3
    <3>2. \A p \in 1 .. 1 : p = 1
      OBVIOUS
    <3>3. QED
      BY <2>2, <3>1, <3>2, SeqEqual
  <2>5. Tidy(<<d>>)
    BY <1>2, <1>3, <2>1, <2>4 DEF Tidy
  <2>6. out.log \in Seq(Seq(Nat)) /\ \A i \in DOMAIN out.log : Tidy(out.log[i])
    BY <1>4, <2>3, <2>4, <2>5, OneMoreTidy
  <2>7. b + 1 = Len(f) /\ out.buf = <<>>
    BY <2>2, <2>3
  <2>8. Standing(out, d + 1)
    BY <1>10, <2>6, <2>7
  <2>9. QED
    BY <1>0, <2>8
<1>13. CASE IsFragment(d) /\ Len(buf) >= MaxReassembly
  <2>1. out = [buf |-> <<>>, log |-> log]
    BY <1>0, <1>13 DEF Turn, HandOver
  <2>2. ~Clean(c)
    <3> SUFFICES ASSUME Clean(c) PROVE FALSE
      OBVIOUS
    <3>1. Len(buf) = b /\ messages[c].whole
      BY <1>1, <1>3 DEF Clean, Begins
    <3>2. QED
      BY <1>3, <1>4, <1>5, <1>13, <3>1, LinkAssumption
  <2>3. out.buf = <<>> /\ out.log = log
    BY <2>1
  <2>4. Standing(out, d + 1)
    BY <1>4, <1>10, <2>2, <2>3
  <2>5. QED
    BY <1>0, <2>4
<1>14. CASE IsFragment(d) /\ ~(Len(buf) >= MaxReassembly) /\ IsLastFragment(d)
  <2>1. out = [buf |-> <<>>, log |-> Append(log, new)]
    BY <1>0, <1>7, <1>14 DEF Turn, HandOver
  <2>2. messages[c].whole /\ b + 1 = Len(f) /\ Len(f) > 1
    BY <1>3, <1>14
  <2>3. Last(f) = d
    BY <1>3, <2>2 DEF Last
  <2>4. Tidy(new)
    <3>1. CASE Clean(c)
      <4>1. Len(new) = Len(f) /\ \A p \in 1 .. Len(f) : new[p] = f[p]
        BY <1>2, <1>9, <2>2, <3>1 DEF Begins
      <4>2. new = f
        BY <1>3, <1>8, <4>1, SeqEqual
      <4>3. QED
        BY <1>2, <1>3, <2>2, <4>2 DEF Tidy
    <3>2. CASE ~Clean(c)
      <4>1. c > 1 /\ ~messages[c - 1].whole
        BY <1>3, <2>2, <3>2 DEF Clean
      <4>2. QED
        BY <1>2, <1>3, <1>8, <2>2, <2>3, <4>1 DEF Tidy
    <3>3. QED
      BY <3>1, <3>2
  <2>5. out.log \in Seq(Seq(Nat)) /\ \A i \in DOMAIN out.log : Tidy(out.log[i])
    BY <1>4, <1>8, <2>1, <2>4, OneMoreTidy
  <2>6. out.buf = <<>>
    BY <2>1
  <2>7. Standing(out, d + 1)
    BY <1>10, <2>2, <2>5, <2>6
  <2>8. QED
    BY <1>0, <2>7
<1>15. CASE IsFragment(d) /\ ~(Len(buf) >= MaxReassembly) /\ ~IsLastFragment(d)
  <2>1. out = [buf |-> new, log |-> log]
    BY <1>0, <1>7, <1>15 DEF Turn, HandOver
  <2>2. out.buf = new /\ out.log = log
    BY <2>1
  <2>3. Standing(out, d + 1)
    BY <1>3, <1>11, <1>15, <2>2
  <2>4. QED
    BY <1>0, <2>3
<1>16. QED
  BY <1>12, <1>13, <1>14, <1>15

\* So does the loop, as long as every frame it turns to is in the cache.
LEMMA LoopStanding ==
  ASSUME MaxFragments <= MaxReassembly, LinkInv, MessagesInv, FragmentsInv,
         NEW s \in Nat, NEW n \in Nat, NEW cache, s + n < nextTxSeq,
         \A k \in 0 .. n : SeqAdd(s, k) = s + k /\ s + k \in cache,
         Standing(Start, s)
  PROVE  Standing(DeliveryLoop(s, n, cache), s + n + 1)
<1> DEFINE At(k) == Loop(s, n, cache)[k]
           S == {k \in 0 .. n + 1 : Standing(At(k), s + k)}
<1>1. nextTxSeq \in Nat
  BY LinkAssumption DEF LinkInv, SenderInv
<1>2. 0 \in S
  <2>1. At(0) = Start /\ s + 0 = s
    BY LoopTurns
  <2>2. QED
    BY <2>1
<1>3. ASSUME NEW k \in 0 .. n, k \in S PROVE k + 1 \in S
  <2>1. Standing(At(k), s + k)
    BY <1>3
  <2>2. PICK d : d = s + k
    OBVIOUS
  <2>3. /\ d \in Nat /\ d < nextTxSeq /\ d \in cache /\ SeqAdd(s, k) = d
        /\ k + 1 \in 0 .. n + 1 /\ s + (k + 1) = d + 1
    BY <1>1, <2>2
  <2>4. At(k + 1) = Turn(At(k), d, cache)
    BY <2>3, LoopTurns
  <2>5. Standing(At(k), d)
    BY <2>1, <2>2
  <2> HIDE DEF At
  <2>6. Standing(At(k + 1), d + 1)
    BY <2>3, <2>4, <2>5, TurnStanding
  <2>7. QED
    BY <2>3, <2>6
<1>4. n + 1 \in S
  <2> HIDE DEF S
  <2>1. n + 1 \in Nat /\ (n + 1) - 1 = n /\ n + 1 \in 0 .. n + 1
    OBVIOUS
  <2>2. QED
    BY <1>2, <1>3, <2>1, CountUp
<1>5. Standing(At(n + 1), s + (n + 1)) /\ s + (n + 1) = s + n + 1
  BY <1>4
<1>6. At(n + 1) = DeliveryLoop(s, n, cache)
  BY LoopTurns
<1> HIDE DEF At
<1>7. QED
  BY <1>5, <1>6

\* What is buffered has its frame, and the application stands where the window
\* begins; unless the queue is full: then it stays where it is.
SpoilInv ==
    /\ reorder \subseteq rxCache \/ rxUsed = RxQueueSize
    /\ hasRxWindow => \E d \in Nat : /\ Standing(Start, d)
                                     /\ d = expectedRxSeq \/ rxUsed = RxQueueSize
    /\ ~hasRxWindow => appLog = <<>> /\ reassembly = <<>>

\* More messages, and the same buffer and log.
LEMMA StandingKept ==
  ASSUME MessagesInv, UNCHANGED <<appLog, reassembly>>,
         Len(messages) <= Len(messages'), Len(messages') \in Nat,
         DOMAIN messages \subseteq DOMAIN messages',
         \A m \in DOMAIN messages : messages'[m] = messages[m],
         \A m \in 1 .. Len(messages) + 1 : FirstId(m)' = FirstId(m),
         NEW d \in Nat, Standing(Start, d)
  PROVE  Standing(Start, d)'
<1>1. PICK N, M : N = Len(messages) /\ M = Len(messages')
  OBVIOUS
<1>2. /\ N \in Nat /\ M \in Nat /\ N <= M /\ DOMAIN messages = 1 .. N
      /\ \A m \in 1 .. N : m \in DOMAIN messages' /\ messages'[m] = messages[m]
      /\ \A m \in 1 .. N + 1 : FirstId(m)' = FirstId(m)
  BY <1>1 DEF MessagesInv
<1>3. Start' = Start
  BY DEF Start
<1>4. PICK c \in Nat, b \in Nat : Place(c, b, d) /\ (Clean(c) => Begins(Start.buf, c, b))
  BY DEF Standing
<1>5. /\ c \in 1 .. N + 1 /\ d = FirstId(c) + b
      /\ b > 0 => c \in 1 .. N /\ b < Len(messages[c].frames)
  BY <1>1, <1>2, <1>4 DEF Place
<1>6. Place(c, b, d)'
  <2>1. c \in 1 .. M + 1 /\ (c \in 1 .. N => c <= M)
    BY <1>2, <1>5
  <2>2. d = FirstId(c)' + b
    BY <1>2, <1>5
  <2>3. b > 0 => c <= M /\ b < Len(messages'[c].frames)
    BY <1>2, <1>5, <2>1
  <2>4. QED
    BY <1>1, <2>1, <2>2, <2>3 DEF Place
<1>7. Clean(c)' => Clean(c)
  <2>1. c > 1 => c - 1 \in 1 .. N
    BY <1>2, <1>5
  <2>2. QED
    BY <1>2, <2>1 DEF Clean
<1>8. Begins(Start.buf, c, b) => Begins(Start.buf, c, b)'
  <2>1. CASE b > 0
    BY <1>2, <1>3, <1>5, <2>1 DEF Begins
  <2>2. CASE ~(b > 0)
    <3>1. 1 .. b = {}
      BY <2>2
    <3>2. QED
      BY <1>3, <3>1 DEF Begins
  <2>3. QED
    BY <2>1, <2>2
<1>9. ASSUME NEW f, Tidy(f) PROVE Tidy(f)'
  <2>1. PICK m \in 1 .. N :
          /\ messages[m].whole /\ Last(f) = Last(messages[m].frames)
          /\ \/ f = messages[m].frames
             \/ Len(messages[m].frames) > 1 /\ m > 1 /\ ~messages[m - 1].whole
    BY <1>2, <1>9 DEF Tidy
  <2>2. m > 1 => m - 1 \in 1 .. N
    BY <1>2
  <2>3. messages'[m] = messages[m] /\ (m > 1 => messages'[m - 1] = messages[m - 1])
    BY <1>2, <2>2
  <2>4. QED
    BY <1>2, <2>1, <2>3 DEF Tidy
<1>10. (\A i \in DOMAIN Start.log : Tidy(Start.log[i]))'
  <2>1. PICK log : log = Start.log
    OBVIOUS
  <2>2. \A i \in DOMAIN log : Tidy(log[i])'
    BY <1>9, <2>1 DEF Standing
  <2>3. Start'.log = log
    BY <1>3, <2>1
  <2>4. QED
    BY <2>2, <2>3 DEF Tidy
<1>11. (Start.log \in Seq(Seq(Nat)) /\ Start.buf \in Seq(Nat))'
  BY <1>3 DEF Standing
<1>12. (Clean(c) => Begins(Start.buf, c, b))'
  BY <1>4, <1>7, <1>8
<1>13. QED
  BY <1>6, <1>10, <1>11, <1>12 DEF Standing

\* A buffer and a log that become those of the node.
LEMMA StandingNow ==
  ASSUME messages' = messages, \A m : FirstId(m)' = FirstId(m),
         NEW out, NEW d \in Nat, Standing(out, d),
         Start'.log = out.log, Start'.buf = out.buf
  PROVE  Standing(Start, d)'
<1>1. PICK log, buf : log = out.log /\ buf = out.buf
  OBVIOUS
<1>2. Start'.log = log /\ Start'.buf = buf
  BY <1>1
<1>3. /\ log \in Seq(Seq(Nat)) /\ buf \in Seq(Nat)
      /\ \A i \in DOMAIN log : Tidy(log[i])
  BY <1>1 DEF Standing
<1>4. PICK c \in Nat, b \in Nat : Place(c, b, d) /\ (Clean(c) => Begins(buf, c, b))
  BY <1>1 DEF Standing
<1>5. (\A i \in DOMAIN Start.log : Tidy(Start.log[i]))'
  BY <1>2, <1>3 DEF Tidy
<1>6. Place(c, b, d)'
  BY <1>4 DEF Place
<1>7. (Clean(c) => Begins(Start.buf, c, b))'
  BY <1>2, <1>4 DEF Clean, Begins
<1>8. QED
  BY <1>2, <1>3, <1>5, <1>6, <1>7 DEF Standing

\* A delivery moves the application on, or finds the queue full.
LEMMA AcceptSpoils ==
  ASSUME Undisturbed, CacheRoom, LinkInv, RxInv, MessagesInv, FragmentsInv,
         SpoilInv, UNCHANGED senderVars,
         NEW s \in Used, s \in dataNet, NEW n \in Nat, s + n < nextTxSeq,
         \A k \in 1 .. n : SeqAdd(s, k) \in reorder,
         NEW d \in Nat, Standing(Start, d), d = s \/ rxUsed = RxQueueSize,
         Accept(s, n), Enqueue(n + 1), reorder' = reorder \ Run(s, n),
         hasRxWindow', expectedRxSeq' = s + n + 1, s \notin reorder
  PROVE  SpoilInv'
<1>1. /\ nextTxSeq \in Nat /\ nextTxSeq <= MaxPackets /\ MaxPackets \in Nat
      /\ SeqSpace \in Nat /\ MaxPackets < SeqSpace /\ s \in Nat
      /\ RxQueueSize \in Nat /\ rxUsed \in Nat /\ rxUsed <= RxQueueSize
  BY LinkAssumption, SeqSpaceAssumption, ReorderAssumption
     DEF LinkInv, SenderInv, Used, RxInv, RxTypeOK
<1>2. messages' = messages /\ \A m : FirstId(m)' = FirstId(m)
  BY DEF FirstId, senderVars
<1>3. PICK cache : cache = CacheOnArrival(s)
  OBVIOUS
<1>4. rxUsed # RxQueueSize => cache = rxCache \cup {s}
  BY <1>3, CacheHasRoom
<1>5. CASE QueueOverflow(n + 1)
  <2>1. UNCHANGED <<reassembly, appLog>> /\ rxUsed' = RxQueueSize
    BY <1>5 DEF Accept, Enqueue
  <2>2. Start'.log = Start.log /\ Start'.buf = Start.buf
    BY <2>1 DEF Start
  <2>3. Standing(Start, d)'
    BY <1>2, <2>2, StandingNow
  <2>4. QED
    BY <2>1, <2>3 DEF SpoilInv
<1>6. CASE ~QueueOverflow(n + 1)
  <2>1. rxUsed # RxQueueSize /\ cache = rxCache \cup {s} /\ reorder \subseteq rxCache
    <3>1. rxUsed # RxQueueSize
      BY <1>1, <1>6 DEF QueueOverflow
    <3>2. QED
      BY <1>4, <3>1 DEF SpoilInv
  <2>2. \A k \in 0 .. n : SeqAdd(s, k) = s + k
    BY <1>1 DEF SeqAdd
  <2>3. ASSUME NEW k \in 0 .. n PROVE SeqAdd(s, k) = s + k /\ s + k \in cache
    <3>1. k = 0 \/ k \in 1 .. n
      OBVIOUS
    <3>2. CASE k = 0
      BY <1>1, <2>1, <2>2, <3>2
    <3>3. CASE k \in 1 .. n
      BY <2>1, <2>2, <3>3
    <3>4. QED
      BY <3>1, <3>2, <3>3
  <2>4. PICK out : out = DeliveryLoop(s, n, cache)
    OBVIOUS
  <2>5. PICK e \in Nat : e = s + n + 1
    BY <1>1
  <2>6. Standing(out, e)
    BY <1>1, <2>1, <2>3, <2>4, <2>5, LoopStanding DEF Undisturbed
  <2>7. /\ rxCache' = cache \ ({s} \cup Run(s, n))
        /\ reassembly' = out.buf /\ appLog' = out.log
    BY <1>3, <1>6, <2>4 DEF Accept
  <2>8. Start'.log = out.log /\ Start'.buf = out.buf
    BY <2>7 DEF Start
  <2>9. Standing(Start, e)'
    BY <1>2, <2>6, <2>8, StandingNow
  <2>10. reorder' \subseteq rxCache'
    BY <2>1, <2>7
  <2>11. QED
    BY <2>5, <2>9, <2>10 DEF SpoilInv
<1>7. QED
  BY <1>5, <1>6

\* The frame that opens the window may lie in the middle of a message only if that
\* message was cut short.
LEMMA FirstStanding ==
  ASSUME Undisturbed, MessagesInv, SpoilInv, ~hasRxWindow, NEW s \in Used
  PROVE  Standing(Start, s)
<1>1. s \in Nat /\ Start.log = <<>> /\ Start.buf = <<>>
  BY DEF SpoilInv, Start, Used
<1>2. PICK m \in DOMAIN messages : s \in ToSet(messages[m].frames)
  BY DEF MessagesInv, Sent
<1>3. PICK f : f = messages[m].frames
  OBVIOUS
<1>4. /\ f \in Seq(Nat) /\ Len(f) \in Nat /\ DOMAIN f = 1 .. Len(f)
      /\ \A p \in 1 .. Len(f) : f[p] = FirstId(m) + (p - 1)
      /\ messages[m].whole => Len(f) = 1
  <2>1. LaidOut(m)
    BY DEF MessagesInv
  <2>2. f \in Seq(Nat) /\ \A p \in 1 .. Len(f) : f[p] = FirstId(m) + (p - 1)
    BY <1>3, <2>1 DEF LaidOut
  <2>3. messages[m].whole => Len(f) = 1
    BY <1>3, <2>1 DEF LaidOut, Undisturbed
  <2>4. QED
    BY <2>2, <2>3
<1>5. PICK p \in 1 .. Len(f) : f[p] = s
  BY <1>2, <1>3, <1>4 DEF ToSet
<1>6. PICK b \in Nat : b = p - 1
  BY <1>4
<1>7. m \in Nat /\ m \in 1 .. Len(messages) + 1 /\ m <= Len(messages)
  BY DEF MessagesInv
<1>8. b < Len(f) /\ s = FirstId(m) + b
  BY <1>4, <1>5, <1>6
<1>9. Place(m, b, s)
  BY <1>3, <1>7, <1>8 DEF Place
<1>10. Clean(m) => Begins(<<>>, m, b)
  <2> SUFFICES ASSUME Clean(m) PROVE Begins(<<>>, m, b)
    OBVIOUS
  <2>1. messages[m].whole
    BY DEF Clean
  <2>2. b = 0
    <3>1. Len(f) = 1
      BY <1>4, <2>1
    <3>2. b < 1
      BY <1>8, <3>1
    <3>3. QED
      BY <3>2
  <2>3. Len(<<>>) = 0 /\ 1 .. 0 = {}
    OBVIOUS
  <2>4. QED
    BY <2>2, <2>3 DEF Begins
<1>11. <<>> \in Seq(Seq(Nat)) /\ <<>> \in Seq(Nat) /\ DOMAIN <<>> = {}
  OBVIOUS
<1>12. QED
  BY <1>1, <1>7, <1>9, <1>10, <1>11 DEF Standing

LEMMA ReceiveSpoils ==
  ASSUME Undisturbed, CacheRoom, LinkInv, RxInv, MessagesInv, FragmentsInv,
         SpoilInv, ReceiveData
  PROVE  SpoilInv'
<1>1. PICK s \in SeqId : \/ ReceiveFirst(s) \/ ReceiveExpected(s)
                         \/ ReceiveAhead(s) \/ ReceiveDuplicate(s)
  BY DEF ReceiveData
<1>2. s \in Used /\ s \in dataNet /\ UNCHANGED senderVars
  BY <1>1 DEF LinkInv, SenderInv, ReceiveFirst, ReceiveExpected, ReceiveAhead,
              ReceiveDuplicate, TakeData
<1>3. /\ nextTxSeq \in Nat /\ nextTxSeq < SeqSpace /\ SeqSpace \in Nat
      /\ s \in Nat /\ s < nextTxSeq
  BY <1>2, LinkAssumption, SeqSpaceAssumption DEF LinkInv, SenderInv, Used
<1>4. CASE ReceiveFirst(s)
  <2>1. /\ ~hasRxWindow /\ hasRxWindow' /\ expectedRxSeq' = SeqNext(s)
        /\ Accept(s, 0) /\ Enqueue(0 + 1) /\ reorder' = reorder
    BY <1>4 DEF ReceiveFirst, OpenWindow
  <2>2. 0 \in Nat /\ s + 0 < nextTxSeq /\ expectedRxSeq' = s + 0 + 1 /\ 1 .. 0 = {}
    BY <1>3, <2>1 DEF SeqNext, SeqAdd
  <2>3. Run(s, 0) = {} /\ reorder = {}
    BY <2>1, <2>2 DEF Run, RxInv, NoWindowNoReorder
  <2>4. Standing(Start, s)
    BY <1>2, <2>1, FirstStanding
  <2>5. reorder' = reorder \ Run(s, 0)
    BY <2>1, <2>3
  <2>6. QED
    BY <1>2, <1>3, <2>1, <2>2, <2>3, <2>4, <2>5, AcceptSpoils
<1>5. CASE ReceiveExpected(s)
  <2>1. PICK n \in 0 .. MaxReorder : DeliverRun(s, n) /\ Accept(s, n)
    BY <1>5 DEF ReceiveExpected
  <2>2. /\ hasRxWindow /\ hasRxWindow' /\ s = expectedRxSeq
        /\ IsRun(s, n) /\ expectedRxSeq' = SeqAdd(s, n + 1)
        /\ reorder' = reorder \ Run(s, n) /\ Enqueue(n + 1)
    BY <2>1 DEF DeliverRun
  <2>3. n \in Nat
    BY ReorderAssumption
  <2>4. expectedRxSeq' = s + n + 1 /\ s + n < nextTxSeq
    <3>1. expectedRxSeq' = s + n + 1 /\ s + n + 1 <= nextTxSeq
      BY <1>2, <2>2, RunWithinUsed DEF LinkInv
    <3>2. QED
      BY <1>3, <2>3, <3>1
  <2>5. \A k \in 1 .. n : SeqAdd(s, k) \in reorder
    BY <2>2 DEF IsRun
  <2>6. s \notin reorder
    <3>1. ~IsSeqNewer(s, s)
      BY <1>3 DEF IsSeqNewer, SeqDiff
    <3>2. QED
      BY <2>2, <3>1 DEF RxInv, ReorderAhead
  <2>7. PICK d \in Nat : Standing(Start, d) /\ (d = s \/ rxUsed = RxQueueSize)
    BY <2>2 DEF SpoilInv
  <2>8. QED
    BY <1>2, <2>1, <2>2, <2>3, <2>4, <2>5, <2>6, <2>7, AcceptSpoils
<1>6. CASE ReceiveAhead(s) \/ ReceiveDuplicate(s)
  <2>1. /\ hasRxWindow /\ UNCHANGED <<hasRxWindow, expectedRxSeq>> /\ Refuse(s)
        /\ reorder' \subseteq reorder \cup {s} /\ Enqueue(0)
    BY <1>6 DEF ReceiveAhead, ReceiveDuplicate, BufferAhead, DropAhead, Duplicate
  <2>2. rxUsed' = rxUsed
    BY <2>1, ReorderAssumption DEF Enqueue, QueueOverflow, RxInv, RxTypeOK
  <2>3. UNCHANGED <<appLog, reassembly, messages, nextTxSeq>>
    BY <1>2, <2>1 DEF Refuse, senderVars
  <2>4. /\ Start'.log = Start.log /\ Start'.buf = Start.buf
        /\ \A m : FirstId(m)' = FirstId(m)
    BY <2>3 DEF Start, FirstId
  <2>5. PICK d \in Nat : Standing(Start, d) /\ (d = expectedRxSeq \/ rxUsed = RxQueueSize)
    BY <2>1 DEF SpoilInv
  <2>6. Standing(Start, d)'
    BY <2>3, <2>4, <2>5, StandingNow
  <2>7. reorder' \subseteq rxCache' \/ rxUsed' = RxQueueSize
    <3>1. rxUsed # RxQueueSize => rxCache' = rxCache \cup {s}
      BY <1>2, <2>1, CacheHasRoom DEF Refuse
    <3>2. QED
      BY <2>1, <2>2, <3>1 DEF SpoilInv
  <2>8. QED
    BY <2>1, <2>2, <2>5, <2>6, <2>7 DEF SpoilInv
<1>7. QED
  BY <1>1, <1>4, <1>5, <1>6

\* Steps that B takes no part in.
LEMMA SpoilKept ==
  ASSUME MessagesInv, SpoilInv, UNCHANGED receiverVars,
         Len(messages) <= Len(messages'), Len(messages') \in Nat,
         DOMAIN messages \subseteq DOMAIN messages',
         \A m \in DOMAIN messages : messages'[m] = messages[m],
         \A m \in 1 .. Len(messages) + 1 : FirstId(m)' = FirstId(m)
  PROVE  SpoilInv'
<1>1. UNCHANGED <<hasRxWindow, expectedRxSeq, reorder, rxUsed, rxCache, appLog, reassembly>>
  BY DEF receiverVars, rxVars
<1>2. \A d \in Nat : Standing(Start, d) => Standing(Start, d)'
  BY <1>1, StandingKept
<1>3. QED
  BY <1>1, <1>2 DEF SpoilInv

LEMMA SpoilStep ==
  ASSUME Undisturbed, CacheRoom, LinkInv, RxInv, FragmentsInv, MessagesInv,
         SpoilInv, [LinkNext]_linkVars
  PROVE  SpoilInv'
<1>1. CASE SendMessage \/ SendMessageError \/ SendTruncated
  <2>1. PICK k \in Nat \ {0} : \E onAir, whole, fragment :
          /\ Transmit(k, onAir, whole, fragment) /\ whole \in BOOLEAN
          /\ whole => k <= MaxFragments
          /\ whole /\ ~ColdFragments /\ ~hasRxWindow => k = 1
    BY <1>1, SendIsTransmit
  <2>2. /\ DOMAIN messages \subseteq DOMAIN messages'
        /\ \A m \in DOMAIN messages : messages'[m] = messages[m]
        /\ \A m \in 1 .. Len(messages) + 1 : FirstId(m)' = FirstId(m)
        /\ Len(messages') = Len(messages) + 1
    BY <2>1, TransmitMessages
  <2>3. Len(messages) \in Nat
    BY DEF MessagesInv
  <2>4. Len(messages) <= Len(messages') /\ Len(messages') \in Nat
    BY <2>2, <2>3
  <2>5. UNCHANGED receiverVars
    BY <2>1 DEF Transmit
  <2>6. QED
    BY <2>2, <2>4, <2>5, SpoilKept
<1>2. CASE ReceiveAck \/ PollRetransmit \/ PollFailed \/ UNCHANGED linkVars
  <2>1. UNCHANGED <<messages, nextTxSeq, receiverVars>>
    BY <1>2 DEF ReceiveAck, PollRetransmit, PollFailed, Acked, Retransmit, Fail, retryVars,
                linkVars, senderVars
  <2>2. /\ \A m : FirstId(m)' = FirstId(m)
        /\ Len(messages) \in Nat /\ Len(messages') = Len(messages)
    BY <2>1 DEF FirstId, MessagesInv
  <2>3. Len(messages) <= Len(messages') /\ Len(messages') \in Nat
    BY <2>2
  <2>4. QED
    BY <2>1, <2>2, <2>3, SpoilKept
<1>3. CASE ReceiveData
  BY <1>3, ReceiveSpoils
<1>4. CASE ReassemblyTimeout
  BY <1>4 DEF ReassemblyTimeout, Undisturbed
<1>5. QED
  BY <1>1, <1>2, <1>3, <1>4 DEF LinkNext

THEOREM SpoilInvariant == Undisturbed => (LinkSpec /\ []CacheRoom => []SpoilInv)
<1> SUFFICES ASSUME Undisturbed PROVE LinkSpec /\ []CacheRoom => []SpoilInv
  OBVIOUS
<1>1. LinkInit => SpoilInv
  BY DEF LinkInit, RxInit, SpoilInv
<1>2. CacheRoom /\ LinkInv /\ RxInv /\ FragmentsInv /\ MessagesInv /\ SpoilInv
        /\ [LinkNext]_linkVars => SpoilInv'
  BY SpoilStep
<1>3. LinkSpec => []RxInv
  BY LinkRefinesReceiver, RxInvariant, PTL
<1>4. QED
  BY <1>1, <1>2, <1>3, LinkInvariant, FragmentsInvariant, MessagesInvariant, PTL DEF LinkSpec

\* However often esp_now_send fails in the middle of a message, or the count of
\* fragments wraps: beside the messages cut short, only a fragmented one right
\* behind such a message may come out other than it was submitted.
THEOREM LinkSpoilsOnlyNextWhileRoom ==
  Undisturbed => (LinkSpec /\ []CacheRoom => []SpoilsOnlyNext)
<1>1. SpoilInv => SpoilsOnlyNext
  <2>1. CASE hasRxWindow
    BY <2>1 DEF SpoilInv, Standing, Start, Tidy, SpoilsOnlyNext
  <2>2. CASE ~hasRxWindow
    BY <2>2 DEF SpoilInv, SpoilsOnlyNext
  <2>3. QED
    BY <2>1, <2>2
<1>2. QED
  BY <1>1, SpoilInvariant, PTL

\* With a slot of the cache for every packet this holds of every execution.
THEOREM LinkSpoilsOnlyNext ==
  Undisturbed /\ MaxPackets <= RxCacheSize => (LinkSpec => []SpoilsOnlyNext)
<1>1. QED
  BY LinkSpoilsOnlyNextWhileRoom, SlotsSuffice, PTL

-----------------------------------------------------------------------------
(* Refinement of RelinowDelivery.                                          *)

Submitted == [m \in DOMAIN messages |-> messages[m].frames]

LEMMA SubmittedType ==
  ASSUME MessagesInv
  PROVE  /\ Submitted \in Seq(Seq(Nat)) /\ Len(Submitted) = Len(messages)
         /\ \A m \in 1 .. Len(messages) : Submitted[m] = messages[m].frames
<1>1. DOMAIN messages = 1 .. Len(messages) /\ Len(messages) \in Nat
  BY DEF MessagesInv
<1>2. \A m \in DOMAIN messages : messages[m].frames \in Seq(Nat)
  BY DEF MessagesInv, LaidOut
<1>3. Submitted \in [1 .. Len(messages) -> Seq(Nat)]
  BY <1>1, <1>2 DEF Submitted
<1>4. QED
  BY <1>1, <1>3 DEF Submitted

\* A message more.
LEMMA SubmitStep ==
  ASSUME MessagesInv, MessagesInv', appLog' = appLog, Len(messages') = Len(messages) + 1,
         \A m \in DOMAIN messages : messages'[m] = messages[m]
  PROVE  Delivery!Submit
<1>1. PICK old, new : old = Submitted /\ new = Submitted'
  OBVIOUS
<1>2. PICK N : N = Len(messages)
  OBVIOUS
<1>3. /\ old \in Seq(Seq(Nat)) /\ Len(old) = N /\ N \in Nat
      /\ \A m \in 1 .. N : old[m] = messages[m].frames
  BY <1>1, <1>2, SubmittedType DEF MessagesInv
<1>4. Len(messages') = N + 1
  BY <1>2
<1>5. /\ new \in Seq(Seq(Nat)) /\ Len(new) = N + 1
      /\ \A m \in 1 .. N + 1 : new[m] = messages'[m].frames
  <2>1. /\ Submitted' \in Seq(Seq(Nat)) /\ Len(Submitted') = Len(messages')
        /\ \A m \in 1 .. Len(messages') : Submitted'[m] = messages'[m].frames
    <3>1. DOMAIN messages' = 1 .. Len(messages') /\ Len(messages') \in Nat
      BY DEF MessagesInv
    <3>2. \A m \in DOMAIN messages' : messages'[m].frames \in Seq(Nat)
      BY DEF MessagesInv, LaidOut
    <3>3. Submitted' \in [1 .. Len(messages') -> Seq(Nat)]
      BY <3>1, <3>2 DEF Submitted
    <3>4. QED
      BY <3>1, <3>3 DEF Submitted
  <2>2. QED
    BY <1>1, <1>4, <2>1
<1>6. \A m \in 1 .. N : messages'[m] = messages[m]
  BY <1>2 DEF MessagesInv
<1>7. SubSeq(new, 1, N) = old
  <2>1. \A m \in 1 .. N : new[m] = old[m]
    <3>1. \A m \in 1 .. N : m \in 1 .. N + 1
      BY <1>3
    <3>2. QED
      BY <1>3, <1>5, <1>6, <3>1
  <2>2. PICK part : part = SubSeq(new, 1, N)
    OBVIOUS
  <2>3. part \in Seq(Seq(Nat)) /\ Len(part) = N /\ \A m \in 1 .. N : part[m] = new[m]
    <3>1. 1 \in Int /\ N \in Int /\ \A m \in 1 .. N : new[m] \in Seq(Nat)
      BY <1>3, <2>1
    <3>2. /\ part \in Seq(Seq(Nat)) /\ Len(part) = IF 1 <= N THEN N - 1 + 1 ELSE 0
          /\ \A m \in 1 .. N - 1 + 1 : part[m] = new[1 + m - 1]
      BY <2>2, <3>1, SubSeqProperties
    <3>3. QED
      BY <1>3, <3>2
  <2>4. part = old
    BY <1>3, <2>1, <2>3, SeqEqual
  <2>5. QED
    BY <2>2, <2>4
<1>8. QED
  BY <1>1, <1>3, <1>5, <1>7 DEF Delivery!Submit, Submitted

\* Messages from the cursor's first to its last are handed over.
LEMMA DeliverStep ==
  ASSUME MessagesInv, UNCHANGED messages, NEW o \in Nat, NEW d, NEW e,
         Cursor(o, Start, d), Cursor(o, Start, e)', Len(appLog) <= Len(appLog')
  PROVE  [Delivery!Next]_<<Submitted, appLog>>
<1>1. PICK L, M, log, out, sub :
        /\ log = appLog /\ out = appLog' /\ L = Len(log) /\ M = Len(out) /\ sub = Submitted
  OBVIOUS
<1>2. /\ log \in Seq(Seq(Nat)) /\ out \in Seq(Seq(Nat)) /\ L \in Nat /\ M \in Nat /\ L <= M
      /\ o + M <= Len(messages)
      /\ \A i \in 1 .. L : log[i] = messages[o + i].frames
      /\ \A i \in 1 .. M : out[i] = messages[o + i].frames
  <2>1. /\ log \in Seq(Seq(Nat)) /\ \A i \in 1 .. L : log[i] = messages[o + i].frames
    BY <1>1 DEF Cursor, Start
  <2>2. /\ out \in Seq(Seq(Nat)) /\ o + M <= Len(messages)
        /\ \A i \in 1 .. M : out[i] = messages[o + i].frames
    BY <1>1 DEF Cursor, Start
  <2>3. QED
    BY <1>1, <2>1, <2>2
<1>3. /\ sub \in Seq(Seq(Nat)) /\ Len(sub) = Len(messages) /\ Len(sub) \in Nat
      /\ \A m \in 1 .. Len(sub) : sub[m] = messages[m].frames
  BY <1>1, SubmittedType DEF MessagesInv
<1>4. /\ \A i \in 1 .. L : log[i] = sub[o + i]
      /\ \A i \in 1 .. M : out[i] = sub[o + i] /\ sub[o + i] \in Seq(Nat)
  <2>1. \A i \in 1 .. M : o + i \in 1 .. Len(sub)
    <3>1. M \in Nat /\ Len(sub) \in Nat /\ o + M <= Len(sub)
      BY <1>2, <1>3
    <3>2. QED
      BY <3>1
  <2>2. \A i \in 1 .. L : i \in 1 .. M
    BY <1>2
  <2>3. ASSUME NEW i \in 1 .. M
        PROVE  sub[o + i] = messages[o + i].frames /\ sub[o + i] \in Seq(Nat)
    <3>1. PICK m : m = o + i
      OBVIOUS
    <3>2. m \in 1 .. Len(sub)
      BY <2>1, <3>1
    <3>3. sub[m] = messages[m].frames /\ sub[m] \in Seq(Nat)
      BY <1>3, <3>2, ElementOfSeq
    <3>4. QED
      BY <3>1, <3>3
  <2>4. QED
    BY <1>2, <2>2, <2>3
<1>5. Submitted' = Submitted
  BY DEF Submitted
<1>6. CASE L = M
  <2>1. out = log
    <3>1. Len(out) = Len(log) /\ \A i \in 1 .. Len(out) : out[i] = log[i]
      BY <1>1, <1>4, <1>6
    <3>2. QED
      BY <1>2, <3>1, SeqEqual
  <2>2. QED
    BY <1>1, <1>5, <2>1
<1>7. CASE L # M
  <2>1. PICK i, j, part : i = o + L + 1 /\ j = o + M /\ part = SubSeq(sub, i, j)
    OBVIOUS
  <2>2. /\ i \in Nat /\ j \in Nat /\ 1 <= i /\ i <= j /\ j <= Len(sub)
        /\ j - i + 1 = M - L
    BY <1>2, <1>3, <1>7, <2>1
  <2>3. /\ part \in Seq(Seq(Nat)) /\ Len(part) = M - L
        /\ \A k \in 1 .. M - L : part[k] = sub[o + L + k]
    <3>1. i \in Int /\ j \in Int /\ \A k \in i .. j : sub[k] \in Seq(Nat)
      <4>1. \A k \in i .. j : k \in 1 .. Len(sub)
        BY <1>3, <2>2
      <4>2. QED
        BY <1>3, <2>2, <4>1
    <3>2. /\ part \in Seq(Seq(Nat)) /\ Len(part) = IF i <= j THEN j - i + 1 ELSE 0
          /\ \A k \in 1 .. j - i + 1 : part[k] = sub[i + k - 1]
      BY <2>1, <3>1, SubSeqProperties
    <3>3. \A k \in 1 .. M - L : i + k - 1 = o + L + k
      BY <1>2, <2>1
    <3>4. QED
      BY <2>2, <3>2, <3>3
  <2>4. out = log \o part
    <3>1. PICK cat : cat = log \o part
      OBVIOUS
    <3>2. /\ cat \in Seq(Seq(Nat)) /\ Len(cat) = L + (M - L)
          /\ \A k \in 1 .. L + (M - L) : cat[k] = IF k <= L THEN log[k] ELSE part[k - L]
      <4>1. /\ log \in Seq(Seq(Nat)) /\ part \in Seq(Seq(Nat))
            /\ Len(log) = L /\ Len(part) = M - L
        BY <1>1, <1>2, <2>3
      <4>2. /\ cat \in Seq(Seq(Nat)) /\ Len(cat) = Len(log) + Len(part)
            /\ \A k \in 1 .. Len(log) + Len(part) :
                  cat[k] = IF k <= Len(log) THEN log[k] ELSE part[k - Len(log)]
        BY <3>1, <4>1, ConcatProperties
      <4>3. QED
        BY <4>1, <4>2
    <3>3. L + (M - L) = M
      BY <1>2
    <3>4. ASSUME NEW k \in 1 .. M PROVE out[k] = cat[k]
      <4>1. CASE k <= L
        <5>1. k \in 1 .. L
          BY <1>2, <4>1
        <5>2. QED
          BY <1>4, <3>2, <3>3, <4>1, <5>1
      <4>2. CASE ~(k <= L)
        <5>1. k - L \in 1 .. M - L /\ o + L + (k - L) = o + k
          BY <1>2, <4>2
        <5>2. QED
          BY <1>4, <2>3, <3>2, <3>3, <4>2, <5>1
      <4>3. QED
        BY <4>1, <4>2
    <3>5. Len(out) = Len(cat) /\ \A k \in 1 .. Len(out) : out[k] = cat[k]
      BY <1>1, <3>2, <3>3, <3>4
    <3>6. QED
      BY <1>2, <3>1, <3>2, <3>5, SeqEqual
  <2>5. log # <<>> => i > 1 /\ log[Len(log)] = sub[i - 1]
    <3>1. SUFFICES ASSUME log # <<>> PROVE i > 1 /\ log[L] = sub[i - 1]
      BY <1>1
    <3>2. L >= 1
      <4>1. L \in Nat \ {0}
        BY <1>1, <1>2, <3>1, EmptySeq
      <4>2. QED
        BY <4>1
    <3>3. L \in 1 .. L /\ i - 1 = o + L /\ i > 1
      BY <1>2, <2>1, <3>2
    <3>4. QED
      BY <1>4, <3>3
  <2>6. i \in 1 .. j /\ j \in 1 .. Len(sub)
    BY <1>3, <2>2
  <2>7. \E q \in 1 .. Len(sub) : \E p \in 1 .. q :
           /\ p \in 1 .. q /\ q <= Len(sub)
           /\ log # <<>> => p > 1 /\ log[Len(log)] = sub[p - 1]
           /\ out = log \o SubSeq(sub, p, q)
    BY <2>1, <2>2, <2>4, <2>5, <2>6
  <2>8. Delivery!Deliver
    BY <1>1, <1>5, <2>7 DEF Delivery!Deliver, Delivery!Continues, Submitted
  <2>9. QED
    BY <2>8 DEF Delivery!Next
<1>8. QED
  BY <1>6, <1>7

\* An undisturbed link is a channel as RelinowDelivery describes it: whatever
\* the radio loses, repeats or reorders, the receiving application is handed a
\* gap-free run of the submitted messages, each whole, once and in order, in
\* sessions of any length as long as the cache has room and sends that fail
\* cut no message short.
THEOREM LinkDeliversWhileRoom ==
  Undisturbed => (LinkSpec /\ []CacheRoom /\ []NoneCutShort => ImplementsDelivery)
<1> SUFFICES ASSUME Undisturbed
             PROVE  LinkSpec /\ []CacheRoom /\ []NoneCutShort => ImplementsDelivery
  OBVIOUS
<1>1. LinkInit => Delivery!Init
  <2> SUFFICES ASSUME LinkInit PROVE Delivery!Init
    OBVIOUS
  <2>1. appLog = <<>> /\ messages = <<>>
    BY DEF LinkInit
  <2>2. MessagesInv
    BY DeliveryInit
  <2>3. PICK sub : sub = Submitted
    OBVIOUS
  <2>4. sub \in Seq(Seq(Nat)) /\ Len(sub) = 0
    BY <2>1, <2>2, <2>3, SubmittedType
  <2>5. SubSeq(sub, 1, 0) = <<>>
    BY SubSeqEmpty
  <2>6. 1 \in 1 .. Len(sub) + 1 /\ appLog = SubSeq(sub, 1, Len(sub))
    BY <2>1, <2>4, <2>5
  <2>7. \E i \in 1 .. Len(sub) + 1 : appLog = SubSeq(sub, i, Len(sub))
    BY <2>6
  <2>8. QED
    BY <2>3, <2>7 DEF Delivery!Init, Submitted
<1>2. CacheRoom /\ NoneCutShort /\ LinkInv /\ RxInv /\ FragmentsInv /\ MessagesInv /\ DeliveryInv
        /\ [LinkNext]_linkVars => [Delivery!Next]_<<Submitted, appLog>>
  <2> SUFFICES ASSUME CacheRoom, NoneCutShort, LinkInv, RxInv, FragmentsInv, MessagesInv,
                      DeliveryInv, [LinkNext]_linkVars
               PROVE  [Delivery!Next]_<<Submitted, appLog>>
    OBVIOUS
  <2>1. /\ MessagesInv'
        /\ \/ /\ appLog' = appLog /\ Len(messages') = Len(messages) + 1
              /\ \A m \in DOMAIN messages : messages'[m] = messages[m]
           \/ ReceiveData /\ UNCHANGED messages
           \/ UNCHANGED <<messages, appLog>>
    BY UndisturbedStep
  <2>2. CASE /\ appLog' = appLog /\ Len(messages') = Len(messages) + 1
             /\ \A m \in DOMAIN messages : messages'[m] = messages[m]
    <3>1. Delivery!Submit
      BY <2>1, <2>2, SubmitStep
    <3>2. QED
      BY <3>1 DEF Delivery!Next
  <2>3. CASE ReceiveData /\ UNCHANGED messages
    <3>1. Len(appLog) <= Len(appLog')
      BY <2>3, ReceiveDelivers
    <3>2. PICK o, d, e \in Nat : Cursor(o, Start, d) /\ Cursor(o, Start, e)'
      BY <2>3, ReceiveDelivers
    <3>3. QED
      BY <2>3, <3>1, <3>2, DeliverStep
  <2>4. CASE UNCHANGED <<messages, appLog>>
    BY <2>4 DEF Submitted
  <2>5. QED
    BY <2>1, <2>2, <2>3, <2>4
<1>3. LinkSpec => []RxInv
  BY LinkRefinesReceiver, RxInvariant, PTL
<1>4. LinkSpec /\ []CacheRoom => [](NoneCutShort => DeliveryInv)
  BY DeliveryInvariant
<1>5. QED
  BY <1>1, <1>2, <1>3, <1>4, LinkInvariant, FragmentsInvariant, MessagesInvariant, PTL
     DEF LinkSpec, ImplementsDelivery, Delivery!Spec, Submitted

\* So is one with a slot for every packet, on which nothing cuts a message short,
\* without a premise on its states.
THEOREM LinkImplementsDelivery ==
  Undisturbed /\ MaxPackets <= RxCacheSize
    /\ ~LongMessages /\ (SendErrors => MaxFragments = 1)
    => (LinkSpec => ImplementsDelivery)
<1>1. QED
  BY LinkDeliversWhileRoom, SlotsSuffice, LinkNoneCutShort, PTL
=============================================================================
