------------------------ MODULE RelinowHeartbeat_proofs ------------------------
(***************************************************************************)
(* Theorems about the heartbeat, for every configuration.                  *)
(*                                                                         *)
(* The inductive invariant HbInv adds to the type how long the silence has *)
(* lasted: once k > 0 PONGs are missing, k - 1 whole intervals and the     *)
(* time since the last PING.  Beyond MaxSilence silence is not counted,    *)
(* but no configuration asks for more than that.                           *)
(***************************************************************************)
EXTENDS RelinowHeartbeat, Integers, TLAPS

\* What k PINGs sent an interval apart, and t since the last, add up to.
Spent(k, t) == (k - 1) * interval + t

SilenceSpent == missedPongs > 0 => silence >= Spent(missedPongs, sincePing)

HbInv == HeartbeatTypeOK /\ SilenceSpent

\* Counting up to a limit does not leave it.
LEMMA MultiplesGrow ==
  ASSUME NEW k \in Nat, NEW m \in Nat, NEW i \in Nat, k <= m
  PROVE  k * i <= m * i
<1>1. PICK d \in Nat : m = k + d
  <2>1. m - k \in Nat /\ m = k + (m - k)
    OBVIOUS
  <2>2. QED
    BY <2>1
<1>2. m * i = k * i + d * i
  BY <1>1
<1>3. d * i \in Nat /\ k * i \in Nat
  BY <1>1
<1>4. QED
  BY <1>2, <1>3

\* Before the next PING, the silence that is due fits what is counted.
LEMMA SpentBounded ==
  ASSUME HeartbeatTypeOK, missedPongs > 0
  PROVE  Spent(missedPongs, sincePing) <= MaxSilence
<1>1. /\ interval \in Nat /\ missMax \in Nat /\ missMax * interval <= MaxSilence
      /\ sincePing \in 0 .. interval /\ missedPongs \in 0 .. missMax
      /\ MaxSilence \in Nat
  BY HeartbeatAssumption DEF HeartbeatTypeOK
<1>2. missedPongs * interval <= missMax * interval
  BY <1>1, MultiplesGrow
<1>3. (missedPongs - 1) * interval + interval = missedPongs * interval
  BY <1>1
<1>4. /\ (missedPongs - 1) * interval \in Int
      /\ missedPongs * interval \in Int /\ missMax * interval \in Int
  BY <1>1
<1>5. QED
  BY <1>1, <1>2, <1>3, <1>4 DEF Spent

LEMMA HbInit == HeartbeatInit => HbInv
<1> SUFFICES ASSUME HeartbeatInit PROVE HbInv
  OBVIOUS
<1>1. missMax \in Nat
  BY HeartbeatAssumption DEF HeartbeatInit
<1>2. HeartbeatTypeOK
  BY <1>1, HeartbeatAssumption DEF HeartbeatInit, HeartbeatTypeOK
<1>3. SilenceSpent
  BY DEF HeartbeatInit, SilenceSpent
<1>4. QED
  BY <1>2, <1>3 DEF HbInv

LEMMA HbStep == HbInv /\ [HeartbeatNext]_heartbeatVars => HbInv'
<1> SUFFICES ASSUME HbInv, [HeartbeatNext]_heartbeatVars PROVE HbInv'
  OBVIOUS
<1> USE DEF HbInv
<1>1. /\ interval \in Nat /\ missMax \in Nat
      /\ sincePing \in 0 .. interval /\ missedPongs \in 0 .. missMax
      /\ MaxSilence \in Nat /\ MaxConfigs \in Nat /\ MaxAir \in Nat
      /\ silence \in 0 .. MaxSilence
  BY HeartbeatAssumption DEF HeartbeatTypeOK
<1>2. CASE Configure
  <2>1. PICK i \in Intervals, m \in MissMaxes : Configured(i, m)
    BY <1>2 DEF Configure
  <2>2. m \in Nat
    BY HeartbeatAssumption
  <2>3. HeartbeatTypeOK'
    BY <1>1, <1>2, <2>1, <2>2 DEF Configure, Configured, HeartbeatTypeOK, airVars
  <2>4. SilenceSpent'
    BY <2>1 DEF Configured, SilenceSpent
  <2>5. QED
    BY <2>3, <2>4
<1>3. CASE Tick
  <2>1. HeartbeatTypeOK'
    BY <1>1, <1>3 DEF Tick, HeartbeatTypeOK, airVars
  <2>2. SilenceSpent'
    <3> SUFFICES ASSUME missedPongs > 0
                 PROVE  silence' >= Spent(missedPongs, sincePing)'
      BY <1>3 DEF Tick, SilenceSpent
    <3>1. (missedPongs - 1) * interval \in Int
      BY <1>1
    <3>2. silence >= Spent(missedPongs, sincePing)
      BY DEF SilenceSpent
    <3>3. Spent(missedPongs, sincePing)' <= MaxSilence
      <4>1. HeartbeatTypeOK' /\ missedPongs' > 0
        BY <1>3, <2>1 DEF Tick
      <4>2. (HeartbeatTypeOK /\ missedPongs > 0
               => Spent(missedPongs, sincePing) <= MaxSilence)'
        BY SpentBounded, PTL
      <4>3. QED
        BY <4>1, <4>2
    <3>4. interval' = interval /\ missedPongs' = missedPongs
      BY <1>3 DEF Tick
    <3>5. CASE silence < MaxSilence
      BY <1>1, <1>3, <3>1, <3>2, <3>4, <3>5 DEF Tick, Spent
    <3>6. CASE silence = MaxSilence
      BY <1>1, <1>3, <3>3, <3>6 DEF Tick
    <3>7. QED
      BY <1>1, <3>5, <3>6
  <2>3. QED
    BY <2>1, <2>2
<1>4. CASE PollPing
  <2>1. HeartbeatTypeOK'
    BY <1>1, <1>4 DEF PollPing, HeartbeatTypeOK, OneMore, historyVars
  <2>2. SilenceSpent'
    <3>1. /\ missedPongs' = missedPongs + 1 /\ interval' = interval
          /\ sincePing' = 0 /\ silence' = silence /\ sincePing >= interval
      BY <1>4 DEF PollPing, IntervalOver, historyVars
    <3>2. Spent(missedPongs, sincePing)' = missedPongs * interval
      BY <1>1, <3>1 DEF Spent
    <3>3. CASE missedPongs = 0
      BY <1>1, <3>1, <3>2, <3>3 DEF SilenceSpent
    <3>4. CASE missedPongs > 0
      <4>1. silence >= Spent(missedPongs, sincePing)
        BY <3>4 DEF SilenceSpent
      <4>2. missedPongs * interval = (missedPongs - 1) * interval + interval
        BY <1>1
      <4>3. (missedPongs - 1) * interval \in Int /\ missedPongs * interval \in Int
        BY <1>1
      <4>4. silence >= missedPongs * interval
        BY <1>1, <3>1, <4>1, <4>2, <4>3 DEF Spent
      <4>5. QED
        BY <3>1, <3>2, <4>4 DEF SilenceSpent
    <3>5. QED
      BY <1>1, <3>3, <3>4
  <2>3. QED
    BY <2>1, <2>2
<1>5. CASE ReceivePong
  <2>1. HeartbeatTypeOK'
    BY <1>1, <1>5 DEF ReceivePong, HeartbeatTypeOK
  <2>2. SilenceSpent'
    BY <1>5 DEF ReceivePong, SilenceSpent
  <2>3. QED
    BY <2>1, <2>2
<1>6. CASE \/ PollTimeout \/ ReceivePing \/ LosePing \/ LosePong
           \/ PeerStopsOrReturns \/ UNCHANGED heartbeatVars
  <2>1. UNCHANGED <<interval, missMax, sincePing, missedPongs, silence, configs>>
    BY <1>6 DEF PollTimeout, ReceivePing, LosePing, LosePong, PeerStopsOrReturns,
                heartbeatVars, historyVars
  <2>2. pings' \in 0 .. MaxAir /\ pongs' \in 0 .. MaxAir
    BY <1>1, <1>6 DEF PollTimeout, ReceivePing, LosePing, LosePong,
         PeerStopsOrReturns, heartbeatVars, airVars, OneMore, HeartbeatTypeOK
  <2>3. HeartbeatTypeOK'
    BY <2>1, <2>2 DEF HeartbeatTypeOK
  <2>4. SilenceSpent'
    BY <2>1 DEF SilenceSpent, Spent
  <2>5. QED
    BY <2>3, <2>4
<1>7. QED
  BY <1>2, <1>3, <1>4, <1>5, <1>6 DEF HeartbeatNext

\* Every reachable state satisfies the inductive invariant.
THEOREM HbInvariant == HeartbeatSpec => []HbInv
<1>1. QED
  BY HbInit, HbStep, PTL DEF HeartbeatSpec

\* The heartbeat's fields stay in range; missed_pongs never passes the limit
\* in relinow_state_poll_heartbeat.
THEOREM HeartbeatTypeCorrect == HeartbeatSpec => []HeartbeatTypeOK
<1>1. HbInv => HeartbeatTypeOK
  BY DEF HbInv
<1>2. QED
  BY <1>1, HbInvariant, PTL

\* relinow_poll reports the peer only after the configured number of whole
\* intervals without a PONG.
THEOREM HeartbeatTimeoutAfterSilence == HeartbeatSpec => TimeoutAfterSilence
<1>1. HbInv /\ [HeartbeatNext]_heartbeatVars
        => [~reported /\ reported' => silence >= missMax * interval]_heartbeatVars
  <2> SUFFICES ASSUME HbInv, HeartbeatNext, ~reported, reported'
               PROVE  silence >= missMax * interval
    BY DEF heartbeatVars
  <2>1. PollTimeout
    BY DEF HeartbeatNext, Configure, Configured, Tick, PollPing, ReceivePing,
           ReceivePong, LosePing, LosePong, PeerStopsOrReturns
  <2>2. /\ interval \in Nat /\ missMax \in Nat /\ silence \in Nat
        /\ missedPongs = missMax /\ sincePing = interval
    BY <2>1, HeartbeatAssumption DEF PollTimeout, IntervalOver, HbInv, HeartbeatTypeOK
  <2>3. CASE missMax = 0
    BY <2>2, <2>3
  <2>4. CASE missMax > 0
    <3>1. silence >= (missMax - 1) * interval + interval
      BY <2>2, <2>4 DEF HbInv, SilenceSpent, Spent
    <3>2. (missMax - 1) * interval + interval = missMax * interval
      BY <2>2
    <3>3. QED
      BY <3>1, <3>2
  <2>5. QED
    BY <2>2, <2>3, <2>4
<1>2. QED
  BY <1>1, HbInvariant, PTL DEF HeartbeatSpec, TimeoutAfterSilence
=============================================================================
