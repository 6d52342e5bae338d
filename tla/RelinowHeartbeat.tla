--------------------------- MODULE RelinowHeartbeat ---------------------------
(***************************************************************************)
(* The heartbeat on channel 0xFF: a node that sends PINGs from             *)
(* relinow_poll and gives its peer up when too many of them stay           *)
(* unanswered, a peer that answers while it is up, and the radio.          *)
(*                                                                         *)
(* PING and PONG carry no number, so frames in the air are just counted;   *)
(* each of them may arrive or get lost, and is lost at once when there are *)
(* MaxAir of its kind already.  Time passes in ticks; the main loop may    *)
(* poll as late as it likes.  Times are kept as the code compares them, as *)
(* what has elapsed, and no further than anyone looks.                     *)
(***************************************************************************)
EXTENDS Naturals

CONSTANTS
    Intervals,             \* heartbeat_interval_ms, in ticks; 0 switches it off
    MissMaxes,             \* heartbeat_miss_count_max
    MaxSilence,            \* bound: how far silence is counted
    MaxConfigs,            \* bound: reconfigurations
    MaxAir                 \* bound: PINGs, and PONGs, in the air

ASSUME HeartbeatAssumption ==
    /\ Intervals \subseteq Nat /\ MissMaxes \subseteq Nat
    /\ MaxSilence \in Nat /\ MaxConfigs \in Nat /\ MaxAir \in Nat
    /\ \A i \in Intervals, m \in MissMaxes : m * i <= MaxSilence

VARIABLES
    interval, missMax,     \* the configuration
    sincePing,             \* now_ms - last_ping_sent_ms, up to interval
    missedPongs,           \* missed_pongs
    reported,              \* the last poll that did anything reported the peer
    pings, pongs,          \* PINGs and PONGs in the air
    peerUp,                \* the peer is running
    silence,               \* history: time since a PONG, or the configuration
    configs                \* reconfigurations so far

airVars == <<pings, pongs>>
historyVars == <<silence, configs>>
heartbeatVars == <<interval, missMax, sincePing, missedPongs, reported,
                   airVars, peerUp, historyVars>>

\* relinow_state_configure_heartbeat.  last_ping_sent_ms becomes 0, from
\* which the clock may be any distance away.
Configured(i, m) ==
    /\ interval' = i /\ missMax' = m
    /\ missedPongs' = 0 /\ sincePing' \in 0 .. i
    /\ reported' = FALSE /\ silence' = 0

HeartbeatInit ==
    /\ interval \in Intervals /\ missMax \in MissMaxes
    /\ sincePing \in 0 .. interval /\ missedPongs = 0 /\ reported = FALSE
    /\ pings = 0 /\ pongs = 0 /\ peerUp = TRUE
    /\ silence = 0 /\ configs = 0

\* Mutant of Configure: the PINGs missed so far still count.
ConfigureKeeping ==
    /\ configs < MaxConfigs
    /\ configs' = configs + 1
    /\ interval' \in Intervals /\ missMax' \in MissMaxes
    /\ sincePing' \in 0 .. interval' /\ reported' = FALSE /\ silence' = 0
    /\ UNCHANGED <<missedPongs, airVars, peerUp>>

Configure ==
    /\ configs < MaxConfigs
    /\ configs' = configs + 1
    /\ \E i \in Intervals, m \in MissMaxes : Configured(i, m)
    /\ UNCHANGED <<airVars, peerUp>>

Tick ==
    /\ sincePing' = IF sincePing < interval THEN sincePing + 1 ELSE sincePing
    /\ silence' = IF silence < MaxSilence THEN silence + 1 ELSE silence
    /\ UNCHANGED <<interval, missMax, missedPongs, reported, airVars, peerUp,
                   configs>>

IntervalOver == interval > 0 /\ sincePing >= interval

OneMore(n) == IF n < MaxAir THEN n + 1 ELSE n

\* Mutant of PollPing: the PING does not count.
PollPingUncounted ==
    /\ IntervalOver
    /\ missedPongs < missMax
    /\ sincePing' = 0 /\ pings' = OneMore(pings)
    /\ reported' = FALSE
    /\ UNCHANGED <<interval, missMax, missedPongs, pongs, peerUp, historyVars>>

\* relinow_poll, next PING: it counts as missed until a PONG says otherwise.
PollPing ==
    /\ IntervalOver
    /\ missedPongs < missMax
    /\ missedPongs' = missedPongs + 1
    /\ sincePing' = 0 /\ pings' = OneMore(pings)
    /\ reported' = FALSE
    /\ UNCHANGED <<interval, missMax, pongs, peerUp, historyVars>>

\* Mutant of PollTimeout: the last PING is not given its interval.
PollTimeoutHasty ==
    /\ interval > 0
    /\ missedPongs >= missMax
    /\ reported' = TRUE
    /\ UNCHANGED <<interval, missMax, sincePing, missedPongs, airVars, peerUp,
                   historyVars>>

\* relinow_poll, the peer is given up: on_peer_timeout is called, by this
\* and by every later poll, and no further PING goes out.
PollTimeout ==
    /\ IntervalOver
    /\ missedPongs >= missMax
    /\ reported' = TRUE
    /\ UNCHANGED <<interval, missMax, sincePing, missedPongs, airVars, peerUp,
                   historyVars>>

\* relinow_on_receive on the peer: a PING is answered at once.
ReceivePing ==
    /\ peerUp /\ pings > 0
    /\ pings' = pings - 1 /\ pongs' = OneMore(pongs)
    /\ UNCHANGED <<interval, missMax, sincePing, missedPongs, reported, peerUp,
                   historyVars>>

\* relinow_on_receive, PONG: any PONG makes up for all PINGs missed.
ReceivePong ==
    /\ pongs > 0
    /\ pongs' = pongs - 1
    /\ missedPongs' = 0
    /\ silence' = 0
    /\ UNCHANGED <<interval, missMax, sincePing, reported, pings, peerUp, configs>>

LosePing ==
    /\ pings > 0 /\ pings' = pings - 1
    /\ UNCHANGED <<interval, missMax, sincePing, missedPongs, reported, pongs,
                   peerUp, historyVars>>

LosePong ==
    /\ pongs > 0 /\ pongs' = pongs - 1
    /\ UNCHANGED <<interval, missMax, sincePing, missedPongs, reported, pings,
                   peerUp, historyVars>>

\* The peer stops, or comes back; frames in the air stay there.
PeerStopsOrReturns ==
    /\ peerUp' = ~peerUp
    /\ UNCHANGED <<interval, missMax, sincePing, missedPongs, reported, airVars,
                   historyVars>>

HeartbeatNext ==
    \/ Configure \/ Tick \/ PollPing \/ PollTimeout
    \/ ReceivePing \/ ReceivePong \/ LosePing \/ LosePong \/ PeerStopsOrReturns

HeartbeatSpec == HeartbeatInit /\ [][HeartbeatNext]_heartbeatVars

\* The clock runs and the main loop polls.
HeartbeatFairSpec ==
    /\ HeartbeatSpec
    /\ WF_heartbeatVars(Tick) /\ WF_heartbeatVars(PollPing \/ PollTimeout)

-----------------------------------------------------------------------------
\* Type correctness.  missed_pongs never passes its limit, so that its 8 bits
\* cannot overflow.
HeartbeatTypeOK ==
    /\ interval \in Intervals /\ missMax \in MissMaxes
    /\ sincePing \in 0 .. interval /\ missedPongs \in 0 .. missMax
    /\ pings \in 0 .. MaxAir /\ pongs \in 0 .. MaxAir
    /\ silence \in 0 .. MaxSilence /\ configs \in 0 .. MaxConfigs

\* The peer is only given up after heartbeat_miss_count_max whole intervals
\* without a PONG, however late the loop polls and however the PONGs of
\* earlier PINGs are delayed.
TimeoutAfterSilence ==
    [][~reported /\ reported' => silence >= missMax * interval]_heartbeatVars

\* A peer that is gone for good is reported, and stays reported, if the
\* heartbeat is on.
DeadPeerReported ==
    <>[](~peerUp /\ interval > 0) => <>[]reported
=============================================================================
