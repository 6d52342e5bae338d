---------------------------- MODULE RelinowTables ----------------------------
(***************************************************************************)
(* The fixed tables of relinow_state.c: the peers of a node and the        *)
(* channels of a peer.  A table is a function from the slots in use to     *)
(* their entries; a slot that is not in its domain is free.                *)
(***************************************************************************)
EXTENDS RelinowHeader

CONSTANTS
    MaxPeers,              \* RELINOW_MAX_PEERS, 20 in the code
    MaxChannels            \* RELINOW_MAX_CHANNELS_PER_PEER, 16 in the code

ASSUME TablesAssumption == MaxPeers \in Nat \ {0} /\ MaxChannels \in Nat \ {0}

EmptyTable == [slot \in {} |-> {}]

HasRoom(table, size) == 1 .. size \ DOMAIN table # {}

\* The first slot that is not in use.
FirstFree(table, size) ==
    CHOOSE i \in 1 .. size \ DOMAIN table :
        \A j \in 1 .. size \ DOMAIN table : i <= j

With(table, slot, entry) ==
    [i \in DOMAIN table \cup {slot} |-> IF i = slot THEN entry ELSE table[i]]

\* relinow_state_find_peer: the slots that hold this address, at most one
PeerSlots(peers, mac) == {i \in DOMAIN peers : peers[i] = mac}

\* relinow_state_add_peer: a known peer keeps its slot and its channels.
AddPeer(peers, mac) ==
    IF PeerSlots(peers, mac) # {} \/ ~HasRoom(peers, MaxPeers)
    THEN peers
    ELSE With(peers, FirstFree(peers, MaxPeers), mac)

\* relinow_find_channel_mut and its like: the slots of this channel
ChannelSlots(channels, id) == {i \in DOMAIN channels : channels[i].id = id}

\* relinow_state_get_channel_mode returns OK and this mode.
IsOpen(channels, id, mode) ==
    \E i \in ChannelSlots(channels, id) : channels[i].mode = mode

\* What relinow_state_open_channel refuses: INVALID_ARG and CONFLICT
Refused(channels, id, mode) ==
    \/ mode \notin Modes \/ id = HeartbeatChannel
    \/ \E i \in ChannelSlots(channels, id) : channels[i].mode # mode

\* A channel as it is opened: a RELIABLE one has no receive window yet.
NewChannel(id, mode, priority) ==
    [id |-> id, mode |-> mode, priority |-> priority, started |-> FALSE]

\* Mutant of OpenChannel: opening a channel again sets it up again.
OpenChannelAfresh(channels, id, mode, priority) ==
    IF Refused(channels, id, mode) THEN channels
    ELSE IF ChannelSlots(channels, id) # {}
         THEN [i \in DOMAIN channels |->
                 IF channels[i].id = id THEN NewChannel(id, mode, priority)
                 ELSE channels[i]]
    ELSE IF HasRoom(channels, MaxChannels)
         THEN With(channels, FirstFree(channels, MaxChannels),
                   NewChannel(id, mode, priority))
    ELSE channels

\* relinow_state_open_channel.  A channel that is open in the same mode gets
\* the new priority and keeps the rest.
OpenChannel(channels, id, mode, priority) ==
    IF Refused(channels, id, mode) THEN channels
    ELSE IF ChannelSlots(channels, id) # {}
         THEN [i \in DOMAIN channels |->
                 IF channels[i].id = id
                 THEN [channels[i] EXCEPT !.priority = priority]
                 ELSE channels[i]]
    ELSE IF HasRoom(channels, MaxChannels)
         THEN With(channels, FirstFree(channels, MaxChannels),
                   NewChannel(id, mode, priority))
    ELSE channels
=============================================================================
