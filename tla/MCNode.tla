-------------------------------- MODULE MCNode --------------------------------
(***************************************************************************)
(* Model of RelinowNode for TLC: the channels of esp32_a, a second         *)
(* RELIABLE one, the main one opened once more with another priority, and  *)
(* a peer that sends every kind of frame, some of them malformed.          *)
(***************************************************************************)
EXTENDS RelinowNode

MCOpenings == << [id |-> 2, mode |-> UNRELIABLE, priority |-> 0],
                 [id |-> 4, mode |-> RELIABLE, priority |-> 0],
                 [id |-> 3, mode |-> PRIORITY, priority |-> 0],
                 [id |-> 1, mode |-> RELIABLE, priority |-> 5] >>

\* An id whose two bytes differ
MCSeqs == {515}

MCIncoming ==
    { Frame(RELIABLE, 1, DATA, 0, 0, 0, 0), Frame(RELIABLE, 1, DATA, 0, 0, 0, 241),
      Frame(RELIABLE, 4, DATA, FRAGMENT, 0, 0, 1),
      Frame(RELIABLE, 4, DATA, LAST_FRAGMENT, 0, 0, 1),
      Frame(RELIABLE, 1, ACK, 0, 0, 515, 0), Frame(RELIABLE, 4, ACK, 0, 0, 515, 0),
      Frame(UNRELIABLE, 2, DATA, 0, 7, 0, 10), Frame(PRIORITY, 3, DATA, 0, 7, 0, 10),
      Frame(UNRELIABLE, 1, DATA, 0, 7, 0, 10), Frame(RELIABLE, 1, DATA, 0, 0, 0, 242),
      Frame(UNRELIABLE, HeartbeatChannel, PING, 0, 0, 0, 0),
      Frame(UNRELIABLE, HeartbeatChannel, PING, 0, 9, 0, 0),
      Frame(RELIABLE, HeartbeatChannel, PING, 0, 9, 0, 0),
      Frame(UNRELIABLE, HeartbeatChannel, PONG, 0, 0, 0, 0) }
===============================================================================
