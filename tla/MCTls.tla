------------------------------- MODULE MCTls --------------------------------
(* The TLS stream for TLC: what may happen after the handshake, beside it and *)
(* beside what users and peer may leave undone. Two records each way show     *)
(* their order; the peer that asks lets the buffer for output become full     *)
(* while a batch of it is in the socket (the reader sends its answer, a       *)
(* writer that is refused leaves its bytes unsent, and close adds more).      *)
EXTENDS TlsStream

Anything == {"hangs up", "stops", "fails"}

ReadAndClose ==
  [writes |-> 0, reads |-> 1, closes |-> TRUE, says |-> <<Hello, 1, 2, CloseNotify>>, faults |-> Anything]
WriteAndClose ==
  [writes |-> 2, reads |-> 0, closes |-> TRUE, says |-> <<Hello, CloseNotify>>, faults |-> Anything]
ReadAndWrite ==
  [writes |-> 1, reads |-> 1, closes |-> FALSE, says |-> <<Hello, 1, 2, CloseNotify>>, faults |-> Anything]
TwoEachWay ==
  [writes |-> 2, reads |-> 2, closes |-> FALSE, says |-> <<Hello, 1, 2, 3, 4, CloseNotify>>, faults |-> {}]
PeerAsks ==
  [writes |-> 1, reads |-> 1, closes |-> TRUE, says |-> <<Hello, Request>>, faults |-> {"stops"}]

AllScenarios == {ReadAndClose, WriteAndClose, ReadAndWrite, TwoEachWay, PeerAsks}
=============================================================================
