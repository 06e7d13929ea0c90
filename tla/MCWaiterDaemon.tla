--------------------------- MODULE MCWaiterDaemon ---------------------------
(* Model-checking instances of WaiterDaemon. *)
EXTENDS WaiterDaemon, TLC

Symmetry == Permutations(Conns)

\* A request id that is used again takes the place of two failures.
ReplayIsAFault == (\E id \in AckRequests : ack_history[id] # NoEntry) => faults + 2 <= MaxFaults

=============================================================================
