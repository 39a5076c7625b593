------------------------------ MODULE MCUTPConn ------------------------------
(* Small connections for TLC: who writes, who closes, how bad the network  *)
(* is.                                                                     *)
EXTENDS UTPConn

CONSTANTS
  k1,               \* a goroutine that calls Close
  ClosingEnds       \* the ends that have it

MCClosers == [x \in Ends |-> IF x \in ClosingEnds THEN {k1} ELSE {}]
=============================================================================
