--------------------------- MODULE MCPeerManager ---------------------------
(* For TLC: a peer that both ends dial, and another one that is dialled.   *)
EXTENDS PeerManager

CONSTANTS in1, out1, out2, p, q

MCPeerOf == [c \in Conns |-> IF c = out2 THEN q ELSE p]
=============================================================================
