---------------------------- MODULE MCReplication ----------------------------
(* Two gateways and a connection between them for TLC, with one client at  *)
(* the first and an agentic service at the second.                         *)
EXTENDS Replication

CONSTANTS
  ga, gb,        \* two gateways
  ca,            \* an IPC client of ga
  sa, sb,        \* the ends of a connection between them
  rb,            \* a goroutine for agentic replies of gb
  hello, reply   \* a chat message of a human, and one of the agentic service

AtA == {ca, sa}

MCHomeOf == [t \in Tasks |-> IF t \in AtA THEN ga ELSE gb]

MCRemoteOf == [s \in Sessions |-> IF s \in AtA THEN gb ELSE ga]

MCPeerOf == [s \in Sessions |-> IF s = sa THEN sb ELSE sa]

(* Every signature over a log of the bounded length.                       *)
MCPeerSigs ==
  {NoSig} \cup
  [by : Keys, over : UNION {[1 .. n -> Payloads] : n \in 1 .. MaxBlocks}]

MCClientSigs == {NoSig}
=============================================================================
