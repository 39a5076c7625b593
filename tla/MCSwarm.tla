------------------------------ MODULE MCSwarm ------------------------------
(* A gateway, its client, one or more other DHT nodes and one other member *)
(* of the swarm for TLC.                                                   *)
EXTENDS Swarm

MCHostOf == [a \in Addrs |-> IF a = Me THEN "127.0.0.1" ELSE "10.0.0.2"]
=============================================================================
