----------------------------- MODULE MCKademlia -----------------------------
(* IDs of three bits for TLC: three nodes share a bucket that holds two.   *)
EXTENDS Kademlia

ID(a, b, c) == <<a, b, c>>

MCLocal == ID(0, 0, 0)

MCNodes == {ID(1, 0, 0), ID(1, 0, 1), ID(1, 1, 0), ID(0, 0, 1)}

MCSenders == {ID(1, 0, 0), ID(0, 0, 1), MCLocal}

(* A topic.                                                                *)
MCTargets == {ID(1, 1, 1)}
=============================================================================
