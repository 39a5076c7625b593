---------------------------- MODULE MCIPCServer ----------------------------
(* Two clients and a session for TLC.  The first client sends an append    *)
(* with its key, which authenticates it, or a command without, and may     *)
(* send a second command before the first is answered.  The second client  *)
(* only listens.                                                           *)
EXTENDS IPCServer, TLC

CONSTANTS c1, c2, s1

Cmd(append, listed) == [append |-> append, listed |-> listed]

MCSends == (c1 :> <<{Cmd(TRUE, TRUE), Cmd(FALSE, FALSE)}, {Cmd(FALSE, FALSE)}>>) @@ (c2 :> << >>)
=============================================================================
