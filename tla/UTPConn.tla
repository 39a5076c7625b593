------------------------------ MODULE UTPConn ------------------------------
(***************************************************************************)
(* One uTP connection of pkg/utp: the UTPConn that DialUTP makes, the one  *)
(* that the other gateway's SocketMux makes when the SYN arrives, the two  *)
(* multiplexers' read loops, and the UDP network between them.             *)
(*                                                                         *)
(* The network is external: it may lose, reorder and (Duplicates) repeat   *)
(* packets.  The goroutines at an end are the run loop, one writer in      *)
(* Write, one reader in Read, and the callers of Close.  A channel of Go   *)
(* is a bounded sequence; a send in a select with a default is dropped     *)
(* when the sequence is full.  A second close(closeChan) panics: the       *)
(* process of that end is gone, and Alive is false for it from then on.    *)
(***************************************************************************)
EXTENDS Naturals, Sequences, FiniteSets

CONSTANTS
  Writers,     \* the ends that call Write
  Readers,     \* the ends that call Read
  Closers,     \* Closers[x]: the goroutines that call Close at end x
  Duplicates,  \* whether the network may deliver a packet more than once
  Deadlines,   \* whether a write deadline is set on the connection
  MayStop,     \* the ends whose SocketMux may be stopped
  AcceptSeqs,  \* the random first sequence numbers of the accepting end: the last
               \* of all, 65535, is never drawn
  SeqMod,      \* sequence numbers wrap here: 2^16 in the code
  BufCap,      \* capacity of readBuf and of ackChan: 100 in the code
  QueueCap,    \* capacity of readQueue: 100 in the code
  MaxWrite,    \* bound: chunks of 1400 bytes in one call of Write
  MaxChunks,   \* bound: chunks written at an end in all
  MaxReads     \* bound: payloads that Read returns at an end

Ends == {"dialer", "acceptor"}

Other(x) == IF x = "dialer" THEN "acceptor" ELSE "dialer"

ASSUME UTPAssumption ==
  /\ Writers \subseteq Ends
  /\ Readers \subseteq Ends
  /\ MayStop \subseteq Ends
  /\ DOMAIN Closers = Ends
  /\ \A x \in Ends : IsFiniteSet(Closers[x])
  /\ Duplicates \in BOOLEAN
  /\ Deadlines \in BOOLEAN
  /\ SeqMod \in Nat \ {0, 1}
  /\ AcceptSeqs \subseteq 0 .. (SeqMod - 2)
  /\ {BufCap, QueueCap, MaxWrite, MaxChunks, MaxReads} \subseteq Nat \ {0}

VARIABLES
  state,      \* UTPConn.state; "none" before the conn exists, "failed" after a failed dial
  seq,        \* UTPConn.seq
  reg,        \* reg[x]: the recvID is in the conns of x's mux
  running,    \* running[x]: the goroutine run is alive
  accepted,   \* the acceptor's conn: "no", "queued" in acceptChan, or "taken"
  readBuf,    \* packets from the mux to run
  ackChan,    \* acknowledgment numbers from run to Write
  readQueue,  \* payloads from run to Read
  finAcked,   \* finAcked[x]: the channel of capacity 1 holds a token
  closes,     \* closes[x]: how often closeChan was closed
  writer,     \* where Write stands
  closer,     \* closer[x][k]: where the call of Close by k stands
  up,         \* up[x]: the UDP socket of x's mux is open
  net,        \* net[x]: packets on their way to x
  chunks,     \* chunks[x]: how many chunks x sent so far
  acked,      \* acked[x]: the chunks of x that Write saw acknowledged
  handled,    \* handled[x]: the chunks whose DATA packet run handled at x
  delivered,  \* delivered[x]: the chunks that Read returned at x, in order
  eof         \* eof[x]: Read returned EOF at x

connVars   == <<state, seq, reg, running, accepted, finAcked, closes>>
chanVars   == <<readBuf, ackChan, readQueue>>
threadVars == <<writer, closer>>
ghostVars  == <<chunks, acked, handled, delivered, eof>>
vars == <<connVars, chanVars, threadVars, up, net, ghostVars>>

-----------------------------------------------------------------------------
ST_SYN        == [type |-> "SYN", seq |-> 1]
ST_STATE(a)   == [type |-> "STATE", ack |-> a]
ST_FIN(s)     == [type |-> "FIN", seq |-> s]
ST_DATA(s, c) == [type |-> "DATA", seq |-> s, chunk |-> c]

Seqs == 0 .. (SeqMod - 1)
Nums == 1 .. MaxChunks

Packets ==
  {ST_SYN} \cup {ST_STATE(a) : a \in Seqs} \cup {ST_FIN(s) : s \in Seqs}
           \cup {ST_DATA(s, c) : s \in Seqs, c \in Nums}

(* Where a call of Close stands.                                           *)
Calls == {"idle", "waiting", "returned", "failed"}

IdleWriter == [pc |-> "idle", seq |-> 0, chunk |-> 0, left |-> 0]

WriterStates ==
  [pc : {"idle", "sending", "waiting"}, seq : Seqs, chunk : 0 .. MaxChunks, left : 0 .. MaxWrite]

UTPTypeOK ==
  /\ state \in [Ends -> {"none", "syn_sent", "failed", "connected", "fin_sent", "closed"}]
  /\ seq \in [Ends -> Seqs]
  /\ reg \in [Ends -> BOOLEAN]
  /\ running \in [Ends -> BOOLEAN]
  /\ accepted \in {"no", "queued", "taken"}
  /\ readBuf \in [Ends -> Seq(Packets)]
  /\ ackChan \in [Ends -> Seq(Seqs)]
  /\ readQueue \in [Ends -> Seq(Nums)]
  /\ closer \in [Ends -> UNION {[Closers[x] -> Calls] : x \in Ends}]
  /\ \A x \in Ends :
       /\ Len(readBuf[x]) <= BufCap
       /\ Len(ackChan[x]) <= BufCap
       /\ Len(readQueue[x]) <= QueueCap
       /\ closer[x] \in [Closers[x] -> Calls]
  /\ finAcked \in [Ends -> BOOLEAN]
  /\ closes \in [Ends -> 0 .. 2]
  /\ writer \in [Ends -> WriterStates]
  /\ up \in [Ends -> BOOLEAN]
  /\ net \in [Ends -> SUBSET Packets]
  /\ chunks \in [Ends -> 0 .. MaxChunks]
  /\ acked \in [Ends -> SUBSET Nums]
  /\ handled \in [Ends -> SUBSET Nums]
  /\ delivered \in [Ends -> Seq(Nums)]
  /\ eof \in [Ends -> BOOLEAN]

Init ==
  /\ state = [x \in Ends |-> "none"]
  /\ seq = [x \in Ends |-> 0]
  /\ reg = [x \in Ends |-> FALSE]
  /\ running = [x \in Ends |-> FALSE]
  /\ accepted = "no"
  /\ readBuf = [x \in Ends |-> << >>]
  /\ ackChan = [x \in Ends |-> << >>]
  /\ readQueue = [x \in Ends |-> << >>]
  /\ finAcked = [x \in Ends |-> FALSE]
  /\ closes = [x \in Ends |-> 0]
  /\ writer = [x \in Ends |-> IdleWriter]
  /\ closer = [x \in Ends |-> [k \in Closers[x] |-> "idle"]]
  /\ up = [x \in Ends |-> TRUE]
  /\ net = [x \in Ends |-> {}]
  /\ chunks = [x \in Ends |-> 0]
  /\ acked = [x \in Ends |-> {}]
  /\ handled = [x \in Ends |-> {}]
  /\ delivered = [x \in Ends |-> << >>]
  /\ eof = [x \in Ends |-> FALSE]

-----------------------------------------------------------------------------
Alive(x) == closes[x] < 2

(* The conn is in the hands of its user: returned by DialUTP or by Accept. *)
InUse(x) ==
  /\ Alive(x)
  /\ state[x] \in {"connected", "fin_sent", "closed"}
  /\ x = "acceptor" => accepted = "taken"

(* mux.conn.WriteTo from end x; lost when the socket is closed.            *)
Sent(x, p) == IF up[x] THEN [net EXCEPT ![Other(x)] = @ \cup {p}] ELSE net

(* Mutant: the channel has no bound. *)
OfferUnbounded(q, e, cap) == Append(q, e)

(* A send in a select with a default.                                      *)
Offer(q, e, cap) == IF Len(q) < cap THEN Append(q, e) ELSE q

(* DialUTP registers the receive ID and sends the SYN, once; on a closed   *)
(* socket the dial has failed already.                                     *)
Dial ==
  /\ state["dialer"] = "none"
  /\ state' = [state EXCEPT !["dialer"] = IF up["dialer"] THEN "syn_sent" ELSE "failed"]
  /\ seq' = [seq EXCEPT !["dialer"] = 1]
  /\ reg' = [reg EXCEPT !["dialer"] = up["dialer"]]
  /\ net' = Sent("dialer", ST_SYN)
  /\ UNCHANGED <<running, accepted, finAcked, closes, chanVars, threadVars, up, ghostVars>>

(* DialUTP waits for one packet: the acknowledgment of the SYN connects,   *)
(* anything else gives up like the timeout.                                *)
DialAnswered ==
  /\ state["dialer"] = "syn_sent"
  /\ readBuf["dialer"] # << >>
  /\ readBuf' = [readBuf EXCEPT !["dialer"] = Tail(@)]
  /\ LET ok == Head(readBuf["dialer"]) = ST_STATE(seq["dialer"]) IN
     /\ state' = [state EXCEPT !["dialer"] = IF ok THEN "connected" ELSE "failed"]
     /\ running' = [running EXCEPT !["dialer"] = ok]
     /\ reg' = [reg EXCEPT !["dialer"] = ok]
  /\ UNCHANGED <<seq, accepted, finAcked, closes, ackChan, readQueue, threadVars, up, net,
                 ghostVars>>

DialTimeout ==
  /\ state["dialer"] = "syn_sent"
  /\ state' = [state EXCEPT !["dialer"] = "failed"]
  /\ reg' = [reg EXCEPT !["dialer"] = FALSE]
  /\ UNCHANGED <<seq, running, accepted, finAcked, closes, chanVars, threadVars, up, net,
                 ghostVars>>

(* Accept takes the conn out of acceptChan.                                *)
Accept ==
  /\ Alive("acceptor")
  /\ accepted = "queued"
  /\ accepted' = "taken"
  /\ UNCHANGED <<state, seq, reg, running, finAcked, closes, chanVars, threadVars, up, net,
                 ghostVars>>
-----------------------------------------------------------------------------
(* What is left for x once the network has delivered p.                    *)
Rest(x, p) == {net[x] \ {p}} \cup (IF Duplicates THEN {net[x]} ELSE {})

Lose(x) ==
  /\ \E p \in net[x] : net' = [net EXCEPT ![x] = @ \ {p}]
  /\ UNCHANGED <<connVars, chanVars, threadVars, up, ghostVars>>

(* readLoop of the mux passes a packet of a registered conn on; it is      *)
(* dropped when readBuf is full.                                           *)
MuxDeliver(x, p) ==
  /\ Alive(x) /\ up[x] /\ reg[x]
  /\ p \in net[x]
  /\ \E rest \in Rest(x, p) : net' = [net EXCEPT ![x] = rest]
  /\ readBuf' = [readBuf EXCEPT ![x] = Offer(@, p, BufCap)]
  /\ UNCHANGED <<connVars, ackChan, readQueue, threadVars, up, ghostVars>>

(* readLoop makes a conn for a SYN with an unknown ID: connected at once,  *)
(* registered and running, whether or not acceptChan has room for it.      *)
(* Bound: the mux makes one conn.                                          *)
MuxAccept ==
  /\ state["acceptor"] = "none"
  /\ up["acceptor"]
  /\ ST_SYN \in net["acceptor"]
  /\ state' = [state EXCEPT !["acceptor"] = "connected"]
  /\ \E r \in AcceptSeqs : seq' = [seq EXCEPT !["acceptor"] = r]
  /\ reg' = [reg EXCEPT !["acceptor"] = TRUE]
  /\ running' = [running EXCEPT !["acceptor"] = TRUE]
  /\ accepted' \in {"queued", "no"}
  /\ \E rest \in Rest("acceptor", ST_SYN) :
       net' = [Sent("acceptor", ST_STATE(ST_SYN.seq)) EXCEPT !["acceptor"] = rest]
  /\ UNCHANGED <<finAcked, closes, chanVars, threadVars, up, ghostVars>>

(* A packet for a conn that is not registered any more is dropped.         *)
MuxDrop(x, p) ==
  /\ Alive(x) /\ up[x] /\ ~reg[x]
  /\ p \in net[x]
  /\ ~(p = ST_SYN /\ state[x] = "none")
  /\ net' = [net EXCEPT ![x] = @ \ {p}]
  /\ UNCHANGED <<connVars, chanVars, threadVars, up, ghostVars>>

-----------------------------------------------------------------------------
(* handlePacket, by packet type, with the lock held.  Nothing asks whether *)
(* closeChan is closed already.                                            *)
HandleFin(x, p) ==
  /\ p.type = "FIN"
  /\ net' = Sent(x, ST_STATE(p.seq))
  /\ state' = [state EXCEPT ![x] = "closed"]
  /\ reg' = [reg EXCEPT ![x] = FALSE]
  /\ closes' = [closes EXCEPT ![x] = @ + 1]
  /\ UNCHANGED <<finAcked, ackChan, readQueue, handled>>

HandleFinAck(x, p) ==
  /\ p.type = "STATE"
  /\ state[x] = "fin_sent" /\ p.ack = seq[x]
  /\ state' = [state EXCEPT ![x] = "closed"]
  /\ reg' = [reg EXCEPT ![x] = FALSE]
  /\ finAcked' = [finAcked EXCEPT ![x] = TRUE]
  /\ closes' = [closes EXCEPT ![x] = @ + 1]
  /\ UNCHANGED <<net, ackChan, readQueue, handled>>

HandleAck(x, p) ==
  /\ p.type = "STATE"
  /\ ~(state[x] = "fin_sent" /\ p.ack = seq[x])
  /\ ackChan' = [ackChan EXCEPT ![x] = Offer(@, p.ack, BufCap)]
  /\ UNCHANGED <<net, state, reg, finAcked, closes, readQueue, handled>>

(* Data is acknowledged before it is offered to the reader, and whether or *)
(* not readQueue has room for it.                                          *)
HandleData(x, p) ==
  /\ p.type = "DATA"
  /\ net' = Sent(x, ST_STATE(p.seq))
  /\ readQueue' = [readQueue EXCEPT ![x] = Offer(@, p.chunk, QueueCap)]
  /\ handled' = [handled EXCEPT ![x] = @ \cup {p.chunk}]
  /\ UNCHANGED <<state, reg, finAcked, closes, ackChan>>

(* A second SYN falls through the switch.                                  *)
HandleSyn(x, p) ==
  /\ p.type = "SYN"
  /\ UNCHANGED <<net, state, reg, finAcked, closes, ackChan, readQueue, handled>>

(* run takes a packet from readBuf; with closeChan closed too, select may  *)
(* still choose the packet.                                                *)
HandlePacket(x) ==
  /\ Alive(x) /\ running[x]
  /\ readBuf[x] # << >>
  /\ readBuf' = [readBuf EXCEPT ![x] = Tail(@)]
  /\ LET p == Head(readBuf[x]) IN
     HandleFin(x, p) \/ HandleFinAck(x, p) \/ HandleAck(x, p) \/ HandleData(x, p) \/ HandleSyn(x, p)
  /\ UNCHANGED <<seq, running, accepted, threadVars, up, chunks, acked, delivered, eof>>

RunReturns(x) ==
  /\ Alive(x) /\ running[x]
  /\ closes[x] > 0
  /\ running' = [running EXCEPT ![x] = FALSE]
  /\ UNCHANGED <<state, seq, reg, accepted, finAcked, closes, chanVars, threadVars, up, net,
                 ghostVars>>

-----------------------------------------------------------------------------
(* Read returns a payload; or EOF, once closeChan is closed, even with     *)
(* payloads in readQueue.                                                  *)
ReadPayload(x) ==
  /\ InUse(x) /\ x \in Readers /\ ~eof[x]
  /\ readQueue[x] # << >>
  /\ Len(delivered[x]) < MaxReads
  /\ delivered' = [delivered EXCEPT ![x] = Append(@, Head(readQueue[x]))]
  /\ readQueue' = [readQueue EXCEPT ![x] = Tail(@)]
  /\ UNCHANGED <<connVars, readBuf, ackChan, threadVars, up, net, chunks, acked, handled, eof>>

ReadEOF(x) ==
  /\ InUse(x) /\ x \in Readers /\ ~eof[x]
  /\ closes[x] > 0
  /\ eof' = [eof EXCEPT ![x] = TRUE]
  /\ UNCHANGED <<connVars, chanVars, threadVars, up, net, chunks, acked, handled, delivered>>

-----------------------------------------------------------------------------
(* Write looks at the state once, before its k chunks.                     *)
Write(x) ==
  /\ InUse(x) /\ x \in Writers
  /\ writer[x].pc = "idle"
  /\ state[x] = "connected"
  /\ \E k \in 1 .. MaxWrite :
       /\ chunks[x] + k <= MaxChunks
       /\ writer' = [writer EXCEPT ![x] = [IdleWriter EXCEPT !.pc = "sending", !.left = k]]
  /\ UNCHANGED <<connVars, chanVars, closer, up, net, ghostVars>>

(* The loop of Write starts its next chunk: a new sequence number, and the *)
(* first transmission.  WriteTo fails on a closed socket.                  *)
SendChunk(x) ==
  LET s == (seq[x] + 1) % SeqMod
      c == chunks[x] + 1
  IN  /\ Alive(x)
      /\ writer[x].pc = "sending"
      /\ seq' = [seq EXCEPT ![x] = s]
      /\ chunks' = [chunks EXCEPT ![x] = c]
      /\ net' = Sent(x, ST_DATA(s, c))
      /\ writer' = [writer EXCEPT ![x] =
                      IF up[x] THEN [pc |-> "waiting", seq |-> s, chunk |-> c, left |-> @.left - 1]
                               ELSE IdleWriter]
      /\ UNCHANGED <<state, reg, running, accepted, finAcked, closes, chanVars, closer, up, acked,
                     handled, delivered, eof>>

Retransmit(x) ==
  /\ net' = Sent(x, ST_DATA(writer[x].seq, writer[x].chunk))
  /\ writer' = IF up[x] THEN writer ELSE [writer EXCEPT ![x] = IdleWriter]

Waiting(x) == Alive(x) /\ writer[x].pc = "waiting"

(* The chunk is through: the loop goes on, or Write returns.               *)
ChunkDone(x) ==
  /\ acked' = [acked EXCEPT ![x] = @ \cup {writer[x].chunk}]
  /\ writer' = [writer EXCEPT ![x] =
                  IF @.left > 0 THEN [IdleWriter EXCEPT !.pc = "sending", !.left = writer[x].left]
                                ELSE IdleWriter]
  /\ UNCHANGED net

(* Mutant: any acknowledgment completes the chunk. *)
WriteAckedByAny(x) ==
  /\ Waiting(x)
  /\ ackChan[x] # << >>
  /\ ackChan' = [ackChan EXCEPT ![x] = Tail(@)]
  /\ ChunkDone(x)
  /\ UNCHANGED <<connVars, readBuf, readQueue, closer, up, chunks, handled, delivered, eof>>

(* Mutant: acknowledgments are taken as cumulative, and compared as numbers *)
(* that never wrap.                                                        *)
WriteAckedByLater(x) ==
  /\ Waiting(x)
  /\ ackChan[x] # << >>
  /\ ackChan' = [ackChan EXCEPT ![x] = Tail(@)]
  /\ \/ Head(ackChan[x]) >= writer[x].seq /\ ChunkDone(x)
     \/ Head(ackChan[x]) < writer[x].seq /\ Retransmit(x) /\ UNCHANGED acked
  /\ UNCHANGED <<connVars, readBuf, readQueue, closer, up, chunks, handled, delivered, eof>>

(* The acknowledgment of the chunk ends the wait; any other number repeats *)
(* the transmission.                                                       *)
WriteAcked(x) ==
  /\ Waiting(x)
  /\ ackChan[x] # << >>
  /\ ackChan' = [ackChan EXCEPT ![x] = Tail(@)]
  /\ \/ Head(ackChan[x]) = writer[x].seq /\ ChunkDone(x)
     \/ Head(ackChan[x]) # writer[x].seq /\ Retransmit(x) /\ UNCHANGED acked
  /\ UNCHANGED <<connVars, readBuf, readQueue, closer, up, chunks, handled, delivered, eof>>

(* Mutant: the timer gives the chunk up and the loop goes on to the next. *)
WriteTimeoutSkips(x) ==
  /\ Waiting(x)
  /\ writer' = [writer EXCEPT ![x] = [IdleWriter EXCEPT
                  !.pc = IF writer[x].left > 0 THEN "sending" ELSE "idle",
                  !.left = writer[x].left]]
  /\ UNCHANGED <<connVars, chanVars, closer, up, net, ghostVars>>

(* Mutant: the timer keeps waiting and sends nothing. *)
WriteTimeoutSilent(x) ==
  /\ Waiting(x)
  /\ state[x] = "closed"
  /\ writer' = [writer EXCEPT ![x] = IdleWriter]
  /\ UNCHANGED <<connVars, chanVars, closer, up, net, ghostVars>>

(* No acknowledgment for 100 ms.                                           *)
WriteTimeout(x) ==
  /\ Waiting(x)
  /\ IF state[x] = "closed"
     THEN writer' = [writer EXCEPT ![x] = IdleWriter] /\ UNCHANGED net
     ELSE Retransmit(x)
  /\ UNCHANGED <<connVars, chanVars, closer, up, ghostVars>>

WriteDeadline(x) ==
  /\ Deadlines
  /\ Waiting(x)
  /\ writer' = [writer EXCEPT ![x] = IdleWriter]
  /\ UNCHANGED <<connVars, chanVars, closer, up, net, ghostVars>>

-----------------------------------------------------------------------------
(* Mutant: Close does not look at the state. *)
CloseAlways(x, k) ==
  LET s == (seq[x] + 1) % SeqMod IN
  /\ InUse(x)
  /\ closer[x][k] = "idle"
  /\ state' = [state EXCEPT ![x] = "fin_sent"]
  /\ seq' = [seq EXCEPT ![x] = s]
  /\ net' = Sent(x, ST_FIN(s))
  /\ closer' = [closer EXCEPT ![x][k] = IF up[x] THEN "waiting" ELSE "failed"]
  /\ UNCHANGED <<reg, running, accepted, finAcked, closes, chanVars, writer, up, ghostVars>>

(* Close of a conn that is not CLOSED: FIN_SENT, a sequence number more,   *)
(* and one FIN.  On a closed socket WriteTo fails and Close returns with   *)
(* the conn in FIN_SENT, registered.                                       *)
Close(x, k) ==
  LET s == (seq[x] + 1) % SeqMod IN
  /\ InUse(x)
  /\ closer[x][k] = "idle"
  /\ IF state[x] = "closed"
     THEN /\ closer' = [closer EXCEPT ![x][k] = "returned"]
          /\ UNCHANGED <<state, seq, net>>
     ELSE /\ state' = [state EXCEPT ![x] = "fin_sent"]
          /\ seq' = [seq EXCEPT ![x] = s]
          /\ net' = Sent(x, ST_FIN(s))
          /\ closer' = [closer EXCEPT ![x][k] = IF up[x] THEN "waiting" ELSE "failed"]
  /\ UNCHANGED <<reg, running, accepted, finAcked, closes, chanVars, writer, up, ghostVars>>

CloseAcked(x, k) ==
  /\ Alive(x)
  /\ closer[x][k] = "waiting"
  /\ finAcked[x]
  /\ finAcked' = [finAcked EXCEPT ![x] = FALSE]
  /\ closer' = [closer EXCEPT ![x][k] = "returned"]
  /\ UNCHANGED <<state, seq, reg, running, accepted, closes, chanVars, writer, up, net, ghostVars>>

(* Mutant: the forced close leaves the ID registered. *)
CloseTimeoutKeepsID(x, k) ==
  /\ Alive(x)
  /\ closer[x][k] = "waiting"
  /\ closer' = [closer EXCEPT ![x][k] = "returned"]
  /\ IF state[x] # "closed"
     THEN /\ state' = [state EXCEPT ![x] = "closed"]
          /\ closes' = [closes EXCEPT ![x] = @ + 1]
     ELSE UNCHANGED <<state, closes>>
  /\ UNCHANGED <<seq, reg, running, accepted, finAcked, chanVars, writer, up, net, ghostVars>>

(* Mutant: the forced close does not ask whether the conn is CLOSED already. *)
CloseTimeoutForces(x, k) ==
  /\ Alive(x)
  /\ closer[x][k] = "waiting"
  /\ closer' = [closer EXCEPT ![x][k] = "returned"]
  /\ state' = [state EXCEPT ![x] = "closed"]
  /\ reg' = [reg EXCEPT ![x] = FALSE]
  /\ closes' = [closes EXCEPT ![x] = @ + 1]
  /\ UNCHANGED <<seq, running, accepted, finAcked, chanVars, writer, up, net, ghostVars>>

(* No acknowledgment for a second: the conn is closed here if nothing else *)
(* closed it.                                                              *)
CloseTimeout(x, k) ==
  /\ Alive(x)
  /\ closer[x][k] = "waiting"
  /\ closer' = [closer EXCEPT ![x][k] = "returned"]
  /\ IF state[x] # "closed"
     THEN /\ state' = [state EXCEPT ![x] = "closed"]
          /\ reg' = [reg EXCEPT ![x] = FALSE]
          /\ closes' = [closes EXCEPT ![x] = @ + 1]
     ELSE UNCHANGED <<state, reg, closes>>
  /\ UNCHANGED <<seq, running, accepted, finAcked, chanVars, writer, up, net, ghostVars>>

(* SocketMux.Stop closes the UDP socket.                                   *)
MuxStop(x) ==
  /\ x \in MayStop
  /\ Alive(x) /\ up[x]
  /\ up' = [up EXCEPT ![x] = FALSE]
  /\ UNCHANGED <<connVars, chanVars, threadVars, net, ghostVars>>

Next ==
  \/ Dial \/ DialAnswered \/ DialTimeout \/ MuxAccept \/ Accept
  \/ \E x \in Ends :
       \/ Lose(x) \/ HandlePacket(x) \/ RunReturns(x) \/ ReadPayload(x) \/ ReadEOF(x)
       \/ Write(x) \/ SendChunk(x) \/ WriteAcked(x) \/ WriteTimeout(x) \/ WriteDeadline(x) \/ MuxStop(x)
       \/ \E p \in net[x] : MuxDeliver(x, p) \/ MuxDrop(x, p)
       \/ \E k \in Closers[x] : Close(x, k) \/ CloseAcked(x, k) \/ CloseTimeout(x, k)

Spec == Init /\ [][Next]_vars
(* The goroutines run and their timers fire.  The network may lose any     *)
(* packet, but not every packet of a type that is sent again and again.    *)
DeliverType(x, type) == \E p \in net[x] : p.type = type /\ MuxDeliver(x, p)

Fairness ==
  \A x \in Ends :
    /\ WF_vars(HandlePacket(x))
    /\ WF_vars(SendChunk(x))
    /\ WF_vars(WriteAcked(x))
    /\ WF_vars(WriteTimeout(x))
    /\ SF_vars(DeliverType(x, "DATA"))
    /\ SF_vars(DeliverType(x, "STATE"))

FairSpec == Spec /\ Fairness

-----------------------------------------------------------------------------
(***************************************************************************)
(* A chunk for which Write saw an acknowledgment was handled by the other  *)
(* end's run loop: no stale, repeated or reordered acknowledgment, the one *)
(* of the SYN and those of a FIN included, completes a Write.              *)
(***************************************************************************)
AckedWasHandled == \A x \in Ends : acked[x] \subseteq handled[Other(x)]

(***************************************************************************)
(* Without write deadlines the chunks handled at an end leave no gap: a    *)
(* chunk arrives only after every chunk written before it has, whatever    *)
(* is lost, reordered or repeated, and although the connection may close   *)
(* in the middle of a Write.                                               *)
(***************************************************************************)
HandledWithoutGaps ==
  \A x \in Ends : \A c \in handled[x] : 1 .. c \subseteq handled[x]

(***************************************************************************)
(* CLOSED is the state in which everything is released: closeChan is       *)
(* closed exactly in it, and the ID is registered in no other end state.   *)
(* Whichever of FIN, FIN acknowledgment and the timers of concurrent Close *)
(* calls comes first.                                                      *)
(***************************************************************************)
ReleasedWhenClosed ==
  \A x \in Ends :
    /\ state[x] = "closed" <=> closes[x] > 0
    /\ reg[x] <=> state[x] \in {"syn_sent", "connected", "fin_sent"}

(***************************************************************************)
(* A connection that is CLOSED stays CLOSED: no Close, Write or late       *)
(* packet brings it back.                                                  *)
(***************************************************************************)
ClosedIsFinal ==
  [][\A x \in Ends : state[x] = "closed" => state'[x] = "closed"]_vars

(***************************************************************************)
(* A Write returns although packets are lost, as long as nobody closes and *)
(* the network delivers some of what is sent again and again.              *)
(***************************************************************************)
WriteReturns ==
  \A x \in Ends : writer[x].pc # "idle" ~> writer[x].pc = "idle"

(***************************************************************************)
(* What Read returns is the stream that was written: every chunk once, in  *)
(* order.                                                                  *)
(***************************************************************************)
StreamInOrder ==
  \A x \in Ends : \A i \in 1 .. Len(delivered[x]) : delivered[x][i] = i

(***************************************************************************)
(* One call of Close never panics, whatever is lost or late: closeChan is  *)
(* closed a second time only when Close was called twice, at one end or at *)
(* both.  handlePacket (conn.go:145) closes it for a FIN without asking    *)
(* whether the conn is CLOSED already, so two calls may.                   *)
(***************************************************************************)
PanicNeedsTwoCloses ==
  (\E x \in Ends : ~Alive(x)) =>
    \E x, y \in Ends : \E k \in Closers[x], l \in Closers[y] :
      /\ <<x, k>> # <<y, l>>
      /\ closer[x][k] # "idle"
      /\ closer[y][l] # "idle"
=============================================================================
