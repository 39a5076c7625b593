--------------------------- MODULE UTPConnProofs ---------------------------
(* Proofs about module UTPConn, for every number of closing goroutines,    *)
(* every capacity of the channels and every bound on what is written.      *)
EXTENDS UTPConn, SequenceTheorems, FiniteSetTheorems, TLAPS

(* A Write that is under way has a chunk left to send, or waits for one    *)
(* that it has sent, and stays within the bound.                           *)
WriterBounded ==
  \A x \in Ends :
    /\ writer[x].pc = "sending" => writer[x].left > 0
    /\ writer[x].pc # "idle" => chunks[x] + writer[x].left <= MaxChunks
    /\ writer[x].pc = "waiting" => writer[x].chunk \in Nums

-----------------------------------------------------------------------------
(* Packets, channels and the network *)

(* The two ends of the connection.                                         *)
LEMMA OtherEnd ==
  ASSUME NEW x \in Ends
  PROVE  Other(x) \in Ends /\ Other(x) # x /\ Other(Other(x)) = x
  BY DEF Ends, Other

(* The sizes that the assumptions fix.                                     *)
LEMMA Sizes ==
  /\ SeqMod \in Nat /\ SeqMod > 1
  /\ BufCap \in Nat /\ QueueCap \in Nat /\ MaxWrite \in Nat /\ MaxChunks \in Nat /\ MaxReads \in Nat
  /\ BufCap > 0 /\ QueueCap > 0 /\ MaxWrite > 0 /\ MaxChunks > 0 /\ MaxReads > 0
  /\ 0 \in Seqs /\ 1 \in Seqs /\ AcceptSeqs \subseteq Seqs
  BY UTPAssumption DEF Seqs

(* The packets that the code makes are packets.                            *)
LEMMA PacketsMade ==
  /\ ST_SYN \in Packets
  /\ \A s \in Seqs : ST_STATE(s) \in Packets /\ ST_FIN(s) \in Packets
  /\ \A s \in Seqs, c \in Nums : ST_DATA(s, c) \in Packets
  BY DEF Packets

(* A packet has the fields of its type.                                    *)
LEMMA PacketFields ==
  ASSUME NEW p \in Packets
  PROVE  /\ p.type \in {"SYN", "STATE", "FIN", "DATA"}
         /\ p.type = "SYN" => p = ST_SYN
         /\ p.type = "STATE" => p.ack \in Seqs /\ p = ST_STATE(p.ack)
         /\ p.type = "FIN" => p.seq \in Seqs /\ p = ST_FIN(p.seq)
         /\ p.type = "DATA" => p.seq \in Seqs /\ p.chunk \in Nums /\ p = ST_DATA(p.seq, p.chunk)
<1>1. CASE p = ST_SYN
  BY <1>1 DEF ST_SYN
<1>2. ASSUME NEW s \in Seqs, p = ST_STATE(s) PROVE p.type = "STATE" /\ p.ack = s
  BY <1>2 DEF ST_STATE
<1>3. ASSUME NEW s \in Seqs, p = ST_FIN(s) PROVE p.type = "FIN" /\ p.seq = s
  BY <1>3 DEF ST_FIN
<1>4. ASSUME NEW s \in Seqs, NEW c \in Nums, p = ST_DATA(s, c)
      PROVE  p.type = "DATA" /\ p.seq = s /\ p.chunk = c
  BY <1>4 DEF ST_DATA
<1>5. \/ p = ST_SYN
      \/ \E s \in Seqs : p = ST_STATE(s)
      \/ \E s \in Seqs : p = ST_FIN(s)
      \/ \E s \in Seqs, c \in Nums : p = ST_DATA(s, c)
  BY DEF Packets
<1> QED
  BY <1>1, <1>2, <1>3, <1>4, <1>5

(* Sending adds one packet for the other end, or nothing.                  *)
LEMMA SentType ==
  ASSUME net \in [Ends -> SUBSET Packets], NEW x \in Ends, NEW p \in Packets
  PROVE  /\ Sent(x, p) \in [Ends -> SUBSET Packets]
         /\ Sent(x, p)[x] = net[x]
         /\ Sent(x, p)[Other(x)] \subseteq net[Other(x)] \cup {p}
  BY OtherEnd DEF Sent

(* A send in a select with a default keeps to the capacity.                *)
LEMMA OfferType ==
  ASSUME NEW S, NEW q \in Seq(S), NEW e \in S, NEW cap \in Nat, Len(q) <= cap
  PROVE  Offer(q, e, cap) \in Seq(S) /\ Len(Offer(q, e, cap)) <= cap
<1>1. /\ Append(q, e) \in Seq(S) /\ Len(Append(q, e)) = Len(q) + 1
      /\ Len(q) \in Nat
  BY AppendProperties, LenProperties
<1> QED
  BY <1>1 DEF Offer

(* Taking the first element out of a channel.                              *)
LEMMA TakeType ==
  ASSUME NEW S, NEW q \in Seq(S), q # << >>, NEW cap \in Nat, Len(q) <= cap
  PROVE  Head(q) \in S /\ Tail(q) \in Seq(S) /\ Len(Tail(q)) <= cap
<1>1. Head(q) \in S /\ Tail(q) \in Seq(S) /\ Len(Tail(q)) = Len(q) - 1 /\ Len(q) \in Nat
  BY HeadTailProperties, LenProperties
<1> QED
  BY <1>1

(* The writers' states.                                                    *)
LEMMA IdleWriterType ==
  /\ IdleWriter \in WriterStates /\ IdleWriter.pc = "idle"
  /\ \A k \in 1 .. MaxWrite :
       LET w == [IdleWriter EXCEPT !.pc = "sending", !.left = k] IN
       w \in WriterStates /\ w.pc = "sending" /\ w.left = k
<1>1. IdleWriter \in WriterStates /\ IdleWriter.pc = "idle"
  BY Sizes DEF IdleWriter, WriterStates
<1>2. ASSUME NEW k \in 1 .. MaxWrite, NEW w, w = [IdleWriter EXCEPT !.pc = "sending", !.left = k]
      PROVE  w \in WriterStates /\ w.pc = "sending" /\ w.left = k
  <2>1. w = [pc |-> "sending", seq |-> 0, chunk |-> 0, left |-> k]
    BY <1>2 DEF IdleWriter
  <2> QED
    BY <2>1, Sizes DEF WriterStates
<1> QED
  BY <1>1, <1>2

-----------------------------------------------------------------------------
(* Types *)

(* The types hold at the start.                                            *)
LEMMA UTPTypeInit == Init => UTPTypeOK /\ WriterBounded
<1> SUFFICES ASSUME Init PROVE UTPTypeOK /\ WriterBounded
  OBVIOUS
<1>1. /\ readBuf \in [Ends -> Seq(Packets)]
      /\ ackChan \in [Ends -> Seq(Seqs)]
      /\ readQueue \in [Ends -> Seq(Nums)]
      /\ delivered \in [Ends -> Seq(Nums)]
      /\ \A x \in Ends : Len(readBuf[x]) = 0 /\ Len(ackChan[x]) = 0 /\ Len(readQueue[x]) = 0
  BY EmptySeq DEF Init
<1>2. \A x \in Ends : closer[x] \in [Closers[x] -> Calls]
  BY DEF Init, Calls
<1>3. closer \in [Ends -> UNION {[Closers[x] -> Calls] : x \in Ends}]
  BY <1>2 DEF Init
<1>4. writer \in [Ends -> WriterStates] /\ WriterBounded
  BY IdleWriterType DEF Init, WriterBounded
<1> QED
  BY <1>1, <1>2, <1>3, <1>4, Sizes DEF Init, UTPTypeOK

(* What the type invariant says of one end's channels and threads.         *)
LEMMA EndTypes ==
  ASSUME UTPTypeOK, NEW x \in Ends
  PROVE  /\ state[x] \in {"none", "syn_sent", "failed", "connected", "fin_sent", "closed"}
         /\ seq[x] \in Seqs
         /\ reg[x] \in BOOLEAN /\ running[x] \in BOOLEAN /\ finAcked[x] \in BOOLEAN
         /\ up[x] \in BOOLEAN /\ eof[x] \in BOOLEAN
         /\ readBuf[x] \in Seq(Packets) /\ Len(readBuf[x]) <= BufCap
         /\ ackChan[x] \in Seq(Seqs) /\ Len(ackChan[x]) <= BufCap
         /\ readQueue[x] \in Seq(Nums) /\ Len(readQueue[x]) <= QueueCap
         /\ closer[x] \in [Closers[x] -> Calls]
         /\ closes[x] \in 0 .. 2
         /\ writer[x] \in WriterStates
         /\ net[x] \subseteq Packets
         /\ chunks[x] \in 0 .. MaxChunks
         /\ acked[x] \subseteq Nums /\ handled[x] \subseteq Nums
         /\ delivered[x] \in Seq(Nums)
  BY DEF UTPTypeOK

(* The next sequence number.                                               *)
LEMMA NextSeq ==
  ASSUME NEW s \in Seqs
  PROVE  (s + 1) % SeqMod \in Seqs /\ (s + 1) % SeqMod = IF s + 1 = SeqMod THEN 0 ELSE s + 1
<1>1. s \in Nat /\ s < SeqMod
  BY Sizes DEF Seqs
<1>2. CASE s + 1 = SeqMod
  BY <1>1, <1>2, Sizes DEF Seqs
<1>3. CASE s + 1 # SeqMod
  <2>1. s + 1 \in 0 .. SeqMod - 1
    BY <1>1, <1>3, Sizes
  <2>2. (s + 1) % SeqMod = s + 1
    BY <2>1, Sizes
  <2> QED
    BY <1>3, <2>1, <2>2 DEF Seqs
<1> QED
  BY <1>2, <1>3

USE DEF connVars, chanVars, threadVars, ghostVars

(* Setting up the connection keeps the types.                              *)
LEMMA SetupType ==
  ASSUME UTPTypeOK, WriterBounded,
         Dial \/ DialAnswered \/ DialTimeout \/ Accept \/ MuxAccept
  PROVE  UTPTypeOK' /\ WriterBounded'
<1>a. "dialer" \in Ends /\ "acceptor" \in Ends
  BY DEF Ends
<1>1. WriterBounded'
  BY DEF Dial, DialAnswered, DialTimeout, Accept, MuxAccept, WriterBounded
<1>2. CASE Dial
  <2>1. net' \in [Ends -> SUBSET Packets]
    BY <1>2, <1>a, PacketsMade, SentType DEF Dial, UTPTypeOK
  <2>2. /\ state' \in [Ends -> {"none", "syn_sent", "failed", "connected", "fin_sent", "closed"}]
        /\ seq' \in [Ends -> Seqs]
        /\ reg' \in [Ends -> BOOLEAN]
    BY <1>2, Sizes DEF Dial, UTPTypeOK
  <2> QED
    BY <1>1, <1>2, <2>1, <2>2 DEF Dial, UTPTypeOK
<1>3. CASE DialAnswered
  <2>1. readBuf' \in [Ends -> Seq(Packets)] /\ \A x \in Ends : Len(readBuf'[x]) <= BufCap
    BY <1>3, <1>a, TakeType, Sizes DEF DialAnswered, UTPTypeOK
  <2>2. /\ state' \in [Ends -> {"none", "syn_sent", "failed", "connected", "fin_sent", "closed"}]
        /\ running' \in [Ends -> BOOLEAN]
        /\ reg' \in [Ends -> BOOLEAN]
    BY <1>3 DEF DialAnswered, UTPTypeOK
  <2> QED
    BY <1>1, <1>3, <2>1, <2>2 DEF DialAnswered, UTPTypeOK
<1>4. CASE DialTimeout
  BY <1>1, <1>4 DEF DialTimeout, UTPTypeOK
<1>5. CASE Accept
  BY <1>1, <1>5 DEF Accept, UTPTypeOK
<1>6. CASE MuxAccept
  <2>1. ST_STATE(ST_SYN.seq) \in Packets
    BY PacketsMade, Sizes DEF ST_SYN
  <2>2. \A rest \in Rest("acceptor", ST_SYN) : rest \subseteq Packets
    BY <1>a, EndTypes DEF Rest
  <2>3. net' \in [Ends -> SUBSET Packets]
    <3> DEFINE sent == Sent("acceptor", ST_STATE(ST_SYN.seq))
    <3>1. sent \in [Ends -> SUBSET Packets]
      BY <1>a, <2>1, SentType DEF UTPTypeOK
    <3> HIDE DEF sent
    <3> PICK rest \in Rest("acceptor", ST_SYN) : net' = [sent EXCEPT !["acceptor"] = rest]
      BY <1>6 DEF MuxAccept, sent
    <3> QED
      BY <2>2, <3>1
  <2>4. seq' \in [Ends -> Seqs]
    <3>1. \E first \in Seqs : seq' = [seq EXCEPT !["acceptor"] = first]
      BY <1>6, Sizes DEF MuxAccept
    <3> QED
      BY <1>a, <3>1 DEF UTPTypeOK
  <2>5. /\ state' \in [Ends -> {"none", "syn_sent", "failed", "connected", "fin_sent", "closed"}]
        /\ running' \in [Ends -> BOOLEAN]
        /\ reg' \in [Ends -> BOOLEAN]
        /\ accepted' \in {"no", "queued", "taken"}
    BY <1>6 DEF MuxAccept, UTPTypeOK
  <2> QED
    BY <1>1, <1>6, <2>3, <2>4, <2>5 DEF MuxAccept, UTPTypeOK
<1> QED
  BY <1>2, <1>3, <1>4, <1>5, <1>6

(* The network and the multiplexers keep the types.                        *)
LEMMA NetworkType ==
  ASSUME UTPTypeOK, WriterBounded, NEW x \in Ends,
         Lose(x) \/ MuxStop(x) \/ \E p \in net[x] : MuxDeliver(x, p) \/ MuxDrop(x, p)
  PROVE  UTPTypeOK' /\ WriterBounded'
<1>1. WriterBounded'
  BY DEF Lose, MuxStop, MuxDeliver, MuxDrop, WriterBounded
<1>2. ASSUME NEW p \in net[x], MuxDeliver(x, p) PROVE UTPTypeOK'
  <2>1. p \in Packets /\ \A rest \in Rest(x, p) : rest \subseteq Packets
    BY EndTypes DEF Rest
  <2>2. net' \in [Ends -> SUBSET Packets]
    <3> PICK rest \in Rest(x, p) : net' = [net EXCEPT ![x] = rest]
      BY <1>2 DEF MuxDeliver
    <3> QED
      BY <2>1 DEF UTPTypeOK
  <2>3. Offer(readBuf[x], p, BufCap) \in Seq(Packets) /\ Len(Offer(readBuf[x], p, BufCap)) <= BufCap
    BY <2>1, EndTypes, OfferType, Sizes
  <2>4. readBuf' \in [Ends -> Seq(Packets)] /\ \A y \in Ends : Len(readBuf'[y]) <= BufCap
    BY <1>2, <2>3 DEF MuxDeliver, UTPTypeOK
  <2> QED
    BY <1>2, <2>2, <2>4 DEF MuxDeliver, UTPTypeOK
<1>3. ASSUME NEW p \in net[x], MuxDrop(x, p) PROVE UTPTypeOK'
  BY <1>3 DEF MuxDrop, UTPTypeOK
<1>4. CASE Lose(x)
  <2>1. net' \in [Ends -> SUBSET Packets]
    <3> PICK p \in net[x] : net' = [net EXCEPT ![x] = net[x] \ {p}]
      BY <1>4 DEF Lose
    <3>1. net[x] \ {p} \subseteq Packets
      BY EndTypes
    <3> QED
      BY <3>1 DEF UTPTypeOK
  <2> QED
    BY <1>1, <1>4, <2>1 DEF Lose, UTPTypeOK
<1>5. CASE MuxStop(x)
  BY <1>1, <1>5 DEF MuxStop, UTPTypeOK
<1> QED
  BY <1>1, <1>2, <1>3, <1>4, <1>5

(* handlePacket keeps the types.                                           *)
LEMMA HandleType ==
  ASSUME UTPTypeOK, WriterBounded, NEW x \in Ends, HandlePacket(x)
  PROVE  UTPTypeOK' /\ WriterBounded'
<1> DEFINE p == Head(readBuf[x])
<1>a. readBuf[x] \in Seq(Packets) /\ readBuf[x] # << >> /\ Len(readBuf[x]) <= BufCap
  BY EndTypes DEF HandlePacket
<1>1. p \in Packets /\ Tail(readBuf[x]) \in Seq(Packets) /\ Len(Tail(readBuf[x])) <= BufCap
  BY <1>a, TakeType, Sizes
<1>2. readBuf' \in [Ends -> Seq(Packets)] /\ \A y \in Ends : Len(readBuf'[y]) <= BufCap
  BY <1>1 DEF HandlePacket, UTPTypeOK
<1>3. UNCHANGED <<seq, running, accepted, writer, closer, up, chunks, acked, delivered, eof>>
  BY DEF HandlePacket
<1>4. HandleFin(x, p) \/ HandleFinAck(x, p) \/ HandleAck(x, p) \/ HandleData(x, p) \/ HandleSyn(x, p)
  BY DEF HandlePacket
<1>5. closes[x] + 1 \in 0 .. 2
  BY EndTypes DEF HandlePacket, Alive
<1> HIDE DEF p
<1>6. net' \in [Ends -> SUBSET Packets]
  <2>1. CASE HandleFin(x, p) \/ HandleData(x, p)
    <3>1. ST_STATE(p.seq) \in Packets
      BY <1>1, <2>1, PacketFields, PacketsMade DEF HandleFin, HandleData
    <3>2. net' = Sent(x, ST_STATE(p.seq)) /\ net \in [Ends -> SUBSET Packets]
      BY <2>1 DEF HandleFin, HandleData, UTPTypeOK
    <3> QED
      BY <3>1, <3>2, SentType
  <2> QED
    BY <1>4, <2>1 DEF HandleFinAck, HandleAck, HandleSyn, UTPTypeOK
<1>7. /\ state' \in [Ends -> {"none", "syn_sent", "failed", "connected", "fin_sent", "closed"}]
      /\ reg' \in [Ends -> BOOLEAN]
      /\ finAcked' \in [Ends -> BOOLEAN]
      /\ closes' \in [Ends -> 0 .. 2]
  <2>1. CASE HandleFin(x, p) \/ HandleFinAck(x, p)
    <3>1. /\ state' = [state EXCEPT ![x] = "closed"] /\ reg' = [reg EXCEPT ![x] = FALSE]
          /\ closes' = [closes EXCEPT ![x] = closes[x] + 1]
          /\ finAcked' = finAcked \/ finAcked' = [finAcked EXCEPT ![x] = TRUE]
      BY <2>1 DEF HandleFin, HandleFinAck
    <3>2. closes' \in [Ends -> 0 .. 2]
      BY <1>5, <3>1 DEF UTPTypeOK
    <3> QED
      BY <3>1, <3>2 DEF UTPTypeOK
  <2>3. CASE UNCHANGED <<state, reg, finAcked, closes>>
    BY <2>3 DEF UTPTypeOK
  <2> QED
    BY <1>4, <2>1, <2>3 DEF HandleAck, HandleData, HandleSyn
<1>8. ackChan' \in [Ends -> Seq(Seqs)] /\ \A y \in Ends : Len(ackChan'[y]) <= BufCap
  <2>1. CASE HandleAck(x, p)
    <3>1. /\ Offer(ackChan[x], p.ack, BufCap) \in Seq(Seqs)
          /\ Len(Offer(ackChan[x], p.ack, BufCap)) <= BufCap
      BY <1>1, <2>1, EndTypes, PacketFields, OfferType, Sizes DEF HandleAck
    <3> QED
      BY <2>1, <3>1 DEF HandleAck, UTPTypeOK
  <2> QED
    BY <1>4, <2>1 DEF HandleFin, HandleFinAck, HandleData, HandleSyn, UTPTypeOK
<1>9. /\ readQueue' \in [Ends -> Seq(Nums)] /\ \A y \in Ends : Len(readQueue'[y]) <= QueueCap
      /\ handled' \in [Ends -> SUBSET Nums]
  <2>1. CASE HandleData(x, p)
    <3>1. p.chunk \in Nums
      BY <1>1, <2>1, PacketFields DEF HandleData
    <3>2. /\ Offer(readQueue[x], p.chunk, QueueCap) \in Seq(Nums)
          /\ Len(Offer(readQueue[x], p.chunk, QueueCap)) <= QueueCap
      BY <3>1, EndTypes, OfferType, Sizes
    <3>3. handled' \in [Ends -> SUBSET Nums]
      BY <2>1, <3>1 DEF HandleData, UTPTypeOK
    <3>4. readQueue' = [readQueue EXCEPT ![x] = Offer(readQueue[x], p.chunk, QueueCap)]
      BY <2>1 DEF HandleData
    <3> QED
      BY <3>2, <3>3, <3>4 DEF UTPTypeOK
  <2> QED
    BY <1>4, <2>1 DEF HandleFin, HandleFinAck, HandleAck, HandleSyn, UTPTypeOK
<1>10. WriterBounded'
  BY <1>3 DEF WriterBounded
<1> QED
  BY <1>2, <1>3, <1>6, <1>7, <1>8, <1>9, <1>10 DEF UTPTypeOK

(* Read, Write and their waits keep the types.                             *)
LEMMA TransferType ==
  ASSUME UTPTypeOK, WriterBounded, NEW x \in Ends,
         \/ RunReturns(x) \/ ReadPayload(x) \/ ReadEOF(x) \/ Write(x) \/ SendChunk(x)
         \/ WriteAcked(x) \/ WriteTimeout(x) \/ WriteDeadline(x)
  PROVE  UTPTypeOK' /\ WriterBounded'
<1>1. CASE RunReturns(x)
  BY <1>1 DEF RunReturns, UTPTypeOK, WriterBounded
<1>2. CASE ReadPayload(x)
  <2>1. /\ Head(readQueue[x]) \in Nums /\ Tail(readQueue[x]) \in Seq(Nums)
        /\ Len(Tail(readQueue[x])) <= QueueCap
    <3>1. readQueue[x] \in Seq(Nums) /\ readQueue[x] # << >> /\ Len(readQueue[x]) <= QueueCap
      BY <1>2, EndTypes DEF ReadPayload
    <3> QED
      BY <3>1, TakeType, Sizes
  <2>2. Append(delivered[x], Head(readQueue[x])) \in Seq(Nums)
    <3>1. delivered[x] \in Seq(Nums)
      BY EndTypes
    <3> QED
      BY <2>1, <3>1, AppendProperties
  <2>3. /\ readQueue' \in [Ends -> Seq(Nums)] /\ \A y \in Ends : Len(readQueue'[y]) <= QueueCap
        /\ delivered' \in [Ends -> Seq(Nums)]
    BY <1>2, <2>1, <2>2 DEF ReadPayload, UTPTypeOK
  <2> QED
    BY <1>2, <2>3 DEF ReadPayload, UTPTypeOK, WriterBounded
<1>3. CASE ReadEOF(x)
  BY <1>3 DEF ReadEOF, UTPTypeOK, WriterBounded
<1>a. ASSUME NEW w \in WriterStates, writer' = [writer EXCEPT ![x] = w], UNCHANGED chunks,
             w.pc = "sending" => w.left > 0,
             w.pc # "idle" => chunks[x] + w.left <= MaxChunks,
             w.pc = "waiting" => w.chunk \in Nums
      PROVE  writer' \in [Ends -> WriterStates] /\ WriterBounded'
  BY <1>a DEF UTPTypeOK, WriterBounded
<1>b. ASSUME writer' = [writer EXCEPT ![x] = IdleWriter], UNCHANGED chunks
      PROVE  writer' \in [Ends -> WriterStates] /\ WriterBounded'
  BY <1>a, <1>b, IdleWriterType
<1>4. CASE Write(x)
  <2> PICK k \in 1 .. MaxWrite :
        /\ chunks[x] + k <= MaxChunks
        /\ writer' = [writer EXCEPT ![x] = [IdleWriter EXCEPT !.pc = "sending", !.left = k]]
    BY <1>4 DEF Write
  <2> DEFINE w == [IdleWriter EXCEPT !.pc = "sending", !.left = k]
  <2>a. w \in WriterStates /\ w.pc = "sending" /\ w.left = k
    BY IdleWriterType
  <2> HIDE DEF w
  <2>1. /\ w \in WriterStates /\ w.pc = "sending"
        /\ w.left > 0 /\ chunks[x] + w.left <= MaxChunks
    BY <2>a
  <2>2. writer' = [writer EXCEPT ![x] = w] /\ UNCHANGED chunks
    BY <1>4 DEF Write, w
  <2>3. writer' \in [Ends -> WriterStates] /\ WriterBounded'
    BY <1>a, <2>1, <2>2
  <2> QED
    BY <1>4, <2>3 DEF Write, UTPTypeOK
<1>5. CASE SendChunk(x)
  <2> DEFINE s == (seq[x] + 1) % SeqMod
             c == chunks[x] + 1
             w == [pc |-> "waiting", seq |-> s, chunk |-> c, left |-> writer[x].left - 1]
  <2>1. s \in Seqs
    BY EndTypes, NextSeq
  <2>2. /\ writer[x].left \in 1 .. MaxWrite /\ chunks[x] \in 0 .. MaxChunks
        /\ chunks[x] + writer[x].left <= MaxChunks
    BY <1>5, EndTypes, Sizes DEF SendChunk, WriterBounded, WriterStates
  <2>3. c \in Nums /\ c \in 0 .. MaxChunks /\ c + (writer[x].left - 1) <= MaxChunks
    BY <2>2, Sizes DEF Nums
  <2>4. w \in WriterStates /\ w.pc = "waiting" /\ w.chunk = c /\ w.left = writer[x].left - 1
    BY <2>1, <2>2, <2>3, Sizes DEF WriterStates
  <2>5. /\ seq' = [seq EXCEPT ![x] = s] /\ chunks' = [chunks EXCEPT ![x] = c]
        /\ net' = Sent(x, ST_DATA(s, c))
        /\ writer' = [writer EXCEPT ![x] = IF up[x] THEN w ELSE IdleWriter]
    BY <1>5 DEF SendChunk
  <2>6. net' \in [Ends -> SUBSET Packets]
    <3>1. ST_DATA(s, c) \in Packets /\ net \in [Ends -> SUBSET Packets]
      BY <2>1, <2>3, PacketsMade DEF UTPTypeOK
    <3> QED
      BY <2>5, <3>1, SentType
  <2> HIDE DEF w, s, c
  <2>7. writer' \in [Ends -> WriterStates]
    BY <2>4, <2>5, IdleWriterType DEF UTPTypeOK
  <2>8. WriterBounded'
    BY <2>2, <2>3, <2>4, <2>5, IdleWriterType DEF UTPTypeOK, WriterBounded
  <2>9. seq' \in [Ends -> Seqs] /\ chunks' \in [Ends -> 0 .. MaxChunks]
    BY <2>1, <2>3, <2>5 DEF UTPTypeOK
  <2> QED
    BY <1>5, <2>6, <2>7, <2>8, <2>9 DEF SendChunk, UTPTypeOK
<1>c. ASSUME Waiting(x), Retransmit(x), UNCHANGED chunks
      PROVE  /\ net' \in [Ends -> SUBSET Packets]
             /\ writer' \in [Ends -> WriterStates] /\ WriterBounded'
  <2>1. writer[x].seq \in Seqs /\ writer[x].chunk \in Nums
    BY <1>c, EndTypes DEF Waiting, WriterBounded, WriterStates
  <2>2. net' \in [Ends -> SUBSET Packets]
    BY <1>c, <2>1, PacketsMade, SentType DEF Retransmit, UTPTypeOK
  <2>3. CASE writer' = writer
    BY <1>c, <2>2, <2>3 DEF UTPTypeOK, WriterBounded
  <2> QED
    BY <1>b, <1>c, <2>2, <2>3 DEF Retransmit
<1>6. CASE WriteAcked(x)
  <2>1. ackChan' \in [Ends -> Seq(Seqs)] /\ \A y \in Ends : Len(ackChan'[y]) <= BufCap
    <3>1. ackChan[x] \in Seq(Seqs) /\ ackChan[x] # << >> /\ Len(ackChan[x]) <= BufCap
      BY <1>6, EndTypes DEF WriteAcked
    <3>2. Tail(ackChan[x]) \in Seq(Seqs) /\ Len(Tail(ackChan[x])) <= BufCap
      BY <3>1, TakeType, Sizes
    <3> QED
      BY <1>6, <3>2 DEF WriteAcked, UTPTypeOK
  <2>2. /\ net' \in [Ends -> SUBSET Packets] /\ acked' \in [Ends -> SUBSET Nums]
        /\ writer' \in [Ends -> WriterStates] /\ WriterBounded'
    <3>1. CASE ChunkDone(x)
      <4>1. /\ writer[x].chunk \in Nums /\ writer[x].left \in 0 .. MaxWrite
            /\ chunks[x] + writer[x].left <= MaxChunks
        BY <1>6, EndTypes DEF WriteAcked, Waiting, WriterBounded, WriterStates
      <4>2. net' \in [Ends -> SUBSET Packets] /\ acked' \in [Ends -> SUBSET Nums] /\ UNCHANGED chunks
        BY <1>6, <3>1, <4>1 DEF WriteAcked, ChunkDone, UTPTypeOK
      <4>3. CASE writer[x].left > 0
        <5> DEFINE w == [IdleWriter EXCEPT !.pc = "sending", !.left = writer[x].left]
        <5>a. writer[x].left \in 1 .. MaxWrite
          BY <4>1, <4>3, Sizes
        <5>1. w \in WriterStates /\ w.pc = "sending" /\ w.left = writer[x].left
          BY <5>a, IdleWriterType
        <5>2. writer' = [writer EXCEPT ![x] = w]
          BY <3>1, <4>3 DEF ChunkDone
        <5> HIDE DEF w
        <5> QED
          BY <1>a, <4>1, <4>2, <4>3, <5>1, <5>2
      <4>4. CASE ~(writer[x].left > 0)
        BY <1>b, <3>1, <4>2, <4>4 DEF ChunkDone
      <4> QED
        BY <4>3, <4>4
    <3>2. CASE Retransmit(x) /\ UNCHANGED acked
      BY <1>c, <1>6, <3>2 DEF WriteAcked, UTPTypeOK
    <3> QED
      BY <1>6, <3>1, <3>2 DEF WriteAcked
  <2> QED
    BY <1>6, <2>1, <2>2 DEF WriteAcked, UTPTypeOK
<1>7. CASE WriteTimeout(x)
  <2>1. /\ net' \in [Ends -> SUBSET Packets]
        /\ writer' \in [Ends -> WriterStates] /\ WriterBounded'
    BY <1>b, <1>c, <1>7 DEF WriteTimeout, UTPTypeOK
  <2> QED
    BY <1>7, <2>1 DEF WriteTimeout, UTPTypeOK
<1>8. CASE WriteDeadline(x)
  <2>1. writer' \in [Ends -> WriterStates] /\ WriterBounded'
    BY <1>b, <1>8 DEF WriteDeadline
  <2> QED
    BY <1>8, <2>1 DEF WriteDeadline, UTPTypeOK
<1> QED
  BY <1>1, <1>2, <1>3, <1>4, <1>5, <1>6, <1>7, <1>8

(* Close and its waits keep the types.                                     *)
LEMMA CloseType ==
  ASSUME UTPTypeOK, WriterBounded, NEW x \in Ends, NEW k \in Closers[x],
         Close(x, k) \/ CloseAcked(x, k) \/ CloseTimeout(x, k)
  PROVE  UTPTypeOK' /\ WriterBounded'
<1>1. WriterBounded'
  BY DEF Close, CloseAcked, CloseTimeout, WriterBounded
<1>2. ASSUME NEW c \in Calls, closer' = [closer EXCEPT ![x][k] = c]
      PROVE  /\ closer' \in [Ends -> UNION {[Closers[y] -> Calls] : y \in Ends}]
             /\ \A y \in Ends : closer'[y] \in [Closers[y] -> Calls]
  <2> DEFINE f == [closer[x] EXCEPT ![k] = c]
             All == UNION {[Closers[y] -> Calls] : y \in Ends}
  <2>1. f \in [Closers[x] -> Calls]
    BY EndTypes
  <2>2. closer' = [closer EXCEPT ![x] = f]
    BY <1>2
  <2>3. f \in All /\ closer \in [Ends -> All]
    BY <2>1 DEF UTPTypeOK
  <2>4. \A y \in Ends : closer[y] \in [Closers[y] -> Calls]
    BY EndTypes
  <2> HIDE DEF f, All
  <2>5. closer' \in [Ends -> All]
    BY <2>2, <2>3
  <2>6. \A y \in Ends : closer'[y] = IF y = x THEN f ELSE closer[y]
    BY <2>2, <2>3
  <2> QED
    BY <2>1, <2>4, <2>5, <2>6 DEF All
<1>3. CASE Close(x, k)
  <2> DEFINE s == (seq[x] + 1) % SeqMod
  <2>1. s \in Seqs
    BY EndTypes, NextSeq
  <2>2. ST_FIN(s) \in Packets /\ net \in [Ends -> SUBSET Packets]
    BY <2>1, PacketsMade DEF UTPTypeOK
  <2>3. Sent(x, ST_FIN(s)) \in [Ends -> SUBSET Packets]
    BY <2>2, SentType
  <2>4. \/ UNCHANGED <<state, seq, net>>
        \/ /\ state' = [state EXCEPT ![x] = "fin_sent"]
           /\ seq' = [seq EXCEPT ![x] = s]
           /\ net' = Sent(x, ST_FIN(s))
    BY <1>3 DEF Close
  <2>5. \E c \in Calls : closer' = [closer EXCEPT ![x][k] = c]
    BY <1>3 DEF Close, Calls
  <2> HIDE DEF s
  <2>6. /\ state' \in [Ends -> {"none", "syn_sent", "failed", "connected", "fin_sent", "closed"}]
        /\ seq' \in [Ends -> Seqs]
        /\ net' \in [Ends -> SUBSET Packets]
    <3>1. CASE UNCHANGED <<state, seq, net>>
      BY <3>1 DEF UTPTypeOK
    <3>2. CASE /\ state' = [state EXCEPT ![x] = "fin_sent"]
               /\ seq' = [seq EXCEPT ![x] = s]
               /\ net' = Sent(x, ST_FIN(s))
      BY <2>1, <2>3, <3>2 DEF UTPTypeOK
    <3> QED
      BY <2>4, <3>1, <3>2
  <2>7. UNCHANGED <<reg, running, accepted, finAcked, closes, chanVars, writer, up, ghostVars>>
    BY <1>3 DEF Close
  <2>8. /\ closer' \in [Ends -> UNION {[Closers[y] -> Calls] : y \in Ends}]
        /\ \A y \in Ends : closer'[y] \in [Closers[y] -> Calls]
    BY <1>2, <2>5
  <2> QED
    BY <1>1, <2>6, <2>7, <2>8 DEF UTPTypeOK
<1>4. CASE CloseAcked(x, k)
  <2>1. closer' = [closer EXCEPT ![x][k] = "returned"] /\ "returned" \in Calls
    BY <1>4 DEF CloseAcked, Calls
  <2> QED
    BY <1>1, <1>2, <1>4, <2>1 DEF CloseAcked, UTPTypeOK
<1>5. CASE CloseTimeout(x, k)
  <2>1. closer' = [closer EXCEPT ![x][k] = "returned"] /\ "returned" \in Calls
    BY <1>5 DEF CloseTimeout, Calls
  <2>2. closes[x] + 1 \in 0 .. 2
    BY <1>5, EndTypes DEF CloseTimeout, Alive
  <2>3. \/ UNCHANGED <<state, reg, closes>>
        \/ /\ state' = [state EXCEPT ![x] = "closed"]
           /\ reg' = [reg EXCEPT ![x] = FALSE]
           /\ closes' = [closes EXCEPT ![x] = closes[x] + 1]
    BY <1>5 DEF CloseTimeout
  <2>4. closes' \in [Ends -> 0 .. 2]
    BY <2>2, <2>3 DEF UTPTypeOK
  <2>5. /\ state' \in [Ends -> {"none", "syn_sent", "failed", "connected", "fin_sent", "closed"}]
        /\ reg' \in [Ends -> BOOLEAN]
    BY <2>3 DEF UTPTypeOK
  <2>6. UNCHANGED <<seq, running, accepted, finAcked, chanVars, writer, up, net, ghostVars>>
    BY <1>5 DEF CloseTimeout
  <2>7. /\ closer' \in [Ends -> UNION {[Closers[y] -> Calls] : y \in Ends}]
        /\ \A y \in Ends : closer'[y] \in [Closers[y] -> Calls]
    BY <1>2, <2>1
  <2> QED
    BY <1>1, <2>4, <2>5, <2>6, <2>7 DEF UTPTypeOK
<1> QED
  BY <1>3, <1>4, <1>5

(* Every step keeps the types.                                             *)
LEMMA UTPTypeStep ==
  (UTPTypeOK /\ WriterBounded) /\ [Next]_vars => (UTPTypeOK /\ WriterBounded)'
<1>1. UTPTypeOK /\ WriterBounded /\ UNCHANGED vars => (UTPTypeOK /\ WriterBounded)'
  BY DEF UTPTypeOK, WriterBounded, vars
<1> QED
  BY <1>1, SetupType, NetworkType, HandleType, TransferType, CloseType DEF Next

(* The variables of the two ends keep their types: in particular the Go    *)
(* channels keep to their capacities and closeChan is closed at most twice *)
(* (the second time panics).                                               *)
THEOREM UTPTypes == Spec => []UTPTypeOK
<1>1. Init => UTPTypeOK /\ WriterBounded
  BY UTPTypeInit
<1> QED
  BY <1>1, UTPTypeStep, PTL DEF Spec

-----------------------------------------------------------------------------
(* The states of a connection *)

(* A step releases the connection of x: a FIN, the acknowledgment of its   *)
(* own FIN, or the timer of Close.                                         *)
Release(x) ==
  /\ state' = [state EXCEPT ![x] = "closed"]
  /\ reg' = [reg EXCEPT ![x] = FALSE]
  /\ closes' = [closes EXCEPT ![x] = @ + 1]

(* A call of Close sends the FIN.                                          *)
SendFin(x) ==
  /\ state[x] \in {"connected", "fin_sent"}
  /\ state' = [state EXCEPT ![x] = "fin_sent"]
  /\ UNCHANGED <<reg, closes>>

(* The steps that change the state of a connection, its registration or    *)
(* closeChan.                                                              *)
LEMMA StateSteps ==
  ASSUME UTPTypeOK, [Next]_vars
  PROVE  \/ UNCHANGED <<state, reg, closes>>
         \/ Dial \/ DialAnswered \/ DialTimeout \/ MuxAccept
         \/ \E x \in Ends : Release(x) \/ SendFin(x)
<1>1. ASSUME NEW x \in Ends, HandlePacket(x)
      PROVE  UNCHANGED <<state, reg, closes>> \/ Release(x)
  <2> DEFINE p == Head(readBuf[x])
  <2>1. HandleFin(x, p) \/ HandleFinAck(x, p) \/ HandleAck(x, p) \/ HandleData(x, p) \/ HandleSyn(x, p)
    BY <1>1 DEF HandlePacket
  <2> HIDE DEF p
  <2> QED
    BY <2>1 DEF HandleFin, HandleFinAck, HandleAck, HandleData, HandleSyn, Release
<1>2. ASSUME NEW x \in Ends, NEW k \in Closers[x], Close(x, k)
      PROVE  UNCHANGED <<state, reg, closes>> \/ SendFin(x)
  BY <1>2, EndTypes DEF Close, InUse, SendFin
<1>3. ASSUME NEW x \in Ends, NEW k \in Closers[x], CloseTimeout(x, k)
      PROVE  UNCHANGED <<state, reg, closes>> \/ Release(x)
  BY <1>3 DEF CloseTimeout, Release
<1>4. ASSUME NEW x \in Ends,
             \/ Lose(x) \/ MuxStop(x) \/ (\E p \in net[x] : MuxDeliver(x, p) \/ MuxDrop(x, p))
             \/ RunReturns(x) \/ ReadPayload(x) \/ ReadEOF(x) \/ Write(x) \/ SendChunk(x)
             \/ WriteAcked(x) \/ WriteTimeout(x) \/ WriteDeadline(x)
             \/ (\E k \in Closers[x] : CloseAcked(x, k))
      PROVE  UNCHANGED <<state, reg, closes>>
  BY <1>4 DEF Lose, MuxStop, MuxDeliver, MuxDrop, RunReturns, ReadPayload, ReadEOF, Write, SendChunk,
              WriteAcked, WriteTimeout, WriteDeadline, CloseAcked
<1>5. CASE Accept \/ UNCHANGED vars
  BY <1>5 DEF Accept, vars
<1> QED
  BY <1>1, <1>2, <1>3, <1>4, <1>5 DEF Next

(* closeChan is closed and the ID given back exactly when the connection   *)
(* is CLOSED; every step keeps that.                                       *)
LEMMA ReleasedStep == UTPTypeOK /\ ReleasedWhenClosed /\ [Next]_vars => ReleasedWhenClosed'
<1> SUFFICES ASSUME UTPTypeOK, ReleasedWhenClosed, [Next]_vars, NEW x \in Ends
             PROVE  /\ state'[x] = "closed" <=> closes'[x] > 0
                    /\ reg'[x] <=> state'[x] \in {"syn_sent", "connected", "fin_sent"}
  BY DEF ReleasedWhenClosed
<1>a. /\ state[x] = "closed" <=> closes[x] > 0
      /\ reg[x] <=> state[x] \in {"syn_sent", "connected", "fin_sent"}
  BY DEF ReleasedWhenClosed
<1>1. CASE UNCHANGED <<state, reg, closes>>
  BY <1>a, <1>1
<1>2. CASE Dial
  <2>1. /\ state'[x] = IF x = "dialer" THEN IF up["dialer"] THEN "syn_sent" ELSE "failed" ELSE state[x]
        /\ reg'[x] = IF x = "dialer" THEN up["dialer"] ELSE reg[x]
        /\ closes'[x] = closes[x]
        /\ x = "dialer" => state[x] = "none"
    BY <1>2 DEF Dial, UTPTypeOK
  <2> QED
    BY <1>a, <2>1
<1>3. CASE DialAnswered
  <2> DEFINE ok == Head(readBuf["dialer"]) = ST_STATE(seq["dialer"])
  <2>1. /\ state'[x] = IF x = "dialer" THEN IF ok THEN "connected" ELSE "failed" ELSE state[x]
        /\ reg'[x] = IF x = "dialer" THEN ok ELSE reg[x]
        /\ closes'[x] = closes[x]
        /\ x = "dialer" => state[x] = "syn_sent"
    BY <1>3 DEF DialAnswered, UTPTypeOK
  <2> HIDE DEF ok
  <2> QED
    BY <1>a, <2>1
<1>4. CASE DialTimeout
  <2>1. /\ state'[x] = IF x = "dialer" THEN "failed" ELSE state[x]
        /\ reg'[x] = IF x = "dialer" THEN FALSE ELSE reg[x]
        /\ closes'[x] = closes[x]
        /\ x = "dialer" => state[x] = "syn_sent"
    BY <1>4 DEF DialTimeout, UTPTypeOK
  <2> QED
    BY <1>a, <2>1
<1>5. CASE MuxAccept
  <2>1. /\ state'[x] = IF x = "acceptor" THEN "connected" ELSE state[x]
        /\ reg'[x] = IF x = "acceptor" THEN TRUE ELSE reg[x]
        /\ closes'[x] = closes[x]
        /\ x = "acceptor" => state[x] = "none"
    BY <1>5 DEF MuxAccept, UTPTypeOK
  <2> QED
    BY <1>a, <2>1
<1>6. ASSUME NEW y \in Ends, Release(y)
      PROVE  /\ state'[x] = "closed" <=> closes'[x] > 0
             /\ reg'[x] <=> state'[x] \in {"syn_sent", "connected", "fin_sent"}
  <2>1. /\ state'[x] = IF x = y THEN "closed" ELSE state[x]
        /\ reg'[x] = IF x = y THEN FALSE ELSE reg[x]
        /\ closes'[x] = IF x = y THEN closes[x] + 1 ELSE closes[x]
        /\ closes[x] \in 0 .. 2
    BY <1>6 DEF Release, UTPTypeOK
  <2> QED
    BY <1>a, <2>1
<1>7. ASSUME NEW y \in Ends, SendFin(y)
      PROVE  /\ state'[x] = "closed" <=> closes'[x] > 0
             /\ reg'[x] <=> state'[x] \in {"syn_sent", "connected", "fin_sent"}
  <2>1. /\ state'[x] = IF x = y THEN "fin_sent" ELSE state[x]
        /\ reg'[x] = reg[x] /\ closes'[x] = closes[x]
        /\ x = y => state[x] \in {"connected", "fin_sent"}
    BY <1>7 DEF SendFin, UTPTypeOK
  <2> QED
    BY <1>a, <2>1
<1> QED
  BY <1>1, <1>2, <1>3, <1>4, <1>5, <1>6, <1>7, StateSteps

(* Whichever of FIN, FIN acknowledgment and the timers of any number of    *)
(* concurrent Close calls comes first, closeChan is closed and the ID is   *)
(* given back in the state CLOSED, and only there.                         *)
THEOREM Released == Spec => []ReleasedWhenClosed
<1>1. Init => ReleasedWhenClosed
  BY DEF Init, ReleasedWhenClosed
<1> QED
  BY <1>1, ReleasedStep, UTPTypes, PTL DEF Spec

(* No step leads out of CLOSED.                                            *)
THEOREM ClosedFinal == Spec => ClosedIsFinal
<1>1. ASSUME UTPTypeOK, [Next]_vars, NEW x \in Ends, state[x] = "closed"
      PROVE  state'[x] = "closed"
  BY <1>1, StateSteps DEF Dial, DialAnswered, DialTimeout, MuxAccept, Release, SendFin, UTPTypeOK
<1>2. UTPTypeOK /\ [Next]_vars =>
        [\A x \in Ends : state[x] = "closed" => state'[x] = "closed"]_vars
  BY <1>1
<1> QED
  BY <1>2, UTPTypes, PTL DEF Spec, ClosedIsFinal

-----------------------------------------------------------------------------
(* Sequence numbers *)

(* What is in a channel, and what is on its way to the run loop of x.      *)
Elems(q) == {q[i] : i \in 1 .. Len(q)}

InFlight(x) == net[x] \cup Elems(readBuf[x])

(* Packets that x numbered itself: all but acknowledgments.                *)
SentBy(x) == {p \in InFlight(Other(x)) : p.type # "STATE"}

(* Numbers that come back to x as acknowledgments.                         *)
AcksTo(x) == {p.ack : p \in {q \in InFlight(x) : q.type = "STATE"}} \cup Elems(ackChan[x])

(* The sequence numbers of x that still are somewhere.                     *)
Numbers(x) ==
  {p.seq : p \in SentBy(x)} \cup AcksTo(x)
    \cup (IF writer[x].pc = "waiting" THEN {writer[x].seq} ELSE {})

(* How long ago number s was current when q is, and an upper bound on how  *)
(* often x has taken a new number.                                         *)
Age(q, s) == IF s <= q THEN q - s ELSE q + SeqMod - s

Called(x) == {k \in Closers[x] : closer[x][k] # "idle"}

Taken(x) == chunks[x] + Cardinality(Called(x))

(* The numbers do not come round: fewer chunks and calls of Close than     *)
(* there are sequence numbers.                                             *)
NoWrap == \A x \in Ends : MaxChunks + Cardinality(Closers[x]) < SeqMod - 1

(* A conn sends nothing before it exists, and writes nothing before it is  *)
(* connected.                                                              *)
QuietBefore(x) ==
  /\ state[x] = "none" => Numbers(x) = {}
  /\ state[x] \in {"none", "syn_sent", "failed"} => writer[x].pc = "idle" /\ chunks[x] = 0

(* Every number that still is somewhere was taken lately.                  *)
Recent(x) == \A s \in Numbers(x) : Age(seq[x], s) <= Taken(x)

(* The number for which Write waits belongs to its chunk alone, and comes  *)
(* back only after the chunk was handled.                                  *)
WaitsForOwn(x) ==
  writer[x].pc = "waiting" =>
    /\ \A p \in SentBy(x) : p.seq = writer[x].seq => p = ST_DATA(writer[x].seq, writer[x].chunk)
    /\ writer[x].seq \in AcksTo(x) => writer[x].chunk \in handled[Other(x)]

NumberInv ==
  /\ UTPTypeOK /\ WriterBounded
  /\ \A x \in Ends : QuietBefore(x) /\ Recent(x) /\ WaitsForOwn(x)
  /\ AckedWasHandled

(* Channel operations put nothing else into a channel.                     *)
LEMMA ElemsOps ==
  ASSUME NEW S, NEW q \in Seq(S)
  PROVE  /\ q # << >> => Head(q) \in Elems(q) /\ Elems(Tail(q)) \subseteq Elems(q)
         /\ \A e \in S, cap \in Nat : Elems(Offer(q, e, cap)) \subseteq Elems(q) \cup {e}
<1>1. Len(q) \in Nat
  BY LenProperties
<1>2. ASSUME q # << >> PROVE Head(q) \in Elems(q) /\ Elems(Tail(q)) \subseteq Elems(q)
  <2>1. Len(q) \in Nat \ {0}
    BY <1>2, EmptySeq
  <2>2. Head(q) = q[1]
    BY <1>2
  <2>3. Len(Tail(q)) = Len(q) - 1 /\ \A i \in 1 .. Len(Tail(q)) : Tail(q)[i] = q[i + 1]
    BY <1>2, HeadTailProperties
  <2> QED
    BY <2>1, <2>2, <2>3 DEF Elems
<1>3. ASSUME NEW e \in S, NEW cap \in Nat PROVE Elems(Offer(q, e, cap)) \subseteq Elems(q) \cup {e}
  <2>1. /\ Len(Append(q, e)) = Len(q) + 1
        /\ \A i \in 1 .. Len(q) : Append(q, e)[i] = q[i]
        /\ Append(q, e)[Len(q) + 1] = e
    BY AppendProperties
  <2>2. Elems(Append(q, e)) \subseteq Elems(q) \cup {e}
    BY <1>1, <2>1 DEF Elems
  <2> QED
    BY <2>2 DEF Offer
<1> QED
  BY <1>2, <1>3

(* What is in flight are packets, and acknowledgments are numbers.         *)
LEMMA FlightTypes ==
  ASSUME UTPTypeOK, NEW x \in Ends
  PROVE  /\ InFlight(x) \subseteq Packets
         /\ AcksTo(x) \subseteq Seqs
         /\ SentBy(x) \subseteq Packets
         /\ Numbers(x) \subseteq Seqs
<1>1. \A y \in Ends : InFlight(y) \subseteq Packets
  BY EndTypes, ElementOfSeq DEF InFlight, Elems
<1>2. Elems(ackChan[x]) \subseteq Seqs
  BY EndTypes, ElementOfSeq DEF Elems
<1>3. AcksTo(x) \subseteq Seqs
  BY <1>1, <1>2, PacketFields DEF AcksTo
<1>4. SentBy(x) \subseteq Packets
  BY <1>1, OtherEnd DEF SentBy
<1>5. \A p \in SentBy(x) : p.seq \in Seqs
  <2> SUFFICES ASSUME NEW p \in SentBy(x) PROVE p.seq \in Seqs
    OBVIOUS
  <2>1. p \in Packets /\ p.type # "STATE"
    BY <1>4 DEF SentBy
  <2>2. ST_SYN.seq \in Seqs
    BY Sizes DEF ST_SYN
  <2> QED
    BY <2>1, <2>2, PacketFields
<1>6. writer[x].seq \in Seqs
  BY EndTypes DEF WriterStates
<1> QED
  BY <1>1, <1>3, <1>4, <1>5, <1>6 DEF Numbers

(* The count of numbers taken stays below the modulus.                     *)
LEMMA TakenBound ==
  ASSUME UTPTypeOK, NoWrap, NEW x \in Ends
  PROVE  Taken(x) \in Nat /\ Taken(x) < SeqMod - 1
<1>1. IsFiniteSet(Closers[x]) /\ Called(x) \in SUBSET Closers[x]
  BY UTPAssumption DEF Called
<1>2. /\ Cardinality(Called(x)) \in Nat /\ Cardinality(Closers[x]) \in Nat
      /\ Cardinality(Called(x)) <= Cardinality(Closers[x])
  BY <1>1, FS_Subset, FS_CardinalityType
<1>3. chunks[x] \in Nat /\ chunks[x] <= MaxChunks
  BY EndTypes, Sizes
<1> QED
  BY <1>2, <1>3, Sizes DEF Taken, NoWrap

(* The same after a step.                                                  *)
LEMMA TakenNext == NoWrap /\ UTPTypeOK' => \A x \in Ends : Taken(x)' \in Nat
<1> DEFINE TakenNat == \A x \in Ends : Taken(x) \in Nat
<1>1. NoWrap /\ UTPTypeOK => TakenNat
  BY TakenBound
<1> HIDE DEF TakenNat
<1>2. NoWrap' /\ UTPTypeOK' => TakenNat'
  BY <1>1, PTL
<1>3. NoWrap => NoWrap'
  BY DEF NoWrap
<1> QED
  BY <1>2, <1>3 DEF TakenNat

(* Taking a new number makes every recent one older by one, so the new     *)
(* number is none of them.                                                 *)
LEMMA AgeNext ==
  ASSUME NEW q \in Seqs, NEW s \in Seqs
  PROVE  /\ Age(q, s) \in Nat
         /\ Age(q, s) < SeqMod - 1 =>
              /\ s # (q + 1) % SeqMod
              /\ Age((q + 1) % SeqMod, s) = Age(q, s) + 1
         /\ Age(q, q) = 0
<1>1. q \in Nat /\ s \in Nat /\ q < SeqMod /\ s < SeqMod /\ SeqMod \in Nat /\ SeqMod > 1
  BY Sizes DEF Seqs
<1>2. (q + 1) % SeqMod = IF q + 1 = SeqMod THEN 0 ELSE q + 1
  BY NextSeq
<1> QED
  BY <1>1, <1>2 DEF Age

(* A step after which x has taken no new number: what x sends repeats the  *)
(* chunk it waits for, and what comes back acknowledges a packet of x.     *)
SameNumber(x) ==
  /\ seq'[x] = seq[x]
  /\ Taken(x) <= Taken(x)'
  /\ writer'[x] = writer[x] \/ writer'[x].pc # "waiting"
  /\ \A p \in SentBy(x)' :
       \/ p \in SentBy(x)
       \/ writer[x].pc = "waiting" /\ p = ST_DATA(writer[x].seq, writer[x].chunk)
  /\ \A s \in AcksTo(x)' :
       \/ s \in AcksTo(x)
       \/ \E p \in SentBy(x) : p.seq = s /\ (p.type = "DATA" => p.chunk \in handled'[Other(x)])

(* A step in which x takes the next number for packet p.                   *)
NewNumber(x, p) ==
  /\ state[x] # "none"
  /\ seq'[x] = (seq[x] + 1) % SeqMod
  /\ Taken(x)' = Taken(x) + 1
  /\ p.seq = (seq[x] + 1) % SeqMod
  /\ SentBy(x)' \subseteq SentBy(x) \cup {p}
  /\ AcksTo(x)' \subseteq AcksTo(x)
  /\ \/ writer'[x] = writer[x]
     \/ writer'[x].pc # "waiting"
     \/ writer'[x].seq = (seq[x] + 1) % SeqMod /\ p = ST_DATA(writer'[x].seq, writer'[x].chunk)
  /\ p.type = "DATA" =>
       /\ writer[x].pc = "sending" /\ p.chunk = chunks[x] + 1
       /\ up[x] \/ SentBy(x)' \subseteq SentBy(x)

(* The step that makes the conn of x.                                      *)
FirstNumber(x) ==
  /\ state[x] = "none" /\ state'[x] # "none"
  /\ seq'[x] \in Seqs
  /\ writer'[x] = writer[x]
  /\ \A p \in SentBy(x)' : p \in SentBy(x) \/ (p.seq = seq'[x] /\ p.type # "DATA")
  /\ AcksTo(x)' \subseteq AcksTo(x)

(* DATA packets have the fields they were made with.                       *)
LEMMA DataFields ==
  \A s, c : ST_DATA(s, c).type = "DATA" /\ ST_DATA(s, c).seq = s /\ ST_DATA(s, c).chunk = c
  BY DEF ST_DATA

(* A step of the first kind keeps what is known of the numbers.            *)
LEMMA SameKeeps ==
  ASSUME UTPTypeOK, UTPTypeOK', NoWrap, NEW x \in Ends, SameNumber(x),
         Recent(x), WaitsForOwn(x), handled[Other(x)] \subseteq handled'[Other(x)]
  PROVE  Recent(x)' /\ WaitsForOwn(x)' /\ Numbers(x)' \subseteq Numbers(x)
<1>1. Numbers(x)' \subseteq Numbers(x)
  <2>1. \A p \in SentBy(x)' : p.seq \in Numbers(x)
    BY DataFields DEF SameNumber, Numbers
  <2>2. AcksTo(x)' \subseteq Numbers(x)
    BY DEF SameNumber, Numbers
  <2>3. writer'[x].pc = "waiting" => writer'[x].seq \in Numbers(x)
    BY DEF SameNumber, Numbers
  <2>4. Numbers(x)' = {p.seq : p \in SentBy(x)'} \cup AcksTo(x)'
                        \cup (IF writer'[x].pc = "waiting" THEN {writer'[x].seq} ELSE {})
    BY DEF Numbers
  <2> QED
    BY <2>1, <2>2, <2>3, <2>4
<1>2. Recent(x)'
  <2> SUFFICES ASSUME NEW s \in Numbers(x)' PROVE Age(seq'[x], s) <= Taken(x)'
    BY DEF Recent, Age
  <2>1. Age(seq[x], s) <= Taken(x) /\ seq'[x] = seq[x] /\ Taken(x) <= Taken(x)'
    BY <1>1 DEF Recent, SameNumber
  <2>2. Age(seq[x], s) \in Nat /\ Taken(x) \in Nat
    BY <1>1, EndTypes, FlightTypes, AgeNext, TakenBound
  <2>3. Taken(x)' \in Nat
    BY TakenNext
  <2> QED
    BY <2>1, <2>2, <2>3
<1>3. WaitsForOwn(x)'
  <2> SUFFICES ASSUME writer'[x].pc = "waiting"
               PROVE  /\ \A p \in SentBy(x)' : p.seq = writer'[x].seq
                                              => p = ST_DATA(writer'[x].seq, writer'[x].chunk)
                      /\ writer'[x].seq \in AcksTo(x)' => writer'[x].chunk \in handled'[Other(x)]
    BY DEF WaitsForOwn, ST_DATA
  <2>1. writer'[x] = writer[x] /\ writer[x].pc = "waiting"
    BY DEF SameNumber
  <2>2. /\ \A p \in SentBy(x) : p.seq = writer[x].seq => p = ST_DATA(writer[x].seq, writer[x].chunk)
        /\ writer[x].seq \in AcksTo(x) => writer[x].chunk \in handled[Other(x)]
    BY <2>1 DEF WaitsForOwn
  <2>3. \A p \in SentBy(x)' : p.seq = writer[x].seq => p = ST_DATA(writer[x].seq, writer[x].chunk)
    BY <2>2 DEF SameNumber
  <2>4. ASSUME writer[x].seq \in AcksTo(x)' PROVE writer[x].chunk \in handled'[Other(x)]
    <3>1. CASE writer[x].seq \in AcksTo(x)
      BY <2>2, <3>1
    <3>2. ASSUME NEW p \in SentBy(x), p.seq = writer[x].seq,
                 p.type = "DATA" => p.chunk \in handled'[Other(x)]
          PROVE  writer[x].chunk \in handled'[Other(x)]
      BY <2>2, <3>2, DataFields
    <3> QED
      BY <2>4, <3>1, <3>2 DEF SameNumber
  <2> QED
    BY <2>1, <2>3, <2>4
<1> QED
  BY <1>1, <1>2, <1>3

(* A step that takes a new number keeps it: the number is nowhere yet.     *)
LEMMA NewKeeps ==
  ASSUME UTPTypeOK, NoWrap, NEW x \in Ends, NEW p, NewNumber(x, p),
         Recent(x), WaitsForOwn(x), handled[Other(x)] \subseteq handled'[Other(x)]
  PROVE  Recent(x)' /\ WaitsForOwn(x)'
<1> DEFINE s == (seq[x] + 1) % SeqMod
<1>1. seq[x] \in Seqs /\ s \in Seqs /\ Numbers(x) \subseteq Seqs
  BY EndTypes, NextSeq, FlightTypes
<1>2. Taken(x) \in Nat /\ Taken(x) < SeqMod - 1
  BY TakenBound
<1>3. \A r \in Numbers(x) : r # s /\ Age(s, r) <= Taken(x) + 1
  <2> SUFFICES ASSUME NEW r \in Numbers(x) PROVE r # s /\ Age(s, r) <= Taken(x) + 1
    OBVIOUS
  <2>1. Age(seq[x], r) \in Nat /\ Age(seq[x], r) <= Taken(x) /\ Age(seq[x], r) < SeqMod - 1
    BY <1>1, <1>2, AgeNext, Sizes DEF Recent
  <2>2. r # s /\ Age(s, r) = Age(seq[x], r) + 1
    BY <1>1, <2>1, AgeNext
  <2> QED
    BY <1>2, <2>1, <2>2
<1>4. Age(s, s) = 0
  BY <1>1, AgeNext
<1>5. /\ seq'[x] = s /\ Taken(x)' = Taken(x) + 1 /\ p.seq = s
      /\ SentBy(x)' \subseteq SentBy(x) \cup {p} /\ AcksTo(x)' \subseteq AcksTo(x)
      /\ \/ writer'[x] = writer[x]
         \/ writer'[x].pc # "waiting"
         \/ writer'[x].seq = s /\ p = ST_DATA(writer'[x].seq, writer'[x].chunk)
  BY DEF NewNumber
<1> HIDE DEF s
<1>6. Numbers(x)' \subseteq Numbers(x) \cup {s}
  <2>1. \A q \in SentBy(x)' : q.seq \in Numbers(x) \cup {s}
    BY <1>5 DEF Numbers
  <2>2. AcksTo(x)' \subseteq Numbers(x)
    BY <1>5 DEF Numbers
  <2>3. writer'[x].pc = "waiting" => writer'[x].seq \in Numbers(x) \cup {s}
    BY <1>5 DEF Numbers
  <2>4. Numbers(x)' = {q.seq : q \in SentBy(x)'} \cup AcksTo(x)'
                        \cup (IF writer'[x].pc = "waiting" THEN {writer'[x].seq} ELSE {})
    BY DEF Numbers
  <2> QED
    BY <2>1, <2>2, <2>3, <2>4
<1>7. Recent(x)'
  <2> SUFFICES ASSUME NEW r \in Numbers(x)' PROVE Age(seq'[x], r) <= Taken(x)'
    BY DEF Recent, Age
  <2> QED
    BY <1>2, <1>3, <1>4, <1>5, <1>6
<1>8. WaitsForOwn(x)'
  <2> SUFFICES ASSUME writer'[x].pc = "waiting"
               PROVE  /\ \A q \in SentBy(x)' : q.seq = writer'[x].seq
                                              => q = ST_DATA(writer'[x].seq, writer'[x].chunk)
                      /\ writer'[x].seq \in AcksTo(x)' => writer'[x].chunk \in handled'[Other(x)]
    BY DEF WaitsForOwn, ST_DATA
  <2>1. CASE writer'[x] = writer[x]
    <3>1. writer[x].seq \in Numbers(x)
      BY <2>1 DEF Numbers
    <3>2. writer[x].seq # s
      BY <1>3, <3>1
    <3> QED
      BY <1>5, <2>1, <3>2 DEF WaitsForOwn
  <2>2. CASE writer'[x].seq = s /\ p = ST_DATA(writer'[x].seq, writer'[x].chunk)
    <3>1. \A q \in SentBy(x) : q.seq \in Numbers(x)
      BY DEF Numbers
    <3>2. \A q \in SentBy(x) : q.seq # s
      BY <1>3, <3>1
    <3>3. s \notin AcksTo(x)
      BY <1>3 DEF Numbers
    <3> QED
      BY <1>5, <2>2, <3>2, <3>3
  <2> QED
    BY <1>5, <2>1, <2>2
<1> QED
  BY <1>7, <1>8

(* The step that makes a conn keeps it: none of its numbers is about.      *)
LEMMA FirstKeeps ==
  ASSUME UTPTypeOK, UTPTypeOK', NoWrap, NEW x \in Ends, FirstNumber(x), QuietBefore(x)
  PROVE  Recent(x)' /\ WaitsForOwn(x)'
<1>1. Numbers(x) = {} /\ writer[x].pc = "idle"
  BY DEF QuietBefore, FirstNumber
<1>2. SentBy(x) = {} /\ AcksTo(x) = {}
  BY <1>1 DEF Numbers
<1>3. Numbers(x)' \subseteq {seq'[x]}
  <2>1. Numbers(x)' = {q.seq : q \in SentBy(x)'} \cup AcksTo(x)'
                        \cup (IF writer'[x].pc = "waiting" THEN {writer'[x].seq} ELSE {})
    BY DEF Numbers
  <2> QED
    BY <1>1, <1>2, <2>1 DEF FirstNumber
<1>4. Age(seq'[x], seq'[x]) = 0
  BY AgeNext DEF FirstNumber
<1>5. Taken(x)' \in Nat
  BY TakenNext
<1>6. Recent(x)'
  <2> SUFFICES ASSUME NEW r \in Numbers(x)' PROVE Age(seq'[x], r) <= Taken(x)'
    BY DEF Recent, Age
  <2> QED
    BY <1>3, <1>4, <1>5
<1> QED
  BY <1>1, <1>6 DEF WaitsForOwn, FirstNumber

-----------------------------------------------------------------------------
(* What each step puts in flight *)

(* Nothing, or packet p from x.                                            *)
Sends(x, P) ==
  /\ InFlight(x)' \subseteq InFlight(x)
  /\ InFlight(Other(x))' \subseteq InFlight(Other(x)) \cup P
  /\ \A y \in Ends : AcksTo(y)' \subseteq
       AcksTo(y) \cup {p.ack : p \in {q \in P : y = Other(x) /\ q.type = "STATE"}}
  /\ \A y \in Ends : SentBy(y)' \subseteq SentBy(y) \cup {q \in P : y = x /\ q.type # "STATE"}

(* From the channels to what is in flight.                                 *)
LEMMA SendsFrom ==
  ASSUME NEW x \in Ends, NEW P,
         InFlight(x)' \subseteq InFlight(x),
         InFlight(Other(x))' \subseteq InFlight(Other(x)) \cup P,
         \A y \in Ends : Elems(ackChan[y])' \subseteq AcksTo(y)
  PROVE  Sends(x, P)
<1>1. \A y \in Ends : y = x \/ y = Other(x)
  BY DEF Ends, Other
<1>2. Other(Other(x)) = x /\ Other(x) # x
  BY OtherEnd
<1>3. ASSUME NEW y \in Ends
      PROVE  AcksTo(y)' \subseteq
               AcksTo(y) \cup {p.ack : p \in {q \in P : y = Other(x) /\ q.type = "STATE"}}
  <2>1. AcksTo(y)' = {p.ack : p \in {q \in InFlight(y)' : q.type = "STATE"}} \cup Elems(ackChan[y])'
    BY DEF AcksTo
  <2>2. \A q \in InFlight(y)' : q \in InFlight(y) \/ (y = Other(x) /\ q \in P)
    BY <1>1, <1>2
  <2>3. \A q \in InFlight(y) : q.type = "STATE" => q.ack \in AcksTo(y)
    BY DEF AcksTo
  <2> QED
    BY <2>1, <2>2, <2>3
<1>4. ASSUME NEW y \in Ends
      PROVE  SentBy(y)' \subseteq SentBy(y) \cup {q \in P : y = x /\ q.type # "STATE"}
  <2>1. SentBy(y)' = {q \in InFlight(Other(y))' : q.type # "STATE"}
    BY DEF SentBy, Other
  <2>2. \A q \in InFlight(Other(y))' : q \in InFlight(Other(y)) \/ (y = x /\ q \in P)
    BY <1>1, <1>2
  <2> QED
    BY <2>1, <2>2 DEF SentBy
<1> QED
  BY <1>3, <1>4 DEF Sends

(* mux.conn.WriteTo puts one packet in flight.                             *)
LEMMA SentSends ==
  ASSUME UTPTypeOK, NEW x \in Ends, NEW p \in Packets, net' = Sent(x, p),
         \A y \in Ends : Elems(readBuf[y])' \subseteq InFlight(y),
         \A y \in Ends : Elems(ackChan[y])' \subseteq AcksTo(y)
  PROVE  Sends(x, {p})
<1>1. net'[x] = net[x] /\ net'[Other(x)] \subseteq net[Other(x)] \cup {p}
  BY SentType DEF UTPTypeOK
<1>2. \A y \in Ends : InFlight(y)' = net'[y] \cup Elems(readBuf[y])'
  BY DEF InFlight
<1>3. InFlight(x)' \subseteq InFlight(x) /\ InFlight(Other(x))' \subseteq InFlight(Other(x)) \cup {p}
  BY <1>1, <1>2, OtherEnd DEF InFlight
<1> QED
  BY <1>3, SendsFrom

(* A step that sends nothing.                                              *)
LEMMA QuietSends ==
  ASSUME NEW x \in Ends,
         \A y \in Ends : net'[y] \subseteq net[y],
         \A y \in Ends : Elems(readBuf[y])' \subseteq InFlight(y),
         \A y \in Ends : Elems(ackChan[y])' \subseteq AcksTo(y)
  PROVE  Sends(x, {})
<1>1. \A y \in Ends : InFlight(y)' = net'[y] \cup Elems(readBuf[y])'
  BY DEF InFlight
<1>2. InFlight(x)' \subseteq InFlight(x) /\ InFlight(Other(x))' \subseteq InFlight(Other(x)) \cup {}
  BY <1>1, OtherEnd DEF InFlight
<1> QED
  BY <1>2, SendsFrom

(* Channels that a step leaves alone.                                      *)
LEMMA ChannelsSame ==
  /\ UNCHANGED readBuf => \A y \in Ends : Elems(readBuf[y])' \subseteq InFlight(y)
  /\ UNCHANGED ackChan => \A y \in Ends : Elems(ackChan[y])' \subseteq AcksTo(y)
  BY DEF InFlight, AcksTo, Elems

(* Taking a packet out of readBuf.                                         *)
LEMMA ReadBufTaken ==
  ASSUME UTPTypeOK, NEW x \in Ends, readBuf[x] # << >>,
         readBuf' = [readBuf EXCEPT ![x] = Tail(@)]
  PROVE  /\ \A y \in Ends : Elems(readBuf[y])' \subseteq InFlight(y)
         /\ Head(readBuf[x]) \in InFlight(x)
<1>1. readBuf[x] \in Seq(Packets)
  BY EndTypes
<1>2. Head(readBuf[x]) \in Elems(readBuf[x]) /\ Elems(Tail(readBuf[x])) \subseteq Elems(readBuf[x])
  BY <1>1, ElemsOps
<1>3. \A y \in Ends : readBuf'[y] = IF y = x THEN Tail(readBuf[x]) ELSE readBuf[y]
  BY DEF UTPTypeOK
<1>4. \A y \in Ends : Elems(readBuf[y])' = Elems(readBuf'[y])
  BY DEF Elems
<1> QED
  BY <1>2, <1>3, <1>4 DEF InFlight

(* The count of numbers when no chunk and no call of Close begins.         *)
LEMMA TakenSame ==
  ASSUME UNCHANGED <<closer, chunks>>
  PROVE  \A y \in Ends : Taken(y)' = Taken(y)
  BY DEF Taken, Called

(* A call of Close that goes on does not count again.                      *)
LEMMA CallGoesOn ==
  ASSUME UTPTypeOK, NEW x \in Ends, NEW k \in Closers[x], NEW c, c # "idle",
         closer[x][k] # "idle", closer' = [closer EXCEPT ![x][k] = c], UNCHANGED chunks
  PROVE  \A y \in Ends : Taken(y)' = Taken(y)
<1>1. \A y \in Ends : Called(y)' = Called(y)
  BY DEF Called, UTPTypeOK
<1> QED
  BY <1>1 DEF Taken

(* A call of Close that begins does.                                       *)
LEMMA CallBegins ==
  ASSUME UTPTypeOK, NEW x \in Ends, NEW k \in Closers[x], NEW c, c # "idle",
         closer[x][k] = "idle", closer' = [closer EXCEPT ![x][k] = c], UNCHANGED chunks
  PROVE  Taken(x)' = Taken(x) + 1 /\ \A y \in Ends : Taken(y) <= Taken(y)'
<1>1. Called(x)' = Called(x) \cup {k} /\ k \notin Called(x)
  BY DEF Called, UTPTypeOK
<1>2. \A y \in Ends : y # x => Called(y)' = Called(y)
  BY DEF Called, UTPTypeOK
<1>3. \A y \in Ends : IsFiniteSet(Called(y))
  <2> TAKE y \in Ends
  <2>1. Called(y) \in SUBSET Closers[y] /\ IsFiniteSet(Closers[y])
    BY UTPAssumption DEF Called
  <2> QED
    BY <2>1, FS_Subset
<1>4. Cardinality(Called(x) \cup {k}) = Cardinality(Called(x)) + 1
  BY <1>1, <1>3, FS_AddElement
<1>5. \A y \in Ends : Cardinality(Called(y)) \in Nat /\ chunks[y] \in Nat
  BY <1>3, FS_CardinalityType, EndTypes, Sizes
<1>6. Taken(x)' = Taken(x) + 1
  <2>1. Taken(x)' = chunks[x] + Cardinality(Called(x)')
    BY DEF Taken
  <2> QED
    BY <1>1, <1>4, <1>5, <2>1 DEF Taken
<1>7. \A y \in Ends : y # x => Taken(y)' = Taken(y)
  BY <1>2 DEF Taken
<1>8. \A y \in Ends : Taken(y) \in Nat
  BY <1>5 DEF Taken
<1> QED
  BY <1>6, <1>7, <1>8

(* When a step leaves y with the numbers it had.                           *)
LEMMA SameFrom ==
  ASSUME NEW x \in Ends, NEW P, NEW y \in Ends, Sends(x, P),
         seq'[y] = seq[y], Taken(y) <= Taken(y)',
         writer'[y] = writer[y] \/ writer'[y].pc # "waiting",
         \A q \in P : y = x /\ q.type # "STATE" =>
           writer[y].pc = "waiting" /\ q = ST_DATA(writer[y].seq, writer[y].chunk),
         \A q \in P : y = Other(x) /\ q.type = "STATE" =>
           \E p \in SentBy(y) : p.seq = q.ack /\ (p.type = "DATA" => p.chunk \in handled'[Other(y)])
  PROVE  SameNumber(y)
<1>1. \A p \in SentBy(y)' :
        \/ p \in SentBy(y)
        \/ writer[y].pc = "waiting" /\ p = ST_DATA(writer[y].seq, writer[y].chunk)
  BY DEF Sends
<1>2. \A s \in AcksTo(y)' :
        \/ s \in AcksTo(y)
        \/ \E p \in SentBy(y) : p.seq = s /\ (p.type = "DATA" => p.chunk \in handled'[Other(y)])
  BY DEF Sends
<1> QED
  BY <1>1, <1>2 DEF SameNumber

(* A step that sends nothing leaves both ends with their numbers.          *)
LEMMA QuietNumbers ==
  ASSUME UNCHANGED seq,
         \A y \in Ends : Taken(y) <= Taken(y)',
         \A y \in Ends : writer'[y] = writer[y] \/ writer'[y].pc # "waiting",
         \A y \in Ends : net'[y] \subseteq net[y],
         \A y \in Ends : Elems(readBuf[y])' \subseteq InFlight(y),
         \A y \in Ends : Elems(ackChan[y])' \subseteq AcksTo(y)
  PROVE  \A y \in Ends : SameNumber(y)
<1>1. PICK x \in Ends : TRUE
  BY DEF Ends
<1>2. Sends(x, {})
  BY QuietSends
<1> QED
  BY <1>2, SameFrom

(* One of the three kinds of step, seen from y.                            *)
NumberStep(y) == SameNumber(y) \/ (\E p : NewNumber(y, p)) \/ FirstNumber(y)

(* Setting up the connection.                                              *)
LEMMA SetupNumbers ==
  ASSUME NumberInv, NoWrap, Dial \/ DialAnswered \/ DialTimeout \/ Accept \/ MuxAccept
  PROVE  \A y \in Ends : NumberStep(y)
<1>a. "dialer" \in Ends /\ "acceptor" \in Ends /\ Other("dialer") = "acceptor"
      /\ Other("acceptor") = "dialer" /\ \A y \in Ends : y = "dialer" \/ y = "acceptor"
  BY DEF Ends, Other
<1>b. UTPTypeOK
  BY DEF NumberInv
<1>c. UNCHANGED <<closer, chunks, writer, ackChan, handled>>
  BY DEF Dial, DialAnswered, DialTimeout, Accept, MuxAccept
<1>d. \A y \in Ends : Taken(y) <= Taken(y)'
  BY <1>b, <1>c, TakenSame, TakenBound
<1>e. \A y \in Ends : Elems(ackChan[y])' \subseteq AcksTo(y)
  BY <1>c, ChannelsSame
<1>1. CASE Dial
  <2>1. Sends("dialer", {ST_SYN})
    BY <1>1, <1>a, <1>b, <1>e, PacketsMade, SentSends, ChannelsSame DEF Dial
  <2>2. FirstNumber("dialer")
    <3>1. SentBy("dialer")' \subseteq SentBy("dialer") \cup {ST_SYN}
          /\ AcksTo("dialer")' \subseteq AcksTo("dialer")
      BY <2>1, <1>a DEF Sends
    <3>2. /\ state["dialer"] = "none" /\ state'["dialer"] # "none"
          /\ seq'["dialer"] = 1
      BY <1>1, <1>a, <1>b DEF Dial, UTPTypeOK
    <3>3. ST_SYN.seq = 1 /\ ST_SYN.type # "DATA"
      BY DEF ST_SYN
    <3> QED
      BY <3>1, <3>2, <3>3, <1>c, Sizes DEF FirstNumber
  <2>3. SameNumber("acceptor")
    <3>1. seq'["acceptor"] = seq["acceptor"]
      BY <1>1, <1>a, <1>b DEF Dial, UTPTypeOK
    <3>2. ST_SYN.type # "STATE"
      BY DEF ST_SYN
    <3> QED
      BY <3>1, <3>2, <2>1, <1>a, <1>c, <1>d, SameFrom
  <2> QED
    BY <2>2, <2>3, <1>a DEF NumberStep
<1>2. CASE DialAnswered
  <2>1. \A y \in Ends : Elems(readBuf[y])' \subseteq InFlight(y)
    BY <1>2, <1>a, <1>b, ReadBufTaken DEF DialAnswered
  <2> QED
    BY <1>2, <2>1, <1>c, <1>d, <1>e, QuietNumbers DEF DialAnswered, NumberStep
<1>3. CASE DialTimeout \/ Accept
  <2>1. UNCHANGED <<readBuf, seq, net>>
    BY <1>3 DEF DialTimeout, Accept
  <2> QED
    BY <2>1, <1>c, <1>d, <1>e, ChannelsSame, QuietNumbers DEF NumberStep
<1>4. CASE MuxAccept
  <2> DEFINE q == ST_STATE(ST_SYN.seq)
  <2>1. q \in Packets /\ q.type = "STATE" /\ q.ack = ST_SYN.seq
    BY PacketsMade, Sizes DEF ST_SYN, ST_STATE
  <2> HIDE DEF q
  <2>2. PICK rest \in Rest("acceptor", ST_SYN) : net' = [Sent("acceptor", q) EXCEPT !["acceptor"] = rest]
    BY <1>4 DEF MuxAccept, q
  <2>3. rest \subseteq net["acceptor"]
    BY DEF Rest
  <2>4. /\ Sent("acceptor", q) \in [Ends -> SUBSET Packets]
        /\ Sent("acceptor", q)["dialer"] \subseteq net["dialer"] \cup {q}
    BY <1>a, <1>b, <2>1, SentType DEF UTPTypeOK
  <2>5. net'["acceptor"] \subseteq net["acceptor"] /\ net'["dialer"] \subseteq net["dialer"] \cup {q}
    BY <1>a, <2>2, <2>3, <2>4
  <2>6. UNCHANGED readBuf
    BY <1>4 DEF MuxAccept
  <2>7. /\ InFlight("acceptor")' \subseteq InFlight("acceptor")
        /\ InFlight("dialer")' \subseteq InFlight("dialer") \cup {q}
    BY <2>5, <2>6 DEF InFlight, Elems
  <2>8. Sends("acceptor", {q})
    BY <2>7, <1>a, <1>e, SendsFrom
  <2>9. FirstNumber("acceptor")
    <3>1. SentBy("acceptor")' \subseteq SentBy("acceptor")
          /\ AcksTo("acceptor")' \subseteq AcksTo("acceptor")
      BY <2>8, <2>1, <1>a DEF Sends
    <3>2. /\ state["acceptor"] = "none" /\ state'["acceptor"] # "none"
          /\ seq'["acceptor"] \in Seqs
      BY <1>4, <1>a, <1>b, UTPAssumption DEF MuxAccept, UTPTypeOK, Seqs
    <3> QED
      BY <3>1, <3>2, <1>c DEF FirstNumber
  <2>10. SameNumber("dialer")
    <3>1. seq'["dialer"] = seq["dialer"]
      BY <1>4, <1>a, <1>b DEF MuxAccept, UTPTypeOK
    <3>2. ST_SYN \in SentBy("dialer") /\ ST_SYN.type # "DATA"
      BY <1>4, <1>a DEF MuxAccept, SentBy, InFlight, ST_SYN
    <3> QED
      BY <3>1, <3>2, <2>1, <2>8, <1>a, <1>c, <1>d, SameFrom
  <2> QED
    BY <2>9, <2>10, <1>a DEF NumberStep
<1> QED
  BY <1>1, <1>2, <1>3, <1>4

(* The network, the multiplexers and the reader.                           *)
LEMMA NetworkNumbers ==
  ASSUME NumberInv, NoWrap, NEW x \in Ends,
         \/ Lose(x) \/ MuxStop(x) \/ (\E p \in net[x] : MuxDeliver(x, p) \/ MuxDrop(x, p))
         \/ RunReturns(x) \/ ReadPayload(x) \/ ReadEOF(x)
  PROVE  \A y \in Ends : NumberStep(y)
<1>a. UTPTypeOK
  BY DEF NumberInv
<1>1. UNCHANGED <<closer, chunks, writer, ackChan, seq>>
  BY DEF Lose, MuxStop, MuxDeliver, MuxDrop, RunReturns, ReadPayload, ReadEOF
<1>2. \A y \in Ends : Taken(y) <= Taken(y)'
  BY <1>a, <1>1, TakenSame, TakenBound
<1>3. \A y \in Ends : Elems(ackChan[y])' \subseteq AcksTo(y)
  BY <1>1, ChannelsSame
<1>4. \A y \in Ends : net'[y] \subseteq net[y]
  <2>1. ASSUME NEW S, S \subseteq net[x], net' = [net EXCEPT ![x] = S]
        PROVE  \A y \in Ends : net'[y] \subseteq net[y]
    BY <1>a, <2>1 DEF UTPTypeOK
  <2>2. CASE Lose(x)
    BY <2>1, <2>2 DEF Lose
  <2>3. ASSUME NEW p \in net[x], MuxDeliver(x, p)
        PROVE  \E S : S \subseteq net[x] /\ net' = [net EXCEPT ![x] = S]
    BY <2>3 DEF MuxDeliver, Rest
  <2>4. ASSUME NEW p \in net[x], MuxDrop(x, p) PROVE \A y \in Ends : net'[y] \subseteq net[y]
    BY <2>1, <2>4 DEF MuxDrop
  <2>5. CASE MuxStop(x) \/ RunReturns(x) \/ ReadPayload(x) \/ ReadEOF(x)
    BY <2>5 DEF MuxStop, RunReturns, ReadPayload, ReadEOF
  <2> QED
    BY <2>1, <2>2, <2>3, <2>4, <2>5
<1>5. \A y \in Ends : Elems(readBuf[y])' \subseteq InFlight(y)
  <2>1. ASSUME NEW p \in net[x], MuxDeliver(x, p)
        PROVE  \A y \in Ends : Elems(readBuf[y])' \subseteq InFlight(y)
    <3>1. readBuf[x] \in Seq(Packets) /\ p \in Packets
      BY <1>a, EndTypes
    <3>2. Elems(Offer(readBuf[x], p, BufCap)) \subseteq Elems(readBuf[x]) \cup {p}
      BY <3>1, Sizes, ElemsOps
    <3>3. \A y \in Ends : readBuf'[y] = IF y = x THEN Offer(readBuf[x], p, BufCap) ELSE readBuf[y]
      BY <1>a, <2>1 DEF MuxDeliver, UTPTypeOK
    <3>4. \A y \in Ends : Elems(readBuf[y])' = Elems(readBuf'[y])
      BY DEF Elems
    <3> QED
      BY <3>2, <3>3, <3>4 DEF InFlight
  <2>2. CASE UNCHANGED readBuf
    BY <2>2, ChannelsSame
  <2> QED
    BY <2>1, <2>2 DEF Lose, MuxStop, MuxDrop, RunReturns, ReadPayload, ReadEOF
<1> QED
  BY <1>1, <1>2, <1>3, <1>4, <1>5, QuietNumbers DEF NumberStep

(* handlePacket acknowledges what it took from readBuf.                    *)
LEMMA HandleNumbers ==
  ASSUME NumberInv, NoWrap, NEW x \in Ends, HandlePacket(x)
  PROVE  \A y \in Ends : NumberStep(y)
<1> DEFINE p == Head(readBuf[x])
<1>a. UTPTypeOK
  BY DEF NumberInv
<1>b. UNCHANGED <<closer, chunks, writer, seq>>
  BY DEF HandlePacket
<1>c. \A y \in Ends : Taken(y) <= Taken(y)'
  BY <1>a, <1>b, TakenSame, TakenBound
<1>d. /\ \A y \in Ends : Elems(readBuf[y])' \subseteq InFlight(y)
      /\ p \in InFlight(x)
  BY <1>a, ReadBufTaken DEF HandlePacket
<1>e. HandleFin(x, p) \/ HandleFinAck(x, p) \/ HandleAck(x, p) \/ HandleData(x, p) \/ HandleSyn(x, p)
  BY DEF HandlePacket
<1>f. p \in Packets
  BY <1>a, <1>d, FlightTypes
<1> HIDE DEF p
<1>1. CASE HandleFin(x, p) \/ HandleData(x, p)
  <2> DEFINE q == ST_STATE(p.seq)
  <2>1. q \in Packets /\ q.type = "STATE" /\ q.ack = p.seq
    BY <1>1, <1>f, PacketFields, PacketsMade DEF HandleFin, HandleData, ST_STATE
  <2>2. net' = Sent(x, q) /\ UNCHANGED ackChan
    BY <1>1 DEF HandleFin, HandleData
  <2> HIDE DEF q
  <2>3. Sends(x, {q})
    BY <1>a, <1>d, <2>1, <2>2, SentSends, ChannelsSame
  <2>4. p \in SentBy(Other(x))
    BY <1>1, <1>d, OtherEnd DEF SentBy, HandleFin, HandleData
  <2>5. p.type = "DATA" => p.chunk \in handled'[x]
    <3>1. handled \in [Ends -> SUBSET Nums]
      BY <1>a DEF UTPTypeOK
    <3>2. p.type = "DATA" => handled' = [handled EXCEPT ![x] = handled[x] \cup {p.chunk}]
      BY <1>1 DEF HandleFin, HandleData
    <3> QED
      BY <3>1, <3>2
  <2>6. SameNumber(Other(x))
    BY <1>b, <1>c, <2>1, <2>3, <2>4, <2>5, OtherEnd, SameFrom
  <2>7. SameNumber(x)
    BY <1>b, <1>c, <2>1, <2>3, OtherEnd, SameFrom
  <2>8. \A y \in Ends : y = x \/ y = Other(x)
    BY DEF Ends, Other
  <2> QED
    BY <2>6, <2>7, <2>8 DEF NumberStep
<1>2. CASE HandleFinAck(x, p) \/ HandleAck(x, p) \/ HandleSyn(x, p)
  <2>1. UNCHANGED net
    BY <1>2 DEF HandleFinAck, HandleAck, HandleSyn
  <2>2. \A y \in Ends : Elems(ackChan[y])' \subseteq AcksTo(y)
    <3>1. CASE HandleAck(x, p)
      <4>1. p.type = "STATE" /\ p.ack \in Seqs /\ ackChan[x] \in Seq(Seqs)
        BY <1>a, <1>f, <3>1, PacketFields, EndTypes DEF HandleAck
      <4>2. p.ack \in AcksTo(x)
        BY <1>d, <4>1 DEF AcksTo
      <4>3. Elems(Offer(ackChan[x], p.ack, BufCap)) \subseteq Elems(ackChan[x]) \cup {p.ack}
        BY <4>1, Sizes, ElemsOps
      <4>4. \A y \in Ends : ackChan'[y] = IF y = x THEN Offer(ackChan[x], p.ack, BufCap) ELSE ackChan[y]
        BY <1>a, <3>1 DEF HandleAck, UTPTypeOK
      <4>5. \A y \in Ends : Elems(ackChan[y])' = Elems(ackChan'[y])
        BY DEF Elems
      <4> QED
        BY <4>2, <4>3, <4>4, <4>5 DEF AcksTo
    <3>2. CASE HandleFinAck(x, p) \/ HandleSyn(x, p)
      BY <3>2, ChannelsSame DEF HandleFinAck, HandleSyn
    <3> QED
      BY <1>2, <3>1, <3>2
  <2> QED
    BY <1>b, <1>c, <1>d, <2>1, <2>2, QuietNumbers DEF NumberStep
<1> QED
  BY <1>e, <1>1, <1>2

(* A transmission of the chunk that Write waits for is no new number.      *)
LEMMA RetransmitNumbers ==
  ASSUME NumberInv, NoWrap, NEW x \in Ends, writer[x].pc = "waiting", Retransmit(x),
         UNCHANGED <<seq, closer, chunks, readBuf>>,
         \A y \in Ends : Elems(ackChan[y])' \subseteq AcksTo(y)
  PROVE  \A y \in Ends : NumberStep(y)
<1> DEFINE q == ST_DATA(writer[x].seq, writer[x].chunk)
<1>a. UTPTypeOK
  BY DEF NumberInv
<1>1. \A y \in Ends : Taken(y) <= Taken(y)'
  BY <1>a, TakenSame, TakenBound
<1>2. writer[x].seq \in Seqs /\ writer[x].chunk \in Nums
  BY <1>a, EndTypes DEF NumberInv, WriterBounded, WriterStates
<1>3. q \in Packets /\ q.type # "STATE"
  BY <1>2, PacketsMade DEF ST_DATA
<1>4. net' = Sent(x, q)
  BY DEF Retransmit
<1>5. \A y \in Ends : writer'[y] = writer[y] \/ writer'[y].pc # "waiting"
  BY <1>a, IdleWriterType DEF Retransmit, UTPTypeOK
<1>6. \A s : s = q => s = ST_DATA(writer[x].seq, writer[x].chunk)
  OBVIOUS
<1> HIDE DEF q
<1>7. Sends(x, {q})
  BY <1>a, <1>3, <1>4, SentSends, ChannelsSame
<1>8. ASSUME NEW y \in Ends PROVE SameNumber(y)
  BY <1>1, <1>3, <1>5, <1>6, <1>7, SameFrom
<1> QED
  BY <1>8 DEF NumberStep

(* Taking an acknowledgment out of ackChan.                                *)
LEMMA AckTaken ==
  ASSUME UTPTypeOK, NEW x \in Ends, ackChan[x] # << >>,
         ackChan' = [ackChan EXCEPT ![x] = Tail(@)]
  PROVE  /\ \A y \in Ends : Elems(ackChan[y])' \subseteq AcksTo(y)
         /\ Head(ackChan[x]) \in AcksTo(x)
<1>1. ackChan[x] \in Seq(Seqs)
  BY EndTypes
<1>2. Head(ackChan[x]) \in Elems(ackChan[x]) /\ Elems(Tail(ackChan[x])) \subseteq Elems(ackChan[x])
  BY <1>1, ElemsOps
<1>3. \A y \in Ends : ackChan'[y] = IF y = x THEN Tail(ackChan[x]) ELSE ackChan[y]
  BY DEF UTPTypeOK
<1>4. \A y \in Ends : Elems(ackChan[y])' = Elems(ackChan'[y])
  BY DEF Elems
<1> QED
  BY <1>2, <1>3, <1>4 DEF AcksTo

(* Write and its waits.                                                    *)
LEMMA WriteNumbers ==
  ASSUME NumberInv, NoWrap, NEW x \in Ends,
         Write(x) \/ SendChunk(x) \/ WriteAcked(x) \/ WriteTimeout(x) \/ WriteDeadline(x)
  PROVE  \A y \in Ends : NumberStep(y)
<1>a. UTPTypeOK /\ WriterBounded /\ QuietBefore(x)
  BY DEF NumberInv
<1>b. UNCHANGED <<closer, readBuf>>
  BY DEF Write, SendChunk, WriteAcked, WriteTimeout, WriteDeadline
<1>c. \A y \in Ends : Elems(readBuf[y])' \subseteq InFlight(y)
  BY <1>b, ChannelsSame
<1>d. UNCHANGED chunks => \A y \in Ends : Taken(y) <= Taken(y)'
  BY <1>a, <1>b, TakenSame, TakenBound
<1>1. CASE Write(x)
  <2>1. \A y \in Ends : writer'[y] = writer[y] \/ writer'[y].pc # "waiting"
    BY <1>1, <1>a, IdleWriterType DEF Write, UTPTypeOK
  <2> QED
    BY <1>1, <1>c, <1>d, <2>1, ChannelsSame, QuietNumbers DEF Write, NumberStep
<1>2. CASE SendChunk(x)
  <2> DEFINE s == (seq[x] + 1) % SeqMod
             c == chunks[x] + 1
             p == ST_DATA(s, c)
  <2>1. s \in Seqs
    BY <1>a, EndTypes, NextSeq
  <2>2. c \in Nums
    <3>1. /\ chunks[x] \in Nat /\ writer[x].left \in Nat /\ writer[x].left > 0
          /\ chunks[x] + writer[x].left <= MaxChunks
      BY <1>2, <1>a, EndTypes, Sizes DEF SendChunk, WriterBounded, WriterStates
    <3> QED
      BY <3>1, Sizes DEF Nums
  <2>3. p \in Packets /\ p.type # "STATE" /\ p.seq = s
    BY <2>1, <2>2, PacketsMade DEF ST_DATA
  <2>4. net' = Sent(x, p) /\ UNCHANGED ackChan
    BY <1>2 DEF SendChunk
  <2>5. Sends(x, {p})
    <3> HIDE DEF p
    <3> QED
      BY <1>a, <1>c, <2>3, <2>4, SentSends, ChannelsSame
  <2>6. \A y \in Ends : chunks'[y] = IF y = x THEN chunks[y] + 1 ELSE chunks[y]
    BY <1>2, <1>a DEF SendChunk, UTPTypeOK
  <2>7. Taken(x)' = Taken(x) + 1 /\ Taken(Other(x))' = Taken(Other(x))
    <3>1. \A y \in Ends : Called(y)' = Called(y)
      BY <1>b DEF Called
    <3>2. chunks[x] \in Nat /\ Cardinality(Called(x)) \in Nat
      <4>1. Called(x) \in SUBSET Closers[x] /\ IsFiniteSet(Closers[x])
        BY UTPAssumption DEF Called
      <4> QED
        BY <4>1, FS_Subset, FS_CardinalityType, <1>a, EndTypes, Sizes
    <3>3. \A y \in Ends : Taken(y)' = chunks'[y] + Cardinality(Called(y))
      BY <3>1 DEF Taken
    <3>4. chunks[x] + 1 + Cardinality(Called(x)) = chunks[x] + Cardinality(Called(x)) + 1
      BY <3>2
    <3> QED
      BY <2>6, <3>3, <3>4, OtherEnd DEF Taken
  <2>8. SameNumber(Other(x))
    <3>1. seq'[Other(x)] = seq[Other(x)] /\ writer'[Other(x)] = writer[Other(x)]
      BY <1>2, <1>a, OtherEnd DEF SendChunk, UTPTypeOK
    <3>2. Taken(Other(x)) <= Taken(Other(x))'
      BY <1>a, <2>7, TakenBound, OtherEnd
    <3> HIDE DEF p
    <3> QED
      BY <2>3, <2>5, <3>1, <3>2, OtherEnd, SameFrom
  <2>9. NewNumber(x, p)
    <3>1. state[x] # "none"
      BY <1>2, <1>a DEF SendChunk, QuietBefore
    <3>2. seq'[x] = s
      BY <1>2, <1>a DEF SendChunk, UTPTypeOK
    <3>3. SentBy(x)' \subseteq SentBy(x) \cup {p} /\ AcksTo(x)' \subseteq AcksTo(x)
      <4> HIDE DEF p
      <4> QED
        BY <2>3, <2>5, OtherEnd DEF Sends
    <3>4. writer'[x].pc # "waiting" \/ (writer'[x].seq = s /\ writer'[x].chunk = c)
      BY <1>2, <1>a, IdleWriterType DEF SendChunk, UTPTypeOK
    <3>5. up[x] \/ SentBy(x)' \subseteq SentBy(x)
      <4> SUFFICES ASSUME ~up[x] PROVE SentBy(x)' \subseteq SentBy(x)
        OBVIOUS
      <4>1. UNCHANGED net
        BY <2>4 DEF Sent
      <4>2. Sends(x, {})
        BY <4>1, <1>c, <2>4, QuietSends, ChannelsSame
      <4> QED
        BY <4>2 DEF Sends
    <3>6. writer[x].pc = "sending" /\ p.chunk = chunks[x] + 1
      BY <1>2 DEF SendChunk, ST_DATA
    <3> QED
      BY <2>3, <2>7, <3>1, <3>2, <3>3, <3>4, <3>5, <3>6 DEF NewNumber
  <2>10. \A y \in Ends : y = x \/ y = Other(x)
    BY DEF Ends, Other
  <2> QED
    BY <2>8, <2>9, <2>10 DEF NumberStep
<1>3. CASE WriteAcked(x)
  <2>1. \A y \in Ends : Elems(ackChan[y])' \subseteq AcksTo(y)
    BY <1>3, <1>a, AckTaken DEF WriteAcked
  <2>2. UNCHANGED <<seq, chunks>> /\ writer[x].pc = "waiting"
    BY <1>3 DEF WriteAcked, Waiting
  <2>3. CASE ChunkDone(x)
    <3>1. writer[x].left \in 0 .. MaxWrite
      BY <1>a, EndTypes DEF WriterStates
    <3>2. \A y \in Ends : writer'[y] = writer[y] \/ writer'[y].pc # "waiting"
      <4> DEFINE w == [IdleWriter EXCEPT !.pc = "sending", !.left = writer[x].left]
      <4>1. w.pc = "sending"
        BY DEF IdleWriter
      <4>2. /\ writer \in [Ends -> WriterStates]
            /\ writer' = [writer EXCEPT ![x] = IF writer[x].left > 0 THEN w ELSE IdleWriter]
        BY <2>3, <1>a DEF ChunkDone, UTPTypeOK
      <4> HIDE DEF w
      <4> QED
        BY <4>1, <4>2, IdleWriterType
    <3>3. UNCHANGED net
      BY <2>3 DEF ChunkDone
    <3> QED
      BY <1>c, <1>d, <2>1, <2>2, <3>2, <3>3, QuietNumbers DEF NumberStep
  <2>4. CASE Retransmit(x)
    BY <1>b, <2>1, <2>2, <2>4, RetransmitNumbers
  <2> QED
    BY <1>3, <2>3, <2>4 DEF WriteAcked
<1>4. CASE WriteTimeout(x)
  <2>1. UNCHANGED <<seq, chunks, ackChan>> /\ writer[x].pc = "waiting"
    BY <1>4 DEF WriteTimeout, Waiting
  <2>2. CASE Retransmit(x)
    BY <1>b, <2>1, <2>2, RetransmitNumbers, ChannelsSame
  <2>3. CASE writer' = [writer EXCEPT ![x] = IdleWriter] /\ UNCHANGED net
    <3>1. \A y \in Ends : writer'[y] = writer[y] \/ writer'[y].pc # "waiting"
      BY <2>3, <1>a, IdleWriterType DEF UTPTypeOK
    <3> QED
      BY <1>c, <1>d, <2>1, <2>3, <3>1, ChannelsSame, QuietNumbers DEF NumberStep
  <2> QED
    BY <1>4, <2>2, <2>3 DEF WriteTimeout
<1>5. CASE WriteDeadline(x)
  <2>1. \A y \in Ends : writer'[y] = writer[y] \/ writer'[y].pc # "waiting"
    BY <1>5, <1>a, IdleWriterType DEF WriteDeadline, UTPTypeOK
  <2> QED
    BY <1>5, <1>c, <1>d, <2>1, ChannelsSame, QuietNumbers DEF WriteDeadline, NumberStep
<1> QED
  BY <1>1, <1>2, <1>3, <1>4, <1>5

(* Close and its waits.                                                    *)
LEMMA CloseNumbers ==
  ASSUME NumberInv, NoWrap, NEW x \in Ends, NEW k \in Closers[x],
         Close(x, k) \/ CloseAcked(x, k) \/ CloseTimeout(x, k)
  PROVE  \A y \in Ends : NumberStep(y)
<1>a. UTPTypeOK
  BY DEF NumberInv
<1>b. UNCHANGED <<chanVars, writer, chunks>>
  BY DEF Close, CloseAcked, CloseTimeout
<1>c. /\ \A y \in Ends : Elems(readBuf[y])' \subseteq InFlight(y)
      /\ \A y \in Ends : Elems(ackChan[y])' \subseteq AcksTo(y)
  BY <1>b, ChannelsSame
<1>1. CASE Close(x, k)
  <2>1. PICK c : c # "idle" /\ closer' = [closer EXCEPT ![x][k] = c]
    BY <1>1 DEF Close
  <2>2. closer[x][k] = "idle"
    BY <1>1 DEF Close
  <2>3. Taken(x)' = Taken(x) + 1 /\ \A y \in Ends : Taken(y) <= Taken(y)'
    BY <1>a, <1>b, <2>1, <2>2, CallBegins
  <2>4. CASE state[x] = "closed"
    <3>1. UNCHANGED <<seq, net>>
      BY <1>1, <2>4 DEF Close
    <3> QED
      BY <1>b, <1>c, <2>3, <3>1, QuietNumbers DEF NumberStep
  <2>5. CASE state[x] # "closed"
    <3> DEFINE s == (seq[x] + 1) % SeqMod
               p == ST_FIN(s)
    <3>1. s \in Seqs
      BY <1>a, EndTypes, NextSeq
    <3>2. p \in Packets /\ p.type = "FIN" /\ p.seq = s
      BY <3>1, PacketsMade DEF ST_FIN
    <3>3. net' = Sent(x, p) /\ seq' = [seq EXCEPT ![x] = s]
      BY <1>1, <2>5 DEF Close
    <3>4. seq'[x] = s /\ seq'[Other(x)] = seq[Other(x)]
      BY <1>a, <3>3, OtherEnd DEF UTPTypeOK
    <3>5. state[x] # "none"
      BY <1>1 DEF Close, InUse
    <3>6. p.seq = (seq[x] + 1) % SeqMod /\ seq'[x] = (seq[x] + 1) % SeqMod
      BY <3>2, <3>4
    <3> HIDE DEF s, p
    <3>7. Sends(x, {p})
      BY <1>a, <1>c, <3>2, <3>3, SentSends
    <3>8. SameNumber(Other(x))
      BY <1>b, <2>3, <3>2, <3>4, <3>7, OtherEnd, SameFrom
    <3>9. SentBy(x)' \subseteq SentBy(x) \cup {p} /\ AcksTo(x)' \subseteq AcksTo(x)
      BY <3>2, <3>7, OtherEnd DEF Sends
    <3>10. NewNumber(x, p)
      BY <1>b, <2>3, <3>2, <3>5, <3>6, <3>9 DEF NewNumber
    <3>11. \A y \in Ends : y = x \/ y = Other(x)
      BY DEF Ends, Other
    <3> QED
      BY <3>8, <3>10, <3>11 DEF NumberStep
  <2> QED
    BY <2>4, <2>5
<1>2. CASE CloseAcked(x, k) \/ CloseTimeout(x, k)
  <2>1. /\ closer[x][k] = "waiting" /\ closer' = [closer EXCEPT ![x][k] = "returned"]
        /\ UNCHANGED <<seq, net>>
    BY <1>2 DEF CloseAcked, CloseTimeout
  <2>2. \A y \in Ends : Taken(y)' = Taken(y)
    BY <1>a, <1>b, <2>1, CallGoesOn
  <2>3. \A y \in Ends : Taken(y) <= Taken(y)'
    BY <1>a, <2>2, TakenBound
  <2> QED
    BY <1>b, <1>c, <2>1, <2>3, QuietNumbers DEF NumberStep
<1> QED
  BY <1>1, <1>2

(* Every step is of one of the three kinds for each end.                   *)
LEMMA EveryNumberStep ==
  ASSUME NumberInv, NoWrap, [Next]_vars
  PROVE  \A y \in Ends : NumberStep(y)
<1>1. CASE UNCHANGED vars
  <2>1. UNCHANGED <<seq, net, writer, closer, chunks, readBuf, ackChan>>
    BY <1>1 DEF vars
  <2>2. UTPTypeOK
    BY DEF NumberInv
  <2>3. \A y \in Ends : Taken(y) <= Taken(y)'
    BY <2>1, <2>2, TakenSame, TakenBound
  <2> QED
    BY <2>1, <2>3, ChannelsSame, QuietNumbers DEF NumberStep
<1> QED
  BY <1>1, SetupNumbers, NetworkNumbers, HandleNumbers, WriteNumbers, CloseNumbers DEF Next

(* Only handlePacket changes what was handled.                             *)
LEMMA HandledSteps ==
  ASSUME [Next]_vars
  PROVE  UNCHANGED handled \/ \E x \in Ends : HandlePacket(x)
<1>1. ASSUME NEW x \in Ends,
             \/ Lose(x) \/ MuxStop(x) \/ (\E p \in net[x] : MuxDeliver(x, p) \/ MuxDrop(x, p))
             \/ RunReturns(x) \/ ReadPayload(x) \/ ReadEOF(x) \/ Write(x) \/ SendChunk(x)
             \/ WriteAcked(x) \/ WriteTimeout(x) \/ WriteDeadline(x)
             \/ (\E k \in Closers[x] : Close(x, k) \/ CloseAcked(x, k) \/ CloseTimeout(x, k))
      PROVE  UNCHANGED handled
  BY <1>1 DEF Lose, MuxStop, MuxDeliver, MuxDrop, RunReturns, ReadPayload, ReadEOF, Write, SendChunk,
              WriteAcked, WriteTimeout, WriteDeadline, Close, CloseAcked, CloseTimeout
<1>2. CASE Dial \/ DialAnswered \/ DialTimeout \/ MuxAccept \/ Accept \/ UNCHANGED vars
  BY <1>2 DEF Dial, DialAnswered, DialTimeout, MuxAccept, Accept, vars
<1> QED
  BY <1>1, <1>2 DEF Next

(* What an end handled stays handled.                                      *)
LEMMA HandledGrows ==
  ASSUME UTPTypeOK, [Next]_vars
  PROVE  \A y \in Ends : handled[y] \subseteq handled'[y]
<1>1. ASSUME NEW x \in Ends, HandlePacket(x)
      PROVE  \/ UNCHANGED handled
             \/ \E c : handled' = [handled EXCEPT ![x] = handled[x] \cup {c}]
  BY <1>1 DEF HandlePacket, HandleFin, HandleFinAck, HandleAck, HandleData, HandleSyn
<1>2. ASSUME NEW x \in Ends, HandlePacket(x) PROVE \A y \in Ends : handled[y] \subseteq handled'[y]
  <2>1. handled \in [Ends -> SUBSET Nums]
    BY DEF UTPTypeOK
  <2> QED
    BY <2>1, <1>1, <1>2
<1> QED
  BY <1>2, HandledSteps

(* The steps that change a writer, the chunks or what is acknowledged.     *)
LEMMA WriterSteps ==
  ASSUME [Next]_vars
  PROVE  \/ UNCHANGED <<writer, chunks, acked>>
         \/ \E x \in Ends : \/ Write(x) \/ SendChunk(x) \/ WriteAcked(x)
                            \/ WriteTimeout(x) \/ WriteDeadline(x)
<1>1. ASSUME NEW x \in Ends,
             \/ Lose(x) \/ MuxStop(x) \/ (\E p \in net[x] : MuxDeliver(x, p) \/ MuxDrop(x, p))
             \/ RunReturns(x) \/ ReadPayload(x) \/ ReadEOF(x) \/ HandlePacket(x)
             \/ (\E k \in Closers[x] : Close(x, k) \/ CloseAcked(x, k) \/ CloseTimeout(x, k))
      PROVE  UNCHANGED <<writer, chunks, acked>>
  BY <1>1 DEF Lose, MuxStop, MuxDeliver, MuxDrop, RunReturns, ReadPayload, ReadEOF, HandlePacket,
              Close, CloseAcked, CloseTimeout
<1>2. CASE Dial \/ DialAnswered \/ DialTimeout \/ MuxAccept \/ Accept \/ UNCHANGED vars
  BY <1>2 DEF Dial, DialAnswered, DialTimeout, MuxAccept, Accept, vars
<1> QED
  BY <1>1, <1>2 DEF Next

(* The same for one end.                                                   *)
LEMMA WriterMoves ==
  ASSUME UTPTypeOK, [Next]_vars, NEW x \in Ends
  PROVE  \/ writer'[x] = writer[x] /\ chunks'[x] = chunks[x]
         \/ Write(x) \/ SendChunk(x) \/ WriteAcked(x) \/ WriteTimeout(x) \/ WriteDeadline(x)
<1>1. ASSUME NEW y \in Ends, y # x,
             Write(y) \/ SendChunk(y) \/ WriteAcked(y) \/ WriteTimeout(y) \/ WriteDeadline(y)
      PROVE  writer'[x] = writer[x] /\ chunks'[x] = chunks[x]
  <2>1. \E w : writer' = [writer EXCEPT ![y] = w] \/ writer' = writer
    BY <1>1 DEF Write, SendChunk, WriteAcked, WriteTimeout, WriteDeadline, ChunkDone, Retransmit
  <2>2. \E w : chunks' = [chunks EXCEPT ![y] = w] \/ chunks' = chunks
    BY <1>1 DEF Write, SendChunk, WriteAcked, WriteTimeout, WriteDeadline
  <2> QED
    BY <1>1, <2>1, <2>2 DEF UTPTypeOK
<1> QED
  BY <1>1, WriterSteps

(* A conn that is not connected yet was not connected before, and writes   *)
(* nothing.                                                                *)
LEMMA NotYetConnected ==
  ASSUME UTPTypeOK, [Next]_vars, NEW x \in Ends, QuietBefore(x),
         state'[x] \in {"none", "syn_sent", "failed"}
  PROVE  /\ state'[x] = "none" => state[x] = "none"
         /\ writer'[x].pc = "idle" /\ chunks'[x] = 0
<1>1. /\ state[x] \in {"none", "syn_sent", "failed"}
      /\ state'[x] = "none" => state[x] = "none"
  BY StateSteps DEF Dial, DialAnswered, DialTimeout, MuxAccept, Release, SendFin, UTPTypeOK
<1>2. writer[x].pc = "idle" /\ chunks[x] = 0
  BY <1>1 DEF QuietBefore
<1>3. ~(Write(x) \/ SendChunk(x) \/ WriteAcked(x) \/ WriteTimeout(x) \/ WriteDeadline(x))
  BY <1>1, <1>2 DEF Write, SendChunk, WriteAcked, WriteTimeout, WriteDeadline, Waiting
<1> QED
  BY <1>1, <1>2, <1>3, WriterMoves

(* A chunk counts as acknowledged only when it was handled.                *)
LEMMA AckedStep ==
  ASSUME NumberInv, [Next]_vars
  PROVE  AckedWasHandled'
<1>a. UTPTypeOK /\ AckedWasHandled
  BY DEF NumberInv
<1>b. \A y \in Ends : handled[Other(y)] \subseteq handled'[Other(y)]
  BY <1>a, HandledGrows, OtherEnd
<1> SUFFICES ASSUME NEW y \in Ends PROVE acked'[y] \subseteq handled'[Other(y)]
  BY DEF AckedWasHandled, Other
<1>1. CASE UNCHANGED acked
  BY <1>1, <1>a, <1>b DEF AckedWasHandled
<1>2. ASSUME NEW x \in Ends, WriteAcked(x), ~UNCHANGED acked
      PROVE  acked'[y] \subseteq handled'[Other(y)]
  <2>1. ChunkDone(x) /\ Head(ackChan[x]) = writer[x].seq /\ writer[x].pc = "waiting"
    BY <1>2 DEF WriteAcked, Waiting
  <2>2. Head(ackChan[x]) \in AcksTo(x)
    BY <1>2, <1>a, AckTaken DEF WriteAcked
  <2>3. writer[x].chunk \in handled[Other(x)]
    BY <2>1, <2>2 DEF NumberInv, WaitsForOwn
  <2>4. acked'[y] = IF y = x THEN acked[x] \cup {writer[x].chunk} ELSE acked[y]
    BY <2>1, <1>a DEF ChunkDone, UTPTypeOK
  <2> QED
    BY <2>3, <2>4, <1>a, <1>b DEF AckedWasHandled
<1>3. ASSUME NEW x \in Ends, Write(x) \/ SendChunk(x) \/ WriteTimeout(x) \/ WriteDeadline(x)
      PROVE  UNCHANGED acked
  BY <1>3 DEF Write, SendChunk, WriteTimeout, WriteDeadline
<1> QED
  BY <1>1, <1>2, <1>3, WriterSteps

(* Every step keeps the invariant of the sequence numbers.                 *)
LEMMA NumberStepKeeps == NoWrap /\ NumberInv /\ [Next]_vars => NumberInv'
<1> SUFFICES ASSUME NoWrap, NumberInv, [Next]_vars PROVE NumberInv'
  OBVIOUS
<1>1. UTPTypeOK /\ WriterBounded /\ \A x \in Ends : QuietBefore(x) /\ Recent(x) /\ WaitsForOwn(x)
  BY DEF NumberInv
<1>2. UTPTypeOK' /\ WriterBounded'
  BY <1>1, UTPTypeStep
<1>3. ASSUME NEW x \in Ends PROVE QuietBefore(x)' /\ Recent(x)' /\ WaitsForOwn(x)'
  <2>1. handled[Other(x)] \subseteq handled'[Other(x)]
    BY <1>1, HandledGrows, OtherEnd
  <2>2. NumberStep(x)
    BY EveryNumberStep
  <2>3. SameNumber(x) => Recent(x)' /\ WaitsForOwn(x)' /\ Numbers(x)' \subseteq Numbers(x)
    BY <2>1, <1>1, <1>2, SameKeeps
  <2>4. Recent(x)' /\ WaitsForOwn(x)'
    <3>1. ASSUME NEW p, NewNumber(x, p) PROVE Recent(x)' /\ WaitsForOwn(x)'
      BY <3>1, <2>1, <1>1, NewKeeps
    <3>2. CASE FirstNumber(x)
      BY <3>2, <1>1, <1>2, FirstKeeps
    <3> QED
      BY <2>3, <3>1, <3>2, <2>2 DEF NumberStep
  <2>5. state'[x] = "none" => Numbers(x)' = {}
    <3> SUFFICES ASSUME state'[x] = "none" PROVE Numbers(x)' = {}
      OBVIOUS
    <3>1. state[x] = "none" /\ Numbers(x) = {}
      BY <1>1, NotYetConnected DEF QuietBefore
    <3>2. SameNumber(x)
      BY <2>2, <3>1 DEF NumberStep, NewNumber, FirstNumber
    <3> QED
      BY <2>3, <3>1, <3>2
  <2>6. state'[x] \in {"none", "syn_sent", "failed"} => writer'[x].pc = "idle" /\ chunks'[x] = 0
    BY <1>1, NotYetConnected
  <2>7. QuietBefore(x)'
    BY <2>5, <2>6 DEF QuietBefore
  <2> QED
    BY <2>4, <2>7
<1>4. AckedWasHandled'
  BY AckedStep
<1> QED
  BY <1>2, <1>3, <1>4 DEF NumberInv

(* It holds at the start.                                                  *)
LEMMA NumberInit == Init => NumberInv
<1> SUFFICES ASSUME Init PROVE NumberInv
  OBVIOUS
<1>1. UTPTypeOK /\ WriterBounded
  BY UTPTypeInit
<1>2. \A x \in Ends : Numbers(x) = {}
  <2>1. \A x \in Ends : InFlight(x) = {} /\ Elems(ackChan[x]) = {}
    BY DEF Init, InFlight, Elems
  <2>2. \A x \in Ends : SentBy(x) = {} /\ AcksTo(x) = {}
    BY <2>1, OtherEnd DEF SentBy, AcksTo
  <2> QED
    BY <2>2 DEF Numbers, Init, IdleWriter
<1>3. \A x \in Ends : writer[x].pc = "idle" /\ chunks[x] = 0 /\ acked[x] = {}
  BY IdleWriterType DEF Init
<1> QED
  BY <1>1, <1>2, <1>3 DEF NumberInv, QuietBefore, Recent, WaitsForOwn, AckedWasHandled

(* As long as the sequence numbers do not come round, no acknowledgment    *)
(* that is lost, late, repeated or overtaken completes a Write whose chunk *)
(* the other end did not handle: Write compares one number, and that       *)
(* number belongs to its chunk alone.                                      *)
THEOREM AckedHandled == NoWrap => (Spec => []AckedWasHandled)
<1>1. NumberInv => AckedWasHandled
  BY DEF NumberInv
<1>2. NoWrap => (Spec => []NumberInv)
  <2>1. NoWrap => []NoWrap
    <3>1. NoWrap => NoWrap'
      BY DEF NoWrap
    <3> QED
      BY <3>1, PTL
  <2> QED
    BY <2>1, NumberInit, NumberStepKeeps, PTL DEF Spec
<1> QED
  BY <1>1, <1>2, PTL

-----------------------------------------------------------------------------
(* No gaps *)

(* What the invariant says of one end: of the chunks in flight, of the     *)
(* chunk that Write waits for, and of the chunks before the next one.      *)
FlightInOrder(x) ==
  \A p \in SentBy(x) : p.type = "DATA" => 1 .. (p.chunk - 1) \subseteq handled[Other(x)]

WaitInOrder(x) ==
  writer[x].pc = "waiting" =>
    writer[x].chunk = chunks[x] /\ 1 .. (chunks[x] - 1) \subseteq handled[Other(x)]

SendInOrder(x) ==
  up[x] /\ (writer[x].pc = "sending" \/ (writer[x].pc = "idle" /\ state[x] = "connected"))
    => 1 .. chunks[x] \subseteq handled[Other(x)]

(* A socket that was closed stays closed.                                  *)
LEMMA UpFalls ==
  ASSUME UTPTypeOK, [Next]_vars, NEW x \in Ends, up'[x]
  PROVE  up[x]
<1>1. ASSUME NEW y \in Ends, MuxStop(y) PROVE up[x]
  BY <1>1 DEF MuxStop, UTPTypeOK
<1>2. ASSUME NEW y \in Ends,
             \/ Lose(y) \/ (\E p \in net[y] : MuxDeliver(y, p) \/ MuxDrop(y, p)) \/ HandlePacket(y)
             \/ RunReturns(y) \/ ReadPayload(y) \/ ReadEOF(y) \/ Write(y) \/ SendChunk(y)
             \/ WriteAcked(y) \/ WriteTimeout(y) \/ WriteDeadline(y)
             \/ (\E k \in Closers[y] : Close(y, k) \/ CloseAcked(y, k) \/ CloseTimeout(y, k))
      PROVE  UNCHANGED up
  BY <1>2 DEF Lose, MuxDeliver, MuxDrop, HandlePacket, RunReturns, ReadPayload, ReadEOF, Write,
              SendChunk, WriteAcked, WriteTimeout, WriteDeadline, Close, CloseAcked, CloseTimeout
<1>3. CASE Dial \/ DialAnswered \/ DialTimeout \/ MuxAccept \/ Accept \/ UNCHANGED vars
  BY <1>3 DEF Dial, DialAnswered, DialTimeout, MuxAccept, Accept, vars
<1> QED
  BY <1>1, <1>2, <1>3 DEF Next

(* A conn becomes connected before anything is written.                    *)
LEMMA ConnectedFresh ==
  ASSUME UTPTypeOK, [Next]_vars, NEW x \in Ends, QuietBefore(x),
         state'[x] = "connected", state[x] # "connected"
  PROVE  state[x] \in {"none", "syn_sent", "failed"} /\ writer[x].pc = "idle" /\ chunks[x] = 0
<1>1. state[x] \in {"none", "syn_sent", "failed"}
  BY StateSteps DEF Dial, DialAnswered, DialTimeout, MuxAccept, Release, SendFin, UTPTypeOK
<1> QED
  BY <1>1 DEF QuietBefore

(* Every step keeps the chunks of one end in order.                        *)
LEMMA OrderStep ==
  ASSUME NoWrap, ~Deadlines, NumberInv, [Next]_vars, NEW x \in Ends,
         FlightInOrder(x), WaitInOrder(x), SendInOrder(x)
  PROVE  FlightInOrder(x)' /\ WaitInOrder(x)' /\ SendInOrder(x)'
<1>a. UTPTypeOK /\ WriterBounded /\ QuietBefore(x) /\ WaitsForOwn(x)
  BY DEF NumberInv
<1>b. handled[Other(x)] \subseteq handled'[Other(x)]
  BY <1>a, HandledGrows, OtherEnd
<1>c. chunks[x] \in Nat /\ MaxChunks \in Nat
  BY <1>a, EndTypes, Sizes
<1>1. FlightInOrder(x)'
  <2> SUFFICES ASSUME NEW p \in SentBy(x)', p.type = "DATA"
               PROVE  1 .. (p.chunk - 1) \subseteq handled[Other(x)]
    BY <1>b DEF FlightInOrder, Other
  <2>1. CASE p \in SentBy(x)
    BY <2>1 DEF FlightInOrder
  <2>2. CASE writer[x].pc = "waiting" /\ p = ST_DATA(writer[x].seq, writer[x].chunk)
    BY <2>2, DataFields DEF WaitInOrder
  <2>3. ASSUME p \notin SentBy(x), writer[x].pc = "sending", p.chunk = chunks[x] + 1, up[x]
        PROVE  1 .. (p.chunk - 1) \subseteq handled[Other(x)]
    BY <2>3, <1>c DEF SendInOrder
  <2>4. NumberStep(x)
    BY EveryNumberStep
  <2> QED
    BY <2>1, <2>2, <2>3, <2>4 DEF NumberStep, SameNumber, NewNumber, FirstNumber
<1>2. CASE writer'[x] = writer[x] /\ chunks'[x] = chunks[x]
  <2>1. WaitInOrder(x)'
    BY <1>2, <1>b DEF WaitInOrder, Other
  <2>2. SendInOrder(x)'
    <3> SUFFICES ASSUME up'[x], writer[x].pc = "sending" \/ (writer[x].pc = "idle" /\ state'[x] = "connected")
                 PROVE  1 .. chunks[x] \subseteq handled'[Other(x)]
      BY <1>2 DEF SendInOrder, Other
    <3>1. up[x]
      BY <1>a, UpFalls
    <3>2. CASE writer[x].pc = "sending" \/ state[x] = "connected"
      BY <3>1, <3>2, <1>b DEF SendInOrder
    <3>3. CASE state'[x] = "connected" /\ state[x] # "connected"
      <4>1. chunks[x] = 0
        BY <3>3, <1>a, ConnectedFresh
      <4> QED
        BY <4>1
    <3> QED
      BY <3>2, <3>3
  <2> QED
    BY <1>1, <2>1, <2>2
<1>3. CASE Write(x)
  <2>1. PICK k \in 1 .. MaxWrite :
          writer' = [writer EXCEPT ![x] = [IdleWriter EXCEPT !.pc = "sending", !.left = k]]
    BY <1>3 DEF Write
  <2>2. writer'[x].pc = "sending"
    <3> DEFINE w == [IdleWriter EXCEPT !.pc = "sending", !.left = k]
    <3>1. w.pc = "sending"
      BY DEF IdleWriter
    <3> HIDE DEF w
    <3>2. writer' = [writer EXCEPT ![x] = w]
      BY <2>1 DEF w
    <3> QED
      BY <3>1, <3>2, <1>a DEF UTPTypeOK
  <2>3. writer[x].pc = "idle" /\ state[x] = "connected" /\ UNCHANGED <<chunks, up>>
    BY <1>3 DEF Write
  <2> QED
    BY <1>1, <2>2, <2>3, <1>b DEF WaitInOrder, SendInOrder, Other
<1>4. CASE SendChunk(x)
  <2>1. /\ writer[x].pc = "sending"
        /\ chunks'[x] = chunks[x] + 1
        /\ writer'[x].pc = "waiting" => writer'[x].chunk = chunks[x] + 1 /\ up[x]
    BY <1>4, <1>a, IdleWriterType DEF SendChunk, UTPTypeOK
  <2>2. up'[x] => writer'[x].pc = "waiting"
    BY <1>4, <1>a DEF SendChunk, UTPTypeOK
  <2>3. WaitInOrder(x)'
    <3>1. ASSUME up[x] PROVE 1 .. chunks[x] \subseteq handled'[Other(x)]
      <4>1. 1 .. chunks[x] \subseteq handled[Other(x)]
        BY <2>1, <3>1 DEF SendInOrder
      <4> QED
        BY <4>1, <1>b
    <3>2. writer'[x].pc = "waiting" =>
            /\ writer'[x].chunk = chunks'[x]
            /\ 1 .. (chunks'[x] - 1) \subseteq handled'[Other(x)]
      <4> SUFFICES ASSUME writer'[x].pc = "waiting"
                   PROVE  /\ writer'[x].chunk = chunks'[x]
                          /\ 1 .. (chunks'[x] - 1) \subseteq handled'[Other(x)]
        OBVIOUS
      <4>1. up[x] /\ writer'[x].chunk = chunks'[x]
        BY <2>1
      <4>2. chunks'[x] - 1 = chunks[x]
        BY <2>1, <1>c
      <4>3. 1 .. chunks[x] \subseteq handled'[Other(x)]
        BY <3>1, <4>1
      <4> QED
        BY <4>1, <4>2, <4>3
    <3> QED
      BY <3>2 DEF WaitInOrder, Other
  <2>4. SendInOrder(x)'
    BY <2>2 DEF SendInOrder
  <2> QED
    BY <1>1, <2>3, <2>4
<1>5. CASE WriteAcked(x) \/ WriteTimeout(x)
  <2>1. writer[x].pc = "waiting" /\ UNCHANGED <<chunks, up, state>>
    BY <1>5 DEF WriteAcked, WriteTimeout, Waiting
  <2>2. writer[x].chunk = chunks[x] /\ 1 .. (chunks[x] - 1) \subseteq handled[Other(x)]
    BY <2>1 DEF WaitInOrder
  <2>3. CASE Retransmit(x)
    <3>1. writer'[x] = writer[x] \/ (~up[x] /\ writer'[x].pc = "idle")
      BY <2>3, <1>a, IdleWriterType DEF Retransmit, UTPTypeOK
    <3> QED
      BY <1>1, <2>1, <2>2, <3>1, <1>b DEF WaitInOrder, SendInOrder, Other
  <2>4. CASE WriteTimeout(x) /\ state[x] = "closed"
    <3>1. writer'[x].pc = "idle"
      BY <2>4, <1>a, IdleWriterType DEF WriteTimeout, UTPTypeOK
    <3> QED
      BY <1>1, <2>1, <2>4, <3>1 DEF WaitInOrder, SendInOrder
  <2>5. CASE WriteAcked(x) /\ Head(ackChan[x]) = writer[x].seq /\ ChunkDone(x)
    <3>1. Head(ackChan[x]) \in AcksTo(x)
      BY <2>5, <1>a, AckTaken DEF WriteAcked
    <3>2. chunks[x] \in handled[Other(x)]
      BY <2>1, <2>2, <2>5, <3>1, <1>a DEF WaitsForOwn
    <3>3. 1 .. chunks[x] \subseteq handled[Other(x)]
      BY <2>2, <3>2, <1>c
    <3>4. writer'[x].pc # "waiting"
      <4> DEFINE w == [IdleWriter EXCEPT !.pc = "sending", !.left = writer[x].left]
      <4>1. w.pc = "sending"
        BY DEF IdleWriter
      <4>2. /\ writer \in [Ends -> WriterStates]
            /\ writer' = [writer EXCEPT ![x] = IF writer[x].left > 0 THEN w ELSE IdleWriter]
        BY <2>5, <1>a DEF ChunkDone, UTPTypeOK
      <4> HIDE DEF w
      <4> QED
        BY <4>1, <4>2, IdleWriterType
    <3> QED
      BY <1>1, <2>1, <3>3, <3>4, <1>b DEF WaitInOrder, SendInOrder, Other
  <2> QED
    BY <1>5, <2>3, <2>4, <2>5 DEF WriteAcked, WriteTimeout
<1>6. ~WriteDeadline(x)
  BY DEF WriteDeadline
<1> QED
  BY <1>2, <1>3, <1>4, <1>5, <1>6, <1>a, WriterMoves

(* What is handled next leaves no gap.                                     *)
LEMMA GapStep ==
  ASSUME NumberInv, [Next]_vars, HandledWithoutGaps, \A x \in Ends : FlightInOrder(x)
  PROVE  HandledWithoutGaps'
<1>a. UTPTypeOK
  BY DEF NumberInv
<1>b. handled \in [Ends -> SUBSET Nums]
  BY <1>a DEF UTPTypeOK
<1>1. CASE UNCHANGED handled
  BY <1>1 DEF HandledWithoutGaps
<1>2. ASSUME NEW x \in Ends, HandlePacket(x), ~UNCHANGED handled PROVE HandledWithoutGaps'
  <2> DEFINE p == Head(readBuf[x])
  <2>1. p \in InFlight(x)
    BY <1>a, <1>2, ReadBufTaken DEF HandlePacket
  <2>2. HandleFin(x, p) \/ HandleFinAck(x, p) \/ HandleAck(x, p) \/ HandleData(x, p) \/ HandleSyn(x, p)
    BY <1>2 DEF HandlePacket
  <2> HIDE DEF p
  <2>3. HandleData(x, p)
    BY <1>2, <2>2 DEF HandleFin, HandleFinAck, HandleAck, HandleSyn
  <2>4. p.type = "DATA" /\ handled' = [handled EXCEPT ![x] = handled[x] \cup {p.chunk}]
    BY <2>3 DEF HandleData
  <2>5. p \in SentBy(Other(x))
    BY <2>1, <2>4, OtherEnd DEF SentBy
  <2>6. 1 .. (p.chunk - 1) \subseteq handled[x]
    BY <2>4, <2>5, OtherEnd DEF FlightInOrder
  <2>7. p.chunk \in Nat
    <3>1. p \in Packets
      BY <1>a, <2>1, FlightTypes
    <3> QED
      BY <3>1, <2>4, PacketFields, Sizes DEF Nums
  <2> SUFFICES ASSUME NEW y \in Ends, NEW c \in handled'[y] PROVE 1 .. c \subseteq handled'[y]
    BY DEF HandledWithoutGaps
  <2>8. CASE c \in handled[y]
    <3>1. 1 .. c \subseteq handled[y]
      BY <2>8 DEF HandledWithoutGaps
    <3> QED
      BY <3>1, <2>4, <1>b
  <2>9. CASE y = x /\ c = p.chunk
    <3>1. handled'[x] = handled[x] \cup {p.chunk}
      BY <2>4, <1>b
    <3>2. \A i \in 1 .. p.chunk : i \in 1 .. (p.chunk - 1) \/ i = p.chunk
      BY <2>7
    <3> QED
      BY <2>6, <2>9, <3>1, <3>2
  <2> QED
    BY <2>4, <2>8, <2>9, <1>b
<1> QED
  BY <1>1, <1>2, HandledSteps

(* Without a write deadline the chunks that an end has handled leave no    *)
(* gap: Write sends a chunk only when every chunk before it was handled,   *)
(* because the acknowledgment it waited for was no stale one, and a Write  *)
(* that fails leaves a conn on which no further chunk gets through.        *)
THEOREM NoGaps == NoWrap /\ ~Deadlines => (Spec => []HandledWithoutGaps)
<1> DEFINE Inv == /\ NumberInv /\ HandledWithoutGaps
                  /\ \A x \in Ends : FlightInOrder(x) /\ WaitInOrder(x) /\ SendInOrder(x)
           Assumed == NoWrap /\ ~Deadlines
<1>1. Init => Inv
  <2> SUFFICES ASSUME Init PROVE Inv
    OBVIOUS
  <2>1. NumberInv
    BY NumberInit
  <2>2. \A x \in Ends : chunks[x] = 0 /\ writer[x].pc = "idle" /\ handled[x] = {}
    BY IdleWriterType DEF Init
  <2>3. \A x \in Ends : SentBy(x) = {}
    <3>1. \A x \in Ends : InFlight(x) = {}
      BY DEF Init, InFlight, Elems
    <3> QED
      BY <3>1, OtherEnd DEF SentBy
  <2> QED
    BY <2>1, <2>2, <2>3 DEF HandledWithoutGaps, FlightInOrder, WaitInOrder, SendInOrder
<1>2. Assumed /\ Inv /\ [Next]_vars => Inv'
  <2> SUFFICES ASSUME Assumed, Inv, [Next]_vars PROVE Inv'
    OBVIOUS
  <2>1. NumberInv'
    BY NumberStepKeeps
  <2>2. HandledWithoutGaps'
    BY GapStep
  <2>3. \A x \in Ends : FlightInOrder(x)' /\ WaitInOrder(x)' /\ SendInOrder(x)'
    BY OrderStep
  <2> QED
    BY <2>1, <2>2, <2>3
<1>3. Assumed => Assumed'
  BY DEF NoWrap
<1>4. Inv => HandledWithoutGaps
  OBVIOUS
<1>5. NoWrap /\ ~Deadlines => Assumed
  OBVIOUS
<1> HIDE DEF Inv, Assumed
<1> QED
  BY <1>1, <1>2, <1>3, <1>4, <1>5, PTL DEF Spec

-----------------------------------------------------------------------------
(* Panics *)

(* The FINs on their way to x: on the network, and in readBuf by place.    *)
FinNet(x) == {p \in net[x] : p.type = "FIN"}

FinBuf(x) == {i \in 1 .. Len(readBuf[x]) : readBuf[x][i].type = "FIN"}

NoFin(x) == FinNet(x) = {} /\ FinBuf(x) = {}

OneFin(x) ==
  /\ \A p, q \in FinNet(x) : p = q
  /\ FinNet(x) = {} \/ FinBuf(x) = {}
  /\ \A i, j \in FinBuf(x) : i = j

SomeCall(x) == \E k \in Closers[x] : closer[x][k] # "idle"

TwoCalls ==
  \E x, y \in Ends : \E k \in Closers[x], l \in Closers[y] :
    <<x, k>> # <<y, l>> /\ closer[x][k] # "idle" /\ closer[y][l] # "idle"

(* As long as Close was called once: a FIN is on its way to x only when    *)
(* the other end called Close, only one, and only before closeChan of x is *)
(* closed.                                                                 *)
LoneCall(x) ==
  /\ closes[x] <= 1
  /\ SomeCall(Other(x)) \/ NoFin(x)
  /\ OneFin(x)
  /\ closes[x] > 0 => NoFin(x) /\ (SomeCall(x) \/ SomeCall(Other(x)))
  /\ state[x] = "fin_sent" => SomeCall(x)

PanicInv == TwoCalls \/ \A x \in Ends : LoneCall(x)

(* A step brings no FIN on its way to x.                                   *)
FinKept(x) == (OneFin(x) => OneFin(x)') /\ (NoFin(x) => NoFin(x)')

(* readBuf of x stays as it is.                                            *)
LEMMA FinFewer ==
  ASSUME NEW x \in Ends, FinNet(x)' \subseteq FinNet(x), readBuf'[x] = readBuf[x]
  PROVE  FinKept(x)
<1>1. FinBuf(x)' = FinBuf(x)
  BY DEF FinBuf
<1> QED
  BY <1>1 DEF FinKept, OneFin, NoFin

(* The first packet of readBuf is taken.                                   *)
LEMMA FinTaken ==
  ASSUME UTPTypeOK, NEW x \in Ends, FinNet(x)' \subseteq FinNet(x),
         readBuf[x] # << >>, readBuf'[x] = Tail(readBuf[x])
  PROVE  /\ FinKept(x)
         /\ OneFin(x) /\ Head(readBuf[x]).type = "FIN" => NoFin(x)'
<1> DEFINE q == readBuf[x]
<1>1. q \in Seq(Packets) /\ q # << >>
  BY EndTypes
<1>2. Len(q) \in Nat \ {0} /\ Head(q) = q[1]
  BY <1>1, EmptySeq, LenProperties
<1>3. Len(Tail(q)) = Len(q) - 1 /\ \A i \in 1 .. Len(Tail(q)) : Tail(q)[i] = q[i + 1]
  BY <1>1, HeadTailProperties
<1>4. \A i \in FinBuf(x)' : i \in Nat /\ i > 0 /\ i + 1 \in FinBuf(x)
  <2> SUFFICES ASSUME NEW i \in FinBuf(x)' PROVE i \in Nat /\ i > 0 /\ i + 1 \in FinBuf(x)
    OBVIOUS
  <2>1. i \in 1 .. Len(Tail(q)) /\ Tail(q)[i].type = "FIN"
    BY DEF FinBuf
  <2>2. i + 1 \in 1 .. Len(q) /\ q[i + 1].type = "FIN" /\ i \in Nat /\ i > 0
    BY <2>1, <1>2, <1>3
  <2> QED
    BY <2>2 DEF FinBuf
<1>5. Head(q).type = "FIN" => 1 \in FinBuf(x)
  BY <1>2 DEF FinBuf
<1> HIDE DEF q
<1>6. FinKept(x)
  <2>1. NoFin(x) => NoFin(x)'
    BY <1>4 DEF NoFin
  <2>2. ASSUME OneFin(x) PROVE OneFin(x)'
    <3>1. \A p, r \in FinNet(x)' : p = r
      BY <2>2 DEF OneFin
    <3>2. FinNet(x)' = {} \/ FinBuf(x)' = {}
      BY <2>2, <1>4 DEF OneFin
    <3>3. \A i, j \in FinBuf(x)' : i = j
      <4> SUFFICES ASSUME NEW i \in FinBuf(x)', NEW j \in FinBuf(x)' PROVE i = j
        OBVIOUS
      <4>1. i + 1 = j + 1 /\ i \in Nat /\ j \in Nat
        BY <2>2, <1>4 DEF OneFin
      <4> QED
        BY <4>1
    <3> QED
      BY <3>1, <3>2, <3>3 DEF OneFin
  <2> QED
    BY <2>1, <2>2 DEF FinKept
<1>7. ASSUME OneFin(x), Head(q).type = "FIN" PROVE NoFin(x)'
  <2>1. FinNet(x)' = {}
    BY <1>5, <1>7 DEF OneFin
  <2>2. \A i \in FinBuf(x)' : i + 1 = 1 /\ i \in Nat /\ i > 0
    BY <1>4, <1>5, <1>7 DEF OneFin
  <2>3. FinBuf(x)' = {}
    BY <2>2
  <2> QED
    BY <2>1, <2>3 DEF NoFin
<1> QED
  BY <1>6, <1>7 DEF q

(* A packet goes from the network into readBuf.                            *)
LEMMA FinDelivered ==
  ASSUME UTPTypeOK, ~Duplicates, NEW x \in Ends, NEW p \in net[x], MuxDeliver(x, p)
  PROVE  \A y \in Ends : FinKept(y)
<1> DEFINE q == readBuf[x]
<1>1. q \in Seq(Packets) /\ p \in Packets /\ Len(q) \in Nat
  BY EndTypes, LenProperties
<1>2. /\ net' = [net EXCEPT ![x] = net[x] \ {p}]
      /\ readBuf' = [readBuf EXCEPT ![x] = Offer(q, p, BufCap)]
  BY DEF MuxDeliver, Rest
<1>3. /\ net'[x] = net[x] \ {p} /\ readBuf'[x] = Offer(q, p, BufCap)
      /\ \A y \in Ends : y # x => net'[y] = net[y] /\ readBuf'[y] = readBuf[y]
  BY <1>2 DEF UTPTypeOK
<1>4. ASSUME NEW y \in Ends, y # x PROVE FinKept(y)
  <2>1. FinNet(y)' \subseteq FinNet(y)
    BY <1>3, <1>4 DEF FinNet
  <2> QED
    BY <1>3, <1>4, <2>1, FinFewer
<1>5. FinNet(x)' = FinNet(x) \ {p}
  BY <1>3 DEF FinNet
<1>6. FinBuf(x)' = FinBuf(x) \/ (FinBuf(x)' = FinBuf(x) \cup {Len(q) + 1} /\ p \in FinNet(x))
  <2>1. CASE Offer(q, p, BufCap) = q
    BY <1>3, <2>1 DEF FinBuf
  <2>2. CASE Offer(q, p, BufCap) = Append(q, p)
    <3>1. /\ Len(Append(q, p)) = Len(q) + 1 /\ Append(q, p)[Len(q) + 1] = p
          /\ \A i \in 1 .. Len(q) : Append(q, p)[i] = q[i]
      BY <1>1, AppendProperties
    <3>2. \A i \in 1 .. (Len(q) + 1) : i \in 1 .. Len(q) \/ i = Len(q) + 1
      BY <1>1
    <3>3. \A i : i \in FinBuf(x)' <=> i \in FinBuf(x) \/ (i = Len(q) + 1 /\ p.type = "FIN")
      <4>1. FinBuf(x)' = {i \in 1 .. (Len(q) + 1) : Append(q, p)[i].type = "FIN"}
        BY <1>3, <2>2, <3>1 DEF FinBuf
      <4>2. 1 .. Len(q) \subseteq 1 .. (Len(q) + 1) /\ Len(q) + 1 \in 1 .. (Len(q) + 1)
        BY <1>1
      <4>3. FinBuf(x) = {i \in 1 .. Len(q) : q[i].type = "FIN"}
        BY DEF FinBuf
      <4> QED
        BY <3>1, <3>2, <4>1, <4>2, <4>3
    <3>4. p.type = "FIN" => p \in FinNet(x)
      BY DEF FinNet
    <3> QED
      BY <3>3, <3>4
  <2> QED
    BY <2>1, <2>2 DEF Offer
<1> HIDE DEF q
<1>7. FinKept(x)
  <2>1. NoFin(x) => NoFin(x)'
    BY <1>5, <1>6 DEF NoFin
  <2>2. OneFin(x) => OneFin(x)'
    BY <1>5, <1>6 DEF OneFin
  <2> QED
    BY <2>1, <2>2 DEF FinKept
<1> QED
  BY <1>4, <1>7

(* Sending something else than a FIN.                                      *)
LEMMA FinNotSent ==
  ASSUME UTPTypeOK, NEW x \in Ends, NEW p \in Packets, p.type # "FIN", net' = Sent(x, p)
  PROVE  \A y \in Ends : FinNet(y)' \subseteq FinNet(y)
<1>1. net'[x] = net[x] /\ net'[Other(x)] \subseteq net[Other(x)] \cup {p}
  BY SentType DEF UTPTypeOK
<1>2. \A y \in Ends : y = x \/ y = Other(x)
  BY DEF Ends, Other
<1> QED
  BY <1>1, <1>2 DEF FinNet

(* Only a call of Close brings a FIN on its way.                           *)
LEMMA FinSteps ==
  ASSUME UTPTypeOK, WriterBounded, ~Duplicates, [Next]_vars, NEW y \in Ends
  PROVE  \/ FinKept(y)
         \/ \E x \in Ends : \E k \in Closers[x] : y = Other(x) /\ Close(x, k) /\ state[x] # "closed"
<1>a. net \in [Ends -> SUBSET Packets] /\ readBuf \in [Ends -> Seq(Packets)]
  BY DEF UTPTypeOK
<1>b. "dialer" \in Ends /\ "acceptor" \in Ends
  BY DEF Ends
<1>1. ASSUME UNCHANGED <<net, readBuf>> PROVE FinKept(y)
  BY <1>1, FinFewer DEF FinNet
<1>2. ASSUME NEW x \in Ends, NEW p \in Packets, p.type # "FIN", net' = Sent(x, p), UNCHANGED readBuf
      PROVE  FinKept(y)
  BY <1>2, FinNotSent, FinFewer
<1>3. ASSUME NEW x \in Ends, NEW S, S \subseteq net[x], net' = [net EXCEPT ![x] = S], UNCHANGED readBuf
      PROVE  FinKept(y)
  <2>1. net'[y] \subseteq net[y]
    BY <1>3, <1>a
  <2>2. FinNet(y)' \subseteq FinNet(y)
    BY <2>1 DEF FinNet
  <2> QED
    BY <2>2, <1>3, FinFewer
<1>4. CASE Dial
  BY <1>4, <1>2, <1>b, PacketsMade DEF Dial, ST_SYN
<1>5. CASE DialAnswered
  <2>1. \A z \in Ends : FinNet(z)' = FinNet(z)
    BY <1>5 DEF DialAnswered, FinNet
  <2>2. readBuf'[y] = IF y = "dialer" THEN Tail(readBuf["dialer"]) ELSE readBuf[y]
    BY <1>5, <1>a DEF DialAnswered
  <2>3. readBuf["dialer"] # << >>
    BY <1>5 DEF DialAnswered
  <2> QED
    BY <2>1, <2>2, <2>3, FinTaken, FinFewer
<1>6. CASE DialTimeout \/ Accept \/ UNCHANGED vars
  BY <1>6, <1>1 DEF DialTimeout, Accept, vars
<1>7. CASE MuxAccept
  <2> DEFINE q == ST_STATE(ST_SYN.seq)
  <2>1. q \in Packets /\ q.type # "FIN"
    BY PacketsMade, Sizes DEF ST_SYN, ST_STATE
  <2> HIDE DEF q
  <2>2. PICK rest \in Rest("acceptor", ST_SYN) : net' = [Sent("acceptor", q) EXCEPT !["acceptor"] = rest]
    BY <1>7 DEF MuxAccept, q
  <2>3. rest \subseteq net["acceptor"]
    BY DEF Rest
  <2>4. /\ Sent("acceptor", q) \in [Ends -> SUBSET Packets]
        /\ Sent("acceptor", q)["dialer"] \subseteq net["dialer"] \cup {q}
    BY <1>a, <1>b, <2>1, SentType DEF Other
  <2>5. net'["acceptor"] \subseteq net["acceptor"] /\ net'["dialer"] \subseteq net["dialer"] \cup {q}
    BY <1>b, <2>2, <2>3, <2>4
  <2>6. FinNet(y)' \subseteq FinNet(y)
    BY <2>1, <2>5 DEF FinNet, Ends
  <2> QED
    BY <1>7, <2>6, FinFewer DEF MuxAccept
<1>8. ASSUME NEW x \in Ends, Lose(x) PROVE FinKept(y)
  <2>1. PICK p \in net[x] : net' = [net EXCEPT ![x] = net[x] \ {p}]
    BY <1>8 DEF Lose
  <2>2. UNCHANGED readBuf
    BY <1>8 DEF Lose
  <2> QED
    BY <2>1, <2>2, <1>3
<1>9. ASSUME NEW x \in Ends, NEW p \in net[x], MuxDeliver(x, p) \/ MuxDrop(x, p) PROVE FinKept(y)
  <2>1. CASE MuxDrop(x, p)
    BY <2>1, <1>3 DEF MuxDrop
  <2> QED
    BY <2>1, <1>9, FinDelivered
<1>10. ASSUME NEW x \in Ends, HandlePacket(x) PROVE FinKept(y)
  <2> DEFINE p == Head(readBuf[x])
  <2>1. HandleFin(x, p) \/ HandleFinAck(x, p) \/ HandleAck(x, p) \/ HandleData(x, p) \/ HandleSyn(x, p)
    BY <1>10 DEF HandlePacket
  <2>2. readBuf[x] # << >> /\ readBuf' = [readBuf EXCEPT ![x] = Tail(readBuf[x])]
    BY <1>10 DEF HandlePacket
  <2>3. p \in Packets
    BY <1>a, <2>2, TakeType, EndTypes, Sizes
  <2> HIDE DEF p
  <2>4. FinNet(y)' \subseteq FinNet(y)
    <3>1. CASE UNCHANGED net
      BY <3>1 DEF FinNet
    <3>2. CASE HandleFin(x, p) \/ HandleData(x, p)
      <4>1. ST_STATE(p.seq) \in Packets /\ ST_STATE(p.seq).type # "FIN" /\ net' = Sent(x, ST_STATE(p.seq))
        BY <2>3, <3>2, PacketFields, PacketsMade DEF HandleFin, HandleData, ST_STATE
      <4> QED
        BY <4>1, FinNotSent
    <3> QED
      BY <2>1, <3>1, <3>2 DEF HandleFinAck, HandleAck, HandleSyn
  <2>5. readBuf'[y] = IF y = x THEN Tail(readBuf[x]) ELSE readBuf[y]
    BY <2>2, <1>a
  <2> QED
    BY <2>2, <2>4, <2>5, FinTaken, FinFewer
<1>11. ASSUME NEW x \in Ends,
              \/ RunReturns(x) \/ ReadPayload(x) \/ ReadEOF(x) \/ Write(x) \/ WriteDeadline(x)
              \/ MuxStop(x) \/ (\E k \in Closers[x] : CloseAcked(x, k) \/ CloseTimeout(x, k))
       PROVE  FinKept(y)
  BY <1>11, <1>1 DEF RunReturns, ReadPayload, ReadEOF, Write, WriteDeadline, MuxStop, CloseAcked,
                     CloseTimeout
<1>12. ASSUME NEW x \in Ends, SendChunk(x) PROVE FinKept(y)
  <2> DEFINE s == (seq[x] + 1) % SeqMod
             c == chunks[x] + 1
             p == ST_DATA(s, c)
  <2>1. s \in Seqs
    BY EndTypes, NextSeq
  <2>2. c \in Nums
    <3>1. /\ chunks[x] \in Nat /\ writer[x].left \in Nat /\ writer[x].left > 0
          /\ chunks[x] + writer[x].left <= MaxChunks
      BY <1>12, EndTypes, Sizes DEF SendChunk, WriterBounded, WriterStates
    <3> QED
      BY <3>1, Sizes DEF Nums
  <2>3. p \in Packets /\ p.type # "FIN"
    BY <2>1, <2>2, PacketsMade DEF ST_DATA
  <2>4. net' = Sent(x, p) /\ UNCHANGED readBuf
    BY <1>12 DEF SendChunk
  <2> HIDE DEF p
  <2> QED
    BY <2>3, <2>4, <1>2
<1>13. ASSUME NEW x \in Ends, WriteAcked(x) \/ WriteTimeout(x) PROVE FinKept(y)
  <2> DEFINE p == ST_DATA(writer[x].seq, writer[x].chunk)
  <2>1. writer[x].pc = "waiting" /\ UNCHANGED readBuf
    BY <1>13 DEF WriteAcked, WriteTimeout, Waiting
  <2>2. p \in Packets /\ p.type # "FIN"
    BY <2>1, EndTypes, PacketsMade DEF WriterBounded, WriterStates, ST_DATA
  <2>3. UNCHANGED net \/ net' = Sent(x, p)
    BY <1>13 DEF WriteAcked, WriteTimeout, ChunkDone, Retransmit
  <2> HIDE DEF p
  <2> QED
    BY <2>1, <2>2, <2>3, <1>1, <1>2
<1>14. ASSUME NEW x \in Ends, NEW k \in Closers[x], Close(x, k)
       PROVE  FinKept(y) \/ (y = Other(x) /\ state[x] # "closed")
  <2>1. UNCHANGED readBuf
    BY <1>14 DEF Close
  <2>2. CASE state[x] = "closed"
    BY <1>1, <1>14, <2>1, <2>2 DEF Close
  <2>3. CASE state[x] # "closed" /\ y = x
    <3>1. net'[x] = net[x]
      BY <1>14, <2>3, <1>a, OtherEnd DEF Close, Sent
    <3> QED
      BY <2>1, <2>3, <3>1, FinFewer DEF FinNet
  <2>4. y = x \/ y = Other(x)
    BY DEF Ends, Other
  <2> QED
    BY <2>2, <2>3, <2>4
<1> QED
  BY <1>4, <1>5, <1>6, <1>7, <1>8, <1>9, <1>10, <1>11, <1>12, <1>13, <1>14 DEF Next

(* A call of Close that has begun stays one.                               *)
LEMMA CallsGrow ==
  ASSUME UTPTypeOK, [Next]_vars
  PROVE  /\ \A x \in Ends : \A k \in Closers[x] : closer[x][k] # "idle" => closer'[x][k] # "idle"
         /\ \A x \in Ends : SomeCall(x) => SomeCall(x)'
         /\ TwoCalls => TwoCalls'
<1>1. \/ UNCHANGED closer
      \/ \E y \in Ends : \E l \in Closers[y], c \in Calls \ {"idle"} : closer' = [closer EXCEPT ![y][l] = c]
  <2>1. ASSUME NEW y \in Ends, NEW l \in Closers[y], Close(y, l) \/ CloseAcked(y, l) \/ CloseTimeout(y, l)
        PROVE  \E c \in Calls \ {"idle"} : closer' = [closer EXCEPT ![y][l] = c]
    BY <2>1 DEF Close, CloseAcked, CloseTimeout, Calls
  <2>2. ASSUME NEW y \in Ends,
               \/ Lose(y) \/ MuxStop(y) \/ (\E p \in net[y] : MuxDeliver(y, p) \/ MuxDrop(y, p))
               \/ RunReturns(y) \/ ReadPayload(y) \/ ReadEOF(y) \/ Write(y) \/ SendChunk(y)
               \/ WriteAcked(y) \/ WriteTimeout(y) \/ WriteDeadline(y) \/ HandlePacket(y)
        PROVE  UNCHANGED closer
    BY <2>2 DEF Lose, MuxStop, MuxDeliver, MuxDrop, RunReturns, ReadPayload, ReadEOF, Write, SendChunk,
                WriteAcked, WriteTimeout, WriteDeadline, HandlePacket
  <2>3. CASE Dial \/ DialAnswered \/ DialTimeout \/ MuxAccept \/ Accept \/ UNCHANGED vars
    BY <2>3 DEF Dial, DialAnswered, DialTimeout, MuxAccept, Accept, vars
  <2> QED
    BY <2>1, <2>2, <2>3 DEF Next
<1>2. \A x \in Ends : \A k \in Closers[x] : closer[x][k] # "idle" => closer'[x][k] # "idle"
  <2>1. ASSUME NEW y \in Ends, NEW l \in Closers[y], NEW c \in Calls \ {"idle"},
               closer' = [closer EXCEPT ![y][l] = c],
               NEW x \in Ends, NEW k \in Closers[x], closer[x][k] # "idle"
        PROVE  closer'[x][k] # "idle"
    <3>1. /\ DOMAIN closer = Ends
          /\ closer[y] \in [Closers[y] -> Calls]
      BY DEF UTPTypeOK
    <3>2. closer'[x] = IF x = y THEN [closer[y] EXCEPT ![l] = c] ELSE closer[x]
      BY <2>1, <3>1
    <3> QED
      BY <2>1, <3>1, <3>2
  <2> QED
    BY <1>1, <2>1
<1>3. \A x \in Ends : SomeCall(x) => SomeCall(x)'
  BY <1>2 DEF SomeCall
<1>4. ASSUME TwoCalls PROVE TwoCalls'
  <2>1. PICK x \in Ends, y \in Ends : \E k \in Closers[x], l \in Closers[y] :
          <<x, k>> # <<y, l>> /\ closer[x][k] # "idle" /\ closer[y][l] # "idle"
    BY <1>4 DEF TwoCalls
  <2>2. PICK k \in Closers[x], l \in Closers[y] :
          <<x, k>> # <<y, l>> /\ closer[x][k] # "idle" /\ closer[y][l] # "idle"
    BY <2>1
  <2>3. closer'[x][k] # "idle" /\ closer'[y][l] # "idle"
    BY <1>2, <2>2
  <2> QED
    BY <2>2, <2>3 DEF TwoCalls
<1> QED
  BY <1>2, <1>3, <1>4

(* A step that leaves closeChan of x alone and sends it no FIN.            *)
LEMMA LoneKept ==
  ASSUME UTPTypeOK, [Next]_vars, NEW x \in Ends, LoneCall(x), FinKept(x), closes'[x] = closes[x],
         state'[x] = "fin_sent" => state[x] = "fin_sent"
  PROVE  LoneCall(x)'
<1>1. (SomeCall(x) => SomeCall(x)') /\ (SomeCall(Other(x)) => SomeCall(Other(x))')
  BY CallsGrow, OtherEnd
<1> QED
  BY <1>1 DEF LoneCall, FinKept, Other

(* A step that closes closeChan of x, when no FIN is left.                 *)
LEMMA LoneReleased ==
  ASSUME UTPTypeOK, NEW x \in Ends, Release(x), closes[x] = 0, NoFin(x)',
         SomeCall(x)' \/ SomeCall(Other(x))'
  PROVE  LoneCall(x)'
<1>1. closes'[x] = 1 /\ state'[x] = "closed"
  BY DEF Release, UTPTypeOK
<1>2. OneFin(x)'
  BY DEF NoFin, OneFin
<1> QED
  BY <1>1, <1>2 DEF LoneCall, Other

(* Every step keeps it, as long as Close was called once.                  *)
LEMMA PanicStep ==
  ASSUME UTPTypeOK, WriterBounded, ReleasedWhenClosed, ~Duplicates, [Next]_vars, PanicInv
  PROVE  PanicInv'
<1> SUFFICES ASSUME ~TwoCalls', NEW y \in Ends PROVE LoneCall(y)'
  BY DEF PanicInv
<1>1. \A x \in Ends : LoneCall(x)
  BY CallsGrow DEF PanicInv
<1>2. \A x \in Ends : (SomeCall(x) => SomeCall(x)') /\ ~(SomeCall(x)' /\ SomeCall(Other(x))')
  <2>1. \A x \in Ends : SomeCall(x) => SomeCall(x)'
    BY CallsGrow
  <2>2. ASSUME NEW x \in Ends, SomeCall(x)', SomeCall(Other(x))' PROVE FALSE
    <3>1. PICK k \in Closers[x] : closer'[x][k] # "idle"
      BY <2>2 DEF SomeCall
    <3>2. PICK l \in Closers[Other(x)] : closer'[Other(x)][l] # "idle"
      BY <2>2 DEF SomeCall, Other
    <3>3. x # Other(x) /\ Other(x) \in Ends
      BY OtherEnd
    <3> QED
      BY <3>1, <3>2, <3>3 DEF TwoCalls
  <2> QED
    BY <2>1, <2>2
<1>3. CASE \E x \in Ends : \E k \in Closers[x] : Close(x, k) /\ state[x] # "closed"
  <2>1. PICK x \in Ends : \E k \in Closers[x] : Close(x, k) /\ state[x] # "closed"
    BY <1>3
  <2>2. PICK k \in Closers[x] : Close(x, k) /\ state[x] # "closed"
    BY <2>1
  <2>3. closer[x][k] = "idle" /\ closer'[x][k] # "idle" /\ SomeCall(x)'
    <3>1. closer[x][k] = "idle" /\ closer' = [closer EXCEPT ![x][k] = IF up[x] THEN "waiting" ELSE "failed"]
      BY <2>2 DEF Close
    <3>2. DOMAIN closer = Ends /\ closer[x] \in [Closers[x] -> Calls]
      BY DEF UTPTypeOK
    <3>3. closer'[x][k] # "idle"
      BY <3>1, <3>2
    <3> QED
      BY <3>1, <3>3 DEF SomeCall
  <2>4. ~SomeCall(x)
    <3> SUFFICES ASSUME NEW l \in Closers[x], closer[x][l] # "idle" PROVE FALSE
      BY DEF SomeCall
    <3>1. l # k /\ closer'[x][l] # "idle"
      BY <2>3, CallsGrow
    <3> QED
      BY <2>3, <3>1 DEF TwoCalls
  <2>5. ~SomeCall(Other(x))
    BY <1>2, <2>3, OtherEnd
  <2>6. \A z \in Ends : z = x \/ z = Other(x)
    BY DEF Ends, Other
  <2>7. \A z \in Ends : NoFin(z) /\ ~SomeCall(z) /\ ~SomeCall(Other(z))
    BY <2>4, <2>5, <2>6, <1>1, OtherEnd DEF LoneCall
  <2>8. \A z \in Ends : closes'[z] = 0
    <3>1. \A z \in Ends : closes[z] = 0
      BY <2>7, <1>1, EndTypes DEF LoneCall
    <3>2. UNCHANGED closes
      BY <2>2 DEF Close
    <3> QED
      BY <3>1, <3>2
  <2>9. CASE y = x
    <3>1. FinKept(x)
      <4>1. UNCHANGED readBuf /\ net'[x] = net[x]
        BY <2>2, OtherEnd DEF Close, Sent, UTPTypeOK
      <4> QED
        BY <4>1, FinFewer DEF FinNet
    <3>2. NoFin(x)'
      BY <3>1, <2>7 DEF FinKept
    <3>3. OneFin(x)'
      BY <3>2 DEF NoFin, OneFin
    <3> QED
      BY <2>3, <2>8, <2>9, <3>2, <3>3 DEF LoneCall
  <2>10. CASE y = Other(x)
    <3>1. SomeCall(Other(y))'
      BY <2>3, <2>10, OtherEnd
    <3>2. state'[y] # "fin_sent"
      <4>1. state'[y] = state[y] /\ state[y] # "fin_sent"
        BY <2>2, <2>7, <2>10, <1>1, OtherEnd DEF Close, LoneCall, UTPTypeOK
      <4> QED
        BY <4>1
    <3>3. OneFin(y)'
      <4> DEFINE p == ST_FIN((seq[x] + 1) % SeqMod)
      <4>1. FinNet(y)' \subseteq {p}
        <5>1. net' = Sent(x, p)
          BY <2>2 DEF Close
        <5>2. net'[y] \subseteq net[y] \cup {p}
          BY <5>1, <2>10 DEF Sent, UTPTypeOK
        <5>3. \A r \in net[y] : r.type # "FIN"
          BY <2>7 DEF NoFin, FinNet
        <5> HIDE DEF p
        <5> QED
          BY <5>2, <5>3 DEF FinNet
      <4>2. FinBuf(y)' = {}
        <5>1. UNCHANGED readBuf
          BY <2>2 DEF Close
        <5> QED
          BY <5>1, <2>7 DEF FinBuf, NoFin
      <4> QED
        BY <4>1, <4>2 DEF OneFin
    <3> QED
      BY <2>8, <3>1, <3>2, <3>3 DEF LoneCall, Other
  <2> QED
    BY <2>6, <2>9, <2>10
<1>4. CASE ~\E x \in Ends : \E k \in Closers[x] : Close(x, k) /\ state[x] # "closed"
  <2>1. \A z \in Ends : FinKept(z)
    BY <1>4, FinSteps
  <2>2. ASSUME NEW x \in Ends, Release(x), closes[x] = 0, NoFin(x)', SomeCall(x)' \/ SomeCall(Other(x))'
        PROVE  LoneCall(y)'
    <3>1. y = x => LoneCall(y)'
      BY <2>2, LoneReleased
    <3>2. y # x => closes'[y] = closes[y] /\ state'[y] = state[y]
      BY <2>2 DEF Release, UTPTypeOK
    <3> QED
      BY <1>1, <2>1, <3>1, <3>2, LoneKept
  <2>3. ASSUME UNCHANGED closes, state'[y] = "fin_sent" => state[y] = "fin_sent"
        PROVE  LoneCall(y)'
    BY <1>1, <2>1, <2>3, LoneKept
  <2>4. ASSUME NEW x \in Ends, HandlePacket(x) PROVE LoneCall(y)'
    <3> DEFINE p == Head(readBuf[x])
    <3>1. HandleFin(x, p) \/ HandleFinAck(x, p) \/ HandleAck(x, p) \/ HandleData(x, p) \/ HandleSyn(x, p)
      BY <2>4 DEF HandlePacket
    <3>2. readBuf[x] # << >> /\ readBuf'[x] = Tail(readBuf[x])
      BY <2>4 DEF HandlePacket, UTPTypeOK
    <3>3. CASE HandleFin(x, p)
      <4>1. p.type = "FIN" /\ Release(x)
        BY <3>3 DEF HandleFin, Release
      <4>2. ~NoFin(x)
        <5>1. readBuf[x] \in Seq(Packets)
          BY EndTypes
        <5>2. Len(readBuf[x]) \in Nat \ {0} /\ p = readBuf[x][1]
          BY <3>2, <5>1, EmptySeq, LenProperties
        <5>3. 1 \in FinBuf(x)
          BY <4>1, <5>2 DEF FinBuf
        <5> QED
          BY <5>3 DEF NoFin
      <4>3. closes[x] = 0 /\ SomeCall(Other(x)) /\ OneFin(x)
        BY <1>1, <4>2, EndTypes DEF LoneCall
      <4>4. FinNet(x)' \subseteq FinNet(x)
        <5>1. net' = Sent(x, ST_STATE(p.seq))
          BY <3>3 DEF HandleFin
        <5>2. net'[x] = net[x]
          BY <5>1, OtherEnd DEF Sent, UTPTypeOK
        <5> QED
          BY <5>2 DEF FinNet
      <4>5. NoFin(x)'
        BY <3>2, <4>1, <4>3, <4>4, FinTaken
      <4>6. SomeCall(Other(x))'
        BY <4>3, <1>2, OtherEnd
      <4> QED
        BY <2>2, <4>1, <4>3, <4>5, <4>6
    <3>4. CASE HandleFinAck(x, p)
      <4>1. state[x] = "fin_sent" /\ Release(x)
        BY <3>4 DEF HandleFinAck, Release
      <4>2. SomeCall(x) /\ closes[x] = 0
        BY <4>1, <1>1, EndTypes DEF LoneCall, ReleasedWhenClosed
      <4>3. SomeCall(x)' /\ ~SomeCall(Other(x))
        BY <4>2, <1>2, OtherEnd
      <4>4. NoFin(x)'
        BY <4>3, <1>1, <2>1 DEF LoneCall, FinKept
      <4> QED
        BY <2>2, <4>1, <4>2, <4>3, <4>4
    <3>5. CASE HandleAck(x, p) \/ HandleData(x, p) \/ HandleSyn(x, p)
      BY <2>3, <3>5 DEF HandleAck, HandleData, HandleSyn
    <3> QED
      BY <3>1, <3>3, <3>4, <3>5
  <2>5. ASSUME NEW x \in Ends, NEW k \in Closers[x], CloseTimeout(x, k) PROVE LoneCall(y)'
    <3>1. CASE state[x] = "closed"
      BY <2>3, <2>5, <3>1 DEF CloseTimeout
    <3>2. CASE state[x] # "closed"
      <4>1. Release(x) /\ closer[x][k] = "waiting"
        BY <2>5, <3>2 DEF CloseTimeout, Release
      <4>2. SomeCall(x)
        BY <4>1 DEF SomeCall
      <4>3. SomeCall(x)' /\ ~SomeCall(Other(x))
        BY <4>2, <1>2, OtherEnd
      <4>4. closes[x] = 0
        <5>1. closes[x] \in 0 .. 2
          BY EndTypes
        <5> QED
          BY <3>2, <5>1 DEF ReleasedWhenClosed
      <4>5. NoFin(x)'
        BY <4>3, <1>1, <2>1 DEF LoneCall, FinKept
      <4> QED
        BY <2>2, <4>1, <4>3, <4>4, <4>5
    <3> QED
      BY <3>1, <3>2
  <2>6. ASSUME NEW x \in Ends, NEW k \in Closers[x], Close(x, k) PROVE LoneCall(y)'
    BY <1>4, <2>3, <2>6 DEF Close
  <2>7. ASSUME NEW x \in Ends,
               \/ Lose(x) \/ MuxStop(x) \/ (\E p \in net[x] : MuxDeliver(x, p) \/ MuxDrop(x, p))
               \/ RunReturns(x) \/ ReadPayload(x) \/ ReadEOF(x) \/ Write(x) \/ SendChunk(x)
               \/ WriteAcked(x) \/ WriteTimeout(x) \/ WriteDeadline(x)
               \/ (\E k \in Closers[x] : CloseAcked(x, k))
        PROVE  UNCHANGED <<state, closes>>
    BY <2>7 DEF Lose, MuxStop, MuxDeliver, MuxDrop, RunReturns, ReadPayload, ReadEOF, Write, SendChunk,
                WriteAcked, WriteTimeout, WriteDeadline, CloseAcked
  <2>8. CASE Dial \/ DialAnswered \/ DialTimeout \/ MuxAccept
    <3>1. UNCHANGED closes /\ (state'[y] = "fin_sent" => state[y] = "fin_sent")
      BY <2>8 DEF Dial, DialAnswered, DialTimeout, MuxAccept, UTPTypeOK
    <3> QED
      BY <2>3, <3>1
  <2>9. CASE Accept \/ UNCHANGED vars
    BY <2>3, <2>9 DEF Accept, vars
  <2> QED
    BY <2>3, <2>4, <2>5, <2>6, <2>7, <2>8, <2>9 DEF Next
<1> QED
  BY <1>3, <1>4

(* On a network that repeats no packet, closeChan is closed a second time  *)
(* only when Close was called twice, however late the FIN, its             *)
(* acknowledgment and the timer of Close come: the FIN of the one call     *)
(* reaches only the end that did not make it, and it is there only once.   *)
THEOREM PanicsNeedTwo == ~Duplicates => (Spec => []PanicNeedsTwoCloses)
<1> DEFINE Inv == UTPTypeOK /\ WriterBounded /\ ReleasedWhenClosed /\ PanicInv
           Assumed == ~Duplicates
<1>1. Init => Inv
  <2> SUFFICES ASSUME Init PROVE Inv
    OBVIOUS
  <2>1. UTPTypeOK /\ WriterBounded
    BY UTPTypeInit
  <2>2. ReleasedWhenClosed
    BY DEF Init, ReleasedWhenClosed
  <2>3. \A x \in Ends : NoFin(x) /\ OneFin(x)
    BY DEF Init, NoFin, OneFin, FinNet, FinBuf
  <2>4. \A x \in Ends : closes[x] = 0 /\ state[x] = "none"
    BY DEF Init
  <2> QED
    BY <2>1, <2>2, <2>3, <2>4 DEF PanicInv, LoneCall
<1>2. Assumed /\ Inv /\ [Next]_vars => Inv'
  BY UTPTypeStep, ReleasedStep, PanicStep
<1>3. Assumed => Assumed'
  OBVIOUS
<1>4. Inv => PanicNeedsTwoCloses
  <2> SUFFICES ASSUME Inv, NEW z \in Ends, ~Alive(z) PROVE TwoCalls
    BY DEF PanicNeedsTwoCloses, TwoCalls
  <2>1. closes[z] \in 0 .. 2 /\ ~(closes[z] < 2)
    BY EndTypes DEF Alive
  <2>2. ~LoneCall(z)
    BY <2>1 DEF LoneCall
  <2> QED
    BY <2>2 DEF PanicInv
<1>5. ~Duplicates => Assumed
  OBVIOUS
<1> HIDE DEF Inv, Assumed
<1> QED
  BY <1>1, <1>2, <1>3, <1>4, <1>5, PTL DEF Spec
=============================================================================
