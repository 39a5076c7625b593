------------------------- MODULE ReplicationProofs -------------------------
(* Proofs about module Replication, for every set of gateways, goroutines, *)
(* sessions and block contents.                                            *)
EXTENDS Replication, FeedProofs

USE DEF Tasks, Sigs, Blocks, Indices

-----------------------------------------------------------------------------
(* Frames and debts *)

(* What the constants are.                                                 *)
LEMMA SessionFacts ==
  ASSUME NEW s \in Sessions
  PROVE  /\ s \in Tasks /\ PeerOf[s] \in Sessions /\ PeerOf[PeerOf[s]] = s /\ PeerOf[s] # s
         /\ HomeOf[s] \in Gateways /\ RemoteOf[s] = HomeOf[PeerOf[s]] /\ RemoteOf[s] \in Gateways
         /\ WireCap \in Nat /\ WireCap > 0 /\ MaxBlocks \in Nat
<1>1. s \in Tasks /\ PeerOf[s] \in Sessions /\ PeerOf[PeerOf[s]] = s /\ PeerOf[s] # s
  BY ReplicationAssumption
<1>2. HomeOf[s] \in Gateways /\ HomeOf[PeerOf[s]] \in Gateways
  BY <1>1, FeedAssumption
<1>3. RemoteOf[s] = HomeOf[PeerOf[s]]
  BY ReplicationAssumption
<1>4. WireCap \in Nat /\ WireCap > 0 /\ MaxBlocks \in Nat
  BY FeedAssumption, ReplicationAssumption
<1> QED
  BY <1>1, <1>2, <1>3, <1>4

(* A frame, by its type.                                                   *)
LEMMA FrameFacts ==
  ASSUME NEW f \in Frames
  PROVE  /\ f.type = "have" => f.len \in Indices
         /\ f.type = "want" => f.start \in Indices
         /\ f.type = "request" => f.index \in Indices
         /\ f.type = "data" => f.index \in Indices /\ f.value \in Payloads /\ f.sig \in Sigs
  BY DEF Frames, Handshake, Have, Want, Request

(* What is owed is a frame, or a call of sendBlockData.                    *)
LEMMA DebtFacts ==
  ASSUME NEW d \in Debts
  PROVE  IF d.type = "send" THEN d.index \in Indices ELSE d \in Frames /\ d.type # "data"
  BY DEF Debts, Frames, Handshake, Have, Want, Request, SendBlock

(* What is owed for a range of indices.                                    *)
LEMMA EachDebts ==
  ASSUME NEW lo \in Indices, NEW hi \in Indices
  PROVE  Each(Request, lo, hi) \in Seq(Debts) /\ Each(SendBlock, lo, hi) \in Seq(Debts)
<1> DEFINE n == IF hi > lo THEN hi - lo ELSE 0
<1>a. lo \in Nat /\ hi \in Nat /\ lo <= MaxBlocks /\ hi <= MaxBlocks /\ MaxBlocks \in Nat
  BY FeedAssumption
<1>b. n \in Nat
  BY <1>a
<1>c. ASSUME NEW k \in 1 .. n PROVE lo + k - 1 \in Indices
  <2>1. CASE hi > lo
    BY <1>a, <2>1
  <2>2. CASE ~(hi > lo)
    BY <1>a, <2>2
  <2> QED
    BY <2>1, <2>2
<1>1. n \in Nat /\ \A k \in 1 .. n : lo + k - 1 \in Indices
  BY <1>b, <1>c
<1> HIDE DEF n
<1>2. \A k \in 1 .. n : Request(lo + k - 1) \in Debts /\ SendBlock(lo + k - 1) \in Debts
  BY <1>1 DEF Debts
<1>3. [k \in 1 .. n |-> Request(lo + k - 1)] \in Seq(Debts)
  BY <1>1, <1>2
<1>4. [k \in 1 .. n |-> SendBlock(lo + k - 1)] \in Seq(Debts)
  BY <1>1, <1>2
<1> QED
  BY <1>3, <1>4 DEF Each, n

(* What sendBlockData may send: a row of the repository, or a block of the *)
(* log with a signature made now.                                          *)
LEMMA BlockDataFacts ==
  ASSUME FeedTypeOK, NEW s \in Sessions, NEW i \in Indices, NEW frames \in BlockData(s, i)
  PROVE  \/ frames = << >>
         \/ \E f : /\ frames = <<f>> /\ f \in Frames
                   /\ f.type = "data" /\ f.index = i
                   /\ \/ /\ HomeOf[s] \in RepoGateways /\ repo[HomeOf[s]][i] # NoBlock
                         /\ f.value = repo[HomeOf[s]][i].value /\ f.sig = repo[HomeOf[s]][i].sig
                      \/ /\ i < Len(log[HomeOf[s]]) /\ f.value = log[HomeOf[s]][i + 1]
                         /\ f.sig = Sign(HomeOf[s], SubSeq(log[HomeOf[s]], 1, i + 1))
<1> DEFINE g == HomeOf[s]
<1>a. g \in Gateways /\ i \in Nat /\ g \in Keys
  BY SessionFacts, FeedAssumption
<1>b. log[g] \in Seq(Payloads) /\ Len(log[g]) \in Nat
  BY <1>a, LenProperties DEF FeedTypeOK
<1>c. repo[g][i] # NoBlock => repo[g][i].value \in Payloads /\ repo[g][i].sig \in Sigs
  <2>1. repo[g] \in [Indices -> Blocks \cup {NoBlock}]
    BY <1>a DEF FeedTypeOK
  <2> DEFINE b == repo[g][i]
  <2>2. b \in Blocks \cup {NoBlock}
    BY <2>1
  <2> HIDE DEF b
  <2> QED
    BY <2>2 DEF b
<1>1. g \in Gateways /\ log[g] \in Seq(Payloads) /\ i \in Nat /\ g \in Keys /\ Len(log[g]) \in Nat
  BY <1>a, <1>b
<1> DEFINE A == Data(i, repo[g][i])
           B == Data(i, [value |-> log[g][i + 1], sig |-> Sign(g, SubSeq(log[g], 1, i + 1))])
<1>2. \/ frames = << >>
      \/ frames = <<A>> /\ g \in RepoGateways /\ repo[g][i] # NoBlock
      \/ frames = <<B>> /\ i < Len(log[g])
  <2> HIDE DEF A, B
  <2> QED
    BY DEF BlockData, A, B
<1>3. CASE frames = <<A>> /\ g \in RepoGateways /\ repo[g][i] # NoBlock
  <2>1. repo[g][i].value \in Payloads /\ repo[g][i].sig \in Sigs
    BY <1>c, <1>3
  <2>2. /\ A \in Frames /\ A.type = "data" /\ A.index = i
        /\ A.value = repo[g][i].value /\ A.sig = repo[g][i].sig
    BY <2>1 DEF Data, Frames
  <2> HIDE DEF A
  <2> QED
    BY <1>3, <2>2
<1>4. CASE frames = <<B>> /\ i < Len(log[g])
  <2>1. log[g][i + 1] \in Payloads
    BY <1>1, <1>4, ElementOfSeq
  <2>2. Sign(g, SubSeq(log[g], 1, i + 1)) \in Sigs
    <3>1. SubSeq(log[g], 1, i + 1) \in Seq(Payloads)
      BY <1>1, <1>4, LeavesFacts
    <3> QED
      BY <1>1, <3>1 DEF Sign
  <2>3. /\ B \in Frames /\ B.type = "data" /\ B.index = i
        /\ B.value = log[g][i + 1] /\ B.sig = Sign(g, SubSeq(log[g], 1, i + 1))
    <3> DEFINE sg == Sign(g, SubSeq(log[g], 1, i + 1))
               vl == log[g][i + 1]
    <3>1. sg \in Sigs /\ vl \in Payloads
      BY <2>1, <2>2
    <3> HIDE DEF sg, vl
    <3> QED
      BY <3>1 DEF Data, Frames, sg, vl
  <2> HIDE DEF B
  <2> QED
    BY <1>4, <2>3
<1> QED
  BY <1>2, <1>3, <1>4

-----------------------------------------------------------------------------
(* How the connections change *)

(* A frame that the peer of s may put on the connection to s.              *)
NewFrame(s, f) ==
  LET g == HomeOf[PeerOf[s]] IN
  /\ f \in Frames
  /\ f.type = "data" =>
       \/ /\ g \in RepoGateways /\ repo[g][f.index] # NoBlock
          /\ f.value = repo[g][f.index].value /\ f.sig = repo[g][f.index].sig
       \/ /\ f.index < Len(log[g]) /\ f.value = log[g][f.index + 1]
          /\ f.sig = Sign(g, SubSeq(log[g], 1, f.index + 1))

(* Frames that are on a connection after a step were there before it, or   *)
(* were sent in it.                                                        *)
WireMoves ==
  \A s \in Sessions : \A k \in 1 .. Len(wire'[s]) :
    \/ \E j \in 1 .. Len(wire[s]) : wire'[s][k] = wire[s][j]
    \/ NewFrame(s, wire'[s][k])

WireTypeOK ==
  /\ wire \in [Sessions -> Seq(Frames)]
  /\ \A s \in Sessions : Len(wire[s]) <= WireCap

OutTypeOK == out \in [Sessions -> Seq(Debts)]

(* A connection nothing happens on.                                        *)
LEMMA WireRests ==
  ASSUME WireTypeOK, UNCHANGED wire
  PROVE  WireTypeOK' /\ WireMoves
<1>1. \A s \in Sessions : \A k \in 1 .. Len(wire'[s]) : k \in 1 .. Len(wire[s]) /\ wire'[s][k] = wire[s][k]
  OBVIOUS
<1> QED
  BY <1>1 DEF WireTypeOK, WireMoves

(* A frame is written.                                                     *)
LEMMA WireSends ==
  ASSUME WireTypeOK, NEW p \in Sessions, NEW f, NewFrame(p, f), HasRoom(p),
         wire' = [wire EXCEPT ![p] = Append(wire[p], f)]
  PROVE  WireTypeOK' /\ WireMoves
<1>1. f \in Frames /\ wire[p] \in Seq(Frames) /\ Len(wire[p]) \in Nat /\ WireCap \in Nat
  BY SessionFacts, LenProperties DEF WireTypeOK, NewFrame
<1>2. /\ wire'[p] = Append(wire[p], f)
      /\ \A s \in Sessions : s # p => wire'[s] = wire[s]
  BY DEF WireTypeOK
<1>3. /\ wire'[p] \in Seq(Frames) /\ Len(wire'[p]) = Len(wire[p]) + 1
      /\ \A i \in 1 .. Len(wire[p]) : wire'[p][i] = wire[p][i]
      /\ wire'[p][Len(wire[p]) + 1] = f
  BY <1>1, <1>2, AppendProperties
<1>4. WireTypeOK'
  <2>1. wire' \in [Sessions -> Seq(Frames)]
    BY <1>2, <1>3 DEF WireTypeOK
  <2>2. \A s \in Sessions : Len(wire'[s]) <= WireCap
    BY <1>1, <1>2, <1>3 DEF WireTypeOK, HasRoom
  <2> QED
    BY <2>1, <2>2 DEF WireTypeOK
<1>5. WireMoves
  <2> SUFFICES ASSUME NEW s \in Sessions, NEW k \in 1 .. Len(wire'[s])
               PROVE  \/ \E j \in 1 .. Len(wire[s]) : wire'[s][k] = wire[s][j]
                      \/ NewFrame(s, wire'[s][k])
    BY DEF WireMoves
  <2>1. CASE s = p /\ k = Len(wire[p]) + 1
    BY <1>3, <2>1
  <2>2. CASE s = p /\ k # Len(wire[p]) + 1
    <3>1. k \in 1 .. Len(wire[p])
      BY <1>1, <1>3, <2>2
    <3> QED
      BY <1>3, <2>2, <3>1
  <2>3. CASE s # p
    BY <1>2, <2>3
  <2> QED
    BY <2>1, <2>2, <2>3
<1> QED
  BY <1>4, <1>5

(* A frame is read.                                                        *)
LEMMA WireReads ==
  ASSUME WireTypeOK, NEW p \in Sessions, wire[p] # << >>,
         wire' = [wire EXCEPT ![p] = Tail(wire[p])]
  PROVE  WireTypeOK' /\ WireMoves /\ Head(wire[p]) \in Frames /\ 1 \in 1 .. Len(wire[p])
         /\ Head(wire[p]) = wire[p][1]
<1>1. wire[p] \in Seq(Frames) /\ Len(wire[p]) \in Nat /\ WireCap \in Nat
  BY SessionFacts, LenProperties DEF WireTypeOK
<1>2. /\ wire'[p] = Tail(wire[p])
      /\ \A s \in Sessions : s # p => wire'[s] = wire[s]
  BY DEF WireTypeOK
<1>a. Len(wire[p]) > 0
  BY <1>1, EmptySeq
<1>b. /\ Head(wire[p]) \in Frames /\ Tail(wire[p]) \in Seq(Frames)
      /\ Len(Tail(wire[p])) = Len(wire[p]) - 1
      /\ \A i \in 1 .. Len(Tail(wire[p])) : Tail(wire[p])[i] = wire[p][i + 1]
  BY <1>1, HeadTailProperties
<1>3. /\ wire'[p] \in Seq(Frames) /\ Len(wire'[p]) = Len(wire[p]) - 1 /\ Len(wire[p]) > 0
      /\ \A i \in 1 .. Len(wire'[p]) : wire'[p][i] = wire[p][i + 1]
      /\ Head(wire[p]) \in Frames
  BY <1>2, <1>a, <1>b
<1>4. WireTypeOK'
  <2>1. wire' \in [Sessions -> Seq(Frames)]
    BY <1>2, <1>3 DEF WireTypeOK
  <2>2. \A s \in Sessions : Len(wire'[s]) <= WireCap
    BY <1>1, <1>2, <1>3 DEF WireTypeOK
  <2> QED
    BY <2>1, <2>2 DEF WireTypeOK
<1>5. WireMoves
  <2> SUFFICES ASSUME NEW s \in Sessions, NEW k \in 1 .. Len(wire'[s])
               PROVE  \E j \in 1 .. Len(wire[s]) : wire'[s][k] = wire[s][j]
    BY DEF WireMoves
  <2>1. CASE s = p
    <3>1. k + 1 \in 1 .. Len(wire[p])
      BY <1>1, <1>3, <2>1
    <3> QED
      BY <1>3, <2>1, <3>1
  <2>2. CASE s # p
    BY <1>2, <2>2
  <2> QED
    BY <2>1, <2>2
<1>6. Head(wire[p]) = wire[p][1] /\ 1 \in 1 .. Len(wire[p])
  BY <1>1, <1>3
<1> QED
  BY <1>3, <1>4, <1>5, <1>6

(* A session ends.                                                         *)
LEMMA WireEnds ==
  ASSUME WireTypeOK, NEW p \in Sessions, wire' = [wire EXCEPT ![p] = << >>]
  PROVE  WireTypeOK' /\ WireMoves
<1>1. /\ wire'[p] = << >> /\ Len(wire'[p]) = 0 /\ wire'[p] \in Seq(Frames)
      /\ \A s \in Sessions : s # p => wire'[s] = wire[s]
  BY EmptySeq DEF WireTypeOK
<1>2. WireTypeOK'
  <2>1. wire' \in [Sessions -> Seq(Frames)]
    BY <1>1 DEF WireTypeOK
  <2>a. 0 <= WireCap
    BY SessionFacts
  <2>2. \A s \in Sessions : Len(wire'[s]) <= WireCap
    BY <1>1, <2>a DEF WireTypeOK
  <2> QED
    BY <2>1, <2>2 DEF WireTypeOK
<1>3. WireMoves
  BY <1>1 DEF WireMoves
<1> QED
  BY <1>2, <1>3

-----------------------------------------------------------------------------
(* What a step does to the network and to the feeds *)

NetTypeOK ==
  /\ phase \in [Sessions -> Phases]
  /\ OutTypeOK
  /\ WireTypeOK
  /\ dials \in 0 .. MaxDials

(* Where the block at an end of a connection comes from: a Data frame that *)
(* was on it.                                                              *)
Received(s, f) == f \in Frames /\ f.type = "data" /\ \E j \in 1 .. Len(wire[s]) : wire[s][j] = f

(* The steps of the feeds.                                                 *)
FeedMoves ==
  \/ UNCHANGED feedVars
  \/ \E c \in Clients : AppendBlock(c)
  \/ \E r \in Replies : AgenticReply(r) \/ AgenticFails(r)
  \/ \E t \in Tasks : Store(t) \/ StoreFails(t) \/ Publish(t)
  \/ \E s \in Sessions, f \in Frames : Received(s, f) /\ ReceiveData(s, f.index, f.value, f.sig)

(* A session is ended for a bad signature when it got one.                 *)
Rejections ==
  \A s \in Sessions : phase'[s] = "rejected" /\ phase[s] # "rejected" =>
    \E f \in Frames : /\ f = Head(wire[s]) /\ Received(s, f)
                      /\ IsNext(s, f.index) /\ ~Verified(s, f.value, f.sig)

Moves == NetTypeOK' /\ WireMoves /\ FeedMoves /\ Rejections

(* A step that leaves the phases alone rejects nothing.                    *)
LEMMA SamePhases == ASSUME UNCHANGED phase PROVE Rejections
  BY DEF Rejections

(* A session ends for another reason than a signature.                     *)
LEMMA EndMoves ==
  ASSUME NetTypeOK, NEW s \in Sessions, End(s, "closed"),
         UNCHANGED feedVars \/ StoreFails(s)
  PROVE  Moves
<1>1. WireTypeOK' /\ WireMoves
  BY WireEnds DEF End, NetTypeOK
<1>2. OutTypeOK'
  BY EmptySeq DEF End, NetTypeOK, OutTypeOK
<1>3. phase' \in [Sessions -> Phases] /\ Rejections
  <2>1. "closed" \in Phases /\ phase' = [phase EXCEPT ![s] = "closed"]
    BY DEF End, Phases
  <2>2. \A u \in Sessions : phase'[u] = "rejected" => phase[u] = "rejected"
    BY <2>1 DEF NetTypeOK
  <2> QED
    BY <2>1, <2>2 DEF NetTypeOK, Rejections
<1>4. FeedMoves
  BY DEF FeedMoves
<1> QED
  BY <1>1, <1>2, <1>3, <1>4 DEF Moves, NetTypeOK, End

(* Run starts.                                                             *)
LEMMA RunMoves == ASSUME NetTypeOK, NEW s \in Sessions, Run(s) PROVE Moves
<1>1. WireTypeOK' /\ WireMoves
  BY WireRests DEF Run, NetTypeOK
<1>2. OutTypeOK'
  <2>1. <<Handshake>> \in Seq(Debts)
    BY DEF Debts
  <2> QED
    BY <2>1 DEF Run, NetTypeOK, OutTypeOK
<1>3. phase' \in [Sessions -> Phases] /\ Rejections
  <2>1. "handshake" \in Phases /\ phase' = [phase EXCEPT ![s] = "handshake"]
    BY DEF Run, Phases
  <2>2. \A u \in Sessions : phase'[u] = "rejected" => phase[u] = "rejected"
    BY <2>1 DEF NetTypeOK
  <2> QED
    BY <2>1, <2>2 DEF NetTypeOK, Rejections
<1>4. FeedMoves
  BY DEF FeedMoves, Run
<1> QED
  BY <1>1, <1>2, <1>3, <1>4 DEF Moves, NetTypeOK, Run

(* What is left to write.                                                  *)
LEMMA OutShrinks ==
  ASSUME OutTypeOK, NEW s \in Sessions, out[s] # << >>, out' = [out EXCEPT ![s] = Tail(@)]
  PROVE  OutTypeOK' /\ Head(out[s]) \in Debts
<1>1. out[s] \in Seq(Debts)
  BY DEF OutTypeOK
<1>2. Head(out[s]) \in Debts /\ Tail(out[s]) \in Seq(Debts)
  BY <1>1, HeadTailProperties
<1> QED
  BY <1>2 DEF OutTypeOK

(* A frame is written.                                                     *)
LEMMA WriteFrameMoves == ASSUME NetTypeOK, NEW s \in Sessions, WriteFrame(s) PROVE Moves
<1>1. OutTypeOK' /\ Head(out[s]) \in Debts
  BY OutShrinks DEF WriteFrame, NetTypeOK
<1>2. Head(out[s]) \in Frames /\ Head(out[s]).type # "data"
  BY <1>1, DebtFacts DEF WriteFrame
<1>3. PeerOf[s] \in Sessions
  BY SessionFacts
<1>4. NewFrame(PeerOf[s], Head(out[s]))
  BY <1>2 DEF NewFrame
<1>5. WireTypeOK' /\ WireMoves
  BY <1>3, <1>4, WireSends DEF WriteFrame, NetTypeOK
<1>6. FeedMoves /\ Rejections
  BY SamePhases DEF FeedMoves, WriteFrame
<1> QED
  BY <1>1, <1>5, <1>6 DEF Moves, NetTypeOK, WriteFrame

(* A Have frame is announced.                                              *)
LEMMA NotifyMoves == ASSUME FeedTypeOK, NetTypeOK, NEW s \in Sessions, NotifyHave(s) PROVE Moves
<1>1. PeerOf[s] \in Sessions /\ HomeOf[s] \in Gateways
  BY SessionFacts
<1>2. Len(log[HomeOf[s]]) \in Indices
  BY <1>1, LenProperties, FeedAssumption DEF FeedTypeOK
<1>3. Have(Len(log[HomeOf[s]])) \in Frames /\ Have(Len(log[HomeOf[s]])).type # "data"
  BY <1>2 DEF Frames, Have
<1>4. NewFrame(PeerOf[s], Have(Len(log[HomeOf[s]])))
  BY <1>3 DEF NewFrame
<1>5. WireTypeOK' /\ WireMoves
  BY <1>1, <1>4, WireSends DEF NotifyHave, NetTypeOK
<1>6. OutTypeOK'
  BY DEF OutTypeOK, NetTypeOK, NotifyHave
<1>7. FeedMoves /\ Rejections
  BY SamePhases DEF FeedMoves, NotifyHave
<1> QED
  BY <1>5, <1>6, <1>7 DEF Moves, NetTypeOK, NotifyHave

(* A block is sent, or there is none.                                      *)
LEMMA SendBlockMoves == ASSUME FeedTypeOK, NetTypeOK, NEW s \in Sessions, SendBlockData(s) PROVE Moves
<1> DEFINE i == Head(out[s]).index
           p == PeerOf[s]
<1>1. OutTypeOK' /\ Head(out[s]) \in Debts
  BY OutShrinks DEF SendBlockData, NetTypeOK
<1>2. i \in Indices /\ p \in Sessions /\ PeerOf[p] = s
  BY <1>1, DebtFacts, SessionFacts DEF SendBlockData
<1>3. PICK frames \in BlockData(s, i) : wire' = [wire EXCEPT ![p] = @ \o frames]
  BY DEF SendBlockData
<1>4. wire[p] \in Seq(Frames)
  BY <1>2 DEF NetTypeOK, WireTypeOK
<1>5. WireTypeOK' /\ WireMoves
  <2>1. CASE frames = << >>
    <3>1. wire[p] \o frames = wire[p]
      BY <1>4, <2>1, ConcatEmptySeq
    <3>2. wire' = wire
      BY <1>2, <1>3, <3>1 DEF NetTypeOK, WireTypeOK
    <3> QED
      BY <3>2, WireRests DEF NetTypeOK
  <2>2. ASSUME NEW f, frames = <<f>>, f \in Frames, f.type = "data", f.index = i,
               \/ /\ HomeOf[s] \in RepoGateways /\ repo[HomeOf[s]][i] # NoBlock
                  /\ f.value = repo[HomeOf[s]][i].value /\ f.sig = repo[HomeOf[s]][i].sig
               \/ /\ i < Len(log[HomeOf[s]]) /\ f.value = log[HomeOf[s]][i + 1]
                  /\ f.sig = Sign(HomeOf[s], SubSeq(log[HomeOf[s]], 1, i + 1))
        PROVE  WireTypeOK' /\ WireMoves
    <3> HIDE DEF i, p
    <3>1. NewFrame(p, f)
      BY <1>2, <2>2 DEF NewFrame
    <3>2. wire[p] \o frames = Append(wire[p], f)
      BY <1>4, <2>2, AppendIsConcat
    <3>3. wire' = [wire EXCEPT ![p] = Append(wire[p], f)]
      BY <1>3, <3>2
    <3>4. HasRoom(p)
      BY DEF SendBlockData, p
    <3> QED
      BY <1>2, <3>1, <3>3, <3>4, WireSends DEF NetTypeOK
  <2> QED
    BY <1>2, <2>1, <2>2, BlockDataFacts
<1>6. FeedMoves /\ Rejections
  BY SamePhases DEF FeedMoves, SendBlockData
<1> QED
  BY <1>1, <1>5, <1>6 DEF Moves, NetTypeOK, SendBlockData

(* A frame is consumed and debts are made of it.                           *)
LEMMA ConsumeMoves ==
  ASSUME NetTypeOK, NEW s \in Sessions, wire[s] # << >>, NEW debts \in Seq(Debts), Consume(s, debts)
  PROVE  NetTypeOK' /\ WireMoves /\ Rejections
<1>1. WireTypeOK' /\ WireMoves
  BY WireReads DEF Consume, NetTypeOK
<1>2. OutTypeOK'
  BY DEF Consume, NetTypeOK, OutTypeOK
<1>3. Rejections
  BY SamePhases DEF Consume
<1> QED
  BY <1>1, <1>2, <1>3 DEF NetTypeOK, Consume

(* The frame that is read is one of the connection.                        *)
LEMMA HeadFrame ==
  ASSUME NetTypeOK, NEW s \in Sessions, wire[s] # << >>
  PROVE  Head(wire[s]) \in Frames /\ (Head(wire[s]).type = "data" => Received(s, Head(wire[s])))
<1>1. wire[s] \in Seq(Frames)
  BY DEF NetTypeOK, WireTypeOK
<1>2. Head(wire[s]) \in Frames /\ Head(wire[s]) = wire[s][1] /\ 1 \in 1 .. Len(wire[s])
  BY <1>1, HeadTailProperties, EmptySeq
<1> QED
  BY <1>2 DEF Received

(* A log's length is an index.                                             *)
LEMMA LengthIsIndex ==
  ASSUME FeedTypeOK, NEW s \in Sessions PROVE Len(log[HomeOf[s]]) \in Indices
<1>1. HomeOf[s] \in Gateways
  BY SessionFacts
<1> QED
  BY <1>1, LenProperties, FeedAssumption DEF FeedTypeOK

(* The handshake is read.                                                  *)
LEMMA HandshakeMoves == ASSUME FeedTypeOK, NetTypeOK, NEW s \in Sessions, ReadHandshake(s) PROVE Moves
<1> DEFINE n == Len(log[HomeOf[s]])
<1>1. CASE Head(wire[s]) = Handshake
  <2>1. /\ wire[s] # << >>
        /\ wire' = [wire EXCEPT ![s] = Tail(@)]
        /\ out' = [out EXCEPT ![s] = <<Have(n), Want(n)>>]
        /\ phase' = [phase EXCEPT ![s] = "running"]
        /\ UNCHANGED dials /\ UNCHANGED feedVars
    BY <1>1 DEF ReadHandshake
  <2>2. WireTypeOK' /\ WireMoves
    BY <2>1, WireReads DEF NetTypeOK
  <2>3. OutTypeOK'
    <3>1. n \in Indices
      BY LengthIsIndex
    <3> HIDE DEF n
    <3>2. Have(n) \in Debts /\ Want(n) \in Debts
      BY <3>1 DEF Debts
    <3>3. <<Have(n), Want(n)>> \in Seq(Debts)
      BY <3>2
    <3> QED
      BY <2>1, <3>3 DEF NetTypeOK, OutTypeOK
  <2>4. phase' \in [Sessions -> Phases] /\ Rejections
    <3>1. "running" \in Phases
      BY DEF Phases
    <3>2. \A u \in Sessions : phase'[u] = "rejected" => phase[u] = "rejected"
      BY <2>1, <3>1 DEF NetTypeOK
    <3> QED
      BY <2>1, <3>1, <3>2 DEF NetTypeOK, Rejections
  <2>5. FeedMoves
    BY <2>1 DEF FeedMoves
  <2> QED
    BY <2>1, <2>2, <2>3, <2>4, <2>5 DEF Moves, NetTypeOK
<1>2. CASE Head(wire[s]) # Handshake
  BY <1>2, EndMoves DEF ReadHandshake
<1> QED
  BY <1>1, <1>2

(* Have, Want and Request frames are read.                                 *)
LEMMA OfferMoves ==
  ASSUME FeedTypeOK, NetTypeOK, NEW s \in Sessions, ReadHave(s) \/ ReadWant(s) \/ ReadRequest(s)
  PROVE  Moves
<1> DEFINE f == Head(wire[s])
<1>1. wire[s] # << >> /\ UNCHANGED feedVars
  BY DEF ReadHave, ReadWant, ReadRequest, Reads
<1>2. f \in Frames /\ Len(log[HomeOf[s]]) \in Indices
  BY <1>1, HeadFrame, LengthIsIndex
<1>3. CASE ReadHave(s)
  <2>1. f.len \in Indices
    BY <1>2, <1>3, FrameFacts DEF ReadHave, Reads
  <2>2. Each(Request, Len(log[HomeOf[s]]), f.len) \in Seq(Debts)
    BY <1>2, <2>1, EachDebts
  <2> QED
    BY <1>1, <1>3, <2>2, ConsumeMoves DEF ReadHave, Moves, FeedMoves
<1>4. CASE ReadWant(s)
  <2>1. f.start \in Indices
    BY <1>2, <1>4, FrameFacts DEF ReadWant, Reads
  <2>2. Each(SendBlock, f.start, Len(log[HomeOf[s]])) \in Seq(Debts)
    BY <1>2, <2>1, EachDebts
  <2> QED
    BY <1>1, <1>4, <2>2, ConsumeMoves DEF ReadWant, Moves, FeedMoves
<1>5. CASE ReadRequest(s)
  <2>1. f.index \in Indices
    BY <1>2, <1>5, FrameFacts DEF ReadRequest, Reads
  <2>2. SendBlock(f.index) \in Debts
    BY <2>1 DEF Debts
  <2>3. <<SendBlock(f.index)>> \in Seq(Debts)
    BY <2>2
  <2> QED
    BY <1>1, <1>5, <2>3, ConsumeMoves DEF ReadRequest, Moves, FeedMoves
<1> QED
  BY <1>3, <1>4, <1>5

(* A Data frame is read.                                                   *)
LEMMA DataMoves == ASSUME NetTypeOK, NEW s \in Sessions, ReadData(s) PROVE Moves
<1> DEFINE f == Head(wire[s])
<1>1. wire[s] # << >> /\ f.type = "data"
  BY DEF ReadData, Reads
<1>2. f \in Frames /\ Received(s, f)
  BY <1>1, HeadFrame
<1>3. << >> \in Seq(Debts)
  BY EmptySeq
<1>4. CASE ReceiveData(s, f.index, f.value, f.sig) /\ Consume(s, << >>)
  <2>1. FeedMoves
    BY <1>2, <1>4 DEF FeedMoves
  <2> QED
    BY <1>1, <1>3, <1>4, <2>1, ConsumeMoves DEF Moves
<1>5. CASE IsNext(s, f.index) /\ ~Verified(s, f.value, f.sig) /\ End(s, "rejected") /\ UNCHANGED feedVars
  <2>1. WireTypeOK' /\ WireMoves
    BY <1>5, WireEnds DEF End, NetTypeOK
  <2>2. OutTypeOK'
    BY <1>5, EmptySeq DEF End, NetTypeOK, OutTypeOK
  <2>3. phase' \in [Sessions -> Phases]
    BY <1>5 DEF End, NetTypeOK, Phases
  <2>4. \A u \in Sessions : u # s => phase'[u] = phase[u]
    BY <1>5 DEF End, NetTypeOK
  <2>5. Rejections
    <3>1. f = Head(wire[s])
      OBVIOUS
    <3> HIDE DEF f
    <3> QED
      BY <1>2, <1>5, <2>4, <3>1 DEF Rejections
  <2>6. FeedMoves
    BY <1>5 DEF FeedMoves
  <2> QED
    BY <1>5, <2>1, <2>2, <2>3, <2>5, <2>6 DEF Moves, NetTypeOK, End
<1>6. CASE Consume(s, << >>) /\ UNCHANGED feedVars
  <2>1. FeedMoves
    BY <1>6 DEF FeedMoves
  <2> QED
    BY <1>1, <1>3, <1>6, <2>1, ConsumeMoves DEF Moves
<1> QED
  BY <1>4, <1>5, <1>6 DEF ReadData

(* Gateways connect again.                                                 *)
LEMMA RedialMoves == ASSUME NetTypeOK, NEW s \in Sessions, Redial(s) PROVE Moves
<1>1. WireTypeOK' /\ WireMoves
  BY WireRests DEF Redial, NetTypeOK
<1>2. OutTypeOK'
  BY DEF Redial, NetTypeOK, OutTypeOK
<1>3. phase' \in [Sessions -> Phases] /\ Rejections
  <2>1. \A u \in Sessions : phase'[u] = "dialled" \/ phase'[u] = phase[u]
    BY DEF Redial
  <2>2. phase' \in [Sessions -> Phases]
    BY DEF Redial, NetTypeOK, Phases
  <2> QED
    BY <2>1, <2>2 DEF Rejections
<1>4. dials' \in 0 .. MaxDials
  BY ReplicationAssumption DEF Redial, NetTypeOK
<1>5. FeedMoves
  BY DEF FeedMoves, Redial
<1> QED
  BY <1>1, <1>2, <1>3, <1>4, <1>5 DEF Moves, NetTypeOK

(* What every step does.                                                   *)
LEMMA NextMoves == ASSUME FeedTypeOK, NetTypeOK, [Next]_vars PROVE Moves
<1>1. ASSUME NEW s \in Sessions, SessionStep(s) \/ NotifyHave(s) \/ SessionStoreFails(s) \/ Redial(s)
      PROVE  Moves
  <2>1. CASE Run(s)
    BY <2>1, RunMoves
  <2>2. CASE WriteFrame(s) \/ SendBlockData(s)
    BY <2>2, WriteFrameMoves, SendBlockMoves
  <2>3. CASE WriteFails(s) \/ ReadFails(s) \/ SessionStoreFails(s)
    BY <2>3, EndMoves DEF WriteFails, ReadFails, SessionStoreFails
  <2>4. CASE ReadHandshake(s) \/ ReadHave(s) \/ ReadWant(s) \/ ReadRequest(s) \/ ReadData(s)
    BY <2>4, HandshakeMoves, OfferMoves, DataMoves
  <2>5. CASE NotifyHave(s) \/ Redial(s)
    BY <2>5, NotifyMoves, RedialMoves
  <2> QED
    BY <1>1, <2>1, <2>2, <2>3, <2>4, <2>5 DEF SessionStep, Write, Read
<1>2. CASE FeedStep \/ UNCHANGED vars
  <2>1. UNCHANGED netVars /\ FeedMoves
    BY <1>2 DEF FeedStep, FeedMoves, vars
  <2>2. WireTypeOK' /\ WireMoves /\ Rejections
    BY <2>1, WireRests, SamePhases DEF netVars, NetTypeOK
  <2>3. NetTypeOK'
    BY <2>1, <2>2 DEF netVars, NetTypeOK, OutTypeOK
  <2> QED
    BY <2>1, <2>2, <2>3 DEF Moves
<1> QED
  BY <1>1, <1>2 DEF Next

-----------------------------------------------------------------------------
(* The feeds are those of module Feed *)

(* Data on a connection was served from the other end, out of its log.     *)
DataIsOld ==
  \A s \in Sessions, f \in Frames : Received(s, f) => f.index < Len(log[HomeOf[PeerOf[s]]])

NetInv == FeedInv /\ NetTypeOK /\ DataIsOld

(* Initially the connections are empty.                                    *)
LEMMA NetInit == Init => NetInv
<1> SUFFICES ASSUME Init PROVE NetInv
  OBVIOUS
<1>1. FeedInv
  BY InvInit DEF Init
<1>2. WireTypeOK
  <2>1. \A s \in Sessions : Len(wire[s]) = 0 /\ 0 <= WireCap /\ wire[s] \in Seq(Frames)
    BY SessionFacts, EmptySeq DEF Init
  <2> QED
    BY <2>1, EmptySeq DEF Init, WireTypeOK
<1>3. NetTypeOK
  BY <1>2, EmptySeq, ReplicationAssumption DEF NetTypeOK, OutTypeOK, Init, Phases
<1>4. DataIsOld
  BY EmptySeq DEF DataIsOld, Received, Init
<1> QED
  BY <1>1, <1>3, <1>4 DEF NetInv

(* The steps of the feeds keep their invariant, whatever frames arrive.    *)
LEMMA FeedInvMoves == ASSUME FeedInv, FeedMoves PROVE FeedInv' /\ LogGrows
<1>0. FeedTypeOK
  BY DEF FeedInv
<1>1. CASE UNCHANGED feedVars
  <2>1. LogGrows
    BY <1>0, <1>1, GrowsUnchanged DEF feedVars
  <2> QED
    BY <1>1, <2>1, InvStep
<1>2. ASSUME NEW s \in Sessions, NEW f \in Frames, Received(s, f),
             ReceiveData(s, f.index, f.value, f.sig)
      PROVE  FeedInv' /\ LogGrows
  <2>1. f.value \in Payloads /\ f.sig \in Sigs
    BY <1>2, FrameFacts DEF Received
  <2>2. FeedInv'
    BY <1>2, <2>1, InvMeasure DEF ReceiveData
  <2>3. LogGrows
    BY <1>0, <1>2, GrowsUnchanged DEF ReceiveData
  <2> QED
    BY <2>2, <2>3
<1>3. ASSUME NEW c \in Clients, AppendBlock(c) PROVE FeedInv' /\ LogGrows
  <2>1. FeedNext /\ UNCHANGED log
    BY <1>3 DEF FeedNext, AppendBlock
  <2> QED
    BY <1>0, <2>1, GrowsUnchanged, InvStep
<1>4. ASSUME NEW r \in Replies, AgenticReply(r) \/ AgenticFails(r) PROVE FeedInv' /\ LogGrows
  <2>1. FeedNext
    BY <1>4 DEF FeedNext
  <2>2. UNCHANGED log
    BY <1>4 DEF AgenticReply, AgenticFails
  <2> QED
    BY <1>0, <2>1, <2>2, GrowsUnchanged, InvStep
<1>5. ASSUME NEW t \in Tasks, Store(t) \/ StoreFails(t) \/ Publish(t) PROVE FeedInv' /\ LogGrows
  <2>1. FeedNext
    BY <1>5 DEF FeedNext
  <2>2. Store(t) \/ UNCHANGED log
    BY <1>5 DEF StoreFails, Publish
  <2> QED
    BY <1>0, <2>1, <2>2, GrowsUnchanged, GrowsStore, InvStep
<1> QED
  BY <1>1, <1>2, <1>3, <1>4, <1>5 DEF FeedMoves

(* A Data frame of the next state is on the connection already, or served  *)
(* now.                                                                    *)
LEMMA ReceivedMoves ==
  ASSUME WireMoves, NEW s \in Sessions, NEW f \in Frames, Received(s, f)'
  PROVE  Received(s, f) \/ (NewFrame(s, f) /\ f.type = "data")
  BY DEF WireMoves, Received

(* The lengths of logs are numbers.                                        *)
LEMMA LogTypes ==
  ASSUME FeedTypeOK, NEW g \in Gateways
  PROVE  log[g] \in Seq(Payloads) /\ Len(log[g]) \in Nat /\ Len(log[g]) <= MaxBlocks
  BY LenProperties DEF FeedTypeOK

(* Every step keeps the invariant.                                         *)
LEMMA NetStep == NetInv /\ [Next]_vars => NetInv' /\ Moves /\ LogGrows
<1> SUFFICES ASSUME NetInv, [Next]_vars PROVE NetInv' /\ Moves /\ LogGrows
  OBVIOUS
<1>1. Moves /\ FeedTypeOK
  BY NextMoves DEF NetInv, FeedInv
<1>2. FeedInv' /\ LogGrows /\ FeedTypeOK'
  BY <1>1, FeedInvMoves DEF Moves, NetInv, FeedInv
<1>3. DataIsOld'
  <2> SUFFICES ASSUME NEW s \in Sessions, NEW f \in Frames, Received(s, f)'
               PROVE  f.index < Len(log'[HomeOf[PeerOf[s]]])
    BY DEF DataIsOld
  <2> DEFINE g == HomeOf[PeerOf[s]]
  <2>1. g \in Gateways
    BY SessionFacts
  <2>2. Len(log[g]) \in Nat /\ Len(log'[g]) \in Nat /\ Len(log[g]) <= Len(log'[g])
    <3>1. log[g] \in Seq(Payloads) /\ log'[g] \in Seq(Payloads)
      BY <1>1, <1>2, <2>1 DEF FeedTypeOK
    <3> QED
      BY <1>2, <2>1, <3>1, LenProperties DEF LogGrows
  <2>3. f.type = "data" /\ f.index \in Indices /\ f.index \in Nat
    BY FrameFacts, FeedAssumption DEF Received
  <2>4. f.index < Len(log[g])
    <3>1. CASE Received(s, f)
      BY <3>1 DEF NetInv, DataIsOld
    <3>2. CASE NewFrame(s, f) /\ ~Received(s, f)
      <4>1. CASE repo[g][f.index] # NoBlock
        <5>1. LiesAtOrAfter(g, f.index, repo[g][f.index].value)
          BY <2>1, <2>3, <4>1 DEF NetInv, FeedInv, StoredBlocksExist
        <5> QED
          BY <2>2, <2>3, <5>1 DEF LiesAtOrAfter
      <4> QED
        BY <2>3, <3>2, <4>1 DEF NewFrame
    <3> QED
      BY <1>1, <3>1, <3>2, ReceivedMoves DEF Moves
  <2> QED
    BY <2>2, <2>3, <2>4
<1> QED
  BY <1>1, <1>2, <1>3 DEF NetInv, Moves

(* The invariant holds throughout.                                         *)
THEOREM NetInvariant == Spec => []NetInv
  BY NetInit, NetStep, PTL DEF Spec

(* The variables of gateways and connections keep their types; no          *)
(* connection ever holds more than WireCap frames, and no goroutine writes *)
(* a frame or appends a block that it does not have.                       *)
THEOREM ReplicationTypes == Spec => []ReplicationTypeOK
<1>1. NetInv => ReplicationTypeOK
  BY DEF NetInv, FeedInv, NetTypeOK, OutTypeOK, WireTypeOK, ReplicationTypeOK
<1> QED
  BY <1>1, NetInvariant, PTL

(* Every signature over a log that fits may come with a Data frame.        *)
PeersMaySign ==
  \A k \in Keys, l \in Seq(Payloads) : Len(l) \in 1 .. MaxBlocks => Sign(k, l) \in PeerSigs

(* A step of the gateways is a step of their feeds, or leaves them alone.  *)
LEMMA FeedStepImplemented ==
  ASSUME PeersMaySign, NetInv, [Next]_vars
  PROVE  [FeedNext]_feedVars
<1>1. FeedMoves
  BY NetStep DEF Moves
<1>2. ASSUME NEW s \in Sessions, NEW f \in Frames, Received(s, f),
             ReceiveData(s, f.index, f.value, f.sig)
      PROVE  FeedNext
  <2> DEFINE g == HomeOf[s]
             h == HomeOf[PeerOf[s]]
             l == Append(log[g], f.value)
  <2>1. f.index \in Indices /\ f.value \in Payloads /\ f.sig \in Sigs
    BY <1>2, FrameFacts DEF Received
  <2>2. g \in Gateways /\ h \in Gateways /\ RemoteOf[s] \in Keys /\ FeedTypeOK /\ MaxBlocks \in Nat
    BY SessionFacts, FeedAssumption DEF NetInv, FeedInv
  <2>3. f.index < Len(log[h]) /\ Len(log[h]) \in Nat /\ Len(log[h]) <= MaxBlocks
    BY <1>2, <2>2, LogTypes DEF NetInv, DataIsOld
  <2>4. f.index = Len(log[g]) /\ f.sig = Sign(RemoteOf[s], l)
    BY <1>2 DEF ReceiveData, IsNext, Verified, Verify
  <2>5. log[g] \in Seq(Payloads) /\ Len(log[g]) \in Nat
    BY <2>2, LogTypes
  <2>6. l \in Seq(Payloads) /\ Len(l) = Len(log[g]) + 1
    BY <2>1, <2>5, AppendProperties
  <2>7. Len(l) \in 1 .. MaxBlocks
    BY <2>2, <2>3, <2>4, <2>5, <2>6
  <2> HIDE DEF l
  <2>8. f.sig \in PeerSigs
    BY <2>2, <2>4, <2>6, <2>7 DEF PeersMaySign
  <2> QED
    BY <1>2, <2>1, <2>8 DEF FeedNext
<1> QED
  BY <1>1, <1>2 DEF FeedMoves, FeedNext

(* Gateways that replicate over connections run the feeds of module Feed:  *)
(* what is proved of those, about any peer, holds here.                    *)
THEOREM ImplementsFeed == PeersMaySign => (Spec => FeedSpec)
<1> SUFFICES ASSUME PeersMaySign PROVE Spec => FeedSpec
  OBVIOUS
<1>1. Init => FeedInit
  BY DEF Init
<1>2. NetInv /\ [Next]_vars => [FeedNext]_feedVars
  BY FeedStepImplemented
<1> QED
  BY <1>1, <1>2, NetInvariant, PTL DEF Spec, FeedSpec

-----------------------------------------------------------------------------
(* A signature of a gateway was made by it *)

(* Clients of a gateway do not hold the key of any gateway.                *)
HonestClients == \A sig \in ClientSigs : sig.by \notin Gateways

Honest(sig) == sig.by \in Gateways => IsPrefixOf(sig.over, log[sig.by])

(* Signatures are copied from frames to goroutines, from there to rows and *)
(* from rows to frames; those in the name of a gateway cover a beginning   *)
(* of its log.                                                             *)
SignaturesHonest ==
  /\ \A t \in Tasks : Honest(job[t].sig)
  /\ \A g \in Gateways, i \in Indices : Honest(repo[g][i].sig)
  /\ \A s \in Sessions, f \in Frames : Received(s, f) => Honest(f.sig)

(* A beginning of a log stays one.                                         *)
LEMMA PrefixStays ==
  ASSUME FeedTypeOK, FeedTypeOK', LogGrows, NEW g \in Gateways, NEW l \in Seq(Payloads),
         IsPrefixOf(l, log[g])
  PROVE  IsPrefixOf(l, log'[g])
<1>1. Len(l) \in Nat /\ Len(log[g]) \in Nat /\ Len(log'[g]) \in Nat
  BY LenProperties DEF FeedTypeOK
<1>2. Len(l) <= Len(log[g]) /\ \A k \in 1 .. Len(l) : l[k] = log[g][k]
  BY DEF IsPrefixOf
<1>3. Len(log[g]) <= Len(log'[g]) /\ \A k \in 1 .. Len(log[g]) : log'[g][k] = log[g][k]
  BY DEF LogGrows
<1>4. \A k \in 1 .. Len(l) : k \in 1 .. Len(log[g])
  BY <1>1, <1>2
<1> QED
  BY <1>1, <1>2, <1>3, <1>4 DEF IsPrefixOf

LEMMA HonestStays ==
  ASSUME FeedTypeOK, FeedTypeOK', LogGrows, NEW sig \in Sigs, Honest(sig)
  PROVE  sig.by \in Gateways => IsPrefixOf(sig.over, log'[sig.by])
  BY PrefixStays DEF Honest

LEMMA NoSigHonest == NoSig.by \notin Gateways /\ IdleJob.sig = NoSig /\ NoBlock.sig = NoSig
  BY FeedAssumption DEF NoSig, IdleJob, NoBlock

(* The signature of a goroutine is the one it had, or came with a command, *)
(* with a Data frame that it accepted, or is none.                         *)
LEMMA JobSignature ==
  ASSUME FeedTypeOK, FeedMoves, NEW t \in Tasks
  PROVE  \/ job'[t].sig = job[t].sig
         \/ job'[t].sig = NoSig
         \/ job'[t].sig \in ClientSigs
         \/ /\ t \in Sessions
            /\ \E f \in Frames : /\ Received(t, f) /\ job'[t].sig = f.sig
                                 /\ IsNext(t, f.index) /\ Verified(t, f.value, f.sig)
<1>0. job \in [Tasks -> Jobs]
  BY DEF FeedTypeOK
<1>m. ASSUME NEW u \in Tasks, NEW v, NEW sig, Measure(u, v, sig)
      PROVE  job'[t].sig = job[t].sig \/ (t = u /\ job'[t].sig = sig)
  BY <1>0, <1>m DEF Measure
<1>1. CASE UNCHANGED feedVars
  BY <1>1 DEF feedVars
<1>2. ASSUME NEW c \in Clients, AppendBlock(c)
      PROVE  job'[t].sig = job[t].sig \/ job'[t].sig \in ClientSigs
  BY <1>2, <1>m DEF AppendBlock
<1>3. ASSUME NEW r \in Replies, AgenticReply(r) \/ AgenticFails(r)
      PROVE  job'[t].sig = job[t].sig \/ job'[t].sig = NoSig
  <2>1. CASE AgenticReply(r)
    BY <2>1, <1>m DEF AgenticReply
  <2>2. CASE AgenticFails(r)
    BY <1>0, <2>2, NoSigHonest DEF AgenticFails
  <2> QED
    BY <1>3, <2>1, <2>2
<1>4. ASSUME NEW u \in Tasks, Store(u) \/ StoreFails(u) \/ Publish(u)
      PROVE  job'[t].sig = job[t].sig \/ job'[t].sig = NoSig
  <2>1. CASE Store(u)
    BY <1>0, <2>1 DEF Store, Jobs
  <2>2. CASE StoreFails(u)
    BY <1>0, <2>2, NoSigHonest DEF StoreFails
  <2>3. CASE Publish(u) /\ Forwards(u)
    <3> DEFINE P == [IdleJob EXCEPT !.stage = "posting"]
    <3>1. P.sig = NoSig
      BY NoSigHonest DEF IdleJob
    <3>2. PICK r \in Replies : job' = [job EXCEPT ![u] = IdleJob, ![r] = P]
      BY <2>3 DEF Publish
    <3> HIDE DEF P
    <3>3. job'[t] = job[t] \/ job'[t] = IdleJob \/ job'[t] = P
      BY <1>0, <3>2
    <3> QED
      BY <3>1, <3>3, NoSigHonest
  <2>4. CASE Publish(u) /\ ~Forwards(u)
    BY <1>0, <2>4, NoSigHonest DEF Publish
  <2> QED
    BY <1>4, <2>1, <2>2, <2>3, <2>4
<1>5. ASSUME NEW s \in Sessions, NEW f \in Frames, Received(s, f),
             ReceiveData(s, f.index, f.value, f.sig)
      PROVE  \/ job'[t].sig = job[t].sig
             \/ /\ t = s /\ job'[t].sig = f.sig
                /\ IsNext(t, f.index) /\ Verified(t, f.value, f.sig)
  <2>1. Measure(s, f.value, f.sig) /\ IsNext(s, f.index) /\ Verified(s, f.value, f.sig)
    BY <1>5 DEF ReceiveData
  <2>2. job'[t].sig = job[t].sig \/ (t = s /\ job'[t].sig = f.sig)
    BY <1>m, <2>1
  <2> QED
    BY <2>1, <2>2
<1> QED
  BY <1>1, <1>2, <1>3, <1>4, <1>5 DEF FeedMoves

(* The row of an index is the one it was, or one a goroutine put.          *)
LEMMA RowOrigin ==
  ASSUME FeedTypeOK, FeedMoves, NEW g \in Gateways, NEW i \in Indices
  PROVE  \/ repo'[g][i] = repo[g][i]
         \/ \E t \in Tasks :
              /\ Publish(t) /\ HomeOf[t] = g /\ job[t].index = i
              /\ repo'[g][i].value = job[t].value /\ repo'[g][i].sig = job[t].sig
<1>1. ASSUME NEW t \in Tasks, Publish(t), repo'[g][i] # repo[g][i]
      PROVE  /\ HomeOf[t] = g /\ job[t].index = i
             /\ repo'[g][i].value = job[t].value /\ repo'[g][i].sig = job[t].sig
  <2> DEFINE b == [value |-> job[t].value, sig |-> job[t].sig]
             h == HomeOf[t]
             n == job[t].index
  <2>1. repo' = [repo EXCEPT ![h] = [repo[h] EXCEPT ![n] = b]]
    BY <1>1 DEF Publish, PutBlock
  <2>2. b.value = job[t].value /\ b.sig = job[t].sig
    OBVIOUS
  <2> HIDE DEF b, h, n
  <2>3. h = g /\ n = i /\ repo'[g][i] = b
    BY <1>1, <2>1 DEF FeedTypeOK
  <2> QED
    BY <2>2, <2>3 DEF h, n
<1>2. (\E t \in Tasks : Publish(t)) \/ UNCHANGED repo
  BY DEF FeedMoves, feedVars, AppendBlock, AgenticReply, AgenticFails, Store, StoreFails, ReceiveData
<1> QED
  BY <1>1, <1>2

(* Initially there are no signatures.                                      *)
LEMMA HonestInit == Init => SignaturesHonest
<1> SUFFICES ASSUME Init PROVE SignaturesHonest
  OBVIOUS
<1>1. \A t \in Tasks : job[t].sig = NoSig
  BY NoSigHonest DEF Init, FeedInit
<1>2. \A g \in Gateways, i \in Indices : repo[g][i].sig = NoSig
  BY NoSigHonest DEF Init, FeedInit
<1>3. \A s \in Sessions, f \in Frames : ~Received(s, f)
  BY EmptySeq DEF Init, Received
<1> QED
  BY <1>1, <1>2, <1>3, NoSigHonest DEF SignaturesHonest, Honest

(* A gateway signs what its log begins with.                               *)
LEMMA OwnSignatureHonest ==
  ASSUME FeedTypeOK, NEW g \in Gateways, NEW i \in Nat, i < Len(log[g])
  PROVE  Honest(Sign(g, SubSeq(log[g], 1, i + 1)))
<1> DEFINE l == SubSeq(log[g], 1, i + 1)
<1>1. log[g] \in Seq(Payloads) /\ Len(log[g]) \in Nat
  BY LogTypes
<1>2. Len(l) = i + 1 /\ \A k \in 1 .. i + 1 : l[k] = log[g][k]
  BY <1>1, LeavesFacts
<1> HIDE DEF l
<1>3. IsPrefixOf(l, log[g])
  BY <1>1, <1>2 DEF IsPrefixOf
<1>4. Sign(g, l).by = g /\ Sign(g, l).over = l
  BY DEF Sign
<1> QED
  BY <1>3, <1>4 DEF Honest, l

(* Every step keeps signatures honest.                                     *)
LEMMA HonestStep ==
  ASSUME HonestClients, NetInv, SignaturesHonest, [Next]_vars
  PROVE  SignaturesHonest'
<1>1. FeedTypeOK /\ FeedTypeOK' /\ LogGrows /\ FeedMoves /\ WireMoves
  BY NetStep DEF NetInv, FeedInv, Moves
<1>2. ASSUME NEW sig \in Sigs, Honest(sig)
      PROVE  sig.by \in Gateways => IsPrefixOf(sig.over, log'[sig.by])
  BY <1>1, <1>2, HonestStays
<1>3. ASSUME NEW t \in Tasks PROVE Honest(job[t].sig)'
  <2> DEFINE sg == job'[t].sig
  <2>1. sg \in Sigs
    BY <1>1 DEF FeedTypeOK, Jobs
  <2>2. Honest(sg)
    <3>1. ASSUME NEW s \in Sessions, NEW f \in Frames, Received(s, f), sg = f.sig PROVE Honest(sg)
      BY <3>1 DEF SignaturesHonest
    <3> HIDE DEF sg
    <3>2. CASE sg = job[t].sig
      BY <3>2 DEF SignaturesHonest
    <3>3. CASE sg = NoSig \/ sg \in ClientSigs
      BY <3>3, NoSigHonest DEF Honest, HonestClients
    <3> QED
      BY <1>1, <3>1, <3>2, <3>3, JobSignature DEF sg
  <2>3. sg.by \in Gateways => IsPrefixOf(sg.over, log'[sg.by])
    <3> HIDE DEF sg
    <3> QED
      BY <1>2, <2>1, <2>2
  <2> QED
    BY <2>3 DEF Honest
<1>4. ASSUME NEW g \in Gateways, NEW i \in Indices PROVE Honest(repo[g][i].sig)'
  <2> DEFINE sg == repo'[g][i].sig
  <2>1. sg \in Sigs
    <3> DEFINE b == repo'[g][i]
    <3>a. repo'[g] \in [Indices -> Blocks \cup {NoBlock}]
      BY <1>1 DEF FeedTypeOK
    <3>1. b \in Blocks \cup {NoBlock}
      BY <3>a
    <3> HIDE DEF b
    <3>2. b.sig \in Sigs
      BY <3>1, NoSigType, NoSigHonest
    <3> QED
      BY <3>2 DEF b
  <2>2. Honest(sg)
    <3>1. CASE repo'[g][i] = repo[g][i]
      BY <3>1 DEF SignaturesHonest
    <3>2. ASSUME NEW t \in Tasks, sg = job[t].sig PROVE Honest(sg)
      BY <3>2 DEF SignaturesHonest
    <3> QED
      BY <1>1, <3>1, <3>2, RowOrigin
  <2>3. sg.by \in Gateways => IsPrefixOf(sg.over, log'[sg.by])
    <3> HIDE DEF sg
    <3> QED
      BY <1>2, <2>1, <2>2
  <2> QED
    BY <2>3 DEF Honest
<1>5. ASSUME NEW s \in Sessions, NEW f \in Frames, Received(s, f)' PROVE Honest(f.sig)'
  <2>1. f.type = "data" /\ f.index \in Indices /\ f.index \in Nat /\ f.sig \in Sigs
    BY <1>5, FrameFacts, FeedAssumption DEF Received
  <2>2. HomeOf[PeerOf[s]] \in Gateways
    BY SessionFacts
  <2>3. Honest(f.sig)
    <3>1. CASE Received(s, f)
      BY <3>1 DEF SignaturesHonest
    <3>2. CASE NewFrame(s, f)
      BY <1>1, <2>1, <2>2, <3>2, OwnSignatureHonest DEF NewFrame, SignaturesHonest
    <3> QED
      BY <1>1, <1>5, <3>1, <3>2, ReceivedMoves
  <2> QED
    BY <1>2, <2>1, <2>3 DEF Honest
<1> QED
  BY <1>3, <1>4, <1>5 DEF SignaturesHonest

-----------------------------------------------------------------------------
(* A gateway that only follows another one holds a prefix of its log *)

(* No gateway has two sessions with the same peer.                         *)
OneReader ==
  \A s, u \in Sessions : HomeOf[s] = HomeOf[u] /\ RemoteOf[s] = RemoteOf[u] => s = u

(* The block a follower has verified is the next one of the log followed.  *)
TakenOver ==
  \A s \in Sessions : Follows(HomeOf[s], RemoteOf[s]) /\ job[s].stage = "measured" =>
    LiesAt(RemoteOf[s], Len(log[HomeOf[s]]), job[s].value)

PrefixInv == NetInv /\ SignaturesHonest /\ ReplicaPrefix /\ TakenOver

(* A goroutine takes over a block of its client, its service or its peer.  *)
Takes(t) ==
  /\ job'[t].stage = "measured" /\ job'[t].index = Len(log[HomeOf[t]])
  /\ t \in Sessions =>
       \E f \in Frames : /\ Received(t, f) /\ job'[t].value = f.value
                         /\ IsNext(t, f.index) /\ Verified(t, f.value, f.sig)
  /\ UNCHANGED <<log, repo, told>>

(* It appends the block.                                                   *)
Stores(t) ==
  /\ Store(t) /\ job'[t].stage = "appended"
  /\ job'[t].index = job[t].index /\ job'[t].value = job[t].value

(* What a step does to a goroutine.                                        *)
LEMMA JobMoves ==
  ASSUME FeedTypeOK, FeedMoves, NEW t \in Tasks
  PROVE  \/ job'[t] = job[t]
         \/ job'[t].stage = "idle"
         \/ job'[t].stage = "posting" /\ t \in Replies
         \/ Takes(t)
         \/ Stores(t)
<1>0. job \in [Tasks -> Jobs]
  BY DEF FeedTypeOK
<1>m. ASSUME NEW u \in Tasks, NEW v, NEW sig, Measure(u, v, sig), job'[t] # job[t]
      PROVE  t = u /\ job'[t].stage = "measured" /\ job'[t].index = Len(log[HomeOf[t]]) /\ job'[t].value = v
  BY <1>0, <1>m DEF Measure
<1>1. CASE UNCHANGED feedVars
  BY <1>1 DEF feedVars
<1>2. ASSUME NEW c \in Clients, AppendBlock(c), job'[t] # job[t] PROVE Takes(t)
  <2> PICK v \in Payloads, sig \in ClientSigs : Measure(c, v, sig)
    BY <1>2 DEF AppendBlock
  <2> QED
    BY <1>2, <1>m, FeedAssumption DEF AppendBlock, Takes
<1>3. ASSUME NEW r \in Replies, AgenticReply(r), job'[t] # job[t] PROVE Takes(t)
  <2> PICK v \in AgentChats : Measure(r, v, NoSig)
    BY <1>3 DEF AgenticReply
  <2> QED
    BY <1>3, <1>m, FeedAssumption DEF AgenticReply, Takes
<1>4. ASSUME NEW u \in Tasks, job' = [job EXCEPT ![u] = IdleJob], job'[t] # job[t]
      PROVE  job'[t].stage = "idle"
  BY <1>0, <1>4 DEF IdleJob
<1>5. ASSUME NEW u \in Tasks, Store(u), job'[t] # job[t] PROVE Stores(t)
  <2>1. t = u
    BY <1>0, <1>5 DEF Store
  <2> QED
    BY <1>0, <1>5, <2>1 DEF Store, Stores, Jobs
<1>6. ASSUME NEW u \in Tasks, Publish(u), job'[t] # job[t]
      PROVE  job'[t].stage = "idle" \/ (job'[t].stage = "posting" /\ t \in Replies)
  <2>1. CASE Forwards(u)
    <3> DEFINE P == [IdleJob EXCEPT !.stage = "posting"]
    <3>1. P.stage = "posting" /\ IdleJob.stage = "idle"
      BY DEF IdleJob
    <3>2. PICK r \in Replies : job' = [job EXCEPT ![u] = IdleJob, ![r] = P]
      BY <1>6, <2>1 DEF Publish
    <3> HIDE DEF P
    <3>3. job'[t] = IdleJob \/ (job'[t] = P /\ t = r)
      BY <1>0, <1>6, <3>2
    <3> QED
      BY <3>1, <3>3
  <2>2. CASE ~Forwards(u)
    BY <1>4, <1>6, <2>2 DEF Publish
  <2> QED
    BY <2>1, <2>2
<1>7. ASSUME NEW s \in Sessions, NEW f \in Frames, Received(s, f),
             ReceiveData(s, f.index, f.value, f.sig), job'[t] # job[t]
      PROVE  Takes(t)
  <2>1. Measure(s, f.value, f.sig)
    BY <1>7 DEF ReceiveData
  <2>2. t = s /\ job'[t].stage = "measured" /\ job'[t].index = Len(log[HomeOf[t]]) /\ job'[t].value = f.value
    BY <1>7, <1>m, <2>1
  <2> QED
    BY <1>7, <2>2 DEF ReceiveData, Takes
<1> QED
  BY <1>1, <1>2, <1>3, <1>4, <1>5, <1>6, <1>7 DEF FeedMoves, AgenticFails, StoreFails

(* A log changes only by an append.                                        *)
LEMMA LogMoves == ASSUME FeedMoves PROVE UNCHANGED log \/ \E t \in Tasks : Store(t)
  BY DEF FeedMoves, feedVars, AppendBlock, AgenticReply, AgenticFails, StoreFails, Publish, ReceiveData

(* A block keeps its place.                                                *)
LEMMA PlaceStays ==
  ASSUME FeedTypeOK, FeedTypeOK', LogGrows, NEW g \in Gateways, NEW i \in Nat, NEW v, LiesAt(g, i, v)
  PROVE  i < Len(log'[g]) /\ log'[g][i + 1] = v
<1>1. Len(log[g]) \in Nat /\ Len(log'[g]) \in Nat
  BY LenProperties DEF FeedTypeOK
<1>2. i < Len(log[g]) /\ log[g][i + 1] = v
  BY DEF LiesAt
<1>3. Len(log[g]) <= Len(log'[g]) /\ \A k \in 1 .. Len(log[g]) : log'[g][k] = log[g][k]
  BY DEF LogGrows
<1>4. i + 1 \in 1 .. Len(log[g])
  BY <1>1, <1>2
<1> QED
  BY <1>1, <1>2, <1>3, <1>4

(* A follower that verified a block knows that the gateway it follows has  *)
(* it, at that place.                                                      *)
LEMMA VerifiedIsTheirs ==
  ASSUME FeedTypeOK, NEW s \in Sessions, NEW v \in Payloads, NEW sig \in Sigs, Honest(sig),
         Verified(s, v, sig)
  PROVE  LiesAt(RemoteOf[s], Len(log[HomeOf[s]]), v)
<1> DEFINE g == HomeOf[s]
           a == RemoteOf[s]
           l == Append(log[g], v)
<1>1. g \in Gateways /\ a \in Gateways
  BY SessionFacts
<1>2. log[g] \in Seq(Payloads) /\ Len(log[g]) \in Nat /\ Len(log[a]) \in Nat
  BY <1>1, LogTypes
<1>3. Len(l) = Len(log[g]) + 1 /\ l[Len(log[g]) + 1] = v
  BY <1>2, AppendProperties
<1>4. sig.by = a /\ sig.over = l
  BY DEF Verified, Verify, Sign
<1>5. IsPrefixOf(l, log[a])
  BY <1>1, <1>4 DEF Honest
<1> HIDE DEF l
<1>6. Len(l) <= Len(log[a]) /\ \A k \in 1 .. Len(l) : l[k] = log[a][k]
  BY <1>5 DEF IsPrefixOf
<1>7. Len(log[g]) + 1 \in 1 .. Len(l)
  BY <1>2, <1>3
<1> QED
  BY <1>2, <1>3, <1>6, <1>7 DEF LiesAt

(* A follower stores only what its one session with that gateway took over.*)
LEMMA FollowerStores ==
  ASSUME PrefixInv, NEW t \in Tasks, Store(t), FeedTypeOK', LogGrows,
         NEW g \in Gateways, NEW a \in Gateways, Follows(g, a)
  PROVE  IsPrefixOf(log'[g], log'[a])
<1>0. FeedTypeOK
  BY DEF PrefixInv, NetInv, FeedInv
<1>1. IsPrefixOf(log[g], log[a])
  BY DEF PrefixInv, ReplicaPrefix
<1>2. HomeOf[t] \in Gateways /\ log[g] \in Seq(Payloads)
  BY <1>0, FeedAssumption DEF FeedTypeOK
<1>3. CASE HomeOf[t] # g
  <2>1. log'[g] = log[g]
    BY <1>0, <1>3 DEF Store, FeedTypeOK
  <2> QED
    BY <1>0, <1>1, <1>2, <2>1, PrefixStays
<1>4. CASE HomeOf[t] = g
  <2>1. t \in Sessions /\ RemoteOf[t] = a
    BY <1>4 DEF Follows
  <2>2. LiesAt(a, Len(log[g]), job[t].value)
    BY <1>4, <2>1 DEF PrefixInv, TakenOver, Store
  <2>3. /\ Len(log'[g]) = Len(log[g]) + 1
        /\ log'[g][Len(log[g]) + 1] = job[t].value
    BY <1>0, <1>4, GrowsStore
  <2>4. Len(log[g]) \in Nat
    BY <1>0, LogTypes
  <2>5. Len(log[g]) < Len(log'[a]) /\ log'[a][Len(log[g]) + 1] = job[t].value
    BY <1>0, <2>2, <2>4, PlaceStays
  <2>6. IsPrefixOf(log[g], log'[a])
    BY <1>0, <1>1, <1>2, PrefixStays
  <2>7. ASSUME NEW k \in 1 .. Len(log'[g]) PROVE log'[g][k] = log'[a][k]
    <3>1. CASE k = Len(log[g]) + 1
      BY <2>3, <2>5, <3>1
    <3>2. CASE k # Len(log[g]) + 1
      <4>1. k \in 1 .. Len(log[g])
        BY <2>3, <2>4, <3>2
      <4>2. log'[g][k] = log[g][k]
        BY <4>1 DEF LogGrows
      <4> QED
        BY <2>6, <4>1, <4>2 DEF IsPrefixOf
    <3> QED
      BY <3>1, <3>2
  <2>8. Len(log'[a]) \in Nat
    BY LenProperties DEF FeedTypeOK
  <2> QED
    BY <2>3, <2>4, <2>5, <2>7, <2>8 DEF IsPrefixOf
<1> QED
  BY <1>3, <1>4

(* Every step keeps followers behind the gateways they follow.             *)
LEMMA PrefixStep ==
  ASSUME OneReader, HonestClients, PrefixInv, [Next]_vars
  PROVE  PrefixInv'
<1>1. NetInv' /\ FeedTypeOK /\ FeedTypeOK' /\ LogGrows /\ FeedMoves
  BY NetStep DEF PrefixInv, NetInv, FeedInv, Moves
<1>2. SignaturesHonest'
  BY HonestStep DEF PrefixInv
<1>3. ReplicaPrefix'
  <2> SUFFICES ASSUME NEW g \in Gateways, NEW a \in Gateways, Follows(g, a)
               PROVE  IsPrefixOf(log'[g], log'[a])
    BY DEF ReplicaPrefix, Follows
  <2>1. CASE UNCHANGED log
    BY <2>1 DEF PrefixInv, ReplicaPrefix
  <2>2. ASSUME NEW t \in Tasks, Store(t) PROVE IsPrefixOf(log'[g], log'[a])
    BY <1>1, <2>2, FollowerStores
  <2> QED
    BY <1>1, <2>1, <2>2, LogMoves
<1>4. TakenOver'
  <2> SUFFICES ASSUME NEW s \in Sessions, Follows(HomeOf[s], RemoteOf[s]), job'[s].stage = "measured"
               PROVE  LiesAt(RemoteOf[s], Len(log[HomeOf[s]]), job[s].value)'
    BY DEF TakenOver, Follows
  <2> DEFINE g == HomeOf[s]
             a == RemoteOf[s]
  <2>0. s \in Tasks /\ g \in Gateways /\ a \in Gateways /\ s \notin Replies
    BY SessionFacts, FeedAssumption
  <2>1. CASE job'[s] = job[s]
    <3>1. LiesAt(a, Len(log[g]), job[s].value) /\ Len(log[g]) \in Nat
      BY <1>1, <2>0, <2>1, LogTypes DEF PrefixInv, TakenOver
    <3>2. log'[g] = log[g]
      <4>1. ASSUME NEW t \in Tasks, Store(t), HomeOf[t] = g PROVE FALSE
        <5>1. t \in Sessions /\ RemoteOf[t] = a
          BY <4>1 DEF Follows
        <5>2. t = s
          BY <4>1, <5>1 DEF OneReader
        <5>3. job'[s].stage = "appended"
          BY <1>1, <2>0, <4>1, <5>2 DEF Store, FeedTypeOK
        <5> QED
          BY <5>3
      <4>2. ASSUME NEW t \in Tasks, Store(t), HomeOf[t] # g PROVE log'[g] = log[g]
        BY <1>1, <2>0, <4>2 DEF Store, FeedTypeOK
      <4> QED
        BY <1>1, <4>1, <4>2, LogMoves
    <3>3. Len(log[g]) < Len(log'[a]) /\ log'[a][Len(log[g]) + 1] = job[s].value
      BY <1>1, <2>0, <3>1, PlaceStays
    <3> QED
      BY <2>1, <3>2, <3>3 DEF LiesAt
  <2>2. CASE Takes(s)
    <3>1. PICK f \in Frames : Received(s, f) /\ job'[s].value = f.value /\ Verified(s, f.value, f.sig)
      BY <2>2 DEF Takes
    <3>2. f.value \in Payloads /\ f.sig \in Sigs /\ Honest(f.sig)
      BY <3>1, FrameFacts DEF Received, PrefixInv, SignaturesHonest
    <3>3. LiesAt(a, Len(log[g]), f.value)
      BY <1>1, <3>1, <3>2, VerifiedIsTheirs
    <3>4. UNCHANGED log
      BY <2>2 DEF Takes
    <3> QED
      BY <3>1, <3>3, <3>4 DEF LiesAt
  <2> QED
    BY <1>1, <2>0, <2>1, <2>2, JobMoves DEF Stores
<1> QED
  BY <1>1, <1>2, <1>3, <1>4 DEF PrefixInv

(* Initially the logs are empty.                                           *)
LEMMA PrefixInit == Init => PrefixInv
<1> SUFFICES ASSUME Init PROVE PrefixInv
  OBVIOUS
<1>1. ReplicaPrefix
  BY EmptySeq DEF Init, FeedInit, ReplicaPrefix, IsPrefixOf
<1>2. TakenOver
  BY DEF Init, FeedInit, IdleJob, TakenOver
<1> QED
  BY <1>1, <1>2, NetInit, HonestInit DEF PrefixInv

(* Whatever the repositories, sessions and connections do, a gateway that  *)
(* only follows another one, over one session, holds a prefix of its log:  *)
(* as long as nobody else signs with a gateway's key, the signature over   *)
(* all the blocks before keeps out what readLoop should not append.        *)
THEOREM FollowersHoldPrefix == OneReader /\ HonestClients => (Spec => []ReplicaPrefix)
<1> SUFFICES ASSUME OneReader, HonestClients PROVE Spec => []ReplicaPrefix
  OBVIOUS
<1>1. PrefixInv /\ [Next]_vars => PrefixInv'
  BY PrefixStep
<1>2. PrefixInv => ReplicaPrefix
  BY DEF PrefixInv
<1> QED
  BY <1>1, <1>2, PrefixInit, PTL DEF Spec

-----------------------------------------------------------------------------
(* Indices are exact where one goroutine writes *)

(* A session whose peer only follows this gateway: it has no block to give.*)
ServesFollower(t) == t \in Sessions /\ Follows(RemoteOf[t], HomeOf[t])

(* Apart from such sessions, one goroutine of a gateway appends.           *)
OneWriter ==
  \A t, u \in Tasks :
    HomeOf[t] = HomeOf[u] /\ ~ServesFollower(t) /\ ~ServesFollower(u) => t = u

(* Where a goroutine stands in the log.                                    *)
JobsExact ==
  \A t \in Tasks :
    /\ ServesFollower(t) => job[t].stage = "idle"
    /\ job[t].stage = "measured" => job[t].index = Len(log[HomeOf[t]])
    /\ job[t].stage = "appended" => LiesAt(HomeOf[t], job[t].index, job[t].value)

ExactInv == PrefixInv /\ JobsExact /\ ToldIndexExact /\ RepoMatchesLog

(* A session that serves a follower never takes over a block: the follower *)
(* holds a prefix, and what it sends lies in that.                         *)
LEMMA FollowersGiveNothing ==
  ASSUME PrefixInv, NEW s \in Sessions, ServesFollower(s), NEW f \in Frames, Received(s, f)
  PROVE  ~IsNext(s, f.index)
<1>1. HomeOf[s] \in Gateways /\ RemoteOf[s] \in Gateways /\ RemoteOf[s] = HomeOf[PeerOf[s]] /\ FeedTypeOK
  BY SessionFacts DEF PrefixInv, NetInv, FeedInv
<1>2. f.index \in Nat
  BY FrameFacts, FeedAssumption DEF Received
<1>3. f.index < Len(log[RemoteOf[s]])
  BY <1>1 DEF PrefixInv, NetInv, DataIsOld
<1>4. Len(log[RemoteOf[s]]) <= Len(log[HomeOf[s]])
  BY <1>1 DEF PrefixInv, ReplicaPrefix, ServesFollower, IsPrefixOf
<1>5. Len(log[RemoteOf[s]]) \in Nat /\ Len(log[HomeOf[s]]) \in Nat
  BY <1>1, LogTypes
<1> QED
  BY <1>2, <1>3, <1>4, <1>5 DEF IsNext

(* Goroutines keep standing where they say.                                *)
LEMMA JobsExactStep ==
  ASSUME OneWriter, ExactInv, FeedTypeOK', LogGrows, FeedMoves, NEW t \in Tasks
  PROVE  /\ ServesFollower(t) => job'[t].stage = "idle"
         /\ job'[t].stage = "measured" => job'[t].index = Len(log'[HomeOf[t]])
         /\ job'[t].stage = "appended" => LiesAt(HomeOf[t], job[t].index, job[t].value)'
<1> DEFINE g == HomeOf[t]
<1>0. FeedTypeOK /\ PrefixInv /\ g \in Gateways /\ Len(log[g]) \in Nat /\ job[t].index \in Nat
  <2>1. FeedTypeOK /\ PrefixInv
    BY DEF ExactInv, PrefixInv, NetInv, FeedInv
  <2>2. g \in Gateways
    BY FeedAssumption
  <2>3. job[t] \in Jobs
    BY <2>1 DEF FeedTypeOK
  <2> QED
    BY <2>1, <2>2, <2>3, LogTypes DEF Jobs
<1>1. /\ ServesFollower(t) => job[t].stage = "idle"
      /\ job[t].stage = "measured" => job[t].index = Len(log[g])
      /\ job[t].stage = "appended" => LiesAt(g, job[t].index, job[t].value)
  BY DEF ExactInv, JobsExact
<1>2. CASE job'[t] = job[t]
  <2>1. ASSUME job[t].stage = "measured" PROVE log'[g] = log[g]
    <3>1. ASSUME NEW u \in Tasks, Store(u), HomeOf[u] = g PROVE FALSE
      <4>1. job[u].stage = "measured"
        BY <3>1 DEF Store
      <4>2. ~ServesFollower(u) /\ ~ServesFollower(t)
        BY <1>1, <2>1, <4>1 DEF ExactInv, JobsExact
      <4>3. u = t
        BY <3>1, <4>2 DEF OneWriter
      <4>4. job'[t].stage = "appended"
        BY <1>0, <3>1, <4>3 DEF Store, FeedTypeOK
      <4> QED
        BY <1>2, <2>1, <4>4
    <3>2. ASSUME NEW u \in Tasks, Store(u), HomeOf[u] # g PROVE log'[g] = log[g]
      BY <1>0, <3>2 DEF Store, FeedTypeOK
    <3> QED
      BY <3>1, <3>2, LogMoves
  <2>2. ASSUME job[t].stage = "appended"
        PROVE  job[t].index < Len(log'[g]) /\ log'[g][job[t].index + 1] = job[t].value
    <3> DEFINE i == job[t].index
               v == job[t].value
    <3>1. LiesAt(g, i, v) /\ i \in Nat
      BY <1>0, <1>1, <2>2
    <3> HIDE DEF i, v
    <3>2. i < Len(log'[g]) /\ log'[g][i + 1] = v
      BY <1>0, <3>1, PlaceStays
    <3> QED
      BY <3>2 DEF i, v
  <2> QED
    BY <1>1, <1>2, <2>1, <2>2 DEF LiesAt
<1>3. CASE Takes(t)
  <2>1. ~ServesFollower(t)
    BY <1>0, <1>3, FollowersGiveNothing DEF Takes, ServesFollower
  <2> QED
    BY <1>3, <2>1 DEF Takes
<1>4. CASE Stores(t)
  <2>1. job[t].stage = "measured" /\ Store(t)
    BY <1>4 DEF Stores, Store
  <2>2. /\ Len(log'[g]) = Len(log[g]) + 1
        /\ log'[g][Len(log[g]) + 1] = job[t].value
    BY <1>0, <2>1, GrowsStore
  <2>3. job'[t].index = Len(log[g]) /\ job'[t].value = job[t].value
    BY <1>1, <1>4, <2>1 DEF Stores
  <2>4. LiesAt(g, job[t].index, job[t].value)'
    BY <1>0, <2>2, <2>3 DEF LiesAt
  <2> QED
    BY <1>1, <1>4, <2>1, <2>4 DEF Stores
<1>5. CASE job'[t].stage = "posting" /\ t \in Replies
  BY <1>5, FeedAssumption DEF ServesFollower
<1>6. CASE job'[t].stage = "idle"
  BY <1>6
<1> QED
  BY <1>0, <1>2, <1>3, <1>4, <1>5, <1>6, JobMoves

(* What clients are told changes only when a block is published.           *)
LEMMA ToldOrigin ==
  ASSUME FeedTypeOK, FeedMoves, NEW g \in Gateways, NEW m \in told'[g], m \notin told[g]
  PROVE  \E t \in Tasks : Publish(t) /\ HomeOf[t] = g /\ m = <<job[t].index, job[t].value>>
<1>1. PICK t \in Tasks : Publish(t)
  BY DEF FeedMoves, feedVars, AppendBlock, AgenticReply, AgenticFails, Store, StoreFails, ReceiveData
<1>2. \A h \in Gateways : /\ told'[h] \subseteq told[h] \cup {<<job[t].index, job[t].value>>}
                          /\ h # HomeOf[t] => told'[h] = told[h]
  BY <1>1 DEF Publish, Report, FeedTypeOK
<1> QED
  BY <1>1, <1>2

(* Every step keeps indices exact.                                         *)
LEMMA ExactStep ==
  ASSUME OneReader, HonestClients, OneWriter, ExactInv, [Next]_vars
  PROVE  ExactInv'
<1>1. PrefixInv'
  BY PrefixStep DEF ExactInv
<1>2. FeedTypeOK /\ FeedTypeOK' /\ LogGrows /\ FeedMoves
  BY NetStep DEF ExactInv, PrefixInv, NetInv, FeedInv, Moves
<1>3. JobsExact'
  BY <1>2, JobsExactStep DEF JobsExact, ServesFollower, Follows
<1>a. ASSUME NEW t \in Tasks, Publish(t)
      PROVE  LiesAt(HomeOf[t], job[t].index, job[t].value) /\ UNCHANGED log
  BY <1>a DEF Publish, ExactInv, JobsExact
<1>4. ToldIndexExact'
  <2> SUFFICES ASSUME NEW g \in Gateways, NEW m \in told'[g]
               PROVE  m[1] < Len(log'[g]) /\ log'[g][m[1] + 1] = m[2]
    BY DEF ToldIndexExact, LiesAt
  <2>1. CASE m \in told[g]
    <3>1. LiesAt(g, m[1], m[2]) /\ m[1] \in Nat
      BY <1>2, <2>1 DEF ExactInv, ToldIndexExact, FeedTypeOK
    <3> QED
      BY <1>2, <3>1, PlaceStays
  <2>2. CASE m \notin told[g]
    <3>1. PICK t \in Tasks : Publish(t) /\ HomeOf[t] = g /\ m = <<job[t].index, job[t].value>>
      BY <1>2, <2>2, ToldOrigin
    <3>2. m[1] = job[t].index /\ m[2] = job[t].value
      BY <3>1
    <3> QED
      BY <1>a, <3>1, <3>2 DEF LiesAt
  <2> QED
    BY <2>1, <2>2
<1>5. RepoMatchesLog'
  <2> SUFFICES ASSUME NEW g \in Gateways, NEW i \in Indices, repo'[g][i] # NoBlock
               PROVE  i < Len(log'[g]) /\ log'[g][i + 1] = repo'[g][i].value
    BY DEF RepoMatchesLog, LiesAt
  <2>1. CASE repo'[g][i] = repo[g][i]
    <3> DEFINE v == repo[g][i].value
    <3>1. LiesAt(g, i, v) /\ i \in Nat
      BY <2>1, FeedAssumption DEF ExactInv, RepoMatchesLog
    <3> HIDE DEF v
    <3>2. i < Len(log'[g]) /\ log'[g][i + 1] = v
      BY <1>2, <3>1, PlaceStays
    <3> QED
      BY <2>1, <3>2 DEF v
  <2>2. ASSUME NEW t \in Tasks, Publish(t), HomeOf[t] = g, job[t].index = i,
               repo'[g][i].value = job[t].value
        PROVE  i < Len(log'[g]) /\ log'[g][i + 1] = repo'[g][i].value
    BY <1>a, <2>2 DEF LiesAt
  <2> QED
    BY <1>2, <2>1, <2>2, RowOrigin
<1> QED
  BY <1>1, <1>3, <1>4, <1>5 DEF ExactInv

(* Initially nothing is told and nothing is stored.                        *)
LEMMA ExactInit == Init => ExactInv
<1> SUFFICES ASSUME Init PROVE ExactInv
  OBVIOUS
<1>1. JobsExact /\ ToldIndexExact /\ RepoMatchesLog
  BY DEF Init, FeedInit, IdleJob, JobsExact, ToldIndexExact, RepoMatchesLog
<1> QED
  BY <1>1, PrefixInit DEF ExactInv

(* The invariant holds throughout, where one goroutine of each gateway     *)
(* writes and its other sessions serve followers.                          *)
LEMMA ExactInvariant == OneReader /\ HonestClients /\ OneWriter => (Spec => []ExactInv)
<1> SUFFICES ASSUME OneReader, HonestClients, OneWriter PROVE Spec => []ExactInv
  OBVIOUS
<1>1. ExactInv /\ [Next]_vars => ExactInv'
  BY ExactStep
<1> QED
  BY <1>1, ExactInit, PTL DEF Spec

(* With one writer in each gateway, the index in a response to             *)
(* append_block and in a chat notification is the block's place in the     *)
(* log, across reconnections and however many followers are served.        *)
THEOREM IndicesExact == OneReader /\ HonestClients /\ OneWriter => (Spec => []ToldIndexExact)
<1> SUFFICES ASSUME OneReader, HonestClients, OneWriter PROVE Spec => []ToldIndexExact
  OBVIOUS
<1>1. ExactInv => ToldIndexExact
  BY DEF ExactInv
<1> QED
  BY <1>1, ExactInvariant, PTL

(* With one writer in each gateway, row i of its block repository is block *)
(* i of its log: sendBlockData serves the same block from either.          *)
THEOREM RepoCachesLog == OneReader /\ HonestClients /\ OneWriter => (Spec => []RepoMatchesLog)
<1> SUFFICES ASSUME OneReader, HonestClients, OneWriter PROVE Spec => []RepoMatchesLog
  OBVIOUS
<1>1. ExactInv => RepoMatchesLog
  BY DEF ExactInv
<1> QED
  BY <1>1, ExactInvariant, PTL

-----------------------------------------------------------------------------
(* A block its sender signed is rejected only where the logs have forked *)

(* Nothing that a gateway keeps of others, in a goroutine or in a row,     *)
(* bears its own signature.                                                *)
NothingOwnKept ==
  /\ \A t \in Tasks : job[t].sig.by # HomeOf[t]
  /\ \A g \in Gateways, i \in Indices : repo[g][i].sig.by # g

(* Data on a connection that its sender signed is what its log holds.      *)
OwnDataFromLog ==
  \A s \in Sessions, f \in Frames : Received(s, f) =>
    LET h == HomeOf[PeerOf[s]] IN
    f.sig.by = h =>
      /\ f.index < Len(log[h]) /\ f.value = log[h][f.index + 1]
      /\ f.sig = Sign(h, SubSeq(log[h], 1, f.index + 1))

ForkInv == NetInv /\ NothingOwnKept /\ OwnDataFromLog

(* The two logs differ at a place that both have.                          *)
Forked(g, h) ==
  \E k \in 1 .. Len(log[g]) : k <= Len(log[h]) /\ log[g][k] # log[h][k]

(* The next block of the other log, with its signature, does not verify    *)
(* only when a block before it differs.                                    *)
LEMMA RejectedForks ==
  ASSUME FeedTypeOK, OwnDataFromLog, NEW s \in Sessions, NEW f \in Frames, Received(s, f),
         f.sig.by = HomeOf[PeerOf[s]], IsNext(s, f.index), ~Verified(s, f.value, f.sig)
  PROVE  Forked(HomeOf[s], HomeOf[PeerOf[s]])
<1> DEFINE g == HomeOf[s]
           h == HomeOf[PeerOf[s]]
           n == Len(log[g])
           l == SubSeq(log[h], 1, n + 1)
           m == Append(log[g], f.value)
<1>1. g \in Gateways /\ h \in Gateways /\ RemoteOf[s] = h
  BY SessionFacts
<1>2. log[g] \in Seq(Payloads) /\ log[h] \in Seq(Payloads) /\ n \in Nat /\ Len(log[h]) \in Nat
  BY <1>1, LogTypes
<1>3. f.index = n /\ n < Len(log[h]) /\ f.value = log[h][n + 1] /\ f.sig = Sign(h, l)
  BY DEF IsNext, OwnDataFromLog
<1>4. f.value \in Payloads
  BY FrameFacts DEF Received
<1>5. l \in Seq(Payloads) /\ Len(l) = n + 1 /\ \A k \in 1 .. n + 1 : l[k] = log[h][k]
  BY <1>2, <1>3, LeavesFacts
<1>6. /\ m \in Seq(Payloads) /\ Len(m) = n + 1
      /\ \A k \in 1 .. n : m[k] = log[g][k]
      /\ m[n + 1] = f.value
  BY <1>2, <1>4, AppendProperties
<1>7. m # l
  BY <1>1, <1>3 DEF Verified, Verify
<1> HIDE DEF l, m
<1>8. PICK k \in 1 .. n + 1 : m[k] # l[k]
  BY <1>5, <1>6, <1>7, SeqEqual
<1>9. k # n + 1
  BY <1>2, <1>3, <1>5, <1>6, <1>8
<1>10. k \in 1 .. n /\ k <= Len(log[h])
  BY <1>2, <1>3, <1>9
<1> QED
  BY <1>5, <1>6, <1>8, <1>10 DEF Forked

(* What a goroutine takes over from a peer is not signed by its own        *)
(* gateway: that would be a block it sent to itself, which is never next.  *)
LEMMA KeptFromOthers ==
  ASSUME NetInv, NEW s \in Sessions, NEW f \in Frames, Received(s, f),
         IsNext(s, f.index), Verified(s, f.value, f.sig)
  PROVE  f.sig.by # HomeOf[s]
<1> SUFFICES ASSUME f.sig.by = HomeOf[s] PROVE FALSE
  OBVIOUS
<1>1. f.sig.by = RemoteOf[s]
  BY DEF Verified, Verify, Sign
<1>2. HomeOf[PeerOf[s]] = HomeOf[s] /\ HomeOf[s] \in Gateways
  BY <1>1, SessionFacts
<1>3. f.index < Len(log[HomeOf[s]]) /\ f.index = Len(log[HomeOf[s]])
  BY <1>2 DEF NetInv, DataIsOld, IsNext
<1>4. Len(log[HomeOf[s]]) \in Nat
  BY <1>2, LogTypes DEF NetInv, FeedInv
<1> QED
  BY <1>3, <1>4

(* A gateway keeps no signature of its own.                                *)
LEMMA NothingOwnStep ==
  ASSUME HonestClients, NetInv, NothingOwnKept, FeedMoves
  PROVE  NothingOwnKept'
<1>1. FeedTypeOK
  BY DEF NetInv, FeedInv
<1>2. ASSUME NEW t \in Tasks PROVE job'[t].sig.by # HomeOf[t]
  <2>1. HomeOf[t] \in Gateways
    BY FeedAssumption
  <2>2. CASE job'[t].sig = job[t].sig
    BY <2>2 DEF NothingOwnKept
  <2>3. CASE job'[t].sig = NoSig \/ job'[t].sig \in ClientSigs
    BY <2>1, <2>3, NoSigHonest DEF HonestClients
  <2>4. ASSUME t \in Sessions, NEW f \in Frames, Received(t, f), job'[t].sig = f.sig,
               IsNext(t, f.index), Verified(t, f.value, f.sig)
        PROVE  job'[t].sig.by # HomeOf[t]
    BY <2>4, KeptFromOthers
  <2> QED
    BY <1>1, <2>2, <2>3, <2>4, JobSignature
<1>3. ASSUME NEW g \in Gateways, NEW i \in Indices PROVE repo'[g][i].sig.by # g
  BY <1>1, RowOrigin DEF NothingOwnKept
<1> QED
  BY <1>2, <1>3 DEF NothingOwnKept

(* Every step keeps the invariant.                                         *)
LEMMA ForkStep ==
  ASSUME HonestClients, ForkInv, [Next]_vars
  PROVE  ForkInv'
<1>1. NetInv' /\ FeedTypeOK /\ FeedTypeOK' /\ LogGrows /\ WireMoves /\ FeedMoves
  BY NetStep DEF ForkInv, NetInv, FeedInv, Moves
<1>2. NothingOwnKept'
  BY <1>1, NothingOwnStep DEF ForkInv
<1>3. OwnDataFromLog'
  <2> SUFFICES ASSUME NEW s \in Sessions, NEW f \in Frames, Received(s, f)',
                      f.sig.by = HomeOf[PeerOf[s]]
               PROVE  LET h == HomeOf[PeerOf[s]] IN
                      /\ f.index < Len(log'[h]) /\ f.value = log'[h][f.index + 1]
                      /\ f.sig = Sign(h, SubSeq(log'[h], 1, f.index + 1))
    BY DEF OwnDataFromLog, Sign
  <2> DEFINE h == HomeOf[PeerOf[s]]
             i == f.index
  <2>1. h \in Gateways /\ i \in Indices /\ i \in Nat /\ f.type = "data"
    BY SessionFacts, FrameFacts, FeedAssumption DEF Received
  <2>2. log[h] \in Seq(Payloads) /\ Len(log[h]) \in Nat /\ log'[h] \in Seq(Payloads)
    BY <1>1, <2>1, LenProperties DEF FeedTypeOK
  <2>3. i < Len(log[h]) /\ f.value = log[h][i + 1] /\ f.sig = Sign(h, SubSeq(log[h], 1, i + 1))
    <3>1. CASE Received(s, f)
      BY <3>1 DEF ForkInv, OwnDataFromLog
    <3>2. CASE NewFrame(s, f)
      <4>1. repo[h][i].sig.by # h
        BY <2>1 DEF ForkInv, NothingOwnKept
      <4> QED
        BY <2>1, <3>2, <4>1 DEF NewFrame
    <3> QED
      BY <1>1, <3>1, <3>2, ReceivedMoves
  <2>4. Len(log[h]) <= Len(log'[h]) /\ \A k \in 1 .. Len(log[h]) : log'[h][k] = log[h][k]
    BY <1>1, <2>1 DEF LogGrows
  <2>5. LiesAt(h, i, f.value)
    BY <2>3 DEF LiesAt
  <2>6. i < Len(log'[h]) /\ log'[h][i + 1] = f.value
    BY <1>1, <2>1, <2>5, PlaceStays
  <2>7. SubSeq(log'[h], 1, i + 1) = SubSeq(log[h], 1, i + 1)
    BY <2>1, <2>2, <2>3, <2>4, LeavesStay
  <2> QED
    BY <2>3, <2>6, <2>7
<1> QED
  BY <1>1, <1>2, <1>3 DEF ForkInv

(* Initially nothing is kept and nothing is sent.                          *)
LEMMA ForkInit == Init => ForkInv
<1> SUFFICES ASSUME Init PROVE ForkInv
  OBVIOUS
<1>1. OwnDataFromLog
  BY EmptySeq DEF Init, Received, OwnDataFromLog
<1>2. NothingOwnKept
  <2>1. /\ \A t \in Tasks : job[t].sig = NoSig
        /\ \A g \in Gateways, i \in Indices : repo[g][i].sig = NoSig
    BY NoSigHonest DEF Init, FeedInit
  <2>2. \A t \in Tasks : HomeOf[t] \in Gateways
    BY FeedAssumption
  <2> QED
    BY <2>1, <2>2, NoSigHonest DEF NothingOwnKept
<1> QED
  BY <1>1, <1>2, NetInit DEF ForkInv

(* A step that ends a session for the signature of a block that its sender *)
(* signed finds the two logs forked.                                       *)
LEMMA OwnRejection ==
  ASSUME ForkInv, [Next]_vars, NEW s \in Sessions,
         phase[s] # "rejected", phase'[s] = "rejected",
         Head(wire[s]).sig.by = HomeOf[PeerOf[s]]
  PROVE  /\ ~IsPrefixOf(log[HomeOf[s]], log[HomeOf[PeerOf[s]]])
         /\ ~IsPrefixOf(log[HomeOf[PeerOf[s]]], log[HomeOf[s]])
<1> DEFINE g == HomeOf[s]
           h == HomeOf[PeerOf[s]]
<1>1. g \in Gateways /\ h \in Gateways /\ FeedTypeOK /\ Rejections
  BY SessionFacts, NetStep DEF ForkInv, NetInv, FeedInv, Moves
<1>2. PICK f \in Frames : /\ f = Head(wire[s]) /\ Received(s, f)
                          /\ IsNext(s, f.index) /\ ~Verified(s, f.value, f.sig)
  BY <1>1 DEF Rejections
<1>3. Forked(g, h)
  BY <1>1, <1>2, RejectedForks DEF ForkInv
<1>4. PICK k \in 1 .. Len(log[g]) : k <= Len(log[h]) /\ log[g][k] # log[h][k]
  BY <1>3 DEF Forked
<1>5. Len(log[g]) \in Nat /\ Len(log[h]) \in Nat
  BY <1>1, LogTypes
<1>6. k \in 1 .. Len(log[h])
  BY <1>4, <1>5
<1> QED
  BY <1>4, <1>6 DEF IsPrefixOf

(* As long as clients do not sign with a gateway's key, a session rejects  *)
(* a block that its sender signed only when the two logs have forked: no   *)
(* interleaving of appends at both ends, failing repositories and          *)
(* reconnections with signing, sending and checking makes a good block     *)
(* fail.  What else is rejected is a row kept with another's signature.    *)
THEOREM OwnRejectionsAreForks == HonestClients => (Spec => OwnBlockRejectedMeansFork)
<1> SUFFICES ASSUME HonestClients PROVE Spec => OwnBlockRejectedMeansFork
  OBVIOUS
<1> DEFINE Step ==
      \A s \in Sessions :
        LET mine   == log[HomeOf[s]]
            theirs == log[HomeOf[PeerOf[s]]]
        IN  /\ phase[s] # "rejected" /\ phase'[s] = "rejected"
            /\ Head(wire[s]).sig.by = HomeOf[PeerOf[s]]
            => ~IsPrefixOf(mine, theirs) /\ ~IsPrefixOf(theirs, mine)
<1>1. ForkInv /\ [Next]_vars => ForkInv'
  BY ForkStep
<1>2. ForkInv /\ [Next]_vars => [Step]_vars
  BY OwnRejection
<1> QED
  BY <1>1, <1>2, ForkInit, PTL DEF Spec, OwnBlockRejectedMeansFork
=============================================================================
