---------------------------- MODULE Replication ----------------------------
(***************************************************************************)
(* Gateways that replicate their feeds: SyncSession.Run and readLoop at    *)
(* both ends of a connection, over the feeds of module Feed.               *)
(*                                                                         *)
(* A connection is a pair of sessions, each the peer of the other.  The    *)
(* net.Conn under them is external: a FIFO of whole frames that holds at   *)
(* most WireCap of them, so that a write may have to wait.  A session's    *)
(* goroutine writes the frames it owes one after the other, and reads      *)
(* nothing while it still has one to write.                                *)
(***************************************************************************)
EXTENDS Feed

CONSTANTS
  PeerOf,     \* the session at the other end of the connection
  Announces,  \* whether PeerManager.BroadcastHave is called
  WireCap,    \* bound: frames a connection holds in each direction
  MaxDials    \* bound: how often a pair of gateways connects again

ASSUME ReplicationAssumption ==
  /\ PeerOf \in [Sessions -> Sessions]
  /\ \A s \in Sessions : PeerOf[PeerOf[s]] = s /\ PeerOf[s] # s
  /\ \A s \in Sessions : RemoteOf[s] = HomeOf[PeerOf[s]]
  /\ Announces \in BOOLEAN
  /\ WireCap \in Nat \ {0}
  /\ MaxDials \in Nat

VARIABLES
  phase,  \* phase[s]: how far Run is
  out,    \* out[s]: what the goroutine of s still has to write
  wire,   \* wire[s]: the frames on their way to s
  dials   \* how often a connection was made again

netVars == <<phase, out, wire, dials>>
vars == <<feedVars, netVars>>

-----------------------------------------------------------------------------
Handshake   == [type |-> "handshake"]
Have(n)     == [type |-> "have", len |-> n]
Want(n)     == [type |-> "want", start |-> n]
Request(i)  == [type |-> "request", index |-> i]
Data(i, b)  == [type |-> "data", index |-> i, value |-> b.value, sig |-> b.sig]

(* A call of sendBlockData that is still to be made.                       *)
SendBlock(i) == [type |-> "send", index |-> i]

Frames ==
  {Handshake}
    \cup {Have(n) : n \in Indices} \cup {Want(n) : n \in Indices}
    \cup {Request(i) : i \in Indices}
    \cup [type : {"data"}, index : Indices, value : Payloads, sig : Sigs]

Debts == {Handshake}
           \cup {Have(n) : n \in Indices} \cup {Want(n) : n \in Indices}
           \cup {Request(i) : i \in Indices} \cup {SendBlock(i) : i \in Indices}

(* dialled: in the sessions of PeerManager, Run not entered; handshake:    *)
(* the remote handshake not read yet; running: readLoop; rejected: ended   *)
(* because a signature did not verify; closed: ended for another reason.   *)
Phases == {"dialled", "handshake", "running", "rejected", "closed"}

ReplicationTypeOK ==
  /\ FeedTypeOK
  /\ phase \in [Sessions -> Phases]
  /\ out \in [Sessions -> Seq(Debts)]
  /\ wire \in [Sessions -> Seq(Frames)]
  /\ \A s \in Sessions : Len(wire[s]) <= WireCap
  /\ dials \in 0 .. MaxDials

Init ==
  /\ FeedInit
  /\ phase = [s \in Sessions |-> "dialled"]
  /\ out = [s \in Sessions |-> << >>]
  /\ wire = [s \in Sessions |-> << >>]
  /\ dials = 0

-----------------------------------------------------------------------------
Ended(s) == phase[s] \in {"closed", "rejected"}

HasRoom(s) == Len(wire[s]) < WireCap

(* Run returns; the deferred calls of handleIncoming and handleOutgoing    *)
(* close the connection, and what was on its way to s is lost.             *)
End(s, how) ==
  /\ phase' = [phase EXCEPT ![s] = how]
  /\ out' = [out EXCEPT ![s] = << >>]
  /\ wire' = [wire EXCEPT ![s] = << >>]
  /\ UNCHANGED dials

(* Run writes the handshake.                                               *)
Run(s) ==
  /\ phase[s] = "dialled"
  /\ phase' = [phase EXCEPT ![s] = "handshake"]
  /\ out' = [out EXCEPT ![s] = <<Handshake>>]
  /\ UNCHANGED <<feedVars, wire, dials>>

(* Mutant: the signature made for block i leaves block i out. *)
BlockDataShort(s, i) ==
  LET g == HomeOf[s] IN
  IF i < Len(log[g])
  THEN {<<Data(i, [value |-> log[g][i + 1], sig |-> Sign(g, SubSeq(log[g], 1, i))])>>}
  ELSE {<< >>}

(* The Data frames that sendBlockData may send for block i: from the       *)
(* repository with the signature kept there, or, when it holds no row or   *)
(* fails, from the flat file with a signature made now.  No frame when     *)
(* there is no such block.                                                 *)
BlockData(s, i) ==
  LET g        == HomeOf[s]
      inRepo   == g \in RepoGateways /\ repo[g][i] # NoBlock
      fromRepo == IF inRepo THEN {Data(i, repo[g][i])} ELSE {}
      leaves   == SubSeq(log[g], 1, i + 1)
      fromFile == IF i < Len(log[g]) /\ (inRepo => RepoFaults)
                  THEN {Data(i, [value |-> log[g][i + 1], sig |-> Sign(g, leaves)])}
                  ELSE {}
      found    == fromRepo \cup fromFile
  IN  IF found = {} THEN {<< >>} ELSE {<<f>> : f \in found}

(* Mutant: a frame is written without waiting for room. *)
WriteFrameUnbounded(s) ==
  /\ out[s] # << >>
  /\ Head(out[s]).type # "send"
  /\ ~Ended(PeerOf[s])
  /\ wire' = [wire EXCEPT ![PeerOf[s]] = Append(@, Head(out[s]))]
  /\ out' = [out EXCEPT ![s] = Tail(@)]
  /\ UNCHANGED <<feedVars, phase, dials>>

(* writeFrame: the first frame owed goes onto the connection.              *)
WriteFrame(s) ==
  /\ out[s] # << >>
  /\ Head(out[s]).type # "send"
  /\ ~Ended(PeerOf[s])
  /\ HasRoom(PeerOf[s])
  /\ wire' = [wire EXCEPT ![PeerOf[s]] = Append(@, Head(out[s]))]
  /\ out' = [out EXCEPT ![s] = Tail(@)]
  /\ UNCHANGED <<feedVars, phase, dials>>

SendBlockData(s) ==
  LET i == Head(out[s]).index IN
  /\ out[s] # << >>
  /\ Head(out[s]).type = "send"
  /\ ~Ended(PeerOf[s])
  /\ HasRoom(PeerOf[s])
  /\ \E frames \in BlockData(s, i) :
       wire' = [wire EXCEPT ![PeerOf[s]] = @ \o frames]
  /\ out' = [out EXCEPT ![s] = Tail(@)]
  /\ UNCHANGED <<feedVars, phase, dials>>

(* Mutant: writes have no deadline. *)
WriteFailsNever(s) ==
  /\ out[s] # << >>
  /\ Ended(PeerOf[s])
  /\ End(s, "closed")
  /\ UNCHANGED feedVars

(* The write fails: the peer is gone, or 5 seconds passed without room.    *)
WriteFails(s) ==
  /\ out[s] # << >>
  /\ Ended(PeerOf[s]) \/ ~HasRoom(PeerOf[s])
  /\ End(s, "closed")
  /\ UNCHANGED feedVars

(* NotifyHave, called by BroadcastHave for a session in the map; it        *)
(* competes with the session's own goroutine for writeMu.                  *)
NotifyHave(s) ==
  /\ Announces
  /\ ~Ended(s)
  /\ ~Ended(PeerOf[s])
  /\ HasRoom(PeerOf[s])
  /\ wire' = [wire EXCEPT ![PeerOf[s]] = Append(@, Have(Len(log[HomeOf[s]])))]
  /\ UNCHANGED <<feedVars, phase, out, dials>>

-----------------------------------------------------------------------------
(* The goroutine of s waits in readFrame.                                  *)
Reading(s) ==
  /\ phase[s] \in {"handshake", "running"}
  /\ out[s] = << >>
  /\ job[s].stage = "idle"

(* readFrame fails: the peer closed the connection and all of it was read, *)
(* or nothing came for 10 seconds.                                         *)
ReadFails(s) ==
  /\ Reading(s)
  /\ wire[s] = << >>
  /\ End(s, "closed")
  /\ UNCHANGED feedVars

(* The first frame is read; it is of the given type.                       *)
Reads(s, type) ==
  /\ phase[s] = "running"
  /\ Reading(s)
  /\ wire[s] # << >>
  /\ Head(wire[s]).type = type

(* The frame is consumed, and the goroutine goes on to write debts.        *)
Consume(s, debts) ==
  /\ wire' = [wire EXCEPT ![s] = Tail(@)]
  /\ out' = [out EXCEPT ![s] = debts]
  /\ UNCHANGED <<phase, dials>>

(* The remote handshake is read; then Have and Want are owed.  Any other   *)
(* frame does not decode as a handshake and ends the session.              *)
ReadHandshake(s) ==
  LET n == Len(log[HomeOf[s]]) IN
  /\ phase[s] = "handshake"
  /\ Reading(s)
  /\ wire[s] # << >>
  /\ IF Head(wire[s]) = Handshake
     THEN /\ wire' = [wire EXCEPT ![s] = Tail(@)]
          /\ out' = [out EXCEPT ![s] = <<Have(n), Want(n)>>]
          /\ phase' = [phase EXCEPT ![s] = "running"]
          /\ UNCHANGED dials
     ELSE End(s, "closed")
  /\ UNCHANGED feedVars

(* The debts that f names for the indices from lo to hi - 1, in order.     *)
Each(f(_), lo, hi) == [k \in 1 .. (IF hi > lo THEN hi - lo ELSE 0) |-> f(lo + k - 1)]

ReadHave(s) ==
  /\ Reads(s, "have")
  /\ Consume(s, Each(Request, Len(log[HomeOf[s]]), Head(wire[s]).len))
  /\ UNCHANGED feedVars

(* The length wanted, 1000000, is more than any log here holds.            *)
ReadWant(s) ==
  /\ Reads(s, "want")
  /\ Consume(s, Each(SendBlock, Head(wire[s]).start, Len(log[HomeOf[s]])))
  /\ UNCHANGED feedVars

ReadRequest(s) ==
  /\ Reads(s, "request")
  /\ Consume(s, <<SendBlock(Head(wire[s]).index)>>)
  /\ UNCHANGED feedVars

(* Mutant: a block is taken over whatever its index and signature are. *)
ReadDataUnchecked(s) ==
  LET f == Head(wire[s]) IN
  /\ Reads(s, "data")
  /\ Measure(s, f.value, f.sig)
  /\ Consume(s, << >>)
  /\ UNCHANGED <<log, repo, told>>

(* A Data frame: the next block, verified, is taken over by the feed       *)
(* (storage.Append follows); one with a bad signature ends the session;    *)
(* one for any other index is ignored.                                     *)
ReadData(s) ==
  LET f == Head(wire[s]) IN
  /\ Reads(s, "data")
  /\ \/ /\ ReceiveData(s, f.index, f.value, f.sig)
        /\ Consume(s, << >>)
     \/ /\ IsNext(s, f.index)
        /\ ~Verified(s, f.value, f.sig)
        /\ End(s, "rejected")
        /\ UNCHANGED feedVars
     \/ /\ ~IsNext(s, f.index)
        /\ Consume(s, << >>)
        /\ UNCHANGED feedVars

(* A read loop whose storage.Append fails returns the error.               *)
SessionStoreFails(s) ==
  /\ StoreFails(s)
  /\ End(s, "closed")

(* The gateways dial each other again once both read loops are gone.       *)
Redial(s) ==
  /\ dials < MaxDials
  /\ \A e \in {s, PeerOf[s]} : Ended(e) /\ job[e].stage = "idle"
  /\ phase' = [e \in Sessions |-> IF e \in {s, PeerOf[s]} THEN "dialled" ELSE phase[e]]
  /\ dials' = dials + 1
  /\ UNCHANGED <<feedVars, out, wire>>

-----------------------------------------------------------------------------
(* Steps of the goroutines that know nothing of the connection.            *)
FeedStep ==
  /\ \/ \E c \in Clients : AppendBlock(c)
     \/ \E r \in Replies : AgenticReply(r) \/ AgenticFails(r)
     \/ \E t \in Tasks : Store(t) \/ Publish(t)
     \/ \E t \in Tasks \ Sessions : StoreFails(t)
  /\ UNCHANGED netVars

Write(s) == WriteFrame(s) \/ SendBlockData(s) \/ WriteFails(s)

Read(s) ==
  \/ ReadHandshake(s) \/ ReadHave(s) \/ ReadWant(s) \/ ReadRequest(s)
  \/ ReadData(s) \/ ReadFails(s)

SessionStep(s) == Run(s) \/ Write(s) \/ Read(s)

Next ==
  \/ FeedStep
  \/ \E s \in Sessions :
       SessionStep(s) \/ NotifyHave(s) \/ SessionStoreFails(s) \/ Redial(s)

Spec == Init /\ [][Next]_vars

(* A session's goroutine is scheduled, its timers fire, and its calls into *)
(* the feed return; clients, announcements and redials come or do not.     *)
Fairness ==
  \A s \in Sessions :
    /\ WF_vars(SessionStep(s))
    /\ WF_vars((Store(s) /\ UNCHANGED netVars) \/ SessionStoreFails(s))
    /\ WF_vars(Publish(s) /\ UNCHANGED netVars)

FairSpec == Spec /\ Fairness
-----------------------------------------------------------------------------
IsPrefixOf(a, b) == Len(a) <= Len(b) /\ \A k \in 1 .. Len(a) : a[k] = b[k]

(* Everything that writes to g's feed is a session with gateway a.         *)
Follows(g, a) ==
  \A t \in Tasks : HomeOf[t] = g => t \in Sessions /\ RemoteOf[t] = a

(***************************************************************************)
(* A gateway that only replicates another one's feed holds a prefix of it: *)
(* no gap, no reordering, no block twice, across timeouts, failed appends, *)
(* dropped connections and redials ("Only append if it's the next expected *)
(* block index", readLoop).                                                *)
(***************************************************************************)
ReplicaPrefix ==
  \A g, a \in Gateways : Follows(g, a) => IsPrefixOf(log[g], log[a])

(***************************************************************************)
(* A block that its sender signed, as sendBlockData does with the blocks   *)
(* of its flat file, is rejected only where the two feeds have forked: no  *)
(* race between logs that grow and blocks that are signed, sent and        *)
(* checked makes it fail (sync.go:239).  What is rejected without a fork   *)
(* is thus a row that the sender keeps without a signature of its own.     *)
(***************************************************************************)
OwnBlockRejectedMeansFork ==
  [][\A s \in Sessions :
       LET mine   == log[HomeOf[s]]
           theirs == log[HomeOf[PeerOf[s]]]
       IN  /\ phase[s] # "rejected" /\ phase'[s] = "rejected"
           /\ Head(wire[s]).sig.by = HomeOf[PeerOf[s]]
           => ~IsPrefixOf(mine, theirs) /\ ~IsPrefixOf(theirs, mine)]_vars

(***************************************************************************)
(* No session rejects a block: what a gateway serves, from its repository  *)
(* or its log, verifies under that gateway's key.                          *)
(***************************************************************************)
ServedBlocksVerify == \A s \in Sessions : phase[s] # "rejected"

(***************************************************************************)
(* A length that was offered in a Have frame is fetched: the session that  *)
(* has the frame in front of it comes to hold that many blocks, unless the *)
(* session ends first.  Holds although both ends may be writing into full  *)
(* connections at once, because writes time out.                           *)
(***************************************************************************)
OfferIsFetched ==
  \A s \in Sessions : \A n \in Indices :
    (\E k \in 1 .. Len(wire[s]) : wire[s][k] = Have(n))
      ~> (Len(log[HomeOf[s]]) >= n \/ Ended(s))
=============================================================================
