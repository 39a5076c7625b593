-------------------------------- MODULE Feed --------------------------------
(***************************************************************************)
(* The feed of a Keet gateway: the flat-file log (hypercore.Storage) and   *)
(* the block repository (db.BlockRepository) kept beside it, as used by    *)
(* the three kinds of goroutine that append to them:                       *)
(*                                                                         *)
(*   - ipc.HandleClient serving an append_block command       (Clients)    *)
(*   - SyncSession.readLoop handling a Data frame             (Sessions)   *)
(*   - the goroutine OnAppendBlock starts in main to append the reply of   *)
(*     the agentic HTTP service                               (Replies)    *)
(*                                                                         *)
(* Each of them reads storage.Len(), then calls storage.Append, then       *)
(* calls blockRepo.PutBlock with the length it read first.  Len, Append    *)
(* and PutBlock each hold a lock of their own, and nothing holds a lock    *)
(* across them, so the three calls are three steps here.                   *)
(*                                                                         *)
(* A root hash is represented by the sequence of leaves it is computed     *)
(* from, and a signature by the key and the root hash it was made with.    *)
(***************************************************************************)
EXTENDS Naturals, Sequences

CONSTANTS
  Gateways,     \* the gateways; a gateway's identity key is the gateway itself
  Keys,         \* every Ed25519 identity, the gateways' included
  Clients,      \* goroutines of ipc.HandleClient
  Sessions,     \* read loops of SyncSessions
  Replies,      \* goroutines that wait for the agentic service
  HomeOf,       \* the gateway a goroutine runs in
  RemoteOf,     \* the key that the Noise handshake of a session proved
  Payloads,     \* block contents
  Chats,        \* the contents that parse as a chat message
  AgentChats,   \* the chat messages whose sender is "agentic"
  RepoGateways, \* the gateways whose blockRepo is not nil
  RepoFaults,   \* whether a call of the repository may return an error
  ClientSigs,   \* the signatures that come with append_block commands
  PeerSigs,     \* the signatures that come with Data frames
  MaxBlocks     \* bound: blocks in a log

NoSig  == [by |-> "nobody", over |-> << >>]
NoBlock == [value |-> "none", sig |-> NoSig]

Tasks   == Clients \cup Sessions \cup Replies
Sigs    == [by : Keys \cup {"nobody"}, over : Seq(Payloads)]
Blocks  == [value : Payloads, sig : Sigs]
Indices == 0 .. MaxBlocks

ASSUME FeedAssumption ==
  /\ Gateways \subseteq Keys
  /\ HomeOf \in [Tasks -> Gateways]
  /\ RemoteOf \in [Sessions -> Keys]
  /\ "nobody" \notin Keys
  /\ "none" \notin Payloads
  /\ AgentChats \subseteq Chats
  /\ Chats \subseteq Payloads
  /\ Payloads # {}
  /\ RepoGateways \subseteq Gateways
  /\ RepoFaults \in BOOLEAN
  /\ ClientSigs \subseteq Sigs
  /\ PeerSigs \subseteq Sigs
  /\ MaxBlocks \in Nat
  /\ Clients \cap Sessions = {}
  /\ Clients \cap Replies = {}
  /\ Sessions \cap Replies = {}

VARIABLES
  log,   \* log[g]: the blocks of g's Storage, in order
  repo,  \* repo[g][i]: the row of g's block repository with block_index i
  job,   \* job[t]: how far goroutine t is with the block it appends
  told   \* told[g]: the <<index, content>> pairs reported to IPC clients of g

feedVars == <<log, repo, job, told>>

-----------------------------------------------------------------------------
(* Where a goroutine stands: not appending; waiting for the HTTP answer;   *)
(* with storage.Len() read; with its block in the log.                     *)
Stages == {"idle", "posting", "measured", "appended"}

IdleJob == [stage |-> "idle", index |-> 0, value |-> "none", sig |-> NoSig]

Jobs == [stage : Stages, index : Nat, value : Payloads \cup {"none"}, sig : Sigs]

FeedTypeOK ==
  /\ log \in [Gateways -> Seq(Payloads)]
  /\ \A g \in Gateways : Len(log[g]) <= MaxBlocks
  /\ repo \in [Gateways -> [Indices -> Blocks \cup {NoBlock}]]
  /\ job \in [Tasks -> Jobs]
  /\ \A t \in Tasks : job[t].stage \in {"measured", "appended"} => job[t].value \in Payloads
  /\ told \in [Gateways -> SUBSET (Nat \X Payloads)]

FeedInit ==
  /\ log = [g \in Gateways |-> << >>]
  /\ repo = [g \in Gateways |-> [i \in Indices |-> NoBlock]]
  /\ job = [t \in Tasks |-> IdleJob]
  /\ told = [g \in Gateways |-> {}]

-----------------------------------------------------------------------------
(* SignRootHash and VerifySignature over ComputeRootHash of the leaves.    *)
Sign(key, leaves) == [by |-> key, over |-> leaves]

Verify(key, leaves, sig) == sig = Sign(key, leaves)

(* Mutant: the index is read one too high. *)
MeasurePastEnd(t, v, sig) ==
  job' = [job EXCEPT ![t] = [stage |-> "measured", index |-> Len(log[HomeOf[t]]) + 1,
                             value |-> v, sig |-> sig]]

(* currIndex := store.Len(), with the block that is to be appended.        *)
Measure(t, v, sig) ==
  job' = [job EXCEPT ![t] = [stage |-> "measured", index |-> Len(log[HomeOf[t]]),
                             value |-> v, sig |-> sig]]

(* An append_block command whose data decodes.                             *)
AppendBlock(c) ==
  /\ job[c].stage = "idle"
  /\ \E v \in Payloads, sig \in ClientSigs : Measure(c, v, sig)
  /\ UNCHANGED <<log, repo, told>>

(* A Data frame is for the next block and its signature, checked against   *)
(* the blocks in the log and the new one, is the remote peer's.            *)
IsNext(s, i) == i = Len(log[HomeOf[s]])

(* Mutant: a block without a signature is let through. *)
VerifiedIfSigned(s, v, sig) ==
  sig # NoSig => Verify(RemoteOf[s], Append(log[HomeOf[s]], v), sig)

Verified(s, v, sig) == Verify(RemoteOf[s], Append(log[HomeOf[s]], v), sig)

ReceiveData(s, i, v, sig) ==
  /\ job[s].stage = "idle"
  /\ IsNext(s, i)
  /\ Verified(s, v, sig)
  /\ Measure(s, v, sig)
  /\ UNCHANGED <<log, repo, told>>

(* The agentic service answered: the reply becomes a block, unsigned.      *)
AgenticReply(r) ==
  /\ job[r].stage = "posting"
  /\ \E v \in AgentChats : Measure(r, v, NoSig)
  /\ UNCHANGED <<log, repo, told>>

(* The request failed, or its answer holds no usable text.                 *)
AgenticFails(r) ==
  /\ job[r].stage = "posting"
  /\ job' = [job EXCEPT ![r] = IdleJob]
  /\ UNCHANGED <<log, repo, told>>

(* storage.Append puts the block at the end of the log, wherever the end   *)
(* is by now.                                                              *)
Store(t) ==
  LET g == HomeOf[t] IN
  /\ job[t].stage = "measured"
  /\ Len(log[g]) < MaxBlocks
  /\ log' = [log EXCEPT ![g] = Append(@, job[t].value)]
  /\ job' = [job EXCEPT ![t].stage = "appended"]
  /\ UNCHANGED <<repo, told>>

(* storage.Append returned an error: the block is given up.                *)
StoreFails(t) ==
  /\ job[t].stage = "measured"
  /\ job' = [job EXCEPT ![t] = IdleJob]
  /\ UNCHANGED <<log, repo, told>>

-----------------------------------------------------------------------------
(* Mutant: the index of the row is the length after the append. *)
PutBlockAtLength(t) ==
  LET g == HomeOf[t] IN
  \/ /\ g \in RepoGateways
     /\ repo' = [repo EXCEPT ![g][Len(log[g])] =
                   [value |-> job[t].value, sig |-> job[t].sig]]
  \/ /\ g \in RepoGateways => RepoFaults
     /\ repo' = repo

(* PutBlock upserts the row of the index; its error is only logged.        *)
PutBlock(t) ==
  LET g == HomeOf[t] IN
  \/ /\ g \in RepoGateways
     /\ repo' = [repo EXCEPT ![g][job[t].index] =
                   [value |-> job[t].value, sig |-> job[t].sig]]
  \/ /\ g \in RepoGateways => RepoFaults
     /\ repo' = repo

(* BroadcastChatMessage, and the response to an append_block command.      *)
Report(t) ==
  told' = [told EXCEPT ![HomeOf[t]] =
             IF t \in Clients \/ job[t].value \in Chats
             THEN @ \cup {<<job[t].index, job[t].value>>}
             ELSE @]

(* A chat message of a human is forwarded when an agentic URL is set, that *)
(* is, when the gateway has goroutines for replies.                        *)
Forwards(t) ==
  /\ t \in Sessions
  /\ job[t].value \in Chats \ AgentChats
  /\ \E r \in Replies : HomeOf[r] = HomeOf[t]

(* What follows a successful Append: PutBlock, the notification, and for a *)
(* replicated block the callback OnAppendBlock.                            *)
(* Bound: as many answers are awaited at a time as there are Replies.      *)
Publish(t) ==
  /\ job[t].stage = "appended"
  /\ PutBlock(t)
  /\ Report(t)
  /\ IF Forwards(t)
     THEN \E r \in Replies :
            /\ HomeOf[r] = HomeOf[t]
            /\ job[r].stage = "idle"
            /\ job' = [job EXCEPT ![t] = IdleJob,
                                  ![r] = [IdleJob EXCEPT !.stage = "posting"]]
     ELSE job' = [job EXCEPT ![t] = IdleJob]
  /\ UNCHANGED log

FeedNext ==
  \/ \E c \in Clients : AppendBlock(c)
  \/ \E s \in Sessions, i \in Indices, v \in Payloads, sig \in PeerSigs :
       ReceiveData(s, i, v, sig)
  \/ \E r \in Replies : AgenticReply(r) \/ AgenticFails(r)
  \/ \E t \in Tasks : Store(t) \/ StoreFails(t) \/ Publish(t)

FeedSpec == FeedInit /\ [][FeedNext]_feedVars
-----------------------------------------------------------------------------
(* The row that goroutine t has in mind when it names index i for content  *)
(* v really is in the log of g, at i or, because others appended between   *)
(* storage.Len() and storage.Append, further on.                           *)
LiesAtOrAfter(g, i, v) == \E k \in (i + 1) .. Len(log[g]) : log[g][k] = v

LiesAt(g, i, v) == i < Len(log[g]) /\ log[g][i + 1] = v

(***************************************************************************)
(* However clients, peers and replies interleave, every row of the block   *)
(* repository holds a block that the flat-file log holds too, and its      *)
(* block_index never runs ahead of the block's place in the log (Append    *)
(* comes between Len and PutBlock in socket.go, sync.go and main.go).      *)
(***************************************************************************)
StoredBlocksExist ==
  \A g \in Gateways : \A i \in Indices :
    repo[g][i] # NoBlock => LiesAtOrAfter(g, i, repo[g][i].value)

(***************************************************************************)
(* However they interleave, a block that a client was told of, in the      *)
(* response to append_block or in a chat_message_received notification,    *)
(* is in the log, at the index it was told or after it.                    *)
(***************************************************************************)
ToldBlocksExist ==
  \A g \in Gateways : \A m \in told[g] : LiesAtOrAfter(g, m[1], m[2])

(* The promise behind both: what a goroutine has measured or appended.     *)
JobsExist ==
  \A t \in Tasks :
    /\ job[t].stage = "measured" => job[t].index <= Len(log[HomeOf[t]])
    /\ job[t].stage = "appended" => LiesAtOrAfter(HomeOf[t], job[t].index, job[t].value)

(* Inductive: see FeedProofs.                                              *)
FeedInv == FeedTypeOK /\ JobsExist /\ StoredBlocksExist /\ ToldBlocksExist

(***************************************************************************)
(* The index reported for a block is the block's place in the log: what    *)
(* get_block returns for it.                                               *)
(***************************************************************************)
ToldIndexExact ==
  \A g \in Gateways : \A m \in told[g] : LiesAt(g, m[1], m[2])

(***************************************************************************)
(* The repository caches the log: its row i holds block i of the log, so   *)
(* that sendBlockData, which prefers the repository, serves what the log   *)
(* holds.                                                                  *)
(***************************************************************************)
RepoMatchesLog ==
  \A g \in Gateways : \A i \in Indices :
    repo[g][i] # NoBlock => LiesAt(g, i, repo[g][i].value)

(* g's feed is written by the read loop of s and by nothing else.          *)
OnlyWriter(s, g) == \A t \in Tasks : HomeOf[t] = g <=> t = s

(***************************************************************************)
(* In a gateway whose only writer is one session, the signature kept with  *)
(* row i is the remote peer's over blocks 0 to i as the log holds them:    *)
(* what readLoop verified is what was stored.                              *)
(***************************************************************************)
StoredSignaturesVerify ==
  \A g \in Gateways : \A s \in Sessions : OnlyWriter(s, g) =>
    \A i \in Indices : repo[g][i] # NoBlock =>
      /\ i < Len(log[g])
      /\ Verify(RemoteOf[s], SubSeq(log[g], 1, i + 1), repo[g][i].sig)
=============================================================================
