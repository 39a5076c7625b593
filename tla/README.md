# Keet ADK gateway: a TLA+ verification project

The gateway (`src/`) joins Keet/Hypercore swarms, replicates an append-only feed
with other gateways over uTP, and serves local ADK clients over a socket.  This
directory holds TLA+ models of its core, TLC configurations that check them on
small instances, and TLAPS proofs of their safety properties for instances of
every size.
`PROJECT.json` lists the components, the runs, a mutant for each property, the
source lines of each definition, the hazards and the findings.

## 1. The system

| Component | State | Operations | Interacts with |
|---|---|---|---|
| Flat-file storage (`hypercore/storage.go`) | `data.log`, `index.log`, the entries and the data size in memory | `NewStorage`, `Append`, `Get`, `Len`, `Close` | every writer of the feed |
| Block repository (`db/bbolt.go`, `db/block_repo.go`) | a row (content, signature) per feed and index | `PutBlock` (upsert), `GetBlock` | writers of the feed, `sendBlockData` |
| IPC server (`ipc/socket.go`) | the registered clients | `append_block`, `get_block`, `join_swarm`, `leave_swarm`, `auth`; notifications | storage, repository, DHT node |
| Replication session (`hypercore/sync.go`) | one goroutine per connection, the connection | Handshake, Have, Want, Request, Data; `NotifyHave` | storage, repository, `OnAppendBlock` |
| Agentic bridge (`cmd/gateway/main.go`) | a goroutine per forwarded message | HTTP POST, then an append | storage, repository, clients |
| PeerManager (`network/tcp.go`) | maps of connections and sessions | listen, dial, `BroadcastHave`, `Close` | sessions, uTP |
| uTP (`utp/conn.go`, `mux.go`, `listener.go`) | connection state, sequence number, four channels, the mux's table | dial, accept, read, write, close; a run loop; a read loop | UDP |
| DHT node (`dht/`) | routing table, local registry, `announces`, pending requests | `Start`, `Announce`, `Lookup`, `Leave`, `handleRequest` | other nodes, database |
| Swarm repository (`db/bbolt.go`) | a row per joined topic | register, unregister, list | IPC server, DHT node |
| Log rotation (`logger/rotator.go`) | the open file, its size | write, rotate, prune | every logger |
| Codecs, Noise, ICE/STUN/TURN, configuration | none, or none that outlives a call | | |

What is hard here: three kinds of goroutine append to one feed and none of them
holds a lock from reading the length to writing the row; a block written at one
gateway is checked at another against a log that has grown meanwhile; both ends
of a session may be writing into a full connection; a crash falls between the
two writes of `Append`; UDP loses, repeats and reorders the packets of a
connection that several goroutines close; a periodic announcement races the
command that ends it; a restart must resume what was joined; a search merges
answers that overlap while requests change the table it reads; a broadcast to
all clients and the end of the peer manager write and close under the lock that
the goroutines they wait for need.

What makes the parts correct:

- *feed*: what the repository holds and what clients are told exists in the log;
- *replication*: a follower holds a prefix of the feed it follows, a block
  that its sender signed is rejected only after a real fork, and what is offered is
  fetched;
- *storage*: what was acknowledged reads back after any crash;
- *uTP*: an acknowledged chunk arrived, none is skipped, a closed connection is
  released and stays closed, and a write returns on a lossy network;
- *swarm*: a joined swarm stays announced, also by a restart that reads the
  database, by one goroutine that can be stopped, and comes to be listed by every
  node;
- *routing table and search*: a bucket holds the contacts seen last; a search
  asks everyone it hears of, returns the closest of those that answered, and
  ends;
- *IPC server*: every authenticated client is told of every message from then on,
  once and in one order, its own before the answer; every command is answered; who is gone is forgotten;
- *peer manager*: no entry outlives its session, `Have` reaches the sessions, and
  `Close` cleans up and returns.

## 2. The modules

| Module | Models | Runs |
|---|---|---|
| `Feed` | the log, the repository and the goroutines that append | the runs of `Replication` |
| `Replication` (extends `Feed`) | sessions at both ends of connections between gateways | `replication_follow`, `replication_both_write`, `replication_reply` |
| `AppendOnlyLog`, `Storage` | what the storage promises, and the two files | `storage` |
| `UTPConn` | one uTP connection, its two muxes and UDP | `utp_close`, `utp_data`, `utp_progress`, `utp_duplicate` |
| `Swarm` | joining, announcing and leaving a swarm | `swarm` |
| `Kademlia` | the routing table and `iterativeFindNode` | `kademlia` |
| `IPCServer` | `HandleClient`, the client registry and `Broadcast` | `ipc` |
| `PeerManager` | connections, the maps of a peer manager, `BroadcastHave` and `Close` | `peers` |

The modules `FeedProofs`, `ReplicationProofs`, `StorageProofs`, `UTPConnProofs`,
`SwarmProofs`, `KademliaProofs`, `IPCServerProofs` and `PeerManagerProofs` hold the
theorems about these modules (section 4).  The modules `MC*` give TLC the functions that a configuration cannot write.
Definitions whose comment begins with "Mutant" are plausible bugs of the
definition that follows; they are used by no specification.

### Feed

`job[t]` is the progress of goroutine `t`.  `AppendBlock`, `ReceiveData` and
`AgenticReply` are the three ways to begin: each reads `storage.Len()`
(`Measure`).  `Store` is `storage.Append`.  `Publish` is `PutBlock`, the
response or notification, and for a replicated chat message of a human the
goroutine that waits for the agentic service: these calls are one step,
which loses only the moments between a row, its notification and its forwarding, of
which no property speaks; the step waits for a free name in `Replies`, which is a
bound of the model.  Between the steps anyone may run.  A root hash is the sequence of its leaves and a signature is the key with
that sequence: hashing and signing are taken to be collision-free.  The feed key
of `append_block` is the default one.

### Replication

A session is its goroutine: `phase` says how far `Run` is, `out` what it still
has to write before it reads again (the loops of `readLoop` write one frame per
block), `wire` what is on its way to it.  A connection is a FIFO of whole
frames with room for `WireCap`: it is what sync.go expects of a `net.Conn`, and
*not* what `UTPConn` provides (see `utp_duplicate`).  `sendBlockData` prefers the
repository's row and its stored signature, and signs the log's block otherwise.
`NotifyHave` may put a Have before the handshake, since the session is in the
map before `Run`.  Deadlines are steps that may be taken when a read finds
nothing (10 s) or a write no room (5 s).  After both ends are gone `Redial`
connects them again.  `DialPeer` does not wait for that: two sessions of one pair
at once are not modelled here (they are in `PeerManager`), and `OneReader` is the
same restriction in the proofs.  A `NotifyHave` whose write fails altogether
changes nothing that is modelled, so it is no step; one that times out between the
header and the payload of its frame (`sync.go:312-323`), after which the session goes
on and the peer takes the next frame for that payload, is not modelled.  Every step of `Replication` is a step of `Feed` or leaves
its variables alone: the property `FeedSpec` of `replication_both_write` checks
this refinement, and `ImplementsFeed` proves it, so what is proved of `Feed` is
about gateways that replicate.

### Storage

`data.log` is a sequence of cells and `index.log` a sequence of words, two per
block.  `WriteData` and `WriteIndex` are the two writes of `Append`; `Crash` may
come between them; on a faulty disk a write may stop half way.  The refinement
mapping takes `AppendOnlyLog`'s blocks to be what `Get` returns for the entries
that the running process holds, or the next one will read.

### UTPConn

The channels `readBuf`, `ackChan`, `readQueue` and `finAcked` are bounded
sequences (a token, for the last), and a send in a `select` with a `default` is
dropped when they are full.  `HandlePacket` is `handlePacket` of the run loop for
each packet type.  `Write` is three parts, the check of the state, the
transmission of a chunk and the wait for its number, so that the connection may
close in between.  A second `close(closeChan)` ends the process of that end.
`MuxAccept` makes one connection: a SYN that is repeated after its connection was
deregistered makes another one in the code (`mux.go:139`), which is not modelled.

### Swarm

A caller is a goroutine in `Announce` or `Leave`; `at[c]` is the next thing it
does that others can see.  `announces` holds the goroutine whose cancel function
the map has.  `SendRequests`, `SendTimeout` and `AnswerArrives` are the
dispatcher: a request is in `net` until a node handles it or it is lost, and
`by` says whether anybody still waits for the answer.  `iterativeFindNode` is a
choice of nodes, since which of them answer in time is up to the network.
`Exit` and `Start` are the end and the restart of the process; only the row in
the database survives, and `GetActiveSwarms` may fail to read it: then
`rehydrateSwarms` returns (`dht.go:172-175`) and the swarm is `dormant`, joined and
saved and not announced, until a client joins it or a later restart reads the row.

### Kademlia

An ID is a string of `Bits` bits, and a contact is its ID.  `buckets` is the
routing table; `Seen` is a request of another node, an answer to the pings of
`Start`, or an answer to another search, and it may come between any two steps of
the search.  `Round` sorts, picks the `Alpha` closest that were not asked and
starts their goroutines; `Answers` and `Fails` are what `SendRequest` returned,
in any order, with any contacts; `Merge` is one iteration over `resChan`.
`closestList` is sorted whenever its order matters, so it is a set.  `recent`,
`answered` and `heard` are histories that the properties compare with.  `Swarm`
uses the result of a search as a choice among the known nodes, which
`SearchIsComplete` justifies: which nodes answer is up to the network.

### IPCServer

`at[c]` is where `HandleClient` is for client `c`, its deferred calls included;
`mu` is the registry's lock.  `BroadcastLock`, `BroadcastWrite` for each client and
`BroadcastUnlock` are `Broadcast`: the lock is held while a full connection makes
it wait.  What commands do to the feed and to swarms is in `Feed` and `Swarm`;
here a command is authorised, may announce a message, and is answered.  `stream`
is the history of what a connected client was written, `since` and `served` of how
many messages there were when it was registered and when it was authenticated.

### PeerManager

`at[c]` is where `handleIncoming` or `handleOutgoing` is for connection `c`.
`conns` and `sessions` always change together, so `table` stands for both.  `wg`
counts as the code does: the accept loop and outgoing connections, not incoming
ones.  `Close` is six steps, with the lock held in the sweep.

## 3. The runs

| Run | Instance | Checks |
|---|---|---|
| `replication_follow` | two gateways, the second only follows; 2 blocks, repositories that may fail, one redial | `ReplicaPrefix`, and for a single writer the exact forms `RepoMatchesLog`, `StoredSignaturesVerify`; `OwnBlockRejectedMeansFork`, where rows are served from the repositories as well |
| `replication_both_write` | two gateways that both write (a client at one, an agentic service and a repository at the other); 3 blocks; `FairSpec` | `StoredBlocksExist`, `ToldBlocksExist`: however a client, sessions and replies interleave, rows and notifications name blocks that the log holds, at that index or after it; `OwnBlockRejectedMeansFork`, where logs fork; the refinement `FeedSpec`, the liveness `OfferIsFetched` |
| `replication_reply` | the gateways and the repository of `replication_both_write`; 2 blocks, with `Have` announcements | *violated*: `ServedBlocksVerify` |
| `storage` | blocks of 0, 1 and 2 cells, 4 appends, good and faulty disks | `AckedBlocksReadBack`, `ReadsAreStable`, the refinement `ImplementsLog` |
| `utp_close` | one chunk of the accepting end, whose numbers go past the last one, both ends close, deadlines, a mux that stops, channels of capacity 1 | `ReleasedWhenClosed`, `AckedWasHandled`, `PanicNeedsTwoCloses`, `ClosedIsFinal` |
| `utp_data` | two chunks in one or two writes, a lossy, reordering, repeating network, a close in the middle | `AckedWasHandled`, `HandledWithoutGaps` |
| `utp_progress` | two chunks, a lossy network, nobody closes; `FairSpec` | `WriteReturns` |
| `utp_duplicate` | two chunks, a network that repeats nothing | *violated*: `StreamInOrder` |
| `swarm` | one client, one other node, one other member, a leave, a restart that may fail to read the database; `FairSpec` | `JoinedStaysAnnounced`, `OneReannouncer`, the liveness `JoinedGetsListed` |
| `kademlia` | 3-bit IDs, 4 other nodes, three of them in one bucket of 2, two asked at a time; `FairSpec` | `BucketsHoldMostRecent`, `SearchIsComplete`, the liveness `SearchEnds` |
| `ipc` | a client that appends with its key, which authenticates it, or sends a command without, a client that only listens, a session that announces; 2 messages, connections that buffer one, a whitelist; `FairSpec` | `NoticesAreComplete`, `OwnNoticeFirst`, the liveness `CommandsAreAnswered` and `GoneIsForgotten` |
| `peers` | an incoming and an outgoing connection of one peer, an outgoing one of another; `FairSpec` | `EntriesAreLive`, `HaveReachesSessions`, `CloseCleansUp`, the liveness `CloseReturns` |

Each run also states the type invariant of its module where no other run of the
module does.

**Why the bounds are enough.**  Indices matter only by whether they are read
before or after another append: with three blocks and one goroutine of each
kind every order of two complete appends and the beginning of a third occurs.
Two blocks and one redial make a transfer that is cut in the middle and resumed.
A wire of two frames fills up at both ends at once.  Sequence numbers wrap at 8 and the
accepting end starts at 6, the counterpart of the largest number that
`rand.Intn(65535)` returns: where it writes (`utp_close`), a chunk and a FIN are 7
and 0, or 0 and 7 when `Close` comes first.  At most four numbers are in use.  Channels of
capacity one are full as soon as two packets come.  One leave needs at most two
re-announcing goroutines alive, and the module assumes there are more of them
than leaves.  A bucket of two with three nodes evicts; searches of four nodes in
rounds of two take several rounds, and an answer may name nodes that were asked,
that failed, or this node.  A connection that buffers one message is full as soon
as a client has an announcement and an answer to read; two announcements by two
goroutines and two clients give every order of a broadcast and a registration.
Two connections of one peer overwrite and delete each other's entries, and the
third one's are not affected.  `CHECK_DEADLOCK` is off for `UTPConn` and
`IPCServer`, where a connection that is closed and drained has no step left.

**Fairness.**  `Replication`: a session's goroutine runs, its calls into the feed
return, its timers fire (weak fairness for each session); nothing is assumed of
clients, announcements or redials.  `UTPConn`: the run loop and the writer run
and the retransmission timer fires (weak), and of a packet type that is sent again
and again some copy arrives (strong); the latter is the least that a lossy but not
dead network gives.  `Swarm`: the goroutines of the DHT node run and their timers fire (weak), and of the
announcements that are made again and again some find the node and reach it
(strong).  No fairness is assumed of `Start`, `Exit` or clients.  `Kademlia`: the
search runs and `SendRequest` returns, at the latest by its timeout (weak); a node
may fail every time.  `IPCServer`: the goroutines run, and a client that stays
connected reads (weak); without the latter `CommandsAreAnswered` does not hold,
since `Broadcast` has no deadline.  `PeerManager`: the goroutines run, a session
that was told to end ends (weak), and a goroutine that waits for the mutex gets it
although others take it again and again (strong: a Go mutex hands over to a waiter
after a millisecond).  Nothing is assumed of peers: `CloseReturns` says under which
behaviour of theirs `Close` returns.

**Violated properties** (findings in `PROJECT.json`):

- `replication_reply`: an agentic reply is stored unsigned, served as stored, and
  rejected by the peer, which ends the session.
- `utp_duplicate`: a chunk that is retransmitted because its acknowledgment was
  late reaches the reader twice; sequence numbers are not looked at.

## 4. The proofs

Every safety property that a passing run checks is also a theorem, proved by
TLAPS for every value of the constants that satisfies the module's assumptions:
any number of gateways, goroutines, connections, nodes, blocks and messages, and
any bound.  A run shows that the property is not vacuous and that a plausible bug
breaks it; the theorem, that the bounds of the run hide nothing.

| Module | Theorems | Hypotheses besides the assumptions |
|---|---|---|
| `FeedProofs` | `FeedTypes` (a lemma for the others), `RowsExist`, `NotificationsExist`, `SignaturesKept` | |
| `ReplicationProofs` | `ReplicationTypes` | |
| | `ImplementsFeed` | `PeersMaySign` |
| | `FollowersHoldPrefix` | `OneReader`, `HonestClients` |
| | `IndicesExact`, `RepoCachesLog` | `OneReader`, `HonestClients`, `OneWriter` |
| | `OwnRejectionsAreForks` | `HonestClients` |
| `StorageProofs` | `StorageTypes`, `AckedReadBack`, `StableReads`, `StorageImplementsLog` | |
| `UTPConnProofs` | `UTPTypes`, `Released`, `ClosedFinal` | |
| | `AckedHandled` | `NoWrap` |
| | `NoGaps` | `NoWrap`, no deadlines |
| | `PanicsNeedTwo` | no duplicated packets |
| `SwarmProofs` | `SwarmTypes`, `OneLoop` | |
| | `StaysAnnounced` | `OwnHost` |
| `KademliaProofs` | `KademliaTypes`, `MostRecent`, `CompleteSearch` | |
| `IPCServerProofs` | `IPCTypes`, `CompleteNotices`, `OwnFirst` | |
| `PeerManagerProofs` | `PeerTypes`, `LiveEntries`, `HaveReaches`, `CloseCleans` | |

**The hypotheses, and why each is needed.**

- `OneReader`: no gateway has two sessions with one peer.  Two read loops of one
  peer may both verify block *n* against one log and append it twice.
- `HonestClients`: no signature that comes with `append_block` is in the name of a
  gateway.  Clients do not hold these keys, and nothing in the code checks what
  they send before it is stored and served.
- `OneWriter`: apart from sessions whose peer only follows this gateway, one
  goroutine of a gateway appends.  With two, indices are inexact (section 5).
- `PeersMaySign`: in `Feed`, a peer may come with any signature over a log that
  fits.  `Feed` leaves the choice open as `PeerSigs`.
- `NoWrap`: fewer chunks and calls of `Close` than sequence numbers, so that no
  number is used twice.  Numbers are 16 bits and nothing tells two uses of one
  apart, so a delayed acknowledgment may count for a later chunk.  Numbers may go
  past the end of their range and start at 0 again, as they do in `utp_close`.
- No deadlines, for `NoGaps`: a `Write` that timed out gives its chunk up, and the
  next one is sent.
- No duplicated packets, for `PanicsNeedTwo`: a FIN that arrives twice closes
  `closeChan` twice by itself.
- `OwnHost`: no other member of the swarm is on this gateway's host.
  `handleRequest` removes every address of a host when one member on it leaves.

**The inductive invariants.**

*Feed.*  `FeedInv` adds `JobsExist`: an index that was measured is at most the
length of the log, and a block that was appended lies at that index or after it.
Without it nothing is inductive, since `Publish` writes a row from the goroutine's
own memory.  The argument is that logs only grow (`LogGrows`), that a named block
stays where it is (`LiesStays`, `NamedBlocksStay`), that `InvStore` turns a
measured index into a place in the log, and `InvPublish` that place into a row and
a notification.  For `SignaturesKept`, `OnlyWritersKeep` carries a signature from
its check over the log to the row.

*Replication.*  `NextMoves` first reduces each step to what it does to the
connections (`WireMoves`: a frame was there before or is served now), to the feeds
(`FeedMoves`) and to the phases (`Rejections`).  `NetInv` is `FeedInv`, the types
and `DataIsOld`: a Data frame names a block that the sender holds.  With it every
step is one of `Feed`, for the signature of an accepted block covers a log that
fits.  `FollowersHoldPrefix` rests on `SignaturesHonest`: a signature in a frame, a
row or a goroutine that is in a gateway's name covers a beginning of that gateway's
log; a block that verified is therefore the next one of the log that is followed
(`TakenOver`), whatever row the repository served.  `IndicesExact` and
`RepoCachesLog` use that a follower holds a prefix: its blocks are never next, so
the session that serves it never writes.  For `OwnRejectionsAreForks`, `NothingOwnKept` says
that no row bears its own gateway's signature, so that a frame which does was made
from the log, and `OwnDataFromLog` that such a frame carries the log as far as the
block; if it fails to verify, the receiver's log differs from that.

*Storage.*  `IndexNamesAcked` (the index file names where each acknowledged block
is), `MemoryAgrees` (what the process holds is what the files say) and
`PendingIsWritten` (between the two writes of `Append` the data is there).  The
refinement follows step by step: `WriteIndex` is the append, everything else, a
crash included, a stutter.

*UTPConn.*  `Released` and `ClosedFinal` need the types only.  `AckedHandled` needs
`NumberInv`: every number that is still in a packet, a channel or a wait was taken
lately (`Recent`), so that the one `Write` waits for belongs to its chunk alone
(`WaitsForOwn`).  `NoGaps` adds that a chunk is in flight only when all before it
were handled.  `PanicInv` says what one call of `Close` can have left on its way.

*Swarm.*  `OneLoop` needs that cancelled goroutines are no more than leaves
(`CancelledByLeaves`), so that there is a free one to start, and that none outlives
the process (`DownIsIdle`).  `StaysAnnounced` adds where the client and the
rehydration are when the gateway is in its own registry; a swarm that a restart left
dormant still has its row, so that the next restart that reads it announces it.

*Kademlia.*  `TableInv` relates each bucket to the history `recent` through the
order of the last sightings; moving a contact to the end keeps the order of the
others.  `SearchInv` says that each node that was asked is awaited, has answered,
or has failed, and what of it is in `closestList` and in the results that are not
merged yet.  That the node to ask exists when some were not asked is the minimum
of a finite set under the distance.

*IPCServer.*  `Exclusive` (one goroutine in `Broadcast`), `RoomForChats`,
`Newcomers` (a client that registers has heard nothing and is owed only what comes
later, and it is authenticated then or later), `OwnTold` and `Complete`: every
registered client is told of every message, authenticated or not, which is more
than `NoticesAreComplete` promises.

*PeerManager.*  `SharersOverlap` and `LoneIsListed`: a session is found under its
peer's key unless another connection of the peer overlapped with it; `HaveCovers`
and `SweepCovers` say what the loops under the lock have done and will do.

**Only model-checked.**  Liveness under fairness (`OfferIsFetched`, `WriteReturns`,
`JoinedGetsListed`, `SearchEnds`, `CommandsAreAnswered`, `GoneIsForgotten`,
`CloseReturns`) is out of reach of TLAPS with the installed backends.  Outside the
hypotheses above a property is shown for the instance of its run.

## 5. What the checks do not claim

- With two writers in a gateway the index in a row or a notification may be too
  low (both read one length, `socket.go:268`, `sync.go:221`, `main.go:197`), and
  one row may overwrite another.  `StoredBlocksExist` and `ToldBlocksExist` are what
  holds then, and they let an index pass that is too low; `ToldIndexExact` and
  `RepoMatchesLog` hold with one writer only (`IndicesExact`, `RepoCachesLog`).
- A rejected block does not mean a fork: a row that was stored without a signature
  or with a client's is served as it is (`replication_reply`).
  `OwnBlockRejectedMeansFork` is about blocks that the serving gateway signs.
- Two sessions of one peer may both pass the index test at `sync.go:221` and append
  one block twice; `ReplicaPrefix` is stated for one session per peer.
- A restart whose `GetActiveSwarms` fails announces none of the saved swarms, and
  nothing tries again (`dht.go:172-175`), although
  `conductor/tracks/hyperdht_transport_20260719/spec.md:55` says that a restart with
  persisted swarms "triggers automatic re-announce".  `JoinedStaysAnnounced` and
  `JoinedGetsListed` except such a process, and the former says that the row is kept
  for the next one.
- The whitelist guards commands and not announcements: a client is registered before
  it authenticates (`socket.go:136`), so that with a whitelist a connection that has
  sent no key is told of chat messages, although `docs/ARCHITECTURE.md:57` calls it
  "locked" and `README.md:15` requires clients "to be explicitly authorized".
  `NoticesAreComplete` promises announcements to authenticated clients and claims
  nothing for the others but that none is told of messages from before its
  registration.
- After a write that failed half way, later blocks of `Storage` are indexed at
  wrong offsets, and a torn index entry shifts all entries after it; the code
  never calls `Sync`.  `AckedBlocksReadBack` is claimed for disks whose writes do
  not fail and for crashes of the process.
- `Read` of a uTP connection may return EOF with payloads queued
  (`conn.go:217`), and a payload is acknowledged before it is dropped for want of
  room in `readQueue` (`conn.go:177`).  `AckedWasHandled` says that the run loop
  saw the chunk, no more.
- `Leave` clears the topic for every member in the gateway's own registry, and a
  leave removes every address of the sender's host.  A node that never hears of a
  leave lists the gateway for good: registries have no expiry.
- When both ends of a uTP connection close, or Close is called twice at one end, a
  FIN for a connection that is CLOSED already closes `closeChan` a second time,
  which panics (`conn.go:145`).  `PanicNeedsTwoCloses` says that nothing less does.
- A tick that races `Leave` ends its `Announce` after `Leave` deleted the entry, and
  `startReannounce` (`dht.go:443`) then starts a new goroutine that announces the
  swarm that was left.  `OneReannouncer` says that it is the only one and that the
  next `Leave` reaches it.
- Of a peer with two connections at once, `BroadcastHave` reaches one or none
  (`tcp.go:207`, `tcp.go:213`), although its comment speaks of all active sessions
  (`tcp.go:228`), and `Close` may leave an incoming one open; `HaveReachesSessions` and
  `CloseCleansUp` except exactly these, and connections whose handshake ends after
  `Close` went through the map.
- A client that stays connected and does not read blocks `Broadcast`, and with it
  every handler that registers, unregisters or announces.
- `SearchIsComplete` is about IDs; which address a contact is asked at is not
  modelled.
- `Swarm` has one client; two clients that join and leave one topic at once may
  leave a join answered and nothing announced.

Read in the code and not modelled: `main.go:112` takes the listener's address for
a `*net.TCPAddr`, which the uTP listener's is not; the registry that
`OnRegisterPeer` watches is not the one that `rehydrateSwarms` fills, so peers
found after a restart are not dialled; `Lookup` includes the gateway's own
address, so a join dials it; `BroadcastHave` is called by tests only; after a
rotation `LogRotator.open` keeps the old size (`rotator.go:46`), so that every later
write rotates again.  `PeerManager` is modelled as the integration tests use it,
behind the assertion of `main.go:112`.

## 6. Not modelled

Codecs (`wire.go`, `protobuf.go`, `rpc.go`, `packet.go`): byte layouts, with
round-trip tests in the repository.  Noise, Ed25519 and BLAKE2b: primitives,
represented by what they prove.  ICE, STUN, TURN and the relay dial: no state
beyond a call.  `ledbat.go` and `reliability.go`: not used by `UTPConn`.  Log
rotation: one writer under one lock, whose behaviour is the file system's.  SQL,
migrations, configuration, logging formats.

## 7. Plan

Done: `Feed`, `Replication`, `Storage`, `UTPConn`, `Swarm`, `Kademlia`, `IPCServer`
and `PeerManager` with their runs; the theorems of section 4, one for every safety
property of the passing runs.

Still possible.  Modules: the Merkle root as a function of the leaves, against a
reference definition; several connections of one mux.  Theorems with weaker
hypotheses: `ReplicaPrefix` as a sequence with repetitions where one peer has two
sessions; `JoinedStaysAnnounced` for members that share the host but do not
leave; `AckedWasHandled` for any run in which a number is reused only after its
first packet and acknowledgment are gone.
