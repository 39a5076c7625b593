------------------------------- MODULE Swarm -------------------------------
(***************************************************************************)
(* How a gateway joins and leaves a swarm: the join_swarm and leave_swarm  *)
(* commands of ipc.HandleClient, DHTNode.Announce, Lookup and Leave, the   *)
(* goroutine that announces again periodically, and the swarms persisted   *)
(* in the database and announced again after a restart.                    *)
(*                                                                         *)
(* One topic is modelled: every map of the code is keyed by the topic, and *)
(* no operation touches two.  A caller is a goroutine that runs Announce   *)
(* or Leave: an IPC client, the goroutine of rehydrateSwarms, or one that  *)
(* startReannounce made.  Callers share the registry, the map announces    *)
(* and the database, each locked for one operation at a time.              *)
(*                                                                         *)
(* The other DHT nodes and the UDP network are external.  A packet is in   *)
(* net until it is handled or lost; an answer that is not lost arrives at  *)
(* once, since the caller may go on as late as it likes.  Its field by     *)
(* stands for its TxID: the caller that waits for the answer, or "nobody"  *)
(* once SendRequest returned.                                              *)
(***************************************************************************)
EXTENDS Naturals, FiniteSets

CONSTANTS
  Client,    \* the goroutine of an IPC client
  Loops,     \* names for the goroutines of startReannounce
  Nodes,     \* other DHT nodes, all in the routing table
  Me,        \* the address of this gateway
  Others,    \* addresses of other members of the swarm
  HostOf,    \* the host part of an address
  MaxLeaves, \* bound: leave_swarm commands
  MaxExits   \* bound: how often the process ends

Rehydrate == "rehydrate"
Callers == {Client, Rehydrate} \cup Loops
Addrs   == {Me} \cup Others

ASSUME SwarmAssumption ==
  /\ HostOf \in [Addrs -> STRING]
  /\ Client \notin Loops
  /\ Rehydrate \notin Loops \cup {Client}
  /\ "nobody" \notin Callers
  /\ "none" \notin Loops
  /\ Me \notin Others
  /\ {MaxLeaves, MaxExits} \subseteq Nat
  /\ IsFiniteSet(Loops) /\ Cardinality(Loops) > MaxLeaves

VARIABLES
  up,         \* the gateway runs
  db,         \* the swarm has a row in the swarms bucket
  local,      \* DHTNode.localRegistry: the addresses of the topic
  reg,        \* the SwarmRegistry of main: the addresses discovered
  announces,  \* the goroutine whose cancel function is in DHTNode.announces
  cancelled,  \* the goroutines of startReannounce whose context is cancelled
  at,         \* at[c]: where caller c is
  wait,       \* wait[c]: the nodes whose answer SendRequest of c waits for
  listed,     \* listed[n]: node n has registered this gateway
  net,        \* packets on their way
  joined,     \* whether a join was answered and no leave began since, whether
              \* its row was saved, and whether the last Start could read it
  leaves,     \* how often the swarm was left
  exits       \* how often the process ended

store  == <<db, local, reg>>
loopVars == <<announces, cancelled>>
ghosts == <<joined, leaves, exits>>
vars   == <<up, store, loopVars, at, wait, listed, net, ghosts>>

-----------------------------------------------------------------------------
(* idle: no command or, for a goroutine, not started.  ticking: in the     *)
(* select of startReannounce.  announce, find, announced, lookup: before   *)
(* the steps of Announce and the Lookup after it.  leave, left: in Leave.  *)
Places == {"idle", "ticking", "announce", "find", "announced", "lookup", "leave", "left"}

Packets == [kind : {"announce", "leave"}, node : Nodes,
            by : Callers \cup {"nobody"}]

SwarmTypeOK ==
  /\ up \in BOOLEAN
  /\ db \in BOOLEAN
  /\ local \subseteq Addrs
  /\ reg \subseteq Addrs \cup {Client}
  /\ announces \in Loops \cup {"none"}
  /\ cancelled \subseteq Loops
  /\ at \in [Callers -> Places]
  /\ wait \in [Callers -> SUBSET Nodes]
  /\ \A c \in Callers : at[c] \notin {"announced", "left"} => wait[c] = {}
  /\ listed \in [Nodes -> BOOLEAN]
  /\ net \subseteq Packets
  /\ joined \in {"no", "saved", "unsaved", "dormant"}
  /\ leaves \in 0 .. MaxLeaves
  /\ exits \in 0 .. MaxExits

Init ==
  /\ up = FALSE
  /\ db = FALSE
  /\ local = {}
  /\ reg = {}
  /\ announces = "none"
  /\ cancelled = {}
  /\ at = [c \in Callers |-> "idle"]
  /\ wait = [c \in Callers |-> {}]
  /\ listed = [n \in Nodes |-> FALSE]
  /\ net = {}
  /\ joined = "no"
  /\ leaves = 0
  /\ exits = 0

Go(c, place) == at' = [at EXCEPT ![c] = place]

(* The registries keep every address once.                                 *)
RegisterPeer(peers, a) == peers \cup {a}

UnregisterHost(peers, a) == {b \in peers : HostOf[b] # HostOf[a]}

ClearSwarm == {}

(* The transactions on the row of the swarm, which may fail.  When the     *)
(* swarms cannot be read, rehydrateSwarms returns as if there were none.   *)
RegisterSwarm == db' \in {db, TRUE}

UnregisterSwarm == db' \in {db, FALSE}

GetActiveSwarms == {db, FALSE}

(* Nobody waits any more for the answers to the requests of callers.       *)
Abandoned(callers) ==
  {IF p.by \in callers THEN [p EXCEPT !.by = "nobody"] ELSE p : p \in net}

-----------------------------------------------------------------------------
(* Mutant: the persisted swarms are not announced after a restart. *)
StartForgets ==
  /\ ~up
  /\ up' = TRUE
  /\ UNCHANGED <<store, loopVars, at, wait, listed, net, ghosts>>

(* Start: a goroutine announces the persisted swarm, if it could be read;  *)
(* clients are served meanwhile.                                           *)
Start ==
  /\ ~up
  /\ up' = TRUE
  /\ \E active \in GetActiveSwarms :
       /\ at' = IF active THEN [at EXCEPT ![Rehydrate] = "announce"] ELSE at
       /\ joined' = CASE joined = "no" -> "no"
                      [] joined # "no" /\ active -> "saved"
                      [] OTHER -> "dormant"
  /\ UNCHANGED <<store, loopVars, wait, listed, net, leaves, exits>>

(* The process ends, by a crash or after Stop.  Only the database is left, *)
(* the other nodes keep what they registered, and packets stay on their    *)
(* way.  A join that was never saved is forgotten.                         *)
Exit ==
  /\ up
  /\ exits < MaxExits
  /\ exits' = exits + 1
  /\ up' = FALSE
  /\ local' = {}
  /\ reg' = {}
  /\ announces' = "none"
  /\ cancelled' = {}
  /\ at' = [c \in Callers |-> "idle"]
  /\ wait' = [c \in Callers |-> {}]
  /\ net' = Abandoned(Callers)
  /\ joined' = IF joined = "unsaved" THEN "no" ELSE joined
  /\ UNCHANGED <<db, listed, leaves>>

(* join_swarm registers the client's key and saves the swarm; a failure of *)
(* the database is only logged.  Then it calls Announce.                   *)
JoinSwarm ==
  /\ up
  /\ at[Client] = "idle"
  /\ reg' = RegisterPeer(reg, Client)
  /\ RegisterSwarm
  /\ Go(Client, "announce")
  /\ UNCHANGED <<up, local, loopVars, wait, listed, net, ghosts>>

(* Announce first registers the gateway's own address.                     *)
Announce(c) ==
  /\ at[c] = "announce"
  /\ local' = RegisterPeer(local, Me)
  /\ Go(c, "find")
  /\ UNCHANGED <<up, db, reg, loopVars, wait, listed, net, ghosts>>

(* What iterativeFindNode may return: it drops the nodes that do not       *)
(* answer its queries in time, and each of them may be among those.        *)
IterativeFindNode == SUBSET Nodes

(* One request to each node of closest, and SendRequest waits for them.    *)
SendRequests(c, kind, closest, place) ==
  /\ net' = net \cup {[kind |-> kind, node |-> n, by |-> c] : n \in closest}
  /\ wait' = [wait EXCEPT ![c] = closest]
  /\ Go(c, place)

(* Announce goes on with the nodes that were found.                        *)
SendAnnounces(c, closest) ==
  /\ at[c] = "find"
  /\ SendRequests(c, "announce", closest, "announced")
  /\ UNCHANGED <<up, store, loopVars, listed, ghosts>>

(* SendRequest gives up on every node that did not answer: 5 seconds have  *)
(* passed, or the context of the caller is cancelled.                      *)
GiveUp(c) ==
  /\ wait[c] # {}
  /\ wait' = [wait EXCEPT ![c] = {}]
  /\ net' = Abandoned({c})
  /\ UNCHANGED <<up, store, loopVars, at, listed, ghosts>>

(* Mutant: SendRequest returns early only when its context is cancelled. *)
GiveUpCancelled(c) == c \in cancelled /\ GiveUp(c)

SendTimeout(c) == GiveUp(c)

-----------------------------------------------------------------------------
(* What a caller does when its Announce returns.                           *)
AfterAnnounce(c) == IF c \in Loops THEN "ticking" ELSE "lookup"

(* A name for a new goroutine.                                             *)
NewLoop == CHOOSE l \in Loops : at[l] = "idle"

(* Mutant: startReannounce does not look for an entry of the topic. *)
StartReannounceAgain(c) ==
  /\ at[c] = "announced"
  /\ wait[c] = {}
  /\ \E l \in Loops : at[l] = "idle"
  /\ announces' = NewLoop
  /\ at' = [at EXCEPT ![c] = AfterAnnounce(c), ![NewLoop] = "ticking"]
  /\ UNCHANGED <<up, store, cancelled, wait, listed, net, ghosts>>

(* Mutant: Announce does not wait for its requests. *)
StartReannounceEarly(c) ==
  /\ at[c] = "announced"
  /\ Go(c, AfterAnnounce(c))
  /\ UNCHANGED <<up, store, loopVars, wait, listed, net, ghosts>>

(* wg.Wait returns, and startReannounce makes a new goroutine unless the   *)
(* topic has an entry.                                                     *)
StartReannounce(c) ==
  /\ at[c] = "announced"
  /\ wait[c] = {}
  /\ IF announces # "none"
     THEN Go(c, AfterAnnounce(c)) /\ UNCHANGED announces
     ELSE /\ announces' = NewLoop
          /\ at' = [at EXCEPT ![c] = AfterAnnounce(c), ![NewLoop] = "ticking"]
  /\ UNCHANGED <<up, store, cancelled, wait, listed, net, ghosts>>

(* The ticker fires, and Announce begins.  With the context cancelled too, *)
(* select may choose either.                                               *)
Tick(l) ==
  /\ at[l] = "ticking"
  /\ local' = RegisterPeer(local, Me)
  /\ Go(l, "find")
  /\ UNCHANGED <<up, db, reg, loopVars, wait, listed, net, ghosts>>

LoopReturns(l) ==
  /\ at[l] = "ticking"
  /\ l \in cancelled
  /\ Go(l, "idle")
  /\ cancelled' = cancelled \ {l}
  /\ UNCHANGED <<up, store, announces, wait, listed, net, ghosts>>

(* What Lookup may return: the addresses in the gateway's own registry and *)
(* those that other nodes have.                                            *)
Lookup == {local \cup found : found \in
             SUBSET (Others \cup (IF \E n \in Nodes : listed[n] THEN {Me} ELSE {}))}

(* The command is answered, and the addresses found are registered for     *)
(* dialling.                                                               *)
JoinReturns ==
  /\ at[Client] = "lookup"
  /\ \E peers \in Lookup : reg' = reg \cup peers
  /\ joined' = IF db THEN "saved" ELSE "unsaved"
  /\ Go(Client, "idle")
  /\ UNCHANGED <<up, db, local, loopVars, wait, listed, net, leaves, exits>>

(* The goroutine of rehydrateSwarms registers them with the DHT node.      *)
RehydrateReturns ==
  /\ at[Rehydrate] = "lookup"
  /\ \E peers \in Lookup : local' = local \cup peers
  /\ Go(Rehydrate, "idle")
  /\ UNCHANGED <<up, db, reg, loopVars, wait, listed, net, ghosts>>

-----------------------------------------------------------------------------
(* leave_swarm calls Leave, which first cancels the goroutine.             *)
LeaveSwarm ==
  /\ up
  /\ at[Client] = "idle"
  /\ leaves < MaxLeaves
  /\ leaves' = leaves + 1
  /\ announces' = "none"
  /\ cancelled' = cancelled \cup (Loops \cap {announces})
  /\ joined' = "no"
  /\ Go(Client, "leave")
  /\ UNCHANGED <<up, store, wait, listed, net, exits>>

(* An announcement with port 0 to the nodes that iterativeFindNode finds.  *)
SendLeaves(closest) ==
  /\ at[Client] = "leave"
  /\ SendRequests(Client, "leave", closest, "left")
  /\ UNCHANGED <<up, store, loopVars, listed, ghosts>>

(* Leave and the command clear both registries, of all addresses of the    *)
(* topic, and delete the row; a failure of the database is only logged.    *)
LeaveReturns ==
  /\ at[Client] = "left"
  /\ wait[Client] = {}
  /\ local' = ClearSwarm
  /\ reg' = ClearSwarm
  /\ UnregisterSwarm
  /\ Go(Client, "idle")
  /\ UNCHANGED <<up, loopVars, wait, listed, net, ghosts>>

-----------------------------------------------------------------------------
(* readLoop hands the answer to the request that waits for it, if one does *)
(* and the answer is not lost.                                             *)
AnswerArrives(p) ==
  \/ up /\ p.by # "nobody" /\ wait' = [wait EXCEPT ![p.by] = @ \ {p.node}]
  \/ wait' = wait

(* handleRequest of another node: it registers or removes this gateway,    *)
(* and answers.                                                            *)
NodeHandles(p) ==
  /\ p \in net
  /\ listed' = [listed EXCEPT ![p.node] = p.kind = "announce"]
  /\ AnswerArrives(p)
  /\ net' = net \ {p}
  /\ UNCHANGED <<up, store, loopVars, at, ghosts>>

Lose(p) ==
  /\ p \in net
  /\ net' = net \ {p}
  /\ UNCHANGED <<up, store, loopVars, at, wait, listed, ghosts>>

(* handleRequest of this gateway for another member's announcement; one    *)
(* with port 0 removes every address of the sender's host.                 *)
PeerAnnounces(a) ==
  /\ up
  /\ local' = RegisterPeer(local, a)
  /\ UNCHANGED <<up, db, reg, loopVars, at, wait, listed, net, ghosts>>

PeerLeaves(a) ==
  /\ up
  /\ local' = UnregisterHost(local, a)
  /\ UNCHANGED <<up, db, reg, loopVars, at, wait, listed, net, ghosts>>

(* The steps that a goroutine takes by itself, its timers included.        *)
Proceed(c) ==
  \/ Announce(c) \/ SendTimeout(c) \/ StartReannounce(c)
  \/ \E closest \in IterativeFindNode : SendAnnounces(c, closest)
  \/ c \in Loops /\ Tick(c)
  \/ /\ c = Client
     /\ JoinReturns \/ LeaveReturns \/ \E closest \in IterativeFindNode : SendLeaves(closest)
  \/ c = Rehydrate /\ RehydrateReturns

Next ==
  \/ Start \/ Exit \/ JoinSwarm \/ LeaveSwarm
  \/ \E c \in Callers : Proceed(c)
  \/ \E l \in Loops : LoopReturns(l)
  \/ \E p \in net : NodeHandles(p) \/ Lose(p)
  \/ \E a \in Others : PeerAnnounces(a) \/ PeerLeaves(a)

Spec == Init /\ [][Next]_vars

(* The goroutines of the DHT node run and their timers fire.  A node is    *)
(* found, and an announcement reaches it, at some of the attempts that are *)
(* made again and again.  Nothing is assumed of clients.                   *)
Fairness ==
  /\ \A c \in Loops \cup {Rehydrate} : WF_vars(Proceed(c))
  /\ \A n \in Nodes :
       /\ SF_vars(\E l \in Loops, closest \in IterativeFindNode :
                    n \in closest /\ SendAnnounces(l, closest))
       /\ SF_vars(\E p \in net : p.node = n /\ p.kind = "announce" /\ NodeHandles(p))

FairSpec == Spec /\ Fairness
-----------------------------------------------------------------------------
(* Announce of rehydrateSwarms is still under way.                         *)
Rehydrating == at[Rehydrate] \in {"announce", "find", "announced"}

(***************************************************************************)
(* With one client at a time, a swarm whose join_swarm was answered and    *)
(* that nobody left stays joined: while the gateway runs, it is in its own *)
(* registry and a goroutine announces it again, or the one that            *)
(* rehydrateSwarms started will, unless the last restart could not read    *)
(* the swarms; and across restarts its row is kept, for a later one.       *)
(***************************************************************************)
JoinedStaysAnnounced ==
  joined # "no" =>
    /\ up /\ joined # "dormant" => Rehydrating \/ (announces # "none" /\ Me \in local)
    /\ joined # "unsaved" => db

(***************************************************************************)
(* The goroutines that announce again are never more than one that is not  *)
(* cancelled, and announces holds its cancel function, so that Leave can   *)
(* reach it: whatever clients, ticks and rehydrateSwarms start at once.    *)
(***************************************************************************)
OneReannouncer ==
  {l \in Loops : at[l] # "idle"} \ cancelled = {announces} \ {"none"}

(***************************************************************************)
(* A joined swarm gets listed: although announcements are lost and the     *)
(* gateway restarts, each node comes to list it, unless the swarm is left  *)
(* or the gateway stopped, or the last restart could not read the swarms.  *)
(***************************************************************************)
JoinedGetsListed ==
  \A n \in Nodes :
    joined \in {"saved", "unsaved"} ~> (listed[n] \/ joined = "no" \/ ~up)
=============================================================================
