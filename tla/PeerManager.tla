---------------------------- MODULE PeerManager ----------------------------
(***************************************************************************)
(* The PeerManager of a gateway: the connections it accepts and dials, the *)
(* maps conns and sessions in which it finds them by the key of the peer,  *)
(* BroadcastHave, and Close.                                               *)
(*                                                                         *)
(* The two maps are always changed together under mu, so they are one      *)
(* variable, table.  A peer may have several connections at once: both     *)
(* gateways dial when they discover each other.  What happens in a session *)
(* is in Replication; here it runs until its context is cancelled, its     *)
(* connection is closed, or the peer or a deadline ends it.                *)
(***************************************************************************)
EXTENDS Naturals, FiniteSets

CONSTANTS
  Incoming,   \* connections of peers to this gateway
  Outgoing,   \* connections that DialPeer makes
  Peers,      \* the keys of peers
  PeerOf      \* PeerOf[c]: the key that the handshake of c proves

Conns == Incoming \cup Outgoing

ASSUME PeerAssumption ==
  /\ IsFiniteSet(Conns)
  /\ Incoming \cap Outgoing = {}
  /\ PeerOf \in [Conns -> Peers]
  /\ "none" \notin Conns

VARIABLES
  at,         \* at[c]: where the goroutine of connection c is
  open,       \* open[c]: nobody has closed this end of c
  table,      \* table[p]: the connection of p in conns and sessions
  mu,         \* who holds PeerManager.mu: free, close or have
  todo,       \* the connections that the holder has not come to
  accepting,  \* the accept loop runs
  listening,  \* the listener is open
  cancelled,  \* the contexts that are cancelled
  wg,         \* the count of PeerManager.wg
  closer,     \* where Close is
  told,       \* history: the sessions that BroadcastHave notified
  overlapped, \* history: connections registered while another of its peer was
  late        \* history: connections registered after Close went through them

conns   == <<at, open, table>>
lock    == <<mu, todo>>
control == <<accepting, listening, cancelled, wg, closer>>
history == <<told, overlapped, late>>
vars    == <<conns, lock, control, history>>

-----------------------------------------------------------------------------
(* A goroutine that handles a connection is before the end of the          *)
(* handshake, before it registers, in session.Run, before the deferred     *)
(* delete, and before the deferred Close calls.                            *)
Places == {"none", "dialing", "handshake", "register", "running", "deregister", "closing", "done"}

Registered(c) == at[c] \in {"running", "deregister"}

(* The contexts: that of main, given to DialPeer and StartListener, and    *)
(* the one that StartListener derives from it for incoming connections.    *)
Contexts == {"main", "listener"}

Context(c) == IF c \in Incoming THEN "listener" ELSE "main"

Counted == {c \in Outgoing : at[c] \notin {"none", "dialing", "done"}}

PeerTypeOK ==
  /\ at \in [Conns -> Places]
  /\ open \in [Conns -> BOOLEAN]
  /\ table \in [Peers -> Conns \cup {"none"}]
  /\ \A p \in Peers : table[p] # "none" => PeerOf[table[p]] = p
  /\ mu \in {"free", "close", "have"}
  /\ todo \subseteq Conns
  /\ mu = "free" => todo = {}
  /\ accepting \in BOOLEAN /\ listening \in BOOLEAN
  /\ cancelled \subseteq Contexts
  /\ wg = Cardinality(Counted) + (IF accepting THEN 1 ELSE 0)
  /\ closer \in {"idle", "listener", "lock", "sweep", "wait", "returned"}
  /\ {told, overlapped, late} \subseteq SUBSET Conns

(* StartListener has returned.                                             *)
Init ==
  /\ at = [c \in Conns |-> "none"]
  /\ open = [c \in Conns |-> TRUE]
  /\ table = [p \in Peers |-> "none"]
  /\ mu = "free"
  /\ todo = {}
  /\ accepting = TRUE
  /\ listening = TRUE
  /\ cancelled = {}
  /\ wg = 1
  /\ closer = "idle"
  /\ told = {} /\ overlapped = {} /\ late = {}

Go(c, place) == at' = [at EXCEPT ![c] = place]

Listed == {table[p] : p \in Peers} \ {"none"}

-----------------------------------------------------------------------------
(* The accept loop takes a connection and starts its goroutine, which wg   *)
(* does not count.  A connection that was queued may be taken although the *)
(* listener is closed.                                                     *)
Accept(c) ==
  /\ accepting
  /\ c \in Incoming
  /\ at[c] = "none"
  /\ Go(c, "handshake")
  /\ UNCHANGED <<open, table, lock, control, history>>

(* Accept fails: the loop ends if the context is cancelled, and else tries *)
(* again.                                                                  *)
AcceptFails ==
  /\ accepting
  /\ ~listening
  /\ "listener" \in cancelled
  /\ accepting' = FALSE
  /\ wg' = wg - 1
  /\ UNCHANGED <<conns, lock, listening, cancelled, closer, history>>

DialPeer(c) ==
  /\ c \in Outgoing
  /\ at[c] = "none"
  /\ Go(c, "dialing")
  /\ UNCHANGED <<open, table, lock, control, history>>

(* The dial fails or times out, and the mux is stopped.                    *)
DialFails(c) ==
  /\ at[c] = "dialing"
  /\ Go(c, "done")
  /\ open' = [open EXCEPT ![c] = FALSE]
  /\ UNCHANGED <<table, lock, control, history>>

(* Mutant: the goroutine is not counted.                                   *)
DialReturnsUncounted(c) ==
  /\ at[c] = "dialing"
  /\ Go(c, "handshake")
  /\ UNCHANGED <<open, table, lock, control, history>>

(* wg.Add, then the goroutine starts.                                      *)
DialReturns(c) ==
  /\ at[c] = "dialing"
  /\ Go(c, "handshake")
  /\ wg' = wg + 1
  /\ UNCHANGED <<open, table, lock, accepting, listening, cancelled, closer, history>>

(* NewSecureConnection, for which no deadline is set.                      *)
HandshakeReturns(c) ==
  /\ at[c] = "handshake"
  /\ Go(c, "register")
  /\ UNCHANGED <<open, table, lock, control, history>>

HandshakeFails(c) ==
  /\ at[c] = "handshake"
  /\ Go(c, "closing")
  /\ UNCHANGED <<open, table, lock, control, history>>

(* Mutant: only outgoing connections are entered.                          *)
RegisterOutgoing(c) ==
  /\ at[c] = "register"
  /\ mu = "free"
  /\ table' = [table EXCEPT ![PeerOf[c]] = IF c \in Outgoing THEN c ELSE @]
  /\ LET others == {d \in Conns \ {c} : PeerOf[d] = PeerOf[c] /\ Registered(d)} IN
       overlapped' = overlapped \cup others \cup (IF others = {} THEN {} ELSE {c})
  /\ late' = IF closer \in {"wait", "returned"} THEN late \cup {c} ELSE late
  /\ Go(c, "running")
  /\ UNCHANGED <<open, lock, control, told>>

(* The connection and its session are entered under the key of the peer,   *)
(* in place of another connection of the same peer.                        *)
Register(c) ==
  /\ at[c] = "register"
  /\ mu = "free"
  /\ table' = [table EXCEPT ![PeerOf[c]] = c]
  /\ LET others == {d \in Conns \ {c} : PeerOf[d] = PeerOf[c] /\ Registered(d)} IN
       overlapped' = overlapped \cup others \cup (IF others = {} THEN {} ELSE {c})
  /\ late' = IF closer \in {"wait", "returned"} THEN late \cup {c} ELSE late
  /\ Go(c, "running")
  /\ UNCHANGED <<open, lock, control, told>>

(* session.Run returns.                                                    *)
RunReturns(c) ==
  /\ at[c] = "running"
  /\ Go(c, "deregister")
  /\ UNCHANGED <<open, table, lock, control, history>>

(* Mutant: the goroutine forgets to delete its entries.                    *)
DeregisterNothing(c) ==
  /\ at[c] = "deregister"
  /\ mu = "free"
  /\ Go(c, "closing")
  /\ UNCHANGED <<open, table, lock, control, history>>

(* The deferred delete takes out what is under the key, whichever          *)
(* connection of the peer it is.                                           *)
Deregister(c) ==
  /\ at[c] = "deregister"
  /\ mu = "free"
  /\ table' = [table EXCEPT ![PeerOf[c]] = "none"]
  /\ Go(c, "closing")
  /\ UNCHANGED <<open, lock, control, history>>

(* The deferred Close calls and, for an outgoing connection, wg.Done.      *)
CloseConn(c) ==
  /\ at[c] = "closing"
  /\ open' = [open EXCEPT ![c] = FALSE]
  /\ wg' = IF c \in Outgoing THEN wg - 1 ELSE wg
  /\ Go(c, "done")
  /\ UNCHANGED <<table, lock, accepting, listening, cancelled, closer, history>>

-----------------------------------------------------------------------------
(* BroadcastHave holds mu while it notifies one session after the other;   *)
(* an error is logged.                                                     *)
BroadcastHave ==
  /\ mu = "free"
  /\ mu' = "have"
  /\ todo' = Listed
  /\ told' = {}
  /\ UNCHANGED <<conns, control, overlapped, late>>

NotifyHave(c) ==
  /\ mu = "have"
  /\ c \in todo
  /\ todo' = todo \ {c}
  /\ told' = told \cup {c}
  /\ UNCHANGED <<conns, mu, control, overlapped, late>>

BroadcastReturns ==
  /\ mu = "have"
  /\ todo = {}
  /\ mu' = "free"
  /\ UNCHANGED <<conns, todo, control, history>>

-----------------------------------------------------------------------------
(* main cancels its context.                                               *)
Cancel ==
  /\ cancelled' = Contexts
  /\ cancelled # Contexts
  /\ UNCHANGED <<conns, lock, accepting, listening, wg, closer, history>>

Close ==
  /\ closer = "idle"
  /\ cancelled' = cancelled \cup {"listener"}
  /\ closer' = "listener"
  /\ UNCHANGED <<conns, lock, accepting, listening, wg, history>>

(* Mutant: the listener stays open.                                        *)
CloseListenerNot ==
  /\ closer = "listener"
  /\ closer' = "lock"
  /\ UNCHANGED <<conns, lock, accepting, listening, cancelled, wg, history>>

CloseListener ==
  /\ closer = "listener"
  /\ listening' = FALSE
  /\ closer' = "lock"
  /\ UNCHANGED <<conns, lock, accepting, cancelled, wg, history>>

CloseLock ==
  /\ closer = "lock"
  /\ mu = "free"
  /\ mu' = "close"
  /\ todo' = Listed
  /\ closer' = "sweep"
  /\ UNCHANGED <<conns, accepting, listening, cancelled, wg, history>>

CloseEach(c) ==
  /\ closer = "sweep"
  /\ c \in todo
  /\ open' = [open EXCEPT ![c] = FALSE]
  /\ todo' = todo \ {c}
  /\ UNCHANGED <<at, table, mu, control, history>>

CloseUnlock ==
  /\ closer = "sweep"
  /\ todo = {}
  /\ mu' = "free"
  /\ closer' = "wait"
  /\ UNCHANGED <<conns, todo, accepting, listening, cancelled, wg, history>>

(* Mutant: Close does not wait.                                            *)
CloseReturnsAtOnce ==
  /\ closer = "wait"
  /\ closer' = "returned"
  /\ UNCHANGED <<conns, lock, accepting, listening, cancelled, wg, history>>

(* wg.Wait returns.                                                        *)
CloseReturn ==
  /\ closer = "wait"
  /\ wg = 0
  /\ closer' = "returned"
  /\ UNCHANGED <<conns, lock, accepting, listening, cancelled, wg, history>>

Handle(c) ==
  \/ Accept(c) \/ DialPeer(c) \/ DialFails(c) \/ DialReturns(c) \/ HandshakeReturns(c)
  \/ HandshakeFails(c) \/ Register(c) \/ RunReturns(c) \/ Deregister(c) \/ CloseConn(c)

CloseStep ==
  CloseListener \/ CloseLock \/ CloseUnlock \/ CloseReturn \/ \E c \in todo : CloseEach(c)

HaveStep == BroadcastReturns \/ \E c \in todo : NotifyHave(c)

Next ==
  \/ \E c \in Conns : Handle(c)
  \/ AcceptFails \/ BroadcastHave \/ HaveStep \/ Cancel \/ Close \/ CloseStep

Spec == Init /\ [][Next]_vars

(* A session that was told to end, by its context or by the end of its     *)
(* connection.                                                             *)
Stopped(c) == Context(c) \in cancelled \/ ~open[c]

(* The goroutines run; a Mutex does not starve a goroutine that waits.     *)
(* Nothing is assumed of peers: a handshake may last, and a session that   *)
(* nobody told to end may go on for ever.                                  *)
Fairness ==
  /\ SF_vars(CloseStep)
  /\ WF_vars(HaveStep)
  /\ WF_vars(AcceptFails)
  /\ \A c \in Conns :
       /\ SF_vars(Register(c) \/ Deregister(c))
       /\ WF_vars(CloseConn(c) \/ (Stopped(c) /\ RunReturns(c)))

FairSpec == Spec /\ Fairness

-----------------------------------------------------------------------------
(***************************************************************************)
(* The maps hold no session that has ended: an entry is a connection whose *)
(* goroutine is between its registration and its deferred delete, although *)
(* the goroutines of one peer's connections overwrite and delete each      *)
(* other's entries.                                                        *)
(***************************************************************************)
EntriesAreLive == \A c \in Listed : Registered(c)

(***************************************************************************)
(* BroadcastHave reaches the active sessions: when it returns, it has      *)
(* notified every running session, except of a peer that had another       *)
(* connection at the same time.                                            *)
(***************************************************************************)
HaveReachesSessions ==
  [][mu = "have" /\ mu' = "free" =>
       \A c \in Conns : at[c] = "running" => c \in told \cup overlapped]_vars

(***************************************************************************)
(* Close cleans up: when it returns, the accept loop and every outgoing    *)
(* connection whose dial has returned are over, and so is every incoming   *)
(* one or it is closed, except when its peer had another connection at the *)
(* same time or its handshake ended after Close had gone through the map.  *)
(***************************************************************************)
CloseCleansUp ==
  [][closer = "wait" /\ closer' = "returned" =>
       /\ ~accepting
       /\ Counted = {}
       /\ \A c \in Incoming : Registered(c) /\ open[c] => c \in overlapped \cup late]_vars

KeepsOpen(c) == at[c] \in {"dialing", "handshake"} \/ (at[c] = "running" /\ ~Stopped(c))

(***************************************************************************)
(* Close returns, although sessions, BroadcastHave and Close wait for each *)
(* other's lock, unless a peer keeps an outgoing connection that Close did *)
(* not close in its handshake or in its session for ever.                  *)
(***************************************************************************)
CloseReturns ==
  (\A c \in Outgoing : []<>~KeepsOpen(c)) => (closer # "idle" ~> closer = "returned")
=============================================================================
