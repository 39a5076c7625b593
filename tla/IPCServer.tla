----------------------------- MODULE IPCServer -----------------------------
(***************************************************************************)
(* The IPC server of a gateway: HandleClient for several clients, and the  *)
(* ClientRegistry through which a chat message is announced to all of them.*)
(*                                                                         *)
(* Broadcast holds the lock of the registry while it writes to one client  *)
(* after the other.  A connection buffers OutCap messages; a Write to a    *)
(* full one waits until the client reads or disconnects, since no deadline *)
(* is set.  Encode is one Write, so messages do not mix.  What a command   *)
(* does to the feed and to the swarm is in Feed and Swarm: here it is      *)
(* answered, and an append may announce a message first.  Appenders are    *)
(* the goroutines outside the server that announce messages: replication   *)
(* sessions and agentic replies.                                           *)
(***************************************************************************)
EXTENDS Naturals, FiniteSets, Sequences

CONSTANTS
  Clients,       \* connections to the socket
  Appenders,     \* goroutines that call BroadcastChatMessage
  OutCap,        \* how many messages a connection buffers
  Whitelist,     \* whether only clients with a known key are served
  Sends,         \* bound: Sends[c][i] is the set of commands that c may send
                 \* as its i-th
  MaxChats       \* bound: messages announced

Tasks == Clients \cup Appenders

(* Commands other than append_block are answered alike, and a key that is  *)
(* not on the whitelist is as good as none.                                *)
Commands == [append : BOOLEAN, listed : BOOLEAN]

ASSUME IPCAssumption ==
  /\ {OutCap, MaxChats} \subseteq Nat /\ OutCap > 0
  /\ Sends \in [Clients -> Seq(SUBSET Commands)]
  /\ Whitelist \in BOOLEAN
  /\ "free" \notin Tasks
  /\ Clients \cap Appenders = {}

VARIABLES
  cancelled,  \* the context of the gateway is cancelled
  peer,       \* peer[c]: what the client does with its end: none, open or gone
  at,         \* at[t]: where HandleClient, or the Appender, is
  authenticated, \* authenticated[c]
  mu,         \* who holds ClientRegistry.mu
  clients,    \* ClientRegistry.clients
  todo,       \* the clients to whom Broadcast has not written
  inbox,      \* inbox[c]: commands sent and not read
  outbox,     \* outbox[c]: messages written and not read
  chats,      \* history: how many messages were announced
  since,      \* history: since[c]: how many were when c was registered
  served,     \* history: served[c]: how many were when c was authenticated
  stream,     \* history: stream[c]: what was written to a connected client c
  sent,       \* history: sent[c]: how many commands c sent
  chat        \* history: chat[t]: the message of t that is being announced, or 0

registry == <<mu, clients, todo>>
queues   == <<inbox, outbox>>
history  == <<chats, since, served, stream, sent, chat>>
vars     == <<cancelled, peer, at, authenticated, registry, queues, history>>

-----------------------------------------------------------------------------
(* Each place but none, writing and done is before the step of             *)
(* HandleClient, of its deferred calls or of Broadcast that is named so;   *)
(* writing is in the loop of Broadcast.                                    *)
Places == {"none", "register", "loop", "decode", "reject", "broadcast", "writing", "answer",
           "unregister", "done"}

(* A message: the announcement of a chat message, or an answer.  The       *)
(* answer to an append names the message that it announced, if any.        *)
Notice(n)    == [type |-> "notice", chat |-> n]
Response(n)  == [type |-> "response", chat |-> n]
Rejection    == [type |-> "rejection", chat |-> 0]
Messages     == [type : {"notice", "response", "rejection"}, chat : 0 .. MaxChats]

IPCTypeOK ==
  /\ cancelled \in BOOLEAN
  /\ peer \in [Clients -> {"none", "open", "gone"}]
  /\ at \in [Tasks -> Places]
  /\ authenticated \in [Clients -> BOOLEAN]
  /\ mu \in Tasks \cup {"free"}
  /\ clients = {c \in Clients : at[c] \in Places \ {"none", "register", "done"}}
  /\ todo \subseteq clients
  /\ mu # "free" <=> \E t \in Tasks : at[t] = "writing"
  /\ mu # "free" => at[mu] = "writing"
  /\ inbox \in [Clients -> Seq(Commands)]
  /\ outbox \in [Clients -> Seq(Messages)]
  /\ \A c \in Clients : Len(outbox[c]) <= OutCap
  /\ chats \in 0 .. MaxChats
  /\ since \in [Clients -> 0 .. MaxChats]
  /\ served \in [Clients -> 0 .. MaxChats]
  /\ stream \in [Clients -> Seq(Messages)]
  /\ sent \in [Clients -> Nat]
  /\ \A c \in Clients : sent[c] <= Len(Sends[c])
  /\ chat \in [Tasks -> 0 .. MaxChats]

Init ==
  /\ cancelled = FALSE
  /\ peer = [c \in Clients |-> "none"]
  /\ at = [t \in Tasks |-> "none"]
  /\ authenticated = [c \in Clients |-> FALSE]
  /\ mu = "free"
  /\ clients = {}
  /\ todo = {}
  /\ inbox = [c \in Clients |-> << >>]
  /\ outbox = [c \in Clients |-> << >>]
  /\ chats = 0
  /\ since = [c \in Clients |-> 0]
  /\ served = [c \in Clients |-> 0]
  /\ stream = [c \in Clients |-> << >>]
  /\ sent = [c \in Clients |-> 0]
  /\ chat = [t \in Tasks |-> 0]

Go(t, place) == at' = [at EXCEPT ![t] = place]

-----------------------------------------------------------------------------
(* The client's end.  A client that is gone has closed its socket: what it *)
(* did not read is lost, and a Write to it fails.                          *)
Connect(c) ==
  /\ peer[c] = "none"
  /\ ~cancelled
  /\ peer' = [peer EXCEPT ![c] = "open"]
  /\ Go(c, "register")
  /\ UNCHANGED <<cancelled, authenticated, registry, queues, history>>

Send(c) ==
  /\ peer[c] = "open"
  /\ at[c] # "done"
  /\ sent[c] < Len(Sends[c])
  /\ sent' = [sent EXCEPT ![c] = @ + 1]
  /\ \E cmd \in Sends[c][sent[c] + 1] : inbox' = [inbox EXCEPT ![c] = Append(@, cmd)]
  /\ UNCHANGED <<cancelled, peer, at, authenticated, registry, outbox, chats, since, served, stream, chat>>

Receive(c) ==
  /\ peer[c] = "open"
  /\ outbox[c] # << >>
  /\ outbox' = [outbox EXCEPT ![c] = Tail(@)]
  /\ UNCHANGED <<cancelled, peer, at, authenticated, registry, inbox, history>>

Disconnect(c) ==
  /\ peer[c] = "open"
  /\ peer' = [peer EXCEPT ![c] = "gone"]
  /\ outbox' = [outbox EXCEPT ![c] = << >>]
  /\ stream' = [stream EXCEPT ![c] = << >>]
  /\ UNCHANGED <<cancelled, at, authenticated, registry, inbox, chats, since, served, sent, chat>>

(* The signal handler of main cancels the context.                         *)
Cancel ==
  /\ ~cancelled
  /\ cancelled' = TRUE
  /\ UNCHANGED <<peer, at, authenticated, registry, queues, history>>

-----------------------------------------------------------------------------
(* Encode: one message into the buffer of the connection, or an error when *)
(* the client is gone.                                                     *)
CanWrite(c) == peer[c] = "gone" \/ Len(outbox[c]) < OutCap

Encode(c, m) ==
  /\ CanWrite(c)
  /\ outbox' = IF peer[c] = "gone" THEN outbox ELSE [outbox EXCEPT ![c] = Append(@, m)]
  /\ stream' = IF peer[c] = "gone" THEN stream ELSE [stream EXCEPT ![c] = Append(@, m)]

Register(c) ==
  /\ at[c] = "register"
  /\ mu = "free"
  /\ clients' = clients \cup {c}
  /\ authenticated' = [authenticated EXCEPT ![c] = ~Whitelist]
  /\ since' = [since EXCEPT ![c] = chats]
  /\ served' = [served EXCEPT ![c] = chats]
  /\ Go(c, "loop")
  /\ UNCHANGED <<cancelled, peer, mu, todo, queues, chats, stream, sent, chat>>

(* The key of a command authenticates the client for the commands after it *)
(* as well.                                                                *)
Authorized(c, cmd) == authenticated[c] \/ cmd.listed

Authenticate(c, cmd) ==
  /\ authenticated' = [authenticated EXCEPT ![c] = Authorized(c, cmd)]
  /\ served' = IF authenticated[c] THEN served ELSE [served EXCEPT ![c] = chats]

MayChat == chats + Cardinality({t \in Tasks : at[t] = "broadcast"}) < MaxChats

(* An append that the storage took and whose data is a chat message is     *)
(* announced; any other command goes to its answer.                        *)
Dispatch(c, cmd) ==
  \/ cmd.append /\ MayChat /\ Go(c, "broadcast")
  \/ Go(c, "answer")

(* The loop of HandleClient asks the context before it reads: a handler    *)
(* that waits for a command notices the end only after the next one.       *)
Loop(c) ==
  /\ at[c] = "loop"
  /\ Go(c, IF cancelled THEN "unregister" ELSE "decode")
  /\ UNCHANGED <<cancelled, peer, authenticated, registry, queues, history>>

(* Mutant: a command of a client that is not authenticated is skipped.     *)
DecodeSkips(c) ==
  /\ at[c] = "decode"
  /\ inbox[c] # << >>
  /\ LET cmd == Head(inbox[c]) IN
       /\ Authenticate(c, cmd)
       /\ IF Authorized(c, cmd) THEN Dispatch(c, cmd) ELSE Go(c, "loop")
  /\ inbox' = [inbox EXCEPT ![c] = Tail(@)]
  /\ chat' = [chat EXCEPT ![c] = 0]
  /\ UNCHANGED <<cancelled, peer, registry, outbox, chats, since, stream, sent>>

Decode(c) ==
  /\ at[c] = "decode"
  /\ inbox[c] # << >>
  /\ LET cmd == Head(inbox[c]) IN
       /\ Authenticate(c, cmd)
       /\ IF Authorized(c, cmd) THEN Dispatch(c, cmd) ELSE Go(c, "reject")
  /\ inbox' = [inbox EXCEPT ![c] = Tail(@)]
  /\ chat' = [chat EXCEPT ![c] = 0]
  /\ UNCHANGED <<cancelled, peer, registry, outbox, chats, since, stream, sent>>

(* Mutant: the handler returns without its deferred Unregister.            *)
DecodeFailsRegistered(c) ==
  /\ at[c] = "decode"
  /\ inbox[c] # << >> \/ peer[c] = "gone"
  /\ Go(c, "done")
  /\ UNCHANGED <<cancelled, peer, authenticated, registry, queues, history>>

(* Mutant: the handler goes on when Decode fails.                          *)
DecodeFailsContinues(c) ==
  /\ at[c] = "decode"
  /\ inbox[c] # << >> \/ peer[c] = "gone"
  /\ Go(c, "loop")
  /\ UNCHANGED <<cancelled, peer, authenticated, registry, queues, history>>

(* What was read is no JSON, or the client is gone.                        *)
DecodeFails(c) ==
  /\ at[c] = "decode"
  /\ inbox[c] # << >> \/ peer[c] = "gone"
  /\ Go(c, "unregister")
  /\ UNCHANGED <<cancelled, peer, authenticated, registry, queues, history>>

Reject(c) ==
  /\ at[c] = "reject"
  /\ Encode(c, Rejection)
  /\ Go(c, "unregister")
  /\ UNCHANGED <<cancelled, peer, authenticated, registry, inbox, chats, since, served, sent, chat>>

(* Mutant: an append is answered before its message is announced.          *)
AnswerFirst(c) ==
  /\ \/ /\ at[c] = "broadcast" /\ chat[c] = 0
        /\ Encode(c, Response(chats + 1))
        /\ chat' = [chat EXCEPT ![c] = chats + 1]
        /\ at' = at
     \/ /\ at[c] = "answer"
        /\ Encode(c, Response(chat[c]))
        /\ chat' = chat
        /\ Go(c, IF peer[c] = "gone" THEN "unregister" ELSE "loop")
  /\ UNCHANGED <<cancelled, peer, authenticated, registry, inbox, chats, since, served, sent>>

Answer(c) ==
  /\ at[c] = "answer"
  /\ Encode(c, Response(chat[c]))
  /\ Go(c, IF peer[c] = "gone" THEN "unregister" ELSE "loop")
  /\ UNCHANGED <<cancelled, peer, authenticated, registry, inbox, chats, since, served, sent, chat>>

(* The deferred calls: Unregister, then conn.Close.                        *)
Unregister(c) ==
  /\ at[c] = "unregister"
  /\ mu = "free"
  /\ clients' = clients \ {c}
  /\ Go(c, "done")
  /\ inbox' = [inbox EXCEPT ![c] = << >>]
  /\ chat' = [chat EXCEPT ![c] = 0]
  /\ UNCHANGED <<cancelled, peer, authenticated, mu, todo, outbox, chats, since, served, stream, sent>>

-----------------------------------------------------------------------------
(* A session or an agentic reply has appended a chat message.              *)
AppenderAppends(t) ==
  /\ at[t] = "none"
  /\ MayChat
  /\ Go(t, "broadcast")
  /\ UNCHANGED <<cancelled, peer, authenticated, registry, queues, history>>

(* Broadcast takes the lock.                                               *)
BroadcastLock(t) ==
  /\ at[t] = "broadcast"
  /\ mu = "free"
  /\ mu' = t
  /\ todo' = clients
  /\ chats' = chats + 1
  /\ chat' = [chat EXCEPT ![t] = chats + 1]
  /\ Go(t, "writing")
  /\ UNCHANGED <<cancelled, peer, authenticated, clients, queues, since, served, stream, sent>>

(* Mutant: Broadcast returns at the first error.                           *)
BroadcastWriteStops(t, c) ==
  /\ at[t] = "writing"
  /\ c \in todo
  /\ Encode(c, Notice(chat[t]))
  /\ todo' = IF peer[c] = "gone" THEN {} ELSE todo \ {c}
  /\ UNCHANGED <<cancelled, peer, at, authenticated, mu, clients, inbox, chats, since, served, sent, chat>>

(* One iteration: an error is logged, and the loop goes on.                *)
BroadcastWrite(t, c) ==
  /\ at[t] = "writing"
  /\ c \in todo
  /\ Encode(c, Notice(chat[t]))
  /\ todo' = todo \ {c}
  /\ UNCHANGED <<cancelled, peer, at, authenticated, mu, clients, inbox, chats, since, served, sent, chat>>

BroadcastUnlock(t) ==
  /\ at[t] = "writing"
  /\ todo = {}
  /\ mu' = "free"
  /\ Go(t, IF t \in Clients THEN "answer" ELSE "none")
  /\ chat' = IF t \in Clients THEN chat ELSE [chat EXCEPT ![t] = 0]
  /\ UNCHANGED <<cancelled, peer, authenticated, clients, todo, queues, chats, since, served, stream, sent>>

Broadcast(t) == BroadcastLock(t) \/ BroadcastUnlock(t) \/ \E c \in todo : BroadcastWrite(t, c)

Handle(c) ==
  \/ Register(c) \/ Loop(c) \/ Decode(c) \/ DecodeFails(c) \/ Reject(c) \/ Answer(c)
  \/ Unregister(c)

Next ==
  \/ Cancel
  \/ \E c \in Clients :
       \/ Connect(c) \/ Send(c) \/ Receive(c) \/ Disconnect(c) \/ Handle(c)
  \/ \E t \in Tasks : Broadcast(t)
  \/ \E t \in Appenders : AppenderAppends(t)

Spec == Init /\ [][Next]_vars

(* The goroutines run, a waiting goroutine gets the mutex, and a client    *)
(* that is connected reads.                                                *)
Fairness ==
  /\ \A c \in Clients : WF_vars(Handle(c) \/ Broadcast(c)) /\ WF_vars(Receive(c))
  /\ \A t \in Appenders : WF_vars(Broadcast(t))

FairSpec == Spec /\ Fairness

-----------------------------------------------------------------------------
(* Where the announcements and the answers are in what c was written.      *)
Notices(c) == {i \in 1 .. Len(stream[c]) : stream[c][i].type = "notice"}

Answers(c) == Cardinality({i \in 1 .. Len(stream[c]) : stream[c][i].type # "notice"})

(***************************************************************************)
(* A connected client that is authenticated is told of every chat message  *)
(* that is announced after that, and no client is told of one from before  *)
(* it was registered: each once and in the order in which all other        *)
(* clients are told, whoever announces, comes and goes at the same time.   *)
(***************************************************************************)
NoticesAreComplete ==
  \A c \in Clients :
    LET told == {stream[c][i].chat : i \in Notices(c)} IN
      /\ told \subseteq since[c] + 1 .. chats
      /\ \A i, j \in Notices(c) : i < j => stream[c][i].chat < stream[c][j].chat
      /\ authenticated[c] /\ c \in clients /\ peer[c] = "open" =>
           served[c] + 1 .. chats - (IF c \in todo THEN 1 ELSE 0) \subseteq told

(***************************************************************************)
(* A client whose append_block announced a chat message reads that         *)
(* announcement before the answer to the command.                          *)
(***************************************************************************)
OwnNoticeFirst ==
  \A c \in Clients : \A i \in 1 .. Len(stream[c]) :
    LET m == stream[c][i] IN
      m.type = "response" /\ m.chat > 0 => \E j \in 1 .. i - 1 : stream[c][j] = Notice(m.chat)

(***************************************************************************)
(* Every command is answered, unless the connection ends: although         *)
(* Broadcast writes to all clients under the lock that handlers of other   *)
(* clients wait for, as long as each connected client reads.               *)
(***************************************************************************)
CommandsAreAnswered ==
  \A c \in Clients : Answers(c) < sent[c] ~> Answers(c) = sent[c] \/ at[c] = "done"

(***************************************************************************)
(* A client that disconnects leaves the registry, whatever is being        *)
(* written to it.                                                          *)
(***************************************************************************)
GoneIsForgotten == \A c \in Clients : peer[c] = "gone" ~> at[c] = "done" /\ c \notin clients
=============================================================================
