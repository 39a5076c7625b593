-------------------------- MODULE IPCServerProofs --------------------------
(* Proofs about module IPCServer, for every number of clients, of other    *)
(* announcing goroutines and of messages, and every buffer size.           *)
EXTENDS IPCServer, FiniteSetTheorems, SequenceTheorems, TLAPS

(* Only the goroutine that holds ClientRegistry.mu is in the loop of       *)
(* Broadcast, and it announces the latest message.                         *)
Exclusive ==
  /\ \A t \in Tasks : at[t] = "writing" <=> mu = t
  /\ \A t \in Tasks : at[t] = "writing" => chat[t] = chats
  /\ mu = "free" => todo = {}

(* The goroutines that are about to announce, for whom there is room.      *)
Announcing == {t \in Tasks : at[t] = "broadcast"}

RoomForChats == IsFiniteSet(Announcing) /\ chats + Cardinality(Announcing) <= MaxChats

(* A connection that is not registered yet was written nothing, a message  *)
(* that is being announced is newer than the registrations of those who    *)
(* get it, and nobody is authenticated before it is registered.            *)
Newcomers ==
  \A c \in Clients :
    /\ peer[c] = "none" <=> at[c] = "none"
    /\ at[c] \in {"none", "register"} => stream[c] = << >>
    /\ since[c] <= chats
    /\ c \in todo => since[c] < chats
    /\ since[c] <= served[c]

(* A client whose append is about to be answered was told of its message,  *)
(* and already while Broadcast writes to the others after it.              *)
OwnTold ==
  \A c \in Clients :
    /\ peer[c] # "gone" /\ chat[c] > 0
    /\ at[c] = "answer" \/ (at[c] = "writing" /\ c \notin todo)
    => \E j \in 1 .. Len(stream[c]) : stream[c][j] = Notice(chat[c])

LockInv == IPCTypeOK /\ Exclusive /\ RoomForChats /\ Newcomers

-----------------------------------------------------------------------------
(* Types *)

USE DEF registry, queues, history

(* The places of a handler that is registered.                             *)
Registered == Places \ {"none", "register", "done"}

(* What the constants are.                                                 *)
LEMMA TaskFacts ==
  /\ Clients \subseteq Tasks /\ Appenders \subseteq Tasks /\ "free" \notin Tasks
  /\ \A t \in Tasks : t \in Clients \/ t \in Appenders
  /\ \A t \in Appenders : t \notin Clients
  /\ OutCap \in Nat /\ OutCap > 0 /\ MaxChats \in Nat
  /\ Sends \in [Clients -> Seq(SUBSET Commands)]
  /\ Whitelist \in BOOLEAN
  BY IPCAssumption DEF Tasks

(* Messages are messages.                                                  *)
LEMMA MessageTypes ==
  /\ Rejection \in Messages
  /\ \A n \in 0 .. MaxChats : Notice(n) \in Messages /\ Response(n) \in Messages
<1>1. 0 \in 0 .. MaxChats
  BY TaskFacts
<1> QED
  BY <1>1 DEF Rejection, Notice, Response, Messages

(* Encode writes to one connection, unless its client is gone.             *)
LEMMA EncodeStep ==
  ASSUME IPCTypeOK, NEW c \in Clients, NEW m \in Messages, Encode(c, m)
  PROVE  /\ outbox' \in [Clients -> Seq(Messages)] /\ \A d \in Clients : Len(outbox'[d]) <= OutCap
         /\ stream' \in [Clients -> Seq(Messages)]
         /\ \A d \in Clients : d # c => stream'[d] = stream[d]
         /\ stream'[c] = IF peer[c] = "gone" THEN stream[c] ELSE Append(stream[c], m)
<1>a. /\ outbox \in [Clients -> Seq(Messages)] /\ stream \in [Clients -> Seq(Messages)]
      /\ \A d \in Clients : Len(outbox[d]) <= OutCap
  BY DEF IPCTypeOK
<1>1. CASE peer[c] = "gone"
  BY <1>1, <1>a DEF Encode
<1>2. CASE peer[c] # "gone"
  <2>1. /\ outbox' = [outbox EXCEPT ![c] = Append(outbox[c], m)]
        /\ stream' = [stream EXCEPT ![c] = Append(stream[c], m)] /\ Len(outbox[c]) < OutCap
    BY <1>2 DEF Encode, CanWrite
  <2>2. /\ Append(outbox[c], m) \in Seq(Messages) /\ Len(Append(outbox[c], m)) = Len(outbox[c]) + 1
        /\ Append(stream[c], m) \in Seq(Messages) /\ Len(outbox[c]) \in Nat
    BY <1>a, AppendProperties, LenProperties
  <2>3. Len(Append(outbox[c], m)) <= OutCap
    BY <2>1, <2>2, TaskFacts
  <2> QED
    BY <1>2, <1>a, <2>1, <2>2, <2>3
<1> QED
  BY <1>1, <1>2

(* A task moves: who is registered follows from where the handlers are.    *)
LEMMA GoStep ==
  ASSUME IPCTypeOK, NEW t \in Tasks, NEW place \in Places, Go(t, place)
  PROVE  /\ at' \in [Tasks -> Places]
         /\ at'[t] = place /\ \A u \in Tasks : u # t => at'[u] = at[u]
         /\ t \in Appenders => {c \in Clients : at'[c] \in Registered} = clients
         /\ (at[t] \in Registered <=> place \in Registered)
              => {c \in Clients : at'[c] \in Registered} = clients
         /\ t \in Clients /\ place \in Registered => {c \in Clients : at'[c] \in Registered} = clients \cup {t}
         /\ t \in Clients /\ place \notin Registered => {c \in Clients : at'[c] \in Registered} = clients \ {t}
<1>1. /\ at \in [Tasks -> Places] /\ at' = [at EXCEPT ![t] = place]
      /\ clients = {c \in Clients : at[c] \in Registered}
  BY DEF IPCTypeOK, Go, Registered
<1>2. at' \in [Tasks -> Places] /\ at'[t] = place /\ \A u \in Tasks : u # t => at'[u] = at[u]
  BY <1>1
<1> QED
  BY <1>1, <1>2, TaskFacts

(* A step of a handler outside Broadcast, and what it does to the shared   *)
(* state.                                                                  *)
HandlerMoves(c, place) ==
  \/ at[c] = "none" /\ place = "register" /\ UNCHANGED <<clients, chat, since>>
  \/ /\ at[c] = "register" /\ place = "loop" /\ mu = "free" /\ clients' = clients \cup {c}
     /\ since' = [since EXCEPT ![c] = chats] /\ UNCHANGED chat
  \/ /\ at[c] = "decode" /\ place \in {"broadcast", "answer", "reject"}
     /\ place = "broadcast" => MayChat
     /\ chat' = [chat EXCEPT ![c] = 0] /\ UNCHANGED <<clients, since>>
  \/ /\ at[c] \in {"loop", "decode", "reject", "answer"} /\ place \in {"decode", "loop", "unregister"}
     /\ UNCHANGED <<clients, chat, since>>
  \/ /\ at[c] = "unregister" /\ place = "done" /\ mu = "free" /\ clients' = clients \ {c}
     /\ chat' = [chat EXCEPT ![c] = 0] /\ UNCHANGED since

(* Which steps move whom: none, a handler, or a goroutine that announces.  *)
LEMMA Moves ==
  ASSUME LockInv, [Next]_vars
  PROVE  \/ UNCHANGED <<at, mu, clients, todo, chats, chat, since>>
         \/ \E c \in Clients, place \in Places :
              Go(c, place) /\ UNCHANGED <<mu, todo, chats>> /\ HandlerMoves(c, place)
         \/ \E t \in Appenders : /\ at[t] = "none" /\ MayChat /\ Go(t, "broadcast")
                                 /\ UNCHANGED <<mu, clients, todo, chats, chat, since>>
         \/ \E t \in Tasks : BroadcastLock(t) \/ BroadcastUnlock(t)
         \/ \E t \in Tasks, c \in todo : BroadcastWrite(t, c)
<1>1. CASE Cancel
  BY <1>1 DEF Cancel
<1>2. ASSUME NEW c \in Clients, Send(c) \/ Receive(c) \/ Disconnect(c)
      PROVE  UNCHANGED <<at, mu, clients, todo, chats, chat, since>>
  BY <1>2 DEF Send, Receive, Disconnect
<1>3. ASSUME NEW c \in Clients, Connect(c) \/ Handle(c)
      PROVE  \E place \in Places :
               Go(c, place) /\ UNCHANGED <<mu, todo, chats>> /\ HandlerMoves(c, place)
  <2>1. CASE Connect(c)
    <3>1. at[c] = "none"
      BY <2>1 DEF Connect, LockInv, Newcomers
    <3> QED
      BY <2>1, <3>1 DEF Connect, HandlerMoves, Places
  <2>2. CASE Register(c)
    BY <2>2 DEF Register, HandlerMoves, Places
  <2>3. CASE Loop(c)
    BY <2>3 DEF Loop, HandlerMoves, Places
  <2>4. CASE Decode(c)
    <3>1. Dispatch(c, Head(inbox[c])) \/ Go(c, "reject")
      BY <2>4 DEF Decode
    <3>2. \E place \in {"broadcast", "answer", "reject"} : Go(c, place) /\ (place = "broadcast" => MayChat)
      BY <3>1 DEF Dispatch
    <3>3. /\ at[c] = "decode" /\ chat' = [chat EXCEPT ![c] = 0]
          /\ UNCHANGED <<mu, todo, chats, clients, since>>
      BY <2>4 DEF Decode
    <3> QED
      BY <3>2, <3>3 DEF HandlerMoves, Places
  <2>5. CASE DecodeFails(c)
    BY <2>5 DEF DecodeFails, HandlerMoves, Places
  <2>6. CASE Reject(c) \/ Answer(c)
    BY <2>6 DEF Reject, Answer, HandlerMoves, Places
  <2>7. CASE Unregister(c)
    BY <2>7 DEF Unregister, HandlerMoves, Places
  <2> QED
    BY <1>3, <2>1, <2>2, <2>3, <2>4, <2>5, <2>6, <2>7 DEF Handle
<1>4. ASSUME NEW t \in Appenders, AppenderAppends(t)
      PROVE  /\ at[t] = "none" /\ MayChat /\ Go(t, "broadcast")
             /\ UNCHANGED <<mu, clients, todo, chats, chat, since>>
  BY <1>4 DEF AppenderAppends
<1>5. CASE UNCHANGED vars
  BY <1>5 DEF vars
<1> QED
  BY <1>1, <1>2, <1>3, <1>4, <1>5 DEF Next, Broadcast

(* The lock keeps its meaning, and Broadcast the rest of its state.        *)
LEMMA ExclusiveStep == LockInv /\ [Next]_vars => Exclusive'
<1> SUFFICES ASSUME LockInv, [Next]_vars PROVE Exclusive'
  OBVIOUS
<1>a. IPCTypeOK /\ Exclusive /\ at \in [Tasks -> Places] /\ chat \in [Tasks -> 0 .. MaxChats]
  BY DEF LockInv, IPCTypeOK
<1>1. CASE UNCHANGED <<at, mu, clients, todo, chats, chat, since>>
  BY <1>1, <1>a DEF Exclusive
<1>2. ASSUME NEW c \in Clients, NEW place \in Places,
             Go(c, place), UNCHANGED <<mu, todo, chats>>, HandlerMoves(c, place)
      PROVE  Exclusive'
  <2>1. at[c] # "writing" /\ place # "writing"
    BY <1>2 DEF HandlerMoves
  <2>2. /\ at'[c] = place /\ \A u \in Tasks : u # c => at'[u] = at[u]
        /\ c \in Tasks
    BY <1>a, <1>2, GoStep, TaskFacts
  <2>3. \A u \in Tasks : u # c => chat'[u] = chat[u]
    BY <1>a, <1>2, <2>2 DEF HandlerMoves
  <2> QED
    BY <1>a, <1>2, <2>1, <2>2, <2>3 DEF Exclusive
<1>3. ASSUME NEW t \in Appenders, at[t] = "none", Go(t, "broadcast"),
             UNCHANGED <<mu, clients, todo, chats, chat, since>>
      PROVE  Exclusive'
  <2>1. /\ at'[t] = "broadcast" /\ \A u \in Tasks : u # t => at'[u] = at[u]
        /\ t \in Tasks
    BY <1>a, <1>3, TaskFacts DEF Go, Places
  <2> QED
    BY <1>a, <1>3, <2>1 DEF Exclusive
<1>4. ASSUME NEW t \in Tasks, BroadcastLock(t) PROVE Exclusive'
  <2>1. /\ at' = [at EXCEPT ![t] = "writing"] /\ mu = "free" /\ mu' = t
        /\ chat' = [chat EXCEPT ![t] = chats + 1] /\ chats' = chats + 1
    BY <1>4 DEF BroadcastLock, Go
  <2> QED
    BY <1>a, <2>1, TaskFacts DEF Exclusive
<1>5. ASSUME NEW t \in Tasks, BroadcastUnlock(t) PROVE Exclusive'
  <2>1. /\ at' = [at EXCEPT ![t] = IF t \in Clients THEN "answer" ELSE "none"] /\ mu = t /\ mu' = "free"
        /\ \A u \in Tasks : u # t => chat'[u] = chat[u]
        /\ todo' = {} /\ chats' = chats
    BY <1>a, <1>5 DEF BroadcastUnlock, Go, Exclusive
  <2> QED
    BY <1>a, <2>1, TaskFacts DEF Exclusive
<1>6. ASSUME NEW t \in Tasks, NEW c \in todo, BroadcastWrite(t, c) PROVE Exclusive'
  <2>1. UNCHANGED <<at, mu, chat, chats>> /\ mu = t
    BY <1>a, <1>6 DEF BroadcastWrite, Exclusive
  <2> QED
    BY <1>a, <2>1, TaskFacts DEF Exclusive
<1> QED
  BY <1>1, <1>2, <1>3, <1>4, <1>5, <1>6, Moves

(* There is room for the messages of those that are about to announce.     *)
LEMMA RoomStep == LockInv /\ [Next]_vars => RoomForChats' /\ chats' \in 0 .. MaxChats
<1> SUFFICES ASSUME LockInv, [Next]_vars PROVE RoomForChats' /\ chats' \in 0 .. MaxChats
  OBVIOUS
<1>a. /\ IPCTypeOK /\ at \in [Tasks -> Places] /\ chats \in Nat /\ MaxChats \in Nat /\ chats <= MaxChats
      /\ IsFiniteSet(Announcing) /\ Cardinality(Announcing) \in Nat
      /\ chats + Cardinality(Announcing) <= MaxChats
  BY TaskFacts, FS_CardinalityType DEF LockInv, IPCTypeOK, RoomForChats
<1>b. MayChat => chats + Cardinality(Announcing) < MaxChats
  BY DEF MayChat, Announcing
<1>1. ASSUME Announcing' = Announcing, chats' = chats PROVE RoomForChats' /\ chats' \in 0 .. MaxChats
  BY <1>1, <1>a DEF RoomForChats
<1>2. ASSUME NEW t \in Tasks, at[t] # "broadcast", Announcing' = Announcing \cup {t}, chats' = chats, MayChat
      PROVE  RoomForChats' /\ chats' \in 0 .. MaxChats
  <2>1. t \notin Announcing
    BY <1>2 DEF Announcing
  <2>2. IsFiniteSet(Announcing') /\ Cardinality(Announcing') = Cardinality(Announcing) + 1
    BY <1>2, <1>a, <2>1, FS_AddElement
  <2> QED
    BY <1>a, <1>b, <1>2, <2>2 DEF RoomForChats
<1>3. ASSUME NEW c \in Tasks, NEW place \in Places, Go(c, place)
      PROVE  Announcing' = IF place = "broadcast" THEN Announcing \cup {c} ELSE Announcing \ {c}
  BY <1>3, <1>a DEF Go, Announcing
<1>4. ASSUME NEW c \in Clients, NEW place \in Places,
             Go(c, place), UNCHANGED <<mu, todo, chats>>, HandlerMoves(c, place)
      PROVE  RoomForChats' /\ chats' \in 0 .. MaxChats
  <2>1. c \in Tasks /\ at[c] # "broadcast" /\ c \notin Announcing /\ (place = "broadcast" => MayChat)
    BY <1>4, TaskFacts DEF HandlerMoves, Announcing
  <2>2. CASE place = "broadcast"
    BY <1>2, <1>3, <1>4, <2>1, <2>2
  <2>3. CASE place # "broadcast"
    <3>1. Announcing' = Announcing \ {c}
      BY <1>3, <1>4, <2>1, <2>3
    <3> QED
      BY <1>1, <1>4, <2>1, <3>1
  <2> QED
    BY <2>2, <2>3
<1>5. ASSUME NEW t \in Appenders, at[t] = "none", MayChat, Go(t, "broadcast"), chats' = chats
      PROVE  RoomForChats' /\ chats' \in 0 .. MaxChats
  <2>1. t \in Tasks /\ "broadcast" \in Places
    BY TaskFacts DEF Places
  <2> QED
    BY <1>2, <1>3, <1>5, <2>1
<1>6. ASSUME NEW t \in Tasks, BroadcastLock(t) PROVE RoomForChats' /\ chats' \in 0 .. MaxChats
  <2>1. /\ Go(t, "writing") /\ "writing" \in Places /\ t \in Announcing /\ chats' = chats + 1
    BY <1>6 DEF BroadcastLock, Places, Announcing
  <2>2. Announcing' = Announcing \ {t}
    BY <1>3, <2>1
  <2>3. IsFiniteSet(Announcing') /\ Cardinality(Announcing') = Cardinality(Announcing) - 1
    BY <1>a, <2>1, <2>2, FS_RemoveElement
  <2>4. Cardinality(Announcing') \in Nat
    BY <2>3, FS_CardinalityType
  <2> QED
    BY <1>a, <2>1, <2>3, <2>4 DEF RoomForChats
<1>7. ASSUME NEW t \in Tasks, BroadcastUnlock(t) PROVE RoomForChats' /\ chats' \in 0 .. MaxChats
  <2>1. /\ \E place \in Places \ {"broadcast"} : Go(t, place)
        /\ t \notin Announcing /\ chats' = chats
    BY <1>7 DEF BroadcastUnlock, Places, Announcing
  <2>2. Announcing' = Announcing
    BY <1>3, <2>1
  <2> QED
    BY <1>1, <2>1, <2>2
<1>8. ASSUME UNCHANGED <<at, chats>> PROVE RoomForChats' /\ chats' \in 0 .. MaxChats
  <2>1. Announcing' = Announcing
    BY <1>8 DEF Announcing
  <2> QED
    BY <1>1, <1>8, <2>1
<1>9. ASSUME NEW t \in Tasks, NEW c \in todo, BroadcastWrite(t, c) PROVE UNCHANGED <<at, chats>>
  BY <1>9 DEF BroadcastWrite
<1> QED
  BY <1>4, <1>5, <1>6, <1>7, <1>8, <1>9, Moves

(* Who is registered, and who is still to be told.                         *)
LEMMA RegistryStep ==
  ASSUME LockInv, [Next]_vars
  PROVE  /\ at' \in [Tasks -> Places] /\ clients' = {c \in Clients : at'[c] \in Registered}
         /\ todo' \subseteq clients' /\ mu' \in Tasks \cup {"free"}
         /\ chat' \in [Tasks -> 0 .. MaxChats] /\ since' \in [Clients -> 0 .. MaxChats]
<1>a. /\ IPCTypeOK /\ at \in [Tasks -> Places] /\ clients = {c \in Clients : at[c] \in Registered}
      /\ todo \subseteq clients /\ mu \in Tasks \cup {"free"}
      /\ chat \in [Tasks -> 0 .. MaxChats] /\ since \in [Clients -> 0 .. MaxChats]
      /\ chats \in 0 .. MaxChats /\ (mu = "free" => todo = {})
  BY DEF LockInv, IPCTypeOK, Registered, Exclusive
<1>b. 0 \in 0 .. MaxChats
  BY TaskFacts
<1>1. CASE UNCHANGED <<at, mu, clients, todo, chats, chat, since>>
  BY <1>1, <1>a
<1>2. ASSUME NEW c \in Clients, NEW place \in Places,
             Go(c, place), UNCHANGED <<mu, todo, chats>>, HandlerMoves(c, place)
      PROVE  /\ at' \in [Tasks -> Places] /\ clients' = {d \in Clients : at'[d] \in Registered}
             /\ todo' \subseteq clients' /\ mu' \in Tasks \cup {"free"}
             /\ chat' \in [Tasks -> 0 .. MaxChats] /\ since' \in [Clients -> 0 .. MaxChats]
  <2>0. c \in Tasks
    BY TaskFacts
  <2>1. at' \in [Tasks -> Places]
    BY <1>a, <1>2, <2>0, GoStep
  <2>2. clients' = {d \in Clients : at'[d] \in Registered} /\ (clients \subseteq clients' \/ mu = "free")
    <3>1. CASE at[c] = "none" /\ place = "register" /\ UNCHANGED clients
      BY <1>a, <1>2, <2>0, <3>1, GoStep DEF Registered
    <3>2. CASE at[c] = "register" /\ place = "loop" /\ clients' = clients \cup {c}
      <4>1. place \in Registered
        BY <3>2 DEF Registered, Places
      <4> QED
        BY <1>a, <1>2, <2>0, <3>2, <4>1, GoStep
    <3>3. CASE /\ at[c] \in Registered /\ place \in Registered /\ UNCHANGED clients
      BY <1>a, <1>2, <2>0, <3>3, GoStep
    <3>4. CASE at[c] = "unregister" /\ place = "done" /\ mu = "free" /\ clients' = clients \ {c}
      <4>1. place \notin Registered
        BY <3>4 DEF Registered
      <4> QED
        BY <1>a, <1>2, <2>0, <3>4, <4>1, GoStep
    <3> QED
      BY <1>2, <3>1, <3>2, <3>3, <3>4 DEF HandlerMoves, Registered, Places
  <2>3. chat' \in [Tasks -> 0 .. MaxChats] /\ since' \in [Clients -> 0 .. MaxChats]
    BY <1>a, <1>b, <1>2, <2>0 DEF HandlerMoves
  <2> QED
    BY <1>a, <1>2, <2>1, <2>2, <2>3
<1>3. ASSUME NEW t \in Appenders, Go(t, "broadcast"), UNCHANGED <<mu, clients, todo, chats, chat, since>>
      PROVE  at' \in [Tasks -> Places] /\ clients' = {c \in Clients : at'[c] \in Registered}
  <2>1. t \in Tasks /\ "broadcast" \in Places
    BY TaskFacts DEF Places
  <2> QED
    BY <1>a, <1>3, <2>1, GoStep
<1>4. ASSUME NEW t \in Tasks, BroadcastLock(t)
      PROVE  /\ at' \in [Tasks -> Places] /\ clients' = {c \in Clients : at'[c] \in Registered}
             /\ todo' \subseteq clients' /\ mu' \in Tasks \cup {"free"}
             /\ chat' \in [Tasks -> 0 .. MaxChats] /\ UNCHANGED since
  <2>1. /\ at[t] = "broadcast" /\ Go(t, "writing") /\ UNCHANGED <<clients, since>> /\ todo' = clients /\ mu' = t
        /\ chats' = chats + 1 /\ chat' = [chat EXCEPT ![t] = chats + 1]
    BY <1>4 DEF BroadcastLock
  <2>2. at[t] \in Registered /\ "writing" \in Registered /\ "writing" \in Places
    BY <2>1 DEF Registered, Places
  <2>3. chats + 1 \in 0 .. MaxChats
    BY <2>1, RoomStep
  <2>4. chat' \in [Tasks -> 0 .. MaxChats]
    BY <1>a, <2>1, <2>3
  <2> QED
    BY <1>a, <2>1, <2>2, <2>4, GoStep
<1>5. ASSUME NEW t \in Tasks, BroadcastUnlock(t)
      PROVE  /\ at' \in [Tasks -> Places] /\ clients' = {c \in Clients : at'[c] \in Registered}
             /\ todo' \subseteq clients' /\ mu' \in Tasks \cup {"free"}
             /\ chat' \in [Tasks -> 0 .. MaxChats] /\ UNCHANGED since
  <2>1. /\ at[t] = "writing" /\ UNCHANGED <<clients, todo, since>> /\ mu' = "free"
        /\ chat' = chat \/ chat' = [chat EXCEPT ![t] = 0]
        /\ (t \in Clients /\ Go(t, "answer")) \/ (t \in Appenders /\ Go(t, "none"))
    <3>1. /\ at[t] = "writing" /\ UNCHANGED <<clients, todo, since>> /\ mu' = "free"
          /\ chat' = IF t \in Clients THEN chat ELSE [chat EXCEPT ![t] = 0]
          /\ Go(t, IF t \in Clients THEN "answer" ELSE "none")
      BY <1>5 DEF BroadcastUnlock
    <3>2. CASE t \in Clients
      BY <3>1, <3>2
    <3>3. CASE t \notin Clients
      BY <3>1, <3>3, TaskFacts
    <3> QED
      BY <3>2, <3>3
  <2>2. at[t] \in Registered /\ {"answer", "none"} \subseteq Places /\ "answer" \in Registered
    BY <2>1 DEF Registered, Places
  <2>3. at' \in [Tasks -> Places] /\ {c \in Clients : at'[c] \in Registered} = clients
    BY <1>a, <2>1, <2>2, GoStep
  <2>4. chat' \in [Tasks -> 0 .. MaxChats]
    BY <1>a, <1>b, <2>1
  <2> QED
    BY <1>a, <2>1, <2>3, <2>4
<1>6. ASSUME NEW t \in Tasks, NEW c \in todo, BroadcastWrite(t, c)
      PROVE  UNCHANGED <<at, mu, clients, chat, since>> /\ todo' \subseteq todo
  BY <1>6 DEF BroadcastWrite
<1> QED
  BY <1>a, <1>1, <1>2, <1>3, <1>4, <1>5, <1>6, Moves

(* A client is authenticated when it is registered or later.               *)
LEMMA ServedStep ==
  ASSUME LockInv, [Next]_vars
  PROVE  served' \in [Clients -> 0 .. MaxChats] /\ \A c \in Clients : since'[c] <= served'[c]
<1>a. /\ since \in [Clients -> 0 .. MaxChats] /\ served \in [Clients -> 0 .. MaxChats]
      /\ chats \in 0 .. MaxChats /\ MaxChats \in Nat
      /\ \A c \in Clients : since[c] <= served[c] /\ since[c] <= chats
  BY TaskFacts DEF LockInv, IPCTypeOK, Newcomers
<1>1. ASSUME UNCHANGED <<since, served>>
      PROVE  served' \in [Clients -> 0 .. MaxChats] /\ \A c \in Clients : since'[c] <= served'[c]
  BY <1>a, <1>1
<1>2. ASSUME NEW d \in Clients, Register(d)
      PROVE  served' \in [Clients -> 0 .. MaxChats] /\ \A c \in Clients : since'[c] <= served'[c]
  <2>1. since' = [since EXCEPT ![d] = chats] /\ served' = [served EXCEPT ![d] = chats]
    BY <1>2 DEF Register
  <2> QED
    BY <1>a, <2>1
<1>3. ASSUME NEW d \in Clients, Decode(d)
      PROVE  served' \in [Clients -> 0 .. MaxChats] /\ \A c \in Clients : since'[c] <= served'[c]
  <2>1. since' = since /\ (served' = served \/ served' = [served EXCEPT ![d] = chats])
    BY <1>3 DEF Decode, Authenticate
  <2> QED
    BY <1>a, <2>1
<1>4. ASSUME NEW d \in Clients,
             \/ Connect(d) \/ Send(d) \/ Receive(d) \/ Disconnect(d) \/ Loop(d) \/ DecodeFails(d)
             \/ Reject(d) \/ Answer(d) \/ Unregister(d)
      PROVE  UNCHANGED <<since, served>>
  BY <1>4 DEF Connect, Send, Receive, Disconnect, Loop, DecodeFails, Reject, Answer, Unregister
<1>5. CASE \/ Cancel \/ UNCHANGED vars \/ \E t \in Appenders : AppenderAppends(t)
           \/ \E t \in Tasks : Broadcast(t)
  <2>1. UNCHANGED <<since, served>>
    BY <1>5 DEF Cancel, vars, AppenderAppends, Broadcast, BroadcastLock, BroadcastUnlock, BroadcastWrite
  <2> QED
    BY <1>1, <2>1
<1> QED
  BY <1>1, <1>2, <1>3, <1>4, <1>5 DEF Next, Handle

(* What is written and read keeps its type, and the buffers their bound.   *)
LEMMA QueueStep ==
  ASSUME LockInv, [Next]_vars
  PROVE  /\ cancelled' \in BOOLEAN /\ peer' \in [Clients -> {"none", "open", "gone"}]
         /\ authenticated' \in [Clients -> BOOLEAN]
         /\ inbox' \in [Clients -> Seq(Commands)] /\ outbox' \in [Clients -> Seq(Messages)]
         /\ \A c \in Clients : Len(outbox'[c]) <= OutCap
         /\ stream' \in [Clients -> Seq(Messages)]
         /\ sent' \in [Clients -> Nat] /\ \A c \in Clients : sent'[c] <= Len(Sends[c])
<1> DEFINE Types ==
      /\ cancelled \in BOOLEAN /\ peer \in [Clients -> {"none", "open", "gone"}]
      /\ authenticated \in [Clients -> BOOLEAN]
      /\ inbox \in [Clients -> Seq(Commands)] /\ outbox \in [Clients -> Seq(Messages)]
      /\ \A c \in Clients : Len(outbox[c]) <= OutCap
      /\ stream \in [Clients -> Seq(Messages)]
      /\ sent \in [Clients -> Nat] /\ \A c \in Clients : sent[c] <= Len(Sends[c])
<1>a. Types /\ IPCTypeOK /\ chat \in [Tasks -> 0 .. MaxChats]
  BY DEF LockInv, IPCTypeOK
<1>b. \A c \in Clients : << >> \in Seq(Commands) /\ << >> \in Seq(Messages) /\ Len(<< >>) <= OutCap
  BY TaskFacts, EmptySeq
<1>1. CASE Cancel
  BY <1>1, <1>a DEF Cancel
<1>2. ASSUME NEW c \in Clients, Connect(c) PROVE Types'
  BY <1>2, <1>a DEF Connect
<1>3. ASSUME NEW c \in Clients, Send(c) PROVE Types'
  <2>1. PICK cmd \in Sends[c][sent[c] + 1] : inbox' = [inbox EXCEPT ![c] = Append(inbox[c], cmd)]
    BY <1>3 DEF Send
  <2>2. Sends[c] \in Seq(SUBSET Commands) /\ Len(Sends[c]) \in Nat /\ sent[c] \in Nat /\ sent[c] < Len(Sends[c])
    BY <1>3, <1>a, TaskFacts, LenProperties DEF Send
  <2>3. sent[c] + 1 \in 1 .. Len(Sends[c])
    BY <2>2
  <2>4. Sends[c][sent[c] + 1] \in SUBSET Commands
    BY <2>2, <2>3, ElementOfSeq
  <2>5. Append(inbox[c], cmd) \in Seq(Commands)
    BY <1>a, <2>4, AppendProperties
  <2>6. sent' = [sent EXCEPT ![c] = sent[c] + 1] /\ UNCHANGED <<cancelled, peer, authenticated, outbox, stream>>
    BY <1>3 DEF Send
  <2>7. sent' \in [Clients -> Nat] /\ \A d \in Clients : sent'[d] <= Len(Sends[d])
    BY <1>a, <2>2, <2>3, <2>6
  <2>8. inbox' \in [Clients -> Seq(Commands)]
    BY <1>a, <2>1, <2>5
  <2> QED
    BY <1>a, <2>6, <2>7, <2>8
<1>4. ASSUME NEW c \in Clients, Receive(c) PROVE Types'
  <2>1. /\ outbox' = [outbox EXCEPT ![c] = Tail(outbox[c])] /\ outbox[c] # << >>
        /\ UNCHANGED <<cancelled, peer, authenticated, inbox, stream, sent>>
    BY <1>4 DEF Receive
  <2>2. Tail(outbox[c]) \in Seq(Messages) /\ Len(Tail(outbox[c])) = Len(outbox[c]) - 1 /\ Len(outbox[c]) \in Nat
    BY <1>a, <2>1, HeadTailProperties, LenProperties
  <2>3. Len(Tail(outbox[c])) <= OutCap
    BY <1>a, <2>2, TaskFacts
  <2>4. outbox' \in [Clients -> Seq(Messages)] /\ \A d \in Clients : Len(outbox'[d]) <= OutCap
    BY <1>a, <2>1, <2>2, <2>3
  <2> QED
    BY <1>a, <2>1, <2>4
<1>5. ASSUME NEW c \in Clients, Disconnect(c) PROVE Types'
  <2>1. /\ outbox' = [outbox EXCEPT ![c] = << >>] /\ stream' = [stream EXCEPT ![c] = << >>]
        /\ peer' = [peer EXCEPT ![c] = "gone"] /\ UNCHANGED <<cancelled, authenticated, inbox, sent>>
    BY <1>5 DEF Disconnect
  <2>2. outbox' \in [Clients -> Seq(Messages)] /\ \A d \in Clients : Len(outbox'[d]) <= OutCap
    BY <1>a, <1>b, <2>1
  <2>3. stream' \in [Clients -> Seq(Messages)] /\ peer' \in [Clients -> {"none", "open", "gone"}]
    BY <1>a, <1>b, <2>1
  <2> QED
    BY <1>a, <2>1, <2>2, <2>3
<1>6. ASSUME NEW c \in Clients, Decode(c) PROVE Types'
  <2>1. /\ inbox[c] # << >> /\ inbox' = [inbox EXCEPT ![c] = Tail(inbox[c])]
        /\ authenticated' = [authenticated EXCEPT ![c] = Authorized(c, Head(inbox[c]))]
        /\ UNCHANGED <<cancelled, peer, outbox, stream, sent>>
    BY <1>6 DEF Decode, Authenticate
  <2>2. Head(inbox[c]) \in Commands /\ Tail(inbox[c]) \in Seq(Commands)
    BY <1>a, <2>1, HeadTailProperties
  <2>3. Authorized(c, Head(inbox[c])) \in BOOLEAN
    BY <2>2, <1>a DEF Authorized, Commands
  <2>4. inbox' \in [Clients -> Seq(Commands)] /\ authenticated' \in [Clients -> BOOLEAN]
    BY <1>a, <2>1, <2>2, <2>3
  <2> QED
    BY <1>a, <2>1, <2>4
<1>7. ASSUME NEW c \in Clients, NEW m \in Messages, Encode(c, m),
             UNCHANGED <<cancelled, peer, authenticated, inbox, sent>>
      PROVE  Types'
  BY <1>7, <1>a, EncodeStep
<1>8. ASSUME NEW c \in Clients, Reject(c) \/ Answer(c) PROVE Types'
  <2>1. \E m \in Messages : Encode(c, m)
    BY <1>8, <1>a, MessageTypes, TaskFacts DEF Reject, Answer
  <2> QED
    BY <1>7, <1>8, <2>1 DEF Reject, Answer
<1>9. ASSUME NEW c \in Clients, Register(c) PROVE Types'
  <2>1. /\ authenticated' = [authenticated EXCEPT ![c] = ~Whitelist]
        /\ UNCHANGED <<cancelled, peer, inbox, outbox, stream, sent>>
    BY <1>9 DEF Register
  <2>2. authenticated' \in [Clients -> BOOLEAN]
    BY <1>a, <2>1
  <2> QED
    BY <1>a, <2>1, <2>2
<1>10. ASSUME NEW c \in Clients, Unregister(c) PROVE Types'
  <2>1. inbox' = [inbox EXCEPT ![c] = << >>] /\ UNCHANGED <<cancelled, peer, authenticated, outbox, stream, sent>>
    BY <1>10 DEF Unregister
  <2>2. inbox' \in [Clients -> Seq(Commands)]
    BY <1>a, <1>b, <2>1
  <2> QED
    BY <1>a, <2>1, <2>2
<1>11. ASSUME NEW c \in Clients, Loop(c) \/ DecodeFails(c) PROVE Types'
  BY <1>11, <1>a DEF Loop, DecodeFails
<1>12. ASSUME NEW t \in Tasks, BroadcastLock(t) \/ BroadcastUnlock(t) PROVE Types'
  BY <1>12, <1>a DEF BroadcastLock, BroadcastUnlock
<1>13. ASSUME NEW t \in Tasks, NEW c \in todo, BroadcastWrite(t, c) PROVE Types'
  <2>1. c \in Clients /\ Notice(chat[t]) \in Messages
    BY <1>a, MessageTypes DEF IPCTypeOK
  <2> QED
    BY <1>7, <1>13, <2>1 DEF BroadcastWrite
<1>14. ASSUME NEW t \in Appenders, AppenderAppends(t) PROVE Types'
  BY <1>14, <1>a DEF AppenderAppends
<1>15. CASE UNCHANGED vars
  BY <1>15, <1>a DEF vars
<1>16. Types'
  BY <1>1, <1>2, <1>3, <1>4, <1>5, <1>6, <1>8, <1>9, <1>10, <1>11, <1>12, <1>13, <1>14, <1>15
     DEF Next, Handle, Broadcast
<1> QED
  BY <1>16

-----------------------------------------------------------------------------
(* What the clients were written *)

(* A step by which no goroutine writes, registers a client or begins a     *)
(* broadcast, and no client goes.                                          *)
Silent ==
  /\ UNCHANGED <<stream, since, chats, todo>>
  /\ \A c \in Clients : (peer[c] = "gone" <=> peer'[c] = "gone") /\ (c \in clients' => c \in clients)

(* A step is silent, or one that is named.                                 *)
LEMMA Steps ==
  ASSUME LockInv, [Next]_vars
  PROVE  \/ Silent
         \/ \E c \in Clients : Register(c) \/ Disconnect(c) \/ Reject(c) \/ Answer(c)
         \/ \E t \in Tasks : BroadcastLock(t)
         \/ \E t \in Tasks, c \in todo : BroadcastWrite(t, c)
<1>a. peer \in [Clients -> {"none", "open", "gone"}]
  BY DEF LockInv, IPCTypeOK
<1>1. CASE Cancel \/ UNCHANGED vars
  BY <1>1 DEF Cancel, vars, Silent
<1>2. ASSUME NEW c \in Clients, Connect(c) PROVE Silent
  <2>1. /\ peer' = [peer EXCEPT ![c] = "open"] /\ peer[c] = "none"
        /\ UNCHANGED <<stream, since, chats, todo, clients>>
    BY <1>2 DEF Connect
  <2> QED
    BY <1>a, <2>1 DEF Silent
<1>3. ASSUME NEW c \in Clients, Send(c) \/ Receive(c) \/ Loop(c) \/ Decode(c) \/ DecodeFails(c) \/ Unregister(c)
      PROVE  Silent
  BY <1>3 DEF Send, Receive, Loop, Decode, DecodeFails, Unregister, Silent
<1>4. ASSUME NEW t \in Tasks, BroadcastUnlock(t) PROVE Silent
  BY <1>4 DEF BroadcastUnlock, Silent
<1>5. ASSUME NEW t \in Appenders, AppenderAppends(t) PROVE Silent
  BY <1>5 DEF AppenderAppends, Silent
<1> QED
  BY <1>1, <1>2, <1>3, <1>4, <1>5 DEF Next, Handle, Broadcast

(* What Reject and Answer write, and to whom.                              *)
LEMMA AnswerWrites ==
  ASSUME LockInv, NEW c \in Clients, Reject(c) \/ Answer(c)
  PROVE  \E m \in {Rejection, Response(chat[c])} :
           /\ m = Rejection \/ at[c] = "answer"
           /\ m \in Messages /\ Encode(c, m) /\ UNCHANGED <<peer, since, chats, todo, clients, chat>>
           /\ at[c] \in Registered
<1>1. chat[c] \in 0 .. MaxChats
  BY TaskFacts DEF LockInv, IPCTypeOK
<1> QED
  BY <1>1, MessageTypes DEF Reject, Answer, Registered, Places

(* What Broadcast writes, and to whom.                                     *)
LEMMA BroadcastWrites ==
  ASSUME LockInv, NEW t \in Tasks, NEW c \in todo, BroadcastWrite(t, c)
  PROVE  /\ c \in Clients /\ c \in clients /\ at[c] \in Registered /\ mu = t /\ chat[t] = chats
         /\ Notice(chats) \in Messages /\ Encode(c, Notice(chats))
         /\ todo' = todo \ {c} /\ UNCHANGED <<peer, since, chats, clients, chat, at>>
<1>1. c \in clients /\ clients = {d \in Clients : at[d] \in Registered} /\ chats \in 0 .. MaxChats
  BY DEF LockInv, IPCTypeOK, Registered
<1>2. at[t] = "writing" /\ mu = t /\ chat[t] = chats
  BY DEF LockInv, Exclusive, BroadcastWrite
<1> QED
  BY <1>1, <1>2, MessageTypes DEF BroadcastWrite

(* Connections that are not registered yet stay untouched.                 *)
LEMMA NewcomersStep == LockInv /\ [Next]_vars => Newcomers'
<1> SUFFICES ASSUME LockInv, [Next]_vars PROVE Newcomers'
  OBVIOUS
<1>a. /\ IPCTypeOK /\ Newcomers /\ at \in [Tasks -> Places] /\ Clients \subseteq Tasks
      /\ peer \in [Clients -> {"none", "open", "gone"}] /\ since \in [Clients -> 0 .. MaxChats]
      /\ chats \in Nat /\ \A c \in Clients : since[c] \in Nat
      /\ stream \in [Clients -> Seq(Messages)]
  BY TaskFacts DEF LockInv, IPCTypeOK
<1>1. \A c \in Clients : peer'[c] = "none" <=> at'[c] = "none"
  <2>1. ASSUME NEW c \in Clients, Connect(c)
        PROVE  \A d \in Clients : peer'[d] = "none" <=> at'[d] = "none"
    BY <1>a, <2>1 DEF Connect, Go, Newcomers
  <2>2. ASSUME NEW c \in Clients, Disconnect(c)
        PROVE  \A d \in Clients : peer'[d] = "none" <=> at'[d] = "none"
    BY <1>a, <2>2 DEF Disconnect, Newcomers
  <2>3. ASSUME NEW t \in Tasks, NEW place, Go(t, place), at[t] # "none" \/ t \in Appenders,
               place # "none" \/ t \in Appenders, UNCHANGED peer
        PROVE  \A d \in Clients : peer'[d] = "none" <=> at'[d] = "none"
    BY <1>a, <2>3, TaskFacts DEF Go, Newcomers
  <2>4. ASSUME UNCHANGED <<peer, at>> PROVE \A d \in Clients : peer'[d] = "none" <=> at'[d] = "none"
    BY <1>a, <2>4 DEF Newcomers
  <2>5. ASSUME NEW c \in Clients, Handle(c)
        PROVE  UNCHANGED peer /\ at[c] # "none" /\ \E place : Go(c, place) /\ place # "none"
    <3>1. CASE Decode(c)
      <4>1. Dispatch(c, Head(inbox[c])) \/ Go(c, "reject")
        BY <3>1 DEF Decode
      <4> QED
        BY <3>1, <4>1 DEF Decode, Dispatch
    <3> QED
      BY <2>5, <3>1 DEF Handle, Register, Loop, DecodeFails, Reject, Answer, Unregister
  <2>6. ASSUME NEW t \in Tasks, BroadcastLock(t) \/ BroadcastUnlock(t)
        PROVE  UNCHANGED peer /\ at[t] # "none" /\ \E place : Go(t, place) /\ (place # "none" \/ t \in Appenders)
    BY <2>6, TaskFacts DEF BroadcastLock, BroadcastUnlock
  <2>7. ASSUME NEW t \in Appenders, AppenderAppends(t) PROVE UNCHANGED peer /\ Go(t, "broadcast") /\ t \in Tasks
    BY <2>7, TaskFacts DEF AppenderAppends
  <2>8. ASSUME \/ Cancel \/ \E c \in Clients : Send(c) \/ Receive(c)
               \/ \E t \in Tasks, c \in todo : BroadcastWrite(t, c)
        PROVE  UNCHANGED <<peer, at>>
    BY <2>8 DEF Cancel, Send, Receive, BroadcastWrite
  <2>9. CASE UNCHANGED vars
    BY <2>4, <2>9 DEF vars
  <2> QED
    BY <1>a, <2>1, <2>2, <2>3, <2>4, <2>5, <2>6, <2>7, <2>8, <2>9 DEF Next, Broadcast
<1>2. ASSUME NEW c \in Clients PROVE at'[c] \in {"none", "register"} => stream'[c] = << >>
  <2>1. at'[c] \in {"none", "register"} => at[c] \in {"none", "register"}
    <3>1. \/ at'[c] = at[c]
          \/ \E place : Go(c, place) /\ (place = "register" => at[c] = "none") /\ place # "none"
      <4>1. ASSUME NEW d \in Clients, NEW place \in Places, Go(d, place), HandlerMoves(d, place)
            PROVE  at'[c] = at[c] \/ (d = c /\ (place = "register" => at[c] = "none") /\ place # "none")
        BY <1>a, <4>1 DEF Go, HandlerMoves
      <4>2. ASSUME NEW t \in Tasks, BroadcastLock(t) \/ BroadcastUnlock(t)
            PROVE  at'[c] = at[c] \/ (t = c /\ \E place : Go(t, place) /\ place # "register" /\ place # "none")
        BY <1>a, <4>2 DEF Go, BroadcastLock, BroadcastUnlock
      <4>3. ASSUME NEW t \in Appenders, Go(t, "broadcast") PROVE at'[c] = at[c]
        BY <1>a, <4>3, TaskFacts DEF Go
      <4>4. ASSUME NEW t \in Tasks, NEW d \in todo, BroadcastWrite(t, d) PROVE at'[c] = at[c]
        BY <4>4 DEF BroadcastWrite
      <4> QED
        BY <1>a, <4>1, <4>2, <4>3, <4>4, Moves
    <3> QED
      BY <1>a, <3>1 DEF Go
  <2>2. at[c] \in {"none", "register"} => stream'[c] = stream[c] \/ stream'[c] = << >>
    <3>1. ASSUME NEW d \in Clients, Register(d) \/ Disconnect(d)
          PROVE  stream'[c] = stream[c] \/ stream'[c] = << >>
      BY <1>a, <3>1 DEF Register, Disconnect
    <3>2. ASSUME NEW d \in Clients, NEW m \in Messages, Encode(d, m), at[d] \in Registered
          PROVE  at[c] \in {"none", "register"} => stream'[c] = stream[c]
      BY <1>a, <3>2, EncodeStep DEF Registered
    <3>3. ASSUME NEW t \in Tasks, BroadcastLock(t) PROVE stream' = stream
      BY <3>3 DEF BroadcastLock
    <3>4. Silent => stream' = stream
      BY DEF Silent
    <3>5. ASSUME NEW d \in Clients, Reject(d) \/ Answer(d)
          PROVE  \E m \in Messages : Encode(d, m) /\ at[d] \in Registered
      BY <3>5, AnswerWrites
    <3>6. ASSUME NEW t \in Tasks, NEW d \in todo, BroadcastWrite(t, d)
          PROVE  d \in Clients /\ at[d] \in Registered /\ \E m \in Messages : Encode(d, m)
      BY <3>6, BroadcastWrites
    <3> QED
      BY <3>1, <3>2, <3>3, <3>4, <3>5, <3>6, Steps
  <2> QED
    BY <1>a, <2>1, <2>2 DEF Newcomers
<1>3. ASSUME NEW c \in Clients PROVE since'[c] <= chats' /\ (c \in todo' => since'[c] < chats')
  <2>1. CASE UNCHANGED <<since, chats>> /\ todo' \subseteq todo
    BY <1>a, <2>1 DEF Newcomers
  <2>2. ASSUME NEW d \in Clients, Register(d) PROVE since'[c] <= chats' /\ (c \in todo' => since'[c] < chats')
    <3>1. since' = [since EXCEPT ![d] = chats] /\ UNCHANGED <<chats, todo>> /\ todo = {}
      BY <2>2 DEF Register, LockInv, Exclusive
    <3> QED
      BY <1>a, <3>1 DEF Newcomers
  <2>3. ASSUME NEW t \in Tasks, BroadcastLock(t) PROVE since'[c] <= chats' /\ (c \in todo' => since'[c] < chats')
    BY <1>a, <2>3 DEF BroadcastLock, Newcomers
  <2>4. ASSUME NEW d \in Clients, Disconnect(d) PROVE UNCHANGED <<since, chats, todo>>
    BY <2>4 DEF Disconnect
  <2>5. ASSUME NEW d \in Clients, Reject(d) \/ Answer(d) PROVE UNCHANGED <<since, chats, todo>>
    BY <2>5, AnswerWrites
  <2>6. ASSUME NEW t \in Tasks, NEW d \in todo, BroadcastWrite(t, d)
        PROVE  UNCHANGED <<since, chats>> /\ todo' \subseteq todo
    BY <2>6, BroadcastWrites
  <2> QED
    BY <2>1, <2>2, <2>3, <2>4, <2>5, <2>6, Steps DEF Silent
<1> QED
  BY <1>1, <1>2, <1>3, ServedStep DEF Newcomers

(* Every step keeps the types and what the lock is for.                    *)
LEMMA LockStep == LockInv /\ [Next]_vars => LockInv'
<1> SUFFICES ASSUME LockInv, [Next]_vars PROVE LockInv'
  OBVIOUS
<1>1. Exclusive' /\ RoomForChats' /\ Newcomers' /\ chats' \in 0 .. MaxChats
  BY ExclusiveStep, RoomStep, NewcomersStep
<1>2. /\ (mu' # "free" <=> \E t \in Tasks : at'[t] = "writing")
      /\ (mu' # "free" => at'[mu'] = "writing")
  BY <1>1, RegistryStep, TaskFacts DEF Exclusive
<1>3. IPCTypeOK'
  BY <1>1, <1>2, RegistryStep, ServedStep, QueueStep DEF IPCTypeOK, Registered
<1> QED
  BY <1>1, <1>3 DEF LockInv

(* The places of the announcements in a stream, and their messages.        *)
NoticesIn(s) == {i \in 1 .. Len(s) : s[i].type = "notice"}

ToldIn(s) == {s[i].chat : i \in NoticesIn(s)}

Ascending(s) == \A i, j \in NoticesIn(s) : i < j => s[i].chat < s[j].chat

(* Nobody was told anything by an empty stream.                            *)
LEMMA EmptyStream == Ascending(<< >>) /\ ToldIn(<< >>) = {}
<1>1. NoticesIn(<< >>) = {}
  BY DEF NoticesIn
<1> QED
  BY <1>1 DEF Ascending, ToldIn

(* An answer announces nothing.                                            *)
LEMMA AppendAnswer ==
  ASSUME NEW s \in Seq(Messages), NEW m \in Messages, m.type # "notice"
  PROVE  ToldIn(Append(s, m)) = ToldIn(s) /\ (Ascending(s) => Ascending(Append(s, m)))
<1> DEFINE r == Append(s, m)
<1>1. /\ r \in Seq(Messages) /\ Len(r) = Len(s) + 1 /\ Len(s) \in Nat
      /\ \A i \in 1 .. Len(s) : r[i] = s[i]
      /\ r[Len(s) + 1] = m
  BY AppendProperties, LenProperties
<1> HIDE DEF r
<1>2. \A i : i \in 1 .. Len(r) <=> i \in 1 .. Len(s) \/ i = Len(s) + 1
  BY <1>1
<1>3. NoticesIn(r) = NoticesIn(s) /\ NoticesIn(s) \subseteq 1 .. Len(s)
  BY <1>1, <1>2 DEF NoticesIn
<1>4. ToldIn(r) = ToldIn(s) /\ (Ascending(s) => Ascending(r))
  BY <1>1, <1>3 DEF ToldIn, Ascending
<1> QED
  BY <1>4 DEF r

(* The announcement of the next message extends what was announced.        *)
LEMMA AppendNotice ==
  ASSUME NEW s \in Seq(Messages), NEW low \in Nat, NEW n \in Nat, low < n,
         Notice(n) \in Messages, ToldIn(s) = low + 1 .. n - 1, Ascending(s)
  PROVE  ToldIn(Append(s, Notice(n))) = low + 1 .. n /\ Ascending(Append(s, Notice(n)))
<1> DEFINE r == Append(s, Notice(n))
           k == Len(s) + 1
<1>1. /\ r \in Seq(Messages) /\ Len(r) = k /\ Len(s) \in Nat
      /\ \A i \in 1 .. Len(s) : r[i] = s[i]
      /\ r[k] = Notice(n)
  BY AppendProperties, LenProperties
<1>2. r[k].chat = n /\ r[k].type = "notice"
  BY <1>1 DEF Notice
<1> HIDE DEF r
<1>3. \A i : i \in 1 .. Len(r) <=> i \in 1 .. Len(s) \/ i = k
  BY <1>1
<1>4. k \notin 1 .. Len(s) /\ \A i \in 1 .. Len(s) : i < k
  BY <1>1
<1> HIDE DEF k
<1>5. NoticesIn(r) = NoticesIn(s) \cup {k} /\ NoticesIn(s) \subseteq 1 .. Len(s)
  BY <1>1, <1>2, <1>3 DEF NoticesIn
<1>6. ToldIn(r) = ToldIn(s) \cup {n}
  BY <1>1, <1>2, <1>5 DEF ToldIn
<1>7. ToldIn(r) = low + 1 .. n
  BY <1>6
<1>8. \A i \in NoticesIn(s) : s[i].chat < n /\ i < k /\ ~(k < i)
  <2> TAKE i \in NoticesIn(s)
  <2>1. s[i].chat \in low + 1 .. n - 1
    BY DEF ToldIn
  <2>2. i \in Nat /\ k \in Nat /\ i < k
    BY <1>1, <1>4, <1>5 DEF k
  <2> QED
    BY <2>1, <2>2
<1>9. Ascending(r)
  <2> SUFFICES ASSUME NEW i \in NoticesIn(r), NEW j \in NoticesIn(r), i < j PROVE r[i].chat < r[j].chat
    BY DEF Ascending
  <2>1. ~(k < k)
    BY <1>1 DEF k
  <2>2. CASE i \in NoticesIn(s) /\ j \in NoticesIn(s)
    BY <1>1, <1>5, <2>2 DEF Ascending
  <2>3. CASE i \in NoticesIn(s) /\ j = k
    BY <1>1, <1>2, <1>5, <1>8, <2>3
  <2> QED
    BY <1>5, <1>8, <2>1, <2>2, <2>3
<1> QED
  BY <1>7, <1>9 DEF r

(* A client was told of all messages from its registration to some later   *)
(* one, and to the latest one while it is connected: authenticated or not. *)
Complete(c) ==
  /\ Ascending(stream[c])
  /\ \E n \in 0 .. chats : ToldIn(stream[c]) = since[c] + 1 .. n
  /\ c \in clients /\ peer[c] = "open" =>
       ToldIn(stream[c]) = since[c] + 1 .. chats - (IF c \in todo THEN 1 ELSE 0)

(* That is more than NoticesAreComplete says.                              *)
LEMMA CompleteMeans == LockInv /\ (\A c \in Clients : Complete(c)) => NoticesAreComplete
<1> SUFFICES ASSUME LockInv, NEW c \in Clients, Complete(c)
             PROVE  /\ ToldIn(stream[c]) \subseteq since[c] + 1 .. chats
                    /\ Ascending(stream[c])
                    /\ authenticated[c] /\ c \in clients /\ peer[c] = "open" =>
                         served[c] + 1 .. chats - (IF c \in todo THEN 1 ELSE 0) \subseteq ToldIn(stream[c])
  BY DEF NoticesAreComplete, Notices, NoticesIn, ToldIn, Ascending
<1>1. since[c] \in Nat /\ served[c] \in Nat /\ chats \in Nat /\ since[c] <= served[c]
  BY TaskFacts DEF LockInv, IPCTypeOK, Newcomers
<1>2. PICK n \in 0 .. chats : ToldIn(stream[c]) = since[c] + 1 .. n
  BY DEF Complete
<1>3. ToldIn(stream[c]) \subseteq since[c] + 1 .. chats
  BY <1>1, <1>2
<1>4. CASE c \in clients /\ peer[c] = "open"
  <2> DEFINE last == chats - (IF c \in todo THEN 1 ELSE 0)
  <2>1. ToldIn(stream[c]) = since[c] + 1 .. last /\ last \in Int
    BY <1>1, <1>4 DEF Complete
  <2> HIDE DEF last
  <2>2. served[c] + 1 .. last \subseteq ToldIn(stream[c])
    BY <1>1, <2>1
  <2> QED
    BY <1>3, <2>2 DEF Complete, last
<1> QED
  BY <1>3, <1>4 DEF Complete

(* Every step keeps each client informed.                                  *)
LEMMA CompleteStep ==
  ASSUME LockInv, [Next]_vars, NEW c \in Clients, Complete(c)
  PROVE  Complete(c)'
<1>a. /\ IPCTypeOK /\ stream \in [Clients -> Seq(Messages)] /\ stream[c] \in Seq(Messages)
      /\ since \in [Clients -> 0 .. MaxChats] /\ since[c] \in Nat /\ chats \in Nat
      /\ peer \in [Clients -> {"none", "open", "gone"}]
      /\ clients = {d \in Clients : at[d] \in Registered}
      /\ c \in clients => peer[c] # "none"
      /\ todo \subseteq clients /\ since[c] <= chats /\ (c \in todo => since[c] < chats)
      /\ mu = "free" => todo = {}
  <2>0. IPCTypeOK
    BY DEF LockInv
  <2>1. /\ IPCTypeOK /\ stream \in [Clients -> Seq(Messages)] /\ since \in [Clients -> 0 .. MaxChats]
        /\ chats \in 0 .. MaxChats /\ peer \in [Clients -> {"none", "open", "gone"}] /\ todo \subseteq clients
        /\ clients = {d \in Clients : at[d] \in Registered}
    BY <2>0 DEF IPCTypeOK, Registered
  <2>2. /\ peer[c] = "none" => at[c] = "none"
        /\ since[c] <= chats /\ (c \in todo => since[c] < chats)
    <3>1. Newcomers
      BY DEF LockInv
    <3> QED
      BY <3>1 DEF Newcomers
  <2>3. mu = "free" => todo = {}
    BY DEF LockInv, Exclusive
  <2>4. c \in clients => at[c] # "none"
    BY <2>1 DEF Registered
  <2> QED
    BY <2>1, <2>2, <2>3, <2>4, TaskFacts
<1>1. CASE Silent
  <2>1. /\ UNCHANGED <<stream, since, chats, todo>> /\ (peer[c] = "gone" <=> peer'[c] = "gone")
        /\ (c \in clients' => c \in clients)
    BY <1>1 DEF Silent
  <2> QED
    BY <1>a, <2>1 DEF Complete
<1>2. ASSUME NEW d \in Clients, Register(d) PROVE Complete(c)'
  <2>1. /\ since' = [since EXCEPT ![d] = chats] /\ UNCHANGED <<stream, peer, chats, todo>> /\ todo = {}
        /\ clients' = clients \cup {d} /\ at[d] = "register"
    BY <1>2, <1>a DEF Register
  <2>2. CASE d = c
    <3>1. stream[c] = << >>
      BY <2>1, <2>2 DEF LockInv, Newcomers
    <3>2. Ascending(stream'[c]) /\ ToldIn(stream'[c]) = {}
      BY <2>1, <3>1, EmptyStream
    <3>3. since'[c] = chats /\ chats' = chats /\ c \notin todo'
      BY <1>a, <2>1, <2>2
    <3>4. chats + 1 .. chats = {} /\ chats \in 0 .. chats /\ chats - 0 = chats
      BY <1>a
    <3> QED
      BY <3>2, <3>3, <3>4 DEF Complete
  <2>3. CASE d # c
    BY <1>a, <2>1, <2>3 DEF Complete
  <2> QED
    BY <2>2, <2>3
<1>3. ASSUME NEW d \in Clients, Disconnect(d) PROVE Complete(c)'
  <2>1. /\ stream' = [stream EXCEPT ![d] = << >>] /\ peer' = [peer EXCEPT ![d] = "gone"]
        /\ UNCHANGED <<since, chats, todo, clients>>
    BY <1>3 DEF Disconnect
  <2>2. CASE d = c
    <3>1. Ascending(stream'[c]) /\ ToldIn(stream'[c]) = {} /\ peer'[c] = "gone"
      BY <1>a, <2>1, <2>2, EmptyStream
    <3>2. since[c] + 1 .. since[c] = {} /\ since[c] \in 0 .. chats
      BY <1>a
    <3> QED
      BY <2>1, <3>1, <3>2 DEF Complete
  <2>3. CASE d # c
    BY <1>a, <2>1, <2>3 DEF Complete
  <2> QED
    BY <2>2, <2>3
<1>4. ASSUME NEW d \in Clients, Reject(d) \/ Answer(d) PROVE Complete(c)'
  <2>1. PICK m \in {Rejection, Response(chat[d])} :
          m \in Messages /\ Encode(d, m) /\ UNCHANGED <<peer, since, chats, todo, clients>>
    BY <1>4, AnswerWrites
  <2>2. m.type # "notice"
    BY DEF Rejection, Response
  <2>3. stream'[c] = stream[c] \/ stream'[c] = Append(stream[c], m)
    BY <1>a, <2>1, EncodeStep
  <2>4. ToldIn(stream'[c]) = ToldIn(stream[c]) /\ (Ascending(stream[c]) => Ascending(stream'[c]))
    BY <1>a, <2>1, <2>2, <2>3, AppendAnswer
  <2> QED
    BY <2>1, <2>4 DEF Complete
<1>5. ASSUME NEW t \in Tasks, BroadcastLock(t) PROVE Complete(c)'
  <2>1. /\ todo = {} /\ todo' = clients /\ chats' = chats + 1 /\ UNCHANGED <<stream, since, clients, peer>>
    BY <1>5, <1>a DEF BroadcastLock
  <2>2. chats' - 1 = chats /\ chats - 0 = chats /\ \A n \in 0 .. chats : n \in 0 .. chats'
    BY <1>a, <2>1
  <2> QED
    BY <2>1, <2>2 DEF Complete
<1>6. ASSUME NEW t \in Tasks, NEW d \in todo, BroadcastWrite(t, d) PROVE Complete(c)'
  <2>1. /\ d \in Clients /\ Notice(chats) \in Messages /\ Encode(d, Notice(chats)) /\ todo' = todo \ {d}
        /\ UNCHANGED <<peer, since, chats, clients>>
    BY <1>6, BroadcastWrites
  <2>2. CASE d # c
    <3>1. stream'[c] = stream[c] /\ (c \in todo' <=> c \in todo)
      BY <1>a, <2>1, <2>2, EncodeStep
    <3> QED
      BY <2>1, <3>1 DEF Complete
  <2>3. CASE d = c /\ peer[c] = "gone"
    <3>1. stream'[c] = stream[c] /\ peer'[c] = "gone"
      BY <1>a, <2>1, <2>3, EncodeStep
    <3> QED
      BY <2>1, <3>1 DEF Complete
  <2>4. CASE d = c /\ peer[c] # "gone"
    <3>1. stream'[c] = Append(stream[c], Notice(chats)) /\ c \in clients /\ peer[c] = "open"
      BY <1>a, <2>1, <2>4, EncodeStep
    <3>2. ToldIn(stream[c]) = since[c] + 1 .. chats - 1 /\ Ascending(stream[c]) /\ since[c] < chats
      BY <1>a, <2>4, <3>1 DEF Complete
    <3>3. ToldIn(stream'[c]) = since[c] + 1 .. chats /\ Ascending(stream'[c])
      BY <1>a, <2>1, <3>1, <3>2, AppendNotice
    <3>4. chats \in 0 .. chats /\ chats - 0 = chats /\ c \notin todo'
      BY <1>a, <2>1, <2>4
    <3> QED
      BY <2>1, <3>3, <3>4 DEF Complete
  <2> QED
    BY <2>2, <2>3, <2>4
<1> QED
  BY <1>1, <1>2, <1>3, <1>4, <1>5, <1>6, Steps

(* OwnNoticeFirst for one stream.                                          *)
Ordered(s) ==
  \A i \in 1 .. Len(s) :
    s[i].type = "response" /\ s[i].chat > 0 => \E j \in 1 .. i - 1 : s[j] = Notice(s[i].chat)

LEMMA OrderedMeans == OwnNoticeFirst <=> \A c \in Clients : Ordered(stream[c])
  BY DEF OwnNoticeFirst, Ordered

(* A stream stays in order when a message is added that is no answer to an *)
(* append, or whose announcement is there.                                 *)
LEMMA AppendOrdered ==
  ASSUME NEW s \in Seq(Messages), NEW m \in Messages, Ordered(s),
         m.type = "response" /\ m.chat > 0 => \E j \in 1 .. Len(s) : s[j] = Notice(m.chat)
  PROVE  Ordered(Append(s, m))
<1> DEFINE r == Append(s, m)
<1>1. /\ r \in Seq(Messages) /\ Len(r) = Len(s) + 1 /\ Len(s) \in Nat
      /\ \A i \in 1 .. Len(s) : r[i] = s[i]
      /\ r[Len(s) + 1] = m
  BY AppendProperties, LenProperties
<1> HIDE DEF r
<1> SUFFICES ASSUME NEW i \in 1 .. Len(r), r[i].type = "response", r[i].chat > 0
             PROVE  \E j \in 1 .. i - 1 : r[j] = Notice(r[i].chat)
  BY DEF Ordered, r
<1>2. CASE i \in 1 .. Len(s)
  <2>1. r[i] = s[i]
    BY <1>1, <1>2
  <2>2. PICK j \in 1 .. i - 1 : s[j] = Notice(r[i].chat)
    BY <1>2, <2>1 DEF Ordered
  <2>3. j \in 1 .. Len(s)
    BY <1>1, <1>2, <2>2
  <2> QED
    BY <1>1, <2>2, <2>3
<1>3. CASE i = Len(s) + 1
  <2>1. PICK j \in 1 .. Len(s) : s[j] = Notice(m.chat)
    BY <1>1, <1>3
  <2>2. j \in 1 .. i - 1 /\ r[j] = s[j] /\ r[i] = m
    BY <1>1, <1>3, <2>1
  <2> QED
    BY <2>1, <2>2
<1> QED
  BY <1>1, <1>2, <1>3

(* What a stream holds, it holds after another message.                    *)
LEMMA AppendHolds ==
  ASSUME NEW s \in Seq(Messages), NEW m \in Messages, NEW x,
         x = m \/ \E j \in 1 .. Len(s) : s[j] = x
  PROVE  \E j \in 1 .. Len(Append(s, m)) : Append(s, m)[j] = x
<1> DEFINE r == Append(s, m)
<1>1. /\ Len(r) = Len(s) + 1 /\ Len(s) \in Nat
      /\ \A i \in 1 .. Len(s) : r[i] = s[i]
      /\ r[Len(s) + 1] = m
  BY AppendProperties, LenProperties
<1> HIDE DEF r
<1>2. Len(s) + 1 \in 1 .. Len(r) /\ \A j \in 1 .. Len(s) : j \in 1 .. Len(r)
  BY <1>1
<1>3. \E j \in 1 .. Len(r) : r[j] = x
  BY <1>1, <1>2
<1> QED
  BY <1>3 DEF r

(* A client is told of its own message before its append is answered.      *)
LEMMA OwnToldStep == LockInv /\ OwnTold /\ [Next]_vars => OwnTold'
<1> SUFFICES ASSUME LockInv, OwnTold, [Next]_vars, NEW c \in Clients,
                    peer'[c] # "gone", chat'[c] > 0,
                    at'[c] = "answer" \/ (at'[c] = "writing" /\ c \notin todo')
             PROVE  \E j \in 1 .. Len(stream'[c]) : stream'[c][j] = Notice(chat'[c])
  BY DEF OwnTold
<1> DEFINE Told == \E j \in 1 .. Len(stream[c]) : stream[c][j] = Notice(chat[c])
<1>a. /\ IPCTypeOK /\ c \in Tasks /\ at \in [Tasks -> Places] /\ chat \in [Tasks -> 0 .. MaxChats]
      /\ stream \in [Clients -> Seq(Messages)] /\ todo \subseteq clients
      /\ peer \in [Clients -> {"none", "open", "gone"}]
      /\ clients = {d \in Clients : at[d] \in Registered}
  BY TaskFacts DEF LockInv, IPCTypeOK, Registered
<1>b. ASSUME chat'[c] = chat[c], at'[c] = at[c] \/ (at[c] = "writing" /\ c \notin todo), c \in todo => c \in todo',
             peer'[c] = peer[c], stream'[c] = stream[c]
      PROVE  \E j \in 1 .. Len(stream'[c]) : stream'[c][j] = Notice(chat'[c])
  BY <1>b DEF OwnTold
<1>1. ASSUME NEW d \in Clients, Connect(d) PROVE at'[c] = at[c] /\ d # c
  BY <1>a, <1>1 DEF Connect, Go
<1>2. ASSUME NEW d \in Clients, Register(d) \/ Loop(d) \/ DecodeFails(d) \/ Unregister(d)
      PROVE  d # c /\ at'[c] = at[c] /\ chat'[c] = chat[c]
  BY <1>a, <1>2 DEF Register, Loop, DecodeFails, Unregister, Go
<1>3. ASSUME NEW d \in Clients, Decode(d) PROVE d # c /\ at'[c] = at[c] /\ chat'[c] = chat[c]
  <2>1. chat' = [chat EXCEPT ![d] = 0]
    BY <1>3 DEF Decode
  <2>2. d # c
    BY <1>a, <2>1
  <2>3. \E place : Go(d, place)
    BY <1>3 DEF Decode, Dispatch
  <2> QED
    BY <1>a, <2>1, <2>2, <2>3 DEF Go
<1>4. ASSUME NEW d \in Clients, Disconnect(d)
      PROVE  d # c /\ peer'[c] = peer[c] /\ stream'[c] = stream[c] /\ UNCHANGED <<at, chat, todo>>
  BY <1>a, <1>4 DEF Disconnect
<1>5. ASSUME NEW d \in Clients, Reject(d) \/ Answer(d)
      PROVE  d # c /\ at'[c] = at[c] /\ stream'[c] = stream[c] /\ UNCHANGED <<peer, chat, todo>>
  <2>1. \E m \in Messages : Encode(d, m) /\ UNCHANGED <<peer, chat, todo>>
    BY <1>5, AnswerWrites
  <2>2. \E place \in {"loop", "unregister"} : Go(d, place)
    BY <1>5 DEF Reject, Answer
  <2>3. d # c
    BY <1>a, <2>2 DEF Go
  <2> QED
    BY <1>a, <2>1, <2>2, <2>3, EncodeStep DEF Go
<1>6. ASSUME NEW t \in Tasks, BroadcastLock(t)
      PROVE  at'[c] = at[c] /\ chat'[c] = chat[c] /\ c \notin todo /\ UNCHANGED <<peer, stream>> /\ at[c] # "writing"
  <2>1. /\ at' = [at EXCEPT ![t] = "writing"] /\ chat' = [chat EXCEPT ![t] = chats + 1] /\ todo' = clients
        /\ at[t] = "broadcast" /\ mu = "free" /\ UNCHANGED <<peer, stream>>
    BY <1>6 DEF BroadcastLock, Go
  <2>2. t \in Clients => t \in todo'
    BY <1>a, <2>1 DEF Registered, Places
  <2>3. t # c
    BY <1>a, <2>1, <2>2
  <2> QED
    BY <1>a, <2>1, <2>3, TaskFacts DEF LockInv, Exclusive
<1>7. ASSUME NEW t \in Tasks, BroadcastUnlock(t)
      PROVE  /\ at'[c] = at[c] \/ (at[c] = "writing" /\ c \notin todo)
             /\ chat'[c] = chat[c] /\ UNCHANGED <<peer, stream, todo>>
  BY <1>a, <1>7 DEF BroadcastUnlock, Go
<1>8. ASSUME NEW t \in Tasks, NEW d \in todo, BroadcastWrite(t, d)
      PROVE  \E j \in 1 .. Len(stream'[c]) : stream'[c][j] = Notice(chat'[c])
  <2>1. /\ d \in Clients /\ mu = t /\ chat[t] = chats
        /\ Notice(chats) \in Messages /\ Encode(d, Notice(chats))
        /\ todo' = todo \ {d} /\ UNCHANGED <<peer, chat, at>>
    BY <1>8, BroadcastWrites
  <2>2. CASE d # c
    <3>1. stream'[c] = stream[c]
      BY <1>a, <2>1, <2>2, EncodeStep
    <3> QED
      BY <1>b, <2>1, <2>2, <3>1
  <2>3. CASE d = c
    <3>1. stream'[c] = Append(stream[c], Notice(chats)) /\ stream[c] \in Seq(Messages)
      BY <1>a, <2>1, <2>3, EncodeStep
    <3>2. CASE at[c] = "writing"
      <4>1. chat[c] = chats
        BY <1>a, <3>2 DEF LockInv, Exclusive
      <4> QED
        BY <2>1, <3>1, <4>1, AppendHolds
    <3>3. CASE at[c] = "answer"
      <4>1. Told
        BY <2>1, <3>3 DEF OwnTold
      <4> QED
        BY <2>1, <3>1, <4>1, AppendHolds
    <3> QED
      BY <2>1, <3>2, <3>3
  <2> QED
    BY <2>2, <2>3
<1>9. ASSUME NEW t \in Appenders, AppenderAppends(t) PROVE at'[c] = at[c] /\ UNCHANGED <<peer, stream, chat, todo>>
  BY <1>a, <1>9, TaskFacts DEF AppenderAppends, Go
<1>10. ASSUME NEW d \in Clients, Handle(d)
       PROVE  \E j \in 1 .. Len(stream'[c]) : stream'[c][j] = Notice(chat'[c])
  <2>1. CASE Register(d) \/ Loop(d) \/ DecodeFails(d) \/ Unregister(d)
    <3>1. UNCHANGED <<peer, stream, todo>>
      BY <2>1 DEF Register, Loop, DecodeFails, Unregister
    <3> QED
      BY <1>b, <1>2, <2>1, <3>1
  <2>2. CASE Decode(d)
    <3>1. UNCHANGED <<peer, stream, todo>>
      BY <2>2 DEF Decode
    <3> QED
      BY <1>b, <1>3, <2>2, <3>1
  <2>3. CASE Reject(d) \/ Answer(d)
    BY <1>b, <1>5, <2>3
  <2> QED
    BY <1>10, <2>1, <2>2, <2>3 DEF Handle
<1>11. ASSUME NEW d \in Clients, Connect(d)
       PROVE  \E j \in 1 .. Len(stream'[c]) : stream'[c][j] = Notice(chat'[c])
  <2>1. UNCHANGED <<chat, stream, todo>> /\ peer'[c] = peer[c]
    BY <1>a, <1>1, <1>11 DEF Connect
  <2> QED
    BY <1>b, <1>1, <1>11, <2>1
<1>12. CASE UNCHANGED vars \/ Cancel \/ \E d \in Clients : Send(d) \/ Receive(d)
  <2>1. UNCHANGED <<peer, at, chat, stream, todo>>
    BY <1>12 DEF vars, Cancel, Send, Receive
  <2> QED
    BY <1>b, <2>1
<1>13. ASSUME NEW t \in Tasks, BroadcastLock(t)
       PROVE  \E j \in 1 .. Len(stream'[c]) : stream'[c][j] = Notice(chat'[c])
  BY <1>b, <1>6, <1>13
<1>14. ASSUME NEW t \in Tasks, BroadcastUnlock(t)
       PROVE  \E j \in 1 .. Len(stream'[c]) : stream'[c][j] = Notice(chat'[c])
  BY <1>b, <1>7, <1>14
<1>15. ASSUME NEW d \in Clients, Disconnect(d)
       PROVE  \E j \in 1 .. Len(stream'[c]) : stream'[c][j] = Notice(chat'[c])
  BY <1>b, <1>4, <1>15
<1>16. ASSUME NEW t \in Appenders, AppenderAppends(t)
       PROVE  \E j \in 1 .. Len(stream'[c]) : stream'[c][j] = Notice(chat'[c])
  BY <1>b, <1>9, <1>16
<1> QED
  BY <1>8, <1>10, <1>11, <1>12, <1>13, <1>14, <1>15, <1>16 DEF Next, Broadcast

(* The streams stay in order.                                              *)
LEMMA OrderedStep ==
  ASSUME LockInv, OwnTold, [Next]_vars, NEW c \in Clients, Ordered(stream[c])
  PROVE  Ordered(stream'[c])
<1>a. IPCTypeOK /\ stream \in [Clients -> Seq(Messages)]
  BY DEF LockInv, IPCTypeOK
<1>1. ASSUME NEW d \in Clients, Disconnect(d) PROVE Ordered(stream'[c])
  <2>1. stream'[c] = stream[c] \/ stream'[c] = << >>
    BY <1>a, <1>1 DEF Disconnect
  <2> QED
    BY <2>1 DEF Ordered
<1>2. ASSUME NEW d \in Clients, Reject(d) \/ Answer(d) PROVE Ordered(stream'[c])
  <2>1. PICK m \in {Rejection, Response(chat[d])} :
          (m = Rejection \/ at[d] = "answer") /\ m \in Messages /\ Encode(d, m)
    BY <1>2, AnswerWrites
  <2>2. CASE stream'[c] = stream[c]
    BY <2>2
  <2>3. CASE d = c /\ peer[c] # "gone" /\ stream'[c] = Append(stream[c], m)
    <3>1. m.type = "response" /\ m.chat > 0 => \E j \in 1 .. Len(stream[c]) : stream[c][j] = Notice(m.chat)
      <4>1. m.type = "response" => m # Rejection /\ m.chat = chat[c]
        BY <2>1, <2>3 DEF Rejection, Response
      <4> QED
        BY <2>1, <2>3, <4>1 DEF OwnTold
    <3> QED
      BY <1>a, <2>1, <2>3, <3>1, AppendOrdered
  <2> QED
    BY <1>a, <2>1, <2>2, <2>3, EncodeStep
<1>3. ASSUME NEW t \in Tasks, NEW d \in todo, BroadcastWrite(t, d) PROVE Ordered(stream'[c])
  <2>1. d \in Clients /\ Notice(chats) \in Messages /\ Encode(d, Notice(chats))
    BY <1>3, BroadcastWrites
  <2>2. stream'[c] = stream[c] \/ stream'[c] = Append(stream[c], Notice(chats))
    BY <1>a, <2>1, EncodeStep
  <2>3. Notice(chats).type # "response"
    BY DEF Notice
  <2> QED
    BY <1>a, <2>1, <2>2, <2>3, AppendOrdered
<1>4. CASE Silent \/ (\E d \in Clients : Register(d)) \/ \E t \in Tasks : BroadcastLock(t)
  BY <1>4 DEF Silent, Register, BroadcastLock
<1> QED
  BY <1>1, <1>2, <1>3, <1>4, Steps

-----------------------------------------------------------------------------
(* The theorems *)

IPCInv == LockInv /\ OwnTold /\ OwnNoticeFirst /\ \A c \in Clients : Complete(c)

(* All of it holds at the start.                                           *)
LEMMA IPCInit == Init => IPCInv
<1> SUFFICES ASSUME Init PROVE IPCInv
  OBVIOUS
<1>a. 0 \in 0 .. MaxChats /\ 0 \in Nat
  BY TaskFacts
<1>1. IPCTypeOK
  <2>1. /\ at \in [Tasks -> Places] /\ \A t \in Tasks : at[t] = "none"
    BY DEF Init, Places
  <2>2. /\ inbox \in [Clients -> Seq(Commands)] /\ outbox \in [Clients -> Seq(Messages)]
        /\ stream \in [Clients -> Seq(Messages)]
    BY EmptySeq DEF Init
  <2>3. \A c \in Clients : Len(outbox[c]) <= OutCap
    BY TaskFacts, EmptySeq DEF Init
  <2>4. sent \in [Clients -> Nat] /\ \A c \in Clients : sent[c] <= Len(Sends[c])
    BY <1>a, TaskFacts, LenProperties DEF Init
  <2>5. /\ since \in [Clients -> 0 .. MaxChats] /\ served \in [Clients -> 0 .. MaxChats]
        /\ chat \in [Tasks -> 0 .. MaxChats] /\ chats \in 0 .. MaxChats
        /\ cancelled \in BOOLEAN /\ peer \in [Clients -> {"none", "open", "gone"}]
        /\ authenticated \in [Clients -> BOOLEAN] /\ mu = "free" /\ todo = {} /\ clients = {}
    BY <1>a DEF Init
  <2>6. clients = {c \in Clients : at[c] \in Places \ {"none", "register", "done"}}
    BY <2>1, <2>5, TaskFacts
  <2> QED
    BY <2>1, <2>2, <2>3, <2>4, <2>5, <2>6, TaskFacts DEF IPCTypeOK
<1>2. Exclusive /\ Newcomers /\ OwnTold
  BY <1>a, TaskFacts DEF Init, Exclusive, Newcomers, OwnTold
<1>3. RoomForChats
  <2>1. Announcing = {} /\ chats = 0
    BY DEF Announcing, Init
  <2> QED
    BY <2>1, FS_EmptySet, TaskFacts DEF RoomForChats
<1>4. \A c \in Clients : stream[c] = << >> /\ since[c] = 0 /\ chats = 0 /\ clients = {}
  BY DEF Init
<1>5. OwnNoticeFirst
  BY <1>4 DEF OwnNoticeFirst
<1>6. ASSUME NEW c \in Clients PROVE Complete(c)
  <2>1. 0 + 1 .. 0 = {} /\ 0 \in 0 .. 0
    OBVIOUS
  <2> QED
    BY <1>4, <2>1, EmptyStream DEF Complete
<1> QED
  BY <1>1, <1>2, <1>3, <1>5, <1>6 DEF IPCInv, LockInv

(* Every step keeps all of it.                                             *)
LEMMA IPCStep == IPCInv /\ [Next]_vars => IPCInv'
<1> SUFFICES ASSUME IPCInv, [Next]_vars PROVE IPCInv'
  OBVIOUS
<1>a. LockInv /\ OwnTold /\ OwnNoticeFirst /\ \A c \in Clients : Complete(c)
  BY DEF IPCInv
<1>1. LockInv' /\ OwnTold'
  BY <1>a, LockStep, OwnToldStep
<1>2. \A c \in Clients : Ordered(stream'[c])
  BY <1>a, OrderedMeans, OrderedStep
<1>3. \A c \in Clients : Complete(c)'
  BY <1>a, CompleteStep
<1>4. OwnNoticeFirst'
  BY <1>2 DEF OwnNoticeFirst, Ordered
<1> QED
  BY <1>1, <1>3, <1>4 DEF IPCInv

(* The variables keep their types; in particular only one goroutine at a   *)
(* time is in the loop of Broadcast, and the registry holds the handlers   *)
(* that run.                                                               *)
THEOREM IPCTypes == Spec => []IPCTypeOK
<1>1. IPCInv => IPCTypeOK
  BY DEF IPCInv, LockInv
<1> QED
  BY <1>1, IPCInit, IPCStep, PTL DEF Spec

(* A connected client is told of every message announced since it was      *)
(* authenticated and of none from before it was registered, each once and  *)
(* in one order for all, whoever else announces, connects, disconnects or  *)
(* stops reading.                                                          *)
THEOREM CompleteNotices == Spec => []NoticesAreComplete
<1>1. IPCInv => NoticesAreComplete
  BY CompleteMeans DEF IPCInv
<1> QED
  BY <1>1, IPCInit, IPCStep, PTL DEF Spec

(* A client reads the announcement of its own message before the answer to *)
(* the append_block that made it.                                          *)
THEOREM OwnFirst == Spec => []OwnNoticeFirst
<1>1. IPCInv => OwnNoticeFirst
  BY DEF IPCInv
<1> QED
  BY <1>1, IPCInit, IPCStep, PTL DEF Spec
=============================================================================
