---------------------------- MODULE SwarmProofs ----------------------------
(* Proofs about module Swarm, for every number of DHT nodes, of other      *)
(* members, of commands and of restarts.                                   *)
EXTENDS Swarm, FiniteSetTheorems, TLAPS

(* The goroutines of startReannounce that have not returned.               *)
Active == {l \in Loops : at[l] # "idle"}

(* A goroutine that is cancelled has not returned, and each was cancelled  *)
(* by a leave: so a name is free for a new one.                            *)
CancelledByLeaves ==
  /\ cancelled \subseteq Active
  /\ IsFiniteSet(cancelled) /\ Cardinality(cancelled) <= leaves

(* No goroutine outlives the process.                                      *)
DownIsIdle == ~up => \A c \in Callers : at[c] = "idle"

LoopInv == SwarmTypeOK /\ OneReannouncer /\ CancelledByLeaves /\ DownIsIdle

(* Where the client and the goroutine of rehydrateSwarms are when the      *)
(* gateway is in its own registry and is announced.                        *)
ClientAnnounced ==
  /\ at[Client] \in {"find", "announced", "lookup"} => Me \in local
  /\ at[Client] = "lookup" => announces # "none"
  /\ at[Client] \in {"leave", "left"} => joined = "no"

JoinedInv ==
  joined # "no" =>
    /\ up \/ joined # "unsaved"
    /\ joined # "unsaved" => db
    /\ up /\ joined # "dormant" =>
         /\ at[Rehydrate] = "announce" \/ Me \in local
         /\ Rehydrating \/ announces # "none"

StayInv == ClientAnnounced /\ JoinedInv

-----------------------------------------------------------------------------
(* Types *)

(* The callers are told apart.                                             *)
LEMMA CallerFacts ==
  /\ Client \in Callers /\ Rehydrate \in Callers /\ Loops \subseteq Callers
  /\ Client # Rehydrate /\ Client \notin Loops /\ Rehydrate \notin Loops
  /\ "nobody" \notin Callers /\ "none" \notin Loops
  /\ Me \in Addrs /\ Others \subseteq Addrs
  /\ MaxLeaves \in Nat /\ MaxExits \in Nat
  /\ IsFiniteSet(Loops) /\ Cardinality(Loops) > MaxLeaves
  BY SwarmAssumption DEF Callers, Addrs

USE DEF store, loopVars, ghosts

(* Packets of callers that stopped waiting are packets.                    *)
LEMMA AbandonedType ==
  ASSUME net \subseteq Packets, NEW S
  PROVE  Abandoned(S) \subseteq Packets
<1> SUFFICES ASSUME NEW p \in net
             PROVE  (IF p.by \in S THEN [p EXCEPT !.by = "nobody"] ELSE p) \in Packets
  BY DEF Abandoned
<1>1. p \in Packets
  OBVIOUS
<1> QED
  BY <1>1 DEF Packets

(* A caller moves on to a place where nothing is awaited.                  *)
LEMMA GoType ==
  ASSUME SwarmTypeOK, NEW c \in Callers, NEW place \in Places, Go(c, place), UNCHANGED wait,
         place \in {"announced", "left"} \/ wait[c] = {}
  PROVE  at' \in [Callers -> Places] /\ \A d \in Callers : at'[d] \notin {"announced", "left"} => wait'[d] = {}
  BY DEF SwarmTypeOK, Go

(* The free names: one is left when a goroutine is to be made.             *)
LEMMA FreeName ==
  ASSUME LoopInv, announces = "none"
  PROVE  NewLoop \in Loops /\ at[NewLoop] = "idle"
<1>1. Active \subseteq cancelled
  BY DEF LoopInv, OneReannouncer, Active
<1>2. cancelled # Loops
  <2>1. Cardinality(cancelled) <= leaves /\ leaves \in Nat /\ leaves <= MaxLeaves /\ IsFiniteSet(cancelled)
    BY CallerFacts DEF LoopInv, CancelledByLeaves, SwarmTypeOK
  <2>2. Cardinality(cancelled) \in Nat /\ Cardinality(Loops) \in Nat
    BY <2>1, CallerFacts, FS_CardinalityType
  <2> QED
    BY <2>1, <2>2, CallerFacts
<1>3. \E l \in Loops : at[l] = "idle"
  BY <1>1, <1>2 DEF LoopInv, SwarmTypeOK, Active
<1> QED
  BY <1>3 DEF NewLoop

(* The types hold at the start.                                            *)
LEMMA SwarmTypeInit == Init => SwarmTypeOK
<1> SUFFICES ASSUME Init PROVE SwarmTypeOK
  OBVIOUS
<1>1. /\ at \in [Callers -> Places] /\ wait \in [Callers -> SUBSET Nodes]
      /\ \A c \in Callers : wait[c] = {}
      /\ listed \in [Nodes -> BOOLEAN]
  BY DEF Init, Places
<1>2. 0 \in 0 .. MaxLeaves /\ 0 \in 0 .. MaxExits
  BY CallerFacts
<1> QED
  BY <1>1, <1>2 DEF Init, SwarmTypeOK

(* Every step keeps them.                                                  *)
LEMMA SwarmTypeStep == LoopInv /\ [Next]_vars => SwarmTypeOK'
<1> SUFFICES ASSUME LoopInv, [Next]_vars PROVE SwarmTypeOK'
  OBVIOUS
<1>a. SwarmTypeOK
  BY DEF LoopInv
<1>1. CASE Start
  <2>1. at' \in [Callers -> Places] /\ \A c \in Callers : at'[c] \notin {"announced", "left"} => wait'[c] = {}
    <3>1. CASE at' = at
      BY <1>1, <1>a, <3>1 DEF Start, SwarmTypeOK
    <3>2. CASE at' = [at EXCEPT ![Rehydrate] = "announce"]
      <4>1. at[Rehydrate] = "idle"
        BY <1>1, CallerFacts DEF Start, LoopInv, DownIsIdle
      <4> QED
        BY <1>1, <1>a, <3>2, <4>1, CallerFacts DEF Start, SwarmTypeOK, Places
    <3> QED
      BY <1>1, <3>1, <3>2 DEF Start
  <2>2. joined' \in {"no", "saved", "unsaved", "dormant"}
    BY <1>1 DEF Start
  <2> QED
    BY <1>1, <1>a, <2>1, <2>2 DEF Start, SwarmTypeOK
<1>2. CASE Exit
  <2>1. net' \subseteq Packets
    BY <1>2, <1>a, AbandonedType DEF Exit, SwarmTypeOK
  <2>2. exits' \in 0 .. MaxExits
    BY <1>2, <1>a, CallerFacts DEF Exit, SwarmTypeOK
  <2> QED
    BY <1>2, <1>a, <2>1, <2>2, CallerFacts DEF Exit, SwarmTypeOK, Places
<1>3. CASE JoinSwarm
  <2>1. at' \in [Callers -> Places] /\ \A c \in Callers : at'[c] \notin {"announced", "left"} => wait'[c] = {}
    BY <1>3, <1>a, CallerFacts, GoType DEF JoinSwarm, SwarmTypeOK, Places
  <2>2. db' \in BOOLEAN /\ reg' \subseteq Addrs \cup {Client}
    BY <1>3, <1>a DEF JoinSwarm, RegisterSwarm, RegisterPeer, SwarmTypeOK
  <2> QED
    BY <1>3, <1>a, <2>1, <2>2 DEF JoinSwarm, SwarmTypeOK
<1>4. CASE LeaveSwarm
  <2>1. at' \in [Callers -> Places] /\ \A c \in Callers : at'[c] \notin {"announced", "left"} => wait'[c] = {}
    BY <1>4, <1>a, CallerFacts, GoType DEF LeaveSwarm, SwarmTypeOK, Places
  <2>2. leaves' \in 0 .. MaxLeaves
    BY <1>4, <1>a, CallerFacts DEF LeaveSwarm, SwarmTypeOK
  <2> QED
    BY <1>4, <1>a, <2>1, <2>2 DEF LeaveSwarm, SwarmTypeOK
<1>5. ASSUME NEW c \in Callers, Proceed(c) PROVE SwarmTypeOK'
  <2>1. CASE Announce(c) \/ (c \in Loops /\ Tick(c))
    <3>1. at' \in [Callers -> Places] /\ \A d \in Callers : at'[d] \notin {"announced", "left"} => wait'[d] = {}
      BY <2>1, <1>a, GoType DEF Announce, Tick, SwarmTypeOK, Places
    <3>2. local' \subseteq Addrs
      BY <2>1, <1>a, CallerFacts DEF Announce, Tick, RegisterPeer, SwarmTypeOK
    <3> QED
      BY <2>1, <1>a, <3>1, <3>2 DEF Announce, Tick, SwarmTypeOK
  <2>2. CASE SendTimeout(c)
    <3>1. net' \subseteq Packets
      BY <2>2, <1>a, AbandonedType DEF SendTimeout, GiveUp, SwarmTypeOK
    <3> QED
      BY <2>2, <1>a, <3>1 DEF SendTimeout, GiveUp, SwarmTypeOK
  <2>3. CASE StartReannounce(c)
    <3>1. AfterAnnounce(c) \in {"ticking", "lookup"}
      BY DEF AfterAnnounce
    <3>2. announces' \in Loops \cup {"none"}
      BY <2>3, <1>a, FreeName DEF StartReannounce, SwarmTypeOK
    <3>3. at' \in [Callers -> Places] /\ \A d \in Callers : at'[d] \notin {"announced", "left"} => wait'[d] = {}
      <4>1. CASE announces # "none"
        BY <2>3, <1>a, <3>1, <4>1, GoType DEF StartReannounce, SwarmTypeOK, Places
      <4>2. CASE announces = "none"
        <5>1. NewLoop \in Loops /\ at[NewLoop] = "idle"
          BY <4>2, FreeName
        <5>2. at' = [at EXCEPT ![c] = AfterAnnounce(c), ![NewLoop] = "ticking"] /\ wait' = wait /\ wait[c] = {}
          BY <2>3, <4>2 DEF StartReannounce
        <5>3. wait[NewLoop] = {} /\ NewLoop \in Callers
          BY <5>1, <1>a, CallerFacts DEF SwarmTypeOK
        <5> HIDE DEF NewLoop
        <5>4. at' \in [Callers -> Places]
          BY <5>2, <3>1, <1>a DEF SwarmTypeOK, Places
        <5>5. \A d \in Callers : d # c /\ d # NewLoop => at'[d] = at[d]
          BY <5>2, <1>a DEF SwarmTypeOK
        <5> QED
          BY <5>2, <5>3, <5>4, <5>5, <1>a DEF SwarmTypeOK
      <4> QED
        BY <4>1, <4>2
    <3> QED
      BY <2>3, <1>a, <3>2, <3>3 DEF StartReannounce, SwarmTypeOK
  <2>4. ASSUME NEW closest \in IterativeFindNode, NEW kind \in {"announce", "leave"},
               NEW place \in {"announced", "left"}, SendRequests(c, kind, closest, place),
               UNCHANGED <<up, store, loopVars, listed, ghosts>>
        PROVE  SwarmTypeOK'
    <3>1. net' \subseteq Packets
      <4>1. \A n \in closest : [kind |-> kind, node |-> n, by |-> c] \in Packets
        BY <2>4 DEF Packets, IterativeFindNode
      <4> QED
        BY <2>4, <4>1, <1>a DEF SendRequests, SwarmTypeOK
    <3>2. at' \in [Callers -> Places] /\ wait' \in [Callers -> SUBSET Nodes]
      BY <2>4, <1>a DEF SendRequests, Go, SwarmTypeOK, Places, IterativeFindNode
    <3>3. \A d \in Callers : at'[d] \notin {"announced", "left"} => wait'[d] = {}
      BY <2>4, <1>a DEF SendRequests, Go, SwarmTypeOK
    <3> QED
      BY <2>4, <1>a, <3>1, <3>2, <3>3 DEF SwarmTypeOK
  <2>5. ASSUME NEW closest \in IterativeFindNode, SendAnnounces(c, closest) PROVE SwarmTypeOK'
    BY <2>4, <2>5 DEF SendAnnounces
  <2>6. ASSUME NEW closest \in IterativeFindNode, SendLeaves(closest), c = Client PROVE SwarmTypeOK'
    BY <2>4, <2>6 DEF SendLeaves
  <2>7. CASE JoinReturns
    <3>1. at' \in [Callers -> Places] /\ \A d \in Callers : at'[d] \notin {"announced", "left"} => wait'[d] = {}
      BY <2>7, <1>a, CallerFacts, GoType DEF JoinReturns, SwarmTypeOK, Places
    <3>2. reg' \subseteq Addrs \cup {Client}
      BY <2>7, <1>a, CallerFacts DEF JoinReturns, Lookup, SwarmTypeOK
    <3> QED
      BY <2>7, <1>a, <3>1, <3>2 DEF JoinReturns, SwarmTypeOK
  <2>8. CASE LeaveReturns
    <3>1. at' \in [Callers -> Places] /\ \A d \in Callers : at'[d] \notin {"announced", "left"} => wait'[d] = {}
      BY <2>8, <1>a, CallerFacts, GoType DEF LeaveReturns, SwarmTypeOK, Places
    <3> QED
      BY <2>8, <1>a, <3>1 DEF LeaveReturns, ClearSwarm, UnregisterSwarm, SwarmTypeOK
  <2>9. CASE RehydrateReturns
    <3>1. at' \in [Callers -> Places] /\ \A d \in Callers : at'[d] \notin {"announced", "left"} => wait'[d] = {}
      BY <2>9, <1>a, CallerFacts, GoType DEF RehydrateReturns, SwarmTypeOK, Places
    <3>2. local' \subseteq Addrs
      BY <2>9, <1>a, CallerFacts DEF RehydrateReturns, Lookup, SwarmTypeOK
    <3> QED
      BY <2>9, <1>a, <3>1, <3>2 DEF RehydrateReturns, SwarmTypeOK
  <2> QED
    BY <1>5, <2>1, <2>2, <2>3, <2>5, <2>6, <2>7, <2>8, <2>9 DEF Proceed
<1>6. ASSUME NEW l \in Loops, LoopReturns(l) PROVE SwarmTypeOK'
  <2>1. at' \in [Callers -> Places] /\ \A d \in Callers : at'[d] \notin {"announced", "left"} => wait'[d] = {}
    BY <1>6, <1>a, CallerFacts, GoType DEF LoopReturns, SwarmTypeOK, Places
  <2> QED
    BY <1>6, <1>a, <2>1 DEF LoopReturns, SwarmTypeOK
<1>7. ASSUME NEW p \in net, NodeHandles(p) PROVE SwarmTypeOK'
  <2>1. wait' \in [Callers -> SUBSET Nodes] /\ \A d \in Callers : wait'[d] \subseteq wait[d]
    BY <1>7, <1>a DEF NodeHandles, AnswerArrives, SwarmTypeOK, Packets
  <2>2. listed' \in [Nodes -> BOOLEAN]
    BY <1>7, <1>a DEF NodeHandles, SwarmTypeOK
  <2>3. \A d \in Callers : at'[d] \notin {"announced", "left"} => wait'[d] = {}
    BY <1>7, <1>a, <2>1 DEF NodeHandles, SwarmTypeOK
  <2> QED
    BY <1>7, <1>a, <2>1, <2>2, <2>3 DEF NodeHandles, SwarmTypeOK
<1>8. ASSUME NEW p \in net, Lose(p) PROVE SwarmTypeOK'
  BY <1>8, <1>a DEF Lose, SwarmTypeOK
<1>9. ASSUME NEW a \in Others, PeerAnnounces(a) \/ PeerLeaves(a) PROVE SwarmTypeOK'
  <2>1. local' \subseteq Addrs
    BY <1>9, <1>a, CallerFacts DEF PeerAnnounces, PeerLeaves, RegisterPeer, UnregisterHost, SwarmTypeOK
  <2> QED
    BY <1>9, <1>a, <2>1 DEF PeerAnnounces, PeerLeaves, SwarmTypeOK
<1>10. CASE UNCHANGED vars
  BY <1>10, <1>a DEF vars, SwarmTypeOK
<1> QED
  BY <1>1, <1>2, <1>3, <1>4, <1>5, <1>6, <1>7, <1>8, <1>9, <1>10 DEF Next

-----------------------------------------------------------------------------
(* Goroutines of startReannounce *)

(* A caller that goes on, or does something that is no loop's business,    *)
(* leaves the goroutines as they are.                                      *)
LEMMA SameActive ==
  ASSUME SwarmTypeOK, NEW c \in Callers, NEW place, Go(c, place),
         c \in Loops => at[c] # "idle" /\ place # "idle"
  PROVE  Active' = Active
<1>1. \A l \in Loops : at'[l] = IF l = c THEN place ELSE at[l]
  BY CallerFacts DEF Go, SwarmTypeOK
<1> QED
  BY <1>1 DEF Active

(* What every step does to the goroutines.                                 *)
LEMMA ActiveSteps ==
  ASSUME LoopInv, [Next]_vars
  PROVE  \/ UNCHANGED <<announces, cancelled>> /\ Active' = Active
         \/ Exit
         \/ LeaveSwarm /\ Active' = Active
         \/ /\ announces = "none" /\ announces' \in Loops \ Active
            /\ Active' = Active \cup {announces'} /\ UNCHANGED cancelled
         \/ \E l \in cancelled : /\ Active' = Active \ {l} /\ cancelled' = cancelled \ {l}
                                 /\ UNCHANGED announces
<1>a. SwarmTypeOK
  BY DEF LoopInv
<1>b. UNCHANGED at => Active' = Active
  BY DEF Active
<1>1. CASE Start
  <2>1. CASE UNCHANGED at
    BY <1>1, <1>b, <2>1 DEF Start
  <2>2. CASE Go(Rehydrate, "announce")
    BY <1>1, <1>a, <2>2, CallerFacts, SameActive DEF Start
  <2> QED
    BY <1>1, <2>1, <2>2 DEF Start, Go
<1>2. CASE JoinSwarm \/ JoinReturns \/ LeaveReturns \/ RehydrateReturns \/ LeaveSwarm
  <2>1. \E c \in {Client, Rehydrate}, place \in Places : Go(c, place)
    BY <1>2 DEF JoinSwarm, JoinReturns, LeaveReturns, RehydrateReturns, LeaveSwarm, Places
  <2>2. Active' = Active
    BY <1>a, <2>1, CallerFacts, SameActive
  <2> QED
    BY <1>2, <2>2 DEF JoinSwarm, JoinReturns, LeaveReturns, RehydrateReturns
<1>3. ASSUME NEW c \in Callers,
             \/ Announce(c) \/ Tick(c)
             \/ \E closest \in IterativeFindNode : SendAnnounces(c, closest)
             \/ c = Client /\ \E closest \in IterativeFindNode : SendLeaves(closest)
      PROVE  UNCHANGED <<announces, cancelled>> /\ Active' = Active
  <2>1. \E place : Go(c, place) /\ place # "idle" /\ at[c] # "idle"
    BY <1>3 DEF Announce, Tick, SendAnnounces, SendLeaves, SendRequests
  <2>2. Active' = Active
    BY <1>a, <2>1, SameActive
  <2> QED
    BY <1>3, <2>2 DEF Announce, Tick, SendAnnounces, SendLeaves
<1>4. ASSUME NEW c \in Callers, StartReannounce(c)
      PROVE  \/ UNCHANGED <<announces, cancelled>> /\ Active' = Active
             \/ /\ announces = "none" /\ announces' \in Loops \ Active
                /\ Active' = Active \cup {announces'} /\ UNCHANGED cancelled
  <2>1. AfterAnnounce(c) # "idle" /\ at[c] = "announced"
    BY <1>4 DEF AfterAnnounce, StartReannounce
  <2>2. CASE announces # "none"
    BY <1>a, <1>4, <2>1, <2>2, SameActive DEF StartReannounce
  <2>3. CASE announces = "none"
    <3>1. NewLoop \in Loops /\ at[NewLoop] = "idle"
      BY <2>3, FreeName
    <3>2. /\ announces' = NewLoop /\ UNCHANGED cancelled
          /\ at' = [at EXCEPT ![c] = AfterAnnounce(c), ![NewLoop] = "ticking"]
      BY <1>4, <2>3 DEF StartReannounce
    <3> HIDE DEF NewLoop
    <3>3. \A l \in Loops : at'[l] = IF l = NewLoop THEN "ticking" ELSE IF l = c THEN AfterAnnounce(c) ELSE at[l]
      BY <1>a, <3>2, CallerFacts DEF SwarmTypeOK
    <3>4. Active' = Active \cup {NewLoop} /\ NewLoop \notin Active
      BY <2>1, <3>1, <3>3 DEF Active
    <3> QED
      BY <2>3, <3>1, <3>2, <3>4
  <2> QED
    BY <2>2, <2>3
<1>5. ASSUME NEW l \in Loops, LoopReturns(l)
      PROVE  l \in cancelled /\ Active' = Active \ {l} /\ cancelled' = cancelled \ {l} /\ UNCHANGED announces
  <2>1. \A m \in Loops : at'[m] = IF m = l THEN "idle" ELSE at[m]
    BY <1>a, <1>5, CallerFacts DEF LoopReturns, Go, SwarmTypeOK
  <2>2. Active' = Active \ {l}
    BY <2>1 DEF Active
  <2> QED
    BY <1>5, <2>2 DEF LoopReturns
<1>6. ASSUME NEW c \in Callers, SendTimeout(c) PROVE UNCHANGED <<announces, cancelled, at>>
  BY <1>6 DEF SendTimeout, GiveUp
<1>7. ASSUME NEW p \in net, NodeHandles(p) \/ Lose(p) PROVE UNCHANGED <<announces, cancelled, at>>
  BY <1>7 DEF NodeHandles, Lose
<1>8. ASSUME NEW a \in Others, PeerAnnounces(a) \/ PeerLeaves(a)
      PROVE  UNCHANGED <<announces, cancelled, at>>
  BY <1>8 DEF PeerAnnounces, PeerLeaves
<1>9. CASE UNCHANGED vars
  BY <1>9, <1>b DEF vars
<1> QED
  BY <1>b, <1>1, <1>2, <1>3, <1>4, <1>5, <1>6, <1>7, <1>8, <1>9 DEF Next, Proceed

(* Every step keeps the goroutines in hand.                                *)
LEMMA LoopStep == LoopInv /\ [Next]_vars => LoopInv'
<1> SUFFICES ASSUME LoopInv, [Next]_vars PROVE LoopInv'
  OBVIOUS
<1>a. /\ SwarmTypeOK /\ Active \ cancelled = {announces} \ {"none"}
      /\ cancelled \subseteq Active /\ IsFiniteSet(cancelled) /\ Cardinality(cancelled) <= leaves
  BY DEF LoopInv, OneReannouncer, CancelledByLeaves, Active
<1>b. SwarmTypeOK'
  BY SwarmTypeStep
<1>c. announces \in Loops \cup {"none"} /\ leaves \in Nat
  BY <1>a, CallerFacts DEF SwarmTypeOK
<1>1. Active' \ cancelled' = {announces'} \ {"none"} /\ cancelled' \subseteq Active'
  <2>1. CASE Exit
    <3>1. at' = [c \in Callers |-> "idle"] /\ cancelled' = {} /\ announces' = "none"
      BY <2>1 DEF Exit
    <3>2. Active' = {}
      BY <3>1, CallerFacts DEF Active
    <3> QED
      BY <3>1, <3>2
  <2>2. CASE LeaveSwarm /\ Active' = Active
    <3>1. announces' = "none" /\ cancelled' = cancelled \cup (Loops \cap {announces})
      BY <2>2 DEF LeaveSwarm
    <3>2. CASE announces = "none"
      <4>1. Active \ cancelled = {} /\ cancelled' = cancelled
        BY <1>a, <3>1, <3>2, CallerFacts
      <4> QED
        BY <1>a, <2>2, <3>1, <4>1
    <3>3. CASE announces # "none"
      <4>1. Active \ cancelled = {announces} /\ cancelled' = cancelled \cup {announces}
        BY <1>a, <1>c, <3>1, <3>3
      <4> QED
        BY <1>a, <2>2, <3>1, <4>1
    <3> QED
      BY <3>2, <3>3
  <2>3. CASE /\ announces = "none" /\ announces' \in Loops \ Active
             /\ Active' = Active \cup {announces'} /\ UNCHANGED cancelled
    BY <1>a, <2>3, CallerFacts
  <2>4. ASSUME NEW l \in cancelled, Active' = Active \ {l}, cancelled' = cancelled \ {l}, UNCHANGED announces
        PROVE  Active' \ cancelled' = {announces'} \ {"none"} /\ cancelled' \subseteq Active'
    BY <1>a, <2>4
  <2> QED
    BY <1>a, <2>1, <2>2, <2>3, <2>4, ActiveSteps
<1>2. IsFiniteSet(cancelled') /\ Cardinality(cancelled') <= leaves'
  <2>0. Cardinality(cancelled) \in Nat
    BY <1>a, FS_CardinalityType
  <2>1. CASE Exit
    <3>1. cancelled' = {} /\ leaves' = leaves
      BY <2>1 DEF Exit
    <3> QED
      BY <1>c, <3>1, FS_EmptySet
  <2>2. CASE LeaveSwarm
    <3>1. leaves' = leaves + 1 /\ \E l : cancelled' = cancelled \cup {l} \/ cancelled' = cancelled
      <4>1. cancelled' = cancelled \cup (Loops \cap {announces})
        BY <2>2 DEF LeaveSwarm
      <4>2. Loops \cap {announces} = {announces} \/ Loops \cap {announces} = {}
        OBVIOUS
      <4>3. leaves' = leaves + 1
        BY <2>2 DEF LeaveSwarm
      <4>4. cancelled' = cancelled \cup {announces} \/ cancelled' = cancelled
        BY <4>1, <4>2
      <4> QED
        BY <4>3, <4>4
    <3>2. CASE cancelled' = cancelled
      <4>1. Cardinality(cancelled) <= leaves + 1
        BY <1>a, <1>c, <2>0
      <4> QED
        BY <1>a, <3>1, <3>2, <4>1
    <3>3. ASSUME NEW l, cancelled' = cancelled \cup {l}
          PROVE  IsFiniteSet(cancelled') /\ Cardinality(cancelled') <= leaves'
      <4>1. /\ IsFiniteSet(cancelled \cup {l})
            /\ Cardinality(cancelled \cup {l}) = Cardinality(cancelled)
                 \/ Cardinality(cancelled \cup {l}) = Cardinality(cancelled) + 1
        BY <1>a, FS_AddElement
      <4> QED
        BY <1>a, <1>c, <2>0, <3>1, <3>3, <4>1
    <3> QED
      BY <3>1, <3>2, <3>3
  <2>3. ASSUME ~Exit, ~LeaveSwarm PROVE leaves' = leaves
    BY <2>3 DEF Next, vars, Start, JoinSwarm, Proceed, Announce, SendTimeout, GiveUp, StartReannounce,
                SendAnnounces, Tick, JoinReturns, LeaveReturns, SendLeaves, RehydrateReturns, LoopReturns,
                NodeHandles, Lose, PeerAnnounces, PeerLeaves
  <2>4. ASSUME NEW l \in cancelled, cancelled' = cancelled \ {l}
        PROVE  IsFiniteSet(cancelled') /\ Cardinality(cancelled') <= Cardinality(cancelled)
    <3>1. cancelled' \in SUBSET cancelled
      BY <2>4
    <3> QED
      BY <1>a, <3>1, FS_Subset
  <2>5. CASE UNCHANGED cancelled
    BY <1>a, <2>1, <2>2, <2>3, <2>5
  <2>6. ASSUME ~Exit, ~LeaveSwarm, NEW l \in cancelled, cancelled' = cancelled \ {l}
        PROVE  IsFiniteSet(cancelled') /\ Cardinality(cancelled') <= leaves'
    <3>1. IsFiniteSet(cancelled') /\ Cardinality(cancelled') <= Cardinality(cancelled)
      BY <2>4, <2>6
    <3>2. Cardinality(cancelled') \in Nat
      BY <3>1, FS_CardinalityType
    <3> QED
      BY <1>a, <1>c, <2>0, <2>3, <2>6, <3>1, <3>2
  <2> QED
    BY <2>1, <2>2, <2>5, <2>6, ActiveSteps
<1>3. DownIsIdle'
  <2>1. CASE Exit
    BY <2>1 DEF Exit, DownIsIdle
  <2>2. CASE ~up /\ ~Exit /\ ~up'
    <3>1. \A c \in Callers : at[c] = "idle"
      BY <2>2 DEF LoopInv, DownIsIdle
    <3>2. UNCHANGED at
      BY <2>2, <3>1, CallerFacts DEF Next, vars, Start, JoinSwarm, LeaveSwarm, Proceed, Announce, SendTimeout, GiveUp,
            StartReannounce, SendAnnounces, Tick, JoinReturns, LeaveReturns, SendLeaves, RehydrateReturns,
            LoopReturns, NodeHandles, Lose, PeerAnnounces, PeerLeaves
    <3> QED
      BY <3>1, <3>2 DEF DownIsIdle
  <2>3. ASSUME up, ~Exit PROVE up'
    BY <2>3 DEF Next, vars, Start, JoinSwarm, LeaveSwarm, Proceed, Announce, SendTimeout, GiveUp,
          StartReannounce, SendAnnounces, Tick, JoinReturns, LeaveReturns, SendLeaves, RehydrateReturns,
          LoopReturns, NodeHandles, Lose, PeerAnnounces, PeerLeaves
  <2> QED
    BY <2>1, <2>2, <2>3 DEF DownIsIdle
<1> QED
  BY <1>b, <1>1, <1>2, <1>3 DEF LoopInv, OneReannouncer, CancelledByLeaves, Active

(* It holds at the start.                                                  *)
LEMMA LoopInit == Init => LoopInv
<1> SUFFICES ASSUME Init PROVE LoopInv
  OBVIOUS
<1>1. Active = {}
  BY CallerFacts DEF Init, Active
<1>2. IsFiniteSet({}) /\ Cardinality({}) = 0
  BY FS_EmptySet
<1> QED
  BY <1>1, <1>2, SwarmTypeInit DEF Init, LoopInv, OneReannouncer, CancelledByLeaves, DownIsIdle, Active

(* The variables keep their types; in particular a name is free whenever   *)
(* startReannounce makes a goroutine.                                      *)
THEOREM SwarmTypes == Spec => []SwarmTypeOK
<1>1. LoopInv => SwarmTypeOK
  BY DEF LoopInv
<1> QED
  BY <1>1, LoopInit, LoopStep, PTL DEF Spec

(* Whatever clients, ticks, leaves, restarts and rehydrateSwarms do at     *)
(* once, at most one goroutine that is not cancelled announces the swarm   *)
(* again, and its cancel function is the one in announces: the next Leave  *)
(* stops it.                                                               *)
THEOREM OneLoop == Spec => []OneReannouncer
<1>1. LoopInv => OneReannouncer
  BY DEF LoopInv
<1> QED
  BY <1>1, LoopInit, LoopStep, PTL DEF Spec

-----------------------------------------------------------------------------
(* A joined swarm stays joined *)

(* No other member shares the host of this gateway: handleRequest takes    *)
(* every address of a host out of the registry when one member on it       *)
(* leaves.                                                                 *)
OwnHost == \A a \in Others : HostOf[a] # HostOf[Me]

(* Only Leave and the end of the process take this gateway out of its own  *)
(* registry.                                                               *)
LEMMA LocalSteps ==
  ASSUME OwnHost, [Next]_vars, Me \in local
  PROVE  Me \in local' \/ Exit \/ LeaveReturns
<1>1. ASSUME NEW a \in Others, PeerLeaves(a) PROVE Me \in local'
  BY <1>1 DEF PeerLeaves, UnregisterHost, OwnHost
<1>2. ASSUME NEW c \in Callers, Announce(c) \/ Tick(c) PROVE Me \in local'
  BY <1>2 DEF Announce, Tick, RegisterPeer
<1>3. CASE RehydrateReturns
  BY <1>3 DEF RehydrateReturns
<1>4. ASSUME NEW a \in Others, PeerAnnounces(a) PROVE Me \in local'
  BY <1>4 DEF PeerAnnounces, RegisterPeer
<1> QED
  BY <1>1, <1>2, <1>3, <1>4
     DEF Next, vars, Start, JoinSwarm, LeaveSwarm, Proceed, SendTimeout, GiveUp, StartReannounce,
         SendAnnounces, JoinReturns, SendLeaves, LoopReturns, NodeHandles, Lose

(* Which steps bring the client or rehydrateSwarms to a place.             *)
LEMMA CallerSteps ==
  ASSUME LoopInv, [Next]_vars, ~Exit, NEW c \in {Client, Rehydrate}
  PROVE  \/ at'[c] = at[c]
         \/ c = Client /\ (JoinSwarm \/ LeaveSwarm \/ JoinReturns \/ LeaveReturns)
         \/ c = Rehydrate /\ (Start \/ RehydrateReturns)
         \/ Announce(c) \/ StartReannounce(c)
         \/ at[c] = "find" /\ at'[c] = "announced" /\ UNCHANGED <<local, announces, joined>>
         \/ at[c] = "leave" /\ at'[c] = "left" /\ UNCHANGED <<local, announces, joined>>
<1>a. at \in [Callers -> Places] /\ c \in Callers /\ c \notin Loops
  BY CallerFacts DEF LoopInv, SwarmTypeOK
<1>1. ASSUME NEW d \in Callers, Announce(d) PROVE at'[c] = at[c] \/ d = c
  BY <1>1, <1>a DEF Announce, Go
<1>2. ASSUME NEW d \in Callers, StartReannounce(d) PROVE at'[c] = at[c] \/ d = c
  <2>1. announces = "none" => NewLoop \in Loops
    BY FreeName
  <2>2. \/ at' = [at EXCEPT ![d] = AfterAnnounce(d)]
        \/ NewLoop \in Loops /\ at' = [at EXCEPT ![d] = AfterAnnounce(d), ![NewLoop] = "ticking"]
    BY <1>2, <2>1 DEF StartReannounce, Go
  <2> HIDE DEF NewLoop
  <2> QED
    BY <2>2, <1>a
<1>3. ASSUME NEW d \in Callers, NEW closest, SendAnnounces(d, closest)
      PROVE  \/ at'[c] = at[c]
             \/ at[c] = "find" /\ at'[c] = "announced" /\ UNCHANGED <<local, announces, joined>>
  BY <1>3, <1>a DEF SendAnnounces, SendRequests, Go
<1>4. ASSUME NEW closest, SendLeaves(closest)
      PROVE  \/ at'[c] = at[c]
             \/ at[c] = "leave" /\ at'[c] = "left" /\ UNCHANGED <<local, announces, joined>>
  BY <1>4, <1>a, CallerFacts DEF SendLeaves, SendRequests, Go
<1>5. ASSUME NEW l \in Loops, Tick(l) \/ LoopReturns(l) PROVE at'[c] = at[c]
  BY <1>5, <1>a, CallerFacts DEF Tick, LoopReturns, Go
<1>6. CASE JoinSwarm \/ LeaveSwarm \/ JoinReturns \/ LeaveReturns
  BY <1>6, <1>a, CallerFacts DEF JoinSwarm, LeaveSwarm, JoinReturns, LeaveReturns, Go
<1>7. CASE Start \/ RehydrateReturns
  BY <1>7, <1>a, CallerFacts DEF Start, RehydrateReturns, Go
<1>8. ASSUME NEW d \in Callers, SendTimeout(d) PROVE at'[c] = at[c]
  BY <1>8 DEF SendTimeout, GiveUp
<1>9. ASSUME NEW p \in net, NodeHandles(p) \/ Lose(p) PROVE at'[c] = at[c]
  BY <1>9 DEF NodeHandles, Lose
<1>10. ASSUME NEW a \in Others, PeerAnnounces(a) \/ PeerLeaves(a) PROVE at'[c] = at[c]
  BY <1>10 DEF PeerAnnounces, PeerLeaves
<1>11. CASE UNCHANGED vars
  BY <1>11 DEF vars
<1> QED
  BY <1>1, <1>2, <1>3, <1>4, <1>5, <1>6, <1>7, <1>8, <1>9, <1>10, <1>11 DEF Next, Proceed

(* Which steps stop the announcements, or end a join.                      *)
LEMMA JoinSteps ==
  ASSUME LoopInv, [Next]_vars, ~Exit, ~LeaveSwarm
  PROVE  /\ announces # "none" => announces' # "none"
         /\ joined' = joined \/ JoinReturns \/ Start
         /\ db => db' \/ LeaveReturns
         /\ up => up'
<1>1. announces # "none" => announces' # "none"
  BY ActiveSteps, CallerFacts
<1>2. joined' = joined \/ JoinReturns \/ Start
  BY DEF Next, vars, JoinSwarm, Proceed, Announce, SendTimeout, GiveUp, StartReannounce,
         SendAnnounces, Tick, LeaveReturns, SendLeaves, RehydrateReturns, LoopReturns,
         NodeHandles, Lose, PeerAnnounces, PeerLeaves
<1>3. db => db' \/ LeaveReturns
  BY DEF Next, vars, Start, JoinSwarm, RegisterSwarm, Proceed, Announce, SendTimeout, GiveUp,
         StartReannounce, SendAnnounces, Tick, JoinReturns, SendLeaves, RehydrateReturns, LoopReturns,
         NodeHandles, Lose, PeerAnnounces, PeerLeaves
<1>4. up => up'
  BY DEF Next, vars, Start, JoinSwarm, Proceed, Announce, SendTimeout, GiveUp,
         StartReannounce, SendAnnounces, Tick, JoinReturns, LeaveReturns, SendLeaves, RehydrateReturns,
         LoopReturns, NodeHandles, Lose, PeerAnnounces, PeerLeaves
<1> QED
  BY <1>1, <1>2, <1>3, <1>4

(* A join in progress has registered the gateway before it sends, and has  *)
(* started the announcements before it is answered; a leave in progress    *)
(* has ended the join.                                                     *)
LEMMA ClientStep == OwnHost /\ LoopInv /\ StayInv /\ [Next]_vars => ClientAnnounced'
<1> SUFFICES ASSUME OwnHost, LoopInv, StayInv, [Next]_vars PROVE ClientAnnounced'
  OBVIOUS
<1>a. at \in [Callers -> Places] /\ Client \in Callers /\ Client \notin Loops /\ SwarmTypeOK /\ ClientAnnounced
  BY CallerFacts DEF LoopInv, SwarmTypeOK, StayInv
<1>1. CASE Exit
  BY <1>1, <1>a DEF Exit, ClientAnnounced
<1>2. CASE LeaveSwarm
  BY <1>2, <1>a DEF LeaveSwarm, Go, ClientAnnounced
<1>3. CASE JoinSwarm \/ JoinReturns \/ LeaveReturns
  BY <1>3, <1>a DEF JoinSwarm, JoinReturns, LeaveReturns, Go, ClientAnnounced
<1>4. CASE Announce(Client)
  BY <1>4, <1>a DEF Announce, RegisterPeer, Go, ClientAnnounced
<1>5. CASE StartReannounce(Client)
  <2>1. announces = "none" => NewLoop \in Loops
    BY FreeName
  <2>2. announces' # "none" /\ local' = local
    BY <1>5, <2>1, CallerFacts DEF StartReannounce
  <2>3. at'[Client] = "lookup" /\ at[Client] = "announced"
    <3>1. \/ at' = [at EXCEPT ![Client] = "lookup"]
          \/ NewLoop \in Loops /\ at' = [at EXCEPT ![Client] = "lookup", ![NewLoop] = "ticking"]
      BY <1>5, <1>a, <2>1 DEF StartReannounce, Go, AfterAnnounce
    <3>2. at[Client] = "announced"
      BY <1>5 DEF StartReannounce
    <3> HIDE DEF NewLoop
    <3> QED
      BY <3>1, <3>2, <1>a
  <2> QED
    BY <1>a, <2>2, <2>3 DEF ClientAnnounced
<1>6. ASSUME ~Exit, ~LeaveSwarm, ~JoinReturns, ~LeaveReturns
      PROVE  /\ Me \in local => Me \in local'
             /\ announces # "none" => announces' # "none"
             /\ joined = "no" => joined' = "no"
  BY <1>6, LocalSteps, JoinSteps DEF Start
<1>7. ASSUME ~Exit, ~LeaveSwarm, ~JoinReturns, ~LeaveReturns,
             \/ at'[Client] = at[Client]
             \/ at[Client] = "find" /\ at'[Client] = "announced"
             \/ at[Client] = "leave" /\ at'[Client] = "left"
      PROVE  ClientAnnounced'
  BY <1>a, <1>6, <1>7 DEF ClientAnnounced
<1> QED
  BY <1>1, <1>2, <1>3, <1>4, <1>5, <1>7, CallerSteps, CallerFacts

(* A join that was answered stays in the registry, announced, and in the   *)
(* database.                                                               *)
LEMMA JoinedStep == OwnHost /\ LoopInv /\ StayInv /\ [Next]_vars => JoinedInv'
<1> SUFFICES ASSUME OwnHost, LoopInv, StayInv, [Next]_vars PROVE JoinedInv'
  OBVIOUS
<1>a. /\ at \in [Callers -> Places] /\ Rehydrate \in Callers /\ Rehydrate \notin Loops
      /\ joined \in {"no", "saved", "unsaved", "dormant"} /\ db \in BOOLEAN /\ up \in BOOLEAN
      /\ ClientAnnounced /\ JoinedInv
  BY CallerFacts DEF LoopInv, SwarmTypeOK, StayInv
<1>1. CASE Exit
  <2>1. up' = FALSE /\ db' = db /\ joined' = IF joined = "unsaved" THEN "no" ELSE joined
    BY <1>1 DEF Exit
  <2> QED
    BY <1>a, <2>1 DEF JoinedInv
<1>2. CASE LeaveSwarm
  BY <1>2 DEF LeaveSwarm, JoinedInv
<1>3. CASE LeaveReturns
  <2>1. joined' = "no"
    BY <1>3, <1>a DEF LeaveReturns, ClientAnnounced
  <2> QED
    BY <2>1 DEF JoinedInv
<1>4. CASE JoinReturns
  <2>1. /\ UNCHANGED <<up, db, local, announces>> /\ joined' = IF db THEN "saved" ELSE "unsaved"
        /\ Me \in local /\ announces # "none"
    BY <1>4, <1>a DEF JoinReturns, ClientAnnounced
  <2>2. up
    BY <1>4, CallerFacts DEF JoinReturns, LoopInv, DownIsIdle
  <2> QED
    BY <2>1, <2>2 DEF JoinedInv
<1>5. CASE Start
  <2>1. /\ ~up /\ db' = db
        /\ \/ joined' = "dormant" /\ joined # "no"
           \/ joined' = "no"
           \/ joined' = "saved" /\ joined # "no" /\ at' = [at EXCEPT ![Rehydrate] = "announce"]
    BY <1>5 DEF Start
  <2>2. joined' # "no" => db' /\ (joined' = "dormant" \/ at'[Rehydrate] = "announce")
    BY <2>1, <1>a DEF JoinedInv
  <2>3. joined' # "unsaved"
    BY <2>1
  <2> QED
    BY <2>2, <2>3 DEF JoinedInv, Rehydrating
<1>6. ASSUME ~Exit, ~LeaveSwarm, ~LeaveReturns, ~JoinReturns, ~Start, joined # "no"
      PROVE  /\ joined' = joined /\ (db => db') /\ up' = up
             /\ Me \in local => Me \in local'
             /\ announces # "none" => announces' # "none"
  <2>1. ~up => ~up'
    BY <1>6 DEF Next, vars, JoinSwarm, Proceed, Announce, SendTimeout, GiveUp, StartReannounce,
         SendAnnounces, Tick, SendLeaves, RehydrateReturns, LoopReturns,
         NodeHandles, Lose, PeerAnnounces, PeerLeaves
  <2>2. up' \in BOOLEAN
    BY SwarmTypeStep DEF SwarmTypeOK
  <2> QED
    BY <1>6, <1>a, <2>1, <2>2, LocalSteps, JoinSteps
<1>7. CASE Announce(Rehydrate)
  <2>1. Me \in local' /\ at'[Rehydrate] = "find" /\ UNCHANGED <<up, db, joined, announces>>
    BY <1>7, <1>a DEF Announce, RegisterPeer, Go
  <2> QED
    BY <1>a, <2>1 DEF JoinedInv, Rehydrating
<1>8. CASE StartReannounce(Rehydrate)
  <2>1. announces = "none" => NewLoop \in Loops
    BY FreeName
  <2>2. announces' # "none" /\ UNCHANGED <<up, db, joined, local>> /\ at[Rehydrate] = "announced"
    BY <1>8, <2>1, CallerFacts DEF StartReannounce
  <2> QED
    BY <1>a, <2>2 DEF JoinedInv
<1>9. CASE RehydrateReturns
  <2>1. /\ at[Rehydrate] = "lookup" /\ UNCHANGED <<up, db, joined, announces>>
        /\ Me \in local => Me \in local'
    BY <1>9 DEF RehydrateReturns
  <2> QED
    BY <1>a, <2>1 DEF JoinedInv, Rehydrating
<1>10. ASSUME ~Exit, ~LeaveSwarm, ~LeaveReturns, ~JoinReturns, ~Start,
              at'[Rehydrate] = at[Rehydrate] \/ (at[Rehydrate] = "find" /\ at'[Rehydrate] = "announced")
       PROVE  JoinedInv'
  <2>1. joined' # "no" => joined # "no"
    BY <1>10, JoinSteps
  <2> QED
    BY <1>a, <1>6, <1>10, <2>1 DEF JoinedInv, Rehydrating
<1>11. ASSUME ~Exit, at[Rehydrate] = "leave", at'[Rehydrate] = "left" PROVE JoinedInv'
  <2>1. at'[Rehydrate] # at[Rehydrate]
    BY <1>11
  <2>2. ~Start /\ ~LeaveSwarm /\ ~LeaveReturns /\ ~JoinReturns
    BY <1>11, <2>1, <1>a, CallerFacts DEF Start, LeaveSwarm, LeaveReturns, JoinReturns, Go
  <2>3. joined' # "no" => joined # "no"
    BY <1>11, <2>2, JoinSteps
  <2> QED
    BY <1>a, <1>6, <1>11, <2>2, <2>3 DEF JoinedInv, Rehydrating
<1> QED
  BY <1>1, <1>2, <1>3, <1>4, <1>5, <1>7, <1>8, <1>9, <1>10, <1>11, CallerSteps, CallerFacts

(* On a host of its own, a gateway whose join_swarm was answered stays in  *)
(* its own registry and announced until it leaves: whatever packets are    *)
(* lost, whatever other members do, and across restarts whenever the row   *)
(* was saved and could be read; a row that was saved is kept in any case.  *)
THEOREM StaysAnnounced == OwnHost => (Spec => []JoinedStaysAnnounced)
<1> DEFINE Inv == LoopInv /\ StayInv
           Assumed == OwnHost
<1>1. Init => Inv
  <2> SUFFICES ASSUME Init PROVE StayInv
    BY LoopInit
  <2> QED
    BY CallerFacts DEF Init, StayInv, ClientAnnounced, JoinedInv
<1>2. Assumed /\ Inv /\ [Next]_vars => Inv'
  BY LoopStep, ClientStep, JoinedStep DEF StayInv
<1>3. Assumed => Assumed'
  BY DEF OwnHost
<1>4. Inv => JoinedStaysAnnounced
  BY DEF StayInv, JoinedInv, JoinedStaysAnnounced, Rehydrating
<1>5. OwnHost => Assumed
  OBVIOUS
<1> HIDE DEF Inv, Assumed
<1> QED
  BY <1>1, <1>2, <1>3, <1>4, <1>5, PTL DEF Spec
=============================================================================
