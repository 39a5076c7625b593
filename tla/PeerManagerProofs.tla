------------------------- MODULE PeerManagerProofs -------------------------
(* Proofs about module PeerManager, for every finite set of connections    *)
(* and every assignment of peers to them.                                  *)
EXTENDS PeerManager, FiniteSetTheorems, TLAPS

(* Only DialPeer dials: wg counts every connection that leaves dialing.    *)
OnlyOutgoingDial == \A c \in Conns : at[c] = "dialing" => c \in Outgoing

(* Two sessions of one peer are both known to have overlapped.             *)
SharersOverlap ==
  \A c, d \in Conns :
    Registered(c) /\ Registered(d) /\ c # d /\ PeerOf[c] = PeerOf[d] => c \in overlapped

(* A session that never shared its peer is found under the peer's key.     *)
LoneIsListed ==
  \A c \in Conns : Registered(c) => c \in overlapped \/ table[PeerOf[c]] = c

(* BroadcastHave has told every session that is found or will still do so. *)
HaveCovers ==
  mu = "have" => \A c \in Conns : Registered(c) => c \in told \cup todo \cup overlapped

(* Close holds the lock while it goes through the map, and has closed or   *)
(* will close what it found; what it has not closed after that came late.  *)
SweepCovers ==
  /\ closer = "sweep" <=> mu = "close"
  /\ closer = "sweep" =>
       \A c \in Conns : Registered(c) /\ open[c] => c \in todo \cup overlapped
  /\ closer \in {"wait", "returned"} =>
       \A c \in Conns : Registered(c) /\ open[c] => c \in overlapped \cup late

PeerInv ==
  /\ PeerTypeOK /\ OnlyOutgoingDial
  /\ EntriesAreLive /\ SharersOverlap /\ LoneIsListed
  /\ HaveCovers /\ SweepCovers

-----------------------------------------------------------------------------
(* Counting the goroutines *)

(* wg counts finitely many goroutines.                                     *)
LEMMA CountedFinite == IsFiniteSet(Counted) /\ Cardinality(Counted) \in Nat
<1>1. Counted \subseteq Conns
  BY DEF Counted, Conns
<1> QED
  BY <1>1, PeerAssumption, FS_Subset, FS_CardinalityType

(* A goroutine that is not moved across the calls of Add and Done leaves   *)
(* the set of those that are counted as it is.                             *)
LEMMA CountedSame ==
  ASSUME PeerTypeOK, NEW c \in Conns, NEW place, Go(c, place),
         \/ c \notin Outgoing
         \/ at[c] \in {"none", "dialing", "done"} <=> place \in {"none", "dialing", "done"}
  PROVE  Counted' = Counted
  BY DEF Counted, Go, PeerTypeOK

(* The types, and that only outgoing connections are dialled, hold at the  *)
(* start.                                                                  *)
LEMMA PeerTypeInit == Init => PeerTypeOK /\ OnlyOutgoingDial
<1> SUFFICES ASSUME Init PROVE PeerTypeOK /\ OnlyOutgoingDial
  OBVIOUS
<1>1. Counted = {}
  BY DEF Init, Counted, Conns
<1>2. wg = Cardinality(Counted) + (IF accepting THEN 1 ELSE 0)
  BY <1>1, FS_EmptySet DEF Init
<1> QED
  BY <1>2, PeerAssumption DEF Init, PeerTypeOK, OnlyOutgoingDial, Places, Contexts

(* Every step keeps them.  DialReturns and CloseConn are the two that the  *)
(* count of wg depends on.                                                 *)
LEMMA PeerTypeStep ==
  ASSUME PeerTypeOK, OnlyOutgoingDial, [Next]_vars
  PROVE  PeerTypeOK' /\ OnlyOutgoingDial'
<1>1. ASSUME NEW c \in Conns, NEW place \in Places, Go(c, place), place # "dialing" \/ c \in Outgoing
      PROVE  at' \in [Conns -> Places] /\ OnlyOutgoingDial'
  BY <1>1 DEF PeerTypeOK, OnlyOutgoingDial, Go
<1>2. ASSUME NEW c \in Conns,
             Accept(c) \/ DialPeer(c) \/ HandshakeReturns(c) \/ HandshakeFails(c) \/ RunReturns(c)
      PROVE  PeerTypeOK' /\ OnlyOutgoingDial'
  <2>1. Counted' = Counted
    BY <1>2, CountedSame, PeerAssumption
    DEF Accept, DialPeer, HandshakeReturns, HandshakeFails, RunReturns
  <2>2. at' \in [Conns -> Places] /\ OnlyOutgoingDial'
    BY <1>1, <1>2 DEF Accept, DialPeer, HandshakeReturns, HandshakeFails, RunReturns, Places
  <2>3. UNCHANGED <<open, table, lock, control, history>>
    BY <1>2 DEF Accept, DialPeer, HandshakeReturns, HandshakeFails, RunReturns
  <2> QED
    BY <2>1, <2>2, <2>3 DEF PeerTypeOK, lock, control, history
<1>3. ASSUME NEW c \in Conns, DialFails(c) PROVE PeerTypeOK' /\ OnlyOutgoingDial'
  <2>1. Counted' = Counted
    BY <1>3, CountedSame DEF DialFails
  <2>2. at' \in [Conns -> Places] /\ OnlyOutgoingDial'
    BY <1>1, <1>3 DEF DialFails, Places
  <2> QED
    BY <1>3, <2>1, <2>2 DEF DialFails, PeerTypeOK, lock, control, history
<1>4. ASSUME NEW c \in Conns, DialReturns(c) PROVE PeerTypeOK' /\ OnlyOutgoingDial'
  <2>1. c \notin Counted /\ Counted' = Counted \cup {c}
    BY <1>4 DEF DialReturns, OnlyOutgoingDial, Counted, Go, PeerTypeOK
  <2>2. Cardinality(Counted') = Cardinality(Counted) + 1
    BY <2>1, CountedFinite, FS_AddElement
  <2>3. at' \in [Conns -> Places] /\ OnlyOutgoingDial'
    BY <1>1, <1>4 DEF DialReturns, Places
  <2>4. wg' = Cardinality(Counted') + (IF accepting' THEN 1 ELSE 0)
    BY <1>4, <2>2, CountedFinite DEF DialReturns, PeerTypeOK
  <2> QED
    BY <1>4, <2>3, <2>4 DEF DialReturns, PeerTypeOK, lock, history
<1>5. ASSUME NEW c \in Conns, Register(c) PROVE PeerTypeOK' /\ OnlyOutgoingDial'
  <2>1. Counted' = Counted
    BY <1>5, CountedSame DEF Register
  <2>2. at' \in [Conns -> Places] /\ OnlyOutgoingDial'
    BY <1>1, <1>5 DEF Register, Places
  <2>3. /\ table' \in [Peers -> Conns \cup {"none"}]
        /\ \A p \in Peers : table'[p] # "none" => PeerOf[table'[p]] = p
    BY <1>5, PeerAssumption DEF Register, PeerTypeOK
  <2>4. overlapped' \subseteq Conns /\ late' \subseteq Conns
    BY <1>5 DEF Register, PeerTypeOK
  <2> QED
    BY <1>5, <2>1, <2>2, <2>3, <2>4 DEF Register, PeerTypeOK, lock, control
<1>6. ASSUME NEW c \in Conns, Deregister(c) PROVE PeerTypeOK' /\ OnlyOutgoingDial'
  <2>1. Counted' = Counted
    BY <1>6, CountedSame DEF Deregister
  <2>2. at' \in [Conns -> Places] /\ OnlyOutgoingDial'
    BY <1>1, <1>6 DEF Deregister, Places
  <2>3. /\ table' \in [Peers -> Conns \cup {"none"}]
        /\ \A p \in Peers : table'[p] # "none" => PeerOf[table'[p]] = p
    BY <1>6, PeerAssumption DEF Deregister, PeerTypeOK
  <2> QED
    BY <1>6, <2>1, <2>2, <2>3 DEF Deregister, PeerTypeOK, lock, control, history
<1>7. ASSUME NEW c \in Conns, CloseConn(c) PROVE PeerTypeOK' /\ OnlyOutgoingDial'
  <2>1. at' \in [Conns -> Places] /\ OnlyOutgoingDial'
    BY <1>1, <1>7 DEF CloseConn, Places
  <2>2. wg' = Cardinality(Counted') + (IF accepting' THEN 1 ELSE 0)
    <3>1. CASE c \in Outgoing
      <4>1. c \in Counted /\ Counted' = Counted \ {c}
        BY <1>7, <3>1 DEF CloseConn, Counted, Go, PeerTypeOK
      <4>2. Cardinality(Counted') = Cardinality(Counted) - 1
        BY <4>1, CountedFinite, FS_RemoveElement
      <4> QED
        BY <1>7, <3>1, <4>2, CountedFinite DEF CloseConn, PeerTypeOK
    <3>2. CASE c \notin Outgoing
      <4>1. Counted' = Counted
        BY <1>7, <3>2, CountedSame DEF CloseConn
      <4> QED
        BY <1>7, <3>2, <4>1 DEF CloseConn, PeerTypeOK
    <3> QED
      BY <3>1, <3>2
  <2> QED
    BY <1>7, <2>1, <2>2 DEF CloseConn, PeerTypeOK, lock, history
<1>8. ASSUME UNCHANGED at PROVE Counted' = Counted /\ (OnlyOutgoingDial <=> OnlyOutgoingDial')
  BY <1>8 DEF Counted, OnlyOutgoingDial
<1>9. CASE AcceptFails
  <2>1. wg' = Cardinality(Counted') + (IF accepting' THEN 1 ELSE 0)
    BY <1>8, <1>9, CountedFinite DEF AcceptFails, PeerTypeOK, conns
  <2> QED
    BY <1>8, <1>9, <2>1 DEF AcceptFails, PeerTypeOK, conns, lock, history
<1>10. Listed \subseteq Conns
  BY DEF Listed, PeerTypeOK
<1>11. CASE BroadcastHave \/ HaveStep
  BY <1>8, <1>10, <1>11
  DEF BroadcastHave, HaveStep, NotifyHave, BroadcastReturns, PeerTypeOK, conns, control, history
<1>12. CASE Cancel \/ Close
  <2>1. UNCHANGED <<conns, lock, accepting, listening, wg, history>>
    BY <1>12 DEF Cancel, Close
  <2>2. /\ cancelled' \subseteq Contexts
        /\ closer' \in {"idle", "listener", "lock", "sweep", "wait", "returned"}
    BY <1>12 DEF Cancel, Close, PeerTypeOK, Contexts
  <2> QED
    BY <1>8, <2>1, <2>2 DEF PeerTypeOK, conns, lock, history
<1>13. CASE CloseStep
  <2>1. CASE CloseListener \/ CloseReturn
    <3>1. UNCHANGED <<conns, lock, accepting, cancelled, wg, history>>
      BY <2>1 DEF CloseListener, CloseReturn
    <3>2. closer' \in {"lock", "returned"} /\ listening' \in BOOLEAN
      BY <2>1 DEF CloseListener, CloseReturn, PeerTypeOK
    <3> QED
      BY <1>8, <3>1, <3>2 DEF PeerTypeOK, conns, lock, history
  <2>2. CASE CloseLock \/ CloseUnlock
    BY <1>8, <1>10, <2>2 DEF CloseLock, CloseUnlock, PeerTypeOK, conns, history
  <2>3. ASSUME NEW c \in todo, CloseEach(c) PROVE PeerTypeOK' /\ OnlyOutgoingDial'
    BY <1>8, <2>3 DEF CloseEach, PeerTypeOK, control, history
  <2> QED
    BY <1>13, <2>1, <2>2, <2>3 DEF CloseStep
<1>14. CASE UNCHANGED vars
  BY <1>8, <1>14 DEF PeerTypeOK, vars, conns, control, lock, history
<1> QED
  BY <1>2, <1>3, <1>4, <1>5, <1>6, <1>7, <1>9, <1>11, <1>12, <1>13, <1>14 DEF Next, Handle

(* The variables of the PeerManager keep their types: in particular wg     *)
(* counts the accept loop and the goroutines that DialPeer started, no     *)
(* more and no fewer, so it never becomes negative.                        *)
THEOREM PeerTypes == Spec => []PeerTypeOK
<1>1. (PeerTypeOK /\ OnlyOutgoingDial) /\ [Next]_vars => (PeerTypeOK /\ OnlyOutgoingDial)'
  BY PeerTypeStep
<1> QED
  BY PeerTypeInit, <1>1, PTL DEF Spec

-----------------------------------------------------------------------------
(* What is in the maps *)

(* Steps of a goroutine that neither register nor deregister it.           *)
Quiet(c) ==
  \/ Accept(c) \/ DialPeer(c) \/ DialFails(c) \/ DialReturns(c) \/ HandshakeReturns(c)
  \/ HandshakeFails(c) \/ RunReturns(c) \/ CloseConn(c)

(* Such a step changes nothing that the invariants below are about, except *)
(* that it may close a connection that has no session.                     *)
LEMMA QuietStep ==
  ASSUME PeerTypeOK, NEW c \in Conns, Quiet(c)
  PROVE  /\ \A d \in Conns : Registered(d)' <=> Registered(d)
         /\ \A d \in Conns : Registered(d) => open'[d] = open[d]
         /\ UNCHANGED <<table, lock, closer, history>>
<1>1. \A d \in Conns : Registered(d)' <=> Registered(d)
  BY DEF Quiet, Accept, DialPeer, DialFails, DialReturns, HandshakeReturns, HandshakeFails,
         RunReturns, CloseConn, Registered, Go, PeerTypeOK
<1>2. \A d \in Conns : Registered(d) => open'[d] = open[d]
  BY DEF Quiet, Accept, DialPeer, DialFails, DialReturns, HandshakeReturns, HandshakeFails,
         RunReturns, CloseConn, Registered, PeerTypeOK
<1>3. UNCHANGED <<table, lock, closer, history>>
  BY DEF Quiet, Accept, DialPeer, DialFails, DialReturns, HandshakeReturns, HandshakeFails,
         RunReturns, CloseConn, control
<1> QED
  BY <1>1, <1>2, <1>3

(* The invariants hold at the start, when no connection is registered.     *)
LEMMA PeerInvInit == Init => PeerInv
<1> SUFFICES ASSUME Init PROVE PeerInv
  OBVIOUS
<1>1. \A c \in Conns : ~Registered(c)
  BY DEF Init, Registered
<1>2. Listed = {}
  BY DEF Init, Listed
<1> QED
  BY <1>1, <1>2, PeerTypeInit
  DEF Init, PeerInv, EntriesAreLive, SharersOverlap, LoneIsListed, HaveCovers, SweepCovers

(* Registration enters the connection and marks all that share its peer.   *)
LEMMA RegisterStep ==
  ASSUME PeerInv, NEW c \in Conns, Register(c)
  PROVE  (EntriesAreLive /\ SharersOverlap /\ LoneIsListed /\ HaveCovers /\ SweepCovers)'
<1> USE DEF PeerInv
<1> DEFINE others == {d \in Conns \ {c} : PeerOf[d] = PeerOf[c] /\ Registered(d)}
<1>1. /\ at[c] = "register" /\ mu = "free"
      /\ table' = [table EXCEPT ![PeerOf[c]] = c]
      /\ overlapped' = overlapped \cup others \cup (IF others = {} THEN {} ELSE {c})
      /\ late' = IF closer \in {"wait", "returned"} THEN late \cup {c} ELSE late
      /\ at' = [at EXCEPT ![c] = "running"]
      /\ UNCHANGED <<open, mu, todo, closer, told>>
  BY DEF Register, Go, lock, control
<1>2. \A d \in Conns : Registered(d)' <=> (d = c \/ Registered(d))
  BY <1>1 DEF Registered, PeerTypeOK
<1>3. ~Registered(c)
  BY <1>1 DEF Registered
<1>4. /\ PeerOf[c] \in Peers
      /\ table'[PeerOf[c]] = c
      /\ \A p \in Peers : p # PeerOf[c] => table'[p] = table[p]
  BY <1>1, PeerAssumption DEF PeerTypeOK
<1>5. EntriesAreLive'
  BY <1>2, <1>4 DEF EntriesAreLive, Listed, PeerTypeOK
<1>6. SharersOverlap'
  BY <1>1, <1>2, <1>3 DEF SharersOverlap
<1>7. LoneIsListed'
  <2> SUFFICES ASSUME NEW d \in Conns, Registered(d)', d \notin overlapped'
               PROVE  table'[PeerOf[d]] = d
    BY DEF LoneIsListed
  <2>1. CASE d = c
    BY <2>1, <1>4
  <2>2. CASE d # c
    <3>1. PeerOf[d] # PeerOf[c]
      BY <1>1, <1>2, <2>2
    <3> QED
      BY <1>1, <1>2, <1>4, <2>2, <3>1, PeerAssumption DEF LoneIsListed
  <2> QED
    BY <2>1, <2>2
<1>8. HaveCovers' /\ SweepCovers'
  BY <1>1, <1>2 DEF HaveCovers, SweepCovers
<1> QED
  BY <1>5, <1>6, <1>7, <1>8

(* The deferred delete takes out an entry of another connection only when  *)
(* the two have overlapped.                                                *)
LEMMA DeregisterStep ==
  ASSUME PeerInv, NEW c \in Conns, Deregister(c)
  PROVE  (EntriesAreLive /\ SharersOverlap /\ LoneIsListed /\ HaveCovers /\ SweepCovers)'
<1> USE DEF PeerInv
<1>1. /\ at[c] = "deregister" /\ mu = "free"
      /\ table' = [table EXCEPT ![PeerOf[c]] = "none"]
      /\ at' = [at EXCEPT ![c] = "closing"]
      /\ UNCHANGED <<open, mu, todo, closer, told, overlapped, late>>
  BY DEF Deregister, Go, lock, control, history
<1>2. \A d \in Conns : Registered(d)' <=> (d # c /\ Registered(d))
  BY <1>1 DEF Registered, PeerTypeOK
<1>3. /\ PeerOf[c] \in Peers
      /\ table'[PeerOf[c]] = "none"
      /\ \A p \in Peers : p # PeerOf[c] => table'[p] = table[p]
  BY <1>1, PeerAssumption DEF PeerTypeOK
<1>4. EntriesAreLive'
  <2> SUFFICES ASSUME NEW p \in Peers, NEW d, d = table'[p], d # "none" PROVE Registered(d)'
    BY DEF EntriesAreLive, Listed
  <2>1. p # PeerOf[c] /\ d = table[p]
    BY <1>3
  <2>2. d \in Conns /\ PeerOf[d] = p /\ Registered(d)
    BY <2>1 DEF EntriesAreLive, Listed, PeerTypeOK
  <2> QED
    BY <1>2, <2>1, <2>2
<1>5. SharersOverlap'
  BY <1>1, <1>2 DEF SharersOverlap
<1>6. LoneIsListed'
  <2> SUFFICES ASSUME NEW d \in Conns, Registered(d)', d \notin overlapped'
               PROVE  table'[PeerOf[d]] = d
    BY DEF LoneIsListed
  <2>1. Registered(c) /\ Registered(d) /\ d # c /\ d \notin overlapped
    BY <1>1, <1>2 DEF Registered
  <2>2. PeerOf[d] # PeerOf[c]
    BY <2>1 DEF SharersOverlap
  <2> QED
    BY <1>3, <2>1, <2>2, PeerAssumption DEF LoneIsListed
<1>7. HaveCovers' /\ SweepCovers'
  BY <1>1, <1>2 DEF HaveCovers, SweepCovers
<1> QED
  BY <1>4, <1>5, <1>6, <1>7

(* Every step keeps the invariants.                                        *)
LEMMA PeerInvStep == PeerInv /\ [Next]_vars => PeerInv'
<1> SUFFICES ASSUME PeerInv, [Next]_vars
             PROVE  (EntriesAreLive /\ SharersOverlap /\ LoneIsListed /\ HaveCovers /\ SweepCovers)'
  BY PeerTypeStep DEF PeerInv
<1> USE DEF PeerInv
<1>1. ASSUME NEW c \in Conns, Quiet(c)
      PROVE  (EntriesAreLive /\ SharersOverlap /\ LoneIsListed /\ HaveCovers /\ SweepCovers)'
  <2>1. /\ \A d \in Conns : Registered(d)' <=> Registered(d)
        /\ \A d \in Conns : Registered(d) => open'[d] = open[d]
        /\ UNCHANGED <<table, mu, todo, closer, told, overlapped, late>>
    BY <1>1, QuietStep DEF lock, history
  <2>2. EntriesAreLive'
    BY <2>1 DEF EntriesAreLive, Listed, PeerTypeOK
  <2>3. (SharersOverlap /\ LoneIsListed /\ HaveCovers)'
    BY <2>1 DEF SharersOverlap, LoneIsListed, HaveCovers
  <2>4. SweepCovers'
    BY <2>1 DEF SweepCovers
  <2> QED
    BY <2>2, <2>3, <2>4
<1>2. ASSUME UNCHANGED <<at, table, overlapped>>
      PROVE  (EntriesAreLive /\ SharersOverlap /\ LoneIsListed)'
  BY <1>2 DEF EntriesAreLive, SharersOverlap, LoneIsListed, Listed, Registered
<1>3. ASSUME UNCHANGED <<at, open, mu, todo, closer, told, overlapped, late>>
      PROVE  (HaveCovers /\ SweepCovers)'
  BY <1>3 DEF HaveCovers, SweepCovers, Registered
<1>4. \A c \in Conns : Registered(c) => c \in Listed \cup overlapped
  BY PeerAssumption DEF LoneIsListed, Listed
<1>5. CASE AcceptFails \/ Cancel
  BY <1>2, <1>3, <1>5 DEF AcceptFails, Cancel, conns, lock, history
<1>6. CASE BroadcastHave
  <2>1. HaveCovers'
    BY <1>4, <1>6 DEF BroadcastHave, HaveCovers, Registered, conns
  <2>2. SweepCovers'
    BY <1>6 DEF BroadcastHave, SweepCovers, Registered, conns, control
  <2> QED
    BY <1>2, <1>6, <2>1, <2>2 DEF BroadcastHave, conns
<1>7. CASE HaveStep
  <2>1. UNCHANGED <<at, open, table, closer, overlapped, late>>
    BY <1>7 DEF HaveStep, NotifyHave, BroadcastReturns, conns, control, history
  <2>2. HaveCovers'
    BY <1>7 DEF HaveStep, NotifyHave, BroadcastReturns, HaveCovers, Registered, conns
  <2>3. SweepCovers'
    BY <1>7, <2>1 DEF HaveStep, NotifyHave, BroadcastReturns, SweepCovers, Registered
  <2> QED
    BY <1>2, <2>1, <2>2, <2>3
<1>8. CASE Close \/ CloseListener
  <2>1. /\ closer \in {"idle", "listener"} /\ closer' \in {"listener", "lock"}
        /\ UNCHANGED <<at, open, table, mu, todo, told, overlapped, late>>
    BY <1>8 DEF Close, CloseListener, conns, lock, history
  <2>2. (HaveCovers /\ SweepCovers)'
    BY <2>1 DEF HaveCovers, SweepCovers, Registered
  <2> QED
    BY <1>2, <2>1, <2>2
<1>9. CASE CloseLock
  <2>1. HaveCovers' /\ SweepCovers'
    BY <1>4, <1>9 DEF CloseLock, HaveCovers, SweepCovers, Registered, conns, history
  <2> QED
    BY <1>2, <1>9, <2>1 DEF CloseLock, conns, history
<1>10. ASSUME NEW c \in todo, CloseEach(c)
       PROVE  (EntriesAreLive /\ SharersOverlap /\ LoneIsListed /\ HaveCovers /\ SweepCovers)'
  <2>1. /\ closer = "sweep" /\ mu = "close"
        /\ open' = [open EXCEPT ![c] = FALSE] /\ todo' = todo \ {c}
        /\ UNCHANGED <<at, table, mu, closer, told, overlapped, late>>
    BY <1>10 DEF CloseEach, SweepCovers, control, history
  <2>2. HaveCovers'
    BY <2>1 DEF HaveCovers
  <2>3. SweepCovers'
    BY <2>1 DEF SweepCovers, Registered, PeerTypeOK
  <2> QED
    BY <1>2, <2>1, <2>2, <2>3
<1>11. CASE CloseUnlock
  <2>1. HaveCovers' /\ SweepCovers'
    BY <1>11 DEF CloseUnlock, HaveCovers, SweepCovers, Registered, conns, history
  <2> QED
    BY <1>2, <1>11, <2>1 DEF CloseUnlock, conns, history
<1>12. CASE CloseReturn
  <2>1. HaveCovers' /\ SweepCovers'
    BY <1>12 DEF CloseReturn, HaveCovers, SweepCovers, Registered, conns, lock, history
  <2> QED
    BY <1>2, <1>12, <2>1 DEF CloseReturn, conns, history
<1>13. CASE UNCHANGED vars
  BY <1>2, <1>3, <1>13 DEF vars, conns, lock, control, history
<1> QED
  BY <1>1, <1>5, <1>6, <1>7, <1>8, <1>9, <1>10, <1>11, <1>12, <1>13, RegisterStep, DeregisterStep
  DEF Next, Handle, Quiet, CloseStep

(* The invariants hold throughout.                                         *)
THEOREM PeerInvariant == Spec => []PeerInv
  BY PeerInvInit, PeerInvStep, PTL DEF Spec

(* The maps hold no session that has ended, however many connections of a  *)
(* peer overwrite and delete each other's entries.                         *)
THEOREM LiveEntries == Spec => []EntriesAreLive
<1>1. PeerInv => EntriesAreLive
  BY DEF PeerInv
<1> QED
  BY PeerInvariant, <1>1, PTL

(* When BroadcastHave returns it has notified every running session of a   *)
(* peer that had no second connection.                                     *)
THEOREM HaveReaches == Spec => HaveReachesSessions
<1>1. PeerInv /\ [Next]_vars =>
        [mu = "have" /\ mu' = "free" =>
           \A c \in Conns : at[c] = "running" => c \in told \cup overlapped]_vars
  <2> SUFFICES ASSUME PeerInv, Next, mu = "have", mu' = "free",
                      NEW c \in Conns, at[c] = "running"
               PROVE  c \in told \cup overlapped
    BY DEF vars, lock
  <2>1. todo = {}
    <3>1. UNCHANGED mu \/ BroadcastReturns \/ CloseUnlock \/ BroadcastHave \/ CloseLock
      BY DEF Next, Handle, Accept, DialPeer, DialFails, DialReturns, HandshakeReturns,
             HandshakeFails, Register, RunReturns, Deregister, CloseConn, AcceptFails, HaveStep,
             NotifyHave, Cancel, Close, CloseStep, CloseListener, CloseReturn, CloseEach, lock
    <3> QED
      BY <3>1 DEF BroadcastReturns, CloseUnlock, BroadcastHave, CloseLock
  <2> QED
    BY <2>1 DEF PeerInv, HaveCovers, Registered
<1> QED
  BY PeerInvariant, <1>1, PTL DEF Spec, HaveReachesSessions

(* When Close returns, the accept loop and the dialled connections are     *)
(* over, and so is every other session or it is closed, except the ones it *)
(* could not find.                                                         *)
THEOREM CloseCleans == Spec => CloseCleansUp
<1>1. PeerInv /\ [Next]_vars =>
        [closer = "wait" /\ closer' = "returned" =>
           /\ ~accepting
           /\ Counted = {}
           /\ \A c \in Incoming : Registered(c) /\ open[c] => c \in overlapped \cup late]_vars
  <2> SUFFICES ASSUME PeerInv, Next, closer = "wait", closer' = "returned"
               PROVE  /\ ~accepting
                      /\ Counted = {}
                      /\ \A c \in Incoming : Registered(c) /\ open[c] => c \in overlapped \cup late
    BY DEF vars, control
  <2>1. wg = 0
    <3>1. UNCHANGED closer \/ CloseReturn \/ Close \/ CloseListener \/ CloseLock \/ CloseUnlock
      BY DEF Next, Handle, Accept, DialPeer, DialFails, DialReturns, HandshakeReturns,
             HandshakeFails, Register, RunReturns, Deregister, CloseConn, AcceptFails, HaveStep,
             NotifyHave, BroadcastReturns, BroadcastHave, Cancel, CloseStep, CloseEach, control
    <3> QED
      BY <3>1 DEF CloseReturn, Close, CloseListener, CloseLock, CloseUnlock
  <2>2. ~accepting /\ Cardinality(Counted) = 0
    BY <2>1, CountedFinite DEF PeerInv, PeerTypeOK
  <2>3. Counted = {}
    BY <2>2, CountedFinite, FS_EmptySet
  <2> QED
    BY <2>2, <2>3 DEF PeerInv, SweepCovers, Conns
<1> QED
  BY PeerInvariant, <1>1, PTL DEF Spec, CloseCleansUp
=============================================================================
