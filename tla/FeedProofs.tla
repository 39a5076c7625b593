----------------------------- MODULE FeedProofs -----------------------------
(* Proofs about module Feed, for every set of gateways, goroutines and     *)
(* block contents.                                                         *)
EXTENDS Feed, SequenceTheorems, TLAPS

USE DEF Tasks, Sigs, Blocks, Indices, Jobs, Stages

-----------------------------------------------------------------------------
(* Types *)

LEMMA NoSigType == NoSig \in Sigs
  BY DEF NoSig

LEMMA IdleJobType == IdleJob \in Jobs
  BY NoSigType DEF IdleJob

(* The initial state of a feed has the right types.                        *)
LEMMA TypeInit == FeedInit => FeedTypeOK
  BY FeedAssumption, IdleJobType DEF FeedInit, FeedTypeOK, IdleJob

(* Reading the length and remembering a block to append keeps the types.   *)
LEMMA MeasureType ==
  ASSUME FeedTypeOK, NEW t \in Tasks, NEW v \in Payloads, NEW sig \in Sigs,
         Measure(t, v, sig), UNCHANGED <<log, repo, told>>
  PROVE  FeedTypeOK'
<1>1. Len(log[HomeOf[t]]) \in Nat
  BY FeedAssumption DEF FeedTypeOK
<1>2. job' \in [Tasks -> Jobs]
  BY <1>1 DEF FeedTypeOK, Measure
<1>3. \A u \in Tasks : job'[u].stage \in {"measured", "appended"} => job'[u].value \in Payloads
  BY DEF FeedTypeOK, Measure
<1> QED
  BY <1>2, <1>3 DEF FeedTypeOK

(* Every step of a feed keeps the types.                                   *)
LEMMA TypeStep == FeedTypeOK /\ [FeedNext]_feedVars => FeedTypeOK'
<1> SUFFICES ASSUME FeedTypeOK, [FeedNext]_feedVars PROVE FeedTypeOK'
  OBVIOUS
<1>1. ASSUME NEW c \in Clients, AppendBlock(c) PROVE FeedTypeOK'
  <2> PICK v \in Payloads, sig \in ClientSigs : Measure(c, v, sig)
    BY <1>1 DEF AppendBlock
  <2> QED
    BY <1>1, MeasureType, FeedAssumption DEF AppendBlock
<1>2. ASSUME NEW s \in Sessions, NEW i \in Indices, NEW v \in Payloads, NEW sig \in PeerSigs,
             ReceiveData(s, i, v, sig)
      PROVE  FeedTypeOK'
  BY <1>2, MeasureType, FeedAssumption DEF ReceiveData
<1>3. ASSUME NEW r \in Replies, AgenticReply(r) PROVE FeedTypeOK'
  <2> PICK v \in AgentChats : Measure(r, v, NoSig)
    BY <1>3 DEF AgenticReply
  <2> QED
    BY <1>3, MeasureType, NoSigType, FeedAssumption DEF AgenticReply
<1>4. ASSUME NEW t \in Tasks, job' = [job EXCEPT ![t] = IdleJob], UNCHANGED <<log, repo, told>>
      PROVE  FeedTypeOK'
  BY <1>4, IdleJobType DEF FeedTypeOK, IdleJob
<1>5. ASSUME NEW t \in Tasks, Store(t) PROVE FeedTypeOK'
  <2>1. HomeOf[t] \in Gateways /\ job[t] \in Jobs /\ job[t].value \in Payloads
    BY <1>5, FeedAssumption DEF Store, FeedTypeOK
  <2>2. log' \in [Gateways -> Seq(Payloads)]
    BY <1>5, <2>1 DEF Store, FeedTypeOK
  <2>3. \A g \in Gateways : Len(log'[g]) <= MaxBlocks
    BY <1>5, <2>1, FeedAssumption DEF Store, FeedTypeOK
  <2>4. job' \in [Tasks -> Jobs]
    BY <1>5, <2>1 DEF Store, FeedTypeOK
  <2>5. \A u \in Tasks : job'[u].stage \in {"measured", "appended"} => job'[u].value \in Payloads
    BY <1>5, <2>1 DEF Store, FeedTypeOK
  <2> QED
    BY <1>5, <2>2, <2>3, <2>4, <2>5 DEF Store, FeedTypeOK
<1>6. ASSUME NEW t \in Tasks, Publish(t) PROVE FeedTypeOK'
  <2>1. HomeOf[t] \in Gateways /\ job[t] \in Jobs /\ job[t].value \in Payloads
    BY <1>6, FeedAssumption DEF Publish, FeedTypeOK
  <2>2. repo' \in [Gateways -> [Indices -> Blocks \cup {NoBlock}]]
    <3> DEFINE g == HomeOf[t]
               i == job[t].index
               b == [value |-> job[t].value, sig |-> job[t].sig]
    <3>1. b \in Blocks
      BY <2>1
    <3>2. repo[g] \in [Indices -> Blocks \cup {NoBlock}]
      BY <2>1 DEF FeedTypeOK
    <3>3. [repo[g] EXCEPT ![i] = b] \in [Indices -> Blocks \cup {NoBlock}]
      <4> HIDE DEF b, i, g
      <4> QED
        BY <3>1, <3>2
    <3>4. repo' = [repo EXCEPT ![g] = [repo[g] EXCEPT ![i] = b]] \/ repo' = repo
      BY <1>6 DEF Publish, PutBlock
    <3> HIDE DEF b, i
    <3> QED
      BY <2>1, <3>3, <3>4 DEF FeedTypeOK
  <2>3. told' \in [Gateways -> SUBSET (Nat \X Payloads)]
    BY <1>6, <2>1 DEF Publish, Report, FeedTypeOK
  <2>4. /\ job' \in [Tasks -> Jobs]
        /\ \A u \in Tasks : job'[u].stage \in {"measured", "appended"} => job'[u].value \in Payloads
    <3>1. CASE Forwards(t)
      <4> PICK r \in Replies :
            job' = [job EXCEPT ![t] = IdleJob, ![r] = [IdleJob EXCEPT !.stage = "posting"]]
        BY <1>6, <3>1 DEF Publish
      <4>1. [IdleJob EXCEPT !.stage = "posting"] \in Jobs
        BY IdleJobType
      <4>2. [IdleJob EXCEPT !.stage = "posting"].stage = "posting" /\ IdleJob.stage = "idle"
        BY DEF IdleJob
      <4> QED
        BY <4>1, <4>2, IdleJobType DEF FeedTypeOK
    <3>2. CASE ~Forwards(t)
      BY <1>6, <3>2, IdleJobType DEF Publish, FeedTypeOK, IdleJob
    <3> QED
      BY <3>1, <3>2
  <2> QED
    BY <1>6, <2>2, <2>3, <2>4 DEF Publish, FeedTypeOK
<1>7. CASE UNCHANGED feedVars
  BY <1>7 DEF FeedTypeOK, feedVars
<1> QED
  BY <1>1, <1>2, <1>3, <1>4, <1>5, <1>6, <1>7 DEF FeedNext, AgenticFails, StoreFails

(* The variables of a feed keep their types: in particular no goroutine    *)
(* ever appends or publishes a block it does not have.                     *)
THEOREM FeedTypes == FeedSpec => []FeedTypeOK
  BY TypeInit, TypeStep, PTL DEF FeedSpec

-----------------------------------------------------------------------------
(* Blocks named by a repository row or by a notification exist *)

(* No step takes a block away or moves it.                                 *)
LogGrows ==
  \A g \in Gateways :
    /\ Len(log[g]) <= Len(log'[g])
    /\ \A k \in 1 .. Len(log[g]) : log'[g][k] = log[g][k]

(* A step that leaves the logs alone.                                      *)
LEMMA GrowsUnchanged ==
  ASSUME FeedTypeOK, UNCHANGED log
  PROVE  LogGrows
  BY DEF LogGrows, FeedTypeOK

(* storage.Append extends one log by one block, its last.                  *)
LEMMA GrowsStore ==
  ASSUME FeedTypeOK, NEW t \in Tasks, Store(t)
  PROVE  /\ LogGrows
         /\ Len(log'[HomeOf[t]]) = Len(log[HomeOf[t]]) + 1
         /\ log'[HomeOf[t]][Len(log[HomeOf[t]]) + 1] = job[t].value
<1>1. HomeOf[t] \in Gateways /\ job[t].value \in Payloads
  BY FeedAssumption DEF Store, FeedTypeOK
<1>2. log' = [log EXCEPT ![HomeOf[t]] = Append(log[HomeOf[t]], job[t].value)]
  BY DEF Store
<1>3. log \in [Gateways -> Seq(Payloads)]
  BY DEF FeedTypeOK
<1>4. log'[HomeOf[t]] = Append(log[HomeOf[t]], job[t].value)
  BY <1>1, <1>2, <1>3
<1>5. \A g \in Gateways : g # HomeOf[t] => log'[g] = log[g]
  BY <1>2, <1>3
<1>6. log[HomeOf[t]] \in Seq(Payloads)
  BY <1>1, <1>3
<1>7. /\ Len(log'[HomeOf[t]]) = Len(log[HomeOf[t]]) + 1
      /\ log'[HomeOf[t]][Len(log[HomeOf[t]]) + 1] = job[t].value
      /\ \A k \in 1 .. Len(log[HomeOf[t]]) : log'[HomeOf[t]][k] = log[HomeOf[t]][k]
  BY <1>1, <1>4, <1>6
<1>8. \A g \in Gateways : Len(log[g]) \in Nat
  BY <1>3
<1> QED
  BY <1>5, <1>7, <1>8, <1>1 DEF LogGrows

(* A block that lies in a log keeps lying there.                           *)
LEMMA LiesStays ==
  ASSUME FeedTypeOK, FeedTypeOK', LogGrows, NEW g \in Gateways, NEW i \in Nat, NEW v,
         LiesAtOrAfter(g, i, v)
  PROVE  LiesAtOrAfter(g, i, v)'
<1>1. Len(log[g]) \in Nat /\ Len(log'[g]) \in Nat
  BY DEF FeedTypeOK
<1>2. PICK k \in (i + 1) .. Len(log[g]) : log[g][k] = v
  BY DEF LiesAtOrAfter
<1>3. k \in 1 .. Len(log[g]) /\ k \in (i + 1) .. Len(log'[g])
  BY <1>1 DEF LogGrows
<1> QED
  BY <1>2, <1>3 DEF LogGrows, LiesAtOrAfter

(* As long as the repository gets no row and no client a notification,     *)
(* what they name keeps existing.                                          *)
LEMMA NamedBlocksStay ==
  ASSUME FeedInv, FeedTypeOK', LogGrows, UNCHANGED <<repo, told>>
  PROVE  StoredBlocksExist' /\ ToldBlocksExist'
<1>1. StoredBlocksExist'
  <2> SUFFICES ASSUME NEW g \in Gateways, NEW i \in Indices, repo[g][i] # NoBlock
               PROVE  LiesAtOrAfter(g, i, repo[g][i].value)'
    BY DEF StoredBlocksExist
  <2>1. LiesAtOrAfter(g, i, repo[g][i].value) /\ i \in Nat
    BY FeedAssumption DEF FeedInv, StoredBlocksExist
  <2> DEFINE v == repo[g][i].value
  <2>2. v' = v
    OBVIOUS
  <2> HIDE DEF v
  <2> QED
    BY <2>1, <2>2, LiesStays DEF FeedInv, v, LiesAtOrAfter
<1>2. ToldBlocksExist'
  <2> SUFFICES ASSUME NEW g \in Gateways, NEW m \in told[g]
               PROVE  LiesAtOrAfter(g, m[1], m[2])'
    BY DEF ToldBlocksExist
  <2>1. LiesAtOrAfter(g, m[1], m[2]) /\ m[1] \in Nat
    BY DEF FeedInv, ToldBlocksExist, FeedTypeOK
  <2> QED
    BY <2>1, LiesStays DEF FeedInv
<1> QED
  BY <1>1, <1>2

(* What the goroutines other than u rely on, they can still rely on.       *)
LEMMA OthersJobsStay ==
  ASSUME FeedInv, FeedTypeOK', LogGrows, NEW u \in Tasks, job'[u] = job[u]
  PROVE  /\ job'[u].stage = "measured" => job'[u].index <= Len(log'[HomeOf[u]])
         /\ job'[u].stage = "appended" => LiesAtOrAfter(HomeOf[u], job[u].index, job[u].value)'
<1>1. HomeOf[u] \in Gateways /\ job[u].index \in Nat
  BY FeedAssumption DEF FeedInv, FeedTypeOK
<1>2. Len(log[HomeOf[u]]) \in Nat /\ Len(log'[HomeOf[u]]) \in Nat
  BY <1>1 DEF FeedInv, FeedTypeOK
<1>3. ASSUME job[u].stage = "appended"
      PROVE  LiesAtOrAfter(HomeOf[u], job[u].index, job[u].value)'
  <2> DEFINE i == job[u].index
             v == job[u].value
  <2>1. LiesAtOrAfter(HomeOf[u], i, v) /\ i \in Nat
    BY <1>1, <1>3 DEF FeedInv, JobsExist
  <2>2. i' = i /\ v' = v
    OBVIOUS
  <2>3. \E k \in (i + 1) .. Len(log'[HomeOf[u]]) : log'[HomeOf[u]][k] = v
    <3>1. PICK k \in (i + 1) .. Len(log[HomeOf[u]]) : log[HomeOf[u]][k] = v
      BY <2>1 DEF LiesAtOrAfter
    <3> HIDE DEF i, v
    <3>2. k \in 1 .. Len(log[HomeOf[u]]) /\ k \in (i + 1) .. Len(log'[HomeOf[u]])
      BY <1>1, <1>2, <2>1 DEF LogGrows
    <3> QED
      BY <1>1, <3>1, <3>2 DEF LogGrows
  <2> QED
    BY <2>2, <2>3 DEF LiesAtOrAfter
<1>4. ASSUME job[u].stage = "measured" PROVE job[u].index <= Len(log'[HomeOf[u]])
  BY <1>1, <1>2, <1>4 DEF FeedInv, JobsExist, LogGrows
<1> QED
  BY <1>3, <1>4

(* A step that changes no log, row or notification, and after which u has  *)
(* appended nothing and measured at most the length of its log.            *)
LEMMA QuietStep ==
  ASSUME FeedInv, FeedTypeOK', UNCHANGED <<log, repo, told>>, NEW t \in Tasks,
         \A u \in Tasks \ {t} : job'[u] = job[u],
         job'[t].stage # "appended",
         job'[t].stage = "measured" => job'[t].index <= Len(log[HomeOf[t]])
  PROVE  FeedInv'
<1>1. LogGrows
  BY GrowsUnchanged DEF FeedInv
<1>2. StoredBlocksExist' /\ ToldBlocksExist'
  BY <1>1, NamedBlocksStay
<1>3. ASSUME NEW u \in Tasks
      PROVE  /\ job'[u].stage = "measured" => job'[u].index <= Len(log'[HomeOf[u]])
             /\ job'[u].stage = "appended" => LiesAtOrAfter(HomeOf[u], job[u].index, job[u].value)'
  BY <1>1, OthersJobsStay
<1> QED
  BY <1>2, <1>3 DEF FeedInv, JobsExist, LiesAtOrAfter

(* Initially nothing is promised.                                          *)
LEMMA InvInit == FeedInit => FeedInv
<1> SUFFICES ASSUME FeedInit PROVE FeedInv
  OBVIOUS
<1>1. FeedTypeOK
  BY TypeInit
<1>2. JobsExist
  BY DEF JobsExist, FeedInit, IdleJob
<1>3. StoredBlocksExist /\ ToldBlocksExist
  BY DEF StoredBlocksExist, ToldBlocksExist, FeedInit
<1> QED
  BY <1>1, <1>2, <1>3 DEF FeedInv

(* Appending keeps every promise and makes good that of the goroutine that *)
(* appends: its block is the last one, at or after the length it read.     *)
LEMMA InvStore ==
  ASSUME FeedInv, FeedTypeOK', NEW t \in Tasks, Store(t)
  PROVE  FeedInv'
<1>1. /\ LogGrows
      /\ Len(log'[HomeOf[t]]) = Len(log[HomeOf[t]]) + 1
      /\ log'[HomeOf[t]][Len(log[HomeOf[t]]) + 1] = job[t].value
  BY GrowsStore DEF FeedInv
<1>2. StoredBlocksExist' /\ ToldBlocksExist'
  BY <1>1, NamedBlocksStay DEF Store
<1>3. /\ job'[t].stage = "appended"
      /\ job'[t].index = job[t].index
      /\ job'[t].value = job[t].value
      /\ \A u \in Tasks \ {t} : job'[u] = job[u]
  BY DEF FeedInv, FeedTypeOK, Store
<1>4. LiesAtOrAfter(HomeOf[t], job[t].index, job[t].value)'
  <2>1. HomeOf[t] \in Gateways /\ job[t].index \in Nat /\ Len(log[HomeOf[t]]) \in Nat
    BY FeedAssumption DEF FeedInv, FeedTypeOK
  <2>2. job[t].index <= Len(log[HomeOf[t]])
    BY DEF FeedInv, JobsExist, Store
  <2>3. Len(log[HomeOf[t]]) + 1 \in (job'[t].index + 1) .. Len(log'[HomeOf[t]])
    BY <1>1, <1>3, <2>1, <2>2
  <2> QED
    BY <1>1, <1>3, <2>3 DEF LiesAtOrAfter
<1>5. ASSUME NEW u \in Tasks \ {t}
      PROVE  /\ job'[u].stage = "measured" => job'[u].index <= Len(log'[HomeOf[u]])
             /\ job'[u].stage = "appended" => LiesAtOrAfter(HomeOf[u], job[u].index, job[u].value)'
  BY <1>1, <1>3, OthersJobsStay
<1> QED
  BY <1>2, <1>3, <1>4, <1>5 DEF FeedInv, JobsExist, LiesAtOrAfter

(* PutBlock and the notification name a block whose goroutine appended it. *)
LEMMA InvPublish ==
  ASSUME FeedInv, FeedTypeOK', NEW t \in Tasks, Publish(t)
  PROVE  FeedInv'
<1> DEFINE h == HomeOf[t]
           i == job[t].index
           v == job[t].value
<1>1. h \in Gateways /\ i \in Nat /\ v \in Payloads /\ UNCHANGED log
  BY FeedAssumption DEF FeedInv, FeedTypeOK, Publish
<1>2. LiesAtOrAfter(h, i, v)
  BY DEF FeedInv, JobsExist, Publish
<1>3. LogGrows
  BY <1>1, GrowsUnchanged DEF FeedInv
<1>4. StoredBlocksExist'
  <2> DEFINE b == [value |-> v, sig |-> job[t].sig]
  <2>1. repo' = [repo EXCEPT ![h] = [repo[h] EXCEPT ![i] = b]] \/ repo' = repo
    BY DEF Publish, PutBlock
  <2>2. b.value = v
    OBVIOUS
  <2> HIDE DEF b, h, i, v
  <2> SUFFICES ASSUME NEW g \in Gateways, NEW j \in Indices, repo'[g][j] # NoBlock
               PROVE  \E k \in (j + 1) .. Len(log[g]) : log[g][k] = repo'[g][j].value
    BY <1>1 DEF StoredBlocksExist, LiesAtOrAfter
  <2>3. repo \in [Gateways -> [Indices -> Blocks \cup {NoBlock}]]
    BY DEF FeedInv, FeedTypeOK
  <2>4. CASE repo'[g][j] = repo[g][j]
    BY <2>4 DEF FeedInv, StoredBlocksExist, LiesAtOrAfter
  <2>5. CASE repo'[g][j] # repo[g][j]
    <3>1. g = h /\ j = i /\ repo'[g][j] = b
      BY <2>1, <2>3, <2>5, <1>1
    <3> QED
      BY <3>1, <2>2, <1>2 DEF LiesAtOrAfter
  <2> QED
    BY <2>4, <2>5
<1>5. ToldBlocksExist'
  <2>1. \A g \in Gateways : told'[g] \subseteq told[g] \cup {<<i, v>>}
                            /\ (g # h => told'[g] = told[g])
    BY <1>1 DEF Publish, Report, FeedInv, FeedTypeOK
  <2> SUFFICES ASSUME NEW g \in Gateways, NEW m \in told'[g]
               PROVE  \E k \in (m[1] + 1) .. Len(log[g]) : log[g][k] = m[2]
    BY <1>1 DEF ToldBlocksExist, LiesAtOrAfter
  <2>2. CASE m \in told[g]
    BY <2>2 DEF FeedInv, ToldBlocksExist, LiesAtOrAfter
  <2>3. CASE m \notin told[g]
    <3> HIDE DEF h, i, v
    <3>1. g = h /\ m = <<i, v>>
      BY <2>1, <2>3
    <3> QED
      BY <3>1, <1>2 DEF LiesAtOrAfter
  <2> QED
    BY <2>2, <2>3
<1>6. JobsExist'
  <2> SUFFICES ASSUME NEW u \in Tasks
               PROVE  /\ job'[u].stage = "measured" => job'[u].index <= Len(log'[HomeOf[u]])
                      /\ job'[u].stage = "appended"
                           => LiesAtOrAfter(HomeOf[u], job[u].index, job[u].value)'
    BY DEF JobsExist
  <2>1. CASE job'[u] = job[u]
    BY <2>1, <1>3, OthersJobsStay
  <2>2. CASE job'[u] # job[u]
    <3> DEFINE P == [IdleJob EXCEPT !.stage = "posting"]
    <3>1. P.stage = "posting" /\ IdleJob.stage = "idle"
      BY DEF IdleJob
    <3> HIDE DEF P
    <3>2. job'[u] = IdleJob \/ job'[u] = P
      <4>1. CASE Forwards(t)
        <5> PICK r \in Replies : job' = [job EXCEPT ![t] = IdleJob, ![r] = P]
          BY <4>1 DEF Publish, P
        <5> QED
          BY <2>2 DEF FeedInv, FeedTypeOK
      <4>2. CASE ~Forwards(t)
        BY <2>2, <4>2 DEF Publish, FeedInv, FeedTypeOK
      <4> QED
        BY <4>1, <4>2
    <3> QED
      BY <3>1, <3>2
  <2> QED
    BY <2>1, <2>2
<1> QED
  BY <1>4, <1>5, <1>6 DEF FeedInv

(* Reading the length and remembering a block promises nothing yet.        *)
LEMMA InvMeasure ==
  ASSUME FeedInv, NEW t \in Tasks, NEW v \in Payloads, NEW sig \in Sigs,
         Measure(t, v, sig), UNCHANGED <<log, repo, told>>
  PROVE  FeedInv'
<1>0. FeedTypeOK'
  BY MeasureType DEF FeedInv
<1>1. /\ job'[t].stage = "measured"
      /\ job'[t].index = Len(log[HomeOf[t]])
      /\ \A u \in Tasks \ {t} : job'[u] = job[u]
  BY DEF Measure, FeedInv, FeedTypeOK
<1>2. Len(log[HomeOf[t]]) \in Nat
  BY FeedAssumption DEF FeedInv, FeedTypeOK
<1> QED
  BY <1>0, <1>1, <1>2, QuietStep

(* Every step of a feed keeps the invariant.                               *)
LEMMA InvStep == FeedInv /\ [FeedNext]_feedVars => FeedInv'
<1> SUFFICES ASSUME FeedInv, [FeedNext]_feedVars PROVE FeedInv'
  OBVIOUS
<1>0. FeedTypeOK'
  BY TypeStep DEF FeedInv
<1>2. ASSUME NEW t \in Tasks, job' = [job EXCEPT ![t] = IdleJob], UNCHANGED <<log, repo, told>>
      PROVE  FeedInv'
  <2>1. /\ job'[t].stage = "idle"
        /\ \A u \in Tasks \ {t} : job'[u] = job[u]
    BY <1>2 DEF FeedInv, FeedTypeOK, IdleJob
  <2> QED
    BY <1>0, <1>2, <2>1, QuietStep
<1>3. ASSUME NEW c \in Clients, AppendBlock(c) PROVE FeedInv'
  <2> PICK v \in Payloads, sig \in ClientSigs : Measure(c, v, sig)
    BY <1>3 DEF AppendBlock
  <2> QED
    BY <1>3, InvMeasure, FeedAssumption DEF AppendBlock
<1>4. ASSUME NEW s \in Sessions, NEW i \in Indices, NEW v \in Payloads, NEW sig \in PeerSigs,
             ReceiveData(s, i, v, sig)
      PROVE  FeedInv'
  BY <1>4, InvMeasure, FeedAssumption DEF ReceiveData
<1>5. ASSUME NEW r \in Replies, AgenticReply(r) \/ AgenticFails(r) PROVE FeedInv'
  <2>1. CASE AgenticReply(r)
    <3> PICK v \in AgentChats : Measure(r, v, NoSig)
      BY <2>1 DEF AgenticReply
    <3> QED
      BY <2>1, InvMeasure, NoSigType, FeedAssumption DEF AgenticReply
  <2>2. CASE AgenticFails(r)
    BY <1>2, <2>2 DEF AgenticFails
  <2> QED
    BY <1>5, <2>1, <2>2
<1>6. ASSUME NEW t \in Tasks, Store(t) \/ StoreFails(t) \/ Publish(t) PROVE FeedInv'
  BY <1>0, <1>2, <1>6, InvStore, InvPublish DEF StoreFails
<1>7. CASE UNCHANGED feedVars
  BY <1>7 DEF feedVars, FeedInv, FeedTypeOK, JobsExist, StoredBlocksExist, ToldBlocksExist,
              LiesAtOrAfter
<1> QED
  BY <1>3, <1>4, <1>5, <1>6, <1>7 DEF FeedNext

(* The invariant holds throughout.                                         *)
THEOREM FeedInvariant == FeedSpec => []FeedInv
  BY InvInit, InvStep, PTL DEF FeedSpec

(* Whatever the clients, sessions and reply goroutines, and however they   *)
(* interleave: no row of the block repository names a block that the log   *)
(* does not hold at that index or after it.                                *)
THEOREM RowsExist == FeedSpec => []StoredBlocksExist
<1>1. FeedInv => StoredBlocksExist
  BY DEF FeedInv
<1> QED
  BY <1>1, FeedInvariant, PTL

(* Likewise, no IPC client is told of a block that is not in the log at    *)
(* the index it is told, or after it.                                      *)
THEOREM NotificationsExist == FeedSpec => []ToldBlocksExist
<1>1. FeedInv => ToldBlocksExist
  BY DEF FeedInv
<1> QED
  BY <1>1, FeedInvariant, PTL

-----------------------------------------------------------------------------
(* What one session verified is what is stored *)

(* The leaves that are signed with a block are those before it and itself. *)
LEMMA LeavesFacts ==
  ASSUME NEW l \in Seq(Payloads), NEW i \in Nat, i < Len(l)
  PROVE  /\ SubSeq(l, 1, i + 1) \in Seq(Payloads)
         /\ Len(SubSeq(l, 1, i + 1)) = i + 1
         /\ \A k \in 1 .. i + 1 : SubSeq(l, 1, i + 1)[k] = l[k]
<1>1. Len(l) \in Nat /\ \A k \in 1 .. i + 1 : l[k] \in Payloads
  BY LenProperties, ElementOfSeq
<1>2. /\ SubSeq(l, 1, i + 1) \in Seq(Payloads)
      /\ Len(SubSeq(l, 1, i + 1)) = IF 1 <= i + 1 THEN i + 1 - 1 + 1 ELSE 0
      /\ \A k \in 1 .. i + 1 - 1 + 1 : SubSeq(l, 1, i + 1)[k] = l[1 + k - 1]
  BY <1>1, SubSeqProperties, 1 \in Int, i + 1 \in Int
<1> QED
  BY <1>2

(* They stay the same when the log grows.                                  *)
LEMMA LeavesStay ==
  ASSUME NEW l \in Seq(Payloads), NEW l2 \in Seq(Payloads), Len(l) <= Len(l2),
         \A k \in 1 .. Len(l) : l2[k] = l[k], NEW i \in Nat, i < Len(l)
  PROVE  SubSeq(l2, 1, i + 1) = SubSeq(l, 1, i + 1)
<1>1. Len(l) \in Nat /\ Len(l2) \in Nat /\ i < Len(l2)
  BY LenProperties
<1>2. \A k \in 1 .. i + 1 : SubSeq(l2, 1, i + 1)[k] = SubSeq(l, 1, i + 1)[k]
  BY <1>1, LeavesFacts
<1> QED
  BY <1>1, <1>2, LeavesFacts, SeqEqual

(* What the goroutine of s and the rows it wrote hold, where it is the     *)
(* only one that writes.                                                   *)
WriterKeeps(s) ==
  LET g == HomeOf[s] IN
  /\ job[s].stage = "measured" =>
       job[s].index = Len(log[g]) /\ Verified(s, job[s].value, job[s].sig)
  /\ job[s].stage = "appended" =>
       job[s].index + 1 = Len(log[g]) /\ Verify(RemoteOf[s], log[g], job[s].sig)
  /\ \A i \in Indices : repo[g][i] # NoBlock =>
       /\ i < Len(log[g])
       /\ Verify(RemoteOf[s], SubSeq(log[g], 1, i + 1), repo[g][i].sig)

OnlyWritersKeep == \A s \in Sessions : OnlyWriter(s, HomeOf[s]) => WriterKeeps(s)

(* A step of another gateway.                                              *)
LEMMA KeepsElsewhere ==
  ASSUME NEW s \in Sessions, WriterKeeps(s), job'[s] = job[s],
         log'[HomeOf[s]] = log[HomeOf[s]], repo'[HomeOf[s]] = repo[HomeOf[s]]
  PROVE  WriterKeeps(s)'
  BY DEF WriterKeeps, Verified

(* The block is appended: the signature was checked over what is now the   *)
(* whole log.                                                              *)
LEMMA KeepsStore ==
  ASSUME FeedTypeOK, FeedTypeOK', NEW s \in Sessions, WriterKeeps(s), Store(s)
  PROVE  WriterKeeps(s)'
<1> DEFINE g == HomeOf[s]
<1>1. g \in Gateways /\ log[g] \in Seq(Payloads) /\ log'[g] \in Seq(Payloads) /\ Len(log[g]) \in Nat
  BY FeedAssumption, LenProperties DEF FeedTypeOK
<1>2. /\ LogGrows
      /\ Len(log'[g]) = Len(log[g]) + 1
  BY GrowsStore
<1>3. /\ job'[s].stage = "appended" /\ job'[s].index = job[s].index /\ job'[s].sig = job[s].sig
      /\ log'[g] = Append(log[g], job[s].value) /\ UNCHANGED repo
  BY <1>1 DEF FeedTypeOK, Store
<1>4. job[s].index = Len(log[g]) /\ Verify(RemoteOf[s], log'[g], job[s].sig)
  BY <1>3 DEF WriterKeeps, Verified, Store
<1>5. ASSUME NEW i \in Indices, repo[g][i] # NoBlock
      PROVE  i < Len(log'[g]) /\ Verify(RemoteOf[s], SubSeq(log'[g], 1, i + 1), repo[g][i].sig)
  <2>1. i < Len(log[g]) /\ Verify(RemoteOf[s], SubSeq(log[g], 1, i + 1), repo[g][i].sig)
    BY <1>5 DEF WriterKeeps
  <2>2. i \in Nat
    BY FeedAssumption
  <2>3. /\ Len(log[g]) <= Len(log'[g])
        /\ \A k \in 1 .. Len(log[g]) : log'[g][k] = log[g][k]
    BY <1>1, <1>2 DEF LogGrows
  <2>4. SubSeq(log'[g], 1, i + 1) = SubSeq(log[g], 1, i + 1)
    BY <1>1, <2>1, <2>2, <2>3, LeavesStay
  <2>5. i < Len(log'[g])
    BY <1>1, <1>2, <2>1, <2>2
  <2>6. Verify(RemoteOf[s], SubSeq(log'[g], 1, i + 1), repo[g][i].sig)
    BY <2>1, <2>4
  <2> QED
    BY <2>5, <2>6
<1> QED
  BY <1>2, <1>3, <1>4, <1>5 DEF WriterKeeps, Verify

(* The row is put at the index that was read before the append, the last   *)
(* one of the log.                                                         *)
LEMMA KeepsPublish ==
  ASSUME FeedTypeOK, NEW s \in Sessions, WriterKeeps(s), Publish(s)
  PROVE  WriterKeeps(s)'
<1> DEFINE g == HomeOf[s]
           n == job[s].index
           b == [value |-> job[s].value, sig |-> job[s].sig]
<1>1. g \in Gateways /\ log[g] \in Seq(Payloads) /\ Len(log[g]) \in Nat /\ n \in Nat /\ UNCHANGED log
  BY FeedAssumption, LenProperties DEF FeedTypeOK, Publish
<1>2. job'[s].stage = "idle"
  <2>1. CASE Forwards(s)
    <3> PICK r \in Replies :
          job' = [job EXCEPT ![s] = IdleJob, ![r] = [IdleJob EXCEPT !.stage = "posting"]]
      BY <2>1 DEF Publish
    <3> QED
      BY FeedAssumption DEF FeedTypeOK, IdleJob
  <2>2. CASE ~Forwards(s)
    BY <2>2 DEF Publish, FeedTypeOK, IdleJob
  <2> QED
    BY <2>1, <2>2
<1>3. n + 1 = Len(log[g]) /\ Verify(RemoteOf[s], log[g], b.sig)
  BY DEF WriterKeeps, Publish
<1>4. SubSeq(log[g], 1, n + 1) = log[g]
  BY <1>1, <1>3, SubSeqFull
<1>5. repo' = [repo EXCEPT ![g] = [repo[g] EXCEPT ![n] = b]] \/ repo' = repo
  BY DEF Publish, PutBlock
<1>6. ASSUME NEW i \in Indices, repo'[g][i] # NoBlock
      PROVE  i < Len(log[g]) /\ Verify(RemoteOf[s], SubSeq(log[g], 1, i + 1), repo'[g][i].sig)
  <2> HIDE DEF b, n, g
  <2>1. CASE repo'[g][i] = repo[g][i]
    BY <1>6, <2>1 DEF WriterKeeps, g
  <2>2. CASE repo'[g][i] # repo[g][i]
    <3>1. i = n /\ repo'[g][i] = b
      BY <1>1, <1>5, <2>2 DEF FeedTypeOK
    <3>2. i < Len(log[g])
      BY <1>1, <1>3, <3>1
    <3>3. Verify(RemoteOf[s], SubSeq(log[g], 1, i + 1), repo'[g][i].sig)
      BY <1>3, <1>4, <3>1
    <3> QED
      BY <3>2, <3>3
  <2> QED
    BY <2>1, <2>2
<1> QED
  BY <1>1, <1>2, <1>6 DEF WriterKeeps

(* Initially nothing is kept.                                              *)
LEMMA KeepInit == FeedInit => OnlyWritersKeep
  BY FeedAssumption DEF FeedInit, OnlyWritersKeep, WriterKeeps, IdleJob

(* Steps of other goroutines are steps of other gateways.                  *)
LEMMA KeepOthers ==
  ASSUME FeedTypeOK, OnlyWritersKeep, NEW t \in Tasks, NEW s \in Sessions, s # t,
         OnlyWriter(s, HomeOf[s]),
         Store(t) \/ Publish(t) \/ UNCHANGED <<log, repo>>, job'[s] = job[s]
  PROVE  WriterKeeps(s)'
<1>1. HomeOf[t] # HomeOf[s] /\ HomeOf[t] \in Gateways /\ HomeOf[s] \in Gateways
  BY FeedAssumption DEF OnlyWriter
<1>2. log'[HomeOf[s]] = log[HomeOf[s]] /\ repo'[HomeOf[s]] = repo[HomeOf[s]]
  <2>1. CASE Store(t)
    BY <1>1, <2>1 DEF Store, FeedTypeOK
  <2>2. CASE Publish(t)
    BY <1>1, <2>2 DEF Publish, PutBlock, FeedTypeOK
  <2> QED
    BY <2>1, <2>2
<1> QED
  BY <1>2, KeepsElsewhere DEF OnlyWritersKeep

(* Every step keeps what the only writers of a feed keep.                  *)
LEMMA KeepStep ==
  FeedInv /\ FeedInv' /\ OnlyWritersKeep /\ [FeedNext]_feedVars => OnlyWritersKeep'
<1> SUFFICES ASSUME FeedInv, FeedInv', OnlyWritersKeep, [FeedNext]_feedVars,
                    NEW s \in Sessions, OnlyWriter(s, HomeOf[s])
             PROVE  WriterKeeps(s)'
  BY DEF OnlyWritersKeep, OnlyWriter
<1>0. FeedTypeOK /\ FeedTypeOK' /\ WriterKeeps(s)
  BY DEF FeedInv, OnlyWritersKeep
<1>a. s \in Tasks /\ s \notin Clients /\ s \notin Replies
  BY FeedAssumption
<1>b. ASSUME NEW t \in Tasks, NEW v, NEW sig, Measure(t, v, sig), t # s PROVE job'[s] = job[s]
  BY <1>0, <1>a, <1>b DEF Measure, FeedTypeOK
<1>1. ASSUME NEW c \in Clients, AppendBlock(c) PROVE WriterKeeps(s)'
  <2> PICK v \in Payloads, sig \in ClientSigs : Measure(c, v, sig)
    BY <1>1 DEF AppendBlock
  <2> QED
    BY <1>0, <1>1, <1>a, <1>b, KeepOthers DEF AppendBlock
<1>2. ASSUME NEW u \in Sessions, NEW i \in Indices, NEW v \in Payloads, NEW sig \in PeerSigs,
             ReceiveData(u, i, v, sig)
      PROVE  WriterKeeps(s)'
  <2>1. CASE u = s
    <3>1. /\ job'[s].stage = "measured" /\ job'[s].index = Len(log[HomeOf[s]])
          /\ job'[s].value = v /\ job'[s].sig = sig /\ UNCHANGED <<log, repo>>
          /\ Verified(s, v, sig)
      BY <1>0, <1>2, <1>a, <2>1 DEF ReceiveData, Measure, FeedTypeOK
    <3> QED
      BY <1>0, <3>1 DEF WriterKeeps, Verified
  <2>2. CASE u # s
    BY <1>0, <1>2, <1>b, <2>2, KeepOthers DEF ReceiveData
  <2> QED
    BY <2>1, <2>2
<1>3. ASSUME NEW r \in Replies, AgenticReply(r) PROVE WriterKeeps(s)'
  <2> PICK v \in AgentChats : Measure(r, v, NoSig)
    BY <1>3 DEF AgenticReply
  <2> QED
    BY <1>0, <1>3, <1>a, <1>b, KeepOthers DEF AgenticReply
<1>4. ASSUME NEW t \in Tasks, job' = [job EXCEPT ![t] = IdleJob], UNCHANGED <<log, repo, told>>
      PROVE  WriterKeeps(s)'
  <2>1. CASE t = s
    <3>1. job'[s].stage = "idle"
      BY <1>0, <1>4, <1>a, <2>1 DEF FeedTypeOK, IdleJob
    <3> QED
      BY <1>0, <1>4, <3>1 DEF WriterKeeps
  <2>2. CASE t # s
    <3>1. job'[s] = job[s]
      BY <1>0, <1>4, <1>a, <2>2 DEF FeedTypeOK
    <3> QED
      BY <1>0, <1>4, <2>2, <3>1, KeepOthers
  <2> QED
    BY <2>1, <2>2
<1>5. ASSUME NEW t \in Tasks, Store(t) PROVE WriterKeeps(s)'
  <2>1. CASE t = s
    BY <1>0, <1>5, <2>1, KeepsStore
  <2>2. CASE t # s
    <3>1. job'[s] = job[s]
      BY <1>0, <1>5, <1>a, <2>2 DEF Store, FeedTypeOK
    <3> QED
      BY <1>0, <1>5, <2>2, <3>1, KeepOthers
  <2> QED
    BY <2>1, <2>2
<1>6. ASSUME NEW t \in Tasks, Publish(t) PROVE WriterKeeps(s)'
  <2>1. CASE t = s
    BY <1>0, <1>6, <2>1, KeepsPublish
  <2>2. CASE t # s
    <3>1. job'[s] = job[s]
      <4>1. CASE Forwards(t)
        <5> PICK r \in Replies :
              job' = [job EXCEPT ![t] = IdleJob, ![r] = [IdleJob EXCEPT !.stage = "posting"]]
          BY <1>6, <4>1 DEF Publish
        <5> QED
          BY <1>0, <1>a, <2>2 DEF FeedTypeOK
      <4>2. CASE ~Forwards(t)
        BY <1>0, <1>6, <1>a, <2>2, <4>2 DEF Publish, FeedTypeOK
      <4> QED
        BY <4>1, <4>2
    <3> QED
      BY <1>0, <1>6, <2>2, <3>1, KeepOthers
  <2> QED
    BY <2>1, <2>2
<1>7. CASE UNCHANGED feedVars
  BY <1>0, <1>7, KeepsElsewhere DEF feedVars
<1> QED
  BY <1>1, <1>2, <1>3, <1>4, <1>5, <1>6, <1>7 DEF FeedNext, AgenticFails, StoreFails

(* In a gateway that only one session writes to, every signature kept in   *)
(* the block repository verifies under the remote peer's key against the   *)
(* log as it is, however long it has become: whoever else runs elsewhere,  *)
(* and although the row is put two calls after the signature was checked.  *)
THEOREM SignaturesKept == FeedSpec => []StoredSignaturesVerify
<1>1. OnlyWritersKeep => StoredSignaturesVerify
  <2> SUFFICES ASSUME OnlyWritersKeep, NEW g \in Gateways, NEW s \in Sessions, OnlyWriter(s, g)
               PROVE  \A i \in Indices : repo[g][i] # NoBlock =>
                        /\ i < Len(log[g])
                        /\ Verify(RemoteOf[s], SubSeq(log[g], 1, i + 1), repo[g][i].sig)
    BY DEF StoredSignaturesVerify
  <2>1. HomeOf[s] = g
    BY DEF OnlyWriter
  <2> QED
    BY <2>1 DEF OnlyWritersKeep, WriterKeeps
<1>2. FeedSpec => []OnlyWritersKeep
  BY FeedInvariant, KeepInit, KeepStep, PTL DEF FeedSpec
<1> QED
  BY <1>1, <1>2, PTL
=============================================================================
