--------------------------- MODULE StorageProofs ---------------------------
(* Proofs about module Storage, for every set of blocks and every bound on *)
(* the calls of Append: the types, that acknowledged blocks read back, that *)
(* reads are stable, and that the storage implements an append-only log.    *)
EXTENDS Storage, SequenceTheorems, TLAPS

(* index.log names, for every acknowledged block, where it is in data.log. *)
IndexNamesAcked ==
  LET es == ReadEntries(indexF) IN
  /\ Len(indexF) = 2 * Len(acked)
  /\ \A k \in 1 .. Len(acked) : Readable(es[k]) /\ Get(es[k]) = acked[k]

(* The memory of the process agrees with the files.                        *)
MemoryAgrees ==
  open => entries = ReadEntries(indexF) /\ dataSize = Len(dataF)

(* The data of a block whose entry is not written yet is in data.log.      *)
PendingIsWritten ==
  pending # None =>
    /\ pending.offset + Len(pending.block) <= Len(dataF)
    /\ SubSeq(dataF, pending.offset + 1, pending.offset + Len(pending.block)) = pending.block

StorageInv ==
  /\ StorageTypeOK
  /\ ~faulty => IndexNamesAcked /\ MemoryAgrees /\ PendingIsWritten

-----------------------------------------------------------------------------
(* Sequences *)

(* What is written at the end of a file does not change what is before it. *)
LEMMA SubSeqOfLonger ==
  ASSUME NEW S, NEW s \in Seq(S), NEW t \in Seq(S), NEW m \in Nat, NEW n \in Nat,
         m + n <= Len(s)
  PROVE  SubSeq(s \o t, m + 1, m + n) = SubSeq(s, m + 1, m + n)
<1>1. CASE n = 0
  <2>1. m + n < m + 1
    BY <1>1
  <2> QED
    BY <2>1, SubSeqEmpty
<1>2. CASE n # 0
  <2>1. m + 1 \in 1 .. Len(s) /\ m + n \in 1 .. Len(s)
    BY <1>2, LenProperties
  <2> QED
    BY <2>1, SubSeqOfConcat1
<1> QED
  BY <1>1, <1>2

(* What is written last is at the end of the file.                         *)
LEMMA SubSeqOfAdded ==
  ASSUME NEW S, NEW s \in Seq(S), NEW t \in Seq(S)
  PROVE  SubSeq(s \o t, Len(s) + 1, Len(s) + Len(t)) = t
<1>1. Len(s) \in Nat /\ Len(t) \in Nat
  BY LenProperties
<1>2. CASE Len(t) = 0
  <2>1. t = << >>
    BY <1>2, EmptySeq
  <2> QED
    BY <1>1, <1>2, <2>1, SubSeqEmpty
<1>3. CASE Len(t) # 0
  <2>1. SubSeq(s \o t, Len(s) + 1, Len(s) + Len(t)) = SubSeq(t, 1, Len(t))
    BY <1>1, <1>3, SubSeqOfConcat2
  <2> QED
    BY <2>1, SubSeqFull
<1> QED
  BY <1>2, <1>3

(* ReadEntries reads one entry for every two words.                        *)
LEMMA ReadEntriesType ==
  ASSUME NEW w \in Seq(Nat)
  PROVE  /\ ReadEntries(w) \in Seq(Entries)
         /\ Len(ReadEntries(w)) = Len(w) \div 2
         /\ \A k \in 1 .. (Len(w) \div 2) :
              ReadEntries(w)[k] = [offset |-> w[2*k - 1], length |-> w[2*k]]
<1> DEFINE n == Len(w) \div 2
<1>1. n \in Nat /\ 2 * n <= Len(w)
  BY LenProperties
<1>2. \A k \in 1 .. n : 2*k - 1 \in 1 .. Len(w) /\ 2*k \in 1 .. Len(w)
  BY <1>1, LenProperties
<1>3. \A k \in 1 .. n : [offset |-> w[2*k - 1], length |-> w[2*k]] \in Entries
  BY <1>2 DEF Entries
<1>4. ReadEntries(w) = [k \in 1 .. n |-> [offset |-> w[2*k - 1], length |-> w[2*k]]]
  BY DEF ReadEntries
<1> HIDE DEF n
<1>5. ReadEntries(w) \in Seq(Entries) /\ Len(ReadEntries(w)) = n
  BY <1>1, <1>3, <1>4
<1> QED
  BY <1>4, <1>5 DEF n

(* An entry written behind whole entries is read back as the last one.     *)
LEMMA ReadEntriesGrow ==
  ASSUME NEW w \in Seq(Nat), NEW n \in Nat, Len(w) = 2 * n, NEW a \in Nat, NEW b \in Nat
  PROVE  /\ w \o <<a, b>> \in Seq(Nat)
         /\ Len(w \o <<a, b>>) = 2 * (n + 1)
         /\ ReadEntries(w \o <<a, b>>) = Append(ReadEntries(w), [offset |-> a, length |-> b])
<1> DEFINE v == w \o <<a, b>>
           e == [offset |-> a, length |-> b]
<1>1. v \in Seq(Nat) /\ Len(v) = 2 * n + 2
  BY DEF v
<1>2. /\ \A k \in 1 .. 2*n : v[k] = w[k]
      /\ v[2*n + 1] = a /\ v[2*n + 2] = b
  <2> DEFINE ab == <<a, b>>
  <2>1. ab \in Seq(Nat) /\ Len(ab) = 2 /\ ab[1] = a /\ ab[2] = b
    OBVIOUS
  <2> HIDE DEF ab
  <2>2. \A k \in 1 .. Len(w) + Len(ab) :
          (w \o ab)[k] = IF k <= Len(w) THEN w[k] ELSE ab[k - Len(w)]
    BY <2>1, ConcatProperties
  <2>3. 2*n + 1 - 2*n = 1 /\ 2*n + 2 - 2*n = 2
    OBVIOUS
  <2> QED
    BY <2>1, <2>2, <2>3 DEF v, ab
<1>3. Len(w) \div 2 = n /\ Len(v) \div 2 = n + 1
  BY <1>1
<1> HIDE DEF v
<1>4. /\ ReadEntries(v) \in Seq(Entries) /\ Len(ReadEntries(v)) = n + 1
      /\ \A k \in 1 .. n + 1 :
           ReadEntries(v)[k] = [offset |-> v[2*k - 1], length |-> v[2*k]]
  BY <1>1, <1>3, ReadEntriesType
<1>5. /\ ReadEntries(w) \in Seq(Entries) /\ Len(ReadEntries(w)) = n
      /\ \A k \in 1 .. n :
           ReadEntries(w)[k] = [offset |-> w[2*k - 1], length |-> w[2*k]]
  BY <1>3, ReadEntriesType
<1> DEFINE es == Append(ReadEntries(w), e)
<1>6. /\ es \in Seq(Entries) /\ Len(es) = n + 1 /\ es[n + 1] = e
      /\ \A k \in 1 .. n : es[k] = ReadEntries(w)[k]
  <2>1. e \in Entries
    BY DEF Entries
  <2> HIDE DEF e
  <2> QED
    BY <1>5, <2>1, AppendProperties
<1> HIDE DEF es
<1>7. ASSUME NEW k \in 1 .. n + 1 PROVE ReadEntries(v)[k] = es[k]
  <2>1. CASE k = n + 1
    <3>1. 2*k - 1 = 2*n + 1 /\ 2*k = 2*n + 2
      BY <2>1
    <3> QED
      BY <1>2, <1>4, <1>6, <2>1, <3>1
  <2>2. CASE k # n + 1
    <3>1. k \in 1 .. n /\ 2*k - 1 \in 1 .. 2*n /\ 2*k \in 1 .. 2*n
      BY <2>2
    <3> QED
      BY <1>2, <1>4, <1>5, <1>6, <3>1
  <2> QED
    BY <2>1, <2>2
<1>8. ReadEntries(v) = es
  BY <1>4, <1>6, <1>7, SeqEqual
<1>9. Len(v) = 2 * (n + 1)
  BY <1>1
<1> QED
  BY <1>1, <1>8, <1>9 DEF v, es

-----------------------------------------------------------------------------
(* Types *)

(* A new storage has the right types.                                      *)
LEMMA StorageTypeInit == Init => StorageTypeOK
<1> SUFFICES ASSUME Init PROVE StorageTypeOK
  OBVIOUS
<1>1. dataF \in Seq(Cells) /\ indexF \in Seq(Nat) /\ entries \in Seq(Entries) /\ acked \in Seq(Blocks)
  BY EmptySeq DEF Init
<1>2. faulty \in BOOLEAN /\ appends \in 0 .. MaxAppends
  BY StorageAssumption DEF Init
<1> QED
  BY <1>1, <1>2 DEF Init, StorageTypeOK

(* The entry that WriteIndex adds, and the words it writes.                *)
LEMMA PendingType ==
  ASSUME StorageTypeOK, pending # None
  PROVE  /\ pending.offset \in Nat /\ pending.block \in Blocks /\ pending.block \in Seq(Cells)
         /\ Len(pending.block) \in Nat
         /\ [offset |-> pending.offset, length |-> Len(pending.block)] \in Entries
<1>1. pending.offset \in Nat /\ pending.block \in Blocks
  BY DEF StorageTypeOK
<1>2. pending.block \in Seq(Cells) /\ Len(pending.block) \in Nat
  BY <1>1, StorageAssumption, LenProperties
<1> QED
  BY <1>1, <1>2 DEF Entries

(* Every step keeps the types.                                             *)
LEMMA StorageTypeStep == StorageTypeOK /\ [Next]_vars => StorageTypeOK'
<1> SUFFICES ASSUME StorageTypeOK, [Next]_vars PROVE StorageTypeOK'
  OBVIOUS
<1>1. CASE NewStorage
  <2>1. entries' \in Seq(Entries) /\ dataSize' \in Nat
    BY <1>1, ReadEntriesType, LenProperties DEF NewStorage, StorageTypeOK
  <2> QED
    BY <1>1, <2>1 DEF NewStorage, StorageTypeOK, disk
<1>2. ASSUME NEW b \in Blocks, WriteData(b) PROVE StorageTypeOK'
  <2>1. b \in Seq(Cells) /\ Len(b) \in Nat
    BY StorageAssumption, LenProperties
  <2>2. dataF' \in Seq(Cells) /\ dataSize' \in Nat
    BY <1>2, <2>1, ConcatProperties DEF WriteData, StorageTypeOK
  <2>3. pending' \in [offset : Nat, block : Blocks, some : {TRUE}]
    BY <1>2 DEF WriteData, StorageTypeOK
  <2>4. appends' \in 0 .. MaxAppends
    BY <1>2, StorageAssumption DEF WriteData, Appending, StorageTypeOK
  <2> QED
    BY <1>2, <2>2, <2>3, <2>4 DEF WriteData, StorageTypeOK
<1>3. ASSUME NEW b \in Blocks, WriteDataFails(b) PROVE StorageTypeOK'
  <2>1. b \in Seq(Cells)
    BY StorageAssumption
  <2> PICK n \in 0 .. Len(b) : n < Len(b) /\ dataF' = dataF \o SubSeq(b, 1, n)
    BY <1>3 DEF WriteDataFails
  <2>2. SubSeq(b, 1, n) \in Seq(Cells)
    BY <2>1, SubSeqProperties, ElementOfSeq, LenProperties
  <2>3. dataF' \in Seq(Cells)
    BY <2>2, ConcatProperties DEF StorageTypeOK
  <2>4. appends' \in 0 .. MaxAppends
    BY <1>3, StorageAssumption DEF WriteDataFails, Appending, StorageTypeOK
  <2> QED
    BY <1>3, <2>3, <2>4 DEF WriteDataFails, StorageTypeOK, memory
<1>4. CASE WriteIndex
  <2>1. entries' \in Seq(Entries)
    BY <1>4, PendingType, AppendProperties DEF WriteIndex, StorageTypeOK
  <2>2. indexF' \in Seq(Nat)
    <3>1. <<pending.offset, Len(pending.block)>> \in Seq(Nat)
      BY <1>4, PendingType DEF WriteIndex
    <3> QED
      BY <1>4, <3>1, ConcatProperties DEF WriteIndex, StorageTypeOK
  <2>3. acked' \in Seq(Blocks)
    BY <1>4, PendingType, AppendProperties DEF WriteIndex, StorageTypeOK
  <2> QED
    BY <1>4, <2>1, <2>2, <2>3 DEF WriteIndex, StorageTypeOK
<1>5. CASE WriteIndexFails
  <2>1. indexF' \in Seq(Nat)
    <3>1. indexF' = indexF \/ indexF' = Append(indexF, pending.offset)
      BY <1>5 DEF WriteIndexFails
    <3>2. pending.offset \in Nat
      BY <1>5, PendingType DEF WriteIndexFails
    <3>3. indexF \in Seq(Nat)
      BY DEF StorageTypeOK
    <3>4. Append(indexF, pending.offset) \in Seq(Nat)
      BY <3>2, <3>3, AppendProperties
    <3> QED
      BY <3>1, <3>3, <3>4
  <2> QED
    BY <1>5, <2>1 DEF WriteIndexFails, StorageTypeOK
<1>6. CASE Forget
  <2>1. entries' \in Seq(Entries)
    BY <1>6, EmptySeq DEF Forget
  <2> QED
    BY <1>6, <2>1 DEF Forget, StorageTypeOK, disk
<1>7. CASE UNCHANGED vars
  BY <1>7 DEF StorageTypeOK, vars, disk, memory
<1> QED
  BY <1>1, <1>2, <1>3, <1>4, <1>5, <1>6, <1>7 DEF Next, Crash, Close

(* The files, the memory and the acknowledged blocks keep their types.     *)
THEOREM StorageTypes == Spec => []StorageTypeOK
  BY StorageTypeInit, StorageTypeStep, PTL DEF Spec

-----------------------------------------------------------------------------
(* What is acknowledged reads back *)

(* A step that leaves the index alone and writes data.log only at its end  *)
(* keeps the blocks that the index names.                                  *)
LEMMA AckedKept ==
  ASSUME StorageTypeOK, IndexNamesAcked, NEW t \in Seq(Cells), dataF' = dataF \o t,
         UNCHANGED <<indexF, acked>>
  PROVE  IndexNamesAcked'
<1>1. Len(indexF) = 2 * Len(acked) /\ Len(acked) \in Nat
  BY LenProperties DEF IndexNamesAcked, StorageTypeOK
<1>2. ASSUME NEW k \in 1 .. Len(acked), NEW e, e = ReadEntries(indexF)[k]
      PROVE  Readable(e)' /\ Get(e)' = acked[k]
  <2>1. e \in Entries
    <3>1. k \in 1 .. Len(ReadEntries(indexF))
      BY <1>1, ReadEntriesType DEF StorageTypeOK
    <3> QED
      BY <1>2, <3>1, ReadEntriesType, ElementOfSeq DEF StorageTypeOK
  <2>2. e.offset \in Nat /\ e.length \in Nat
    BY <2>1 DEF Entries
  <2>3. e.offset + e.length <= Len(dataF)
    BY <1>2 DEF IndexNamesAcked, Readable
  <2>4. dataF \in Seq(Cells) /\ Len(dataF) \in Nat /\ Len(t) \in Nat
    BY LenProperties DEF StorageTypeOK
  <2>5. SubSeq(dataF', e.offset + 1, e.offset + e.length)
          = SubSeq(dataF, e.offset + 1, e.offset + e.length)
    <3> DEFINE m == e.offset
               n == e.length
    <3>1. m \in Nat /\ n \in Nat /\ m + n <= Len(dataF)
      BY <2>2, <2>3
    <3> HIDE DEF m, n
    <3>2. SubSeq(dataF \o t, m + 1, m + n) = SubSeq(dataF, m + 1, m + n)
      BY <2>4, <3>1, SubSeqOfLonger
    <3> QED
      BY <3>2 DEF m, n
  <2>6. Len(dataF') = Len(dataF) + Len(t)
    BY <2>4, ConcatProperties
  <2>7. Get(e) = acked[k]
    BY <1>2 DEF IndexNamesAcked
  <2> QED
    BY <2>2, <2>3, <2>4, <2>5, <2>6, <2>7 DEF Readable, Get
<1>3. UNCHANGED ReadEntries(indexF)
  BY DEF ReadEntries
<1> QED
  BY <1>1, <1>2, <1>3 DEF IndexNamesAcked

(* A new storage is empty.                                                 *)
LEMMA StorageInvInit == Init => StorageInv
<1> SUFFICES ASSUME Init PROVE IndexNamesAcked /\ MemoryAgrees /\ PendingIsWritten
  BY StorageTypeInit DEF StorageInv
<1> QED
  BY DEF Init, IndexNamesAcked, MemoryAgrees, PendingIsWritten

(* Append writes the data first: its bytes are where the entry, written    *)
(* next, says, and no entry written before is disturbed.                   *)
LEMMA WriteDataStep ==
  ASSUME StorageInv, ~faulty, NEW b \in Blocks, WriteData(b)
  PROVE  (IndexNamesAcked /\ MemoryAgrees /\ PendingIsWritten)'
<1> USE DEF StorageInv
<1>1. b \in Seq(Cells) /\ Len(b) \in Nat /\ Len(dataF) \in Nat
  BY StorageAssumption, LenProperties DEF StorageTypeOK
<1>2. /\ dataF' = dataF \o b
      /\ dataSize = Len(dataF) /\ dataSize' = Len(dataF) + Len(b)
      /\ pending' = [offset |-> Len(dataF), block |-> b, some |-> TRUE]
      /\ entries = ReadEntries(indexF)
      /\ UNCHANGED <<indexF, open, entries, acked>>
  BY DEF WriteData, Appending, MemoryAgrees
<1>3. Len(dataF') = Len(dataF) + Len(b)
  BY <1>1, <1>2, ConcatProperties DEF StorageTypeOK
<1>4. IndexNamesAcked'
  BY <1>1, <1>2, AckedKept
<1>5. MemoryAgrees'
  BY <1>2, <1>3 DEF MemoryAgrees, ReadEntries
<1>6. PendingIsWritten'
  <2>1. SubSeq(dataF', Len(dataF) + 1, Len(dataF) + Len(b)) = b
    BY <1>1, <1>2, SubSeqOfAdded DEF StorageTypeOK
  <2>2. pending'.offset = Len(dataF) /\ pending'.block = b
    BY <1>2
  <2> QED
    BY <1>1, <1>3, <2>1, <2>2 DEF PendingIsWritten
<1> QED
  BY <1>4, <1>5, <1>6

(* Append writes the entry second: it is the last one, in the file and in  *)
(* memory, and names the data of the block.                                *)
LEMMA WriteIndexStep ==
  ASSUME StorageInv, ~faulty, WriteIndex
  PROVE  (IndexNamesAcked /\ MemoryAgrees /\ PendingIsWritten)'
<1> USE DEF StorageInv
<1> DEFINE n == Len(acked)
           e == [offset |-> pending.offset, length |-> Len(pending.block)]
<1>1. /\ open /\ open' /\ pending # None /\ pending' = None
      /\ indexF' = indexF \o <<pending.offset, Len(pending.block)>>
      /\ entries' = Append(entries, e)
      /\ acked' = Append(acked, pending.block)
      /\ UNCHANGED <<dataF, dataSize>>
  BY DEF WriteIndex
<1>2. /\ pending.offset \in Nat /\ Len(pending.block) \in Nat
      /\ pending.block \in Blocks /\ e \in Entries /\ indexF \in Seq(Nat)
  BY <1>1, PendingType DEF StorageTypeOK
<1>3. Len(indexF) = 2 * n /\ n \in Nat
  BY LenProperties DEF IndexNamesAcked, StorageTypeOK
<1>4. Len(indexF') = 2 * (n + 1) /\ ReadEntries(indexF') = Append(ReadEntries(indexF), e)
  <2> DEFINE a == pending.offset
             b == Len(pending.block)
             w == indexF
  <2>1. a \in Nat /\ b \in Nat /\ w \in Seq(Nat) /\ Len(w) = 2 * n
    BY <1>2, <1>3
  <2> HIDE DEF a, b, w, n
  <2>2. /\ Len(w \o <<a, b>>) = 2 * (n + 1)
        /\ ReadEntries(w \o <<a, b>>) = Append(ReadEntries(w), [offset |-> a, length |-> b])
    BY <1>3, <2>1, ReadEntriesGrow
  <2> QED
    BY <1>1, <2>2 DEF a, b, w
<1>5. MemoryAgrees'
  <2>1. ReadEntries(indexF)' = ReadEntries(indexF')
    BY DEF ReadEntries
  <2> QED
    BY <1>1, <1>4, <2>1 DEF MemoryAgrees
<1>6. /\ Len(acked') = n + 1 /\ acked'[n + 1] = pending.block
      /\ \A k \in 1 .. n : acked'[k] = acked[k]
  BY <1>1, <1>2, AppendProperties DEF StorageTypeOK
<1>7. /\ ReadEntries(indexF')[n + 1] = e
      /\ \A k \in 1 .. n : ReadEntries(indexF')[k] = ReadEntries(indexF)[k]
  <2>1. ReadEntries(indexF) \in Seq(Entries) /\ Len(ReadEntries(indexF)) = n
    BY <1>3, ReadEntriesType DEF StorageTypeOK
  <2> HIDE DEF e
  <2> QED
    BY <1>2, <1>4, <2>1, AppendProperties
<1>8. IndexNamesAcked'
  <2>1. ASSUME NEW k \in 1 .. n + 1, NEW f, f = ReadEntries(indexF')[k]
        PROVE  Readable(f) /\ Get(f) = acked'[k]
    <3>1. CASE k = n + 1
      <4>1. f = e
        BY <1>7, <2>1, <3>1
      <4>2. e.offset = pending.offset /\ e.length = Len(pending.block)
        OBVIOUS
      <4> HIDE DEF e
      <4> QED
        BY <1>1, <1>6, <3>1, <4>1, <4>2 DEF PendingIsWritten, Readable, Get
    <3>2. CASE k # n + 1
      <4>1. k \in 1 .. n
        BY <1>3, <3>2
      <4> QED
        BY <1>6, <1>7, <2>1, <4>1 DEF IndexNamesAcked
    <3> QED
      BY <3>1, <3>2
  <2>2. \A f : (Readable(f)' <=> Readable(f)) /\ Get(f)' = Get(f)
    BY <1>1 DEF Readable, Get
  <2>3. ReadEntries(indexF)' = ReadEntries(indexF')
    BY DEF ReadEntries
  <2> QED
    BY <1>4, <1>6, <2>1, <2>2, <2>3 DEF IndexNamesAcked
<1>9. PendingIsWritten'
  BY <1>1 DEF PendingIsWritten
<1> QED
  BY <1>5, <1>8, <1>9

(* Every step keeps the invariants.  A crash between the two writes of     *)
(* Append leaves data that no entry names; the next process counts it in   *)
(* dataSize, so the entries it writes name the right bytes.                *)
LEMMA StorageInvStep == StorageInv /\ [Next]_vars => StorageInv'
<1> SUFFICES ASSUME StorageInv, [Next]_vars PROVE StorageInv'
  OBVIOUS
<1>a. UNCHANGED faulty
  BY DEF Next, NewStorage, WriteData, WriteDataFails, WriteIndex, WriteIndexFails, Crash, Close,
         Forget, vars, disk
<1> SUFFICES ASSUME ~faulty PROVE (IndexNamesAcked /\ MemoryAgrees /\ PendingIsWritten)'
  BY <1>a, StorageTypeStep DEF StorageInv
<1> USE DEF StorageInv
<1>1. ASSUME UNCHANGED <<dataF, indexF, acked>> PROVE IndexNamesAcked'
  BY <1>1 DEF IndexNamesAcked, ReadEntries, Readable, Get
<1>2. CASE NewStorage
  <2>1. MemoryAgrees'
    BY <1>2 DEF NewStorage, MemoryAgrees, ReadEntries, disk
  <2>2. PendingIsWritten'
    BY <1>2 DEF NewStorage, PendingIsWritten, disk
  <2> QED
    BY <1>1, <1>2, <2>1, <2>2 DEF NewStorage, disk
<1>3. CASE Forget
  BY <1>1, <1>3 DEF Forget, MemoryAgrees, PendingIsWritten, disk
<1>4. CASE UNCHANGED vars
  <2>1. MemoryAgrees' /\ PendingIsWritten'
    BY <1>4 DEF MemoryAgrees, PendingIsWritten, ReadEntries, vars, disk, memory
  <2> QED
    BY <1>1, <1>4, <2>1 DEF vars, disk
<1> QED
  BY <1>2, <1>3, <1>4, WriteDataStep, WriteIndexStep
  DEF Next, WriteDataFails, WriteIndexFails, Crash, Close

(* The invariants hold throughout.                                         *)
THEOREM StorageInvariant == Spec => []StorageInv
  BY StorageInvInit, StorageInvStep, PTL DEF Spec

(* What a reader finds on a disk without faults is what was acknowledged.  *)
LEMMA CurrentNamesAcked ==
  ASSUME StorageInv, ~faulty
  PROVE  /\ Len(Current) = Len(acked)
         /\ \A k \in 1 .. Len(acked) : Readable(Current[k]) /\ Get(Current[k]) = acked[k]
<1>1. Current = ReadEntries(indexF)
  BY DEF StorageInv, MemoryAgrees, Current
<1>2. Len(ReadEntries(indexF)) = Len(acked)
  <2>1. Len(indexF) = 2 * Len(acked) /\ Len(acked) \in Nat /\ indexF \in Seq(Nat)
    BY LenProperties DEF StorageInv, IndexNamesAcked, StorageTypeOK
  <2> QED
    BY <2>1, ReadEntriesType
<1> QED
  BY <1>1, <1>2 DEF StorageInv, IndexNamesAcked

(* On a disk where no write fails half way, every block whose Append       *)
(* returned nil is returned by Get under its index, whatever crashes and   *)
(* restarts come between.                                                  *)
THEOREM AckedReadBack == Spec => []AckedBlocksReadBack
<1>1. StorageInv => AckedBlocksReadBack
  BY CurrentNamesAcked DEF AckedBlocksReadBack
<1> QED
  BY StorageInvariant, <1>1, PTL

(* On any disk, while a process has the storage open, later calls of       *)
(* Append, also ones that fail half way, change no block that Get returns. *)
THEOREM StableReads == Spec => ReadsAreStable
<1> DEFINE Stable ==
      open /\ open' =>
        \A k \in 1 .. Len(entries) :
          /\ k <= Len(entries') /\ entries'[k] = entries[k]
          /\ Readable(entries[k]) => Get(entries[k])' = Get(entries[k])
<1>1. ASSUME StorageTypeOK, Next, open, open', NEW k \in 1 .. Len(entries)
      PROVE  /\ k <= Len(entries') /\ entries'[k] = entries[k]
             /\ Readable(entries[k]) => Get(entries[k])' = Get(entries[k])
  <2>1. entries \in Seq(Entries) /\ Len(entries) \in Nat /\ dataF \in Seq(Cells)
    BY <1>1, LenProperties DEF StorageTypeOK
  <2>2. k <= Len(entries') /\ entries'[k] = entries[k]
    <3>1. CASE WriteIndex
      <4> DEFINE e == [offset |-> pending.offset, length |-> Len(pending.block)]
      <4>1. e \in Entries /\ entries' = Append(entries, e)
        BY <1>1, <3>1, PendingType DEF WriteIndex
      <4> HIDE DEF e
      <4>2. Len(entries') = Len(entries) + 1 /\ entries'[k] = entries[k]
        BY <2>1, <4>1, AppendProperties
      <4> QED
        BY <2>1, <4>2
    <3>2. CASE UNCHANGED entries
      BY <2>1, <3>2
    <3> QED
      BY <1>1, <3>1, <3>2
      DEF Next, NewStorage, WriteData, WriteDataFails, WriteIndexFails, Crash, Close, Forget, memory
  <2>3. \E t \in Seq(Cells) : dataF' = dataF \o t
    <3>1. ASSUME NEW b \in Blocks, WriteData(b) PROVE \E t \in Seq(Cells) : dataF' = dataF \o t
      BY <3>1, StorageAssumption DEF WriteData
    <3>2. ASSUME NEW b \in Blocks, WriteDataFails(b)
          PROVE  \E t \in Seq(Cells) : dataF' = dataF \o t
      <4> PICK n \in 0 .. Len(b) : n < Len(b) /\ dataF' = dataF \o SubSeq(b, 1, n)
        BY <3>2 DEF WriteDataFails
      <4>1. b \in Seq(Cells)
        BY StorageAssumption
      <4>2. SubSeq(b, 1, n) \in Seq(Cells)
        BY <4>1, SubSeqProperties, ElementOfSeq, LenProperties
      <4> QED
        BY <4>2
    <3>3. CASE UNCHANGED dataF
      <4>1. dataF' = dataF \o << >> /\ << >> \in Seq(Cells)
        BY <2>1, <3>3, ConcatEmptySeq, EmptySeq
      <4> QED
        BY <4>1
    <3> QED
      BY <1>1, <3>1, <3>2, <3>3
      DEF Next, NewStorage, WriteIndex, WriteIndexFails, Crash, Close, Forget, disk
  <2>4. ASSUME Readable(entries[k]) PROVE Get(entries[k])' = Get(entries[k])
    <3> DEFINE m == entries[k].offset
               n == entries[k].length
    <3>1. m \in Nat /\ n \in Nat /\ m + n <= Len(dataF)
      <4>1. entries[k] \in Entries
        BY <2>1, ElementOfSeq
      <4> QED
        BY <2>4, <4>1 DEF Readable, Entries
    <3> PICK t \in Seq(Cells) : dataF' = dataF \o t
      BY <2>3
    <3> HIDE DEF m, n
    <3>2. SubSeq(dataF \o t, m + 1, m + n) = SubSeq(dataF, m + 1, m + n)
      BY <2>1, <3>1, SubSeqOfLonger
    <3>3. SubSeq(dataF', m + 1, m + n) = SubSeq(dataF, m + 1, m + n)
      BY <3>2
    <3> QED
      BY <2>2, <3>3 DEF Get, m, n
  <2> QED
    BY <2>2, <2>4
<1>2. StorageTypeOK /\ [Next]_vars => [Stable]_vars
  BY <1>1
<1> QED
  BY StorageTypes, <1>2, PTL DEF Spec, ReadsAreStable

(* The log that a reader sees is the sequence of acknowledged blocks.      *)
LEMMA LogIsAcked ==
  ASSUME StorageInv
  PROVE  (IF faulty THEN << >> ELSE [k \in 1 .. Len(Current) |-> Get(Current[k])])
           = IF faulty THEN << >> ELSE acked
<1> SUFFICES ASSUME ~faulty PROVE [k \in 1 .. Len(Current) |-> Get(Current[k])] = acked
  OBVIOUS
<1>1. acked = [k \in 1 .. Len(acked) |-> acked[k]]
  BY LenProperties DEF StorageInv, StorageTypeOK
<1> QED
  BY <1>1, CurrentNamesAcked

(* The two files implement an append-only log: every step of the storage,  *)
(* a crash and a restart included, adds one block to what a reader finds   *)
(* or changes none of it.                                                  *)
THEOREM StorageImplementsLog == Spec => ImplementsLog
<1> DEFINE bar == IF faulty THEN << >> ELSE [k \in 1 .. Len(Current) |-> Get(Current[k])]
           IsAcked == bar = IF faulty THEN << >> ELSE acked
<1>a. StorageInv => IsAcked
  BY LogIsAcked
<1>b. StorageInv' => IsAcked'
  <2> HIDE DEF IsAcked
  <2> QED
    BY <1>a, PTL
<1>1. Init => Log!Init
  <2>1. Init => bar = IF faulty THEN << >> ELSE acked
    BY LogIsAcked, StorageInvInit
  <2> QED
    BY <2>1 DEF Init, Log!Init
<1>2. StorageInv /\ StorageInv' /\ [Next]_vars => [Log!AppendOne]_bar
  <2> SUFFICES ASSUME StorageInv, StorageInv', [Next]_vars PROVE [Log!AppendOne]_bar
    OBVIOUS
  <2>1. bar = IF faulty THEN << >> ELSE acked
    BY <1>a
  <2>2. bar' = IF faulty' THEN << >> ELSE acked'
    BY <1>b
  <2> HIDE DEF bar
  <2>3. UNCHANGED faulty
    BY DEF Next, NewStorage, WriteData, WriteDataFails, WriteIndex, WriteIndexFails, Crash, Close,
           Forget, vars, disk
  <2>4. CASE WriteIndex
    <3>1. pending.block \in Blocks /\ acked' = Append(acked, pending.block)
      BY <2>4, PendingType DEF WriteIndex, StorageInv
    <3> QED
      BY <2>1, <2>2, <2>3, <3>1 DEF Log!AppendOne, bar
  <2>5. CASE UNCHANGED acked
    BY <2>1, <2>2, <2>3, <2>5
  <2> QED
    BY <2>4, <2>5
    DEF Next, NewStorage, WriteData, WriteDataFails, WriteIndexFails, Crash, Close, Forget, vars
<1> QED
  BY StorageInvariant, <1>1, <1>2, PTL DEF Spec, ImplementsLog, Log!Spec
=============================================================================
