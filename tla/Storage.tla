------------------------------ MODULE Storage ------------------------------
(***************************************************************************)
(* hypercore.Storage: the file data.log, which holds the blocks one after  *)
(* the other, the file index.log, which holds an offset and a length for   *)
(* each of them, and the entries and the data size a running process keeps *)
(* in memory.                                                              *)
(*                                                                         *)
(* A block is a sequence of cells and data.log a sequence of cells;        *)
(* index.log is a sequence of words, two for each block.  Both files are   *)
(* written at their end only: NewStorage leaves both positions there.      *)
(* Append holds the lock, so nothing in the process comes between its two  *)
(* writes; a crash may.  On a faulty disk a write may fail half way, as it *)
(* does on one that is full.                                               *)
(***************************************************************************)
EXTENDS Naturals, Sequences

CONSTANTS
  Blocks,       \* the blocks appended: sequences of cells
  Faultiness,   \* the kinds of disk considered: TRUE for a faulty one
  MaxAppends    \* bound: calls of Append

Cells == UNION {{b[k] : k \in DOMAIN b} : b \in Blocks}

ASSUME StorageAssumption ==
  /\ Faultiness \subseteq BOOLEAN
  /\ MaxAppends \in Nat
  /\ Blocks \subseteq Seq(Cells)

VARIABLES
  faulty,    \* whether writes to this disk may fail after a part of them
  dataF,     \* data.log
  indexF,    \* index.log
  open,      \* a process has the storage open
  entries,   \* Storage.entries
  dataSize,  \* Storage.dataSize
  pending,   \* the entry of a block whose data is written and whose index is not
  acked,     \* the blocks for which Append returned nil
  appends    \* how often Append was called

disk   == <<faulty, dataF, indexF>>
memory == <<open, entries, dataSize, pending>>
vars   == <<disk, memory, acked, appends>>

-----------------------------------------------------------------------------
None == [offset |-> 0, block |-> << >>, some |-> FALSE]

Entries == [offset : Nat, length : Nat]

StorageTypeOK ==
  /\ faulty \in BOOLEAN
  /\ dataF \in Seq(Cells)
  /\ indexF \in Seq(Nat)
  /\ open \in BOOLEAN
  /\ entries \in Seq(Entries)
  /\ dataSize \in Nat
  /\ pending = None \/ pending \in [offset : Nat, block : Blocks, some : {TRUE}]
  /\ acked \in Seq(Blocks)
  /\ appends \in 0 .. MaxAppends

(* The read loop of NewStorage: whole entries, up to the first one that is *)
(* incomplete.                                                             *)
ReadEntries(words) ==
  [k \in 1 .. (Len(words) \div 2) |-> [offset |-> words[2*k - 1], length |-> words[2*k]]]

(* Get: ReadAt of the entry's bytes; an error when the file is too short.  *)
Readable(e) == e.offset + e.length <= Len(dataF)

Get(e) == SubSeq(dataF, e.offset + 1, e.offset + e.length)

Init ==
  /\ faulty \in Faultiness
  /\ dataF = << >>
  /\ indexF = << >>
  /\ open = FALSE
  /\ entries = << >>
  /\ dataSize = 0
  /\ pending = None
  /\ acked = << >>
  /\ appends = 0

-----------------------------------------------------------------------------
(* Mutant: the data size is taken from the last entry, not from the file. *)
NewStorageBySum ==
  LET es == ReadEntries(indexF) IN
  /\ ~open
  /\ open' = TRUE
  /\ entries' = es
  /\ dataSize' = IF es = << >> THEN 0 ELSE es[Len(es)].offset + es[Len(es)].length
  /\ UNCHANGED <<disk, pending, acked, appends>>

NewStorage ==
  /\ ~open
  /\ open' = TRUE
  /\ entries' = ReadEntries(indexF)
  /\ dataSize' = Len(dataF)
  /\ UNCHANGED <<disk, pending, acked, appends>>

Appending == open /\ pending = None /\ appends < MaxAppends

(* Mutant: the file position is not moved to the end of data.log. *)
WriteDataAtStart(b) ==
  /\ Appending
  /\ appends' = appends + 1
  /\ dataF' = b \o SubSeq(dataF, Len(b) + 1, Len(dataF))
  /\ dataSize' = dataSize + Len(b)
  /\ pending' = [offset |-> dataSize, block |-> b, some |-> TRUE]
  /\ UNCHANGED <<faulty, indexF, open, entries, acked>>

(* Mutant: the length is subtracted from a size that does not hold it yet. *)
WriteDataBelow(b) ==
  /\ Appending
  /\ appends' = appends + 1
  /\ dataF' = dataF \o b
  /\ dataSize' = dataSize + Len(b)
  /\ pending' = [offset |-> dataSize - Len(b), block |-> b, some |-> TRUE]
  /\ UNCHANGED <<faulty, indexF, open, entries, acked>>

(* The first half of Append: the payload is written.                       *)
WriteData(b) ==
  /\ Appending
  /\ appends' = appends + 1
  /\ dataF' = dataF \o b
  /\ dataSize' = dataSize + Len(b)
  /\ pending' = [offset |-> dataSize, block |-> b, some |-> TRUE]
  /\ UNCHANGED <<faulty, indexF, open, entries, acked>>

(* A part of the payload is written, and Append returns the error.         *)
WriteDataFails(b) ==
  /\ faulty
  /\ Appending
  /\ appends' = appends + 1
  /\ \E n \in 0 .. Len(b) : n < Len(b) /\ dataF' = dataF \o SubSeq(b, 1, n)
  /\ UNCHANGED <<faulty, indexF, memory, acked>>

(* The second half: the index entry is written, and Append returns nil.    *)
WriteIndex ==
  LET length == Len(pending.block) IN
  /\ open /\ pending # None
  /\ indexF' = indexF \o <<pending.offset, length>>
  /\ entries' = Append(entries, [offset |-> pending.offset, length |-> length])
  /\ pending' = None
  /\ acked' = Append(acked, pending.block)
  /\ UNCHANGED <<faulty, dataF, open, dataSize, appends>>

WriteIndexFails ==
  /\ faulty
  /\ open /\ pending # None
  /\ indexF' \in {indexF, Append(indexF, pending.offset)}
  /\ pending' = None
  /\ UNCHANGED <<faulty, dataF, open, entries, dataSize, acked, appends>>

(* The process is gone, with all that was in memory.                       *)
Forget ==
  /\ open' = FALSE
  /\ entries' = << >>
  /\ dataSize' = 0
  /\ pending' = None
  /\ UNCHANGED <<disk, acked, appends>>

Crash == open /\ Forget

(* Close takes the lock, so no Append is under way.                        *)
Close == open /\ pending = None /\ Forget

Next ==
  \/ NewStorage \/ WriteIndex \/ WriteIndexFails \/ Crash \/ Close
  \/ \E b \in Blocks : WriteData(b) \/ WriteDataFails(b)

Spec == Init /\ [][Next]_vars

-----------------------------------------------------------------------------
(* The entries of the running process, or those the next one will read.    *)
Current == IF open THEN entries ELSE ReadEntries(indexF)

(***************************************************************************)
(* As long as no write fails half way, every block whose Append returned   *)
(* nil is returned by Get under its index, now and after every crash and   *)
(* restart, although a crash between the two writes of Append leaves data  *)
(* that no entry names.                                                    *)
(***************************************************************************)
AckedBlocksReadBack ==
  ~faulty =>
    /\ Len(Current) = Len(acked)
    /\ \A k \in 1 .. Len(acked) : Readable(Current[k]) /\ Get(Current[k]) = acked[k]

(***************************************************************************)
(* While a process has the storage open, Get returns for an index what it  *)
(* returned before, even when writes of later blocks fail half way.        *)
(***************************************************************************)
ReadsAreStable ==
  [][open /\ open' =>
       \A k \in 1 .. Len(entries) :
         /\ k <= Len(entries') /\ entries'[k] = entries[k]
         /\ Readable(entries[k]) => Get(entries[k])' = Get(entries[k])]_vars

(* The log that a reader of the storage sees.  No claim is made for a      *)
(* faulty disk: its log counts as empty.                                   *)
Log == INSTANCE AppendOnlyLog WITH
         blocks <- IF faulty THEN << >> ELSE [k \in 1 .. Len(Current) |-> Get(Current[k])]

(***************************************************************************)
(* The two files together implement an append-only log: a step of the      *)
(* storage, a crash and a restart included, adds one block to what Get     *)
(* returns or changes none of it.                                          *)
(***************************************************************************)
ImplementsLog == Log!Spec
=============================================================================
