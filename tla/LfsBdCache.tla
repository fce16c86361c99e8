----------------------------- MODULE LfsBdCache ------------------------------
(***************************************************************************)
(* Access to the block device through two caches of one piece each.        *)
(*                                                                         *)
(* Writes collect in write_cache, which is programmed when it is full or   *)
(* flushed; reads fill read_cache with more than was asked for.  Neither   *)
(* knows of the other: what makes reads see writes is that write_cache is  *)
(* looked at first, that a validated flush drops read_cache before reading *)
(* back, and that a commit of metadata, which is not validated, ends with  *)
(* lfs_bd_sync.                                                            *)
(*                                                                         *)
(* One step is one turn of a loop of lfs_bd_read or lfs_bd_write, or one   *)
(* call of the device.  The callers follow the two patterns of the code: a *)
(* block of a file is erased, written from its start with validation and   *)
(* flushed; a block of metadata is erased or appended to, written without, *)
(* synced, and read back.                                                  *)
(***************************************************************************)
EXTENDS Integers

CONSTANTS
  Blocks,      \* logical blocks
  NoBlock,     \* LFS_BLOCK_NULL
  BlockSize,   \* lfs->block_size
  EraseSize,   \* lfs->erase_size
  ReadSize,    \* cfg->read_size
  WriteSize,   \* cfg->write_size
  CacheSize,   \* cfg->cache_size
  CmpSize,     \* bytes lfs_bd_cmp compares at a time, 256 in the code
  Values,      \* bytes that are written; Erased is another one
  Erased,
  Sizes,       \* bound: sizes of reads and writes
  Hints,       \* bound: hints of reads
  Faults,      \* what a program of the device can do besides succeeding:
               \* "corrupt" and "io" are returned, "silent" is not
  ReadFaults   \* the errors that a read of the device can return

ASSUME CacheAssumption ==
  /\ {BlockSize, EraseSize, ReadSize, WriteSize, CacheSize, CmpSize} \subseteq Nat \ {0}
  /\ CacheSize % ReadSize = 0
  /\ CacheSize % WriteSize = 0
  /\ EraseSize % CacheSize = 0
  /\ BlockSize % EraseSize = 0
  /\ Erased \notin Values
  /\ NoBlock \notin Blocks
  /\ Sizes \subseteq Nat \ {0}
  /\ Hints \subseteq Nat \ {0}
  /\ ReadFaults \subseteq {"corrupt", "io"}

VARIABLES
  storage,     \* the bytes of every block
  write_cache, \* block, offset, size and buffer
  read_cache,
  task,        \* the block being written, whether with validation, and its value
  left,        \* bytes of the running lfs_bd_write still to be taken
  rd,          \* the running lfs_bd_read: block, offset, size left, hint,
               \* whether write_cache is given to it, who asked, and whether
               \* what it has read so far is what the asker compares it with
  pc,          \* where the calls stand
  then,        \* what a flush returns to
  want,        \* history: the bytes last written to every block
  end,         \* history: how many bytes have been written since the erase
  stable,      \* history: how many of them by tasks that are over
  sealed,      \* history: the block has to be erased before it is written again
  unloaded,    \* history: read_cache lacks the bytes of a load that failed
  programmed,  \* history: bytes programmed since the erase
  aborted      \* an LFS_ASSERT has failed

device == <<storage, programmed>>
history == <<want, end, stable, sealed>>
vars == <<device, write_cache, read_cache, unloaded, task, left, rd, pc, then, history, aborted>>

Positions == 0..(BlockSize - 1)
Least(a, b) == IF a <= b THEN a ELSE b
Most(a, b) == IF a >= b THEN a ELSE b
lfs_aligndown(a, n) == a - (a % n)
lfs_alignup(a, n) == lfs_aligndown(a + n - 1, n)

\* A cache after lfs_cache_drop or lfs_cache_zero: without a block nothing
\* else of it is looked at.
NoCache == [block |-> NoBlock, offset |-> 0, size |-> 0,
            buffer |-> [i \in 0..(CacheSize - 1) |-> Erased]]

NoTask == [block |-> NoBlock, validate |-> FALSE, value |-> Erased]
NoRead == [block |-> NoBlock, at |-> 0, left |-> 0, hint |-> 1, through |-> FALSE,
           why |-> "caller", same |-> TRUE]

Init ==
  /\ storage = [b \in Blocks |-> [p \in Positions |-> Erased]]
  /\ write_cache = NoCache /\ read_cache = NoCache /\ unloaded = FALSE
  /\ task = NoTask /\ left = 0 /\ rd = NoRead /\ pc = "idle" /\ then = "write"
  /\ want = storage
  /\ end = [b \in Blocks |-> 0] /\ stable = [b \in Blocks |-> 0]
  /\ sealed = [b \in Blocks |-> TRUE]
  /\ programmed = [b \in Blocks |-> 0]
  /\ aborted = FALSE

\* The transfer loops of lfs_bd_rawread and lfs_bd_rawprog assert that the
\* whole transfer lies in one unit of erase_size.
Crosses(offset, size) == (offset % EraseSize) + size > EraseSize

-----------------------------------------------------------------------------
(* lfs_bd_read *)

InWrite(p) ==
  /\ rd.through /\ rd.block = write_cache.block
  /\ p >= write_cache.offset /\ p < write_cache.offset + write_cache.size
InRead(p) ==
  /\ rd.block = read_cache.block
  /\ p >= read_cache.offset /\ p < read_cache.offset + read_cache.size

\* How far the running read may go before it reaches what write_cache, or
\* read_cache, has: the caches take priority.
WriteBound ==
  IF rd.through /\ rd.block = write_cache.block /\ rd.at < write_cache.offset
  THEN Least(rd.left, write_cache.offset - rd.at) ELSE rd.left
ReadBound ==
  IF rd.block = read_cache.block /\ rd.at < read_cache.offset
  THEN Least(WriteBound, read_cache.offset - rd.at) ELSE WriteBound

Bypasses ==
  /\ rd.left >= rd.hint
  /\ rd.at % ReadSize = 0
  /\ rd.left >= ReadSize

\* Where a turn of lfs_bd_read gets its bytes, and how many.
Source ==
  CASE InWrite(rd.at) -> "write_cache"
    [] ~InWrite(rd.at) /\ InRead(rd.at) -> "read_cache"
    [] ~InWrite(rd.at) /\ ~InRead(rd.at) -> IF Bypasses THEN "device" ELSE "none"
Count ==
  CASE Source = "write_cache" -> Least(rd.left, write_cache.size - (rd.at - write_cache.offset))
    [] Source = "read_cache" -> Least(WriteBound, read_cache.size - (rd.at - read_cache.offset))
    [] Source = "device" -> lfs_aligndown(ReadBound, ReadSize)
    [] Source = "none" -> 0
ByteRead(p) ==
  CASE Source = "write_cache" -> write_cache.buffer[p - write_cache.offset]
    [] Source = "read_cache" -> read_cache.buffer[p - read_cache.offset]
    [] OTHER -> storage[rd.block][p]

\* What the asker compares a byte with: lfs_bd_flush its buffer,
\* lfs_dir_commit_crc the checksum over what it wrote.
Compared(p) ==
  CASE rd.why = "compare" -> write_cache.buffer[p - write_cache.offset]
    [] rd.why = "crc" -> want[rd.block][p]
    [] rd.why = "caller" -> ByteRead(p)

Reading == ~aborted /\ pc = "read" /\ rd.left > 0

CopyTurn ==
  /\ Reading
  /\ Source # "none"
  /\ IF Source = "device" /\ Crosses(rd.at, Count)
     THEN aborted' = TRUE /\ UNCHANGED rd
     ELSE /\ rd' = [rd EXCEPT !.at = rd.at + Count, !.left = rd.left - Count,
                              !.same = rd.same /\ \A p \in rd.at..(rd.at + Count - 1) : ByteRead(p) = Compared(p)]
          /\ UNCHANGED aborted
  /\ UNCHANGED <<device, write_cache, read_cache, unloaded, task, left, pc, then, history>>

\* Load to cache: what of the block read_cache is set to, and the buffer once
\* the device has filled it.
LoadFrom == lfs_aligndown(rd.at, ReadSize)
LoadSize == Least(Least(lfs_alignup(rd.at + rd.hint, ReadSize), BlockSize) - LoadFrom, CacheSize)
Filled == [i \in 0..(CacheSize - 1) |-> IF i < LoadSize THEN storage[rd.block][LoadFrom + i] ELSE Erased]
SetTo(buffer) == [block |-> rd.block, offset |-> LoadFrom, size |-> LoadSize, buffer |-> buffer]

LoadTurn ==
  /\ Reading
  /\ Source = "none"
  /\ read_cache' = SetTo(Filled)
  /\ unloaded' = FALSE
  /\ aborted' = Crosses(LoadFrom, LoadSize)
  /\ UNCHANGED <<device, write_cache, task, left, rd, pc, then, history>>

\* The bytes a caller may ask for: those of tasks that are over; of a file's
\* block being written also what was flushed, and the rest through its cache.
\* (With the write_cache of another block a read does what it does without.)
Readable(b, through) ==
  IF b # task.block \/ ~task.validate THEN stable[b]
  ELSE IF through \/ write_cache.block # b THEN end[b]
  ELSE Least(end[b], write_cache.offset)

lfs_bd_read(b, o, n, h, through) ==
  /\ ~aborted /\ pc = "idle"
  /\ o + n <= Readable(b, through)
  /\ through => b = task.block
  /\ rd' = [NoRead EXCEPT !.block = b, !.at = o, !.left = n, !.hint = h, !.through = through]
  /\ pc' = "read"
  /\ UNCHANGED <<device, write_cache, read_cache, unloaded, task, left, then, history, aborted>>

ReadReturns ==
  /\ ~aborted /\ pc = "read" /\ rd.left = 0 /\ rd.why = "caller"
  /\ rd' = NoRead
  /\ pc' = "idle"
  /\ UNCHANGED <<device, write_cache, read_cache, unloaded, task, left, then, history, aborted>>

-----------------------------------------------------------------------------
(* The callers' tasks *)

\* lfs_bd_erase of a block, which may leave its contents; the block is going
\* to be written by a file, or by a compaction.
Erase(b, validate, v) ==
  /\ ~aborted /\ pc = "idle" /\ task = NoTask
  /\ storage' \in {storage, [storage EXCEPT ![b] = [p \in Positions |-> Erased]]}
  /\ programmed' = [programmed EXCEPT ![b] = 0]
  /\ end' = [end EXCEPT ![b] = 0]
  /\ stable' = [stable EXCEPT ![b] = 0]
  /\ sealed' = [sealed EXCEPT ![b] = FALSE]
  /\ want' = [want EXCEPT ![b] = [p \in Positions |-> Erased]]
  /\ task' = [block |-> b, validate |-> validate, value |-> v]
  /\ UNCHANGED <<write_cache, read_cache, unloaded, left, rd, pc, then, aborted>>

\* The next commit to a block of metadata.
AppendTo(b, v) ==
  /\ ~aborted /\ pc = "idle" /\ task = NoTask
  /\ ~sealed[b]
  /\ stable[b] \in 1..(BlockSize - 1)
  /\ task' = [block |-> b, validate |-> FALSE, value |-> v]
  /\ UNCHANGED <<device, write_cache, read_cache, unloaded, left, rd, pc, then, history, aborted>>

\* Mutant: write_cache is not dropped before the next block is tried.
FailKeepsCache(code) ==
  LET b == task.block
  IN  /\ task' = NoTask /\ left' = 0 /\ rd' = NoRead /\ pc' = "idle" /\ then' = "write"
      /\ end' = [end EXCEPT ![b] = stable[b]]
      /\ want' = [want EXCEPT ![b] = [p \in Positions |-> IF p < stable[b] THEN want[b][p] ELSE Erased]]
      /\ sealed' = [sealed EXCEPT ![b] = TRUE]
      /\ UNCHANGED write_cache

\* The task is over with an error.  A bad block makes the callers drop
\* write_cache and go on with another block; other errors are passed on.
Fail(code) ==
  LET b == task.block
  IN  /\ write_cache' = IF code = "corrupt" THEN NoCache ELSE write_cache
      /\ task' = NoTask
      /\ left' = 0
      /\ rd' = NoRead
      /\ pc' = "idle"
      /\ then' = "write"
      /\ end' = [end EXCEPT ![b] = stable[b]]
      /\ want' = [want EXCEPT ![b] = [p \in Positions |-> IF p < stable[b] THEN want[b][p] ELSE Erased]]
      /\ sealed' = [sealed EXCEPT ![b] = TRUE]

\* The device returns an error to a read.  A load has set read_cache to the
\* block by then, and the buffer has the bytes of the block, or others, for
\* which Erased stands.  A caller gives its task up, or was not reading for
\* it; a check ends the task.
ReadFails(code) ==
  /\ Reading
  /\ code \in ReadFaults
  /\ \/ /\ Source = "device" /\ ~Crosses(rd.at, Count)
        /\ UNCHANGED <<read_cache, unloaded>>
     \/ /\ Source = "none" /\ ~Crosses(LoadFrom, LoadSize)
        /\ read_cache' \in {SetTo(NoCache.buffer), SetTo(Filled)}
        /\ unloaded' = (read_cache'.buffer # Filled)
  /\ \/ /\ rd.why = "caller"
        /\ rd' = NoRead /\ pc' = "idle"
        /\ UNCHANGED <<write_cache, task, left, then, end, want, sealed>>
     \/ task # NoTask /\ Fail(code)
  /\ UNCHANGED <<device, stable, aborted>>

\* Power is lost and the device mounted again (lfs_init).
Restart ==
  LET b == task.block
  IN  /\ write_cache' = NoCache
      /\ read_cache' = NoCache
      /\ unloaded' = FALSE
      /\ task' = NoTask /\ left' = 0 /\ rd' = NoRead /\ pc' = "idle" /\ then' = "write"
      /\ end' = stable
      /\ want' = [c \in Blocks |-> [p \in Positions |-> IF p < stable[c] THEN want[c][p] ELSE Erased]]
      /\ sealed' = [c \in Blocks |-> sealed[c] \/ c = b]
      /\ aborted' = FALSE
      /\ UNCHANGED <<device, stable>>

-----------------------------------------------------------------------------
(* lfs_bd_write *)

lfs_bd_write(n) ==
  /\ ~aborted /\ pc = "idle" /\ task # NoTask
  /\ end[task.block] + n <= BlockSize
  /\ left' = n
  /\ pc' = "write"
  /\ UNCHANGED <<device, write_cache, read_cache, unloaded, task, rd, then, history, aborted>>

Fits ==
  /\ task.block = write_cache.block
  /\ end[task.block] >= write_cache.offset
  /\ end[task.block] < write_cache.offset + CacheSize

\* Copy what fits; a full cache is flushed eagerly.
CopyIn ==
  LET b == task.block
      o == end[b]
      n == Least(left, CacheSize - (o - write_cache.offset))
      size == Most(write_cache.size, o + n - write_cache.offset)
  IN  /\ ~aborted /\ pc = "write" /\ left > 0
      /\ Fits
      /\ write_cache' = [write_cache EXCEPT !.size = size,
                           !.buffer = [i \in 0..(CacheSize - 1) |->
                             IF write_cache.offset + i \in o..(o + n - 1) THEN task.value
                             ELSE write_cache.buffer[i]]]
      /\ want' = [want EXCEPT ![b] = [p \in Positions |-> IF p \in o..(o + n - 1) THEN task.value ELSE want[b][p]]]
      /\ end' = [end EXCEPT ![b] = o + n]
      /\ left' = left - n
      /\ pc' = IF size = CacheSize THEN "flush" ELSE "write"
      /\ then' = "write"
      /\ UNCHANGED <<device, read_cache, unloaded, task, rd, stable, sealed, aborted>>

\* Prepare write_cache, which must have been flushed.
Prepare ==
  /\ ~aborted /\ pc = "write" /\ left > 0
  /\ ~Fits
  /\ IF write_cache.block # NoBlock
     THEN aborted' = TRUE /\ UNCHANGED write_cache
     ELSE /\ write_cache' = [write_cache EXCEPT !.block = task.block, !.size = 0,
                               !.offset = lfs_aligndown(end[task.block], WriteSize)]
          /\ UNCHANGED aborted
  /\ UNCHANGED <<device, read_cache, unloaded, task, left, rd, pc, then, history>>

WriteReturns ==
  /\ ~aborted /\ pc = "write" /\ left = 0
  /\ pc' = "idle"
  /\ UNCHANGED <<device, write_cache, read_cache, unloaded, task, left, rd, then, history, aborted>>

-----------------------------------------------------------------------------
(* lfs_bd_flush, lfs_bd_sync *)

\* Mutant: lfs_bd_sync does not drop read_cache.
FinishKeepsCache ==
  /\ ~aborted /\ pc = "idle" /\ task # NoTask
  /\ end[task.block] > stable[task.block]
  /\ task.validate \/ end[task.block] % WriteSize = 0
  /\ pc' = "flush"
  /\ then' = "finish"
  /\ UNCHANGED <<device, write_cache, read_cache, unloaded, task, left, rd, history, aborted>>

\* The task ends: lfs_bd_flush with validation, or lfs_bd_sync without.
Finish ==
  /\ ~aborted /\ pc = "idle" /\ task # NoTask
  /\ end[task.block] > stable[task.block]
  /\ task.validate \/ end[task.block] % WriteSize = 0
  /\ read_cache' = IF task.validate THEN read_cache ELSE NoCache
  /\ unloaded' = (task.validate /\ unloaded)
  /\ pc' = "flush"
  /\ then' = "finish"
  /\ UNCHANGED <<device, write_cache, task, left, rd, history, aborted>>

Programmed == lfs_alignup(write_cache.size, WriteSize)

\* The bytes from write_cache on the device, or anything else in their place.
Put(outcome) ==
  LET b == write_cache.block
      o == write_cache.offset
      Byte(p) == IF outcome = "silent" THEN Erased ELSE write_cache.buffer[p - o]
  IN  storage' = [storage EXCEPT ![b] = [p \in Positions |->
                    IF p \in o..(o + Programmed - 1) THEN Byte(p) ELSE storage[b][p]]]

FlushNothing ==
  /\ ~aborted /\ pc = "flush" /\ write_cache.block = NoBlock
  /\ pc' = then
  /\ UNCHANGED <<device, write_cache, read_cache, unloaded, task, left, rd, then, history, aborted>>

\* Mutant: nothing is read back.
ProgramUnchecked(outcome) ==
  LET b == write_cache.block
      o == write_cache.offset
      n == Programmed
  IN  /\ ~aborted /\ pc = "flush" /\ b # NoBlock
      /\ outcome \in {"done", "silent"} \cap ({"done"} \cup Faults)
      /\ Put(outcome)
      /\ programmed' = [programmed EXCEPT ![b] = Most(programmed[b], o + n)]
      /\ write_cache' = NoCache
      /\ pc' = then
      /\ UNCHANGED <<read_cache, unloaded, rd, task, left, then, history, aborted>>

\* lfs_bd_rawprog, and the start of the comparison.
Program(outcome) ==
  LET b == write_cache.block
      o == write_cache.offset
      n == Programmed
  IN  /\ ~aborted /\ pc = "flush" /\ b # NoBlock
      /\ outcome \in {"done", "silent"} \cap ({"done"} \cup Faults)
      /\ Put(outcome)
      /\ programmed' = [programmed EXCEPT ![b] = Most(programmed[b], o + n)]
      /\ IF task.validate
         THEN /\ read_cache' = NoCache
              /\ unloaded' = FALSE
              /\ rd' = [NoRead EXCEPT !.block = b, !.at = o, !.left = Least(n, CmpSize), !.hint = n, !.why = "compare"]
              /\ pc' = "read"
              /\ UNCHANGED write_cache
         ELSE /\ write_cache' = NoCache
              /\ pc' = then
              /\ UNCHANGED <<read_cache, unloaded, rd>>
      /\ aborted' = Crosses(o, n)
      /\ UNCHANGED <<task, left, then, history>>

\* The device returns an error, having programmed nothing or something.
ProgramFails(code) ==
  LET b == write_cache.block
  IN  /\ ~aborted /\ pc = "flush" /\ b # NoBlock
      /\ code \in {"corrupt", "io"} \cap Faults
      /\ \/ UNCHANGED storage
         \/ Put(code)
      /\ programmed' = [programmed EXCEPT ![b] = Most(programmed[b], write_cache.offset + Programmed)]
      /\ Fail(code)
      /\ UNCHANGED <<read_cache, unloaded, stable, aborted>>

\* lfs_bd_cmp: the next piece, or the verdict.
CompareNext ==
  LET rest == write_cache.offset + Programmed - rd.at
  IN  /\ ~aborted /\ pc = "read" /\ rd.left = 0 /\ rd.why = "compare" /\ rd.same /\ rest > 0
      /\ rd' = [rd EXCEPT !.left = Least(rest, CmpSize), !.hint = rest]
      /\ UNCHANGED <<device, write_cache, read_cache, unloaded, task, left, pc, then, history, aborted>>

\* Mutant: the cache is not zeroed after the comparison.
CompareEqualKeeps ==
  /\ ~aborted /\ pc = "read" /\ rd.left = 0 /\ rd.why = "compare" /\ rd.same
  /\ rd.at = write_cache.offset + Programmed
  /\ rd' = NoRead
  /\ pc' = then
  /\ UNCHANGED <<device, write_cache, read_cache, unloaded, task, left, then, history, aborted>>

CompareEqual ==
  /\ ~aborted /\ pc = "read" /\ rd.left = 0 /\ rd.why = "compare" /\ rd.same
  /\ rd.at = write_cache.offset + Programmed
  /\ write_cache' = NoCache
  /\ rd' = NoRead
  /\ pc' = then
  /\ UNCHANGED <<device, read_cache, unloaded, task, left, then, history, aborted>>

ReadBackDiffers ==
  /\ ~aborted /\ pc = "read" /\ rd.left = 0 /\ rd.why \in {"compare", "crc"} /\ ~rd.same
  /\ Fail("corrupt")
  /\ UNCHANGED <<device, read_cache, unloaded, stable, aborted>>

\* lfs_dir_commit_crc reads its commit back, byte by byte.
CheckCrc ==
  LET b == task.block
      from == IF rd.why = "crc" THEN rd.at ELSE stable[b]
  IN  /\ ~aborted /\ ~task.validate
      /\ \/ pc = "finish"
         \/ pc = "read" /\ rd.left = 0 /\ rd.why = "crc" /\ rd.same
      /\ from < end[b]
      /\ rd' = [NoRead EXCEPT !.block = b, !.at = from, !.left = 1, !.hint = end[b] - from, !.why = "crc"]
      /\ pc' = "read"
      /\ UNCHANGED <<device, write_cache, read_cache, unloaded, task, left, then, history, aborted>>

\* The task is over; a block that does not end with a whole unit is not
\* written again.
TaskOver ==
  LET b == task.block
  IN  /\ ~aborted
      /\ IF task.validate THEN pc = "finish"
         ELSE pc = "read" /\ rd.left = 0 /\ rd.why = "crc" /\ rd.same /\ rd.at = end[b]
      /\ stable' = [stable EXCEPT ![b] = end[b]]
      /\ sealed' = [sealed EXCEPT ![b] = task.validate]
      /\ task' = NoTask
      /\ rd' = NoRead
      /\ pc' = "idle"
      /\ then' = "write"
      /\ UNCHANGED <<device, write_cache, read_cache, unloaded, left, want, end, aborted>>

Next ==
  \/ \E b \in Blocks, v \in Values :
       AppendTo(b, v) \/ \E validate \in BOOLEAN : Erase(b, validate, v)
  \/ \E b \in Blocks, o \in Positions, n \in Sizes, h \in Hints, t \in BOOLEAN : lfs_bd_read(b, o, n, h, t)
  \/ \E n \in Sizes : lfs_bd_write(n)
  \/ CopyTurn \/ LoadTurn \/ ReadReturns
  \/ CopyIn \/ Prepare \/ WriteReturns
  \/ Finish \/ FlushNothing \/ CompareNext \/ CompareEqual \/ ReadBackDiffers
  \/ CheckCrc \/ TaskOver
  \/ \E outcome \in {"done", "silent"} : Program(outcome)
  \/ \E code \in {"corrupt", "io"} : ProgramFails(code) \/ ReadFails(code)
  \/ Restart

Spec == Init /\ [][Next]_vars

-----------------------------------------------------------------------------
(* Properties *)

\* Wherever a read of a caller gets its bytes, from write_cache, read_cache
\* or the device, they are the bytes written last (lfs_bd_read).  Those that
\* a failed load has left in read_cache are not: the block, the offset and the
\* size are set before the load and stay set after its error
\* (lfs_device.cpp:155-170), until another load or a check replaces them.
ReadsSeeWrites ==
  Reading /\ rd.why = "caller" /\ (Source = "read_cache" => ~unloaded) =>
    \A p \in rd.at..(rd.at + Count - 1) : ByteRead(p) = want[rd.block][p]

\* Bytes of a flush or a sync that has returned without an error are on the
\* device, whatever the caches hold (lfs_bd_flush, lfs_bd_sync).
StableOnDevice ==
  \A b \in Blocks : \A p \in 0..(stable[b] - 1) : storage[b][p] = want[b][p]

\* "A block must be erased before being programmed": no byte is programmed
\* twice, whatever is filled up to write_size.
ProgramsOnce ==
  pc = "flush" /\ write_cache.block # NoBlock => write_cache.offset >= programmed[write_cache.block]

\* No LFS_ASSERT fails: a write finds its own data or nothing in write_cache
\* ("write_cache must have been flushed"), a transfer fits an erase unit.
AssertionsHold == ~aborted
=============================================================================
