-------------------------- MODULE LfsBdCacheProofs ---------------------------
(***************************************************************************)
(* Reads see the bytes written last, whatever the caches hold, what a      *)
(* flush or a sync has answered ok for is on the device, and no byte is    *)
(* programmed twice: for every size of blocks, caches and programs.        *)
(*                                                                         *)
(* The argument: write_cache continues the block where its flushed part    *)
(* ends, always at a multiple of write_size, so that a program touches     *)
(* nothing that was flushed before; read_cache is dropped by whatever is   *)
(* about to check the device, so that the check reads what is there; and   *)
(* what read_cache has of a block from before is only what is flushed.     *)
(***************************************************************************)
EXTENDS LfsBdCache, TLAPS

\* A device tells of a program or a read that fails only as corrupt: the
\* callers drop write_cache then, and only then.
FailuresAreCorrupt == "io" \notin Faults \cup ReadFaults

\* The whole block is one unit of erase_size, as the VFS configures it.
OneUnit == EraseSize = BlockSize

-----------------------------------------------------------------------------
(* The invariant *)

Bytes == Values \cup {Erased}
Block == Blocks \cup {NoBlock}
Contents == [Blocks -> [Positions -> Bytes]]
Lengths == [Blocks -> 0..BlockSize]
Cache == {c \in [block : Block, offset : 0..BlockSize, size : 0..CacheSize,
                 buffer : [0..(CacheSize - 1) -> Bytes]] : c.offset + c.size <= BlockSize}
TaskRecord == [block : Block, validate : BOOLEAN, value : Bytes]
ReadRecord == [block : Block, at : 0..BlockSize, left : 0..BlockSize, hint : Nat, through : BOOLEAN,
               why : {"caller", "compare", "crc"}, same : BOOLEAN]

TypeOK ==
  /\ storage \in Contents /\ want \in Contents
  /\ write_cache \in Cache /\ read_cache \in Cache
  /\ task \in TaskRecord
  /\ left \in Nat
  /\ rd \in ReadRecord
  /\ pc \in {"idle", "read", "write", "flush", "finish"}
  /\ then \in {"write", "finish"}
  /\ end \in Lengths /\ stable \in Lengths /\ programmed \in Lengths
  /\ sealed \in [Blocks -> BOOLEAN] /\ unloaded \in BOOLEAN

Busy == task.block \in Blocks
Asking(why) == pc = "read" /\ rd.why = why

\* Where the calls can be.
Control ==
  /\ ~Busy => /\ task = NoTask /\ left = 0
              /\ pc = "idle" \/ Asking("caller")
              /\ write_cache.block = NoBlock
              /\ end = stable
  /\ pc = "idle" \/ Asking("caller") => left = 0
  /\ pc \in {"idle", "write"} \/ Asking("caller") => then = "write"
  /\ pc # "read" => rd = NoRead
  /\ then = "finish" => left = 0 /\ Busy
  /\ pc = "finish" => then = "finish" /\ write_cache.block = NoBlock
  /\ Asking("compare") => task.validate /\ write_cache.block = task.block
  /\ Asking("crc") => ~task.validate /\ then = "finish" /\ write_cache.block = NoBlock
  /\ Busy => end[task.block] + left <= BlockSize
  /\ \A b \in Blocks : stable[b] <= end[b] /\ (b # task.block => end[b] = stable[b])

\* A block that may be appended to ends with a whole unit, and nothing is
\* programmed behind its end.
Appendable ==
  /\ \A b \in Blocks : ~sealed[b] =>
       stable[b] % WriteSize = 0 /\ (b # task.block => programmed[b] <= stable[b])
  /\ Busy => stable[task.block] % WriteSize = 0
  /\ then = "finish" /\ ~task.validate => end[task.block] % WriteSize = 0
  /\ Busy /\ write_cache.block = NoBlock /\ (then = "write" \/ ~task.validate) =>
       end[task.block] % WriteSize = 0 /\ programmed[task.block] <= end[task.block]

\* write_cache has what the running task has written behind what it flushed.
Pending ==
  write_cache.block # NoBlock =>
    /\ write_cache.block = task.block
    /\ write_cache.offset % WriteSize = 0
    /\ stable[task.block] <= write_cache.offset
    /\ write_cache.offset + write_cache.size = end[task.block]
    /\ \A p \in Positions : write_cache.offset <= p /\ p < end[task.block] =>
         write_cache.buffer[p - write_cache.offset] = want[task.block][p]
    /\ pc \in {"idle", "write"} \/ Asking("caller") => write_cache.size < CacheSize
    /\ (pc = "flush" \/ Asking("compare")) /\ then = "write" => write_cache.size = CacheSize
    /\ ~Asking("compare") => programmed[task.block] <= write_cache.offset
    /\ Asking("compare") => programmed[task.block] <= write_cache.offset + Programmed

\* What the running task has flushed.
Flushed == IF write_cache.block = NoBlock THEN end[task.block] ELSE write_cache.offset

FlushedOnDevice ==
  task.validate => \A p \in Positions : p < Flushed => storage[task.block][p] = want[task.block][p]

\* read_cache has the bytes of block b in front of n as the device has them.
Agrees(b, n) ==
  read_cache.block = b =>
    \A p \in Positions :
      read_cache.offset <= p /\ p < read_cache.offset + read_cache.size /\ p < n =>
        read_cache.buffer[p - read_cache.offset] = storage[b][p]

\* What of a block may be read through read_cache.
Seen(b) == IF b = task.block /\ task.validate THEN Flushed ELSE stable[b]
SeenAgrees == ~unloaded => \A b \in Blocks : Agrees(b, Seen(b))

\* Whoever is about to check the device reads what is there.
ChecksDevice ==
  /\ then = "finish" /\ ~task.validate =>
       IF pc = "flush" THEN read_cache.block = NoBlock ELSE Agrees(task.block, BlockSize)
  /\ Asking("compare") => Agrees(task.block, BlockSize)

\* The running read, and what it has found.
Running ==
  /\ Asking("caller") => /\ rd.block \in Blocks
                         /\ rd.at + rd.left <= Readable(rd.block, rd.through)
                         /\ rd.through => rd.block = task.block
  /\ Asking("compare") =>
       /\ rd.block = task.block /\ ~rd.through
       /\ write_cache.offset <= rd.at /\ rd.at + rd.left <= write_cache.offset + Programmed
       /\ rd.same => \A p \in Positions : write_cache.offset <= p /\ p < rd.at =>
                       storage[task.block][p] = write_cache.buffer[p - write_cache.offset]
  /\ Asking("crc") =>
       /\ rd.block = task.block /\ ~rd.through
       /\ stable[task.block] <= rd.at /\ rd.at + rd.left <= end[task.block]
       /\ rd.same => \A p \in Positions : stable[task.block] <= p /\ p < rd.at =>
                       storage[task.block][p] = want[task.block][p]

IInv ==
  /\ TypeOK /\ Control /\ Appendable /\ Pending /\ StableOnDevice
  /\ FlushedOnDevice /\ SeenAgrees /\ ChecksDevice /\ Running

-----------------------------------------------------------------------------
(* Multiples *)

LEMMA DivMod ==
  ASSUME NEW n \in Nat \ {0}, NEW x \in Nat
  PROVE  \E q \in Nat, r \in 0..(n - 1) : x = n * q + r /\ x % n = r
<1>1. x % n \in 0..(n - 1) /\ x \div n \in Nat /\ x = n * (x \div n) + (x % n)
  OBVIOUS
<1>2. QED
  BY <1>1

LEMMA ModOf ==
  ASSUME NEW n \in Nat \ {0}, NEW q \in Int, NEW r \in 0..(n - 1)
  PROVE  (n * q + r) % n = r
OBVIOUS

LEMMA Multiple ==
  ASSUME NEW n \in Nat \ {0}, NEW x \in Nat, x % n = 0
  PROVE  \E q \in Nat : x = n * q
BY DivMod

LEMMA MultipleIs ==
  ASSUME NEW n \in Nat \ {0}, NEW q \in Nat
  PROVE  (n * q) % n = 0
<1>1. (n * q + 0) % n = 0
  BY ModOf
<1>2. QED
  BY <1>1

LEMMA SumOfMultiples ==
  ASSUME NEW n \in Nat \ {0}, NEW x \in Nat, NEW y \in Nat, x % n = 0, y % n = 0
  PROVE  (x + y) % n = 0
<1>1. PICK p \in Nat : x = n * p
  BY Multiple
<1>2. PICK q \in Nat : y = n * q
  BY Multiple
<1>3. x + y = n * (p + q) /\ p + q \in Nat
  BY <1>1, <1>2
<1>4. QED
  BY <1>3, MultipleIs

\* A multiple that is not behind another lies a multiple in front of it.
LEMMA DifferenceOfMultiples ==
  ASSUME NEW n \in Nat \ {0}, NEW x \in Nat, NEW y \in Nat, x % n = 0, y % n = 0, x <= y
  PROVE  (y - x) % n = 0
<1>1. PICK p \in Nat : x = n * p
  BY Multiple
<1>2. PICK q \in Nat : y = n * q
  BY Multiple
<1>3. p <= q
  <2>1. SUFFICES ASSUME q < p PROVE FALSE
    BY <1>1, <1>2
  <2>2. PICK d \in Nat \ {0} : p = q + d
    BY <2>1
  <2>3. x = y + n * d /\ n * d > 0
    BY <1>1, <1>2, <2>2
  <2>4. QED
    BY <2>3
<1>4. y - x = n * (q - p) /\ q - p \in Nat
  BY <1>1, <1>2, <1>3
<1>5. QED
  BY <1>4, MultipleIs

LEMMA MultipleOfMultiple ==
  ASSUME NEW n \in Nat \ {0}, NEW m \in Nat \ {0}, NEW x \in Nat, x % m = 0, m % n = 0
  PROVE  x % n = 0
<1>1. PICK p \in Nat : x = m * p
  BY Multiple
<1>2. PICK q \in Nat : m = n * q
  BY Multiple
<1>3. x = n * (q * p) /\ q * p \in Nat
  BY <1>1, <1>2
<1>4. QED
  BY <1>3, MultipleIs

LEMMA AlignDown ==
  ASSUME NEW n \in Nat \ {0}, NEW x \in Nat
  PROVE  /\ lfs_aligndown(x, n) \in 0..x
         /\ lfs_aligndown(x, n) % n = 0
         /\ x < lfs_aligndown(x, n) + n
         /\ x % n = 0 => lfs_aligndown(x, n) = x
<1>1. PICK q \in Nat, r \in 0..(n - 1) : x = n * q + r /\ x % n = r
  BY DivMod
<1> DEFINE m == n * q
<1>2. m \in Nat /\ m % n = 0
  BY MultipleIs
<1> HIDE DEF m
<1>3. x = m + r
  BY <1>1 DEF m
<1>4. lfs_aligndown(x, n) = m
  BY <1>1, <1>2, <1>3 DEF lfs_aligndown
<1>5. QED
  BY <1>1, <1>2, <1>3, <1>4

LEMMA AlignUp ==
  ASSUME NEW n \in Nat \ {0}, NEW x \in Nat
  PROVE  /\ lfs_alignup(x, n) \in Nat
         /\ x <= lfs_alignup(x, n)
         /\ lfs_alignup(x, n) % n = 0
         /\ \A m \in Nat : x <= m /\ m % n = 0 => lfs_alignup(x, n) <= m
<1> DEFINE y == x + n - 1
           u == lfs_alignup(x, n)
<1>1. y \in Nat /\ u = lfs_aligndown(y, n)
  BY DEF lfs_alignup
<1>2. u \in 0..y /\ u % n = 0 /\ y < u + n
  BY <1>1, AlignDown
<1>3. x <= u
  BY <1>1, <1>2
<1>4. ASSUME NEW m \in Nat, x <= m, m % n = 0, m < u
      PROVE  FALSE
  <2>1. (u - m) % n = 0 /\ u - m \in Nat
    BY <1>2, <1>4, DifferenceOfMultiples
  <2>2. u - m \in 1..(n - 1)
    BY <1>1, <1>2, <1>4
  <2>3. (u - m) % n = u - m
    BY <2>2
  <2>4. QED
    BY <2>1, <2>2, <2>3
<1>5. QED
  BY <1>1, <1>2, <1>3, <1>4

-----------------------------------------------------------------------------
(* The parameters *)

LEMMA Constants ==
  /\ BlockSize \in Nat \ {0} /\ EraseSize \in Nat \ {0} /\ ReadSize \in Nat \ {0}
  /\ WriteSize \in Nat \ {0} /\ CacheSize \in Nat \ {0} /\ CmpSize \in Nat \ {0}
  /\ Erased \notin Values /\ NoBlock \notin Blocks
  /\ \A n \in Sizes : n \in Nat \ {0}
  /\ \A h \in Hints : h \in Nat \ {0}
  /\ CacheSize % WriteSize = 0 /\ BlockSize % WriteSize = 0
<1>1. EraseSize % WriteSize = 0
  BY CacheAssumption, MultipleOfMultiple
<1>2. BlockSize % WriteSize = 0
  BY <1>1, CacheAssumption, MultipleOfMultiple
<1>3. QED
  BY <1>2, CacheAssumption

LEMMA Nothing == NoCache \in Cache /\ NoTask \in TaskRecord /\ NoRead \in ReadRecord
BY Constants DEF NoCache, NoTask, NoRead, Cache, TaskRecord, ReadRecord, Block, Bytes

\* A cache that is programmed fits its buffer and the block, filled up to
\* write_size.
LEMMA ProgramFits ==
  ASSUME TypeOK, Pending, write_cache.block # NoBlock
  PROVE  /\ Programmed \in write_cache.size..CacheSize
         /\ write_cache.offset + Programmed <= BlockSize
         /\ (write_cache.offset + Programmed) % WriteSize = 0
         /\ end[task.block] % WriteSize = 0 => write_cache.offset + Programmed = end[task.block]
<1> DEFINE o == write_cache.offset
           size == write_cache.size
           e == end[task.block]
           rest == BlockSize - o
<1>1. /\ o \in Nat /\ size \in 0..CacheSize /\ o + size <= BlockSize
      /\ o % WriteSize = 0
      /\ o + size = e /\ e \in 0..BlockSize
  BY DEF TypeOK, Pending, Cache, Lengths, Block
<1>2. /\ WriteSize \in Nat \ {0} /\ CacheSize \in Nat /\ BlockSize \in Nat
      /\ CacheSize % WriteSize = 0 /\ BlockSize % WriteSize = 0
  BY Constants
<1> HIDE DEF o, size, e
<1>3. rest \in Nat /\ rest % WriteSize = 0
  <2>1. o <= BlockSize /\ rest \in Nat
    BY <1>1, <1>2
  <2>2. QED
    BY <1>1, <1>2, <2>1, DifferenceOfMultiples
<1>4. size <= rest /\ o + rest = BlockSize
  BY <1>1, <1>2
<1> HIDE DEF rest
<1>5. size \in Nat /\ size <= CacheSize
  BY <1>1, <1>2
<1> DEFINE n == lfs_alignup(size, WriteSize)
<1>6. /\ n \in Nat /\ size <= n /\ n % WriteSize = 0
      /\ \A m \in Nat : size <= m /\ m % WriteSize = 0 => n <= m
  BY <1>2, <1>5, AlignUp
<1> HIDE DEF n
<1>7. n <= CacheSize /\ n <= rest
  BY <1>2, <1>3, <1>4, <1>5, <1>6
<1>8. (o + n) % WriteSize = 0
  BY <1>1, <1>2, <1>6, SumOfMultiples
<1>9. ASSUME e % WriteSize = 0
      PROVE  o + n = e
  <2>1. e - o = size /\ o <= e /\ e \in Nat
    BY <1>1, <1>5
  <2>2. (e - o) % WriteSize = 0
    BY <1>1, <1>2, <1>9, <2>1, DifferenceOfMultiples
  <2>3. n <= size
    BY <1>5, <1>6, <2>1, <2>2
  <2>4. QED
    BY <1>1, <1>5, <1>6, <2>3
<1>10. n \in size..CacheSize /\ o + n <= BlockSize
  BY <1>1, <1>2, <1>3, <1>4, <1>5, <1>6, <1>7
<1>11. QED
  BY <1>8, <1>9, <1>10 DEF o, size, e, n, Programmed

-----------------------------------------------------------------------------
(* What a read gets *)

\* What was written before the running task may be read.
LEMMA StableSeen ==
  ASSUME TypeOK, Control, Pending, NEW b \in Blocks
  PROVE  stable[b] <= Seen(b)
BY DEF TypeOK, Control, Pending, Seen, Flushed, Lengths, Cache

LEMMA ReadableBound ==
  ASSUME TypeOK, NEW b \in Blocks, NEW through \in BOOLEAN
  PROVE  Readable(b, through) \in 0..BlockSize
BY Constants DEF TypeOK, Readable, Least, Lengths, Cache

\* A turn of a read stays within what it was asked for, and within the cache
\* it reads; the bytes it gets elsewhere write_cache does not have.
LEMMA Turn ==
  ASSUME TypeOK, Reading
  PROVE  /\ Count \in 0..rd.left
         /\ Source = "write_cache" => \A p \in rd.at..(rd.at + Count - 1) : InWrite(p)
         /\ Source = "read_cache" => \A p \in rd.at..(rd.at + Count - 1) : InRead(p)
         /\ Source # "write_cache" => \A p \in rd.at..(rd.at + Count - 1) : ~InWrite(p)
<1>1. /\ rd.at \in Nat /\ rd.left \in Nat
      /\ write_cache.offset \in Nat /\ write_cache.size \in Nat
      /\ read_cache.offset \in Nat /\ read_cache.size \in Nat
  BY Constants DEF TypeOK, ReadRecord, Cache
<1>2. /\ WriteBound \in 0..rd.left
      /\ rd.through /\ rd.block = write_cache.block /\ rd.at < write_cache.offset =>
           rd.at + WriteBound <= write_cache.offset
  BY <1>1 DEF WriteBound, Least
<1>3. ReadBound \in 0..WriteBound
  BY <1>1, <1>2 DEF ReadBound, Least
<1>4. CASE Source = "write_cache"
  <2>1. InWrite(rd.at)
    BY <1>4 DEF Source
  <2>2. Count = Least(rd.left, write_cache.size - (rd.at - write_cache.offset))
    BY <1>4 DEF Count
  <2>3. QED
    BY <1>1, <1>4, <2>1, <2>2 DEF InWrite, Least
<1>5. CASE Source = "read_cache"
  <2>1. InRead(rd.at) /\ ~InWrite(rd.at)
    BY <1>5 DEF Source
  <2>2. Count = Least(WriteBound, read_cache.size - (rd.at - read_cache.offset))
    BY <1>5 DEF Count
  <2>3. Count \in 0..WriteBound
    BY <1>1, <1>2, <2>1, <2>2 DEF InRead, Least
  <2>4. \A p \in rd.at..(rd.at + Count - 1) : InRead(p)
    BY <1>1, <1>2, <2>1, <2>2, <2>3 DEF InRead, Least
  <2>5. \A p \in rd.at..(rd.at + Count - 1) : ~InWrite(p)
    BY <1>1, <1>2, <2>1, <2>3 DEF InWrite
  <2>6. Count \in 0..rd.left
    BY <1>1, <1>2, <2>3
  <2>7. QED
    BY <1>5, <2>4, <2>5, <2>6
<1>6. CASE Source = "device"
  <2>1. ~InWrite(rd.at)
    BY <1>6 DEF Source
  <2>2. Count = lfs_aligndown(ReadBound, ReadSize)
    BY <1>6 DEF Count
  <2>3. Count \in 0..ReadBound
    BY <1>2, <1>3, <2>2, AlignDown, Constants
  <2>4. \A p \in rd.at..(rd.at + Count - 1) : ~InWrite(p)
    BY <1>1, <1>2, <1>3, <2>1, <2>3 DEF InWrite
  <2>5. Count \in 0..rd.left
    BY <1>1, <1>2, <1>3, <2>3
  <2>6. QED
    BY <1>6, <2>4, <2>5
<1>7. CASE Source = "none"
  <2>1. Count = 0
    BY <1>7 DEF Count
  <2>2. QED
    BY <1>1, <1>7, <2>1
<1>8. QED
  BY <1>4, <1>5, <1>6, <1>7 DEF Source

\* What a read gets from elsewhere than write_cache is on the device, as far
\* as read_cache agrees with it.
LEMMA ReadsDevice ==
  ASSUME TypeOK, Reading, Source # "write_cache", NEW n \in Nat, n <= BlockSize,
         Agrees(rd.block, n), NEW p \in rd.at..(rd.at + Count - 1), p < n
  PROVE  ByteRead(p) = storage[rd.block][p]
<1>1. p \in Positions
  BY Constants, Turn DEF TypeOK, ReadRecord, Positions
<1>2. CASE Source = "read_cache"
  <2>1. InRead(p)
    BY <1>2, Turn
  <2>2. ByteRead(p) = read_cache.buffer[p - read_cache.offset]
    BY <1>2 DEF ByteRead
  <2>3. QED
    BY <1>1, <2>1, <2>2 DEF InRead, Agrees
<1>3. CASE Source # "read_cache"
  BY <1>3 DEF ByteRead
<1>4. QED
  BY <1>2, <1>3

-----------------------------------------------------------------------------
(* The invariant holds at the start, and every step keeps it *)

LEMMA InitInvariant == Init => IInv
<1> SUFFICES ASSUME Init PROVE IInv
  OBVIOUS
<1>1. TypeOK
  <2>1. storage \in Contents /\ want \in Contents
    BY DEF Init, Bytes, Contents
  <2>2. end \in Lengths /\ stable \in Lengths /\ programmed \in Lengths
    BY Constants DEF Init, Lengths
  <2>3. sealed \in [Blocks -> BOOLEAN] /\ unloaded \in BOOLEAN
    BY DEF Init
  <2>4. QED
    BY <2>1, <2>2, <2>3, Nothing DEF Init, TypeOK
<1>2. Control /\ Appendable /\ Pending
  BY Constants, Nothing DEF Init, Control, Appendable, Pending, NoCache, NoTask, NoRead, Busy, Asking
<1>3. StableOnDevice /\ FlushedOnDevice
  BY Constants DEF Init, StableOnDevice, FlushedOnDevice, Flushed, NoCache, Positions
<1>4. SeenAgrees
  BY Constants DEF Init, SeenAgrees, Agrees, NoCache
<1>5. ChecksDevice /\ Running
  BY Constants DEF Init, ChecksDevice, Running, NoTask, NoRead, Asking
<1>6. QED
  BY <1>1, <1>2, <1>3, <1>4, <1>5 DEF IInv

LEMMA BeginRead ==
  ASSUME IInv, NEW b \in Blocks, NEW o \in Positions, NEW n \in Sizes, NEW h \in Hints, NEW t \in BOOLEAN,
         lfs_bd_read(b, o, n, h, t)
  PROVE  IInv'
<1> USE DEF IInv, lfs_bd_read, device, history
<1>1. TypeOK'
  <2>1. Readable(b, t) \in 0..BlockSize
    BY ReadableBound
  <2>2. o \in Nat /\ n \in Nat /\ h \in Nat
    BY Constants DEF Positions
  <2>3. o \in 0..BlockSize /\ n \in 0..BlockSize
    BY <2>1, <2>2, Constants
  <2>4. rd' \in ReadRecord
    BY <2>2, <2>3, Nothing DEF NoRead, ReadRecord, Block
  <2>5. QED
    BY <2>4 DEF TypeOK
<1>2. Control'
  BY DEF Control, Busy, Asking, NoRead
<1>3. Appendable'
  BY DEF Appendable, Busy
<1>4. Pending'
  BY DEF Pending, Asking, NoRead
<1>5. StableOnDevice'
  BY DEF StableOnDevice
<1>6. FlushedOnDevice'
  BY DEF FlushedOnDevice, Flushed
<1>7. SeenAgrees'
  BY DEF SeenAgrees, Agrees, Seen, Flushed
<1>8. ChecksDevice'
  BY DEF Control, ChecksDevice, Agrees, Asking, NoRead
<1>9. Running'
  BY DEF Running, Asking, Readable, NoRead
<1>10. QED
  BY <1>1, <1>2, <1>3, <1>4, <1>5, <1>6, <1>7, <1>8, <1>9

LEMMA Returns ==
  ASSUME IInv, ReadReturns \/ WriteReturns
  PROVE  IInv'
<1> USE DEF IInv, ReadReturns, WriteReturns, device, history
<1>1. TypeOK'
  BY Nothing DEF TypeOK
<1>2. Control'
  BY DEF Control, Busy, Asking, NoRead
<1>3. Appendable'
  BY DEF Appendable, Busy
<1>4. Pending'
  BY DEF Pending, Asking
<1>5. StableOnDevice'
  BY DEF StableOnDevice
<1>6. FlushedOnDevice'
  BY DEF FlushedOnDevice, Flushed
<1>7. SeenAgrees'
  BY DEF SeenAgrees, Agrees, Seen, Flushed
<1>8. ChecksDevice'
  BY DEF Control, ChecksDevice, Agrees, Asking
<1>9. Running'
  BY DEF Running, Asking
<1>10. QED
  BY <1>1, <1>2, <1>3, <1>4, <1>5, <1>6, <1>7, <1>8, <1>9

LEMMA BeginErase ==
  ASSUME IInv, NEW b \in Blocks, NEW validate \in BOOLEAN, NEW v \in Values, Erase(b, validate, v)
  PROVE  IInv'
<1> USE DEF IInv, Erase
<1>1. TypeOK'
  <2>1. task' \in TaskRecord
    BY DEF TaskRecord, Block, Bytes
  <2>2. storage' \in Contents /\ want' \in Contents
    BY DEF TypeOK, Contents, Bytes
  <2>3. end' \in Lengths /\ stable' \in Lengths /\ programmed' \in Lengths /\ sealed' \in [Blocks -> BOOLEAN]
    BY Constants DEF TypeOK, Lengths
  <2>4. QED
    BY <2>1, <2>2, <2>3 DEF TypeOK
<1>2. /\ task'.block = b /\ task'.validate = validate
      /\ task.block = NoBlock /\ write_cache.block = NoBlock
      /\ stable'[b] = 0 /\ end'[b] = 0 /\ programmed'[b] = 0
      /\ \A x \in Blocks : x # b =>
           /\ stable'[x] = stable[x] /\ end'[x] = end[x] /\ programmed'[x] = programmed[x]
           /\ sealed'[x] = sealed[x] /\ storage'[x] = storage[x] /\ want'[x] = want[x]
  BY Constants DEF TypeOK, Contents, Lengths, Control, Busy, NoTask
<1>3. Control'
  BY <1>2, Constants DEF TypeOK, Lengths, Control, Busy, Asking
<1>4. Appendable'
  BY <1>2, Constants DEF Appendable, Busy, Control
<1>5. Pending'
  BY <1>2 DEF Pending
<1>6. StableOnDevice'
  BY <1>2 DEF StableOnDevice
<1>7. FlushedOnDevice'
  BY <1>2, Constants DEF FlushedOnDevice, Flushed, Positions
<1>8. SeenAgrees'
  BY <1>2, Constants DEF SeenAgrees, Agrees, Seen, Flushed, Positions
<1>9. ChecksDevice' /\ Running'
  BY <1>2 DEF Control, ChecksDevice, Running, Asking
<1>10. QED
  BY <1>1, <1>3, <1>4, <1>5, <1>6, <1>7, <1>8, <1>9

LEMMA BeginAppend ==
  ASSUME IInv, NEW b \in Blocks, NEW v \in Values, AppendTo(b, v)
  PROVE  IInv'
<1> USE DEF IInv, AppendTo, device, history
<1>1. TypeOK'
  <2>1. task' \in TaskRecord
    BY DEF TaskRecord, Block, Bytes
  <2>2. QED
    BY <2>1 DEF TypeOK
<1>2. /\ task'.block = b /\ ~task'.validate
      /\ task.block = NoBlock /\ write_cache.block = NoBlock /\ end = stable
      /\ stable[b] \in 0..BlockSize
  BY Constants DEF Control, Busy, NoTask, TypeOK, Lengths
<1>3. Control'
  BY <1>2, Constants DEF Control, Busy, Asking
<1>4. Appendable'
  BY <1>2, Constants DEF Appendable, Busy, Control
<1>5. Pending' /\ StableOnDevice' /\ FlushedOnDevice'
  BY <1>2 DEF Pending, StableOnDevice, FlushedOnDevice
<1>6. SeenAgrees'
  BY <1>2, Constants DEF SeenAgrees, Agrees, Seen
<1>7. ChecksDevice' /\ Running'
  BY <1>2 DEF Control, ChecksDevice, Running, Asking
<1>8. QED
  BY <1>1, <1>3, <1>4, <1>5, <1>6, <1>7

LEMMA BeginWrite ==
  ASSUME IInv, NEW n \in Sizes, lfs_bd_write(n)
  PROVE  IInv'
<1> USE DEF IInv, lfs_bd_write, device, history
<1>1. TypeOK'
  BY Constants DEF TypeOK
<1>2. Busy
  BY DEF Control
<1>3. Control'
  BY <1>2 DEF Control, Busy, Asking
<1>4. Appendable'
  BY DEF Appendable, Busy
<1>5. Pending'
  BY DEF Pending, Asking, Programmed
<1>6. StableOnDevice' /\ FlushedOnDevice' /\ SeenAgrees'
  BY DEF StableOnDevice, FlushedOnDevice, SeenAgrees, Agrees, Seen, Flushed
<1>7. ChecksDevice' /\ Running'
  BY DEF Control, ChecksDevice, Running, Asking
<1>8. QED
  BY <1>1, <1>3, <1>4, <1>5, <1>6, <1>7

LEMMA Copies ==
  ASSUME IInv, CopyIn
  PROVE  IInv'
<1> USE DEF IInv
<1> DEFINE b == task.block
           o == end[b]
           offset == write_cache.offset
           n == Least(left, CacheSize - (o - offset))
           buffer == [i \in 0..(CacheSize - 1) |->
                        IF offset + i \in o..(o + n - 1) THEN task.value ELSE write_cache.buffer[i]]
<1>1. /\ b \in Blocks /\ pc = "write" /\ then = "write" /\ write_cache.block = b
      /\ left \in Nat \ {0} /\ o \in Nat /\ o + left <= BlockSize
  BY Constants DEF CopyIn, Fits, TypeOK, Control, Busy, Asking, TaskRecord, Block, Lengths
<1>2. /\ offset \in Nat /\ write_cache.size \in Nat /\ offset + write_cache.size = o
      /\ write_cache.size < CacheSize
  BY <1>1, Constants DEF TypeOK, Pending, Cache
<1>3. /\ n \in Nat \ {0} /\ n <= left /\ o + n <= BlockSize
      /\ o + n - offset \in 0..CacheSize
      /\ Most(write_cache.size, o + n - offset) = o + n - offset
  BY <1>1, <1>2, Constants DEF Least, Most
<1>4. /\ write_cache' = [write_cache EXCEPT !.size = o + n - offset, !.buffer = buffer]
      /\ want' = [want EXCEPT ![b] = [p \in Positions |-> IF p \in o..(o + n - 1) THEN task.value ELSE want[b][p]]]
      /\ end' = [end EXCEPT ![b] = o + n]
      /\ left' = left - n
      /\ pc' = IF o + n - offset = CacheSize THEN "flush" ELSE "write"
      /\ then' = "write"
      /\ UNCHANGED <<storage, programmed, read_cache, unloaded, task, rd, stable, sealed>>
  BY <1>3 DEF CopyIn, device
<1>5. /\ write_cache'.block = b /\ write_cache'.offset = offset
      /\ write_cache'.size = o + n - offset /\ write_cache'.buffer = buffer
  BY <1>1, <1>4 DEF TypeOK, Cache
<1>6. end'[b] = o + n /\ \A x \in Blocks : x # b => end'[x] = end[x]
  BY <1>1, <1>4 DEF TypeOK, Lengths
<1> HIDE DEF n
<1>7. TypeOK'
  <2>1. write_cache' \in Cache
    <3>1. buffer \in [0..(CacheSize - 1) -> Bytes]
      BY DEF TypeOK, TaskRecord, Cache
    <3>2. offset + (o + n - offset) = o + n
      BY <1>1, <1>2, <1>3
    <3> HIDE DEF buffer
    <3>3. QED
      BY <1>3, <1>4, <3>1, <3>2 DEF TypeOK, Cache
  <2>2. want' \in Contents
    BY <1>4 DEF TypeOK, Contents, TaskRecord
  <2>3. end' \in Lengths
    BY <1>1, <1>3, <1>4, Constants DEF TypeOK, Lengths
  <2>4. left' \in Nat
    BY <1>1, <1>3, <1>4
  <2>5. QED
    BY <1>4, <2>1, <2>2, <2>3, <2>4 DEF TypeOK
<1>8. Control'
  <2>1. stable[b] <= o /\ stable[b] \in Nat
    BY <1>1 DEF TypeOK, Lengths, Control
  <2>2. QED
    BY <1>1, <1>2, <1>3, <1>4, <1>5, <1>6, <2>1 DEF Control, Busy, Asking
<1>9. Appendable'
  BY <1>1, <1>4, <1>5, Constants DEF Appendable, Busy
<1>10. Pending'
  <2>1. ASSUME NEW p \in Positions, offset <= p, p < o + n
        PROVE  buffer[p - offset] = want'[b][p]
    <3>1. want'[b][p] = IF p \in o..(o + n - 1) THEN task.value ELSE want[b][p]
      BY <1>1, <1>4 DEF TypeOK, Contents
    <3>2. p \in Nat /\ p - offset \in 0..(CacheSize - 1) /\ offset + (p - offset) = p
      BY <1>1, <1>2, <1>3, <2>1, Constants DEF Positions
    <3>3. buffer[p - offset] = IF p \in o..(o + n - 1) THEN task.value ELSE write_cache.buffer[p - offset]
      BY <3>2
    <3>4. p < o => write_cache.buffer[p - offset] = want[b][p]
      BY <1>1, <2>1, Constants DEF Pending
    <3>5. p \in o..(o + n - 1) <=> ~(p < o)
      BY <1>1, <1>3, <2>1, <3>2
    <3> HIDE DEF buffer
    <3>6. QED
      BY <3>1, <3>3, <3>4, <3>5
  <2> HIDE DEF buffer
  <2>2. QED
    BY <1>1, <1>2, <1>3, <1>4, <1>5, <1>6, <2>1, Constants DEF Pending, Asking
<1>11. \A x \in Blocks, p \in Positions : (x = b => p < o) => want'[x][p] = want[x][p]
  BY <1>1, <1>3, <1>4 DEF TypeOK, Contents, Positions
<1>12. StableOnDevice'
  <2>1. SUFFICES ASSUME NEW x \in Blocks, NEW p \in 0..(stable[x] - 1)
                 PROVE  storage[x][p] = want'[x][p]
    BY <1>4 DEF StableOnDevice
  <2>2. storage[x][p] = want[x][p]
    BY DEF StableOnDevice
  <2>3. p \in Positions /\ (x = b => p < o)
    BY <1>1, Constants DEF TypeOK, Lengths, Control, Positions
  <2>4. QED
    BY <1>11, <2>2, <2>3
<1>13. FlushedOnDevice'
  <2>1. SUFFICES ASSUME task.validate, NEW p \in Positions, p < offset
                 PROVE  storage[b][p] = want'[b][p]
    BY <1>1, <1>4, <1>5, Constants DEF FlushedOnDevice, Flushed
  <2>2. storage[b][p] = want[b][p]
    BY <1>1, <2>1, Constants DEF FlushedOnDevice, Flushed
  <2>3. p < o
    BY <1>1, <1>2, <2>1 DEF Positions
  <2>4. QED
    BY <1>1, <1>11, <2>2, <2>3
<1>14. SeenAgrees'
  <2>1. \A x \in Blocks : Seen(x)' = Seen(x)
    BY <1>1, <1>4, <1>5, Constants DEF Seen, Flushed
  <2>2. QED
    BY <1>4, <2>1 DEF SeenAgrees, Agrees
<1>15. ChecksDevice' /\ Running'
  BY <1>1, <1>4 DEF ChecksDevice, Running, Asking
<1>16. QED
  BY <1>7, <1>8, <1>9, <1>10, <1>12, <1>13, <1>14, <1>15

\* A write that does not find its place in write_cache finds write_cache
\* flushed.
LEMMA PrepareFinds ==
  ASSUME IInv, Prepare
  PROVE  /\ task.block \in Blocks /\ pc = "write" /\ left > 0 /\ then = "write"
         /\ end[task.block] \in 0..BlockSize /\ stable[task.block] <= end[task.block]
         /\ write_cache.block = NoBlock
<1> USE DEF IInv
<1> DEFINE b == task.block
           o == end[b]
<1>1. /\ b \in Blocks /\ pc = "write" /\ left > 0 /\ then = "write"
      /\ o \in 0..BlockSize /\ stable[b] <= o
  BY DEF Prepare, TypeOK, Control, Busy, Asking, TaskRecord, Block, Lengths
<1>2. write_cache.block = NoBlock
  <2>1. SUFFICES ASSUME write_cache.block # NoBlock PROVE FALSE
    OBVIOUS
  <2>2. /\ write_cache.block = b /\ write_cache.offset + write_cache.size = o
        /\ write_cache.size < CacheSize
    BY <1>1, <2>1 DEF Pending
  <2>3. write_cache.offset \in Nat /\ write_cache.size \in Nat
    BY Constants DEF TypeOK, Cache
  <2>4. Fits
    BY <1>1, <2>2, <2>3, Constants DEF Fits
  <2>5. QED
    BY <2>4 DEF Prepare
<1>3. QED
  BY <1>1, <1>2

LEMMA Prepares ==
  ASSUME IInv, Prepare
  PROVE  IInv'
<1> USE DEF IInv
<1> DEFINE b == task.block
           o == end[b]
<1>1. /\ b \in Blocks /\ pc = "write" /\ left > 0 /\ then = "write"
      /\ o \in 0..BlockSize /\ stable[b] <= o
  BY PrepareFinds
<1>2. write_cache.block = NoBlock
  BY PrepareFinds
<1>3. o % WriteSize = 0 /\ programmed[b] <= o
  BY <1>1, <1>2 DEF Appendable, Busy
<1>4. lfs_aligndown(o, WriteSize) = o
  <2>1. o \in Nat /\ WriteSize \in Nat \ {0}
    BY <1>1, Constants
  <2>2. QED
    BY <1>3, <2>1, AlignDown
<1>5. /\ write_cache' = [write_cache EXCEPT !.block = b, !.size = 0, !.offset = o]
      /\ UNCHANGED <<storage, programmed, read_cache, unloaded, task, left, rd, pc, then, want, end, stable, sealed>>
  BY <1>2, <1>4 DEF Prepare, device, history
<1>6. write_cache'.block = b /\ write_cache'.size = 0 /\ write_cache'.offset = o
  BY <1>5 DEF TypeOK, Cache
<1>7. TypeOK'
  <2>1. write_cache' \in Cache
    <3>1. o + 0 <= BlockSize /\ 0 \in 0..CacheSize /\ b \in Block
      BY <1>1, Constants DEF Block
    <3>2. QED
      BY <1>1, <1>5, <3>1 DEF TypeOK, Cache
  <2>2. QED
    BY <1>5, <2>1 DEF TypeOK
<1>8. Control'
  BY <1>1, <1>5, <1>6 DEF Control, Busy, Asking
<1>9. Appendable'
  BY <1>1, <1>5, <1>6, Constants DEF Appendable, Busy
<1>10. Pending'
  <2>1. o \in Nat /\ o + 0 = o /\ 0 < CacheSize
    BY <1>1, Constants
  <2>2. \A p \in Positions : ~(o <= p /\ p < o)
    BY <2>1 DEF Positions
  <2>3. QED
    BY <1>1, <1>3, <1>5, <1>6, <2>1, <2>2 DEF Pending, Asking
<1>11. StableOnDevice'
  BY <1>5 DEF StableOnDevice
<1>12. FlushedOnDevice'
  BY <1>1, <1>2, <1>5, <1>6, Constants DEF FlushedOnDevice, Flushed
<1>13. SeenAgrees'
  <2>1. \A x \in Blocks : Seen(x)' = Seen(x)
    BY <1>1, <1>2, <1>5, <1>6, Constants DEF Seen, Flushed
  <2>2. QED
    BY <1>5, <2>1 DEF SeenAgrees, Agrees
<1>14. ChecksDevice' /\ Running'
  BY <1>1, <1>5 DEF ChecksDevice, Running, Asking
<1>15. QED
  BY <1>7, <1>8, <1>9, <1>10, <1>11, <1>12, <1>13, <1>14

LEMMA BeginFinish ==
  ASSUME IInv, Finish
  PROVE  IInv'
<1> USE DEF IInv, Finish, device, history
<1>1. Busy
  BY DEF Control
<1>2. TypeOK'
  BY Nothing DEF TypeOK
<1>3. Control'
  BY <1>1 DEF Control, Busy, Asking
<1>4. Appendable'
  BY <1>1 DEF Appendable, Control, Asking, Busy
<1>5. Pending'
  BY DEF Pending, Asking, Programmed
<1>6. StableOnDevice' /\ FlushedOnDevice'
  BY DEF StableOnDevice, FlushedOnDevice, Flushed
<1>7. SeenAgrees'
  BY Constants DEF SeenAgrees, Agrees, Seen, Flushed, NoCache
<1>8. ChecksDevice' /\ Running'
  BY DEF ChecksDevice, Running, Asking, NoCache
<1>9. QED
  BY <1>2, <1>3, <1>4, <1>5, <1>6, <1>7, <1>8

LEMMA FlushesNothing ==
  ASSUME IInv, FlushNothing
  PROVE  IInv'
<1> USE DEF IInv, FlushNothing, device, history
<1>1. TypeOK'
  BY DEF TypeOK
<1>2. Control'
  BY DEF Control, Busy, Asking, TypeOK
<1>3. Appendable' /\ Pending'
  BY DEF Appendable, Busy, Pending
<1>4. StableOnDevice' /\ FlushedOnDevice' /\ SeenAgrees'
  BY DEF StableOnDevice, FlushedOnDevice, SeenAgrees, Agrees, Seen, Flushed
<1>5. ChecksDevice'
  BY Constants DEF ChecksDevice, Agrees, Asking, TypeOK, Control, Busy
<1>6. Running'
  BY DEF Running, Asking, TypeOK
<1>7. QED
  BY <1>1, <1>2, <1>3, <1>4, <1>5, <1>6

\* What is loaded lies in the block and fits the cache.
LEMMA LoadFits ==
  ASSUME IInv, Reading
  PROVE  /\ LoadFrom \in 0..BlockSize /\ LoadSize \in 0..CacheSize
         /\ LoadFrom + LoadSize <= BlockSize
<1> USE DEF IInv
<1> DEFINE upto == lfs_alignup(rd.at + rd.hint, ReadSize)
<1>1. rd.at \in 0..BlockSize /\ rd.hint \in Nat
  BY DEF TypeOK, ReadRecord
<1>2. LoadFrom \in 0..rd.at
  <2>1. rd.at \in Nat /\ ReadSize \in Nat \ {0}
    BY <1>1, Constants
  <2>2. QED
    BY <2>1, AlignDown DEF LoadFrom
<1>3. upto \in Nat /\ rd.at <= upto
  <2>1. rd.at + rd.hint \in Nat /\ rd.at <= rd.at + rd.hint
    BY <1>1, Constants
  <2>2. upto \in Nat /\ rd.at + rd.hint <= upto
    BY <2>1, AlignUp, Constants
  <2>3. QED
    BY <1>1, <2>1, <2>2, Constants
<1>4. LoadSize = Least(Least(upto, BlockSize) - LoadFrom, CacheSize)
  BY DEF LoadSize
<1> HIDE DEF upto
<1>5. QED
  BY <1>1, <1>2, <1>3, <1>4, Constants DEF Least

\* Where a load sets read_cache to, whatever the buffer has then; and what the
\* cache has when the device has filled the buffer.
LEMMA SetCache ==
  ASSUME IInv, Reading, rd.block \in Blocks, UNCHANGED storage,
         \/ read_cache' = SetTo(Filled) /\ unloaded' = FALSE
         \/ /\ read_cache' \in {SetTo(NoCache.buffer), SetTo(Filled)}
            /\ unloaded' = (read_cache'.buffer # Filled)
  PROVE  /\ read_cache' \in Cache /\ unloaded' \in BOOLEAN
         /\ ~unloaded' => \A x, n : Agrees(x, n)'
<1> USE DEF IInv
<1> DEFINE from == LoadFrom
           size == LoadSize
<1>1. from \in Nat /\ size \in Nat /\ size <= CacheSize /\ from \in 0..BlockSize
      /\ from + size <= BlockSize /\ size \in 0..CacheSize
  BY LoadFits, Constants
<1>2. \A p \in Positions : from <= p /\ p < from + size => Filled[p - from] = storage[rd.block][p]
  <2>1. SUFFICES ASSUME NEW p \in Positions, from <= p, p < from + size
                 PROVE  Filled[p - from] = storage[rd.block][p]
    OBVIOUS
  <2>2. p - from \in 0..(CacheSize - 1) /\ p - from < size /\ from + (p - from) = p
    BY <1>1, <2>1, Constants DEF Positions
  <2>3. QED
    BY <2>2 DEF Filled
<1>3. Filled \in [0..(CacheSize - 1) -> Bytes]
  <2>1. SUFFICES ASSUME NEW i \in 0..(CacheSize - 1), i < size
                 PROVE  storage[rd.block][from + i] \in Bytes
    BY DEF Bytes, Filled
  <2>2. from + i \in Positions
    BY <1>1, <2>1, Constants DEF Positions
  <2>3. QED
    BY <2>2 DEF TypeOK, Contents
<1>4. NoCache.buffer \in [0..(CacheSize - 1) -> Bytes]
  BY DEF NoCache, Bytes
<1>5. PICK buffer \in [0..(CacheSize - 1) -> Bytes] :
        /\ read_cache' = [block |-> rd.block, offset |-> from, size |-> size, buffer |-> buffer]
        /\ ~unloaded' => buffer = Filled
        /\ unloaded' \in BOOLEAN
  <2>1. CASE read_cache' = SetTo(Filled) /\ unloaded' \in BOOLEAN
    BY <1>3, <2>1 DEF SetTo
  <2>2. CASE read_cache' = SetTo(NoCache.buffer) /\ unloaded' = (NoCache.buffer # Filled)
    BY <1>4, <2>2 DEF SetTo
  <2>3. SetTo(Filled).buffer = Filled /\ SetTo(NoCache.buffer).buffer = NoCache.buffer
    BY DEF SetTo
  <2>4. QED
    BY <2>1, <2>2, <2>3
<1> HIDE DEF from, size
<1>6. read_cache' \in Cache
  BY <1>1, <1>5 DEF Cache, Block
<1>7. ASSUME ~unloaded', NEW x, NEW n PROVE Agrees(x, n)'
  BY <1>2, <1>5, <1>7 DEF Agrees
<1>8. QED
  BY <1>5, <1>6, <1>7

LEMMA Loads ==
  ASSUME IInv, LoadTurn
  PROVE  IInv'
<1> USE DEF IInv
<1>1. rd.block \in Blocks /\ pc = "read" /\ Reading
  BY DEF LoadTurn, Reading, TypeOK, ReadRecord, Running, Control, Busy, Asking
<1>2. UNCHANGED <<storage, programmed, write_cache, task, left, rd, pc, then, want, end, stable, sealed>>
  BY DEF LoadTurn, device, history
<1>3. read_cache' \in Cache /\ unloaded' \in BOOLEAN /\ \A x, n : Agrees(x, n)'
  BY <1>1, <1>2, SetCache DEF LoadTurn
<1>4. TypeOK'
  BY <1>2, <1>3 DEF TypeOK
<1>5. Control' /\ Appendable' /\ Pending'
  BY <1>2 DEF Control, Appendable, Pending, Busy, Asking, Programmed
<1>6. StableOnDevice' /\ FlushedOnDevice'
  BY <1>2 DEF StableOnDevice, FlushedOnDevice, Flushed
<1>7. SeenAgrees'
  BY <1>3 DEF SeenAgrees
<1>8. ChecksDevice'
  BY <1>1, <1>2, <1>3 DEF ChecksDevice
<1>9. Running'
  BY <1>2 DEF Running, Asking, Readable, Programmed
<1>10. QED
  BY <1>4, <1>5, <1>6, <1>7, <1>8, <1>9

\* No turn of a read leaves the block.
LEMMA TurnFits ==
  ASSUME IInv, Reading
  PROVE  /\ Count \in 0..rd.left /\ rd.at \in 0..BlockSize /\ rd.left \in 0..BlockSize
         /\ rd.at + rd.left <= BlockSize
<1> USE DEF IInv
<1>1. pc = "read"
  BY DEF Reading
<1>2. Count \in 0..rd.left /\ rd.at \in 0..BlockSize /\ rd.left \in 0..BlockSize
  BY Turn DEF TypeOK, ReadRecord
<1>3. rd.at + rd.left <= BlockSize
  <2>1. CASE rd.why = "caller"
    <3>1. rd.block \in Blocks /\ rd.at + rd.left <= Readable(rd.block, rd.through)
      BY <1>1, <2>1 DEF Running, Asking
    <3>2. Readable(rd.block, rd.through) \in 0..BlockSize
      BY <3>1, ReadableBound DEF TypeOK, ReadRecord
    <3>3. QED
      BY <1>2, <3>1, <3>2, Constants
  <2>2. CASE rd.why = "compare"
    <3>1. rd.at + rd.left <= write_cache.offset + Programmed /\ write_cache.block = task.block /\ Busy
      BY <1>1, <2>2 DEF Running, Control, Asking
    <3>2. write_cache.offset + Programmed <= BlockSize /\ Programmed \in Int /\ write_cache.offset \in Nat
      BY <3>1, ProgramFits, Constants DEF Busy, TypeOK, Cache
    <3>3. QED
      BY <1>2, <3>1, <3>2, Constants
  <2>3. CASE rd.why = "crc"
    <3>1. rd.at + rd.left <= end[task.block] /\ Busy
      BY <1>1, <2>3 DEF Running, Control, Asking
    <3>2. end[task.block] \in 0..BlockSize
      BY <3>1 DEF Busy, TypeOK, Lengths
    <3>3. QED
      BY <1>2, <3>1, <3>2, Constants
  <2>4. QED
    BY <2>1, <2>2, <2>3 DEF TypeOK, ReadRecord
<1>4. QED
  BY <1>2, <1>3

LEMMA Reads ==
  ASSUME IInv, CopyTurn
  PROVE  IInv'
<1> USE DEF IInv
<1> DEFINE turn == rd.at..(rd.at + Count - 1)
<1>1. Reading /\ pc = "read"
  BY DEF CopyTurn, Reading
<1>2. Count \in 0..rd.left /\ rd.at \in 0..BlockSize /\ rd.left \in 0..BlockSize
  BY <1>1, TurnFits
<1>3. rd.at + rd.left <= BlockSize
  BY <1>1, TurnFits
<1>4. UNCHANGED <<storage, programmed, write_cache, read_cache, unloaded, task, left, pc, then, want, end, stable, sealed>>
  BY DEF CopyTurn, device, history
<1>5. \/ rd' = rd
      \/ /\ rd' \in ReadRecord
         /\ rd'.at = rd.at + Count /\ rd'.left = rd.left - Count
         /\ rd'.block = rd.block /\ rd'.through = rd.through /\ rd'.why = rd.why
         /\ rd'.same => rd.same /\ \A p \in turn : ByteRead(p) = Compared(p)
  <2>1. rd.at + Count \in 0..BlockSize /\ rd.left - Count \in 0..BlockSize
    BY <1>2, <1>3, Constants
  <2>2. QED
    BY <2>1 DEF CopyTurn, TypeOK, ReadRecord
<1>6. ASSUME rd.why # "caller"
      PROVE  \A p \in turn : ByteRead(p) = storage[task.block][p]
  <2>1. rd.block = task.block /\ ~rd.through /\ Agrees(rd.block, BlockSize)
    BY <1>1, <1>6 DEF Running, ChecksDevice, Control, Asking, TypeOK, ReadRecord
  <2>2. Source # "write_cache"
    BY <2>1 DEF Source, InWrite
  <2>3. \A p \in turn : p < BlockSize
    BY <1>2, <1>3, Constants
  <2>4. QED
    BY <1>1, <2>1, <2>2, <2>3, ReadsDevice, Constants
<1>7. TypeOK'
  BY <1>4, <1>5 DEF TypeOK
<1>8. Control'
  BY <1>1, <1>4, <1>5 DEF Control, Busy, Asking
<1>9. Appendable'
  BY <1>4 DEF Appendable, Busy
<1>10. Pending'
  BY <1>4, <1>5 DEF Pending, Asking, Programmed
<1>11. StableOnDevice' /\ FlushedOnDevice' /\ SeenAgrees'
  BY <1>4 DEF StableOnDevice, FlushedOnDevice, SeenAgrees, Agrees, Seen, Flushed
<1>12. ChecksDevice'
  BY <1>4, <1>5 DEF ChecksDevice, Agrees, Asking
<1>13. Running'
  <2>1. CASE rd' = rd
    BY <1>4, <2>1 DEF Running, Asking, Readable, Programmed
  <2>2. CASE rd' # rd
    <3>1. rd'.at + rd'.left = rd.at + rd.left /\ rd.at <= rd'.at /\ rd'.at \in Nat
      BY <1>2, <1>5, <2>2, Constants
    <3>2. Asking("caller")' => /\ rd'.block \in Blocks
                               /\ (rd.at + rd.left <= Readable(rd.block, rd.through))'
                               /\ rd'.through => rd'.block = task.block
      BY <1>4, <1>5, <2>2, <3>1 DEF Running, Asking, Readable
    <3>3. ASSUME rd.why # "caller", rd'.same, NEW p \in Positions, rd.at <= p, p < rd'.at
          PROVE  storage[task.block][p] = Compared(p)
      <4>1. p \in turn
        BY <1>2, <1>5, <2>2, <3>3, Constants DEF Positions
      <4>2. QED
        BY <1>5, <1>6, <2>2, <3>3, <4>1
    <3>4. ASSUME Asking("compare")
          PROVE  /\ rd.block = task.block /\ ~rd.through
                 /\ write_cache.offset <= rd'.at /\ rd'.at + rd'.left <= write_cache.offset + Programmed
                 /\ rd'.same => \A p \in Positions : write_cache.offset <= p /\ p < rd'.at =>
                                  storage[task.block][p] = write_cache.buffer[p - write_cache.offset]
      <4>1. \A p : Compared(p) = write_cache.buffer[p - write_cache.offset]
        BY <3>4 DEF Compared, Asking
      <4>2. write_cache.offset \in Nat
        BY Constants DEF TypeOK, Cache
      <4>3. QED
        BY <1>2, <1>5, <2>2, <3>1, <3>3, <3>4, <4>1, <4>2 DEF Running, Asking, Positions
    <3>5. ASSUME Asking("crc")
          PROVE  /\ rd.block = task.block /\ ~rd.through
                 /\ stable[task.block] <= rd'.at /\ rd'.at + rd'.left <= end[task.block]
                 /\ rd'.same => \A p \in Positions : stable[task.block] <= p /\ p < rd'.at =>
                                  storage[task.block][p] = want[task.block][p]
      <4>1. \A p : Compared(p) = want[rd.block][p]
        BY <3>5 DEF Compared, Asking
      <4>2. task.block \in Blocks
        BY <3>5 DEF Control, Busy, Asking
      <4>3. stable[task.block] \in Nat
        BY <4>2, Constants DEF TypeOK, Lengths
      <4>4. QED
        BY <1>2, <1>5, <2>2, <3>1, <3>3, <3>5, <4>1, <4>3 DEF Running, Asking, Positions
    <3>6. QED
      BY <1>4, <1>5, <2>2, <3>2, <3>4, <3>5 DEF Running, Asking, Programmed
  <2>3. QED
    BY <2>1, <2>2
<1>14. QED
  BY <1>7, <1>8, <1>9, <1>10, <1>11, <1>12, <1>13

LEMMA ComparesNext ==
  ASSUME IInv, CompareNext
  PROVE  IInv'
<1> USE DEF IInv
<1> DEFINE top == write_cache.offset + Programmed
           more == write_cache.offset + Programmed - rd.at
<1>1. Asking("compare") /\ write_cache.block = task.block /\ task.block \in Blocks
  BY DEF CompareNext, Control, Busy, Asking
<1>2. top \in 0..BlockSize /\ rd.at \in Nat /\ more = top - rd.at
  <2>1. write_cache.offset \in Nat /\ Programmed \in Nat /\ top <= BlockSize /\ rd.at \in Nat
    BY <1>1, ProgramFits, Constants DEF TypeOK, Cache, ReadRecord
  <2>2. QED
    BY <2>1, Constants
<1>3. /\ rd' = [rd EXCEPT !.left = Least(more, CmpSize), !.hint = more]
      /\ UNCHANGED <<storage, programmed, write_cache, read_cache, unloaded, task, left, pc, then, want, end, stable, sealed>>
      /\ more > 0
  BY DEF CompareNext, device, history
<1> HIDE DEF top, more
<1>4. more \in 0..BlockSize /\ more \in Nat
  BY <1>2, <1>3, Constants
<1>5. Least(more, CmpSize) \in 0..BlockSize /\ rd.at + Least(more, CmpSize) <= top
  BY <1>2, <1>4, Constants DEF Least
<1>6. /\ rd' \in ReadRecord
      /\ rd'.left = Least(more, CmpSize)
      /\ rd'.block = rd.block /\ rd'.at = rd.at /\ rd'.through = rd.through
      /\ rd'.why = rd.why /\ rd'.same = rd.same
  BY <1>4, <1>5, <1>3 DEF TypeOK, ReadRecord
<1>7. TypeOK'
  BY <1>3, <1>6 DEF TypeOK
<1>8. Control'
  BY <1>1, <1>3, <1>6 DEF Control, Busy, Asking
<1>9. Appendable' /\ Pending'
  BY <1>3, <1>6 DEF Appendable, Busy, Pending, Asking, Programmed
<1>10. StableOnDevice' /\ FlushedOnDevice' /\ SeenAgrees'
  BY <1>3 DEF StableOnDevice, FlushedOnDevice, SeenAgrees, Agrees, Seen, Flushed
<1>11. ChecksDevice'
  BY <1>3, <1>6 DEF ChecksDevice, Agrees, Asking
<1>12. Running'
  BY <1>1, <1>5, <1>3, <1>6 DEF Running, Asking, Programmed, top
<1>13. QED
  BY <1>7, <1>8, <1>9, <1>10, <1>11, <1>12

LEMMA ComparedEqual ==
  ASSUME IInv, CompareEqual
  PROVE  IInv'
<1> USE DEF IInv
<1> DEFINE b == task.block
           o == write_cache.offset
<1>1. /\ Asking("compare") /\ rd.same /\ rd.at = o + Programmed
      /\ task.validate /\ write_cache.block = b /\ b \in Blocks
  BY DEF CompareEqual, Control, Busy, Asking
<1>2. write_cache.block # NoBlock
  BY <1>1, Constants
<1>3. /\ write_cache' = NoCache /\ rd' = NoRead /\ pc' = then
      /\ UNCHANGED <<storage, programmed, read_cache, unloaded, task, left, then, want, end, stable, sealed>>
  BY DEF CompareEqual, device, history
<1>4. /\ o \in Nat /\ write_cache.size \in 0..CacheSize /\ end[b] \in 0..BlockSize
      /\ Programmed \in Nat /\ write_cache.size <= Programmed
      /\ o + write_cache.size = end[b] /\ o % WriteSize = 0
      /\ programmed[b] <= o + Programmed /\ programmed[b] \in Nat
  BY <1>1, <1>2, ProgramFits, Constants DEF TypeOK, Cache, Lengths, Pending
<1>5. then = "write" => end[b] % WriteSize = 0 /\ programmed[b] <= end[b]
  <2>1. SUFFICES ASSUME then = "write"
                 PROVE  end[b] % WriteSize = 0 /\ programmed[b] <= end[b]
    OBVIOUS
  <2>2. write_cache.size = CacheSize
    BY <1>1, <1>2, <2>1 DEF Pending
  <2>3. end[b] % WriteSize = 0
    BY <1>4, <2>2, SumOfMultiples, Constants
  <2>4. o + Programmed = end[b]
    BY <1>2, <2>3, ProgramFits
  <2>5. QED
    BY <1>4, <2>3, <2>4
<1>6. \A p \in Positions : p < end[b] => storage[b][p] = want[b][p]
  <2>1. SUFFICES ASSUME NEW p \in Positions, p < end[b] PROVE storage[b][p] = want[b][p]
    OBVIOUS
  <2>2. CASE p < o
    BY <1>1, <1>2, <2>2 DEF FlushedOnDevice, Flushed
  <2>3. CASE o <= p
    <3>1. p < rd.at
      BY <1>1, <1>4, <2>1 DEF Positions
    <3>2. storage[b][p] = write_cache.buffer[p - o]
      BY <1>1, <2>3, <3>1 DEF Running
    <3>3. write_cache.buffer[p - o] = want[b][p]
      BY <1>2, <2>1, <2>3 DEF Pending
    <3>4. QED
      BY <3>2, <3>3
  <2>4. QED
    BY <1>4, <2>2, <2>3 DEF Positions
<1>7. NoCache.block = NoBlock /\ NoRead.why = "caller"
  BY DEF NoCache, NoRead
<1>8. TypeOK'
  BY <1>3, Nothing DEF TypeOK
<1>9. Control'
  BY <1>1, <1>3, <1>7 DEF Control, Busy, Asking, TypeOK
<1>10. Appendable'
  BY <1>1, <1>3, <1>5, <1>7 DEF Appendable, Busy, TypeOK
<1>11. Pending' /\ StableOnDevice'
  BY <1>3, <1>7 DEF Pending, StableOnDevice
<1>12. FlushedOnDevice'
  BY <1>3, <1>6, <1>7 DEF FlushedOnDevice, Flushed
<1>13. SeenAgrees'
  <2>1. Agrees(b, BlockSize)
    BY <1>1 DEF ChecksDevice
  <2>2. \A x \in Blocks : x # b => Seen(x)' = Seen(x)
    BY <1>3 DEF Seen
  <2>3. Agrees(b, end[b])
    BY <1>4, <2>1, Constants DEF Agrees, Positions
  <2>4. Seen(b)' = end[b]
    BY <1>1, <1>3, <1>7 DEF Seen, Flushed
  <2>5. QED
    BY <1>3, <2>2, <2>3, <2>4 DEF SeenAgrees, Agrees
<1>14. ChecksDevice' /\ Running'
  BY <1>1, <1>3 DEF ChecksDevice, Running, Asking, TypeOK
<1>15. QED
  BY <1>8, <1>9, <1>10, <1>11, <1>12, <1>13, <1>14

LEMMA ChecksCrc ==
  ASSUME IInv, CheckCrc
  PROVE  IInv'
<1> USE DEF IInv
<1> DEFINE b == task.block
           from == IF rd.why = "crc" THEN rd.at ELSE stable[b]
<1>1. /\ ~task.validate /\ then = "finish" /\ b \in Blocks
      /\ write_cache.block = NoBlock /\ left = 0
      /\ pc \in {"finish", "read"}
  BY DEF CheckCrc, Control, Busy, Asking
<1>2. /\ end[b] \in 0..BlockSize /\ from \in Nat /\ from < end[b] /\ stable[b] <= from /\ stable[b] \in Nat
      /\ \A p \in Positions : stable[b] <= p /\ p < from => storage[b][p] = want[b][p]
  <2>1. CASE pc = "finish"
    BY <1>1, <2>1, Constants DEF CheckCrc, Control, NoRead, TypeOK, Lengths, Positions
  <2>2. CASE Asking("crc") /\ rd.same
    BY <1>1, <2>2, Constants DEF CheckCrc, Running, Asking, TypeOK, Lengths, ReadRecord
  <2>3. QED
    BY <2>1, <2>2 DEF CheckCrc, Asking
<1>3. /\ rd' = [NoRead EXCEPT !.block = b, !.at = from, !.left = 1, !.hint = end[b] - from, !.why = "crc"]
      /\ pc' = "read"
      /\ UNCHANGED <<storage, programmed, write_cache, read_cache, unloaded, task, left, then, want, end, stable, sealed>>
  BY DEF CheckCrc, device, history
<1> HIDE DEF from
<1>4. /\ rd' \in ReadRecord
      /\ rd'.block = b /\ rd'.at = from /\ rd'.left = 1 /\ rd'.why = "crc" /\ ~rd'.through
  <2>1. from \in 0..BlockSize /\ 1 \in 0..BlockSize /\ end[b] - from \in Nat /\ b \in Block
    BY <1>1, <1>2, Constants DEF Block
  <2>2. QED
    BY <1>3, <2>1 DEF NoRead, ReadRecord
<1>5. TypeOK'
  BY <1>3, <1>4 DEF TypeOK
<1>6. Control'
  BY <1>1, <1>3, <1>4 DEF Control, Busy, Asking
<1>7. Appendable' /\ Pending'
  BY <1>1, <1>3 DEF Appendable, Busy, Pending
<1>8. StableOnDevice' /\ FlushedOnDevice' /\ SeenAgrees'
  BY <1>3 DEF StableOnDevice, FlushedOnDevice, SeenAgrees, Agrees, Seen, Flushed
<1>9. ChecksDevice'
  BY <1>1, <1>3, <1>4 DEF ChecksDevice, Agrees, Asking
<1>10. Running'
  BY <1>2, <1>3, <1>4 DEF Running, Asking
<1>11. QED
  BY <1>5, <1>6, <1>7, <1>8, <1>9, <1>10

LEMMA EndsTask ==
  ASSUME IInv, TaskOver
  PROVE  IInv'
<1> USE DEF IInv
<1> DEFINE b == task.block
<1>1. /\ then = "finish" /\ b \in Blocks /\ left = 0
      /\ write_cache.block = NoBlock /\ pc # "flush"
      /\ ~task.validate => Asking("crc") /\ rd.same /\ rd.at = end[b]
  BY DEF TaskOver, Control, Busy, Asking
<1>2. /\ stable' = [stable EXCEPT ![b] = end[b]]
      /\ sealed' = [sealed EXCEPT ![b] = task.validate]
      /\ task' = NoTask /\ rd' = NoRead /\ pc' = "idle" /\ then' = "write"
      /\ UNCHANGED <<storage, programmed, write_cache, read_cache, unloaded, left, want, end>>
  BY DEF TaskOver, device
<1>3. /\ stable'[b] = end[b] /\ sealed'[b] = task.validate
      /\ \A x \in Blocks : x # b => stable'[x] = stable[x] /\ sealed'[x] = sealed[x]
  BY <1>1, <1>2 DEF TypeOK, Lengths
<1>4. \A x \in Blocks : end[x] = stable'[x] /\ end[x] \in 0..BlockSize /\ stable[x] \in 0..BlockSize
  BY <1>1, <1>3 DEF Control, TypeOK, Lengths
<1>5. NoTask.block = NoBlock /\ ~NoTask.validate
  BY DEF NoTask
<1>6. TypeOK'
  <2>1. stable' \in Lengths /\ sealed' \in [Blocks -> BOOLEAN]
    BY <1>1, <1>2 DEF TypeOK, Lengths, TaskRecord
  <2>2. QED
    BY <1>2, <2>1, Nothing DEF TypeOK
<1>7. Control'
  <2>1. end = stable'
    BY <1>2, <1>4 DEF TypeOK, Lengths
  <2>2. QED
    BY <1>1, <1>2, <1>4, <1>5, <2>1, Constants DEF Control, Busy, Asking
<1>8. Appendable'
  <2>1. ~task.validate => end[b] % WriteSize = 0 /\ programmed[b] <= end[b]
    BY <1>1 DEF Appendable, Busy
  <2>2. QED
    BY <1>1, <1>2, <1>3, <1>5, <2>1, Constants DEF Appendable, Busy
<1>9. Pending' /\ FlushedOnDevice'
  BY <1>1, <1>2, <1>5 DEF Pending, FlushedOnDevice
<1>10. \A p \in Positions : p < end[b] => storage[b][p] = want[b][p]
  <2>1. CASE task.validate
    BY <1>1, <2>1 DEF FlushedOnDevice, Flushed
  <2>2. CASE ~task.validate
    <3>1. \A p \in Positions : stable[b] <= p /\ p < end[b] => storage[b][p] = want[b][p]
      BY <1>1, <2>2 DEF Running
    <3>2. \A p \in Positions : p < stable[b] => storage[b][p] = want[b][p]
      BY <1>1, <1>4, Constants DEF StableOnDevice, Positions
    <3>3. QED
      BY <1>1, <1>4, <3>1, <3>2, Constants DEF Positions
  <2>3. QED
    BY <2>1, <2>2
<1>11. StableOnDevice'
  <2>1. SUFFICES ASSUME NEW x \in Blocks, NEW p \in 0..(stable'[x] - 1)
                 PROVE  storage[x][p] = want[x][p]
    BY <1>2 DEF StableOnDevice
  <2>2. CASE x # b
    BY <1>3, <2>2 DEF StableOnDevice
  <2>3. CASE x = b
    <3>1. p \in Positions /\ p < end[b]
      BY <1>1, <1>3, <1>4, <2>3, Constants DEF Positions
    <3>2. QED
      BY <1>10, <2>3, <3>1
  <2>4. QED
    BY <2>2, <2>3
<1>12. SeenAgrees'
  <2> SUFFICES ASSUME ~unloaded PROVE SeenAgrees'
    BY <1>2 DEF SeenAgrees
  <2>1. \A x \in Blocks : Seen(x)' = end[x]
    BY <1>2, <1>4, <1>5, Constants DEF Seen
  <2>2. \A x \in Blocks : x # b => Agrees(x, end[x])
    BY <1>3, <1>4 DEF SeenAgrees, Seen
  <2>3. Agrees(b, end[b])
    <3>1. CASE task.validate
      BY <1>1, <3>1 DEF SeenAgrees, Seen, Flushed
    <3>2. CASE ~task.validate
      <4>1. Agrees(b, BlockSize)
        BY <1>1, <3>2 DEF ChecksDevice
      <4>2. QED
        BY <1>1, <1>4, <4>1, Constants DEF Agrees, Positions
    <3>3. QED
      BY <3>1, <3>2
  <2>4. QED
    BY <1>2, <2>1, <2>2, <2>3 DEF SeenAgrees, Agrees
<1>13. ChecksDevice' /\ Running'
  BY <1>2 DEF ChecksDevice, Running, Asking
<1>14. QED
  BY <1>6, <1>7, <1>8, <1>9, <1>11, <1>12, <1>13

LEMMA ProgramReaches ==
  ASSUME TypeOK, Pending, write_cache.block # NoBlock
  PROVE  Most(programmed[task.block], write_cache.offset + Programmed) \in 0..BlockSize
<1>1. task.block \in Blocks
  BY DEF TypeOK, Pending, Cache, Block
<1>2. programmed[task.block] \in 0..BlockSize
  BY <1>1 DEF TypeOK, Lengths
<1>3. write_cache.offset \in Nat /\ Programmed \in Nat /\ write_cache.offset + Programmed <= BlockSize
  BY ProgramFits, Constants DEF TypeOK, Cache
<1>4. QED
  BY <1>2, <1>3, Constants DEF Most

\* What a program leaves alone, whatever it does to the rest.
LEMMA PutKeeps ==
  ASSUME TypeOK, Pending, write_cache.block # NoBlock, NEW outcome, Put(outcome)
  PROVE  /\ storage' \in Contents
         /\ \A x \in Blocks : x # task.block => storage'[x] = storage[x]
         /\ \A p \in Positions : p < write_cache.offset => storage'[task.block][p] = storage[task.block][p]
<1> DEFINE b == task.block
           o == write_cache.offset
           Byte(p) == IF outcome = "silent" THEN Erased ELSE write_cache.buffer[p - o]
           bytes == [p \in Positions |-> IF p \in o..(o + Programmed - 1) THEN Byte(p) ELSE storage[b][p]]
<1>1. /\ write_cache.block = b /\ b \in Blocks /\ o \in Nat
      /\ write_cache.buffer \in [0..(CacheSize - 1) -> Bytes]
  BY Constants DEF TypeOK, Pending, Cache, Block
<1>2. Programmed \in 0..CacheSize /\ o + Programmed <= BlockSize
  BY ProgramFits, Constants DEF TypeOK, Cache
<1>3. storage' = [storage EXCEPT ![b] = bytes]
  BY <1>1 DEF Put
<1>4. bytes \in [Positions -> Bytes]
  <2>1. SUFFICES ASSUME NEW p \in Positions, p \in o..(o + Programmed - 1)
                 PROVE  Byte(p) \in Bytes
    BY <1>1 DEF TypeOK, Contents
  <2>2. p - o \in 0..(CacheSize - 1)
    BY <1>1, <1>2, <2>1, Constants
  <2>3. QED
    BY <1>1, <2>2 DEF Bytes
<1>5. \A p \in Positions : p < o => bytes[p] = storage[b][p]
  BY <1>1 DEF Positions
<1> HIDE DEF bytes
<1>6. QED
  BY <1>1, <1>3, <1>4, <1>5 DEF TypeOK, Contents

LEMMA Programs ==
  ASSUME IInv, NEW outcome \in {"done", "silent"}, Program(outcome)
  PROVE  IInv'
<1> USE DEF IInv
<1> DEFINE b == task.block
           o == write_cache.offset
           n == Programmed
           top == Most(programmed[b], o + n)
<1>1. /\ pc = "flush" /\ write_cache.block # NoBlock /\ write_cache.block = b /\ b \in Blocks
      /\ Put(outcome)
  BY DEF Program, Pending, TypeOK, Cache, Block
<1>2. /\ o \in Nat /\ n \in Nat /\ o + n <= BlockSize /\ o % WriteSize = 0
      /\ write_cache.size \in 0..CacheSize /\ write_cache.size <= n
      /\ o + write_cache.size = end[b] /\ end[b] \in 0..BlockSize
      /\ stable[b] \in Nat /\ stable[b] <= o
      /\ programmed[b] \in Nat /\ programmed[b] <= o
  BY <1>1, ProgramFits, Constants DEF TypeOK, Cache, Lengths, Pending, Asking
<1>3. /\ storage' \in Contents
      /\ \A x \in Blocks : x # b => storage'[x] = storage[x]
      /\ \A p \in Positions : p < o => storage'[b][p] = storage[b][p]
      /\ top \in 0..BlockSize
  BY <1>1, PutKeeps, ProgramReaches
<1>4. /\ programmed' = [programmed EXCEPT ![b] = top]
      /\ UNCHANGED <<task, left, then, want, end, stable, sealed>>
  BY <1>1 DEF Program, history
<1>5. top = o + n
  BY <1>2 DEF Most
<1>6. /\ programmed'[b] = o + n
      /\ \A x \in Blocks : x # b => programmed'[x] = programmed[x]
  BY <1>1, <1>4, <1>5 DEF TypeOK, Lengths
<1>7. NoCache.block = NoBlock /\ NoRead.why = "caller"
  BY DEF NoCache, NoRead
<1>8. StableOnDevice'
  <2>1. SUFFICES ASSUME NEW x \in Blocks, NEW p \in 0..(stable[x] - 1)
                 PROVE  storage'[x][p] = want[x][p]
    BY <1>4 DEF StableOnDevice
  <2>2. storage[x][p] = want[x][p]
    BY DEF StableOnDevice
  <2>3. p \in Positions
    BY Constants DEF Positions, TypeOK, Lengths
  <2>4. QED
    BY <1>2, <1>3, <2>2, <2>3
<1>9. \A x \in Blocks : ~sealed[x] =>
        stable[x] % WriteSize = 0 /\ (x # b => programmed'[x] <= stable[x])
  BY <1>6 DEF Appendable
<1>10. CASE task.validate
  <2>1. /\ read_cache' = NoCache /\ unloaded' = FALSE /\ write_cache' = write_cache /\ pc' = "read"
        /\ rd' = [NoRead EXCEPT !.block = b, !.at = o, !.left = Least(n, CmpSize), !.hint = n, !.why = "compare"]
    BY <1>1, <1>10 DEF Program
  <2>2. Least(n, CmpSize) \in 0..BlockSize /\ o + Least(n, CmpSize) <= o + n
    BY <1>2, Constants DEF Least
  <2>3. /\ rd' \in ReadRecord
        /\ rd'.block = b /\ rd'.at = o /\ rd'.left = Least(n, CmpSize) /\ rd'.why = "compare" /\ ~rd'.through
    <3>1. o \in 0..BlockSize /\ b \in Block
      BY <1>1, <1>2, Constants DEF Block
    <3>2. QED
      BY <1>2, <2>1, <2>2, <3>1 DEF NoRead, ReadRecord
  <2>4. Programmed' = n
    BY <2>1 DEF Programmed
  <2> HIDE DEF n, top
  <2>5. TypeOK'
    <3>1. programmed' \in Lengths
      BY <1>3, <1>4 DEF TypeOK, Lengths
    <3>2. QED
      BY <1>3, <1>4, <2>1, <2>3, <3>1, Nothing DEF TypeOK
  <2>6. Control'
    BY <1>1, <1>4, <1>10, <2>1, <2>3 DEF Control, Busy, Asking
  <2>7. Appendable'
    BY <1>1, <1>4, <1>9, <1>10, <2>1 DEF Appendable, Busy
  <2>8. Pending'
    BY <1>1, <1>2, <1>4, <1>6, <2>1, <2>3, <2>4 DEF Pending, Asking
  <2>9. FlushedOnDevice'
    BY <1>1, <1>3, <1>4, <2>1 DEF FlushedOnDevice, Flushed
  <2>10. \A x \in Blocks : \A m : Agrees(x, m)'
    BY <1>7, <2>1, Constants DEF Agrees
  <2>11. SeenAgrees' /\ ChecksDevice'
    BY <1>1, <1>4, <1>10, <2>1, <2>10 DEF SeenAgrees, ChecksDevice
  <2>12. Running'
    BY <1>1, <1>2, <1>4, <2>1, <2>2, <2>3, <2>4, Constants DEF Running, Asking, Positions
  <2>13. QED
    BY <1>8, <2>5, <2>6, <2>7, <2>8, <2>9, <2>11, <2>12
<1>11. CASE ~task.validate
  <2>1. write_cache' = NoCache /\ pc' = then /\ UNCHANGED <<read_cache, unloaded, rd>>
    BY <1>11 DEF Program
  <2>2. end[b] % WriteSize = 0
    <3>1. CASE then = "write"
      <4>1. write_cache.size = CacheSize
        BY <1>1, <3>1 DEF Pending
      <4>2. QED
        BY <1>2, <4>1, SumOfMultiples, Constants
    <3>2. CASE then = "finish"
      BY <1>11, <3>2 DEF Appendable
    <3>3. QED
      BY <3>1, <3>2 DEF TypeOK
  <2>3. o + n = end[b]
    BY <1>1, <2>2, ProgramFits
  <2> HIDE DEF n, top
  <2>4. rd = NoRead
    BY <1>1 DEF Control
  <2>5. TypeOK'
    <3>1. programmed' \in Lengths
      BY <1>3, <1>4 DEF TypeOK, Lengths
    <3>2. QED
      BY <1>3, <1>4, <2>1, <3>1, Nothing DEF TypeOK
  <2>6. Control'
    BY <1>1, <1>4, <1>7, <2>1 DEF Control, Busy, Asking, TypeOK
  <2>7. Appendable'
    BY <1>1, <1>2, <1>4, <1>6, <1>9, <2>1, <2>2, <2>3 DEF Appendable, Busy
  <2>8. Pending' /\ FlushedOnDevice'
    BY <1>4, <1>7, <1>11, <2>1 DEF Pending, FlushedOnDevice
  <2>9. SeenAgrees'
    <3>1. SUFFICES ASSUME ~unloaded, NEW x \in Blocks, read_cache.block = x, NEW p \in Positions,
                          read_cache.offset <= p, p < read_cache.offset + read_cache.size, p < stable[x]
                   PROVE  read_cache.buffer[p - read_cache.offset] = storage'[x][p]
      BY <1>4, <1>11, <2>1 DEF SeenAgrees, Agrees, Seen
    <3>2. read_cache.buffer[p - read_cache.offset] = storage[x][p]
      BY <1>11, <3>1 DEF SeenAgrees, Agrees, Seen
    <3>3. QED
      BY <1>2, <1>3, <3>1, <3>2 DEF Positions
  <2>10. ChecksDevice'
    BY <1>1, <1>4, <1>11, <2>1, Constants DEF ChecksDevice, Agrees, Asking, TypeOK
  <2>11. Running'
    BY <2>1 DEF Running, Asking, TypeOK
  <2>12. QED
    BY <1>8, <2>5, <2>6, <2>7, <2>8, <2>9, <2>10, <2>11
<1>12. QED
  BY <1>10, <1>11

\* A task that ends with an error leaves what was there before it.
LEMMA Fails ==
  ASSUME IInv, Busy, Fail("corrupt"), UNCHANGED stable,
         \/ UNCHANGED <<read_cache, unloaded>>
         \/ /\ read_cache' \in Cache /\ unloaded' \in BOOLEAN
            /\ ~unloaded' => \A x, n : Agrees(x, n)',
         storage' \in Contents, programmed' \in Lengths,
         \A x \in Blocks : x # task.block => storage'[x] = storage[x] /\ programmed'[x] = programmed[x],
         \A p \in Positions : p < stable[task.block] => storage'[task.block][p] = storage[task.block][p]
  PROVE  IInv'
<1> USE DEF IInv
<1> DEFINE b == task.block
<1>1. b \in Blocks
  BY DEF Busy
<1>2. /\ write_cache' = NoCache /\ task' = NoTask /\ left' = 0 /\ rd' = NoRead
      /\ pc' = "idle" /\ then' = "write"
      /\ end' = [end EXCEPT ![b] = stable[b]]
      /\ want' = [want EXCEPT ![b] = [p \in Positions |-> IF p < stable[b] THEN want[b][p] ELSE Erased]]
      /\ sealed' = [sealed EXCEPT ![b] = TRUE]
  BY DEF Fail
<1>3. /\ \A x \in Blocks : end'[x] = stable[x] /\ stable[x] \in 0..BlockSize
      /\ sealed'[b] /\ \A x \in Blocks : x # b => sealed'[x] = sealed[x]
      /\ \A x \in Blocks, p \in Positions : p < stable[x] => want'[x][p] = want[x][p]
  BY <1>1, <1>2 DEF TypeOK, Lengths, Contents, Control
<1>4. NoCache.block = NoBlock /\ NoTask.block = NoBlock /\ ~NoTask.validate
  BY DEF NoCache, NoTask
<1>5. TypeOK'
  <2>1. end' \in Lengths /\ sealed' \in [Blocks -> BOOLEAN]
    BY <1>1, <1>2 DEF TypeOK, Lengths
  <2>2. want' \in Contents
    BY <1>1, <1>2 DEF TypeOK, Contents, Bytes
  <2>3. QED
    BY <1>2, <2>1, <2>2, Nothing DEF TypeOK
<1>6. end' = stable
  BY <1>3, <1>5 DEF TypeOK, Lengths
<1>7. Control'
  BY <1>2, <1>3, <1>4, <1>6, Constants DEF Control, Busy, Asking
<1>8. Appendable'
  BY <1>1, <1>2, <1>3, <1>4, Constants DEF Appendable, Busy
<1>9. Pending' /\ FlushedOnDevice'
  BY <1>2, <1>4 DEF Pending, FlushedOnDevice
<1>10. \A x \in Blocks, p \in Positions : p < stable[x] => storage'[x][p] = storage[x][p]
  OBVIOUS
<1>11. StableOnDevice'
  <2>1. SUFFICES ASSUME NEW x \in Blocks, NEW p \in 0..(stable[x] - 1)
                 PROVE  storage'[x][p] = want'[x][p]
    BY DEF StableOnDevice
  <2>2. p \in Positions /\ p < stable[x]
    BY <1>3, Constants DEF Positions
  <2>3. storage[x][p] = want[x][p]
    BY DEF StableOnDevice
  <2>4. QED
    BY <1>3, <1>10, <2>2, <2>3
<1>12. SeenAgrees'
  <2>1. SUFFICES ASSUME UNCHANGED <<read_cache, unloaded>>, ~unloaded,
                        NEW x \in Blocks, read_cache.block = x, NEW p \in Positions,
                        read_cache.offset <= p, p < read_cache.offset + read_cache.size, p < stable[x]
                 PROVE  read_cache.buffer[p - read_cache.offset] = storage'[x][p]
    BY <1>2, <1>4, Constants DEF SeenAgrees, Agrees, Seen
  <2>2. stable[x] <= Seen(x) /\ Seen(x) \in Int
    <3>1. stable[x] <= Seen(x)
      BY StableSeen
    <3>2. Seen(x) \in Int
      BY Constants DEF Seen, Flushed, TypeOK, Lengths, Cache
    <3>3. QED
      BY <3>1, <3>2
  <2>3. p < Seen(x)
    BY <1>3, <2>1, <2>2 DEF Positions
  <2>4. read_cache.buffer[p - read_cache.offset] = storage[x][p]
    BY <2>1, <2>3 DEF SeenAgrees, Agrees
  <2>5. QED
    BY <1>10, <2>1, <2>4
<1>13. ChecksDevice' /\ Running'
  BY <1>2 DEF ChecksDevice, Running, Asking
<1>14. QED
  BY <1>5, <1>7, <1>8, <1>9, <1>11, <1>12, <1>13

LEMMA ProgramsBad ==
  ASSUME IInv, FailuresAreCorrupt, NEW code \in {"corrupt", "io"}, ProgramFails(code)
  PROVE  IInv'
<1> USE DEF IInv
<1>1. /\ code = "corrupt" /\ Fail("corrupt") /\ UNCHANGED <<read_cache, unloaded, stable>>
      /\ write_cache.block # NoBlock
      /\ storage' = storage \/ Put("corrupt")
      /\ programmed' = [programmed EXCEPT ![write_cache.block] =
                          Most(programmed[write_cache.block], write_cache.offset + Programmed)]
  BY DEF ProgramFails, FailuresAreCorrupt
<1>2. /\ write_cache.block = task.block /\ Busy /\ task.block \in Blocks
      /\ stable[task.block] \in Nat /\ write_cache.offset \in Nat /\ stable[task.block] <= write_cache.offset
  BY <1>1, Constants DEF Pending, TypeOK, Cache, Block, Busy, Lengths
<1>3. /\ storage' \in Contents
      /\ \A x \in Blocks : x # task.block => storage'[x] = storage[x]
      /\ \A p \in Positions : p < write_cache.offset => storage'[task.block][p] = storage[task.block][p]
  BY <1>1, PutKeeps DEF TypeOK
<1>4. Most(programmed[task.block], write_cache.offset + Programmed) \in 0..BlockSize
  BY <1>1, ProgramReaches
<1>5. /\ programmed' \in Lengths
      /\ \A x \in Blocks : x # task.block => programmed'[x] = programmed[x]
  BY <1>1, <1>2, <1>4 DEF TypeOK, Lengths
<1>6. \A p \in Positions : p < stable[task.block] => storage'[task.block][p] = storage[task.block][p]
  BY <1>2, <1>3 DEF Positions
<1>7. QED
  BY <1>1, <1>2, <1>3, <1>5, <1>6, Fails

LEMMA ReadsBack ==
  ASSUME IInv, ReadBackDiffers
  PROVE  IInv'
<1>1. Fail("corrupt") /\ UNCHANGED <<storage, programmed, read_cache, unloaded, stable>>
  BY DEF ReadBackDiffers, device
<1>2. Busy
  BY DEF ReadBackDiffers, IInv, Control, Asking
<1>3. storage' \in Contents /\ programmed' \in Lengths
  BY <1>1 DEF IInv, TypeOK
<1>4. QED
  BY <1>1, <1>2, <1>3, Fails

\* A read ends with an error of the device.
LEMMA ReadsFail ==
  ASSUME IInv, FailuresAreCorrupt, NEW code \in {"corrupt", "io"}, ReadFails(code)
  PROVE  IInv'
<1>1. rd.block \in Blocks /\ pc = "read" /\ Reading /\ code = "corrupt"
  BY DEF ReadFails, Reading, IInv, TypeOK, ReadRecord, Running, Control, Busy, Asking, FailuresAreCorrupt
<1>2. UNCHANGED <<storage, programmed, stable>>
  BY DEF ReadFails, device
<1>3. \/ UNCHANGED <<read_cache, unloaded>>
      \/ /\ read_cache' \in Cache /\ unloaded' \in BOOLEAN
         /\ ~unloaded' => \A x, n : Agrees(x, n)'
  BY <1>1, <1>2, SetCache DEF ReadFails
<1>4. CASE task # NoTask /\ Fail(code)
  <2>1. Busy
    BY <1>4 DEF IInv, Control
  <2>2. storage' \in Contents /\ programmed' \in Lengths
    BY <1>2 DEF IInv, TypeOK
  <2>3. QED
    BY <1>1, <1>2, <1>3, <1>4, <2>1, <2>2, Fails
<1>5. CASE /\ rd.why = "caller" /\ rd' = NoRead /\ pc' = "idle"
           /\ UNCHANGED <<write_cache, task, left, then, end, want, sealed>>
  <2> USE DEF IInv
  <2>1. Asking("caller")
    BY <1>1, <1>5 DEF Asking
  <2>2. TypeOK'
    BY <1>2, <1>3, <1>5, Nothing DEF TypeOK
  <2>3. Control' /\ Appendable' /\ Pending'
    BY <1>2, <1>5, <2>1 DEF Control, Appendable, Pending, Busy, Asking, Programmed
  <2>4. StableOnDevice' /\ FlushedOnDevice'
    BY <1>2, <1>5 DEF StableOnDevice, FlushedOnDevice, Flushed
  <2>5. SeenAgrees'
    BY <1>2, <1>3, <1>5 DEF SeenAgrees, Agrees, Seen, Flushed
  <2>6. ChecksDevice' /\ Running'
    BY <1>5, <2>1 DEF ChecksDevice, Running, Asking, Control
  <2>7. QED
    BY <2>2, <2>3, <2>4, <2>5, <2>6
<1>6. QED
  BY <1>4, <1>5 DEF ReadFails

LEMMA Restarts ==
  ASSUME IInv, Restart
  PROVE  IInv'
<1> USE DEF IInv
<1>1. /\ write_cache' = NoCache /\ read_cache' = NoCache /\ unloaded' = FALSE /\ task' = NoTask /\ left' = 0 /\ rd' = NoRead
      /\ pc' = "idle" /\ then' = "write" /\ end' = stable
      /\ want' = [c \in Blocks |-> [p \in Positions |-> IF p < stable[c] THEN want[c][p] ELSE Erased]]
      /\ sealed' = [c \in Blocks |-> sealed[c] \/ c = task.block]
      /\ UNCHANGED <<storage, programmed, stable>>
  BY DEF Restart, device
<1>2. NoCache.block = NoBlock /\ NoTask.block = NoBlock /\ ~NoTask.validate
  BY DEF NoCache, NoTask
<1>3. TypeOK'
  <2>1. want' \in Contents
    BY <1>1 DEF TypeOK, Contents, Bytes
  <2>2. sealed' \in [Blocks -> BOOLEAN]
    BY <1>1 DEF TypeOK
  <2>3. QED
    BY <1>1, <2>1, <2>2, Nothing DEF TypeOK
<1>4. Control'
  BY <1>1, <1>2, <1>3, Constants DEF Control, Busy, Asking, TypeOK, Lengths
<1>5. Appendable'
  BY <1>1, <1>2, Constants DEF Appendable, Busy
<1>6. Pending' /\ FlushedOnDevice' /\ SeenAgrees'
  BY <1>1, <1>2, Constants DEF Pending, FlushedOnDevice, SeenAgrees, Agrees
<1>7. StableOnDevice'
  <2>1. SUFFICES ASSUME NEW x \in Blocks, NEW p \in 0..(stable[x] - 1)
                 PROVE  storage[x][p] = want'[x][p]
    BY <1>1 DEF StableOnDevice
  <2>2. p \in Positions /\ p < stable[x]
    BY Constants DEF Positions, TypeOK, Lengths
  <2>3. storage[x][p] = want[x][p]
    BY DEF StableOnDevice
  <2>4. QED
    BY <1>1, <2>2, <2>3
<1>8. ChecksDevice' /\ Running'
  BY <1>1 DEF ChecksDevice, Running, Asking
<1>9. QED
  BY <1>3, <1>4, <1>5, <1>6, <1>7, <1>8

LEMMA NextInvariant ==
  ASSUME FailuresAreCorrupt, IInv, [Next]_vars
  PROVE  IInv'
<1>1. ASSUME NEW b \in Blocks, NEW v \in Values, AppendTo(b, v)
      PROVE  IInv'
  BY <1>1, BeginAppend
<1>2. ASSUME NEW b \in Blocks, NEW v \in Values, NEW validate \in BOOLEAN, Erase(b, validate, v)
      PROVE  IInv'
  BY <1>2, BeginErase
<1>3. ASSUME NEW b \in Blocks, NEW o \in Positions, NEW n \in Sizes, NEW h \in Hints, NEW t \in BOOLEAN,
             lfs_bd_read(b, o, n, h, t)
      PROVE  IInv'
  BY <1>3, BeginRead
<1>4. ASSUME NEW n \in Sizes, lfs_bd_write(n)
      PROVE  IInv'
  BY <1>4, BeginWrite
<1>5. ASSUME NEW outcome \in {"done", "silent"}, Program(outcome)
      PROVE  IInv'
  BY <1>5, Programs
<1>6. ASSUME NEW code \in {"corrupt", "io"}, ProgramFails(code)
      PROVE  IInv'
  BY <1>6, ProgramsBad
<1>10. ASSUME NEW code \in {"corrupt", "io"}, ReadFails(code)
      PROVE  IInv'
  BY <1>10, ReadsFail
<1>7. CASE \/ CopyTurn \/ LoadTurn \/ ReadReturns \/ CopyIn \/ Prepare \/ WriteReturns
           \/ Finish \/ FlushNothing \/ CompareNext \/ CompareEqual \/ ReadBackDiffers
           \/ CheckCrc \/ TaskOver \/ Restart
  BY <1>7, Reads, Loads, Returns, Copies, Prepares, BeginFinish, FlushesNothing, ComparesNext,
     ComparedEqual, ReadsBack, ChecksCrc, EndsTask, Restarts
<1>8. CASE UNCHANGED vars
  BY <1>8 DEF vars, device, history, IInv, TypeOK, Control, Appendable, Pending, StableOnDevice,
     FlushedOnDevice, SeenAgrees, ChecksDevice, Running, Busy, Asking, Flushed, Agrees, Seen,
     Readable, Programmed
<1>9. QED
  BY <1>1, <1>2, <1>3, <1>4, <1>5, <1>6, <1>7, <1>8, <1>10 DEF Next

\* The caches stay consistent with the device and with each other, through
\* failing and lying programs and restarts (lfs_bd_read, lfs_bd_write,
\* lfs_bd_flush).
THEOREM CachesConsistent ==
  ASSUME FailuresAreCorrupt
  PROVE  Spec => []IInv
<1>1. IInv /\ [Next]_vars => IInv'
  BY NextInvariant
<1>2. QED
  BY <1>1, InitInvariant, PTL DEF Spec

-----------------------------------------------------------------------------
(* What follows *)

\* The parts of the block a caller may read, and where they are.
LEMMA ReadsWritten ==
  ASSUME IInv, Reading, rd.why = "caller", Source = "read_cache" => ~unloaded,
         NEW p \in rd.at..(rd.at + Count - 1)
  PROVE  ByteRead(p) = want[rd.block][p]
<1> USE DEF IInv
<1> DEFINE b == rd.block
<1>1. /\ Asking("caller") /\ b \in Blocks
      /\ rd.at + rd.left <= Readable(b, rd.through)
      /\ rd.through => b = task.block
  BY DEF Reading, Asking, Running
<1>2. /\ Count \in 0..rd.left /\ rd.at \in Nat /\ rd.left \in Nat
      /\ Readable(b, rd.through) \in 0..BlockSize
  BY <1>1, Turn, ReadableBound, Constants DEF TypeOK, ReadRecord
<1>3. p \in Positions /\ p \in Nat /\ p < Readable(b, rd.through)
  BY <1>1, <1>2, Constants DEF Positions
<1>4. /\ stable[b] \in 0..BlockSize /\ end[b] \in 0..BlockSize /\ write_cache.offset \in 0..BlockSize
  BY <1>1 DEF TypeOK, Lengths, Cache
<1>5. CASE Source = "write_cache"
  <2>1. InWrite(p)
    BY <1>5, Turn
  <2>2. /\ write_cache.block = b /\ b = task.block /\ write_cache.block # NoBlock
        /\ write_cache.offset <= p /\ p < end[b]
    BY <1>1, <2>1, Constants DEF InWrite, Pending
  <2>3. write_cache.buffer[p - write_cache.offset] = want[b][p]
    BY <1>3, <2>2 DEF Pending
  <2>4. QED
    BY <1>5, <2>3 DEF ByteRead
<1>6. CASE Source # "write_cache"
  <2>1. ~InWrite(p)
    BY <1>6, Turn
  <2>2. p < Seen(b) /\ Seen(b) \in 0..BlockSize
    <3>1. CASE b # task.block \/ ~task.validate
      BY <1>3, <1>4, <3>1 DEF Readable, Seen
    <3>2. CASE b = task.block /\ task.validate
      <4>1. CASE write_cache.block = NoBlock
        <5>1. Readable(b, rd.through) = end[b]
          BY <1>1, <3>2, <4>1, Constants DEF Readable
        <5>2. QED
          BY <1>3, <1>4, <3>2, <4>1, <5>1 DEF Seen, Flushed
      <4>2. CASE write_cache.block # NoBlock
        <5>1. /\ write_cache.block = b
              /\ write_cache.offset + write_cache.size = end[b]
          BY <3>2, <4>2 DEF Pending
        <5>2. p < write_cache.offset
          <6>1. CASE rd.through
            <7>1. p < end[b]
              BY <1>3, <3>2, <6>1 DEF Readable
            <7>2. QED
              BY <1>3, <1>4, <2>1, <5>1, <6>1, <7>1 DEF InWrite
          <6>2. CASE ~rd.through
            BY <1>3, <1>4, <3>2, <5>1, <6>2 DEF Readable, Least
          <6>3. QED
            BY <6>1, <6>2
        <5>3. QED
          BY <1>4, <3>2, <4>2, <5>2 DEF Seen, Flushed
      <4>3. QED
        BY <4>1, <4>2
    <3>3. QED
      BY <3>1, <3>2
  <2>3. ~unloaded => Agrees(b, Seen(b))
    BY <1>1 DEF SeenAgrees
  <2>4. ByteRead(p) = storage[b][p]
    <3>1. CASE Source = "read_cache"
      BY <1>6, <2>2, <2>3, <3>1, ReadsDevice, Constants
    <3>2. CASE Source # "read_cache"
      BY <1>6, <3>2 DEF ByteRead
    <3>3. QED
      BY <3>1, <3>2
  <2>5. storage[b][p] = want[b][p]
    <3>1. CASE b = task.block /\ task.validate
      BY <1>3, <2>2, <3>1 DEF Seen, FlushedOnDevice
    <3>2. CASE ~(b = task.block /\ task.validate)
      BY <1>1, <1>3, <1>4, <2>2, <3>2 DEF Seen, StableOnDevice
    <3>3. QED
      BY <3>1, <3>2
  <2>6. QED
    BY <2>4, <2>5
<1>7. QED
  BY <1>5, <1>6

\* Wherever a read of a caller gets its bytes, they are the bytes written
\* last, unless it gets them from a read_cache that a failed load has set
\* (lfs_bd_read over both caches).
THEOREM AlwaysReadsSeeWrites ==
  ASSUME FailuresAreCorrupt
  PROVE  Spec => []ReadsSeeWrites
<1>1. IInv => ReadsSeeWrites
  BY ReadsWritten DEF ReadsSeeWrites
<1>2. QED
  BY <1>1, CachesConsistent, PTL

\* What a flush or a sync has returned ok for is on the device, and stays
\* (lfs_bd_flush, lfs_bd_sync).
THEOREM AlwaysStableOnDevice ==
  ASSUME FailuresAreCorrupt
  PROVE  Spec => []StableOnDevice
<1>1. IInv => StableOnDevice
  BY DEF IInv
<1>2. QED
  BY <1>1, CachesConsistent, PTL

\* No byte is programmed twice between two erases, although what is
\* programmed is filled up to write_size (lfs_bd_flush).
THEOREM AlwaysProgramsOnce ==
  ASSUME FailuresAreCorrupt
  PROVE  Spec => []ProgramsOnce
<1>1. IInv => ProgramsOnce
  BY DEF IInv, Pending, Asking, ProgramsOnce
<1>2. QED
  BY <1>1, CachesConsistent, PTL

LEMMA WithinUnit ==
  ASSUME OneUnit, NEW o \in Nat, NEW n \in Nat, o + n <= BlockSize
  PROVE  ~Crosses(o, n)
<1>1. EraseSize \in Nat \ {0} /\ o + n <= EraseSize
  BY Constants DEF OneUnit
<1>2. o < EraseSize => o % EraseSize = o
  BY <1>1
<1>3. o = EraseSize => n = 0 /\ o % EraseSize \in 0..(EraseSize - 1)
  BY <1>1
<1>4. QED
  BY <1>1, <1>2, <1>3 DEF Crosses

LEMMA StepsKeepAssertions ==
  ASSUME OneUnit, IInv, ~aborted, Next
  PROVE  ~aborted'
<1> USE DEF IInv
<1>1. CASE CopyTurn
  <2>1. rd.at + Count <= BlockSize /\ Count \in Nat /\ rd.at \in Nat
    BY <1>1, TurnFits, Constants DEF CopyTurn
  <2>2. ~Crosses(rd.at, Count)
    BY <2>1, WithinUnit
  <2>3. QED
    BY <1>1, <2>2 DEF CopyTurn
<1>2. CASE LoadTurn
  <2>1. /\ LoadFrom \in 0..BlockSize /\ LoadSize \in 0..CacheSize
        /\ LoadFrom + LoadSize <= BlockSize /\ aborted' = Crosses(LoadFrom, LoadSize)
    BY <1>2, LoadFits DEF LoadTurn
  <2>2. QED
    BY <2>1, WithinUnit, Constants
<1>3. CASE Prepare
  BY <1>3, PrepareFinds DEF Prepare
<1>4. ASSUME NEW outcome \in {"done", "silent"}, Program(outcome)
      PROVE  ~aborted'
  <2>1. write_cache.offset \in Nat /\ Programmed \in Nat /\ write_cache.offset + Programmed <= BlockSize
    BY <1>4, ProgramFits, Constants DEF Program, TypeOK, Cache
  <2>2. QED
    BY <1>4, <2>1, WithinUnit DEF Program
<1>5. QED
  BY <1>1, <1>2, <1>3, <1>4 DEF Next, AppendTo, Erase, lfs_bd_read, lfs_bd_write, ReadReturns, CopyIn,
     WriteReturns, Finish, FlushNothing, CompareNext, CompareEqual, ReadBackDiffers, CheckCrc, TaskOver,
     ProgramFails, ReadFails, Restart

\* No LFS_ASSERT of the block device layer fails: write_cache has been
\* flushed whenever a write turns to another place, and no transfer leaves
\* the erase unit.
THEOREM AlwaysAssertionsHold ==
  ASSUME FailuresAreCorrupt, OneUnit
  PROVE  Spec => []AssertionsHold
<1>1. Init => IInv /\ ~aborted
  BY InitInvariant DEF Init
<1>2. (IInv /\ ~aborted) /\ [Next]_vars => (IInv /\ ~aborted)'
  BY NextInvariant, StepsKeepAssertions DEF vars
<1>3. IInv /\ ~aborted => AssertionsHold
  BY DEF AssertionsHold
<1>4. QED
  BY <1>1, <1>2, <1>3, PTL DEF Spec
=============================================================================
