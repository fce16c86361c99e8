-------------------------- MODULE LfsFileReadProofs --------------------------
(***************************************************************************)
(* What misleads a reader of the block list about where its position is,   *)
(* and that nothing else does, for every size of blocks, pointers, files,  *)
(* caches and reads up to which a block has room for its pointers.  What   *)
(* is known of positions comes from LfsCtzProofs.                          *)
(***************************************************************************)
EXTENDS LfsFileRead, TLAPS

CONSTANT MaxSize   \* bytes a file can have

\* Only what LfsCtzProofs says of numbers is used, so that the state of a
\* list and the bounds of its runs may be anything.
C == INSTANCE LfsCtzProofs
       WITH Blocks <- {}, NullBlock <- 0, Chunks <- {}, Marks <- {}, MaxTaken <- 0,
            Faults <- {}, AtStart <- FALSE,
            ptrs <- <<>>, head <- 0, flags <- {}, size <- 0, block <- 0, offset <- 0,
            pos <- 0, taken <- 0, fresh <- FALSE, disk <- <<>>, chain <- <<>>, branch <- <<>>

-----------------------------------------------------------------------------
(* Positions, as in LfsCtzProofs *)

RoomForPointers ==
  /\ MaxSize \in Nat
  /\ MaxSize < 2^Bits
  /\ \A i \in 0..(MaxSize \div (BlockSize - 2 * PtrSize)) :
        PtrSize * (lfs_popc64(i) + 4) <= BlockSize

\* Position p is byte o of block i.
At(p, i, o) == C!At(p, i, o)

LEMMA SameIndex ==
  /\ \A p : C!Index(p) = Index(p) /\ C!Offset(p) = Offset(p)
  /\ \A p : C!lfs_ctz_index(p) = lfs_ctz_index(p)
  /\ \A i : C!Pointers(i) = Pointers(i)
BY DEF C!Index, C!Offset, C!lfs_ctz_index, C!lfs_popc64, C!lfs_ctz64, C!BitsOf,
       C!Cardinality, C!Pointers, Cardinality, Index, Offset, lfs_ctz_index, lfs_popc64, lfs_ctz64, BitsOf, Pointers

\* The assumptions of LfsCtzProofs hold of what stands for its constants.
LEMMA SameRoom ==
  ASSUME RoomForPointers
  PROVE  C!CtzAssumption /\ C!CtzListAssumption /\ C!RoomForPointers
<1>1. C!CtzAssumption
  BY CtzAssumption DEF C!CtzAssumption
<1>2. C!CtzListAssumption
  BY DEF RoomForPointers, C!CtzListAssumption
<1>3. C!RoomForPointers
  BY DEF RoomForPointers, C!RoomForPointers, C!lfs_popc64, C!BitsOf, C!Cardinality,
         lfs_popc64, BitsOf, Cardinality
<1> QED
  BY <1>1, <1>2, <1>3

\* A position of a file is a byte behind the pointers of its block.
LEMMA AtFacts ==
  ASSUME NEW p, NEW i, NEW o, At(p, i, o)
  PROVE  /\ i \in Nat /\ o \in Nat /\ o < BlockSize
         /\ \A q : At(q, i, o) => p = q
BY DEF At, C!At

\* Induction up to N, for a property given by the set of numbers that have it.
LEMMA UpTo ==
  ASSUME RoomForPointers, NEW N \in Nat, NEW S, 0 \in S,
         \A k \in 1..N : k - 1 \in S => k \in S
  PROVE  0..N \subseteq S
BY SameRoom, C!UpTo

LEMMA PositionAt ==
  ASSUME RoomForPointers, NEW p \in 0..MaxSize
  PROVE  At(p, Index(p), Offset(p))
BY SameRoom, SameIndex, C!PositionAt DEF At

LEMMA IndexRight ==
  ASSUME RoomForPointers, NEW p \in 0..MaxSize, NEW i, NEW o, At(p, i, o)
  PROVE  lfs_ctz_index(p) = <<i, o>>
BY SameRoom, SameIndex, C!IndexRight DEF At

LEMMA NextPosition ==
  ASSUME RoomForPointers, NEW p \in Nat, p < MaxSize, NEW i, NEW o, At(p, i, o)
  PROVE  /\ o + 1 < BlockSize => At(p + 1, i, o + 1)
         /\ o + 1 = BlockSize => At(p + 1, i + 1, PtrSize * Pointers(i + 1))
BY SameRoom, SameIndex, C!NextPosition DEF At

LEMMA IndexGrows ==
  ASSUME RoomForPointers, NEW n \in 0..MaxSize, NEW p \in 0..n
  PROVE  Index(p) \in Nat /\ Index(n) \in Nat /\ Index(p) <= Index(n)
BY SameRoom, SameIndex, C!IndexGrows

-----------------------------------------------------------------------------
(* Reading *)

\* A position is the first of its block.
StartsBlock(p) == Offset(p) = PtrSize * Pointers(Index(p))

ReaderAssumption ==
  /\ FileSize \in 0..MaxSize
  /\ Sought \subseteq 0..MaxSize
  /\ Chunks \subseteq Nat \ {0}

\* A seek that keeps the block does not start where a read has ended one.
SeeksFromInside ==
  \A n \in Sought : Seek(n) /\ reading' /\ pos' # pos => offset # BlockSize

\* Where a reader that looks nothing up is: at its position, or behind the end
\* of a block and so at the start of the next, or behind the end of the file, in
\* the block of its position unless the file has no byte of that block.
ReadInv ==
  /\ size \in 0..MaxSize
  /\ pos \in 0..MaxSize
  /\ reading => \/ block = Index(pos) /\ offset = Offset(pos)
                \/ offset = BlockSize /\ StartsBlock(pos)
                \/ /\ pos >= size
                   /\ block = Index(pos) \/ \A m \in 0..(size - 1) : Index(m) # Index(pos)

\* Bytes further on in the same block, or to its end.
LEMMA Advance ==
  ASSUME RoomForPointers, NEW p \in 0..MaxSize, NEW d \in Nat, d >= 1, p + d <= MaxSize,
         Offset(p) + d <= BlockSize
  PROVE  /\ p + d \in 0..MaxSize
         /\ Offset(p) + d < BlockSize =>
              Index(p + d) = Index(p) /\ Offset(p + d) = Offset(p) + d
         /\ Offset(p) + d = BlockSize => StartsBlock(p + d)
<1> DEFINE i == Index(p)
           o == Offset(p)
           T == {k \in Nat : p + k <= MaxSize /\ o + k < BlockSize => At(p + k, i, o + k)}
<1>0. MaxSize \in Nat /\ BlockSize \in Nat /\ PtrSize \in Nat
  BY CtzAssumption DEF RoomForPointers
<1>1. At(p, i, o) /\ i \in Nat /\ o \in Nat /\ o < BlockSize
  <2>1. At(p, i, o)
    BY PositionAt
  <2> QED
    BY <2>1, AtFacts
<1> HIDE DEF i, o
<1>2. 0 \in T
  <2>1. p + 0 = p /\ o + 0 = o
    BY <1>0, <1>1
  <2> QED
    BY <1>1, <2>1
<1>3. ASSUME NEW k \in 1..d, k - 1 \in T PROVE k \in T
  <2>1. SUFFICES ASSUME p + k <= MaxSize, o + k < BlockSize PROVE At(p + k, i, o + k)
    OBVIOUS
  <2> DEFINE q == p + (k - 1)
             r == o + (k - 1)
  <2>2. q \in Nat /\ q < MaxSize /\ q + 1 = p + k /\ r + 1 = o + k /\ r + 1 < BlockSize
        /\ k - 1 \in Nat /\ p + (k - 1) <= MaxSize /\ o + (k - 1) < BlockSize
    BY <1>0, <1>1, <2>1
  <2>3. At(q, i, r)
    BY <1>3, <2>2
  <2> HIDE DEF q, r
  <2>4. At(q + 1, i, r + 1)
    BY <2>2, <2>3, NextPosition
  <2> QED
    BY <2>2, <2>4
<1>4. 0..d \subseteq T
  <2> HIDE DEF T
  <2> QED
    BY <1>2, <1>3, UpTo
<1>5. p + d \in 0..MaxSize
  BY <1>0
<1>6. ASSUME o + d < BlockSize PROVE Index(p + d) = i /\ Offset(p + d) = o + d
  <2>1. At(p + d, i, o + d)
    BY <1>4, <1>6
  <2>2. lfs_ctz_index(p + d) = <<i, o + d>>
    BY <1>5, <2>1, IndexRight
  <2> QED
    BY <2>2 DEF Index, Offset
<1>7. ASSUME o + d = BlockSize PROVE StartsBlock(p + d)
  <2> DEFINE q == p + (d - 1)
             r == o + (d - 1)
  <2>1. q \in Nat /\ q < MaxSize /\ q + 1 = p + d /\ r + 1 = BlockSize /\ d - 1 \in 0..d
        /\ d - 1 \in Nat /\ p + (d - 1) <= MaxSize /\ o + (d - 1) < BlockSize
    BY <1>0, <1>1, <1>7
  <2>2. At(q, i, r)
    BY <1>4, <2>1
  <2> HIDE DEF q, r
  <2>3. At(q + 1, i + 1, PtrSize * Pointers(i + 1))
    BY <2>1, <2>2, NextPosition
  <2>4. lfs_ctz_index(p + d) = <<i + 1, PtrSize * Pointers(i + 1)>>
    BY <1>5, <2>1, <2>3, IndexRight
  <2>5. Index(p + d) = i + 1 /\ Offset(p + d) = PtrSize * Pointers(i + 1)
    BY <2>4 DEF Index, Offset
  <2> QED
    BY <2>5 DEF StartsBlock
<1> QED
  BY <1>5, <1>6, <1>7 DEF i, o

\* A round of a read: it looks the block up, or is where it should be.
LEMMA ReadRound ==
  ASSUME RoomForPointers, ReaderAssumption, ReadInv, NEW n \in Chunks, Read(n)
  PROVE  ReadInv'
<1> DEFINE found == ~reading \/ offset = BlockSize
           b == IF found THEN Index(pos) ELSE block
           o == IF found THEN Offset(pos) ELSE offset
           diff == Min({n, size - pos, BlockSize - o})
<1>1. pos < size /\ block' = b /\ offset' = o + diff /\ pos' = pos + diff /\ size' = size
  BY DEF Read, Min
<1>2. size \in 0..MaxSize /\ pos \in 0..MaxSize /\ MaxSize \in Nat /\ n \in Nat /\ n >= 1 /\ BlockSize \in Nat
  BY CtzAssumption DEF ReaderAssumption, RoomForPointers, ReadInv
<1>3. b = Index(pos) /\ o = Offset(pos)
  BY <1>1, <1>2 DEF ReadInv
<1>4. o \in Nat /\ o < BlockSize
  <2>1. At(pos, Index(pos), Offset(pos))
    BY <1>2, PositionAt
  <2> QED
    BY <1>3, <2>1, AtFacts
<1> HIDE DEF b, o
<1>5. diff \in Nat /\ diff >= 1 /\ diff <= n /\ diff <= size - pos /\ diff <= BlockSize - o
  <2> DEFINE x == size - pos
             y == BlockSize - o
  <2>1. n \in Nat /\ x \in Nat /\ y \in Nat /\ n >= 1 /\ x >= 1 /\ y >= 1
    BY <1>1, <1>2, <1>4
  <2> HIDE DEF x, y
  <2>2. Min({n, x, y}) \in {n, x, y} /\ \A z \in {n, x, y} : Min({n, x, y}) <= z
    BY <2>1 DEF Min
  <2> QED
    BY <2>1, <2>2 DEF x, y
<1> HIDE DEF diff
<1>6. /\ pos + diff <= MaxSize /\ Offset(pos) + diff <= BlockSize
      /\ o + diff < BlockSize \/ o + diff = BlockSize
  BY <1>1, <1>2, <1>3, <1>4, <1>5
<1>7. /\ pos + diff \in 0..MaxSize
      /\ o + diff < BlockSize => Index(pos + diff) = b /\ Offset(pos + diff) = o + diff
      /\ o + diff = BlockSize => StartsBlock(pos + diff)
  BY <1>2, <1>3, <1>5, <1>6, Advance
<1>8. StartsBlock(pos') <=> StartsBlock(pos + diff)
  BY <1>1 DEF StartsBlock, Index, Offset, lfs_ctz_index, lfs_popc64, BitsOf, Pointers, lfs_ctz64
<1> QED
  BY <1>1, <1>2, <1>6, <1>7, <1>8 DEF ReadInv

\* A seek of a reader that is not at the end of a block it has read, or that
\* looks its block up again.
LEMMA ReaderSeeks ==
  ASSUME RoomForPointers, ReaderAssumption, ReadInv, NEW n \in Sought, Seek(n),
         reading' /\ pos' # pos => offset # BlockSize
  PROVE  ReadInv'
<1>1. size' = size /\ block' = block
      /\ \/ pos = n /\ pos' = n /\ offset' = offset /\ reading' = reading
         \/ pos # n /\ Index(pos) = Index(n) /\ pos' = n /\ offset' = Offset(n) /\ reading' = reading
         \/ pos' = n /\ reading' = FALSE
  BY Zenon DEF Seek, lfs_file_rawseek
<1>2. n \in 0..MaxSize /\ size \in 0..MaxSize /\ pos \in 0..MaxSize /\ MaxSize \in Nat
  BY DEF RoomForPointers, ReaderAssumption, ReadInv
<1>3. CASE pos = n /\ pos' = n /\ offset' = offset /\ reading' = reading
  BY <1>1, <1>3 DEF ReadInv
<1>4. CASE pos # n /\ Index(pos) = Index(n) /\ pos' = n /\ offset' = Offset(n) /\ reading' = reading
  <2>1. ASSUME reading
        PROVE  \/ block = Index(n)
               \/ n >= size /\ \A m \in 0..(size - 1) : Index(m) # Index(n)
    <3>1. ASSUME \A m \in 0..(size - 1) : Index(m) # Index(pos) PROVE n >= size
      <4>1. n \notin 0..(size - 1)
        BY <1>4, <3>1
      <4> QED
        BY <1>2, <4>1
    <3>2. offset # BlockSize
      BY <1>4, <2>1
    <3> QED
      BY <1>4, <2>1, <3>1, <3>2 DEF ReadInv
  <2> QED
    BY <1>1, <1>2, <1>4, <2>1 DEF ReadInv
<1>5. CASE pos' = n /\ reading' = FALSE
  BY <1>1, <1>2, <1>5 DEF ReadInv
<1> QED
  BY <1>1, <1>3, <1>4, <1>5

\* A truncation, and the seek back of a reader.
LEMMA ReaderCut ==
  ASSUME RoomForPointers, ReadInv, NEW n \in Truncations, Truncate(n)
  PROVE  ReadInv'
<1>1. /\ n \in 1..(size - 1) /\ size' = n /\ block' = Index(n - 1) /\ pos' = pos
      /\ \/ pos = n
         \/ pos # n /\ Index(pos) = Index(n) /\ offset' = Offset(pos)
         \/ reading' = FALSE
  BY Zenon DEF Truncate, lfs_file_rawseek
<1>2. /\ size \in 0..MaxSize /\ pos \in 0..MaxSize /\ MaxSize \in Nat
      /\ n \in Nat /\ n >= 1 /\ n - 1 \in 0..n /\ n \in 0..MaxSize /\ n - 1 \in 0..MaxSize
  BY <1>1 DEF RoomForPointers, ReadInv
<1>3. Index(n - 1) \in Nat /\ Index(n) \in Nat /\ Index(n - 1) <= Index(n)
  BY <1>2, IndexGrows
<1>4. ASSUME NEW m \in 0..(n - 1) PROVE Index(m) \in Nat /\ Index(m) <= Index(n - 1)
  BY <1>2, IndexGrows
<1>5. CASE reading' = FALSE
  BY <1>1, <1>2, <1>5 DEF ReadInv
<1>6. CASE Index(pos) = Index(n) /\ Index(n - 1) = Index(n)
  <2>1. CASE pos = n
    BY <1>1, <1>2, <1>6, <2>1 DEF ReadInv
  <2>2. CASE pos # n /\ Index(pos) = Index(n) /\ offset' = Offset(pos)
    BY <1>1, <1>2, <1>6, <2>2 DEF ReadInv
  <2> QED
    BY <1>1, <1>5, <2>1, <2>2
<1>7. CASE Index(pos) = Index(n) /\ Index(n - 1) # Index(n)
  <2>1. \A m \in 0..(n - 1) : Index(m) # Index(pos)
    BY <1>3, <1>4, <1>7
  <2>2. pos >= n
    <3>1. pos \notin 0..(n - 1)
      BY <2>1
    <3> QED
      BY <1>2, <3>1
  <2> QED
    BY <1>1, <1>2, <2>1, <2>2 DEF ReadInv
<1> QED
  BY <1>1, <1>5, <1>6, <1>7

\* A read that looks nothing up continues in the block of its position and at
\* its offset there, wherever reads, truncations and seeks, inside blocks too,
\* have led, unless a seek kept the block where a read had come to its end: that
\* is the only way in which the shortcut of lfs_file_rawseek misleads the next
\* read (lfs_file_flushedread, lfs_file_rawseek).
THEOREM MisledOnlyAtBlockEnd ==
  ASSUME RoomForPointers, ReaderAssumption
  PROVE  Spec /\ [][SeeksFromInside]_vars => []ContinuesAtPosition
<1>1. Init => ReadInv
  <2>1. 0 \in 0..MaxSize
    BY DEF RoomForPointers
  <2> QED
    BY <2>1 DEF Init, ReadInv, ReaderAssumption
<1>2. ReadInv /\ [Next]_(vars) /\ [SeeksFromInside]_(vars) => ReadInv'
  <2>1. CASE UNCHANGED vars
    BY <2>1 DEF vars, ReadInv
  <2>2. ASSUME ReadInv, SeeksFromInside, NEW n \in Sought, Seek(n) PROVE ReadInv'
    <3>1. reading' /\ pos' # pos => offset # BlockSize
      BY <2>2 DEF SeeksFromInside
    <3> QED
      BY <2>2, <3>1, ReaderSeeks
  <2> QED
    BY <2>1, <2>2, ReadRound, ReaderCut DEF Next
<1>3. ReadInv => ContinuesAtPosition
  BY DEF RoomForPointers, ReadInv, ContinuesAtPosition, Continues
<1> QED
  BY <1>1, <1>2, <1>3, PTL DEF Spec

=============================================================================
