------------------------------- MODULE LfsCtz --------------------------------
(***************************************************************************)
(* The block list of one file: written, truncated, synced, and met again   *)
(* after a power loss.                                                     *)
(*                                                                         *)
(* Writing at a position branches off the list: the block that holds the   *)
(* byte before it is copied, or followed by a new block if it is full,     *)
(* further blocks are appended, and what follows the write is copied over; *)
(* only then do the file's (head, size) move to the new list, and only a   *)
(* sync commits them.  The lists share their front.                        *)
(*                                                                         *)
(* Abstracted: bytes.  What matters of a read is the block of the list it  *)
(* is sent to; which block that should be is kept in the history variables *)
(* chain, branch and disk.chain.  The block allocator is reduced to what   *)
(* it asks of this code, the blocks a traversal reports: it returns the    *)
(* lowest block that none reports (LfsAlloc has its lookahead window).     *)
(***************************************************************************)
EXTENDS CtzIndex, SequencesExt

CONSTANTS
  Blocks,      \* block addresses: a set of naturals
  NullBlock,   \* LFS_BLOCK_NULL; here also what is read where no pointer is
  MaxSize,     \* bound: bytes a file can have
  Chunks,      \* bound: sizes of the writes that are requested
  Marks,       \* bound: positions that are sought and truncated to
  MaxTaken,    \* bound: blocks taken from the allocator
  Faults,      \* a subset of {"corrupt", "io"}: how a program can fail
  AtStart      \* whether the first program into a new block can fail, too

ASSUME CtzListAssumption ==
  /\ Blocks \subseteq Nat
  /\ NullBlock \notin Blocks
  /\ MaxSize \in Nat
  /\ Chunks \subseteq Nat \ {0}
  /\ Marks \subseteq Nat
  /\ MaxTaken \in Nat
  /\ AtStart \in BOOLEAN

VARIABLES
  ptrs,      \* the pointers programmed at the start of each block
  head,      \* file->ctz.head
  size,      \* file->ctz.size
  flags,     \* file->flags, of LFS_F_WRITING, LFS_F_DIRTY and LFS_F_ERRED
  block,     \* file->block, while writing
  offset,    \* file->offset, while writing
  pos,       \* file->pos
  taken,     \* the blocks taken from the allocator so far
  fresh,     \* a block was taken that has no byte of the write yet
  disk,      \* the committed CTZ structure and the blocks of its list
  chain,     \* history: the blocks of (head, size), from index 0
  branch     \* history: the blocks of (block, pos), from index 0

vars == <<ptrs, head, size, flags, block, offset, pos, taken, fresh, disk, chain, branch>>

Writing == "WRITING" \in flags
Dirty == "DIRTY" \in flags

-----------------------------------------------------------------------------
(* Walking a list *)

Index(p) == lfs_ctz_index(p)[1]
Offset(p) == lfs_ctz_index(p)[2]

Pointer(b, k) == IF k <= Len(ptrs[b]) THEN ptrs[b][k] ELSE NullBlock

\* lfs_ctz_find: the block that holds position p of the list (h, n).  A round
\* of its loop is a step of Walk; it goes back by one block or more.
lfs_ctz_find(h, n, p) ==
  LET last == Index(n - 1)
      target == Index(p)
      Walk[k \in 0..last] ==
        IF k = 0 THEN [at |-> last, block |-> h]
        ELSE LET w == Walk[k - 1]
                 s == Skip(w.at, target)
             IN  IF w.at <= target \/ w.block = NullBlock THEN w
                 ELSE [at |-> w.at - 2^s, block |-> Pointer(w.block, s + 1)]
  IN  IF n = 0 THEN NullBlock ELSE Walk[last].block

\* Mutant: of a block with two pointers that are read at once, only the
\* second is followed and the first is not reported.
lfs_ctz_traverseSkips(h, n) ==
  LET last == Index(n - 1)
      Visit[k \in 0..last] ==
        IF k = 0 THEN [at |-> last, block |-> h, seen |-> {h}]
        ELSE LET v == Visit[k - 1]
                 count == 2 - (v.at % 2)
             IN  IF v.at = 0 \/ v.block = NullBlock THEN v
                 ELSE [at |-> v.at - count, block |-> Pointer(v.block, count),
                       seen |-> v.seen \cup {Pointer(v.block, count)}]
  IN  IF n = 0 THEN {} ELSE Visit[last].seen

\* lfs_ctz_traverse: the blocks reported for (h, n).  Two pointers of a block
\* with an even index are read at once.
lfs_ctz_traverse(h, n) ==
  LET last == Index(n - 1)
      Visit[k \in 0..last] ==
        IF k = 0 THEN [at |-> last, block |-> h, seen |-> {h}]
        ELSE LET v == Visit[k - 1]
                 count == 2 - (v.at % 2)
             IN  IF v.at = 0 \/ v.block = NullBlock THEN v
                 ELSE [at |-> v.at - count, block |-> Pointer(v.block, count),
                       seen |-> v.seen \cup {Pointer(v.block, 1), Pointer(v.block, count)}]
  IN  IF n = 0 THEN {} ELSE Visit[last].seen

\* Mutant: a list that is flushed and not synced is not traversed.
ReportedClean ==
  lfs_ctz_traverse(disk.head, disk.size)
    \cup IF Writing THEN lfs_ctz_traverse(block, pos) ELSE {}

\* lfs_fs_rawtraverse, as far as this file is concerned.
Reported ==
  lfs_ctz_traverse(disk.head, disk.size)
    \cup (IF Dirty THEN lfs_ctz_traverse(head, size) ELSE {})
    \cup (IF Writing THEN lfs_ctz_traverse(block, pos) ELSE {})

\* The blocks lfs_alloc can return, and the one it does.  A block that is just
\* being left is not met again before all the others.
FreeBlocks == Blocks \ (Reported \cup {block})
FreeBlock == Min(FreeBlocks)
Take == FreeBlocks # {} /\ taken < MaxTaken /\ taken' = taken + 1

\* The pointers lfs_ctz_extend programs into the block behind block h, whose
\* index is index: each is read from the block the one before points to.
Extension(h, index) ==
  LET Follow[k \in 1..Pointers(index)] ==
        IF k = 1 THEN h ELSE Pointer(Follow[k - 1], k - 1)
  IN  Follow

-----------------------------------------------------------------------------
Init ==
  /\ ptrs = [b \in Blocks |-> <<>>]
  /\ head = NullBlock
  /\ size = 0
  /\ flags = {}
  /\ block = NullBlock
  /\ offset = 0
  /\ pos = 0
  /\ taken = 0
  /\ fresh = FALSE
  /\ disk = [head |-> NullBlock, size |-> 0, chain |-> <<>>]
  /\ chain = <<>>
  /\ branch = <<>>

\* lfs_file_rawseek of a file that is not being written.  A write behind the
\* end fills the gap first, so it starts at the end.
Seek(p) ==
  /\ ~Writing
  /\ p \in Marks \cup {size}
  /\ p <= size
  /\ pos' = p
  /\ UNCHANGED <<ptrs, head, size, flags, block, offset, taken, fresh, disk, chain, branch>>

\* A block is taken: at the start of a branch, and behind a block that is full.
NeedsBlock == ~Writing \/ offset = BlockSize

\* The block lfs_ctz_extend is given, and the blocks of its list.
From == IF Writing THEN block ELSE lfs_ctz_find(head, size, pos - 1)
FromChain == IF Writing THEN branch ELSE SubSeq(chain, 1, Index(pos - 1) + 1)

\* lfs_ctz_extend without a list.
FirstBlock ==
  /\ NeedsBlock
  /\ pos = 0
  /\ Take
  /\ ptrs' = [ptrs EXCEPT ![FreeBlock] = <<>>]
  /\ block' = FreeBlock
  /\ offset' = 0
  /\ branch' = <<FreeBlock>>
  /\ flags' = flags \cup {"WRITING"}
  /\ fresh' = TRUE
  /\ UNCHANGED <<head, size, pos, disk, chain>>

\* Mutant: the block is extended where it is.
CopyBlockInPlace ==
  /\ NeedsBlock
  /\ pos # 0
  /\ Offset(pos - 1) + 1 # BlockSize
  /\ block' = From
  /\ offset' = Offset(pos - 1) + 1
  /\ branch' = FromChain
  /\ flags' = flags \cup {"WRITING"}
  /\ fresh' = TRUE
  /\ UNCHANGED <<ptrs, head, size, pos, taken, disk, chain>>

\* lfs_ctz_extend: "just copy out the last block if it is incomplete".
CopyBlock ==
  /\ NeedsBlock
  /\ pos # 0
  /\ Offset(pos - 1) + 1 # BlockSize
  /\ Take
  /\ ptrs' = [ptrs EXCEPT ![FreeBlock] = ptrs[From]]
  /\ block' = FreeBlock
  /\ offset' = Offset(pos - 1) + 1
  /\ branch' = Append(Front(FromChain), FreeBlock)
  /\ flags' = flags \cup {"WRITING"}
  /\ fresh' = TRUE
  /\ UNCHANGED <<head, size, pos, disk, chain>>

\* Mutant: data starts over the last pointer.
AppendBlockOver ==
  LET index == Index(pos - 1) + 1
  IN  /\ NeedsBlock
      /\ pos # 0
      /\ Offset(pos - 1) + 1 = BlockSize
      /\ Take
      /\ ptrs' = [ptrs EXCEPT ![FreeBlock] = Extension(From, index)]
      /\ block' = FreeBlock
      /\ offset' = PtrSize * (Pointers(index) - 1)
      /\ branch' = Append(FromChain, FreeBlock)
      /\ flags' = flags \cup {"WRITING"}
      /\ fresh' = TRUE
      /\ UNCHANGED <<head, size, pos, disk, chain>>

\* lfs_ctz_extend: a block behind a complete one.
AppendBlock ==
  LET index == Index(pos - 1) + 1
  IN  /\ NeedsBlock
      /\ pos # 0
      /\ Offset(pos - 1) + 1 = BlockSize
      /\ Take
      /\ ptrs' = [ptrs EXCEPT ![FreeBlock] = Extension(From, index)]
      /\ block' = FreeBlock
      /\ offset' = PtrSize * Pointers(index)
      /\ branch' = Append(FromChain, FreeBlock)
      /\ flags' = flags \cup {"WRITING"}
      /\ fresh' = TRUE
      /\ UNCHANGED <<head, size, pos, disk, chain>>

\* A round of lfs_file_flushedwrite programs as much as fits of n bytes.
Program(n) ==
  LET diff == Min({n, BlockSize - offset})
  IN  /\ ~NeedsBlock
      /\ pos + diff <= MaxSize
      /\ pos' = pos + diff
      /\ offset' = offset + diff
      /\ fresh' = FALSE
      /\ flags' = flags \ {"ERRED"}
      /\ UNCHANGED <<ptrs, head, size, block, taken, disk, chain, branch>>

\* The program, or the relocation it calls for, fails for good, and the call
\* that asked for it with it.
ProgramFails ==
  /\ "io" \in Faults
  /\ ~NeedsBlock
  /\ AtStart \/ ~fresh
  /\ fresh' = FALSE
  /\ flags' = flags \cup {"ERRED"}
  /\ UNCHANGED <<ptrs, head, size, block, offset, pos, taken, disk, chain, branch>>

\* The program meets a bad block, in a write or in a flush, and
\* lfs_file_relocate copies the block to another one.  Where the traversal
\* of lfs_alloc comes across data instead of a pointer, it cannot.
Relocate ==
  /\ "corrupt" \in Faults
  /\ Writing
  /\ AtStart \/ ~fresh
  /\ NullBlock \notin Reported
  /\ Take
  /\ ptrs' = [ptrs EXCEPT ![FreeBlock] = ptrs[block]]
  /\ block' = FreeBlock
  /\ branch' = Append(Front(branch), FreeBlock)
  /\ UNCHANGED <<head, size, flags, offset, pos, fresh, disk, chain>>

\* lfs_file_flush, once what follows the write has been copied over.
Flush ==
  /\ Writing
  /\ ~fresh
  /\ pos >= size
  /\ head' = block
  /\ size' = pos
  /\ chain' = branch
  /\ flags' = (flags \ {"WRITING"}) \cup {"DIRTY"}
  /\ block' = NullBlock
  /\ offset' = 0
  /\ branch' = <<>>
  /\ UNCHANGED <<ptrs, pos, taken, fresh, disk>>

\* Mutant: the new head is looked up at the new size itself.
TruncatePastEnd(n) ==
  /\ ~Writing
  /\ n \in Marks \cap (1..(size - 1))
  /\ head' = lfs_ctz_find(head, size, n)
  /\ size' = n
  /\ chain' = SubSeq(chain, 1, Index(n - 1) + 1)
  /\ flags' = flags \cup {"DIRTY"}
  /\ pos' = Min({pos, n})
  /\ UNCHANGED <<ptrs, block, offset, taken, fresh, disk, branch>>

\* lfs_file_rawtruncate to a size that is not inlined.  A position behind the
\* new end is kept by the code; the next write there starts at the end.
Truncate(n) ==
  /\ ~Writing
  /\ n \in Marks \cap (1..(size - 1))
  /\ head' = lfs_ctz_find(head, size, n - 1)
  /\ size' = n
  /\ chain' = SubSeq(chain, 1, Index(n - 1) + 1)
  /\ flags' = flags \cup {"DIRTY"}
  /\ pos' = Min({pos, n})
  /\ UNCHANGED <<ptrs, block, offset, taken, fresh, disk, branch>>

\* lfs_file_rawsync after its flush: the structure is committed.
Sync ==
  /\ ~Writing
  /\ Dirty
  /\ "ERRED" \notin flags
  /\ disk' = [head |-> head, size |-> size, chain |-> chain]
  /\ flags' = flags \ {"DIRTY"}
  /\ UNCHANGED <<ptrs, head, size, block, offset, pos, taken, fresh, chain, branch>>

\* Power is lost; the file is opened again as it was committed.
Crash ==
  /\ head' = disk.head
  /\ size' = disk.size
  /\ chain' = disk.chain
  /\ flags' = {}
  /\ block' = NullBlock
  /\ offset' = 0
  /\ pos' = 0
  /\ fresh' = FALSE
  /\ branch' = <<>>
  /\ UNCHANGED <<ptrs, taken, disk>>

Next ==
  \/ \E p \in Marks \cup {size} : Seek(p)
  \/ FirstBlock
  \/ CopyBlock
  \/ AppendBlock
  \/ \E n \in Chunks : Program(n)
  \/ ProgramFails
  \/ Relocate
  \/ Flush
  \/ \E n \in Marks : Truncate(n)
  \/ Sync
  \/ Crash

Spec == Init /\ [][Next]_vars

-----------------------------------------------------------------------------
(* Properties *)

\* The block that belongs to every position of the list (h, n) is c.
Locates(h, n, c) == \A p \in 0..(n - 1) : lfs_ctz_find(h, n, p) = c[Index(p) + 1]

\* Every position of the file is looked up in the block that belongs there,
\* also while another version is written and after failures, and so is every
\* position of the version that a power loss would fall back to
\* (lfs_ctz_find, lfs_file_flush).
FindLocates ==
  /\ Locates(head, size, chain)
  /\ Locates(disk.head, disk.size, disk.chain)

\* The allocator is told of every block of every version that is still
\* needed when it is asked for one by lfs_ctz_extend (lfs_fs_rawtraverse,
\* lfs_ctz_traverse).
TraverseIsComplete ==
  NeedsBlock => ToSet(disk.chain) \cup ToSet(chain) \cup ToSet(branch) \subseteq Reported

\* A version is never changed in place: blocks of the committed version, of
\* the file's version and of the version being written are not erased and
\* given other pointers, whatever lfs_alloc returns.
OnlyFreshBlocks ==
  [][\A b \in ToSet(disk.chain) \cup ToSet(chain) \cup ToSet(branch) :
        ptrs'[b] = ptrs[b]]_vars

\* The block that bytes are programmed into belongs to no version that a
\* reader or a power loss can come back to.
WritesApart == Writing => block \notin ToSet(disk.chain) \cup ToSet(chain)

\* The offset at which lfs_ctz_extend and the programs behind it have arrived
\* is the one that lfs_ctz_index computes for the position, in the block of
\* that index: the next lookup of the position finds what is written there.
WriterAtPosition ==
  Writing /\ offset < BlockSize => lfs_ctz_index(pos) = <<Len(branch) - 1, offset>>
=============================================================================
