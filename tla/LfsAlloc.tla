------------------------------ MODULE LfsAlloc -------------------------------
(***************************************************************************)
(* The block allocator.  littlefs keeps no free list on storage: which     *)
(* blocks are in use is what a traversal of the tree and of the open files *)
(* finds.  The allocator looks at the blocks in a rotating order through a *)
(* window, marks in a bitmap the blocks of the window that the traversal   *)
(* reports, and hands out the unmarked ones.                               *)
(*                                                                         *)
(* A block handed out is not found by a traversal before the operation     *)
(* that asked for it has committed it.  What keeps it from being handed    *)
(* out again is the counter ack: it is set to the number of blocks when an *)
(* operation starts (lfs_alloc_ack) and counts down with every block the   *)
(* allocator passes, so that it never comes round to a block it has passed *)
(* since.  When ack reaches zero there is no space left, or, with an       *)
(* allocate_block callback, the device is grown.                           *)
(*                                                                         *)
(* One step is one turn of one of lfs_alloc's loops.  The filesystem is    *)
(* represented by what it does to the allocator: blocks are committed,     *)
(* given up, freed by a commit; operations end; power is lost and the      *)
(* filesystem is mounted again.                                            *)
(***************************************************************************)
EXTENDS Integers

CONSTANTS
  InitCount,   \* block_count at format
  Window,      \* 16 * lookahead_size: blocks of a lookahead window
  BitmapBits,  \* 8 * lookahead_size: bits of the lookahead buffer
  GrowBy,      \* blocks that allocate_block adds; 0: there is no callback
  MaxCount     \* bound: blocks the device can grow to

ASSUME AllocAssumption ==
  /\ InitCount \in Nat
  /\ InitCount >= 2
  /\ Window \in Nat \ {0}
  /\ BitmapBits \in Nat \ {0}
  /\ GrowBy \in Nat
  /\ MaxCount \in Nat
  /\ InitCount <= MaxCount

VARIABLES
  count,    \* lfs->block_count
  used,     \* what lfs_fs_rawtraverse reports
  held,     \* handed out to the operation in progress, not in used yet
  offset,   \* lfs->free.offset: the block the window starts at
  size,     \* lfs->free.size: blocks in the window
  i,        \* lfs->free.i: the next one to look at
  bits,     \* lfs->free.buffer: the positions marked
  ack,      \* lfs->free.ack
  pc,       \* where lfs_alloc stands
  found,    \* the block lfs_alloc is about to return
  seen,     \* history: blocks that were in use or held since the last ack
  stale,    \* history: blocks marked in the window when it was last acked
  grown     \* history: the device has grown while an operation held blocks,
            \* and the window may have been read before it committed them

alloc == <<count, offset, size, i, bits, ack>>
vars == <<count, used, held, offset, size, i, bits, ack, pc, found, seen, stale, grown>>

-----------------------------------------------------------------------------
Blocks == 0..(count - 1)

\* The superblock pair, which is always in use.
Super == {0, 1}

\* The block at position o of the window.
BlockAt(o) == (offset + o) % count

\* What the window still ahead has marked.
MarkedAhead == {BlockAt(o) : o \in {o \in bits : i <= o /\ o < size}}

Idle == pc = "idle"

Init ==
  /\ count = InitCount
  /\ used \in SUBSET (0..(InitCount - 1))
  /\ Super \subseteq used
  /\ held = {}
  /\ offset \in 0..(InitCount - 1)
  /\ size = 0
  /\ i = 0
  /\ bits = {}
  /\ ack = InitCount
  /\ pc = "idle"
  /\ found = 0
  /\ seen = used
  /\ stale = {}
  /\ grown = FALSE

-----------------------------------------------------------------------------
(* The rest of the filesystem *)

\* A commit makes the blocks in the operation's hands reachable and lets go
\* of others: overwritten contents, a removed file.
Commit(linked, freed) ==
  /\ Idle
  /\ linked \subseteq held
  /\ freed \subseteq used \ Super
  /\ used' = (used \ freed) \cup linked
  /\ held' = held \ linked
  /\ UNCHANGED <<alloc, pc, found, seen, stale, grown>>

\* A block turns out bad, or the operation fails: it is not used after all.
GiveUp(b) ==
  /\ Idle
  /\ b \in held
  /\ held' = held \ {b}
  /\ UNCHANGED <<alloc, used, pc, found, seen, stale, grown>>

\* Mutant: the acknowledgement comes before the operation has committed.
AckInFlight ==
  /\ Idle
  /\ ack' = count
  /\ seen' = used \cup held
  /\ stale' = MarkedAhead
  /\ UNCHANGED <<count, used, held, offset, size, i, bits, pc, found, grown>>

\* lfs_alloc_ack, at the start of mkdir, of outlining an inline file and of
\* extending a file, and after a write: nothing is in the operation's hands.
Ack ==
  /\ Idle
  /\ held = {}
  /\ ack' = count
  /\ seen' = used
  /\ stale' = MarkedAhead
  /\ UNCHANGED <<count, used, held, offset, size, i, bits, pc, found, grown>>

\* Power is lost, the filesystem is mounted and the window starts anywhere.
Remount(start) ==
  /\ held' = {}
  /\ offset' = start
  /\ size' = 0
  /\ i' = 0
  /\ bits' = {}
  /\ ack' = count
  /\ pc' = "idle"
  /\ found' = 0
  /\ seen' = used
  /\ stale' = {}
  /\ grown' = FALSE
  /\ UNCHANGED <<count, used>>

-----------------------------------------------------------------------------
(* lfs_alloc *)

Alloc ==
  /\ Idle
  /\ pc' = "scan"
  /\ UNCHANGED <<alloc, used, held, found, seen, stale, grown>>

\* Mutant: a marked block is passed without being counted.
PassMarkedUncounted ==
  /\ pc = "scan"
  /\ i # size
  /\ i \in bits
  /\ i' = i + 1
  /\ UNCHANGED <<count, used, held, offset, size, bits, ack, pc, found, seen, stale, grown>>

PassMarked ==
  /\ pc = "scan"
  /\ i # size
  /\ i \in bits
  /\ i' = i + 1
  /\ ack' = ack - 1
  /\ UNCHANGED <<count, used, held, offset, size, bits, pc, found, seen, stale, grown>>

TakeUnmarked ==
  /\ pc = "scan"
  /\ i # size
  /\ i \notin bits
  /\ found' = BlockAt(i)
  /\ i' = i + 1
  /\ ack' = ack - 1
  /\ pc' = "found"
  /\ UNCHANGED <<count, used, held, offset, size, bits, seen, stale, grown>>

\* Move on to the next unmarked block before returning.
SkipMarked ==
  /\ pc = "found"
  /\ i # size
  /\ i \in bits
  /\ i' = i + 1
  /\ ack' = ack - 1
  /\ UNCHANGED <<count, used, held, offset, size, bits, pc, found, seen, stale, grown>>

ReturnBlock ==
  /\ pc = "found"
  /\ i = size \/ i \notin bits
  /\ held' = held \cup {found}
  /\ seen' = seen \cup {found}
  /\ pc' = "idle"
  /\ UNCHANGED <<alloc, used, found, stale, grown>>

WindowSize == IF Window < ack THEN Window ELSE ack

\* Positions of a window of n blocks starting at block s that a traversal
\* marks (lfs_alloc_lookahead).
Lookahead(s, n) == {o \in 0..(n - 1) : (s + o) % count \in used}

\* Mutant: the window is not cut to the blocks still to be looked at.
RefillWhole ==
  /\ pc = "scan"
  /\ i = size
  /\ ack # 0
  /\ offset' = (offset + size) % count
  /\ size' = Window
  /\ i' = 0
  /\ bits' = Lookahead((offset + size) % count, Window)
  /\ UNCHANGED <<count, used, held, ack, pc, found, seen, stale, grown>>

\* Mutant: the window moves on by its nominal size.
RefillSkips ==
  /\ pc = "scan"
  /\ i = size
  /\ ack # 0
  /\ offset' = (offset + Window) % count
  /\ size' = WindowSize
  /\ i' = 0
  /\ bits' = Lookahead((offset + Window) % count, WindowSize)
  /\ UNCHANGED <<count, used, held, ack, pc, found, seen, stale, grown>>

\* Read the next window.  The part of it that has no bit in the buffer is
\* kept in memory that belongs to somebody else and may read as anything.
Refill ==
  /\ pc = "scan"
  /\ i = size
  /\ ack # 0
  /\ offset' = (offset + size) % count
  /\ size' = WindowSize
  /\ i' = 0
  /\ \E foreign \in SUBSET {o \in 0..(WindowSize - 1) : o >= BitmapBits} :
       bits' = foreign \cup
               {o \in Lookahead((offset + size) % count, WindowSize) : o < BitmapBits}
  /\ grown' = (grown /\ held # {})
  /\ UNCHANGED <<count, used, held, ack, pc, found, seen, stale>>

\* The traversal fails: lfs_alloc_drop, and the operation fails with it.
\* offset and size are those of the window that could not be read.
RefillFails ==
  /\ pc = "scan"
  /\ i = size
  /\ ack # 0
  /\ offset' = (offset + size) % count
  /\ size' = 0
  /\ i' = 0
  /\ bits' = {}
  /\ ack' = count
  /\ pc' = "idle"
  /\ held' = {}
  /\ seen' = used
  /\ stale' = {}
  /\ grown' = FALSE
  /\ UNCHANGED <<count, used, found>>

CanGrow == GrowBy > 0 /\ count + GrowBy <= MaxCount

Nospc ==
  /\ pc = "scan"
  /\ i = size
  /\ ack = 0
  /\ ~CanGrow
  /\ pc' = "nospc"
  /\ UNCHANGED <<alloc, used, held, found, seen, stale, grown>>

\* The caller goes on without the block, or gives up what it holds.
ReturnNospc ==
  /\ pc = "nospc"
  /\ pc' = "idle"
  /\ UNCHANGED <<alloc, used, held, found, seen, stale, grown>>

\* allocate_block has added blocks and lfs_fs_grow has adopted them; the scan
\* is acknowledged and starts over.
Grow ==
  /\ pc = "scan"
  /\ i = size
  /\ ack = 0
  /\ CanGrow
  /\ count' = count + GrowBy
  /\ ack' = count + GrowBy
  /\ seen' = used \cup held
  /\ stale' = {}
  /\ grown' = (grown \/ held # {})
  /\ UNCHANGED <<used, held, offset, size, i, bits, pc, found>>

AllocStep ==
  \/ PassMarked \/ TakeUnmarked \/ SkipMarked \/ ReturnBlock
  \/ Refill \/ RefillFails \/ Nospc \/ ReturnNospc \/ Grow

Next ==
  \/ \E linked \in SUBSET held, freed \in SUBSET (used \ Super) : Commit(linked, freed)
  \/ \E b \in held : GiveUp(b)
  \/ Ack
  \/ \E start \in Blocks : Remount(start)
  \/ Alloc
  \/ AllocStep

Spec == Init /\ [][Next]_vars

\* lfs_alloc runs on its caller's stack until it returns.
FairSpec == Spec /\ WF_vars(AllocStep)

-----------------------------------------------------------------------------
(* Properties *)

\* Every variable has the shape and the range the code relies on: ack never
\* wraps below zero, and the window never extends over a block twice.
TypeOK ==
  /\ count \in InitCount..MaxCount
  /\ used \subseteq Blocks
  /\ held \subseteq Blocks
  /\ offset \in Blocks
  /\ size \in 0..count
  /\ i \in 0..size
  /\ bits \subseteq 0..(size - 1)
  /\ ack \in 0..count
  /\ pc \in {"idle", "scan", "found", "nospc"}
  /\ found \in Blocks
  /\ seen \subseteq Blocks
  /\ stale \subseteq Blocks
  /\ grown \in BOOLEAN

\* lfs_alloc never returns a block that the tree uses, nor one that the
\* operation in progress already has in its hands, unless the device has
\* grown under the operation.
FoundIsFree == pc = "found" /\ ~grown => found \notin used \cup held

\* The same without the exception: "allocated blocks" are not "garbage
\* collected in the middle of a commit operation" (lfs_alloc_ack).
FoundIsFreeWhenGrown == pc = "found" => found \notin used \cup held

\* When lfs_alloc reports LFS_ERR_NOSPC, every block was in use or handed out
\* at some time since the last lfs_alloc_ack, or was marked in the part of
\* the window that had been read before and was still ahead then.
NospcJustified == pc = "nospc" => Blocks \subseteq seen \cup stale

\* Every allocation comes back with a block or an error, also when the device
\* grows and lfs_alloc starts over.
AllocReturns == pc = "scan" ~> Idle

-----------------------------------------------------------------------------
(* The inductive invariant behind FoundIsFree                               *)

\* The operation's blocks, the one being returned included.
InFlight == held \cup (IF pc = "found" THEN {found} ELSE {})

\* The blocks the cursor has passed since the last acknowledgement.
Passed == {BlockAt(i + count - k) : k \in 1..(count - ack)}

\* An unmarked block ahead in the window is free, even if the window was
\* read several commits ago.
AheadFree ==
  \A o \in i..(size - 1) : o \notin bits => BlockAt(o) \notin used \cup InFlight

IInv ==
  /\ TypeOK
  /\ size - i <= ack
  /\ ~grown => InFlight \subseteq Passed /\ AheadFree
  /\ FoundIsFree
=============================================================================
