------------------------------- MODULE LfsMdir -------------------------------
(***************************************************************************)
(* One metadata pair: the unit in which littlefs changes a directory.      *)
(*                                                                         *)
(* A pair is two blocks.  Each starts with a revision count and holds a    *)
(* log of commits, every commit closed by a CRC.  A commit is appended to  *)
(* the newer block while the tail of that block is known to be erased and  *)
(* has room; otherwise the whole directory is compacted into the other     *)
(* block under the next revision, and the two swap roles.  A block that    *)
(* does not accept the compaction, or has been written too often, is       *)
(* replaced by a freshly allocated one, after which the directory's parent *)
(* has to be pointed at the new pair.  Fetching a pair reads both revision *)
(* counts, compares them as a sequence number modulo RevModulus, takes the *)
(* newer block and falls back to the other one when the newer one holds no *)
(* complete commit.                                                        *)
(*                                                                         *)
(* One step is one program or erase of a block, or one decision taken      *)
(* between two of them; power may be lost before every step.  Blocks hold  *)
(* what an earlier use left on them, and erasing a block may leave its     *)
(* contents alone, which is what FileBlockDevice does.                     *)
(*                                                                         *)
(* Abstracted: the contents of a directory are one member of Value, so a   *)
(* commit replaces the value instead of adding tags to it; the size of a   *)
(* commit is a number of cells; a program that did not stick is reported   *)
(* as CORRUPT by the checksum read back after it.                          *)
(***************************************************************************)
EXTENDS Integers, FiniteSets

CONSTANTS
  Blocks,       \* block addresses
  NullBlock,    \* LFS_BLOCK_NULL
  Value,        \* contents of the directory
  Absent,       \* what there is before the directory is linked
  Sizes,        \* cells a commit may need
  Cap,          \* cells of a block
  RevModulus,   \* 2^32 in the code
  BlockCycles,  \* block_cycles; 0 stands for wear levelling disabled
  Super,        \* TRUE for the superblock pair {0, 1}
  Kept          \* errors after which a caller may commit through the copy of
                \* the directory it has, that of an open file; after the
                \* others it fetches it anew, as operations on paths do:
                \* "nospc"    no block to move to
                \* "io"       an error of the device, the block not being bad
                \* "parent"   the parent cannot be committed

ASSUME MdirAssumption ==
  /\ NullBlock \notin Blocks
  /\ Absent \notin Value
  /\ Cap \in Nat \ {0}
  /\ Sizes \subseteq 1..Cap
  /\ BlockCycles \in Nat
  /\ RevModulus \in Nat
  /\ RevModulus > 2 * (BlockCycles + 2)
  /\ Super \in BOOLEAN
  /\ Kept \subseteq {"nospc", "io", "parent"}

VARIABLES
  disk,       \* the blocks on storage
  link,       \* the pair the parent directory names on storage
  ram,        \* the caller's copy of the directory (file->metadata, dir, ...)
  ldir,       \* the working copy lfs_dir_orphaning_commit makes of it
  pc,         \* where the commit in flight stands
  op,         \* the value being committed and the cells it needs
  relocated,  \* dir_compact's local of that name
  tired,      \* dir_compact's local of that name
  taken,      \* blocks handed out since the allocator was last acknowledged
  ret         \* answer to the last commit

vars == <<disk, link, ram, ldir, pc, op, relocated, tired, taken, ret>>

-----------------------------------------------------------------------------
(* Data *)

Rev == 0..(RevModulus - 1)

Addr == Blocks \cup {NullBlock}

\* A block: its revision count; the value as of every commit end it holds;
\* the offset behind its last complete commit (0: none); and whether a fetch
\* finds the space behind it unprogrammed.
Block == [rev : Rev, at : [1..Cap -> Value \cup {Absent}], off : 0..Cap,
          clean : BOOLEAN]

\* lfs_metadata_dir_t, as far as the protocol uses it.
Dir == [pair : Addr \X Addr, rev : Rev, off : 0..Cap, erased : BOOLEAN]

NoPair == <<NullBlock, NullBlock>>

NoDir == [pair |-> NoPair, rev |-> 0, off |-> 0, erased |-> FALSE]

Nothing == [o \in 1..Cap |-> Absent]

\* All bits set: the revision reads 0xffffffff and no tag is valid.
ErasedBlock == [rev |-> RevModulus - 1, at |-> Nothing, off |-> 0, clean |-> TRUE]

Inc(r) == IF r = RevModulus - 1 THEN 0 ELSE r + 1

\* Mutant: revisions compared as plain unsigned numbers.
NewerUnsigned(a, b) == a > b

\* lfs_scmp(a, b) > 0: the difference is positive as a signed number of the
\* same width.
Newer(a, b) ==
  LET d == IF a >= b THEN a - b ELSE a - b + RevModulus
  IN  d > 0 /\ 2 * d < RevModulus

CycleModulus ==
  IF (BlockCycles + 1) % 2 = 0 THEN BlockCycles + 2 ELSE BlockCycles + 1

lfs_dir_needs_relocation(d) ==
  BlockCycles > 0 /\ Inc(d.rev) % CycleModulus = 0

\* lfs_alignup, and the same with the width of the revision count.
lfs_alignup(r, m) == (r + (m - 1)) - ((r + (m - 1)) % m)

AlignUp(r) ==
  IF lfs_alignup(r, CycleModulus) >= RevModulus
  THEN lfs_alignup(r, CycleModulus) - RevModulus
  ELSE lfs_alignup(r, CycleModulus)

Swap(p) == <<p[2], p[1]>>

PairBlocks(p) == {p[1], p[2]} \ {NullBlock}

-----------------------------------------------------------------------------
(* lfs_dir_fetch *)

\* The block a fetch tries first, in position 1.
FetchOrder(p) ==
  IF Newer(disk[p[2]].rev, disk[p[1]].rev) THEN Swap(p) ELSE p

\* The pair with the block the fetch settles on in position 1.
FetchPair(p) ==
  IF disk[FetchOrder(p)[1]].off > 0 THEN FetchOrder(p) ELSE Swap(FetchOrder(p))

Readable(p) == \E i \in {1, 2} : disk[p[i]].off > 0

lfs_dir_fetch(p) ==
  LET q == FetchPair(p)
      b == disk[q[1]]
  IN  [pair |-> q, rev |-> b.rev, off |-> b.off, erased |-> b.clean]

\* What a fetch of the linked pair would return from storage as it is now.
Visible ==
  IF link = NoPair \/ ~Readable(link)
  THEN Absent
  ELSE LET b == disk[FetchPair(link)[1]] IN b.at[b.off]

-----------------------------------------------------------------------------
(* Effects of the device on a block *)

\* Programming starts at offset o: whatever was behind it is no longer a
\* complete commit, and the first tag there reads as programmed.
Torn(b, o) ==
  [rev |-> b.rev, at |-> [i \in 1..Cap |-> IF i > o THEN Absent ELSE b.at[i]],
   off |-> o, clean |-> FALSE]

\* The CRC that completes the commit ending at offset o has been programmed.
Completed(b, o, v) ==
  [rev |-> b.rev, at |-> [b.at EXCEPT ![o] = v], off |-> o, clean |-> TRUE]

\* Header and tags of a compaction have been programmed, its CRC has not.
Header(r) == [rev |-> r, at |-> Nothing, off |-> 0, clean |-> FALSE]

-----------------------------------------------------------------------------
(* Operations *)

Idle == pc = "idle"

\* Blocks some earlier use may have left behind: erased, or carrying a
\* complete commit under any revision.
StaleBlock ==
  {ErasedBlock} \cup
  {Completed(Header(r), 1, v) : r \in Rev, v \in Value}

Init ==
  /\ disk \in [Blocks -> StaleBlock]
  /\ link = NoPair
  /\ ram = NoDir
  /\ ldir = NoDir
  /\ pc = "idle"
  /\ op = [v |-> Absent, size |-> 0]
  /\ relocated = FALSE
  /\ tired = FALSE
  /\ taken = {}
  /\ ret = "none"

\* lfs_dir_alloc and the first commit of the new directory: the block not
\* written first keeps its old contents, and the new revision starts from it.
DirAlloc(x, y, v) ==
  /\ Idle
  /\ link = NoPair
  /\ x # y
  /\ ldir' = [pair |-> <<x, y>>,
              rev |-> IF BlockCycles > 0 THEN AlignUp(disk[x].rev) ELSE disk[x].rev,
              off |-> 0, erased |-> FALSE]
  /\ taken' = {x, y}
  /\ op' = [v |-> v, size |-> 1]
  /\ pc' = "compact"
  /\ ret' = "none"
  /\ UNCHANGED <<disk, link, ram, relocated, tired>>

\* lfs_dir_commit of v through the caller's copy of the directory.
Commit(v, size) ==
  /\ Idle
  /\ ram # NoDir
  /\ ldir' = ram
  /\ taken' = {}
  /\ op' = [v |-> v, size |-> size]
  /\ pc' = IF ram.erased THEN "append" ELSE "compact"
  /\ ret' = "none"
  /\ UNCHANGED <<disk, link, ram, relocated, tired>>

\* Mutant: the space check forgets the size of the commit.
FitsAnything == ldir.off < Cap

Fits == ldir.off + op.size <= Cap

\* The commit does not fit: found out at one of its tags, so some may
\* already have been programmed.
AppendNospc ==
  /\ pc = "append"
  /\ ~Fits
  /\ \/ disk' = disk
     \/ disk' = [disk EXCEPT ![ldir.pair[1]] = Torn(@, ldir.off)]
  /\ pc' = "compact"
  /\ UNCHANGED <<link, ram, ldir, op, relocated, tired, taken, ret>>

AppendTags ==
  /\ pc = "append"
  /\ Fits
  /\ disk' = [disk EXCEPT ![ldir.pair[1]] = Torn(@, ldir.off)]
  /\ pc' = "appendcrc"
  /\ UNCHANGED <<link, ram, ldir, op, relocated, tired, taken, ret>>

\* A program of the append did not stick: compact into the other block.
AppendCorrupt ==
  /\ \/ pc = "append" /\ Fits
     \/ pc = "appendcrc"
  /\ disk' = [disk EXCEPT ![ldir.pair[1]] = Torn(@, ldir.off)]
  /\ pc' = "compact"
  /\ UNCHANGED <<link, ram, ldir, op, relocated, tired, taken, ret>>

AppendCrc ==
  /\ pc = "appendcrc"
  /\ disk' = [disk EXCEPT ![ldir.pair[1]] = Completed(@, ldir.off + op.size, op.v)]
  /\ ldir' = [ldir EXCEPT !.off = @ + op.size]
  /\ pc' = "sync"
  /\ UNCHANGED <<link, ram, op, relocated, tired, taken, ret>>

\* lfs_dir_compact: next revision, and evict the block if it is worn.
Compact ==
  /\ pc = "compact"
  /\ tired' = lfs_dir_needs_relocation(ldir)
  /\ relocated' = FALSE
  /\ ldir' = [ldir EXCEPT !.rev = Inc(@)]
  /\ pc' = IF lfs_dir_needs_relocation(ldir) /\ ~Super THEN "relocate" ELSE "erase"
  /\ UNCHANGED <<disk, link, ram, op, taken, ret>>

\* Mutant: the block that holds the directory is erased for the compaction.
EraseCurrent ==
  /\ pc = "erase"
  /\ \/ disk' = disk
     \/ disk' = [disk EXCEPT ![ldir.pair[1]] = ErasedBlock]
  /\ pc' = "prog"
  /\ UNCHANGED <<link, ram, ldir, op, relocated, tired, taken, ret>>

\* Erasing may leave the contents alone: FileBlockDevice::erase does nothing.
Erase ==
  /\ pc = "erase"
  /\ \/ disk' = disk
     \/ disk' = [disk EXCEPT ![ldir.pair[2]] = ErasedBlock]
  /\ pc' = "prog"
  /\ UNCHANGED <<link, ram, ldir, op, relocated, tired, taken, ret>>

CompactTags ==
  /\ pc = "prog"
  /\ disk' = [disk EXCEPT ![ldir.pair[2]] = Header(ldir.rev)]
  /\ pc' = "compactcrc"
  /\ UNCHANGED <<link, ram, ldir, op, relocated, tired, taken, ret>>

CompactCorrupt ==
  /\ \/ /\ pc = "erase"
        /\ UNCHANGED disk
     \/ /\ pc \in {"prog", "compactcrc"}
        /\ disk' = [disk EXCEPT ![ldir.pair[2]] = Header(ldir.rev)]
  /\ pc' = "relocate"
  /\ UNCHANGED <<link, ram, ldir, op, relocated, tired, taken, ret>>

CompactCrc ==
  /\ pc = "compactcrc"
  /\ disk' = [disk EXCEPT ![ldir.pair[2]] = Completed(@, 1, op.v)]
  /\ pc' = "compactsync"
  /\ UNCHANGED <<link, ram, ldir, op, relocated, tired, taken, ret>>

\* Mutant: the blocks of the pair do not swap roles.
CompactDoneNoSwap ==
  /\ pc = "compactsync"
  /\ ldir' = [ldir EXCEPT !.off = 1]
  /\ pc' = IF relocated \/ link = NoPair THEN "relink" ELSE "done"
  /\ UNCHANGED <<disk, link, ram, op, relocated, tired, taken, ret>>

\* Mutant: the parent is not told that the pair has moved.
CompactDoneUnlinked ==
  /\ pc = "compactsync"
  /\ ldir' = [ldir EXCEPT !.pair = Swap(@), !.off = 1]
  /\ pc' = IF link = NoPair THEN "relink" ELSE "done"
  /\ UNCHANGED <<disk, link, ram, op, relocated, tired, taken, ret>>

\* The compaction sticks: the pair swaps, and a pair that has changed, or is
\* new, has to be named by the parent before the commit counts.
CompactDone ==
  /\ pc = "compactsync"
  /\ ldir' = [ldir EXCEPT !.pair = Swap(@), !.off = 1]
  /\ pc' = IF relocated \/ link = NoPair THEN "relink" ELSE "done"
  /\ UNCHANGED <<disk, link, ram, op, relocated, tired, taken, ret>>

FreeBlocks == Blocks \ (taken \cup PairBlocks(link) \cup PairBlocks(ldir.pair))

\* lfs_dir_compact's relocate label, a block being free.
Relocate(b) ==
  /\ pc = "relocate"
  /\ ~Super
  /\ b \in FreeBlocks
  /\ ldir' = [ldir EXCEPT !.pair = <<@[1], b>>]
  /\ taken' = taken \cup {b}
  /\ relocated' = TRUE
  /\ tired' = FALSE
  /\ pc' = "erase"
  /\ UNCHANGED <<disk, link, ram, op, ret>>

\* Mutant: tired survives the decision to stay.
RelocateStayTired ==
  /\ pc = "relocate"
  /\ ~Super
  /\ tired
  /\ relocated' = TRUE
  /\ pc' = "erase"
  /\ UNCHANGED <<disk, link, ram, ldir, op, tired, taken, ret>>

\* lfs_alloc finds no block, the rest of the filesystem having taken them all,
\* but the relocation was for wear only: stay.
RelocateStay ==
  /\ pc = "relocate"
  /\ ~Super
  /\ tired
  /\ relocated' = TRUE
  /\ tired' = FALSE
  /\ pc' = "erase"
  /\ UNCHANGED <<disk, link, ram, ldir, op, taken, ret>>

\* The commit ends, leaving the caller with the copy d of the directory.
Return(answer, d) ==
  /\ ret' = answer
  /\ ram' = d
  /\ ldir' = NoDir
  /\ pc' = "idle"
  /\ relocated' = FALSE
  /\ tired' = FALSE

\* After this error the caller goes on with the copy d, or lets go of it.
ReturnError(error, d) ==
  \/ Return("err", NoDir)
  \/ error \in Kept /\ Return("err", d)

\* The superblock pair cannot move, or there is nowhere to move to.
RelocateNospc ==
  /\ pc = "relocate"
  /\ Super \/ ~tired
  /\ ReturnError("nospc", ram)
  /\ UNCHANGED <<disk, link, op, taken>>

\* The parent's own commit, atomic by the same protocol one level up.
Relink ==
  /\ pc = "relink"
  /\ link' = ldir.pair
  /\ pc' = "done"
  /\ UNCHANGED <<disk, ram, ldir, op, relocated, tired, taken, ret>>

\* The parent cannot be committed.  By then lfs_dir_orphaning_commit has
\* already stored the relocated directory in the caller's copy.
RelinkFails ==
  /\ pc = "relink"
  /\ ReturnError("parent", IF link = NoPair THEN NoDir ELSE ldir)
  /\ UNCHANGED <<disk, link, op, taken>>

Succeed ==
  /\ pc \in {"sync", "done"}
  /\ Return("ok", ldir)
  /\ UNCHANGED <<disk, link, op, taken>>

\* Any other error code of the device ends the commit where it stands.
IOError ==
  /\ pc \notin {"idle", "relink", "done"}
  /\ ReturnError("io", ram)
  /\ UNCHANGED <<disk, link, op, taken>>

\* Power is lost; what is on storage stays.
PowerLoss ==
  /\ pc # "idle" \/ ram # NoDir
  /\ pc' = "idle"
  /\ ram' = NoDir
  /\ ldir' = NoDir
  /\ relocated' = FALSE
  /\ tired' = FALSE
  /\ taken' = {}
  /\ UNCHANGED <<disk, link, op, ret>>

\* The directory is looked up by path, after a mount or between operations.
Fetch ==
  /\ Idle
  /\ link # NoPair
  /\ Readable(link)
  /\ ram # lfs_dir_fetch(link)
  /\ ram' = lfs_dir_fetch(link)
  /\ UNCHANGED <<disk, link, ldir, pc, op, relocated, tired, taken, ret>>

CommitStep ==
  \/ AppendNospc \/ AppendTags \/ AppendCorrupt \/ AppendCrc
  \/ Compact \/ Erase \/ CompactTags \/ CompactCorrupt \/ CompactCrc \/ CompactDone
  \/ \E b \in Blocks : Relocate(b)
  \/ RelocateStay \/ RelocateNospc
  \/ Relink \/ RelinkFails \/ Succeed \/ IOError

Next ==
  \/ \E x, y \in Blocks, v \in Value : DirAlloc(x, y, v)
  \/ \E v \in Value, size \in Sizes : Commit(v, size)
  \/ CommitStep
  \/ PowerLoss
  \/ Fetch

Spec == Init /\ [][Next]_vars

-----------------------------------------------------------------------------
(* Properties *)

InFlight == pc # "idle"

PcLabel == {"idle", "append", "appendcrc", "sync", "compact", "erase", "prog",
            "compactcrc", "compactsync", "relocate", "relink", "done"}

\* Every variable has the shape the code's types give it.
TypeOK ==
  /\ disk \in [Blocks -> Block]
  /\ link \in Addr \X Addr
  /\ ram \in Dir
  /\ ldir \in Dir
  /\ pc \in PcLabel
  /\ op \in [v : Value \cup {Absent}, size : 0..Cap]
  /\ relocated \in BOOLEAN
  /\ tired \in BOOLEAN
  /\ taken \subseteq Blocks
  /\ ret \in {"none", "ok", "err"}

\* Whenever power is lost, in the middle of an append, of a compaction or of
\* a relocation, the pair the parent names still holds a complete commit:
\* lfs_dir_fetch never answers LFS_ERR_CORRUPT for a linked directory.
AlwaysReadable == link # NoPair => Readable(link)

\* Once lfs_dir_commit has answered success, a fetch from storage returns the
\* value it committed, through any number of power losses and fetches, until
\* the next commit starts.
AckIsDurable == ret = "ok" => Visible = op.v

\* Between commits the caller's copy of the directory names the block, and
\* the offset in it, that a fetch would choose: an append through it goes
\* behind the last commit of the block every other reader looks at.
RamAgrees ==
  (Idle /\ ram # NoDir) =>
    /\ ram.pair = FetchPair(link)
    /\ ram.off = disk[ram.pair[1]].off

\* The pair behaves as AtomicDir: the value on storage only ever changes from
\* the one before the commit in flight to the one being committed.
Atomic == INSTANCE AtomicDir WITH
            cur <- Visible, pend <- IF InFlight THEN op.v ELSE Absent
ImplementsAtomicDir == Atomic!Spec

\* What a commit still has ahead of it: the blocks it can move to, the one
\* move for wear, and the steps up to the next decision.
StepsAhead ==
  [idle |-> 0, done |-> 1, sync |-> 1, relink |-> 2, compactsync |-> 3, relocate |-> 4,
   compactcrc |-> 5, prog |-> 6, erase |-> 7, compact |-> 8, appendcrc |-> 9, append |-> 10]

MovesAhead ==
  IF pc \in {"idle", "done", "sync", "relink"} THEN 0
  ELSE Cardinality(FreeBlocks)
       + (IF tired \/ pc \in {"compact", "appendcrc", "append"} THEN 1 ELSE 0)

Rank == 10 * MovesAhead + StepsAhead[pc]

\* A commit comes to an end: every step of it lowers Rank, a natural number,
\* whatever blocks turn out bad or worn (the relocation loop of
\* lfs_dir_compact).
CommitDescends == [][CommitStep => Rank' < Rank]_vars

-----------------------------------------------------------------------------
(* The inductive invariant behind AlwaysReadable, AckIsDurable and RamAgrees *)

\* A fetch of the pair {a, b} settles on a.
Beats(a, b) ==
  /\ a \in Blocks
  /\ b \in Blocks
  /\ a # b
  /\ disk[a].off > 0
  /\ disk[b].off = 0 \/ Newer(disk[a].rev, disk[b].rev)

\* One block of the linked pair beats the other.
LinkSettled ==
  link # NoPair => Beats(link[1], link[2]) \/ Beats(link[2], link[1])

\* d describes the linked pair as it is on storage.
InSync(d) ==
  /\ link # NoPair
  /\ d.pair = link \/ d.pair = Swap(link)
  /\ Beats(d.pair[1], d.pair[2])
  /\ d.rev = disk[d.pair[1]].rev
  /\ d.off = disk[d.pair[1]].off

\* The block being compacted into is not the one that holds the directory,
\* and the revision it gets beats the one there.
Compacting == {"erase", "prog", "compactcrc", "compactsync", "relocate"}

CompactionOK ==
  pc \in Compacting =>
    /\ ldir.pair[1] \in Blocks
    /\ ldir.pair[2] \in Blocks
    /\ ldir.pair[1] # ldir.pair[2]
    /\ Newer(ldir.rev, disk[ldir.pair[1]].rev)
    /\ pc \in {"compactcrc", "compactsync"} => disk[ldir.pair[2]].rev = ldir.rev
    /\ pc = "compactcrc" => disk[ldir.pair[2]].off = 0
    /\ pc = "compactsync" =>
         /\ disk[ldir.pair[2]].off = 1
         /\ disk[ldir.pair[2]].at[1] = op.v
    /\ link # NoPair /\ pc # "compactsync" =>
         /\ InSync(ram)
         /\ ldir.pair[1] = ram.pair[1]
         /\ ldir.pair[2] = ram.pair[2] \/ ldir.pair[2] \notin PairBlocks(link)
    /\ link # NoPair /\ ~relocated => PairBlocks(ldir.pair) = PairBlocks(link)

\* The working copy describes a pair that holds the committed value.
Carries(d) ==
  /\ Beats(d.pair[1], d.pair[2])
  /\ d.rev = disk[d.pair[1]].rev
  /\ d.off = disk[d.pair[1]].off
  /\ disk[d.pair[1]].at[d.off] = op.v

InFlightOK ==
  /\ InFlight => op.v \in Value
  /\ pc \in {"append", "appendcrc"} => InSync(ldir) /\ ldir = ram
  /\ pc = "compact" =>
       \/ link # NoPair /\ ldir = ram /\ InSync(ldir)
       \/ /\ link = NoPair
          /\ ldir.pair[1] \in Blocks
          /\ ldir.pair[2] \in Blocks
          /\ ldir.pair[1] # ldir.pair[2]
          /\ Newer(Inc(ldir.rev), disk[ldir.pair[1]].rev)
  /\ pc = "appendcrc" => Fits
  /\ pc \in {"sync", "relink", "done"} => Carries(ldir)
  /\ pc \in {"sync", "done"} => InSync(ldir)

IdleOK ==
  /\ Idle /\ ram # NoDir => InSync(ram)
  /\ ram # NoDir => link # NoPair
  /\ ret = "ok" => Idle
  /\ Idle => ldir = NoDir

IInv == TypeOK /\ LinkSettled /\ CompactionOK /\ InFlightOK /\ IdleOK /\ AckIsDurable
=============================================================================
