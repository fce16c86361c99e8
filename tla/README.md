# A formal model of littlefs_v2

This directory holds TLA+ specifications of the file system in `src/littlefs_v2/`
and of the VFS on top of it in `src/example/lfs_interface.cpp`, TLC
configurations that model-check them on small instances, and proofs, checked by
TLAPS, of what matters most for every instance. Paths and line numbers below are
those of the repository (`src/src/littlefs_v2/` unless another directory is named).

The code is a C++ fork of ARM's littlefs with 64-bit block addresses, block
devices that can grow, and a thread-safe VFS with a page cache. What has to be
right in it is what happens between two programs of the storage: power can be
lost there, a block can turn out bad there, an allocation there must not hand
out a block that somebody still needs. Above that, what has to be right is that
everybody who remembers something - a cache, an open handle, a window of the
allocator - remembers what the storage says.

## 1. Inventory

| Component | State | Operations | Talks to |
|---|---|---|---|
| Metadata pair (`lfs_commit.cpp`, `lfs_metadata.cpp`) | two blocks with a revision and a log each; a copy (`lfs_metadata_dir_t`) in every handle | fetch, commit by append, compaction, relocation, relinking by the parent, split, drop | device; allocator (relocation, split); parent's pair |
| Entries, iteration and handles (`lfs_metadata.cpp`, `lfs_commit.cpp`, `lfs_directory.cpp`) | tags of the log, ids of entries; `lfs->metadata_list`, ids and positions | lookup, create, delete, rename, compaction of tags, attributes; directory open, read, seek; fix-up of handles by every commit | metadata pair |
| Block allocator (`lfs_allocator.cpp`) | `lfs->free`: offset, size, i, ack, bitmap | `lfs_alloc`, `lfs_alloc_ack`, `lfs_alloc_drop`, growing | traversal of everything (`lfs_fs_rawtraverse`), device callback |
| File block list (`lfs_file_index.cpp`, `lfs_file.cpp`) | `file->ctz` (head, size), `block`, `offset`, `pos`, flags | find, extend, traverse, write, flush, relocate, truncate, sync | allocator; metadata pair for the sync |
| Open file (`lfs_file.cpp`) | flags, cache, committed structure: inline or list | open, read, write, seek, truncate, flush, sync, outline, inline | block list; allocator; metadata pair |
| Reading of files (`lfs_file.cpp`) | `file->cache`, `LFS_F_READING` | read, seek, truncate | device cache |
| Device access and caches (`lfs_device.cpp`) | read cache, write cache | read, write, flush, compare, sync, erase | block device |
| Directory tree and global state (`lfs_general.cpp`, `lfs_operations.cpp`, `lfs_commit.cpp`) | tails and hard tails of pairs; `gstate`, `gdisk`, `gdelta` | mkdir, create, remove, rename, mount, demove, deorphan, relocation of pairs | several metadata pairs per operation |
| Growth (`lfs_operations.cpp`, `lfs_interface.cpp`, `lfs_block_device.h`) | device size, `lfs->block_count`, stored `block_count` | `allocate_block`, `lfs_fs_grow`, mount | allocator, root's pair |
| VFS handle (`lfs_interface.cpp`) | pages with dirty bits, `_pos`, `_file_size`, its own `lfs_file_t` | open, read, write, seek, truncate, flush, close | `lfs_file_*` |
| VFS locking (`lfs_interface.cpp`, `lfs_toplevel.cpp`) | recursive mutex, `_is_open` | every call | lock hook of littlefs |
| Locking wrappers, devices and decorators, error mapping, streams, FUSE driver, benchmarks, tests | - | - | - |

How they interact. A VFS call holds a recursive mutex, changes pages, and on a
flush calls `lfs_file_write`/`lfs_file_sync`. A write extends the file's block
list in blocks from the allocator, which learns what is in use from a traversal
of the list of metadata pairs and of the open files. A sync commits the file's
structure to the metadata pair of its directory; the commit shifts the ids of
all other open handles, may compact the pair, split it or move it, and then
commits to the parent. Operations on the tree are several such commits,
announced in the global state that the commits carry along. All bytes go through
one read and one write cache. Running out of space calls back into the VFS,
which grows the device and commits to the root in the middle of the operation
that ran out.

Hard behaviours: power lost between any two programs; bad and worn blocks in the
middle of a commit; errors in the middle of a commit with copies of the directory
in several handles; stale lookahead windows; block lists that share their front
while one of them is written; files that change their form while they are
written; global state carried as differences by pairs that split, move and
disappear; caches whose validity depends on a position; handles on entries that
others move or delete; threads that look at a flag before they hold the lock.
`PROJECT.json` lists each under "hazards", at the line where it bites.

What makes each component correct:

* *metadata pair*: a linked pair always holds a complete commit; an acknowledged
  commit survives power losses; the copy in a handle agrees with storage; the
  pair looks like a cell that changes atomically; a commit ends.
* *entries and handles*: lookup, fetch and compaction agree on what is in a pair;
  a handle stands for the entry it was opened for or for none; a listing has
  every entry that was there throughout, once.
* *allocator*: never a block that is used or in flight; NOSPC only after a full
  turn; an allocation returns.
* *file list*: every position is looked up in the block that belongs there, in
  the committed and in the new version; no block of a version is programmed
  again; the traversal reports all of them.
* *open file*: it is an array of bytes with a position, whatever its form; a sync
  makes all of it durable or nothing; a call fails for want of space, or is refused
  and does nothing.
* *reading*: a read that looks nothing up continues where the position is.
* *device caches*: a read sees the newest bytes; after a flush or sync without
  error the device has them; no byte is programmed twice.
* *tree*: every operation changes the visible tree in one step or not at all;
  the repair after a power loss leaves nothing behind; no orphan goes
  unannounced; whatever names lead to is on the list.
* *growth*: nothing lies outside the device; the superblock says how large it is.
* *VFS handle*: reads see writes, a flush makes exactly them durable.
* *VFS locking*: calls exclude each other and give the mutex back.

## 2. Modules

| Module | Models | Abstract specification |
|---|---|---|
| `LfsMdir` | commits to one metadata pair, program by program | `AtomicDir` |
| `LfsMdirProofs` | theorems about `LfsMdir` | |
| `LfsEntries` | the tags in the pairs of a directory, and the handles on them | (history variables `want`, `hist`) |
| `LfsAlloc` | `lfs_alloc` turn by turn, and the operations around it | |
| `LfsAllocProofs` | theorems about `LfsAlloc`, and one about `LfsGrow` | |
| `CtzIndex` | index arithmetic of block lists | (reference definition in `MCLfsCtz`) |
| `LfsCtz` (extends `CtzIndex`), `LfsCtzProofs` | one file's blocks, programmed, relocated, synced, recovered; theorems | |
| `LfsFile`, `LfsFileProofs` | an open file, inline or a list, with space running out; theorems | `AtomicFile` |
| `LfsFileRead` (extends `CtzIndex`), `LfsFileReadProofs` | where the next byte read comes from; a theorem | |
| `LfsBdCache`, `LfsBdCacheProofs` | reads and writes of the device through the caches; theorems | (history variables `want`, `end`, `stable`) |
| `LfsTree`, `LfsTreeProofs` | operations on the tree as sequences of commits; theorems | `AtomicTree` |
| `LfsGrow` | growing the device under a mounted volume; a theorem about it is in `LfsAllocProofs` | |
| `VfsFile` | what the calls do to the page cache of a VFS handle | (history variables `pending`, `flushed`) |
| `VfsLocking` | the recursive mutex | |
| `VfsShared` (extends `VfsFile`), `VfsSharedProofs` | threads that make those calls under that mutex; theorems | |
| `MC*` | instances for TLC: sets, symmetry, views, reference definitions | |

How they compose. Each module takes from the ones below what those show.
`LfsEntries` and `LfsTree` take a commit to one pair as one step, which is what
`LfsMdir` shows of it (`ImplementsAtomicDir`, proved). `LfsFile` takes a block list as
its bytes, which is what `LfsCtz` shows (`FindLocates`, `OnlyFreshBlocks`, proved).
`LfsAlloc` takes a traversal as complete, which `LfsCtz` (`TraverseIsComplete`, proved)
and `LfsTree` (`ListIsComplete`, proved while no pair is relocated) show. `VfsShared`
puts the calls of `VfsFile` under the mutex of `VfsLocking`: its steps are made of
those of the mutex, so what is proved of the mutex holds of the calls.

### LfsMdir

One step is one program or erase, or a decision between two of them; `pc` names
where `lfs_dir_commit` stands. `ram` is the copy the caller keeps, `ldir` the one
`lfs_dir_orphaning_commit` makes of it (lfs_commit.cpp:900), `link` what the
parent has on storage. `AppendTags`/`AppendCrc` are the append of
`lfs_dir_relocating_commit`; `Compact` .. `CompactDone` are `lfs_dir_compact`, with
`Relocate*` its `relocate:` label; `Relink` and `RelinkFails` stand for the commit to
the parent. `Torn` and `Header` are what a cut or unfinished program leaves; blocks
start with old contents under any revision (`StaleBlock`), and `Erase` may leave
them alone, as `FileBlockDevice::erase` does.

Abstracted: contents are one value, so a commit replaces it; the size of a
commit is a number of cells; a CRC recognises every torn commit. `Kept` says after
which errors a caller may go on with its copy (an open file does, an operation on
a path fetches again).

### LfsEntries

The log of a pair is a sequence of tags (name, structure, attribute, create,
delete, tail, move state) and everything is computed from it the way the code
does: `Count` reads it forwards (`lfs_dir_fetchmatch`), `lfs_dir_get` backwards with
the shifts of `lfs_dir_getslice`, `Live` is what `lfs_dir_traverse` with its filter
lets a compaction keep, `Moved` the tags that `LFS_FROM_MOVE` expands to. A commit
appends while there is `Room`, else compacts, splits, or drops the pair. `hnd` are
the handles of `lfs->metadata_list`; `Shift` is the fix-up of
lfs_commit.cpp:813-856, `Settled` the loop at 858-867. Actions are calls: create,
sync, close, remove, rename (two commits, `Crash` may come between), attributes,
opening, reading and seeking a directory. The histories: `want` is the table of
entries that the calls should have left, `hist` what each handle was opened for and
what a listing has returned; its flags `upset` and `stirred` mark the
handles whose listing the code does not keep together (section 5).

### LfsAlloc

`AllocStep` is a turn of the loops in `lfs_alloc`. The rest of the file system
appears as what it does to the allocator: `Commit` (blocks become reachable or
free), `GiveUp`, `Ack`, `Remount`. `used` is what a traversal reports, `held` what an
operation has in its hands. Bits of the window that lie behind the bitmap are
read as anything (`Refill`). `Grow` is `allocate_block`, the callback and the
acknowledgement at lfs_allocator.cpp:70.

### CtzIndex, LfsCtz, LfsFileRead

`CtzIndex` has `lfs_ctz_index` as the code computes it (popcount and estimate) and
the choice of pointer of `lfs_ctz_find`. `LfsCtz` has the pointers each block was
programmed with, the file's `head`, `size`, `flags`, `block`, `offset`, `pos`, and the
committed structure; `FirstBlock`, `CopyBlock`, `AppendBlock` are the three outcomes
of `lfs_ctz_extend`, `Program` a round of `lfs_file_flushedwrite`, `Relocate`
`lfs_file_relocate`. The loops of `lfs_ctz_find` and `lfs_ctz_traverse` are functions of
the number of rounds, so that they can be reasoned about. Histories `chain`, `branch`, `disk.chain` say which blocks
should make up each version. `LfsFileRead` has the position, block, offset and
read cache of a file that is only read, and the shortcut of `lfs_file_rawseek`,
for seeks to any position.

### LfsFile

The file is a record `f` (flags, position, structure, buffer, list being written);
the functions of `lfs_file.cpp` are operators on such records, composed as the code
composes them: a write may outline, a flush copies what is behind the position by
writing it, a truncation may bring the file back inline, an extension is a write
of zeros. A call is one step, since the file is in its thread's hands meanwhile;
it gets a number of blocks (`room`), after which allocations fail, so that each
function meets NOSPC at each place. Calls that ask for more than `file_max_size` are
refused (`WriteTooMuch`, which moves an appending file to its end first, and
`GoTooFar`). `Open` also stands for what power loss and
close leave. `AtomicFile` says what a caller may count on; the refinement reads
the contents of the file out of whichever form it has.

### LfsBdCache

One step is a turn of the loop of `lfs_bd_read` or `lfs_bd_write`, or a call of the
device; a flush that validates reads back through the read cache. A task is
what the callers do with a block: `Erase` and write it from the start with
validation (blocks of a file), or `AppendTo` without, then sync and read back
(metadata). A program may be refused as corrupt, fail with an error, or store
something else and say nothing; a read may fail (`ReadFails`), and if it was a load,
the history `unloaded` says that `read_cache` claims bytes it does not have.

### LfsTree

A commit to one pair is atomic and may split the pair or relocate it. Every
operation is a `pc`-labelled sequence of commits: `Mkdir`, `MkdirPred`,
`MkdirParent`; `RemoveEntry`, `Unlink`; `RenameEntry`, `DeleteSource`, `Unlink`; each
after `Demove`, `FixHalfOrphan`*, `FixOrphan`*, `DeorphanDone`
(`lfs_fs_forceconsistency`). A relocation opens a second sequence inside the
operation (`reloc`): `RelinkParent`, `RelinkPred`, and `RelinkRest` when the parent
moved too, the loop of `lfs_dir_orphaning_commit`. A relocated pair is a new
member of `Pairs`; `kin` says which pairs share a block, which is what
`lfs_pair_cmp` compares, so that an old link still finds the old contents.
`Crash` may come between any two commits and recomputes the global state from the
deltas on the list, as mount does. `Tree` is the tree that lookups see, as a set of
paths; it refines `AtomicTree`, in which an operation is one step.

### LfsGrow

Counts only: device, stored count, `lfs->block_count`, blocks used and held.
Which block is handed out is a matter of `LfsAlloc`.

### VfsFile, VfsLocking, VfsShared

`VfsFile` has per handle the pages, `_pos`, `_file_size` and the contents of its
`lfs_file_t`; `FlushInternal` is the loop of `flush_internal`, page by page
(`WritePages`), with the results it ignores. `Failing` says what can fail besides
reads: pages that are loaded, as zeros then, and pages that are written; `Read`
ends where an `lfs_file_read` fails, and `TruncateFails` is a failing `lfs_file_truncate`,
after the flush in front of it. `pending` records what was asked of a handle since its last flush and
`flushed` what the flushes so far should have made durable. `VfsLocking` is the
recursive mutex with its nesting through `lfs_bd_cb_lock`. In `VfsShared` a call looks
at `_is_open` without the mutex (`Enter`), waits for it (`Lock`), makes its littlefs
calls, each with the assertion that the file is listed (`EnterCore`, `LeaveCore`),
and works and returns (`Return`).

## 3. What is checked

### Runs that pass

| Run | Question | Bounds | Distinct states |
|---|---|---|---|
| `MdirRuns` | Does a pair behave as an atomic cell through power losses, bad and worn blocks, errors, and does a commit end? | 3 blocks, 2 values, commits of 1 or 2 of 2 cells, revisions modulo 7, block_cycles 1 | 2,152,000 |
| `AllocRuns` | Is every block handed out free, NOSPC justified, and does an allocation return? | 4 blocks growing to 6, window 3 | 74,000 |
| `CtzList` | Do versions of a file stay intact while another is written? Is `lfs_ctz_index` right? | 30 bytes in blocks of 8, 7 blocks taken; index: 81 blocks of 128 bytes | 326,000 |
| `FileCalls` | Is a file an array of bytes while it changes form and space runs out? | 4 bytes in blocks of 3, inline up to 1 (writes) and 2 (truncation), 0 to 2 blocks per call | 31,000 |
| `BdCache` | Do reads see writes through two caches, and does the device get them? | 2 blocks of 4 bytes, caches of 2, programs of 2, 2 values | 2,740,000 |
| `DirEntries` | Do entries, listings and handles survive commits by others? | 3 names, 3 pairs of 8 tags, 3 commits, 1 file, 1 directory handle, 1 open at a time | 78,000 |
| `TreeSplit` | Are tree operations atomic, and is the repair complete? | 5 pairs of 1 entry, 3 names, 1 file, 4 operations, 2 relocations | 84,000 |
| `GrowRuns` | Does growing keep blocks inside the device and end? | 4 to 10 blocks by 2, operations of up to 4 | 360 |
| `VfsCalls` | Does a shared handle read what was written, flush exactly that, and give its mutex back? | 2 threads, 1 of which closes, 1 handle, pages of 2 bytes, 4 bytes, writes of 1 and 3 | 1,589,000 |

Power losses are not counted in any run: they may come at any time and any number
of times.

`MdirRuns`. `AlwaysReadable`: wherever power is lost a linked pair has a complete
commit. `AckIsDurable`: after "ok" a fetch returns the value committed. `RamAgrees`:
the copy appends where every reader looks. `ImplementsAtomicDir`: refinement of
`AtomicDir`. `CommitDescends`: a measure that every step of a commit lowers, so the
loop over bad blocks ends. Three blocks are
enough to have a pair and a block to move to; two cells tell an append that fits
from one that does not; modulus 7 is the smallest that
`RevModulus > 2 * (BlockCycles + 2)` allows, so that revisions wrap around after few
commits. `MCInit` lets one block carry old contents (the other block of a new pair
is overwritten anyway), `MCView` drops what no later step reads.

`AllocRuns`. A window of 3 does not divide 4 or 6, so windows straddle the end of
the device; one growth happens in the middle of operations. `FoundIsFree` holds
except after such a growth (`grown`, see 5).
`NospcJustified` says precisely what NOSPC means: every block was used or handed
out at some time since the last acknowledgement, or was marked in the part of an
older window that was still ahead then.

`CtzList`. Writes of 5 and of 8 bytes end inside and at the end of blocks. 30 bytes
are five blocks, so lists have blocks with one, two and three pointers, and blocks
are copied, appended, relocated and branched off in the middle. `OnlyFreshBlocks` and
`WritesApart` say that versions never change in place, `TraverseIsComplete` that the
allocator hears of every version, `FindLocates` that every position of both versions
is found, `WriterAtPosition` that the offset the writer reaches by counting is the
one `lfs_ctz_index` computes. `IndexIsPosition` compares the index with blocks laid
out end to end for the smallest block size littlefs allows, 128 bytes, and 8-byte
pointers.

`FileCalls`. Block size 3 and four bytes give every form: empty, inline for both
bounds, inline for one, one block, two blocks; writes of 1 and 3 bytes cross each of
the bounds in one call; positions behind the end make gaps. 0, 1 or 2 blocks per
call make a call fail before, in the middle of and after its first allocation. Writes
are asked for beyond the four bytes too, and refused.
`ImplementsAtomicFile` is the refinement of `AtomicFile`: every answer, the contents
and the synced bytes. `InlineFits`: what is committed inline fits the cache that it
is loaded into.

`BdCache`. A cache of two bytes in blocks of four means that writes fill the write
cache or are flushed half full (padded, because programs are of two bytes); a
read of three bytes crosses both caches and the device. `ReadsSeeWrites`: a read
that returns has the bytes last written, whichever of the three has them.
`StableOnDevice`: what a flush or sync has returned ok for is on the device, even
after the silent fault. Reads of the device fail at any turn, those of a check
too; from then on `ReadsSeeWrites` leaves out what is served from a cache that was not
filled (`unloaded`, see 5). `ProgramsOnce`: nothing is programmed twice between erases.
`AssertionsHold`: those of `lfs_device.cpp`. `MCView` drops what no later step reads: the
rest of a read that has all its bytes, the value of a task that writes no more,
`programmed` of blocks that are erased before they are programmed again.

`DirEntries`. Eight tags hold one or two entries with an update each, so that
three commits append, compact, split (the directory starts with entries) and
drop pairs; names sort before, between and behind each other. `HandlesFollow`: an
open file stands for the entry it was opened on, or for none once that is removed.
`ListingComplete`: a listing returns every entry that was there
throughout, none twice. `TellIsPlace`: a seek to n is n reads from the start.
`EntriesAsAsked`: what lookups find are the entries that the calls asked for, with
their contents and attributes, whatever was compacted, split, dropped or cut by a
power loss.

`TreeSplit`. With one entry per pair every second entry splits a directory and
every removal can drop a pair; three names are the fewest with which a new
directory is named in a pair that is not the last of its parent's, so that it is
linked in two commits. Four operations make a directory, fill it, move something
and remove something, each with the repair of what the one before left; with two
relocations a pair moves while its parent moves. `MountFindsGstate`: the deltas add up to what was
last written. `OrphansAnnounced`: a pair without a parent, or under a changed link,
is announced. `ListIsComplete`: whatever names lead to is on the list.
`RepairIsComplete`: after the repair nothing else is. `RepairDescends`: every round of
the repair leaves fewer pairs on the list that no name leads to.
`ImplementsAtomicTree`: refinement of `AtomicTree`.

`GrowRuns`. `BlocksBacked` and `CallsEnd`.

`VfsCalls`. Positions behind the end are sought and written, files truncated to
page boundaries, and the handle closed by one thread while the other waits for the
mutex. Reads fail at any page that comes from the file, and truncations that shorten
fail too. `ReadsAsWritten` allows exactly one thing besides the bytes written: a read
may pass over zeros of a gap that is neither cached nor in the `lfs_file_t` (see 5).
`DurableAsFlushed` compares the disk with what the flushes were asked for.
`Exclusive` and `MutexReturned` are what the mutex is for.

Deadlock checking is on except where the system stops: `DirEntries` (commits are
bounded), `GrowRuns` and `GrowStored` (a volume that grew does not mount again),
`VfsCalls` (a failed assertion ends the program).

### Runs that find the code at odds with what it says

| Run | Property | What happens |
|---|---|---|
| `TreeFailedRename` | `ImplementsAtomicTree` | The first commit of a rename fails; the prepared move stays in `gstate`, and the next commit hides, then deletes, the entry (lfs_general.cpp:398). |
| `FileRead` | `ContinuesAtPosition` | A read ends with a block, a seek goes into the next one, to an offset that the cache has of the first: the block is kept, and the next read returns bytes of it (lfs_file.cpp:782). |
| `GrowStored` | `GrownIsStored` | `lfs_fs_grow` commits the name of the superblock instead of its structure: the stored count never changes (lfs_operations.cpp:506). |

In `FileRead` a file of 31 bytes in five blocks is read by 1, 4 and 8 bytes through a
cache of a block, sought anywhere and truncated. `ContinuesAtPosition` says what the
comment at lfs_file.cpp:773-774 takes for granted: a reader that does not look its
block up is in the block and at the offset of its position. The shortest way to
break it has three steps: a read of a byte and one up to the end of the first
block, and a seek to the second byte of the next. Section 4 has what is proved of all
other seeks.

### Fairness

Liveness is only claimed for steps the code takes on its own. `AllocReturns`:
weak fairness of `AllocStep`, because `lfs_alloc` runs on its caller's stack until it
returns. `CallsEnd` of `LfsGrow`: the same for `Step`. `MutexReturned` of `VfsShared`:
weak fairness, per thread, of the steps it takes while it holds the mutex; nothing
is assumed of a thread that waits, and no claim is made that it gets the mutex,
which `std::recursive_mutex` does not promise. No thread has to make a call, power need not be lost, and an
operation need not be started. Termination of commits and of the repair is stated
as a measure that every step lowers (`CommitDescends`, `RepairDescends`) and needs no
fairness.

## 4. What is proved

All proofs are checked by TLAPS without omitted steps. Every theorem below is about
the specification that TLC runs, and says for every value of the constants what
the run shows on an instance.

`LfsMdirProofs`, from `MdirAssumption` (the capacity is positive, sizes fit,
`RevModulus > 2 * (BlockCycles + 2)`) and `CallerHypothesis` (`Kept` has at most
"nospc": after an error of the device or of the parent's commit, the caller fetches
before it commits again): `TypeCorrect`, `NeverUnreadable`, `Durability`,
`CopyAgreesWithStorage`, for any number of blocks, any capacity, any width of the
revision count and any `block_cycles`. None of the three properties is inductive:
`AckIsDurable` after an append depends on the copy naming the newer block, which
after a compaction depends on the new revision having been newer than the one it
replaced, also across the wrap-around. `IInv` adds: of the linked pair one block
beats the other (`LinkSettled`); a compaction goes into a block that does not hold
the directory, under a revision that beats the one that does (`CompactionOK`); the
working copy is in sync while it appends and carries the committed value
afterwards (`InFlightOK`); between commits the caller's copy is in sync (`IdleOK`).
The lemmas at the start are about sequence numbers (`NewerAsymmetric`, `IncIsNewer`,
`AlignUpIsNewer`) and about fetching (`FetchSettles`, `VisibleSettles`); then comes a
lemma per group of actions.

`Refinement`, in the same module and from the same assumptions: the pair implements
`AtomicDir`. What a fetch would return (`Visible`) changes in two kinds of steps only,
the program of a closing CRC and the parent's link; `SameVisible` and
`UnlinkedVisible` show that it stays in all others, from `IInv` before and after the
step, and each action then is one of `AtomicDir` (`Begin`, `Apply`, `Succeed`, `Fail`,
`Abandon`) or hidden.

Also in `LfsMdirProofs`: `Descent`, for any finite set of blocks: every step of a commit lowers
`Rank`. The rounds of the relocation loop are counted by the blocks not yet taken, so
one more fact is needed, `GivenUp`: the block that a compaction gives up on is still
taken or linked, and is not handed out again.

`LfsAllocProofs`, from `AllocAssumption` and `BitPerBlock` (the bitmap has a bit for
every block): `TypeCorrect` and `NeverHandedOutTwice`, for any number of blocks, any
window, with growth. The argument: since the acknowledgement the cursor has
passed `count - ack` blocks, whatever is in flight is among them, at most `ack`
blocks are ahead in the window, so those ahead are not those behind; and a block
ahead that was unmarked when the window was read is free still, because blocks
only become used by being handed out. It ends where `Grow` acknowledges under an
operation, which is why `FoundIsFree` and `IInv` speak of `~grown`.

Also there: `NospcIsJustified`, from `BitPerBlock`. `SInv` accounts for every
block behind the cursor and every mark ahead of it: used or handed out since the
acknowledgement, or marked in a window from before. When `ack` is down to zero the
cursor has passed every block (`FullTurn`, modular arithmetic), so all are accounted
for. It holds with growth in the middle too.

`VfsSharedProofs`: `MutexExcludes`, from an invariant of `VfsLocking` (the depth of the
mutex counts the scopes of its owner and nobody else is in one, for any set of
threads); and `AlwaysExclusive`, which is that invariant carried over to the calls,
every step of which takes a step of the mutex or leaves it alone (`StepRefines`).

Also in `VfsSharedProofs`, from `FileAssumption`, `SharedAssumption` and `PlainUse`:
`ReadsCorrect` and `FlushDurable`, for every size of pages, files, reads and writes and any
threads. `PlainUse` is the use for which the page cache is right: one `VFSFileObject` on
the file, not opened to append, room for what is written, truncations at ends of
pages, loads and writes that succeed; section 5 says what happens otherwise. Handles may be read-only or
write-only, and positions may be behind the end. Two facts are needed that no
property states; TLC checked them on the instance of `VfsCalls` before they were proved.
* `CacheOK`: a clean page has what the file has, a dirty one has zeros behind the
  end, and if the file is shorter than the handle says, the page of the last byte is
  dirty. Without the first a flush loses bytes, without the second a gap is not
  zeros, without the third the flush ends too early.
* `CallOK`: `_is_open` is looked at before the mutex is held, but once littlefs has let
  a truncation or a close pass, the handle is open until it is done. This is where
  exclusion is used (`HoldersOwn`).

The argument: `Seen` is the pages over the file. A flush writes the dirty pages in
order, and after page `k` the file agrees with `Seen` up to the end of that page
(`UpTo`, then `WritesAll`); a write patches the pages and what was asked for alike
(`WritePatches`, `ApplyWrite`); a cut at the end of a page keeps the pages in front of it
in agreement with the file (`PagesAsCut`, `ApplyResize`); then there is a lemma per call.

`NothingOutsideTheDevice`, at the end of `LfsAllocProofs`, is about an instance of `LfsGrow`
with a volume of its own: for every size and every step of growth that
`GrowAssumption` allows. The invariant adds that what is committed fits the device and
that nothing is held while it is not mounted.

`LfsBdCacheProofs`, from `CacheAssumption` (what `lfs_init` asserts of the sizes) and
`FailuresAreCorrupt` (a program or a read that fails is reported as corrupt, section 5
says what happens otherwise): `AlwaysReadsSeeWrites`, `AlwaysStableOnDevice` and
`AlwaysProgramsOnce`, for every size of blocks, caches, reads and programs, and with
`OneUnit` (`erase_size` is the size of a block, as the VFS configures it)
`AlwaysAssertionsHold`. The properties say what a read, a flush or a program finds;
`IInv` says why. `Pending`: `write_cache` continues the running task's block where its
flushed part ends, always at a multiple of `write_size` (the lemmas on multiples,
`ProgramFits`), so a program touches nothing flushed before, and it is full when it
is flushed in the middle of a task. `SeenAgrees`: where a caller may read through
`read_cache`, it has what the device has, unless its last load failed; `ChecksDevice`: whoever is about to compare
the device reads through a cache that was dropped first. `Running`: what a
comparison has covered so far is what it was compared with. `IInv` was checked by
TLC on the instance of `BdCache` before it was proved.

`LfsFileProofs`, from `FileAssumption` (a file is outlined and made inline at bounds that
are in order and no larger than a block, as lfs_file.cpp:574-577 and 818-820 take
them) and `OneBound`: `CommittedInlineFits` and `CallsAreAtomic`, for every size of a
block, every pair of bounds, every limit of space and every size of a file. `OneBound`
says that `Careful` holds or that the two bounds are one; section 5 says what the code
does otherwise, where a file between the bounds cannot be flushed any more. `IInv` is
what holds between two calls: the file has a `Shape`, it is not longer than
`MaxSize`, and it is the committed one unless it is dirty or being written. `Shape` says
which of the buffer, the list and the branch hold bytes that count: inline, the
buffer holds at least the size and at most `InlineUpTo`; being written as a list, the
branch is as long as the position; a file outlined just now, whose head is
still inline, has nothing behind the position, so that its flush has nothing to
copy from a list that is not there. `Shape` was checked by TLC before it was proved.
The operators are the lemmas: whatever `lfs_file_flushedwrite` gets is the contents
with the bytes put at the position, or with a front of them and LFS_F_ERRED (`Wrote`);
writes compose (`WroteThen`), so filling a gap and then writing is one write; a flush
copies the tail and keeps all bytes, also when it fails in the middle (`Flushed`).
`CallsAreAtomic` then takes each call to one action of `AtomicFile` (`ReadSteps`,
`WriteSteps`, `SeekSteps`, `TruncateSteps`, `SyncSteps`, `OpenSteps`).

`LfsCtzProofs`, from `CtzAssumption`, `CtzListAssumption` and `RoomForPointers`: a block has
room for the pointers that the estimate in `lfs_ctz_index` allows for, as far as a
file can grow (with 8-byte pointers: up to block 8190 for blocks of 128 bytes, up
to block 2^61 - 2 for blocks of 512). `PositionsFound`: for every position there is one
block and one offset in the layout of the file (`At`), and `lfs_ctz_index` returns
them; this is `IndexIsPosition` for all sizes. With `FirstProgramsSucceed` (the first
program into a new block does not fail, section 5 says what happens otherwise):
`FindCorrect`, `TraverseCorrect`, `WriterApart`, `WriterInPlace` and `VersionsKept`, for any set of
blocks, any size of files and writes and any sequence of failing programs after the
first. None of these is inductive. `IInv` says that the file and its committed version are
lists with the right pointers and as many blocks as their sizes need (`VersionIn`),
that they are the same unless the file is dirty, and of the writer (`WriterOK`) that
its list is one block longer than the index of its position and that its last block
is in no other version; TLC checked it on the instance of `CtzList` first. The
argument in layers:
* Numbers. `UpTo` is induction for a property given as the set of the numbers that
  have it, through the least element of the others. `Power` counts the subsets of a
  set to get `2^(k+1) = 2 * 2^k`; `PopcountBefore` relates the bits of `i` and of `i - 1`.
* Positions. `IndexRight`: where the estimate and its correction by the popcount
  end; `NextPosition`: the byte behind a full block comes after the `ctz + 1`
  pointers of the next. `PositionAt` follows by `UpTo`.
* Lists. `SkipInReach`: the pointer that `lfs_ctz_find` picks is one the block has,
  and does not lead past the target. `Loop` says that a loop counted by rounds has a
  solution; `FindsBlock`, `TraversesList` and `ExtensionOf` are its three uses.
* Steps. `ListGrows` and `ListReplaced`: appending a block, or putting another in
  the place of the last, gives a list again and leaves those alone that share its
  front. `NeededReported` gives the allocator's view, `FreeBlockIsFree` that a block
  taken is in no version, and then there is a lemma per action.

`LfsFileReadProofs` takes what is known of positions from `LfsCtzProofs`, of which it is an
instance: `MisledOnlyAtBlockEnd`, from `ReaderAssumption` and `RoomForPointers`. It says that
`ContinuesAtPosition`, which `FileRead` finds violated, fails in no other way: it holds in
every behaviour in which no seek keeps the block while the offset is at the end of one
(`SeeksFromInside`, an action property and a hypothesis of the theorem). Seeks go to any
position otherwise, into blocks too. `ReadInv`: a reader is at its position; or behind
the end of a block, and then its position is the start of the next, which is
the case where the block it remembers is not that of its position; or behind the end
of the file, where a truncation has left it. A seek out of the second case is the one
that is excluded; out of the other two the shortcut is right, because what it compares
is of the block of the position. TLC checked the same, with seeks restricted in
this way, on the instance of `FileRead` first.

`LfsTreeProofs`, from `TreeAssumption` and `Undisturbed`: `MountAlwaysFindsGstate`,
`ListAlwaysComplete`, `OrphansAlwaysAnnounced`, `RepairAlwaysComplete` and
`RepairAlwaysDescends`, for any finite set of pairs, any capacity, any names and files, any
number of operations and power lost anywhere. `Undisturbed` is `MaxRelocs = 0` and
`MaxFails = 0`: pairs split, join and leave, but none is relocated, and no commit ends
with an error. Section 5 says which of the properties fail after an error, and of two
of the ways to relocate; that they hold of the relocations `TreeSplit` allows is
what TLC checks. `IInv` is, beside the types, a `Shape` of the disk, a place for every
value of `pc` (`PcOK`), and the sum of the deltas with the pair that is not linked
yet (`Sum`). `Shape` says that the list is one thread that never returns (`Threaded`),
every pair a name leads to is on it and begins a directory (`Named`), under one name
that no pending move hides (`NamedOnce`), one move at most is pending and is at an
entry that is there (`OneMove`), and what no name leads to is empty (`OrphansEmpty`).
`PcOK` says what the operation in progress has left undone: which pairs are orphans,
which move is pending, that both are announced, and that the new directory continues
the list behind the pair it will be put behind (`NewBehind`). None of the properties
is inductive: a rename shows the moved directory in one place only because it was
named once before and is not moved below itself. TLC checked `IInv` on an instance
of five pairs before it was proved. The argument in layers:
* Walks. `List`, `Chain` and `Directories` are computed round by round; `WalkIs`,
  `NodesFromIs` and `DirectoriesAre` show that they are least closed sets (`WalkOf`,
  `OwnedFrom`), by counting the rounds, and from there on nothing is computed any more.
* Sums. `GatherAdd`: a pair more adds its delta; `GatherChanged`: a commit that writes
  `Change` to a pair on the list makes the sum the state it commits.
* Shapes, of any disk. What each kind of change does to the list, to the tree and to
  the orphans: a pair skipped (`Skipped`), linked (`Linked`), parted (`Parted`), an entry
  inserted, deleted, hidden, or copied (`Inserted`, `Deleted`, `Hidden`, `Moved`). `Moved`
  is the one that needs the tree: replacing an entry of an empty directory and hiding
  the source leaves every pair reachable, because the target is not below what moves.
* Commits. `Written`: a commit that splits is the commit that does not, and then `Parted`.
  `Through` is what is known after any commit.
* Actions: a lemma each. `NotBelow` links `d \notin Under(o)`, which the callers of a
  rename see to, with the tree.

`LfsTree` names the finite sets it counts in (`IsFiniteSet(Pairs)`), which the proofs
on sums and on rounds need and the 64-bit block addresses of the code give.

Only model-checked: `LfsEntries`, `LfsTree` with relocations, and `ImplementsAtomicTree`. Out
of the prover's reach: liveness under fairness and `ENABLED` (`AllocReturns`, `CallsEnd`,
`MutexReturned`). `LfsEntries` computes what is visible by reading logs, and its invariants
relate that to histories of a whole run: that a log read backwards agrees with one
read forwards is an induction over those sequences that would have to be carried
through every commit. `ImplementsAtomicTree` compares sets of paths before and after a
step; the lemmas on `NodesFrom` say which pairs names lead to and not yet by which
paths. `IndexIsPosition` is what `PositionsFound` says in numbers; as it stands it is
stated of the operator of `MCLfsCtz`.

## 5. Behaviours of the code that the passing runs exclude

Each of these was met while modelling. Most are excluded by a constant, and the
given change of a configuration makes the named property fail.

Metadata pair, in `MdirRuns`
* `Kept = {"nospc", "io"}`: `RamAgrees` and `AckIsDurable` fail. `lfs_dir_compact`
  returns any error but CORRUPT of `lfs_dir_commit_crc` (lfs_commit.cpp:470) without
  restoring anything. When the error comes after the closing CRC is on storage, the
  other block is the newer one while an open file's copy still names the old one; a
  later sync appends there, answers success, and the next fetch does not see it.
* `Kept = {"nospc", "parent"}`: `RamAgrees` and `AlwaysReadable` fail. The relocated pair
  is stored in the caller's copy before the parent is committed (lfs_commit.cpp:912);
  if that fails, later commits go to a pair nobody links to.

Entries and handles, in `DirEntries`
* `Careful = {"attr"}`: `HandlesFollow` fails. Removing the last entry of a pair that has
  a tail, while a file is open on it, makes the handle's pair null
  (lfs_commit.cpp:829-836); the loop that follows (858-867) takes it for a handle
  whose entry was split off and attaches it to the first entry of the tail, whose
  contents the next sync replaces.
* `Careful = {"last"}`: `EntriesAsAsked` fails. `lfs_set_attribute` and
  `lfs_remove_attribute` do not call `lfs_fs_forceconsistency` (lfs_general.cpp:504-548);
  with a move pending after a power loss, the commit carries the move out and the
  attribute goes to the id the entry had before.
* Excluded by `Missed`: while a move is pending, `lfs_dir_fetchmatch` shifts the place of
  a name that is not there but compares it with the unshifted count
  (lfs_metadata.cpp:664-697), so that a lookup can end with NOENT in the pair of the
  moved entry although the name is in a pair behind that one. Names in that pair and
  in pairs in front of it are always found. The first operation that changes the tree ends
  this state.
* Excluded by the flag `upset`: deleting the entry that a directory handle is about to
  return makes that handle's pair null too (lfs_commit.cpp:832), and the next
  `lfs_dir_read` fails with CORRUPT; finishing a pending move under a directory handle
  shifts its ids so that an entry is returned twice; a handle left on a pair that is
  dropped comes to stand for whatever the pair is used for next.
* Excluded by the flag `stirred`: entries that come before the place of a handle shift its
  id but are no part of its position, so that `lfs_dir_seek` to what `lfs_dir_tell`
  returned leads elsewhere; a creation while the position is below 2 moves the
  position past ".".
* `lfs_dir_read` returns 0 per entry and NOENT at the end; lfs.h:996-997 says a
  positive value and 0.

Allocator, in `AllocRuns`
* `INVARIANT FoundIsFreeWhenGrown` instead of `FoundIsFree` fails. After growing,
  `lfs_alloc` acknowledges in the middle of the operation it serves
  (lfs_allocator.cpp:70) and can hand out a block again that the operation holds.
* `BitmapBits = 3, Window = 6`: `FoundIsFree` and `NospcJustified` fail. `lfs_alloc` opens
  windows of `16 * lookahead_size` blocks (lfs_allocator.cpp:75) although
  lfs.h:256-257 counts 8 blocks per byte.
* `NospcJustified` has the exception `stale` because lfs_allocator.cpp:60 ("check if we
  have looked at all blocks since last ack") counts blocks still ahead in an older
  window as looked at: they may have been free since before the acknowledgement.

Files
* `AtStart = TRUE, Faults = {"corrupt"}, Chunks = {3, 8}, Marks = {0, 12}` in `CtzList`:
  `OnlyFreshBlocks` fails (in the proofs `FirstProgramsSucceed` excludes it). The first program into a fresh block meets a bad block; the
  traversal for the relocation (lfs_file.cpp:660) starts at the new block with the
  old index and misses the front of the list.
* The same with `Faults = {"io"}`: `FindLocates` and `TraverseIsComplete` fail. After such
  an error `LFS_F_WRITING` stays set and the next flush (lfs_file.cpp:406) publishes a
  head one block ahead of the size.
* `lfs_ctz_traverse` reports `heads[0]` also when a block has one pointer
  (lfs_file_index.cpp:222), so the block before is counted twice by `lfs_fs_size`;
  `TraverseIsComplete` is about sets.
* `lfs_ctz_index` is only right while a block has room for the pointers its estimate
  assumes: with blocks of `8 * k` bytes it first fails at index `2^(k-3) - 1`
  (lfs_file_index.cpp:14), beyond what the assertion at lfs_general.cpp:572 excludes
  for tiny blocks. With 128 bytes that is block 8191. `RoomForPointers` excludes it
  in the proofs.
* `Careful = FALSE` in `FileCalls`: `ImplementsAtomicFile` fails, with an answer that is not
  NOSPC. A truncation makes a file inline up to an eighth of a block
  (lfs_file.cpp:818-820), a write outlines it above a sixteenth (574-577); a write into
  the middle of a file between the two outlines it, and the flush then copies the
  tail from `LFS_BLOCK_INLINE` and fails with CORRUPT, again at every sync. With
  `InlineUpTo = 1`, the two bounds equal, the run passes.
* `AtomicFile` allows a failed call to move the position, because a flush that runs out
  of space while it copies the tail does not put it back (lfs_file.cpp:366-380), and a
  sync of a file with `LFS_F_ERRED` to answer ok without doing anything
  (lfs_file.cpp:418-421).

Device caches, in `BdCache`
* `Faults = {"io"}`, or `ReadFaults = {"io"}`: `AssertionsHold` fails. A program, or the read
  that checks it, that fails with another error than CORRUPT leaves its block in the
  write cache (only CORRUPT makes the callers drop it, lfs_commit.cpp:500,
  lfs_file_index.cpp:179), and the next write to another block asserts that it is
  empty (lfs_device.cpp:303).
* Excluded by `unloaded`: `lfs_bd_read` sets the block, the offset and the size of
  `read_cache` before it asks the device, and leaves them set when that fails
  (lfs_device.cpp:155-170). The caller gets the error; the next read of the same place
  is served from the cache, without an error, with whatever its buffer has. Without
  this conjunct `ReadsSeeWrites` fails in `BdCache`, with any error of the read. Another load
  or a check, which drops the cache, ends it. The proofs make the same exception.
* `EraseSize = 2`: `AssertionsHold` fails. `lfs_bd_rawread` asserts that a transfer lies in
  one unit of `erase_size` (lfs_device.cpp:21), but a load of the read cache begins where
  the caller reads, aligned to `read_size` only, and runs on for a whole cache.

Tree, in `TreeSplit`
* `MaxFails = 1`: `MountFindsGstate`, `OrphansAnnounced` and `RepairIsComplete` fail, and
  `ImplementsAtomicTree` as in `TreeFailedRename`. A commit that fails leaves what was
  prepared for it: a pending move in `gstate`, the stolen delta of a pair about to be
  dropped in `gdelta` (lfs_commit.cpp:923), and a difference written to the own pair of a
  new directory whose parent was not committed.
* `Relocating = {"heads", "tails"}`: `OrphansAnnounced` fails. The commit to the pair in
  front writes a soft tail (lfs_commit.cpp:1089) whatever was there, so relocating a
  pair that a hard tail leads to cuts its directory in two.
* `Relocating = {"heads", "unseen"}`: `MountFindsGstate` fails. `Unseen` lists when the list
  does not show a relocation what it has to see: the pair of a new directory already
  holds a part of the global state (`mkdir` with a repair behind it), or an entry is
  only in the new contents of a pair that the list does not have yet, so that the
  allocator misses what it names and `lfs_fs_parent` finds the old entry or none, or
  the parent of a relocated pair lies behind it on the list and moves too, when
  `lfs_fs_deorphan` goes back and forth between old and new.
* `RelinkPred` has the assertion of `lfs_dir_relocating_commit` on its `pdir` argument as
  a guard: finishing a move in the pair in front fails it when the moved entry is the only one.
* In the code a compaction may split a pair and relocate it; the second pair's delta
  is then on no list until the relocation is linked. In the model a pair does one or
  the other in a commit.
* `gstate.orphans = 0` whenever `pc = "ready"` fails: if power is lost after an orphan
  left the list and before the bit is cleared, `lfs_fs_deorphan` subtracts what it
  found, nothing (lfs_operations.cpp:425), and every operation searches the list
  again until the volume is mounted without the bit; lfs_general.cpp:202 says
  "needed at most once after poweron".
* A rename of a directory below itself is not refused by the code and not an input
  of the model.

Growth
* `stored = device` whenever `pc = "off"` fails: the device is larger at once
  (lfs_interface.cpp:77), so the volume does not mount again after a power loss,
  although architecture_deep_dive.md:58 calls growing atomic.

VFS, in `VfsCalls`
* `ReadByte` of a gap that is not cached: `read` counts what `lfs_file_read` did not
  fill (lfs_interface.cpp:199) and leaves the caller's buffer as it was. This is the
  exception `Unfilled` of `ReadsAsWritten`.
* `Truncations = {1, 3}, MaxSize = 5, Gaps = FALSE`: `ReadsAsWritten` fails. The page the
  new end falls into keeps the bytes behind it (lfs_interface.cpp:254), and they come
  back when the file is extended.
* `Handles = {h1, h2}, Truncations = {}, Gaps = FALSE`: `ReadsAsWritten` and
  `DurableAsFlushed` fail. Each handle syncs the file as its own `lfs_file_t` has it
  (lfs_interface.cpp:175).
* `Access = {"read", "write", "append"}`: `ReadsAsWritten` and `DurableAsFlushed` fail.
  Writes go to `_pos` and pages are appended (lfs_interface.cpp:219).
* `Access = {"write"}`: `aborted` becomes TRUE also when nobody closes. Loading a page reads
  through a handle that `lfs_file_read` asserts to be readable (lfs_interface.cpp:147).
* `Failing = {"write"}`: `DurableAsFlushed` fails. Results of the writes of a flush are
  dropped and pages marked clean (lfs_interface.cpp:170).
* `Failing = {"load"}`: `ReadsAsWritten` fails. The result of the read that loads a page is
  dropped (lfs_interface.cpp:147): a write into a part of the page makes it dirty, with
  zeros in the rest, and the next flush writes them over the file.
* `aborted` becomes TRUE in the run itself, and no property forbids it: two threads find
  the handle open before either holds the mutex, and the second `lfs_file_close` asserts
  (lfs_interface.cpp:129), or a write finds it closed when it loads a page. With
  `Closers = {}` it stays FALSE. If the page of such a write is cached, it succeeds on a
  page nobody will flush (lfs_interface.cpp:213).

## 6. Not modelled

* The contents of tags (sizes, the xor chain of the log), CRC collisions, paths with
  several components.
* Renames between two directories at the level of tags (`LfsEntries` has one
  directory, `LfsTree` has several without tags); the attributes of `lfs_file_opencfg`.
* The superblock's expansion, which happens with `block_cycles` and not in the VFS's
  configuration of -1; the search for the block size at mount. What a mount gathers is
  in `LfsTree` (`Crash`), what it refuses in `LfsGrow`.
* The commit of the block count inside another commit and the global state it
  writes meanwhile (lfs_commit.cpp:491): `LfsGrow` has counts only.
* The locking wrappers of `lfs_toplevel.cpp`: a lock, a call, an unlock each, which is
  `EnterCore` and `LeaveCore` of `VfsLocking`.
* Memory and file devices store and return bytes; encryption, statistics, fault
  injection wrap single calls. Lifetime of VFS objects, the stream buffer, error
  code tables, the FUSE driver: no state that several steps share.

## 7. Plan of extensions

1. `LfsTree`: a relocation while a pair splits, and the nested commit of `lfs_fs_grow`
   with the global state it carries.
2. `LfsEntries`: two directories, so that the handles on both ends of a rename
   follow, and the directory entries of `LfsTree` get ids.
3. Proofs: what paths lead to in `LfsTree`, for `ImplementsAtomicTree`; a relocation of a
   pair that no operation is about, for `MountFindsGstate`.
