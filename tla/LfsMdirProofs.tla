---------------------------- MODULE LfsMdirProofs ----------------------------
(***************************************************************************)
(* The metadata pair keeps its promises for every number of blocks, every  *)
(* block size, every width of the revision count and every setting of      *)
(* block_cycles.                                                           *)
(***************************************************************************)
EXTENDS LfsMdir, FiniteSetTheorems, TLAPS

\* When the guarantees hold: a caller that meets an error of the device, or of
\* the parent's commit, fetches the directory before it commits again.
CallerHypothesis == Kept \subseteq {"nospc"}

-----------------------------------------------------------------------------
(* Revision counts *)

\* The modulus of wear levelling is odd, positive and small enough for a
\* revision count aligned to it to stay ahead of the one it started from.
LEMMA CycleModulusBound ==
  /\ CycleModulus \in Nat \ {0}
  /\ 2 * CycleModulus < RevModulus
BY MdirAssumption DEF CycleModulus

\* lfs_scmp orders two revisions in at most one way.
LEMMA NewerAsymmetric ==
  ASSUME NEW a \in Rev, NEW b \in Rev, Newer(a, b)
  PROVE  ~Newer(b, a)
BY MdirAssumption DEF Newer, Rev

\* The next revision beats the one before it, also when the count wraps.
LEMMA IncIsNewer ==
  ASSUME NEW a \in Rev
  PROVE  Inc(a) \in Rev /\ Newer(Inc(a), a)
BY MdirAssumption DEF Newer, Rev, Inc

\* The revision a new pair starts from, aligned to the modulus of wear
\* levelling, makes the first compaction beat what its sibling still holds.
LEMMA AlignUpIsNewer ==
  ASSUME NEW a \in Rev
  PROVE  AlignUp(a) \in Rev /\ Newer(Inc(AlignUp(a)), a)
<1> DEFINE n == a + (CycleModulus - 1)
<1> DEFINE up == lfs_alignup(a, CycleModulus)
<1>1. n \in Nat
  BY CycleModulusBound DEF Rev
<1>2. n % CycleModulus \in 0..(CycleModulus - 1)
  BY <1>1, CycleModulusBound
<1>3. up \in a..n /\ up \in Int
  BY <1>1, <1>2, CycleModulusBound DEF Rev, lfs_alignup
<1> HIDE DEF up
<1>4. AlignUp(a) = IF up >= RevModulus THEN up - RevModulus ELSE up
  BY DEF AlignUp, up
<1>5. QED
  BY <1>3, <1>4, CycleModulusBound, MdirAssumption DEF Newer, Rev, Inc

-----------------------------------------------------------------------------
(* Fetching *)

\* Of a pair with one block that beats the other, a fetch settles on that
\* block, in whichever order the parent names the two.
LEMMA FetchSettles ==
  ASSUME TypeOK, NEW a, NEW b, Beats(a, b)
  PROVE  /\ FetchPair(<<a, b>>) = <<a, b>>
         /\ FetchPair(<<b, a>>) = <<a, b>>
         /\ Readable(<<a, b>>)
         /\ Readable(<<b, a>>)
<1>1. /\ disk[a].rev \in Rev /\ disk[b].rev \in Rev
      /\ disk[a].off \in Int /\ disk[b].off \in Int
      /\ a # b /\ disk[a].off > 0
      /\ disk[b].off = 0 \/ Newer(disk[a].rev, disk[b].rev)
  BY DEF TypeOK, Beats, Block
<1>2. Newer(disk[a].rev, disk[b].rev) => ~Newer(disk[b].rev, disk[a].rev)
  BY <1>1, NewerAsymmetric
<1>3. QED
  BY <1>1, <1>2 DEF FetchPair, FetchOrder, Swap, Readable

\* What a fetch of the linked pair then returns.
LEMMA VisibleSettles ==
  ASSUME TypeOK, link # NoPair, NEW a, NEW b, Beats(a, b),
         link = <<a, b>> \/ link = <<b, a>>
  PROVE  Visible = disk[a].at[disk[a].off]
<1>1. FetchPair(link) = <<a, b>> /\ Readable(link)
  BY FetchSettles
<1>2. FetchPair(link)[1] = a
  BY <1>1
<1>3. QED
  BY <1>1, <1>2 DEF Visible

\* A directory in sync with storage is the one a fetch returns.
LEMMA InSyncVisible ==
  ASSUME TypeOK, NEW d \in Dir, InSync(d)
  PROVE  Visible = disk[d.pair[1]].at[d.off]
<1>1. PICK a \in Addr, b \in Addr : d.pair = <<a, b>>
  BY DEF Dir
<1>2. link = <<a, b>> \/ link = <<b, a>>
  <2>1. PICK x \in Addr, y \in Addr : link = <<x, y>>
    BY DEF TypeOK
  <2>2. QED BY <1>1, <2>1 DEF InSync, Swap
<1>3. Beats(a, b) /\ link # NoPair
  BY <1>1 DEF InSync
<1>4. Visible = disk[a].at[disk[a].off]
  BY <1>2, <1>3, VisibleSettles
<1>5. QED
  BY <1>1, <1>4 DEF InSync

LEMMA InSyncVisibleNext ==
  (TypeOK => \A d \in Dir : InSync(d) => Visible = disk[d.pair[1]].at[d.off])'
<1>1. TypeOK => \A d \in Dir : InSync(d) => Visible = disk[d.pair[1]].at[d.off]
  BY InSyncVisible
<1>2. QED
  BY <1>1, PTL

\* The pair a directory in sync with storage describes is settled.
LEMMA InSyncSettles ==
  ASSUME NEW d \in Dir, InSync(d)
  PROVE  LinkSettled
<1>1. PICK a \in Addr, b \in Addr : d.pair = <<a, b>>
  BY DEF Dir
<1>2. QED
  BY <1>1 DEF InSync, LinkSettled, Swap

LEMMA InSyncSettlesNext == (\A d \in Dir : InSync(d) => LinkSettled)'
<1>1. \A d \in Dir : InSync(d) => LinkSettled
  BY InSyncSettles
<1>2. QED
  BY <1>1, PTL

-----------------------------------------------------------------------------
(* Initial states *)

LEMMA NoDirType == NoDir \in Dir /\ NoPair \in Addr \X Addr
BY MdirAssumption DEF NoDir, NoPair, Dir, Addr, Rev

LEMMA StaleBlockIsBlock == StaleBlock \subseteq Block
<1>1. ErasedBlock \in Block
  BY MdirAssumption DEF ErasedBlock, Block, Nothing, Rev
<1>2. ASSUME NEW r \in Rev, NEW v \in Value
      PROVE  Completed(Header(r), 1, v) \in Block
  BY MdirAssumption DEF Completed, Header, Block, Nothing, Rev
<1>3. QED
  BY <1>1, <1>2 DEF StaleBlock

LEMMA InitInvariant == Init => IInv
<1> SUFFICES ASSUME Init PROVE IInv
  OBVIOUS
<1>1. TypeOK
  <2>1. disk \in [Blocks -> Block]
    BY StaleBlockIsBlock DEF Init
  <2>2. op \in [v : Value \cup {Absent}, size : 0..Cap]
    BY MdirAssumption DEF Init
  <2>3. QED
    BY <2>1, <2>2, NoDirType DEF Init, TypeOK, PcLabel
<1>2. LinkSettled /\ CompactionOK /\ InFlightOK /\ IdleOK /\ AckIsDurable
  BY DEF Init, LinkSettled, CompactionOK, Compacting, InFlightOK, InFlight, IdleOK, Idle, AckIsDurable
<1>3. QED
  BY <1>1, <1>2 DEF IInv

-----------------------------------------------------------------------------
(* What the device does to a block *)

LEMMA TornFacts ==
  ASSUME NEW b \in Block, NEW o \in 0..Cap
  PROVE  /\ Torn(b, o) \in Block
         /\ Torn(b, o).rev = b.rev
         /\ Torn(b, o).off = o
         /\ o > 0 => Torn(b, o).at[o] = b.at[o]
BY MdirAssumption DEF Torn, Block

LEMMA CompletedFacts ==
  ASSUME NEW b \in Block, NEW o \in 1..Cap, NEW v \in Value \cup {Absent}
  PROVE  /\ Completed(b, o, v) \in Block
         /\ Completed(b, o, v).rev = b.rev
         /\ Completed(b, o, v).off = o
         /\ Completed(b, o, v).at[o] = v
BY MdirAssumption DEF Completed, Block

LEMMA HeaderFacts ==
  ASSUME NEW r \in Rev
  PROVE  /\ Header(r) \in Block
         /\ Header(r).rev = r
         /\ Header(r).off = 0
BY MdirAssumption DEF Header, Block, Nothing

LEMMA ErasedFacts == ErasedBlock \in Block /\ ErasedBlock.off = 0
BY MdirAssumption DEF ErasedBlock, Block, Nothing, Rev

\* A step that changes no block's revision, end of log or value there
\* leaves what a fetch sees alone.
Untouched ==
  \A x \in Blocks :
    /\ disk'[x].rev = disk[x].rev
    /\ disk'[x].off = disk[x].off
    /\ disk[x].off > 0 => disk'[x].at[disk[x].off] = disk[x].at[disk[x].off]

LEMMA UntouchedBeats ==
  ASSUME Untouched, NEW a, NEW b, Beats(a, b)
  PROVE  Beats(a, b)'
BY DEF Untouched, Beats

LEMMA UntouchedInSync ==
  ASSUME Untouched, link' = link, NEW d \in Dir, InSync(d)
  PROVE  InSync(d)'
<1>1. Beats(d.pair[1], d.pair[2])'
  BY UntouchedBeats DEF InSync
<1>2. d.pair[1] \in Blocks
  BY DEF InSync, Beats
<1>3. QED
  BY <1>1, <1>2 DEF InSync, Untouched

LEMMA UntouchedSettled ==
  ASSUME Untouched, link' = link, LinkSettled
  PROVE  LinkSettled'
BY UntouchedBeats DEF LinkSettled

\* An append that was started keeps the commits before it.
LEMMA AppendUntouched ==
  ASSUME TypeOK, InSync(ldir),
         disk' = [disk EXCEPT ![ldir.pair[1]] = Torn(@, ldir.off)]
  PROVE  Untouched /\ disk' \in [Blocks -> Block]
<1> DEFINE a == ldir.pair[1]
<1>1. a \in Blocks /\ disk[a] \in Block /\ ldir.off \in 0..Cap
      /\ ldir.off = disk[a].off
  BY DEF TypeOK, InSync, Beats, Dir
<1>2. disk'[a] = Torn(disk[a], ldir.off) /\ \A x \in Blocks \ {a} : disk'[x] = disk[x]
  BY <1>1 DEF TypeOK
<1>3. /\ disk'[a] \in Block
      /\ disk'[a].rev = disk[a].rev
      /\ disk'[a].off = disk[a].off
      /\ disk[a].off > 0 => disk'[a].at[disk[a].off] = disk[a].at[disk[a].off]
  BY <1>1, <1>2, TornFacts
<1>4. disk' \in [Blocks -> Block]
  BY <1>1, <1>3, <1>2 DEF TypeOK
<1>5. QED
  BY <1>2, <1>3, <1>4 DEF Untouched

-----------------------------------------------------------------------------
(* Every action preserves the invariant *)

LEMMA DirAllocStep ==
  ASSUME IInv, NEW x \in Blocks, NEW y \in Blocks, NEW v \in Value, DirAlloc(x, y, v)
  PROVE  IInv'
<1> USE DEF IInv
<1>1. disk[x].rev \in Rev
  BY DEF TypeOK, Block
<1>2. ldir'.rev \in Rev /\ Newer(Inc(ldir'.rev), disk[x].rev)
  BY <1>1, AlignUpIsNewer, IncIsNewer DEF DirAlloc
<1>3. ldir' \in Dir /\ ldir'.pair[1] = x /\ ldir'.pair[2] = y
  BY <1>2, MdirAssumption DEF DirAlloc, Dir, Addr
<1>4. TypeOK'
  <2>1. op' \in [v : Value \cup {Absent}, size : 0..Cap]
    BY MdirAssumption DEF DirAlloc
  <2>2. QED
    BY <1>3, <2>1 DEF DirAlloc, TypeOK, PcLabel
<1>5. LinkSettled' /\ CompactionOK' /\ IdleOK' /\ AckIsDurable'
  BY DEF DirAlloc, LinkSettled, CompactionOK, Compacting, IdleOK, Idle, AckIsDurable
<1>6. InFlightOK'
  BY <1>2, <1>3 DEF DirAlloc, InFlightOK, InFlight
<1>7. QED
  BY <1>4, <1>5, <1>6

LEMMA CommitStart ==
  ASSUME IInv, NEW v \in Value, NEW size \in Sizes, Commit(v, size)
  PROVE  IInv'
<1> USE DEF IInv
<1>1. Untouched
  BY DEF Commit, Untouched
<1>2. InSync(ram) /\ ram \in Dir /\ link # NoPair
  BY DEF Commit, IdleOK, TypeOK
<1>3. InSync(ram)' /\ InSync(ldir)'
  BY <1>1, <1>2, UntouchedInSync DEF Commit, InSync, Beats
<1>4. TypeOK'
  BY MdirAssumption DEF Commit, TypeOK, PcLabel
<1>5. LinkSettled'
  BY <1>1, UntouchedSettled DEF Commit
<1>6. CompactionOK' /\ IdleOK' /\ AckIsDurable'
  BY <1>2 DEF Commit, CompactionOK, Compacting, IdleOK, Idle, AckIsDurable
<1>7. InFlightOK'
  BY <1>2, <1>3 DEF Commit, InFlightOK, InFlight
<1>8. QED
  BY <1>4, <1>5, <1>6, <1>7

LEMMA AppendStep ==
  ASSUME IInv, AppendNospc \/ AppendTags \/ AppendCorrupt
  PROVE  IInv'
<1> USE DEF IInv
<1>1. /\ pc \in {"append", "appendcrc"}
      /\ pc' \in {"compact", "appendcrc"}
      /\ pc' = "appendcrc" => Fits
      /\ UNCHANGED <<link, ram, ldir, op, relocated, tired, taken, ret>>
  BY DEF AppendNospc, AppendTags, AppendCorrupt
<1>2. InSync(ldir) /\ ldir = ram /\ ldir \in Dir /\ link # NoPair
  BY <1>1 DEF InFlightOK, InFlight, TypeOK, InSync
<1>3. Untouched /\ disk' \in [Blocks -> Block]
  <2>1. CASE disk' = disk
    BY <2>1 DEF Untouched, TypeOK
  <2>2. CASE disk' = [disk EXCEPT ![ldir.pair[1]] = Torn(@, ldir.off)]
    BY <2>2, <1>2, AppendUntouched
  <2>3. QED
    BY <2>1, <2>2 DEF AppendNospc, AppendTags, AppendCorrupt
<1>4. InSync(ldir)'
  BY <1>1, <1>2, <1>3, UntouchedInSync DEF InSync, Beats
<1>5. TypeOK'
  BY <1>1, <1>3 DEF TypeOK, PcLabel
<1>6. LinkSettled'
  BY <1>1, <1>3, UntouchedSettled
<1>7. CompactionOK' /\ IdleOK' /\ AckIsDurable'
  BY <1>1, <1>2 DEF CompactionOK, Compacting, IdleOK, Idle, AckIsDurable
<1>8. InFlightOK'
  BY <1>1, <1>2, <1>4 DEF InFlightOK, InFlight, Fits
<1>9. QED
  BY <1>5, <1>6, <1>7, <1>8

LEMMA AppendCrcStep ==
  ASSUME IInv, AppendCrc
  PROVE  IInv'
<1> USE DEF IInv
<1> DEFINE a == ldir.pair[1]
           b == ldir.pair[2]
           o == ldir.off + op.size
<1>1. InSync(ldir) /\ ldir = ram /\ Fits /\ ldir \in Dir /\ link # NoPair
  BY DEF AppendCrc, InFlightOK, InFlight, TypeOK, InSync
<1>2. /\ a \in Blocks /\ b \in Blocks /\ a # b
      /\ disk[a] \in Block
      /\ o \in 1..Cap
      /\ op.v \in Value \cup {Absent}
  BY <1>1 DEF InSync, Beats, TypeOK, Dir, Fits
<1>3. /\ disk'[a] = Completed(disk[a], o, op.v)
      /\ \A x \in Blocks \ {a} : disk'[x] = disk[x]
      /\ disk' = [disk EXCEPT ![a] = Completed(disk[a], o, op.v)]
  BY <1>2 DEF AppendCrc, TypeOK
<1>4. /\ disk'[a] \in Block
      /\ disk'[a].rev = disk[a].rev
      /\ disk'[a].off = o
      /\ disk'[a].at[o] = op.v
  BY <1>2, <1>3, CompletedFacts
<1>5. /\ ldir' \in Dir
      /\ ldir'.pair = ldir.pair
      /\ ldir'.rev = ldir.rev
      /\ ldir'.off = o
  BY <1>1, <1>2 DEF AppendCrc, Dir
<1>6. TypeOK'
  <2>1. disk' \in [Blocks -> Block]
    BY <1>2, <1>3, <1>4 DEF TypeOK
  <2>2. QED
    BY <2>1, <1>5 DEF AppendCrc, TypeOK, PcLabel
<1>7. Beats(a, b)'
  BY <1>1, <1>2, <1>3, <1>4, <1>5 DEF Beats, InSync
<1>8. InSync(ldir)' /\ Carries(ldir)'
  BY <1>1, <1>4, <1>5, <1>7 DEF InSync, Carries, AppendCrc, Beats
<1>9. LinkSettled'
  BY <1>5, <1>8, InSyncSettlesNext
<1>10. CompactionOK' /\ IdleOK' /\ AckIsDurable'
  BY <1>1 DEF AppendCrc, CompactionOK, Compacting, IdleOK, Idle, AckIsDurable
<1>11. InFlightOK'
  BY <1>8 DEF AppendCrc, InFlightOK, InFlight
<1>12. QED
  BY <1>6, <1>9, <1>10, <1>11

LEMMA CompactStep ==
  ASSUME IInv, Compact
  PROVE  IInv'
<1> USE DEF IInv
<1>1. ldir \in Dir /\ ldir.rev \in Rev /\ Inc(ldir.rev) \in Rev
  BY IncIsNewer DEF TypeOK, Dir
<1>2. /\ ldir' \in Dir
      /\ ldir'.pair = ldir.pair
      /\ ldir'.rev = Inc(ldir.rev)
  BY <1>1 DEF Compact, Dir
<1>3. TypeOK'
  <2>1. tired' \in BOOLEAN
    BY DEF Compact, lfs_dir_needs_relocation
  <2>2. pc' \in PcLabel
    BY DEF Compact, PcLabel
  <2>3. QED
    BY <1>2, <2>1, <2>2 DEF Compact, TypeOK
<1>4. LinkSettled' /\ IdleOK' /\ AckIsDurable' /\ InFlightOK'
  BY DEF Compact, LinkSettled, Beats, IdleOK, Idle, AckIsDurable, InFlightOK, InFlight
<1>5. CompactionOK'
  <2>1. /\ ldir.pair[1] \in Blocks /\ ldir.pair[2] \in Blocks
        /\ ldir.pair[1] # ldir.pair[2]
        /\ Newer(Inc(ldir.rev), disk[ldir.pair[1]].rev)
    BY <1>1, IncIsNewer DEF Compact, InFlightOK, InFlight, InSync, Beats
  <2>2. link # NoPair => InSync(ram) /\ ldir = ram
    BY DEF Compact, InFlightOK, InFlight
  <2>3. link # NoPair => InSync(ram)'
    BY <2>2 DEF Compact, InSync, Beats
  <2>4. link # NoPair => PairBlocks(ldir.pair) = PairBlocks(link)
    BY <2>2 DEF InSync, PairBlocks, Swap
  <2>5. QED
    BY <1>2, <2>1, <2>2, <2>3, <2>4 DEF Compact, CompactionOK, Compacting
<1>6. QED
  BY <1>3, <1>4, <1>5

\* While a compaction is being written, the block that holds the directory is
\* left alone, so the linked pair keeps its value.
LEMMA CompactionKeeps ==
  ASSUME IInv, pc \in Compacting, pc # "compactsync",
         NEW nb \in Block, nb.off = 0,
         disk' = [disk EXCEPT ![ldir.pair[2]] = nb],
         link' = link, ram' = ram
  PROVE  /\ disk' \in [Blocks -> Block]
         /\ disk'[ldir.pair[1]] = disk[ldir.pair[1]]
         /\ disk'[ldir.pair[2]] = nb
         /\ link # NoPair => InSync(ram)'
         /\ LinkSettled'
<1> USE DEF IInv
<1> DEFINE c == ldir.pair[2]
<1>1. /\ c \in Blocks /\ ldir.pair[1] \in Blocks /\ ldir.pair[1] # c
      /\ link # NoPair =>
           /\ InSync(ram)
           /\ ldir.pair[1] = ram.pair[1]
           /\ c = ram.pair[2] \/ c \notin PairBlocks(link)
  BY DEF CompactionOK
<1>2. /\ disk' \in [Blocks -> Block]
      /\ disk'[c] = nb
      /\ \A x \in Blocks \ {c} : disk'[x] = disk[x]
  BY <1>1 DEF TypeOK
<1>3. link # NoPair => InSync(ram)'
  BY <1>1, <1>2 DEF InSync, Beats
<1>4. LinkSettled'
  <2>1. CASE link = NoPair
    BY <2>1 DEF LinkSettled
  <2>2. CASE link # NoPair
    BY <2>2, <1>3, InSyncSettlesNext DEF TypeOK
  <2>3. QED
    BY <2>1, <2>2
<1>5. QED
  BY <1>1, <1>2, <1>3, <1>4

LEMMA CompactionStep ==
  ASSUME IInv, Erase \/ CompactTags \/ CompactCorrupt
  PROVE  IInv'
<1> USE DEF IInv
<1>1. /\ pc \in Compacting /\ pc # "compactsync"
      /\ pc' \in {"prog", "compactcrc", "relocate"}
      /\ UNCHANGED <<link, ram, ldir, op, relocated, tired, taken, ret>>
  BY DEF Erase, CompactTags, CompactCorrupt, Compacting
<1>2. ldir.rev \in Rev
  BY DEF TypeOK, Dir
<1>3. /\ disk' \in [Blocks -> Block]
      /\ disk'[ldir.pair[1]] = disk[ldir.pair[1]]
      /\ link # NoPair => InSync(ram)'
      /\ LinkSettled'
      /\ pc' = "compactcrc" =>
           disk'[ldir.pair[2]].rev = ldir.rev /\ disk'[ldir.pair[2]].off = 0
  <2>1. CASE disk' = disk /\ pc' # "compactcrc"
    BY <2>1, <1>1 DEF TypeOK, CompactionOK, InSync, Beats, LinkSettled
  <2>2. CASE disk' = [disk EXCEPT ![ldir.pair[2]] = ErasedBlock] /\ pc' # "compactcrc"
    BY <2>2, <1>1, ErasedFacts, CompactionKeeps
  <2>3. CASE disk' = [disk EXCEPT ![ldir.pair[2]] = Header(ldir.rev)]
    BY <2>3, <1>1, <1>2, HeaderFacts, CompactionKeeps
  <2>4. QED
    BY <2>1, <2>2, <2>3 DEF Erase, CompactTags, CompactCorrupt
<1>4. TypeOK'
  BY <1>1, <1>3 DEF TypeOK, PcLabel
<1>5. CompactionOK'
  BY <1>1, <1>3 DEF CompactionOK, Compacting
<1>6. IdleOK' /\ AckIsDurable' /\ InFlightOK'
  BY <1>1 DEF IdleOK, Idle, Compacting, AckIsDurable, InFlightOK, InFlight
<1>7. QED
  BY <1>3, <1>4, <1>5, <1>6

LEMMA CompactCrcStep ==
  ASSUME IInv, CompactCrc
  PROVE  IInv'
<1> USE DEF IInv
<1> DEFINE a == ldir.pair[1]
           c == ldir.pair[2]
<1>1. /\ pc = "compactcrc" /\ pc' = "compactsync"
      /\ UNCHANGED <<link, ram, ldir, op, relocated, tired, taken, ret>>
  BY DEF CompactCrc
<1>2. /\ a \in Blocks /\ c \in Blocks /\ a # c
      /\ disk[c] \in Block /\ disk[c].rev = ldir.rev
      /\ Newer(ldir.rev, disk[a].rev)
      /\ op.v \in Value \cup {Absent}
      /\ 1 \in 1..Cap
  BY <1>1, MdirAssumption DEF CompactionOK, Compacting, TypeOK
<1>3. /\ disk'[c] = Completed(disk[c], 1, op.v)
      /\ \A x \in Blocks \ {c} : disk'[x] = disk[x]
      /\ disk' = [disk EXCEPT ![c] = Completed(disk[c], 1, op.v)]
  BY <1>2 DEF CompactCrc, TypeOK
<1>4. /\ disk'[c] \in Block
      /\ disk'[c].rev = ldir.rev
      /\ disk'[c].off = 1
      /\ disk'[c].at[1] = op.v
  BY <1>2, <1>3, CompletedFacts
<1>5. TypeOK'
  <2>1. disk' \in [Blocks -> Block]
    BY <1>2, <1>3, <1>4 DEF TypeOK
  <2>2. QED
    BY <2>1, <1>1 DEF TypeOK, PcLabel
<1>6. LinkSettled'
  <2>1. CASE link = NoPair
    BY <2>1, <1>1 DEF LinkSettled
  <2>2. CASE link # NoPair
    <3>1. InSync(ram) /\ a = ram.pair[1] /\ (c = ram.pair[2] \/ c \notin PairBlocks(link))
      BY <2>2, <1>1 DEF CompactionOK, Compacting
    <3>2. PICK x \in Addr, y \in Addr : ram.pair = <<x, y>>
      BY DEF TypeOK, Dir
    <3>3. x = a /\ x \in Blocks /\ y \in Blocks
      BY <3>1, <3>2 DEF InSync, Beats
    <3>4. link = <<x, y>> \/ link = <<y, x>>
      <4>1. PICK p \in Addr, q \in Addr : link = <<p, q>>
        BY DEF TypeOK
      <4>2. QED BY <3>1, <3>2, <4>1 DEF InSync, Swap
    <3>5. CASE c = y
      <4>1. Beats(y, x)'
        BY <3>3, <3>5, <1>2, <1>3, <1>4 DEF Beats
      <4>2. QED BY <4>1, <3>4, <1>1 DEF LinkSettled
    <3>6. CASE c # y
      <4>1. Beats(x, y)'
        BY <3>1, <3>2, <3>3, <3>6, <1>2, <1>3 DEF Beats, InSync
      <4>2. QED BY <4>1, <3>4, <1>1 DEF LinkSettled
    <3>7. QED BY <3>5, <3>6
  <2>3. QED BY <2>1, <2>2
<1>7. CompactionOK'
  <2>1. link # NoPair /\ ~relocated => PairBlocks(ldir.pair) = PairBlocks(link)
    BY <1>1 DEF CompactionOK, Compacting
  <2>2. QED
    BY <2>1, <1>1, <1>2, <1>3, <1>4 DEF CompactionOK, Compacting
<1>8. IdleOK' /\ AckIsDurable' /\ InFlightOK'
  BY <1>1 DEF IdleOK, Idle, AckIsDurable, InFlightOK, InFlight
<1>9. QED
  BY <1>5, <1>6, <1>7, <1>8

LEMMA CompactDoneStep ==
  ASSUME IInv, CompactDone
  PROVE  IInv'
<1> USE DEF IInv
<1>1. PICK a \in Addr, c \in Addr : ldir.pair = <<a, c>>
  BY DEF TypeOK, Dir
<1>2. /\ a \in Blocks /\ c \in Blocks /\ a # c
      /\ Newer(ldir.rev, disk[a].rev)
      /\ disk[c].rev = ldir.rev /\ disk[c].off = 1 /\ disk[c].at[1] = op.v
      /\ link # NoPair /\ ~relocated => PairBlocks(ldir.pair) = PairBlocks(link)
  BY <1>1 DEF CompactDone, CompactionOK, Compacting
<1>3. /\ ldir' \in Dir
      /\ ldir'.pair = <<c, a>> /\ ldir'.rev = ldir.rev /\ ldir'.off = 1
  <2>1. Swap(ldir.pair) = <<c, a>>
    BY <1>1 DEF Swap
  <2>2. ldir' = [ldir EXCEPT !.pair = <<c, a>>, !.off = 1]
    BY <2>1 DEF CompactDone
  <2>3. ldir \in Dir /\ <<c, a>> \in Addr \X Addr /\ 1 \in 0..Cap
    BY <1>1, MdirAssumption DEF TypeOK
  <2>4. QED
    BY <2>2, <2>3 DEF Dir
<1>4. Beats(c, a)'
  BY <1>2 DEF CompactDone, Beats
<1>5. Carries(ldir)'
  BY <1>2, <1>3, <1>4 DEF Carries, CompactDone
<1>6. pc' = "done" => InSync(ldir)'
  <2>1. SUFFICES ASSUME pc' = "done" PROVE InSync(ldir)'
    OBVIOUS
  <2>2. link # NoPair /\ ~relocated /\ link' = link
    BY <2>1 DEF CompactDone
  <2>3. PICK p \in Addr, q \in Addr : link = <<p, q>>
    BY DEF TypeOK
  <2>4. p \in Blocks /\ q \in Blocks /\ p # q
    BY <2>2, <2>3 DEF LinkSettled, Beats
  <2>5. {a, c} = {p, q}
    BY <1>1, <1>2, <2>2, <2>3, <2>4, MdirAssumption DEF PairBlocks
  <2>6. ldir'.pair = link \/ ldir'.pair = Swap(link)
    BY <1>3, <1>2, <2>3, <2>5 DEF Swap
  <2>7. QED
    BY <1>3, <1>5, <2>2, <2>6 DEF InSync, Carries, Swap
<1>7. TypeOK'
  BY <1>3 DEF CompactDone, TypeOK, PcLabel
<1>8. LinkSettled' /\ CompactionOK' /\ IdleOK' /\ AckIsDurable'
  <2>1. pc' \in {"relink", "done"} /\ ret # "ok"
    BY DEF CompactDone, IdleOK, Idle
  <2>2. CompactionOK'
    BY <2>1 DEF CompactionOK, Compacting
  <2>3. LinkSettled'
    BY DEF CompactDone, LinkSettled, Beats
  <2>4. IdleOK' /\ AckIsDurable'
    BY <2>1 DEF CompactDone, IdleOK, Idle, AckIsDurable
  <2>5. QED
    BY <2>2, <2>3, <2>4
<1>9. InFlightOK'
  BY <1>5, <1>6 DEF CompactDone, InFlightOK, InFlight
<1>10. QED
  BY <1>7, <1>8, <1>9

LEMMA RelocateStep ==
  ASSUME IInv, NEW b \in Blocks, Relocate(b)
  PROVE  IInv'
<1> USE DEF IInv
<1>1. /\ b \notin PairBlocks(link) /\ b \notin PairBlocks(ldir.pair)
      /\ pc = "relocate" /\ pc' = "erase" /\ relocated'
      /\ UNCHANGED <<disk, link, ram, op, ret>>
  BY DEF Relocate, FreeBlocks
<1>2. PICK a \in Addr, c \in Addr : ldir.pair = <<a, c>>
  BY DEF TypeOK, Dir
<1>3. a \in Blocks /\ Newer(ldir.rev, disk[a].rev)
      /\ (link # NoPair => InSync(ram) /\ a = ram.pair[1])
  BY <1>1, <1>2 DEF CompactionOK, Compacting
<1>4. a # b
  BY <1>1, <1>2, <1>3, MdirAssumption DEF PairBlocks
<1>5. ldir' \in Dir /\ ldir'.pair = <<a, b>> /\ ldir'.rev = ldir.rev
  BY <1>2 DEF Relocate, TypeOK, Dir, Addr
<1>6. TypeOK'
  BY <1>5 DEF Relocate, TypeOK, PcLabel
<1>7. LinkSettled'
  BY <1>1 DEF LinkSettled, Beats
<1>8. CompactionOK'
  <2>1. link # NoPair => InSync(ram)'
    BY <1>1, <1>3 DEF InSync, Beats
  <2>2. ldir'.pair[1] = a /\ ldir'.pair[2] = b
    BY <1>5
  <2>3. QED
    BY <1>1, <1>3, <1>4, <1>5, <2>1, <2>2 DEF CompactionOK, Compacting
<1>9. IdleOK' /\ AckIsDurable' /\ InFlightOK'
  BY <1>1 DEF IdleOK, Idle, AckIsDurable, InFlightOK, InFlight
<1>10. QED
  BY <1>6, <1>7, <1>8, <1>9

LEMMA RelocateStayStep ==
  ASSUME IInv, RelocateStay
  PROVE  IInv'
<1> USE DEF IInv
<1>1. /\ pc = "relocate" /\ pc' = "erase" /\ relocated'
      /\ UNCHANGED <<disk, link, ram, ldir, op, taken, ret>>
  BY DEF RelocateStay
<1>2. TypeOK'
  BY DEF RelocateStay, TypeOK, PcLabel
<1>3. LinkSettled'
  BY <1>1 DEF LinkSettled, Beats
<1>4. CompactionOK'
  <2>1. link # NoPair => InSync(ram) /\ InSync(ram)'
    BY <1>1 DEF CompactionOK, Compacting, InSync, Beats
  <2>2. QED
    BY <1>1, <2>1 DEF CompactionOK, Compacting
<1>5. IdleOK' /\ AckIsDurable' /\ InFlightOK'
  BY <1>1 DEF IdleOK, Idle, AckIsDurable, InFlightOK, InFlight
<1>6. QED
  BY <1>2, <1>3, <1>4, <1>5

LEMMA RelinkStep ==
  ASSUME IInv, Relink
  PROVE  IInv'
<1> USE DEF IInv
<1>1. /\ pc = "relink" /\ pc' = "done" /\ link' = ldir.pair
      /\ UNCHANGED <<disk, ram, ldir, op, relocated, tired, taken, ret>>
  BY DEF Relink
<1>2. Carries(ldir) /\ ldir \in Dir
  BY <1>1 DEF InFlightOK, InFlight, TypeOK
<1>3. Carries(ldir)'
  BY <1>1, <1>2 DEF Carries, Beats
<1>4. link' # NoPair
  BY <1>1, <1>2, MdirAssumption DEF Carries, Beats, NoPair
<1>5. InSync(ldir)'
  BY <1>1, <1>3, <1>4 DEF InSync, Carries
<1>6. TypeOK'
  BY <1>1, <1>2 DEF TypeOK, PcLabel, Dir
<1>7. LinkSettled'
  BY <1>1, <1>2, <1>5, InSyncSettlesNext
<1>8. IdleOK' /\ AckIsDurable' /\ CompactionOK'
  BY <1>1, <1>4 DEF IdleOK, Idle, AckIsDurable, CompactionOK, Compacting
<1>9. InFlightOK'
  BY <1>1, <1>3, <1>5 DEF InFlightOK, InFlight
<1>10. QED
  BY <1>6, <1>7, <1>8, <1>9

\* Visible and the settling of the linked pair depend on storage only.
LEMMA StorageOnly ==
  ASSUME UNCHANGED <<disk, link>>
  PROVE  /\ Visible' = Visible
         /\ LinkSettled => LinkSettled'
         /\ \A d : InSync(d) => InSync(d)'
BY DEF Visible, Readable, FetchPair, FetchOrder, LinkSettled, Beats, InSync

LEMMA SucceedStep ==
  ASSUME IInv, Succeed
  PROVE  IInv'
<1> USE DEF IInv
<1>1. /\ pc \in {"sync", "done"} /\ pc' = "idle" /\ ret' = "ok"
      /\ ram' = ldir /\ ldir' = NoDir
      /\ UNCHANGED <<disk, link, op, taken>>
  BY DEF Succeed, Return
<1>2. InSync(ldir) /\ Carries(ldir) /\ ldir \in Dir /\ link # NoPair
  BY <1>1 DEF InFlightOK, InFlight, TypeOK, InSync
<1>3. Visible = op.v
  BY <1>2, InSyncVisible DEF Carries
<1>4. Visible' = op.v
  BY <1>1, <1>3, StorageOnly
<1>5. TypeOK'
  BY <1>1, <1>2, NoDirType DEF Succeed, Return, TypeOK, PcLabel
<1>6. InSync(ram)' /\ LinkSettled'
  BY <1>1, <1>2, StorageOnly DEF InSync, Beats
<1>7. CompactionOK' /\ InFlightOK'
  BY <1>1 DEF CompactionOK, Compacting, InFlightOK, InFlight
<1>8. IdleOK' /\ AckIsDurable'
  BY <1>1, <1>2, <1>4, <1>6 DEF IdleOK, Idle, AckIsDurable
<1>9. QED
  BY <1>5, <1>6, <1>7, <1>8

LEMMA FailStep ==
  ASSUME IInv, CallerHypothesis, RelocateNospc \/ RelinkFails \/ IOError
  PROVE  IInv'
<1> USE DEF IInv
<1>1. /\ pc' = "idle" /\ ret' = "err" /\ ldir' = NoDir
      /\ UNCHANGED <<disk, link, op, taken>>
      /\ ram' = ram \/ ram' = NoDir
      /\ pc = "relocate" \/ ram' = NoDir
  BY MdirAssumption DEF CallerHypothesis, RelocateNospc, RelinkFails, IOError, ReturnError, Return
<1>2. ram' # NoDir => link # NoPair /\ InSync(ram)
  BY <1>1 DEF IdleOK, CompactionOK, Compacting
<1>3. TypeOK'
  <2>1. relocated' = FALSE /\ tired' = FALSE
    BY DEF RelocateNospc, RelinkFails, IOError, ReturnError, Return
  <2>2. QED
    BY <1>1, <2>1, NoDirType DEF TypeOK, PcLabel
<1>4. LinkSettled'
  BY <1>1, StorageOnly
<1>5. ram' # NoDir => InSync(ram)'
  BY <1>1, <1>2 DEF InSync, Beats
<1>6. CompactionOK' /\ InFlightOK'
  BY <1>1 DEF CompactionOK, Compacting, InFlightOK, InFlight
<1>7. IdleOK' /\ AckIsDurable'
  BY <1>1, <1>2, <1>5 DEF IdleOK, Idle, AckIsDurable
<1>8. QED
  BY <1>3, <1>4, <1>6, <1>7

LEMMA PowerLossStep ==
  ASSUME IInv, PowerLoss
  PROVE  IInv'
<1> USE DEF IInv
<1>1. /\ pc' = "idle" /\ ram' = NoDir /\ ldir' = NoDir
      /\ UNCHANGED <<disk, link, op, ret>>
  BY DEF PowerLoss
<1>2. TypeOK'
  BY NoDirType DEF PowerLoss, TypeOK, PcLabel
<1>3. LinkSettled'
  BY <1>1, StorageOnly
<1>4. AckIsDurable'
  BY <1>1, StorageOnly DEF AckIsDurable
<1>5. CompactionOK' /\ InFlightOK' /\ IdleOK'
  BY <1>1 DEF CompactionOK, Compacting, InFlightOK, InFlight, IdleOK, Idle
<1>6. QED
  BY <1>2, <1>3, <1>4, <1>5

LEMMA FetchStep ==
  ASSUME IInv, Fetch
  PROVE  IInv'
<1> USE DEF IInv
<1>1. PICK p \in Addr, q \in Addr : link = <<p, q>>
  BY DEF TypeOK
<1>2. PICK a, b : Beats(a, b) /\ (link = <<a, b>> \/ link = <<b, a>>)
  BY <1>1 DEF Fetch, LinkSettled
<1>3. FetchPair(link) = <<a, b>>
  BY <1>2, FetchSettles
<1>4. ram' = [pair |-> <<a, b>>, rev |-> disk[a].rev, off |-> disk[a].off,
              erased |-> disk[a].clean]
  BY <1>3 DEF Fetch, lfs_dir_fetch
<1>5. a \in Blocks /\ b \in Blocks /\ disk[a] \in Block
  BY <1>2 DEF Beats, TypeOK
<1>6. ram' \in Dir
  BY <1>4, <1>5 DEF Dir, Addr, Block
<1>7. InSync(ram)'
  BY <1>2, <1>4, <1>5 DEF Fetch, InSync, Beats, Swap
<1>8. TypeOK'
  BY <1>6 DEF Fetch, TypeOK
<1>9. LinkSettled' /\ AckIsDurable'
  BY StorageOnly DEF Fetch, AckIsDurable
<1>10. CompactionOK' /\ InFlightOK'
  BY DEF Fetch, Idle, CompactionOK, Compacting, InFlightOK, InFlight
<1>11. IdleOK'
  BY <1>7 DEF Fetch, IdleOK, Idle
<1>12. QED
  BY <1>8, <1>9, <1>10, <1>11

LEMMA StutterStep ==
  ASSUME IInv, UNCHANGED vars
  PROVE  IInv'
<1> USE DEF IInv
<1>1. UNCHANGED <<disk, link, ram, ldir, pc, op, relocated, tired, taken, ret>>
  BY DEF vars
<1>2. TypeOK'
  BY <1>1 DEF TypeOK
<1>3. LinkSettled' /\ AckIsDurable'
  BY <1>1, StorageOnly DEF AckIsDurable
<1>4. CompactionOK'
  BY <1>1 DEF CompactionOK, Compacting, InSync, Beats
<1>5. InFlightOK' /\ IdleOK'
  BY <1>1 DEF InFlightOK, InFlight, IdleOK, Idle, InSync, Beats, Carries, Fits
<1>6. QED
  BY <1>2, <1>3, <1>4, <1>5

-----------------------------------------------------------------------------
(* The theorems *)

LEMMA InvariantStep ==
  ASSUME CallerHypothesis, IInv, [Next]_vars
  PROVE  IInv'
<1>1. CASE \E x, y \in Blocks, v \in Value : DirAlloc(x, y, v)
  BY <1>1, DirAllocStep
<1>2. CASE \E v \in Value, size \in Sizes : Commit(v, size)
  BY <1>2, CommitStart
<1>3. CASE CommitStep
  BY <1>3, AppendStep, AppendCrcStep, CompactStep, CompactionStep, CompactCrcStep,
     CompactDoneStep, RelocateStep, RelocateStayStep, RelinkStep, SucceedStep, FailStep
     DEF CommitStep
<1>4. CASE PowerLoss
  BY <1>4, PowerLossStep
<1>5. CASE Fetch
  BY <1>5, FetchStep
<1>6. CASE UNCHANGED vars
  BY <1>6, StutterStep
<1>7. QED
  BY <1>1, <1>2, <1>3, <1>4, <1>5, <1>6 DEF Next

THEOREM InductiveInvariant ==
  ASSUME CallerHypothesis
  PROVE  Spec => []IInv
<1>1. Init => IInv
  BY InitInvariant
<1>2. IInv /\ [Next]_vars => IInv'
  BY InvariantStep
<1>3. QED
  BY <1>1, <1>2, PTL DEF Spec

\* The variables keep the shapes the code's types give them.
THEOREM TypeCorrect ==
  ASSUME CallerHypothesis
  PROVE  Spec => []TypeOK
<1>1. IInv => TypeOK
  BY DEF IInv
<1>2. QED
  BY <1>1, InductiveInvariant, PTL

\* lfs_dir_fetchmatch never answers LFS_ERR_CORRUPT for a linked pair,
\* wherever an append, a compaction or a relocation was cut short.
THEOREM NeverUnreadable ==
  ASSUME CallerHypothesis
  PROVE  Spec => []AlwaysReadable
<1>1. IInv => AlwaysReadable
  <2>1. SUFFICES ASSUME IInv, link # NoPair PROVE Readable(link)
    BY DEF AlwaysReadable
  <2>2. QED
    BY <2>1 DEF IInv, LinkSettled, Beats, Readable
<1>2. QED
  BY <1>1, InductiveInvariant, PTL

\* What lfs_dir_commit reported as committed is what a fetch returns, across
\* power losses.
THEOREM Durability ==
  ASSUME CallerHypothesis
  PROVE  Spec => []AckIsDurable
<1>1. IInv => AckIsDurable
  BY DEF IInv
<1>2. QED
  BY <1>1, InductiveInvariant, PTL

\* The caller's copy of a directory and a fresh fetch name the same block and
\* the same end of the log.
THEOREM CopyAgreesWithStorage ==
  ASSUME CallerHypothesis
  PROVE  Spec => []RamAgrees
<1>1. IInv => RamAgrees
  <2>1. SUFFICES ASSUME IInv, Idle, ram # NoDir
                 PROVE  ram.pair = FetchPair(link) /\ ram.off = disk[ram.pair[1]].off
    BY DEF RamAgrees
  <2>2. InSync(ram) /\ TypeOK
    BY <2>1 DEF IInv, IdleOK
  <2>3. PICK a \in Addr, b \in Addr : ram.pair = <<a, b>>
    BY <2>2 DEF TypeOK, Dir
  <2>4. PICK p \in Addr, q \in Addr : link = <<p, q>>
    BY <2>2 DEF TypeOK
  <2>5. Beats(a, b) /\ (link = <<a, b>> \/ link = <<b, a>>)
    BY <2>2, <2>3, <2>4 DEF InSync, Swap
  <2>6. FetchPair(link) = <<a, b>>
    BY <2>2, <2>5, FetchSettles
  <2>7. QED
    BY <2>2, <2>3, <2>6 DEF InSync
<1>2. QED
  BY <1>1, InductiveInvariant, PTL

-----------------------------------------------------------------------------
(* The relocation loop of lfs_dir_compact ends: whatever blocks turn out    *)
(* bad or worn, and however many of them the device has, every step of a    *)
(* commit lowers the natural number Rank.                                   *)

\* The block a compaction gives up on stays unavailable until the commit has
\* ended: the allocator has handed it out since its last acknowledgement, or
\* the linked pair has it.
GivenUp ==
  pc \in Compacting \cup {"compact"} => ldir.pair[2] \in taken \cup PairBlocks(link)

DInv == IInv /\ GivenUp

-----------------------------------------------------------------------------
(* The invariant *)

LEMMA InSyncLinked ==
  ASSUME NEW d \in Dir, InSync(d), TypeOK
  PROVE  d.pair[2] \in PairBlocks(link)
<1>1. PICK a \in Addr, b \in Addr : d.pair = <<a, b>>
  BY DEF Dir
<1>2. PICK x \in Addr, y \in Addr : link = <<x, y>>
  BY DEF TypeOK
<1>3. b \in Blocks /\ (b = x \/ b = y)
  BY <1>1, <1>2 DEF InSync, Beats, Swap
<1>4. b # NullBlock
  BY <1>3, MdirAssumption
<1>5. QED
  BY <1>1, <1>2, <1>3, <1>4 DEF PairBlocks

LEMMA GivenUpStep ==
  ASSUME DInv, [Next]_vars
  PROVE  GivenUp'
<1> USE DEF DInv, IInv
<1>1. ASSUME NEW x \in Blocks, NEW y \in Blocks, NEW v \in Value, DirAlloc(x, y, v)
      PROVE  GivenUp'
  BY <1>1 DEF DirAlloc, GivenUp
<1>2. ASSUME NEW v \in Value, NEW size \in Sizes, Commit(v, size)
      PROVE  GivenUp'
  <2>1. InSync(ram) /\ ram \in Dir
    BY <1>2 DEF Commit, IdleOK, TypeOK
  <2>2. ram.pair[2] \in PairBlocks(link)
    BY <2>1, InSyncLinked
  <2>3. QED
    BY <1>2, <2>2 DEF Commit, GivenUp, PairBlocks
<1>3. CASE AppendNospc \/ AppendTags \/ AppendCorrupt
  <2>1. pc \in {"append", "appendcrc"} /\ UNCHANGED <<link, ldir, taken>>
    BY <1>3 DEF AppendNospc, AppendTags, AppendCorrupt
  <2>2. InSync(ldir) /\ ldir \in Dir
    BY <2>1 DEF InFlightOK, TypeOK
  <2>3. ldir.pair[2] \in PairBlocks(link)
    BY <2>2, InSyncLinked
  <2>4. QED
    BY <2>1, <2>3 DEF GivenUp, PairBlocks
<1>4. CASE Compact
  <2>1. pc = "compact" /\ UNCHANGED <<link, taken>>
    BY <1>4 DEF Compact
  <2>2. ldir'.pair = ldir.pair
    BY <1>4 DEF Compact, TypeOK, Dir
  <2>3. QED
    BY <2>1, <2>2 DEF GivenUp, PairBlocks
<1>5. CASE Erase \/ CompactTags \/ CompactCorrupt \/ CompactCrc \/ RelocateStay
  <2>1. pc \in Compacting /\ UNCHANGED <<link, ldir, taken>>
    BY <1>5 DEF Erase, CompactTags, CompactCorrupt, CompactCrc, RelocateStay, Compacting
  <2>2. QED
    BY <2>1 DEF GivenUp, PairBlocks
<1>6. ASSUME NEW b \in Blocks, Relocate(b)
      PROVE  GivenUp'
  <2>1. ldir'.pair[2] = b /\ b \in taken'
    BY <1>6 DEF Relocate, TypeOK, Dir
  <2>2. QED
    BY <2>1 DEF GivenUp
<1>7. CASE AppendCrc \/ CompactDone \/ Relink \/ Succeed \/ RelocateNospc \/ RelinkFails
           \/ IOError \/ PowerLoss
  <2>1. pc' \in {"sync", "relink", "done", "idle"}
    BY <1>7 DEF AppendCrc, CompactDone, Relink, Succeed, RelocateNospc, RelinkFails,
                IOError, PowerLoss, ReturnError, Return
  <2>2. QED
    BY <2>1 DEF GivenUp, Compacting
<1>8. CASE Fetch \/ UNCHANGED vars
  BY <1>8 DEF Fetch, vars, GivenUp, PairBlocks
<1>9. QED
  BY <1>1, <1>2, <1>3, <1>4, <1>5, <1>6, <1>7, <1>8 DEF Next, CommitStep

-----------------------------------------------------------------------------
(* The rank *)

LEMMA RankNat ==
  ASSUME IsFiniteSet(Blocks), TypeOK
  PROVE  /\ IsFiniteSet(FreeBlocks) /\ Cardinality(FreeBlocks) \in Nat
         /\ MovesAhead \in Nat
         /\ StepsAhead[pc] \in Nat
<1>1. FreeBlocks \in SUBSET Blocks
  BY DEF FreeBlocks
<1>2. IsFiniteSet(FreeBlocks) /\ Cardinality(FreeBlocks) \in Nat
  BY <1>1, FS_Subset, FS_CardinalityType
<1>3. QED
  BY <1>2 DEF MovesAhead, StepsAhead, TypeOK, PcLabel

\* Moving to another block uses it up, and the one left behind does not come
\* back.
LEMMA FreeBlocksShrink ==
  ASSUME DInv, IsFiniteSet(Blocks), NEW b \in Blocks, Relocate(b)
  PROVE  Cardinality(FreeBlocks)' = Cardinality(FreeBlocks) - 1
<1> USE DEF DInv, IInv
<1>1. PICK a \in Addr, c \in Addr : ldir.pair = <<a, c>>
  BY DEF TypeOK, Dir
<1>2. /\ ldir'.pair = <<a, b>>
      /\ taken' = taken \cup {b} /\ link' = link
      /\ b \in FreeBlocks
  BY <1>1 DEF Relocate, TypeOK, Dir
<1>3. c \in taken \cup PairBlocks(link)
  BY <1>1 DEF Relocate, GivenUp, Compacting
<1>4. FreeBlocks' = FreeBlocks \ {b}
  BY <1>1, <1>2, <1>3, MdirAssumption DEF FreeBlocks, PairBlocks
<1>5. QED
  BY <1>2, <1>4, RankNat, FS_RemoveElement

\* The steps before the end of the compaction that stay with the block.
LEMMA StayingStep ==
  ASSUME DInv, IsFiniteSet(Blocks),
         AppendNospc \/ AppendTags \/ AppendCorrupt \/ Compact \/ Erase \/ CompactTags
         \/ CompactCorrupt \/ CompactCrc \/ RelocateStay
  PROVE  Rank' < Rank
<1> USE DEF DInv, IInv
<1>1. ldir'.pair = ldir.pair /\ UNCHANGED <<link, taken>>
  BY DEF AppendNospc, AppendTags, AppendCorrupt, Compact, Erase, CompactTags,
         CompactCorrupt, CompactCrc, RelocateStay, TypeOK, Dir
<1>2. FreeBlocks' = FreeBlocks
  BY <1>1 DEF FreeBlocks, PairBlocks
<1> DEFINE free == Cardinality(FreeBlocks)
<1>3. free \in Nat /\ free' = free
  BY <1>2, RankNat
<1> HIDE DEF free
<1>4. /\ MovesAhead = IF pc \in {"idle", "done", "sync", "relink"} THEN 0
                      ELSE free + (IF tired \/ pc \in {"compact", "appendcrc", "append"} THEN 1 ELSE 0)
      /\ MovesAhead' = IF pc' \in {"idle", "done", "sync", "relink"} THEN 0
                       ELSE free + (IF tired' \/ pc' \in {"compact", "appendcrc", "append"} THEN 1 ELSE 0)
  BY <1>3 DEF MovesAhead, free
<1>5. CASE AppendNospc \/ AppendTags \/ AppendCorrupt
  <2>1. /\ \/ pc = "append" /\ pc' \in {"appendcrc", "compact"}
           \/ pc = "appendcrc" /\ pc' = "compact"
        /\ tired' = tired
    BY <1>5 DEF AppendNospc, AppendTags, AppendCorrupt
  <2>2. QED
    BY <1>3, <1>4, <2>1 DEF Rank, StepsAhead
<1>6. CASE Compact
  <2>1. pc = "compact" /\ pc' \in {"relocate", "erase"}
    BY <1>6 DEF Compact
  <2>2. QED
    BY <1>3, <1>4, <2>1 DEF Rank, StepsAhead
<1>7. CASE Erase \/ CompactTags \/ CompactCorrupt \/ CompactCrc
  <2>1. /\ \/ pc = "erase" /\ pc' \in {"prog", "relocate"}
           \/ pc = "prog" /\ pc' \in {"compactcrc", "relocate"}
           \/ pc = "compactcrc" /\ pc' \in {"compactsync", "relocate"}
        /\ tired' = tired
    BY <1>7 DEF Erase, CompactTags, CompactCorrupt, CompactCrc
  <2>2. QED
    BY <1>3, <1>4, <2>1 DEF Rank, StepsAhead
<1>8. CASE RelocateStay
  <2>1. pc = "relocate" /\ pc' = "erase" /\ tired /\ ~tired'
    BY <1>8 DEF RelocateStay
  <2>2. QED
    BY <1>3, <1>4, <2>1 DEF Rank, StepsAhead
<1>9. QED
  BY <1>5, <1>6, <1>7, <1>8

LEMMA MovingStep ==
  ASSUME DInv, IsFiniteSet(Blocks), NEW b \in Blocks, Relocate(b)
  PROVE  Rank' < Rank
<1> DEFINE free == Cardinality(FreeBlocks)
<1>1. free \in Nat /\ free' = free - 1
  BY RankNat, FreeBlocksShrink DEF DInv, IInv
<1>2. pc = "relocate" /\ pc' = "erase" /\ ~tired'
  BY DEF Relocate
<1> HIDE DEF free
<1>3. MovesAhead \in {free, free + 1} /\ MovesAhead' = free'
  BY <1>1, <1>2 DEF MovesAhead, free
<1>4. QED
  BY <1>1, <1>2, <1>3 DEF Rank, StepsAhead

\* The steps after which no block is written any more.
LEMMA EndingStep ==
  ASSUME DInv, IsFiniteSet(Blocks),
         AppendCrc \/ CompactDone \/ Relink \/ Succeed \/ RelocateNospc \/ RelinkFails \/ IOError
  PROVE  Rank' < Rank
<1>1. /\ \/ pc = "appendcrc" /\ pc' = "sync"
         \/ pc = "compactsync" /\ pc' \in {"relink", "done"}
         \/ pc = "relink" /\ pc' = "done"
         \/ pc # "idle" /\ pc' = "idle"
  BY DEF AppendCrc, CompactDone, Relink, Succeed, RelocateNospc, RelinkFails, IOError,
         ReturnError, Return
<1>2. MovesAhead \in Nat /\ MovesAhead' = 0
  BY <1>1, RankNat DEF DInv, IInv, MovesAhead
<1>3. StepsAhead[pc'] \in Nat /\ StepsAhead[pc'] < StepsAhead[pc] /\ StepsAhead[pc] \in Nat
  BY <1>1 DEF DInv, IInv, TypeOK, PcLabel, StepsAhead
<1>4. Rank' = StepsAhead[pc']
  BY <1>2, <1>3 DEF Rank, StepsAhead
<1>5. QED
  BY <1>2, <1>3, <1>4 DEF Rank

\* On a device of any finite number of blocks, and at any setting of
\* block_cycles, a commit comes to an end in every case: the loop over the
\* relocate label of lfs_dir_compact cannot go round forever.
THEOREM Descent ==
  ASSUME CallerHypothesis, IsFiniteSet(Blocks)
  PROVE  Spec => CommitDescends
<1>1. Init => DInv
  <2>1. Init => GivenUp
    BY DEF Init, GivenUp, Compacting
  <2>2. QED
    BY <2>1, InitInvariant DEF DInv
<1>2. DInv /\ [Next]_vars => DInv'
  BY GivenUpStep, InvariantStep DEF DInv
<1>3. DInv => [CommitStep => Rank' < Rank]_vars
  BY StayingStep, MovingStep, EndingStep DEF CommitStep
<1>4. QED
  BY <1>1, <1>2, <1>3, PTL DEF Spec, CommitDescends

-----------------------------------------------------------------------------
(***************************************************************************)
(* The metadata pair implements the atomic cell of AtomicDir: storage only *)
(* ever changes from the value before the commit in flight to the value    *)
(* being committed, in the one step that programs the CRC or the parent's  *)
(* entry, and every other step of the protocol changes nothing a fetch     *)
(* would see.                                                              *)
(***************************************************************************)
-----------------------------------------------------------------------------
(* What a step shows to a fetch *)

LEMMA VisibleSettlesNext ==
  (TypeOK /\ link # NoPair =>
     \A a, b : Beats(a, b) /\ (link = <<a, b>> \/ link = <<b, a>>)
                 => Visible = disk[a].at[disk[a].off])'
<1>1. TypeOK /\ link # NoPair =>
        \A a, b : Beats(a, b) /\ (link = <<a, b>> \/ link = <<b, a>>)
                    => Visible = disk[a].at[disk[a].off]
  BY VisibleSettles
<1>2. QED
  BY <1>1, PTL

\* A directory in sync before and after a step, with the same value at its
\* end, is seen unchanged.
LEMMA SameVisible ==
  ASSUME TypeOK, TypeOK', NEW d \in Dir, InSync(d), InSync(d)',
         disk'[d.pair[1]].at[d.off] = disk[d.pair[1]].at[d.off]
  PROVE  Visible' = Visible
<1>1. Visible = disk[d.pair[1]].at[d.off]
  BY InSyncVisible
<1>2. Visible' = disk'[d.pair[1]].at[d.off]
  BY InSyncVisibleNext
<1>3. QED
  BY <1>1, <1>2

\* A directory no parent names shows nothing.
LEMMA UnlinkedVisible ==
  ASSUME link = NoPair, link' = link
  PROVE  Visible' = Visible
BY DEF Visible

\* A step within a commit that nobody sees.
LEMMA Hidden ==
  ASSUME Visible' = Visible, InFlight' = InFlight, op' = op, ret' = ret
  PROVE  UNCHANGED Atomic!vars
BY DEF Atomic!vars

\* The commit in flight carries a value, which AtomicDir sees as pending.
LEMMA Pending ==
  ASSUME IInv, InFlight
  PROVE  op.v \in Value /\ op.v # Absent
BY MdirAssumption DEF IInv, InFlightOK

-----------------------------------------------------------------------------
(* Every action is a step of AtomicDir or hidden *)

LEMMA BeginsNewPair ==
  ASSUME NEW x \in Blocks, NEW y \in Blocks, NEW v \in Value, DirAlloc(x, y, v)
  PROVE  Atomic!Begin(v)
<1>1. Visible' = Visible
  BY StorageOnly DEF DirAlloc
<1>2. ~InFlight /\ InFlight' /\ op'.v = v /\ ret' = "none"
  BY DEF DirAlloc, Idle, InFlight
<1>3. QED
  BY <1>1, <1>2 DEF Atomic!Begin

LEMMA BeginsCommit ==
  ASSUME NEW v \in Value, NEW size \in Sizes, Commit(v, size)
  PROVE  Atomic!Begin(v)
<1>1. Visible' = Visible
  BY StorageOnly DEF Commit
<1>2. ~InFlight /\ InFlight' /\ op'.v = v /\ ret' = "none"
  BY DEF Commit, Idle, InFlight
<1>3. QED
  BY <1>1, <1>2 DEF Atomic!Begin

\* A commit that only got as far as its tags is behind the end of the log.
LEMMA AppendHidden ==
  ASSUME IInv, IInv', AppendNospc \/ AppendTags \/ AppendCorrupt
  PROVE  UNCHANGED Atomic!vars
<1> USE DEF IInv
<1>1. /\ pc \in {"append", "appendcrc"}
      /\ pc' \in {"compact", "appendcrc"}
      /\ UNCHANGED <<link, ram, ldir, op, ret>>
  BY DEF AppendNospc, AppendTags, AppendCorrupt
<1>2. InSync(ldir) /\ ldir \in Dir
  BY <1>1 DEF InFlightOK, TypeOK
<1>3. Untouched
  <2>1. CASE disk' = disk
    BY <2>1 DEF Untouched
  <2>2. CASE disk' = [disk EXCEPT ![ldir.pair[1]] = Torn(@, ldir.off)]
    BY <2>2, <1>2, AppendUntouched
  <2>3. QED
    BY <2>1, <2>2 DEF AppendNospc, AppendTags, AppendCorrupt
<1>4. InSync(ldir)'
  BY <1>1, <1>2, <1>3, UntouchedInSync DEF InSync, Beats
<1>5. disk'[ldir.pair[1]].at[ldir.off] = disk[ldir.pair[1]].at[ldir.off]
  BY <1>2, <1>3 DEF Untouched, InSync, Beats
<1>6. Visible' = Visible
  BY <1>1, <1>2, <1>4, <1>5, SameVisible DEF InSync, Beats
<1>7. QED
  BY <1>1, <1>6, Hidden DEF InFlight

\* The CRC of an append is the step that changes the directory.
LEMMA AppendApplies ==
  ASSUME IInv, IInv', AppendCrc
  PROVE  Atomic!Apply
<1> USE DEF IInv
<1>1. pc = "appendcrc" /\ pc' = "sync" /\ UNCHANGED <<op, ret>>
  BY DEF AppendCrc
<1>2. InSync(ldir)' /\ Carries(ldir)' /\ ldir' \in Dir
  BY <1>1 DEF InFlightOK, TypeOK
<1>3. Visible' = op.v
  BY <1>1, <1>2, InSyncVisibleNext DEF Carries
<1>4. InFlight /\ InFlight' /\ op.v # Absent
  BY <1>1, Pending DEF InFlight
<1>5. QED
  BY <1>1, <1>3, <1>4 DEF Atomic!Apply

\* A compaction is written to the block that does not hold the directory.
LEMMA CompactionHidden ==
  ASSUME IInv, IInv', Erase \/ CompactTags \/ CompactCorrupt
  PROVE  UNCHANGED Atomic!vars
<1> USE DEF IInv
<1>1. /\ pc \in Compacting /\ pc # "compactsync"
      /\ pc' \in Compacting /\ pc' # "compactsync"
      /\ UNCHANGED <<link, ram, ldir, op, ret>>
  BY DEF Erase, CompactTags, CompactCorrupt, Compacting
<1>2. disk'[ldir.pair[1]] = disk[ldir.pair[1]]
  BY <1>1 DEF CompactionOK, TypeOK, Erase, CompactTags, CompactCorrupt
<1>3. Visible' = Visible
  <2>1. CASE link = NoPair
    BY <2>1, <1>1, UnlinkedVisible
  <2>2. CASE link # NoPair
    <3>1. InSync(ram) /\ InSync(ram)' /\ ram \in Dir /\ ldir.pair[1] = ram.pair[1]
      BY <2>2, <1>1 DEF CompactionOK, TypeOK
    <3>2. QED
      BY <3>1, <1>1, <1>2, SameVisible DEF InSync, Beats
  <2>3. QED
    BY <2>1, <2>2
<1>4. QED
  BY <1>1, <1>3, Hidden DEF InFlight, Compacting

\* Its CRC changes the directory at once when the pair stays the one the
\* parent names, and nothing anybody sees when it has moved or is new.
LEMMA CompactionApplies ==
  ASSUME IInv, IInv', CompactCrc
  PROVE  Atomic!Apply \/ UNCHANGED Atomic!vars
<1> USE DEF IInv
<1> DEFINE a == ldir.pair[1]
           c == ldir.pair[2]
<1>1. /\ pc = "compactcrc" /\ pc' = "compactsync"
      /\ UNCHANGED <<link, ram, ldir, op, ret>>
  BY DEF CompactCrc
<1>2. /\ a \in Blocks /\ c \in Blocks /\ a # c
      /\ \A x \in Blocks \ {c} : disk'[x] = disk[x]
  BY <1>1 DEF CompactCrc, CompactionOK, Compacting, TypeOK
<1>3. /\ Newer(ldir.rev, disk[a].rev)
      /\ disk'[c].rev = ldir.rev /\ disk'[c].off = 1 /\ disk'[c].at[1] = op.v
  BY <1>1, <1>2 DEF CompactionOK, Compacting
<1>4. InFlight /\ InFlight' /\ op.v # Absent
  BY <1>1, Pending DEF InFlight
<1>5. CASE link = NoPair
  BY <1>5, <1>1, <1>4, UnlinkedVisible, Hidden
<1>6. CASE link # NoPair
  <2>1. /\ InSync(ram) /\ ram \in Dir /\ a = ram.pair[1]
        /\ c = ram.pair[2] \/ c \notin PairBlocks(link)
    BY <1>6, <1>1 DEF CompactionOK, Compacting, TypeOK
  <2>2. PICK x \in Addr, y \in Addr : ram.pair = <<x, y>>
    BY <2>1 DEF Dir
  <2>3. x = a /\ x \in Blocks /\ y \in Blocks
    BY <2>1, <2>2 DEF InSync, Beats
  <2>4. link = <<x, y>> \/ link = <<y, x>>
    <3>1. PICK p \in Addr, q \in Addr : link = <<p, q>>
      BY DEF TypeOK
    <3>2. QED
      BY <2>1, <2>2, <3>1 DEF InSync, Swap
  <2>5. CASE c = y
    <3>1. Beats(y, x)'
      BY <2>3, <2>5, <1>2, <1>3 DEF Beats
    <3>2. Visible' = disk'[y].at[disk'[y].off]
      BY <3>1, <2>4, <1>1, <1>6, VisibleSettlesNext
    <3>3. QED
      BY <3>2, <2>5, <1>1, <1>3, <1>4 DEF Atomic!Apply
  <2>6. CASE c # y
    <3>1. InSync(ram)'
      BY <2>1, <2>2, <2>3, <2>6, <1>1, <1>2 DEF InSync, Beats
    <3>2. Visible' = Visible
      BY <2>1, <3>1, <1>1, <1>2, SameVisible DEF InSync, Beats
    <3>3. QED
      BY <3>2, <1>1, <1>4, Hidden
  <2>7. QED
    BY <2>5, <2>6
<1>7. QED
  BY <1>5, <1>6

\* A pair that has moved becomes visible in the commit of its parent.
LEMMA RelinkApplies ==
  ASSUME IInv, IInv', Relink
  PROVE  Atomic!Apply
<1> USE DEF IInv
<1>1. pc = "relink" /\ pc' = "done" /\ UNCHANGED <<op, ret>>
  BY DEF Relink
<1>2. InSync(ldir)' /\ Carries(ldir)' /\ ldir' \in Dir
  BY <1>1 DEF InFlightOK, TypeOK
<1>3. Visible' = op.v
  BY <1>1, <1>2, InSyncVisibleNext DEF Carries
<1>4. InFlight /\ InFlight' /\ op.v # Absent
  BY <1>1, Pending DEF InFlight
<1>5. QED
  BY <1>1, <1>3, <1>4 DEF Atomic!Apply

\* Decisions taken in memory.
LEMMA MemoryHidden ==
  ASSUME Compact \/ CompactDone \/ RelocateStay \/ (\E b \in Blocks : Relocate(b)) \/ Fetch
  PROVE  UNCHANGED Atomic!vars
<1>1. UNCHANGED <<disk, link, op, ret>>
  BY DEF Compact, CompactDone, RelocateStay, Relocate, Fetch
<1>2. InFlight' = InFlight
  BY DEF Compact, CompactDone, RelocateStay, Relocate, Fetch, InFlight
<1>3. QED
  BY <1>1, <1>2, StorageOnly, Hidden

\* Success is reported of a value that a fetch returns.
LEMMA SucceedSucceeds ==
  ASSUME IInv, Succeed
  PROVE  Atomic!Succeed
<1> USE DEF IInv
<1>1. /\ pc \in {"sync", "done"} /\ pc' = "idle" /\ ret' = "ok"
      /\ UNCHANGED <<disk, link, op>>
  BY DEF Succeed, Return
<1>2. InSync(ldir) /\ Carries(ldir) /\ ldir \in Dir
  BY <1>1 DEF InFlightOK, TypeOK
<1>3. Visible = op.v /\ Visible' = Visible
  BY <1>1, <1>2, InSyncVisible, StorageOnly DEF Carries
<1>4. InFlight /\ ~InFlight' /\ op.v # Absent
  BY <1>1, Pending DEF InFlight
<1>5. QED
  BY <1>1, <1>3, <1>4 DEF Atomic!Succeed

LEMMA ErrorFails ==
  ASSUME IInv, RelocateNospc \/ RelinkFails \/ IOError
  PROVE  Atomic!Fail
<1>1. /\ pc # "idle" /\ pc' = "idle" /\ ret' = "err"
      /\ UNCHANGED <<disk, link, op>>
  BY DEF RelocateNospc, RelinkFails, IOError, ReturnError, Return
<1>2. InFlight /\ ~InFlight' /\ op.v # Absent
  BY <1>1, Pending DEF InFlight
<1>3. QED
  BY <1>1, <1>2, StorageOnly DEF Atomic!Fail

\* Power loss takes the caller away and leaves storage as it is.
LEMMA PowerLossAbandons ==
  ASSUME IInv, PowerLoss
  PROVE  Atomic!Abandon \/ UNCHANGED Atomic!vars
<1>1. pc' = "idle" /\ UNCHANGED <<disk, link, op, ret>>
  BY DEF PowerLoss
<1>2. Visible' = Visible /\ ~InFlight'
  BY <1>1, StorageOnly DEF InFlight
<1>3. CASE InFlight
  BY <1>1, <1>2, <1>3, Pending DEF Atomic!Abandon
<1>4. CASE ~InFlight
  BY <1>1, <1>2, <1>4 DEF Atomic!vars
<1>5. QED
  BY <1>3, <1>4

-----------------------------------------------------------------------------
(* The theorem *)

LEMMA RefinementStep ==
  ASSUME IInv, IInv', [Next]_vars
  PROVE  [Atomic!Next]_(Atomic!vars)
<1>1. CASE \E x, y \in Blocks, v \in Value : DirAlloc(x, y, v)
  BY <1>1, BeginsNewPair DEF Atomic!Next
<1>2. CASE \E v \in Value, size \in Sizes : Commit(v, size)
  BY <1>2, BeginsCommit DEF Atomic!Next
<1>3. CASE CommitStep
  BY <1>3, AppendHidden, AppendApplies, CompactionHidden, CompactionApplies, RelinkApplies,
     MemoryHidden, SucceedSucceeds, ErrorFails
     DEF CommitStep, Atomic!Next
<1>4. CASE PowerLoss
  BY <1>4, PowerLossAbandons DEF Atomic!Next
<1>5. CASE Fetch
  BY <1>5, MemoryHidden
<1>6. CASE UNCHANGED vars
  <2>1. UNCHANGED <<disk, link, op, ret, pc>>
    BY <1>6 DEF vars
  <2>2. QED
    BY <2>1, StorageOnly, Hidden DEF InFlight
<1>7. QED
  BY <1>1, <1>2, <1>3, <1>4, <1>5, <1>6 DEF Next

\* For every caller that fetches the directory anew after an error of the
\* device or of the parent's commit, lfs_dir_commit with all it runs into is
\* one atomic change of the directory.
THEOREM Refinement ==
  ASSUME CallerHypothesis
  PROVE  Spec => ImplementsAtomicDir
<1>1. Init => Atomic!Init
  BY DEF Init, Atomic!Init, Visible, InFlight
<1>2. IInv /\ IInv' /\ [Next]_vars => [Atomic!Next]_(Atomic!vars)
  BY RefinementStep
<1>3. QED
  BY <1>1, <1>2, InductiveInvariant, PTL DEF Spec, ImplementsAtomicDir, Atomic!Spec
=============================================================================
