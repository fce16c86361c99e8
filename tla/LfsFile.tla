------------------------------ MODULE LfsFile --------------------------------
(***************************************************************************)
(* An open file: inline in its directory or a list of blocks, and from one *)
(* to the other and back.                                                  *)
(*                                                                         *)
(* A small file lives in file->cache and is committed with its directory.  *)
(* A write that takes it over a bound moves it to a block (outline); a     *)
(* truncation below another, higher bound moves it back.  A list is never  *)
(* changed in place: a write makes a new one that starts with the blocks   *)
(* in front of it, and a flush copies what is behind.                      *)
(*                                                                         *)
(* Abstracted: a list is the bytes in it, of which LfsCtz shows that they  *)
(* are found; where a read continues is in LfsFileRead; pointers take no   *)
(* room in a block.  Programs and reads do not fail; allocations do.  The  *)
(* entry of the file is not deleted meanwhile (LfsEntries).                *)
(***************************************************************************)
EXTENDS Integers, Sequences, FiniteSetsExt

CONSTANTS
  BlockSize,     \* bytes of data in a block
  OutlineAbove,  \* a write that makes the file longer outlines it
  InlineUpTo,    \* a truncation to at most as much makes the file inline
  Appending,     \* LFS_O_APPEND
  Values,        \* bytes that are written
  Zero,          \* the byte 0, none of Values
  MaxSize,       \* lfs->file_max_size, and LFS_FILE_MAX, which it is set to
  Sizes,         \* bound: sizes of reads and writes
  Rooms,         \* bound: blocks that a call gets before it gets no more
  Careful        \* bound: no write into a file that a truncation made inline
                 \* and that is too long for a write, unless to its end

ASSUME FileAssumption ==
  /\ BlockSize \in Nat \ {0}
  /\ {OutlineAbove, InlineUpTo, MaxSize} \subseteq Nat
  /\ OutlineAbove <= InlineUpTo /\ InlineUpTo <= BlockSize
  /\ Sizes \subseteq Nat /\ Rooms \subseteq Nat
  /\ {Appending, Careful} \subseteq BOOLEAN

VARIABLES
  f,       \* the open file, a record: flags, pos, ctz, buffer, branch, offset
  disk,    \* its committed structure: inline or list, and the bytes
  answer   \* what the last call returned: a result, and the bytes read

vars == <<f, disk, answer>>

Flags == {"INLINE", "WRITING", "DIRTY", "ERRED"}
Slice(c, from, to) == SubSeq(c, from, Min({to, Len(c)}))
Zeros(n) == [i \in 1..n |-> Zero]
Is(g, flag) == flag \in g.flags
Add(g, fs) == [g EXCEPT !.flags = @ \cup fs]
Drop(g, fs) == [g EXCEPT !.flags = @ \ fs]
Ok(g) == g.err = "ok"

\* The bytes c with d from p on; p is not behind the end.
Put(c, p, d) == SubSeq(c, 1, p) \o d \o SubSeq(c, p + Len(d) + 1, Len(c))

-----------------------------------------------------------------------------
(* Writing *)

\* Mutant: what the write adds is not counted.
StaysInlineBehind(g, n) == Max({g.pos, g.size}) <= OutlineAbove

\* Whether a write of n bytes leaves the file inline.
StaysInline(g, n) == Max({g.pos + n, g.size}) <= OutlineAbove

\* The bytes in front of the position move to a new block.
lfs_file_outline(g) ==
  IF g.room = 0 THEN [g EXCEPT !.err = "nospc"]
  ELSE [Drop(Add(g, {"WRITING"}), {"INLINE"}) EXCEPT
          !.room = @ - 1, !.branch = SubSeq(g.buffer, 1, g.pos), !.offset = g.pos,
          !.buffer = <<>>]

\* Room in the block that is being written, and the bytes of the first new
\* block that are copied.
Left(g) == IF Is(g, "WRITING") THEN BlockSize - g.offset ELSE 0
Copied(g) == IF Is(g, "WRITING") THEN 0 ELSE g.pos % BlockSize

\* Blocks that n more bytes take.
BlocksFor(g, n) ==
  IF n <= Left(g) THEN 0 ELSE (n - Left(g) + Copied(g) + BlockSize - 1) \div BlockSize

\* d is written behind the blocks in front of the position, as far as there
\* are blocks to be had.
WriteFirst(g, d, n) ==
  LET base == IF Is(g, "WRITING") THEN g.branch ELSE SubSeq(g.list, 1, g.pos)
      w == [Add(g, {"WRITING"}) EXCEPT
              !.branch = base \o SubSeq(d, 1, n), !.pos = @ + n,
              !.offset = ((g.pos + n - 1) % BlockSize) + 1, !.room = @ - BlocksFor(g, n)]
  IN  [(IF n = 0 THEN g ELSE w) EXCEPT !.err = IF n < Len(d) THEN "nospc" ELSE "ok"]
WriteList(g, d) == WriteFirst(g, d, Max({k \in 0..Len(d) : BlocksFor(g, k) <= g.room}))

WriteInline(g, d) ==
  IF d = <<>> THEN g
  ELSE [Add(g, {"WRITING"}) EXCEPT !.buffer = Put(@, g.pos, d), !.pos = @ + Len(d)]

Outlined(g, n) == IF Is(g, "INLINE") /\ ~StaysInline(g, n) THEN lfs_file_outline(g) ELSE g
Written(g, d) ==
  IF ~Ok(g) THEN g ELSE IF Is(g, "INLINE") THEN WriteInline(g, d) ELSE WriteList(g, d)
ErredUnlessOk(g) == IF Ok(g) THEN g ELSE Add(g, {"ERRED"})
lfs_file_flushedwrite(g, d) == ErredUnlessOk(Written(Outlined(g, Len(d)), d))

\* Mutant: the bytes behind the position are dropped.
FlushCuts(g) ==
  IF ~Is(g, "WRITING") THEN g
  ELSE IF Is(g, "INLINE")
  THEN [Drop(Add(g, {"DIRTY"}), {"WRITING"}) EXCEPT !.size = Max({g.pos, g.size})]
  ELSE [Drop(Add(g, {"DIRTY"}), {"WRITING"}) EXCEPT
          !.head = "list", !.list = g.branch, !.size = g.pos, !.branch = <<>>, !.offset = 0]

\* What is behind the position is copied, from the structure that the file
\* had, and the new structure becomes the file's.  When there is no room the
\* position stays where the copying has got to.
TailCopied(g) ==
  IF g.pos >= g.size THEN g
  ELSE IF g.head = "inline" THEN [g EXCEPT !.err = "corrupt"]
  ELSE lfs_file_flushedwrite(g, Slice(g.list, g.pos + 1, g.size))
ListSwapped(w, pos) ==
  IF ~Ok(w) THEN w
  ELSE [Drop(Add(w, {"DIRTY"}), {"WRITING"}) EXCEPT
          !.head = "list", !.list = w.branch, !.size = w.pos, !.pos = pos,
          !.branch = <<>>, !.offset = 0]
lfs_file_flush(g) ==
  IF ~Is(g, "WRITING") THEN g
  ELSE IF Is(g, "INLINE")
  THEN [Drop(Add(g, {"DIRTY"}), {"WRITING"}) EXCEPT !.size = Max({g.pos, g.size})]
  ELSE ListSwapped(TailCopied(g), g.pos)

\* Zeros up to position n, byte by byte: inline as long as that lasts.
WriteIfOk(g, d) == IF Ok(g) THEN lfs_file_flushedwrite(g, d) ELSE g
ZerosUpTo(g, n) == WriteIfOk(g, Zeros(n - g.pos))
FillZeros(g, n) ==
  ZerosUpTo(IF Is(g, "INLINE") THEN ZerosUpTo(g, Max({g.pos, Min({n, OutlineAbove})})) ELSE g, n)

\* The position of a write.
WritePos(g) == IF Appending /\ g.pos < g.size THEN g.size ELSE g.pos

\* lfs_file_rawwrite.  A write that succeeds allows syncs again.
NotErredIfOk(g) == IF Ok(g) THEN Drop(g, {"ERRED"}) ELSE g
GapFilled(g, to) ==
  IF ~Is(g, "WRITING") /\ to > g.size
  THEN FillZeros([g EXCEPT !.pos = g.size], to) ELSE [g EXCEPT !.pos = to]
lfs_file_rawwrite(g, d) == NotErredIfOk(WriteIfOk(GapFilled(g, WritePos(g)), d))

-----------------------------------------------------------------------------
(* Seeking, truncating, reading *)

lfs_file_rawsize(g) == IF Is(g, "WRITING") THEN Max({g.pos, g.size}) ELSE g.size

AtPosition(g, n) == IF Ok(g) THEN [g EXCEPT !.pos = n] ELSE g
lfs_file_rawseek(g, n) == AtPosition(IF g.pos = n THEN g ELSE lfs_file_flush(g), n)

\* The bytes of a file that is not being written.
Bytes(g) == IF Is(g, "INLINE") THEN SubSeq(g.buffer, 1, g.size) ELSE g.list

\* Truncating to so little that the file is inline afterwards.
ToInline(s, n) ==
  IF ~Ok(s) THEN s
  ELSE [Add(s, {"DIRTY", "INLINE"}) EXCEPT
          !.buffer = Put(@, 0, SubSeq(Bytes(s), 1, n)),
          !.head = "inline", !.list = <<>>, !.size = n, !.pos = n]

\* Truncating to a shorter list.
ToPrefix(s, n) ==
  IF ~Ok(s) THEN s
  ELSE [Add(s, {"DIRTY"}) EXCEPT !.list = SubSeq(@, 1, n), !.size = n, !.pos = n]

\* Extending by zeros, each of them a write of its own.
Extended(g, n) == NotErredIfOk(FillZeros(lfs_file_rawseek(g, lfs_file_rawsize(g)), n))

Resized(g, n) ==
  LET size == lfs_file_rawsize(g) IN
  IF n < size
  THEN IF n <= InlineUpTo THEN ToInline(lfs_file_rawseek(g, 0), n)
       ELSE ToPrefix(lfs_file_flush(g), n)
  ELSE IF n > size THEN Extended(g, n) ELSE g

SeekIfOk(g, n) == IF Ok(g) THEN lfs_file_rawseek(g, n) ELSE g
lfs_file_rawtruncate(g, n) == SeekIfOk(Resized(g, n), g.pos)

-----------------------------------------------------------------------------
(* The calls *)

\* A file as it is opened: as it is committed, or empty with LFS_O_TRUNC.
Opened(d, trunc) ==
  LET inline == trunc \/ d.kind = "inline"
      data == IF trunc THEN <<>> ELSE d.data
  IN  [flags |-> (IF inline THEN {"INLINE"} ELSE {}) \cup (IF trunc THEN {"DIRTY"} ELSE {}),
       pos |-> 0, size |-> Len(data), head |-> IF inline THEN "inline" ELSE "list",
       list |-> IF inline THEN <<>> ELSE data, buffer |-> IF inline THEN data ELSE <<>>,
       branch |-> <<>>, offset |-> 0, room |-> 0, err |-> "ok"]

Init ==
  /\ disk = [kind |-> "inline", data |-> <<>>]
  /\ f = Opened(disk, FALSE)
  /\ answer = [res |-> "ok", data |-> <<>>]

\* The file before a call that gets r blocks, and after it.
Begin(r) == [f EXCEPT !.room = r]
Answer(g, data) ==
  /\ f' = [g EXCEPT !.room = 0, !.err = "ok"]
  /\ answer' = [res |-> g.err, data |-> IF Ok(g) THEN data ELSE <<>>]
Return(g) == Answer(g, <<>>)

Got(g, data) == Answer(IF Ok(g) THEN [g EXCEPT !.pos = @ + Len(data)] ELSE g, data)
Read(n, r) ==
  /\ \E g \in {lfs_file_flush(Begin(r))} : Got(g, Slice(Bytes(g), g.pos + 1, g.pos + n))
  /\ UNCHANGED disk

CarefulWrite(n) ==
  Is(f, "INLINE") /\ f.size > OutlineAbove => WritePos(f) + n >= f.size

Write(n, v, r) ==
  /\ WritePos(f) + n <= MaxSize
  /\ Careful => CarefulWrite(n)
  /\ Return(lfs_file_rawwrite(Begin(r), [i \in 1..n |-> v]))
  /\ UNCHANGED disk

\* A call that asks for more than a file can have: a write, which has moved
\* an appending file to its end by then, a seek or a truncation.
Refuse(pos, res) ==
  /\ f' = [f EXCEPT !.pos = pos]
  /\ answer' = [res |-> res, data |-> <<>>]
  /\ UNCHANGED disk

WriteTooMuch(n) == WritePos(f) + n > MaxSize /\ Refuse(WritePos(f), "fbig")
GoTooFar == Refuse(f.pos, "inval")

Seek(n, r) ==
  /\ Return(lfs_file_rawseek(Begin(r), n))
  /\ UNCHANGED disk

Truncate(n, r) ==
  /\ Return(lfs_file_rawtruncate(Begin(r), n))
  /\ UNCHANGED disk

\* lfs_file_rawsync, also that of lfs_file_rawclose.  Whether the directory
\* has room for the commit is the other parameter.
Sync(r, committed) == \E g \in {lfs_file_flush(Begin(r))} :
  IF Is(f, "ERRED") THEN Return(f) /\ UNCHANGED disk
  ELSE IF ~Ok(g) THEN Return(Add(g, {"ERRED"})) /\ UNCHANGED disk
  ELSE IF ~Is(g, "DIRTY") THEN Return(g) /\ UNCHANGED disk
  ELSE IF committed
  THEN Return(Drop(g, {"DIRTY"})) /\ disk' = [kind |-> g.head, data |-> Bytes(g)]
  ELSE Return([Add(g, {"ERRED"}) EXCEPT !.err = "nospc"]) /\ UNCHANGED disk

\* The file is opened again, after a loss of power or after a close.
Open(trunc) ==
  /\ f' = Opened(disk, trunc)
  /\ answer' = [res |-> "ok", data |-> <<>>]
  /\ UNCHANGED disk

Next ==
  \/ \E r \in Rooms :
       \/ \E n \in Sizes : Read(n, r) \/ \E v \in Values : Write(n, v, r)
       \/ \E n \in 0..MaxSize : Seek(n, r) \/ Truncate(n, r)
       \/ \E committed \in BOOLEAN : Sync(r, committed)
  \/ GoTooFar \/ \E n \in Sizes : WriteTooMuch(n)
  \/ \E trunc \in BOOLEAN : Open(trunc)

Spec == Init /\ [][Next]_vars

-----------------------------------------------------------------------------
(* Properties *)

\* The bytes as the calls so far have made them: flushed or not, inline or
\* not.
Contents ==
  IF Is(f, "INLINE") THEN SubSeq(f.buffer, 1, lfs_file_rawsize(f))
  ELSE IF Is(f, "WRITING") THEN f.branch \o Slice(f.list, f.pos + 1, f.size)
  ELSE f.list

Atomic == INSTANCE AtomicFile
  WITH contents <- Contents, pos <- f.pos, erred <- Is(f, "ERRED"), synced <- disk.data

\* However the file goes from its directory to blocks and back, and wherever
\* space runs out, reads give the bytes that were written, a sync makes all of
\* them durable or none, and a call fails for want of space, or with nothing
\* done when it asks for more than a file can have (lfs_file_rawwrite,
\* lfs_file_rawtruncate, lfs_file_rawsync).
ImplementsAtomicFile == Atomic!Spec

\* A file that is committed inline fits into its tag and into the cache that
\* it is loaded to (lfs_file_rawopencfg).
InlineFits ==
  /\ disk.kind = "inline" => Len(disk.data) <= Max({OutlineAbove, InlineUpTo})
  /\ Is(f, "INLINE") => Len(f.buffer) <= Max({OutlineAbove, InlineUpTo})
=============================================================================
