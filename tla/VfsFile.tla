------------------------------- MODULE VfsFile -------------------------------
(***************************************************************************)
(* The page cache of the VFS: handles (VFSFileObject) on one file, each    *)
(* with its own pages over its own lfs_file_t; what every call does to     *)
(* them, once it has the mutex (VfsShared has the threads that call).      *)
(*                                                                         *)
(* A write only changes pages.  A flush writes the dirty pages to the      *)
(* lfs_file_t, in order, and syncs it.  The lfs_file_t below is reduced to *)
(* its contents, as this handle sees them, and to whether a sync would     *)
(* commit them; its own structure is in LfsCtz.                            *)
(***************************************************************************)
EXTENDS Integers, Sequences, FiniteSetsExt

CONSTANTS
  Handles,      \* VFSFileObjects on the file
  Access,       \* the flags they are opened with: {"read", "write", "append"}
  PageSize,     \* bytes of a page
  MaxSize,      \* bound: bytes the file can have
  Values,       \* bytes that are written, none of them Zero or Garbage
  Zero, Garbage,\* the byte 0, and a byte that nobody wrote to a buffer
  Sizes,        \* bound: the sizes of writes and reads
  Truncations,  \* bound: the sizes truncated to
  Gaps,         \* whether a position behind the end is sought
  Failing       \* what can fail besides reads: {"load", "write"}, the read
                \* that loads a page, and lfs_file_write, for want of space

ASSUME FileAssumption ==
  /\ PageSize \in Nat \ {0}
  /\ MaxSize \in Nat
  /\ Sizes \subseteq Nat \ {0}
  /\ Truncations \subseteq 0..MaxSize
  /\ Failing \subseteq {"load", "write"}

VARIABLES
  disk,     \* the committed contents of the file
  ram,      \* per handle: the contents of its lfs_file_t
  changed,  \* per handle: LFS_F_DIRTY or LFS_F_WRITING
  erred,    \* per handle: LFS_F_ERRED
  open,     \* per handle: _is_open
  pages,    \* per handle: _pages, a function on the cached pages
  pos,      \* per handle: _pos
  size,     \* per handle: _file_size
  aborted,  \* an LFS_ASSERT has failed
  pending,  \* history, per handle: what was asked for since the last flush
  flushed   \* history: the contents that all flushes so far ask for

handle == <<ram, changed, erred, open, pages, pos, size>>
contents == <<disk, handle, pending, flushed>>

Least(a, b) == Min({a, b})
PageOf(p) == p \div PageSize

-----------------------------------------------------------------------------
(* Contents *)

\* The function f, and g where f has no value.
Over(f, g) == [x \in DOMAIN f \cup DOMAIN g |-> IF x \in DOMAIN f THEN f[x] ELSE g[x]]

\* The contents c with d written at position p; a gap is filled with zeros.
Overwrite(c, p, d) ==
  [i \in 1..Max({Len(c), p + Len(d)}) |->
     IF i \in (p + 1)..(p + Len(d)) THEN d[i - p] ELSE IF i <= Len(c) THEN c[i] ELSE Zero]

\* The contents c cut or extended to n bytes.
Resize(c, n) == [i \in 1..n |-> IF i <= Len(c) THEN c[i] ELSE Zero]

\* lfs_file_write after lfs_file_seek to p.
LfsWrite(c, p, d) ==
  IF "append" \in Access /\ p < Len(c) THEN c \o d ELSE Overwrite(c, p, d)

\* load_page_if_needed: the page as it is in the lfs_file_t, else zeros.  A
\* failing lfs_file_read is not noticed (its bytes are abstracted to zeros).
Loaded(h, q) ==
  [data |-> [i \in 1..PageSize |->
               IF q * PageSize + i <= Len(ram[h]) THEN ram[h][q * PageSize + i] ELSE Zero],
   dirty |-> FALSE]
Blank == [data |-> [i \in 1..PageSize |-> Zero], dirty |-> FALSE]

\* lfs_file_read asserts LFS_O_RDONLY when a page has to come from the file.
LoadAborts(h, qs) ==
  /\ "read" \notin Access
  /\ \E q \in qs \ DOMAIN pages[h] : q * PageSize < Len(ram[h])

\* What a read of position p < size[h] puts in the caller's buffer.  The
\* lfs_file_t fills nothing behind its end, and is not asked whether it did.
ReadByte(h, p) ==
  IF PageOf(p) \in DOMAIN pages[h] THEN pages[h][PageOf(p)].data[(p % PageSize) + 1]
  ELSE IF p < Len(ram[h]) THEN ram[h][p + 1]
  ELSE Garbage

-----------------------------------------------------------------------------
(* What is asked for: how much is kept of the contents, and bytes over it *)

None == [keep |-> MaxSize, bytes |-> [p \in {} |-> Zero]]

Apply(c, asked) ==
  LET kept == Least(asked.keep, Len(c))
      length == Max({kept} \cup {p + 1 : p \in DOMAIN asked.bytes})
  IN  [i \in 1..length |-> IF i - 1 \in DOMAIN asked.bytes THEN asked.bytes[i - 1]
                           ELSE IF i <= kept THEN c[i] ELSE Zero]

\* The contents as handle h has asked for them.
Wanted(h) == Apply(flushed, pending[h])

\* asked, and then n bytes v at position p.
ThenWrite(asked, p, n, v) ==
  [asked EXCEPT !.bytes = Over([i \in p..(p + n - 1) |-> v], asked.bytes)]

\* asked, which makes length bytes, and then a truncation to n.
ThenResize(asked, length, n) ==
  [keep |-> Least(asked.keep, n),
   bytes |-> Over([i \in {j \in DOMAIN asked.bytes : j < n} |-> asked.bytes[i]],
                  [i \in length..(n - 1) |-> Zero])]

-----------------------------------------------------------------------------
FileInit ==
  /\ disk = <<>>
  /\ ram = [h \in Handles |-> <<>>]
  /\ changed = [h \in Handles |-> FALSE]
  /\ erred = [h \in Handles |-> FALSE]
  /\ open = [h \in Handles |-> FALSE]
  /\ pages = [h \in Handles |-> [q \in {} |-> <<>>]]
  /\ pos = [h \in Handles |-> 0]
  /\ size = [h \in Handles |-> 0]
  /\ aborted = FALSE
  /\ pending = [h \in Handles |-> None]
  /\ flushed = <<>>

\* lfsVFS::open and init_file_state, for a new VFSFileObject.
Open(h) ==
  /\ ~aborted
  /\ ~open[h]
  /\ open' = [open EXCEPT ![h] = TRUE]
  /\ ram' = [ram EXCEPT ![h] = disk]
  /\ changed' = [changed EXCEPT ![h] = FALSE]
  /\ erred' = [erred EXCEPT ![h] = FALSE]
  /\ pages' = [pages EXCEPT ![h] = [q \in {} |-> <<>>]]
  /\ pos' = [pos EXCEPT ![h] = 0]
  /\ size' = [size EXCEPT ![h] = Len(disk)]
  /\ pending' = [pending EXCEPT ![h] = None]
  /\ UNCHANGED <<disk, aborted, flushed>>

\* VFSFileObject::seek.
Seek(h, p) ==
  /\ pos' = [pos EXCEPT ![h] = p]
  /\ UNCHANGED <<disk, ram, changed, erred, open, pages, size, aborted, pending, flushed>>

\* VFSFileObject::read of n bytes (ReadByte: what it returns).  It ends where
\* an lfs_file_read around the pages fails, and asserts as a load does.
Read(h, n) ==
  LET end == IF pos[h] < size[h] THEN Least(pos[h] + n, size[h]) ELSE pos[h]
      around == {PageOf(p) : p \in pos[h]..(end - 1)} \ DOMAIN pages[h]
  IN  /\ IF "read" \notin Access /\ around # {}
         THEN aborted' = TRUE /\ UNCHANGED pos
         ELSE /\ \E p \in {end} \cup {Max({pos[h], q * PageSize}) : q \in around} :
                   pos' = [pos EXCEPT ![h] = p]
              /\ UNCHANGED aborted
      /\ UNCHANGED <<disk, ram, changed, erred, open, pages, size, pending, flushed>>

\* Mutant: a page written in part is not loaded first.
WriteUnloaded(h, n, v, failed) ==
  LET qs == {PageOf(p) : p \in pos[h]..(pos[h] + n - 1)}
      Base(q) == IF q \in DOMAIN pages[h] THEN pages[h][q].data
                 ELSE [i \in 1..PageSize |-> Zero]
      Hit(q, i) == q * PageSize + i - 1 \in pos[h]..(pos[h] + n - 1)
  IN  /\ pages' = [pages EXCEPT ![h] = Over([q \in qs |->
                     [data |-> [i \in 1..PageSize |-> IF Hit(q, i) THEN v ELSE Base(q)[i]],
                      dirty |-> TRUE]], pages[h])]
      /\ pos' = [pos EXCEPT ![h] = pos[h] + n]
      /\ size' = [size EXCEPT ![h] = Max({size[h], pos[h] + n})]
      /\ pending' = [pending EXCEPT ![h] = ThenWrite(pending[h], pos[h], n, v)]
      /\ UNCHANGED <<disk, ram, changed, erred, open, aborted, flushed>>

\* VFSFileObject::write of n bytes v: every page touched is loaded, those in
\* failed without success, and becomes dirty.  A file opened to append is
\* expected to be written at its end.
Write(h, n, v, failed) ==
  LET qs == {PageOf(p) : p \in pos[h]..(pos[h] + n - 1)}
      Base(q) == IF q \in DOMAIN pages[h] THEN pages[h][q].data
                 ELSE IF q \in failed THEN Blank.data ELSE Loaded(h, q).data
      Hit(q, i) == q * PageSize + i - 1 \in pos[h]..(pos[h] + n - 1)
      at == IF "append" \in Access THEN Len(Wanted(h)) ELSE pos[h]
  IN  /\ IF LoadAborts(h, qs)
         THEN aborted' = TRUE /\ UNCHANGED <<pages, pos, size, pending>>
         ELSE /\ pages' = [pages EXCEPT ![h] = Over([q \in qs |->
                             [data |-> [i \in 1..PageSize |-> IF Hit(q, i) THEN v ELSE Base(q)[i]],
                              dirty |-> TRUE]], pages[h])]
              /\ pos' = [pos EXCEPT ![h] = pos[h] + n]
              /\ size' = [size EXCEPT ![h] = Max({size[h], pos[h] + n})]
              /\ pending' = [pending EXCEPT ![h] = ThenWrite(pending[h], at, n, v)]
              /\ UNCHANGED aborted
      /\ UNCHANGED <<disk, ram, changed, erred, open, flushed>>

-----------------------------------------------------------------------------
(* Flushing *)

\* The dirty pages; one that lies behind the end of the file is not written.
DirtyPages(h) == {q \in DOMAIN pages[h] : pages[h][q].dirty /\ q * PageSize < size[h]}

\* The bytes of a page that belong to the file.
PageBytes(h, q) ==
  SubSeq(pages[h][q].data, 1, Least(PageSize, size[h] - q * PageSize))

\* The contents of the lfs_file_t after the pages in qs were written to it, one
\* after the other as they are sorted.
WritePages(h, qs) ==
  LET Written[k \in 0..(PageOf(size[h]) + 1)] ==
        IF k = 0 THEN ram[h]
        ELSE IF k - 1 \in qs
             THEN LfsWrite(Written[k - 1], (k - 1) * PageSize, PageBytes(h, k - 1))
             ELSE Written[k - 1]
  IN  Written[PageOf(size[h]) + 1]

\* A flush writes the dirty pages.  Results are not looked at: those in failed
\* are lost, and after a last write that failed (LFS_F_ERRED) lfs_file_sync
\* does nothing.
Flushed(h, failed) == WritePages(h, DirtyPages(h) \ failed)
Bad(h, failed) == IF DirtyPages(h) = {} THEN erred[h] ELSE Max(DirtyPages(h)) \in failed
Unsynced(h, failed) == changed[h] \/ DirtyPages(h) \ failed # {}
Synced(h, failed) ==
  IF ~Bad(h, failed) /\ Unsynced(h, failed) THEN Flushed(h, failed) ELSE disk

\* Mutant: pages are marked clean and not written when the file is not longer.
FlushGrowing(h, failed) ==
  LET new == WritePages(h, {q \in DirtyPages(h) : (q + 1) * PageSize > Len(ram[h])})
  IN  /\ ram' = [ram EXCEPT ![h] = new]
      /\ pages' = [pages EXCEPT ![h] = [q \in DOMAIN pages[h] |-> [pages[h][q] EXCEPT !.dirty = FALSE]]]
      /\ disk' = new
      /\ changed' = [changed EXCEPT ![h] = FALSE]
      /\ flushed' = Wanted(h)
      /\ UNCHANGED erred

\* flush_internal.
FlushInternal(h, failed) ==
  /\ ram' = [ram EXCEPT ![h] = Flushed(h, failed)]
  /\ pages' = [pages EXCEPT ![h] = [q \in DOMAIN pages[h] |-> [pages[h][q] EXCEPT !.dirty = FALSE]]]
  /\ erred' = [erred EXCEPT ![h] = Bad(h, failed)]
  /\ disk' = Synced(h, failed)
  /\ changed' = [changed EXCEPT ![h] = Bad(h, failed) /\ Unsynced(h, failed)]
  /\ flushed' = Wanted(h)

\* The sets of pages of h that may fail to be written, or to be loaded.
Failures(h) ==
  SUBSET ((IF "write" \in Failing THEN DirtyPages(h) ELSE {})
          \cup (IF "load" \in Failing THEN (0..PageOf(MaxSize)) \ DOMAIN pages[h] ELSE {}))

\* VFSFileObject::flush; flush_internal looks at _is_open again.
Flush(h, failed) ==
  IF open[h]
  THEN /\ FlushInternal(h, failed)
       /\ pending' = [pending EXCEPT ![h] = None]
       /\ UNCHANGED <<open, pos, size, aborted>>
  ELSE UNCHANGED <<contents, aborted>>

\* VFSFileObject::close, also from the destructors.
Close(h, failed) ==
  /\ FlushInternal(h, failed)
  /\ pending' = [pending EXCEPT ![h] = None]
  /\ open' = [open EXCEPT ![h] = FALSE]
  /\ UNCHANGED <<pos, size, aborted>>

\* VFSFileObject::truncate: flush_internal, lfs_file_truncate, and the pages
\* behind the new end are dropped.  What lfs_file_truncate does is committed
\* by the next flush.
Truncate(h, n, failed) ==
  LET f == Flushed(h, failed)
      kept == {q \in DOMAIN pages[h] : q * PageSize < n}
  IN  /\ disk' = Synced(h, failed)
      /\ ram' = [ram EXCEPT ![h] = Resize(f, n)]
      /\ erred' = [erred EXCEPT ![h] = Bad(h, failed) /\ n <= Len(f)]
      /\ changed' = [changed EXCEPT ![h] = (Bad(h, failed) /\ Unsynced(h, failed)) \/ n # Len(f)]
      /\ pages' = [pages EXCEPT ![h] = [q \in kept |-> [pages[h][q] EXCEPT !.dirty = FALSE]]]
      /\ size' = [size EXCEPT ![h] = n]
      /\ pos' = [pos EXCEPT ![h] = Least(pos[h], n)]
      /\ flushed' = Wanted(h)
      /\ pending' = [pending EXCEPT ![h] = ThenResize(None, Len(Wanted(h)), n)]
      /\ UNCHANGED <<open, aborted>>

\* VFSFileObject::truncate when lfs_file_truncate fails: looking up the new
\* end, or, for want of space, somewhere on the way to it.  The flush is done,
\* and the handle keeps its size, its position and its pages.
TruncateFails(h, n, failed) ==
  LET f == Flushed(h, failed)
  IN  \/ n < Len(f) /\ Flush(h, failed)
      \/ /\ "write" \in Failing /\ n > Len(f)
         /\ \E k \in Len(f)..n :
              /\ ram' = [ram EXCEPT ![h] = Resize(f, k)]
              /\ changed' = [changed EXCEPT ![h] = (Bad(h, failed) /\ Unsynced(h, failed)) \/ k > Len(f)]
         /\ disk' = Synced(h, failed)
         /\ erred' = [erred EXCEPT ![h] = TRUE]
         /\ pages' = [pages EXCEPT ![h] = [q \in DOMAIN pages[h] |-> [pages[h][q] EXCEPT !.dirty = FALSE]]]
         /\ flushed' = Wanted(h)
         /\ pending' = [pending EXCEPT ![h] = None]
         /\ UNCHANGED <<open, pos, size, aborted>>

\* Power is lost.
Crash ==
  /\ ~aborted
  /\ open' = [h \in Handles |-> FALSE]
  /\ pending' = [h \in Handles |-> None]
  /\ ram' = [h \in Handles |-> <<>>]
  /\ changed' = [h \in Handles |-> FALSE]
  /\ erred' = [h \in Handles |-> FALSE]
  /\ pages' = [h \in Handles |-> [q \in {} |-> <<>>]]
  /\ pos' = [h \in Handles |-> 0]
  /\ size' = [h \in Handles |-> 0]
  /\ UNCHANGED <<disk, flushed, aborted>>

-----------------------------------------------------------------------------
(* Properties *)

\* A position that a read passes over: its page is not cached, and it lies
\* behind the end of the lfs_file_t.  The caller's buffer is left as it was.
Unfilled(h, p) == PageOf(p) \notin DOMAIN pages[h] /\ p >= Len(ram[h])

\* A handle reads what it has written over what was flushed, wherever the
\* bytes are (VFSFileObject::read, load_page_if_needed).  Only zeros of a gap
\* are passed over, no byte that was written or flushed.
ReadsAsWritten ==
  \A h \in Handles : open[h] =>
    /\ size[h] = Len(Wanted(h))
    /\ \A p \in 0..(size[h] - 1) :
         IF Unfilled(h, p) THEN Wanted(h)[p + 1] = Zero
         ELSE ReadByte(h, p) = Wanted(h)[p + 1]

\* After every flush, close and truncate the committed contents are those that
\* all of them together were asked for (flush_internal).
DurableAsFlushed == disk = flushed
=============================================================================
