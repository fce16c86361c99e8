---------------------------- MODULE LfsFileRead ------------------------------
(***************************************************************************)
(* Reading a file that is not inlined: where the next byte comes from.     *)
(*                                                                         *)
(* A file remembers the block and the offset of its position while it is   *)
(* read (LFS_F_READING), and looks the block up only when it has none or   *)
(* has come to its end.  Seeking inside what the cache holds keeps both.   *)
(* Blocks are named by their index in the list: LfsCtz shows that          *)
(* lfs_ctz_find gets to them.  Bytes are abstracted.  read_size is 1, as   *)
(* the VFS configures it.                                                  *)
(***************************************************************************)
EXTENDS CtzIndex, FiniteSetsExt

CONSTANTS
  FileSize,     \* bytes of the file when it is opened
  CacheSize,    \* cfg->cache_size
  Sought,       \* bound: positions sought
  Chunks,       \* bound: sizes of the reads
  Truncations   \* bound: sizes truncated to

VARIABLES
  size,      \* file->ctz.size
  pos,       \* file->pos
  block,     \* file->block, as an index of the list
  offset,    \* file->offset
  reading,   \* LFS_F_READING
  cache      \* file->cache: block, offset and size

vars == <<size, pos, block, offset, reading, cache>>

NoBlock == -1
NoCache == [block |-> NoBlock, offset |-> 0, size |-> 0]

Index(p) == lfs_ctz_index(p)[1]
Offset(p) == lfs_ctz_index(p)[2]
Least(a, b) == Min({a, b})

-----------------------------------------------------------------------------
(* The cache *)

InCache(c, b, o) == b = c.block /\ o >= c.offset /\ o < c.offset + c.size

\* The cache after it has been filled from offset from of block b.
Load(hint, b, from) ==
  [block |-> b, offset |-> from,
   size |-> Least(Least(from + hint, BlockSize) - from, CacheSize)]

\* The cache after lfs_bd_read of n bytes at offset o of block b.
lfs_bd_read(c, hint, b, o, n) ==
  LET After[m \in 0..n, d \in {c} \cup {Load(hint, b, from) : from \in o..(o + n)}] ==
        LET at == o + n - m
        IN  IF m = 0 THEN d
            ELSE IF InCache(d, b, at)
            THEN After[m - Least(m, d.size - (at - d.offset)), d]
            ELSE LET diff == IF b = d.block /\ at < d.offset THEN Least(m, d.offset - at) ELSE m
                 IN  IF m >= hint THEN After[m - diff, d] ELSE After[m, Load(hint, b, at)]
  IN  After[n, c]

\* The cache after lfs_ctz_find has read the pointers on the way from the
\* last block to the block of position p.
lfs_ctz_find(c, p) ==
  LET Walk[k \in 0..(Index(size - 1) + 1)] ==
        IF k = 0 THEN [at |-> Index(size - 1), cache |-> c]
        ELSE LET w == Walk[k - 1]
                 s == Skip(w.at, Index(p))
             IN  IF w.at <= Index(p) THEN w
                 ELSE [at |-> w.at - 2^s,
                       cache |-> lfs_bd_read(w.cache, PtrSize, w.at, PtrSize * s, PtrSize)]
  IN  Walk[Index(size - 1) + 1].cache

-----------------------------------------------------------------------------
Init ==
  /\ size = FileSize
  /\ pos = 0
  /\ block = NoBlock
  /\ offset = 0
  /\ reading = FALSE
  /\ cache = NoCache

\* A round of lfs_file_flushedread, of at most n bytes.
Read(n) ==
  LET found == ~reading \/ offset = BlockSize
      b == IF found THEN Index(pos) ELSE block
      o == IF found THEN Offset(pos) ELSE offset
      c == IF found THEN lfs_ctz_find(cache, pos) ELSE cache
      diff == Min({n, size - pos, BlockSize - o})
  IN  /\ pos < size
      /\ block' = b
      /\ offset' = o + diff
      /\ pos' = pos + diff
      /\ reading' = TRUE
      /\ cache' = lfs_bd_read(c, BlockSize, b, o, diff)
      /\ UNCHANGED size

\* lfs_file_flush of a file that is not being written.
Flushed(c) == [block |-> NoBlock, offset |-> c.offset, size |-> c.size]

\* lfs_file_rawseek from one position to another, with READING and the cache
\* as they are: the new pos, offset, reading and cache.  "if we're only
\* reading and our new offset is still in the file's cache we can avoid
\* flushing and needing to reread the data".
lfs_file_rawseek(from, n, r, c) ==
  IF from = n THEN <<n, offset, r, c>>
  ELSE IF Index(from) = Index(n) /\ Offset(n) >= c.offset /\ Offset(n) < c.offset + c.size
  THEN <<n, Offset(n), r, c>>
  ELSE <<n, offset, FALSE, IF r THEN Flushed(c) ELSE c>>

Seek(n) ==
  LET s == lfs_file_rawseek(pos, n, reading, cache)
  IN  /\ pos' = s[1]
      /\ offset' = s[2]
      /\ reading' = s[3]
      /\ cache' = s[4]
      /\ UNCHANGED <<size, block>>

\* lfs_file_rawtruncate to n bytes that are not inlined, and its seek back to
\* where the position was.
Truncate(n) ==
  LET c == lfs_ctz_find(IF reading THEN Flushed(cache) ELSE cache, n - 1)
      s == lfs_file_rawseek(n, pos, TRUE, c)
  IN  /\ n \in 1..(size - 1)
      /\ size' = n
      /\ block' = Index(n - 1)
      /\ pos' = s[1]
      /\ offset' = s[2]
      /\ reading' = s[3]
      /\ cache' = s[4]

Next ==
  \/ \E n \in Chunks : Read(n)
  \/ \E n \in Sought : Seek(n)
  \/ \E n \in Truncations : Truncate(n)

Spec == Init /\ [][Next]_vars

-----------------------------------------------------------------------------
(* Properties *)

\* A read that looks nothing up.
Continues == reading /\ offset # BlockSize /\ pos < size

\* A read that looks nothing up continues in the block of the position and at
\* its offset there, wherever the seeks before it went: what the shortcut of
\* lfs_file_rawseek says of its cache (lfs_file.cpp:770-783).  It does not: at
\* the end of a block the position is in the next one, the block and the cache
\* are not.
ContinuesAtPosition == Continues => block = Index(pos) /\ offset = Offset(pos)
=============================================================================
