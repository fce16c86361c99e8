------------------------------ MODULE MCLfsCtz -------------------------------
(***************************************************************************)
(* LfsCtz on a device of 24 blocks, and lfs_ctz_index, with the sizes of a *)
(* real pointer and the smallest block, against its definition: the blocks *)
(* of a file laid end to end, each behind its pointers.                    *)
(***************************************************************************)
EXTENDS LfsCtz

MCBlocks == 1..24

\* bound: blocks of the file that is laid out
MCIndexes == 0..80

Real == INSTANCE CtzIndex WITH BlockSize <- 128, PtrSize <- 8, Bits <- 16

\* Bytes of pointers at the start of block k, and the position of the first
\* byte of data behind them.
DataOffset(k) == 8 * Real!Pointers(k)
DataStart[k \in MCIndexes] ==
  IF k = 0 THEN 0 ELSE DataStart[k - 1] + 128 - DataOffset(k - 1)

\* lfs_ctz_index gives the block and the offset of every byte of the file.
\* Nothing in this depends on the state: one state is enough to look at.
IndexIsPosition ==
  taken = 0 =>
    \A k \in MCIndexes : \A o \in DataOffset(k)..127 :
      Real!lfs_ctz_index(DataStart[k] + o - DataOffset(k)) = <<k, o>>
=============================================================================
