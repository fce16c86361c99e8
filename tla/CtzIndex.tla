------------------------------ MODULE CtzIndex -------------------------------
(***************************************************************************)
(* The arithmetic of a file's block list.  The list is a CTZ skip list:    *)
(* block i > 0 starts with ctz(i) + 1 pointers, the k-th to block i - 2^k, *)
(* and the rest of it holds data; block 0 holds only data.  lfs_ctz_index  *)
(* finds the block and the offset in it of a position of the file without  *)
(* visiting any block.                                                     *)
(***************************************************************************)
EXTENDS Integers, FiniteSets

CONSTANTS
  BlockSize,   \* bytes of a block
  PtrSize,     \* bytes of a pointer: sizeof(uint64_t)
  Bits         \* width of an index: 64 in the code

ASSUME CtzAssumption ==
  /\ PtrSize \in Nat \ {0}
  /\ Bits \in Nat \ {0}
  /\ BlockSize \in Nat
  /\ BlockSize > 2 * PtrSize

BitsOf(a) == {k \in 0..(Bits - 1) : (a \div 2^k) % 2 = 1}

\* The lowest bit of a that is set; 0 when none is.
lfs_ctz64(a) ==
  IF BitsOf(a) = {} THEN 0 ELSE CHOOSE k \in BitsOf(a) : \A j \in BitsOf(a) : k <= j

lfs_popc64(a) == Cardinality(BitsOf(a))

\* The exponent of the least power of two that is at least a, except for 1.
lfs_npw2_64(a) ==
  IF a = 1 THEN 1 ELSE CHOOSE k \in 0..Bits : 2^k >= a /\ \A j \in 0..(k - 1) : 2^j < a

\* Mutant: the pointers of the block itself are not counted.
lfs_ctz_indexOffByOne(size) ==
  LET b == BlockSize - 2 * PtrSize
      g == size \div b
      i == (size - PtrSize * (lfs_popc64(g - 1) + 2)) \div b
  IN  IF g = 0 THEN <<0, size>> ELSE <<i, size - b * i - PtrSize * lfs_popc64(i - 1)>>

\* The index of the block that holds position size, and the offset in it.
lfs_ctz_index(size) ==
  LET b == BlockSize - 2 * PtrSize
      g == size \div b
      i == (size - PtrSize * (lfs_popc64(g - 1) + 2)) \div b
  IN  IF g = 0 THEN <<0, size>> ELSE <<i, size - b * i - PtrSize * lfs_popc64(i)>>

\* Pointers at the start of block i.
Pointers(i) == IF i = 0 THEN 0 ELSE lfs_ctz64(i) + 1

\* The exponent of the pointer that lfs_ctz_find follows from block current
\* on its way to block target.
Skip(current, target) ==
  LET n == lfs_npw2_64(current - target + 1) - 1
  IN  IF n < lfs_ctz64(current) THEN n ELSE lfs_ctz64(current)
=============================================================================
