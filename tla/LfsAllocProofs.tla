--------------------------- MODULE LfsAllocProofs ----------------------------
(***************************************************************************)
(* The allocator never hands out a block that is in use or in flight,      *)
(* whatever the number of blocks, the size of the lookahead buffer and the *)
(* order in which operations allocate, commit, give up and acknowledge,    *)
(* unless the device has grown under the operation.                        *)
(*                                                                         *)
(* The argument: since the last acknowledgement the cursor has passed      *)
(* count - ack blocks, all in-flight blocks are among them, and at most    *)
(* ack blocks of the window are still ahead.  Both together are at most    *)
(* count positions, so that no block ahead is one of those behind.         *)
(***************************************************************************)
EXTENDS LfsAlloc, TLAPS

\* The lookahead buffer has a bit for every block of the device.
BitPerBlock == MaxCount <= BitmapBits

-----------------------------------------------------------------------------
(* Remainders *)

LEMMA DivMod ==
  ASSUME NEW n \in Nat \ {0}, NEW x \in Nat
  PROVE  \E q \in Nat, r \in 0..(n - 1) : x = n * q + r /\ x % n = r
<1>1. x % n \in 0..(n - 1) /\ x \div n \in Nat /\ x = n * (x \div n) + (x % n)
  OBVIOUS
<1>2. QED
  BY <1>1

LEMMA ModOf ==
  ASSUME NEW n \in Nat \ {0}, NEW q \in Int, NEW r \in 0..(n - 1)
  PROVE  (n * q + r) % n = r
OBVIOUS

\* Positions less than a full turn apart are different blocks.
LEMMA ModApart ==
  ASSUME NEW n \in Nat \ {0}, NEW x \in Nat, NEW y \in Nat, x < y, y < x + n
  PROVE  x % n # y % n
<1>1. SUFFICES ASSUME x % n = y % n PROVE FALSE
  OBVIOUS
<1>2. PICK p \in Nat, r \in 0..(n - 1) : x = n * p + r /\ x % n = r
  BY DivMod
<1>3. PICK q \in Nat, t \in 0..(n - 1) : y = n * q + t /\ y % n = t
  BY DivMod
<1>4. r = t
  BY <1>1, <1>2, <1>3
<1>5. n * p < n * q /\ n * q < n * p + n
  BY <1>2, <1>3, <1>4
<1>6. CASE q <= p
  <2>1. PICK d \in Nat : p = q + d
    BY <1>6
  <2>2. n * p = n * q + n * d /\ n * d >= 0
    BY <2>1
  <2>3. QED BY <1>5, <2>2
<1>7. CASE q > p
  <2>1. PICK d \in Nat : q = (p + 1) + d
    BY <1>7
  <2>2. n * q >= n * p + n
    BY <2>1
  <2>3. QED BY <1>5, <2>2
<1>8. QED
  BY <1>6, <1>7

\* Reducing a position before moving on makes no difference.
LEMMA ModShift ==
  ASSUME NEW n \in Nat \ {0}, NEW x \in Nat, NEW y \in Nat
  PROVE  ((x % n) + y) % n = (x + y) % n
<1>1. PICK p \in Nat, r \in 0..(n - 1) : x = n * p + r /\ x % n = r
  BY DivMod
<1> DEFINE z == r + y
<1>z. z \in Nat
  OBVIOUS
<1> HIDE DEF z
<1>2. PICK s \in Nat, t \in 0..(n - 1) : z = n * s + t /\ z % n = t
  BY <1>z, DivMod
<1> USE DEF z
<1>3. x + y = n * (p + s) + t
  BY <1>1, <1>2
<1>4. (n * (p + s) + t) % n = t
  BY ModOf
<1>5. QED
  BY <1>1, <1>2, <1>3, <1>4

LEMMA ModTurn ==
  ASSUME NEW n \in Nat \ {0}, NEW x \in Nat
  PROVE  (x + n) % n = x % n
<1>1. PICK p \in Nat, r \in 0..(n - 1) : x = n * p + r /\ x % n = r
  BY DivMod
<1>2. x + n = n * (p + 1) + r
  BY <1>1
<1>3. (n * (p + 1) + r) % n = r
  BY ModOf
<1>4. QED
  BY <1>1, <1>2, <1>3

LEMMA ModSmall ==
  ASSUME NEW n \in Nat \ {0}, NEW x \in 0..(n - 1)
  PROVE  x % n = x
OBVIOUS

-----------------------------------------------------------------------------
(* Blocks by position *)

LEMMA CountPositive ==
  ASSUME TypeOK
  PROVE  count \in Nat \ {0} /\ offset \in Nat /\ offset < count
BY AllocAssumption DEF TypeOK, Blocks

LEMMA BlockAtIsBlock ==
  ASSUME TypeOK, NEW o \in Nat
  PROVE  BlockAt(o) \in Blocks
<1>1. count \in Nat \ {0} /\ offset + o \in Nat
  BY CountPositive
<1>2. \A x \in Nat : x % count \in 0..(count - 1)
  BY <1>1, DivMod
<1>3. QED
  BY <1>1, <1>2 DEF BlockAt, Blocks

\* A block ahead of the cursor, no further than ack, has not been passed.
LEMMA AheadNotPassed ==
  ASSUME TypeOK, NEW o \in Nat, i <= o, o < i + ack
  PROVE  BlockAt(o) \notin Passed
<1>1. SUFFICES ASSUME NEW k \in 1..(count - ack)
               PROVE  BlockAt(o) # BlockAt(i + count - k)
  BY DEF Passed
<1>2. /\ count \in Nat \ {0} /\ offset + o \in Nat
      /\ offset + (i + count - k) \in Nat
      /\ offset + o < offset + (i + count - k)
      /\ offset + (i + count - k) < (offset + o) + count
  BY <1>1, CountPositive DEF TypeOK
<1>3. QED
  BY <1>2, ModApart DEF BlockAt

\* Passing one block adds it to those passed.
LEMMA PassOne ==
  ASSUME TypeOK, i < size, i' = i + 1, ack' = ack - 1, UNCHANGED <<count, offset>>
  PROVE  Passed \subseteq Passed' /\ BlockAt(i) \in Passed'
<1>1. /\ count \in Nat \ {0} /\ offset \in Nat /\ i \in Nat /\ ack \in 0..count
      /\ Passed' = {BlockAt((i + 1) + count - k) : k \in 1..(count - (ack - 1))}
  BY CountPositive DEF TypeOK, Passed, BlockAt
<1>2. ASSUME NEW k \in 1..(count - ack)
      PROVE  BlockAt(i + count - k) \in Passed'
  <2>1. k + 1 \in 1..(count - (ack - 1)) /\ i + count - k = (i + 1) + count - (k + 1)
    BY <1>1
  <2>2. QED
    BY <1>1, <2>1
<1>3. BlockAt(i) \in Passed'
  <2>1. 1 \in 1..(count - (ack - 1)) /\ (i + 1) + count - 1 = i + count
    BY <1>1
  <2>2. offset + (i + count) = (offset + i) + count /\ offset + i \in Nat
    BY <1>1
  <2>3. BlockAt(i + count) = BlockAt(i)
    BY <1>1, <2>2, ModTurn DEF BlockAt
  <2>4. QED
    BY <1>1, <2>1, <2>3
<1>4. QED
  BY <1>2, <1>3 DEF Passed

\* Moving the window leaves every block where it is, counted from the cursor.
LEMMA MoveWindow ==
  ASSUME TypeOK, i = size, offset' = (offset + size) % count, i' = 0,
         UNCHANGED <<count, ack>>
  PROVE  /\ offset' \in Blocks
         /\ \A o \in Nat : (offset' + o) % count = BlockAt(size + o)
         /\ Passed' = Passed
<1>1. /\ count \in Nat \ {0} /\ offset \in Nat /\ size \in Nat /\ ack \in 0..count
      /\ offset + size \in Nat
  BY CountPositive DEF TypeOK
<1>2. offset' \in Blocks
  BY BlockAtIsBlock, <1>1 DEF BlockAt
<1>3. ASSUME NEW o \in Nat PROVE (offset' + o) % count = BlockAt(size + o)
  <2>1. (((offset + size) % count) + o) % count = ((offset + size) + o) % count
    BY <1>1, ModShift
  <2>2. (offset + size) + o = offset + (size + o)
    BY <1>1
  <2>3. QED
    BY <2>1, <2>2 DEF BlockAt
<1>4. Passed' = {(offset' + (0 + count - k)) % count : k \in 1..(count - ack)}
  BY DEF Passed, BlockAt
<1>5. Passed = {BlockAt(size + (0 + count - k)) : k \in 1..(count - ack)}
  <2>1. \A k \in 1..(count - ack) : i + count - k = size + (0 + count - k)
    BY <1>1
  <2>2. QED
    BY <2>1 DEF Passed
<1>6. \A k \in 1..(count - ack) : 0 + count - k \in Nat
  BY <1>1
<1>7. QED
  BY <1>2, <1>3, <1>4, <1>5, <1>6

-----------------------------------------------------------------------------
(* Every action preserves the invariant *)

LEMMA InitInvariant ==
  ASSUME Init
  PROVE  IInv
<1>1. TypeOK
  <2>1. grown \in BOOLEAN
    BY Zenon DEF Init
  <2>2. /\ count = InitCount /\ used \subseteq 0..(InitCount - 1) /\ seen = used
        /\ held = {} /\ offset \in 0..(InitCount - 1) /\ size = 0 /\ i = 0 /\ bits = {}
        /\ ack = InitCount /\ pc = "idle" /\ found = 0 /\ stale = {}
    BY DEF Init
  <2>3. QED
    BY <2>1, <2>2, AllocAssumption DEF TypeOK, Blocks
<1>2. QED
  BY <1>1, AllocAssumption DEF Init, IInv, InFlight, AheadFree, FoundIsFree

\* Actions of the operations: the cursor stays, and in-flight blocks become
\* used ones or are given up.
LEMMA OperationStep ==
  ASSUME IInv,
         \/ \E linked \in SUBSET held, freed \in SUBSET (used \ Super) : Commit(linked, freed)
         \/ \E b \in held : GiveUp(b)
         \/ Alloc
         \/ Nospc
         \/ ReturnNospc
         \/ ReturnBlock
  PROVE  IInv'
<1> USE DEF IInv
<1>1. /\ UNCHANGED alloc
      /\ used' \subseteq used \cup held
      /\ InFlight' \subseteq InFlight
      /\ used' \cup InFlight' \subseteq used \cup InFlight
      /\ pc' \in {"idle", "scan", "nospc"}
      /\ found' \in Blocks
      /\ held' \subseteq Blocks
      /\ stale' = stale
      /\ seen' \subseteq Blocks
      /\ grown' = grown
  BY DEF Commit, GiveUp, Alloc, Nospc, ReturnNospc, ReturnBlock, Idle, InFlight, TypeOK
<1>2. UNCHANGED <<count, offset, size, i, bits, ack>>
  BY <1>1 DEF alloc
<1>3. TypeOK'
  BY <1>1, <1>2 DEF TypeOK, Blocks
<1>4. (~grown => InFlight' \subseteq Passed') /\ (size - i <= ack)'
  BY <1>1, <1>2 DEF Passed, BlockAt
<1>5. ~grown => AheadFree'
  BY <1>1, <1>2 DEF AheadFree, BlockAt
<1>6. FoundIsFree'
  BY <1>1 DEF FoundIsFree
<1>7. QED
  BY <1>1, <1>3, <1>4, <1>5, <1>6

LEMMA AckStep ==
  ASSUME IInv, Ack
  PROVE  IInv'
<1> USE DEF IInv
<1>1. /\ held' = {} /\ pc' = "idle" /\ ack' = count
      /\ UNCHANGED <<count, used, offset, size, i, bits, found, grown>>
  BY DEF Ack, Idle
<1>2. count \in Nat
  BY CountPositive
<1>3. stale' \subseteq Blocks
  <2>1. \A o \in {o \in bits : i <= o /\ o < size} : o \in Nat
    BY DEF TypeOK
  <2>2. QED
    BY <2>1, BlockAtIsBlock DEF Ack, MarkedAhead
<1>4. TypeOK'
  BY <1>1, <1>2, <1>3 DEF Ack, TypeOK, Blocks
<1>5. InFlight' = {} /\ InFlight = {}
  BY <1>1 DEF InFlight, Ack, Idle
<1>6. (size - i <= ack)'
  BY <1>1, <1>2 DEF TypeOK
<1>7. (~grown => AheadFree') /\ FoundIsFree'
  BY <1>1, <1>5 DEF AheadFree, FoundIsFree, BlockAt
<1>8. QED
  BY <1>1, <1>4, <1>5, <1>6, <1>7

\* The window is dropped: nothing is ahead, nothing is in flight.
LEMMA DropStep ==
  ASSUME IInv, RefillFails \/ \E start \in Blocks : Remount(start)
  PROVE  IInv'
<1> USE DEF IInv
<1>1. /\ held' = {} /\ pc' = "idle" /\ ack' = count
      /\ size' = 0 /\ i' = 0 /\ bits' = {}
      /\ seen' = used /\ stale' = {}
      /\ grown' \in BOOLEAN
      /\ UNCHANGED <<count, used>>
  BY Zenon DEF RefillFails, Remount
<1>2. count \in Nat \ {0}
  BY CountPositive
<1>3. offset' \in Blocks /\ found' \in Blocks
  <2>1. CASE RefillFails
    BY <2>1, BlockAtIsBlock DEF RefillFails, BlockAt, TypeOK
  <2>2. CASE \E start \in Blocks : Remount(start)
    BY <2>2, <1>2 DEF Remount, Blocks
  <2>3. QED
    BY <2>1, <2>2
<1>4. TypeOK'
  BY <1>1, <1>2, <1>3 DEF TypeOK, Blocks
<1>5. QED
  BY <1>1, <1>2, <1>4 DEF InFlight, AheadFree, FoundIsFree

LEMMA PassStep ==
  ASSUME IInv, PassMarked \/ SkipMarked
  PROVE  IInv'
<1> USE DEF IInv
<1>1. /\ i' = i + 1 /\ ack' = ack - 1 /\ i \in bits
      /\ UNCHANGED <<count, used, held, offset, size, bits, pc, found, seen, stale, grown>>
  BY DEF PassMarked, SkipMarked
<1>2. i < size /\ i \in Nat /\ size \in Nat /\ ack \in Nat
  BY <1>1, CountPositive DEF TypeOK
<1>3. TypeOK'
  BY <1>1, <1>2, CountPositive DEF TypeOK, Blocks
<1>4. ~grown => InFlight' \subseteq Passed'
  BY <1>1, <1>2, PassOne DEF InFlight
<1>5. ~grown => AheadFree'
  BY <1>1, <1>2 DEF AheadFree, BlockAt, InFlight
<1>6. QED
  BY <1>1, <1>2, <1>3, <1>4, <1>5 DEF FoundIsFree

LEMMA TakeStep ==
  ASSUME IInv, TakeUnmarked
  PROVE  IInv'
<1> USE DEF IInv
<1>1. /\ i' = i + 1 /\ ack' = ack - 1 /\ i \notin bits
      /\ pc = "scan" /\ pc' = "found" /\ found' = BlockAt(i)
      /\ UNCHANGED <<count, used, held, offset, size, bits, seen, stale, grown>>
  BY DEF TakeUnmarked
<1>2. i < size /\ i \in Nat /\ size \in Nat /\ ack \in Nat /\ size - i <= ack
  BY CountPositive DEF TakeUnmarked, TypeOK
<1>3. found' \in Blocks
  BY <1>1, <1>2, BlockAtIsBlock
<1>4. TypeOK'
  BY <1>1, <1>2, <1>3, CountPositive DEF TypeOK, Blocks
<1>5. InFlight' = held \cup {BlockAt(i)} /\ InFlight = held
  BY <1>1 DEF InFlight
<1>6. ~grown => InFlight' \subseteq Passed'
  BY <1>1, <1>2, <1>5, PassOne
<1>7. ~grown => found' \notin used \cup held
  BY <1>1, <1>2, <1>5 DEF AheadFree
<1>8. ASSUME ~grown PROVE AheadFree'
  <2>1. SUFFICES ASSUME NEW o \in (i + 1)..(size - 1), o \notin bits
                 PROVE  BlockAt(o) \notin used \cup held \cup {BlockAt(i)}
    BY <1>1, <1>5 DEF AheadFree, BlockAt
  <2>2. BlockAt(o) \notin used \cup held
    BY <1>8, <2>1, <1>2, <1>5 DEF AheadFree
  <2>3. BlockAt(o) # BlockAt(i)
    <3>1. /\ offset + i \in Nat /\ offset + o \in Nat /\ count \in Nat \ {0}
          /\ offset + i < offset + o /\ offset + o < (offset + i) + count
      BY <2>1, <1>2, CountPositive DEF TypeOK
    <3>2. QED
      BY <3>1, ModApart DEF BlockAt
  <2>4. QED
    BY <2>2, <2>3
<1>9. QED
  BY <1>1, <1>2, <1>4, <1>6, <1>7, <1>8 DEF FoundIsFree

LEMMA RefillStep ==
  ASSUME IInv, BitPerBlock, Refill
  PROVE  IInv'
<1> USE DEF IInv
<1>1. /\ pc = "scan" /\ i = size /\ ack # 0
      /\ offset' = (offset + size) % count /\ size' = WindowSize /\ i' = 0
      /\ grown' = (grown /\ held # {})
      /\ UNCHANGED <<count, used, held, ack, pc, found, seen, stale>>
  BY DEF Refill
<1>2. /\ ack \in 1..count /\ count \in Nat \ {0} /\ size \in Nat
      /\ WindowSize \in 0..ack /\ WindowSize <= BitmapBits
  BY <1>1, AllocAssumption, CountPositive DEF TypeOK, WindowSize, BitPerBlock
<1>3. bits' = Lookahead((offset + size) % count, WindowSize)
  <2>1. {o \in 0..(WindowSize - 1) : o >= BitmapBits} = {}
    BY <1>2, AllocAssumption
  <2>2. \A o \in Lookahead((offset + size) % count, WindowSize) : o < BitmapBits
    BY <1>2, AllocAssumption DEF Lookahead
  <2>3. QED
    BY <2>1, <2>2 DEF Refill
<1>4. /\ offset' \in Blocks
      /\ \A o \in Nat : (offset' + o) % count = BlockAt(size + o)
      /\ Passed' = Passed
  BY <1>1, MoveWindow
<1>5. TypeOK'
  <2>1. bits' \subseteq 0..(WindowSize - 1)
    BY <1>3 DEF Lookahead
  <2>2. QED
    BY <1>1, <1>2, <1>4, <2>1 DEF TypeOK, Blocks
<1>6. InFlight' = held /\ InFlight = held
  BY <1>1 DEF InFlight
<1>f. ~grown' => InFlight \subseteq Passed
  BY <1>1, <1>6
<1>7. ASSUME ~grown' PROVE AheadFree'
  <2>1. SUFFICES ASSUME NEW o \in 0..(WindowSize - 1), o \notin bits'
                 PROVE  (offset' + o) % count \notin used \cup held
    BY <1>1, <1>6 DEF AheadFree, BlockAt
  <2>2. (offset' + o) % count \notin used
    BY <2>1, <1>1, <1>3 DEF Lookahead
  <2>3. o \in Nat /\ size + o \in Nat /\ i <= size + o /\ size + o < i + ack
    BY <1>1, <1>2, <2>1
  <2>4. BlockAt(size + o) \notin Passed
    BY <2>3, AheadNotPassed
  <2>5. QED
    BY <1>f, <1>7, <1>4, <1>6, <2>2, <2>3, <2>4
<1>8. QED
  BY <1>f, <1>1, <1>2, <1>4, <1>5, <1>6, <1>7 DEF FoundIsFree

\* Growing empties the window and counts from the new number of blocks; what
\* the operation holds has not been passed by that count.
LEMMA GrowStep ==
  ASSUME IInv, Grow
  PROVE  IInv'
<1> USE DEF IInv
<1>1. /\ pc = "scan" /\ i = size
      /\ count' = count + GrowBy /\ count' <= MaxCount /\ ack' = count'
      /\ grown' = (grown \/ held # {}) /\ stale' = {} /\ seen' = used \cup held
      /\ UNCHANGED <<used, held, offset, size, i, bits, pc, found>>
  BY DEF Grow, CanGrow
<1>2. count \in Nat \ {0} /\ GrowBy \in Nat /\ count <= count'
  BY <1>1, CountPositive, AllocAssumption
<1>3. TypeOK'
  BY <1>1, <1>2, AllocAssumption DEF TypeOK, Blocks
<1>4. (size - i <= ack)' /\ AheadFree'
  BY <1>1, <1>2, <1>3 DEF TypeOK, AheadFree
<1>5. ~grown' => InFlight' = {}
  BY <1>1 DEF InFlight
<1>6. QED
  BY <1>1, <1>3, <1>4, <1>5 DEF FoundIsFree

LEMMA StutterStep ==
  ASSUME IInv, UNCHANGED vars
  PROVE  IInv'
BY DEF vars, IInv, TypeOK, Blocks, InFlight, Passed, BlockAt, AheadFree, FoundIsFree

-----------------------------------------------------------------------------
(* The theorems *)

LEMMA InvariantStep ==
  ASSUME BitPerBlock, IInv, [Next]_vars
  PROVE  IInv'
<1>1. CASE AllocStep
  BY <1>1, PassStep, TakeStep, OperationStep, RefillStep, DropStep, GrowStep DEF AllocStep
<1>2. CASE UNCHANGED vars
  BY <1>2, StutterStep
<1>3. CASE Next /\ ~AllocStep
  BY <1>3, OperationStep, AckStep, DropStep DEF Next
<1>4. QED
  BY <1>1, <1>2, <1>3

THEOREM InductiveInvariant ==
  ASSUME BitPerBlock
  PROVE  Spec => []IInv
<1>1. Init => IInv
  BY InitInvariant
<1>2. IInv /\ [Next]_vars => IInv'
  BY InvariantStep
<1>3. QED
  BY <1>1, <1>2, PTL DEF Spec

\* lfs->free stays in range: ack does not wrap below zero and a window never
\* covers a block twice.
THEOREM TypeCorrect ==
  ASSUME BitPerBlock
  PROVE  Spec => []TypeOK
<1>1. IInv => TypeOK
  BY DEF IInv
<1>2. QED
  BY <1>1, InductiveInvariant, PTL

\* lfs_alloc never returns a block that is in use or in flight, unless the
\* device has grown under the operation.
THEOREM NeverHandedOutTwice ==
  ASSUME BitPerBlock
  PROVE  Spec => []FoundIsFree
<1>1. IInv => FoundIsFree
  BY DEF IInv
<1>2. QED
  BY <1>1, InductiveInvariant, PTL

-----------------------------------------------------------------------------
(* LFS_ERR_NOSPC is only reported after the cursor has gone a full turn    *)
(* since the last acknowledgement, across however many windows, and every  *)
(* block it passed was marked when its window was read or was handed out.  *)

\* What the cursor has passed and what is marked ahead of it are accounted
\* for, and so is all that a traversal could mark next.
SInv ==
  /\ used \cup held \subseteq seen
  /\ Passed \subseteq seen \cup stale \cup (IF pc = "found" THEN {found} ELSE {})
  /\ MarkedAhead \subseteq seen \cup stale
  /\ NospcJustified

-----------------------------------------------------------------------------
(* The cursor *)

\* Passing one block adds nothing else to those passed.
LEMMA PassOneOnly ==
  ASSUME TypeOK, i < size, i' = i + 1, ack' = ack - 1, UNCHANGED <<count, offset>>
  PROVE  Passed' \subseteq Passed \cup {BlockAt(i)}
<1>1. /\ count \in Nat \ {0} /\ offset \in Nat /\ i \in Nat /\ ack \in 0..count
      /\ Passed' = {BlockAt((i + 1) + count - k) : k \in 1..(count - (ack - 1))}
  BY CountPositive DEF TypeOK, Passed, BlockAt
<1>2. SUFFICES ASSUME NEW k \in 1..(count - (ack - 1))
               PROVE  BlockAt((i + 1) + count - k) \in Passed \cup {BlockAt(i)}
  BY <1>1
<1>3. CASE k = 1
  <2>1. offset + ((i + 1) + count - k) = (offset + i) + count /\ offset + i \in Nat
    BY <1>1, <1>3
  <2>2. BlockAt((i + 1) + count - k) = BlockAt(i)
    BY <1>1, <2>1, ModTurn DEF BlockAt
  <2>3. QED
    BY <2>2
<1>4. CASE k # 1
  <2>1. k - 1 \in 1..(count - ack) /\ (i + 1) + count - k = i + count - (k - 1)
    BY <1>1, <1>4
  <2>2. BlockAt(i + count - (k - 1)) \in Passed
    BY <2>1 DEF Passed
  <2>3. QED
    BY <2>1, <2>2
<1>5. QED
  BY <1>3, <1>4

\* When ack has come down to zero the cursor has passed every block.
LEMMA FullTurn ==
  ASSUME TypeOK, ack = 0
  PROVE  Blocks \subseteq Passed
<1>1. /\ count \in Nat \ {0} /\ offset \in Nat /\ i \in Nat
      /\ offset + i \in Nat
  BY CountPositive DEF TypeOK
<1>2. SUFFICES ASSUME NEW b \in 0..(count - 1) PROVE b \in Passed
  BY DEF Blocks
<1> DEFINE s == (offset + i) % count
<1>3. s \in 0..(count - 1)
  BY <1>1, DivMod
<1>4. \A m \in Nat : (offset + i + m) % count = (s + m) % count
  BY <1>1, ModShift
<1> HIDE DEF s
<1>5. PICK m \in 0..(count - 1) : (s + m) % count = b
  <2>1. CASE s <= b
    <3>1. b - s \in 0..(count - 1) /\ s + (b - s) = b
      BY <1>1, <1>3, <2>1
    <3>2. b % count = b
      BY <1>1, ModSmall
    <3>3. QED
      BY <3>1, <3>2
  <2>2. CASE b < s
    <3>1. b + count - s \in 0..(count - 1) /\ s + (b + count - s) = b + count
      BY <1>1, <1>3, <2>2
    <3>2. (b + count) % count = b
      BY <1>1, ModSmall, ModTurn
    <3>3. QED
      BY <3>1, <3>2
  <2>3. QED
    BY <1>1, <1>3, <2>1, <2>2
<1>6. BlockAt(i + count - (count - m)) = b
  <2>1. offset + (i + count - (count - m)) = offset + i + m
    BY <1>1
  <2>2. QED
    BY <1>4, <1>5, <2>1 DEF BlockAt
<1>7. count - m \in 1..(count - ack)
  BY <1>1
<1>8. QED
  BY <1>6, <1>7 DEF Passed

-----------------------------------------------------------------------------
(* Every action preserves SInv *)

LEMMA InitSpace ==
  ASSUME Init
  PROVE  SInv
<1>1. 1..(count - ack) = {}
  BY AllocAssumption DEF Init
<1>2. QED
  BY <1>1 DEF Init, SInv, Passed, MarkedAhead, NospcJustified

\* The cursor stays.
LEMMA SpaceInHand ==
  ASSUME IInv, SInv,
         \/ \E linked \in SUBSET held, freed \in SUBSET (used \ Super) : Commit(linked, freed)
         \/ \E b \in held : GiveUp(b)
         \/ Alloc
         \/ ReturnNospc
         \/ ReturnBlock
  PROVE  SInv'
<1> USE DEF SInv
<1>1. /\ UNCHANGED <<count, offset, size, i, bits, ack, stale>>
      /\ seen' = seen \cup (IF pc = "found" THEN {found} ELSE {})
      /\ used' \cup held' \subseteq seen'
      /\ pc' \in {"idle", "scan"}
  BY DEF Commit, GiveUp, Alloc, ReturnNospc, ReturnBlock, Idle, alloc
<1>2. Passed' = Passed /\ MarkedAhead' = MarkedAhead
  BY <1>1 DEF Passed, MarkedAhead, BlockAt
<1>3. QED
  BY <1>1, <1>2 DEF NospcJustified

LEMMA SpaceTurned ==
  ASSUME IInv, SInv, Nospc
  PROVE  SInv'
<1> USE DEF SInv
<1>1. /\ pc = "scan" /\ pc' = "nospc" /\ ack = 0
      /\ UNCHANGED <<count, offset, size, i, bits, ack, used, held, seen, stale>>
  BY DEF Nospc, alloc
<1>2. Blocks \subseteq Passed
  BY <1>1, FullTurn DEF IInv
<1>3. Blocks' = Blocks /\ Passed' = Passed /\ MarkedAhead' = MarkedAhead
  BY <1>1 DEF Blocks, Passed, MarkedAhead, BlockAt
<1>4. QED
  BY <1>1, <1>2, <1>3 DEF NospcJustified

\* A new count starts: nothing has been passed in it.
LEMMA SpaceCounted ==
  ASSUME IInv, SInv, Ack \/ RefillFails \/ Grow \/ \E start \in Blocks : Remount(start)
  PROVE  SInv'
<1> USE DEF SInv, IInv
<1>1. /\ ack' = count' /\ used' = used /\ used' \cup held' \subseteq seen'
      /\ pc' \in {"idle", "scan"}
  BY DEF Ack, Idle, RefillFails, Grow, Remount
<1>2. Passed' = {}
  <2>1. count' \in Nat
    BY CountPositive, AllocAssumption DEF Ack, RefillFails, Grow, Remount
  <2>2. 1..(count' - ack') = {}
    <3>1. \A n \in Nat : 1..(n - n) = {}
      OBVIOUS
    <3>2. QED
      BY <1>1, <2>1, <3>1
  <2>3. QED
    BY <2>2 DEF Passed
<1>3. MarkedAhead' \subseteq seen' \cup stale'
  <2>1. CASE Ack
    BY <2>1 DEF Ack, MarkedAhead, BlockAt
  <2>2. CASE RefillFails \/ \E start \in Blocks : Remount(start)
    BY <2>2 DEF RefillFails, Remount, MarkedAhead
  <2>3. CASE Grow
    <3>1. i' = size' /\ i' \in Int /\ bits' \subseteq Int
      BY <2>3, CountPositive DEF Grow, TypeOK
    <3>2. \A o \in bits' : ~(i' <= o /\ o < size')
      BY <3>1
    <3>3. QED
      BY <3>2 DEF MarkedAhead
  <2>4. QED
    BY <2>1, <2>2, <2>3
<1>4. QED
  BY <1>1, <1>2, <1>3 DEF NospcJustified

\* The cursor passes a block: one marked ahead, or the one it returns.
LEMMA SpacePassed ==
  ASSUME IInv, SInv, PassMarked \/ SkipMarked \/ TakeUnmarked
  PROVE  SInv'
<1> USE DEF SInv, IInv
<1>1. /\ i' = i + 1 /\ ack' = ack - 1 /\ i # size
      /\ UNCHANGED <<count, offset, size, bits, used, held, seen, stale>>
  BY DEF PassMarked, SkipMarked, TakeUnmarked
<1>2. i < size /\ i \in Nat /\ size \in Nat /\ bits \subseteq Int
  BY <1>1, CountPositive DEF TypeOK
<1>3. Passed' \subseteq Passed \cup {BlockAt(i)}
  BY <1>1, <1>2, PassOneOnly
<1>4. MarkedAhead' \subseteq MarkedAhead
  BY <1>1, <1>2 DEF MarkedAhead, BlockAt
<1>5. CASE PassMarked \/ SkipMarked
  <2>1. i \in bits /\ pc' = pc /\ found' = found /\ pc # "nospc"
    BY <1>5 DEF PassMarked, SkipMarked
  <2>2. BlockAt(i) \in MarkedAhead
    BY <2>1, <1>2 DEF MarkedAhead
  <2>3. QED
    BY <1>1, <1>3, <1>4, <2>1, <2>2 DEF NospcJustified
<1>6. CASE TakeUnmarked
  <2>1. pc = "scan" /\ pc' = "found" /\ found' = BlockAt(i)
    BY <1>6 DEF TakeUnmarked
  <2>2. QED
    BY <1>1, <1>3, <1>4, <2>1 DEF NospcJustified
<1>7. QED
  BY <1>5, <1>6

\* A new window marks blocks that are in use, which have been seen.
LEMMA SpaceRefilled ==
  ASSUME IInv, BitPerBlock, SInv, Refill
  PROVE  SInv'
<1> USE DEF SInv, IInv
<1>1. /\ pc = "scan" /\ i = size
      /\ offset' = (offset + size) % count /\ size' = WindowSize /\ i' = 0
      /\ UNCHANGED <<count, used, held, ack, pc, found, seen, stale>>
  BY DEF Refill
<1>2. Passed' = Passed
  BY <1>1, MoveWindow
<1>3. \A o \in bits' : (offset' + o) % count \in used
  <2>1. WindowSize \in Nat /\ WindowSize <= BitmapBits
    BY AllocAssumption, CountPositive DEF TypeOK, WindowSize, BitPerBlock
  <2>2. {o \in 0..(WindowSize - 1) : o >= BitmapBits} = {}
    BY <2>1, AllocAssumption
  <2>3. bits' \subseteq Lookahead((offset + size) % count, WindowSize)
    BY <2>2 DEF Refill
  <2>4. QED
    BY <1>1, <2>3 DEF Lookahead
<1>4. MarkedAhead' \subseteq used
  BY <1>1, <1>3 DEF MarkedAhead, BlockAt
<1>5. QED
  BY <1>1, <1>2, <1>4 DEF NospcJustified

LEMMA SpaceStep ==
  ASSUME BitPerBlock, IInv, SInv, [Next]_vars
  PROVE  SInv'
<1>1. CASE AllocStep
  BY <1>1, SpaceInHand, SpaceTurned, SpaceCounted, SpacePassed, SpaceRefilled DEF AllocStep
<1>2. CASE UNCHANGED vars
  BY <1>2 DEF vars, SInv, Passed, MarkedAhead, BlockAt, NospcJustified, Blocks
<1>3. CASE Next /\ ~AllocStep
  BY <1>3, SpaceInHand, SpaceCounted DEF Next
<1>4. QED
  BY <1>1, <1>2, <1>3

\* The disk is full when lfs_alloc says so: no block was free all the time
\* since the last lfs_alloc_ack, unless it was marked in the window left over
\* from before.
THEOREM NospcIsJustified ==
  ASSUME BitPerBlock
  PROVE  Spec => []NospcJustified
<1>1. Init => IInv /\ SInv
  BY InitInvariant, InitSpace
<1>2. IInv /\ SInv /\ [Next]_vars => (IInv /\ SInv)'
  BY InvariantStep, SpaceStep
<1>3. SInv => NospcJustified
  BY DEF SInv
<1>4. QED
  BY <1>1, <1>2, <1>3, PTL DEF Spec

-----------------------------------------------------------------------------
(***************************************************************************)
(* Growth: while a volume is mounted, nothing lies outside its device, for *)
(* every size of the container, every step it grows by and every           *)
(* operation.  Here the volume of LfsGrow has a state of its own.          *)
(*                                                                         *)
(* BlocksBacked is not inductive: what a mount finds must fit the device   *)
(* too, and nothing is held while the volume is not mounted.               *)
(***************************************************************************)
CONSTANTS Start, Added, Room, MaxNeed
VARIABLES device, stored, counted, cfg, committed, taken, need, onGrow, stage

G == INSTANCE LfsGrow
       WITH GrowBy <- Added, MaxBlocks <- Room,
            count <- counted, used <- committed, held <- taken, pc <- stage

VolumeCounts ==
  /\ device \in Nat /\ stored \in Nat /\ counted \in Nat /\ cfg \in Nat
  /\ committed \in Nat /\ taken \in Nat /\ need \in Nat

VolumeFits == committed <= device /\ (stage = "off" => taken = 0)

VolumeInv == VolumeCounts /\ VolumeFits /\ G!BlocksBacked

(* A freshly formatted volume: two blocks in use, at least two there. *)
LEMMA InitBacked == G!GrowAssumption /\ G!Init => VolumeInv
BY DEF G!GrowAssumption, G!Init, VolumeInv, VolumeCounts, VolumeFits, G!BlocksBacked

(* Every step keeps it. *)
LEMMA NextBacked == G!GrowAssumption /\ VolumeInv /\ [G!Next]_(G!vars) => VolumeInv'
<1> SUFFICES ASSUME G!GrowAssumption, VolumeInv, [G!Next]_(G!vars) PROVE VolumeInv'
  OBVIOUS
<1> USE DEF G!GrowAssumption, VolumeInv, VolumeCounts, VolumeFits, G!BlocksBacked
<1>1. CASE G!Mount
  BY <1>1 DEF G!Mount
<1>2. CASE G!Call
  BY <1>2 DEF G!Call
<1>3. CASE G!Take
  BY <1>3 DEF G!Take, G!Full
<1>4. CASE G!Enlarge
  BY <1>4 DEF G!Enlarge, G!Full
<1>5. CASE G!NoSpace
  BY <1>5 DEF G!NoSpace, G!Full
<1>6. CASE G!Grow
  BY <1>6 DEF G!Grow
<1>7. CASE G!CommitRoot
  BY <1>7 DEF G!CommitRoot
<1>8. CASE G!Commit
  BY <1>8 DEF G!Commit
<1>9. CASE G!Delete
  BY <1>9 DEF G!Delete
<1>10. CASE G!Stop
  BY <1>10 DEF G!Stop
<1>11. CASE UNCHANGED G!vars
  BY <1>11 DEF G!vars
<1>12. QED
  BY <1>1, <1>2, <1>3, <1>4, <1>5, <1>6, <1>7, <1>8, <1>9, <1>10, <1>11 DEF G!Next, G!Step

(* Allocation and growth never address a block the device does not have    *)
(* (lfs_alloc, lfs_bd_cb_alloc, lfs_fs_rawgrow).                           *)
THEOREM NothingOutsideTheDevice ==
  ASSUME G!GrowAssumption
  PROVE  G!Spec => []G!BlocksBacked
<1>1. VolumeInv => G!BlocksBacked
  BY DEF VolumeInv
<1>2. G!Init => VolumeInv
  BY InitBacked
<1>3. VolumeInv /\ [G!Next]_(G!vars) => VolumeInv'
  BY NextBacked
<1> QED
  BY <1>1, <1>2, <1>3, PTL DEF G!Spec

=============================================================================
