--------------------------- MODULE VfsSharedProofs ---------------------------
(***************************************************************************)
(* That the calls of VfsShared exclude each other; and that the handle     *)
(* they share reads as it was written and is durable as it was flushed,    *)
(* for every size of pages, files, reads and writes and all threads.       *)
(***************************************************************************)
EXTENDS VfsShared, SequenceTheorems, WellFoundedInduction, TLAPS

-----------------------------------------------------------------------------
(* The mutex *)

(* Whatever a call does besides, the mutex and the threads move as in      *)
(* VfsLocking, or not at all.                                              *)
LEMMA StepRefines ==
  ASSUME [Next]_vars
  PROVE  [M!Next]_mutex
<1> USE DEF mutex
<1>1. ASSUME NEW t \in Threads, NEW kind \in Kinds, NEW h \in Handles, Enter(t, kind, h)
      PROVE  M!Next
  BY <1>1 DEF Enter, M!Next
<1>2. ASSUME NEW t \in Threads, Lock(t) PROVE M!Next
  BY <1>2 DEF Lock, M!Next
<1>3. ASSUME NEW t \in Threads, EnterCore(t) PROVE [M!Next]_mutex
  BY <1>3 DEF EnterCore, M!Next
<1>4. ASSUME NEW t \in Threads, LeaveCore(t) PROVE M!Next
  BY <1>4 DEF LeaveCore, M!Next
<1>5. ASSUME NEW t \in Threads, Return(t) PROVE M!Next
  BY <1>5 DEF Return, M!Next
<1>6. ASSUME NEW h \in Handles, OpenFile(h) PROVE UNCHANGED mutex
  BY <1>6 DEF OpenFile
<1>7. CASE PowerLoss
  BY <1>7 DEF PowerLoss, M!Next
<1>8. CASE UNCHANGED vars
  BY <1>8 DEF vars
<1> QED BY <1>1, <1>2, <1>3, <1>4, <1>5, <1>6, <1>7, <1>8 DEF Next

(* The mutex counts the scopes of its owner, and nobody else is in one.    *)
Held(t) == pc[t] \in {"held", "core"}
HeldByOwner == \A t \in Threads : Held(t) <=> t = owner
DepthIsNesting ==
  depth = IF owner = NoThread THEN 0 ELSE IF pc[owner] = "core" THEN 2 ELSE 1
MutexTypeOK ==
  /\ owner \in Threads \cup {NoThread}
  /\ pc \in [Threads -> {"idle", "entering", "held", "core"}]
MutexInv == MutexTypeOK /\ HeldByOwner /\ DepthIsNesting

LEMMA InitMutexInv ==
  ASSUME M!Init
  PROVE  MutexInv
BY SharedAssumption DEF M!Init, MutexInv, MutexTypeOK, HeldByOwner, DepthIsNesting, Held

(* Taking the mutex, from outside or once more, makes its taker the owner. *)
LEMMA AcquireMutexInv ==
  ASSUME MutexInv, NEW t \in Threads,
         M!Lock(t) \/ M!EnterCore(t)
  PROVE  MutexInv'
<1> USE SharedAssumption DEF MutexInv, MutexTypeOK, HeldByOwner, DepthIsNesting, Held
<1>1. CASE M!Lock(t)
  <2>1. owner = NoThread
    BY <1>1 DEF M!Lock, M!Acquire
  <2>2. owner' = t /\ depth' = 1 /\ pc' = [pc EXCEPT ![t] = "held"]
    BY <1>1, <2>1 DEF M!Lock, M!Acquire
  <2> QED BY <2>1, <2>2
<1>2. CASE M!EnterCore(t)
  <2>1. owner = t /\ depth = 1
    BY <1>2 DEF M!EnterCore
  <2>2. owner' = t /\ depth' = 2 /\ pc' = [pc EXCEPT ![t] = "core"]
    BY <1>2, <2>1 DEF M!EnterCore, M!Acquire
  <2> QED BY <2>1, <2>2
<1> QED BY <1>1, <1>2

(* Giving it back frees it exactly when the outermost scope ends.          *)
LEMMA ReleaseMutexInv ==
  ASSUME MutexInv, NEW t \in Threads,
         M!LeaveCore(t) \/ M!Return(t)
  PROVE  MutexInv'
<1> USE SharedAssumption DEF MutexInv, MutexTypeOK, HeldByOwner, DepthIsNesting, Held
<1>1. CASE M!LeaveCore(t)
  <2>1. owner = t /\ depth = 2
    BY <1>1 DEF M!LeaveCore
  <2>2. owner' = t /\ depth' = 1 /\ pc' = [pc EXCEPT ![t] = "held"]
    BY <1>1, <2>1 DEF M!LeaveCore, M!Release
  <2> QED BY <2>1, <2>2
<1>2. CASE M!Return(t)
  <2>1. owner = t /\ depth = 1
    BY <1>2 DEF M!Return
  <2>2. owner' = NoThread /\ depth' = 0 /\ pc' = [pc EXCEPT ![t] = "idle"]
    BY <1>2, <2>1 DEF M!Return, M!Release
  <2> QED BY <2>1, <2>2
<1> QED BY <1>1, <1>2

(* The steps that leave the mutex alone, and power loss.                   *)
LEMMA OtherMutexInv ==
  ASSUME MutexInv,
         (\E t \in Threads : M!Enter(t)) \/ M!Reset \/ UNCHANGED mutex
  PROVE  MutexInv'
<1> USE SharedAssumption DEF MutexInv, MutexTypeOK, HeldByOwner, DepthIsNesting, Held
<1>1. ASSUME NEW t \in Threads, M!Enter(t) PROVE MutexInv'
  BY <1>1 DEF M!Enter
<1>2. CASE M!Reset
  BY <1>2 DEF M!Reset
<1>3. CASE UNCHANGED mutex
  BY <1>3 DEF mutex
<1> QED BY <1>1, <1>2, <1>3

LEMMA NextMutexInv ==
  ASSUME MutexInv, [M!Next]_mutex
  PROVE  MutexInv'
BY AcquireMutexInv, ReleaseMutexInv, OtherMutexInv DEF M!Next

(* The mutex itself excludes its threads, whatever uses it (VfsLocking).   *)
THEOREM MutexExcludes == M!Spec => []M!Exclusive
<1>1. MutexInv => M!Exclusive
  BY SharedAssumption DEF MutexInv, MutexTypeOK, HeldByOwner, Held, M!Exclusive
<1>2. MutexInv /\ [M!Next]_(M!vars) => MutexInv'
  BY NextMutexInv DEF mutex, M!vars
<1> QED BY InitMutexInv, <1>1, <1>2, PTL DEF M!Spec

LEMMA InitHeld == Init => MutexInv
<1>1. Init => M!Init
  BY DEF Init
<1> QED BY <1>1, InitMutexInv

LEMMA StepHeld ==
  ASSUME MutexInv, [Next]_vars
  PROVE  MutexInv'
BY StepRefines, NextMutexInv

(* At most one thread works on the pages or in littlefs, whatever the      *)
(* calls and however they nest (VFSContext::mutex, lfs_bd_cb_lock).        *)
THEOREM AlwaysExclusive == Spec => []Exclusive
<1>1. MutexInv => Exclusive
  BY SharedAssumption
     DEF MutexInv, MutexTypeOK, HeldByOwner, Held, Exclusive, M!Exclusive
<1>2. MutexInv /\ [Next]_vars => MutexInv'
  BY StepHeld
<1> QED BY InitHeld, <1>1, <1>2, PTL DEF Spec

-----------------------------------------------------------------------------
(* Numbers and pages *)

\* The greatest of two numbers.
LEMMA MaxOfTwo == ASSUME NEW a \in Int, NEW b \in Int
  PROVE  Max({a, b}) = IF a >= b THEN a ELSE b
BY DEF Max

\* The least of two numbers.
LEMMA LeastOfTwo == ASSUME NEW a \in Int, NEW b \in Int
  PROVE  Least(a, b) = IF a <= b THEN a ELSE b
BY DEF Least, Min

\* A set of numbers that is not empty has a least one.
LEMMA LeastOfSome == ASSUME NEW T \in SUBSET Nat, T # {}
  PROVE  \E x \in T : \A y \in T : x <= y
<1>1. \E x \in T : \A y \in T : ~(<<y, x>> \in OpToRel(<, Nat))
  BY WFMin, NatLessThanWellFounded, Zenon
<1>2. ASSUME NEW x \in Nat, NEW y \in Nat, ~(<<y, x>> \in OpToRel(<, Nat))
      PROVE  ~(y < x)
  BY <1>2, Zenon DEF OpToRel
<1>3. PICK x \in T : \A y \in T : ~(<<y, x>> \in OpToRel(<, Nat))
  BY <1>1
<1>4. ASSUME NEW y \in T PROVE x <= y
  <2>1. x \in Nat /\ y \in Nat /\ ~(y < x)
    BY <1>2, <1>3
  <2> QED
    BY <2>1
<1> QED
  BY <1>4

\* A bounded set of numbers has a greatest one.
LEMMA GreatestOfSome == ASSUME NEW N \in Nat, NEW T \in SUBSET (0..N), T # {}
  PROVE  Max(T) \in T /\ \A y \in T : y <= Max(T)
<1> DEFINE U == {m \in 0..N : N - m \in T}
<1>1. PICK t \in T : TRUE
  OBVIOUS
<1>2. U \in SUBSET Nat /\ U # {}
  <2>1. t \in Nat /\ N - t \in 0..N /\ N - (N - t) = t
    OBVIOUS
  <2> QED
    BY <2>1
<1>3. PICK x \in U : \A y \in U : x <= y
  BY <1>2, LeastOfSome
<1>4. N - x \in T /\ \A y \in T : y <= N - x
  <2>1. ASSUME NEW y \in T PROVE y <= N - x
    <3>1. y \in Nat /\ N - y \in 0..N /\ N - (N - y) = y
      OBVIOUS
    <3>2. N - y \in U
      BY <3>1
    <3> QED
      BY <1>3, <3>1, <3>2
  <2> QED
    BY <2>1
<1>5. \E m \in T : \A y \in T : m >= y
  BY <1>4
<1> QED
  BY <1>5 DEF Max

\* Induction up to N, for a property given by the set of numbers that have it.
LEMMA UpTo ==
  ASSUME NEW N \in Nat, NEW T, 0 \in T,
         \A k \in 1..N : k - 1 \in T => k \in T
  PROVE  0..N \subseteq T
<1> DEFINE U == (0..N) \ T
<1>1. CASE U = {}
  BY <1>1
<1>2. CASE U # {}
  <2>1. U \in SUBSET Nat
    OBVIOUS
  <2> HIDE DEF U
  <2>2. PICK x \in U : \A y \in U : x <= y
    BY <1>2, <2>1, LeastOfSome
  <2>3. x \in 1..N /\ x \notin T
    BY <2>2 DEF U
  <2>4. x - 1 \in 0..N /\ x - 1 \notin U
    BY <2>2, <2>3, <2>1
  <2>5. x - 1 \in T
    BY <2>4 DEF U
  <2> QED
    BY <2>3, <2>5
<1> QED
  BY <1>1, <1>2

\* What FileAssumption says, one by one.
LEMMA Constants ==
  /\ PageSize \in Nat /\ PageSize >= 1
  /\ MaxSize \in Nat
  /\ Sizes \subseteq Nat \ {0}
  /\ Truncations \subseteq 0..MaxSize
BY FileAssumption

\* A position has a page and a place in it.
LEMMA PlaceInPage == ASSUME NEW p \in Nat
  PROVE  /\ PageOf(p) \in Nat
         /\ p % PageSize \in 0..(PageSize - 1)
         /\ p = PageOf(p) * PageSize + (p % PageSize)
<1> DEFINE d == PageSize
           u == p \div d
           v == p % d
<1>1. d \in Nat /\ d > 0
  BY Constants
<1>2. u \in Nat /\ v \in Nat /\ v < d /\ p = d * u + v
  BY <1>1
<1>3. d * u = u * d
  BY <1>1, <1>2
<1> QED
  BY <1>1, <1>2, <1>3 DEF PageOf

\* Pages follow each other.
LEMMA PagesApart == ASSUME NEW q \in Nat, NEW r \in Nat
  PROVE  /\ q * PageSize \in Nat
         /\ q <= q * PageSize
         /\ (q + 1) * PageSize = q * PageSize + PageSize
         /\ q < r => q * PageSize + PageSize <= r * PageSize
<1> DEFINE d == PageSize
<1>1. d \in Nat /\ d >= 1
  BY Constants
<1> HIDE DEF d
<1>2. q * d \in Nat /\ (q + 1) * d = q * d + d
  BY <1>1
<1>3. q <= q * d
  BY <1>1
<1>4. ASSUME q < r PROVE q * d + d <= r * d
  <2>1. (r - (q + 1)) * d >= 0
    BY <1>1, <1>4
  <2>2. (r - (q + 1)) * d = r * d - (q + 1) * d
    BY <1>1
  <2> QED
    BY <1>1, <1>2, <2>1, <2>2
<1> QED
  BY <1>2, <1>3, <1>4 DEF d

\* The page and the place determine the position, and it them.
LEMMA PlaceOf == ASSUME NEW q \in Nat, NEW j \in 0..(PageSize - 1)
  PROVE  /\ q * PageSize + j \in Nat
         /\ PageOf(q * PageSize + j) = q
         /\ (q * PageSize + j) % PageSize = j
<1> DEFINE d == PageSize
           p == q * d + j
           u == PageOf(p)
           v == p % d
<1>1. d \in Nat /\ d >= 1 /\ j \in Nat /\ j < d
  BY Constants
<1>2. q * d \in Nat
  BY PagesApart
<1>3. p \in Nat
  BY <1>1, <1>2
<1>4. u \in Nat /\ v \in 0..(d - 1) /\ p = u * d + v
  BY <1>3, PlaceInPage
<1>5. u * d \in Nat
  BY <1>4, PagesApart
<1>6. q < u => q * d + d <= u * d
  BY <1>4, PagesApart
<1>7. u < q => u * d + d <= q * d
  BY <1>4, PagesApart
<1>8. p = q * d + j
  OBVIOUS
<1> HIDE DEF d, p, u, v
<1>9. ~(q < u) /\ ~(u < q)
  BY <1>1, <1>2, <1>4, <1>5, <1>6, <1>7, <1>8
<1>10. u = q
  BY <1>4, <1>9
<1>11. v = j
  BY <1>1, <1>2, <1>4, <1>8, <1>10
<1> QED
  BY <1>3, <1>10, <1>11 DEF d, p, u, v

\* A position lies in a page exactly when it is one of its bytes.
LEMMA InPage == ASSUME NEW p \in Nat, NEW q \in Nat
  PROVE  /\ PageOf(p) = q <=> q * PageSize <= p /\ p < q * PageSize + PageSize
         /\ PageOf(p) < q <=> p < q * PageSize
<1> DEFINE d == PageSize
           u == PageOf(p)
           v == p % d
<1>1. d \in Nat /\ d >= 1
  BY Constants
<1>2. u \in Nat /\ v \in 0..(d - 1) /\ p = u * d + v
  BY PlaceInPage
<1>3. u * d \in Nat /\ q * d \in Nat
  BY <1>2, PagesApart
<1>4. q < u => q * d + d <= u * d
  BY <1>2, PagesApart
<1>5. u < q => u * d + d <= q * d
  BY <1>2, PagesApart
<1> HIDE DEF d, u, v
<1>6. u = q => q * d <= p /\ p < q * d + d
  BY <1>1, <1>2, <1>3
<1>7. u < q => p < q * d
  BY <1>1, <1>2, <1>3, <1>5
<1>8. q < u => p >= q * d + d
  BY <1>1, <1>2, <1>3, <1>4
<1> QED
  BY <1>1, <1>2, <1>3, <1>6, <1>7, <1>8 DEF d, u

-----------------------------------------------------------------------------
(* The invariant of the contents *)

\* How the handles are used when the guarantees hold: by one VFSFileObject at
\* a time, not to append, while there is space, and cut at ends of pages.
PlainUse ==
  /\ \A g, h \in Handles : g = h
  /\ "append" \notin Access
  /\ Failing = {}
  /\ \A n \in Truncations : n % PageSize = 0

Byte == Values \cup {Zero}

PagesOK(ps) ==
  /\ DOMAIN ps \subseteq Nat
  /\ \A q \in DOMAIN ps : ps[q] \in [data : [1..PageSize -> Byte], dirty : BOOLEAN]

AskedOK(a) ==
  /\ a = [keep |-> a.keep, bytes |-> a.bytes]
  /\ a.keep \in 0..MaxSize
  /\ DOMAIN a.bytes \subseteq 0..(MaxSize - 1)
  /\ \A p \in DOMAIN a.bytes : a.bytes[p] \in Byte

FileTypeOK ==
  /\ disk \in Seq(Byte) /\ Len(disk) <= MaxSize
  /\ ram \in [Handles -> Seq(Byte)]
  /\ changed \in [Handles -> BOOLEAN]
  /\ erred \in [Handles -> BOOLEAN]
  /\ open \in [Handles -> BOOLEAN]
  /\ pos \in [Handles -> 0..MaxSize]
  /\ size \in [Handles -> 0..MaxSize]
  /\ DOMAIN pages = Handles /\ \A h \in Handles : PagesOK(pages[h])
  /\ DOMAIN pending = Handles /\ \A h \in Handles : AskedOK(pending[h])

\* The byte at position p of a file c, as a page that is loaded has it.
ByteOf(c, p) == IF p < Len(c) THEN c[p + 1] ELSE Zero

\* The contents of a handle: its pages over its file.
Seen(c, ps, n) ==
  [i \in 1..n |-> IF PageOf(i - 1) \in DOMAIN ps THEN ps[PageOf(i - 1)].data[((i - 1) % PageSize) + 1]
                  ELSE ByteOf(c, i - 1)]

\* Of a file c of n bytes under the pages ps: pages that are clean have what the
\* file has, and so has what lies behind the end; what the file does not have
\* yet, up to its last byte, is in dirty pages or zero.
CacheOK(c, ps, n) ==
  /\ Len(c) <= n
  /\ Len(c) < n => PageOf(n - 1) \in DOMAIN ps /\ ps[PageOf(n - 1)].dirty
  /\ \A q \in DOMAIN ps :
       /\ ps[q].dirty => q * PageSize < n
       /\ \A i \in 1..PageSize :
            ~ps[q].dirty \/ q * PageSize + i > n => ps[q].data[i] = ByteOf(c, q * PageSize + i - 1)

\* An open handle: its contents are those asked for, and what a sync would not
\* commit is committed.
HandleOK(h) ==
  /\ ~erred[h]
  /\ ~changed[h] => ram[h] = disk
  /\ CacheOK(ram[h], pages[h], size[h])
  /\ Wanted(h) = Seen(ram[h], pages[h], size[h])

FileInv ==
  /\ FileTypeOK
  /\ disk = flushed
  /\ \A h \in Handles : open[h] => HandleOK(h)

\* A call under the mutex: what it was given fits still, and once littlefs has
\* let it pass, its handle is open.
CallOK(t) ==
  /\ pc[t] # "idle" => op[t].kind \in Kinds /\ op[t].h \in Handles
  /\ pc[t] \in {"held", "core"} =>
       /\ op[t].kind = "write" /\ arg[t] # NoArg =>
            arg[t].n \in Sizes /\ arg[t].v \in Values /\ pos[op[t].h] + arg[t].n <= MaxSize
       /\ op[t].kind = "read" => arg[t].n \in Sizes
       /\ op[t].kind = "seek" => arg[t].n \in 0..MaxSize
       /\ op[t].kind = "truncate" => arg[t].n \in Truncations
  /\ pc[t] = "held" /\ op[t].kind \in {"truncate", "close"} =>
       \/ todo[t] = 1
       \/ todo[t] = 0 /\ open[op[t].h] /\ (op[t].kind = "close" => ~listed[op[t].h])
  /\ pc[t] = "core" /\ op[t].kind \in {"truncate", "close"} => todo[t] = 1 /\ open[op[t].h]

CallsOK ==
  /\ listed \in [Handles -> BOOLEAN]
  /\ DOMAIN op = Threads /\ DOMAIN arg = Threads /\ todo \in [Threads -> Int]
  /\ \A h \in Handles : listed[h] => open[h]
  /\ \A t \in Threads : CallOK(t)

IInv == MutexInv /\ FileInv /\ CallsOK

-----------------------------------------------------------------------------
(* Pages over a file *)

\* Contents written down byte by byte are contents.
LEMMA ByteByByte ==
  ASSUME NEW n \in Nat, NEW s, s = [i \in 1..n |-> s[i]], \A i \in 1..n : s[i] \in Byte
  PROVE  s \in Seq(Byte) /\ Len(s) = n
<1>1. s \in [1..n -> Byte]
  OBVIOUS
<1> QED
  BY <1>1

LEMMA ByteOfIsByte == ASSUME NEW c \in Seq(Byte), NEW p \in Nat
  PROVE  ByteOf(c, p) \in Byte /\ (p >= Len(c) => ByteOf(c, p) = Zero)
BY DEF ByteOf, Byte

\* A byte of a page, by its position in the file.
PageByte(ps, p) == ps[PageOf(p)].data[(p % PageSize) + 1]

LEMMA PageByteIsByte ==
  ASSUME NEW ps, PagesOK(ps), NEW p \in Nat, PageOf(p) \in DOMAIN ps
  PROVE  PageByte(ps, p) \in Byte
<1>1. p % PageSize \in 0..(PageSize - 1) /\ PageSize \in Nat
  BY PlaceInPage, Constants
<1>2. (p % PageSize) + 1 \in 1..PageSize
  BY <1>1
<1> QED
  BY <1>2 DEF PageByte, PagesOK

LEMMA SeenProperties ==
  ASSUME NEW c \in Seq(Byte), NEW ps, PagesOK(ps), NEW n \in Nat
  PROVE  /\ Seen(c, ps, n) \in Seq(Byte)
         /\ Len(Seen(c, ps, n)) = n
         /\ \A p \in 0..(n - 1) :
              Seen(c, ps, n)[p + 1] = IF PageOf(p) \in DOMAIN ps THEN PageByte(ps, p) ELSE ByteOf(c, p)
<1> DEFINE s == Seen(c, ps, n)
<1>1. s = [i \in 1..n |-> IF PageOf(i - 1) \in DOMAIN ps THEN PageByte(ps, i - 1) ELSE ByteOf(c, i - 1)]
  BY DEF Seen, PageByte
<1> HIDE DEF s
<1>2. \A i \in 1..n : s[i] = IF PageOf(i - 1) \in DOMAIN ps THEN PageByte(ps, i - 1) ELSE ByteOf(c, i - 1)
  BY <1>1
<1>3. \A p \in 0..(n - 1) : s[p + 1] = IF PageOf(p) \in DOMAIN ps THEN PageByte(ps, p) ELSE ByteOf(c, p)
  <2> TAKE p \in 0..(n - 1)
  <2>1. p + 1 \in 1..n /\ (p + 1) - 1 = p
    OBVIOUS
  <2> QED
    BY <1>2, <2>1
<1>4. \A i \in 1..n : s[i] \in Byte
  <2> TAKE i \in 1..n
  <2>1. i - 1 \in Nat
    OBVIOUS
  <2> QED
    BY <1>2, <2>1, PageByteIsByte, ByteOfIsByte
<1>5. s = [i \in 1..n |-> s[i]]
  BY <1>1
<1>6. s \in Seq(Byte) /\ Len(s) = n
  BY <1>4, <1>5, ByteByByte
<1> QED
  BY <1>3, <1>6 DEF s

\* Where a page and the file agree, place by place and position by position.
LEMMA CleanByte ==
  ASSUME NEW c, NEW ps, NEW n \in Nat, CacheOK(c, ps, n), NEW p \in Nat,
         PageOf(p) \in DOMAIN ps, ~ps[PageOf(p)].dirty \/ p >= n
  PROVE  PageByte(ps, p) = ByteOf(c, p)
<1> DEFINE q == PageOf(p)
           i == (p % PageSize) + 1
<1>1. /\ q \in Nat /\ q * PageSize \in Nat
      /\ i \in 1..PageSize /\ q * PageSize + i - 1 = p /\ q * PageSize + i = p + 1
  <2>1. p % PageSize \in 0..(PageSize - 1) /\ PageOf(p) \in Nat /\ p = PageOf(p) * PageSize + (p % PageSize)
    BY PlaceInPage
  <2>2. PageSize \in Nat
    BY Constants
  <2>3. PageOf(p) * PageSize \in Nat
    BY <2>1, PagesApart
  <2> QED
    BY <2>1, <2>2, <2>3
<1>2. ~ps[q].dirty \/ q * PageSize + i > n
  BY <1>1
<1>3. ps[q].data[i] = ByteOf(c, q * PageSize + i - 1)
  BY <1>1, <1>2 DEF CacheOK
<1> QED
  BY <1>1, <1>3 DEF PageByte

\* The reverse: CacheOK from what holds position by position.
AgreesBeyond(c, ps, n) ==
  \A p \in Nat : PageOf(p) \in DOMAIN ps /\ (~ps[PageOf(p)].dirty \/ p >= n)
                 => PageByte(ps, p) = ByteOf(c, p)

LEMMA CacheFrom ==
  ASSUME NEW c, NEW ps, NEW n \in Nat, PagesOK(ps), Len(c) <= n,
         Len(c) < n => PageOf(n - 1) \in DOMAIN ps /\ ps[PageOf(n - 1)].dirty,
         \A q \in DOMAIN ps : ps[q].dirty => q * PageSize < n,
         AgreesBeyond(c, ps, n)
  PROVE  CacheOK(c, ps, n)
<1>1. ASSUME NEW q \in DOMAIN ps, NEW i \in 1..PageSize,
             ~ps[q].dirty \/ q * PageSize + i > n
      PROVE  ps[q].data[i] = ByteOf(c, q * PageSize + i - 1)
  <2> DEFINE p == q * PageSize + (i - 1)
  <2>1. q \in Nat /\ PageSize \in Nat /\ i - 1 \in 0..(PageSize - 1)
    BY Constants DEF PagesOK
  <2>2. p \in Nat /\ PageOf(p) = q /\ p % PageSize = i - 1
    BY <2>1, PlaceOf
  <2>3. q * PageSize \in Nat
    BY <2>1, PagesApart
  <2>4. q * PageSize + i - 1 = p /\ (i - 1) + 1 = i /\ q * PageSize + i = p + 1
    BY <2>1, <2>3
  <2> HIDE DEF p
  <2>5. ~ps[q].dirty \/ p >= n
    BY <1>1, <2>2, <2>4
  <2>6. PageByte(ps, p) = ByteOf(c, p)
    BY <2>2, <2>5 DEF AgreesBeyond
  <2> QED
    BY <2>2, <2>4, <2>6 DEF PageByte
<1> QED
  BY <1>1 DEF CacheOK

-----------------------------------------------------------------------------
(* Writing the pages *)

\* How far the file reaches, and what it has, after the dirty pages below k
\* were written to it.
Dirty(ps) == {q \in DOMAIN ps : ps[q].dirty}
Ends(c, ps, n, k) == {Len(c)} \cup {Least((q + 1) * PageSize, n) : q \in {r \in Dirty(ps) : r < k}}
Reach(c, ps, n, k) == Max(Ends(c, ps, n, k))
Front(c, ps, n, k) ==
  [i \in 1..Reach(c, ps, n, k) |->
     IF PageOf(i - 1) \in Dirty(ps) /\ PageOf(i - 1) < k THEN PageByte(ps, i - 1) ELSE ByteOf(c, i - 1)]

LEMMA DirtyPage ==
  ASSUME NEW c \in Seq(Byte), NEW ps, PagesOK(ps), NEW n \in Nat, CacheOK(c, ps, n),
         NEW q \in Dirty(ps)
  PROVE  /\ q \in Nat /\ q * PageSize \in Nat /\ (q + 1) * PageSize = q * PageSize + PageSize
         /\ q * PageSize < n
         /\ Least((q + 1) * PageSize, n) =
              IF q * PageSize + PageSize <= n THEN q * PageSize + PageSize ELSE n
<1>1. q \in Nat /\ q * PageSize < n
  BY DEF Dirty, PagesOK, CacheOK
<1>2. q * PageSize \in Nat /\ (q + 1) * PageSize = q * PageSize + PageSize
  BY <1>1, PagesApart
<1>3. (q + 1) * PageSize \in Int /\ n \in Int
  BY <1>2, Constants
<1>4. Least((q + 1) * PageSize, n) = IF (q + 1) * PageSize <= n THEN (q + 1) * PageSize ELSE n
  BY <1>3, LeastOfTwo
<1> QED
  BY <1>1, <1>2, <1>4

LEMMA ReachProperties ==
  ASSUME NEW c \in Seq(Byte), NEW ps, PagesOK(ps), NEW n \in Nat, CacheOK(c, ps, n), NEW k \in Nat
  PROVE  /\ Reach(c, ps, n, k) \in 0..n
         /\ Reach(c, ps, n, k) \in Ends(c, ps, n, k)
         /\ \A e \in Ends(c, ps, n, k) : e <= Reach(c, ps, n, k)
<1>1. Len(c) \in 0..n
  BY DEF CacheOK
<1>2. ASSUME NEW q \in Dirty(ps) PROVE Least((q + 1) * PageSize, n) \in 0..n
  <2>1. /\ q * PageSize \in Nat
        /\ Least((q + 1) * PageSize, n) = IF q * PageSize + PageSize <= n THEN q * PageSize + PageSize ELSE n
    BY DirtyPage
  <2> QED
    BY <2>1, Constants
<1>3. Ends(c, ps, n, k) \in SUBSET (0..n) /\ Ends(c, ps, n, k) # {}
  BY <1>1, <1>2 DEF Ends
<1> QED
  BY <1>3, GreatestOfSome DEF Reach

\* What is written reaches over every position in a page below k.
LEMMA ReachCovers ==
  ASSUME NEW c \in Seq(Byte), NEW ps, PagesOK(ps), NEW n \in Nat, CacheOK(c, ps, n), NEW k \in Nat,
         NEW p \in 0..(n - 1), PageOf(p) \in Dirty(ps), PageOf(p) < k
  PROVE  p < Reach(c, ps, n, k)
<1> DEFINE q == PageOf(p)
<1>1. Least((q + 1) * PageSize, n) \in Ends(c, ps, n, k)
  BY DEF Ends
<1>2. Least((q + 1) * PageSize, n) <= Reach(c, ps, n, k) /\ Reach(c, ps, n, k) \in 0..n
  BY <1>1, ReachProperties
<1>3. /\ q * PageSize \in Nat
      /\ Least((q + 1) * PageSize, n) = IF q * PageSize + PageSize <= n THEN q * PageSize + PageSize ELSE n
  BY DirtyPage
<1>4. p \in Nat /\ p < q * PageSize + PageSize
  <2>1. p \in Nat /\ q \in Nat
    BY PlaceInPage
  <2> QED
    BY <2>1, InPage
<1> HIDE DEF q
<1>5. PageSize \in Nat
  BY Constants
<1> QED
  BY <1>2, <1>3, <1>4, <1>5

\* The same bytes as a function of positions.
LEMMA FrontProperties ==
  ASSUME NEW c \in Seq(Byte), NEW ps, PagesOK(ps), NEW n \in Nat, CacheOK(c, ps, n), NEW k \in Nat
  PROVE  /\ Front(c, ps, n, k) \in Seq(Byte)
         /\ Len(Front(c, ps, n, k)) = Reach(c, ps, n, k)
         /\ \A i \in 1..Reach(c, ps, n, k) :
              Front(c, ps, n, k)[i] =
                IF PageOf(i - 1) \in Dirty(ps) /\ PageOf(i - 1) < k
                THEN PageByte(ps, i - 1) ELSE ByteOf(c, i - 1)
<1> DEFINE s == Front(c, ps, n, k)
           m == Reach(c, ps, n, k)
<1>1. m \in Nat
  BY ReachProperties
<1>2. s = [i \in 1..m |-> IF PageOf(i - 1) \in Dirty(ps) /\ PageOf(i - 1) < k
                          THEN PageByte(ps, i - 1) ELSE ByteOf(c, i - 1)]
  BY DEF Front
<1> HIDE DEF s, m
<1>3. \A i \in 1..m : s[i] = IF PageOf(i - 1) \in Dirty(ps) /\ PageOf(i - 1) < k
                             THEN PageByte(ps, i - 1) ELSE ByteOf(c, i - 1)
  BY <1>2
<1>4. \A i \in 1..m : s[i] \in Byte
  <2> TAKE i \in 1..m
  <2>1. i - 1 \in Nat
    BY <1>1
  <2>2. CASE PageOf(i - 1) \in Dirty(ps) /\ PageOf(i - 1) < k
    <3>1. PageOf(i - 1) \in DOMAIN ps
      BY <2>2 DEF Dirty
    <3>2. PageByte(ps, i - 1) \in Byte
      BY <2>1, <3>1, PageByteIsByte
    <3> QED
      BY <1>3, <2>2, <3>2
  <2>3. CASE ~(PageOf(i - 1) \in Dirty(ps) /\ PageOf(i - 1) < k)
    <3>1. ByteOf(c, i - 1) \in Byte
      BY <2>1, ByteOfIsByte
    <3> QED
      BY <1>3, <2>3, <3>1
  <2> QED
    BY <2>2, <2>3
<1>5. s = [i \in 1..m |-> s[i]]
  BY <1>2
<1>6. s \in Seq(Byte) /\ Len(s) = m
  BY <1>1, <1>4, <1>5, ByteByByte
<1> QED
  BY <1>3, <1>6 DEF s, m

\* Before any page is written, the file is as it was.
LEMMA FrontOfNone ==
  ASSUME NEW c \in Seq(Byte), NEW ps, PagesOK(ps), NEW n \in Nat, CacheOK(c, ps, n)
  PROVE  Front(c, ps, n, 0) = c
<1> DEFINE s == Front(c, ps, n, 0)
<1>1. {r \in Dirty(ps) : r < 0} = {}
  BY DEF Dirty, PagesOK
<1>2. Ends(c, ps, n, 0) = {Len(c)}
  BY <1>1 DEF Ends
<1>3. Reach(c, ps, n, 0) = Len(c)
  BY <1>2, ReachProperties
<1>4. /\ s \in Seq(Byte) /\ Len(s) = Len(c)
      /\ \A i \in 1..Len(c) : s[i] = IF PageOf(i - 1) \in Dirty(ps) /\ PageOf(i - 1) < 0
                                     THEN PageByte(ps, i - 1) ELSE ByteOf(c, i - 1)
  BY <1>3, FrontProperties
<1> HIDE DEF s
<1>5. ASSUME NEW i \in 1..Len(c) PROVE s[i] = c[i]
  <2>0. i - 1 \in Nat
    OBVIOUS
  <2>1. PageOf(i - 1) \in Nat
    BY <2>0, PlaceInPage
  <2>2. s[i] = ByteOf(c, i - 1)
    BY <1>4, <2>1
  <2> QED
    BY <2>2 DEF ByteOf
<1>6. s = c
  BY <1>4, <1>5, SeqEqual
<1> QED
  BY <1>6 DEF s

\* What lfs_file_write leaves, byte by byte.
LEMMA OverwriteProperties ==
  ASSUME NEW c \in Seq(Byte), NEW d \in Seq(Byte), NEW p \in Nat
  PROVE  /\ Overwrite(c, p, d) \in Seq(Byte)
         /\ Len(Overwrite(c, p, d)) = IF Len(c) >= p + Len(d) THEN Len(c) ELSE p + Len(d)
         /\ \A i \in 1..Len(Overwrite(c, p, d)) :
              Overwrite(c, p, d)[i] =
                IF p < i /\ i <= p + Len(d) THEN d[i - p] ELSE IF i <= Len(c) THEN c[i] ELSE Zero
<1> DEFINE s == Overwrite(c, p, d)
           m == IF Len(c) >= p + Len(d) THEN Len(c) ELSE p + Len(d)
<1>1. Len(c) \in Int /\ p + Len(d) \in Int /\ m \in Nat
  OBVIOUS
<1>2. Max({Len(c), p + Len(d)}) = m
  BY <1>1, MaxOfTwo
<1>3. s = [i \in 1..m |-> IF i \in (p + 1)..(p + Len(d)) THEN d[i - p]
                          ELSE IF i <= Len(c) THEN c[i] ELSE Zero]
  BY <1>2 DEF Overwrite
<1> HIDE DEF s, m
<1>4. \A i \in 1..m : s[i] = IF p < i /\ i <= p + Len(d) THEN d[i - p]
                             ELSE IF i <= Len(c) THEN c[i] ELSE Zero
  BY <1>1, <1>3
<1>5. \A i \in 1..m : s[i] \in Byte
  <2> TAKE i \in 1..m
  <2>1. i \in Nat /\ i >= 1
    BY <1>1
  <2>2. p < i /\ i <= p + Len(d) => d[i - p] \in Byte
    BY <2>1
  <2>3. i <= Len(c) => c[i] \in Byte
    BY <2>1
  <2>4. Zero \in Byte
    BY DEF Byte
  <2> QED
    BY <1>4, <2>2, <2>3, <2>4
<1>6. s = [i \in 1..m |-> s[i]]
  BY <1>3
<1>7. s \in Seq(Byte) /\ Len(s) = m
  BY <1>1, <1>5, <1>6, ByteByByte
<1> QED
  BY <1>4, <1>7 DEF s, m

\* What a flush writes of a dirty page: all of it, or up to the end of the file.
PartOf(d, ps, n, q) == d = SubSeq(ps[q].data, 1, Least(PageSize, n - q * PageSize))
GoesTo(d, ps, n, q) ==
  /\ d \in Seq(Byte)
  /\ q * PageSize + Len(d) = IF q * PageSize + PageSize <= n THEN q * PageSize + PageSize ELSE n
  /\ \A i \in 1..Len(d) : d[i] = ps[q].data[i]

LEMMA PageBytesProperties ==
  ASSUME NEW ps, PagesOK(ps), NEW n \in Nat, NEW q \in DOMAIN ps, q * PageSize < n,
         NEW d, PartOf(d, ps, n, q)
  PROVE  GoesTo(d, ps, n, q)
<1> DEFINE w == ps[q].data
           m == Least(PageSize, n - q * PageSize)
<1>1. q \in Nat /\ q * PageSize \in Nat /\ PageSize \in Nat
  <2>1. q \in Nat
    BY DEF PagesOK
  <2> QED
    BY <2>1, PagesApart, Constants
<1>2. m = IF PageSize <= n - q * PageSize THEN PageSize ELSE n - q * PageSize
  BY <1>1, LeastOfTwo
<1>3. m \in 0..PageSize
      /\ q * PageSize + m = IF q * PageSize + PageSize <= n THEN q * PageSize + PageSize ELSE n
  BY <1>1, <1>2
<1>4. w \in [1..PageSize -> Byte]
  BY DEF PagesOK
<1>5. w \in Seq(Byte) /\ Len(w) = PageSize
  BY <1>1, <1>4
<1> HIDE DEF m, w
<1>6. SubSeq(w, 1, m) \in Seq(Byte) /\ Len(SubSeq(w, 1, m)) = m
      /\ \A i \in 1..m : SubSeq(w, 1, m)[i] = w[i]
  BY <1>1, <1>3, <1>5
<1>7. d = SubSeq(w, 1, m)
  BY DEF w, m, PartOf
<1> QED
  BY <1>3, <1>6, <1>7 DEF w, GoesTo

\* The next page is left out if it is clean, and written over what was there.
LEMMA FrontSkips ==
  ASSUME NEW c \in Seq(Byte), NEW ps, PagesOK(ps), NEW n \in Nat, CacheOK(c, ps, n),
         NEW k \in Nat, k \notin Dirty(ps)
  PROVE  Front(c, ps, n, k + 1) = Front(c, ps, n, k)
<1>1. \A q \in Dirty(ps) : q < k + 1 <=> q < k
  BY DEF Dirty, PagesOK
<1>2. {r \in Dirty(ps) : r < k + 1} = {r \in Dirty(ps) : r < k}
  BY <1>1
<1>3. Reach(c, ps, n, k + 1) = Reach(c, ps, n, k)
  BY <1>2 DEF Reach, Ends
<1> DEFINE m == Reach(c, ps, n, k)
           a == Front(c, ps, n, k + 1)
           b == Front(c, ps, n, k)
<1>4. a \in Seq(Byte) /\ Len(a) = m
      /\ \A i \in 1..m : a[i] = IF PageOf(i - 1) \in Dirty(ps) /\ PageOf(i - 1) < k + 1
                                THEN PageByte(ps, i - 1) ELSE ByteOf(c, i - 1)
  <2> DEFINE j == k + 1
  <2>1. j \in Nat
    OBVIOUS
  <2>2. Reach(c, ps, n, j) = Reach(c, ps, n, k)
    BY <1>3
  <2> HIDE DEF j
  <2>3. /\ Front(c, ps, n, j) \in Seq(Byte) /\ Len(Front(c, ps, n, j)) = Reach(c, ps, n, j)
        /\ \A i \in 1..Reach(c, ps, n, j) : Front(c, ps, n, j)[i] =
              IF PageOf(i - 1) \in Dirty(ps) /\ PageOf(i - 1) < j
              THEN PageByte(ps, i - 1) ELSE ByteOf(c, i - 1)
    BY <2>1, FrontProperties
  <2> QED
    BY <2>2, <2>3 DEF j
<1>5. b \in Seq(Byte) /\ Len(b) = m
      /\ \A i \in 1..m : b[i] = IF PageOf(i - 1) \in Dirty(ps) /\ PageOf(i - 1) < k
                                THEN PageByte(ps, i - 1) ELSE ByteOf(c, i - 1)
  BY FrontProperties
<1> HIDE DEF a, b, m
<1>6. \A i \in 1..m : a[i] = b[i]
  BY <1>1, <1>4, <1>5
<1>7. a = b
  BY <1>4, <1>5, <1>6, SeqEqual
<1> QED
  BY <1>7 DEF a, b

LEMMA FrontWrites ==
  ASSUME NEW c \in Seq(Byte), NEW ps, PagesOK(ps), NEW n \in Nat, CacheOK(c, ps, n),
         NEW k \in Nat, k \in Dirty(ps), NEW d, PartOf(d, ps, n, k)
  PROVE  Front(c, ps, n, k + 1) = Overwrite(Front(c, ps, n, k), k * PageSize, d)
<1> DEFINE b == k * PageSize
           e == IF b + PageSize <= n THEN b + PageSize ELSE n
           old == Front(c, ps, n, k)
           new == Front(c, ps, n, k + 1)
           r == Reach(c, ps, n, k)
           s == Reach(c, ps, n, k + 1)
           w == Overwrite(old, b, d)
<1>1. /\ k \in Nat /\ b \in Nat /\ b < n
      /\ Least((k + 1) * PageSize, n) = e
  BY DirtyPage
<1>2. k \in DOMAIN ps /\ PageSize \in Nat /\ PageSize >= 1 /\ k + 1 \in Nat
  BY <1>1, Constants DEF Dirty
<1>3. d \in Seq(Byte) /\ b + Len(d) = e /\ \A i \in 1..Len(d) : d[i] = ps[k].data[i]
  <2>1. k * PageSize < n
    BY <1>1
  <2>2. GoesTo(d, ps, n, k)
    BY <1>2, <2>1, PageBytesProperties
  <2> QED
    BY <2>2 DEF GoesTo
<1>4. e \in Nat /\ b < e /\ e <= n /\ e <= b + PageSize
  BY <1>1, <1>2
<1>5. Ends(c, ps, n, k + 1) = Ends(c, ps, n, k) \cup {e}
  <2>1. \A q \in Dirty(ps) : q < k + 1 <=> q < k \/ q = k
    BY <1>1 DEF Dirty, PagesOK
  <2>2. {q \in Dirty(ps) : q < k + 1} = {q \in Dirty(ps) : q < k} \cup {k}
    BY <2>1
  <2> QED
    BY <1>1, <2>2 DEF Ends
<1>6. /\ r \in 0..n /\ r \in Ends(c, ps, n, k) /\ \A x \in Ends(c, ps, n, k) : x <= r
      /\ s \in 0..n /\ s \in Ends(c, ps, n, k + 1) /\ \A x \in Ends(c, ps, n, k + 1) : x <= s
  BY <1>1, <1>2, ReachProperties
<1>7. s = IF r >= e THEN r ELSE e
  <2>1. r <= s /\ e <= s
    BY <1>5, <1>6
  <2>2. s = e \/ s <= r
    BY <1>5, <1>6
  <2> HIDE DEF r, s, e
  <2> QED
    BY <1>4, <1>6, <2>1, <2>2
<1>8. /\ old \in Seq(Byte) /\ Len(old) = r
      /\ \A i \in 1..r : old[i] = IF PageOf(i - 1) \in Dirty(ps) /\ PageOf(i - 1) < k
                                  THEN PageByte(ps, i - 1) ELSE ByteOf(c, i - 1)
  BY <1>1, FrontProperties
<1>9. /\ new \in Seq(Byte) /\ Len(new) = s
      /\ \A i \in 1..s : new[i] = IF PageOf(i - 1) \in Dirty(ps) /\ PageOf(i - 1) < k + 1
                                  THEN PageByte(ps, i - 1) ELSE ByteOf(c, i - 1)
  BY <1>2, FrontProperties
<1>10. /\ w \in Seq(Byte) /\ Len(w) = s
       /\ \A i \in 1..s : w[i] = IF b < i /\ i <= e THEN d[i - b] ELSE IF i <= r THEN old[i] ELSE Zero
  <2>1. /\ w \in Seq(Byte)
        /\ Len(w) = IF Len(old) >= b + Len(d) THEN Len(old) ELSE b + Len(d)
        /\ \A i \in 1..Len(w) : w[i] = IF b < i /\ i <= b + Len(d) THEN d[i - b]
                                       ELSE IF i <= Len(old) THEN old[i] ELSE Zero
    BY <1>1, <1>3, <1>8, OverwriteProperties
  <2> HIDE DEF w, old, b, e, r, s
  <2> QED
    BY <1>3, <1>7, <1>8, <2>1
<1>11. ASSUME NEW i \in 1..s PROVE new[i] = w[i]
  <2> DEFINE p == i - 1
             q == PageOf(p)
  <2>1. p \in Nat /\ i \in Nat /\ i >= 1 /\ i <= s /\ p < n
    BY <1>6
  <2>2. /\ q \in Nat /\ (q = k <=> b <= p /\ p < b + PageSize) /\ (q < k <=> p < b)
    BY <1>1, <2>1, PlaceInPage, InPage
  <2>3. p \in 0..(n - 1)
    BY <2>1
  <2>4. q \in Dirty(ps) /\ q < k => p < r
    BY <1>1, <2>3, ReachCovers
  <2>5. Len(c) <= r
    BY <1>6 DEF Ends
  <2>6. CASE q = k
    <3>1. b < i /\ i <= e
      BY <1>1, <1>2, <2>1, <2>2, <2>6
    <3>2. p % PageSize = i - b - 1 /\ i - b \in 1..Len(d)
      <4> DEFINE m == p % PageSize
      <4>1. m \in 0..(PageSize - 1) /\ p = q * PageSize + m
        BY <2>1, PlaceInPage
      <4>2. p = b + m
        BY <2>6, <4>1
      <4>3. i = p + 1
        BY <2>1
      <4> HIDE DEF e, b, q, m, p
      <4>4. m = i - b - 1 /\ i - b \in 1..Len(d)
        <5>1. Len(d) \in Nat /\ b + Len(d) = e /\ b < i /\ i <= e
          BY <1>3, <3>1
        <5>2. b \in Nat /\ i \in Nat /\ e \in Nat /\ p \in Nat
          BY <1>1, <1>4, <2>1
        <5>3. m \in Nat
          BY <1>2, <4>1
        <5> QED
          <6> DEFINE l == Len(d)
          <6>1. l \in Nat /\ b + l = e
            BY <5>1
          <6> HIDE DEF l
          <6>2. m = i - b - 1
            BY <4>2, <4>3, <5>2, <5>3
          <6>3. i - b \in 1..l
            BY <5>1, <5>2, <6>1
          <6> QED
            BY <6>2, <6>3 DEF l
      <4> QED
        BY <4>4 DEF m
    <3>3. PageByte(ps, p) = d[i - b]
      <4>1. (p % PageSize) + 1 = i - b
        BY <3>2, <1>1, <2>1
      <4>2. PageByte(ps, p) = ps[k].data[i - b]
        BY <2>6, <4>1 DEF PageByte
      <4> QED
        BY <1>3, <3>2, <4>2
    <3>4. new[i] = PageByte(ps, p)
      <4>1. q < k + 1
        BY <1>1, <2>6
      <4> QED
        BY <1>9, <2>6, <4>1
    <3>5. w[i] = d[i - b]
      BY <1>10, <3>1
    <3> QED
      BY <3>3, <3>4, <3>5
  <2>7. CASE q # k
    <3>1. q < k + 1 <=> q < k
      BY <1>1, <2>2, <2>7
    <3>2. ~(b < i /\ i <= e)
      BY <1>1, <1>2, <1>4, <2>1, <2>2, <2>7
    <3>3. w[i] = IF i <= r THEN old[i] ELSE Zero
      BY <1>10, <3>2
    <3>4. CASE i <= r
      <4>1. i \in 1..r
        BY <1>6, <2>1, <3>4
      <4> QED
        BY <1>8, <1>9, <3>1, <3>3, <3>4, <4>1
    <3>5. CASE ~(i <= r)
      <4>1. p >= r /\ p >= Len(c) /\ ~(q \in Dirty(ps) /\ q < k)
        <5>1. r \in Nat /\ Len(c) \in Nat
          BY <1>6
        <5> HIDE DEF r, q, p
        <5>2. p = i - 1
          BY DEF p
        <5> QED
          BY <2>1, <2>4, <2>5, <3>5, <5>1, <5>2
      <4>2. ByteOf(c, p) = Zero
        BY <2>1, <4>1, ByteOfIsByte
      <4> QED
        BY <1>9, <3>1, <3>3, <3>5, <4>1, <4>2
    <3> QED
      BY <3>4, <3>5
  <2> QED
    BY <2>6, <2>7
<1> HIDE DEF new, w, s
<1>12. new = w
  BY <1>9, <1>10, <1>11, SeqEqual
<1> QED
  BY <1>12 DEF new, w, b, old

LEMMA FrontNext ==
  ASSUME NEW c \in Seq(Byte), NEW ps, PagesOK(ps), NEW n \in Nat, CacheOK(c, ps, n),
         NEW k \in Nat, NEW d, PartOf(d, ps, n, k)
  PROVE  Front(c, ps, n, k + 1) =
           IF k \in Dirty(ps) THEN Overwrite(Front(c, ps, n, k), k * PageSize, d)
           ELSE Front(c, ps, n, k)
<1>1. CASE k \in Dirty(ps)
  <2>1. Front(c, ps, n, k + 1) = Overwrite(Front(c, ps, n, k), k * PageSize, d)
    BY <1>1, FrontWrites
  <2> QED
    BY <1>1, <2>1
<1>2. CASE k \notin Dirty(ps)
  <2>1. Front(c, ps, n, k + 1) = Front(c, ps, n, k)
    BY <1>2, FrontSkips
  <2> QED
    BY <1>2, <2>1
<1> QED
  BY <1>1, <1>2

\* After all the dirty pages were written, the file is what the handle sees.
LEMMA FrontOfAll ==
  ASSUME NEW c \in Seq(Byte), NEW ps, PagesOK(ps), NEW n \in Nat, CacheOK(c, ps, n)
  PROVE  Front(c, ps, n, PageOf(n) + 1) = Seen(c, ps, n)
<1> DEFINE k == PageOf(n) + 1
           a == Front(c, ps, n, k)
           b == Seen(c, ps, n)
           r == Reach(c, ps, n, k)
<1>1. k \in Nat /\ PageOf(n) \in Nat
  <2>1. PageOf(n) \in Nat
    BY PlaceInPage
  <2> QED
    BY <2>1
<1>2. ASSUME NEW p \in 0..(n - 1) PROVE p \in Nat /\ PageOf(p) \in Nat /\ PageOf(p) < k
  <2>1. p \in Nat /\ n \in Nat /\ p < n
    OBVIOUS
  <2>2. PageOf(p) \in Nat /\ (PageOf(p) < k <=> p < k * PageSize)
    BY <1>1, <2>1, PlaceInPage, InPage
  <2>3. n < PageOf(n) * PageSize + PageSize
    BY <1>1, InPage
  <2>4. k * PageSize = PageOf(n) * PageSize + PageSize /\ PageOf(n) * PageSize \in Nat
    BY <1>1, PagesApart
  <2>5. PageSize \in Nat
    BY Constants
  <2> HIDE DEF k
  <2> QED
    BY <2>1, <2>2, <2>3, <2>4, <2>5
<1>3. r \in 0..n
  BY <1>1, ReachProperties
<1>4. r = n
  <2>1. Len(c) <= r /\ Len(c) \in Nat
    <3>1. Len(c) \in Ends(c, ps, n, k)
      BY DEF Ends
    <3> HIDE DEF k
    <3> QED
      BY <1>1, <3>1, ReachProperties
  <2>2. CASE Len(c) < n
    <3>1. PageOf(n - 1) \in Dirty(ps)
      BY <2>2 DEF CacheOK, Dirty
    <3>2. n - 1 \in 0..(n - 1)
      BY <2>1, <2>2
    <3> HIDE DEF k
    <3>3. n - 1 < Reach(c, ps, n, k)
      BY <1>1, <1>2, <3>1, <3>2, ReachCovers
    <3> QED
      BY <1>3, <3>3
  <2>3. CASE ~(Len(c) < n)
    BY <1>3, <2>1, <2>3
  <2> QED
    BY <2>2, <2>3
<1>5. a \in Seq(Byte) /\ Len(a) = r
      /\ \A i \in 1..r : a[i] = IF PageOf(i - 1) \in Dirty(ps) /\ PageOf(i - 1) < k
                                THEN PageByte(ps, i - 1) ELSE ByteOf(c, i - 1)
  <2> HIDE DEF k
  <2> QED
    BY <1>1, FrontProperties
<1>6. b \in Seq(Byte) /\ Len(b) = n
      /\ \A p \in 0..(n - 1) : b[p + 1] = IF PageOf(p) \in DOMAIN ps THEN PageByte(ps, p) ELSE ByteOf(c, p)
  BY SeenProperties
<1>7. ASSUME NEW i \in 1..n PROVE a[i] = b[i]
  <2> DEFINE p == i - 1
  <2>1. p \in 0..(n - 1) /\ p + 1 = i /\ p \in Nat
    OBVIOUS
  <2>2. PageOf(p) < k
    BY <1>2, <2>1
  <2>3. b[i] = IF PageOf(p) \in DOMAIN ps THEN PageByte(ps, p) ELSE ByteOf(c, p)
    <3>1. b[p + 1] = IF PageOf(p) \in DOMAIN ps THEN PageByte(ps, p) ELSE ByteOf(c, p)
      BY <1>6, <2>1
    <3> HIDE DEF p, b
    <3> QED
      BY <2>1, <3>1
  <2>4. a[i] = IF PageOf(p) \in Dirty(ps) THEN PageByte(ps, p) ELSE ByteOf(c, p)
    BY <1>4, <1>5, <2>2
  <2>5. CASE PageOf(p) \in Dirty(ps) \/ PageOf(p) \notin DOMAIN ps
    BY <2>3, <2>4, <2>5 DEF Dirty
  <2>6. CASE PageOf(p) \notin Dirty(ps) /\ PageOf(p) \in DOMAIN ps
    <3>1. ~ps[PageOf(p)].dirty
      BY <2>6 DEF Dirty
    <3> HIDE DEF p
    <3>2. PageByte(ps, p) = ByteOf(c, p)
      BY <2>1, <2>6, <3>1, CleanByte
    <3> QED
      BY <2>3, <2>4, <2>6, <3>2
  <2> QED
    BY <2>5, <2>6
<1> HIDE DEF a, b, r
<1>8. a = b
  BY <1>4, <1>5, <1>6, <1>7, SeqEqual
<1> QED
  BY <1>8 DEF a, b

\* So a flush hands the file all that the handle sees.
LEMMA WritesAll ==
  ASSUME NEW h \in Handles, "append" \notin Access, ram[h] \in Seq(Byte), PagesOK(pages[h]),
         size[h] \in Nat, CacheOK(ram[h], pages[h], size[h])
  PROVE  WritePages(h, DirtyPages(h)) = Seen(ram[h], pages[h], size[h])
<1> DEFINE c == ram[h]
           ps == pages[h]
           n == size[h]
           qs == DirtyPages(h)
           N == PageOf(n) + 1
<1>1. N \in Nat
  <2>1. PageOf(n) \in Nat
    BY PlaceInPage
  <2> QED
    BY <2>1
<1>3. qs = Dirty(ps)
  BY DEF DirtyPages, Dirty, CacheOK
<1>4. ASSUME NEW k \in 1..N
      PROVE  Front(c, ps, n, k) =
               IF k - 1 \in qs
               THEN LfsWrite(Front(c, ps, n, k - 1), (k - 1) * PageSize, PageBytes(h, k - 1))
               ELSE Front(c, ps, n, k - 1)
  <2> DEFINE q == k - 1
  <2>1. q \in Nat /\ q + 1 = k
    BY <1>1
  <2> HIDE DEF q, c, ps, n
  <2> DEFINE d == PageBytes(h, q)
  <2>2. PartOf(d, ps, n, q)
    BY DEF PageBytes, ps, n, PartOf
  <2>3. c \in Seq(Byte) /\ PagesOK(ps) /\ n \in Nat /\ CacheOK(c, ps, n)
    BY DEF c, ps, n
  <2> HIDE DEF d
  <2>4. Front(c, ps, n, q + 1) =
          IF q \in Dirty(ps) THEN Overwrite(Front(c, ps, n, q), q * PageSize, d)
          ELSE Front(c, ps, n, q)
    BY <2>1, <2>2, <2>3, FrontNext, Zenon
  <2>5. LfsWrite(Front(c, ps, n, q), q * PageSize, d) = Overwrite(Front(c, ps, n, q), q * PageSize, d)
    BY DEF LfsWrite
  <2>6. Front(c, ps, n, k) = IF q \in qs THEN LfsWrite(Front(c, ps, n, q), q * PageSize, d)
                             ELSE Front(c, ps, n, q)
    BY <1>3, <2>1, <2>4, <2>5, Zenon
  <2> QED
    BY <2>6 DEF q, d
<1> DEFINE G == [k \in 0..N |-> Front(c, ps, n, k)]
           Written[k \in 0..N] ==
             IF k = 0 THEN c
             ELSE IF k - 1 \in qs
                  THEN LfsWrite(Written[k - 1], (k - 1) * PageSize, PageBytes(h, k - 1))
                  ELSE Written[k - 1]
<1>2. WritePages(h, qs) = Written[N]
  BY Zenon DEF WritePages
<1>5. Front(c, ps, n, 0) = c
  BY FrontOfNone
<1> HIDE DEF c, ps, n, N, qs
<1>6. \E w : w = [k \in 0..N |->
                    IF k = 0 THEN c
                    ELSE IF k - 1 \in qs
                         THEN LfsWrite(w[k - 1], (k - 1) * PageSize, PageBytes(h, k - 1))
                         ELSE w[k - 1]]
  <2>1. ASSUME NEW k \in 0..N
        PROVE  G[k] = IF k = 0 THEN c
                      ELSE IF k - 1 \in qs
                           THEN LfsWrite(G[k - 1], (k - 1) * PageSize, PageBytes(h, k - 1))
                           ELSE G[k - 1]
    <3>1. CASE k = 0
      BY <1>1, <1>5, <3>1
    <3>2. CASE k # 0
      <4>1. k \in 1..N /\ k - 1 \in 0..N
        BY <1>1, <3>2
      <4>2. G[k] = Front(c, ps, n, k) /\ G[k - 1] = Front(c, ps, n, k - 1)
        BY <4>1
      <4> HIDE DEF G
      <4> QED
        BY <1>4, <3>2, <4>1, <4>2
    <3> QED
      BY <3>1, <3>2
  <2>2. G = [k \in 0..N |-> G[k]]
    OBVIOUS
  <2> HIDE DEF G
  <2>3. G = [k \in 0..N |->
               IF k = 0 THEN c
               ELSE IF k - 1 \in qs
                    THEN LfsWrite(G[k - 1], (k - 1) * PageSize, PageBytes(h, k - 1))
                    ELSE G[k - 1]]
    BY <2>1, <2>2, Zenon
  <2> QED
    BY <2>3, Zenon
<1>7. Written = [k \in 0..N |->
                   IF k = 0 THEN c
                   ELSE IF k - 1 \in qs
                        THEN LfsWrite(Written[k - 1], (k - 1) * PageSize, PageBytes(h, k - 1))
                        ELSE Written[k - 1]]
  BY <1>6, Zenon
<1> HIDE DEF Written
<1>8. \A k \in 0..N : Written[k] = IF k = 0 THEN c
                                   ELSE IF k - 1 \in qs
                                        THEN LfsWrite(Written[k - 1], (k - 1) * PageSize, PageBytes(h, k - 1))
                                        ELSE Written[k - 1]
  BY <1>7, Zenon
<1> DEFINE T == {k \in 0..N : Written[k] = Front(c, ps, n, k)}
<1>9. 0 \in T
  BY <1>1, <1>5, <1>8
<1>10. ASSUME NEW k \in 1..N, k - 1 \in T PROVE k \in T
  <2>1. k \in 0..N /\ k # 0 /\ Written[k - 1] = Front(c, ps, n, k - 1)
    BY <1>1, <1>10
  <2>2. Written[k] = Front(c, ps, n, k)
    BY <1>4, <1>8, <2>1
  <2> QED
    BY <2>1, <2>2
<1>11. 0..N \subseteq T
  <2> HIDE DEF T
  <2> QED
    BY <1>1, <1>9, <1>10, UpTo
<1>12. Written[N] = Front(c, ps, n, N)
  BY <1>1, <1>11
<1>13. Front(c, ps, n, N) = Seen(c, ps, n)
  BY FrontOfAll DEF c, ps, n, N
<1> QED
  BY <1>2, <1>12, <1>13 DEF c, ps, n, qs

-----------------------------------------------------------------------------
(* Clean pages *)

\* Pages that have what the file has, once they are marked clean.
SameAs(f, ps) == \A p \in Nat : PageOf(p) \in DOMAIN ps => PageByte(ps, p) = ByteOf(f, p)
Cleaned(ps, qs) == [q \in qs |-> [ps[q] EXCEPT !.dirty = FALSE]]
CleanOver(f, ps) == PagesOK(ps) /\ CacheOK(f, ps, Len(f)) /\ Seen(f, ps, Len(f)) = f

LEMMA CleanPages ==
  ASSUME NEW f \in Seq(Byte), NEW ps, PagesOK(ps), NEW qs \in SUBSET DOMAIN ps,
         \A p \in Nat : PageOf(p) \in qs => PageByte(ps, p) = ByteOf(f, p)
  PROVE  CleanOver(f, Cleaned(ps, qs))
<1> DEFINE pt == Cleaned(ps, qs)
           n == Len(f)
<1>1. /\ DOMAIN pt = qs
      /\ \A q \in qs : /\ pt[q] \in [data : [1..PageSize -> Byte], dirty : BOOLEAN]
                       /\ pt[q].data = ps[q].data /\ ~pt[q].dirty
  BY DEF Cleaned, PagesOK
<1>2. PagesOK(pt)
  BY <1>1 DEF PagesOK
<1>3. n \in Nat
  OBVIOUS
<1> HIDE DEF pt, n
<1>4. \A p \in Nat : PageOf(p) \in DOMAIN pt => PageByte(pt, p) = ByteOf(f, p)
  BY <1>1 DEF PageByte
<1>5. CacheOK(f, pt, n)
  <2>1. AgreesBeyond(f, pt, n)
    BY <1>4 DEF AgreesBeyond
  <2>2. ~(Len(f) < n) /\ Len(f) <= n
    BY <1>3 DEF n
  <2>3. \A q \in DOMAIN pt : pt[q].dirty => q * PageSize < n
    BY <1>1
  <2> QED
    BY <1>2, <1>3, <2>1, <2>2, <2>3, CacheFrom
<1>6. Seen(f, pt, n) = f
  <2> DEFINE s == Seen(f, pt, n)
  <2>1. s \in Seq(Byte) /\ Len(s) = n
        /\ \A p \in 0..(n - 1) :
             s[p + 1] = IF PageOf(p) \in DOMAIN pt THEN PageByte(pt, p) ELSE ByteOf(f, p)
    BY <1>2, <1>3, SeenProperties
  <2> HIDE DEF s
  <2>2. ASSUME NEW i \in 1..n PROVE s[i] = f[i]
    <3> DEFINE p == i - 1
    <3>1. p \in 0..(n - 1) /\ p \in Nat /\ p + 1 = i /\ p < Len(f)
      BY <1>3 DEF n
    <3> HIDE DEF p
    <3>2. s[p + 1] = ByteOf(f, p)
      BY <1>4, <2>1, <3>1
    <3> QED
      BY <3>1, <3>2 DEF ByteOf
  <2>3. s = f
    BY <2>1, <2>2, SeqEqual DEF n
  <2> QED
    BY <2>3 DEF s
<1> QED
  BY <1>2, <1>5, <1>6 DEF CleanOver, pt, n

\* The pages agree with the file that has been handed all a handle sees.
LEMMA PagesAsFlushed ==
  ASSUME NEW c \in Seq(Byte), NEW ps, PagesOK(ps), NEW n \in Nat, CacheOK(c, ps, n)
  PROVE  SameAs(Seen(c, ps, n), ps)
<1> DEFINE f == Seen(c, ps, n)
<1>1. f \in Seq(Byte) /\ Len(f) = n
      /\ \A p \in 0..(n - 1) :
           f[p + 1] = IF PageOf(p) \in DOMAIN ps THEN PageByte(ps, p) ELSE ByteOf(c, p)
  BY SeenProperties
<1> HIDE DEF f
<1>2. ASSUME NEW p \in Nat, PageOf(p) \in DOMAIN ps PROVE PageByte(ps, p) = ByteOf(f, p)
  <2>1. CASE p < n
    <3>1. p \in 0..(n - 1)
      BY <2>1
    <3> QED
      BY <1>1, <1>2, <2>1, <3>1 DEF ByteOf
  <2>2. CASE ~(p < n)
    <3>1. p >= n /\ p >= Len(c)
      BY <2>2 DEF CacheOK
    <3>2. PageByte(ps, p) = ByteOf(c, p)
      BY <1>2, <3>1, CleanByte
    <3>3. ByteOf(c, p) = Zero /\ ByteOf(f, p) = Zero
      BY <1>1, <3>1, ByteOfIsByte
    <3> QED
      BY <3>2, <3>3
  <2> QED
    BY <2>1, <2>2
<1> QED
  BY <1>2 DEF SameAs, f

LEMMA ResizeProperties ==
  ASSUME NEW f \in Seq(Byte), NEW m \in Nat
  PROVE  /\ Resize(f, m) \in Seq(Byte) /\ Len(Resize(f, m)) = m
         /\ \A p \in 0..(m - 1) : ByteOf(Resize(f, m), p) = ByteOf(f, p)
         /\ m = Len(f) => Resize(f, m) = f
<1> DEFINE g == Resize(f, m)
<1>1. g = [i \in 1..m |-> IF i <= Len(f) THEN f[i] ELSE Zero]
  BY DEF Resize
<1> HIDE DEF g
<1>2. \A i \in 1..m : g[i] = IF i <= Len(f) THEN f[i] ELSE Zero
  BY <1>1
<1>3. \A i \in 1..m : g[i] \in Byte
  <2> TAKE i \in 1..m
  <2>1. i <= Len(f) => i \in 1..Len(f)
    OBVIOUS
  <2> QED
    BY <1>2, <2>1 DEF Byte
<1>4. g = [i \in 1..m |-> g[i]]
  BY <1>1
<1>5. g \in Seq(Byte) /\ Len(g) = m
  BY <1>3, <1>4, ByteByByte
<1>6. \A p \in 0..(m - 1) : ByteOf(g, p) = ByteOf(f, p)
  <2> TAKE p \in 0..(m - 1)
  <2>1. p + 1 \in 1..m /\ p < m /\ (p + 1 <= Len(f) <=> p < Len(f))
    OBVIOUS
  <2> QED
    BY <1>2, <1>5, <2>1 DEF ByteOf
<1>7. ASSUME m = Len(f) PROVE g = f
  BY <1>2, <1>5, <1>7, SeqEqual
<1> QED
  BY <1>5, <1>6, <1>7 DEF g

\* After a cut at the end of a page, the pages in front of it agree with the file.
LEMMA PagesAsCut ==
  ASSUME NEW f \in Seq(Byte), NEW ps, PagesOK(ps), SameAs(f, ps), NEW m \in Nat, m % PageSize = 0
  PROVE  \A p \in Nat : PageOf(p) \in {q \in DOMAIN ps : q * PageSize < m}
                        => PageByte(ps, p) = ByteOf(Resize(f, m), p)
<1>1. ASSUME NEW p \in Nat, PageOf(p) \in DOMAIN ps, PageOf(p) * PageSize < m
      PROVE  PageByte(ps, p) = ByteOf(Resize(f, m), p)
  <2> DEFINE q == PageOf(p)
             u == PageOf(m)
  <2>1. /\ q \in Nat /\ q * PageSize \in Nat /\ p < q * PageSize + PageSize
        /\ u \in Nat /\ u * PageSize \in Nat
    BY PlaceInPage, InPage, PagesApart
  <2>2. m = u * PageSize
    BY <2>1, PlaceInPage
  <2>3. q < u
    <3>1. u < q => u * PageSize + PageSize <= q * PageSize
      BY <2>1, PagesApart
    <3>2. PageSize \in Nat /\ q * PageSize < m
      BY <1>1, Constants
    <3> HIDE DEF q, u
    <3> QED
      BY <2>1, <2>2, <3>1, <3>2
  <2>4. q * PageSize + PageSize <= u * PageSize
    BY <2>1, <2>3, PagesApart
  <2> HIDE DEF q, u
  <2>5. p \in 0..(m - 1)
    BY <2>1, <2>2, <2>4, Constants
  <2>6. ByteOf(Resize(f, m), p) = ByteOf(f, p)
    BY <2>5, ResizeProperties
  <2> QED
    BY <1>1, <2>6 DEF SameAs
<1> QED
  BY <1>1

-----------------------------------------------------------------------------
(* A write into the pages *)

\* The pages over file c after n bytes v were written at position p, and what
\* a handle of m bytes then has at every position.
WrittenPages(c, ps, p, n, v) ==
  Over([q \in {PageOf(x) : x \in p..(p + n - 1)} |->
          [data |-> [i \in 1..PageSize |->
                       IF q * PageSize + i - 1 \in p..(p + n - 1) THEN v
                       ELSE IF q \in DOMAIN ps THEN ps[q].data[i] ELSE ByteOf(c, q * PageSize + i - 1)],
           dirty |-> TRUE]], ps)
SeenByte(c, ps, x) == IF PageOf(x) \in DOMAIN ps THEN PageByte(ps, x) ELSE ByteOf(c, x)

WrittenAs(pt, c, ps, p, n, v) ==
  /\ PagesOK(pt)
  /\ \A q \in Nat :
       /\ q \in {PageOf(x) : x \in p..(p + n - 1)} => q \in DOMAIN pt /\ pt[q].dirty
       /\ q \notin {PageOf(x) : x \in p..(p + n - 1)} =>
            (q \in DOMAIN pt <=> q \in DOMAIN ps) /\ (q \in DOMAIN pt => pt[q] = ps[q])
  /\ \A x \in Nat : SeenByte(c, pt, x) = IF x \in p..(p + n - 1) THEN v ELSE SeenByte(c, ps, x)

LEMMA WrittenBytes ==
  ASSUME NEW c \in Seq(Byte), NEW ps, PagesOK(ps), NEW p \in Nat, NEW n \in Nat, n >= 1,
         NEW v \in Byte
  PROVE  WrittenAs(WrittenPages(c, ps, p, n, v), c, ps, p, n, v)
<1> DEFINE pt == WrittenPages(c, ps, p, n, v)
           hit == p..(p + n - 1)
           qs == {PageOf(x) : x \in hit}
           Data(q) == [i \in 1..PageSize |->
                         IF q * PageSize + i - 1 \in hit THEN v
                         ELSE IF q \in DOMAIN ps THEN ps[q].data[i] ELSE ByteOf(c, q * PageSize + i - 1)]
           new == [q \in qs |-> [data |-> Data(q), dirty |-> TRUE]]
<1>1. hit \subseteq Nat
  OBVIOUS
<1>2. qs \subseteq Nat
  BY <1>1, PlaceInPage
<1>3. pt = Over(new, ps)
  BY DEF WrittenPages
<1>4. /\ DOMAIN pt = qs \cup DOMAIN ps
      /\ \A q \in qs : pt[q] = [data |-> Data(q), dirty |-> TRUE]
      /\ \A q \in DOMAIN pt \ qs : pt[q] = ps[q]
  <2>1. DOMAIN new = qs /\ \A q \in qs : new[q] = [data |-> Data(q), dirty |-> TRUE]
    OBVIOUS
  <2> HIDE DEF new, qs, Data
  <2>2. /\ DOMAIN pt = qs \cup DOMAIN ps
        /\ \A q \in qs \cup DOMAIN ps : pt[q] = IF q \in qs THEN new[q] ELSE ps[q]
    BY <1>3, <2>1 DEF Over
  <2> QED
    BY <2>1, <2>2
<1>5. ASSUME NEW q \in qs PROVE Data(q) \in [1..PageSize -> Byte]
  <2> HIDE DEF hit, qs
  <2>1. ASSUME NEW i \in 1..PageSize
        PROVE  (IF q * PageSize + i - 1 \in hit THEN v
                ELSE IF q \in DOMAIN ps THEN ps[q].data[i] ELSE ByteOf(c, q * PageSize + i - 1)) \in Byte
    <3>1. q \in Nat /\ i - 1 \in 0..(PageSize - 1)
      BY <1>2, Constants
    <3>2. q * PageSize + (i - 1) \in Nat /\ q * PageSize \in Nat
      BY <3>1, PlaceOf, PagesApart
    <3>3. q * PageSize + i - 1 = q * PageSize + (i - 1)
      BY <3>1, <3>2
    <3>4. ByteOf(c, q * PageSize + i - 1) \in Byte
      BY <3>2, <3>3, ByteOfIsByte
    <3>5. q \in DOMAIN ps => ps[q].data[i] \in Byte
      BY DEF PagesOK
    <3> QED
      BY <3>4, <3>5
  <2> QED
    BY <2>1
<1> HIDE DEF pt, hit, qs, Data, new
<1>6. PagesOK(pt)
  <2>1. DOMAIN pt \subseteq Nat
    BY <1>2, <1>4 DEF PagesOK
  <2>2. ASSUME NEW q \in DOMAIN pt PROVE pt[q] \in [data : [1..PageSize -> Byte], dirty : BOOLEAN]
    <3>1. CASE q \in qs
      <4>1. pt[q] = [data |-> Data(q), dirty |-> TRUE] /\ Data(q) \in [1..PageSize -> Byte]
        BY <1>4, <1>5, <3>1
      <4> QED
        BY <4>1
    <3>2. CASE q \notin qs
      BY <1>4, <3>2 DEF PagesOK
    <3> QED
      BY <3>1, <3>2
  <2> QED
    BY <2>1, <2>2 DEF PagesOK
<1>7. ASSUME NEW q \in Nat
      PROVE  /\ q \in qs => q \in DOMAIN pt /\ pt[q].dirty
             /\ q \notin qs => (q \in DOMAIN pt <=> q \in DOMAIN ps) /\ (q \in DOMAIN pt => pt[q] = ps[q])
  <2>1. ASSUME q \in qs PROVE q \in DOMAIN pt /\ pt[q].dirty
    <3>1. q \in DOMAIN pt /\ pt[q] = [data |-> Data(q), dirty |-> TRUE]
      BY <1>4, <2>1
    <3> QED
      BY <3>1
  <2>2. ASSUME q \notin qs
        PROVE  (q \in DOMAIN pt <=> q \in DOMAIN ps) /\ (q \in DOMAIN pt => pt[q] = ps[q])
    BY <1>4, <2>2
  <2> QED
    BY <2>1, <2>2
<1>8. ASSUME NEW x \in Nat PROVE SeenByte(c, pt, x) = IF x \in hit THEN v ELSE SeenByte(c, ps, x)
  <2> DEFINE q == PageOf(x)
             i == (x % PageSize) + 1
  <2>1. /\ q \in Nat /\ q * PageSize \in Nat
        /\ i \in 1..PageSize /\ q * PageSize + i - 1 = x
    <3>1. x % PageSize \in 0..(PageSize - 1) /\ q \in Nat /\ x = q * PageSize + (x % PageSize)
      BY PlaceInPage
    <3>2. q * PageSize \in Nat /\ PageSize \in Nat
      BY <3>1, PagesApart, Constants
    <3> HIDE DEF q
    <3> QED
      BY <3>1, <3>2
  <2>2. x \in hit => q \in qs
    BY DEF qs
  <2>3. CASE q \in qs
    <3>1. q \in DOMAIN pt /\ pt[q].data = Data(q)
      <4>1. q \in DOMAIN pt /\ pt[q] = [data |-> Data(q), dirty |-> TRUE]
        BY <1>4, <2>3
      <4> QED
        BY <4>1
    <3>2. SeenByte(c, pt, x) = Data(q)[i]
      BY <3>1 DEF SeenByte, PageByte
    <3> HIDE DEF i, q
    <3>3. Data(q)[i] = IF x \in hit THEN v ELSE IF q \in DOMAIN ps THEN ps[q].data[i] ELSE ByteOf(c, x)
      <4>1. Data(q)[i] = IF q * PageSize + i - 1 \in hit THEN v
                         ELSE IF q \in DOMAIN ps THEN ps[q].data[i] ELSE ByteOf(c, q * PageSize + i - 1)
        BY <2>1 DEF Data
      <4> QED
        BY <2>1, <4>1, Zenon
    <3>4. SeenByte(c, ps, x) = IF q \in DOMAIN ps THEN ps[q].data[i] ELSE ByteOf(c, x)
      BY DEF SeenByte, PageByte, q, i
    <3> QED
      BY <3>2, <3>3, <3>4
  <2>4. CASE q \notin qs
    <3>1. x \notin hit /\ (q \in DOMAIN pt <=> q \in DOMAIN ps)
      BY <1>4, <2>2, <2>4
    <3>2. q \in DOMAIN pt => pt[q] = ps[q]
      BY <1>4, <2>4
    <3> QED
      BY <3>1, <3>2 DEF SeenByte, PageByte
  <2> QED
    BY <2>3, <2>4
<1> QED
  BY <1>6, <1>7, <1>8 DEF WrittenAs, pt, hit, qs

\* Contents with n bytes v at position p, zeros in a gap.
Patched(s, p, n, v) ==
  [i \in 1..(IF Len(s) >= p + n THEN Len(s) ELSE p + n) |->
     IF i - 1 \in p..(p + n - 1) THEN v ELSE IF i <= Len(s) THEN s[i] ELSE Zero]

LEMMA WriteKeepsCache ==
  ASSUME NEW c \in Seq(Byte), NEW ps, PagesOK(ps), NEW m \in Nat, CacheOK(c, ps, m),
         NEW p \in Nat, NEW n \in Nat, n >= 1, NEW v \in Byte,
         NEW pt, WrittenAs(pt, c, ps, p, n, v),
         NEW e, e = IF m >= p + n THEN m ELSE p + n
  PROVE  CacheOK(c, pt, e)
<1> DEFINE hit == p..(p + n - 1)
           qs == {PageOf(x) : x \in hit}
<1>1. /\ PagesOK(pt)
      /\ \A q \in Nat : /\ q \in qs => q \in DOMAIN pt /\ pt[q].dirty
                        /\ q \notin qs => (q \in DOMAIN pt <=> q \in DOMAIN ps) /\ (q \in DOMAIN pt => pt[q] = ps[q])
      /\ \A x \in Nat : SeenByte(c, pt, x) = IF x \in hit THEN v ELSE SeenByte(c, ps, x)
  BY DEF WrittenAs
<1>2. e \in Nat /\ m <= e /\ p + n <= e /\ e \in {m, p + n}
  OBVIOUS
<1>3. Len(c) <= m /\ Len(c) \in Nat /\ Len(c) <= e
  BY <1>2 DEF CacheOK
<1>4. ASSUME Len(c) < e PROVE PageOf(e - 1) \in DOMAIN pt /\ pt[PageOf(e - 1)].dirty
  <2>1. e - 1 \in Nat
    BY <1>2, <1>3, <1>4
  <2>2. PageOf(e - 1) \in Nat
    BY <2>1, PlaceInPage
  <2>3. CASE e = p + n
    <3>1. e - 1 \in hit
      BY <2>3
    <3>2. PageOf(e - 1) \in qs
      BY <3>1
    <3> HIDE DEF qs
    <3> QED
      BY <1>1, <2>2, <3>2
  <2>4. CASE e = m
    <3>1. PageOf(e - 1) \in DOMAIN ps /\ ps[PageOf(e - 1)].dirty
      BY <1>4, <2>4 DEF CacheOK
    <3> HIDE DEF qs
    <3>2. CASE PageOf(e - 1) \in qs
      BY <1>1, <2>2, <3>2
    <3>3. CASE PageOf(e - 1) \notin qs
      BY <1>1, <2>2, <3>1, <3>3
    <3> QED
      BY <3>2, <3>3
  <2> QED
    BY <1>2, <2>3, <2>4
<1>5. ASSUME NEW q \in DOMAIN pt, pt[q].dirty PROVE q * PageSize < e
  <2>1. q \in Nat /\ q * PageSize \in Nat
    <3>1. q \in Nat
      BY <1>1 DEF PagesOK
    <3> QED
      BY <3>1, PagesApart
  <2>2. CASE q \in qs
    <3>1. PICK x \in hit : PageOf(x) = q
      BY <2>2
    <3>2. x \in Nat /\ x < p + n
      BY <3>1
    <3>3. q * PageSize <= x
      BY <2>1, <3>1, <3>2, InPage
    <3> QED
      BY <1>2, <2>1, <3>2, <3>3
  <2>3. CASE q \notin qs
    <3> HIDE DEF qs
    <3>1. q \in DOMAIN ps /\ ps[q].dirty
      BY <1>1, <1>5, <2>1, <2>3
    <3>2. q * PageSize < m
      BY <3>1 DEF CacheOK
    <3> QED
      BY <1>2, <2>1, <3>2
  <2> QED
    BY <2>2, <2>3
<1>6. ASSUME NEW x \in Nat, PageOf(x) \in DOMAIN pt, ~pt[PageOf(x)].dirty \/ x >= e
      PROVE  PageByte(pt, x) = ByteOf(c, x)
  <2> DEFINE q == PageOf(x)
  <2>1. q \in Nat
    BY PlaceInPage
  <2>2. x \notin hit
    <3>1. CASE x >= e
      BY <1>2, <3>1
    <3>2. CASE ~pt[q].dirty
      <4>1. q \notin qs
        BY <1>1, <2>1, <3>2
      <4> QED
        BY <4>1
    <3> QED
      BY <1>6, <3>1, <3>2
  <2>3. SeenByte(c, pt, x) = PageByte(pt, x)
    BY <1>6 DEF SeenByte
  <2>4. PageByte(pt, x) = SeenByte(c, ps, x)
    BY <1>1, <2>2, <2>3
  <2>5. CASE q \notin DOMAIN ps
    BY <2>4, <2>5 DEF SeenByte
  <2>6. CASE q \in DOMAIN ps
    <3>1. ~ps[q].dirty \/ x >= m
      <4>1. CASE x >= e
        BY <1>2, <4>1
      <4>2. CASE ~pt[q].dirty
        <5> HIDE DEF qs
        <5>1. q \notin qs
          BY <1>1, <2>1, <4>2
        <5>2. pt[q] = ps[q]
          BY <1>1, <1>6, <2>1, <5>1
        <5> QED
          BY <4>2, <5>2
      <4> QED
        BY <1>6, <4>1, <4>2
    <3>2. PageByte(ps, x) = ByteOf(c, x)
      BY <2>6, <3>1, CleanByte
    <3> QED
      BY <2>4, <2>6, <3>2 DEF SeenByte
  <2> QED
    BY <2>5, <2>6
<1>7. AgreesBeyond(c, pt, e)
  BY <1>6 DEF AgreesBeyond
<1> QED
  BY <1>1, <1>2, <1>3, <1>4, <1>5, <1>7, CacheFrom

LEMMA WritePatches ==
  ASSUME NEW c \in Seq(Byte), NEW ps, PagesOK(ps), NEW m \in Nat, CacheOK(c, ps, m),
         NEW p \in Nat, NEW n \in Nat, n >= 1, NEW v \in Byte,
         NEW pt, WrittenAs(pt, c, ps, p, n, v),
         NEW e, e = IF m >= p + n THEN m ELSE p + n
  PROVE  Seen(c, pt, e) = Patched(Seen(c, ps, m), p, n, v)
<1> DEFINE a == Seen(c, pt, e)
           b == Seen(c, ps, m)
           d == Patched(b, p, n, v)
<1>1. PagesOK(pt) /\ \A x \in Nat : SeenByte(c, pt, x) = IF x \in p..(p + n - 1) THEN v ELSE SeenByte(c, ps, x)
  BY DEF WrittenAs
<1>2. e \in Nat /\ m <= e
  OBVIOUS
<1>3. /\ a = [i \in 1..e |-> a[i]] /\ Len(a) = e
      /\ \A x \in 0..(e - 1) : a[x + 1] = SeenByte(c, pt, x)
  <2>1. a = [i \in 1..e |-> a[i]]
    BY DEF Seen
  <2>2. /\ Len(a) = e
        /\ \A x \in 0..(e - 1) :
             a[x + 1] = IF PageOf(x) \in DOMAIN pt THEN PageByte(pt, x) ELSE ByteOf(c, x)
    BY <1>1, <1>2, SeenProperties
  <2> QED
    BY <2>1, <2>2 DEF SeenByte
<1>4. /\ Len(b) = m
      /\ \A x \in 0..(m - 1) : b[x + 1] = SeenByte(c, ps, x)
  BY SeenProperties DEF SeenByte
<1> HIDE DEF a, b
<1>5. d = [i \in 1..e |-> IF i - 1 \in p..(p + n - 1) THEN v ELSE IF i <= m THEN b[i] ELSE Zero]
  BY <1>4 DEF Patched
<1>6. ASSUME NEW i \in 1..e
      PROVE  a[i] = IF i - 1 \in p..(p + n - 1) THEN v ELSE IF i <= m THEN b[i] ELSE Zero
  <2> DEFINE x == i - 1
  <2>1. x \in 0..(e - 1) /\ x \in Nat /\ x + 1 = i /\ (x \in 0..(m - 1) <=> i <= m)
    BY <1>2
  <2>2. i - 1 = x
    OBVIOUS
  <2> HIDE DEF x
  <2>3. a[i] = IF x \in p..(p + n - 1) THEN v ELSE SeenByte(c, ps, x)
    BY <1>1, <1>3, <2>1
  <2>4. CASE i <= m
    <3>1. b[i] = SeenByte(c, ps, x)
      BY <1>4, <2>1, <2>4
    <3> QED
      BY <2>2, <2>3, <2>4, <3>1
  <2>5. CASE ~(i <= m)
    <3>1. x >= m /\ x >= Len(c)
      BY <1>2, <2>1, <2>5 DEF CacheOK
    <3>2. ByteOf(c, x) = Zero
      BY <2>1, <3>1, ByteOfIsByte
    <3>3. PageOf(x) \in DOMAIN ps => PageByte(ps, x) = ByteOf(c, x)
      BY <2>1, <3>1, CleanByte
    <3>4. SeenByte(c, ps, x) = Zero
      BY <3>2, <3>3 DEF SeenByte
    <3> QED
      BY <2>2, <2>3, <2>5, <3>4
  <2> QED
    BY <2>4, <2>5
<1> HIDE DEF d
<1>7. a = d
  BY <1>3, <1>5, <1>6
<1> QED
  BY <1>7 DEF a, b, d

-----------------------------------------------------------------------------
(* What is asked for *)

AskedEnds(c, a) == {Least(a.keep, Len(c))} \cup {p + 1 : p \in DOMAIN a.bytes}
AskedLength(c, a) == Max(AskedEnds(c, a))
AskedByte(c, a, p) ==
  IF p \in DOMAIN a.bytes THEN a.bytes[p] ELSE IF p < Least(a.keep, Len(c)) THEN c[p + 1] ELSE Zero

LEMMA AskedLengthProperties ==
  ASSUME NEW c \in Seq(Byte), NEW a, AskedOK(a)
  PROVE  /\ AskedLength(c, a) \in AskedEnds(c, a)
         /\ AskedLength(c, a) \in 0..MaxSize
         /\ \A e \in AskedEnds(c, a) : e <= AskedLength(c, a)
         /\ Least(a.keep, Len(c)) \in 0..Len(c)
<1>1. a.keep \in Int /\ Len(c) \in Int /\ a.keep \in 0..MaxSize /\ Len(c) \in Nat /\ MaxSize \in Nat
  BY Constants DEF AskedOK
<1>2. Least(a.keep, Len(c)) = IF a.keep <= Len(c) THEN a.keep ELSE Len(c)
  BY <1>1, LeastOfTwo
<1>3. Least(a.keep, Len(c)) \in 0..MaxSize /\ Least(a.keep, Len(c)) \in 0..Len(c)
  BY <1>1, <1>2
<1>4. \A p \in DOMAIN a.bytes : p + 1 \in 0..MaxSize
  BY <1>1 DEF AskedOK
<1>5. AskedEnds(c, a) \in SUBSET (0..MaxSize) /\ AskedEnds(c, a) # {}
  BY <1>3, <1>4 DEF AskedEnds
<1>6. AskedLength(c, a) \in AskedEnds(c, a) /\ \A e \in AskedEnds(c, a) : e <= AskedLength(c, a)
  BY <1>1, <1>5, GreatestOfSome DEF AskedLength
<1> QED
  BY <1>3, <1>5, <1>6

LEMMA ApplyProperties ==
  ASSUME NEW c \in Seq(Byte), NEW a, AskedOK(a)
  PROVE  /\ Apply(c, a) = [i \in 1..AskedLength(c, a) |-> AskedByte(c, a, i - 1)]
         /\ Apply(c, a) \in Seq(Byte)
         /\ Len(Apply(c, a)) = AskedLength(c, a)
<1> DEFINE s == Apply(c, a)
           k == Least(a.keep, Len(c))
           m == AskedLength(c, a)
<1>1. m \in Nat /\ k \in 0..Len(c)
  BY AskedLengthProperties, Constants
<1>2. s = [i \in 1..m |-> IF i - 1 \in DOMAIN a.bytes THEN a.bytes[i - 1]
                          ELSE IF i <= k THEN c[i] ELSE Zero]
  BY Zenon DEF Apply, AskedLength, AskedEnds
<1> HIDE DEF s, m
<1>3. \A i \in 1..m : (IF i - 1 \in DOMAIN a.bytes THEN a.bytes[i - 1]
                       ELSE IF i <= k THEN c[i] ELSE Zero) = AskedByte(c, a, i - 1)
  <2> TAKE i \in 1..m
  <2> DEFINE p == i - 1
  <2>1. p + 1 = i /\ (i <= k <=> p < k)
    BY <1>1
  <2> HIDE DEF p, k
  <2>2. AskedByte(c, a, p) = IF p \in DOMAIN a.bytes THEN a.bytes[p]
                             ELSE IF p < k THEN c[p + 1] ELSE Zero
    BY DEF AskedByte, k
  <2>3. AskedByte(c, a, p) = IF p \in DOMAIN a.bytes THEN a.bytes[p]
                             ELSE IF i <= k THEN c[i] ELSE Zero
    BY <2>1, <2>2
  <2> QED
    BY <2>3 DEF p
<1>4. s = [i \in 1..m |-> AskedByte(c, a, i - 1)]
  BY <1>2, <1>3
<1>5. \A i \in 1..m : s[i] \in Byte
  <2> TAKE i \in 1..m
  <2>1. s[i] = IF i - 1 \in DOMAIN a.bytes THEN a.bytes[i - 1] ELSE IF i <= k THEN c[i] ELSE Zero
    BY <1>2
  <2>2. i - 1 \in DOMAIN a.bytes => a.bytes[i - 1] \in Byte
    BY DEF AskedOK
  <2>3. i <= k => c[i] \in Byte
    <3>1. k \in 0..Len(c) /\ i \in Nat /\ i >= 1
      BY <1>1
    <3> HIDE DEF k
    <3>2. i <= k => i \in 1..Len(c)
      BY <3>1
    <3> QED
      BY <3>2
  <2>4. Zero \in Byte
    BY DEF Byte
  <2> HIDE DEF k
  <2> QED
    BY <2>1, <2>2, <2>3, <2>4
<1>6. s = [i \in 1..m |-> s[i]]
  BY <1>4
<1>7. s \in Seq(Byte) /\ Len(s) = m
  BY <1>1, <1>5, <1>6, ByteByByte
<1> QED
  BY <1>4, <1>7 DEF s, m

\* Nothing asked for: the contents as they are.
LEMMA ApplyNone ==
  ASSUME NEW c \in Seq(Byte), Len(c) <= MaxSize
  PROVE  AskedOK(None) /\ Apply(c, None) = c
<1>1. AskedOK(None) /\ DOMAIN None.bytes = {} /\ None.keep = MaxSize
  BY Constants DEF None, AskedOK
<1>2. Least(None.keep, Len(c)) = Len(c)
  BY <1>1, LeastOfTwo, Constants
<1>3. AskedEnds(c, None) = {Len(c)}
  BY <1>1, <1>2 DEF AskedEnds
<1>4. AskedLength(c, None) = Len(c)
  BY <1>1, <1>3, AskedLengthProperties
<1>5. Apply(c, None) = [i \in 1..Len(c) |-> AskedByte(c, None, i - 1)] /\ Apply(c, None) \in Seq(Byte)
      /\ Len(Apply(c, None)) = Len(c)
  BY <1>1, <1>4, ApplyProperties
<1>6. ASSUME NEW i \in 1..Len(c) PROVE Apply(c, None)[i] = c[i]
  <2>1. Apply(c, None)[i] = AskedByte(c, None, i - 1)
    BY <1>5
  <2>2. i - 1 \notin DOMAIN None.bytes /\ i - 1 < Len(c) /\ (i - 1) + 1 = i
    BY <1>1
  <2> QED
    BY <1>2, <2>1, <2>2 DEF AskedByte
<1>7. Apply(c, None) = c
  BY <1>5, <1>6, SeqEqual
<1> QED
  BY <1>1, <1>7

\* A write patches what was asked for.
LEMMA ApplyWrite ==
  ASSUME NEW c \in Seq(Byte), NEW a, AskedOK(a), NEW p \in Nat, NEW n \in Nat, n >= 1,
         p + n <= MaxSize, NEW v \in Byte
  PROVE  /\ AskedOK(ThenWrite(a, p, n, v))
         /\ Apply(c, ThenWrite(a, p, n, v)) = Patched(Apply(c, a), p, n, v)
<1> DEFINE b == ThenWrite(a, p, n, v)
           hit == p..(p + n - 1)
           k == Least(a.keep, Len(c))
           m == AskedLength(c, a)
           e == IF m >= p + n THEN m ELSE p + n
<1>1. b = [keep |-> a.keep, bytes |-> Over([i \in hit |-> v], a.bytes)]
  <2>1. a = [keep |-> a.keep, bytes |-> a.bytes]
    BY DEF AskedOK
  <2>2. b = [a EXCEPT !.bytes = Over([i \in hit |-> v], a.bytes)]
    BY DEF ThenWrite
  <2> QED
    BY <2>1, <2>2
<1>2. /\ b.keep = a.keep /\ b = [keep |-> b.keep, bytes |-> b.bytes]
      /\ DOMAIN b.bytes = hit \cup DOMAIN a.bytes
      /\ \A x \in DOMAIN b.bytes : b.bytes[x] = IF x \in hit THEN v ELSE a.bytes[x]
  <2>1. b.keep = a.keep /\ b.bytes = Over([i \in hit |-> v], a.bytes) /\ b = [keep |-> b.keep, bytes |-> b.bytes]
    BY <1>1
  <2> HIDE DEF hit, b
  <2> QED
    BY <2>1 DEF Over
<1> HIDE DEF b
<1>3. AskedOK(b)
  <2>1. hit \subseteq 0..(MaxSize - 1)
    BY Constants
  <2> HIDE DEF hit
  <2> QED
    BY <1>2, <2>1 DEF AskedOK
<1>4. m \in Nat /\ m \in AskedEnds(c, a) /\ \A x \in AskedEnds(c, a) : x <= m
  BY AskedLengthProperties, Constants
<1>5. AskedLength(c, b) = e
  <2>1. p + n \in AskedEnds(c, b)
    <3>1. p + n - 1 \in hit
      OBVIOUS
    <3> HIDE DEF hit
    <3>2. (p + n - 1) + 1 \in AskedEnds(c, b)
      BY <1>2, <3>1 DEF AskedEnds
    <3>3. (p + n - 1) + 1 = p + n
      OBVIOUS
    <3> QED
      BY <3>2, <3>3
  <2>2. AskedEnds(c, a) \subseteq AskedEnds(c, b)
    BY <1>2 DEF AskedEnds
  <2>3. ASSUME NEW x \in AskedEnds(c, b) PROVE x \in AskedEnds(c, a) \/ x <= p + n
    <3>1. CASE x = k
      BY <3>1 DEF AskedEnds
    <3>2. CASE \E y \in hit : x = y + 1
      BY <3>2
    <3>3. CASE \E y \in DOMAIN a.bytes : x = y + 1
      BY <3>3 DEF AskedEnds
    <3>4. x = k \/ \E y \in DOMAIN b.bytes : x = y + 1
      BY <1>2 DEF AskedEnds
    <3> HIDE DEF hit, k
    <3> QED
      BY <1>2, <3>1, <3>2, <3>3, <3>4
  <2>4. /\ AskedLength(c, b) \in AskedEnds(c, b) /\ AskedLength(c, b) \in 0..MaxSize
        /\ \A x \in AskedEnds(c, b) : x <= AskedLength(c, b)
    BY <1>3, AskedLengthProperties
  <2>5. m <= AskedLength(c, b) /\ p + n <= AskedLength(c, b) /\ AskedLength(c, b) \in Int
    BY <1>4, <2>1, <2>2, <2>4
  <2>6. AskedLength(c, b) <= m \/ AskedLength(c, b) <= p + n
    BY <1>4, <2>3, <2>4
  <2> HIDE DEF m
  <2> QED
    BY <1>4, <2>5, <2>6
<1>6. e \in Nat
  BY <1>4
<1>7. /\ Apply(c, a) = [i \in 1..m |-> AskedByte(c, a, i - 1)] /\ Len(Apply(c, a)) = m
      /\ Apply(c, b) = [i \in 1..AskedLength(c, b) |-> AskedByte(c, b, i - 1)]
  BY <1>3, ApplyProperties
<1> DEFINE s == Apply(c, a)
           t == Patched(s, p, n, v)
<1>8. t = [i \in 1..e |-> IF i - 1 \in hit THEN v ELSE IF i <= m THEN s[i] ELSE Zero]
  <2> HIDE DEF s, m
  <2>1. Len(s) = m
    BY <1>7 DEF s
  <2> QED
    BY <2>1 DEF Patched
<1>9. ASSUME NEW i \in 1..e
      PROVE  AskedByte(c, b, i - 1) = IF i - 1 \in hit THEN v ELSE IF i <= m THEN s[i] ELSE Zero
  <2> DEFINE x == i - 1
  <2>1. x \in Nat /\ i = x + 1 /\ i \in Nat /\ i >= 1
    BY <1>6
  <2> HIDE DEF x, e, hit, s, m
  <2>2. AskedByte(c, b, x) = IF x \in hit THEN v ELSE AskedByte(c, a, x)
    BY <1>2 DEF AskedByte
  <2>3. CASE i <= m
    <3>1. s[i] = AskedByte(c, a, i - 1)
      <4>1. i \in 1..m
        BY <1>4, <2>1, <2>3
      <4> QED
        BY <1>7, <4>1 DEF s
    <3> QED
      BY <2>2, <2>3, <3>1 DEF x
  <2>4. CASE ~(i <= m)
    <3>1. x >= m
      BY <1>4, <2>1, <2>4
    <3>2. x \notin DOMAIN a.bytes
      <4>1. \A y \in DOMAIN a.bytes : y + 1 <= m /\ y \in Int
        BY <1>4 DEF AskedEnds, AskedOK
      <4> QED
        BY <1>4, <2>1, <3>1, <4>1
    <3>3. ~(x < Least(a.keep, Len(c)))
      <4>1. Least(a.keep, Len(c)) <= m
        BY <1>4 DEF AskedEnds
      <4>2. Least(a.keep, Len(c)) \in Nat
        BY AskedLengthProperties
      <4> QED
        BY <1>4, <2>1, <3>1, <4>1, <4>2
    <3>4. AskedByte(c, a, x) = Zero
      BY <3>2, <3>3 DEF AskedByte
    <3> QED
      BY <2>2, <2>4, <3>4 DEF x
  <2> QED
    BY <2>3, <2>4
<1> HIDE DEF t, s, m, e, hit
<1>10. Apply(c, b) = t
  BY <1>5, <1>7, <1>8, <1>9
<1> QED
  BY <1>3, <1>10 DEF t, s, b

\* A truncation resizes the contents.
LEMMA ApplyResize ==
  ASSUME NEW f \in Seq(Byte), Len(f) <= MaxSize, NEW n \in 0..MaxSize
  PROVE  /\ AskedOK(ThenResize(None, Len(f), n))
         /\ Apply(f, ThenResize(None, Len(f), n)) = Resize(f, n)
<1> DEFINE b == ThenResize(None, Len(f), n)
           l == Len(f)
           gap == l..(n - 1)
<1>1. l \in Nat /\ n \in Nat /\ MaxSize \in Nat /\ l <= MaxSize /\ n <= MaxSize
  BY Constants
<1>2. /\ b = [keep |-> b.keep, bytes |-> b.bytes] /\ b.keep = n
      /\ DOMAIN b.bytes = gap /\ \A x \in gap : b.bytes[x] = Zero
  <2>1. None.keep = MaxSize /\ DOMAIN None.bytes = {}
    BY DEF None
  <2>2. Least(MaxSize, n) = n
    BY <1>1, LeastOfTwo
  <2>3. b = [keep |-> n, bytes |-> Over([i \in {j \in DOMAIN None.bytes : j < n} |-> None.bytes[i]],
                                        [i \in gap |-> Zero])]
    BY <2>1, <2>2, Zenon DEF ThenResize
  <2>4. b = [keep |-> b.keep, bytes |-> b.bytes] /\ b.keep = n
        /\ b.bytes = Over([i \in {j \in DOMAIN None.bytes : j < n} |-> None.bytes[i]], [i \in gap |-> Zero])
    BY <2>3
  <2>5. {j \in DOMAIN None.bytes : j < n} = {}
    BY <2>1
  <2> HIDE DEF b, gap
  <2> QED
    BY <2>4, <2>5 DEF Over
<1> HIDE DEF b
<1>3. AskedOK(b)
  <2>1. gap \subseteq 0..(MaxSize - 1) /\ n \in 0..MaxSize /\ Zero \in Byte
    BY <1>1 DEF Byte
  <2> HIDE DEF gap
  <2> QED
    BY <1>2, <2>1 DEF AskedOK
<1>4. Least(b.keep, l) = IF n <= l THEN n ELSE l
  BY <1>1, <1>2, LeastOfTwo
<1>5. AskedLength(f, b) = n
  <2>1. /\ AskedLength(f, b) \in AskedEnds(f, b) /\ AskedLength(f, b) \in 0..MaxSize
        /\ \A x \in AskedEnds(f, b) : x <= AskedLength(f, b)
    BY <1>3, AskedLengthProperties
  <2>2. n \in AskedEnds(f, b)
    <3>1. CASE n <= l
      BY <1>4, <3>1 DEF AskedEnds
    <3>2. CASE ~(n <= l)
      <4>1. n - 1 \in gap /\ (n - 1) + 1 = n
        BY <1>1, <3>2
      <4> HIDE DEF gap
      <4>2. (n - 1) + 1 \in AskedEnds(f, b)
        BY <1>2, <4>1 DEF AskedEnds
      <4> QED
        BY <4>1, <4>2
    <3> QED
      BY <3>1, <3>2
  <2>3. ASSUME NEW x \in AskedEnds(f, b) PROVE x <= n
    <3>1. CASE x = Least(b.keep, l)
      BY <1>1, <1>4, <3>1
    <3>2. CASE \E y \in gap : x = y + 1
      BY <1>1, <3>2
    <3> HIDE DEF gap
    <3> QED
      BY <1>2, <3>1, <3>2 DEF AskedEnds
  <2> QED
    BY <1>1, <2>1, <2>2, <2>3
<1>6. Apply(f, b) = [i \in 1..n |-> AskedByte(f, b, i - 1)]
  BY <1>3, <1>5, ApplyProperties
<1>7. ASSUME NEW i \in 1..n
      PROVE  AskedByte(f, b, i - 1) = IF i <= Len(f) THEN f[i] ELSE Zero
  <2> DEFINE x == i - 1
  <2>1. x \in Nat /\ x + 1 = i /\ x < n /\ (i <= l <=> x < l)
    BY <1>1
  <2>2. CASE i <= l
    <3>1. x \notin gap
      BY <1>1, <2>1, <2>2
    <3>2. x < Least(b.keep, l)
      BY <1>1, <1>4, <2>1, <2>2
    <3> HIDE DEF x, gap
    <3>3. AskedByte(f, b, x) = f[x + 1]
      BY <1>2, <3>1, <3>2 DEF AskedByte
    <3> QED
      BY <2>1, <2>2, <3>3 DEF x
  <2>3. CASE ~(i <= l)
    <3>1. x \in gap
      BY <1>1, <2>1, <2>3
    <3> HIDE DEF x, gap
    <3>2. AskedByte(f, b, x) = Zero
      BY <1>2, <3>1 DEF AskedByte
    <3> QED
      BY <2>3, <3>2 DEF x
  <2> QED
    BY <2>2, <2>3
<1>8. Apply(f, b) = Resize(f, n)
  BY <1>6, <1>7 DEF Resize
<1> QED
  BY <1>3, <1>8 DEF b

-----------------------------------------------------------------------------
(* The calls on a handle *)

LEMMA FileSame ==
  ASSUME FileInv, UNCHANGED contents
  PROVE  FileInv'
<1>1. UNCHANGED <<disk, ram, changed, erred, open, pages, pos, size, pending, flushed>>
  BY DEF contents, handle
<1> QED
  BY <1>1 DEF FileInv, FileTypeOK, HandleOK, Wanted

LEMMA HandleFacts ==
  ASSUME FileInv, NEW h \in Handles
  PROVE  /\ ram[h] \in Seq(Byte) /\ PagesOK(pages[h]) /\ AskedOK(pending[h])
         /\ size[h] \in Nat /\ size[h] <= MaxSize /\ pos[h] \in Nat /\ pos[h] <= MaxSize
         /\ disk \in Seq(Byte) /\ Len(disk) <= MaxSize /\ flushed = disk
BY Constants DEF FileInv, FileTypeOK

\* Without dirty pages a handle sees its file.
LEMMA SeenClean ==
  ASSUME NEW c \in Seq(Byte), NEW ps, PagesOK(ps), NEW n \in Nat, CacheOK(c, ps, n), Dirty(ps) = {}
  PROVE  Seen(c, ps, n) = c
<1>1. Len(c) = n
  <2>1. ~(Len(c) < n) /\ Len(c) <= n
    BY DEF CacheOK, Dirty
  <2> QED
    BY <2>1
<1> DEFINE s == Seen(c, ps, n)
<1>2. s \in Seq(Byte) /\ Len(s) = n
      /\ \A p \in 0..(n - 1) : s[p + 1] = IF PageOf(p) \in DOMAIN ps THEN PageByte(ps, p) ELSE ByteOf(c, p)
  BY SeenProperties
<1> HIDE DEF s
<1>3. ASSUME NEW i \in 1..n PROVE s[i] = c[i]
  <2> DEFINE p == i - 1
  <2>1. p \in 0..(n - 1) /\ p \in Nat /\ p + 1 = i /\ p < Len(c)
    BY <1>1
  <2> HIDE DEF p
  <2>2. PageOf(p) \in DOMAIN ps => PageByte(ps, p) = ByteOf(c, p)
    <3>1. PageOf(p) \in DOMAIN ps => ~ps[PageOf(p)].dirty
      BY DEF Dirty
    <3> QED
      BY <2>1, <3>1, CleanByte
  <2>3. s[p + 1] = ByteOf(c, p)
    BY <1>2, <2>1, <2>2
  <2> QED
    BY <2>1, <2>3 DEF ByteOf
<1>4. s = c
  BY <1>1, <1>2, <1>3, SeqEqual
<1> QED
  BY <1>4 DEF s

\* A flush without failures commits what the handle has asked for.
LEMMA FlushFacts ==
  ASSUME FileInv, PlainUse, NEW h \in Handles, open[h]
  PROVE  /\ Wanted(h) \in Seq(Byte) /\ Len(Wanted(h)) = size[h]
         /\ Flushed(h, {}) = Wanted(h)
         /\ Bad(h, {}) = FALSE
         /\ Synced(h, {}) = Wanted(h)
         /\ SameAs(Wanted(h), pages[h])
<1> DEFINE c == ram[h]
           ps == pages[h]
           n == size[h]
           w == Seen(c, ps, n)
<1>1. c \in Seq(Byte) /\ PagesOK(ps) /\ n \in Nat
  BY HandleFacts
<1>2. CacheOK(c, ps, n) /\ ~erred[h] /\ Wanted(h) = w /\ (~changed[h] => c = disk)
  BY DEF FileInv, HandleOK
<1>3. w \in Seq(Byte) /\ Len(w) = n
  BY <1>1, <1>2, SeenProperties
<1>4. DirtyPages(h) \ {} = DirtyPages(h)
  OBVIOUS
<1>5. Flushed(h, {}) = w
  BY <1>1, <1>2, <1>4, WritesAll DEF Flushed, PlainUse
<1>6. Bad(h, {}) = FALSE
  <2>1. erred[h] \in BOOLEAN
    BY DEF FileInv, FileTypeOK
  <2> QED
    BY <1>2, <2>1 DEF Bad
<1>7. Synced(h, {}) = w
  <2>1. CASE Unsynced(h, {})
    BY <1>5, <1>6, <2>1 DEF Synced
  <2>2. CASE ~Unsynced(h, {})
    <3>1. ~changed[h] /\ DirtyPages(h) = {}
      BY <1>4, <2>2 DEF Unsynced
    <3>2. Dirty(ps) = {}
      BY <1>2, <3>1 DEF DirtyPages, Dirty, CacheOK
    <3>3. w = c
      BY <1>1, <1>2, <3>2, SeenClean
    <3>4. Synced(h, {}) = disk
      BY <2>2 DEF Synced
    <3> QED
      BY <1>2, <3>1, <3>3, <3>4
  <2> QED
    BY <2>1, <2>2
<1>8. SameAs(w, ps)
  BY <1>1, <1>2, PagesAsFlushed
<1> HIDE DEF w
<1> QED
  BY <1>2, <1>3, <1>5, <1>6, <1>7, <1>8

\* How a flush leaves a handle.
LEMMA FlushInternalStep ==
  ASSUME FileInv, PlainUse, NEW h \in Handles, open[h], FlushInternal(h, {}),
         pending' = [pending EXCEPT ![h] = None], UNCHANGED <<pos, size>>,
         open' \in [Handles -> BOOLEAN]
  PROVE  FileInv'
<1> DEFINE w == Wanted(h)
           ps == pages[h]
           pt == Cleaned(ps, DOMAIN ps)
<1>1. /\ w \in Seq(Byte) /\ Len(w) = size[h] /\ Flushed(h, {}) = w /\ Bad(h, {}) = FALSE
      /\ Synced(h, {}) = w /\ SameAs(w, ps)
  BY FlushFacts
<1>2. PagesOK(ps) /\ size[h] <= MaxSize
  BY HandleFacts
<1>3. \A g \in Handles : g = h
  BY DEF PlainUse
<1>4. DOMAIN ram = Handles /\ DOMAIN changed = Handles /\ DOMAIN erred = Handles
      /\ DOMAIN pages = Handles /\ DOMAIN pending = Handles
  BY DEF FileInv, FileTypeOK
<1>5. /\ disk' = w /\ flushed' = w
      /\ DOMAIN ram' = Handles /\ ram'[h] = w
      /\ DOMAIN changed' = Handles /\ changed'[h] = FALSE
      /\ DOMAIN erred' = Handles /\ erred'[h] = FALSE
  <2>1. /\ ram' = [ram EXCEPT ![h] = Flushed(h, {})]
        /\ erred' = [erred EXCEPT ![h] = Bad(h, {})]
        /\ disk' = Synced(h, {})
        /\ changed' = [changed EXCEPT ![h] = Bad(h, {}) /\ Unsynced(h, {})]
        /\ flushed' = Wanted(h)
    BY DEF FlushInternal
  <2> HIDE DEF w
  <2>2. flushed' = w
    BY <2>1 DEF w
  <2>3. (Bad(h, {}) /\ Unsynced(h, {})) = FALSE
    BY <1>1
  <2> QED
    BY <1>1, <1>4, <2>1, <2>2, <2>3
<1>6. DOMAIN pages' = Handles /\ pages'[h] = pt
  <2>1. pages' = [pages EXCEPT ![h] = [q \in DOMAIN pages[h] |-> [pages[h][q] EXCEPT !.dirty = FALSE]]]
    BY DEF FlushInternal
  <2>2. pt = [q \in DOMAIN pages[h] |-> [pages[h][q] EXCEPT !.dirty = FALSE]]
    BY DEF Cleaned
  <2> HIDE DEF pt, ps
  <2> QED
    BY <1>4, <2>1, <2>2
<1>7. DOMAIN pending' = Handles /\ pending'[h] = None
  BY <1>4
<1> HIDE DEF w
<1>8. CleanOver(w, pt)
  BY <1>1, <1>2, CleanPages DEF SameAs
<1>9. AskedOK(None) /\ Apply(w, None) = w
  BY <1>1, <1>2, ApplyNone
<1> HIDE DEF pt, ps
<1>10. FileTypeOK'
  <2>1. ram' \in [Handles -> Seq(Byte)]
    <3>1. ram' = [ram EXCEPT ![h] = Flushed(h, {})] /\ ram \in [Handles -> Seq(Byte)]
      BY DEF FlushInternal, FileInv, FileTypeOK
    <3> QED
      BY <1>1, <3>1
  <2>2. changed' \in [Handles -> BOOLEAN] /\ erred' \in [Handles -> BOOLEAN]
    <3>1. /\ erred' = [erred EXCEPT ![h] = Bad(h, {})]
          /\ changed' = [changed EXCEPT ![h] = Bad(h, {}) /\ Unsynced(h, {})]
          /\ erred \in [Handles -> BOOLEAN] /\ changed \in [Handles -> BOOLEAN]
      BY DEF FlushInternal, FileInv, FileTypeOK
    <3>2. Bad(h, {}) \in BOOLEAN /\ (Bad(h, {}) /\ Unsynced(h, {})) \in BOOLEAN
      BY <1>1
    <3> QED
      BY <3>1, <3>2
  <2>3. \A g \in Handles : PagesOK(pages'[g]) /\ AskedOK(pending'[g])
    BY <1>3, <1>6, <1>7, <1>8, <1>9 DEF CleanOver
  <2>4. pos' \in [Handles -> 0..MaxSize] /\ size' \in [Handles -> 0..MaxSize]
    BY DEF FileInv, FileTypeOK
  <2>5. disk' \in Seq(Byte) /\ Len(disk') <= MaxSize
    BY <1>1, <1>2, <1>5
  <2> QED
    BY <1>6, <1>7, <2>1, <2>2, <2>3, <2>4, <2>5 DEF FileTypeOK
<1>11. HandleOK(h)'
  <2>1. size'[h] = Len(w)
    BY <1>1
  <2>2. Wanted(h)' = w
    BY <1>5, <1>7, <1>9 DEF Wanted
  <2>3. CacheOK(w, pt, Len(w)) /\ Seen(w, pt, Len(w)) = w
    BY <1>8 DEF CleanOver
  <2> QED
    BY <1>5, <1>6, <2>1, <2>2, <2>3 DEF HandleOK
<1>12. disk' = flushed'
  BY <1>5
<1> QED
  BY <1>3, <1>10, <1>11, <1>12 DEF FileInv

\* A flush of a handle that was closed meanwhile does nothing.
LEMMA FlushStep ==
  ASSUME FileInv, PlainUse, NEW h \in Handles, Flush(h, {})
  PROVE  FileInv'
<1>1. CASE open[h]
  <2>1. /\ FlushInternal(h, {})
        /\ pending' = [pending EXCEPT ![h] = None]
        /\ UNCHANGED <<open, pos, size>>
    BY <1>1 DEF Flush
  <2>2. open' \in [Handles -> BOOLEAN]
    BY <2>1 DEF FileInv, FileTypeOK
  <2> QED
    BY <1>1, <2>1, <2>2, FlushInternalStep
<1>2. CASE ~open[h]
  <2>1. UNCHANGED contents
    BY <1>2 DEF Flush
  <2> QED
    BY <2>1, FileSame
<1> QED
  BY <1>1, <1>2

LEMMA CloseStep ==
  ASSUME FileInv, PlainUse, NEW h \in Handles, open[h], Close(h, {})
  PROVE  FileInv'
<1>1. /\ FlushInternal(h, {})
      /\ pending' = [pending EXCEPT ![h] = None]
      /\ open' = [open EXCEPT ![h] = FALSE]
      /\ UNCHANGED <<pos, size>>
  BY DEF Close
<1>2. open' \in [Handles -> BOOLEAN]
  BY <1>1 DEF FileInv, FileTypeOK
<1> QED
  BY <1>1, <1>2, FlushInternalStep

\* A change of position changes nothing else.
LEMMA MoveStep ==
  ASSUME FileInv, pos' \in [Handles -> 0..MaxSize],
         UNCHANGED <<disk, ram, changed, erred, open, pages, size, pending, flushed>>
  PROVE  FileInv'
BY DEF FileInv, FileTypeOK, HandleOK, Wanted

LEMMA SeekStep ==
  ASSUME FileInv, NEW h \in Handles, NEW p \in 0..MaxSize, Seek(h, p)
  PROVE  FileInv'
<1>1. pos' \in [Handles -> 0..MaxSize]
  BY DEF FileInv, FileTypeOK, Seek
<1> QED
  BY <1>1, MoveStep DEF Seek

LEMMA ReadStep ==
  ASSUME FileInv, NEW h \in Handles, NEW n \in Sizes, Read(h, n)
  PROVE  FileInv'
<1> DEFINE end == IF pos[h] < size[h] THEN Least(pos[h] + n, size[h]) ELSE pos[h]
           touched == {PageOf(p) : p \in pos[h]..(end - 1)}
<1>1. /\ pos[h] \in Nat /\ size[h] \in Nat /\ pos[h] <= MaxSize /\ size[h] <= MaxSize
      /\ n \in Nat /\ MaxSize \in Nat
  BY HandleFacts, Constants
<1>2. Least(pos[h] + n, size[h]) = IF pos[h] + n <= size[h] THEN pos[h] + n ELSE size[h]
  BY <1>1, LeastOfTwo
<1>3. end \in 0..MaxSize
  BY <1>1, <1>2
<1>4. \/ pos' = pos
      \/ pos' = [pos EXCEPT ![h] = end]
      \/ \E q \in touched : pos' = [pos EXCEPT ![h] = Max({pos[h], q * PageSize})]
  BY DEF Read
<1> HIDE DEF end
<1>5. ASSUME NEW q \in touched PROVE Max({pos[h], q * PageSize}) \in 0..MaxSize
  <2>1. PICK p \in pos[h]..(end - 1) : q = PageOf(p)
    OBVIOUS
  <2>2. p \in Nat /\ p < MaxSize
    BY <1>1, <1>3
  <2>3. q \in Nat /\ p % PageSize \in 0..(PageSize - 1) /\ p = q * PageSize + (p % PageSize)
    BY <2>1, <2>2, PlaceInPage
  <2>4. q * PageSize \in Nat
    BY <2>3, PagesApart
  <2>5. q * PageSize <= p /\ q * PageSize \in Int /\ pos[h] \in Int
    BY <1>1, <2>2, <2>3, <2>4, Constants
  <2>6. Max({pos[h], q * PageSize}) = IF pos[h] >= q * PageSize THEN pos[h] ELSE q * PageSize
    BY <2>5, MaxOfTwo
  <2> QED
    BY <1>1, <2>2, <2>4, <2>5, <2>6
<1>6. pos' \in [Handles -> 0..MaxSize]
  <2>1. pos \in [Handles -> 0..MaxSize]
    BY DEF FileInv, FileTypeOK
  <2> HIDE DEF touched
  <2> QED
    BY <1>3, <1>4, <1>5, <2>1
<1> QED
  BY <1>6, MoveStep DEF Read

\* A handle with clean pages over a file that has what is asked for.
LEMMA Settled ==
  ASSUME PlainUse, NEW h \in Handles, FileTypeOK', disk' = flushed',
         NEW w \in Seq(Byte), CleanOver(w, pages'[h]), ram'[h] = w, size'[h] = Len(w),
         Apply(flushed', pending'[h]) = w, ~erred'[h], ~changed'[h] => w = disk'
  PROVE  FileInv'
<1>1. \A g \in Handles : g = h
  BY DEF PlainUse
<1>2. CacheOK(w, pages'[h], Len(w)) /\ Seen(w, pages'[h], Len(w)) = w
  BY DEF CleanOver
<1>3. Wanted(h)' = w
  BY DEF Wanted
<1>4. HandleOK(h)'
  BY <1>2, <1>3 DEF HandleOK
<1> QED
  BY <1>1, <1>4 DEF FileInv

LEMMA OpenStep ==
  ASSUME FileInv, PlainUse, NEW h \in Handles, Open(h)
  PROVE  FileInv'
<1>1. disk \in Seq(Byte) /\ Len(disk) <= MaxSize /\ flushed = disk /\ PagesOK(pages[h])
  BY HandleFacts
<1>2. \A g \in Handles : g = h
  BY DEF PlainUse
<1>3. Len(disk) \in 0..MaxSize /\ 0 \in 0..MaxSize
  BY <1>1, Constants
<1>4. AskedOK(None) /\ Apply(disk, None) = disk
  BY <1>1, ApplyNone
<1> DEFINE pt == Cleaned(pages[h], {})
<1>5. CleanOver(disk, pt)
  <2>1. {} \in SUBSET DOMAIN pages[h] /\ \A p \in Nat : PageOf(p) \in {} => PageByte(pages[h], p) = ByteOf(disk, p)
    OBVIOUS
  <2> QED
    BY <1>1, <2>1, CleanPages
<1>6. pt = [q \in {} |-> <<>>]
  BY DEF Cleaned
<1> HIDE DEF pt
<1>7. /\ ram' = [ram EXCEPT ![h] = disk] /\ changed' = [changed EXCEPT ![h] = FALSE]
      /\ erred' = [erred EXCEPT ![h] = FALSE] /\ open' = [open EXCEPT ![h] = TRUE]
      /\ pages' = [pages EXCEPT ![h] = pt] /\ pos' = [pos EXCEPT ![h] = 0]
      /\ size' = [size EXCEPT ![h] = Len(disk)] /\ pending' = [pending EXCEPT ![h] = None]
      /\ disk' = disk /\ flushed' = flushed
  BY <1>6, Zenon DEF Open
<1>8. FileTypeOK
  BY DEF FileInv
<1>9. /\ ram'[h] = disk /\ changed'[h] = FALSE /\ erred'[h] = FALSE /\ pages'[h] = pt
      /\ size'[h] = Len(disk) /\ pending'[h] = None
      /\ DOMAIN pages' = Handles /\ DOMAIN pending' = Handles
  BY <1>7, <1>8 DEF FileTypeOK
<1>10. PagesOK(pages'[h]) /\ AskedOK(pending'[h])
  BY <1>4, <1>5, <1>9 DEF CleanOver
<1>11. \A g \in Handles : PagesOK(pages'[g]) /\ AskedOK(pending'[g])
  BY <1>2, <1>10
<1>12. FileTypeOK'
  <2>1. /\ ram' \in [Handles -> Seq(Byte)] /\ changed' \in [Handles -> BOOLEAN]
        /\ erred' \in [Handles -> BOOLEAN] /\ open' \in [Handles -> BOOLEAN]
        /\ pos' \in [Handles -> 0..MaxSize] /\ size' \in [Handles -> 0..MaxSize]
    BY <1>1, <1>3, <1>7, <1>8 DEF FileTypeOK
  <2> QED
    BY <1>1, <1>7, <1>9, <1>11, <2>1 DEF FileTypeOK
<1>13. Apply(flushed', pending'[h]) = disk
  BY <1>1, <1>4, <1>7, <1>9
<1> QED
  BY <1>1, <1>5, <1>7, <1>9, <1>12, <1>13, Settled

LEMMA CrashStep ==
  ASSUME FileInv, Crash
  PROVE  FileInv'
<1>1. /\ open' = [h \in Handles |-> FALSE] /\ pending' = [h \in Handles |-> None]
      /\ ram' = [h \in Handles |-> <<>>] /\ changed' = [h \in Handles |-> FALSE]
      /\ erred' = [h \in Handles |-> FALSE] /\ pages' = [h \in Handles |-> [q \in {} |-> <<>>]]
      /\ pos' = [h \in Handles |-> 0] /\ size' = [h \in Handles |-> 0]
      /\ disk' = disk /\ flushed' = flushed
  BY DEF Crash
<1>2. disk \in Seq(Byte) /\ Len(disk) <= MaxSize /\ disk = flushed
  BY DEF FileInv, FileTypeOK
<1>3. AskedOK(None)
  BY <1>2, ApplyNone
<1>4. PagesOK([q \in {} |-> <<>>])
  BY DEF PagesOK
<1>5. <<>> \in Seq(Byte) /\ 0 \in 0..MaxSize
  BY Constants
<1>6. /\ ram' \in [Handles -> Seq(Byte)] /\ changed' \in [Handles -> BOOLEAN]
      /\ erred' \in [Handles -> BOOLEAN] /\ open' \in [Handles -> BOOLEAN]
      /\ pos' \in [Handles -> 0..MaxSize] /\ size' \in [Handles -> 0..MaxSize]
  BY <1>1, <1>5
<1>7. /\ DOMAIN pages' = Handles /\ \A h \in Handles : PagesOK(pages'[h])
      /\ DOMAIN pending' = Handles /\ \A h \in Handles : AskedOK(pending'[h])
  BY <1>1, <1>3, <1>4
<1>8. FileTypeOK'
  BY <1>1, <1>2, <1>6, <1>7 DEF FileTypeOK
<1>9. \A h \in Handles : ~open'[h]
  BY <1>1
<1> QED
  BY <1>1, <1>2, <1>8, <1>9 DEF FileInv

\* A cut at the end of a page: the file is flushed, and then cut.
LEMMA TruncateStep ==
  ASSUME FileInv, PlainUse, NEW h \in Handles, open[h], NEW n \in Truncations, Truncate(h, n, {})
  PROVE  FileInv'
<1> DEFINE f == Wanted(h)
           ps == pages[h]
           kept == {q \in DOMAIN ps : q * PageSize < n}
           pt == Cleaned(ps, kept)
           r == Resize(f, n)
<1>1. /\ f \in Seq(Byte) /\ Len(f) = size[h] /\ Flushed(h, {}) = f /\ Bad(h, {}) = FALSE
      /\ Synced(h, {}) = f /\ SameAs(f, ps)
  BY FlushFacts
<1>2. PagesOK(ps) /\ size[h] <= MaxSize /\ pos[h] \in Nat /\ pos[h] <= MaxSize
  BY HandleFacts
<1>3. n \in 0..MaxSize /\ n \in Nat /\ n % PageSize = 0 /\ MaxSize \in Nat
  BY Constants DEF PlainUse
<1>4. \A g \in Handles : g = h
  BY DEF PlainUse
<1>5. /\ disk' = Synced(h, {})
      /\ ram' = [ram EXCEPT ![h] = Resize(Flushed(h, {}), n)]
      /\ erred' = [erred EXCEPT ![h] = Bad(h, {}) /\ n <= Len(Flushed(h, {}))]
      /\ changed' = [changed EXCEPT ![h] = (Bad(h, {}) /\ Unsynced(h, {})) \/ n # Len(Flushed(h, {}))]
      /\ pages' = [pages EXCEPT ![h] = pt]
      /\ size' = [size EXCEPT ![h] = n]
      /\ pos' = [pos EXCEPT ![h] = Least(pos[h], n)]
      /\ flushed' = f
      /\ pending' = [pending EXCEPT ![h] = ThenResize(None, Len(f), n)]
      /\ open' = open
  BY Zenon DEF Truncate, Cleaned
<1> HIDE DEF f, pt, r
<1>6. /\ disk' = f
      /\ ram' = [ram EXCEPT ![h] = r]
      /\ erred' = [erred EXCEPT ![h] = FALSE]
      /\ changed' = [changed EXCEPT ![h] = n # Len(f)]
  <2>1. (Bad(h, {}) /\ n <= Len(Flushed(h, {}))) = FALSE
    BY <1>1
  <2>2. ((Bad(h, {}) /\ Unsynced(h, {})) \/ n # Len(Flushed(h, {}))) = (n # Len(f))
    BY <1>1
  <2>3. Resize(Flushed(h, {}), n) = r
    BY <1>1 DEF r
  <2> QED
    BY <1>1, <1>5, <2>1, <2>2, <2>3
<1>7. r \in Seq(Byte) /\ Len(r) = n /\ (n = Len(f) => r = f)
  BY <1>1, <1>3, ResizeProperties DEF r
<1>8. CleanOver(r, pt)
  <2>1. \A p \in Nat : PageOf(p) \in kept => PageByte(ps, p) = ByteOf(Resize(f, n), p)
    BY <1>1, <1>2, <1>3, PagesAsCut
  <2>2. \A p \in Nat : PageOf(p) \in kept => PageByte(ps, p) = ByteOf(r, p)
    BY <2>1 DEF r
  <2>3. kept \in SUBSET DOMAIN ps
    OBVIOUS
  <2> HIDE DEF kept, ps
  <2>4. CleanOver(r, Cleaned(ps, kept))
    BY <1>2, <1>7, <2>2, <2>3, CleanPages
  <2> QED
    BY <2>4 DEF pt
<1>9. AskedOK(ThenResize(None, Len(f), n)) /\ Apply(f, ThenResize(None, Len(f), n)) = r
  BY <1>1, <1>2, <1>3, ApplyResize DEF r
<1>10. FileTypeOK
  BY DEF FileInv
<1>11. /\ ram'[h] = r /\ erred'[h] = FALSE /\ changed'[h] = (n # Len(f)) /\ pages'[h] = pt
       /\ size'[h] = n /\ pending'[h] = ThenResize(None, Len(f), n)
       /\ DOMAIN pages' = Handles /\ DOMAIN pending' = Handles
  BY <1>5, <1>6, <1>10 DEF FileTypeOK
<1>12. Least(pos[h], n) \in 0..MaxSize
  <2>1. Least(pos[h], n) = IF pos[h] <= n THEN pos[h] ELSE n
    BY <1>2, <1>3, LeastOfTwo
  <2> QED
    BY <1>2, <1>3, <2>1
<1>13. FileTypeOK'
  <2>1. /\ ram' \in [Handles -> Seq(Byte)] /\ changed' \in [Handles -> BOOLEAN]
        /\ erred' \in [Handles -> BOOLEAN] /\ open' \in [Handles -> BOOLEAN]
        /\ pos' \in [Handles -> 0..MaxSize] /\ size' \in [Handles -> 0..MaxSize]
    BY <1>3, <1>5, <1>6, <1>7, <1>10, <1>12 DEF FileTypeOK
  <2>2. PagesOK(pages'[h]) /\ AskedOK(pending'[h])
    BY <1>8, <1>9, <1>11 DEF CleanOver
  <2>3. \A g \in Handles : PagesOK(pages'[g]) /\ AskedOK(pending'[g])
    BY <1>4, <2>2
  <2>4. disk' \in Seq(Byte) /\ Len(disk') <= MaxSize
    BY <1>1, <1>2, <1>6
  <2> QED
    BY <1>11, <2>1, <2>3, <2>4 DEF FileTypeOK
<1>14. Apply(flushed', pending'[h]) = r /\ disk' = flushed'
  BY <1>5, <1>6, <1>9, <1>11
<1>15. ~changed'[h] => r = disk'
  BY <1>6, <1>7, <1>11
<1> QED
  BY <1>7, <1>8, <1>11, <1>13, <1>14, <1>15, Settled

\* The pages that VFSFileObject::write leaves are those of WrittenPages.
LEMMA PagesWritten ==
  ASSUME FileInv, PlainUse, NEW h \in Handles, NEW n \in Sizes, NEW v \in Values, Write(h, n, v, {}),
         ~UNCHANGED contents
  PROVE  /\ pages' = [pages EXCEPT ![h] = WrittenPages(ram[h], pages[h], pos[h], n, v)]
         /\ pos' = [pos EXCEPT ![h] = pos[h] + n]
         /\ size' = [size EXCEPT ![h] = Max({size[h], pos[h] + n})]
         /\ pending' = [pending EXCEPT ![h] = ThenWrite(pending[h], pos[h], n, v)]
         /\ UNCHANGED <<disk, ram, changed, erred, open, flushed>>
<1> DEFINE c == ram[h]
           ps == pages[h]
           hit == pos[h]..(pos[h] + n - 1)
           qs == {PageOf(p) : p \in hit}
           Base(q) == IF q \in DOMAIN ps THEN ps[q].data
                      ELSE IF q \in {} THEN Blank.data ELSE Loaded(h, q).data
           Hit(q, i) == q * PageSize + i - 1 \in hit
           new == [q \in qs |-> [data |-> [i \in 1..PageSize |-> IF Hit(q, i) THEN v ELSE Base(q)[i]],
                                 dirty |-> TRUE]]
<1>1. /\ pages' = [pages EXCEPT ![h] = Over(new, ps)]
      /\ pos' = [pos EXCEPT ![h] = pos[h] + n]
      /\ size' = [size EXCEPT ![h] = Max({size[h], pos[h] + n})]
      /\ pending' = [pending EXCEPT ![h] = ThenWrite(pending[h], pos[h], n, v)]
      /\ UNCHANGED <<disk, ram, changed, erred, open, flushed>>
  BY Zenon DEF Write, contents, handle, PlainUse
<1>2. hit \subseteq Nat
  BY HandleFacts, Constants
<1>3. qs \subseteq Nat
  BY <1>2, PlaceInPage
<1>4. ASSUME NEW q \in qs, NEW i \in 1..PageSize
      PROVE  (IF Hit(q, i) THEN v ELSE Base(q)[i])
             = (IF q * PageSize + i - 1 \in hit THEN v
                ELSE IF q \in DOMAIN ps THEN ps[q].data[i] ELSE ByteOf(c, q * PageSize + i - 1))
  <2>1. q \in Nat /\ q * PageSize \in Nat
    BY <1>3, PagesApart
  <2>2. Len(c) \in Nat
    BY HandleFacts
  <2>3. Loaded(h, q).data[i] = IF q * PageSize + i <= Len(c) THEN c[q * PageSize + i] ELSE Zero
    BY DEF Loaded
  <2>4. (q * PageSize + i - 1) + 1 = q * PageSize + i
        /\ (q * PageSize + i <= Len(c) <=> q * PageSize + i - 1 < Len(c))
    BY <2>1, <2>2
  <2> HIDE DEF c, ps, hit, qs
  <2>5. ByteOf(c, q * PageSize + i - 1) = Loaded(h, q).data[i]
    BY <2>3, <2>4 DEF ByteOf
  <2> QED
    BY <2>5
<1>5. new = [q \in qs |-> [data |-> [i \in 1..PageSize |->
                IF q * PageSize + i - 1 \in hit THEN v
                ELSE IF q \in DOMAIN ps THEN ps[q].data[i] ELSE ByteOf(c, q * PageSize + i - 1)],
                           dirty |-> TRUE]]
  <2> DEFINE A(q, i) == IF Hit(q, i) THEN v ELSE Base(q)[i]
             B(q, i) == IF q * PageSize + i - 1 \in hit THEN v
                        ELSE IF q \in DOMAIN ps THEN ps[q].data[i] ELSE ByteOf(c, q * PageSize + i - 1)
  <2>1. \A q \in qs, i \in 1..PageSize : A(q, i) = B(q, i)
    BY <1>4
  <2> HIDE DEF qs, A, B
  <2>2. [q \in qs |-> [data |-> [i \in 1..PageSize |-> A(q, i)], dirty |-> TRUE]]
        = [q \in qs |-> [data |-> [i \in 1..PageSize |-> B(q, i)], dirty |-> TRUE]]
    BY <2>1
  <2> QED
    BY <2>2, Zenon DEF A, B
<1>6. Over(new, ps) = WrittenPages(c, ps, pos[h], n, v)
  BY <1>5, Zenon DEF WrittenPages
<1> HIDE DEF new
<1> QED
  BY <1>1, <1>6

LEMMA WriteStep ==
  ASSUME FileInv, PlainUse, NEW h \in Handles, NEW n \in Sizes, NEW v \in Values,
         pos[h] + n <= MaxSize, Write(h, n, v, {})
  PROVE  FileInv'
<1> DEFINE c == ram[h]
           ps == pages[h]
           m == size[h]
           p == pos[h]
           e == IF m >= p + n THEN m ELSE p + n
           pt == WrittenPages(c, ps, p, n, v)
           a == pending[h]
<1>1. CASE UNCHANGED contents
  BY <1>1, FileSame
<1>2. CASE ~UNCHANGED contents
  <2>1. /\ c \in Seq(Byte) /\ PagesOK(ps) /\ AskedOK(a) /\ m \in Nat /\ m <= MaxSize
        /\ p \in Nat /\ disk \in Seq(Byte) /\ flushed = disk
    BY HandleFacts
  <2>2. n \in Nat /\ n >= 1 /\ v \in Byte /\ MaxSize \in Nat /\ p + n <= MaxSize
    BY Constants DEF Byte
  <2>3. e \in Nat /\ e <= MaxSize /\ p + n \in Nat /\ p + n <= MaxSize
    BY <2>1, <2>2
  <2>4. Max({m, p + n}) = e
    BY <2>1, <2>3, MaxOfTwo
  <2>5. /\ pages' = [pages EXCEPT ![h] = pt]
        /\ pos' = [pos EXCEPT ![h] = p + n]
        /\ size' = [size EXCEPT ![h] = e]
        /\ pending' = [pending EXCEPT ![h] = ThenWrite(a, p, n, v)]
        /\ UNCHANGED <<disk, ram, changed, erred, open, flushed>>
    <3> HIDE DEF e, pt
    <3> QED
      BY <1>2, <2>4, PagesWritten DEF pt
  <2>6. WrittenAs(pt, c, ps, p, n, v)
    BY <2>1, <2>2, WrittenBytes
  <2>7. AskedOK(ThenWrite(a, p, n, v))
        /\ Apply(flushed, ThenWrite(a, p, n, v)) = Patched(Apply(flushed, a), p, n, v)
    BY <2>1, <2>2, ApplyWrite
  <2>8. PagesOK(pt)
    BY <2>6 DEF WrittenAs
  <2>9. FileTypeOK
    BY DEF FileInv
  <2>10. \A g \in Handles : g = h
    BY DEF PlainUse
  <2> HIDE DEF pt
  <2>11. /\ pages'[h] = pt /\ size'[h] = e /\ pending'[h] = ThenWrite(a, p, n, v)
         /\ DOMAIN pages' = Handles /\ DOMAIN pending' = Handles
    <3> HIDE DEF e
    <3> QED
      BY <2>5, <2>9 DEF FileTypeOK
  <2>12. FileTypeOK'
    <3>1. pos' \in [Handles -> 0..MaxSize] /\ size' \in [Handles -> 0..MaxSize]
      <4>1. e \in 0..MaxSize /\ p + n \in 0..MaxSize
        BY <2>3
      <4> HIDE DEF e, p
      <4> QED
        BY <2>5, <2>9, <4>1 DEF FileTypeOK
    <3>2. PagesOK(pages'[h]) /\ AskedOK(pending'[h])
      BY <2>7, <2>8, <2>11
    <3>3. \A g \in Handles : PagesOK(pages'[g]) /\ AskedOK(pending'[g])
      BY <2>10, <3>2
    <3> QED
      BY <2>5, <2>9, <2>11, <3>1, <3>3 DEF FileTypeOK
  <2>13. ASSUME open'[h] PROVE HandleOK(h)'
    <3>1. HandleOK(h)
      BY <2>5, <2>13 DEF FileInv
    <3>2. CacheOK(c, ps, m) /\ Wanted(h) = Seen(c, ps, m) /\ ~erred[h] /\ (~changed[h] => c = disk)
      BY <3>1 DEF HandleOK
    <3>3. e = IF m >= p + n THEN m ELSE p + n
      OBVIOUS
    <3> HIDE DEF e, c, ps, m, p, a
    <3>4. CacheOK(c, pt, e)
      BY <2>1, <2>2, <2>6, <3>2, <3>3, WriteKeepsCache
    <3>5. Seen(c, pt, e) = Patched(Seen(c, ps, m), p, n, v)
      BY <2>1, <2>2, <2>6, <3>2, <3>3, WritePatches
    <3>6. Wanted(h) = Apply(flushed, a)
      BY DEF Wanted, a
    <3>7. Wanted(h)' = Seen(c, pt, e)
      <4>1. Wanted(h)' = Apply(flushed, ThenWrite(a, p, n, v))
        BY <2>5, <2>11 DEF Wanted
      <4> QED
        BY <2>7, <3>2, <3>5, <3>6, <4>1
    <3>8. ram'[h] = c /\ changed'[h] = changed[h] /\ erred'[h] = erred[h] /\ disk' = disk
      BY <2>5 DEF c
    <3> QED
      BY <2>11, <3>2, <3>4, <3>7, <3>8 DEF HandleOK
  <2>14. disk' = flushed'
    BY <2>1, <2>5
  <2> QED
    BY <2>10, <2>12, <2>13, <2>14 DEF FileInv
<1> QED
  BY <1>1, <1>2

-----------------------------------------------------------------------------
(* The calls under the mutex *)

\* Who is in a call under the mutex holds it.
LEMMA HoldersOwn ==
  ASSUME MutexInv
  PROVE  /\ owner \in Threads \cup {NoThread} /\ DOMAIN pc = Threads
         /\ \A t \in Threads : pc[t] \in {"held", "core"} <=> t = owner
BY DEF MutexInv, MutexTypeOK, HeldByOwner, Held

\* A thread without the mutex has only decided what it calls.
LEMMA WaitingOK ==
  ASSUME NEW t \in Threads, CallOK(t), pc[t] \notin {"held", "core"},
         pc'[t] = pc[t], op'[t] = op[t]
  PROVE  CallOK(t)'
<1>1. pc'[t] # "idle" => op'[t].kind \in Kinds /\ op'[t].h \in Handles
  BY DEF CallOK
<1>2. pc'[t] # "held" /\ pc'[t] # "core"
  OBVIOUS
<1>3. pc'[t] \notin {"held", "core"}
  OBVIOUS
<1>4. Kinds' = Kinds
  BY DEF Kinds
<1> HIDE DEF Kinds
<1> QED
  BY <1>1, <1>2, <1>3, <1>4, Zenon DEF CallOK

LEMMA CallSame ==
  ASSUME NEW t \in Threads, CallOK(t), pc'[t] = pc[t], op'[t] = op[t],
         UNCHANGED <<arg, todo, pos, open, listed>>
  PROVE  CallOK(t)'
BY DEF CallOK

LEMMA EnterCalls ==
  ASSUME IInv, NEW t \in Threads, NEW kind \in Kinds, NEW h \in Handles, Enter(t, kind, h)
  PROVE  CallsOK'
<1>1. DOMAIN pc = Threads /\ pc[t] = "idle"
  BY HoldersOwn DEF IInv, Enter, M!Enter
<1>2. CallsOK
  BY DEF IInv
<1>3. /\ pc' = [pc EXCEPT ![t] = "entering"]
      /\ op' = [op EXCEPT ![t] = [kind |-> kind, h |-> h]]
      /\ UNCHANGED <<arg, todo, listed, pos, open>>
  BY DEF Enter, M!Enter, contents, handle
<1>4. /\ pc'[t] = "entering" /\ op'[t].kind = kind /\ op'[t].h = h
      /\ DOMAIN op' = Threads
      /\ \A s \in Threads \ {t} : pc'[s] = pc[s] /\ op'[s] = op[s]
  BY <1>1, <1>2, <1>3 DEF CallsOK
<1>5. CallOK(t)'
  BY <1>4 DEF CallOK
<1>6. ASSUME NEW s \in Threads \ {t} PROVE CallOK(s)'
  BY <1>2, <1>3, <1>4, CallSame DEF CallsOK
<1> QED
  BY <1>2, <1>3, <1>4, <1>5, <1>6 DEF CallsOK

\* What a call is given, by its kind.
LEMMA ArgsFit ==
  ASSUME FileInv, NEW c, c.kind \in Kinds, c.h \in Handles, NEW a \in Args(c)
  PROVE  /\ c.kind = "write" /\ a # NoArg =>
              a.n \in Sizes /\ a.v \in Values /\ pos[c.h] + a.n <= MaxSize
         /\ c.kind = "read" => a.n \in Sizes
         /\ c.kind = "seek" => a.n \in 0..MaxSize
         /\ c.kind = "truncate" => a.n \in Truncations
<1>1. ASSUME c.kind = "write", a # NoArg
      PROVE  a.n \in Sizes /\ a.v \in Values /\ pos[c.h] + a.n <= MaxSize
  <2>1. a \in IF Fitting(c.h) = {} THEN {NoArg} ELSE [n : Fitting(c.h), v : Values]
    BY <1>1 DEF Args
  <2>2. a \in [n : Fitting(c.h), v : Values]
    BY <1>1, <2>1
  <2>3. a.n \in Fitting(c.h) /\ a.v \in Values
    BY <2>2
  <2> QED
    BY <2>3 DEF Fitting
<1>2. ASSUME c.kind = "read" PROVE a.n \in Sizes
  <2>1. a \in [n : Sizes, v : {Zero}]
    BY <1>2 DEF Args
  <2> QED
    BY <2>1
<1>3. ASSUME c.kind = "seek" PROVE a.n \in 0..MaxSize
  <2>1. a \in [n : 0..(IF Gaps THEN MaxSize ELSE size[c.h]), v : {Zero}]
    BY <1>3 DEF Args
  <2>2. a.n \in 0..(IF Gaps THEN MaxSize ELSE size[c.h])
    BY <2>1
  <2>3. size[c.h] \in Nat /\ size[c.h] <= MaxSize /\ MaxSize \in Nat
    BY HandleFacts, Constants
  <2> QED
    BY <2>2, <2>3
<1>4. ASSUME c.kind = "truncate" PROVE a.n \in Truncations
  <2>1. a \in [n : Truncations, v : {Zero}]
    BY <1>4 DEF Args
  <2> QED
    BY <2>1
<1> QED
  BY <1>1, <1>2, <1>3, <1>4

LEMMA CoreCallsCounted ==
  ASSUME NEW c, c.kind \in Kinds, NEW a
  PROVE  CoreCalls(c, a) \in Int /\ (c.kind \in {"truncate", "close"} => CoreCalls(c, a) = 1)
<1>1. c.kind \in {"read", "seek", "write", "truncate", "flush", "close"}
  BY DEF Kinds
<1> QED
  BY <1>1 DEF CoreCalls

LEMMA LockCalls ==
  ASSUME IInv, NEW t \in Threads, Lock(t)
  PROVE  CallsOK'
<1>1. /\ DOMAIN pc = Threads /\ pc[t] = "entering" /\ owner \in {NoThread, t}
      /\ pc' = [pc EXCEPT ![t] = "held"]
  BY HoldersOwn DEF IInv, Lock, M!Lock, M!Acquire
<1>2. CallsOK /\ FileInv
  BY DEF IInv
<1>3. UNCHANGED <<op, listed, pos, open>>
  BY DEF Lock, contents, handle
<1>4. PICK a \in Args(op[t]) : /\ arg' = [arg EXCEPT ![t] = a]
                               /\ todo' = [todo EXCEPT ![t] = CoreCalls(op[t], a)]
  BY DEF Lock
<1>5. op[t].kind \in Kinds /\ op[t].h \in Handles
  BY <1>1, <1>2 DEF CallsOK, CallOK
<1>6. CoreCalls(op[t], a) \in Int
      /\ (op[t].kind \in {"truncate", "close"} => CoreCalls(op[t], a) = 1)
  BY <1>5, CoreCallsCounted
<1>7. /\ pc'[t] = "held" /\ arg'[t] = a /\ todo'[t] = CoreCalls(op[t], a)
      /\ DOMAIN arg' = Threads /\ todo' \in [Threads -> Int]
      /\ \A s \in Threads \ {t} : pc'[s] = pc[s]
  BY <1>1, <1>2, <1>4, <1>6 DEF CallsOK
<1>8. CallOK(t)'
  <2>1. op'[t] = op[t] /\ pos' = pos /\ op'[t].kind \in Kinds /\ op'[t].h \in Handles
    BY <1>3, <1>5
  <2>2. /\ op[t].kind = "write" /\ a # NoArg =>
             a.n \in Sizes /\ a.v \in Values /\ pos[op[t].h] + a.n <= MaxSize
        /\ op[t].kind = "read" => a.n \in Sizes
        /\ op[t].kind = "seek" => a.n \in 0..MaxSize
        /\ op[t].kind = "truncate" => a.n \in Truncations
    BY <1>2, <1>5, ArgsFit
  <2> QED
    BY <1>6, <1>7, <2>1, <2>2 DEF CallOK
<1>9. ASSUME NEW s \in Threads \ {t} PROVE CallOK(s)'
  <2>1. pc[s] \notin {"held", "core"}
    BY <1>1, HoldersOwn, SharedAssumption DEF IInv
  <2> QED
    BY <1>2, <1>3, <1>7, <2>1, WaitingOK DEF CallsOK
<1> QED
  BY <1>2, <1>3, <1>7, <1>8, <1>9 DEF CallsOK

LEMMA EnterCoreCalls ==
  ASSUME IInv, NEW t \in Threads, EnterCore(t)
  PROVE  CallsOK'
<1>1. DOMAIN pc = Threads /\ pc[t] = "held" /\ owner = t /\ todo[t] > 0
  BY HoldersOwn DEF IInv, EnterCore
<1>2. CallsOK
  BY DEF IInv
<1>3. UNCHANGED <<op, arg, todo, listed, pos, open>>
  BY DEF EnterCore, contents, handle
<1>4. CASE listed[op[t].h]
  <2>1. pc' = [pc EXCEPT ![t] = "core"]
    BY <1>4 DEF EnterCore, M!EnterCore, M!Acquire
  <2>2. pc'[t] = "core" /\ \A s \in Threads \ {t} : pc'[s] = pc[s]
    BY <1>1, <2>1
  <2>3. op[t].kind \in Kinds /\ op[t].h \in Handles
    BY <1>1, <1>2 DEF CallsOK, CallOK
  <2>4. open[op[t].h]
    BY <1>2, <1>4, <2>3 DEF CallsOK
  <2>5. op[t].kind \in {"truncate", "close"} => todo[t] = 1
    BY <1>1, <1>2 DEF CallsOK, CallOK
  <2>6. /\ op[t].kind = "write" /\ arg[t] # NoArg =>
             arg[t].n \in Sizes /\ arg[t].v \in Values /\ pos[op[t].h] + arg[t].n <= MaxSize
        /\ op[t].kind = "read" => arg[t].n \in Sizes
        /\ op[t].kind = "seek" => arg[t].n \in 0..MaxSize
        /\ op[t].kind = "truncate" => arg[t].n \in Truncations
    BY <1>1, <1>2 DEF CallsOK, CallOK
  <2>7. CallOK(t)'
    BY <1>3, <2>2, <2>3, <2>4, <2>5, <2>6 DEF CallOK
  <2>8. ASSUME NEW s \in Threads \ {t} PROVE CallOK(s)'
    BY <1>2, <1>3, <2>2, CallSame DEF CallsOK
  <2> QED
    BY <1>2, <1>3, <2>7, <2>8 DEF CallsOK
<1>5. CASE ~listed[op[t].h]
  <2>1. pc' = pc
    BY <1>5 DEF EnterCore, mutex
  <2>2. ASSUME NEW s \in Threads PROVE CallOK(s)'
    BY <1>2, <1>3, <2>1, CallSame DEF CallsOK
  <2> QED
    BY <1>2, <1>3, <2>2 DEF CallsOK
<1> QED
  BY <1>4, <1>5

LEMMA LeaveCoreCalls ==
  ASSUME IInv, NEW t \in Threads, LeaveCore(t)
  PROVE  CallsOK'
<1>1. DOMAIN pc = Threads /\ pc[t] = "core" /\ owner = t
  BY HoldersOwn DEF IInv, LeaveCore, M!LeaveCore
<1>2. CallsOK
  BY DEF IInv
<1>3. /\ UNCHANGED <<op, arg, pos, open>>
      /\ pc' = [pc EXCEPT ![t] = "held"]
      /\ todo' = [todo EXCEPT ![t] = todo[t] - 1]
      /\ listed' = IF op[t].kind = "close" /\ todo[t] = 1 THEN [listed EXCEPT ![op[t].h] = FALSE] ELSE listed
  BY DEF LeaveCore, M!LeaveCore, M!Release, contents, handle
<1>4. todo \in [Threads -> Int] /\ listed \in [Handles -> BOOLEAN]
  BY <1>2 DEF CallsOK
<1>5. /\ pc'[t] = "held" /\ todo'[t] = todo[t] - 1 /\ todo' \in [Threads -> Int]
      /\ \A s \in Threads \ {t} : pc'[s] = pc[s]
  BY <1>1, <1>3, <1>4
<1>6. op[t].kind \in Kinds /\ op[t].h \in Handles
      /\ (op[t].kind \in {"truncate", "close"} => todo[t] = 1 /\ open[op[t].h])
  BY <1>1, <1>2 DEF CallsOK, CallOK
<1>7. /\ listed' \in [Handles -> BOOLEAN]
      /\ \A h \in Handles : listed'[h] => listed[h]
      /\ op[t].kind = "close" => ~listed'[op[t].h]
  BY <1>3, <1>4, <1>6
<1>8. CallOK(t)'
  <2>1. /\ op[t].kind = "write" /\ arg[t] # NoArg =>
             arg[t].n \in Sizes /\ arg[t].v \in Values /\ pos[op[t].h] + arg[t].n <= MaxSize
        /\ op[t].kind = "read" => arg[t].n \in Sizes
        /\ op[t].kind = "seek" => arg[t].n \in 0..MaxSize
        /\ op[t].kind = "truncate" => arg[t].n \in Truncations
    BY <1>1, <1>2 DEF CallsOK, CallOK
  <2>2. op[t].kind \in {"truncate", "close"} => todo'[t] = 0 /\ open'[op[t].h]
    BY <1>3, <1>5, <1>6
  <2> QED
    BY <1>3, <1>5, <1>6, <1>7, <2>1, <2>2 DEF CallOK
<1>9. ASSUME NEW s \in Threads \ {t} PROVE CallOK(s)'
  <2>1. pc[s] \notin {"held", "core"}
    BY <1>1, HoldersOwn DEF IInv
  <2> QED
    BY <1>2, <1>3, <1>5, <2>1, WaitingOK DEF CallsOK
<1> QED
  BY <1>2, <1>3, <1>5, <1>7, <1>8, <1>9 DEF CallsOK

\* What a call does keeps the contents right, and opens or closes no handle but
\* a closing one's.
LEMMA WorkDone ==
  ASSUME IInv, PlainUse, NEW t \in Threads, pc[t] = "held", todo[t] = 0, Work(op[t], arg[t], {})
  PROVE  /\ FileInv'
         /\ \A h \in Handles : open[h] /\ listed[h] => open'[h]
<1> DEFINE h == op[t].h
           a == arg[t]
<1>1. /\ FileInv /\ op[t].kind \in Kinds /\ h \in Handles
      /\ op[t].kind = "write" /\ a # NoArg =>
           a.n \in Sizes /\ a.v \in Values /\ pos[h] + a.n <= MaxSize
      /\ op[t].kind = "read" => a.n \in Sizes
      /\ op[t].kind = "seek" => a.n \in 0..MaxSize
      /\ op[t].kind = "truncate" => a.n \in Truncations
      /\ op[t].kind \in {"truncate", "close"} => open[h]
      /\ op[t].kind = "close" => ~listed[h]
  BY DEF IInv, CallsOK, CallOK
<1>2. op[t].kind \in {"read", "seek", "write", "truncate", "flush", "close"}
  BY <1>1 DEF Kinds
<1>3. open \in [Handles -> BOOLEAN]
  BY <1>1 DEF FileInv, FileTypeOK
<1>4. CASE op[t].kind = "write" /\ a # NoArg
  <2>1. Write(h, a.n, a.v, {})
    BY <1>4 DEF Work
  <2>2. open' = open
    BY <2>1 DEF Write
  <2> QED
    BY <1>1, <1>4, <2>1, <2>2, WriteStep
<1>5. CASE op[t].kind = "write" /\ a = NoArg
  <2>1. UNCHANGED contents
    BY <1>5 DEF Work
  <2>2. open' = open
    BY <2>1 DEF contents, handle
  <2> QED
    BY <1>1, <2>1, <2>2, FileSame
<1>6. CASE op[t].kind = "read"
  <2>1. Read(h, a.n)
    BY <1>6 DEF Work
  <2>2. open' = open
    BY <2>1 DEF Read
  <2> QED
    BY <1>1, <1>6, <2>1, <2>2, ReadStep
<1>7. CASE op[t].kind = "seek"
  <2>1. Seek(h, a.n)
    BY <1>7 DEF Work
  <2>2. open' = open
    BY <2>1 DEF Seek
  <2> QED
    BY <1>1, <1>7, <2>1, <2>2, SeekStep
<1>8. CASE op[t].kind = "truncate"
  <2>1. Truncate(h, a.n, {}) \/ TruncateFails(h, a.n, {})
    BY <1>8 DEF Work
  <2>2. CASE Truncate(h, a.n, {})
    <3>1. open' = open
      BY <2>2 DEF Truncate
    <3> QED
      BY <1>1, <1>8, <2>2, <3>1, TruncateStep
  <2>3. CASE TruncateFails(h, a.n, {})
    <3>1. Flush(h, {})
      BY <2>3 DEF TruncateFails, PlainUse
    <3>2. open' = open
      BY <3>1 DEF Flush, contents, handle
    <3> QED
      BY <1>1, <3>1, <3>2, FlushStep
  <2> QED
    BY <2>1, <2>2, <2>3
<1>9. CASE op[t].kind = "flush"
  <2>1. Flush(h, {})
    BY <1>9 DEF Work
  <2>2. open' = open
    BY <2>1 DEF Flush, contents, handle
  <2> QED
    BY <1>1, <2>1, <2>2, FlushStep
<1>10. CASE op[t].kind = "close"
  <2>1. Close(h, {})
    BY <1>10 DEF Work
  <2>2. open' = [open EXCEPT ![h] = FALSE]
    BY <2>1 DEF Close
  <2>3. \A g \in Handles : open[g] /\ listed[g] => open'[g]
    BY <1>1, <1>3, <1>10, <2>2
  <2> QED
    BY <1>1, <1>10, <2>1, <2>3, CloseStep
<1> QED
  BY <1>2, <1>4, <1>5, <1>6, <1>7, <1>8, <1>9, <1>10

LEMMA ReturnStep ==
  ASSUME IInv, PlainUse, NEW t \in Threads, Return(t)
  PROVE  FileInv' /\ CallsOK'
<1>1. /\ DOMAIN pc = Threads /\ pc[t] = "held" /\ owner = t /\ todo[t] = 0
      /\ pc' = [pc EXCEPT ![t] = "idle"]
  BY HoldersOwn DEF IInv, Return, M!Return, M!Release
<1>2. CallsOK
  BY DEF IInv
<1>3. /\ op' = [op EXCEPT ![t] = NoCall] /\ arg' = [arg EXCEPT ![t] = NoArg]
      /\ UNCHANGED <<todo, listed>>
  BY DEF Return
<1>4. Work(op[t], arg[t], {})
  <2>1. PICK failed \in Failures(op[t].h) : Work(op[t], arg[t], failed)
    BY DEF Return
  <2>2. Failures(op[t].h) = {{}}
    BY DEF Failures, PlainUse
  <2>3. failed = {}
    BY <2>2
  <2> QED
    BY <2>1, <2>3
<1>5. FileInv' /\ \A h \in Handles : open[h] /\ listed[h] => open'[h]
  BY <1>1, <1>4, WorkDone
<1>6. \A h \in Handles : listed'[h] => open'[h]
  BY <1>2, <1>3, <1>5 DEF CallsOK
<1>7. /\ DOMAIN op' = Threads /\ DOMAIN arg' = Threads /\ pc'[t] = "idle"
      /\ \A s \in Threads \ {t} : pc'[s] = pc[s] /\ op'[s] = op[s]
  BY <1>1, <1>2, <1>3 DEF CallsOK
<1>8. CallOK(t)'
  BY <1>7 DEF CallOK
<1>9. ASSUME NEW s \in Threads \ {t} PROVE CallOK(s)'
  <2>1. pc[s] \notin {"held", "core"}
    BY <1>1, HoldersOwn DEF IInv
  <2> QED
    BY <1>2, <1>7, <2>1, WaitingOK DEF CallsOK
<1> QED
  BY <1>2, <1>3, <1>5, <1>6, <1>7, <1>8, <1>9 DEF CallsOK

LEMMA OpenFileStep ==
  ASSUME IInv, PlainUse, NEW h \in Handles, OpenFile(h)
  PROVE  FileInv' /\ CallsOK'
<1>1. owner = NoThread /\ Open(h) /\ listed' = [listed EXCEPT ![h] = TRUE]
      /\ pc' = pc /\ UNCHANGED <<op, arg, todo>>
  BY DEF OpenFile, mutex
<1>2. CallsOK /\ FileInv
  BY DEF IInv
<1>3. FileInv'
  BY <1>1, <1>2, OpenStep
<1>4. open' = [open EXCEPT ![h] = TRUE] /\ open \in [Handles -> BOOLEAN] /\ listed \in [Handles -> BOOLEAN]
  BY <1>1, <1>2 DEF Open, FileInv, FileTypeOK, CallsOK
<1>5. listed' \in [Handles -> BOOLEAN] /\ \A g \in Handles : listed'[g] => open'[g]
  BY <1>1, <1>2, <1>4 DEF CallsOK
<1>6. ASSUME NEW s \in Threads PROVE CallOK(s)'
  <2>1. pc[s] \notin {"held", "core"}
    BY <1>1, HoldersOwn, SharedAssumption DEF IInv
  <2> QED
    BY <1>1, <1>2, <2>1, WaitingOK DEF CallsOK
<1> QED
  BY <1>1, <1>2, <1>3, <1>5, <1>6 DEF CallsOK

LEMMA PowerLossStep ==
  ASSUME IInv, PowerLoss
  PROVE  FileInv' /\ CallsOK'
<1>1. /\ Crash /\ pc' = [t \in Threads |-> "idle"]
      /\ op' = [t \in Threads |-> NoCall] /\ arg' = [t \in Threads |-> NoArg]
      /\ todo' = [t \in Threads |-> 0] /\ listed' = [h \in Handles |-> FALSE]
  BY DEF PowerLoss, M!Reset
<1>2. FileInv'
  BY <1>1, CrashStep DEF IInv
<1>3. \A s \in Threads : CallOK(s)'
  <2> TAKE s \in Threads
  <2>1. pc'[s] = "idle"
    BY <1>1
  <2> QED
    BY <2>1 DEF CallOK
<1> QED
  BY <1>1, <1>2, <1>3 DEF CallsOK

LEMMA InitIInv ==
  ASSUME Init
  PROVE  IInv
<1>1. MutexInv
  BY InitHeld
<1>2. /\ disk = <<>> /\ ram = [h \in Handles |-> <<>>] /\ changed = [h \in Handles |-> FALSE]
      /\ erred = [h \in Handles |-> FALSE] /\ open = [h \in Handles |-> FALSE]
      /\ pages = [h \in Handles |-> [q \in {} |-> <<>>]] /\ pos = [h \in Handles |-> 0]
      /\ size = [h \in Handles |-> 0] /\ pending = [h \in Handles |-> None] /\ flushed = <<>>
  BY DEF Init, FileInit
<1>3. <<>> \in Seq(Byte) /\ Len(<<>>) = 0 /\ 0 \in 0..MaxSize /\ 0 <= MaxSize
  BY Constants
<1>4. AskedOK(None)
  BY <1>3, ApplyNone
<1>5. PagesOK([q \in {} |-> <<>>])
  BY DEF PagesOK
<1>6. FileTypeOK
  BY <1>2, <1>3, <1>4, <1>5 DEF FileTypeOK
<1>7. FileInv
  BY <1>2, <1>6 DEF FileInv
<1>8. pc = [t \in Threads |-> "idle"] /\ op = [t \in Threads |-> NoCall]
      /\ arg = [t \in Threads |-> NoArg] /\ todo = [t \in Threads |-> 0]
      /\ listed = [h \in Handles |-> FALSE]
  BY DEF Init, M!Init
<1>9. \A s \in Threads : CallOK(s)
  <2> TAKE s \in Threads
  <2>1. pc[s] = "idle"
    BY <1>8
  <2> QED
    BY <2>1 DEF CallOK
<1>10. CallsOK
  BY <1>8, <1>9 DEF CallsOK
<1> QED
  BY <1>1, <1>7, <1>10 DEF IInv

LEMMA NextIInv ==
  ASSUME IInv, PlainUse, [Next]_vars
  PROVE  IInv'
<1>1. MutexInv'
  BY StepHeld DEF IInv
<1>2. FileInv
  BY DEF IInv
<1>3. ASSUME NEW t \in Threads, NEW kind \in Kinds, NEW h \in Handles, Enter(t, kind, h)
      PROVE  FileInv' /\ CallsOK'
  BY <1>2, <1>3, EnterCalls, FileSame DEF Enter
<1>4. ASSUME NEW t \in Threads, Lock(t) PROVE FileInv' /\ CallsOK'
  BY <1>2, <1>4, LockCalls, FileSame DEF Lock
<1>5. ASSUME NEW t \in Threads, EnterCore(t) PROVE FileInv' /\ CallsOK'
  BY <1>2, <1>5, EnterCoreCalls, FileSame DEF EnterCore
<1>6. ASSUME NEW t \in Threads, LeaveCore(t) PROVE FileInv' /\ CallsOK'
  BY <1>2, <1>6, LeaveCoreCalls, FileSame DEF LeaveCore
<1>7. ASSUME NEW t \in Threads, Return(t) PROVE FileInv' /\ CallsOK'
  BY <1>7, ReturnStep
<1>8. ASSUME NEW h \in Handles, OpenFile(h) PROVE FileInv' /\ CallsOK'
  BY <1>8, OpenFileStep
<1>9. ASSUME PowerLoss PROVE FileInv' /\ CallsOK'
  BY <1>9, PowerLossStep
<1>10. ASSUME UNCHANGED vars PROVE FileInv' /\ CallsOK'
  <2>1. UNCHANGED contents /\ UNCHANGED <<pc, op, arg, todo, listed, pos, open>>
    BY <1>10 DEF vars, mutex, contents, handle
  <2>2. CallsOK
    BY DEF IInv
  <2>3. \A t \in Threads : CallOK(t)'
    BY <2>1, <2>2, CallSame DEF CallsOK
  <2> QED
    BY <1>2, <2>1, <2>2, <2>3, FileSame DEF CallsOK
<1>11. FileInv' /\ CallsOK'
  BY <1>3, <1>4, <1>5, <1>6, <1>7, <1>8, <1>9, <1>10 DEF Next
<1> QED
  BY <1>1, <1>11 DEF IInv

-----------------------------------------------------------------------------
(* What a handle reads, and what a flush leaves *)

\* An open handle whose contents are those asked for reads them.
LEMMA SeenIsRead ==
  ASSUME FileInv, NEW h \in Handles, open[h]
  PROVE  /\ size[h] = Len(Wanted(h))
         /\ \A p \in 0..(size[h] - 1) :
              IF Unfilled(h, p) THEN Wanted(h)[p + 1] = Zero
              ELSE ReadByte(h, p) = Wanted(h)[p + 1]
<1> DEFINE c == ram[h]
           ps == pages[h]
           n == size[h]
           w == Wanted(h)
<1>1. c \in Seq(Byte) /\ PagesOK(ps) /\ n \in Nat
  BY HandleFacts
<1>2. w = Seen(c, ps, n)
  BY DEF FileInv, HandleOK
<1>3. Len(w) = n /\ \A p \in 0..(n - 1) :
        w[p + 1] = IF PageOf(p) \in DOMAIN ps THEN PageByte(ps, p) ELSE ByteOf(c, p)
  <2> HIDE DEF w, c, ps, n
  <2> QED
    BY <1>1, <1>2, SeenProperties
<1> HIDE DEF w
<1>4. ASSUME NEW p \in 0..(n - 1)
      PROVE  IF Unfilled(h, p) THEN w[p + 1] = Zero ELSE ReadByte(h, p) = w[p + 1]
  <2>1. p \in Nat /\ Len(c) \in Nat
    BY <1>1
  <2>2. CASE PageOf(p) \in DOMAIN ps
    <3>1. w[p + 1] = PageByte(ps, p)
      BY <1>3, <2>2
    <3> QED
      BY <2>2, <3>1 DEF Unfilled, ReadByte, PageByte
  <2>3. CASE PageOf(p) \notin DOMAIN ps /\ p < Len(c)
    <3>1. w[p + 1] = c[p + 1]
      BY <1>3, <2>3 DEF ByteOf
    <3>2. ~(p >= Len(c))
      BY <2>1, <2>3
    <3> QED
      BY <2>3, <3>1, <3>2 DEF Unfilled, ReadByte
  <2>4. CASE PageOf(p) \notin DOMAIN ps /\ ~(p < Len(c))
    <3>1. w[p + 1] = Zero
      BY <1>3, <2>4 DEF ByteOf
    <3>2. p >= Len(c)
      BY <2>1, <2>4
    <3> QED
      BY <2>4, <3>1, <3>2 DEF Unfilled
  <2> QED
    BY <2>2, <2>3, <2>4
<1> QED
  BY <1>3, <1>4 DEF w

(* Of a file that one handle has open, cut at the ends of pages and with   *)
(* room for what is written: every read gives the bytes last written or    *)
(* flushed, wherever they are, in a page or in the file, and whatever      *)
(* other threads do meanwhile; it passes over nothing but the zeros of a   *)
(* gap (VFSFileObject::read, load_page_if_needed).                         *)
THEOREM ReadsCorrect ==
  ASSUME PlainUse
  PROVE  Spec => []ReadsAsWritten
<1>1. Init => IInv
  BY InitIInv
<1>2. IInv /\ [Next]_vars => IInv'
  BY NextIInv
<1>3. IInv => ReadsAsWritten
  BY SeenIsRead DEF IInv, ReadsAsWritten
<1> QED BY <1>1, <1>2, <1>3, PTL DEF Spec

(* Of such a file, what is committed after every flush, close and truncate *)
(* is all that was asked for until then, and power loss takes none of it   *)
(* away (flush_internal).                                                  *)
THEOREM FlushDurable ==
  ASSUME PlainUse
  PROVE  Spec => []DurableAsFlushed
<1>1. Init => IInv
  BY InitIInv
<1>2. IInv /\ [Next]_vars => IInv'
  BY NextIInv
<1>3. IInv => DurableAsFlushed
  BY DEF IInv, FileInv, DurableAsFlushed
<1> QED BY <1>1, <1>2, <1>3, PTL DEF Spec
=============================================================================
